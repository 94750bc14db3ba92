-------------------------------- MODULE OcrText --------------------------------
(***************************************************************************)
(* The text of an uploaded file: the dispatch on its declared type         *)
(* (ocr/dispatch.py), the extraction from PDFs (ocr/providers/pdfplumber)  *)
(* and the image preprocessing in front of tesseract                       *)
(* (ocr/providers/tesseract.py).                                           *)
(*                                                                         *)
(* A page is a record of the words on it, its grey histogram when it is    *)
(* scanned, and whether reading it raises.  A text is the set of its       *)
(* words; the empty set stands for a blank one.  Confidences and method    *)
(* names of pages are only displayed and are left out, so is the deskew,   *)
(* which rotates a page.                                                   *)
(***************************************************************************)
EXTENDS Integers, Sequences, FiniteSetsExt, Functions

CONSTANTS
    Levels,       \* grey levels of a pixel, 256 in the code
    LowPercent,   \* the percentiles that are stretched to black and white,
    HighPercent   \* 2 and 98 in the code

ASSUME OcrAssumption ==
    Levels \in Nat \ {0, 1} /\ LowPercent \in 1 .. 99 /\ HighPercent \in LowPercent + 1 .. 99

Greys == 0 .. Levels - 1
White == Levels - 1
Identity == [i \in Greys |-> i]

Total(h) == SumFunction(h)
Weight(h) == SumFunction([i \in Greys |-> i * h[i]])

\* The levels between which the histogram is stretched.  The loop takes a lower
\* level only while it still has 0, so a level found at 0 moves on to 1.
Reaches(h, i, percent) == 100 * SumFunctionOnSet(h, 0 .. i) >= percent * Total(h)
HighLevel(h) == Min({i \in Greys : Reaches(h, i, HighPercent)})
LowLevel(h) ==
    LET found == {i \in 1 .. HighLevel(h) : Reaches(h, i, LowPercent)}
    IN  IF found = {} THEN 0 ELSE Min(found)

Stretch(lo, hi) ==
    [i \in Greys |-> IF i <= lo THEN 0 ELSE IF i >= hi THEN White ELSE ((i - lo) * White) \div (hi - lo)]

\* Mutation: the levels are used although they have met.
stretch_always(h) == IF Total(h) = 0 THEN Identity ELSE Stretch(LowLevel(h), HighLevel(h))

build_contrast_stretch_lut(h) ==
    IF Total(h) = 0 \/ HighLevel(h) <= LowLevel(h) THEN Identity
    ELSE Stretch(LowLevel(h), HighLevel(h))

\* The histogram of the page after gray.point(lut).
Enhanced(h) ==
    LET lut == build_contrast_stretch_lut(h)
    IN  [g \in Greys |-> SumFunctionOnSet(h, {i \in Greys : lut[i] = g})]

\* One round of the loop over thresholds.  The variance between the classes,
\* w_b * w_f * (m_b - m_f)^2, is kept as a fraction.
OtsuStep(h, s, t) ==
    LET wb == s.wb + h[t]
        sb == s.sb + t * h[t]
        wf == Total(h) - wb
        gap == sb * wf - (Weight(h) - sb) * wb
        num == gap * gap
        den == wb * wf
    IN  IF den = 0 THEN [s EXCEPT !.wb = wb]
        ELSE IF num * s.den > s.num * den
        THEN [wb |-> wb, sb |-> sb, num |-> num, den |-> den, best |-> t]
        ELSE [s EXCEPT !.wb = wb, !.sb = sb]

\* Mutation: the weight of the class is updated after its mean has been used.
OtsuStepLate(h, s, t) ==
    LET wb == s.wb + h[t]
        wf == Total(h) - wb
        gap == s.sb * wf - (Weight(h) - s.sb) * wb
        num == gap * gap
        den == wb * wf
        next == [s EXCEPT !.wb = wb, !.sb = s.sb + t * h[t]]
    IN  IF den = 0 THEN [s EXCEPT !.wb = wb]
        ELSE IF num * s.den > s.num * den
        THEN [next EXCEPT !.num = num, !.den = den, !.best = t]
        ELSE next

OtsuRound(h, s, t) == OtsuStep(h, s, t)

\* What the loop knows before threshold t is tried; at first nothing was tried.
OtsuStart == [wb |-> 0, sb |-> 0, num |-> 0, den |-> 1, best |-> Levels \div 2]
OtsuLoop(h) ==
    LET before[t \in 0 .. Levels] ==
            IF t = 0 THEN OtsuStart ELSE OtsuRound(h, before[t - 1], t - 1)
    IN  before

otsu_threshold(h) == OtsuLoop(h)[Levels].best

\* The colours a page has after preprocessing.
preprocess_image(h) ==
    LET enhanced == Enhanced(h)
        threshold == otsu_threshold(enhanced)
    IN  {IF g > threshold THEN White ELSE 0 : g \in {i \in Greys : enhanced[i] > 0}}

\* External: tesseract reads the words of a page that is not all one colour.  It
\* may read less; what the preprocessing decides is whether anything is left.
ocr_page(page) == IF Cardinality(preprocess_image(page.grey)) = 2 THEN page.words ELSE {}

full_text(texts) == UNION {texts[i] : i \in DOMAIN texts}
Raises(file) == \E i \in DOMAIN file.pages : file.pages[i].raises

\* A file the library cannot open, or a page that raises, is one blank page.
tesseract_extract(file) ==
    IF file.content # "image" \/ Raises(file) THEN {}
    ELSE full_text([i \in DOMAIN file.pages |-> ocr_page(file.pages[i])])

Words(file) == [i \in DOMAIN file.pages |-> file.pages[i].words]
pdfplumber_extract(file) ==
    IF file.content # "pdf" \/ Raises(file) THEN {} ELSE full_text(Words(file))

\* The declared types are sent by the client and need not fit the content.
extract_text(file) ==
    CASE file.mime = "text" ->
            IF file.content = "text" THEN full_text(Words(file)) ELSE {"other"}
      [] file.mime = "pdf" ->
            IF pdfplumber_extract(file) # {} THEN pdfplumber_extract(file) ELSE tesseract_extract(file)
      [] OTHER -> tesseract_extract(file)

(***************************************************************************)
(* What the two algorithms are for                                         *)
(***************************************************************************)

\* Squared deviations of the levels in S from their mean, times their number.
Scatter(h, S) ==
    LET n == SumFunctionOnSet(h, S)
        sum == SumFunctionOnSet([i \in Greys |-> i * h[i]], S)
    IN  n * SumFunctionOnSet([i \in Greys |-> i * i * h[i]], S) - sum * sum

\* Otsu's threshold splits the pixels so that the deviations inside the two
\* classes are smallest; one class has no spread, nothing to split.
Splits(h, t) == SumFunctionOnSet(h, 0 .. t) \notin {0, Total(h)}
Within(h, t) ==
    LET n == SumFunctionOnSet(h, 0 .. t)
    IN  [num |-> Scatter(h, 0 .. t) * (Total(h) - n) + Scatter(h, t + 1 .. White) * n,
         den |-> n * (Total(h) - n)]
IsOtsu(h, t) ==
    /\ Splits(h, t)
    /\ \A u \in Greys : Splits(h, u) => Within(h, t).num * Within(h, u).den <= Within(h, u).num * Within(h, t).den

\* A scan shows something when it has two shades; a file can be read when no
\* page raises and some page that shows something has words.
Shows(h) == \E i, j \in Greys : i # j /\ h[i] > 0 /\ h[j] > 0
Readable(file) ==
    \/ file.mime = "text" /\ (file.content = "text" => \E i \in DOMAIN file.pages : file.pages[i].words # {})
    \/ /\ ~Raises(file)
       /\ file.mime = "pdf" => file.content \in {"pdf", "image"}
       /\ file.mime # "pdf" => file.mime # "text" /\ file.content = "image"
       /\ \E i \in DOMAIN file.pages :
             file.pages[i].words # {} /\ (file.content = "image" => Shows(file.pages[i].grey))
=============================================================================
