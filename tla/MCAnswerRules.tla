----------------------------- MODULE MCAnswerRules -----------------------------
\* Small instances of AnswerRules for TLC.
EXTENDS AnswerRules

\* Five grey levels with 0, 1 or 3 pixels each: every shape of histogram with
\* up to five shades, balanced and skewed.
Histograms == [Greys -> {0, 1, 3}]
NoHistogram == [g \in Greys |-> 0]
OneShade == [NoHistogram EXCEPT ![3] = 3]
TwoShades == [OneShade EXCEPT ![1] = 1]

Page(words, grey, raises) == [words |-> words, grey |-> grey, raises |-> raises]
File(mime, content, pages) == [mime |-> mime, content |-> content, pages |-> pages]
Mimes == {"text", "pdf", "image", "unknown"}

\* Any two keywords, with or without an uncertain word.
Texts == {ks \union maybe : ks \in {k \in SUBSET Keywords : Cardinality(k) <= 2}, maybe \in SUBSET {"maybe"}}

MCFiles ==
    {File("text", "text", <<Page(words, NoHistogram, FALSE)>>) : words \in Texts}
    \union {File("image", "image", <<Page({"salary"}, h, FALSE)>>) : h \in Histograms}
    \union {File(mime, content, <<Page({"wfh"}, h1, r1), Page(w2, h2, FALSE)>>) :
              mime \in Mimes, content \in {"text", "pdf", "image"}, w2 \in {{}, {"donation", "maybe"}},
              h1 \in {OneShade, TwoShades}, h2 \in {OneShade, TwoShades}, r1 \in BOOLEAN}
=============================================================================
