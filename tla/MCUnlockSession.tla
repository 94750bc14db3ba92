---------------------------- MODULE MCUnlockSession ----------------------------
\* Small instances of UnlockSession for TLC.
EXTENDS UnlockSession, TLC

\* Tokens other than the one of the initial setup are interchangeable.
TokenSymmetry == Permutations(Tokens \ {SetupToken})
=============================================================================
