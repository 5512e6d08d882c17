----------------------------- MODULE MCReviewCase -----------------------------
EXTENDS ReviewCase, TLC

MCSymmetry == Permutations(Cases) \cup Permutations(Attempts)
=============================================================================
