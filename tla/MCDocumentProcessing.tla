------------------------ MODULE MCDocumentProcessing ------------------------
(* Instances of DocumentProcessing for TLC.                                *)
EXTENDS DocumentProcessing, TLC

CONSTANTS d1, r1, r2, r3

OneDocument == {d1}
OneRequest == {r1}
TwoRequests == {r1, r2}
ThreeRequests == {r1, r2, r3}

Symmetry == Permutations(Requests)
=============================================================================
