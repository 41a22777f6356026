---------------------------- MODULE MCSoapGateway ----------------------------
(* Instances of SoapGateway for TLC.                                       *)
EXTENDS SoapGateway, TLC

CONSTANTS d1, d2, c1, c2

TwoDocuments == {d1, d2}
TwoCalls == {c1, c2}

Symmetry == Permutations(Calls) \cup Permutations(Documents)
=============================================================================
