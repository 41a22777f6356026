----------------------------- MODULE MCFrontend -----------------------------
(* Instances of Frontend for TLC.                                          *)
EXTENDS Frontend, TLC

CONSTANTS d1, d2

TwoDocuments == {d1, d2}
OneDocument == {d1}
=============================================================================
