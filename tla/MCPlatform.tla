----------------------------- MODULE MCPlatform -----------------------------
(* Instances of Platform for TLC.                                          *)
EXTENDS Platform, TLC

CONSTANTS d1, d2, r1, r2

OneDocument == {d1}
TwoDocuments == {d1, d2}
TwoRequests == {r1, r2}

\* d1 is of a type the rules know, d2 of one they do not.
TypeOf == (d1 :> "tax_filing") @@ (d2 :> "other")

\* What ProcessingFaults adds to these, a failed read and a refused webhook,
\* happens before or after anything the gateway does.
CompositionFaults == {"update", "event", "gateway", "gateway_timeout", "crash"}
AllGatewayFaults == {"upstream", "upstream_timeout", "save", "event", "crash"}

\* The failures that end with a gateway error and not with a lost answer.
HandledGatewayFaults == {"upstream", "upstream_timeout", "save", "event"}

Symmetry == Permutations(Requests)
=============================================================================
