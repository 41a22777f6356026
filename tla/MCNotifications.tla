--------------------------- MODULE MCNotifications ---------------------------
(* Instances of Notifications for TLC.                                     *)
EXTENDS Notifications, TLC

CONSTANTS d1, r1, r2, p1

OneDocument == {d1}
TwoRequests == {r1, r2}
OnePage == {p1}
TypeOf == d1 :> "tax_filing"

\* A failed read changes nothing, and happens before anything else does.
EndpointFaults ==
  {"update", "event", "gateway", "gateway_timeout", "webhook", "webhook_timeout", "crash"}
AllGatewayFaults == {"upstream", "upstream_timeout", "save", "event", "crash"}

Symmetry == Permutations(Requests)
=============================================================================
