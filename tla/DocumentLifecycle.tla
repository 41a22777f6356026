-------------------------- MODULE DocumentLifecycle --------------------------
(***************************************************************************)
(* What the processing endpoint promises about documents.status, with no   *)
(* word about handlers, stores or messages.  A document is created         *)
(* UPLOADED; an attempt to process it is accepted, starts it (PROCESSING)  *)
(* and settles it (a final status), or is abandoned on the way.            *)
(*                                                                         *)
(* Exclusive is the promise of InvalidDocumentStateError ("Document is     *)
(* already processing"): no attempt is accepted while another one is open. *)
(* With Exclusive = FALSE attempts may overlap, and all that is left is    *)
(* that an attempt changes a document only after it was accepted and only  *)
(* once in each direction.                                                 *)
(***************************************************************************)
CONSTANTS
  Documents,   \* the documents
  Attempts,    \* the attempts to process one
  Exclusive    \* TRUE: one open attempt per document

VARIABLES
  status,      \* status[d]: "ABSENT" until the document is created
  accepted,    \* accepted[d]: attempts allowed to start, not started yet
  running      \* running[d]: attempts that started and did not settle

vars == <<status, accepted, running>>

Outcomes == {"COMPLIANT", "NON_COMPLIANT", "FAILED"}

Open(d) == accepted[d] \cup running[d]

Init ==
  /\ status = [d \in Documents |-> "ABSENT"]
  /\ accepted = [d \in Documents |-> {}]
  /\ running = [d \in Documents |-> {}]

Create(d) ==
  /\ status[d] = "ABSENT"
  /\ status' = [status EXCEPT ![d] = "UPLOADED"]
  /\ UNCHANGED <<accepted, running>>

Accept(a, d) ==
  /\ status[d] \notin {"ABSENT", "PROCESSING"}
  /\ Exclusive => Open(d) = {}
  /\ accepted' = [accepted EXCEPT ![d] = @ \cup {a}]
  /\ UNCHANGED <<status, running>>

Start(a, d) ==
  /\ a \in accepted[d]
  /\ status' = [status EXCEPT ![d] = "PROCESSING"]
  /\ accepted' = [accepted EXCEPT ![d] = @ \ {a}]
  /\ running' = [running EXCEPT ![d] = @ \cup {a}]

\* The start took effect but its author was told it did not, and gave up.
StartUnacknowledged(a, d) ==
  /\ a \in accepted[d]
  /\ status' = [status EXCEPT ![d] = "PROCESSING"]
  /\ accepted' = [accepted EXCEPT ![d] = @ \ {a}]
  /\ UNCHANGED running

Settle(a, d, outcome) ==
  /\ a \in running[d]
  /\ status' = [status EXCEPT ![d] = outcome]
  /\ running' = [running EXCEPT ![d] = @ \ {a}]
  /\ UNCHANGED accepted

Abandon(a, d) ==
  /\ accepted' = [accepted EXCEPT ![d] = @ \ {a}]
  /\ running' = [running EXCEPT ![d] = @ \ {a}]
  /\ UNCHANGED status

AbandonAll ==
  /\ accepted' = [d \in Documents |-> {}]
  /\ running' = [d \in Documents |-> {}]
  /\ UNCHANGED status

Next ==
  \/ \E d \in Documents : Create(d)
  \/ \E a \in Attempts, d \in Documents :
       \/ Accept(a, d)
       \/ Start(a, d)
       \/ StartUnacknowledged(a, d)
       \/ \E outcome \in Outcomes : Settle(a, d, outcome)
       \/ Abandon(a, d)
  \/ AbandonAll

Spec == Init /\ [][Next]_vars
=============================================================================
