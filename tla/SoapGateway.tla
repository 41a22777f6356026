----------------------------- MODULE SoapGateway -----------------------------
(***************************************************************************)
(* POST /api/v1/compliance/check of services/soap-gateway.                 *)
(*                                                                         *)
(* Flask's server runs every request on a thread of its own.  A call asks  *)
(* the SOAP server, saves what it made of the answer in compliance_checks  *)
(* (PostgreSQL), inserts an event (MongoDB) and only then replies: each is *)
(* a step here.  The caller may be gone by then; the call does not notice. *)
(***************************************************************************)
EXTENDS Integers, Sequences, FiniteSets

CONSTANTS
  Documents,       \* document ids
  Calls,           \* the checks; a call stands for its check_id too
  None,            \* Python's None
  GatewayFaults,   \* which failures the environment may inject
  MaxClock         \* the last second the model's clock reaches

GatewayFaultKinds ==
  {"upstream",          \* UpstreamSoapError: the SOAP server is not reached
   "upstream_timeout",  \* a bare TimeoutError while its answer is awaited
   "save", "event",     \* PostgreSQL and MongoDB calls
   "crash"}             \* the process dies, with all its threads

Verdicts == {"COMPLIANT", "NON_COMPLIANT"}
Times == 0..MaxClock

ASSUME GatewayFaultsAreKnown == GatewayFaults \subseteq GatewayFaultKinds
ASSUME ClockIsBounded == MaxClock \in Nat

VARIABLES
  known,              \* the documents that have a row in PostgreSQL
  clock,              \* the time in seconds: utc_now() drops the microseconds
  compliance_checks,  \* PostgreSQL: the rows, in the order of created_at
  gateway_events,     \* MongoDB: the gateway's events, in the order of insertion
  stage,              \* the call to another system a check is about to make
  subject,            \* the document a check is about
  record,             \* the ComplianceRecord it is going to save
  reply               \* what it replied: HTTP status, and the status in the body

callVars == <<stage, subject, record, reply>>
gatewayVars == <<clock, compliance_checks, gateway_events, callVars>>
vars == <<known, gatewayVars>>

-----------------------------------------------------------------------------
\* What a SOAP server may answer; checked_at = None: CheckId or CheckedAt is
\* missing or malformed.  document_id is optional in the answer.
SoapReplies ==
  [http : {200, 500}, kind : {"unreadable", "client_fault", "server_fault"}]
  \cup [http : {200, 500}, kind : {"result"}, document_id : Documents \cup {None},
        status : Verdicts, checked_at : Times \cup {None}]

Active == {"upstream", "save", "event"}
CheckRows == [document_id : Documents, check_id : Calls, status : Verdicts \cup {"FAILED"},
              checked_at : Times, response : SoapReplies]
CheckEvents == [document_id : Documents, check_id : Calls, status : Verdicts \cup {"FAILED"}]
Replies == [code : {200, 400, 404, 500, 502}, status : Verdicts \cup {"FAILED", None}]

ASSUME NoneIsNoValue ==
  /\ None \notin Documents \cup Calls
  /\ None \notin Times
  /\ None \notin Verdicts \cup {"FAILED"}
  /\ None \notin Replies

GatewayInit ==
  /\ clock = 0
  /\ compliance_checks = <<>>
  /\ gateway_events = <<>>
  /\ stage = [c \in Calls |-> "idle"]
  /\ subject = [c \in Calls |-> None]
  /\ record = [c \in Calls |-> None]
  /\ reply = [c \in Calls |-> None]

Init == known = {} /\ GatewayInit

\* Mutants: the document, or the identification of the check, is not looked at.
AcceptableOfAnyDocument(soap, d) ==
  soap.kind = "result" /\ soap.http < 400 /\ soap.checked_at # None

AcceptableUnidentified(soap, d) ==
  soap.kind = "result" /\ soap.http < 400 /\ soap.document_id \in {None, d}

\* parse_compliance_response and _validate_successful_soap_response: the answer
\* is a compliance result of this very document.
Acceptable(soap, d) ==
  /\ soap.kind = "result"
  /\ soap.http < 400
  /\ soap.document_id \in {None, d}
  /\ soap.checked_at # None

\* Mutant: a failed check is saved as a negative verdict.
RecordOfNegative(soap, d, c) ==
  [document_id |-> d, check_id |-> c, response |-> soap,
   status      |-> IF Acceptable(soap, d) THEN soap.status ELSE "NON_COMPLIANT",
   checked_at  |-> IF Acceptable(soap, d) THEN soap.checked_at ELSE clock]

\* The record to be saved: the server's verdict under the server's time, or a
\* failure under the gateway's own.
RecordOf(soap, d, c) ==
  [document_id |-> d, check_id |-> c, response |-> soap,
   status      |-> IF Acceptable(soap, d) THEN soap.status ELSE "FAILED",
   checked_at  |-> IF Acceptable(soap, d) THEN soap.checked_at ELSE clock]

EventOf(row) ==
  [document_id |-> row.document_id, check_id |-> row.check_id, status |-> row.status]

\* The HTTP status of the reply: a client fault is the caller's, any other
\* failure the server's.
ReplyCode(row) ==
  IF row.status \in Verdicts THEN 200
  ELSE IF row.response.kind = "client_fault" THEN 400 ELSE 502

Enter(c, from, to) ==
  /\ stage[c] = from
  /\ stage' = [stage EXCEPT ![c] = to]

Reply(c, from, code, status) ==
  /\ Enter(c, from, "answered")
  /\ reply' = [reply EXCEPT ![c] = [code |-> code, status |-> status]]

\* An insertion that raised may have been applied all the same.
MaybeInsert(e) == gateway_events' \in {gateway_events, Append(gateway_events, e)}

-----------------------------------------------------------------------------
ReceiveCheck(c, d) ==
  /\ Enter(c, "idle", "upstream")
  /\ subject' = [subject EXCEPT ![c] = d]
  /\ UNCHANGED <<clock, compliance_checks, gateway_events, record, reply>>

\* A body that is no JSON object, or lacks a valid document_id or a type.
RejectCheck(c) ==
  /\ Reply(c, "idle", 400, None)
  /\ UNCHANGED <<clock, compliance_checks, gateway_events, subject, record>>

\* check_compliance, once the SOAP server answered.
TakeSoapReply(c, soap) ==
  /\ Enter(c, "upstream", "save")
  /\ record' = [record EXCEPT ![c] = RecordOf(soap, subject[c], c)]
  /\ UNCHANGED <<clock, compliance_checks, gateway_events, subject, reply>>

\* No answer: nothing is saved, and no status is told.  A timeout while the
\* answer is awaited is no URLError, and Flask turns it into a plain 500.
NoSoapReply(c) ==
  /\ \/ "upstream" \in GatewayFaults /\ Reply(c, "upstream", 502, None)
     \/ "upstream_timeout" \in GatewayFaults /\ Reply(c, "upstream", 500, None)
  /\ UNCHANGED <<clock, compliance_checks, gateway_events, subject, record>>

\* Mutant: a failed save is ignored.
SaveCheckBestEffort(c) ==
  /\ Enter(c, "save", "event")
  /\ \/ subject[c] \in known /\ compliance_checks' = Append(compliance_checks, record[c])
     \/ UNCHANGED compliance_checks
  /\ UNCHANGED <<clock, gateway_events, subject, record, reply>>

\* save_check: the foreign key refuses a document PostgreSQL does not know.
SaveCheck(c) ==
  LET row == record[c] IN
  /\ \/ /\ subject[c] \in known
        /\ Enter(c, "save", "event")
        /\ compliance_checks' = Append(compliance_checks, row)
        /\ UNCHANGED reply
     \/ /\ subject[c] \notin known
        /\ Reply(c, "save", 404, None)
        /\ UNCHANGED compliance_checks
     \/ /\ "save" \in GatewayFaults
        /\ Reply(c, "save", 500, None)
        /\ \/ subject[c] \in known /\ compliance_checks' = Append(compliance_checks, row)
           \/ UNCHANGED compliance_checks
  /\ UNCHANGED <<clock, gateway_events, subject, record>>

\* Mutant: a failed insertion is ignored.
InsertEventBestEffort(c) ==
  /\ Reply(c, "event", ReplyCode(record[c]), record[c].status)
  /\ MaybeInsert(EventOf(record[c]))
  /\ UNCHANGED <<clock, compliance_checks, subject, record>>

\* insert_event and the reply.  When the event fails the caller is told that
\* the result could not be persisted, and not what it was.
InsertEvent(c) ==
  LET row == record[c] IN
  /\ \/ /\ Reply(c, "event", ReplyCode(row), row.status)
        /\ gateway_events' = Append(gateway_events, EventOf(row))
     \/ /\ "event" \in GatewayFaults
        /\ Reply(c, "event", 500, None)
        /\ MaybeInsert(EventOf(row))
  /\ UNCHANGED <<clock, compliance_checks, subject, record>>

GatewayCrash ==
  /\ "crash" \in GatewayFaults
  /\ \E c \in Calls : stage[c] \in Active
  /\ stage' = [c \in Calls |-> IF stage[c] \in Active THEN "lost" ELSE stage[c]]
  /\ UNCHANGED <<clock, compliance_checks, gateway_events, subject, record, reply>>

Tick ==
  /\ clock < MaxClock
  /\ clock' = clock + 1
  /\ UNCHANGED <<compliance_checks, gateway_events, callVars>>

AddDocument(d) ==
  /\ d \notin known
  /\ known' = known \cup {d}
  /\ UNCHANGED gatewayVars

-----------------------------------------------------------------------------
GatewayStep(c) == NoSoapReply(c) \/ SaveCheck(c) \/ InsertEvent(c)

Next ==
  \/ \E d \in Documents : AddDocument(d)
  \/ /\ \/ \E c \in Calls, d \in Documents : ReceiveCheck(c, d)
        \/ \E c \in Calls : RejectCheck(c)
        \/ \E c \in Calls, soap \in SoapReplies : TakeSoapReply(c, soap)
        \/ \E c \in Calls : GatewayStep(c)
        \/ GatewayCrash
        \/ Tick
     /\ UNCHANGED known

Spec == Init /\ [][Next]_vars
-----------------------------------------------------------------------------
\* get_latest_by_document_id: ORDER BY checked_at DESC, created_at DESC LIMIT 1,
\* as a position in compliance_checks; 0 when the document was never checked.
ChecksOf(d) == {i \in DOMAIN compliance_checks : compliance_checks[i].document_id = d}

\* Mutants: ORDER BY created_at DESC; ORDER BY checked_at DESC, created_at.
SupersedesByInsertion(i, j) == i >= j

SupersedesOldestOfTies(i, j) ==
  \/ compliance_checks[i].checked_at > compliance_checks[j].checked_at
  \/ compliance_checks[i].checked_at = compliance_checks[j].checked_at /\ i <= j

Supersedes(i, j) ==
  \/ compliance_checks[i].checked_at > compliance_checks[j].checked_at
  \/ compliance_checks[i].checked_at = compliance_checks[j].checked_at /\ i >= j

Latest(d) ==
  IF ChecksOf(d) = {} THEN 0
  ELSE CHOOSE i \in ChecksOf(d) : \A j \in ChecksOf(d) : Supersedes(i, j)

\* GET /status/{document_id}
compliance_status(d) ==
  IF Latest(d) = 0 THEN [code |-> 404, check |-> None]
                   ELSE [code |-> 200, check |-> compliance_checks[Latest(d)]]

-----------------------------------------------------------------------------
(* Properties.                                                             *)

\* Every variable holds what the code can put there.
TypeOK ==
  /\ known \subseteq Documents
  /\ clock \in Times
  /\ compliance_checks \in Seq(CheckRows)
  /\ gateway_events \in Seq(CheckEvents)
  /\ stage \in [Calls -> Active \cup {"idle", "answered", "lost"}]
  /\ subject \in [Calls -> Documents \cup {None}]
  /\ record \in [Calls -> CheckRows \cup {None}]
  /\ reply \in [Calls -> Replies \cup {None}]
  /\ \A c \in Calls : stage[c] \in Active => subject[c] \in Documents
  /\ \A c \in Calls : stage[c] \in {"save", "event"} => record[c] \in CheckRows

Saved(row) == \E i \in DOMAIN compliance_checks : compliance_checks[i] = row
Inserted(e) == \E i \in DOMAIN gateway_events : gateway_events[i] = e

\* A reply that tells a status tells the one in PostgreSQL and in MongoDB, of
\* the document that was asked about.
ReplyIsRecorded ==
  \A c \in Calls :
    reply[c] # None /\ reply[c].status # None =>
      \E i \in ChecksOf(subject[c]) :
        /\ compliance_checks[i].check_id = c
        /\ compliance_checks[i].status = reply[c].status
        /\ Inserted(EventOf(compliance_checks[i]))

\* No event tells of a check that PostgreSQL does not have, and every saved
\* check is of a document PostgreSQL knows.
EventFollowsCheck ==
  /\ \A e \in {gateway_events[i] : i \in DOMAIN gateway_events} :
       \E j \in DOMAIN compliance_checks : EventOf(compliance_checks[j]) = e
  /\ \A j \in DOMAIN compliance_checks : compliance_checks[j].document_id \in known

\* A verdict in PostgreSQL is what a SOAP server said of that document: never of
\* another one, never under an HTTP error, a Fault or a missing identification.
Vouched(row) ==
  row.status # "FAILED" =>
    /\ row.response.kind = "result"
    /\ row.response.http < 400
    /\ row.response.status = row.status
    /\ row.response.document_id \in {row.document_id, None}
    /\ row.response.checked_at = row.checked_at

VerdictIsVouched == \A i \in DOMAIN compliance_checks : Vouched(compliance_checks[i])

\* What GET /status tells of a document never goes back: a check that took
\* longer does not hide one the server made after it, and no verdict is lost.
LatestNeverGoesBack ==
  [][\A d \in Documents :
       LET was == compliance_status(d)
           now == compliance_status(d)'
       IN  was.code = 200 =>
             now.code = 200 /\ now.check.checked_at >= was.check.checked_at]_vars

=============================================================================
