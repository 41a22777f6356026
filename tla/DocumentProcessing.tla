------------------------- MODULE DocumentProcessing -------------------------
(***************************************************************************)
(* POST /documents/{id}/process of services/document-processing.           *)
(*                                                                         *)
(* The endpoint is a plain `def` handler: FastAPI runs every request on a  *)
(* thread of its pool, so requests interleave freely.  A request talks to  *)
(* PostgreSQL (documents), MongoDB (processing_events), the SOAP Gateway   *)
(* and the BFF webhook, one call after the other and with no transaction   *)
(* around them: each call is one step here, labelled in pc[r] by the call  *)
(* the request is about to make.                                           *)
(***************************************************************************)
EXTENDS Integers, Sequences

CONSTANTS
  Documents,          \* document ids a request may name
  Requests,           \* the process requests; each is sent at most once
  None,               \* Python's None
  Faults,             \* which failures the environment may inject
  ClientsWait,        \* TRUE: no request is sent for a document that has one
                      \*       in flight (what the page's button asks for)
  WebhookConfigured   \* BFF_WEBHOOK_URL is set

FaultKinds ==
  {"read", "update", "event",        \* PostgreSQL and MongoDB calls
   "gateway", "gateway_timeout",     \* ComplianceGatewayError, bare TimeoutError
   "webhook", "webhook_timeout",     \* WebhookError, bare TimeoutError
   "crash"}                          \* the process dies, with all its threads

ASSUME FaultsAreKnown == Faults \subseteq FaultKinds
ASSUME SwitchesAreBoolean == ClientsWait \in BOOLEAN /\ WebhookConfigured \in BOOLEAN

FinalStatuses == {"COMPLIANT", "NON_COMPLIANT", "FAILED"}
DocumentStatuses == {"UPLOADED", "PROCESSING"} \cup FinalStatuses
Answers == {"200", "400", "404", "409", "500 read", "500 start", "500 result",
            "500 unhandled", "502"}

ASSUME NoneIsFresh ==
  None \notin Requests \cup Documents \cup FinalStatuses \cup {"gateway_error"} \cup Answers

VARIABLES
  documents,          \* PostgreSQL: status and processed_at of every row;
                      \* processed_at names the request whose clock stamped it
  processing_events,  \* MongoDB: the events, in the order of their insertion
  webhooks,           \* the payloads the BFF received, in order
  pc,                 \* the call a request is about to make
  target,             \* the document it names
  result,             \* the status its check returned, or "gateway_error"
  answer              \* what it was answered

requestVars == <<pc, target, result, answer>>
vars == <<documents, processing_events, webhooks, pc, target, result, answer>>

-----------------------------------------------------------------------------
Working == {"read", "mark", "start_event", "gateway", "persist", "final_event", "notify"}
Rows == [status : DocumentStatuses \cup {"ABSENT"}, processed_at : Requests \cup {None}]
Events == [document_id : Documents, status : DocumentStatuses, by : Requests]

Init ==
  /\ documents = [d \in Documents |-> [status |-> "ABSENT", processed_at |-> None]]
  /\ processing_events = <<>>
  /\ webhooks = <<>>
  /\ pc = [r \in Requests |-> "idle"]
  /\ target = [r \in Requests |-> None]
  /\ result = [r \in Requests |-> None]
  /\ answer = [r \in Requests |-> None]

InFlight(r) == pc[r] \in Working

\* Mutant: the gateway's failure is stored as it is.
FinalStatusUnmapped(r) == result[r]

\* final_status of process_document: FAILED when the gateway was no help.
FinalStatus(r) == IF result[r] = "gateway_error" THEN "FAILED" ELSE result[r]

Event(r, s) == [document_id |-> target[r], status |-> s, by |-> r]

Goto(r, from, to) ==
  /\ pc[r] = from
  /\ pc' = [pc EXCEPT ![r] = to]

Answer(r, from, code) ==
  /\ Goto(r, from, "answered")
  /\ answer' = [answer EXCEPT ![r] = code]

WriteRow(d, s, by) == documents' = [documents EXCEPT ![d] = [status |-> s, processed_at |-> by]]

\* What a store holds after a call that raised: the write may have been
\* applied all the same, when the failure hit after the server executed it.
MaybeWriteRow(d, s, by) == WriteRow(d, s, by) \/ UNCHANGED documents
MaybeLog(e) == processing_events' \in {processing_events, Append(processing_events, e)}

-----------------------------------------------------------------------------
\* An upload inserts the row; DocumentUpload models the rest of that request.
CreateDocument(d) ==
  /\ documents[d].status = "ABSENT"
  /\ WriteRow(d, "UPLOADED", None)
  /\ UNCHANGED <<processing_events, webhooks, requestVars>>

Receive(r, d) ==
  /\ Goto(r, "idle", "read")
  /\ ClientsWait => \A q \in Requests : target[q] = d => ~InFlight(q)
  /\ target' = [target EXCEPT ![r] = d]
  /\ UNCHANGED <<documents, processing_events, webhooks, result, answer>>

\* validate_uuid refuses an id that is no UUID.
RejectMalformedId(r) ==
  /\ Answer(r, "idle", "400")
  /\ UNCHANGED <<documents, processing_events, webhooks, target, result>>

\* Mutant: the status is not looked at.
ReadDocumentUnguarded(r) ==
  /\ Goto(r, "read", "mark")
  /\ UNCHANGED <<documents, processing_events, webhooks, target, result, answer>>

\* get_document and the decisions taken on the row it returned.
ReadDocument(r) ==
  LET status == documents[target[r]].status IN
  /\ pc[r] = "read"
  /\ \/ "read" \in Faults /\ Answer(r, "read", "500 read")
     \/ status = "ABSENT" /\ Answer(r, "read", "404")
     \/ status = "PROCESSING" /\ Answer(r, "read", "409")
     \/ status \notin {"ABSENT", "PROCESSING"} /\ Goto(r, "read", "mark") /\ UNCHANGED answer
  /\ UNCHANGED <<documents, processing_events, webhooks, target, result>>

\* Mutant: the UPDATE leaves the old processed_at in place.
MarkProcessingKeepsStamp(r) ==
  /\ Goto(r, "mark", "start_event")
  /\ WriteRow(target[r], "PROCESSING", documents[target[r]].processed_at)
  /\ UNCHANGED <<processing_events, webhooks, target, result, answer>>

\* update_status(PROCESSING): an UPDATE by id alone, whatever the status is by
\* now.  No code deletes a row, so DocumentNotFoundError cannot follow.
MarkProcessing(r) ==
  /\ \/ /\ Goto(r, "mark", "start_event")
        /\ WriteRow(target[r], "PROCESSING", None)
        /\ UNCHANGED answer
     \/ /\ "update" \in Faults
        /\ Answer(r, "mark", "500 start")
        /\ MaybeWriteRow(target[r], "PROCESSING", None)
  /\ UNCHANGED <<processing_events, webhooks, target, result>>

\* Mutant: a failed insertion is ignored.
InsertStartEventBestEffort(r) ==
  /\ Goto(r, "start_event", "gateway")
  /\ MaybeLog(Event(r, "PROCESSING"))
  /\ UNCHANGED <<documents, webhooks, target, result, answer>>

InsertStartEvent(r) ==
  /\ \/ /\ Goto(r, "start_event", "gateway")
        /\ processing_events' = Append(processing_events, Event(r, "PROCESSING"))
        /\ UNCHANGED answer
     \/ /\ "event" \in Faults
        /\ Answer(r, "start_event", "500 start")
        /\ MaybeLog(Event(r, "PROCESSING"))
  /\ UNCHANGED <<documents, webhooks, target, result>>

\* check_document returned a final status, or raised ComplianceGatewayError.
CheckReturns(r, outcome) ==
  /\ Goto(r, "gateway", "persist")
  /\ result' = [result EXCEPT ![r] = outcome]
  /\ UNCHANGED <<documents, processing_events, webhooks, target, answer>>

\* urlopen wraps in URLError only what fails while the request is sent; a
\* timeout or a reset while the answer is awaited leaves check_document as it
\* is, and no handler on the way out knows it.
CheckEscapes(r) ==
  /\ Answer(r, "gateway", "500 unhandled")
  /\ UNCHANGED <<documents, processing_events, webhooks, target, result>>

CallGateway(r) ==
  \/ \E s \in FinalStatuses : CheckReturns(r, s)
  \/ "gateway" \in Faults /\ CheckReturns(r, "gateway_error")
  \/ "gateway_timeout" \in Faults /\ CheckEscapes(r)

\* Mutant: a gateway error is answered and not stored.
PersistResultOfChecksOnly(r) ==
  /\ Goto(r, "persist", "final_event")
  /\ IF result[r] = "gateway_error" THEN UNCHANGED documents
                                   ELSE WriteRow(target[r], FinalStatus(r), r)
  /\ UNCHANGED <<processing_events, webhooks, target, result, answer>>

\* update_status(final_status), again by id alone.
PersistResult(r) ==
  /\ \/ /\ Goto(r, "persist", "final_event")
        /\ WriteRow(target[r], FinalStatus(r), r)
        /\ UNCHANGED answer
     \/ /\ "update" \in Faults
        /\ Answer(r, "persist", "500 result")
        /\ MaybeWriteRow(target[r], FinalStatus(r), r)
  /\ UNCHANGED <<processing_events, webhooks, target, result>>

\* Mutants: a failed insertion is ignored; final_status is logged as initialised.
InsertFinalEventBestEffort(r) ==
  /\ Goto(r, "final_event", "notify")
  /\ MaybeLog(Event(r, FinalStatus(r)))
  /\ UNCHANGED <<documents, webhooks, target, result, answer>>

InsertFinalEventAsFailed(r) ==
  /\ Goto(r, "final_event", "notify")
  /\ processing_events' = Append(processing_events, Event(r, "FAILED"))
  /\ UNCHANGED <<documents, webhooks, target, result, answer>>

InsertFinalEvent(r) ==
  /\ \/ /\ Goto(r, "final_event", "notify")
        /\ processing_events' = Append(processing_events, Event(r, FinalStatus(r)))
        /\ UNCHANGED answer
     \/ /\ "event" \in Faults
        /\ Answer(r, "final_event", "500 result")
        /\ MaybeLog(Event(r, FinalStatus(r)))
  /\ UNCHANGED <<documents, webhooks, target, result>>

\* _notify_bff and the answer: 502 tells the client of a gateway error only
\* now, after the document was persisted as FAILED.  A WebhookError means the
\* BFF refused the payload or was not reached; a timeout does not tell.
NotifyBff(r) ==
  LET code == IF result[r] = "gateway_error" THEN "502" ELSE "200"
      delivered == Append(webhooks, Event(r, FinalStatus(r)))
  IN
  /\ \/ /\ WebhookConfigured
        /\ Answer(r, "notify", code)
        /\ webhooks' = delivered
     \/ /\ ~WebhookConfigured \/ "webhook" \in Faults
        /\ Answer(r, "notify", code)
        /\ UNCHANGED webhooks
     \/ /\ WebhookConfigured /\ "webhook_timeout" \in Faults
        /\ Answer(r, "notify", "500 unhandled")
        /\ webhooks' \in {webhooks, delivered}
  /\ UNCHANGED <<documents, processing_events, target, result>>

\* The process dies: its threads are gone, the stores keep what they hold.
Crash ==
  /\ "crash" \in Faults
  /\ \E r \in Requests : InFlight(r)
  /\ pc' = [r \in Requests |-> IF InFlight(r) THEN "lost" ELSE pc[r]]
  /\ UNCHANGED <<documents, processing_events, webhooks, target, result, answer>>

-----------------------------------------------------------------------------
Step(r) ==
  \/ ReadDocument(r)
  \/ MarkProcessing(r)
  \/ InsertStartEvent(r)
  \/ CallGateway(r)
  \/ PersistResult(r)
  \/ InsertFinalEvent(r)
  \/ NotifyBff(r)

Next ==
  \/ \E d \in Documents : CreateDocument(d)
  \/ \E r \in Requests, d \in Documents : Receive(r, d)
  \/ \E r \in Requests : RejectMalformedId(r)
  \/ \E r \in Requests : Step(r)
  \/ Crash

Spec == Init /\ [][Next]_vars

\* A thread that holds a request goes on with it: every call it makes ends,
\* with a result or with an exception.  Nobody has to upload or to ask.
FairSpec == Spec /\ \A r \in Requests : WF_vars(Step(r))
-----------------------------------------------------------------------------
(* Properties.                                                             *)

Logged(e) == \E i \in DOMAIN processing_events : processing_events[i] = e

\* Every variable holds what the code can put there; a request that is not
\* idle and was not refused for its id has a document.
TypeOK ==
  /\ documents \in [Documents -> Rows]
  /\ processing_events \in Seq(Events)
  /\ webhooks \in Seq(Events)
  /\ pc \in [Requests -> Working \cup {"idle", "answered", "lost"}]
  /\ target \in [Requests -> Documents \cup {None}]
  /\ result \in [Requests -> FinalStatuses \cup {"gateway_error", None}]
  /\ answer \in [Requests -> Answers \cup {None}]
  /\ \A r \in Requests : InFlight(r) => target[r] \in Documents
  /\ \A r \in Requests : pc[r] \in {"persist", "final_event", "notify"} => result[r] # None

\* r marked its document and has not settled it, or ended without settling it.
LeftProcessing(r) ==
  \/ pc[r] \in {"start_event", "gateway", "persist", "lost"}
  \/ answer[r] \in {"500 start", "500 result"}
  \/ answer[r] = "500 unhandled" /\ result[r] = None

\* A document is PROCESSING only while a request works on it, or after one
\* died, was answered 500 by a store, or left check_document by an exception
\* nobody handles: an overlap of healthy requests never leaves it there.
ProcessingIsOwned ==
  \A d \in Documents : documents[d].status = "PROCESSING" =>
    \E r \in Requests : target[r] = d /\ LeftProcessing(r)

\* processed_at is set exactly in the final statuses, and the request that
\* stamped it got that status from its own check of this very document, after
\* its start event was in the log - whatever other requests did meanwhile.
Explains(r, d) ==
  /\ target[r] = d
  /\ result[r] # None
  /\ documents[d].status = FinalStatus(r)
  /\ Logged(Event(r, "PROCESSING"))

FinalStatusIsExplained ==
  \A d \in Documents :
    /\ documents[d].status \in FinalStatuses <=> documents[d].processed_at # None
    /\ \A r \in Requests : documents[d].processed_at = r => Explains(r, d)

\* The log never holds the end of a run whose start it lacks, or holds later.
StartPrecedesEnd ==
  \A i \in DOMAIN processing_events :
    processing_events[i].status \in FinalStatuses =>
      \E j \in 1..(i - 1) :
        processing_events[j] = [processing_events[i] EXCEPT !.status = "PROCESSING"]

\* The BFF is told of a final status, and a client answered with one, only
\* after the log holds both ends of that run.
ToldOnlyAfterLogged ==
  /\ \A i \in DOMAIN webhooks : webhooks[i].status \in FinalStatuses /\ Logged(webhooks[i])
  /\ \A r \in Requests : answer[r] \in {"200", "502"} =>
       Logged(Event(r, "PROCESSING")) /\ Logged(Event(r, FinalStatus(r)))

LastOf(log, d, e) ==
  \E i \in DOMAIN log : log[i] = e /\ \A j \in i + 1..Len(log) : log[j].document_id # d

\* All requests on d were served, one of them with a result.
Settled(d) ==
  LET here == {r \in Requests : target[r] = d}
  IN  /\ \A r \in here : answer[r] \in {"200", "502", "404", "409", "500 read"}
      /\ \E r \in here : answer[r] \in {"200", "502"}

\* Clients that wait: once all requests on a document were served, its row, the
\* last event about it and the last webhook about it report the same run.
SettledStoresAgree ==
  \A d \in Documents : Settled(d) =>
    LET row == documents[d]
        run == Event(row.processed_at, row.status)
    IN  /\ row.status \in FinalStatuses
        /\ LastOf(processing_events, d, run)
        /\ (\E i \in DOMAIN webhooks : webhooks[i].by = row.processed_at) =>
             LastOf(webhooks, d, run)

\* documents.status follows the abstract life cycle; attempts exclude each
\* other when clients wait, and overlap when they do not.
Attempting(labels) ==
  [d \in Documents |-> {r \in Requests : target[r] = d /\ pc[r] \in labels}]

Lifecycle == INSTANCE DocumentLifecycle WITH
  Attempts <- Requests,
  Exclusive <- ClientsWait,
  status <- [d \in Documents |-> documents[d].status],
  accepted <- Attempting({"mark"}),
  running <- Attempting({"start_event", "gateway", "persist"})

FollowsLifecycle == Lifecycle!Spec

\* PROCESSING is temporary: a document always leaves it for a final status.
ProcessingEnds ==
  \A d \in Documents :
    documents[d].status = "PROCESSING" ~> documents[d].status \in FinalStatuses

-----------------------------------------------------------------------------
(* What the code's own words claim of it, and its runs refute.             *)

\* "Document is already processing": while a request processes a document no
\* other one does.
OneRunAtATime ==
  \A q, r \in Requests :
    /\ q # r /\ target[q] = target[r]
    /\ pc[q] \in {"start_event", "gateway", "persist"}
    => pc[r] \notin {"start_event", "gateway", "persist"}

\* test_process_marks_failed_when_gateway_is_unavailable: a check that gets no
\* answer ends with the document FAILED.
UnansweredCheckMarksFailed ==
  \A r \in Requests, d \in Documents :
    (pc[r] = "gateway" /\ target[r] = d) ~> (documents[d].status \in FinalStatuses)
=============================================================================
