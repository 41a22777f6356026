------------------------------ MODULE Platform ------------------------------
(***************************************************************************)
(* Document Processing, the SOAP Gateway and the Mock SOAP Server together. *)
(*                                                                         *)
(* DocumentProcessing leaves open what a compliance check returns.  Here   *)
(* the check of a request is a call of the gateway, with its own threads,  *)
(* its own writes to the two databases and its own failures; the caller    *)
(* may give up while the gateway goes on.  A reader asks for the detail of *)
(* a document, which the endpoint reads in two transactions.               *)
(***************************************************************************)
EXTENDS DocumentProcessing

CONSTANTS
  DocumentType,    \* the type every document is uploaded with
  GatewayFaults,   \* the failures of the gateway, see SoapGateway
  MaxClock         \* the last second the model's clock reaches

VARIABLES
  clock, compliance_checks, gateway_events, stage, subject, record, reply,
  detail           \* what GET /documents/{id} has read so far

known == {d \in Documents : documents[d].status # "ABSENT"}

\* The call of request r is identified by r: a request makes at most one.
Gateway == INSTANCE SoapGateway WITH Calls <- Requests
Mock == INSTANCE MockSoapServer

\* What the gateway can do wrong shows as a gateway failure to its caller.
ASSUME GatewayFailuresAreFaults ==
  /\ "gateway" \in Faults
  /\ "crash" \in GatewayFaults => "gateway_timeout" \in Faults

ASSUME GatewayIsConfigured ==
  /\ GatewayFaults \subseteq Gateway!GatewayFaultKinds
  /\ MaxClock \in Nat
  /\ None \notin Gateway!Times
  /\ None \notin Gateway!Replies
  /\ None \notin Gateway!CheckRows

gatewayVars == <<clock, compliance_checks, gateway_events, stage, subject, record, reply>>
platformVars == <<vars, gatewayVars, detail>>

NoDetail == [stage |-> "idle", document_id |-> None, row |-> None, check |-> None]

PlatformInit ==
  /\ Init
  /\ Gateway!GatewayInit
  /\ detail = NoDetail

-----------------------------------------------------------------------------
\* Mutant: the status of the reply is taken as it is.
CheckOutcomeUnvalidated(r) == reply[r].status

\* check_document: a reply with an HTTP error is still a result when its status
\* is FAILED; anything without a final status is a gateway error.
CheckOutcome(r) ==
  LET status == reply[r].status IN
  IF status \in FinalStatuses /\ (reply[r].code >= 400 => status = "FAILED")
    THEN status ELSE "gateway_error"

\* Mutant: a check that was answered is sent once more, under the same id.
SendCheckAgain(r) ==
  /\ pc[r] = "gateway" /\ stage[r] \in {"idle", "answered"}
  /\ stage' = [stage EXCEPT ![r] = "upstream"]
  /\ subject' = [subject EXCEPT ![r] = target[r]]
  /\ UNCHANGED <<vars, clock, compliance_checks, gateway_events, record, reply, detail>>

SendCheck(r) ==
  /\ pc[r] = "gateway"
  /\ Gateway!ReceiveCheck(r, target[r])
  /\ UNCHANGED <<vars, detail>>

\* URLError: the gateway was not reached, and never hears of the check.
GatewayUnreachable(r) ==
  /\ stage[r] = "idle"
  /\ CheckReturns(r, "gateway_error")
  /\ UNCHANGED <<gatewayVars, detail>>

\* Mutant: ComplianceGatewayError is not caught.
TakeReplyUncaught(r) ==
  /\ stage[r] = "answered"
  /\ IF CheckOutcome(r) = "gateway_error" THEN CheckEscapes(r)
                                         ELSE CheckReturns(r, CheckOutcome(r))
  /\ UNCHANGED <<gatewayVars, detail>>

TakeReply(r) ==
  /\ stage[r] = "answered"
  /\ CheckReturns(r, CheckOutcome(r))
  /\ UNCHANGED <<gatewayVars, detail>>

\* The timeout expires, or the gateway died with the connection: an exception
\* that is no URLError.  The gateway, if alive, goes on with the check.
LoseReply(r) ==
  /\ stage[r] # "idle"
  /\ "gateway_timeout" \in Faults
  /\ CheckEscapes(r)
  /\ UNCHANGED <<gatewayVars, detail>>

\* The Mock SOAP Server answers a check and the gateway parses the answer.
MockAnswers(c) ==
  /\ Gateway!TakeSoapReply(c, Mock!Respond(subject[c], DocumentType[subject[c]], clock))
  /\ UNCHANGED <<vars, detail>>

GatewayWorks(c) ==
  /\ Gateway!GatewayStep(c)
  /\ UNCHANGED <<vars, detail>>

GatewayDies == Gateway!GatewayCrash /\ UNCHANGED <<vars, detail>>

TimePasses == Gateway!Tick /\ UNCHANGED <<vars, detail>>

-----------------------------------------------------------------------------
\* get_latest_compliance: the same query as the gateway's.
LatestCheck(d) == Gateway!compliance_status(d).check

\* Mutant: the check is read before the row.
ReadDetailCheckFirst(d) ==
  /\ \/ /\ detail.stage = "idle"
        /\ documents[d].status # "ABSENT"
        /\ detail' = [stage |-> "row read", document_id |-> d, row |-> None, check |-> LatestCheck(d)]
     \/ /\ detail.stage = "row read" /\ detail.document_id = d
        /\ detail' = [detail EXCEPT !.stage = "done", !.row = documents[d]]
  /\ UNCHANGED <<vars, gatewayVars>>

\* get_document_detail: the row, and in a second transaction its latest check.
ReadDetail(d) ==
  /\ \/ /\ detail.stage = "idle"
        /\ documents[d].status # "ABSENT"
        /\ detail' = [stage |-> "row read", document_id |-> d, row |-> documents[d], check |-> None]
     \/ /\ detail.stage = "row read" /\ detail.document_id = d
        /\ detail' = [detail EXCEPT !.stage = "done", !.check = LatestCheck(d)]
  /\ UNCHANGED <<vars, gatewayVars>>

-----------------------------------------------------------------------------
\* The steps of DocumentProcessing that do not depend on the gateway.
EndpointStep(r) ==
  /\ \/ ReadDocument(r)
     \/ MarkProcessing(r)
     \/ InsertStartEvent(r)
     \/ PersistResult(r)
     \/ InsertFinalEvent(r)
     \/ NotifyBff(r)
  /\ UNCHANGED <<gatewayVars, detail>>

Arrivals ==
  /\ \/ \E d \in Documents : CreateDocument(d)
     \/ \E r \in Requests, d \in Documents : Receive(r, d)
     \/ \E r \in Requests : RejectMalformedId(r)
     \/ Crash
  /\ UNCHANGED <<gatewayVars, detail>>

RequestStep(r) ==
  \/ EndpointStep(r)
  \/ SendCheck(r)
  \/ TakeReply(r)

ServicesNext ==
  \/ Arrivals
  \/ \E r \in Requests : RequestStep(r)
  \/ \E r \in Requests : GatewayUnreachable(r)
  \/ \E r \in Requests : LoseReply(r)
  \/ \E c \in Requests : MockAnswers(c)
  \/ \E c \in Requests : GatewayWorks(c)
  \/ GatewayDies
  \/ TimePasses

PlatformNext ==
  \/ ServicesNext
  \/ \E d \in Documents : ReadDetail(d)

PlatformSpec == PlatformInit /\ [][PlatformNext]_platformVars

\* The threads of both services go on with the request they hold, and the SOAP
\* server answers.
PlatformFairSpec ==
  /\ PlatformSpec
  /\ \A r \in Requests :
       /\ WF_platformVars(RequestStep(r))
       /\ WF_platformVars(MockAnswers(r))
       /\ WF_platformVars(GatewayWorks(r))

-----------------------------------------------------------------------------
(* Properties.                                                             *)

\* The variables of the gateway and of the reader hold what the code can put
\* there; TypeOK speaks of the others.
PlatformTypeOK ==
  /\ TypeOK
  /\ Gateway!TypeOK
  /\ detail.stage \in {"idle", "row read", "done"}
  /\ detail.stage # "idle" => detail.document_id \in known /\ detail.row \in Rows
  /\ detail.check \in Gateway!CheckRows \cup {None}

\* A document is COMPLIANT or NON_COMPLIANT only if the rules of the SOAP server
\* say so of its type; so does whatever was logged or told of it.
ByTheRules(d, status) ==
  status \in Gateway!Verdicts =>
    DocumentType[d] \in Mock!SupportedTypes /\ status = Mock!DOCUMENT_STATUS[DocumentType[d]]

VerdictsMatchRules ==
  /\ \A d \in Documents : ByTheRules(d, documents[d].status)
  /\ \A e \in {processing_events[i] : i \in DOMAIN processing_events}
              \cup {webhooks[i] : i \in DOMAIN webhooks} : ByTheRules(e.document_id, e.status)

\* A verdict in documents rests on a check in compliance_checks, made by the
\* very request that wrote it, and on the gateway's event.
RestsOn(row, i) ==
  /\ compliance_checks[i].check_id = row.processed_at
  /\ compliance_checks[i].status = row.status

VerdictHasCheck ==
  \A d \in Documents :
    documents[d].status \in Gateway!Verdicts =>
      \E i \in Gateway!ChecksOf(d) :
        /\ RestsOn(documents[d], i)
        /\ Gateway!Inserted(Gateway!EventOf(compliance_checks[i]))

\* The two transactions of GET /documents/{id}: a verdict is never shown without
\* a check, nor with one older than the check the verdict rests on.
DetailIsCoherent ==
  detail.stage = "done" /\ detail.row.status \in Gateway!Verdicts =>
    /\ detail.check # None
    /\ \E i \in Gateway!ChecksOf(detail.document_id) :
         RestsOn(detail.row, i) /\ detail.check.checked_at >= compliance_checks[i].checked_at

\* Clients that wait: a verdict and the latest check of its document are of the
\* same run.  A check that is answered too late leaves the document PROCESSING,
\* so no later run can be overtaken by it.
LatestCheckIsTheVerdict ==
  \A d \in Documents :
    documents[d].status \in Gateway!Verdicts =>
      Gateway!Latest(d) # 0 /\ RestsOn(documents[d], Gateway!Latest(d))

\* Every behaviour of the composition is one of DocumentProcessing, and one of
\* SoapGateway: what holds of each service alone holds of the two together.
ImplementsProcessing == Spec
ImplementsGateway == Gateway!Spec
=============================================================================
