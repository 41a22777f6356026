---------------------- MODULE DocumentProcessingProofs ----------------------
(* Proofs about DocumentProcessing, for any documents, requests and faults. *)
EXTENDS DocumentProcessing, SequenceTheorems, TLAPS

USE DEF vars, requestVars

LEMMA EventIsTyped ==
  ASSUME TypeOK, NEW r \in Requests, target[r] \in Documents, NEW s \in DocumentStatuses
  PROVE  Event(r, s) \in Events
BY DEF Event, Events

LEMMA FinalStatusIsTyped ==
  ASSUME TypeOK, NEW r \in Requests, result[r] # None
  PROVE  FinalStatus(r) \in FinalStatuses
BY DEF FinalStatus, FinalStatuses, TypeOK

LEMMA RowIsTyped ==
  ASSUME TypeOK, NEW d \in Documents, NEW s \in DocumentStatuses,
         NEW by \in Requests \cup {None},
         MaybeWriteRow(d, s, by) \/ WriteRow(d, s, by)
  PROVE  documents' \in [Documents -> Rows]
<1>1. [status |-> s, processed_at |-> by] \in Rows
  BY DEF Rows
<1> QED
  BY <1>1 DEF TypeOK, MaybeWriteRow, WriteRow

LEMMA AppendIsTyped ==
  ASSUME NEW S, NEW log \in Seq(S), NEW e \in S
  PROVE  Append(log, e) \in Seq(S)
BY AppendProperties

LEMMA LogIsTyped ==
  ASSUME TypeOK, NEW e \in Events,
         MaybeLog(e) \/ processing_events' = Append(processing_events, e)
  PROVE  processing_events' \in Seq(Events)
<1>1. processing_events \in Seq(Events)
  BY DEF TypeOK
<1>2. Append(processing_events, e) \in Seq(Events)
  BY <1>1, AppendIsTyped
<1>3. processing_events' = processing_events \/ processing_events' = Append(processing_events, e)
  BY DEF MaybeLog
<1> QED
  BY <1>1, <1>2, <1>3

LEMMA TypeInit == Init => TypeOK
<1> SUFFICES ASSUME Init PROVE TypeOK
  OBVIOUS
<1>1. documents \in [Documents -> Rows]
  BY DEF Init, Rows
<1> QED
  BY <1>1 DEF Init, TypeOK, InFlight, Working

LEMMA TypeStep == TypeOK /\ [Next]_vars => TypeOK'
<1> SUFFICES ASSUME TypeOK, [Next]_vars
             PROVE  TypeOK'
    OBVIOUS
<1> USE NoneIsFresh DEF InFlight, Working, Answers
<1>1. CASE UNCHANGED vars
  BY <1>1 DEF TypeOK
<1>2. ASSUME NEW d \in Documents, CreateDocument(d)
      PROVE  TypeOK'
  <2>1. documents' \in [Documents -> Rows]
    BY <1>2, RowIsTyped DEF CreateDocument, DocumentStatuses
  <2> QED
    BY <1>2, <2>1 DEF TypeOK, CreateDocument
<1>3. ASSUME NEW r \in Requests, NEW d \in Documents, Receive(r, d)
      PROVE  TypeOK'
  BY <1>3 DEF TypeOK, Receive, Goto
<1>4. ASSUME NEW r \in Requests, RejectMalformedId(r)
      PROVE  TypeOK'
  BY <1>4 DEF TypeOK, RejectMalformedId, Answer, Goto
<1>5. ASSUME NEW r \in Requests, ReadDocument(r)
      PROVE  TypeOK'
  BY ZenonT(30), <1>5 DEF TypeOK, ReadDocument, Answer, Goto
<1>6. ASSUME NEW r \in Requests, MarkProcessing(r)
      PROVE  TypeOK'
  <2>1. target[r] \in Documents
    BY <1>6 DEF TypeOK, MarkProcessing, Answer, Goto
  <2>2. documents' \in [Documents -> Rows]
    BY <1>6, <2>1, RowIsTyped DEF MarkProcessing, DocumentStatuses
  <2> QED
    BY ZenonT(30), <1>6, <2>2 DEF TypeOK, MarkProcessing, Answer, Goto
<1>7. ASSUME NEW r \in Requests, InsertStartEvent(r)
      PROVE  TypeOK'
  <2>1. target[r] \in Documents
    BY <1>7 DEF TypeOK, InsertStartEvent, Answer, Goto
  <2>2. Event(r, "PROCESSING") \in Events
    BY <2>1, EventIsTyped DEF DocumentStatuses
  <2>3. processing_events' \in Seq(Events)
    BY <1>7, <2>2, LogIsTyped DEF InsertStartEvent
  <2> QED
    BY ZenonT(30), <1>7, <2>3 DEF TypeOK, InsertStartEvent, Answer, Goto
<1>8. ASSUME NEW r \in Requests, CallGateway(r)
      PROVE  TypeOK'
  <2>1. ASSUME NEW outcome \in FinalStatuses \cup {"gateway_error"}, CheckReturns(r, outcome)
        PROVE  TypeOK'
    BY <1>8, <2>1 DEF TypeOK, CheckReturns, Goto, FinalStatuses
  <2>2. CASE CheckEscapes(r)
    BY <2>2 DEF TypeOK, CheckEscapes, Answer, Goto
  <2> QED
    BY <1>8, <2>1, <2>2 DEF CallGateway
<1>9. ASSUME NEW r \in Requests, PersistResult(r)
      PROVE  TypeOK'
  <2>1. target[r] \in Documents /\ result[r] # None
    BY <1>9 DEF TypeOK, PersistResult, Answer, Goto
  <2>2. FinalStatus(r) \in DocumentStatuses
    BY <2>1, FinalStatusIsTyped DEF DocumentStatuses
  <2>3. documents' \in [Documents -> Rows]
    BY <1>9, <2>1, <2>2, RowIsTyped DEF PersistResult
  <2> QED
    BY <1>9, <2>3 DEF TypeOK, PersistResult, Answer, Goto
<1>10. ASSUME NEW r \in Requests, InsertFinalEvent(r)
       PROVE  TypeOK'
  <2>1. target[r] \in Documents /\ result[r] # None
    BY <1>10 DEF TypeOK, InsertFinalEvent, Answer, Goto
  <2>2. Event(r, FinalStatus(r)) \in Events
    BY <2>1, FinalStatusIsTyped, EventIsTyped DEF DocumentStatuses
  <2>3. processing_events' \in Seq(Events)
    BY <1>10, <2>2, LogIsTyped DEF InsertFinalEvent
  <2> QED
    BY <1>10, <2>3 DEF TypeOK, InsertFinalEvent, Answer, Goto
<1>11. ASSUME NEW r \in Requests, NotifyBff(r)
       PROVE  TypeOK'
  <2>1. target[r] \in Documents /\ result[r] # None
    BY <1>11 DEF TypeOK, NotifyBff, Answer, Goto
  <2>2. Event(r, FinalStatus(r)) \in Events
    BY <2>1, FinalStatusIsTyped, EventIsTyped DEF DocumentStatuses
  <2>3. webhooks' \in Seq(Events)
    <3>1. webhooks \in Seq(Events) /\ Append(webhooks, Event(r, FinalStatus(r))) \in Seq(Events)
      BY <2>2, AppendIsTyped DEF TypeOK
    <3>2. webhooks' = webhooks \/ webhooks' = Append(webhooks, Event(r, FinalStatus(r)))
      BY <1>11 DEF NotifyBff
    <3> QED
      BY <3>1, <3>2
  <2> QED
    BY <1>11, <2>3 DEF TypeOK, NotifyBff, Answer, Goto
<1>12. CASE Crash
  BY <1>12 DEF TypeOK, Crash
<1> QED
  BY <1>1, <1>2, <1>3, <1>4, <1>5, <1>6, <1>7, <1>8, <1>9, <1>10, <1>11, <1>12 DEF Next, Step

\* Every reachable state is well typed, for any documents, requests and faults.
THEOREM TypeCorrect == Spec => []TypeOK
BY TypeInit, TypeStep, PTL DEF Spec

-----------------------------------------------------------------------------
(* What one step can do to a request, a row, the log and the webhooks: the  *)
(* rest of the proofs reads these summaries and not the actions.            *)

RequestMove(q) ==
  /\ pc[q] # "idle" => target'[q] = target[q]
  /\ pc[q] # "gateway" \/ pc'[q] # "persist" => result'[q] = result[q]
  /\ answer'[q] # answer[q] => pc[q] \notin {"answered", "lost"} /\ pc'[q] = "answered"
  /\ \/ pc'[q] = pc[q]
     \/ pc[q] \in Working /\ pc'[q] = "lost"
     \/ pc[q] = "idle" /\ pc'[q] = "read"
     \/ pc[q] = "idle" /\ pc'[q] = "answered" /\ answer'[q] = "400"
     \/ pc[q] = "read" /\ pc'[q] = "mark"
     \/ pc[q] = "read" /\ pc'[q] = "answered" /\ answer'[q] \in {"500 read", "404", "409"}
     \/ /\ pc[q] = "mark" /\ pc'[q] = "start_event"
        /\ documents'[target[q]] = [status |-> "PROCESSING", processed_at |-> None]
     \/ pc[q] = "mark" /\ pc'[q] = "answered" /\ answer'[q] = "500 start"
     \/ /\ pc[q] = "start_event" /\ pc'[q] = "gateway"
        /\ processing_events' = Append(processing_events, Event(q, "PROCESSING"))
     \/ pc[q] = "start_event" /\ pc'[q] = "answered" /\ answer'[q] = "500 start"
     \/ pc[q] = "gateway" /\ pc'[q] = "persist" /\ result'[q] # None
     \/ pc[q] = "gateway" /\ pc'[q] = "answered" /\ answer'[q] = "500 unhandled"
     \/ /\ pc[q] = "persist" /\ pc'[q] = "final_event"
        /\ documents'[target[q]] = [status |-> FinalStatus(q), processed_at |-> q]
     \/ pc[q] = "persist" /\ pc'[q] = "answered" /\ answer'[q] = "500 result"
     \/ /\ pc[q] = "final_event" /\ pc'[q] = "notify"
        /\ processing_events' = Append(processing_events, Event(q, FinalStatus(q)))
     \/ pc[q] = "final_event" /\ pc'[q] = "answered" /\ answer'[q] = "500 result"
     \/ pc[q] = "notify" /\ pc'[q] = "answered" /\ answer'[q] \in {"200", "502", "500 unhandled"}

RowMove(d) ==
  \/ documents'[d] = documents[d]
  \/ documents[d].status = "ABSENT" /\ documents'[d] = [status |-> "UPLOADED", processed_at |-> None]
  \/ \E q \in Requests :
       /\ pc[q] = "mark" /\ pc'[q] \in {"start_event", "answered"} /\ target[q] = d
       /\ pc'[q] = "answered" => answer'[q] = "500 start"
       /\ documents'[d] = [status |-> "PROCESSING", processed_at |-> None]
  \/ \E q \in Requests :
       /\ pc[q] = "persist" /\ pc'[q] \in {"final_event", "answered"} /\ target[q] = d
       /\ documents'[d] = [status |-> FinalStatus(q), processed_at |-> q]

LogMove ==
  \/ processing_events' = processing_events
  \/ \E q \in Requests :
       /\ pc[q] = "start_event"
       /\ processing_events' = Append(processing_events, Event(q, "PROCESSING"))
  \/ \E q \in Requests :
       /\ pc[q] = "final_event"
       /\ processing_events' = Append(processing_events, Event(q, FinalStatus(q)))

WebhookMove ==
  \/ webhooks' = webhooks
  \/ \E q \in Requests :
       pc[q] = "notify" /\ webhooks' = Append(webhooks, Event(q, FinalStatus(q)))

StepSummary ==
  /\ \A q \in Requests : RequestMove(q)
  /\ \A d \in Documents : RowMove(d)
  /\ LogMove
  /\ WebhookMove

LEMMA StepsAreSummarised == TypeOK /\ [Next]_vars => StepSummary
<1> SUFFICES ASSUME TypeOK, [Next]_vars
             PROVE  StepSummary
    OBVIOUS
<1> USE NoneIsFresh DEF Working
<1>1. CASE UNCHANGED vars
  BY <1>1 DEF StepSummary, RequestMove, RowMove, LogMove, WebhookMove, vars
<1>2. ASSUME NEW d \in Documents, CreateDocument(d)
      PROVE  StepSummary
  <2>1. \A q \in Requests : RequestMove(q)
    BY <1>2 DEF RequestMove, TypeOK, CreateDocument, WriteRow
  <2>2. \A e \in Documents : RowMove(e)
    BY <1>2 DEF RowMove, TypeOK, CreateDocument, WriteRow
  <2>3. LogMove
    BY <1>2 DEF LogMove, TypeOK, CreateDocument, WriteRow
  <2>4. WebhookMove
    BY <1>2 DEF WebhookMove, TypeOK, CreateDocument, WriteRow
  <2> QED
    BY <2>1, <2>2, <2>3, <2>4 DEF StepSummary
<1>3. ASSUME NEW r \in Requests, NEW d \in Documents, Receive(r, d)
      PROVE  StepSummary
  <2>1. \A q \in Requests : RequestMove(q)
    BY <1>3 DEF RequestMove, TypeOK, Receive, Goto
  <2>2. \A e \in Documents : RowMove(e)
    BY <1>3 DEF RowMove, TypeOK, Receive, Goto
  <2>3. LogMove
    BY <1>3 DEF LogMove, TypeOK, Receive, Goto
  <2>4. WebhookMove
    BY <1>3 DEF WebhookMove, TypeOK, Receive, Goto
  <2> QED
    BY <2>1, <2>2, <2>3, <2>4 DEF StepSummary
<1>4. ASSUME NEW r \in Requests, RejectMalformedId(r)
      PROVE  StepSummary
  <2>1. \A q \in Requests : RequestMove(q)
    BY <1>4 DEF RequestMove, TypeOK, RejectMalformedId, Answer, Goto
  <2>2. \A d \in Documents : RowMove(d)
    BY <1>4 DEF RowMove, TypeOK, RejectMalformedId, Answer, Goto
  <2>3. LogMove
    BY <1>4 DEF LogMove, TypeOK, RejectMalformedId, Answer, Goto
  <2>4. WebhookMove
    BY <1>4 DEF WebhookMove, TypeOK, RejectMalformedId, Answer, Goto
  <2> QED
    BY <2>1, <2>2, <2>3, <2>4 DEF StepSummary
<1>5. ASSUME NEW r \in Requests, ReadDocument(r)
      PROVE  StepSummary
  <2>1. \A q \in Requests : RequestMove(q)
    BY ZenonT(30), <1>5 DEF RequestMove, TypeOK, ReadDocument, Answer, Goto
  <2>2. \A d \in Documents : RowMove(d)
    BY <1>5 DEF RowMove, TypeOK, ReadDocument, Answer, Goto
  <2>3. LogMove
    BY <1>5 DEF LogMove, TypeOK, ReadDocument, Answer, Goto
  <2>4. WebhookMove
    BY <1>5 DEF WebhookMove, TypeOK, ReadDocument, Answer, Goto
  <2> QED
    BY <2>1, <2>2, <2>3, <2>4 DEF StepSummary
<1>6. ASSUME NEW r \in Requests, MarkProcessing(r)
      PROVE  StepSummary
  <2>1. \A q \in Requests : RequestMove(q)
    BY ZenonT(30), <1>6 DEF RequestMove, TypeOK, MarkProcessing, Answer, Goto, MaybeWriteRow, WriteRow, InFlight
  <2>2. \A d \in Documents : RowMove(d)
    BY <1>6 DEF RowMove, TypeOK, MarkProcessing, Answer, Goto, MaybeWriteRow, WriteRow, InFlight
  <2>3. LogMove
    BY <1>6 DEF LogMove, TypeOK, MarkProcessing, Answer, Goto, MaybeWriteRow, WriteRow, InFlight
  <2>4. WebhookMove
    BY <1>6 DEF WebhookMove, TypeOK, MarkProcessing, Answer, Goto, MaybeWriteRow, WriteRow, InFlight
  <2> QED
    BY <2>1, <2>2, <2>3, <2>4 DEF StepSummary
<1>7. ASSUME NEW r \in Requests, InsertStartEvent(r)
      PROVE  StepSummary
  <2>1. \A q \in Requests : RequestMove(q)
    BY ZenonT(30), <1>7 DEF RequestMove, TypeOK, InsertStartEvent, Answer, Goto, MaybeLog
  <2>2. \A d \in Documents : RowMove(d)
    BY <1>7 DEF RowMove, TypeOK, InsertStartEvent, Answer, Goto, MaybeLog
  <2>3. LogMove
    BY <1>7 DEF LogMove, TypeOK, InsertStartEvent, Answer, Goto, MaybeLog
  <2>4. WebhookMove
    BY <1>7 DEF WebhookMove, TypeOK, InsertStartEvent, Answer, Goto, MaybeLog
  <2> QED
    BY <2>1, <2>2, <2>3, <2>4 DEF StepSummary
<1>8. ASSUME NEW r \in Requests, NEW outcome \in FinalStatuses \cup {"gateway_error"}, CheckReturns(r, outcome)
      PROVE  StepSummary
  <2>1. \A q \in Requests : RequestMove(q)
    BY <1>8 DEF RequestMove, TypeOK, CheckReturns, Goto
  <2>2. \A d \in Documents : RowMove(d)
    BY <1>8 DEF RowMove, TypeOK, CheckReturns, Goto
  <2>3. LogMove
    BY <1>8 DEF LogMove, TypeOK, CheckReturns, Goto
  <2>4. WebhookMove
    BY <1>8 DEF WebhookMove, TypeOK, CheckReturns, Goto
  <2> QED
    BY <2>1, <2>2, <2>3, <2>4 DEF StepSummary
<1>9. ASSUME NEW r \in Requests, CheckEscapes(r)
      PROVE  StepSummary
  <2>1. \A q \in Requests : RequestMove(q)
    BY <1>9 DEF RequestMove, TypeOK, CheckEscapes, Answer, Goto
  <2>2. \A d \in Documents : RowMove(d)
    BY <1>9 DEF RowMove, TypeOK, CheckEscapes, Answer, Goto
  <2>3. LogMove
    BY <1>9 DEF LogMove, TypeOK, CheckEscapes, Answer, Goto
  <2>4. WebhookMove
    BY <1>9 DEF WebhookMove, TypeOK, CheckEscapes, Answer, Goto
  <2> QED
    BY <2>1, <2>2, <2>3, <2>4 DEF StepSummary
<1>10. ASSUME NEW r \in Requests, PersistResult(r)
      PROVE  StepSummary
  <2>1. \A q \in Requests : RequestMove(q)
    <3>1. target[r] \in Documents
      BY <1>10 DEF TypeOK, PersistResult, Answer, Goto, InFlight
    <3>2. CASE Goto(r, "persist", "final_event")
      BY ZenonT(30), <1>10, <3>1, <3>2 DEF RequestMove, TypeOK, PersistResult, Answer, Goto, WriteRow
    <3>3. CASE Answer(r, "persist", "500 result")
      BY <1>10, <3>3 DEF RequestMove, TypeOK, PersistResult, Answer, Goto
    <3> QED
      BY <1>10, <3>2, <3>3 DEF PersistResult
  <2>2. \A d \in Documents : RowMove(d)
    BY <1>10 DEF RowMove, TypeOK, PersistResult, Answer, Goto, MaybeWriteRow, WriteRow, InFlight
  <2>3. LogMove
    BY <1>10 DEF LogMove, TypeOK, PersistResult, Answer, Goto, MaybeWriteRow, WriteRow, InFlight
  <2>4. WebhookMove
    BY <1>10 DEF WebhookMove, TypeOK, PersistResult, Answer, Goto, MaybeWriteRow, WriteRow, InFlight
  <2> QED
    BY <2>1, <2>2, <2>3, <2>4 DEF StepSummary
<1>11. ASSUME NEW r \in Requests, InsertFinalEvent(r)
      PROVE  StepSummary
  <2>1. \A q \in Requests : RequestMove(q)
    BY ZenonT(30), <1>11 DEF RequestMove, TypeOK, InsertFinalEvent, Answer, Goto, MaybeLog
  <2>2. \A d \in Documents : RowMove(d)
    BY <1>11 DEF RowMove, TypeOK, InsertFinalEvent, Answer, Goto, MaybeLog
  <2>3. LogMove
    BY <1>11 DEF LogMove, TypeOK, InsertFinalEvent, Answer, Goto, MaybeLog
  <2>4. WebhookMove
    BY <1>11 DEF WebhookMove, TypeOK, InsertFinalEvent, Answer, Goto, MaybeLog
  <2> QED
    BY <2>1, <2>2, <2>3, <2>4 DEF StepSummary
<1>12. ASSUME NEW r \in Requests, NotifyBff(r)
      PROVE  StepSummary
  <2>1. \A q \in Requests : RequestMove(q)
    BY ZenonT(30), <1>12 DEF RequestMove, TypeOK, NotifyBff, Answer, Goto
  <2>2. \A d \in Documents : RowMove(d)
    BY <1>12 DEF RowMove, TypeOK, NotifyBff, Answer, Goto
  <2>3. LogMove
    BY <1>12 DEF LogMove, TypeOK, NotifyBff, Answer, Goto
  <2>4. WebhookMove
    BY <1>12 DEF WebhookMove, TypeOK, NotifyBff, Answer, Goto
  <2> QED
    BY <2>1, <2>2, <2>3, <2>4 DEF StepSummary
<1>13. CASE Crash
  <2>1. \A q \in Requests : RequestMove(q)
    BY <1>13 DEF RequestMove, TypeOK, Crash, InFlight
  <2>2. \A d \in Documents : RowMove(d)
    BY <1>13 DEF RowMove, TypeOK, Crash, InFlight
  <2>3. LogMove
    BY <1>13 DEF LogMove, TypeOK, Crash, InFlight
  <2>4. WebhookMove
    BY <1>13 DEF WebhookMove, TypeOK, Crash, InFlight
  <2> QED
    BY <2>1, <2>2, <2>3, <2>4 DEF StepSummary
<1>14. ASSUME NEW r \in Requests, CallGateway(r)
      PROVE  StepSummary
  BY <1>14, <1>8, <1>9 DEF CallGateway
<1> QED
  BY <1>1, <1>2, <1>3, <1>4, <1>5, <1>6, <1>7, <1>8, <1>9, <1>10, <1>11, <1>12, <1>13, <1>14 DEF Next, Step

-----------------------------------------------------------------------------
(* The inductive invariant.                                                *)

\* A request has an answer only once it is over, and a result only after the
\* gateway returned one.
Bookkeeping ==
  \A r \in Requests :
    /\ answer[r] # None => pc[r] = "answered"
    /\ pc[r] \in {"idle", "read", "mark", "start_event", "gateway"} => result[r] = None
    /\ answer[r] \in {"200", "502"} => result[r] # None

\* A request past an insertion has its event in the log.
RunsAreLogged ==
  \A r \in Requests :
    /\ pc[r] \in {"gateway", "persist", "final_event", "notify"} => Logged(Event(r, "PROCESSING"))
    /\ pc[r] = "notify" => Logged(Event(r, FinalStatus(r)))

\* A row is stamped by a request that is past its check, or over.
StampsAreLate ==
  \A d \in Documents :
    documents[d].processed_at # None =>
      pc[documents[d].processed_at] \in {"final_event", "notify", "answered", "lost"}

IInv ==
  /\ TypeOK
  /\ Bookkeeping
  /\ RunsAreLogged
  /\ StampsAreLate
  /\ ProcessingIsOwned
  /\ FinalStatusIsExplained
  /\ StartPrecedesEnd
  /\ ToldOnlyAfterLogged

LEMMA InvInit == Init => IInv
<1> SUFFICES ASSUME Init PROVE IInv
  OBVIOUS
<1> USE NoneIsFresh DEF Init
<1>1. TypeOK
  BY TypeInit
<1>2. Bookkeeping /\ RunsAreLogged /\ StampsAreLate
  BY DEF Bookkeeping, RunsAreLogged, StampsAreLate, Answers
<1>3. ProcessingIsOwned /\ FinalStatusIsExplained
  <2>1. \A d \in Documents : documents[d].status = "ABSENT" /\ documents[d].processed_at = None
    OBVIOUS
  <2> QED
    BY <2>1 DEF ProcessingIsOwned, FinalStatusIsExplained, FinalStatuses
<1>4. StartPrecedesEnd /\ ToldOnlyAfterLogged
  <2>1. DOMAIN processing_events = {} /\ DOMAIN webhooks = {}
    OBVIOUS
  <2>2. \A r \in Requests : answer[r] \notin {"200", "502"}
    BY DEF Answers
  <2> QED
    BY <2>1, <2>2 DEF StartPrecedesEnd, ToldOnlyAfterLogged
<1> QED
  BY <1>1, <1>2, <1>3, <1>4 DEF IInv

\* The log only grows, and an inserted event stays in it.
LEMMA AppendFacts ==
  ASSUME NEW S, NEW log \in Seq(S), NEW e \in S
  PROVE  /\ Len(Append(log, e)) = Len(log) + 1
         /\ \A i \in 1..Len(log) : Append(log, e)[i] = log[i]
         /\ Append(log, e)[Len(log) + 1] = e
         /\ DOMAIN log = 1..Len(log)
         /\ DOMAIN Append(log, e) = 1..(Len(log) + 1)
         /\ Len(log) \in Nat
BY AppendProperties

LEMMA LoggedEventsAreTyped ==
  ASSUME TypeOK, NEW q \in Requests
  PROVE  /\ pc[q] \in {"start_event", "gateway"} => Event(q, "PROCESSING") \in Events
         /\ pc[q] \in {"final_event", "notify"} =>
              /\ Event(q, FinalStatus(q)) \in Events
              /\ FinalStatus(q) \in FinalStatuses
<1>1. pc[q] \in Working => target[q] \in Documents
  BY DEF TypeOK, InFlight
<1>2. pc[q] \in {"final_event", "notify"} => FinalStatus(q) \in FinalStatuses
  BY FinalStatusIsTyped DEF TypeOK
<1> QED
  BY <1>1, <1>2, EventIsTyped DEF Working, DocumentStatuses

\* Every step leaves the log alone or appends one well-typed event.
LEMMA LogGrows ==
  ASSUME TypeOK, LogMove
  PROVE  \/ processing_events' = processing_events
         \/ \E e \in Events : processing_events' = Append(processing_events, e)
BY LoggedEventsAreTyped DEF LogMove

LEMMA LoggedIsStable ==
  ASSUME TypeOK, LogMove, NEW e, Logged(e)
  PROVE  Logged(e)'
<1>1. CASE processing_events' = processing_events
  BY <1>1 DEF Logged
<1>2. ASSUME NEW f \in Events, processing_events' = Append(processing_events, f)
      PROVE  Logged(e)'
  <2>1. processing_events \in Seq(Events)
    BY DEF TypeOK
  <2> QED
    BY <1>2, <2>1, AppendFacts DEF Logged
<1> QED
  BY <1>1, <1>2, LogGrows

LEMMA AppendedIsLogged ==
  ASSUME TypeOK, NEW e \in Events, processing_events' = Append(processing_events, e)
  PROVE  Logged(e)'
<1>1. processing_events \in Seq(Events)
  BY DEF TypeOK
<1> QED
  BY <1>1, AppendFacts DEF Logged

LEMMA BookkeepingStep ==
  ASSUME TypeOK, TypeOK', Bookkeeping, StepSummary
  PROVE  Bookkeeping'
<1> SUFFICES ASSUME NEW r \in Requests
             PROVE  /\ answer'[r] # None => pc'[r] = "answered"
                    /\ pc'[r] \in {"idle", "read", "mark", "start_event", "gateway"} => result'[r] = None
                    /\ answer'[r] \in {"200", "502"} => result'[r] # None
  BY DEF Bookkeeping
<1>1. RequestMove(r)
  BY DEF StepSummary
<1>2. /\ answer[r] # None => pc[r] = "answered"
      /\ pc[r] \in {"idle", "read", "mark", "start_event", "gateway"} => result[r] = None
      /\ answer[r] \in {"200", "502"} => result[r] # None
      /\ pc[r] = "notify" => result[r] # None
  BY DEF Bookkeeping, TypeOK
<1>3. answer'[r] # None => pc'[r] = "answered"
  BY <1>1, <1>2 DEF RequestMove, Working
<1>4. pc'[r] \in {"idle", "read", "mark", "start_event", "gateway"} => result'[r] = None
  BY <1>1, <1>2 DEF RequestMove
<1>5. answer'[r] \in {"200", "502"} => result'[r] # None
  BY <1>1, <1>2 DEF RequestMove
<1> QED
  BY <1>3, <1>4, <1>5

LEMMA RunsAreLoggedStep ==
  ASSUME TypeOK, Bookkeeping, RunsAreLogged, StepSummary
  PROVE  RunsAreLogged'
<1> SUFFICES ASSUME NEW r \in Requests
             PROVE  /\ pc'[r] \in {"gateway", "persist", "final_event", "notify"} =>
                         Logged(Event(r, "PROCESSING"))'
                    /\ pc'[r] = "notify" => Logged(Event(r, FinalStatus(r)))'
  BY DEF RunsAreLogged
<1>1. RequestMove(r) /\ LogMove
  BY DEF StepSummary
<1>2. ASSUME pc'[r] \in {"gateway", "persist", "final_event", "notify"}
      PROVE  Logged(Event(r, "PROCESSING"))'
  <2>1. Event(r, "PROCESSING")' = Event(r, "PROCESSING")
    BY <1>1, <1>2 DEF RequestMove, Event
  <2>2. CASE pc[r] \in {"gateway", "persist", "final_event", "notify"}
    BY <1>1, <2>1, <2>2, LoggedIsStable DEF RunsAreLogged
  <2>3. CASE /\ pc[r] = "start_event"
             /\ processing_events' = Append(processing_events, Event(r, "PROCESSING"))
    BY <2>1, <2>3, LoggedEventsAreTyped, AppendedIsLogged
  <2> QED
    BY <1>1, <1>2, <2>2, <2>3 DEF RequestMove
<1>3. ASSUME pc'[r] = "notify"
      PROVE  Logged(Event(r, FinalStatus(r)))'
  <2>1. Event(r, FinalStatus(r))' = Event(r, FinalStatus(r))
    BY <1>1, <1>3 DEF RequestMove, Event, FinalStatus
  <2>2. CASE pc[r] = "notify"
    BY <1>1, <2>1, <2>2, LoggedIsStable DEF RunsAreLogged
  <2>3. CASE /\ pc[r] = "final_event"
             /\ processing_events' = Append(processing_events, Event(r, FinalStatus(r)))
    BY <2>1, <2>3, LoggedEventsAreTyped, AppendedIsLogged
  <2> QED
    BY <1>1, <1>3, <2>2, <2>3 DEF RequestMove
<1> QED
  BY <1>2, <1>3

LEMMA StampsAreLateStep ==
  ASSUME TypeOK, StampsAreLate, StepSummary
  PROVE  StampsAreLate'
<1> SUFFICES ASSUME NEW d \in Documents, documents'[d].processed_at # None
             PROVE  pc'[documents'[d].processed_at] \in {"final_event", "notify", "answered", "lost"}
  BY DEF StampsAreLate
<1>1. RowMove(d) /\ \A q \in Requests : RequestMove(q)
  BY DEF StepSummary
<1>2. CASE documents'[d] = documents[d]
  <2> DEFINE q == documents[d].processed_at
  <2>1. q \in Requests /\ pc[q] \in {"final_event", "notify", "answered", "lost"}
    BY <1>2 DEF TypeOK, Rows, StampsAreLate
  <2>2. RequestMove(q)
    BY <1>1, <2>1
  <2>3. pc'[q] \in {"final_event", "notify", "answered", "lost"}
    BY <2>1, <2>2 DEF RequestMove
  <2> QED
    BY <1>2, <2>3
<1>3. CASE documents[d].status = "ABSENT" /\ documents'[d] = [status |-> "UPLOADED", processed_at |-> None]
  BY <1>3
<1>4. CASE documents'[d] = [status |-> "PROCESSING", processed_at |-> None]
  BY <1>4
<1>5. ASSUME NEW q \in Requests, pc'[q] \in {"final_event", "answered"},
             documents'[d] = [status |-> FinalStatus(q), processed_at |-> q]
      PROVE  pc'[documents'[d].processed_at] \in {"final_event", "notify", "answered", "lost"}
  BY <1>5
<1> QED
  BY <1>1, <1>2, <1>3, <1>4, <1>5 DEF RowMove

\* A request keeps its claim on a PROCESSING document until it settles it.
LEMMA ClaimIsStable ==
  ASSUME TypeOK, Bookkeeping, NEW r \in Requests, RequestMove(r), LeftProcessing(r),
         ~(pc[r] = "persist" /\ pc'[r] = "final_event")
  PROVE  LeftProcessing(r)' /\ target'[r] = target[r]
<1>1. answer[r] # None => pc[r] = "answered"
  BY DEF Bookkeeping
<1>2. pc[r] \in {"start_event", "gateway", "persist", "lost", "answered"}
  BY <1>1, NoneIsFresh DEF LeftProcessing, Answers
<1>3. target'[r] = target[r]
  BY <1>2 DEF RequestMove
<1>4. CASE pc[r] \in {"answered", "lost"}
  BY <1>4 DEF RequestMove, LeftProcessing, Working
<1>5. CASE pc[r] \in {"start_event", "persist"}
  BY <1>5 DEF RequestMove, LeftProcessing
<1>6. CASE pc[r] = "gateway"
  <2>1. result[r] = None
    BY <1>6 DEF Bookkeeping
  <2> QED
    BY <1>6, <2>1 DEF RequestMove, LeftProcessing
<1> QED
  BY <1>2, <1>3, <1>4, <1>5, <1>6

LEMMA ProcessingIsOwnedStep ==
  ASSUME TypeOK, Bookkeeping, ProcessingIsOwned, StepSummary
  PROVE  ProcessingIsOwned'
<1> SUFFICES ASSUME NEW d \in Documents, documents'[d].status = "PROCESSING"
             PROVE  \E r \in Requests : target'[r] = d /\ LeftProcessing(r)'
  BY DEF ProcessingIsOwned
<1>1. RowMove(d) /\ \A q \in Requests : RequestMove(q)
  BY DEF StepSummary
<1>2. CASE documents'[d] = documents[d]
  <2>1. PICK r \in Requests : target[r] = d /\ LeftProcessing(r)
    BY <1>2 DEF ProcessingIsOwned
  <2>2. CASE pc[r] = "persist" /\ pc'[r] = "final_event"
    <3>1. documents'[d] = [status |-> FinalStatus(r), processed_at |-> r]
      BY <1>1, <2>1, <2>2 DEF RequestMove
    <3>2. FinalStatus(r) \in FinalStatuses
      BY <2>2, FinalStatusIsTyped DEF TypeOK
    <3> QED
      BY <3>1, <3>2 DEF FinalStatuses
  <2>3. CASE ~(pc[r] = "persist" /\ pc'[r] = "final_event")
    BY <1>1, <2>1, <2>3, ClaimIsStable
  <2> QED
    BY <2>2, <2>3
<1>3. CASE documents'[d] = [status |-> "UPLOADED", processed_at |-> None]
  BY <1>3
<1>4. ASSUME NEW q \in Requests,
             pc[q] = "mark", pc'[q] \in {"start_event", "answered"}, target[q] = d,
             pc'[q] = "answered" => answer'[q] = "500 start"
      PROVE  \E r \in Requests : target'[r] = d /\ LeftProcessing(r)'
  BY <1>1, <1>4 DEF RequestMove, LeftProcessing
<1>5. ASSUME NEW q \in Requests, pc[q] = "persist",
             documents'[d] = [status |-> FinalStatus(q), processed_at |-> q]
      PROVE  FALSE
  <2>1. FinalStatus(q) \in FinalStatuses
    BY <1>5, FinalStatusIsTyped DEF TypeOK
  <2> QED
    BY <1>5, <2>1 DEF FinalStatuses
<1> QED
  BY <1>1, <1>2, <1>3, <1>4, <1>5 DEF RowMove

LEMMA FinalStatusIsExplainedStep ==
  ASSUME TypeOK, StampsAreLate, RunsAreLogged, FinalStatusIsExplained, StepSummary
  PROVE  FinalStatusIsExplained'
<1> SUFFICES ASSUME NEW d \in Documents
             PROVE  /\ documents'[d].status \in FinalStatuses <=> documents'[d].processed_at # None
                    /\ \A r \in Requests : documents'[d].processed_at = r => Explains(r, d)'
  BY DEF FinalStatusIsExplained
<1>1. RowMove(d) /\ LogMove /\ \A q \in Requests : RequestMove(q)
  BY DEF StepSummary
\* What is true of the request that stamped a row stays true.
<1>2. ASSUME NEW r \in Requests, pc[r] \in {"persist", "final_event", "notify", "answered", "lost"},
             target[r] = d, result[r] # None, Logged(Event(r, "PROCESSING")),
             documents'[d].status = FinalStatus(r)
      PROVE  Explains(r, d)'
  <2>1. target'[r] = target[r] /\ result'[r] = result[r]
    BY <1>1, <1>2 DEF RequestMove
  <2>2. Event(r, "PROCESSING")' = Event(r, "PROCESSING") /\ FinalStatus(r)' = FinalStatus(r)
    BY <2>1 DEF Event, FinalStatus
  <2>3. Logged(Event(r, "PROCESSING"))'
    BY <1>1, <1>2, <2>2, LoggedIsStable
  <2> QED
    BY <1>2, <2>1, <2>2, <2>3 DEF Explains
<1>3. CASE documents'[d] = documents[d]
  <2>1. documents[d].status \in FinalStatuses <=> documents[d].processed_at # None
    BY DEF FinalStatusIsExplained
  <2>2. ASSUME NEW r \in Requests, documents[d].processed_at = r
        PROVE  Explains(r, d)'
    <3>1. pc[r] \in {"final_event", "notify", "answered", "lost"}
      BY <2>2, NoneIsFresh DEF StampsAreLate
    <3>2. Explains(r, d)
      BY <2>2 DEF FinalStatusIsExplained
    <3> QED
      BY <1>2, <1>3, <3>1, <3>2 DEF Explains
  <2> QED
    BY <1>3, <2>1, <2>2
<1>4. ASSUME NEW s \in {"UPLOADED", "PROCESSING"},
             documents'[d] = [status |-> s, processed_at |-> None]
      PROVE  documents'[d].status \notin FinalStatuses /\ documents'[d].processed_at = None
  BY <1>4 DEF FinalStatuses
<1>5. ASSUME NEW q \in Requests, pc[q] = "persist", target[q] = d,
             documents'[d] = [status |-> FinalStatus(q), processed_at |-> q]
      PROVE  /\ documents'[d].status \in FinalStatuses /\ documents'[d].processed_at = q
             /\ Explains(q, d)'
  <2>1. result[q] # None /\ FinalStatus(q) \in FinalStatuses
    BY <1>5, FinalStatusIsTyped DEF TypeOK
  <2>2. Logged(Event(q, "PROCESSING"))
    BY <1>5 DEF RunsAreLogged
  <2> QED
    BY <1>2, <1>5, <2>1, <2>2
<1> QED
  BY <1>1, <1>3, <1>4, <1>5, NoneIsFresh DEF RowMove

LEMMA StartPrecedesEndStep ==
  ASSUME TypeOK, RunsAreLogged, StartPrecedesEnd, StepSummary
  PROVE  StartPrecedesEnd'
<1> DEFINE log == processing_events
           Started(e) == [e EXCEPT !.status = "PROCESSING"]
<1>1. LogMove /\ log \in Seq(Events)
  BY DEF StepSummary, TypeOK
<1>2. CASE log' = log
  BY <1>2 DEF StartPrecedesEnd
<1>3. ASSUME NEW e \in Events, log' = Append(log, e),
             e.status \in FinalStatuses => Logged(Started(e))
      PROVE  StartPrecedesEnd'
  <2> SUFFICES ASSUME NEW i \in DOMAIN log', log'[i].status \in FinalStatuses
               PROVE  \E j \in 1..(i - 1) : log'[j] = Started(log'[i])
    BY DEF StartPrecedesEnd
  <2> HIDE DEF log
  <2>1. /\ DOMAIN log = 1..Len(log) /\ DOMAIN log' = 1..(Len(log) + 1) /\ Len(log) \in Nat
        /\ \A k \in 1..Len(log) : log'[k] = log[k]
        /\ log'[Len(log) + 1] = e
    BY <1>1, <1>3, AppendFacts
  <2>2. CASE i \in 1..Len(log)
    <3>1. PICK j \in 1..(i - 1) : log[j] = Started(log[i])
      BY <2>1, <2>2 DEF StartPrecedesEnd, log
    <3> QED
      BY <2>1, <2>2, <3>1
  <2>3. CASE i = Len(log) + 1
    <3>1. PICK j \in DOMAIN log : log[j] = Started(e)
      BY <1>3, <2>1, <2>3 DEF Logged, log
    <3> QED
      BY <2>1, <2>3, <3>1
  <2> QED
    BY <2>1, <2>2, <2>3
<1>4. ASSUME NEW q \in Requests, pc[q] = "start_event", log' = Append(log, Event(q, "PROCESSING"))
      PROVE  StartPrecedesEnd'
  <2>1. Event(q, "PROCESSING") \in Events
    BY <1>4, LoggedEventsAreTyped
  <2>2. Event(q, "PROCESSING").status \notin FinalStatuses
    BY DEF Event, FinalStatuses
  <2> QED
    BY <1>3, <1>4, <2>1, <2>2
<1>5. ASSUME NEW q \in Requests, pc[q] = "final_event", log' = Append(log, Event(q, FinalStatus(q)))
      PROVE  StartPrecedesEnd'
  <2>1. Event(q, FinalStatus(q)) \in Events
    BY <1>5, LoggedEventsAreTyped
  <2>2. Logged(Event(q, "PROCESSING"))
    BY <1>5 DEF RunsAreLogged
  <2>3. Started(Event(q, FinalStatus(q))) = Event(q, "PROCESSING")
    BY DEF Event
  <2> QED
    BY <1>3, <1>5, <2>1, <2>2, <2>3
<1> QED
  BY <1>1, <1>2, <1>4, <1>5 DEF LogMove

LEMMA ToldOnlyAfterLoggedStep ==
  ASSUME TypeOK, Bookkeeping, RunsAreLogged, ToldOnlyAfterLogged, StepSummary
  PROVE  ToldOnlyAfterLogged'
<1>1. LogMove /\ WebhookMove /\ \A q \in Requests : RequestMove(q)
  BY DEF StepSummary
<1>2. ASSUME NEW i \in DOMAIN webhooks'
      PROVE  webhooks'[i].status \in FinalStatuses /\ Logged(webhooks[i])'
  <2>1. webhooks \in Seq(Events)
    BY DEF TypeOK
  <2>2. CASE i \in DOMAIN webhooks /\ webhooks'[i] = webhooks[i]
    <3>1. webhooks[i].status \in FinalStatuses /\ Logged(webhooks[i])
      BY <2>2 DEF ToldOnlyAfterLogged
    <3>2. ASSUME NEW e, e = webhooks[i]
          PROVE  Logged(e)'
      BY <1>1, <3>1, <3>2, LoggedIsStable
    <3>3. \E j \in DOMAIN processing_events' : processing_events'[j] = webhooks[i]
      BY <3>2 DEF Logged
    <3> QED
      BY <2>2, <3>1, <3>3 DEF Logged
  <2>3. ASSUME NEW q \in Requests, pc[q] = "notify", webhooks'[i] = Event(q, FinalStatus(q))
        PROVE  webhooks'[i].status \in FinalStatuses /\ Logged(webhooks[i])'
    <3>1. FinalStatus(q) \in FinalStatuses /\ Logged(Event(q, FinalStatus(q)))
      BY <2>3, LoggedEventsAreTyped DEF RunsAreLogged
    <3>2. ASSUME NEW e, e = Event(q, FinalStatus(q))
          PROVE  Logged(e)'
      BY <1>1, <3>1, <3>2, LoggedIsStable
    <3>3. \E j \in DOMAIN processing_events' : processing_events'[j] = Event(q, FinalStatus(q))
      BY <3>2 DEF Logged
    <3> QED
      BY <2>3, <3>1, <3>3 DEF Logged, Event
  <2>4. ASSUME NEW q \in Requests, pc[q] = "notify",
               webhooks' = Append(webhooks, Event(q, FinalStatus(q)))
        PROVE  \/ i \in DOMAIN webhooks /\ webhooks'[i] = webhooks[i]
               \/ webhooks'[i] = Event(q, FinalStatus(q))
    <3>1. Event(q, FinalStatus(q)) \in Events
      BY <2>4, LoggedEventsAreTyped
    <3> QED
      BY <2>1, <2>4, <3>1, AppendFacts
  <2> QED
    BY <1>1, <2>2, <2>3, <2>4 DEF WebhookMove
<1>3. ASSUME NEW r \in Requests, answer'[r] \in {"200", "502"}
      PROVE  Logged(Event(r, "PROCESSING"))' /\ Logged(Event(r, FinalStatus(r)))'
  <2>1. \/ answer[r] = answer'[r] /\ pc[r] = "answered"
        \/ pc[r] = "notify"
    BY <1>1, <1>3, NoneIsFresh DEF RequestMove, Bookkeeping, Answers
  <2>2. Event(r, "PROCESSING")' = Event(r, "PROCESSING")
        /\ Event(r, FinalStatus(r))' = Event(r, FinalStatus(r))
    BY <1>1, <2>1 DEF RequestMove, Event, FinalStatus
  <2>3. Logged(Event(r, "PROCESSING")) /\ Logged(Event(r, FinalStatus(r)))
    BY <1>3, <2>1 DEF RunsAreLogged, ToldOnlyAfterLogged
  <2> QED
    BY <1>1, <2>2, <2>3, LoggedIsStable
<1> QED
  BY <1>2, <1>3 DEF ToldOnlyAfterLogged

LEMMA InvStep == IInv /\ [Next]_vars => IInv'
<1> SUFFICES ASSUME IInv, [Next]_vars
             PROVE  IInv'
  OBVIOUS
<1>1. TypeOK' /\ StepSummary
  BY TypeStep, StepsAreSummarised DEF IInv
<1>2. Bookkeeping' /\ RunsAreLogged' /\ StampsAreLate'
  BY <1>1, BookkeepingStep, RunsAreLoggedStep, StampsAreLateStep DEF IInv
<1>3. ProcessingIsOwned' /\ FinalStatusIsExplained'
  BY <1>1, ProcessingIsOwnedStep, FinalStatusIsExplainedStep DEF IInv
<1>4. StartPrecedesEnd' /\ ToldOnlyAfterLogged'
  BY <1>1, StartPrecedesEndStep, ToldOnlyAfterLoggedStep DEF IInv
<1> QED
  BY <1>1, <1>2, <1>3, <1>4 DEF IInv

LEMMA Invariance == Spec => []IInv
BY InvInit, InvStep, PTL DEF Spec

-----------------------------------------------------------------------------
(* The theorems.                                                           *)

\* However requests overlap and fail, a document that is PROCESSING is so
\* because of a request at work on it or of one that ended by a crash, a
\* store's failure or an unhandled exception.
THEOREM ProcessingOwned == Spec => []ProcessingIsOwned
<1>1. IInv => ProcessingIsOwned
  BY DEF IInv
<1> QED
  BY <1>1, Invariance, PTL

\* A final status always comes from the check of the request that stamped it.
THEOREM FinalStatusExplained == Spec => []FinalStatusIsExplained
<1>1. IInv => FinalStatusIsExplained
  BY DEF IInv
<1> QED
  BY <1>1, Invariance, PTL

\* The log holds the start of every run whose end it holds, and before it.
THEOREM StartsPrecedeEnds == Spec => []StartPrecedesEnd
<1>1. IInv => StartPrecedesEnd
  BY DEF IInv
<1> QED
  BY <1>1, Invariance, PTL

\* Nobody is told of a result that is not in the log.
THEOREM TellingFollowsLogging == Spec => []ToldOnlyAfterLogged
<1>1. IInv => ToldOnlyAfterLogged
  BY DEF IInv
<1> QED
  BY <1>1, Invariance, PTL

-----------------------------------------------------------------------------
(* Requests that exclude each other: the stores settle on the same run.    *)

\* Requests of clients that wait exclude each other on a document.
Waiting ==
  ClientsWait =>
    \A q, r \in Requests : q # r /\ InFlight(q) /\ InFlight(r) => target[q] # target[r]

LEMMA WaitingStep ==
  ASSUME TypeOK, Waiting, [Next]_vars
  PROVE  Waiting'
<1> SUFFICES ASSUME ClientsWait, NEW q \in Requests, NEW r \in Requests, q # r,
                    InFlight(q)', InFlight(r)'
             PROVE  target'[q] # target'[r]
  BY DEF Waiting
<1>1. ASSUME NEW s \in Requests, NEW d \in Documents, Receive(s, d)
      PROVE  target'[q] # target'[r]
  BY <1>1 DEF TypeOK, Waiting, Receive, Goto, InFlight
<1>2. CASE ~ \E s \in Requests, d \in Documents : Receive(s, d)
  <2>1. target' = target /\ \A p \in Requests : InFlight(p)' => InFlight(p)
    <3> USE <1>2 DEF InFlight, Working
    <3>1. CASE UNCHANGED vars
      BY <3>1
    <3>2. CASE \E d \in Documents : CreateDocument(d)
      BY <3>2 DEF CreateDocument
    <3>3. CASE \E s \in Requests : RejectMalformedId(s) \/ ReadDocument(s)
      BY <3>3 DEF TypeOK, RejectMalformedId, ReadDocument, Answer, Goto
    <3>4. CASE \E s \in Requests : MarkProcessing(s) \/ InsertStartEvent(s)
      BY <3>4 DEF TypeOK, MarkProcessing, InsertStartEvent, Answer, Goto
    <3>5. CASE \E s \in Requests : CallGateway(s)
      BY <3>5 DEF TypeOK, CallGateway, CheckReturns, CheckEscapes, Answer, Goto
    <3>6. CASE \E s \in Requests : PersistResult(s) \/ InsertFinalEvent(s) \/ NotifyBff(s)
      BY <3>6 DEF TypeOK, PersistResult, InsertFinalEvent, NotifyBff, Answer, Goto
    <3>7. CASE Crash
      BY <3>7 DEF TypeOK, Crash
    <3> QED
      BY <3>1, <3>2, <3>3, <3>4, <3>5, <3>6, <3>7 DEF Next, Step
  <2> QED
    BY <2>1 DEF Waiting
<1> QED
  BY <1>1, <1>2

LEMMA WaitingInit == Init => Waiting
BY DEF Init, Waiting, InFlight, Working

\* The BFF is told of a run by a request that is over, and that left no
\* document PROCESSING.
IsOver(r) ==
  /\ pc[r] = "answered"
  /\ answer[r] \in {"200", "502", "500 unhandled"}
  /\ result[r] # None

ToldWhenOver == \A i \in DOMAIN webhooks : IsOver(webhooks[i].by)

\* Only NotifyBff tells the BFF, and it tells a final status.
LEMMA WebhookIsOfNotify ==
  ASSUME IInv, [Next]_vars, webhooks' # webhooks
  PROVE  \E q \in Requests :
           /\ webhooks' = Append(webhooks, Event(q, FinalStatus(q)))
           /\ Event(q, FinalStatus(q)) \in Events
           /\ FinalStatus(q) \in FinalStatuses
           /\ IsOver(q)'
<1>1. PICK q \in Requests : NotifyBff(q)
  <2>1. ASSUME NEW d \in Documents, CreateDocument(d) PROVE FALSE
    BY <2>1 DEF CreateDocument
  <2>2. ASSUME NEW r \in Requests, NEW d \in Documents, Receive(r, d) PROVE FALSE
    BY <2>2 DEF Receive
  <2>3. ASSUME NEW r \in Requests, RejectMalformedId(r) PROVE FALSE
    BY <2>3 DEF RejectMalformedId
  <2>4. ASSUME NEW r \in Requests, Step(r) PROVE NotifyBff(r)
    BY <2>4 DEF Step, ReadDocument, MarkProcessing, InsertStartEvent, CallGateway, CheckReturns,
                CheckEscapes, PersistResult, InsertFinalEvent
  <2>5. CASE Crash
    BY <2>5 DEF Crash
  <2> QED
    BY <2>1, <2>2, <2>3, <2>4, <2>5 DEF Next, vars
<1>2. TypeOK
  BY DEF IInv
<1>3. pc[q] = "notify" /\ webhooks' = Append(webhooks, Event(q, FinalStatus(q)))
  BY <1>1 DEF NotifyBff, Answer, Goto
<1>4. target[q] \in Documents /\ result[q] # None
  BY <1>2, <1>3 DEF TypeOK, InFlight, Working
<1>5. FinalStatus(q) \in FinalStatuses
  BY <1>2, <1>4, FinalStatusIsTyped
<1>6. Event(q, FinalStatus(q)) \in Events
  BY <1>2, <1>4, <1>5, EventIsTyped DEF DocumentStatuses
<1>7. IsOver(q)'
  BY <1>1, <1>2, <1>4 DEF NotifyBff, Answer, Goto, TypeOK, IsOver
<1> QED
  BY <1>3, <1>5, <1>6, <1>7

LEMMA OverIsStable ==
  ASSUME StepSummary, NEW r \in Requests, IsOver(r)
  PROVE  IsOver(r)'
BY DEF StepSummary, RequestMove, IsOver, Working

LEMMA WebhooksAreTyped ==
  ASSUME TypeOK, NEW i \in DOMAIN webhooks
  PROVE  webhooks[i].by \in Requests /\ webhooks[i].document_id \in Documents
<1>1. webhooks[i] \in Events
  BY DEF TypeOK
<1> QED
  BY <1>1 DEF Events

\* While clients wait, the row is the run's own from its mark to its end.
RunsHoldTheRow ==
  \A r \in Requests :
    /\ pc[r] \in {"start_event", "gateway", "persist"} =>
         documents[target[r]].status = "PROCESSING"
    /\ pc[r] \in {"final_event", "notify"} => documents[target[r]].processed_at = r

\* What is logged after the stamp of a row is logged by the request that stamped it.
StampIsLoggedLast ==
  \A d \in Documents, r \in Requests :
    documents[d].processed_at = r /\ (pc[r] = "notify" \/ answer[r] \in {"200", "502"}) =>
      LastOf(processing_events, d, Event(r, documents[d].status))

\* The webhook of the request that stamped a row tells that row, and is the last
\* one about its document.
StampIsToldLast ==
  \A d \in Documents, i \in DOMAIN webhooks :
    documents[d].processed_at = webhooks[i].by =>
      /\ webhooks[i] = Event(webhooks[i].by, documents[d].status)
      /\ \A j \in i + 1..Len(webhooks) : webhooks[j].document_id # d

\* A document that was processed once is never again as it was uploaded.
ProcessedForGood ==
  \A r \in Requests :
    answer[r] \in {"200", "502"} =>
      target[r] \in Documents /\ documents[target[r]].status \notin {"ABSENT", "UPLOADED"}

\* A request that was turned away has no result.
RefusedWithoutResult ==
  \A r \in Requests : answer[r] \in {"404", "409", "500 read"} => result[r] = None

SerialInv ==
  /\ RunsHoldTheRow
  /\ StampIsLoggedLast
  /\ StampIsToldLast
  /\ ProcessedForGood
  /\ RefusedWithoutResult
  /\ ToldWhenOver

LEMMA LastOfAppended ==
  ASSUME NEW S, NEW log \in Seq(S), NEW e \in S, NEW d
  PROVE  LastOf(Append(log, e), d, e)
<1>1. Len(Append(log, e)) = Len(log) + 1 /\ Append(log, e)[Len(log) + 1] = e
      /\ DOMAIN Append(log, e) = 1..(Len(log) + 1) /\ Len(log) \in Nat
  BY AppendFacts
<1> QED
  BY <1>1 DEF LastOf

LEMMA LastOfOther ==
  ASSUME NEW S, NEW log \in Seq(S), NEW e \in S, NEW d, NEW f,
         e.document_id # d, LastOf(log, d, f)
  PROVE  LastOf(Append(log, e), d, f)
<1>1. PICK i \in DOMAIN log : log[i] = f /\ \A j \in i + 1..Len(log) : log[j].document_id # d
  BY DEF LastOf
<1> DEFINE more == Append(log, e)
<1>2. /\ Len(more) = Len(log) + 1 /\ \A k \in 1..Len(log) : more[k] = log[k]
      /\ more[Len(log) + 1] = e /\ DOMAIN log = 1..Len(log)
      /\ DOMAIN more = 1..(Len(log) + 1) /\ Len(log) \in Nat
  BY AppendFacts
<1> HIDE DEF more
<1>3. i \in DOMAIN more /\ more[i] = f
  BY <1>1, <1>2
<1>4. ASSUME NEW j \in i + 1..Len(more)
      PROVE  more[j].document_id # d
  <2>1. CASE j = Len(log) + 1
    BY <1>2, <2>1
  <2>2. CASE j # Len(log) + 1
    <3>1. j \in i + 1..Len(log) /\ j \in 1..Len(log)
      BY <1>1, <1>2, <2>2
    <3> QED
      BY <1>1, <1>2, <3>1
  <2> QED
    BY <2>1, <2>2
<1> QED
  BY <1>3, <1>4 DEF LastOf, more

\* Only the one request at work on a document moves its row.
LEMMA RowMoveIsOfTheRunAtWork ==
  ASSUME ClientsWait, Waiting, StepSummary, NEW r \in Requests, InFlight(r), NEW d \in Documents,
         target[r] = d, documents[d].status # "ABSENT", documents'[d] # documents[d]
  PROVE  \/ /\ pc[r] = "mark" /\ pc'[r] \in {"start_event", "answered"}
            /\ documents'[d] = [status |-> "PROCESSING", processed_at |-> None]
         \/ /\ pc[r] = "persist" /\ pc'[r] \in {"final_event", "answered"}
            /\ documents'[d] = [status |-> FinalStatus(r), processed_at |-> r]
<1>1. RowMove(d)
  BY DEF StepSummary
<1>2. ASSUME NEW q \in Requests, pc[q] \in {"mark", "persist"}, target[q] = d
      PROVE  q = r
  BY <1>2 DEF Waiting, InFlight, Working
<1> QED
  BY <1>1, <1>2 DEF RowMove

LEMMA RunsHoldTheRowStep ==
  ASSUME ClientsWait, IInv, Waiting, RunsHoldTheRow, StepSummary
  PROVE  RunsHoldTheRow'
<1> SUFFICES ASSUME NEW r \in Requests,
                    pc'[r] \in {"start_event", "gateway", "persist", "final_event", "notify"}
             PROVE  /\ pc'[r] \in {"start_event", "gateway", "persist"} =>
                         documents'[target'[r]].status = "PROCESSING"
                    /\ pc'[r] \in {"final_event", "notify"} => documents'[target'[r]].processed_at = r
  BY DEF RunsHoldTheRow
<1>1. RequestMove(r)
  BY DEF StepSummary
<1>2. pc[r] \in {"mark", "start_event", "gateway", "persist", "final_event", "notify"}
  BY <1>1 DEF RequestMove
<1>3. InFlight(r) /\ target[r] \in Documents /\ target'[r] = target[r]
  BY <1>1, <1>2 DEF RequestMove, IInv, TypeOK, InFlight, Working
<1>4. PICK d \in Documents : d = target[r]
  BY <1>3
<1>5. CASE pc[r] = "mark"
  <2>1. pc'[r] = "start_event" /\ documents'[target[r]] = [status |-> "PROCESSING", processed_at |-> None]
    BY <1>1, <1>5 DEF RequestMove
  <2> QED
    BY <1>3, <2>1
<1>6. CASE pc[r] # "mark"
  <2>1. documents[d].status # "ABSENT"
    <3>1. pc[r] \in {"start_event", "gateway", "persist"} => documents[d].status = "PROCESSING"
      BY <1>4 DEF RunsHoldTheRow
    <3>2. pc[r] \in {"final_event", "notify"} => documents[d].status \in FinalStatuses
      BY <1>4, NoneIsFresh DEF RunsHoldTheRow, IInv, FinalStatusIsExplained
    <3> QED
      BY <1>2, <1>6, <3>1, <3>2 DEF FinalStatuses
  <2>2. CASE pc[r] = "persist" /\ pc'[r] = "final_event"
    BY <1>1, <1>3, <1>4, <2>2 DEF RequestMove
  <2>3. CASE ~(pc[r] = "persist" /\ pc'[r] = "final_event")
    <3>1. documents'[d] = documents[d]
      BY <1>2, <1>3, <1>4, <1>6, <2>1, <2>3, RowMoveIsOfTheRunAtWork
    <3>2. \/ pc[r] \in {"start_event", "gateway", "persist"} /\ pc'[r] \in {"start_event", "gateway", "persist"}
          \/ pc[r] \in {"final_event", "notify"} /\ pc'[r] \in {"final_event", "notify"}
      BY <1>1, <1>2, <1>6, <2>3 DEF RequestMove
    <3> QED
      BY <1>3, <1>4, <3>1, <3>2 DEF RunsHoldTheRow
  <2> QED
    BY <2>2, <2>3
<1> QED
  BY <1>2, <1>5, <1>6

\* The stamp of a row that keeps it, or is new: of a request just past "persist".
LEMMA StampMoves ==
  ASSUME TypeOK, StepSummary, NEW d \in Documents, NEW r \in Requests, documents'[d].processed_at = r
  PROVE  \/ documents'[d] = documents[d]
         \/ pc[r] = "persist" /\ pc'[r] \in {"final_event", "answered"}
<1>1. RowMove(d) /\ r # None
  BY NoneIsFresh DEF StepSummary
<1>2. ASSUME NEW s, documents'[d] = [status |-> s, processed_at |-> None]
      PROVE  FALSE
  BY <1>1, <1>2
<1>3. ASSUME NEW q \in Requests, documents'[d] = [status |-> FinalStatus(q), processed_at |-> q]
      PROVE  q = r
  BY <1>3
<1> QED
  BY <1>1, <1>2, <1>3 DEF RowMove

LEMMA StampIsLoggedLastStep ==
  ASSUME ClientsWait, IInv, Waiting, RunsHoldTheRow, StampIsLoggedLast, StepSummary
  PROVE  StampIsLoggedLast'
<1> SUFFICES ASSUME NEW d \in Documents, NEW r \in Requests, documents'[d].processed_at = r,
                    pc'[r] = "notify" \/ answer'[r] \in {"200", "502"}
             PROVE  LastOf(processing_events, d, Event(r, documents[d].status))'
  BY DEF StampIsLoggedLast
<1>1. RequestMove(r) /\ LogMove
  BY DEF StepSummary
<1>2. TypeOK /\ processing_events \in Seq(Events)
  BY DEF IInv, TypeOK
<1>3. pc'[r] \in {"final_event", "answered"} /\ pc[r] = "persist" => answer'[r] \notin {"200", "502"}
  BY <1>1, NoneIsFresh DEF RequestMove, IInv, Bookkeeping, Answers
<1>4. documents'[d] = documents[d] /\ documents[d].processed_at = r
  BY <1>2, <1>3, StampMoves
<1>5. pc[r] \in {"final_event", "notify", "answered", "lost"} /\ Explains(r, d)
  BY <1>4, NoneIsFresh DEF IInv, StampsAreLate, FinalStatusIsExplained
<1>6. target'[r] = target[r] /\ target[r] = d /\ documents[d].status = FinalStatus(r)
  BY <1>1, <1>5 DEF RequestMove, Explains
<1>7. PICK e : e = Event(r, documents[d].status)
  OBVIOUS
<1>8. Event(r, documents[d].status)' = e
  BY <1>4, <1>6, <1>7 DEF Event
<1>9. LastOf(processing_events', d, e)
  <2>1. CASE pc[r] = "final_event"
    <3>1. pc'[r] = "notify" /\ processing_events' = Append(processing_events, Event(r, FinalStatus(r)))
      BY <1>1, <2>1, NoneIsFresh DEF RequestMove, IInv, Bookkeeping, Answers
    <3>2. e = Event(r, FinalStatus(r)) /\ e \in Events
      BY <1>2, <1>6, <1>7, <2>1, LoggedEventsAreTyped
    <3> QED
      BY <1>2, <3>1, <3>2, LastOfAppended
  <2>2. CASE pc[r] # "final_event"
    <3>1. pc[r] = "notify" \/ answer[r] \in {"200", "502"}
      BY <1>1, <1>5, <2>2 DEF RequestMove
    <3>2. LastOf(processing_events, d, e)
      BY <1>4, <1>7, <3>1 DEF StampIsLoggedLast
    <3>3. CASE processing_events' = processing_events
      BY <3>2, <3>3
    <3>4. ASSUME NEW q \in Requests, pc[q] \in {"start_event", "final_event"}, NEW s,
                 Event(q, s) \in Events, processing_events' = Append(processing_events, Event(q, s))
          PROVE  LastOf(processing_events', d, e)
      <4>1. target[q] # d
        <5>1. CASE pc[q] = "start_event"
          BY <1>4, <3>4, <5>1, <1>6, <1>5, FinalStatusIsTyped, <1>2 DEF RunsHoldTheRow, Explains, FinalStatuses
        <5>2. CASE pc[q] = "final_event"
          BY <1>4, <2>2, <5>2 DEF RunsHoldTheRow
        <5> QED
          BY <3>4, <5>1, <5>2
      <4>2. Event(q, s).document_id # d
        BY <4>1 DEF Event
      <4> QED
        BY <1>2, <3>2, <3>4, <4>2, LastOfOther
    <3> QED
      BY <1>1, <1>2, <3>3, <3>4, LoggedEventsAreTyped DEF LogMove
  <2> QED
    BY <2>1, <2>2
<1> QED
  BY <1>8, <1>9 DEF LastOf

LEMMA ToldWhenOverStep ==
  ASSUME IInv, ToldWhenOver, StepSummary, [Next]_vars
  PROVE  ToldWhenOver'
<1> SUFFICES ASSUME NEW i \in DOMAIN webhooks'
             PROVE  IsOver(webhooks[i].by)'
  BY DEF ToldWhenOver
<1>1. TypeOK /\ webhooks \in Seq(Events)
  BY DEF IInv, TypeOK
<1>2. ASSUME i \in DOMAIN webhooks, webhooks'[i] = webhooks[i]
      PROVE  IsOver(webhooks[i].by)'
  <2>1. PICK r \in Requests : r = webhooks[i].by
    BY <1>1, <1>2, WebhooksAreTyped
  <2>2. IsOver(r)'
    BY <1>2, <2>1, OverIsStable DEF ToldWhenOver
  <2> QED
    BY <1>2, <2>1, <2>2 DEF IsOver
<1>3. CASE webhooks' = webhooks
  BY <1>2, <1>3
<1>4. CASE webhooks' # webhooks
  <2>1. PICK q \in Requests :
          /\ webhooks' = Append(webhooks, Event(q, FinalStatus(q)))
          /\ Event(q, FinalStatus(q)) \in Events
          /\ IsOver(q)'
    BY <1>4, WebhookIsOfNotify
  <2>2. \/ i \in DOMAIN webhooks /\ webhooks'[i] = webhooks[i]
        \/ webhooks'[i] = Event(q, FinalStatus(q))
    BY <1>1, <2>1, AppendFacts
  <2>3. ASSUME webhooks'[i] = Event(q, FinalStatus(q))
        PROVE  IsOver(webhooks[i].by)'
    <3>1. webhooks'[i].by = q
      BY <2>3 DEF Event
    <3> QED
      BY <2>1, <3>1 DEF IsOver
  <2> QED
    BY <1>2, <2>2, <2>3
<1> QED
  BY <1>3, <1>4

LEMMA StampIsToldLastStep ==
  ASSUME ClientsWait, IInv, Waiting, RunsHoldTheRow, StampIsToldLast, ToldWhenOver, StepSummary
  PROVE  StampIsToldLast'
<1> SUFFICES ASSUME NEW d \in Documents, NEW i \in DOMAIN webhooks',
                    documents'[d].processed_at = webhooks'[i].by
             PROVE  /\ webhooks'[i] = Event(webhooks[i].by, documents[d].status)'
                    /\ \A j \in i + 1..Len(webhooks') : webhooks'[j].document_id # d
  BY DEF StampIsToldLast
<1>1. TypeOK /\ webhooks \in Seq(Events) /\ WebhookMove
  BY DEF IInv, TypeOK, StepSummary
<1>2. PICK r : r = webhooks'[i].by
  OBVIOUS
\* A webhook that was there: its row is as it was.
<1>3. ASSUME i \in DOMAIN webhooks, webhooks'[i] = webhooks[i]
      PROVE  /\ webhooks'[i] = Event(webhooks[i].by, documents[d].status)'
             /\ documents'[d] = documents[d] /\ r \in Requests /\ IsOver(r)
             /\ \A j \in i + 1..Len(webhooks) : webhooks[j].document_id # d
  <2>1. r \in Requests /\ IsOver(r)
    BY <1>1, <1>2, <1>3, WebhooksAreTyped DEF ToldWhenOver
  <2>2. documents'[d] = documents[d] /\ RequestMove(r)
    BY <1>1, <1>2, <2>1, StampMoves DEF IsOver, StepSummary
  <2>3. target'[r] = target[r]
    BY <2>1, <2>2 DEF RequestMove, IsOver
  <2>4. /\ webhooks[i] = Event(r, documents[d].status)
        /\ \A j \in i + 1..Len(webhooks) : webhooks[j].document_id # d
    BY <1>2, <1>3, <2>2 DEF StampIsToldLast
  <2> QED
    BY <1>2, <1>3, <2>1, <2>2, <2>3, <2>4 DEF Event
<1>4. ASSUME NEW q \in Requests, pc[q] = "notify",
             webhooks' = Append(webhooks, Event(q, FinalStatus(q)))
      PROVE  /\ webhooks'[i] = Event(webhooks[i].by, documents[d].status)'
             /\ \A j \in i + 1..Len(webhooks') : webhooks'[j].document_id # d
  <2>1. PICK e \in Events : e = Event(q, FinalStatus(q))
    BY <1>1, <1>4, LoggedEventsAreTyped
  <2>2. /\ DOMAIN webhooks = 1..Len(webhooks) /\ Len(webhooks) \in Nat
        /\ Len(webhooks') = Len(webhooks) + 1 /\ webhooks'[Len(webhooks) + 1] = e
        /\ \A k \in 1..Len(webhooks) : webhooks'[k] = webhooks[k]
        /\ DOMAIN webhooks' = 1..(Len(webhooks) + 1)
    BY <1>1, <1>4, <2>1, AppendFacts
  <2>3. target[q] \in Documents
    BY <1>1, <1>4 DEF TypeOK, InFlight, Working
  <2>4. CASE i = Len(webhooks) + 1
    <3>1. r = q
      BY <1>2, <2>1, <2>2, <2>4 DEF Event
    <3>2. documents'[d] = documents[d] /\ target'[q] = target[q]
      <4>1. documents'[d].processed_at = q /\ pc[q] # "persist" /\ RequestMove(q)
        BY <1>2, <1>4, <3>1 DEF StepSummary
      <4> QED
        BY <1>1, <1>4, <4>1, StampMoves DEF RequestMove
    <3>3. documents[d].status = FinalStatus(q)
      BY <1>2, <3>1, <3>2 DEF IInv, FinalStatusIsExplained, Explains
    <3>4. e = Event(webhooks[i].by, documents[d].status)'
      BY <1>2, <2>1, <3>1, <3>2, <3>3 DEF Event
    <3>5. i + 1..Len(webhooks') = {}
      BY <2>2, <2>4
    <3>6. webhooks'[i] = e
      BY <2>2, <2>4
    <3> QED
      BY <3>4, <3>5, <3>6
  <2>5. CASE i # Len(webhooks) + 1
    <3>1. i \in DOMAIN webhooks /\ webhooks'[i] = webhooks[i]
      BY <2>2, <2>5
    <3>2. target[q] # d
      <4>1. documents[d].processed_at = r /\ r # q
        BY <1>2, <1>3, <1>4, <3>1 DEF IsOver
      <4> QED
        BY <1>4, <4>1 DEF RunsHoldTheRow
    <3>3. e.document_id # d
      BY <2>1, <3>2 DEF Event
    <3>4. \A j \in i + 1..Len(webhooks') :
            \/ j = Len(webhooks) + 1
            \/ j \in i + 1..Len(webhooks) /\ j \in 1..Len(webhooks)
      <4>1. PICK n \in Nat : n = Len(webhooks)
        BY <2>2
      <4>2. i \in 1..n /\ Len(webhooks') = n + 1
        BY <2>2, <3>1, <4>1
      <4>3. \A j \in i + 1..n + 1 : j = n + 1 \/ (j \in i + 1..n /\ j \in 1..n)
        BY <4>2
      <4> QED
        BY <4>1, <4>2, <4>3
    <3> QED
      BY <1>3, <2>2, <3>1, <3>3, <3>4
  <2> QED
    BY <2>4, <2>5
<1>5. CASE webhooks' = webhooks
  BY <1>3, <1>5
<1> QED
  BY <1>1, <1>4, <1>5 DEF WebhookMove

LEMMA ProcessedForGoodStep ==
  ASSUME IInv, RunsHoldTheRow, ProcessedForGood, StepSummary
  PROVE  ProcessedForGood'
<1> SUFFICES ASSUME NEW r \in Requests, answer'[r] \in {"200", "502"}
             PROVE  target'[r] \in Documents /\ documents'[target'[r]].status \notin {"ABSENT", "UPLOADED"}
  BY DEF ProcessedForGood
<1>1. RequestMove(r) /\ TypeOK
  BY DEF StepSummary, IInv
<1>2. \/ answer[r] = answer'[r] /\ pc[r] = "answered"
      \/ pc[r] = "notify"
  BY <1>1, NoneIsFresh DEF RequestMove, IInv, Bookkeeping, Answers
<1>3. target'[r] = target[r]
  BY <1>1, <1>2 DEF RequestMove
<1>4. target[r] \in Documents /\ documents[target[r]].status \notin {"ABSENT", "UPLOADED"}
  <2>1. CASE pc[r] = "notify"
    <3>1. target[r] \in Documents /\ documents[target[r]].processed_at = r
      BY <1>1, <2>1 DEF RunsHoldTheRow, TypeOK, InFlight, Working
    <3> QED
      BY <3>1, NoneIsFresh DEF IInv, FinalStatusIsExplained, FinalStatuses
  <2> QED
    BY <1>2, <2>1 DEF ProcessedForGood
<1>5. RowMove(target[r])
  BY <1>4 DEF StepSummary
<1>6. \A q \in Requests : pc[q] = "persist" => FinalStatus(q) \in FinalStatuses
  BY <1>1, FinalStatusIsTyped DEF TypeOK
<1>7. documents'[target[r]].status \notin {"ABSENT", "UPLOADED"}
  <2>1. CASE documents'[target[r]] = documents[target[r]]
    BY <1>4, <2>1
  <2>2. CASE documents'[target[r]] = [status |-> "PROCESSING", processed_at |-> None]
    BY <2>2
  <2>3. ASSUME NEW q \in Requests, pc[q] = "persist",
               documents'[target[r]] = [status |-> FinalStatus(q), processed_at |-> q]
        PROVE  documents'[target[r]].status \notin {"ABSENT", "UPLOADED"}
    BY <1>6, <2>3 DEF FinalStatuses
  <2> QED
    BY <1>4, <1>5, <2>1, <2>2, <2>3 DEF RowMove
<1> QED
  BY <1>3, <1>4, <1>7

LEMMA RefusedWithoutResultStep ==
  ASSUME IInv, RefusedWithoutResult, StepSummary
  PROVE  RefusedWithoutResult'
<1> SUFFICES ASSUME NEW r \in Requests, answer'[r] \in {"404", "409", "500 read"}
             PROVE  result'[r] = None
  BY DEF RefusedWithoutResult
<1>1. RequestMove(r)
  BY DEF StepSummary
<1>2. \/ answer[r] = answer'[r] /\ pc[r] = "answered"
      \/ pc[r] = "read"
  BY <1>1, NoneIsFresh DEF RequestMove, IInv, Bookkeeping, Answers
<1>3. result'[r] = result[r]
  BY <1>1, <1>2 DEF RequestMove
<1> QED
  BY <1>2, <1>3 DEF RefusedWithoutResult, IInv, Bookkeeping

LEMMA SerialInit == Init => SerialInv
<1> SUFFICES ASSUME Init PROVE SerialInv
  OBVIOUS
<1>1. DOMAIN webhooks = {}
  BY DEF Init
<1>2. \A r \in Requests : pc[r] = "idle" /\ result[r] = None /\ answer[r] \notin Answers
  BY NoneIsFresh DEF Init
<1>3. RunsHoldTheRow /\ StampIsLoggedLast /\ ProcessedForGood /\ RefusedWithoutResult
  BY <1>2 DEF RunsHoldTheRow, StampIsLoggedLast, ProcessedForGood, RefusedWithoutResult, Answers
<1>4. StampIsToldLast /\ ToldWhenOver
  BY <1>1 DEF StampIsToldLast, ToldWhenOver
<1> QED
  BY <1>3, <1>4 DEF SerialInv

LEMMA SerialStep ==
  ASSUME ClientsWait, IInv, Waiting, SerialInv, [Next]_vars
  PROVE  SerialInv'
<1>1. StepSummary
  BY StepsAreSummarised DEF IInv
<1>2. RunsHoldTheRow' /\ StampIsLoggedLast'
  BY <1>1, RunsHoldTheRowStep, StampIsLoggedLastStep DEF SerialInv
<1>3. StampIsToldLast' /\ ToldWhenOver'
  BY <1>1, StampIsToldLastStep, ToldWhenOverStep DEF SerialInv
<1>4. ProcessedForGood' /\ RefusedWithoutResult'
  BY <1>1, ProcessedForGoodStep, RefusedWithoutResultStep DEF SerialInv
<1> QED
  BY <1>2, <1>3, <1>4 DEF SerialInv

LEMMA SerialInvariance ==
  ASSUME ClientsWait
  PROVE  Spec => [](IInv /\ Waiting /\ SerialInv)
<1>1. Init => IInv /\ Waiting /\ SerialInv
  BY InvInit, WaitingInit, SerialInit
<1>2. IInv /\ Waiting /\ SerialInv /\ [Next]_vars => (IInv /\ Waiting /\ SerialInv)'
  BY InvStep, WaitingStep, SerialStep DEF IInv
<1> QED
  BY <1>1, <1>2, PTL DEF Spec

\* A document all of whose requests were served carries the stamp of one that
\* ended with a result.
LEMMA SettledIsStamped ==
  ASSUME IInv, SerialInv, NEW d \in Documents, Settled(d)
  PROVE  \E r \in Requests : /\ documents[d].processed_at = r
                             /\ documents[d].status \in FinalStatuses
                             /\ answer[r] \in {"200", "502"}
<1>1. TypeOK
  BY DEF IInv
<1>2. \A r \in Requests : target[r] = d =>
        answer[r] \in {"200", "502", "404", "409", "500 read"} /\ pc[r] = "answered"
  BY NoneIsFresh DEF Settled, IInv, Bookkeeping, Answers
<1>3. documents[d].status # "PROCESSING"
  BY <1>2 DEF IInv, ProcessingIsOwned, LeftProcessing
<1>4. documents[d].status \notin {"ABSENT", "UPLOADED"}
  BY DEF Settled, SerialInv, ProcessedForGood
<1>5. documents[d] \in Rows
  BY <1>1 DEF TypeOK
<1>6. documents[d].status \in FinalStatuses
  BY <1>3, <1>4, <1>5 DEF Rows, DocumentStatuses
<1>7. PICK r \in Requests : documents[d].processed_at = r
  BY <1>5, <1>6 DEF Rows, IInv, FinalStatusIsExplained
<1>8. target[r] = d /\ result[r] # None
  BY <1>7 DEF IInv, FinalStatusIsExplained, Explains
<1>9. answer[r] \in {"200", "502"}
  BY <1>2, <1>8 DEF SerialInv, RefusedWithoutResult
<1> QED
  BY <1>6, <1>7, <1>9

\* Clients that wait: once all requests on a document were served, its row, the
\* last event about it and the last webhook about it report the same run.
THEOREM StoresSettleTogether ==
  ASSUME ClientsWait
  PROVE  Spec => []SettledStoresAgree
<1>1. IInv /\ SerialInv => SettledStoresAgree
  <2> SUFFICES ASSUME IInv, SerialInv, NEW d \in Documents, Settled(d)
               PROVE  LET row == documents[d]
                          run == Event(row.processed_at, row.status)
                      IN  /\ row.status \in FinalStatuses
                          /\ LastOf(processing_events, d, run)
                          /\ (\E i \in DOMAIN webhooks : webhooks[i].by = row.processed_at) =>
                               LastOf(webhooks, d, run)
    BY DEF SettledStoresAgree
  <2>1. PICK r \in Requests : /\ documents[d].processed_at = r
                              /\ documents[d].status \in FinalStatuses
                              /\ answer[r] \in {"200", "502"}
    BY SettledIsStamped
  <2>2. LastOf(processing_events, d, Event(r, documents[d].status))
    BY <2>1 DEF SerialInv, StampIsLoggedLast
  <2>3. ASSUME NEW i \in DOMAIN webhooks, webhooks[i].by = r
        PROVE  LastOf(webhooks, d, Event(r, documents[d].status))
    BY <2>1, <2>3 DEF SerialInv, StampIsToldLast, LastOf
  <2> QED
    BY <2>1, <2>2, <2>3
<1> QED
  BY <1>1, SerialInvariance, PTL
-----------------------------------------------------------------------------
(* DocumentProcessing implements DocumentLifecycle.                        *)

\* How a move of one request shows in the sets of attempts.
LEMMA AttemptsAfterMove ==
  ASSUME TypeOK, NEW labels, NEW r \in Requests, NEW to,
         pc' = [pc EXCEPT ![r] = to], target' = target, target[r] \in Documents
  PROVE  Attempting(labels)' =
           [Attempting(labels) EXCEPT ![target[r]] = IF to \in labels THEN @ \cup {r} ELSE @ \ {r}]
<1> DEFINE before(d) == {q \in Requests : target[q] = d /\ pc[q] \in labels}
           after(d) == {q \in Requests : target'[q] = d /\ pc'[q] \in labels}
<1>1. \A q \in Requests : pc'[q] = IF q = r THEN to ELSE pc[q]
  BY DEF TypeOK
<1>2. after(target[r]) = IF to \in labels THEN before(target[r]) \cup {r} ELSE before(target[r]) \ {r}
  BY <1>1
<1>3. ASSUME NEW d \in Documents, d # target[r]
      PROVE  after(d) = before(d)
  BY <1>1, <1>3
<1>4. Attempting(labels) = [d \in Documents |-> before(d)]
      /\ Attempting(labels)' = [d \in Documents |-> after(d)]
  BY DEF Attempting
<1> HIDE DEF before, after
<1> QED
  BY <1>2, <1>3, <1>4

LEMMA AttemptsJoined ==
  ASSUME TypeOK, NEW labels, NEW r \in Requests, NEW d \in Documents, NEW to \in labels,
         pc' = [pc EXCEPT ![r] = to], target' = target, target[r] = d
  PROVE  Attempting(labels)' = [Attempting(labels) EXCEPT ![d] = @ \cup {r}]
BY AttemptsAfterMove

LEMMA AttemptsLeft ==
  ASSUME TypeOK, NEW labels, NEW r \in Requests, NEW d \in Documents, NEW to, to \notin labels,
         pc' = [pc EXCEPT ![r] = to], target' = target, target[r] = d
  PROVE  Attempting(labels)' = [Attempting(labels) EXCEPT ![d] = @ \ {r}]
BY AttemptsAfterMove

\* A request that stays on its side of the labels changes nothing in them.
LEMMA AttemptsUnmoved ==
  ASSUME TypeOK, NEW labels, NEW r \in Requests, NEW to,
         pc' = [pc EXCEPT ![r] = to],
         \A q \in Requests : q # r => target'[q] = target[q],
         \/ pc[r] \notin labels /\ to \notin labels
         \/ pc[r] \in labels /\ to \in labels /\ target' = target
  PROVE  Attempting(labels)' = Attempting(labels)
BY DEF TypeOK, Attempting

LEMMA StatusAfterWrite ==
  ASSUME TypeOK, NEW d \in Documents, NEW s, NEW by, WriteRow(d, s, by)
  PROVE  [e \in Documents |-> documents[e].status]' =
           [[e \in Documents |-> documents[e].status] EXCEPT ![d] = s]
BY DEF TypeOK, WriteRow

LEMMA LifecycleInit == Init => Lifecycle!Init
BY DEF Init, Lifecycle!Init, Attempting

Marking == {"mark"}
Processing == {"start_event", "gateway", "persist"}
StatusOf == [e \in Documents |-> documents[e].status]

\* The abstract variables after a step that leaves them alone.
Stutters ==
  /\ StatusOf' = StatusOf
  /\ Attempting(Marking)' = Attempting(Marking)
  /\ Attempting(Processing)' = Attempting(Processing)

\* The abstract variables after an attempt on d was given up.
GivesUp(r, d) ==
  /\ StatusOf' = StatusOf
  /\ Attempting(Marking)' = [Attempting(Marking) EXCEPT ![d] = @ \ {r}]
  /\ Attempting(Processing)' = [Attempting(Processing) EXCEPT ![d] = @ \ {r}]

LEMMA StutterIsAllowed == Stutters => [Lifecycle!Next]_(Lifecycle!vars)
BY DEF Stutters, Lifecycle!vars, Marking, Processing, StatusOf

LEMMA GivingUpIsAllowed ==
  ASSUME NEW r \in Requests, NEW d \in Documents, GivesUp(r, d)
  PROVE  Lifecycle!Next
<1>1. Lifecycle!Abandon(r, d)
  BY DEF GivesUp, Lifecycle!Abandon, Marking, Processing, StatusOf
<1> QED
  BY <1>1 DEF Lifecycle!Next

LEMMA AttemptIsAllowed ==
  ASSUME NEW r \in Requests, NEW d \in Documents,
         \/ Lifecycle!Accept(r, d)
         \/ Lifecycle!Start(r, d)
         \/ Lifecycle!StartUnacknowledged(r, d)
         \/ \E outcome \in Lifecycle!Outcomes : Lifecycle!Settle(r, d, outcome)
  PROVE  Lifecycle!Next
BY DEF Lifecycle!Next

LEMMA LifecycleStep ==
  ASSUME TypeOK, Waiting
  PROVE  [Next]_vars => [Lifecycle!Next]_(Lifecycle!vars)
<1>1. CASE UNCHANGED vars
  <2>1. Stutters
    BY <1>1 DEF Stutters, Attempting, StatusOf
  <2> QED
    BY <2>1, StutterIsAllowed
<1>2. ASSUME NEW d \in Documents, CreateDocument(d)
      PROVE  Lifecycle!Next
  <2>1. Lifecycle!Create(d)
    BY <1>2, StatusAfterWrite DEF CreateDocument, Lifecycle!Create, Attempting
  <2> QED
    BY <2>1 DEF Lifecycle!Next
<1>3. ASSUME NEW r \in Requests, NEW d \in Documents, Receive(r, d)
      PROVE  Stutters
  <2>1. pc[r] = "idle" /\ pc' = [pc EXCEPT ![r] = "read"] /\ documents' = documents
        /\ \A q \in Requests : q # r => target'[q] = target[q]
    BY <1>3 DEF TypeOK, Receive, Goto
  <2> QED
    BY <2>1, AttemptsUnmoved DEF Stutters, StatusOf, Marking, Processing
<1>4. ASSUME NEW r \in Requests, RejectMalformedId(r)
      PROVE  Stutters
  <2>1. pc[r] = "idle" /\ pc' = [pc EXCEPT ![r] = "answered"] /\ target' = target
        /\ documents' = documents
    BY <1>4 DEF RejectMalformedId, Answer, Goto
  <2> QED
    BY <2>1, AttemptsUnmoved DEF Stutters, StatusOf, Marking, Processing
<1>5. ASSUME NEW r \in Requests, ReadDocument(r)
      PROVE  [Lifecycle!Next]_(Lifecycle!vars)
  <2>1. pc[r] = "read" /\ target' = target /\ documents' = documents /\ target[r] \in Documents
    BY <1>5 DEF ReadDocument, TypeOK, InFlight, Working
  <2>2. CASE pc' = [pc EXCEPT ![r] = "answered"]
    <3>1. Stutters
      BY <2>1, <2>2, AttemptsUnmoved DEF Stutters, StatusOf, Marking, Processing
    <3> QED
      BY <3>1, StutterIsAllowed
  <2>3. CASE /\ documents[target[r]].status \notin {"ABSENT", "PROCESSING"}
             /\ pc' = [pc EXCEPT ![r] = "mark"]
    <3>1. Attempting(Marking)' = [Attempting(Marking) EXCEPT ![target[r]] = @ \cup {r}]
      BY <2>1, <2>3, AttemptsJoined DEF Marking
    <3>2. Attempting(Processing)' = Attempting(Processing)
      BY <2>1, <2>3, AttemptsUnmoved DEF Processing
    <3>3. ClientsWait => Lifecycle!Open(target[r]) = {}
      BY <2>1 DEF Lifecycle!Open, Attempting, Waiting, InFlight, Working
    <3>4. Lifecycle!Accept(r, target[r])
      BY <2>1, <2>3, <3>1, <3>2, <3>3 DEF Lifecycle!Accept, Marking, Processing
    <3> QED
      BY <2>1, <3>4, AttemptIsAllowed
  <2> QED
    BY <1>5, <2>2, <2>3 DEF ReadDocument, Answer, Goto
<1>6. ASSUME NEW r \in Requests, MarkProcessing(r)
      PROVE  Lifecycle!Next
  <2>1. pc[r] = "mark" /\ target' = target /\ target[r] \in Documents
    BY <1>6 DEF MarkProcessing, Answer, Goto, TypeOK, InFlight, Working
  <2>2. PICK d \in Documents : target[r] = d
    BY <2>1
  <2>3. r \in Attempting(Marking)[d]
    BY <2>1, <2>2 DEF Attempting, Marking
  <2>4. "mark" \notin Processing /\ "start_event" \in Processing /\ "start_event" \notin Marking
        /\ "answered" \notin Marking /\ "answered" \notin Processing
    BY DEF Marking, Processing
  <2>5. CASE pc' = [pc EXCEPT ![r] = "start_event"] /\ WriteRow(d, "PROCESSING", None)
    <3>1. Attempting(Marking)' = [Attempting(Marking) EXCEPT ![d] = @ \ {r}]
      BY <2>1, <2>2, <2>4, <2>5, AttemptsLeft
    <3>2. Attempting(Processing)' = [Attempting(Processing) EXCEPT ![d] = @ \cup {r}]
      BY <2>1, <2>2, <2>4, <2>5, AttemptsJoined
    <3>3. Lifecycle!Start(r, d)
      BY <2>3, <2>5, <3>1, <3>2, StatusAfterWrite DEF Lifecycle!Start, Marking, Processing
    <3> QED
      BY <3>3, AttemptIsAllowed
  <2>6. CASE pc' = [pc EXCEPT ![r] = "answered"] /\ WriteRow(d, "PROCESSING", None)
    <3>1. Attempting(Marking)' = [Attempting(Marking) EXCEPT ![d] = @ \ {r}]
      BY <2>1, <2>2, <2>4, <2>6, AttemptsLeft
    <3>2. Attempting(Processing)' = Attempting(Processing)
      <4>1. pc[r] \notin Processing
        BY <2>1, <2>4
      <4> QED
        BY <2>1, <2>4, <2>6, <4>1, AttemptsUnmoved
    <3>3. Lifecycle!StartUnacknowledged(r, d)
      BY <2>3, <2>6, <3>1, <3>2, StatusAfterWrite
         DEF Lifecycle!StartUnacknowledged, Marking, Processing
    <3> QED
      BY <3>3, AttemptIsAllowed
  <2>7. CASE pc' = [pc EXCEPT ![r] = "answered"] /\ UNCHANGED documents
    <3>1. GivesUp(r, d)
      BY <2>1, <2>2, <2>4, <2>7, AttemptsLeft DEF GivesUp, StatusOf
    <3> QED
      BY <3>1, GivingUpIsAllowed
  <2> QED
    BY <1>6, <2>2, <2>5, <2>6, <2>7 DEF MarkProcessing, Answer, Goto, MaybeWriteRow
\* The attempts that are past their mark: go on, settle or give up.
<1>7. ASSUME NEW r \in Requests, pc[r] \in Processing, target' = target, documents' = documents,
             NEW to \in Processing, pc' = [pc EXCEPT ![r] = to]
      PROVE  Stutters
  BY <1>7, AttemptsUnmoved DEF Stutters, StatusOf, Marking, Processing
<1>8. ASSUME NEW r \in Requests, pc[r] \in Processing, target' = target, documents' = documents,
             pc' = [pc EXCEPT ![r] = "answered"]
      PROVE  Lifecycle!Next
  <2>1. PICK d \in Documents : target[r] = d
    BY <1>8 DEF TypeOK, InFlight, Working, Processing
  <2>2. "answered" \notin Marking /\ "answered" \notin Processing
    BY DEF Marking, Processing
  <2>3. GivesUp(r, d)
    BY <1>8, <2>1, <2>2, AttemptsLeft DEF GivesUp, StatusOf
  <2> QED
    BY <2>3, GivingUpIsAllowed
<1>9. ASSUME NEW r \in Requests, NEW to \in {"final_event", "answered"}, pc[r] = "persist",
             target' = target, WriteRow(target[r], FinalStatus(r), r),
             pc' = [pc EXCEPT ![r] = to]
      PROVE  Lifecycle!Next
  <2>1. PICK d \in Documents : target[r] = d
    BY <1>9 DEF TypeOK, InFlight, Working
  <2>2. PICK s \in Lifecycle!Outcomes : s = FinalStatus(r)
    BY <1>9, FinalStatusIsTyped DEF TypeOK, Lifecycle!Outcomes, FinalStatuses
  <2>3. r \in Attempting(Processing)[d]
    BY <1>9, <2>1 DEF Attempting, Processing
  <2>4. Attempting(Marking)' = Attempting(Marking)
    BY <1>9, AttemptsUnmoved DEF Marking
  <2>5. Attempting(Processing)' = [Attempting(Processing) EXCEPT ![d] = @ \ {r}]
    <3>1. to \notin Processing
      BY DEF Processing
    <3> QED
      BY <1>9, <2>1, <3>1, AttemptsLeft
  <2>6. Lifecycle!Settle(r, d, s)
    BY <1>9, <2>1, <2>2, <2>3, <2>4, <2>5, StatusAfterWrite
       DEF Lifecycle!Settle, Marking, Processing
  <2> QED
    BY <2>6, AttemptIsAllowed
<1>10. ASSUME NEW r \in Requests, InsertStartEvent(r) \/ CallGateway(r)
       PROVE  [Lifecycle!Next]_(Lifecycle!vars)
  <2>1. /\ pc[r] \in Processing /\ target' = target /\ documents' = documents
        /\ \E to \in Processing \cup {"answered"} : pc' = [pc EXCEPT ![r] = to]
    BY <1>10 DEF InsertStartEvent, CallGateway, CheckReturns, CheckEscapes, Answer, Goto, Processing
  <2> QED
    BY <1>7, <1>8, <2>1, StutterIsAllowed
<1>11. ASSUME NEW r \in Requests, PersistResult(r)
       PROVE  Lifecycle!Next
  <2>1. pc[r] = "persist" /\ pc[r] \in Processing /\ target' = target
    BY <1>11 DEF PersistResult, Answer, Goto, Processing
  <2>2. \/ /\ WriteRow(target[r], FinalStatus(r), r)
           /\ \E to \in {"final_event", "answered"} : pc' = [pc EXCEPT ![r] = to]
        \/ documents' = documents /\ pc' = [pc EXCEPT ![r] = "answered"]
    BY <1>11 DEF PersistResult, Answer, Goto, MaybeWriteRow
  <2> QED
    BY <1>8, <1>9, <2>1, <2>2
<1>12. ASSUME NEW r \in Requests, InsertFinalEvent(r) \/ NotifyBff(r)
       PROVE  Stutters
  <2>1. /\ pc[r] \in {"final_event", "notify"} /\ target' = target /\ documents' = documents
        /\ \E to \in {"notify", "answered"} : pc' = [pc EXCEPT ![r] = to]
    BY <1>12 DEF InsertFinalEvent, NotifyBff, Answer, Goto
  <2> QED
    BY <2>1, AttemptsUnmoved DEF Stutters, StatusOf, Marking, Processing
<1>13. CASE Crash
  <2>1. Lifecycle!AbandonAll
    BY <1>13 DEF Crash, InFlight, Working, Lifecycle!AbandonAll, Attempting
  <2> QED
    BY <2>1 DEF Lifecycle!Next
<1> QED
  BY <1>1, <1>2, <1>3, <1>4, <1>5, <1>6, <1>10, <1>11, <1>12, <1>13, StutterIsAllowed DEF Next, Step

\* The endpoint implements the abstract life cycle: with attempts that exclude
\* each other when clients wait for an answer, with attempts that overlap when
\* they do not.
THEOREM LifecycleImplemented == Spec => FollowsLifecycle
<1>1. TypeOK /\ Waiting /\ [Next]_vars => TypeOK' /\ Waiting'
  BY TypeStep, WaitingStep
<1>2. TypeOK /\ Waiting /\ [Next]_vars => [Lifecycle!Next]_(Lifecycle!vars)
  BY LifecycleStep
<1> QED
  BY <1>1, <1>2, TypeInit, WaitingInit, LifecycleInit, PTL
     DEF Spec, FollowsLifecycle, Lifecycle!Spec
=============================================================================
