-------------------------- MODULE SoapGatewayProofs --------------------------
(* Proofs about SoapGateway, for any documents, calls and faults.          *)
EXTENDS SoapGateway, SequenceTheorems, WellFoundedInduction, TLAPS

USE DEF vars, gatewayVars, callVars

LEMMA AppendFacts ==
  ASSUME NEW S, NEW log \in Seq(S), NEW e \in S
  PROVE  /\ Append(log, e) \in Seq(S)
         /\ DOMAIN log = 1..Len(log)
         /\ DOMAIN Append(log, e) = 1..(Len(log) + 1)
         /\ \A i \in 1..Len(log) : Append(log, e)[i] = log[i]
         /\ Append(log, e)[Len(log) + 1] = e
         /\ Len(log) \in Nat
BY AppendProperties

-----------------------------------------------------------------------------
(* Types.                                                                  *)

LEMMA RecordIsTyped ==
  ASSUME TypeOK, NEW soap \in SoapReplies, NEW d \in Documents, NEW c \in Calls
  PROVE  RecordOf(soap, d, c) \in CheckRows
<1>1. CASE Acceptable(soap, d)
  <2>1. soap.status \in Verdicts /\ soap.checked_at \in Times
    BY <1>1 DEF Acceptable, SoapReplies
  <2> QED
    BY <1>1, <2>1 DEF RecordOf, CheckRows
<1>2. CASE ~Acceptable(soap, d)
  <2>1. clock \in Times
    BY DEF TypeOK
  <2> QED
    BY <1>2, <2>1 DEF RecordOf, CheckRows
<1> QED
  BY <1>1, <1>2

LEMMA EventIsTyped ==
  ASSUME NEW row \in CheckRows
  PROVE  EventOf(row) \in CheckEvents
BY DEF EventOf, CheckRows, CheckEvents

LEMMA ReplyIsTyped ==
  ASSUME NEW row \in CheckRows
  PROVE  [code |-> ReplyCode(row), status |-> row.status] \in Replies
<1>1. row.status \in Verdicts \cup {"FAILED"}
  BY DEF CheckRows
<1>2. ReplyCode(row) \in {200, 400, 502}
  BY DEF ReplyCode
<1> QED
  BY <1>1, <1>2 DEF Replies

LEMMA TypeInit == Init => TypeOK
BY ClockIsBounded DEF Init, GatewayInit, TypeOK, Active, Times

LEMMA TypeStep == TypeOK /\ [Next]_vars => TypeOK'
<1> SUFFICES ASSUME TypeOK, [Next]_vars
             PROVE  TypeOK'
    OBVIOUS
<1> USE DEF Active
<1>1. CASE UNCHANGED vars
  BY <1>1 DEF TypeOK
<1>2. ASSUME NEW d \in Documents, AddDocument(d)
      PROVE  TypeOK'
  BY <1>2 DEF TypeOK, AddDocument
<1>3. ASSUME NEW c \in Calls, NEW d \in Documents, ReceiveCheck(c, d), UNCHANGED known
      PROVE  TypeOK'
  BY <1>3 DEF TypeOK, ReceiveCheck, Enter
<1>4. ASSUME NEW c \in Calls, RejectCheck(c), UNCHANGED known
      PROVE  TypeOK'
  <2>1. [code |-> 400, status |-> None] \in Replies
    BY DEF Replies
  <2> QED
    BY <1>4, <2>1 DEF TypeOK, RejectCheck, Reply, Enter
<1>5. ASSUME NEW c \in Calls, NEW soap \in SoapReplies, TakeSoapReply(c, soap), UNCHANGED known
      PROVE  TypeOK'
  <2>1. RecordOf(soap, subject[c], c) \in CheckRows
    BY <1>5, RecordIsTyped DEF TypeOK, TakeSoapReply, Enter
  <2> QED
    BY <1>5, <2>1 DEF TypeOK, TakeSoapReply, Enter
<1>6. ASSUME NEW c \in Calls, NoSoapReply(c), UNCHANGED known
      PROVE  TypeOK'
  <2>1. [code |-> 502, status |-> None] \in Replies /\ [code |-> 500, status |-> None] \in Replies
    BY DEF Replies
  <2> QED
    BY SMTT(30), <1>6, <2>1 DEF TypeOK, NoSoapReply, Reply, Enter
<1>7. ASSUME NEW c \in Calls, SaveCheck(c), UNCHANGED known
      PROVE  TypeOK'
  <2>1. record[c] \in CheckRows
    BY <1>7 DEF TypeOK, SaveCheck, Reply, Enter
  <2>2. compliance_checks' = compliance_checks \/ compliance_checks' = Append(compliance_checks, record[c])
    BY <1>7 DEF SaveCheck
  <2>3. compliance_checks' \in Seq(CheckRows)
    <3>1. compliance_checks \in Seq(CheckRows)
      BY DEF TypeOK
    <3>2. Append(compliance_checks, record[c]) \in Seq(CheckRows)
      BY <2>1, <3>1, AppendFacts
    <3> QED
      BY <2>2, <3>1, <3>2
  <2>4. [code |-> 404, status |-> None] \in Replies /\ [code |-> 500, status |-> None] \in Replies
    BY DEF Replies
  <2>5. reply' \in [Calls -> Replies \cup {None}]
    BY <1>7, <2>4 DEF TypeOK, SaveCheck, Reply
  <2>6. /\ stage' \in [Calls -> Active \cup {"idle", "answered", "lost"}]
        /\ \A b \in Calls : stage'[b] \in Active => stage[b] \in Active
        /\ \A b \in Calls : stage'[b] \in {"save", "event"} => stage[b] \in {"save", "event"}
    BY ZenonT(30), <1>7 DEF TypeOK, SaveCheck, Reply, Enter
  <2>7. UNCHANGED <<known, clock, gateway_events, subject, record>>
    BY <1>7 DEF SaveCheck
  <2> QED
    BY <2>3, <2>5, <2>6, <2>7 DEF TypeOK
<1>8. ASSUME NEW c \in Calls, InsertEvent(c), UNCHANGED known
      PROVE  TypeOK'
  <2>1. record[c] \in CheckRows
    BY <1>8 DEF TypeOK, InsertEvent, Reply, Enter
  <2>2. gateway_events' = gateway_events \/ gateway_events' = Append(gateway_events, EventOf(record[c]))
    BY <1>8 DEF InsertEvent, MaybeInsert
  <2>3. gateway_events' \in Seq(CheckEvents)
    <3>1. gateway_events \in Seq(CheckEvents)
      BY DEF TypeOK
    <3>2. EventOf(record[c]) \in CheckEvents
      BY <2>1, EventIsTyped
    <3>3. Append(gateway_events, EventOf(record[c])) \in Seq(CheckEvents)
      BY <3>1, <3>2, AppendFacts
    <3> QED
      BY <2>2, <3>1, <3>3
  <2>4. [code |-> 500, status |-> None] \in Replies
    BY DEF Replies
  <2>5. [code |-> ReplyCode(record[c]), status |-> record[c].status] \in Replies
    BY <2>1, ReplyIsTyped
  <2>6. reply' \in [Calls -> Replies \cup {None}]
    BY <1>8, <2>4, <2>5 DEF TypeOK, InsertEvent, Reply
  <2>7. /\ stage' \in [Calls -> Active \cup {"idle", "answered", "lost"}]
        /\ \A b \in Calls : stage'[b] \in Active => stage[b] \in Active
        /\ \A b \in Calls : stage'[b] \in {"save", "event"} => stage[b] \in {"save", "event"}
    BY ZenonT(30), <1>8 DEF TypeOK, InsertEvent, Reply, Enter
  <2>8. UNCHANGED <<known, clock, compliance_checks, subject, record>>
    BY <1>8 DEF InsertEvent
  <2> QED
    BY <2>3, <2>6, <2>7, <2>8 DEF TypeOK
<1>9. CASE GatewayCrash /\ UNCHANGED known
  BY <1>9 DEF TypeOK, GatewayCrash
<1>10. CASE Tick /\ UNCHANGED known
  BY <1>10, ClockIsBounded DEF TypeOK, Tick, Times
<1> QED
  BY <1>1, <1>2, <1>3, <1>4, <1>5, <1>6, <1>7, <1>8, <1>9, <1>10 DEF Next, GatewayStep

\* Every reachable state of the gateway is well typed.
THEOREM TypeCorrect == Spec => []TypeOK
BY TypeInit, TypeStep, PTL DEF Spec

-----------------------------------------------------------------------------
(* What one step can do to a call and to the two stores.                   *)

CallMove(c) ==
  /\ stage[c] # "idle" => subject'[c] = subject[c]
  /\ stage[c] # "upstream" => record'[c] = record[c]
  /\ stage[c] \in {"answered", "lost"} => stage'[c] = stage[c] /\ reply'[c] = reply[c]
  /\ \/ stage'[c] = stage[c]
     \/ stage[c] = "idle" /\ stage'[c] = "upstream"
     \/ /\ stage[c] = "upstream" /\ stage'[c] = "save"
        /\ \E soap \in SoapReplies : record'[c] = RecordOf(soap, subject[c], c)
     \/ /\ stage[c] = "save" /\ stage'[c] = "event"
        /\ compliance_checks' = Append(compliance_checks, record[c])
     \/ stage'[c] \in {"answered", "lost"}
  /\ \/ reply'[c] = reply[c] /\ (stage'[c] = "answered" <=> stage[c] = "answered")
     \/ stage'[c] = "answered" /\ reply'[c] # None /\ reply'[c].status = None
     \/ /\ stage[c] = "event" /\ stage'[c] = "answered"
        /\ reply'[c] # None /\ reply'[c].status = record[c].status
        /\ gateway_events' = Append(gateway_events, EventOf(record[c]))

CheckMove ==
  \/ compliance_checks' = compliance_checks
  \/ \E c \in Calls :
       /\ stage[c] = "save" /\ subject[c] \in known
       /\ compliance_checks' = Append(compliance_checks, record[c])

EventMove ==
  \/ gateway_events' = gateway_events
  \/ \E c \in Calls :
       stage[c] = "event" /\ gateway_events' = Append(gateway_events, EventOf(record[c]))

StepSummary ==
  /\ \A c \in Calls : CallMove(c)
  /\ CheckMove
  /\ EventMove
  /\ known \subseteq known'

LEMMA ErrorRepliesAreReplies ==
  \A code \in {400, 404, 500, 502} : [code |-> code, status |-> None] # None
<1>1. \A code \in {400, 404, 500, 502} : [code |-> code, status |-> None] \in Replies
  BY DEF Replies
<1> QED
  BY <1>1, NoneIsNoValue

LEMMA StepsAreSummarised == TypeOK /\ [Next]_vars => StepSummary
<1> SUFFICES ASSUME TypeOK, [Next]_vars
             PROVE  StepSummary
    OBVIOUS
<1> USE ErrorRepliesAreReplies DEF Active
<1>1. CASE UNCHANGED vars
  BY <1>1 DEF StepSummary, CallMove, CheckMove, EventMove
<1>2. ASSUME NEW d \in Documents, AddDocument(d)
      PROVE  StepSummary
  <2>1. \A c \in Calls : CallMove(c)
    BY <1>2 DEF CallMove, TypeOK, AddDocument
  <2>2. CheckMove /\ EventMove /\ known \subseteq known'
    BY <1>2 DEF CheckMove, EventMove, TypeOK, AddDocument
  <2> QED
    BY <2>1, <2>2 DEF StepSummary
<1>3. ASSUME NEW b \in Calls, NEW d \in Documents, ReceiveCheck(b, d), UNCHANGED known
      PROVE  StepSummary
  <2>1. \A c \in Calls : CallMove(c)
    BY <1>3 DEF CallMove, TypeOK, ReceiveCheck, Enter
  <2>2. CheckMove /\ EventMove /\ known \subseteq known'
    BY <1>3 DEF CheckMove, EventMove, TypeOK, ReceiveCheck, Enter
  <2> QED
    BY <2>1, <2>2 DEF StepSummary
<1>4. ASSUME NEW b \in Calls, RejectCheck(b), UNCHANGED known
      PROVE  StepSummary
  <2>1. \A c \in Calls : CallMove(c)
    BY <1>4 DEF CallMove, TypeOK, RejectCheck, Reply, Enter
  <2>2. CheckMove /\ EventMove /\ known \subseteq known'
    BY <1>4 DEF CheckMove, EventMove, TypeOK, RejectCheck, Reply, Enter
  <2> QED
    BY <2>1, <2>2 DEF StepSummary
<1>5. ASSUME NEW b \in Calls, NEW soap \in SoapReplies, TakeSoapReply(b, soap), UNCHANGED known
      PROVE  StepSummary
  <2>1. \A c \in Calls : CallMove(c)
    BY <1>5 DEF CallMove, TypeOK, TakeSoapReply, Enter
  <2>2. CheckMove /\ EventMove /\ known \subseteq known'
    BY <1>5 DEF CheckMove, EventMove, TypeOK, TakeSoapReply, Enter
  <2> QED
    BY <2>1, <2>2 DEF StepSummary
<1>6. ASSUME NEW b \in Calls, NoSoapReply(b), UNCHANGED known
      PROVE  StepSummary
  <2>1. \A c \in Calls : CallMove(c)
    BY <1>6 DEF CallMove, TypeOK, NoSoapReply, Reply, Enter
  <2>2. CheckMove /\ EventMove /\ known \subseteq known'
    BY <1>6 DEF CheckMove, EventMove, TypeOK, NoSoapReply, Reply, Enter
  <2> QED
    BY <2>1, <2>2 DEF StepSummary
<1>7. ASSUME NEW b \in Calls, SaveCheck(b), UNCHANGED known
      PROVE  StepSummary
  <2>1. \A c \in Calls : CallMove(c)
    BY <1>7 DEF CallMove, TypeOK, SaveCheck, Reply, Enter
  <2>2. CheckMove /\ EventMove /\ known \subseteq known'
    BY SMTT(30), <1>7 DEF CheckMove, EventMove, TypeOK, SaveCheck, Reply, Enter
  <2> QED
    BY <2>1, <2>2 DEF StepSummary
<1>8. ASSUME NEW b \in Calls, InsertEvent(b), UNCHANGED known
      PROVE  StepSummary
  <2> record[b] \in CheckRows
    BY <1>8 DEF TypeOK, InsertEvent, Reply, Enter
  <2> [code |-> ReplyCode(record[b]), status |-> record[b].status] # None
    BY ReplyIsTyped, NoneIsNoValue
  <2>1. \A c \in Calls : CallMove(c)
    BY <1>8 DEF CallMove, TypeOK, InsertEvent, Reply, Enter, MaybeInsert
  <2>2. CheckMove /\ EventMove /\ known \subseteq known'
    BY <1>8 DEF CheckMove, EventMove, TypeOK, InsertEvent, Reply, Enter, MaybeInsert
  <2> QED
    BY <2>1, <2>2 DEF StepSummary
<1>9. ASSUME GatewayCrash, UNCHANGED known
      PROVE  StepSummary
  <2>1. \A c \in Calls : CallMove(c)
    BY <1>9 DEF CallMove, TypeOK, GatewayCrash
  <2>2. CheckMove /\ EventMove /\ known \subseteq known'
    BY <1>9 DEF CheckMove, EventMove, TypeOK, GatewayCrash
  <2> QED
    BY <2>1, <2>2 DEF StepSummary
<1>10. ASSUME Tick, UNCHANGED known
      PROVE  StepSummary
  <2>1. \A c \in Calls : CallMove(c)
    BY <1>10 DEF CallMove, TypeOK, Tick
  <2>2. CheckMove /\ EventMove /\ known \subseteq known'
    BY <1>10 DEF CheckMove, EventMove, TypeOK, Tick
  <2> QED
    BY <2>1, <2>2 DEF StepSummary
<1> QED
  BY <1>1, <1>2, <1>3, <1>4, <1>5, <1>6, <1>7, <1>8, <1>9, <1>10 DEF Next, GatewayStep

-----------------------------------------------------------------------------
(* The inductive invariant.                                                *)

\* The record of a check is about the document the call named, and a verdict in
\* it is the SOAP server's.
RecordsAreSound ==
  \A c \in Calls :
    stage[c] \in {"save", "event"} =>
      /\ record[c].document_id = subject[c]
      /\ record[c].check_id = c
      /\ Vouched(record[c])

\* Its event is inserted only after it was saved.
RecordsAreSaved ==
  \A c \in Calls : stage[c] = "event" => Saved(record[c])

RepliesAreLast ==
  \A c \in Calls : reply[c] # None <=> stage[c] = "answered"

IInv ==
  /\ TypeOK
  /\ RecordsAreSound
  /\ RecordsAreSaved
  /\ RepliesAreLast
  /\ ReplyIsRecorded
  /\ EventFollowsCheck
  /\ VerdictIsVouched

LEMMA InvInit == Init => IInv
BY TypeInit DEF Init, GatewayInit, IInv, RecordsAreSound, RecordsAreSaved, RepliesAreLast,
                ReplyIsRecorded, EventFollowsCheck, VerdictIsVouched

LEMMA ChecksGrow ==
  ASSUME TypeOK, CheckMove
  PROVE  /\ DOMAIN compliance_checks \subseteq DOMAIN compliance_checks'
         /\ \A i \in DOMAIN compliance_checks : compliance_checks'[i] = compliance_checks[i]
<1>1. CASE compliance_checks' = compliance_checks
  BY <1>1
<1>2. ASSUME NEW c \in Calls, stage[c] = "save",
             compliance_checks' = Append(compliance_checks, record[c])
      PROVE  /\ DOMAIN compliance_checks \subseteq DOMAIN compliance_checks'
             /\ \A i \in DOMAIN compliance_checks : compliance_checks'[i] = compliance_checks[i]
  <2>1. compliance_checks \in Seq(CheckRows) /\ record[c] \in CheckRows
    BY <1>2 DEF TypeOK
  <2> QED
    BY <1>2, <2>1, AppendFacts
<1> QED
  BY <1>1, <1>2 DEF CheckMove

LEMMA EventsGrow ==
  ASSUME TypeOK, EventMove
  PROVE  /\ DOMAIN gateway_events \subseteq DOMAIN gateway_events'
         /\ \A i \in DOMAIN gateway_events : gateway_events'[i] = gateway_events[i]
<1>1. CASE gateway_events' = gateway_events
  BY <1>1
<1>2. ASSUME NEW c \in Calls, stage[c] = "event",
             gateway_events' = Append(gateway_events, EventOf(record[c]))
      PROVE  /\ DOMAIN gateway_events \subseteq DOMAIN gateway_events'
             /\ \A i \in DOMAIN gateway_events : gateway_events'[i] = gateway_events[i]
  <2>1. gateway_events \in Seq(CheckEvents) /\ EventOf(record[c]) \in CheckEvents
    BY <1>2, EventIsTyped DEF TypeOK
  <2> QED
    BY <1>2, <2>1, AppendFacts
<1> QED
  BY <1>1, <1>2 DEF EventMove

\* What a step may have added to the checks and to the events.
LEMMA NewChecks ==
  ASSUME TypeOK, CheckMove, NEW i \in DOMAIN compliance_checks'
  PROVE  \/ i \in DOMAIN compliance_checks /\ compliance_checks'[i] = compliance_checks[i]
         \/ \E c \in Calls : /\ stage[c] = "save" /\ subject[c] \in known
                             /\ compliance_checks'[i] = record[c]
<1>1. CASE compliance_checks' = compliance_checks
  BY <1>1
<1>2. ASSUME NEW c \in Calls, stage[c] = "save", subject[c] \in known,
             compliance_checks' = Append(compliance_checks, record[c])
      PROVE  \/ i \in DOMAIN compliance_checks /\ compliance_checks'[i] = compliance_checks[i]
             \/ compliance_checks'[i] = record[c]
  <2>1. compliance_checks \in Seq(CheckRows) /\ record[c] \in CheckRows
    BY <1>2 DEF TypeOK
  <2> QED
    BY <1>2, <2>1, AppendFacts
<1> QED
  BY <1>1, <1>2 DEF CheckMove

LEMMA NewEvents ==
  ASSUME TypeOK, EventMove, NEW i \in DOMAIN gateway_events'
  PROVE  \/ i \in DOMAIN gateway_events /\ gateway_events'[i] = gateway_events[i]
         \/ \E c \in Calls : stage[c] = "event" /\ gateway_events'[i] = EventOf(record[c])
<1>1. CASE gateway_events' = gateway_events
  BY <1>1
<1>2. ASSUME NEW c \in Calls, stage[c] = "event",
             gateway_events' = Append(gateway_events, EventOf(record[c]))
      PROVE  \/ i \in DOMAIN gateway_events /\ gateway_events'[i] = gateway_events[i]
             \/ gateway_events'[i] = EventOf(record[c])
  <2>1. gateway_events \in Seq(CheckEvents) /\ EventOf(record[c]) \in CheckEvents
    BY <1>2, EventIsTyped DEF TypeOK
  <2> QED
    BY <1>2, <2>1, AppendFacts
<1> QED
  BY <1>1, <1>2 DEF EventMove

LEMMA RecordIsVouched ==
  ASSUME NEW soap \in SoapReplies, NEW d \in Documents, NEW c \in Calls
  PROVE  /\ RecordOf(soap, d, c).document_id = d
         /\ RecordOf(soap, d, c).check_id = c
         /\ Vouched(RecordOf(soap, d, c))
BY DEF RecordOf, Vouched, Acceptable

LEMMA RecordsAreSoundStep == IInv /\ StepSummary => RecordsAreSound'
<1> SUFFICES ASSUME IInv, StepSummary,
                    NEW c \in Calls, stage'[c] \in {"save", "event"}
             PROVE  /\ record'[c].document_id = subject'[c]
                    /\ record'[c].check_id = c
                    /\ Vouched(record'[c])
    BY DEF RecordsAreSound, Vouched
<1>1. CallMove(c) /\ TypeOK
  BY DEF StepSummary, IInv
<1>2. CASE stage[c] \in {"save", "event"}
  BY <1>1, <1>2 DEF CallMove, IInv, RecordsAreSound
<1>3. CASE stage[c] \notin {"save", "event"}
  <2>1. stage[c] = "upstream" /\ subject[c] \in Documents
    BY <1>1, <1>3 DEF CallMove, TypeOK, Active
  <2>2. PICK soap \in SoapReplies : record'[c] = RecordOf(soap, subject[c], c)
    BY <1>1, <1>3, <2>1 DEF CallMove
  <2>3. subject'[c] = subject[c]
    BY <1>1, <2>1 DEF CallMove
  <2> QED
    BY <2>1, <2>2, <2>3, RecordIsVouched
<1> QED
  BY <1>2, <1>3

LEMMA SavedIsStable ==
  ASSUME TypeOK, CheckMove, NEW row, Saved(row)
  PROVE  Saved(row)'
BY ChecksGrow DEF Saved

LEMMA InsertedIsStable ==
  ASSUME TypeOK, EventMove, NEW e, Inserted(e)
  PROVE  Inserted(e)'
BY EventsGrow DEF Inserted

LEMMA RecordsAreSavedStep == IInv /\ StepSummary => RecordsAreSaved'
<1> SUFFICES ASSUME IInv, StepSummary,
                    NEW c \in Calls, stage'[c] = "event"
             PROVE  Saved(record[c])' 
    BY DEF RecordsAreSaved, Saved
<1>1. CallMove(c) /\ TypeOK /\ CheckMove
  BY DEF StepSummary, IInv
<1>2. record'[c] = record[c]
  BY <1>1 DEF CallMove
<1>3. CASE stage[c] = "event"
  <2>1. PICK row : row = record[c]
    OBVIOUS
  <2>2. Saved(row)
    BY <1>3, <2>1 DEF IInv, RecordsAreSaved
  <2>3. Saved(row)'
    BY <1>1, <2>2, SavedIsStable
  <2> QED
    BY <1>2, <2>1, <2>3 DEF Saved
<1>4. CASE stage[c] # "event"
  <2>1. stage[c] = "save" /\ compliance_checks' = Append(compliance_checks, record[c])
    BY <1>1, <1>4 DEF CallMove
  <2>2. compliance_checks \in Seq(CheckRows) /\ record[c] \in CheckRows
    BY <1>1, <2>1 DEF TypeOK
  <2>3. /\ Len(compliance_checks) + 1 \in DOMAIN compliance_checks'
        /\ compliance_checks'[Len(compliance_checks) + 1] = record[c]
    BY <2>1, <2>2, AppendFacts
  <2> QED
    BY <1>2, <2>3 DEF Saved
<1> QED
  BY <1>3, <1>4

LEMMA RepliesAreLastStep == IInv /\ StepSummary => RepliesAreLast'
<1> SUFFICES ASSUME IInv, StepSummary, NEW c \in Calls
             PROVE  reply'[c] # None <=> stage'[c] = "answered"
    BY DEF RepliesAreLast
<1>1. CallMove(c)
  BY DEF StepSummary
<1> QED
  BY <1>1 DEF CallMove, IInv, RepliesAreLast

\* The check of a reply, as a fact about one row that later steps keep.
LEMMA ReplyIsRecordedStep == IInv /\ StepSummary => ReplyIsRecorded'
<1> SUFFICES ASSUME IInv, StepSummary,
                    NEW c \in Calls, reply'[c] # None, reply'[c].status # None
             PROVE  (\E i \in ChecksOf(subject[c]) :
                       /\ compliance_checks[i].check_id = c
                       /\ compliance_checks[i].status = reply[c].status
                       /\ Inserted(EventOf(compliance_checks[i])))'
    BY DEF ReplyIsRecorded
<1>1. CallMove(c) /\ TypeOK /\ CheckMove /\ EventMove
  BY DEF StepSummary, IInv
<1>2. PICK i \in DOMAIN compliance_checks :
        /\ compliance_checks[i].document_id = subject'[c]
        /\ compliance_checks[i].check_id = c
        /\ compliance_checks[i].status = reply'[c].status
        /\ Inserted(EventOf(compliance_checks[i]))'
  <2>1. CASE reply'[c] = reply[c]
    <3>1. stage[c] # "idle"
      BY <2>1 DEF IInv, RepliesAreLast
    <3>2. PICK i \in ChecksOf(subject[c]) :
            /\ compliance_checks[i].check_id = c
            /\ compliance_checks[i].status = reply[c].status
            /\ Inserted(EventOf(compliance_checks[i]))
      BY <2>1 DEF IInv, ReplyIsRecorded
    <3>3. i \in DOMAIN compliance_checks /\ compliance_checks[i].document_id = subject[c]
      BY <3>2 DEF ChecksOf
    <3>4. PICK e : e = EventOf(compliance_checks[i])
      OBVIOUS
    <3>5. Inserted(e)'
      BY <1>1, <3>2, <3>4, InsertedIsStable
    <3>6. EventOf(compliance_checks[i])' = e
      BY <1>1, <3>3, <3>4, ChecksGrow DEF EventOf
    <3> QED
      BY <1>1, <2>1, <3>1, <3>2, <3>3, <3>5, <3>6, ChecksGrow DEF CallMove, Inserted
  <2>2. CASE reply'[c] # reply[c]
    <3>1. /\ stage[c] = "event"
          /\ reply'[c].status = record[c].status
          /\ gateway_events' = Append(gateway_events, EventOf(record[c]))
          /\ subject'[c] = subject[c]
      BY <1>1, <2>2 DEF CallMove
    <3>2. record[c] \in CheckRows /\ EventOf(record[c]) \in CheckEvents
      BY <1>1, <3>1, EventIsTyped DEF TypeOK
    <3>3. PICK i \in DOMAIN compliance_checks : compliance_checks[i] = record[c]
      BY <3>1 DEF IInv, RecordsAreSaved, Saved
    <3>4. /\ Len(gateway_events) + 1 \in DOMAIN gateway_events'
          /\ gateway_events'[Len(gateway_events) + 1] = EventOf(record[c])
      BY <1>1, <3>1, <3>2, AppendFacts DEF TypeOK
    <3>5. compliance_checks'[i] = record[c]
      BY <1>1, <3>3, ChecksGrow
    <3>6. Inserted(EventOf(compliance_checks[i]))'
      BY <3>4, <3>5 DEF Inserted, EventOf
    <3>7. record[c].document_id = subject[c] /\ record[c].check_id = c
      BY <3>1 DEF IInv, RecordsAreSound
    <3> QED
      BY <3>1, <3>3, <3>6, <3>7
  <2> QED
    BY <2>1, <2>2
<1> QED
  BY <1>1, <1>2, ChecksGrow DEF ChecksOf

LEMMA EventFollowsCheckStep == IInv /\ StepSummary => EventFollowsCheck'
<1> SUFFICES ASSUME IInv, StepSummary PROVE EventFollowsCheck'
    OBVIOUS
<1>1. TypeOK /\ CheckMove /\ EventMove /\ known \subseteq known'
  BY DEF StepSummary, IInv
<1>2. ASSUME NEW i \in DOMAIN gateway_events'
      PROVE  \E j \in DOMAIN compliance_checks' : EventOf(compliance_checks[j])' = gateway_events'[i]
  <2>1. CASE i \in DOMAIN gateway_events /\ gateway_events'[i] = gateway_events[i]
    <3>1. PICK j \in DOMAIN compliance_checks : EventOf(compliance_checks[j]) = gateway_events[i]
      BY <2>1 DEF IInv, EventFollowsCheck
    <3> QED
      BY <1>1, <2>1, <3>1, ChecksGrow DEF EventOf
  <2>2. ASSUME NEW c \in Calls, stage[c] = "event", gateway_events'[i] = EventOf(record[c])
        PROVE  \E j \in DOMAIN compliance_checks' : EventOf(compliance_checks[j])' = gateway_events'[i]
    <3>1. PICK j \in DOMAIN compliance_checks : compliance_checks[j] = record[c]
      BY <2>2 DEF IInv, RecordsAreSaved, Saved
    <3> QED
      BY <1>1, <2>2, <3>1, ChecksGrow DEF EventOf
  <2> QED
    BY <1>1, <2>1, <2>2, NewEvents
<1>3. ASSUME NEW j \in DOMAIN compliance_checks'
      PROVE  compliance_checks'[j].document_id \in known'
  <2>1. CASE j \in DOMAIN compliance_checks /\ compliance_checks'[j] = compliance_checks[j]
    BY <1>1, <2>1 DEF IInv, EventFollowsCheck
  <2>2. ASSUME NEW c \in Calls, stage[c] = "save", subject[c] \in known,
               compliance_checks'[j] = record[c]
        PROVE  compliance_checks'[j].document_id \in known'
    BY <1>1, <2>2 DEF IInv, RecordsAreSound
  <2> QED
    BY <1>1, <2>1, <2>2, NewChecks
<1> QED
  BY <1>2, <1>3 DEF EventFollowsCheck

LEMMA VerdictIsVouchedStep == IInv /\ StepSummary => VerdictIsVouched'
<1> SUFFICES ASSUME IInv, StepSummary, NEW i \in DOMAIN compliance_checks'
             PROVE  Vouched(compliance_checks'[i])
    BY DEF VerdictIsVouched, Vouched
<1>1. TypeOK /\ CheckMove
  BY DEF StepSummary, IInv
<1>2. CASE i \in DOMAIN compliance_checks /\ compliance_checks'[i] = compliance_checks[i]
  BY <1>2 DEF IInv, VerdictIsVouched
<1>3. ASSUME NEW c \in Calls, stage[c] = "save", compliance_checks'[i] = record[c]
      PROVE  Vouched(compliance_checks'[i])
  BY <1>3 DEF IInv, RecordsAreSound
<1> QED
  BY <1>1, <1>2, <1>3, NewChecks

LEMMA InvStep == IInv /\ [Next]_vars => IInv'
<1> SUFFICES ASSUME IInv, [Next]_vars PROVE IInv'
    OBVIOUS
<1>1. StepSummary
  BY StepsAreSummarised DEF IInv
<1>2. TypeOK'
  BY TypeStep DEF IInv
<1> QED
  BY <1>1, <1>2, RecordsAreSoundStep, RecordsAreSavedStep, RepliesAreLastStep,
     ReplyIsRecordedStep, EventFollowsCheckStep, VerdictIsVouchedStep DEF IInv

LEMMA Invariance == Spec => []IInv
BY InvInit, InvStep, PTL DEF Spec

\* A reply that tells a status tells what both databases hold.
THEOREM RepliesAreRecorded == Spec => []ReplyIsRecorded
<1>1. IInv => ReplyIsRecorded
  BY DEF IInv
<1> QED
  BY <1>1, Invariance, PTL

\* Every event has its check, and every check its document.
THEOREM EventsFollowChecks == Spec => []EventFollowsCheck
<1>1. IInv => EventFollowsCheck
  BY DEF IInv
<1> QED
  BY <1>1, Invariance, PTL

\* Every verdict in PostgreSQL is the SOAP server's, of that document.
THEOREM VerdictsAreVouched == Spec => []VerdictIsVouched
<1>1. IInv => VerdictIsVouched
  BY DEF IInv
<1> QED
  BY <1>1, Invariance, PTL

-----------------------------------------------------------------------------
(* The latest check of a document.                                         *)

LEMMA LeastNatural ==
  ASSUME NEW T \in SUBSET Nat, T # {}
  PROVE  \E x \in T : \A y \in T : x <= y
<1>1. PICK x \in T : \A y \in T : ~ (<<y, x>> \in OpToRel(<, Nat))
  BY NatLessThanWellFounded, WFMin
<1>2. \A y \in T : <<y, x>> \in OpToRel(<, Nat) <=> y < x
  BY DEF OpToRel
<1>3. \A y \in T : ~ (y < x)
  BY <1>1, <1>2, Zenon
<1>4. \A y \in T : x <= y
  BY <1>3
<1> QED
  BY <1>4

\* Some position of S supersedes all of them: the latest time, and among its
\* positions the greatest.
LEMMA SomeSupersedes ==
  ASSUME NEW log \in Seq(CheckRows), NEW S \in SUBSET (DOMAIN log), S # {}
  PROVE  \E i \in S : \A j \in S :
           \/ log[i].checked_at > log[j].checked_at
           \/ log[i].checked_at = log[j].checked_at /\ i >= j
<1>1. Len(log) \in Nat /\ DOMAIN log = 1..Len(log)
  BY LenProperties
<1>2. \A i \in S : log[i].checked_at \in 0..MaxClock
  <2>1. \A i \in S : log[i] \in CheckRows
    BY <1>1, ElementOfSeq
  <2> QED
    BY <2>1 DEF CheckRows, Times
<1>3. PICK a \in S : \A j \in S : log[a].checked_at >= log[j].checked_at
  <2> DEFINE T == {MaxClock - log[i].checked_at : i \in S}
  <2>1. T \in SUBSET Nat /\ T # {}
    BY <1>2, ClockIsBounded
  <2>2. PICK x \in T : \A y \in T : x <= y
    BY <2>1, LeastNatural
  <2>3. PICK a \in S : x = MaxClock - log[a].checked_at
    OBVIOUS
  <2>4. \A j \in S : MaxClock - log[a].checked_at <= MaxClock - log[j].checked_at
    BY <2>2, <2>3
  <2>5. ASSUME NEW j \in S
        PROVE  log[a].checked_at >= log[j].checked_at
    <3>1. log[a].checked_at \in 0..MaxClock /\ log[j].checked_at \in 0..MaxClock
      BY <1>2
    <3>2. MaxClock - log[a].checked_at <= MaxClock - log[j].checked_at
      BY <2>4
    <3> QED
      BY <3>1, <3>2, ClockIsBounded
  <2> QED
    BY <2>5
<1>4. PICK b \in S : /\ log[b].checked_at = log[a].checked_at
                     /\ \A j \in S : log[j].checked_at = log[a].checked_at => b >= j
  <2> DEFINE T == {Len(log) - i : i \in {j \in S : log[j].checked_at = log[a].checked_at}}
  <2>1. T \in SUBSET Nat /\ T # {}
    BY <1>1
  <2>2. PICK x \in T : \A y \in T : x <= y
    BY <2>1, LeastNatural
  <2>3. PICK b \in S : x = Len(log) - b /\ log[b].checked_at = log[a].checked_at
    OBVIOUS
  <2>4. \A j \in S : log[j].checked_at = log[a].checked_at => Len(log) - b <= Len(log) - j
    BY <2>2, <2>3
  <2> QED
    BY <1>1, <2>3, <2>4
<1>5. ASSUME NEW j \in S
      PROVE  \/ log[b].checked_at > log[j].checked_at
             \/ log[b].checked_at = log[j].checked_at /\ b >= j
  BY <1>2, <1>3, <1>4
<1> QED
  BY <1>5

LEMMA LatestSupersedes ==
  ASSUME compliance_checks \in Seq(CheckRows), NEW d, ChecksOf(d) # {}
  PROVE  /\ Latest(d) \in ChecksOf(d)
         /\ Latest(d) # 0
         /\ \A j \in ChecksOf(d) : Supersedes(Latest(d), j)
<1>1. \E i \in ChecksOf(d) : \A j \in ChecksOf(d) : Supersedes(i, j)
  BY SomeSupersedes DEF ChecksOf, Supersedes
<1>2. Latest(d) = CHOOSE i \in ChecksOf(d) : \A j \in ChecksOf(d) : Supersedes(i, j)
  BY DEF Latest
<1>3. Latest(d) \in ChecksOf(d) /\ \A j \in ChecksOf(d) : Supersedes(Latest(d), j)
  BY <1>1, <1>2
<1>4. 0 \notin ChecksOf(d)
  BY LenProperties DEF ChecksOf
<1> QED
  BY <1>3, <1>4

LEMMA LatestSupersedesNext ==
  ASSUME NEW d, NEW l
  PROVE  (compliance_checks \in Seq(CheckRows) /\ l \in ChecksOf(d)
            => Latest(d) \in ChecksOf(d) /\ Latest(d) # 0 /\ Supersedes(Latest(d), l))'
<1>1. compliance_checks \in Seq(CheckRows) /\ l \in ChecksOf(d)
        => Latest(d) \in ChecksOf(d) /\ Latest(d) # 0 /\ Supersedes(Latest(d), l)
  BY LatestSupersedes
<1> QED
  BY <1>1, PTL

\* Of two positions one supersedes the other, so the latest is the only one that
\* supersedes all.
LEMMA LatestIsUnique ==
  ASSUME compliance_checks \in Seq(CheckRows), NEW d, NEW l \in ChecksOf(d),
         \A j \in ChecksOf(d) : Supersedes(l, j)
  PROVE  Latest(d) = l
<1>1. PICK m : m = Latest(d)
  OBVIOUS
<1>2. m \in ChecksOf(d) /\ Supersedes(m, l) /\ Supersedes(l, m)
  BY <1>1, LatestSupersedes
<1>3. m \in 1..Len(compliance_checks) /\ l \in 1..Len(compliance_checks) /\ Len(compliance_checks) \in Nat
  BY <1>2, LenProperties DEF ChecksOf
<1>4. compliance_checks[m] \in CheckRows /\ compliance_checks[l] \in CheckRows
  BY <1>3, ElementOfSeq
<1>5. compliance_checks[m].checked_at \in Nat /\ compliance_checks[l].checked_at \in Nat
  BY <1>4, ClockIsBounded DEF CheckRows, Times
<1>6. m = l
  BY <1>2, <1>3, <1>5 DEF Supersedes
<1> QED
  BY <1>1, <1>6

LEMMA LatestIsUniqueNext ==
  ASSUME NEW d, NEW l
  PROVE  (compliance_checks \in Seq(CheckRows) /\ l \in ChecksOf(d)
            /\ (\A j \in ChecksOf(d) : Supersedes(l, j)) => Latest(d) = l)'
<1>1. compliance_checks \in Seq(CheckRows) /\ l \in ChecksOf(d)
        /\ (\A j \in ChecksOf(d) : Supersedes(l, j)) => Latest(d) = l
  BY LatestIsUnique
<1> QED
  BY <1>1, PTL

\* A check of another document leaves the latest of this one.
LEMMA LatestIsKept ==
  ASSUME TypeOK, TypeOK', CheckMove, NEW d, ChecksOf(d) # {},
         \A c \in Calls : stage[c] = "save" => record[c].document_id # d
  PROVE  Latest(d)' = Latest(d) /\ compliance_checks'[Latest(d)] = compliance_checks[Latest(d)]
<1>1. PICK l : l = Latest(d)
  OBVIOUS
<1>2. l \in ChecksOf(d) /\ \A j \in ChecksOf(d) : Supersedes(l, j)
  BY <1>1, LatestSupersedes DEF TypeOK
<1>3. /\ DOMAIN compliance_checks \subseteq DOMAIN compliance_checks'
      /\ \A i \in DOMAIN compliance_checks : compliance_checks'[i] = compliance_checks[i]
  BY ChecksGrow
<1>4. ASSUME NEW i \in DOMAIN compliance_checks', compliance_checks'[i].document_id = d
      PROVE  i \in ChecksOf(d) /\ compliance_checks'[i] = compliance_checks[i]
  BY <1>4, NewChecks DEF ChecksOf
<1>5. (l \in ChecksOf(d))' /\ (\A j \in ChecksOf(d) : Supersedes(l, j))'
  BY <1>2, <1>3, <1>4 DEF ChecksOf, Supersedes
<1>6. Latest(d)' = l
  BY <1>5, LatestIsUniqueNext DEF TypeOK
<1> QED
  BY <1>1, <1>2, <1>3, <1>6 DEF ChecksOf

\* A check that is as new as any of its document becomes the latest.
LEMMA LatestIsNew ==
  ASSUME TypeOK, TypeOK', NEW c \in Calls, stage[c] = "save",
         compliance_checks' = Append(compliance_checks, record[c]),
         NEW d, d = record[c].document_id,
         \A i \in ChecksOf(d) : compliance_checks[i].checked_at <= record[c].checked_at
  PROVE  Latest(d)' # 0 /\ compliance_checks'[Latest(d)'] = record[c]
<1>1. compliance_checks \in Seq(CheckRows) /\ record[c] \in CheckRows /\ compliance_checks' \in Seq(CheckRows)
  BY DEF TypeOK
<1>2. PICK n : n = Len(compliance_checks) + 1
  OBVIOUS
<1>3. /\ n \in Nat \ {0} /\ DOMAIN compliance_checks' = 1..n /\ compliance_checks'[n] = record[c]
      /\ DOMAIN compliance_checks = 1..(n - 1)
      /\ \A i \in 1..(n - 1) : compliance_checks'[i] = compliance_checks[i]
  BY <1>1, <1>2, AppendFacts
<1>4. (n \in ChecksOf(d))'
  BY <1>3 DEF ChecksOf
<1>5. ASSUME NEW j \in 1..n, compliance_checks'[j].document_id = d
      PROVE  Supersedes(n, j)'
  <2>1. CASE j = n
    <3>1. n >= n
      BY <1>3
    <3> QED
      BY <2>1, <3>1 DEF Supersedes
  <2>2. CASE j # n
    <3>1. j \in 1..(n - 1) /\ n >= j
      BY <1>3, <2>2
    <3>2. j \in ChecksOf(d) /\ compliance_checks'[j] = compliance_checks[j]
      BY <1>3, <1>5, <3>1 DEF ChecksOf
    <3>3. compliance_checks[j].checked_at <= record[c].checked_at
      BY <3>2
    <3>4. compliance_checks[j].checked_at \in Nat /\ record[c].checked_at \in Nat
      <4>1. compliance_checks[j] \in CheckRows
        BY <1>1, <1>3, <3>1, ElementOfSeq, <1>2
      <4> QED
        BY <1>1, <4>1, ClockIsBounded DEF CheckRows, Times
    <3>5. record[c].checked_at > compliance_checks[j].checked_at \/ record[c].checked_at = compliance_checks[j].checked_at
      BY <3>3, <3>4
    <3> QED
      BY <1>3, <3>1, <3>2, <3>5 DEF Supersedes
  <2> QED
    BY <2>1, <2>2
<1>6. (\A j \in ChecksOf(d) : Supersedes(n, j))'
  BY <1>3, <1>5 DEF ChecksOf
<1>7. Latest(d)' = n
  BY <1>1, <1>4, <1>6, LatestIsUniqueNext
<1> QED
  BY <1>3, <1>7

\* What one step may do to it.
LEMMA LatestStaysOrGrows ==
  ASSUME TypeOK, TypeOK', CheckMove, NEW d \in Documents, ChecksOf(d) # {}
  PROVE  /\ Latest(d)' # 0
         /\ compliance_checks'[Latest(d)'].checked_at >= compliance_checks[Latest(d)].checked_at
<1>1. PICK l : l = Latest(d)
  OBVIOUS
<1>2. l \in DOMAIN compliance_checks /\ compliance_checks[l].document_id = d
  BY <1>1, LatestSupersedes DEF TypeOK, ChecksOf
<1>3. l \in DOMAIN compliance_checks' /\ compliance_checks'[l] = compliance_checks[l]
  BY <1>2, ChecksGrow
<1>4. (l \in ChecksOf(d))'
  BY <1>2, <1>3 DEF ChecksOf
<1>5. (Latest(d) \in ChecksOf(d) /\ Latest(d) # 0 /\ Supersedes(Latest(d), l))'
  BY <1>4, LatestSupersedesNext DEF TypeOK
<1>6. compliance_checks' \in Seq(CheckRows) /\ Latest(d)' \in DOMAIN compliance_checks'
  BY <1>5 DEF TypeOK, ChecksOf
<1>7. compliance_checks'[l].checked_at \in Nat /\ compliance_checks'[Latest(d)'].checked_at \in Nat
  <2>1. compliance_checks'[l] \in CheckRows /\ compliance_checks'[Latest(d)'] \in CheckRows
    BY <1>3, <1>6, ElementOfSeq, LenProperties
  <2> QED
    BY <2>1, ClockIsBounded DEF CheckRows, Times
<1>8. compliance_checks'[Latest(d)'].checked_at >= compliance_checks'[l].checked_at
  BY <1>5, <1>7 DEF Supersedes
<1> QED
  BY <1>1, <1>3, <1>5, <1>8

\* What the gateway tells of a document never goes back.
THEOREM LatestGoesForward == Spec => LatestNeverGoesBack
<1>1. IInv /\ [Next]_vars =>
        \A d \in Documents :
          LET was == compliance_status(d)
              now == compliance_status(d)'
          IN  was.code = 200 =>
                now.code = 200 /\ now.check.checked_at >= was.check.checked_at
  <2> SUFFICES ASSUME IInv, [Next]_vars, NEW d \in Documents, compliance_status(d).code = 200
               PROVE  /\ compliance_status(d)'.code = 200
                      /\ compliance_status(d)'.check.checked_at >= compliance_status(d).check.checked_at
      OBVIOUS
  <2>1. TypeOK /\ TypeOK' /\ CheckMove
    BY TypeStep, StepsAreSummarised DEF IInv, StepSummary
  <2>2. Latest(d) # 0 /\ ChecksOf(d) # {}
    BY DEF compliance_status, Latest
  <2>3. /\ Latest(d)' # 0
        /\ compliance_checks'[Latest(d)'].checked_at >= compliance_checks[Latest(d)].checked_at
    BY <2>1, <2>2, LatestStaysOrGrows
  <2> QED
    BY <2>2, <2>3 DEF compliance_status
<1> QED
  BY <1>1, Invariance, PTL DEF Spec, LatestNeverGoesBack
=============================================================================
