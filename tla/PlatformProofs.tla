--------------------------- MODULE PlatformProofs ---------------------------
(* Proofs about Platform: it implements both services, so what holds of    *)
(* each holds of the composition, and the facts that relate their stores.  *)
EXTENDS Platform, DocumentProcessingProofs

GatewayProofs == INSTANCE SoapGatewayProofs WITH Calls <- Requests

\* What SoapGateway assumes of its constants.
LEMMA GatewayAssumptions ==
  /\ GatewayFaults \subseteq GatewayProofs!GatewayFaultKinds
  /\ MaxClock \in Nat
  /\ None \notin Documents \cup Requests
  /\ None \notin GatewayProofs!Times
  /\ None \notin GatewayProofs!Verdicts \cup {"FAILED"}
  /\ None \notin GatewayProofs!Replies
BY GatewayIsConfigured, NoneIsFresh DEF Gateway!GatewayFaultKinds, GatewayProofs!GatewayFaultKinds,
   Gateway!Times, GatewayProofs!Times, Gateway!Verdicts, GatewayProofs!Verdicts,
   Gateway!Replies, GatewayProofs!Replies, FinalStatuses

-----------------------------------------------------------------------------
\* A step of the composition is a step of the endpoint, or none.
LEMMA OutcomeIsFinal ==
  ASSUME NEW r \in Requests
  PROVE  CheckOutcome(r) \in FinalStatuses \cup {"gateway_error"}
BY DEF CheckOutcome

LEMMA ProcessingStep == [PlatformNext]_platformVars => [Next]_vars
<1> SUFFICES ASSUME [PlatformNext]_platformVars PROVE [Next]_vars
    OBVIOUS
<1>1. CASE UNCHANGED platformVars
  BY <1>1 DEF platformVars
<1>2. CASE Arrivals
  BY <1>2 DEF Arrivals, Next
<1>3. ASSUME NEW r \in Requests, EndpointStep(r)
      PROVE  [Next]_vars
  BY <1>3 DEF EndpointStep, Next, Step
<1>4. ASSUME NEW r \in Requests, TakeReply(r)
      PROVE  [Next]_vars
  <2>1. CallGateway(r)
    BY <1>4, OutcomeIsFinal, GatewayFailuresAreFaults DEF TakeReply, CallGateway
  <2> QED
    BY <2>1 DEF Next, Step
<1>5. ASSUME NEW r \in Requests, GatewayUnreachable(r)
      PROVE  [Next]_vars
  <2>1. CallGateway(r)
    BY <1>5, GatewayFailuresAreFaults DEF GatewayUnreachable, CallGateway
  <2> QED
    BY <2>1 DEF Next, Step
<1>6. ASSUME NEW r \in Requests, LoseReply(r)
      PROVE  [Next]_vars
  <2>1. CallGateway(r)
    BY <1>6 DEF LoseReply, CallGateway
  <2> QED
    BY <2>1 DEF Next, Step
<1>7. ASSUME NEW r \in Requests, SendCheck(r)
      PROVE  UNCHANGED vars
  BY <1>7 DEF SendCheck
<1>8. ASSUME NEW c \in Requests, MockAnswers(c) \/ GatewayWorks(c)
      PROVE  UNCHANGED vars
  BY <1>8 DEF MockAnswers, GatewayWorks
<1>9. CASE GatewayDies \/ TimePasses \/ \E d \in Documents : ReadDetail(d)
  BY <1>9 DEF GatewayDies, TimePasses, ReadDetail
<1> QED
  BY <1>1, <1>2, <1>3, <1>4, <1>5, <1>6, <1>7, <1>8, <1>9 DEF PlatformNext, ServicesNext, RequestStep

\* The composition implements the endpoint: every theorem about
\* DocumentProcessing's Spec is one about the platform.
THEOREM ProcessingImplemented == PlatformSpec => ImplementsProcessing
<1>1. PlatformInit => Init
  BY DEF PlatformInit
<1> QED
  BY <1>1, ProcessingStep, PTL DEF PlatformSpec, ImplementsProcessing, Spec

\* So every final status comes from its run's own check, in the composition too.
THEOREM FinalStatusesExplained == PlatformSpec => []FinalStatusIsExplained
BY ProcessingImplemented, FinalStatusExplained, PTL DEF ImplementsProcessing

-----------------------------------------------------------------------------
\* To the gateway, a step of the endpoint adds at most one document.
OneRowWritten ==
  \/ UNCHANGED documents
  \/ \E d \in Documents, s \in DocumentStatuses, by \in Requests \cup {None} : WriteRow(d, s, by)

LEMMA EndpointWritesOneRow == TypeOK /\ [Next]_vars => OneRowWritten
<1> SUFFICES ASSUME TypeOK, [Next]_vars PROVE OneRowWritten
    OBVIOUS
<1>1. CASE UNCHANGED vars
  BY <1>1 DEF OneRowWritten, vars
<1>2. ASSUME NEW d \in Documents, CreateDocument(d)
      PROVE  OneRowWritten
  BY <1>2 DEF CreateDocument, OneRowWritten, DocumentStatuses
<1>3. ASSUME NEW r \in Requests, MarkProcessing(r)
      PROVE  OneRowWritten
  <2>1. target[r] \in Documents
    BY <1>3 DEF TypeOK, MarkProcessing, Answer, Goto, InFlight, Working
  <2> QED
    BY <1>3, <2>1 DEF MarkProcessing, MaybeWriteRow, OneRowWritten, DocumentStatuses
<1>4. ASSUME NEW r \in Requests, PersistResult(r)
      PROVE  OneRowWritten
  <2>1. target[r] \in Documents /\ result[r] # None
    BY <1>4 DEF TypeOK, PersistResult, Answer, Goto, InFlight, Working
  <2>2. FinalStatus(r) \in DocumentStatuses
    BY <2>1, FinalStatusIsTyped DEF DocumentStatuses
  <2> QED
    BY <1>4, <2>1, <2>2 DEF PersistResult, MaybeWriteRow, OneRowWritten
<1>5. ASSUME NEW r \in Requests, NEW d \in Documents, Receive(r, d)
      PROVE  OneRowWritten
  BY <1>5 DEF Receive, OneRowWritten
<1>6. ASSUME NEW r \in Requests, CallGateway(r)
      PROVE  OneRowWritten
  BY <1>6 DEF CallGateway, CheckReturns, CheckEscapes, OneRowWritten
<1>7. CASE Crash
  BY <1>7 DEF Crash, OneRowWritten
<1>8. ASSUME NEW r \in Requests, RejectMalformedId(r) \/ ReadDocument(r) \/ InsertStartEvent(r)
             \/ InsertFinalEvent(r) \/ NotifyBff(r)
      PROVE  OneRowWritten
  BY <1>8 DEF RejectMalformedId, ReadDocument, InsertStartEvent, InsertFinalEvent,
              NotifyBff, OneRowWritten
<1> QED
  BY <1>1, <1>2, <1>3, <1>4, <1>5, <1>6, <1>7, <1>8 DEF Next, Step

LEMMA KnownGrowsByOne ==
  ASSUME TypeOK, OneRowWritten
  PROVE  known' = known \/ \E d \in Documents : d \notin known /\ known' = known \cup {d}
<1>1. CASE UNCHANGED documents
  BY <1>1 DEF known
<1>2. ASSUME NEW d \in Documents, NEW s \in DocumentStatuses, NEW by \in Requests \cup {None},
             WriteRow(d, s, by)
      PROVE  known' = known \cup {d}
  <2>1. s # "ABSENT"
    BY DEF DocumentStatuses, FinalStatuses
  <2>2. documents'[d].status # "ABSENT"
    BY <1>2, <2>1 DEF WriteRow, TypeOK
  <2>3. \A e \in Documents \ {d} : documents'[e] = documents[e]
    BY <1>2 DEF WriteRow, TypeOK
  <2> QED
    BY <2>2, <2>3 DEF known
<1> QED
  BY <1>1, <1>2 DEF OneRowWritten

\* The answers of the Mock SOAP Server are among those the gateway reckons with.
LEMMA MockRepliesAreSoapReplies ==
  ASSUME NEW d \in Documents, NEW type, NEW now \in GatewayProofs!Times
  PROVE  Mock!Respond(d, type, now) \in GatewayProofs!SoapReplies
<1>1. CASE type \in Mock!SupportedTypes
  <2>1. Mock!DOCUMENT_STATUS[type] \in GatewayProofs!Verdicts
    BY <1>1 DEF Mock!SupportedTypes, Mock!DOCUMENT_STATUS, GatewayProofs!Verdicts
  <2> QED
    BY <1>1, <2>1 DEF Mock!Respond, Mock!Result, GatewayProofs!SoapReplies
<1>2. CASE type \notin Mock!SupportedTypes
  BY <1>2 DEF Mock!Respond, Mock!Fault, GatewayProofs!SoapReplies
<1> QED
  BY <1>1, <1>2

\* What the gateway's variables do in a step: nothing, or a step of its own.
GatewayMoves ==
  \/ UNCHANGED gatewayVars
  \/ \E c \in Requests, d \in Documents : GatewayProofs!ReceiveCheck(c, d)
  \/ \E c \in Requests, soap \in GatewayProofs!SoapReplies : GatewayProofs!TakeSoapReply(c, soap)
  \/ \E c \in Requests : GatewayProofs!GatewayStep(c)
  \/ GatewayProofs!GatewayCrash
  \/ GatewayProofs!Tick

LEMMA GatewaySteps ==
  ASSUME TypeOK, GatewayProofs!TypeOK, [PlatformNext]_platformVars
  PROVE  GatewayMoves /\ (UNCHANGED gatewayVars \/ UNCHANGED vars)
<1>1. CASE UNCHANGED platformVars
  BY <1>1 DEF platformVars, GatewayMoves
<1>2. CASE Arrivals
  BY <1>2 DEF Arrivals, GatewayMoves
<1>3. ASSUME NEW r \in Requests, EndpointStep(r) \/ TakeReply(r) \/ GatewayUnreachable(r) \/ LoseReply(r)
      PROVE  UNCHANGED gatewayVars
  BY <1>3 DEF EndpointStep, TakeReply, GatewayUnreachable, LoseReply
<1>4. ASSUME NEW r \in Requests, SendCheck(r)
      PROVE  GatewayMoves /\ UNCHANGED vars
  <2>1. target[r] \in Documents
    BY <1>4 DEF SendCheck, TypeOK, InFlight, Working
  <2>2. GatewayProofs!ReceiveCheck(r, target[r])
    BY <1>4 DEF SendCheck, Gateway!ReceiveCheck, GatewayProofs!ReceiveCheck, Gateway!Enter, GatewayProofs!Enter
  <2> QED
    BY <1>4, <2>1, <2>2 DEF GatewayMoves, SendCheck
<1>5. ASSUME NEW c \in Requests, MockAnswers(c)
      PROVE  GatewayMoves /\ UNCHANGED vars
  <2> DEFINE soap == Mock!Respond(subject[c], DocumentType[subject[c]], clock)
  <2>1. Gateway!TakeSoapReply(c, soap)
    BY <1>5 DEF MockAnswers
  <2>2. subject[c] \in Documents /\ clock \in GatewayProofs!Times
    BY <2>1 DEF GatewayProofs!TypeOK, GatewayProofs!Active, Gateway!TakeSoapReply, Gateway!Enter
  <2>3. soap \in GatewayProofs!SoapReplies
    BY <2>2, MockRepliesAreSoapReplies
  <2> HIDE DEF soap
  <2>4. GatewayProofs!TakeSoapReply(c, soap)
    BY <2>1 DEF Gateway!TakeSoapReply, GatewayProofs!TakeSoapReply, Gateway!Enter, GatewayProofs!Enter, Gateway!RecordOf, GatewayProofs!RecordOf, Gateway!Acceptable, GatewayProofs!Acceptable
  <2> QED
    BY <1>5, <2>3, <2>4 DEF GatewayMoves, MockAnswers
<1>6. ASSUME NEW c \in Requests, GatewayWorks(c)
      PROVE  GatewayMoves /\ UNCHANGED vars
  <2>1. CASE Gateway!NoSoapReply(c)
    BY <1>6, <2>1 DEF GatewayWorks, GatewayMoves, GatewayProofs!GatewayStep, Gateway!NoSoapReply, GatewayProofs!NoSoapReply, Gateway!Reply, GatewayProofs!Reply, Gateway!Enter, GatewayProofs!Enter
  <2>2. CASE Gateway!SaveCheck(c)
    BY <1>6, <2>2 DEF GatewayWorks, GatewayMoves, GatewayProofs!GatewayStep, Gateway!SaveCheck, GatewayProofs!SaveCheck, Gateway!Reply, GatewayProofs!Reply, Gateway!Enter, GatewayProofs!Enter
  <2>3. CASE Gateway!InsertEvent(c)
    BY <1>6, <2>3 DEF GatewayWorks, GatewayMoves, GatewayProofs!GatewayStep,
                      Gateway!InsertEvent, GatewayProofs!InsertEvent, Gateway!MaybeInsert, GatewayProofs!MaybeInsert, Gateway!EventOf, GatewayProofs!EventOf, Gateway!ReplyCode, GatewayProofs!ReplyCode, Gateway!Reply, GatewayProofs!Reply, Gateway!Enter, GatewayProofs!Enter, Gateway!Verdicts, GatewayProofs!Verdicts
  <2> QED
    BY <1>6, <2>1, <2>2, <2>3 DEF GatewayWorks, Gateway!GatewayStep
<1>7. CASE GatewayDies
  BY <1>7 DEF GatewayDies, GatewayMoves, Gateway!GatewayCrash, GatewayProofs!GatewayCrash, Gateway!Active, GatewayProofs!Active
<1>8. CASE TimePasses
  BY <1>8 DEF TimePasses, GatewayMoves, Gateway!Tick, GatewayProofs!Tick, Gateway!callVars, GatewayProofs!callVars
<1>9. ASSUME NEW d \in Documents, ReadDetail(d)
      PROVE  UNCHANGED gatewayVars
  BY <1>9 DEF ReadDetail
<1> QED
  BY <1>1, <1>2, <1>3, <1>4, <1>5, <1>6, <1>7, <1>8, <1>9 DEF PlatformNext, ServicesNext, RequestStep, GatewayMoves,
     GatewayDies, TimePasses

LEMMA GatewayStepOfPlatform ==
  ASSUME TypeOK, GatewayProofs!TypeOK, [PlatformNext]_platformVars
  PROVE  [GatewayProofs!Next]_(GatewayProofs!vars)
<1> USE DEF GatewayProofs!vars, GatewayProofs!gatewayVars, GatewayProofs!callVars, gatewayVars
<1>1. GatewayMoves /\ (UNCHANGED gatewayVars \/ UNCHANGED vars)
  BY GatewaySteps
<1>2. CASE UNCHANGED gatewayVars
  <2>1. known' = known \/ \E d \in Documents : d \notin known /\ known' = known \cup {d}
    BY ProcessingStep, EndpointWritesOneRow, KnownGrowsByOne
  <2> QED
    BY <1>2, <2>1 DEF GatewayProofs!Next, GatewayProofs!AddDocument
<1>3. CASE UNCHANGED vars
  <2>1. UNCHANGED known
    BY <1>3 DEF vars, known
  <2> QED
    BY <1>1, <1>2, <2>1 DEF GatewayMoves, GatewayProofs!Next
<1> QED
  BY <1>1, <1>2, <1>3

LEMMA GatewayInitOfPlatform == PlatformInit => GatewayProofs!Init
<1> SUFFICES ASSUME PlatformInit PROVE GatewayProofs!Init
    OBVIOUS
<1>1. known = {}
  BY DEF PlatformInit, Init, known
<1> QED
  BY <1>1 DEF PlatformInit, Gateway!GatewayInit, GatewayProofs!Init, GatewayProofs!GatewayInit

LEMMA TypeStepOfGateway ==
  ASSUME TypeOK, GatewayProofs!TypeOK, [PlatformNext]_platformVars
  PROVE  GatewayProofs!TypeOK'
<1>1. [GatewayProofs!Next]_(GatewayProofs!vars)
  BY GatewayStepOfPlatform
<1> QED
  BY <1>1, GatewayAssumptions, GatewayProofs!TypeStep

LEMMA TypesOfPlatform == PlatformSpec => [](TypeOK /\ GatewayProofs!TypeOK)
<1>1. PlatformSpec => []TypeOK
  BY ProcessingImplemented, TypeCorrect, PTL DEF ImplementsProcessing
<1>2. PlatformInit => GatewayProofs!TypeOK
  BY GatewayInitOfPlatform, GatewayAssumptions, GatewayProofs!TypeInit
<1>3. TypeOK /\ GatewayProofs!TypeOK /\ [PlatformNext]_platformVars => GatewayProofs!TypeOK'
  BY TypeStepOfGateway
<1> QED
  BY <1>1, <1>2, <1>3, PTL DEF PlatformSpec

LEMMA GatewaySpecOfPlatform == PlatformSpec => GatewayProofs!Spec
<1>1. TypeOK /\ GatewayProofs!TypeOK /\ [PlatformNext]_platformVars
        => [GatewayProofs!Next]_(GatewayProofs!vars)
  BY GatewayStepOfPlatform
<1> QED
  BY <1>1, TypesOfPlatform, GatewayInitOfPlatform, PTL DEF PlatformSpec, GatewayProofs!Spec

LEMMA GatewayInvariance == PlatformSpec => []GatewayProofs!IInv
BY GatewaySpecOfPlatform, GatewayAssumptions, GatewayProofs!Invariance, PTL

\* Both instances of SoapGateway say the same.
LEMMA SameGatewayStep == [GatewayProofs!Next]_(GatewayProofs!vars) => [Gateway!Next]_(Gateway!vars)
<1> SUFFICES ASSUME [GatewayProofs!Next]_(GatewayProofs!vars)
             PROVE  [Gateway!Next]_(Gateway!vars)
    OBVIOUS
<1> USE DEF Gateway!vars, GatewayProofs!vars, Gateway!gatewayVars, GatewayProofs!gatewayVars,
            Gateway!callVars, GatewayProofs!callVars
<1>1. CASE UNCHANGED GatewayProofs!vars
  BY <1>1
<1>2. ASSUME NEW d \in Documents, GatewayProofs!AddDocument(d)
      PROVE  Gateway!Next
  BY <1>2 DEF Gateway!AddDocument, GatewayProofs!AddDocument, Gateway!Next
<1>3. ASSUME NEW c \in Requests, NEW d \in Documents, GatewayProofs!ReceiveCheck(c, d)
      PROVE  Gateway!ReceiveCheck(c, d)
  BY <1>3 DEF Gateway!ReceiveCheck, GatewayProofs!ReceiveCheck, Gateway!Enter, GatewayProofs!Enter
<1>4. ASSUME NEW c \in Requests, GatewayProofs!RejectCheck(c)
      PROVE  Gateway!RejectCheck(c)
  BY <1>4 DEF Gateway!RejectCheck, GatewayProofs!RejectCheck, Gateway!Reply, GatewayProofs!Reply, Gateway!Enter, GatewayProofs!Enter
<1>5. ASSUME NEW c \in Requests, NEW soap \in GatewayProofs!SoapReplies, GatewayProofs!TakeSoapReply(c, soap)
      PROVE  soap \in Gateway!SoapReplies /\ Gateway!TakeSoapReply(c, soap)
  BY <1>5 DEF Gateway!TakeSoapReply, GatewayProofs!TakeSoapReply, Gateway!Enter,
              GatewayProofs!Enter, Gateway!RecordOf, GatewayProofs!RecordOf,
              Gateway!Acceptable, GatewayProofs!Acceptable, Gateway!SoapReplies,
              GatewayProofs!SoapReplies, Gateway!Verdicts, GatewayProofs!Verdicts,
              Gateway!Times, GatewayProofs!Times
<1>6. ASSUME NEW c \in Requests, GatewayProofs!NoSoapReply(c)
      PROVE  Gateway!GatewayStep(c)
  BY <1>6 DEF Gateway!NoSoapReply, GatewayProofs!NoSoapReply, Gateway!Reply, GatewayProofs!Reply, Gateway!Enter, GatewayProofs!Enter, Gateway!GatewayStep
<1>7. ASSUME NEW c \in Requests, GatewayProofs!SaveCheck(c)
      PROVE  Gateway!GatewayStep(c)
  BY <1>7 DEF Gateway!SaveCheck, GatewayProofs!SaveCheck, Gateway!Reply, GatewayProofs!Reply, Gateway!Enter, GatewayProofs!Enter, Gateway!GatewayStep
<1>8. ASSUME NEW c \in Requests, GatewayProofs!InsertEvent(c)
      PROVE  Gateway!GatewayStep(c)
  BY <1>8 DEF Gateway!InsertEvent, GatewayProofs!InsertEvent, Gateway!MaybeInsert,
              GatewayProofs!MaybeInsert, Gateway!EventOf, GatewayProofs!EventOf,
              Gateway!ReplyCode, GatewayProofs!ReplyCode, Gateway!Verdicts,
              GatewayProofs!Verdicts, Gateway!Reply, GatewayProofs!Reply, Gateway!Enter,
              GatewayProofs!Enter, Gateway!GatewayStep
<1>9. ASSUME GatewayProofs!GatewayCrash \/ GatewayProofs!Tick
      PROVE  Gateway!GatewayCrash \/ Gateway!Tick
  BY <1>9 DEF Gateway!GatewayCrash, GatewayProofs!GatewayCrash, Gateway!Active, GatewayProofs!Active, Gateway!Tick, GatewayProofs!Tick
<1> QED
  BY <1>1, <1>2, <1>3, <1>4, <1>5, <1>6, <1>7, <1>8, <1>9
     DEF GatewayProofs!Next, GatewayProofs!GatewayStep, Gateway!Next

\* The composition implements the gateway, whatever the endpoint does.
THEOREM GatewayImplemented == PlatformSpec => ImplementsGateway
<1>1. GatewayProofs!Init => Gateway!Init
  BY DEF Gateway!Init, GatewayProofs!Init, Gateway!GatewayInit, GatewayProofs!GatewayInit
<1> QED
  BY <1>1, SameGatewayStep, GatewaySpecOfPlatform, PTL
     DEF ImplementsGateway, Gateway!Spec, GatewayProofs!Spec

-----------------------------------------------------------------------------
(* How the stores of the two services relate.                              *)

\* A request that got a verdict got it from its own call, which is over.
VerdictIsFromItsCall ==
  \A r \in Requests :
    /\ stage[r] # "idle" => subject[r] = target[r] /\ pc[r] # "idle"
    /\ result[r] \in Gateway!Verdicts => stage[r] = "answered" /\ reply[r].status = result[r]

LEMMA CallMoves ==
  ASSUME TypeOK, GatewayProofs!TypeOK, [PlatformNext]_platformVars
  PROVE  GatewayProofs!StepSummary
<1>1. [GatewayProofs!Next]_(GatewayProofs!vars)
  BY GatewayStepOfPlatform
<1> QED
  BY <1>1, GatewayAssumptions, GatewayProofs!StepsAreSummarised

LEMMA VerdictIsFromItsCallStep ==
  TypeOK /\ GatewayProofs!TypeOK /\ VerdictIsFromItsCall /\ [PlatformNext]_platformVars
    => VerdictIsFromItsCall'
<1> SUFFICES ASSUME TypeOK, GatewayProofs!TypeOK, VerdictIsFromItsCall, [PlatformNext]_platformVars
             PROVE  VerdictIsFromItsCall'
    OBVIOUS
<1> USE DEF VerdictIsFromItsCall
<1>1. CASE UNCHANGED platformVars
  BY <1>1 DEF platformVars, vars, requestVars, gatewayVars
<1>2. CASE Arrivals
  <2>1. UNCHANGED <<result, stage, subject, reply>>
    BY <1>2 DEF Arrivals, CreateDocument, Receive, RejectMalformedId, Crash, Answer, requestVars, gatewayVars
  <2>2. \A r \in Requests : pc[r] # "idle" => pc'[r] # "idle" /\ target'[r] = target[r]
    BY <1>2 DEF Arrivals, CreateDocument, Receive, RejectMalformedId, Crash, Answer, Goto,
                requestVars, TypeOK
  <2> QED
    BY <2>1, <2>2
<1>3. ASSUME NEW q \in Requests, EndpointStep(q)
      PROVE  VerdictIsFromItsCall'
  <2>1. UNCHANGED <<target, result, stage, subject, reply>>
    BY <1>3 DEF EndpointStep, ReadDocument, MarkProcessing, InsertStartEvent, PersistResult,
                InsertFinalEvent, NotifyBff, gatewayVars
  <2>2. \A r \in Requests : pc[r] # "idle" => pc'[r] # "idle"
    BY <1>3 DEF EndpointStep, ReadDocument, MarkProcessing, InsertStartEvent, PersistResult,
                InsertFinalEvent, NotifyBff, Answer, Goto, TypeOK
  <2> QED
    BY <2>1, <2>2
<1>4. ASSUME NEW q \in Requests, TakeReply(q)
      PROVE  VerdictIsFromItsCall'
  <2>1. CheckOutcome(q) \in Gateway!Verdicts => CheckOutcome(q) = reply[q].status
    BY DEF CheckOutcome, Gateway!Verdicts
  <2> QED
    BY <1>4, <2>1 DEF TakeReply, CheckReturns, Goto, gatewayVars, TypeOK
<1>5. ASSUME NEW q \in Requests, GatewayUnreachable(q) \/ LoseReply(q)
      PROVE  VerdictIsFromItsCall'
  BY ZenonT(30), <1>5 DEF GatewayUnreachable, LoseReply, CheckReturns, CheckEscapes, Answer, Goto, gatewayVars,
              TypeOK, Gateway!Verdicts
<1>6. ASSUME NEW q \in Requests, SendCheck(q)
      PROVE  VerdictIsFromItsCall'
  BY <1>6 DEF SendCheck, Gateway!ReceiveCheck, Gateway!Enter, GatewayProofs!TypeOK, vars, requestVars
<1>7. ASSUME NEW c \in Requests, MockAnswers(c)
      PROVE  VerdictIsFromItsCall'
  BY <1>7 DEF MockAnswers, Gateway!TakeSoapReply, Gateway!Enter, GatewayProofs!TypeOK, vars, requestVars
<1>8. ASSUME NEW c \in Requests, GatewayWorks(c)
      PROVE  VerdictIsFromItsCall'
  <2>1. UNCHANGED <<pc, target, result, subject>>
    BY <1>8 DEF GatewayWorks, Gateway!GatewayStep, Gateway!NoSoapReply, Gateway!SaveCheck,
                Gateway!InsertEvent, vars, requestVars
  <2>2. stage[c] \in {"upstream", "save", "event"} /\ stage'[c] \in {"event", "answered"}
    BY <1>8 DEF GatewayWorks, Gateway!GatewayStep, Gateway!NoSoapReply, Gateway!SaveCheck,
                Gateway!InsertEvent, Gateway!Reply, Gateway!Enter, GatewayProofs!TypeOK
  <2>3. \A r \in Requests \ {c} : stage'[r] = stage[r] /\ reply'[r] = reply[r]
    BY <1>8 DEF GatewayWorks, Gateway!GatewayStep, Gateway!NoSoapReply, Gateway!SaveCheck,
                Gateway!InsertEvent, Gateway!Reply, Gateway!Enter, GatewayProofs!TypeOK
  <2> QED
    BY <2>1, <2>2, <2>3
<1>9. CASE GatewayDies
  BY <1>9 DEF GatewayDies, Gateway!GatewayCrash, Gateway!Active, vars, requestVars
<1>10. CASE TimePasses \/ \E d \in Documents : ReadDetail(d)
  BY <1>10 DEF TimePasses, Gateway!Tick, Gateway!callVars, ReadDetail, vars, requestVars, gatewayVars
<1> QED
  BY <1>1, <1>2, <1>3, <1>4, <1>5, <1>6, <1>7, <1>8, <1>9, <1>10 DEF PlatformNext, ServicesNext, RequestStep

LEMMA CallInvariance == PlatformSpec => []VerdictIsFromItsCall
<1>1. PlatformInit => VerdictIsFromItsCall
  BY NoneIsFresh DEF PlatformInit, Init, Gateway!GatewayInit, VerdictIsFromItsCall,
                     Gateway!Verdicts, FinalStatuses
<1> QED
  BY <1>1, TypesOfPlatform, VerdictIsFromItsCallStep, PTL DEF PlatformSpec

\* A verdict rests on a check of the request that wrote it, and on its event.
LEMMA VerdictRestsOnItsCheck ==
  ASSUME TypeOK, FinalStatusIsExplained, VerdictIsFromItsCall, GatewayProofs!IInv
  PROVE  VerdictHasCheck
<1> SUFFICES ASSUME NEW d \in Documents, documents[d].status \in Gateway!Verdicts
             PROVE  \E i \in Gateway!ChecksOf(d) :
                      /\ RestsOn(documents[d], i)
                      /\ Gateway!Inserted(Gateway!EventOf(compliance_checks[i]))
    BY DEF VerdictHasCheck
<1>1. PICK r \in Requests : documents[d].processed_at = r
  <2>1. documents[d].processed_at # None /\ documents[d] \in Rows
    BY DEF FinalStatusIsExplained, Gateway!Verdicts, FinalStatuses, TypeOK
  <2> QED
    BY <2>1 DEF Rows
<1>2. target[r] = d /\ documents[d].status = FinalStatus(r)
  BY <1>1 DEF FinalStatusIsExplained, Explains
<1>3. result[r] = documents[d].status
  BY <1>2 DEF FinalStatus, Gateway!Verdicts
<1>4. stage[r] = "answered" /\ reply[r].status = documents[d].status /\ subject[r] = d
  BY <1>2, <1>3 DEF VerdictIsFromItsCall
<1>5. reply[r] # None /\ reply[r].status # None
  BY <1>4, NoneIsFresh DEF GatewayProofs!IInv, GatewayProofs!RepliesAreLast, Gateway!Verdicts,
                           FinalStatuses
<1>6. PICK i \in GatewayProofs!ChecksOf(subject[r]) :
        /\ compliance_checks[i].check_id = r
        /\ compliance_checks[i].status = reply[r].status
        /\ GatewayProofs!Inserted(GatewayProofs!EventOf(compliance_checks[i]))
  BY <1>5 DEF GatewayProofs!IInv, GatewayProofs!ReplyIsRecorded
<1>7. i \in Gateway!ChecksOf(d) /\ RestsOn(documents[d], i)
  BY <1>1, <1>4, <1>6 DEF RestsOn, Gateway!ChecksOf, GatewayProofs!ChecksOf
<1>8. Gateway!Inserted(Gateway!EventOf(compliance_checks[i]))
  BY <1>6 DEF Gateway!Inserted, GatewayProofs!Inserted, Gateway!EventOf, GatewayProofs!EventOf
<1> QED
  BY <1>7, <1>8

\* The row in documents and the check in compliance_checks are written by two
\* services over two connections, and still agree on every verdict.
THEOREM VerdictsHaveChecks == PlatformSpec => []VerdictHasCheck
BY TypesOfPlatform, FinalStatusesExplained, CallInvariance, GatewayInvariance,
   VerdictRestsOnItsCheck, PTL

-----------------------------------------------------------------------------
(* The verdicts follow the rules of the SOAP server on their whole way: the *)
(* gateway's record, its reply, the result of the request, then the row,    *)
(* the log and the webhooks.                                               *)

CallsFollowRules ==
  \A r \in Requests :
    /\ stage[r] \in {"save", "event"} => ByTheRules(subject[r], record[r].status)
    /\ stage[r] = "answered" => ByTheRules(subject[r], reply[r].status)
    /\ ByTheRules(target[r], result[r])

LEMMA NoVerdictFollowsRules ==
  ASSUME NEW d, NEW s, s \notin Gateway!Verdicts
  PROVE  ByTheRules(d, s)
BY DEF ByTheRules

LEMMA NoVerdicts ==
  {None, "FAILED", "gateway_error", "PROCESSING", "UPLOADED", "ABSENT"} \cap Gateway!Verdicts = {}
BY NoneIsFresh DEF Gateway!Verdicts, FinalStatuses

LEMMA MockFollowsRules ==
  ASSUME NEW d \in Documents, NEW c \in Requests
  PROVE  ByTheRules(d, Gateway!RecordOf(Mock!Respond(d, DocumentType[d], clock), d, c).status)
<1> DEFINE soap == Mock!Respond(d, DocumentType[d], clock)
<1>1. CASE DocumentType[d] \in Mock!SupportedTypes
  <2>1. soap.status = Mock!DOCUMENT_STATUS[DocumentType[d]]
    BY <1>1 DEF Mock!Respond, Mock!Result
  <2>2. Gateway!RecordOf(soap, d, c).status \in {soap.status, "FAILED"}
    BY DEF Gateway!RecordOf
  <2> QED
    BY <1>1, <2>1, <2>2, NoVerdicts DEF ByTheRules
<1>2. CASE DocumentType[d] \notin Mock!SupportedTypes
  <2>1. soap.kind = "client_fault"
    BY <1>2 DEF Mock!Respond, Mock!Fault
  <2>2. Gateway!RecordOf(soap, d, c).status = "FAILED"
    BY <2>1 DEF Gateway!RecordOf, Gateway!Acceptable
  <2> QED
    BY <2>2, NoVerdicts DEF ByTheRules
<1> QED
  BY <1>1, <1>2

LEMMA CallsFollowRulesStep ==
  TypeOK /\ GatewayProofs!TypeOK /\ VerdictIsFromItsCall /\ CallsFollowRules
    /\ [PlatformNext]_platformVars => CallsFollowRules'
<1> SUFFICES ASSUME TypeOK, GatewayProofs!TypeOK, VerdictIsFromItsCall, CallsFollowRules,
                    [PlatformNext]_platformVars
             PROVE  CallsFollowRules'
    OBVIOUS
<1> USE NoVerdicts DEF CallsFollowRules, ByTheRules
<1>1. CASE UNCHANGED platformVars
  BY <1>1 DEF platformVars, vars, requestVars, gatewayVars
<1>2. CASE Arrivals
  <2>1. UNCHANGED <<result, stage, subject, record, reply>>
    BY <1>2 DEF Arrivals, CreateDocument, Receive, RejectMalformedId, Crash, Answer, requestVars, gatewayVars
  <2>2. \A r \in Requests : target'[r] = target[r] \/ pc[r] = "idle"
    BY <1>2 DEF Arrivals, CreateDocument, Receive, RejectMalformedId, Crash, Answer, Goto,
                requestVars, TypeOK
  <2>3. \A r \in Requests : pc[r] = "idle" => result[r] \notin Gateway!Verdicts
    BY DEF VerdictIsFromItsCall
  <2> QED
    BY <2>1, <2>2, <2>3
<1>3. ASSUME NEW q \in Requests, EndpointStep(q)
      PROVE  CallsFollowRules'
  BY <1>3 DEF EndpointStep, ReadDocument, MarkProcessing, InsertStartEvent, PersistResult,
              InsertFinalEvent, NotifyBff, gatewayVars
<1>4. ASSUME NEW q \in Requests, TakeReply(q)
      PROVE  CallsFollowRules'
  <2>1. CheckOutcome(q) \in Gateway!Verdicts => CheckOutcome(q) = reply[q].status
    BY DEF CheckOutcome
  <2>2. subject[q] = target[q]
    BY <1>4 DEF VerdictIsFromItsCall, TakeReply
  <2> QED
    BY <1>4, <2>1, <2>2 DEF TakeReply, CheckReturns, gatewayVars, TypeOK
<1>5. ASSUME NEW q \in Requests, GatewayUnreachable(q) \/ LoseReply(q)
      PROVE  CallsFollowRules'
  BY ZenonT(30), <1>5 DEF GatewayUnreachable, LoseReply, CheckReturns, CheckEscapes, gatewayVars, TypeOK
<1>6. ASSUME NEW q \in Requests, SendCheck(q)
      PROVE  CallsFollowRules'
  BY <1>6 DEF SendCheck, Gateway!ReceiveCheck, Gateway!Enter, GatewayProofs!TypeOK, vars
<1>7. ASSUME NEW c \in Requests, MockAnswers(c)
      PROVE  CallsFollowRules'
  <2> DEFINE row == Gateway!RecordOf(Mock!Respond(subject[c], DocumentType[subject[c]], clock),
                                     subject[c], c)
  <2>1. subject[c] \in Documents
    BY <1>7 DEF MockAnswers, Gateway!TakeSoapReply, Gateway!Enter, GatewayProofs!TypeOK,
                GatewayProofs!Active
  <2>2. ByTheRules(subject[c], row.status)
    BY <2>1, MockFollowsRules
  <2>3. UNCHANGED <<target, result, subject, reply>> /\ record' = [record EXCEPT ![c] = row]
    BY <1>7 DEF MockAnswers, Gateway!TakeSoapReply, vars
  <2>4. stage' = [stage EXCEPT ![c] = "save"]
    BY <1>7 DEF MockAnswers, Gateway!TakeSoapReply, Gateway!Enter
  <2> HIDE DEF row
  <2> QED
    BY <2>2, <2>3, <2>4 DEF GatewayProofs!TypeOK
<1>8. ASSUME NEW c \in Requests, GatewayWorks(c)
      PROVE  CallsFollowRules'
  <2>1. UNCHANGED <<target, result, subject, record>>
    BY <1>8 DEF GatewayWorks, Gateway!GatewayStep, Gateway!NoSoapReply, Gateway!SaveCheck,
                Gateway!InsertEvent, vars
  <2>2. \A r \in Requests \ {c} : stage'[r] = stage[r] /\ reply'[r] = reply[r]
    BY <1>8 DEF GatewayWorks, Gateway!GatewayStep, Gateway!NoSoapReply, Gateway!SaveCheck,
                Gateway!InsertEvent, Gateway!Reply, Gateway!Enter, GatewayProofs!TypeOK
  <2>3. \/ stage[c] = "save" /\ stage'[c] = "event" /\ reply'[c] = reply[c]
        \/ stage'[c] = "answered" /\ reply'[c].status = None
        \/ stage[c] = "event" /\ stage'[c] = "answered" /\ reply'[c].status = record[c].status
    BY <1>8 DEF GatewayWorks, Gateway!GatewayStep, Gateway!NoSoapReply, Gateway!SaveCheck,
                Gateway!InsertEvent, Gateway!Reply, Gateway!Enter, GatewayProofs!TypeOK
  <2> QED
    BY <2>1, <2>2, <2>3
<1>9. CASE GatewayDies
  BY <1>9 DEF GatewayDies, Gateway!GatewayCrash, Gateway!Active, vars
<1>10. CASE TimePasses \/ \E d \in Documents : ReadDetail(d)
  BY <1>10 DEF TimePasses, Gateway!Tick, Gateway!callVars, ReadDetail, vars, gatewayVars
<1> QED
  BY <1>1, <1>2, <1>3, <1>4, <1>5, <1>6, <1>7, <1>8, <1>9, <1>10 DEF PlatformNext, ServicesNext, RequestStep

\* What is written about a document follows the rules when its run does.
LEMMA StoresFollowRulesStep ==
  TypeOK /\ CallsFollowRules /\ VerdictsMatchRules /\ [PlatformNext]_platformVars
    => VerdictsMatchRules'
<1> SUFFICES ASSUME TypeOK, CallsFollowRules, VerdictsMatchRules, [PlatformNext]_platformVars
             PROVE  VerdictsMatchRules'
    OBVIOUS
<1>1. StepSummary
  BY ProcessingStep, StepsAreSummarised
<1>2. \A q \in Requests : ByTheRules(target[q], FinalStatus(q))
  BY NoVerdicts DEF CallsFollowRules, FinalStatus, ByTheRules
<1>3. \A d \in Documents : ByTheRules(d, documents'[d].status)
  <2> TAKE d \in Documents
  <2>1. RowMove(d)
    BY <1>1 DEF StepSummary
  <2>2. \/ documents'[d] = documents[d]
        \/ documents'[d].status \in {"UPLOADED", "PROCESSING"}
        \/ \E q \in Requests : target[q] = d /\ documents'[d].status = FinalStatus(q)
    <3>1. \/ documents'[d] = documents[d]
          \/ documents'[d] \in {[status |-> s, processed_at |-> None] : s \in {"UPLOADED", "PROCESSING"}}
          \/ \E q \in Requests :
               target[q] = d /\ documents'[d] = [status |-> FinalStatus(q), processed_at |-> q]
      BY <2>1 DEF RowMove
    <3>2. ASSUME NEW q \in Requests, documents'[d] = [status |-> FinalStatus(q), processed_at |-> q]
          PROVE  documents'[d].status = FinalStatus(q)
      BY <3>2
    <3>3. ASSUME documents'[d] \in {[status |-> s, processed_at |-> None] : s \in {"UPLOADED", "PROCESSING"}}
          PROVE  documents'[d].status \in {"UPLOADED", "PROCESSING"}
      BY <3>3
    <3> QED
      BY <3>1, <3>2, <3>3, Zenon
  <2>3. ByTheRules(d, documents[d].status)
    BY DEF VerdictsMatchRules
  <2>4. ByTheRules(d, "UPLOADED") /\ ByTheRules(d, "PROCESSING")
    BY NoVerdicts, NoVerdictFollowsRules
  <2> QED
    BY <1>2, <2>2, <2>3, <2>4
<1>4. \A q \in Requests : /\ ByTheRules(Event(q, FinalStatus(q)).document_id, Event(q, FinalStatus(q)).status)
                         /\ ByTheRules(Event(q, "PROCESSING").document_id, Event(q, "PROCESSING").status)
  BY <1>2, NoVerdicts, NoVerdictFollowsRules DEF Event
<1> DEFINE Sound(log) == \A i \in DOMAIN log : ByTheRules(log[i].document_id, log[i].status)
<1>5. ASSUME NEW log, log \in Seq(Events), Sound(log), NEW e, ByTheRules(e.document_id, e.status)
      PROVE  Sound(Append(log, e))
  BY <1>5, AppendProperties
<1>6. Sound(processing_events) /\ Sound(webhooks)
  BY DEF VerdictsMatchRules
<1>7. processing_events \in Seq(Events) /\ webhooks \in Seq(Events)
  BY DEF TypeOK
<1> HIDE DEF Sound
<1>8. Sound(processing_events')
  BY <1>1, <1>4, <1>5, <1>6, <1>7 DEF StepSummary, LogMove
<1>9. Sound(webhooks')
  BY <1>1, <1>4, <1>5, <1>6, <1>7 DEF StepSummary, WebhookMove
<1> QED
  BY <1>3, <1>8, <1>9 DEF Sound, VerdictsMatchRules, ByTheRules

\* No failure, overlap or retry makes a document COMPLIANT or NON_COMPLIANT, or
\* lets anybody hear that it is, against the rules for its type.
THEOREM VerdictsFollowRules == PlatformSpec => []VerdictsMatchRules
<1>1. PlatformInit => CallsFollowRules /\ VerdictsMatchRules
  BY NoVerdicts DEF PlatformInit, Init, Gateway!GatewayInit, CallsFollowRules, VerdictsMatchRules, ByTheRules
<1>2. CallsFollowRules /\ VerdictsMatchRules /\ TypeOK /\ GatewayProofs!TypeOK /\ VerdictIsFromItsCall
        /\ [PlatformNext]_platformVars => CallsFollowRules' /\ VerdictsMatchRules'
  BY CallsFollowRulesStep, StoresFollowRulesStep
<1> QED
  BY <1>1, <1>2, TypesOfPlatform, CallInvariance, PTL DEF PlatformSpec

-----------------------------------------------------------------------------
(* The latest check of a document, and the reader of its detail.           *)

LEMMA SameLatest ==
  ASSUME NEW d
  PROVE  Gateway!ChecksOf(d) = GatewayProofs!ChecksOf(d) /\ Gateway!Latest(d) = GatewayProofs!Latest(d)
BY DEF Gateway!Latest, GatewayProofs!Latest, Gateway!ChecksOf, GatewayProofs!ChecksOf,
       Gateway!Supersedes, GatewayProofs!Supersedes

LEMMA SameTypes ==
  /\ Gateway!CheckRows = GatewayProofs!CheckRows
  /\ Gateway!TypeOK <=> GatewayProofs!TypeOK
BY DEF Gateway!TypeOK, GatewayProofs!TypeOK, Gateway!CheckRows, GatewayProofs!CheckRows,
       Gateway!CheckEvents, GatewayProofs!CheckEvents, Gateway!Replies, GatewayProofs!Replies,
       Gateway!SoapReplies, GatewayProofs!SoapReplies, Gateway!Verdicts, GatewayProofs!Verdicts,
       Gateway!Times, GatewayProofs!Times, Gateway!Active, GatewayProofs!Active

\* What get_latest_compliance returns is as new as any check of the document.
LEMMA LatestCheckIsNewest ==
  ASSUME GatewayProofs!TypeOK, NEW d, NEW i \in Gateway!ChecksOf(d)
  PROVE  /\ LatestCheck(d) \in Gateway!CheckRows /\ LatestCheck(d) # None
         /\ LatestCheck(d).checked_at >= compliance_checks[i].checked_at
<1>1. compliance_checks \in Seq(GatewayProofs!CheckRows)
  BY DEF GatewayProofs!TypeOK
<1>2. i \in GatewayProofs!ChecksOf(d)
  BY SameLatest
<1>3. PICK l : l = Gateway!Latest(d)
  OBVIOUS
<1>4. l \in GatewayProofs!ChecksOf(d) /\ l # 0 /\ GatewayProofs!Supersedes(l, i)
  BY <1>1, <1>2, <1>3, SameLatest, GatewayAssumptions, GatewayProofs!LatestSupersedes
<1>5. LatestCheck(d) = compliance_checks[l]
  BY <1>3, <1>4 DEF LatestCheck, Gateway!compliance_status
<1>6. l \in 1..Len(compliance_checks) /\ i \in 1..Len(compliance_checks)
  BY <1>1, <1>2, <1>4, LenProperties DEF GatewayProofs!ChecksOf
<1>7. compliance_checks[l] \in GatewayProofs!CheckRows /\ compliance_checks[i] \in GatewayProofs!CheckRows
  BY <1>1, <1>6, ElementOfSeq
<1>8. compliance_checks[l].checked_at \in Nat /\ compliance_checks[i].checked_at \in Nat
  BY <1>7, GatewayAssumptions DEF GatewayProofs!CheckRows, GatewayProofs!Times
<1>9. compliance_checks[l].checked_at >= compliance_checks[i].checked_at
  BY <1>4, <1>8 DEF GatewayProofs!Supersedes
<1> QED
  BY <1>5, <1>7, <1>9, SameTypes, GatewayIsConfigured

LEMMA LatestCheckIsTyped ==
  ASSUME GatewayProofs!TypeOK, NEW d
  PROVE  LatestCheck(d) \in Gateway!CheckRows \cup {None}
<1>1. CASE Gateway!ChecksOf(d) = {}
  BY <1>1 DEF LatestCheck, Gateway!compliance_status, Gateway!Latest
<1>2. CASE Gateway!ChecksOf(d) # {}
  BY <1>2, LatestCheckIsNewest
<1> QED
  BY <1>1, <1>2

\* The reader is a record, and holds what PostgreSQL returned.
DetailTyped ==
  /\ detail \in [stage : {"idle", "row read", "done"}, document_id : Documents \cup {None},
                row : Rows \cup {None}, check : Gateway!CheckRows \cup {None}]
  /\ detail.stage # "idle" => detail.document_id \in known /\ detail.row \in Rows

\* A verdict the reader has read rests on a check, and a check read after it is
\* no older.
RowIsBacked ==
  detail.stage # "idle" /\ detail.row.status \in Gateway!Verdicts =>
    \E i \in Gateway!ChecksOf(detail.document_id) :
      /\ RestsOn(detail.row, i)
      /\ detail.stage = "done" =>
           /\ detail.check # None
           /\ detail.check.checked_at >= compliance_checks[i].checked_at

\* Only the reader's own steps change what it holds.
LEMMA DetailMoves ==
  ASSUME [PlatformNext]_platformVars
  PROVE  detail' = detail \/ \E d \in Documents : ReadDetail(d)
BY DEF PlatformNext, ServicesNext, RequestStep, Arrivals, EndpointStep, SendCheck, TakeReply,
       GatewayUnreachable, LoseReply, MockAnswers, GatewayWorks, GatewayDies, TimePasses, platformVars

LEMMA DetailTypedStep ==
  ASSUME TypeOK, GatewayProofs!TypeOK, DetailTyped, [PlatformNext]_platformVars
  PROVE  DetailTyped'
<1>1. known \subseteq known'
  BY ProcessingStep, EndpointWritesOneRow, KnownGrowsByOne
<1>2. CASE detail' = detail
  <2>1. UNCHANGED Gateway!CheckRows
    BY DEF Gateway!CheckRows, Gateway!SoapReplies, Gateway!Times, Gateway!Verdicts
  <2> QED
    BY <1>1, <1>2, <2>1 DEF DetailTyped
<1>3. ASSUME NEW d \in Documents, ReadDetail(d)
      PROVE  DetailTyped'
  <2>1. LatestCheck(d) \in Gateway!CheckRows \cup {None} /\ documents[d] \in Rows
    BY LatestCheckIsTyped DEF TypeOK
  <2>2. CASE /\ documents[d].status # "ABSENT"
             /\ detail' = [stage |-> "row read", document_id |-> d, row |-> documents[d], check |-> None]
    <3>1. d \in known
      BY <2>2 DEF known
    <3> QED
      BY <1>1, <2>1, <2>2, <3>1 DEF DetailTyped
  <2>3. CASE /\ detail.stage = "row read"
             /\ detail' = [detail EXCEPT !.stage = "done", !.check = LatestCheck(d)]
    BY <1>1, <2>1, <2>3 DEF DetailTyped
  <2> QED
    BY <1>3, <2>2, <2>3 DEF ReadDetail
<1> QED
  BY <1>2, <1>3, DetailMoves

LEMMA DetailInvariance == PlatformSpec => []DetailTyped
<1>1. PlatformInit => DetailTyped
  BY DEF PlatformInit, NoDetail, DetailTyped
<1> QED
  BY <1>1, DetailTypedStep, TypesOfPlatform, PTL DEF PlatformSpec

\* Every reachable state of the composition is well typed, the reader's included.
THEOREM PlatformTypeCorrect == PlatformSpec => []PlatformTypeOK
<1>1. TypeOK /\ GatewayProofs!TypeOK /\ DetailTyped => PlatformTypeOK
  BY SameTypes DEF DetailTyped, PlatformTypeOK
<1> QED
  BY <1>1, TypesOfPlatform, DetailInvariance, PTL

LEMMA RowIsBackedStep ==
  ASSUME TypeOK, GatewayProofs!TypeOK, DetailTyped, VerdictHasCheck, RowIsBacked,
         [PlatformNext]_platformVars
  PROVE  RowIsBacked'
<1>1. /\ DOMAIN compliance_checks \subseteq DOMAIN compliance_checks'
      /\ \A i \in DOMAIN compliance_checks : compliance_checks'[i] = compliance_checks[i]
  BY CallMoves, GatewayAssumptions, GatewayProofs!ChecksGrow DEF GatewayProofs!StepSummary
<1>2. CASE detail' = detail
  BY <1>1, <1>2 DEF RowIsBacked, RestsOn, Gateway!ChecksOf, Gateway!Verdicts
<1>3. ASSUME NEW d \in Documents, ReadDetail(d)
      PROVE  RowIsBacked'
  <2>1. compliance_checks' = compliance_checks
    BY <1>3 DEF ReadDetail, gatewayVars
  <2>2. CASE /\ detail.stage = "idle"
             /\ detail' = [stage |-> "row read", document_id |-> d, row |-> documents[d], check |-> None]
    BY <2>1, <2>2 DEF VerdictHasCheck, RowIsBacked, RestsOn, Gateway!ChecksOf, Gateway!Verdicts
  <2>3. CASE /\ detail.stage = "row read" /\ detail.document_id = d
             /\ detail' = [detail EXCEPT !.stage = "done", !.check = LatestCheck(d)]
    <3>1. /\ detail'.stage = "done" /\ detail'.row = detail.row
          /\ detail'.document_id = d /\ detail'.check = LatestCheck(d)
      BY <2>3 DEF DetailTyped
    <3>2. ASSUME detail.row.status \in Gateway!Verdicts
          PROVE  \E i \in Gateway!ChecksOf(d) :
                   /\ RestsOn(detail.row, i)
                   /\ LatestCheck(d) # None
                   /\ LatestCheck(d).checked_at >= compliance_checks[i].checked_at
      <4>1. PICK i \in Gateway!ChecksOf(d) : RestsOn(detail.row, i)
        BY <2>3, <3>2 DEF RowIsBacked
      <4> QED
        BY <4>1, LatestCheckIsNewest
    <3> QED
      BY <2>1, <3>1, <3>2 DEF RowIsBacked, RestsOn, Gateway!ChecksOf, Gateway!Verdicts
  <2> QED
    BY <1>3, <2>2, <2>3 DEF ReadDetail
<1> QED
  BY <1>2, <1>3, DetailMoves

\* GET /documents/{id} reads the row and its latest check in two transactions,
\* and whatever happens between them never shows a verdict without its check.
THEOREM DetailsAreCoherent == PlatformSpec => []DetailIsCoherent
<1>1. PlatformInit => RowIsBacked
  BY DEF PlatformInit, NoDetail, RowIsBacked
<1>2. RowIsBacked => DetailIsCoherent
  BY DEF RowIsBacked, DetailIsCoherent
<1> QED
  BY <1>1, <1>2, RowIsBackedStep, TypesOfPlatform, DetailInvariance, VerdictsHaveChecks, PTL
     DEF PlatformSpec

-----------------------------------------------------------------------------
(* Clients that wait: the verdict and the latest check are of the same run. *)

\* Only a run that is at its check has a call made; past it, the call goes on
\* alone.
CallsComeFromChecks ==
  \A r \in Requests :
    stage[r] # "idle" => pc[r] \in {"gateway", "persist", "final_event", "notify", "answered", "lost"}

\* While clients wait, a call that is under way belongs to the run at work on its
\* document, or to one that gave up and left it PROCESSING, which no other run
\* gets past.
CallsHoldTheRow ==
  \A q \in Requests :
    stage[q] \in Gateway!Active =>
      \/ pc[q] = "gateway"
      \/ /\ pc[q] \in {"answered", "lost"}
         /\ documents[target[q]].status = "PROCESSING"
         /\ \A r \in Requests \ {q} :
              target[r] = target[q] =>
                /\ pc[r] \notin {"mark", "start_event", "gateway", "persist"}
                /\ stage[r] \notin Gateway!Active

\* No check is from the future, and one about to be saved is the newest yet.
ChecksArePast ==
  /\ \A i \in DOMAIN compliance_checks : compliance_checks[i].checked_at <= clock
  /\ \A c \in Requests : stage[c] = "save" =>
       /\ record[c].checked_at <= clock
       /\ \A i \in Gateway!ChecksOf(subject[c]) :
            compliance_checks[i].checked_at <= record[c].checked_at

\* A reply tells the status of the record it is about.
RepliesTellTheRecord ==
  \A c \in Requests :
    reply[c] # None /\ reply[c].status # None =>
      record[c].status = reply[c].status /\ record[c].check_id = c

\* From the moment its check is saved until its verdict is overwritten, no other
\* check of the document supersedes that of the run.
Current(r) ==
  \/ stage[r] = "event"
  \/ pc[r] = "gateway" /\ stage[r] = "answered" /\ reply[r].status # None
  \/ pc[r] = "persist" /\ result[r] \in Gateway!Verdicts
  \/ \E d \in Documents :
       documents[d].processed_at = r /\ documents[d].status \in Gateway!Verdicts

CurrentIsLatest ==
  \A r \in Requests, d \in Documents :
    Current(r) /\ subject[r] = d =>
      Gateway!Latest(d) # 0 /\ compliance_checks[Gateway!Latest(d)] = record[r]

\* How a step ties a request and its call.
LinkMove(r) ==
  /\ stage[r] = "idle" /\ stage'[r] # "idle" => pc[r] = "gateway" /\ stage'[r] = "upstream"
  /\ pc[r] = "read" /\ pc'[r] = "mark" => documents[target[r]].status # "PROCESSING"
  /\ pc[r] = "gateway" /\ pc'[r] = "persist" => stage[r] \in {"idle", "answered"}
  /\ stage[r] = "upstream" /\ stage'[r] = "save" => record'[r].checked_at = clock

LEMMA MockChecksNow ==
  ASSUME NEW d, NEW c, NEW type
  PROVE  Gateway!RecordOf(Mock!Respond(d, type, clock), d, c).checked_at = clock
BY DEF Gateway!RecordOf, Gateway!Acceptable, Mock!Respond, Mock!Result, Mock!Fault

LEMMA StepsAreLinked ==
  ASSUME TypeOK, GatewayProofs!TypeOK, [PlatformNext]_platformVars
  PROVE  clock <= clock' /\ \A r \in Requests : LinkMove(r)
<1>0. clock \in Nat
  BY GatewayAssumptions DEF GatewayProofs!TypeOK, GatewayProofs!Times
<1> DEFINE Linked == clock <= clock' /\ \A r \in Requests : LinkMove(r)
<1>q. ASSUME UNCHANGED <<clock, pc, stage>> PROVE Linked
  BY <1>0, <1>q DEF LinkMove
<1>1. CASE UNCHANGED platformVars
  <2>1. UNCHANGED <<clock, pc, stage>>
    BY <1>1 DEF platformVars, vars, gatewayVars
  <2> QED
    BY <2>1, <1>q
<1>2. CASE Arrivals
  BY <1>0, <1>2 DEF LinkMove, Arrivals, CreateDocument, Receive, RejectMalformedId, Crash, Answer, Goto, requestVars,
              gatewayVars, TypeOK
<1>3. ASSUME NEW q \in Requests, EndpointStep(q)
      PROVE  Linked
  <2>1. UNCHANGED <<clock, stage>>
    BY <1>3 DEF EndpointStep, gatewayVars
  <2>2. ASSUME NEW r \in Requests, pc[r] = "read", pc'[r] = "mark"
        PROVE  documents[target[r]].status # "PROCESSING"
    BY <1>3, <2>2 DEF EndpointStep, ReadDocument, MarkProcessing, InsertStartEvent, PersistResult,
                      InsertFinalEvent, NotifyBff, Answer, Goto, TypeOK
  <2>3. ASSUME NEW r \in Requests, pc[r] = "gateway"
        PROVE  pc'[r] # "persist"
    BY <1>3, <2>3 DEF EndpointStep, ReadDocument, MarkProcessing, InsertStartEvent, PersistResult,
                      InsertFinalEvent, NotifyBff, Answer, Goto, TypeOK
  <2> QED
    BY <1>0, <2>1, <2>2, <2>3 DEF LinkMove
<1>4. ASSUME NEW q \in Requests, TakeReply(q)
      PROVE  Linked
  BY <1>0, <1>4 DEF LinkMove, TakeReply, CheckReturns, Goto, gatewayVars, TypeOK
<1>5. ASSUME NEW q \in Requests, GatewayUnreachable(q) \/ LoseReply(q)
      PROVE  Linked
  <2>1. UNCHANGED <<clock, stage>>
    BY <1>5 DEF GatewayUnreachable, LoseReply, gatewayVars
  <2>2. \/ stage[q] = "idle" /\ pc' = [pc EXCEPT ![q] = "persist"]
        \/ pc' = [pc EXCEPT ![q] = "answered"]
    BY <1>5 DEF GatewayUnreachable, LoseReply, CheckReturns, CheckEscapes, Answer, Goto
  <2> QED
    BY <1>0, <2>1, <2>2 DEF LinkMove, TypeOK
<1>6. ASSUME NEW q \in Requests, SendCheck(q)
      PROVE  Linked
  BY <1>0, <1>6 DEF LinkMove, SendCheck, Gateway!ReceiveCheck, Gateway!Enter, GatewayProofs!TypeOK, vars
<1>7. ASSUME NEW c \in Requests, MockAnswers(c)
      PROVE  Linked
  <2> DEFINE row == Gateway!RecordOf(Mock!Respond(subject[c], DocumentType[subject[c]], clock),
                                     subject[c], c)
  <2>1. row.checked_at = clock
    BY MockChecksNow
  <2>2. UNCHANGED <<pc, clock>> /\ record' = [record EXCEPT ![c] = row]
    BY <1>7 DEF MockAnswers, Gateway!TakeSoapReply, vars
  <2>3. stage' = [stage EXCEPT ![c] = "save"] /\ stage[c] = "upstream"
    BY <1>7 DEF MockAnswers, Gateway!TakeSoapReply, Gateway!Enter
  <2> HIDE DEF row
  <2> QED
    BY <1>0, <2>1, <2>2, <2>3 DEF LinkMove, GatewayProofs!TypeOK
<1>8. ASSUME NEW c \in Requests, GatewayWorks(c)
      PROVE  Linked
  <2>1. UNCHANGED <<pc, clock, record>>
    BY <1>8 DEF GatewayWorks, Gateway!GatewayStep, Gateway!NoSoapReply, Gateway!SaveCheck,
                Gateway!InsertEvent, vars
  <2>2. stage[c] \in {"upstream", "save", "event"} /\ stage'[c] \in {"event", "answered"}
    BY <1>8 DEF GatewayWorks, Gateway!GatewayStep, Gateway!NoSoapReply, Gateway!SaveCheck,
                Gateway!InsertEvent, Gateway!Reply, Gateway!Enter, GatewayProofs!TypeOK
  <2>3. \A r \in Requests \ {c} : stage'[r] = stage[r]
    BY <1>8 DEF GatewayWorks, Gateway!GatewayStep, Gateway!NoSoapReply, Gateway!SaveCheck,
                Gateway!InsertEvent, Gateway!Reply, Gateway!Enter, GatewayProofs!TypeOK
  <2> QED
    BY <1>0, <2>1, <2>2, <2>3 DEF LinkMove
<1>9. CASE GatewayDies
  BY <1>0, <1>9 DEF LinkMove, GatewayDies, Gateway!GatewayCrash, Gateway!Active, vars
<1>10. CASE TimePasses
  BY <1>0, <1>10 DEF LinkMove, TimePasses, Gateway!Tick, Gateway!callVars, vars
<1>11. CASE \E d \in Documents : ReadDetail(d)
  <2>1. UNCHANGED <<clock, pc, stage>>
    BY <1>11 DEF ReadDetail, vars, gatewayVars
  <2> QED
    BY <2>1, <1>q
<1> QED
  BY <1>1, <1>2, <1>3, <1>4, <1>5, <1>6, <1>7, <1>8, <1>9, <1>10, <1>11 DEF PlatformNext, ServicesNext, RequestStep

LEMMA CallsComeFromChecksStep ==
  ASSUME TypeOK, GatewayProofs!TypeOK, CallsComeFromChecks, [PlatformNext]_platformVars
  PROVE  CallsComeFromChecks'
<1> SUFFICES ASSUME NEW r \in Requests, stage'[r] # "idle"
             PROVE  pc'[r] \in {"gateway", "persist", "final_event", "notify", "answered", "lost"}
  BY DEF CallsComeFromChecks
<1>1. RequestMove(r) /\ LinkMove(r)
  BY ProcessingStep, StepsAreSummarised, StepsAreLinked DEF StepSummary
<1>2. pc[r] \in {"gateway", "persist", "final_event", "notify", "answered", "lost"}
  BY <1>1 DEF LinkMove, CallsComeFromChecks
<1> QED
  BY <1>1, <1>2 DEF RequestMove

\* No call starts its check while another one of its document is under way.
LEMMA CallIsAlone ==
  ASSUME ClientsWait, Waiting, VerdictIsFromItsCall, CallsHoldTheRow,
         NEW q \in Requests, NEW r \in Requests, q # r, target[q] = target[r],
         stage[q] \in Gateway!Active
  PROVE  stage[r] \notin Gateway!Active /\ pc[r] # "gateway"
BY DEF Waiting, InFlight, Working, CallsHoldTheRow

LEMMA CallsHoldTheRowStep ==
  ASSUME ClientsWait, IInv, GatewayProofs!TypeOK, Waiting, SerialInv, VerdictIsFromItsCall,
         VerdictIsFromItsCall', CallsComeFromChecks, CallsHoldTheRow, [PlatformNext]_platformVars
  PROVE  CallsHoldTheRow'
<1> USE DEF Gateway!Active
<1> SUFFICES ASSUME NEW q \in Requests, stage'[q] \in Gateway!Active
             PROVE  \/ pc'[q] = "gateway"
                    \/ /\ pc'[q] \in {"answered", "lost"}
                       /\ documents'[target'[q]].status = "PROCESSING"
                       /\ \A r \in Requests \ {q} :
                            target'[r] = target'[q] =>
                              /\ pc'[r] \notin {"mark", "start_event", "gateway", "persist"}
                              /\ stage'[r] \notin Gateway!Active
  BY DEF CallsHoldTheRow
<1>1. TypeOK /\ StepSummary /\ (UNCHANGED gatewayVars \/ UNCHANGED vars)
  BY ProcessingStep, StepsAreSummarised, GatewaySteps DEF IInv
<1>2. \A r \in Requests : /\ RequestMove(r) /\ LinkMove(r)
                          /\ GatewayProofs!CallMove(r)
  BY <1>1, StepsAreLinked, CallMoves DEF StepSummary, GatewayProofs!StepSummary
<1>3. CASE stage[q] = "idle"
  <2>1. pc[q] = "gateway" /\ stage'[q] # stage[q]
    BY <1>2, <1>3 DEF LinkMove
  <2> QED
    BY <1>1, <2>1 DEF gatewayVars, vars
<1>4. CASE stage[q] # "idle"
  <2>1. stage[q] \in Gateway!Active
    BY <1>2, <1>4 DEF GatewayProofs!CallMove
  <2>2. CASE pc'[q] = "gateway"
    BY <2>2
  <2>3. CASE pc'[q] # "gateway"
    <3>1. pc'[q] \in {"answered", "lost"} /\ pc[q] \in {"gateway", "answered", "lost"}
      <4>1. CASE pc[q] = "gateway"
        BY <1>2, <2>1, <2>3, <4>1 DEF RequestMove, LinkMove
      <4>2. CASE pc[q] \in {"answered", "lost"}
        BY <1>2, <4>2 DEF RequestMove, Working
      <4> QED
        BY <2>1, <4>1, <4>2 DEF CallsHoldTheRow
    <3>2. target'[q] = target[q] /\ target[q] = subject[q] /\ subject[q] \in Documents
      BY <1>2, <2>1, <3>1 DEF RequestMove, VerdictIsFromItsCall, GatewayProofs!TypeOK, GatewayProofs!Active
    <3>3. PICK d \in Documents : d = target[q]
      BY <3>2
    <3>4. documents[d].status = "PROCESSING"
      BY <2>1, <3>1, <3>3 DEF CallsHoldTheRow, SerialInv, RunsHoldTheRow
    <3>5. ASSUME NEW r \in Requests, r # q, target[r] = d
          PROVE  /\ pc[r] \notin {"mark", "start_event", "gateway", "persist"}
                 /\ stage[r] \notin Gateway!Active
      <4>1. CASE pc[q] = "gateway"
        <5>1. ~InFlight(r) /\ stage[r] \notin Gateway!Active
          BY <3>3, <3>5, <4>1, <2>1, CallIsAlone DEF Waiting, InFlight, Working
        <5> QED
          BY <5>1 DEF InFlight, Working
      <4>2. CASE pc[q] # "gateway"
        BY <2>1, <3>3, <3>5, <4>2 DEF CallsHoldTheRow
      <4> QED
        BY <4>1, <4>2
    <3>6. documents'[d].status = "PROCESSING"
      <4>1. RowMove(d)
        BY <1>1 DEF StepSummary
      <4>2. pc[q] \notin {"mark", "persist"}
        BY <3>1
      <4>3. ~ \E s \in Requests : pc[s] \in {"mark", "persist"} /\ target[s] = d
        BY <3>5, <4>2
      <4> QED
        BY <3>4, <4>1, <4>3 DEF RowMove
    <3>7. ASSUME NEW r \in Requests, r # q, target'[r] = d
          PROVE  /\ pc'[r] \notin {"mark", "start_event", "gateway", "persist"}
                 /\ stage'[r] \notin Gateway!Active
      <4>1. CASE pc[r] = "idle"
        <5>1. pc'[r] \in {"idle", "read", "answered"}
          BY <1>2, <4>1 DEF RequestMove, Working
        <5>2. stage[r] = "idle"
          BY <4>1 DEF VerdictIsFromItsCall
        <5>3. stage'[r] = "idle"
          BY <1>2, <4>1, <5>2 DEF LinkMove
        <5> QED
          BY <5>1, <5>3
      <4>2. CASE pc[r] # "idle"
        <5>1. target[r] = d
          BY <1>2, <3>7, <4>2 DEF RequestMove
        <5>2. /\ pc[r] \notin {"mark", "start_event", "gateway", "persist"}
              /\ stage[r] \notin Gateway!Active
          BY <3>5, <3>7, <5>1
        <5>3. ~(pc[r] = "read" /\ pc'[r] = "mark")
          BY <1>2, <3>4, <5>1 DEF LinkMove
        <5>4. pc'[r] \notin {"mark", "start_event", "gateway", "persist"}
          BY <1>2, <4>2, <5>2, <5>3 DEF RequestMove, Working
        <5>5. stage'[r] \notin Gateway!Active
          BY <1>2, <5>2 DEF LinkMove, GatewayProofs!CallMove, GatewayProofs!TypeOK
        <5> QED
          BY <5>4, <5>5
      <4> QED
        BY <4>1, <4>2
    <3> QED
      BY <3>1, <3>2, <3>3, <3>6, <3>7
  <2> QED
    BY <2>2, <2>3
<1> QED
  BY <1>3, <1>4

LEMMA ChecksHaveTimes ==
  ASSUME GatewayProofs!TypeOK
  PROVE  /\ clock \in Nat
         /\ \A i \in DOMAIN compliance_checks : compliance_checks[i].checked_at \in Nat
         /\ \A c \in Requests : stage[c] = "save" => record[c].checked_at \in Nat
<1>1. \A i \in DOMAIN compliance_checks : compliance_checks[i] \in GatewayProofs!CheckRows
  BY DEF GatewayProofs!TypeOK
<1>2. \A c \in Requests : stage[c] = "save" => record[c] \in GatewayProofs!CheckRows
  BY DEF GatewayProofs!TypeOK
<1> QED
  BY <1>1, <1>2, GatewayAssumptions DEF GatewayProofs!TypeOK, GatewayProofs!CheckRows, GatewayProofs!Times

LEMMA ChecksArePastStep ==
  ASSUME ClientsWait, GatewayProofs!IInv, GatewayProofs!TypeOK', TypeOK, Waiting,
         VerdictIsFromItsCall, CallsHoldTheRow, ChecksArePast, [PlatformNext]_platformVars
  PROVE  ChecksArePast'
<1>1. GatewayProofs!TypeOK /\ GatewayProofs!RecordsAreSound
  BY DEF GatewayProofs!IInv
<1>2. GatewayProofs!StepSummary
  BY <1>1, CallMoves
<1>3. clock <= clock' /\ clock \in Nat /\ clock' \in Nat
  BY <1>1, StepsAreLinked, GatewayAssumptions DEF GatewayProofs!TypeOK, GatewayProofs!Times
<1>4. ASSUME NEW i \in DOMAIN compliance_checks'
      PROVE  \/ i \in DOMAIN compliance_checks /\ compliance_checks'[i] = compliance_checks[i]
             \/ \E c \in Requests : stage[c] = "save" /\ compliance_checks'[i] = record[c]
  BY <1>1, <1>2, <1>4, GatewayAssumptions, GatewayProofs!NewChecks DEF GatewayProofs!StepSummary
<1>5. ASSUME NEW i \in DOMAIN compliance_checks'
      PROVE  compliance_checks'[i].checked_at <= clock /\ compliance_checks'[i].checked_at \in Nat
  BY <1>1, <1>4, <1>5, ChecksHaveTimes DEF ChecksArePast
<1>6. ASSUME NEW i \in DOMAIN compliance_checks'
      PROVE  compliance_checks'[i].checked_at <= clock'
  BY <1>3, <1>5
<1>7. ASSUME NEW c \in Requests, stage'[c] = "save"
      PROVE  /\ record'[c].checked_at <= clock'
             /\ \A i \in DOMAIN compliance_checks' :
                  compliance_checks'[i].document_id = subject'[c] =>
                    compliance_checks'[i].checked_at <= record'[c].checked_at
  <2>1. GatewayProofs!CallMove(c) /\ LinkMove(c)
    BY <1>1, <1>2, StepsAreLinked DEF GatewayProofs!StepSummary
  <2>2. CASE stage[c] = "upstream"
    <3>1. record'[c].checked_at = clock
      BY <1>7, <2>1, <2>2 DEF LinkMove
    <3> QED
      BY <1>3, <1>5, <3>1
  <2>3. CASE stage[c] = "save"
    <3>1. record'[c] = record[c] /\ subject'[c] = subject[c] /\ record[c].checked_at \in Nat
      BY <1>1, <2>1, <2>3, ChecksHaveTimes DEF GatewayProofs!CallMove
    <3>2. record[c].checked_at <= clock
      BY <2>3 DEF ChecksArePast
    <3>3. ASSUME NEW i \in DOMAIN compliance_checks', compliance_checks'[i].document_id = subject[c]
          PROVE  compliance_checks'[i].checked_at <= record[c].checked_at
      <4>1. CASE i \in DOMAIN compliance_checks /\ compliance_checks'[i] = compliance_checks[i]
        BY <2>3, <3>3, <4>1 DEF ChecksArePast, Gateway!ChecksOf
      <4>2. ASSUME NEW s \in Requests, stage[s] = "save", compliance_checks'[i] = record[s]
            PROVE  compliance_checks'[i].checked_at <= record[c].checked_at
        <5>1. subject[s] = subject[c]
          BY <1>1, <3>3, <4>2 DEF GatewayProofs!RecordsAreSound
        <5>2. s = c
          BY <2>3, <4>2, <5>1, CallIsAlone DEF VerdictIsFromItsCall, Gateway!Active
        <5> QED
          BY <3>1, <4>2, <5>2
      <4> QED
        BY <1>4, <4>1, <4>2
    <3> QED
      BY <1>3, <3>1, <3>2, <3>3
  <2> QED
    BY <1>7, <2>1, <2>2, <2>3 DEF GatewayProofs!CallMove
<1> QED
  BY <1>6, <1>7 DEF ChecksArePast, Gateway!ChecksOf

LEMMA RepliesTellTheRecordStep ==
  ASSUME TypeOK, GatewayProofs!IInv, RepliesTellTheRecord, [PlatformNext]_platformVars
  PROVE  RepliesTellTheRecord'
<1> SUFFICES ASSUME NEW c \in Requests, reply'[c] # None, reply'[c].status # None
             PROVE  record'[c].status = reply'[c].status /\ record'[c].check_id = c
  BY DEF RepliesTellTheRecord
<1>1. GatewayProofs!CallMove(c)
  BY CallMoves DEF GatewayProofs!IInv, GatewayProofs!StepSummary
<1>2. CASE reply'[c] = reply[c]
  <2>1. stage[c] = "answered"
    BY <1>2 DEF GatewayProofs!IInv, GatewayProofs!RepliesAreLast
  <2> QED
    BY <1>1, <1>2, <2>1 DEF GatewayProofs!CallMove, RepliesTellTheRecord
<1>3. CASE reply'[c] # reply[c]
  BY <1>1, <1>3 DEF GatewayProofs!CallMove, GatewayProofs!IInv, GatewayProofs!RecordsAreSound
<1> QED
  BY <1>2, <1>3

LEMMA SameLatestNext ==
  ASSUME NEW d
  PROVE  (Gateway!Latest(d) = GatewayProofs!Latest(d))'
<1>1. Gateway!Latest(d) = GatewayProofs!Latest(d)
  BY SameLatest
<1> QED
  BY <1>1, PTL

\* A run that is current has been answered or is about to be, and no other call
\* of its document is under way.
LEMMA CurrentIsAlone ==
  ASSUME ClientsWait, IInv, GatewayProofs!TypeOK, Waiting, SerialInv, VerdictIsFromItsCall,
         CallsHoldTheRow, NEW r \in Requests, Current(r)
  PROVE  /\ stage[r] \in {"event", "answered"}
         /\ \A c \in Requests \ {r} : stage[c] = "save" => subject[c] # subject[r]
<1>1. stage[r] \in {"event", "answered"}
  <2>1. ASSUME NEW d \in Documents, documents[d].processed_at = r,
               documents[d].status \in Gateway!Verdicts
        PROVE  result[r] \in Gateway!Verdicts
    BY <2>1 DEF IInv, FinalStatusIsExplained, Explains, FinalStatus, Gateway!Verdicts
  <2> QED
    BY <2>1 DEF Current, VerdictIsFromItsCall
<1>2. ASSUME NEW c \in Requests, c # r, stage[c] = "save", subject[c] = subject[r]
      PROVE  FALSE
  <2>1. target[c] = target[r]
    BY <1>1, <1>2 DEF VerdictIsFromItsCall
  <2>2. stage[r] = "answered" /\ pc[r] # "gateway"
    BY <1>1, <1>2, <2>1, CallIsAlone DEF Gateway!Active
  <2>3. CASE pc[r] = "persist"
    BY <1>2, <2>1, <2>3 DEF CallsHoldTheRow, Waiting, InFlight, Working, Gateway!Active
  <2>4. ASSUME NEW d \in Documents, documents[d].processed_at = r,
               documents[d].status \in Gateway!Verdicts
        PROVE  FALSE
    <3>1. target[c] = d
      BY <2>1, <2>4 DEF IInv, FinalStatusIsExplained, Explains
    <3>2. documents[target[c]].status = "PROCESSING"
      BY <1>2 DEF CallsHoldTheRow, SerialInv, RunsHoldTheRow, Gateway!Active
    <3> QED
      BY <2>4, <3>1, <3>2 DEF Gateway!Verdicts
  <2> QED
    BY <2>2, <2>3, <2>4 DEF Current
<1> QED
  BY <1>1, <1>2

\* A run becomes current when its check is saved, and in no other way.
LEMMA CurrentBegins ==
  ASSUME TypeOK, GatewayProofs!IInv, VerdictIsFromItsCall, VerdictIsFromItsCall', CallsComeFromChecks,
         [PlatformNext]_platformVars, NEW r \in Requests, Current(r)', ~Current(r)
  PROVE  stage[r] = "save" /\ stage'[r] = "event"
<1>1. StepSummary /\ (UNCHANGED gatewayVars \/ UNCHANGED vars)
  BY ProcessingStep, StepsAreSummarised, GatewaySteps DEF GatewayProofs!IInv
<1>2. RequestMove(r) /\ LinkMove(r) /\ GatewayProofs!CallMove(r)
  BY <1>1, StepsAreLinked, CallMoves DEF StepSummary, GatewayProofs!IInv, GatewayProofs!StepSummary
<1>3. CASE stage'[r] = "event"
  BY <1>2, <1>3 DEF GatewayProofs!CallMove, Current
<1>4. CASE pc'[r] = "gateway" /\ stage'[r] = "answered" /\ reply'[r].status # None
  <2>1. stage[r] # "event"
    BY DEF Current
  <2>2. reply'[r] = reply[r] /\ stage[r] = "answered"
    BY <1>2, <1>4, <2>1 DEF GatewayProofs!CallMove
  <2>3. pc[r] = "gateway"
    BY <1>2, <1>4, <2>2 DEF RequestMove, CallsComeFromChecks
  <2> QED
    BY <1>4, <2>2, <2>3 DEF Current
<1>5. CASE pc'[r] = "persist" /\ result'[r] \in Gateway!Verdicts
  <2>1. stage'[r] = "answered" /\ reply'[r].status # None
    BY <1>5, NoVerdicts DEF VerdictIsFromItsCall, Gateway!Verdicts
  <2>2. CASE pc[r] = "persist"
    <3>1. result'[r] = result[r]
      BY <1>2, <2>2 DEF RequestMove
    <3> QED
      BY <1>5, <2>2, <3>1 DEF Current, Gateway!Verdicts
  <2>3. CASE pc[r] # "persist"
    <3>1. pc[r] = "gateway"
      BY <1>2, <1>5, <2>3 DEF RequestMove
    <3>2. stage[r] = "answered" /\ reply'[r] = reply[r]
      BY <1>1, <1>5, <2>1, <2>3 DEF vars, gatewayVars
    <3> QED
      BY <2>1, <3>1, <3>2 DEF Current
  <2> QED
    BY <2>2, <2>3
<1>6. ASSUME NEW d \in Documents, documents'[d].processed_at = r,
             documents'[d].status \in Gateway!Verdicts
      PROVE  FALSE
  <2>1. RowMove(d)
    BY <1>1 DEF StepSummary
  <2>2. documents'[d] # documents[d]
    BY <1>6 DEF Current, Gateway!Verdicts
  <2>3. PICK q \in Requests :
          /\ pc[q] = "persist"
          /\ documents'[d] = [status |-> FinalStatus(q), processed_at |-> q]
    <3>1. ASSUME NEW status, documents'[d] = [status |-> status, processed_at |-> None]
          PROVE  FALSE
      BY <1>6, <3>1, NoneIsFresh
    <3> QED
      BY <2>1, <2>2, <3>1 DEF RowMove
  <2>4. q = r /\ documents'[d].status = FinalStatus(r)
    BY <1>6, <2>3
  <2>5. result[r] \in Gateway!Verdicts
    BY <1>6, <2>4 DEF FinalStatus, Gateway!Verdicts
  <2> QED
    BY <2>3, <2>4, <2>5 DEF Current
<1> QED
  BY <1>3, <1>4, <1>5, <1>6 DEF Current, Gateway!Verdicts

LEMMA CurrentIsLatestStep ==
  ASSUME ClientsWait, IInv, GatewayProofs!IInv, GatewayProofs!TypeOK', Waiting, SerialInv,
         VerdictIsFromItsCall, VerdictIsFromItsCall', CallsComeFromChecks, CallsHoldTheRow,
         ChecksArePast, CurrentIsLatest, [PlatformNext]_platformVars
  PROVE  CurrentIsLatest'
<1> SUFFICES ASSUME NEW r \in Requests, NEW d \in Documents, Current(r)', subject'[r] = d
             PROVE  (Gateway!Latest(d) # 0 /\ compliance_checks[Gateway!Latest(d)] = record[r])'
  BY DEF CurrentIsLatest
<1>1. TypeOK /\ GatewayProofs!TypeOK /\ GatewayProofs!RecordsAreSound
  BY DEF IInv, GatewayProofs!IInv
<1>2. GatewayProofs!StepSummary
  BY <1>1, CallMoves
<1>3. GatewayProofs!CallMove(r) /\ GatewayProofs!CheckMove
  BY <1>2 DEF GatewayProofs!StepSummary
<1>4. CASE Current(r)
  <2>1. /\ stage[r] \in {"event", "answered"}
        /\ \A c \in Requests \ {r} : stage[c] = "save" => subject[c] # subject[r]
    BY <1>1, <1>4, CurrentIsAlone
  <2>2. record'[r] = record[r] /\ subject[r] = d
    BY <1>3, <2>1 DEF GatewayProofs!CallMove
  <2>3. \A c \in Requests : stage[c] = "save" => record[c].document_id # d
    BY <1>1, <2>1, <2>2 DEF GatewayProofs!RecordsAreSound
  <2>4. PICK l : l = GatewayProofs!Latest(d)
    OBVIOUS
  <2>5. l # 0 /\ compliance_checks[l] = record[r]
    BY <1>4, <2>2, <2>4, SameLatest DEF CurrentIsLatest
  <2>6. GatewayProofs!ChecksOf(d) # {}
    BY <2>4, <2>5 DEF GatewayProofs!Latest
  <2>7. GatewayProofs!Latest(d)' = l /\ compliance_checks'[l] = compliance_checks[l]
    BY <1>1, <1>3, <2>3, <2>4, <2>6, GatewayAssumptions, GatewayProofs!LatestIsKept
  <2> QED
    BY <2>2, <2>5, <2>7, SameLatestNext
<1>5. CASE ~Current(r)
  <2>1. stage[r] = "save" /\ stage'[r] = "event"
    BY <1>1, <1>5, CurrentBegins
  <2>2. /\ compliance_checks' = Append(compliance_checks, record[r])
        /\ record'[r] = record[r] /\ subject[r] = d /\ d = record[r].document_id
    BY <1>1, <1>3, <2>1 DEF GatewayProofs!CallMove, GatewayProofs!RecordsAreSound
  <2>3. \A i \in GatewayProofs!ChecksOf(d) : compliance_checks[i].checked_at <= record[r].checked_at
    BY <2>1, <2>2, SameLatest DEF ChecksArePast
  <2>4. GatewayProofs!Latest(d)' # 0 /\ compliance_checks'[GatewayProofs!Latest(d)'] = record[r]
    BY <1>1, <2>1, <2>2, <2>3, GatewayAssumptions, GatewayProofs!LatestIsNew
  <2> QED
    BY <2>2, <2>4, SameLatestNext
<1> QED
  BY <1>4, <1>5

WaitingPlatformInv ==
  /\ CallsComeFromChecks
  /\ CallsHoldTheRow
  /\ ChecksArePast
  /\ RepliesTellTheRecord
  /\ CurrentIsLatest

LEMMA WaitingPlatformInit == PlatformInit => WaitingPlatformInv
<1> SUFFICES ASSUME PlatformInit PROVE WaitingPlatformInv
  OBVIOUS
<1>1. \A r \in Requests : pc[r] = "idle" /\ result[r] = None /\ stage[r] = "idle" /\ reply[r] = None
  BY DEF PlatformInit, Init, Gateway!GatewayInit
<1>2. \A d \in Documents : documents[d].status = "ABSENT"
  BY DEF PlatformInit, Init
<1>3. compliance_checks = <<>>
  BY DEF PlatformInit, Gateway!GatewayInit
<1>4. \A r \in Requests : ~Current(r)
  BY <1>1, <1>2, NoVerdicts DEF Current
<1> QED
  BY <1>1, <1>3, <1>4 DEF WaitingPlatformInv, CallsComeFromChecks, CallsHoldTheRow, ChecksArePast,
       RepliesTellTheRecord, CurrentIsLatest, Gateway!Active

LEMMA WaitingPlatformStep ==
  ASSUME ClientsWait, IInv, GatewayProofs!IInv, GatewayProofs!TypeOK', Waiting, SerialInv,
         VerdictIsFromItsCall, VerdictIsFromItsCall', WaitingPlatformInv, [PlatformNext]_platformVars
  PROVE  WaitingPlatformInv'
<1>1. TypeOK /\ GatewayProofs!TypeOK
  BY DEF IInv, GatewayProofs!IInv
<1>2. CallsComeFromChecks'
  BY <1>1, CallsComeFromChecksStep DEF WaitingPlatformInv
<1>3. CallsHoldTheRow'
  BY <1>1, CallsHoldTheRowStep DEF WaitingPlatformInv
<1>4. ChecksArePast'
  BY <1>1, ChecksArePastStep DEF WaitingPlatformInv
<1>5. RepliesTellTheRecord'
  BY <1>1, RepliesTellTheRecordStep DEF WaitingPlatformInv
<1>6. CurrentIsLatest'
  BY CurrentIsLatestStep DEF WaitingPlatformInv
<1> QED
  BY <1>2, <1>3, <1>4, <1>5, <1>6 DEF WaitingPlatformInv

LEMMA CurrentVerdictIsLatest ==
  ASSUME IInv, GatewayProofs!IInv, VerdictIsFromItsCall, WaitingPlatformInv
  PROVE  LatestCheckIsTheVerdict
<1> SUFFICES ASSUME NEW d \in Documents, documents[d].status \in Gateway!Verdicts
             PROVE  Gateway!Latest(d) # 0 /\ RestsOn(documents[d], Gateway!Latest(d))
  BY DEF LatestCheckIsTheVerdict
<1>1. PICK r \in Requests : documents[d].processed_at = r
  <2>1. documents[d].processed_at # None /\ documents[d] \in Rows
    BY DEF IInv, FinalStatusIsExplained, Gateway!Verdicts, FinalStatuses, TypeOK
  <2> QED
    BY <2>1 DEF Rows
<1>2. target[r] = d /\ documents[d].status = FinalStatus(r)
  BY <1>1 DEF IInv, FinalStatusIsExplained, Explains
<1>3. result[r] = documents[d].status
  BY <1>2 DEF FinalStatus, Gateway!Verdicts
<1>4. stage[r] = "answered" /\ reply[r].status = documents[d].status /\ subject[r] = d
  BY <1>2, <1>3 DEF VerdictIsFromItsCall
<1>5. reply[r] # None /\ reply[r].status # None
  BY <1>4, NoVerdicts DEF GatewayProofs!IInv, GatewayProofs!RepliesAreLast
<1>6. record[r].status = documents[d].status /\ record[r].check_id = r
  BY <1>4, <1>5 DEF WaitingPlatformInv, RepliesTellTheRecord
<1>7. Gateway!Latest(d) # 0 /\ compliance_checks[Gateway!Latest(d)] = record[r]
  BY <1>1, <1>4 DEF WaitingPlatformInv, CurrentIsLatest, Current
<1> QED
  BY <1>1, <1>6, <1>7 DEF RestsOn

\* Clients that wait: whatever fails or is late, the verdict PostgreSQL holds of
\* a document is that of the check GET /status and the detail show for it.
THEOREM VerdictIsLatestCheck ==
  ASSUME ClientsWait
  PROVE  PlatformSpec => []LatestCheckIsTheVerdict
<1>1. PlatformSpec => [](IInv /\ Waiting /\ SerialInv)
  BY ProcessingImplemented, SerialInvariance, PTL DEF ImplementsProcessing
<1>2. GatewayProofs!IInv => GatewayProofs!TypeOK
  BY DEF GatewayProofs!IInv
<1>3. IInv /\ GatewayProofs!IInv /\ GatewayProofs!TypeOK' /\ Waiting /\ SerialInv
        /\ VerdictIsFromItsCall /\ VerdictIsFromItsCall' /\ WaitingPlatformInv
        /\ [PlatformNext]_platformVars => WaitingPlatformInv'
  BY WaitingPlatformStep
<1>4. IInv /\ GatewayProofs!IInv /\ VerdictIsFromItsCall /\ WaitingPlatformInv => LatestCheckIsTheVerdict
  BY CurrentVerdictIsLatest
<1> QED
  BY <1>1, <1>2, <1>3, <1>4, WaitingPlatformInit, GatewayInvariance, CallInvariance, PTL DEF PlatformSpec
=============================================================================
