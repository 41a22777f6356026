------------------------- MODULE NotificationsProofs -------------------------
(* Proofs about Notifications: what a page hears, for any documents,        *)
(* requests, pages and faults.                                              *)
EXTENDS Notifications, PlatformProofs

USE DEF socketVars

(* Sequences: a queue at whose end the log grows, and whose head is heard.  *)

LEMMA AppendedLast ==
  ASSUME NEW S, NEW h \in Seq(S), NEW b \in Seq(S), NEW e \in S
  PROVE  h \o Append(b, e) = Append(h \o b, e)
<1>1. <<e>> \in Seq(S) /\ Append(b, e) = b \o <<e>>
  BY AppendIsConcat
<1>2. (h \o b) \o <<e>> = h \o (b \o <<e>>)
  BY <1>1, ConcatAssociative
<1>3. Append(h \o b, e) = (h \o b) \o <<e>>
  BY ConcatProperties, AppendIsConcat
<1> QED
  BY <1>1, <1>2, <1>3

LEMMA LogTailGrows ==
  ASSUME NEW S, NEW w \in Seq(S), NEW e \in S, NEW j \in Nat, j <= Len(w)
  PROVE  SubSeq(Append(w, e), j + 1, Len(Append(w, e))) = Append(SubSeq(w, j + 1, Len(w)), e)
<1> DEFINE W == Append(w, e)
<1>1. /\ W \in Seq(S) /\ Len(W) = Len(w) + 1 /\ W[Len(w) + 1] = e
      /\ W = w \o <<e>> /\ <<e>> \in Seq(S) /\ Len(w) \in Nat
  BY AppendProperties, AppendIsConcat
<1>2. SubSeq(W, j + 1, Len(w)) = SubSeq(w, j + 1, Len(w))
  <2>1. CASE j + 1 <= Len(w)
    BY <1>1, <2>1, SubSeqOfConcat1
  <2>2. CASE Len(w) < j + 1
    BY <1>1, <2>2, SubSeqEmpty
  <2> QED
    BY <1>1, <2>1, <2>2
<1>3. SubSeq(W, j + 1, Len(W)) = SubSeq(W, j + 1, Len(w)) \o <<e>>
  <2>1. j + 1 \in 1..Len(W) /\ Len(W) \in j + 1..Len(W) /\ Len(W) - 1 = Len(w)
    BY <1>1
  <2> HIDE DEF W
  <2>2. SubSeq(W, j + 1, Len(W)) = SubSeq(W, j + 1, Len(W) - 1) \o <<W[Len(W)]>>
    BY <1>1, <2>1, SubSeqRecursiveSecond
  <2> QED
    BY <1>1, <2>1, <2>2
<1>4. SubSeq(w, j + 1, Len(w)) \in Seq(S)
  BY <1>1, SubSeqProperties
<1>5. Append(SubSeq(w, j + 1, Len(w)), e) = SubSeq(w, j + 1, Len(w)) \o <<e>>
  BY <1>4, AppendIsConcat
<1> QED
  BY <1>2, <1>3, <1>5

LEMMA HeadMovedOver ==
  ASSUME NEW S, NEW h \in Seq(S), NEW b \in Seq(S), b # <<>>
  PROVE  Append(h, Head(b)) \o Tail(b) = h \o b
<1>1. Head(b) \in S /\ Tail(b) \in Seq(S) /\ <<Head(b)>> \in Seq(S)
  BY HeadTailProperties
<1>2. <<Head(b)>> \o Tail(b) = b
  <2>1. Len(b) \in Nat \ {0} /\ Head(b) = b[1]
    OBVIOUS
  <2>2. SubSeq(b, 1, Len(b)) = <<b[1]>> \o SubSeq(b, 2, Len(b))
    BY <2>1, SubSeqRecursiveFirst
  <2> QED
    BY <2>1, <2>2, SubSeqFull, TailIsSubSeq
<1>3. Append(h, Head(b)) = h \o <<Head(b)>>
  BY <1>1, AppendIsConcat
<1>4. (h \o <<Head(b)>>) \o Tail(b) = h \o (<<Head(b)>> \o Tail(b))
  BY <1>1, ConcatAssociative
<1> QED
  BY <1>2, <1>3, <1>4

-----------------------------------------------------------------------------
(* The inductive invariant, beside the endpoint's.                          *)

SocketsTyped ==
  /\ sockets \subseteq Pages
  /\ inbox \in [Pages -> Seq(Events)]
  /\ heard \in [Pages -> Seq(Events)]
  /\ joined \in [Pages -> Nat]
  /\ \A p \in Pages : joined[p] <= Len(webhooks)
  /\ \A p \in Pages \ sockets : inbox[p] = <<>>

Told(e) == \E i \in DOMAIN webhooks : webhooks[i] = e

\* What a page hears was told to the BFF.
HeardWasTold ==
  \A p \in Pages :
    /\ \A i \in DOMAIN heard[p] : Told(heard[p][i])
    /\ \A i \in DOMAIN inbox[p] : Told(inbox[p][i])

NInv ==
  /\ SocketsTyped
  /\ HeardWasTold
  /\ ToldWhenOver
  /\ HeardInOrder

LEMMA ToldIsStable ==
  ASSUME TypeOK, NEW e, Told(e),
         \/ webhooks' = webhooks
         \/ \E f \in Events : webhooks' = Append(webhooks, f)
  PROVE  Told(e)'
<1>1. CASE webhooks' = webhooks
  BY <1>1 DEF Told
<1>2. ASSUME NEW f \in Events, webhooks' = Append(webhooks, f)
      PROVE  Told(e)'
  <2>1. PICK i \in DOMAIN webhooks : webhooks[i] = e
    BY DEF Told
  <2>2. webhooks \in Seq(Events)
    BY DEF TypeOK
  <2>3. i \in DOMAIN webhooks' /\ webhooks'[i] = e
    BY <1>2, <2>1, <2>2, AppendFacts
  <2> QED
    BY <2>3 DEF Told
<1> QED
  BY <1>1, <1>2

\* A step of the services that tells the BFF nothing.
LEMMA QuietServicesStep ==
  ASSUME IInv, NInv, StepSummary, ServicesStep, webhooks' = webhooks
  PROVE  NInv'
<1>1. UNCHANGED <<sockets, inbox, heard, joined>>
  BY DEF ServicesStep, ProcessingComplete
<1>2. SocketsTyped' /\ HeardWasTold' /\ HeardInOrder'
  BY <1>1 DEF NInv, SocketsTyped, HeardWasTold, Told, HeardInOrder
<1>3. ToldWhenOver'
  <2> SUFFICES ASSUME NEW i \in DOMAIN webhooks
               PROVE  IsOver(webhooks[i].by)'
    BY DEF ToldWhenOver
  <2>1. webhooks[i].by \in Requests
    BY WebhooksAreTyped DEF IInv
  <2>2. ASSUME NEW r \in Requests, r = webhooks[i].by
        PROVE  IsOver(r)'
    BY <2>2, OverIsStable DEF NInv, ToldWhenOver
  <2> QED
    BY <2>1, <2>2 DEF IsOver
<1> QED
  BY <1>2, <1>3 DEF NInv

\* A step that tells the BFF an outcome: it is emitted.
LEMMA TellingServicesStep ==
  ASSUME IInv, NInv, StepSummary, ServicesStep,
         NEW q \in Requests, NEW e \in Events, e = Event(q, FinalStatus(q)),
         webhooks' = Append(webhooks, e), e.status \in FinalStatuses, IsOver(q)'
  PROVE  NInv'
<1>1. TypeOK /\ webhooks \in Seq(Events)
  BY DEF IInv, TypeOK
<1>2. Len(webhooks') = Len(webhooks) + 1 /\ webhooks'[Len(webhooks')] = e
      /\ DOMAIN webhooks' = 1..Len(webhooks) + 1 /\ webhooks' \in Seq(Events)
      /\ \A i \in DOMAIN webhooks : webhooks'[i] = webhooks[i]
  BY <1>1, AppendProperties
<1>3. webhooks' # webhooks
  BY <1>1, <1>2
<1>4. UNCHANGED <<sockets, heard, joined>> /\ Emit(e)
  BY <1>2, <1>3 DEF ServicesStep, ProcessingComplete, Validates
<1>5. \A p \in Pages : inbox'[p] = IF p \in sockets THEN Append(inbox[p], e) ELSE inbox[p]
  BY <1>4 DEF Emit
<1>6. inbox \in [Pages -> Seq(Events)] /\ heard \in [Pages -> Seq(Events)] /\ joined \in [Pages -> Nat]
  BY DEF NInv, SocketsTyped
<1>7. SocketsTyped'
  <2>1. inbox' \in [Pages -> Seq(Events)]
    BY <1>4, <1>6, AppendIsTyped DEF Emit
  <2>2. \A p \in Pages : joined'[p] <= Len(webhooks')
    BY <1>1, <1>2, <1>4, <1>6 DEF NInv, SocketsTyped
  <2>3. \A p \in Pages \ sockets' : inbox'[p] = <<>>
    BY <1>4, <1>5 DEF NInv, SocketsTyped
  <2> QED
    BY <1>4, <1>6, <2>1, <2>2, <2>3 DEF NInv, SocketsTyped
<1>8. Told(e)'
  BY <1>1, <1>2 DEF Told
<1>9. HeardWasTold'
  <2> SUFFICES ASSUME NEW p \in Pages
               PROVE  /\ \A i \in DOMAIN heard[p] : Told(heard[p][i])'
                      /\ \A i \in DOMAIN inbox'[p] : Told(inbox[p][i])'
    BY <1>4 DEF HeardWasTold
  <2>1. \A f : Told(f) => Told(f)'
    BY <1>1, ToldIsStable
  <2>2. \A i \in DOMAIN heard[p] : Told(heard[p][i])'
    <3>1. \A i \in DOMAIN heard[p] : Told(heard[p][i])
      BY DEF NInv, HeardWasTold
    <3> QED
      BY <1>4, <2>1, <3>1 DEF Told
  <2>3. \A i \in DOMAIN inbox'[p] :
          \/ inbox'[p][i] = e
          \/ /\ i \in DOMAIN inbox[p]
             /\ inbox'[p][i] = inbox[p][i]
    <3>1. inbox[p] \in Seq(Events)
      BY <1>6
    <3>2. CASE p \in sockets
      <4>1. inbox'[p] = Append(inbox[p], e)
        BY <1>5, <3>2
      <4>2. /\ DOMAIN inbox[p] = 1..Len(inbox[p]) /\ DOMAIN inbox'[p] = 1..Len(inbox[p]) + 1
            /\ \A i \in 1..Len(inbox[p]) : inbox'[p][i] = inbox[p][i]
            /\ inbox'[p][Len(inbox[p]) + 1] = e
        BY <3>1, <4>1, AppendProperties
      <4>3. ASSUME NEW i \in 1..Len(inbox[p]) + 1
            PROVE  i = Len(inbox[p]) + 1 \/ i \in 1..Len(inbox[p])
        BY <3>1
      <4> QED
        BY <4>2, <4>3
    <3>3. CASE p \notin sockets
      BY <1>5, <3>3
    <3> QED
      BY <3>2, <3>3
  <2>4. \A i \in DOMAIN inbox[p] : Told(inbox[p][i])
    BY DEF NInv, HeardWasTold
  <2> QED
    BY <1>8, <2>1, <2>2, <2>3, <2>4 DEF Told
<1>10. ToldWhenOver'
  <2> SUFFICES ASSUME NEW i \in DOMAIN webhooks'
               PROVE  IsOver(webhooks[i].by)'
    BY DEF ToldWhenOver
  <2>1. ASSUME i \in DOMAIN webhooks
        PROVE  IsOver(webhooks[i].by)'
    <3>1. webhooks'[i] = webhooks[i] /\ webhooks[i].by \in Requests
      BY <1>1, <1>2, <2>1, WebhooksAreTyped
    <3>2. ASSUME NEW r \in Requests, r = webhooks[i].by
          PROVE  IsOver(r)'
      BY <2>1, <3>2, OverIsStable DEF NInv, ToldWhenOver
    <3> QED
      BY <3>1, <3>2 DEF IsOver
  <2>2. ASSUME i = Len(webhooks) + 1
        PROVE  IsOver(webhooks[i].by)'
    <3>1. webhooks'[i].by = q
      BY <1>2, <2>2 DEF Event
    <3> QED
      BY <3>1 DEF IsOver
  <2> QED
    BY <1>1, <1>2, <2>1, <2>2
<1>11. HeardInOrder'
  <2> SUFFICES ASSUME NEW p \in sockets
               PROVE  heard[p] \o inbox'[p] = SubSeq(webhooks', joined[p] + 1, Len(webhooks'))
    BY <1>4 DEF HeardInOrder
  <2>1. p \in Pages /\ joined[p] <= Len(webhooks)
        /\ heard[p] \o inbox[p] = SubSeq(webhooks, joined[p] + 1, Len(webhooks))
    BY DEF NInv, SocketsTyped, HeardInOrder
  <2>2. heard[p] \o Append(inbox[p], e) = Append(heard[p] \o inbox[p], e)
    <3>1. heard[p] \in Seq(Events) /\ inbox[p] \in Seq(Events)
      BY <1>6, <2>1
    <3>2. ASSUME NEW h \in Seq(Events), NEW b \in Seq(Events)
          PROVE  h \o Append(b, e) = Append(h \o b, e)
      BY AppendedLast
    <3> QED
      BY <3>1, <3>2
  <2>3. SubSeq(webhooks', joined[p] + 1, Len(webhooks')) = Append(SubSeq(webhooks, joined[p] + 1, Len(webhooks)), e)
    BY <1>1, <1>6, <2>1, LogTailGrows
  <2> QED
    BY <1>5, <2>1, <2>2, <2>3
<1> QED
  BY <1>7, <1>9, <1>10, <1>11 DEF NInv

\* Connecting, disconnecting and hearing, over a platform that stands still.
LEMMA SocketStep ==
  ASSUME IInv, NInv, NEW p \in Pages, Connect(p) \/ Disconnect(p) \/ Hear(p)
  PROVE  NInv'
<1>1. webhooks' = webhooks /\ pc' = pc /\ answer' = answer /\ result' = result
  BY DEF Connect, Disconnect, Hear, platformVars, vars
<1>2. webhooks \in Seq(Events) /\ Len(webhooks) \in Nat
  BY DEF IInv, TypeOK
<1>3. ToldWhenOver'
  BY <1>1 DEF NInv, ToldWhenOver, IsOver
<1>4. CASE Connect(p)
  <2>1. SocketsTyped' /\ HeardWasTold'
    BY <1>1, <1>2, <1>4 DEF NInv, SocketsTyped, HeardWasTold, Told, Connect
  <2>2. ASSUME NEW x \in sockets'
        PROVE  heard'[x] \o inbox'[x] = SubSeq(webhooks, joined'[x] + 1, Len(webhooks))
    <3>1. CASE x = p
      <4>1. heard'[x] = <<>> /\ inbox'[x] = <<>> /\ joined'[x] = Len(webhooks)
        BY <1>4, <3>1 DEF NInv, SocketsTyped, Connect
      <4>2. SubSeq(webhooks, Len(webhooks) + 1, Len(webhooks)) = <<>>
        BY <1>2, SubSeqEmpty
      <4> QED
        BY <4>1, <4>2
    <3>2. CASE x # p
      BY <1>4, <3>2 DEF NInv, SocketsTyped, HeardInOrder, Connect
    <3> QED
      BY <3>1, <3>2
  <2> QED
    BY <1>1, <1>3, <2>1, <2>2 DEF NInv, HeardInOrder
<1>5. CASE Disconnect(p)
  <2>1. SocketsTyped' /\ HeardWasTold'
    BY <1>1, <1>5 DEF NInv, SocketsTyped, HeardWasTold, Told, Disconnect
  <2>2. HeardInOrder'
    BY <1>1, <1>5 DEF NInv, SocketsTyped, HeardInOrder, Disconnect
  <2> QED
    BY <1>3, <2>1, <2>2 DEF NInv
<1>6. CASE Hear(p)
  <2>1. inbox[p] \in Seq(Events) /\ inbox[p] # <<>> /\ heard[p] \in Seq(Events)
        /\ p \in sockets /\ UNCHANGED <<sockets, joined>>
    BY <1>6 DEF NInv, SocketsTyped, Hear
  <2>2. Head(inbox[p]) \in Events /\ Tail(inbox[p]) \in Seq(Events)
        /\ Len(Tail(inbox[p])) = Len(inbox[p]) - 1
        /\ \A i \in 1..Len(Tail(inbox[p])) : Tail(inbox[p])[i] = inbox[p][i + 1]
    BY <2>1, HeadTailProperties
  <2>3. /\ heard' = [heard EXCEPT ![p] = Append(@, Head(inbox[p]))]
        /\ inbox' = [inbox EXCEPT ![p] = Tail(@)]
    BY <1>6 DEF Hear
  <2>4. Append(heard[p], Head(inbox[p])) \in Seq(Events)
    BY <2>1, <2>2, AppendIsTyped
  <2>5. SocketsTyped'
    BY <1>1, <2>1, <2>2, <2>3, <2>4 DEF NInv, SocketsTyped
  <2>6. HeardWasTold'
    <3>1. \A x \in Pages \ {p} : heard'[x] = heard[x] /\ inbox'[x] = inbox[x]
      BY <2>3 DEF NInv, SocketsTyped
    <3>2. heard'[p] = Append(heard[p], Head(inbox[p])) /\ inbox'[p] = Tail(inbox[p])
      BY <2>3 DEF NInv, SocketsTyped
    <3>3. Told(Head(inbox[p]))
      BY <2>1 DEF NInv, HeardWasTold
    <3>4. \A i \in DOMAIN heard'[p] : Told(heard'[p][i])
      BY <2>1, <2>2, <3>2, <3>3, AppendFacts DEF NInv, HeardWasTold
    <3>5. \A i \in DOMAIN inbox'[p] : Told(inbox'[p][i])
      BY <2>1, <2>2, <3>2 DEF NInv, HeardWasTold
    <3> QED
      BY <1>1, <3>1, <3>4, <3>5 DEF NInv, HeardWasTold, Told
  <2>7. HeardInOrder'
    <3> SUFFICES ASSUME NEW x \in sockets
                 PROVE  heard'[x] \o inbox'[x] = SubSeq(webhooks, joined[x] + 1, Len(webhooks))
      BY <1>1, <2>1 DEF HeardInOrder
    <3>1. heard'[x] \o inbox'[x] = heard[x] \o inbox[x]
      <4>1. CASE x = p
        BY SMTT(30), <2>1, <2>3, <4>1, HeadMovedOver DEF NInv, SocketsTyped
      <4>2. CASE x # p
        BY <2>3, <4>2 DEF NInv, SocketsTyped
      <4> QED
        BY <4>1, <4>2
    <3> QED
      BY <3>1 DEF NInv, HeardInOrder
  <2> QED
    BY <1>3, <2>5, <2>6, <2>7 DEF NInv
<1> QED
  BY <1>4, <1>5, <1>6

-----------------------------------------------------------------------------
LEMMA NotificationsAreProcessing ==
  [NotificationsNext]_notificationVars => [PlatformNext]_platformVars
BY DEF NotificationsNext, notificationVars, ServicesStep, PlatformNext, Connect, Disconnect, Hear

LEMMA NInvInit == NotificationsInit => NInv
<1> SUFFICES ASSUME NotificationsInit PROVE NInv
  OBVIOUS
<1>1. webhooks = <<>>
  BY DEF NotificationsInit, PlatformInit, Init
<1> QED
  BY <1>1 DEF NotificationsInit, NInv, SocketsTyped, HeardWasTold, ToldWhenOver, HeardInOrder

LEMMA NInvStep == IInv /\ NInv /\ [NotificationsNext]_notificationVars => NInv'
<1> SUFFICES ASSUME IInv, NInv, [NotificationsNext]_notificationVars
             PROVE  NInv'
  OBVIOUS
<1>1. [Next]_vars
  BY NotificationsAreProcessing, ProcessingStep
<1>2. StepSummary
  BY <1>1, StepsAreSummarised DEF IInv
<1>3. CASE UNCHANGED notificationVars
  BY ZenonT(30), <1>3 DEF notificationVars, platformVars, vars, NInv, SocketsTyped, HeardWasTold, Told, ToldWhenOver,
              IsOver, HeardInOrder
<1>4. CASE ServicesStep
  <2>1. CASE webhooks' = webhooks
    BY <1>2, <1>4, <2>1, QuietServicesStep
  <2>2. CASE webhooks' # webhooks
    <3>1. PICK q \in Requests :
            /\ webhooks' = Append(webhooks, Event(q, FinalStatus(q)))
            /\ Event(q, FinalStatus(q)) \in Events
            /\ FinalStatus(q) \in FinalStatuses
            /\ IsOver(q)'
      BY <1>1, <2>2, WebhookIsOfNotify
    <3>2. Event(q, FinalStatus(q)).status = FinalStatus(q)
      BY DEF Event
    <3> QED
      BY <1>2, <1>4, <3>1, <3>2, TellingServicesStep
  <2> QED
    BY <2>1, <2>2
<1>5. ASSUME NEW p \in Pages, Connect(p) \/ Disconnect(p) \/ Hear(p)
      PROVE  NInv'
  BY <1>5, SocketStep
<1> QED
  BY <1>3, <1>4, <1>5 DEF NotificationsNext

\* The composition with the BFF and its pages implements the endpoint.
LEMMA NotificationsImplementProcessing == NotificationsSpec => Spec
<1>1. NotificationsInit => Init
  BY DEF NotificationsInit, PlatformInit
<1> QED
  BY <1>1, NotificationsAreProcessing, ProcessingStep, PTL DEF NotificationsSpec, Spec

LEMMA NotificationsInvariance == NotificationsSpec => [](IInv /\ NInv)
BY NotificationsImplementProcessing, Invariance, NInvInit, NInvStep, PTL DEF NotificationsSpec

\* A page that is connected hears every outcome the BFF is told of, once, in the
\* order of the webhooks.
THEOREM PagesHearInOrder == NotificationsSpec => []HeardInOrder
<1>1. NInv => HeardInOrder
  BY DEF NInv
<1> QED
  BY <1>1, NotificationsInvariance, PTL

\* A page that was told of the end of a run and reads the document finds it
\* PROCESSING only on account of another request.
THEOREM EventsEndProcessing == NotificationsSpec => []EventEndsProcessing
<1>1. IInv /\ NInv => EventEndsProcessing
  <2> SUFFICES ASSUME IInv, NInv, NEW p \in Pages, NEW i \in DOMAIN heard[p],
                      documents[heard[p][i].document_id].status = "PROCESSING"
               PROVE  \E q \in Requests \ {heard[p][i].by} :
                        target[q] = heard[p][i].document_id /\ LeftProcessing(q)
    BY DEF EventEndsProcessing
  <2>1. PICK j \in DOMAIN webhooks : webhooks[j] = heard[p][i]
    BY DEF NInv, HeardWasTold, Told
  <2>2. webhooks[j].document_id \in Documents
    BY WebhooksAreTyped DEF IInv
  <2>3. PICK q \in Requests : target[q] = heard[p][i].document_id /\ LeftProcessing(q)
    BY <2>1, <2>2 DEF IInv, ProcessingIsOwned
  <2>4. IsOver(heard[p][i].by)
    BY <2>1 DEF NInv, ToldWhenOver
  <2>5. q # heard[p][i].by
    BY <2>3, <2>4 DEF LeftProcessing, IsOver
  <2> QED
    BY <2>3, <2>5
<1> QED
  BY <1>1, NotificationsInvariance, PTL

-----------------------------------------------------------------------------
(* Clients that wait.                                                      *)

\* What a page heard over its last connection is a stretch of the webhooks,
\* from the first one after it joined.
HeardIsAStretch ==
  \A p \in Pages : \A i \in DOMAIN heard[p] :
    /\ joined[p] + i \in DOMAIN webhooks
    /\ heard[p][i] = webhooks[joined[p] + i]

LEMMA PrefixOfConcat ==
  ASSUME NEW S, NEW h \in Seq(S), NEW b \in Seq(S)
  PROVE  Len(h) <= Len(h \o b) /\ \A i \in 1..Len(h) : (h \o b)[i] = h[i]
<1>1. /\ Len(h \o b) = Len(h) + Len(b)
      /\ \A k \in 1..Len(h) + Len(b) : (h \o b)[k] = IF k <= Len(h) THEN h[k] ELSE b[k - Len(h)]
  BY ConcatProperties
<1>2. Len(h) \in Nat /\ Len(b) \in Nat
  OBVIOUS
<1>3. \A i \in 1..Len(h) : i \in 1..Len(h) + Len(b) /\ i <= Len(h)
  BY <1>2
<1>4. Len(h) <= Len(h) + Len(b)
  BY <1>2
<1> QED
  BY <1>1, <1>3, <1>4

LEMMA TailOfLog ==
  ASSUME NEW S, NEW w \in Seq(S), NEW j \in Nat, j <= Len(w)
  PROVE  /\ Len(SubSeq(w, j + 1, Len(w))) = Len(w) - j
         /\ \A k \in 1..Len(w) - j : SubSeq(w, j + 1, Len(w))[k] = w[j + k]
<1>1. Len(w) \in Nat
  OBVIOUS
<1>2. j + 1 \in Int /\ Len(w) \in Int /\ \A k \in j + 1..Len(w) : w[k] \in S
  BY <1>1
<1>3. /\ Len(SubSeq(w, j + 1, Len(w))) = IF j + 1 <= Len(w) THEN Len(w) - (j + 1) + 1 ELSE 0
      /\ \A k \in 1..Len(w) - (j + 1) + 1 : SubSeq(w, j + 1, Len(w))[k] = w[j + 1 + k - 1]
  BY <1>2, SubSeqProperties
<1>4. /\ (IF j + 1 <= Len(w) THEN Len(w) - (j + 1) + 1 ELSE 0) = Len(w) - j
      /\ Len(w) - (j + 1) + 1 = Len(w) - j
      /\ \A k \in 1..Len(w) - j : j + 1 + k - 1 = j + k
  BY <1>1
<1> QED
  BY <1>3, <1>4

LEMMA ConnectedHeardAStretch ==
  ASSUME IInv, NInv, NEW p \in sockets, NEW i \in DOMAIN heard[p]
  PROVE  joined[p] + i \in DOMAIN webhooks /\ heard[p][i] = webhooks[joined[p] + i]
<1>1. /\ p \in Pages /\ webhooks \in Seq(Events)
      /\ heard[p] \in Seq(Events) /\ inbox[p] \in Seq(Events)
      /\ joined[p] \in Nat /\ joined[p] <= Len(webhooks)
  BY DEF NInv, SocketsTyped, IInv, TypeOK
<1>2. PICK x : x = heard[p] \o inbox[p]
  OBVIOUS
<1>3. x = SubSeq(webhooks, joined[p] + 1, Len(webhooks))
  BY <1>2 DEF NInv, HeardInOrder
<1>4. Len(heard[p]) <= Len(x) /\ \A k \in 1..Len(heard[p]) : x[k] = heard[p][k]
  BY <1>1, <1>2, PrefixOfConcat
<1>5. /\ Len(x) = Len(webhooks) - joined[p]
      /\ \A k \in 1..Len(webhooks) - joined[p] : x[k] = webhooks[joined[p] + k]
  BY <1>1, <1>3, TailOfLog
<1>6. /\ i \in 1..Len(heard[p]) /\ Len(heard[p]) \in Nat
      /\ DOMAIN webhooks = 1..Len(webhooks) /\ Len(webhooks) \in Nat
  BY <1>1
<1>7. i \in 1..Len(webhooks) - joined[p] /\ joined[p] + i \in 1..Len(webhooks)
  BY <1>1, <1>4, <1>5, <1>6
<1> QED
  BY <1>4, <1>5, <1>6, <1>7

LEMMA ConnectedHearAStretchNext ==
  IInv' /\ NInv' =>
    (\A p \in sockets : \A i \in DOMAIN heard[p] :
       /\ joined[p] + i \in DOMAIN webhooks
       /\ heard[p][i] = webhooks[joined[p] + i])'
<1>1. IInv /\ NInv =>
        \A p \in sockets : \A i \in DOMAIN heard[p] :
          /\ joined[p] + i \in DOMAIN webhooks
          /\ heard[p][i] = webhooks[joined[p] + i]
  BY ConnectedHeardAStretch
<1> QED
  BY <1>1, PTL

LEMMA HeardIsAStretchStep ==
  ASSUME IInv, NInv, IInv', NInv', HeardIsAStretch, [NotificationsNext]_notificationVars
  PROVE  HeardIsAStretch'
<1> SUFFICES ASSUME NEW p \in Pages, NEW i \in DOMAIN heard'[p]
             PROVE  /\ joined'[p] + i \in DOMAIN webhooks'
                    /\ heard'[p][i] = webhooks'[joined'[p] + i]
  BY DEF HeardIsAStretch
<1>1. webhooks \in Seq(Events)
  BY DEF IInv, TypeOK
<1>2. CASE p \in sockets'
  BY <1>2, ConnectedHearAStretchNext
<1>3. CASE p \notin sockets'
  <2>1. heard'[p] = heard[p] /\ joined'[p] = joined[p]
    <3>1. CASE UNCHANGED notificationVars \/ ServicesStep
      BY <3>1 DEF notificationVars, ServicesStep, ProcessingComplete
    <3>2. ASSUME NEW x \in Pages, Connect(x) \/ Disconnect(x) \/ Hear(x)
          PROVE  heard'[p] = heard[p] /\ joined'[p] = joined[p]
      BY <1>3, <3>2 DEF NInv, SocketsTyped, Connect, Disconnect, Hear
    <3> QED
      BY <3>1, <3>2 DEF NotificationsNext
  <2>2. joined[p] + i \in DOMAIN webhooks /\ heard[p][i] = webhooks[joined[p] + i]
    BY <2>1 DEF HeardIsAStretch
  <2>3. \A k \in DOMAIN webhooks : k \in DOMAIN webhooks' /\ webhooks'[k] = webhooks[k]
    <3>1. [Next]_vars
      BY NotificationsAreProcessing, ProcessingStep
    <3>2. ASSUME webhooks' # webhooks
          PROVE  \E e \in Events : webhooks' = Append(webhooks, e)
      BY <3>1, <3>2, WebhookIsOfNotify
    <3> QED
      BY <1>1, <3>2, AppendFacts
  <2> QED
    BY <2>1, <2>2, <2>3
<1> QED
  BY <1>2, <1>3

\* Clients that wait: once all requests on a document were served, a page that
\* heard of the run its row rests on heard of no other after it.
THEOREM LastHeardRunIsCurrent ==
  ASSUME ClientsWait
  PROVE  NotificationsSpec => []LastHeardIsCurrent
<1>1. NotificationsSpec => [](IInv /\ Waiting /\ SerialInv)
  BY NotificationsImplementProcessing, SerialInvariance, PTL
<1>2. NotificationsInit => HeardIsAStretch
  BY DEF NotificationsInit, HeardIsAStretch
<1>3. NotificationsSpec => []HeardIsAStretch
  BY <1>2, HeardIsAStretchStep, NotificationsInvariance, PTL DEF NotificationsSpec
<1>4. IInv /\ NInv /\ SerialInv /\ HeardIsAStretch => LastHeardIsCurrent
  <2> SUFFICES ASSUME IInv, NInv, SerialInv, HeardIsAStretch,
                      NEW p \in Pages, NEW d \in Documents, Settled(d),
                      NEW i \in DOMAIN heard[p], heard[p][i].by = documents[d].processed_at
               PROVE  LastOf(heard[p], d, Event(documents[d].processed_at, documents[d].status))
    BY DEF LastHeardIsCurrent
  <2>1. joined[p] + i \in DOMAIN webhooks /\ heard[p][i] = webhooks[joined[p] + i]
    BY DEF HeardIsAStretch
  <2>2. /\ heard[p][i] = Event(documents[d].processed_at, documents[d].status)
        /\ \A j \in joined[p] + i + 1..Len(webhooks) : webhooks[j].document_id # d
    BY <2>1 DEF SerialInv, StampIsToldLast
  <2>3. heard[p] \in Seq(Events) /\ joined[p] \in Nat /\ webhooks \in Seq(Events)
    BY DEF NInv, SocketsTyped, IInv, TypeOK
  <2>4. ASSUME NEW j \in i + 1..Len(heard[p])
        PROVE  heard[p][j].document_id # d
    <3>1. j \in DOMAIN heard[p] /\ i \in Nat
      BY <2>3
    <3>2. joined[p] + j \in DOMAIN webhooks /\ heard[p][j] = webhooks[joined[p] + j]
      BY <3>1 DEF HeardIsAStretch
    <3>3. joined[p] + j \in joined[p] + i + 1..Len(webhooks)
      BY <2>3, <3>1, <3>2
    <3> QED
      BY <2>2, <3>2, <3>3
  <2> QED
    BY <2>2, <2>4 DEF LastOf
<1> QED
  BY <1>1, <1>3, <1>4, NotificationsInvariance, PTL
=============================================================================
