-------------------------- MODULE DashboardProofs --------------------------
(* Proofs about Dashboard: the positions of documents in the list, what a  *)
(* page adds to the summary, and from them the safety invariants.          *)
EXTENDS Dashboard, TLAPS, FiniteSetTheorems, SequenceTheorems

Statuses == DocumentStatuses \cup {"UPLOADED"}
Items == [document : Documents, status : Statuses]

Typed ==
  /\ created \in 0..MaxUploads /\ committed \in SUBSET (1..created)
  /\ status \in [Documents -> Statuses]
  /\ had \in [Documents -> SUBSET Statuses]
  /\ phase \in {"idle", "count", "select", "done", "failed"}
  /\ items \in Seq(Items)
  /\ Aggregated \subseteq committed
  /\ offset = Len(items) /\ Len(items) <= MaxDocuments /\ Len(items) <= Cardinality(committed)
  /\ counted \in 0..Cardinality(committed) /\ total \in 0..counted
  /\ atStart \in SUBSET committed
  /\ phase = "idle" => items = <<>>
  /\ phase \in {"count", "select"} => Len(items) < MaxDocuments

\* A document that was there from the start is aggregated, or is still to come
\* in the list of this moment.
NothingIsBehind ==
  \A d \in atStart : d \in Aggregated \/ Rank(d) > offset

\* What the last COUNT returned includes every document that was there from the
\* start.
StartIsCounted ==
  /\ phase = "select" => Cardinality(atStart) <= counted
  /\ phase = "done" => Cardinality(atStart) <= total

\* With no upload committed in between, what was read is the head of the list.
QuietItemsAreListed ==
  committed = atStart => \A i \in DOMAIN items : Rank(items[i].document) = i

\* A status that was read is one the document has had since the start.
StatusesWereHad ==
  /\ phase # "idle" => \A d \in Documents : status[d] \in had[d]
  /\ \A i \in DOMAIN items : items[i].status \in had[items[i].document]

IInv ==
  /\ Typed
  /\ NothingIsBehind
  /\ StartIsCounted
  /\ QuietItemsAreListed
  /\ StatusesWereHad

-----------------------------------------------------------------------------
(* The list.                                                               *)

LEMMA SettingsArePositive ==
  /\ PageSize \in Int /\ PageSize >= 1
  /\ MaxDocuments \in Int /\ MaxDocuments >= 1
  /\ MaxLimit \in Int /\ MaxLimit >= 1
BY SettingsAreIntegers DEF PageSize, MaxDocuments, getInt

LEMMA CommittedIsFinite ==
  ASSUME created \in 0..MaxUploads, committed \in SUBSET (1..created)
  PROVE  /\ IsFiniteSet(committed) /\ Cardinality(committed) \in Nat
         /\ committed \subseteq Documents /\ committed \subseteq Nat
<1>1. 1..created \subseteq Documents /\ 1..created \subseteq Nat /\ created \in Int
  BY SettingsAreIntegers DEF Documents
<1>2. IsFiniteSet(1..created)
  BY <1>1, FS_Interval
<1>3. IsFiniteSet(committed)
  BY <1>2, FS_Subset
<1> QED
  BY <1>1, <1>3, FS_CardinalityType

\* The positions of the documents in the list are 1, 2, ... in some order.
LEMMA RankIsPosition ==
  ASSUME created \in 0..MaxUploads, committed \in SUBSET (1..created)
  PROVE  /\ \A d \in committed : Rank(d) \in 1..Cardinality(committed)
         /\ \A d, e \in committed : Rank(d) = Rank(e) => d = e
         /\ \A i \in 1..Cardinality(committed) : \E d \in committed : Rank(d) = i
<1> DEFINE n == Cardinality(committed)
           From(d) == {e \in committed : e >= d}
<1>1. IsFiniteSet(committed) /\ n \in Nat /\ committed \subseteq Nat
  BY CommittedIsFinite
<1>2. \A d \in committed : Rank(d) = Cardinality(From(d))
  BY DEF Rank
<1>3. \A d \in committed : From(d) \in SUBSET committed /\ d \in From(d)
  BY <1>1
<1>4. \A d \in committed : IsFiniteSet(From(d)) /\ Cardinality(From(d)) \in Nat
                           /\ Cardinality(From(d)) <= n
  BY <1>1, <1>3, FS_Subset, FS_CardinalityType
<1>5. \A d \in committed : Cardinality(From(d)) # 0
  BY <1>3, <1>4, FS_EmptySet
<1>6. \A d \in committed : Rank(d) \in 1..n
  <2> SUFFICES ASSUME NEW d \in committed PROVE Rank(d) \in 1..n
    OBVIOUS
  <2>1. PICK k : k = Cardinality(From(d))
    OBVIOUS
  <2>2. k \in Nat /\ k # 0 /\ k <= n
    BY <1>4, <1>5, <2>1
  <2> QED
    BY <1>1, <1>2, <2>1, <2>2
<1>7. ASSUME NEW d \in committed, NEW e \in committed, Rank(d) = Rank(e), d < e
      PROVE  FALSE
  <2>1. From(e) \in SUBSET From(d) /\ d \notin From(e)
    <3>1. d \in Nat /\ e \in Nat
      BY <1>1
    <3>2. ASSUME NEW x \in committed, x >= e
          PROVE  x >= d
      BY <1>1, <1>7, <3>1, <3>2
    <3>3. ~(d >= e)
      BY <1>7, <3>1
    <3> QED
      BY <3>2, <3>3
  <2>2. From(d) = From(e)
    BY <1>2, <1>4, <1>7, <2>1, FS_Subset
  <2> QED
    BY <1>3, <2>1, <2>2
<1>8. \A d, e \in committed : Rank(d) = Rank(e) => d = e
  <2> SUFFICES ASSUME NEW d \in committed, NEW e \in committed, Rank(d) = Rank(e) PROVE d = e
    OBVIOUS
  <2>1. d < e \/ e < d \/ d = e
    BY <1>1
  <2> QED
    BY <1>7, <2>1
<1>9. \A i \in 1..n : \E d \in committed : Rank(d) = i
  <2> DEFINE f == [d \in committed |-> Rank(d)]
  <2>1. f \in Injection(committed, 1..n)
    BY <1>6, <1>8 DEF Injection, IsInjective
  <2>2. IsFiniteSet(1..n) /\ Cardinality(1..n) = n
    <3>1. PICK k \in Nat : k = n
      BY <1>1
    <3>2. 1 \in Int /\ k \in Int
      BY <3>1
    <3>3. IsFiniteSet(1..k) /\ Cardinality(1..k) = IF 1 > k THEN 0 ELSE k - 1 + 1
      BY <3>2, FS_Interval
    <3>4. Cardinality(1..k) = k
      BY <3>1, <3>3
    <3> QED
      BY <3>1, <3>3, <3>4
  <2>3. f \in Surjection(committed, 1..n)
    BY <2>1, <2>2, FS_Injection
  <2> QED
    BY <2>3 DEF Surjection
<1> QED
  BY <1>6, <1>8, <1>9

LEMMA ListIsOfRanks ==
  ASSUME created \in 0..MaxUploads, committed \in SUBSET (1..created)
  PROVE  /\ Listed \in Seq(committed)
         /\ Len(Listed) = Cardinality(committed)
         /\ \A i \in 1..Cardinality(committed) : Listed[i] \in committed /\ Rank(Listed[i]) = i
         /\ \A d \in committed : Listed[Rank(d)] = d
<1>1. Cardinality(committed) \in Nat
  BY CommittedIsFinite
<1>2. \A i \in 1..Cardinality(committed) : Listed[i] \in committed /\ Rank(Listed[i]) = i
  BY RankIsPosition DEF Listed
<1>3. Listed \in [1..Cardinality(committed) -> committed]
  BY <1>2 DEF Listed
<1>4. Listed \in Seq(committed) /\ Len(Listed) = Cardinality(committed)
  BY <1>1, <1>3, SeqDef, LenProperties
<1>5. ASSUME NEW d \in committed
      PROVE  Listed[Rank(d)] = d
  <2>1. Rank(d) \in 1..Cardinality(committed)
    BY RankIsPosition
  <2>2. Listed[Rank(d)] \in committed /\ Rank(Listed[Rank(d)]) = Rank(d)
    BY <1>2, <2>1
  <2> QED
    BY <2>2, RankIsPosition
<1> QED
  BY <1>2, <1>4, <1>5

-----------------------------------------------------------------------------
(* A page.                                                                 *)

LEMMA LimitIsLegal ==
  ASSUME Typed, Len(items) < MaxDocuments
  PROVE  Limit \in 1..MaxLimit /\ Limit <= MaxDocuments - Len(items)
<1>1. PICK l \in Nat : l = Len(items)
  BY LenProperties DEF Typed
<1> QED
  BY <1>1, SettingsArePositive DEF Limit, Least

\* A page is the stretch of the list behind the offset.
LEMMA PageIsAStretch ==
  ASSUME Typed, Len(items) < MaxDocuments
  PROVE  /\ Page \in Seq(committed)
         /\ Len(Page) \in 0..Limit
         /\ offset + Len(Page) <= Cardinality(committed)
         /\ \A i \in 1..Len(Page) : Page[i] = Listed[offset + i]
         /\ \A i \in 1..Len(Page) : Page[i] \in committed /\ Rank(Page[i]) = offset + i
<1>1. PICK n : n = Cardinality(committed)
  OBVIOUS
<1>2. /\ n \in Nat /\ Len(Listed) = n
      /\ \A i \in 1..n : Listed[i] \in committed /\ Rank(Listed[i]) = i
  BY <1>1, CommittedIsFinite, ListIsOfRanks DEF Typed
<1>3. PICK o : o = offset
  OBVIOUS
<1>4. o \in Nat /\ o <= n /\ Limit \in Nat /\ Limit >= 1
  <2>1. Limit \in 1..MaxLimit /\ MaxLimit \in Int
    BY LimitIsLegal, SettingsAreIntegers
  <2> QED
    BY <1>1, <1>3, <2>1, LenProperties DEF Typed
<1>5. PICK m : m = Least(o + Limit, n)
  OBVIOUS
<1>6. m \in Nat /\ o <= m /\ m <= n /\ m - o <= Limit
  BY <1>2, <1>4, <1>5 DEF Least
<1>7. Page = SubSeq(Listed, o + 1, m)
  BY <1>2, <1>3, <1>5 DEF Page
<1>8. \A i \in o + 1..m : Listed[i] \in committed
  BY <1>2, <1>4, <1>6
<1>9. o + 1 \in Int /\ m \in Int
  BY <1>4, <1>6
<1>10. /\ Page \in Seq(committed)
       /\ Len(Page) = IF o + 1 <= m THEN m - (o + 1) + 1 ELSE 0
       /\ \A i \in 1..m - (o + 1) + 1 : Page[i] = Listed[o + 1 + i - 1]
  BY <1>7, <1>8, <1>9, SubSeqProperties
<1>11. Len(Page) = m - o
  BY <1>4, <1>6, <1>10
<1>12. \A i \in 1..m - o : Page[i] = Listed[o + i]
  BY <1>4, <1>6, <1>10
<1>13. \A i \in 1..m - o : o + i \in 1..n
  BY <1>2, <1>4, <1>6
<1> HIDE DEF Page, Limit
<1> QED
  BY <1>1, <1>2, <1>3, <1>4, <1>6, <1>10, <1>11, <1>12, <1>13

LEMMA ConcatFacts ==
  ASSUME NEW S, NEW a \in Seq(S), NEW b \in Seq(S)
  PROVE  /\ a \o b \in Seq(S)
         /\ Len(a \o b) = Len(a) + Len(b)
         /\ \A i \in 1..Len(a) : (a \o b)[i] = a[i]
         /\ \A i \in 1..Len(b) : (a \o b)[Len(a) + i] = b[i]
<1>1. PICK c : c = a \o b
  OBVIOUS
<1>2. /\ c \in Seq(S) /\ Len(c) = Len(a) + Len(b)
      /\ \A i \in 1..Len(a) + Len(b) : c[i] = IF i <= Len(a) THEN a[i] ELSE b[i - Len(a)]
  BY <1>1, ConcatProperties
<1>3. Len(a) \in Nat /\ Len(b) \in Nat
  BY LenProperties
<1>4. \A i \in 1..Len(a) : c[i] = a[i]
  BY <1>2, <1>3
<1>5. ASSUME NEW i \in 1..Len(b)
      PROVE  c[Len(a) + i] = b[i]
  <2>1. /\ Len(a) + i \in 1..Len(a) + Len(b) /\ ~(Len(a) + i <= Len(a))
        /\ Len(a) + i - Len(a) = i
    BY <1>3
  <2> QED
    BY <1>2, <2>1
<1> QED
  BY <1>1, <1>2, <1>4, <1>5, Zenon

\* What the arrival of a page does to the items.
PageArrives ==
  /\ items' \in Seq(Items)
  /\ Len(items') = Len(items) + Len(Page)
  /\ Len(items') <= MaxDocuments /\ Len(items') <= Cardinality(committed)
  /\ \A i \in 1..Len(items) : items'[i] = items[i]
  /\ \A i \in Len(items) + 1..Len(items') :
       /\ items'[i].document \in committed
       /\ Rank(items'[i].document) = i
       /\ items'[i].status = status[items'[i].document]
  /\ offset' = Len(items')
  /\ total' = counted
  /\ \/ phase' = "done"
     \/ phase' = "count" /\ Len(items') < MaxDocuments
  /\ phase = "select"
  /\ UNCHANGED <<tableVars, counted, startVars>>

LEMMA ReadIsTyped ==
  ASSUME Typed, Len(items) < MaxDocuments
  PROVE  /\ Read \in Seq(Items) /\ Len(Read) = Len(Page)
         /\ \A i \in 1..Len(Page) : Read[i] = [document |-> Page[i], status |-> status[Page[i]]]
<1>1. Page \in Seq(committed) /\ \A i \in 1..Len(Page) : Page[i] \in committed
  BY PageIsAStretch
<1>2. committed \subseteq Documents
  BY CommittedIsFinite DEF Typed
<1>3. Len(Page) \in Nat /\ DOMAIN Page = 1..Len(Page)
  BY <1>1, LenProperties
<1> HIDE DEF Page
<1>4. \A i \in 1..Len(Page) : Read[i] = [document |-> Page[i], status |-> status[Page[i]]]
  BY <1>3 DEF Read
<1>5. Read \in [1..Len(Page) -> Items]
  BY <1>1, <1>2, <1>3 DEF Read, Items, Typed
<1>6. Read \in Seq(Items) /\ Len(Read) = Len(Page)
  BY <1>3, <1>5, SeqDef, LenProperties
<1> QED
  BY <1>4, <1>6

LEMMA SelectPageAppends ==
  ASSUME Typed, SelectPage
  PROVE  PageArrives
<1>1. phase = "select" /\ Len(items) < MaxDocuments /\ items \in Seq(Items) /\ offset = Len(items)
  BY DEF SelectPage, Loop, Typed
<1>2. Read \in Seq(Items) /\ Len(Read) = Len(Page)
      /\ \A i \in 1..Len(Page) : Read[i] = [document |-> Page[i], status |-> status[Page[i]]]
  BY <1>1, ReadIsTyped
<1>3. PICK c : c = items \o Read
  OBVIOUS
<1>3a. /\ c \in Seq(Items)
       /\ Len(c) = Len(items) + Len(Read)
       /\ \A i \in 1..Len(items) : c[i] = items[i]
       /\ \A i \in 1..Len(Read) : c[Len(items) + i] = Read[i]
  <2>1. items \in Seq(Items) /\ Read \in Seq(Items)
    BY <1>1, <1>2
  <2> QED
    BY <1>3, <2>1, ConcatFacts
<1>3b. Len(items) \in Nat /\ Len(Read) \in Nat
  BY <1>1, <1>2, LenProperties
<1>4. items' = c
  BY <1>3 DEF SelectPage, Loop
<1>5. /\ offset' = offset + Len(Page) /\ total' = counted
      /\ UNCHANGED <<tableVars, counted, startVars>>
  BY DEF SelectPage, Loop
<1>6. \/ phase' = "done"
      \/ phase' = "count" /\ Len(items') < MaxDocuments
  BY DEF SelectPage, Loop
<1>7. /\ Len(Page) \in 0..Limit /\ offset + Len(Page) <= Cardinality(committed)
      /\ \A i \in 1..Len(Page) : Page[i] \in committed /\ Rank(Page[i]) = offset + i
  BY <1>1, PageIsAStretch
<1>8. Limit \in Int /\ Limit <= MaxDocuments - Len(items) /\ MaxDocuments \in Int
  BY <1>1, LimitIsLegal, SettingsArePositive
<1> HIDE DEF Page, Limit, Read
<1>9. PICK l : l = Len(items)
  OBVIOUS
<1>10. ASSUME NEW i \in l + 1..Len(c)
       PROVE  /\ c[i].document \in committed
              /\ Rank(c[i].document) = i
              /\ c[i].status = status[c[i].document]
  <2>1. PICK k \in 1..Len(Page) : i = l + k
    <3>1. i - l \in 1..Len(Page) /\ i = l + (i - l)
      BY <1>2, <1>3a, <1>3b, <1>9, <1>10
    <3> QED
      BY <3>1
  <2>2. c[i] = Read[k]
    BY <1>2, <1>3a, <1>3b, <1>9, <2>1
  <2>3. c[i] = [document |-> Page[k], status |-> status[Page[k]]]
    BY <1>2, <2>2
  <2>4. c[i].document = Page[k] /\ c[i].status = status[Page[k]]
    BY <2>3
  <2> QED
    BY <1>1, <1>7, <1>9, <2>1, <2>4
<1>11. Len(c) <= MaxDocuments /\ Len(c) <= Cardinality(committed) /\ Len(c) = offset + Len(Page)
  BY <1>1, <1>2, <1>3a, <1>3b, <1>7, <1>8
<1>12. Len(items') = Len(items) + Len(Page) /\ \A i \in 1..Len(items) : items'[i] = items[i]
  BY <1>2, <1>3a, <1>3b, <1>4
<1>13. \A i \in Len(items) + 1..Len(items') :
         /\ items'[i].document \in committed
         /\ Rank(items'[i].document) = i
         /\ items'[i].status = status[items'[i].document]
  BY <1>4, <1>9, <1>10
<1> QED
  BY <1>1, <1>3a, <1>4, <1>5, <1>6, <1>11, <1>12, <1>13 DEF PageArrives

-----------------------------------------------------------------------------
(* What one step can do, in one place.                                     *)

\* What everything but a page does to the summary.
SummaryMove ==
  /\ UNCHANGED <<items, offset, total>>
  /\ \/ /\ UNCHANGED <<phase, counted, atStart>>
        /\ \/ UNCHANGED <<status, had>>
           \/ \E d \in Documents, s \in DocumentStatuses :
                /\ status' = [status EXCEPT ![d] = s]
                /\ had' = [had EXCEPT ![d] = @ \cup {s}]
     \/ /\ phase = "idle" /\ phase' = "count" /\ UNCHANGED <<counted, status>>
        /\ atStart' = committed
        /\ had' = [d \in Documents |-> {status[d]}]
     \/ /\ phase = "count" /\ phase' = "select" /\ counted' = Cardinality(committed)
        /\ UNCHANGED <<status, had, atStart>>
     \/ phase' = "failed" /\ phase # "idle" /\ UNCHANGED <<counted, status, had, atStart>>

TableMove ==
  \/ UNCHANGED <<created, committed>>
  \/ /\ UNCHANGED <<committed, phase, loopVars, startVars>>
     /\ created' = created + 1 /\ created < MaxUploads
  \/ /\ UNCHANGED <<created, phase, loopVars, startVars>>
     /\ \E d \in 1..created \ committed : committed' = committed \cup {d}

LEMMA StepsAreSummarised ==
  ASSUME Typed, [Next]_vars
  PROVE  TableMove /\ (PageArrives \/ SummaryMove)
<1>1. CASE UNCHANGED vars
  BY <1>1 DEF vars, tableVars, loopVars, startVars, TableMove, SummaryMove
<1>2. CASE BeginUpload
  BY <1>2 DEF BeginUpload, loopVars, startVars, TableMove, SummaryMove
<1>3. ASSUME NEW d \in Documents, CommitUpload(d)
      PROVE  TableMove /\ SummaryMove
  BY <1>3 DEF CommitUpload, loopVars, startVars, TableMove, SummaryMove
<1>4. ASSUME NEW d \in Documents, NEW s \in DocumentStatuses, MoveStatus(d, s)
      PROVE  TableMove /\ SummaryMove
  BY <1>4 DEF MoveStatus, loopVars, TableMove, SummaryMove
<1>5. CASE AskForSummary
  BY <1>5 DEF AskForSummary, tableVars, loopVars, TableMove, SummaryMove
<1>6. CASE CountDocuments
  BY <1>6 DEF CountDocuments, tableVars, startVars, TableMove, SummaryMove
<1>7. CASE SelectPage
  BY <1>7, SelectPageAppends DEF PageArrives, tableVars, TableMove
<1>8. CASE PageFails
  BY <1>8 DEF PageFails, tableVars, loopVars, startVars, TableMove, SummaryMove
<1> QED
  BY <1>1, <1>2, <1>3, <1>4, <1>5, <1>6, <1>7, <1>8 DEF Next, SummaryStep

\* Documents are only added to the table, and move no other one to the front.
LEMMA TableGrows ==
  ASSUME Typed, TableMove
  PROVE  /\ created' \in 0..MaxUploads /\ committed' \in SUBSET (1..created')
         /\ committed \subseteq committed'
         /\ Cardinality(committed) \in Nat /\ Cardinality(committed') \in Nat
         /\ Cardinality(committed) <= Cardinality(committed')
         /\ \A d \in committed : Rank(d) \in Nat /\ Rank(d)' \in Nat /\ Rank(d) <= Rank(d)'
<1>1. /\ created' \in 0..MaxUploads /\ committed' \in SUBSET (1..created')
      /\ committed \subseteq committed'
  <2>1. created \in Nat /\ MaxUploads \in Nat /\ committed \in SUBSET (1..created)
    BY SettingsAreIntegers DEF Typed
  <2>2. CASE created' = created
    BY <2>1, <2>2 DEF Typed, TableMove
  <2>3. CASE created' = created + 1 /\ created < MaxUploads /\ committed' = committed
    BY <2>1, <2>3
  <2> QED
    BY <2>2, <2>3 DEF TableMove
<1>2. IsFiniteSet(committed) /\ Cardinality(committed) \in Nat
  BY CommittedIsFinite DEF Typed
<1>3. IsFiniteSet(committed')
  <2>1. created' \in Int /\ 1 \in Int
    BY <1>1
  <2>2. IsFiniteSet(1..created')
    BY <2>1, FS_Interval
  <2> QED
    BY <1>1, <2>2, FS_Subset
<1>4. Cardinality(committed') \in Nat /\ Cardinality(committed) <= Cardinality(committed')
  BY <1>1, <1>3, FS_Subset, FS_CardinalityType
<1>5. ASSUME NEW d \in committed
      PROVE  Rank(d) \in Nat /\ Rank(d)' \in Nat /\ Rank(d) <= Rank(d)'
  <2>1. /\ {e \in committed : e >= d} \in SUBSET {e \in committed' : e >= d}
        /\ {e \in committed' : e >= d} \in SUBSET committed'
    BY <1>1
  <2>2. IsFiniteSet({e \in committed' : e >= d})
    BY <1>3, <2>1, FS_Subset
  <2> QED
    BY <2>1, <2>2, FS_Subset, FS_CardinalityType DEF Rank
<1> QED
  BY <1>1, <1>2, <1>4, <1>5

-----------------------------------------------------------------------------
(* The invariant.                                                          *)

LEMMA NoItems ==
  ASSUME items = <<>>
  PROVE  DOMAIN items = {} /\ Len(items) = 0 /\ Aggregated = {} /\ items \in Seq(Items)
BY DEF Aggregated

LEMMA InvInit == Init => IInv
<1> SUFFICES ASSUME Init PROVE IInv
  OBVIOUS
<1>1. DOMAIN items = {} /\ Len(items) = 0 /\ Aggregated = {} /\ items \in Seq(Items)
  BY NoItems DEF Init
<1>2. IsFiniteSet({}) /\ Cardinality({}) = 0
  BY FS_EmptySet
<1>3. Typed
  BY <1>1, <1>2, SettingsArePositive, SettingsAreIntegers DEF Init, Typed, Statuses
<1> QED
  BY <1>1, <1>3 DEF Init, IInv, NothingIsBehind, StartIsCounted, QuietItemsAreListed, StatusesWereHad

\* What was aggregated stays so, and a page adds what it holds.
LEMMA PageIsAggregated ==
  ASSUME Typed, PageArrives
  PROVE  /\ Aggregated \subseteq Aggregated' /\ Aggregated' \subseteq committed
         /\ \A i \in DOMAIN items' :
              \/ i \in DOMAIN items /\ items'[i] = items[i]
              \/ /\ i \in Len(items) + 1..Len(items')
                 /\ items'[i].document \in committed
                 /\ Rank(items'[i].document) = i
                 /\ items'[i].status = status[items'[i].document]
<1>1. PICK l \in Nat : l = Len(items)
  BY LenProperties DEF Typed
<1>2. PICK m \in Nat : m = Len(items') /\ l <= m
  <2>1. Len(Page) \in Nat /\ Len(items') = l + Len(Page)
    <3>1. Len(items) < MaxDocuments
      BY DEF PageArrives, Typed
    <3>2. Page \in Seq(committed)
      BY <3>1, PageIsAStretch
    <3> HIDE DEF Page
    <3> QED
      BY <1>1, <3>2, LenProperties DEF PageArrives
  <2> QED
    BY <2>1
<1>3. DOMAIN items = 1..l /\ DOMAIN items' = 1..m
  BY <1>1, <1>2, LenProperties DEF Typed, PageArrives
<1>4. \A i \in 1..m : i \in 1..l \/ i \in l + 1..m
  BY <1>1, <1>2
<1>5. \A i \in 1..l : i \in 1..m /\ items'[i] = items[i]
  BY <1>1, <1>2 DEF PageArrives
<1>6. \A i \in l + 1..m : /\ items'[i].document \in committed
                          /\ Rank(items'[i].document) = i
                          /\ items'[i].status = status[items'[i].document]
  BY <1>1, <1>2 DEF PageArrives
<1>7. Aggregated \subseteq Aggregated'
  BY <1>3, <1>5 DEF Aggregated
<1>8. Aggregated' \subseteq committed
  <2> SUFFICES ASSUME NEW i \in 1..m PROVE items'[i].document \in committed
    BY <1>3 DEF Aggregated
  <2>1. CASE i \in 1..l
    BY <1>3, <1>5, <2>1 DEF Typed, Aggregated
  <2>2. CASE i \in l + 1..m
    BY <1>6, <2>2
  <2> QED
    BY <1>4, <2>1, <2>2
<1> QED
  BY <1>1, <1>2, <1>3, <1>4, <1>5, <1>6, <1>7, <1>8

LEMMA TypedStep ==
  ASSUME Typed, TableMove, PageArrives \/ SummaryMove
  PROVE  Typed'
<1>1. /\ created' \in 0..MaxUploads /\ committed' \in SUBSET (1..created')
      /\ committed \subseteq committed'
      /\ Cardinality(committed) \in Nat /\ Cardinality(committed') \in Nat
      /\ Cardinality(committed) <= Cardinality(committed')
  BY TableGrows
<1>2. Len(items) \in Nat /\ MaxDocuments \in Int /\ MaxDocuments >= 1
  BY SettingsArePositive, LenProperties DEF Typed
<1>3. CASE PageArrives
  <2>1. Aggregated' \subseteq committed'
    BY <1>3, PageIsAggregated DEF PageArrives, tableVars
  <2>2. Len(items') \in Nat
    BY <1>3, LenProperties DEF PageArrives
  <2>3. UNCHANGED <<created, committed, status, had, counted, atStart>>
    BY <1>3 DEF PageArrives, tableVars, startVars
  <2>4. total' = counted /\ counted \in Nat
    BY <1>1, <1>3 DEF PageArrives, Typed
  <2> QED
    BY <1>1, <1>3, <2>1, <2>2, <2>3, <2>4 DEF PageArrives, Typed
<1>4. CASE SummaryMove
  <2>1. UNCHANGED <<items, offset, total>> /\ Aggregated' = Aggregated
    BY <1>4 DEF SummaryMove, Aggregated
  <2>2. status' \in [Documents -> Statuses] /\ had' \in [Documents -> SUBSET Statuses]
    <3>1. CASE UNCHANGED <<status, had>>
      BY <3>1 DEF Typed
    <3>2. ASSUME NEW d \in Documents, NEW s \in DocumentStatuses,
                 status' = [status EXCEPT ![d] = s], had' = [had EXCEPT ![d] = @ \cup {s}]
          PROVE  status' \in [Documents -> Statuses] /\ had' \in [Documents -> SUBSET Statuses]
      BY <3>2 DEF Typed, Statuses
    <3>3. CASE status' = status /\ had' = [d \in Documents |-> {status[d]}]
      BY <3>3 DEF Typed
    <3> QED
      BY <1>4, <3>1, <3>2, <3>3 DEF SummaryMove
  <2>3. atStart' \in SUBSET committed'
    BY <1>1, <1>4 DEF SummaryMove, Typed
  <2>4. counted' \in 0..Cardinality(committed') /\ total' \in 0..counted'
    <3>1. counted \in Nat /\ total \in Nat /\ total <= counted /\ counted <= Cardinality(committed)
      BY <1>1 DEF Typed
    <3>2. counted' = counted \/ counted' = Cardinality(committed)
      BY <1>4 DEF SummaryMove
    <3> QED
      BY <1>1, <2>1, <3>1, <3>2
  <2>5. /\ phase' \in {"idle", "count", "select", "done", "failed"}
        /\ phase' = "idle" => items' = <<>>
        /\ phase' \in {"count", "select"} => Len(items') < MaxDocuments
    <3>1. CASE phase = "idle"
      <4>1. Len(items) = 0
        BY <3>1, NoItems DEF Typed
      <4> QED
        BY <1>2, <1>4, <2>1, <3>1, <4>1 DEF SummaryMove, Typed
    <3>2. CASE phase # "idle"
      BY <1>4, <2>1, <3>2 DEF SummaryMove, Typed
    <3> QED
      BY <3>1, <3>2
  <2> QED
    BY <1>1, <1>2, <2>1, <2>2, <2>3, <2>4, <2>5 DEF Typed
<1> QED
  BY <1>3, <1>4

LEMMA NothingIsBehindStep ==
  ASSUME Typed, NothingIsBehind, TableMove, PageArrives \/ SummaryMove
  PROVE  NothingIsBehind'
<1>1. /\ \A d \in committed : Rank(d) \in Nat /\ Rank(d)' \in Nat /\ Rank(d) <= Rank(d)'
      /\ \A d \in committed : Rank(d) >= 1
      /\ \A d, e \in committed : Rank(d) = Rank(e) => d = e
  <2>1. \A d \in committed : Rank(d) \in Nat /\ Rank(d)' \in Nat /\ Rank(d) <= Rank(d)'
    BY TableGrows
  <2>2. /\ \A d \in committed : Rank(d) \in 1..Cardinality(committed)
        /\ \A d, e \in committed : Rank(d) = Rank(e) => d = e
    BY RankIsPosition DEF Typed
  <2> QED
    BY <2>1, <2>2
<1>2. CASE PageArrives
  <2> SUFFICES ASSUME NEW d \in atStart, d \notin Aggregated'
               PROVE  Rank(d)' > offset'
    BY <1>2 DEF NothingIsBehind, PageArrives, startVars
  <2>1. d \in committed /\ d \notin Aggregated
    BY <1>2, PageIsAggregated DEF Typed
  <2>2. PICK k \in Nat : k = Rank(d)
    BY <1>1, <2>1
  <2>3. PICK l \in Nat : l = Len(items)
    BY LenProperties DEF Typed
  <2>4. PICK m \in Nat : m = Len(items') /\ DOMAIN items' = 1..m
    BY <1>2, LenProperties DEF PageArrives
  <2>5. k > l
    BY <2>1, <2>2, <2>3 DEF NothingIsBehind, Typed
  <2>6. ASSUME k <= m
        PROVE  FALSE
    <3>1. k \in l + 1..m /\ k \in 1..m
      BY <2>5, <2>6
    <3>2. items'[k].document \in committed /\ Rank(items'[k].document) = k
      BY <1>2, <2>3, <2>4, <3>1 DEF PageArrives
    <3>3. items'[k].document = d
      BY <1>1, <2>1, <2>2, <3>2
    <3> QED
      BY <2>4, <3>1, <3>3 DEF Aggregated
  <2>7. Rank(d)' = k /\ offset' = m
    BY <1>2, <2>2, <2>4 DEF PageArrives, tableVars, Rank
  <2> QED
    BY <2>6, <2>7
<1>3. CASE SummaryMove
  <2>1. Aggregated' = Aggregated /\ offset' = offset /\ offset \in Nat
    BY <1>3, LenProperties DEF SummaryMove, Aggregated, Typed
  <2>2. CASE atStart' = atStart
    <3> SUFFICES ASSUME NEW d \in atStart, d \notin Aggregated
                 PROVE  Rank(d)' > offset
      BY <2>1, <2>2 DEF NothingIsBehind
    <3>1. d \in committed /\ Rank(d) > offset
      BY DEF NothingIsBehind, Typed
    <3>2. PICK j \in Nat, k \in Nat : j = Rank(d) /\ k = Rank(d)' /\ j <= k
      BY <1>1, <3>1
    <3> QED
      BY <2>1, <3>1, <3>2
  <2>3. CASE phase = "idle" /\ atStart' = committed
    <3>1. offset = 0
      BY <2>3, NoItems DEF Typed
    <3> SUFFICES ASSUME NEW d \in committed
                 PROVE  Rank(d)' > 0
      BY <2>1, <2>3, <3>1 DEF NothingIsBehind
    <3>2. PICK j \in Nat, k \in Nat : j = Rank(d) /\ k = Rank(d)' /\ j <= k /\ j >= 1
      BY <1>1
    <3> QED
      BY <3>2
  <2> QED
    BY <1>3, <2>2, <2>3 DEF SummaryMove
<1> QED
  BY <1>2, <1>3

LEMMA StartIsCountedStep ==
  ASSUME Typed, StartIsCounted, PageArrives \/ SummaryMove
  PROVE  StartIsCounted'
<1>1. IsFiniteSet(committed) /\ Cardinality(committed) \in Nat
  BY CommittedIsFinite DEF Typed
<1>2. Cardinality(atStart) <= Cardinality(committed)
  BY <1>1, FS_Subset DEF Typed
<1>3. CASE PageArrives
  BY <1>3 DEF PageArrives, startVars, StartIsCounted
<1>4. CASE SummaryMove
  BY <1>2, <1>4 DEF SummaryMove, StartIsCounted
<1> QED
  BY <1>3, <1>4

LEMMA QuietItemsAreListedStep ==
  ASSUME Typed, QuietItemsAreListed, TableMove, PageArrives \/ SummaryMove
  PROVE  QuietItemsAreListed'
<1> SUFFICES ASSUME committed' = atStart', NEW i \in DOMAIN items'
             PROVE  (Rank(items[i].document) = i)'
  BY DEF QuietItemsAreListed
<1>1. CASE PageArrives
  <2>1. committed' = committed /\ committed = atStart
    BY <1>1 DEF PageArrives, tableVars, startVars
  <2>2. Rank(items'[i].document) = i
    <3>1. CASE i \in DOMAIN items /\ items'[i] = items[i]
      BY <2>1, <3>1 DEF QuietItemsAreListed
    <3>2. CASE Rank(items'[i].document) = i
      BY <3>2
    <3> QED
      BY <1>1, <3>1, <3>2, PageIsAggregated
  <2> QED
    BY <2>1, <2>2 DEF Rank
<1>2. CASE SummaryMove
  <2>1. items' = items
    BY <1>2 DEF SummaryMove
  <2>2. CASE phase = "idle"
    <3>1. DOMAIN items = {}
      BY <2>2, NoItems DEF Typed
    <3> QED
      BY <2>1, <3>1
  <2>3. CASE phase # "idle"
    <3>1. atStart' = atStart /\ atStart \subseteq committed
      BY <1>2, <2>3 DEF SummaryMove, Typed
    <3>2. committed' = committed
      BY <3>1 DEF TableMove
    <3> QED
      BY <2>1, <3>1, <3>2 DEF QuietItemsAreListed, Rank
  <2> QED
    BY <2>2, <2>3
<1> QED
  BY <1>1, <1>2

LEMMA StatusesWereHadStep ==
  ASSUME Typed, StatusesWereHad, PageArrives \/ SummaryMove
  PROVE  StatusesWereHad'
<1>1. CASE PageArrives
  <2>1. status' = status /\ had' = had /\ phase # "idle"
    BY <1>1 DEF PageArrives, tableVars, startVars
  <2>2. ASSUME NEW i \in DOMAIN items'
        PROVE  items'[i].status \in had[items'[i].document]
    <3>1. CASE i \in DOMAIN items /\ items'[i] = items[i]
      BY <3>1 DEF StatusesWereHad
    <3>2. CASE items'[i].document \in committed /\ items'[i].status = status[items'[i].document]
      <4>1. items'[i].document \in Documents
        BY <3>2, CommittedIsFinite DEF Typed
      <4> QED
        BY <2>1, <3>2, <4>1 DEF StatusesWereHad
    <3> QED
      BY <1>1, <3>1, <3>2, PageIsAggregated
  <2> QED
    BY <2>1, <2>2 DEF StatusesWereHad
<1>2. CASE SummaryMove
  <2>1. items' = items
    BY <1>2 DEF SummaryMove
  <2>2. CASE phase = "idle"
    <3>1. DOMAIN items = {}
      BY <2>2, NoItems DEF Typed
    <3>2. \/ phase' = "idle"
          \/ status' = status /\ had' = [d \in Documents |-> {status[d]}]
      BY <1>2, <2>2 DEF SummaryMove
    <3> QED
      BY <2>1, <3>1, <3>2 DEF StatusesWereHad
  <2>3. CASE phase # "idle"
    <3>1. /\ \A d \in Documents : had[d] \subseteq had'[d]
          /\ \A d \in Documents : status'[d] \in had'[d]
      <4>1. CASE UNCHANGED <<status, had>>
        BY <2>3, <4>1 DEF StatusesWereHad
      <4>2. ASSUME NEW d \in Documents, NEW s \in DocumentStatuses,
                   status' = [status EXCEPT ![d] = s], had' = [had EXCEPT ![d] = @ \cup {s}]
            PROVE  /\ \A e \in Documents : had[e] \subseteq had'[e]
                   /\ \A e \in Documents : status'[e] \in had'[e]
        BY <2>3, <4>2 DEF StatusesWereHad, Typed
      <4> QED
        BY <1>2, <2>3, <4>1, <4>2 DEF SummaryMove
    <3>2. \A i \in DOMAIN items : items[i].document \in Documents
      BY CommittedIsFinite DEF Typed, Aggregated
    <3> QED
      BY <2>1, <3>1, <3>2 DEF StatusesWereHad
  <2> QED
    BY <2>2, <2>3
<1> QED
  BY <1>1, <1>2

LEMMA InvStep == IInv /\ [Next]_vars => IInv'
<1> SUFFICES ASSUME IInv, [Next]_vars PROVE IInv'
  OBVIOUS
<1>1. Typed /\ TableMove /\ (PageArrives \/ SummaryMove)
  BY StepsAreSummarised DEF IInv
<1>2. Typed' /\ NothingIsBehind'
  BY <1>1, TypedStep, NothingIsBehindStep DEF IInv
<1>3. StartIsCounted' /\ QuietItemsAreListed' /\ StatusesWereHad'
  BY <1>1, StartIsCountedStep, QuietItemsAreListedStep, StatusesWereHadStep DEF IInv
<1> QED
  BY <1>2, <1>3 DEF IInv

LEMMA Invariance == Spec => []IInv
BY InvInit, InvStep, PTL DEF Spec

-----------------------------------------------------------------------------
(* What the invariant says of the summary.                                 *)

\* Every reachable state is well typed, and no page is asked for that
\* list_documents refuses.
THEOREM TypeCorrect == Spec => []TypeOK
<1>1. IInv => TypeOK
  BY LimitIsLegal DEF IInv, Typed, TypeOK
<1> QED
  BY <1>1, Invariance, PTL

\* However documents are uploaded while the pages are read, none that was there
\* from the start is skipped.
THEOREM NothingSkipped == Spec => []NothingIsSkipped
<1>1. IInv => NothingIsSkipped
  <2> SUFFICES ASSUME IInv, NEW d \in atStart, d \notin Aggregated
               PROVE  \E i \in offset + 1..Len(Listed) : Listed[i] = d
    BY DEF NothingIsSkipped
  <2>1. d \in committed /\ Rank(d) > offset /\ offset \in Nat
    BY LenProperties DEF IInv, Typed, NothingIsBehind
  <2>2. Rank(d) \in 1..Cardinality(committed) /\ Listed[Rank(d)] = d
        /\ Len(Listed) = Cardinality(committed) /\ Cardinality(committed) \in Nat
    BY <2>1, RankIsPosition, ListIsOfRanks, CommittedIsFinite DEF IInv, Typed
  <2>3. Rank(d) \in offset + 1..Len(Listed)
    BY <2>1, <2>2
  <2> QED
    BY <2>2, <2>3
<1> QED
  BY <1>1, Invariance, PTL

\* A summary of more documents than it may aggregate never claims to be complete.
THEOREM TooManyIncomplete == Spec => []TooManyIsIncomplete
<1>1. IInv => TooManyIsIncomplete
  <2> SUFFICES ASSUME IInv, phase = "done", Cardinality(atStart) > MaxDocuments
               PROVE  ~is_complete
    BY DEF TooManyIsIncomplete
  <2>1. Cardinality(atStart) <= total /\ Len(items) <= MaxDocuments
    BY DEF IInv, Typed, StartIsCounted
  <2>2. IsFiniteSet(committed) /\ atStart \in SUBSET committed
    BY CommittedIsFinite DEF IInv, Typed
  <2>3. Cardinality(atStart) \in Nat
    BY <2>2, FS_Subset, FS_CardinalityType
  <2>4. Len(items) \in Nat /\ total \in Int /\ MaxDocuments \in Int
    BY LenProperties, SettingsArePositive DEF IInv, Typed
  <2> QED
    BY <2>1, <2>3, <2>4 DEF is_complete
<1> QED
  BY <1>1, Invariance, PTL

\* The items of a complete, undisturbed summary are the list.
LEMMA QuietSummaryIsTheList ==
  ASSUME IInv, phase = "done", committed = atStart, is_complete
  PROVE  /\ Len(items) = Cardinality(committed)
         /\ DOMAIN items = 1..Cardinality(committed)
         /\ \A i \in DOMAIN items : items[i].document \in committed
         /\ \A i \in DOMAIN items : Rank(items[i].document) = i
         /\ \A i \in DOMAIN items : items[i].document = Listed[i]
         /\ Aggregated = committed
<1>1. /\ Len(items) \in Nat /\ Len(items) <= Cardinality(committed)
      /\ DOMAIN items = 1..Len(items)
      /\ Cardinality(committed) \in Nat
  BY LenProperties, CommittedIsFinite DEF IInv, Typed
<1>2. Len(items) >= total /\ total >= Cardinality(committed) /\ total \in Int
  BY <1>1 DEF IInv, Typed, StartIsCounted, is_complete
<1>3. Len(items) = Cardinality(committed)
  BY <1>1, <1>2
<1>4. \A i \in DOMAIN items : items[i].document \in committed /\ Rank(items[i].document) = i
  BY DEF IInv, Typed, Aggregated, QuietItemsAreListed
<1>5. \A i \in DOMAIN items : items[i].document = Listed[i]
  BY <1>4, ListIsOfRanks DEF IInv, Typed
<1>6. Aggregated = committed
  <2>1. \A d \in committed : Rank(d) \in DOMAIN items /\ Listed[Rank(d)] = d
    BY <1>1, <1>3, RankIsPosition, ListIsOfRanks DEF IInv, Typed
  <2>2. \A d \in committed : items[Rank(d)].document = d
    BY <1>5, <2>1
  <2> QED
    BY <1>4, <2>1, <2>2 DEF Aggregated
<1> QED
  BY <1>1, <1>3, <1>4, <1>5, <1>6

\* With no upload committed in between, a complete summary is of every document
\* once, and its recent documents are the newest.
THEOREM QuietSummaryExact == Spec => []QuietSummaryIsExact
<1>1. IInv => QuietSummaryIsExact
  <2> SUFFICES ASSUME IInv, phase = "done", committed = atStart, is_complete
               PROVE  /\ Aggregated = committed /\ Len(items) = Cardinality(committed)
                      /\ recent_documents = SubSeq(Listed, 1, Least(5, Len(Listed)))
    BY DEF QuietSummaryIsExact
  <2>1. PICK n \in Nat : n = Cardinality(committed)
    BY CommittedIsFinite DEF IInv, Typed
  <2>2. /\ Len(items) = n /\ DOMAIN items = 1..n /\ Aggregated = committed
        /\ \A i \in 1..n : items[i].document = Listed[i]
    BY <2>1, QuietSummaryIsTheList
  <2>3. Len(Listed) = n /\ \A i \in 1..n : Listed[i] \in committed
    BY <2>1, ListIsOfRanks DEF IInv, Typed
  <2>4. PICK k \in Nat : k = Least(5, n) /\ k <= n
    BY DEF Least
  <2>5. PICK s : s = SubSeq(Listed, 1, k)
    OBVIOUS
  <2>6. 1 \in Int /\ k \in Int /\ \A i \in 1..k : Listed[i] \in committed
    BY <2>3, <2>4
  <2>7. /\ s \in Seq(committed) /\ Len(s) = IF 1 <= k THEN k - 1 + 1 ELSE 0
        /\ \A i \in 1..k - 1 + 1 : s[i] = Listed[1 + i - 1]
    BY <2>5, <2>6, SubSeqProperties
  <2>8. Len(s) = k /\ \A i \in 1..k : s[i] = Listed[i]
    BY <2>4, <2>7
  <2>9. recent_documents = [i \in 1..k |-> items[i].document]
    BY <2>2, <2>4 DEF recent_documents
  <2>10. s = [i \in 1..k |-> s[i]]
    BY <2>7, <2>8, LenProperties
  <2>11. \A i \in 1..k : s[i] = items[i].document
    BY <2>2, <2>4, <2>8
  <2>12. recent_documents = s
    BY <2>9, <2>10, <2>11
  <2> QED
    BY <2>1, <2>2, <2>3, <2>4, <2>5, <2>12
<1> QED
  BY <1>1, Invariance, PTL

\* In a complete, undisturbed summary a status is counted once for each document
\* it was read of.
LEMMA CountIsOfDocuments ==
  ASSUME IInv, phase = "done", committed = atStart, is_complete, NEW s,
         NEW D, D = {items[i].document : i \in {j \in DOMAIN items : items[j].status = s}}
  PROVE  by_status(s) = Cardinality(D)
<1> DEFINE I == {j \in DOMAIN items : items[j].status = s}
           f == [i \in I |-> items[i].document]
<1>1. IsFiniteSet(I)
  <2>1. PICK n \in Nat : DOMAIN items = 1..n
    BY QuietSummaryIsTheList, CommittedIsFinite DEF IInv, Typed
  <2>2. 1 \in Int /\ n \in Int
    OBVIOUS
  <2>3. IsFiniteSet(1..n)
    BY <2>2, FS_Interval
  <2> QED
    BY <2>1, <2>3, FS_Subset
<1>2. f \in Surjection(I, D)
  BY DEF Surjection
<1>3. \A i, j \in I : items[i].document = items[j].document => i = j
  BY QuietSummaryIsTheList
<1>4. f \in Injection(I, D)
  BY <1>2, <1>3 DEF Injection, IsInjective, Surjection
<1>5. Cardinality(D) = Cardinality(I)
  BY <1>1, <1>2, <1>4, FS_Surjection
<1> QED
  BY <1>5 DEF by_status

\* A complete summary counts no status that nobody had meanwhile, and misses none
\* of those that had it throughout.
THEOREM CountsWitnessed == Spec => []CountsAreWitnessed
<1>1. IInv => CountsAreWitnessed
  <2> SUFFICES ASSUME IInv, phase = "done", committed = atStart, is_complete,
                      NEW s \in DocumentStatuses
               PROVE  by_status(s) \in Cardinality({d \in committed : had[d] = {s}})
                                       .. Cardinality({d \in committed : s \in had[d]})
    BY DEF CountsAreWitnessed
  <2>1. PICK D : D = {items[i].document : i \in {j \in DOMAIN items : items[j].status = s}}
    OBVIOUS
  <2>2. by_status(s) = Cardinality(D)
    BY <2>1, CountIsOfDocuments
  <2>3. \A i \in DOMAIN items : items[i].document \in committed
                                /\ items[i].status \in had[items[i].document]
    BY QuietSummaryIsTheList DEF IInv, StatusesWereHad
  <2>4. D \in SUBSET {d \in committed : s \in had[d]}
    BY <2>1, <2>3
  <2>5. {d \in committed : had[d] = {s}} \in SUBSET D
    <3> SUFFICES ASSUME NEW d \in committed, had[d] = {s} PROVE d \in D
      OBVIOUS
    <3>1. PICK i \in DOMAIN items : items[i].document = d
      BY QuietSummaryIsTheList DEF Aggregated
    <3>2. items[i].status = s
      BY <2>3, <3>1
    <3> QED
      BY <2>1, <3>1, <3>2
  <2>6. IsFiniteSet({d \in committed : s \in had[d]})
    BY CommittedIsFinite, FS_Subset DEF IInv, Typed
  <2>7. IsFiniteSet(D) /\ Cardinality(D) <= Cardinality({d \in committed : s \in had[d]})
    BY <2>4, <2>6, FS_Subset
  <2>8. /\ IsFiniteSet({d \in committed : had[d] = {s}})
        /\ Cardinality({d \in committed : had[d] = {s}}) <= Cardinality(D)
    BY <2>5, <2>7, FS_Subset
  <2>9. /\ Cardinality(D) \in Nat /\ Cardinality({d \in committed : had[d] = {s}}) \in Nat
        /\ Cardinality({d \in committed : s \in had[d]}) \in Nat
    BY <2>6, <2>7, <2>8, FS_CardinalityType
  <2> QED
    BY <2>2, <2>7, <2>8, <2>9
<1> QED
  BY <1>1, Invariance, PTL
=============================================================================
