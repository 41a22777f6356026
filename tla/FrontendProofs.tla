-------------------------- MODULE FrontendProofs --------------------------
(* Proofs about Frontend.  The sets of rows, lists, requests and pages are  *)
(* parameterised by the history of the rows, and grow with it: typing and  *)
(* the reality of what is shown are one invariant.                         *)
EXTENDS Frontend, TLAPS, SequenceTheorems

Statuses == {"UPLOADED", "PROCESSING"} \cup FinalStatuses
Histories == [Documents -> Seq(Statuses)]
RowType == [document : Documents, status : Statuses, version : Nat]

\* Rows of one write of h, with its status or with the PROCESSING of a click; rows
\* as they were; rows an event may bring.
Known(h) == {r \in RowType : r.version \in 1..Len(h[r.document])}
Reals(h) == {r \in Known(h) : r.status = h[r.document][r.version]}
Events(h) == {r \in Reals(h) : r.status \in FinalStatuses}

ShownLists(h) ==
  {l \in [Documents -> Known(h) \cup {None}] :
     \A d \in Documents : l[d] # None => l[d].document = d}
RealLists(h) == {l \in ShownLists(h) : \A d \in Documents : l[d] # None => l[d] \in Reals(h)}

Kinds == {"list", "detail", "url", "upload", "process", "summary", "foreign"}
HasRow == {"answered", "written", "declined"}
Stages == {"sent", "running"} \cup HasRow

CallType(h) ==
  [kind : Kinds, about : Documents \cup {None}, chosen : Documents \cup {None},
   stage : Stages, reply : RealLists(h) \cup Reals(h) \cup {None}]

\* A request about a document is about one that exists, an upload aside, and its
\* answer is a row of that document.
WellFormed(h, c) ==
  /\ c.kind \in {"list", "detail"} => c.stage \in {"sent", "answered"}
  /\ c.kind = "list" /\ c.stage = "answered" => c.reply \in RealLists(h)
  /\ c.kind # "list" => c.about \in Documents
  /\ c.kind \notin {"list", "upload"} => 1 <= Len(h[c.about])
  /\ c.kind # "list" /\ c.stage \in HasRow => c.reply \in Reals(h) /\ c.reply.document = c.about
  /\ c.kind \in {"process", "foreign"} /\ c.stage \in HasRow => c.reply.status \in FinalStatuses

CallsOf(h) == {c \in CallType(h) : WellFormed(h, c)}

Pages(h) ==
  [documents : ShownLists(h), listState : {"loading", "success", "error"},
   selectedDocumentId : Documents \cup {None}, selectedDocument : Reals(h) \cup {None},
   detailState : {"idle", "loading", "success", "error"},
   downloadUrl : Documents \cup {None}, downloading : BOOLEAN, uploading : BOOLEAN,
   processingIds : SUBSET Documents, notifications : Seq(Events(h))]

Typed ==
  /\ history \in Histories
  /\ calls \in Seq(CallsOf(history))
  /\ socket \in {"connecting", "connected"}
  /\ inbox \in Seq(Events(history))
  /\ socket = "connecting" => inbox = <<>>
  /\ page \in Pages(history)
  /\ Len(page.notifications) <= MaxNotifications
  /\ clicks \in 0..MaxClicks
  /\ newest \in {"in flight", "shown", "gone"}

\* A request that processes a document, and what goes with it on the page.
Mine(c) == c.kind \in {"process", "summary"}

Exclusive(cs, ids) ==
  /\ \A i \in 1..Len(cs) : Mine(cs[i]) => cs[i].about \in ids
  /\ \A i, j \in 1..Len(cs) : Mine(cs[i]) /\ Mine(cs[j]) /\ cs[i].about = cs[j].about => i = j
  /\ \A d \in ids : \E i \in 1..Len(cs) : Mine(cs[i]) /\ cs[i].about = d

-----------------------------------------------------------------------------
(* Sequences.                                                              *)

LEMMA RemovedAt ==
  ASSUME NEW S, NEW s \in Seq(S), NEW i \in 1..Len(s)
  PROVE  /\ RemoveAt(s, i) \in Seq(S)
         /\ Len(RemoveAt(s, i)) = Len(s) - 1
         /\ \A k \in 1..Len(s) - 1 : RemoveAt(s, i)[k] = s[IF k < i THEN k ELSE k + 1]
<1> DEFINE a == SubSeq(s, 1, i - 1)
           b == SubSeq(s, i + 1, Len(s))
<1>1. PICK n \in Nat : n = Len(s)
  OBVIOUS
<1>2. a \in Seq(S) /\ Len(a) = i - 1 /\ \A k \in 1..i - 1 : a[k] = s[k]
  <2>1. \A k \in 1..i - 1 : s[k] \in S
    BY <1>1, ElementOfSeq
  <2> QED
    BY <1>1, <2>1, SubSeqProperties
<1>3. b \in Seq(S) /\ Len(b) = n - i /\ \A k \in 1..n - i : b[k] = s[i + k]
  <2>1. \A k \in i + 1..n : s[k] \in S
    BY <1>1, ElementOfSeq
  <2>2. i + 1 \in Int /\ n \in Int
    BY <1>1
  <2>3. CASE i + 1 <= n + 1
    BY <1>1, <2>1, <2>2, SubSeqProperties
  <2> QED
    BY <1>1, <2>3
<1> HIDE DEF a, b
<1>4. RemoveAt(s, i) = a \o b
  BY DEF RemoveAt, a, b
<1>5. a \o b \in Seq(S) /\ Len(a \o b) = n - 1
  BY <1>1, <1>2, <1>3, ConcatProperties
<1>6. \A k \in 1..n - 1 : (a \o b)[k] = IF k <= i - 1 THEN a[k] ELSE b[k - (i - 1)]
  BY <1>1, <1>2, <1>3, ConcatProperties
<1>7. \A k \in 1..n - 1 : (a \o b)[k] = s[IF k < i THEN k ELSE k + 1]
  <2> SUFFICES ASSUME NEW k \in 1..n - 1
               PROVE  (a \o b)[k] = s[IF k < i THEN k ELSE k + 1]
    OBVIOUS
  <2>1. CASE k < i
    BY <1>1, <1>2, <1>6, <2>1
  <2>2. CASE k >= i
    <3>0. k \in Int /\ i \in Int /\ ~(k <= i - 1)
      BY <1>1, <2>2
    <3>1. (a \o b)[k] = b[k - (i - 1)]
      BY <1>6, <3>0
    <3>2. k - (i - 1) \in 1..n - i /\ i + (k - (i - 1)) = k + 1
      BY <1>1, <2>2
    <3> QED
      BY <1>3, <2>2, <3>1, <3>2
  <2>3. k < i \/ k >= i
    BY <1>1
  <2> QED
    BY <2>1, <2>2, <2>3, Zenon
<1> QED
  BY <1>1, <1>4, <1>5, <1>7

LEMMA TwoMore ==
  ASSUME NEW S, NEW s \in Seq(S), NEW x, NEW y
  PROVE  s \o <<x, y>> = Append(Append(s, x), y)
BY DEF Append

\* The news in the panel come from the panel before and from the event.
LEMMA NewsAreKept ==
  ASSUME NEW S, NEW e \in S, NEW ns \in Seq(S), NEW x \in Seq(S),
         Len(x) = 1 + Len(ns), x[1] = e, \A k \in 2..Len(x) : x[k] = ns[k - 1],
         NEW n \in Nat, 1 <= n, n <= Len(x)
  PROVE  /\ SubSeq(x, 1, n) \in Seq(S) /\ Len(SubSeq(x, 1, n)) = n
         /\ \A k \in 1..n : SubSeq(x, 1, n)[k] = e \/ \E j \in 1..Len(ns) : SubSeq(x, 1, n)[k] = ns[j]
<1> DEFINE ws == SubSeq(x, 1, n)
<1>1. \A k \in 1..n : x[k] \in S
  BY ElementOfSeq
<1>2. ws \in Seq(S) /\ Len(ws) = n /\ \A k \in 1..n : ws[k] = x[k]
  BY <1>1, SubSeqProperties
<1> HIDE DEF ws
<1>3. \A k \in 1..n : ws[k] = e \/ \E j \in 1..Len(ns) : ws[k] = ns[j]
  <2> SUFFICES ASSUME NEW k \in 1..n
               PROVE  ws[k] = e \/ \E j \in 1..Len(ns) : ws[k] = ns[j]
    OBVIOUS
  <2>1. CASE k = 1
    BY <1>2, <2>1
  <2>2. CASE k # 1
    <3>1. k \in 2..Len(x) /\ k - 1 \in 1..Len(ns)
      BY <2>2
    <3> QED
      BY <1>2, <3>1
  <2> QED
    BY <2>1, <2>2
<1> QED
  BY <1>2, <1>3 DEF ws

-----------------------------------------------------------------------------
(* Rows, lists, requests and pages stay what they are while rows are       *)
(* written.                                                                *)

Grown(h, g) ==
  \A d \in Documents : Len(h[d]) <= Len(g[d]) /\ \A k \in 1..Len(h[d]) : g[d][k] = h[d][k]

LEMMA RowsStay ==
  ASSUME NEW h \in Histories, NEW g \in Histories, Grown(h, g)
  PROVE  /\ Known(h) \subseteq Known(g) /\ Reals(h) \subseteq Reals(g)
         /\ Events(h) \subseteq Events(g)
         /\ ShownLists(h) \subseteq ShownLists(g) /\ RealLists(h) \subseteq RealLists(g)
<1>1. \A r \in Known(h) : r \in Known(g) /\ h[r.document][r.version] = g[r.document][r.version]
  <2> SUFFICES ASSUME NEW r \in Known(h)
               PROVE  r \in Known(g) /\ h[r.document][r.version] = g[r.document][r.version]
    OBVIOUS
  <2>1. r \in RowType /\ r.document \in Documents /\ r.version \in 1..Len(h[r.document])
    BY DEF Known, RowType
  <2>2. PICK d \in Documents : d = r.document
    BY <2>1
  <2>3. h[d] \in Seq(Statuses) /\ g[d] \in Seq(Statuses)
    BY DEF Histories
  <2> QED
    BY <2>1, <2>2, <2>3 DEF Known, Grown
<1>2. Reals(h) \subseteq Reals(g)
  BY <1>1 DEF Reals
<1>3. Events(h) \subseteq Events(g)
  BY <1>2 DEF Events
<1>4. ShownLists(h) \subseteq ShownLists(g)
  BY <1>1 DEF ShownLists
<1>5. RealLists(h) \subseteq RealLists(g)
  BY <1>2, <1>4 DEF RealLists
<1> QED
  BY <1>1, <1>2, <1>3, <1>4, <1>5

LEMMA CallsStay ==
  ASSUME NEW h \in Histories, NEW g \in Histories, Grown(h, g)
  PROVE  CallsOf(h) \subseteq CallsOf(g)
<1> SUFFICES ASSUME NEW c \in CallsOf(h)
             PROVE  c \in CallsOf(g)
  OBVIOUS
<1>1. Reals(h) \subseteq Reals(g) /\ RealLists(h) \subseteq RealLists(g)
  BY RowsStay
<1>2. c \in CallType(h) /\ WellFormed(h, c)
  BY DEF CallsOf
<1>3. c \in CallType(g)
  BY <1>1, <1>2 DEF CallType
<1>4. \A d \in Documents : 1 <= Len(h[d]) => 1 <= Len(g[d])
  <2> SUFFICES ASSUME NEW d \in Documents, 1 <= Len(h[d])
               PROVE  1 <= Len(g[d])
    OBVIOUS
  <2>1. h[d] \in Seq(Statuses) /\ g[d] \in Seq(Statuses)
    BY DEF Histories
  <2> QED
    BY <2>1 DEF Grown
<1>5. c.kind \notin {"list", "upload"} => 1 <= Len(g[c.about])
  BY <1>2, <1>4 DEF WellFormed
<1>6. WellFormed(g, c)
  BY <1>1, <1>2, <1>5 DEF WellFormed
<1> QED
  BY <1>3, <1>6 DEF CallsOf

LEMMA PagesStay ==
  ASSUME NEW h \in Histories, NEW g \in Histories, Grown(h, g)
  PROVE  Pages(h) \subseteq Pages(g)
<1>1. /\ Reals(h) \subseteq Reals(g) /\ Events(h) \subseteq Events(g)
      /\ ShownLists(h) \subseteq ShownLists(g)
  BY RowsStay
<1>2. Seq(Events(h)) \subseteq Seq(Events(g))
  BY <1>1
<1> QED
  BY <1>1, <1>2 DEF Pages

LEMMA WriteGrows ==
  ASSUME history \in Histories, NEW d \in Documents, NEW s \in Statuses,
         history' = [history EXCEPT ![d] = Append(@, s)]
  PROVE  /\ history' \in Histories /\ Grown(history, history')
         /\ Len(history'[d]) = Len(history[d]) + 1 /\ history'[d][Len(history[d]) + 1] = s
<1>1. history[d] \in Seq(Statuses)
  BY DEF Histories
<1>2. /\ Append(history[d], s) \in Seq(Statuses)
      /\ Len(Append(history[d], s)) = Len(history[d]) + 1
      /\ Append(history[d], s)[Len(history[d]) + 1] = s
      /\ \A k \in 1..Len(history[d]) : Append(history[d], s)[k] = history[d][k]
  BY <1>1, AppendProperties
<1>3. history' \in Histories
  BY <1>2 DEF Histories
<1>4. Grown(history, history')
  <2> SUFFICES ASSUME NEW e \in Documents
               PROVE  /\ Len(history[e]) <= Len(history'[e])
                      /\ \A k \in 1..Len(history[e]) : history'[e][k] = history[e][k]
    BY DEF Grown
  <2>1. history[e] \in Seq(Statuses)
    BY DEF Histories
  <2>2. CASE e = d
    <3>1. history'[e] = Append(history[d], s)
      BY <2>2 DEF Histories
    <3> QED
      BY <1>1, <1>2, <2>2, <3>1
  <2>3. CASE e # d
    <3>1. history'[e] = history[e]
      BY <2>3 DEF Histories
    <3> QED
      BY <2>1, <3>1
  <2> QED
    BY <2>2, <2>3
<1>5. history'[d] = Append(history[d], s)
  BY DEF Histories
<1> QED
  BY <1>2, <1>3, <1>4, <1>5

LEMMA NothingWrittenGrows ==
  ASSUME NEW h \in Histories
  PROVE  Grown(h, h)
<1> SUFFICES ASSUME NEW d \in Documents
             PROVE  Len(h[d]) <= Len(h[d])
  BY DEF Grown
<1>1. h[d] \in Seq(Statuses)
  BY DEF Histories
<1> QED
  BY <1>1

\* The last write of a row is a row the document has.
LEMMA LastRowIsReal ==
  ASSUME NEW h \in Histories, NEW d \in Documents, 1 <= Len(h[d])
  PROVE  [document |-> d, status |-> h[d][Len(h[d])], version |-> Len(h[d])] \in Reals(h)
<1> DEFINE r == [document |-> d, status |-> h[d][Len(h[d])], version |-> Len(h[d])]
<1>1. h[d] \in Seq(Statuses)
  BY DEF Histories
<1>2. Len(h[d]) \in Nat /\ Len(h[d]) \in 1..Len(h[d])
  BY <1>1
<1>3. h[d][Len(h[d])] \in Statuses
  BY <1>1, <1>2, ElementOfSeq
<1>4. r \in RowType
  BY <1>2, <1>3 DEF RowType
<1>5. r.document = d /\ r.version = Len(h[d]) /\ r.status = h[d][Len(h[d])]
  OBVIOUS
<1> QED
  BY <1>2, <1>4, <1>5 DEF Known, Reals

-----------------------------------------------------------------------------
(* What the helpers of the handlers return.                                *)

LEMMA RowsAreReal ==
  ASSUME history \in Histories
  PROVE  Rows \in RealLists(history)
<1>1. \A d \in Documents : Rows[d] # None => Rows[d] \in Reals(history) /\ Rows[d].document = d
  <2> SUFFICES ASSUME NEW d \in Documents, Rows[d] # None
               PROVE  Rows[d] \in Reals(history) /\ Rows[d].document = d
    OBVIOUS
  <2>1. history[d] \in Seq(Statuses)
    BY DEF Histories
  <2>2. history[d] # <<>> /\ Rows[d] = Row(d)
    BY DEF Rows
  <2>3. 1 <= Len(history[d])
    BY <2>1, <2>2
  <2>4. Row(d) \in Reals(history)
    BY <2>3, LastRowIsReal DEF Row, Last
  <2>5. Row(d).document = d
    BY DEF Row
  <2> QED
    BY <2>2, <2>4, <2>5
<1>2. Rows \in [Documents -> Known(history) \cup {None}]
  <2>1. \A d \in Documents : Rows[d] \in Known(history) \cup {None}
    BY <1>1 DEF Reals
  <2>2. Rows = [d \in Documents |-> Rows[d]]
    BY DEF Rows
  <2> QED
    BY <2>1, <2>2
<1> QED
  BY <1>1, <1>2 DEF RealLists, ShownLists

\* The fields of a page.
LEMMA PageFields ==
  ASSUME NEW h, NEW p \in Pages(h)
  PROVE  /\ p.documents \in ShownLists(h) /\ p.selectedDocument \in Reals(h) \cup {None}
         /\ p.selectedDocumentId \in Documents \cup {None}
         /\ p.processingIds \in SUBSET Documents
         /\ p.notifications \in Seq(Events(h))
         /\ p.downloadUrl \in Documents \cup {None}
         /\ p.listState \in {"loading", "success", "error"}
         /\ p.detailState \in {"idle", "loading", "success", "error"}
<1> QED
  BY DEF Pages

LEMMA LoadListFits ==
  ASSUME NEW h, NEW p \in Pages(h)
  PROVE  /\ LoadList(p) \in Pages(h)
         /\ LoadList(p).listState = "loading"
         /\ LoadList(p).documents = p.documents
         /\ LoadList(p).selectedDocument = p.selectedDocument
         /\ LoadList(p).selectedDocumentId = p.selectedDocumentId
         /\ LoadList(p).detailState = p.detailState
         /\ LoadList(p).processingIds = p.processingIds
         /\ LoadList(p).notifications = p.notifications
BY DEF Pages, LoadList

LEMMA LoadDetailFits ==
  ASSUME NEW h, NEW p \in Pages(h)
  PROVE  /\ LoadDetail(p) \in Pages(h)
         /\ LoadDetail(p).listState = p.listState
         /\ LoadDetail(p).documents = p.documents
         /\ LoadDetail(p).selectedDocument = p.selectedDocument
         /\ LoadDetail(p).selectedDocumentId = p.selectedDocumentId
         /\ LoadDetail(p).detailState = "loading"
         /\ LoadDetail(p).processingIds = p.processingIds
         /\ LoadDetail(p).notifications = p.notifications
BY DEF Pages, LoadDetail

LEMMA MergeFits ==
  ASSUME NEW h, NEW p \in Pages(h), NEW row \in Known(h)
  PROVE  /\ mergeDocument(p, row) \in Pages(h)
         /\ mergeDocument(p, row).listState = p.listState
         /\ mergeDocument(p, row).documents = [p.documents EXCEPT ![row.document] = row]
         /\ mergeDocument(p, row).selectedDocument = p.selectedDocument
         /\ mergeDocument(p, row).selectedDocumentId = p.selectedDocumentId
         /\ mergeDocument(p, row).detailState = p.detailState
         /\ mergeDocument(p, row).processingIds = p.processingIds
         /\ mergeDocument(p, row).notifications = p.notifications
<1>1. mergeDocument(p, row) = [p EXCEPT !.documents = [p.documents EXCEPT ![row.document] = row]]
  BY DEF Pages, mergeDocument
<1>2. [p.documents EXCEPT ![row.document] = row] \in ShownLists(h)
  BY PageFields DEF ShownLists, Known, RowType
<1> HIDE DEF mergeDocument
<1> QED
  BY <1>1, <1>2 DEF Pages

\* Taking a document out of those this page processes.
LEMMA SettledFits ==
  ASSUME NEW h, NEW p \in Pages(h), NEW d, NEW q, q = [p EXCEPT !.processingIds = @ \ {d}]
  PROVE  /\ q \in Pages(h)
         /\ q.listState = p.listState
         /\ q.documents = p.documents
         /\ q.selectedDocument = p.selectedDocument
         /\ q.selectedDocumentId = p.selectedDocumentId
         /\ q.detailState = p.detailState
         /\ q.processingIds = p.processingIds \ {d}
         /\ q.notifications = p.notifications
BY DEF Pages

LEMMA NewCallFits ==
  ASSUME NEW h, NEW kind \in Kinds \ {"list"}, NEW d \in Documents,
         NEW chosen \in Documents \cup {None},
         kind # "upload" => 1 <= Len(h[d])
  PROVE  /\ Call(kind, d, chosen) \in CallsOf(h)
         /\ Call(kind, d, chosen).kind = kind /\ Call(kind, d, chosen).about = d
         /\ Call(kind, d, chosen).stage = "sent"
<1>1. Call(kind, d, chosen) \in CallType(h)
  BY DEF Call, CallType, Stages
<1>2. /\ Call(kind, d, chosen).kind = kind /\ Call(kind, d, chosen).about = d
      /\ Call(kind, d, chosen).stage = "sent"
  BY DEF Call
<1> HIDE DEF Call
<1> QED
  BY <1>1, <1>2 DEF CallsOf, WellFormed, HasRow

LEMMA ListCallFits ==
  ASSUME NEW h
  PROVE  ListCall \in CallsOf(h) /\ ListCall.kind = "list" /\ ListCall.stage = "sent"
BY DEF ListCall, Call, CallsOf, CallType, WellFormed, Kinds, Stages, HasRow

LEMMA DetailCallFits ==
  ASSUME NEW h, NEW d \in Documents, 1 <= Len(h[d])
  PROVE  /\ DetailCall(d) \in CallsOf(h) /\ DetailCall(d).kind = "detail"
         /\ DetailCall(d).about = d /\ DetailCall(d).stage = "sent"
BY NewCallFits DEF DetailCall, Kinds

\* A request in the list of requests.
LEMMA CallInFlight ==
  ASSUME NEW h, NEW cs \in Seq(CallsOf(h)), NEW i \in 1..Len(cs)
  PROVE  cs[i] \in CallsOf(h) /\ cs[i] \in CallType(h) /\ WellFormed(h, cs[i])
<1>1. cs[i] \in CallsOf(h)
  BY ElementOfSeq
<1> QED
  BY <1>1 DEF CallsOf

LEMMA GivenUp ==
  ASSUME NEW h, NEW cs \in Seq(CallsOf(h)), NEW i \in 1..Len(cs), cs[i].kind = "process"
  PROVE  /\ [cs EXCEPT ![i].kind = "foreign"] \in Seq(CallsOf(h))
         /\ Len([cs EXCEPT ![i].kind = "foreign"]) = Len(cs)
         /\ \A k \in 1..Len(cs) : k # i => [cs EXCEPT ![i].kind = "foreign"][k] = cs[k]
         /\ [cs EXCEPT ![i].kind = "foreign"][i].kind = "foreign"
<1> DEFINE c == [cs[i] EXCEPT !.kind = "foreign"]
           ds == [cs EXCEPT ![i].kind = "foreign"]
<1>1. cs[i] \in CallType(h) /\ WellFormed(h, cs[i])
  BY CallInFlight
<1>2. c \in CallType(h)
  BY <1>1 DEF CallType, Kinds
<1>3. c.kind = "foreign" /\ c.about = cs[i].about /\ c.stage = cs[i].stage /\ c.reply = cs[i].reply
  BY <1>1 DEF CallType
<1>4. ds = [cs EXCEPT ![i] = c]
  BY <1>1
<1> HIDE DEF c, ds
<1>5. c \in CallsOf(h)
  BY <1>1, <1>2, <1>3 DEF CallsOf, WellFormed
<1>6. ds \in Seq(CallsOf(h)) /\ Len(ds) = Len(cs)
  BY <1>4, <1>5, ExceptSeq
<1>7. \A k \in 1..Len(cs) : ds[k] = IF k = i THEN c ELSE cs[k]
  BY <1>4, <1>5, ExceptSeq
<1> QED
  BY <1>3, <1>6, <1>7 DEF ds

-----------------------------------------------------------------------------
(* Every step keeps the types: the requests, then the page.                *)

Fits(h, cs, bx, p) ==
  /\ cs \in Seq(CallsOf(h))
  /\ bx \in Seq(Events(h))
  /\ p \in Pages(h) /\ Len(p.notifications) <= MaxNotifications

LEMMA FitsStays ==
  ASSUME NEW h \in Histories, NEW g \in Histories, Grown(h, g),
         NEW cs, NEW bx, NEW p, Fits(h, cs, bx, p)
  PROVE  Fits(g, cs, bx, p)
<1>1. Seq(CallsOf(h)) \subseteq Seq(CallsOf(g))
  BY CallsStay
<1>2. Seq(Events(h)) \subseteq Seq(Events(g))
  BY RowsStay
<1> QED
  BY <1>1, <1>2, PagesStay DEF Fits

\* What a service does to a request moves it on and leaves the page alone.
Moved(i, h) ==
  \E c \in CallsOf(h) :
    /\ c.kind = calls[i].kind /\ c.about = calls[i].about
    /\ Len(calls') = Len(calls)
    /\ \A k \in 1..Len(calls) : calls'[k] = IF k = i THEN c ELSE calls[k]

LEMMA BecomeFits ==
  ASSUME Typed, NEW i \in 1..Len(calls), NEW stage \in Stages, NEW reply, Become(i, stage, reply),
         NEW g \in Histories, Grown(history, g),
         NEW t \in CallType(g), t = [calls[i] EXCEPT !.stage = stage, !.reply = reply],
         WellFormed(g, t)
  PROVE  /\ calls' \in Seq(CallsOf(g)) /\ Moved(i, g)
         /\ page' = page /\ socket' = socket /\ clicks' = clicks
<1>1. calls \in Seq(CallsOf(g))
  <2>1. history \in Histories
    BY DEF Typed
  <2>2. Seq(CallsOf(history)) \subseteq Seq(CallsOf(g))
    BY <2>1, CallsStay
  <2> QED
    BY <2>2 DEF Typed
<1>2. t \in CallsOf(g)
  BY DEF CallsOf
<1>3. calls' = [calls EXCEPT ![i].stage = stage, ![i].reply = reply]
  BY DEF Become
<1>4. /\ calls' \in Seq(CallsOf(g)) /\ Len(calls') = Len(calls)
      /\ \A k \in 1..Len(calls) : calls'[k] = IF k = i THEN t ELSE calls[k]
      /\ t.kind = calls[i].kind /\ t.about = calls[i].about
  <2>1. calls[i] \in CallType(g)
    BY <1>1, CallInFlight
  <2>2. t.kind = calls[i].kind /\ t.about = calls[i].about
    BY <2>1 DEF CallType
  <2>3. calls' = [calls EXCEPT ![i] = t]
    BY <1>3, <2>1
  <2>4. /\ [calls EXCEPT ![i] = t] \in Seq(CallsOf(g))
        /\ Len([calls EXCEPT ![i] = t]) = Len(calls)
        /\ \A k \in 1..Len(calls) : [calls EXCEPT ![i] = t][k] = IF k = i THEN t ELSE calls[k]
    BY <1>1, <1>2, ExceptSeq
  <2> QED
    BY <2>2, <2>3, <2>4
<1>5. Moved(i, g)
  BY <1>2, <1>4 DEF Moved
<1> QED
  BY <1>4, <1>5 DEF Become

\* The request after its move, given its reply.
LEMMA MovedCallFits ==
  ASSUME NEW h \in Histories, NEW g \in Histories, Grown(h, g),
         NEW c \in CallsOf(h), NEW stage \in Stages,
         NEW reply \in RealLists(g) \cup Reals(g) \cup {None},
         c.kind \in {"list", "detail"} => stage = "answered",
         c.kind = "list" => reply \in RealLists(g),
         c.kind # "list" /\ stage \in HasRow => reply \in Reals(g) /\ reply.document = c.about,
         c.kind \in {"process", "foreign"} /\ stage \in HasRow => reply.status \in FinalStatuses,
         NEW t, t = [c EXCEPT !.stage = stage, !.reply = reply]
  PROVE  t \in CallType(g) /\ WellFormed(g, t)
<1>1. c \in CallsOf(g)
  BY CallsStay
<1>2. c \in CallType(g) /\ WellFormed(g, c)
  BY <1>1 DEF CallsOf
<1>3. t \in CallType(g)
  BY <1>2 DEF CallType
<1>4. t.kind = c.kind /\ t.about = c.about /\ t.stage = stage /\ t.reply = reply
  BY <1>2 DEF CallType
<1> QED
  BY <1>2, <1>3, <1>4 DEF WellFormed

LEMMA WriteMoves ==
  ASSUME Typed, NEW d \in Documents, NEW s \in Statuses, Write(d, s)
  PROVE  /\ history' \in Histories /\ Grown(history, history')
         /\ Written(d, s) \in Reals(history') /\ Written(d, s).document = d
         /\ Written(d, s).status = s
<1>1. history \in Histories /\ history[d] \in Seq(Statuses)
  BY DEF Typed, Histories
<1>2. history' = [history EXCEPT ![d] = Append(@, s)]
  BY DEF Write
<1>3. /\ history' \in Histories /\ Grown(history, history')
      /\ Len(history'[d]) = Len(history[d]) + 1 /\ history'[d][Len(history[d]) + 1] = s
  BY <1>1, <1>2, WriteGrows
<1>4. Written(d, s).document = d /\ Written(d, s).status = s
      /\ Written(d, s).version = Len(history[d]) + 1
  BY DEF Written
<1>5. Written(d, s) \in RowType
  <2>1. Len(history[d]) + 1 \in Nat
    BY <1>1
  <2> QED
    BY <2>1 DEF Written, RowType
<1>6. Len(history[d]) + 1 \in 1..Len(history'[d])
  BY <1>1, <1>3
<1> HIDE DEF Written
<1> QED
  BY <1>3, <1>4, <1>5, <1>6 DEF Reals, Known

Serves(i) == ServeRead(i) \/ ServeUpload(i) \/ StartRun(i) \/ FinishRun(i) \/ AnswerRun(i)

LEMMA ServeReadFits ==
  ASSUME Typed, NEW i \in 1..Len(calls), ServeRead(i)
  PROVE  /\ history' \in Histories /\ Grown(history, history')
         /\ calls' \in Seq(CallsOf(history')) /\ Moved(i, history')
         /\ page' = page /\ inbox' = inbox /\ socket' = socket /\ clicks' = clicks
<1>1. history' = history /\ inbox' = inbox /\ history \in Histories
  BY DEF ServeRead, Typed
<1>2. Grown(history, history)
  BY <1>1, NothingWrittenGrows
<1>3. calls \in Seq(CallsOf(history))
  BY DEF Typed
<1>4. calls[i] \in CallsOf(history) /\ WellFormed(history, calls[i])
  BY <1>3, CallInFlight
<1>5. /\ calls' \in Seq(CallsOf(history)) /\ Moved(i, history)
      /\ page' = page /\ socket' = socket /\ clicks' = clicks
  <2>1. CASE Is(i, "list", "sent") /\ Become(i, "answered", Rows)
    <3>1. Rows \in RealLists(history)
      BY <1>1, RowsAreReal
    <3>2. calls[i].kind = "list" /\ "answered" \in Stages
      BY <2>1 DEF Is, Stages, HasRow
    <3> DEFINE t == [calls[i] EXCEPT !.stage = "answered", !.reply = Rows]
    <3>3. t \in CallType(history) /\ WellFormed(history, t)
      BY <1>1, <1>2, <1>4, <3>1, <3>2, MovedCallFits
    <3> QED
      BY <1>1, <1>2, <2>1, <3>2, <3>3, BecomeFits
  <2>2. CASE Is(i, "detail", "sent") /\ Become(i, "answered", Row(calls[i].about))
    <3> DEFINE d == calls[i].about
               t == [calls[i] EXCEPT !.stage = "answered", !.reply = Row(d)]
    <3>1. calls[i].kind = "detail" /\ "answered" \in Stages
      BY <2>2 DEF Is, Stages, HasRow
    <3>2. d \in Documents /\ 1 <= Len(history[d])
      BY <1>4, <3>1 DEF WellFormed
    <3>3. Row(d) \in Reals(history) /\ Row(d).document = d
      BY <1>1, <3>2, LastRowIsReal DEF Row, Last
    <3>4. t \in CallType(history) /\ WellFormed(history, t)
      BY <1>1, <1>2, <1>4, <3>1, <3>3, MovedCallFits
    <3> QED
      BY <1>1, <1>2, <2>2, <3>1, <3>4, BecomeFits
  <2> QED
    BY <2>1, <2>2 DEF ServeRead
<1> QED
  BY <1>1, <1>2, <1>5

LEMMA ServeWriteFits ==
  ASSUME Typed, NEW i \in 1..Len(calls), ServeUpload(i) \/ StartRun(i) \/ FinishRun(i)
  PROVE  /\ history' \in Histories /\ Grown(history, history')
         /\ calls' \in Seq(CallsOf(history')) /\ Moved(i, history')
         /\ page' = page /\ inbox' = inbox /\ socket' = socket /\ clicks' = clicks
<1> DEFINE d == calls[i].about
<1>1. history \in Histories /\ calls \in Seq(CallsOf(history))
  BY DEF Typed
<1>2. calls[i] \in CallsOf(history) /\ WellFormed(history, calls[i])
  BY <1>1, CallInFlight
<1>3. CASE ServeUpload(i)
  <2>1. calls[i].kind = "upload" /\ "UPLOADED" \in Statuses /\ "answered" \in Stages
    BY <1>3 DEF ServeUpload, Is, Statuses, Stages, HasRow
  <2>2. d \in Documents
    BY <1>2, <2>1 DEF WellFormed
  <2>3. Write(d, "UPLOADED") /\ Become(i, "answered", Written(d, "UPLOADED")) /\ inbox' = inbox
    BY <1>3 DEF ServeUpload
  <2>4. /\ history' \in Histories /\ Grown(history, history')
        /\ Written(d, "UPLOADED") \in Reals(history') /\ Written(d, "UPLOADED").document = d
    BY <2>1, <2>2, <2>3, WriteMoves
  <2> DEFINE t == [calls[i] EXCEPT !.stage = "answered", !.reply = Written(d, "UPLOADED")]
  <2>5. t \in CallType(history') /\ WellFormed(history', t)
    BY <1>1, <1>2, <2>1, <2>4, MovedCallFits
  <2> QED
    BY <2>1, <2>3, <2>4, <2>5, BecomeFits
<1>4. CASE StartRun(i)
  <2>1. calls[i].kind \in {"process", "foreign"} /\ "PROCESSING" \in Statuses /\ "running" \in Stages
    BY <1>4 DEF StartRun, IsRun, Statuses, Stages
  <2>2. d \in Documents
    BY <1>2, <2>1 DEF WellFormed
  <2>3. Write(d, "PROCESSING") /\ Become(i, "running", None) /\ inbox' = inbox
    BY <1>4 DEF StartRun
  <2>4. history' \in Histories /\ Grown(history, history')
    BY <2>1, <2>2, <2>3, WriteMoves
  <2> DEFINE t == [calls[i] EXCEPT !.stage = "running", !.reply = None]
  <2>5. t \in CallType(history') /\ WellFormed(history', t)
    BY <1>1, <1>2, <2>1, <2>4, MovedCallFits DEF HasRow
  <2> QED
    BY <2>1, <2>3, <2>4, <2>5, BecomeFits
<1>5. CASE FinishRun(i)
  <2>1. calls[i].kind \in {"process", "foreign"} /\ "written" \in Stages
    BY <1>5 DEF FinishRun, IsRun, Stages, HasRow
  <2>2. d \in Documents
    BY <1>2, <2>1 DEF WellFormed
  <2>3. PICK s \in FinalStatuses : Write(d, s) /\ Become(i, "written", Written(d, s))
    BY <1>5 DEF FinishRun
  <2>4. s \in Statuses /\ inbox' = inbox
    BY <1>5, <2>3 DEF FinishRun, Statuses
  <2>5. /\ history' \in Histories /\ Grown(history, history')
        /\ Written(d, s) \in Reals(history') /\ Written(d, s).document = d
        /\ Written(d, s).status \in FinalStatuses
    BY <2>2, <2>3, <2>4, WriteMoves
  <2> DEFINE t == [calls[i] EXCEPT !.stage = "written", !.reply = Written(d, s)]
  <2>6. t \in CallType(history') /\ WellFormed(history', t)
    BY <1>1, <1>2, <2>1, <2>5, MovedCallFits
  <2> QED
    BY <2>1, <2>3, <2>4, <2>5, <2>6, BecomeFits
<1> QED
  BY <1>3, <1>4, <1>5

LEMMA AnswerRunFits ==
  ASSUME Typed, NEW i \in 1..Len(calls), AnswerRun(i)
  PROVE  /\ history' = history
         /\ calls' \in Seq(CallsOf(history)) /\ Moved(i, history)
         /\ inbox' = inbox \/ (socket = "connected" /\ inbox' = Append(inbox, calls[i].reply))
         /\ inbox' \in Seq(Events(history))
         /\ page' = page /\ socket' = socket /\ clicks' = clicks
<1>1. history \in Histories /\ calls \in Seq(CallsOf(history)) /\ inbox \in Seq(Events(history))
  BY DEF Typed
<1>2. calls[i] \in CallsOf(history) /\ WellFormed(history, calls[i])
  BY <1>1, CallInFlight
<1>3. Grown(history, history)
  BY <1>1, NothingWrittenGrows
<1> DEFINE row == calls[i].reply
<1>4. calls[i].kind \in {"process", "foreign"} /\ calls[i].stage = "written"
  BY DEF AnswerRun, IsRun
<1>5. row \in Reals(history) /\ row.document = calls[i].about /\ row.status \in FinalStatuses
  BY <1>2, <1>4 DEF WellFormed, HasRow
<1>6. row \in Events(history)
  BY <1>5 DEF Events
<1>7. PICK stage \in {"answered", "declined"} : Become(i, stage, row)
  BY DEF AnswerRun
<1>8. stage \in Stages
  BY DEF Stages, HasRow
<1> DEFINE t == [calls[i] EXCEPT !.stage = stage, !.reply = row]
<1>9. t \in CallType(history) /\ WellFormed(history, t)
  BY <1>1, <1>2, <1>3, <1>4, <1>5, <1>8, MovedCallFits
<1>10. /\ calls' \in Seq(CallsOf(history)) /\ Moved(i, history)
       /\ page' = page /\ socket' = socket /\ clicks' = clicks
  BY <1>1, <1>3, <1>7, <1>8, <1>9, BecomeFits
<1>11. inbox' = inbox \/ (socket = "connected" /\ inbox' = Append(inbox, row))
  BY DEF AnswerRun, ProcessingComplete
<1>12. inbox' \in Seq(Events(history))
  BY SMTT(30), <1>1, <1>6, <1>11, AppendProperties
<1> QED
  BY <1>10, <1>11, <1>12 DEF AnswerRun

\* What handlers leave in flight, and what they add.
LEMMA RestFits ==
  ASSUME Typed, NEW i \in 1..Len(calls)
  PROVE  /\ RemoveAt(calls, i) \in Seq(CallsOf(history))
         /\ Len(RemoveAt(calls, i)) = Len(calls) - 1
         /\ \A k \in 1..Len(calls) - 1 :
              RemoveAt(calls, i)[k] = calls[IF k < i THEN k ELSE k + 1]
BY RemovedAt DEF Typed

LEMMA ListIsAdded ==
  ASSUME NEW h, NEW cs \in Seq(CallsOf(h))
  PROVE  Append(cs, ListCall) \in Seq(CallsOf(h))
BY ListCallFits, AppendProperties

LEMMA DetailIsAdded ==
  ASSUME NEW h, NEW cs \in Seq(CallsOf(h)), NEW d \in Documents, 1 <= Len(h[d])
  PROVE  Append(cs, DetailCall(d)) \in Seq(CallsOf(h))
BY DetailCallFits, AppendProperties

LEMMA ChooseFits ==
  ASSUME NEW h, NEW p \in Pages(h), NEW d \in Documents, Choose(p, d)
  PROVE  /\ page' \in Pages(h)
         /\ page'.listState = p.listState
         /\ page'.documents = p.documents
         /\ page'.selectedDocument = p.selectedDocument
         /\ page'.selectedDocumentId = d
         /\ page'.detailState = "loading"
         /\ page'.processingIds = p.processingIds
         /\ page'.notifications = p.notifications
         /\ socket' = "connecting" /\ inbox' = <<>>
<1> DEFINE q == [p EXCEPT !.selectedDocumentId = d]
<1>1. q \in Pages(h)
  BY DEF Pages
<1>2. /\ q.listState = p.listState /\ q.documents = p.documents
      /\ q.selectedDocument = p.selectedDocument /\ q.selectedDocumentId = d
      /\ q.processingIds = p.processingIds /\ q.notifications = p.notifications
  BY DEF Pages
<1>3. page' = LoadDetail(q) /\ socket' = "connecting" /\ inbox' = <<>>
  BY DEF Choose
<1> HIDE DEF q
<1> QED
  BY <1>1, <1>2, <1>3, LoadDetailFits

\* The end of handleProcess, whatever came before.
LEMMA FinallyFits ==
  ASSUME Typed, NEW i \in 1..Len(calls), Mine(calls[i]), NEW p \in Pages(history),
         NEW rest \in Seq(CallsOf(history)), Finally(i, p, rest)
  PROVE  /\ calls' \in Seq(CallsOf(history)) /\ page' \in Pages(history)
         /\ page'.listState = "loading"
         /\ page'.documents = p.documents
         /\ page'.selectedDocument = p.selectedDocument
         /\ page'.selectedDocumentId = p.selectedDocumentId
         /\ page'.processingIds = p.processingIds \ {calls[i].about}
         /\ page'.notifications = p.notifications
         /\ \/ /\ calls' = Append(Append(rest, ListCall), DetailCall(calls[i].about))
               /\ newest' = "in flight"
            \/ calls' = Append(rest, ListCall) /\ newest' = newest
         /\ history' = history /\ socket' = socket /\ inbox' = inbox /\ clicks' = clicks
<1> DEFINE d == calls[i].about
           q == [p EXCEPT !.processingIds = @ \ {d}]
           settled == LoadList(q)
<1>1. d \in Documents /\ 1 <= Len(history[d])
  <2>1. WellFormed(history, calls[i])
    BY CallInFlight DEF Typed
  <2> QED
    BY <2>1 DEF WellFormed, Mine
<1>2. /\ q \in Pages(history)
      /\ q.documents = p.documents /\ q.selectedDocument = p.selectedDocument
      /\ q.selectedDocumentId = p.selectedDocumentId
      /\ q.processingIds = p.processingIds \ {d} /\ q.notifications = p.notifications
  BY DEF Pages
<1> HIDE DEF q
<1>3. /\ settled \in Pages(history) /\ settled.listState = "loading"
      /\ settled.documents = p.documents /\ settled.selectedDocument = p.selectedDocument
      /\ settled.selectedDocumentId = p.selectedDocumentId
      /\ settled.processingIds = p.processingIds \ {d} /\ settled.notifications = p.notifications
  BY <1>2, LoadListFits
<1>4. /\ \/ /\ page' = LoadDetail(settled)
            /\ calls' = rest \o <<ListCall, DetailCall(d)>> /\ newest' = "in flight"
         \/ page' = settled /\ calls' = Append(rest, ListCall) /\ newest' = newest
      /\ history' = history /\ socket' = socket /\ inbox' = inbox /\ clicks' = clicks
  BY DEF Finally, q
<1> HIDE DEF settled
<1>5. Append(rest, ListCall) \in Seq(CallsOf(history))
  BY ListIsAdded
<1>6. CASE /\ page' = LoadDetail(settled) /\ newest' = "in flight"
           /\ calls' = rest \o <<ListCall, DetailCall(d)>>
  <2>1. calls' = Append(Append(rest, ListCall), DetailCall(d))
    <3>1. rest \o <<ListCall, DetailCall(d)>> = Append(Append(rest, ListCall), DetailCall(d))
      BY TwoMore
    <3> QED
      BY ZenonT(30), <1>6, <3>1
  <2>2. Append(Append(rest, ListCall), DetailCall(d)) \in Seq(CallsOf(history))
    BY <1>1, <1>5, DetailIsAdded
  <2>3. /\ LoadDetail(settled) \in Pages(history)
        /\ LoadDetail(settled).listState = "loading"
        /\ LoadDetail(settled).documents = p.documents
        /\ LoadDetail(settled).selectedDocument = p.selectedDocument
        /\ LoadDetail(settled).selectedDocumentId = p.selectedDocumentId
        /\ LoadDetail(settled).processingIds = p.processingIds \ {d}
        /\ LoadDetail(settled).notifications = p.notifications
    BY <1>3, LoadDetailFits
  <2>4. page' = LoadDetail(settled) /\ newest' = "in flight"
    BY <1>6
  <2> HIDE <1>6
  <2> QED
    BY <1>4, <2>1, <2>2, <2>3, <2>4
<1>7. CASE page' = settled /\ calls' = Append(rest, ListCall) /\ newest' = newest
  BY <1>3, <1>4, <1>5, <1>7
<1> QED
  BY <1>4, <1>6, <1>7

-----------------------------------------------------------------------------
(* Clicks.                                                                 *)

LEMMA RefreshFits ==
  ASSUME Typed, Refresh
  PROVE  /\ Fits(history, calls', inbox, page')
         /\ calls' = Append(calls, ListCall) /\ page' = LoadList(page)
         /\ history' = history /\ inbox' = inbox /\ socket' = socket
<1>1. page \in Pages(history) /\ calls \in Seq(CallsOf(history))
  BY DEF Typed
<1>2. calls' = Append(calls, ListCall) /\ page' = LoadList(page)
      /\ history' = history /\ inbox' = inbox /\ socket' = socket
  BY DEF Refresh, Click
<1>3. LoadList(page) \in Pages(history) /\ LoadList(page).notifications = page.notifications
  BY <1>1, LoadListFits
<1>4. Append(calls, ListCall) \in Seq(CallsOf(history))
  BY <1>1, ListIsAdded
<1> QED
  BY <1>2, <1>3, <1>4 DEF Typed, Fits

LEMMA SelectFits ==
  ASSUME Typed, NEW d \in Documents, Select(d)
  PROVE  /\ Fits(history, calls', inbox', page')
         /\ calls' = Append(calls, DetailCall(d)) /\ Choose(page, d)
         /\ history' = history /\ inbox' = <<>> /\ socket' = "connecting"
<1>1. page \in Pages(history) /\ calls \in Seq(CallsOf(history))
  BY DEF Typed
<1>2. calls' = Append(calls, DetailCall(d)) /\ Choose(page, d) /\ history' = history
      /\ page.documents[d] # None
  BY DEF Select, Click
<1>3. 1 <= Len(history[d])
  <2>1. page.documents \in ShownLists(history)
    BY <1>1, PageFields
  <2>2. page.documents[d] \in Known(history) /\ page.documents[d].document = d
    BY <1>2, <2>1 DEF ShownLists
  <2>3. history[d] \in Seq(Statuses)
    BY DEF Typed, Histories
  <2> QED
    BY <2>2, <2>3 DEF Known
<1>4. /\ page' \in Pages(history) /\ page'.notifications = page.notifications
      /\ inbox' = <<>> /\ socket' = "connecting"
  BY <1>1, <1>2, ChooseFits
<1>5. Append(calls, DetailCall(d)) \in Seq(CallsOf(history))
  BY <1>1, <1>3, DetailIsAdded
<1>6. <<>> \in Seq(Events(history))
  OBVIOUS
<1> QED
  BY <1>2, <1>4, <1>5, <1>6 DEF Typed, Fits

\* A click on "Procesar" puts PROCESSING where the list has the document.
Guessed(r) == IF r = None THEN None ELSE [r EXCEPT !.status = "PROCESSING"]

LEMMA HandleProcessFits ==
  ASSUME Typed, NEW d \in Documents, handleProcess(d)
  PROVE  /\ Fits(history, calls', inbox, page')
         /\ calls' = Append(calls, Call("process", d, page.selectedDocumentId))
         /\ Call("process", d, page.selectedDocumentId) \in CallsOf(history)
         /\ d \notin page.processingIds
         /\ page'.processingIds = page.processingIds \cup {d}
         /\ page'.documents = [page.documents EXCEPT ![d] = Guessed(@)]
         /\ page'.selectedDocument = page.selectedDocument
         /\ page'.selectedDocumentId = page.selectedDocumentId
         /\ page'.listState = page.listState /\ page'.detailState = page.detailState
         /\ page'.notifications = page.notifications
         /\ history' = history /\ inbox' = inbox /\ socket' = socket
<1>1. page \in Pages(history) /\ calls \in Seq(CallsOf(history))
  BY DEF Typed
<1>2. page.documents \in ShownLists(history) /\ page.selectedDocument \in Reals(history) \cup {None}
      /\ page.processingIds \in SUBSET Documents
  BY <1>1, PageFields
<1>3. /\ calls' = Append(calls, Call("process", d, page.selectedDocumentId))
      /\ history' = history /\ inbox' = inbox /\ socket' = socket
      /\ TableOffers(d) \/ DetailOffers(d)
      /\ page' = [page EXCEPT
                    !.processingIds = @ \cup {d},
                    !.documents[d] = IF @ = None THEN None ELSE [@ EXCEPT !.status = "PROCESSING"]]
  BY DEF handleProcess, Click
<1>4. d \notin page.processingIds /\ 1 <= Len(history[d])
  <2>1. PICK r \in Known(history) : r.document = d /\ r.document \notin page.processingIds
    <3>1. CASE TableOffers(d)
      BY <1>2, <3>1 DEF TableOffers, ProcessIsEnabled, ShownLists
    <3>2. CASE DetailOffers(d)
      BY <1>2, <3>2 DEF DetailOffers, ProcessIsEnabled, Reals
    <3> QED
      BY <1>3, <3>1, <3>2
  <2>2. history[d] \in Seq(Statuses)
    BY DEF Typed, Histories
  <2> QED
    BY <2>1, <2>2 DEF Known
<1>5. [page.documents EXCEPT ![d] = Guessed(@)] \in ShownLists(history)
  <2>1. page.documents[d] # None =>
          /\ Guessed(page.documents[d]) \in Known(history)
          /\ Guessed(page.documents[d]).document = d
    <3> SUFFICES ASSUME page.documents[d] # None
                 PROVE  /\ Guessed(page.documents[d]) \in Known(history)
                        /\ Guessed(page.documents[d]).document = d
      OBVIOUS
    <3>1. page.documents[d] \in Known(history) /\ page.documents[d].document = d
      BY <1>2 DEF ShownLists
    <3> QED
      BY <3>1 DEF Guessed, Known, RowType, Statuses
  <2>2. Guessed(None) = None
    BY DEF Guessed
  <2> QED
    BY <1>2, <2>1, <2>2 DEF ShownLists
<1>6. page' = [page EXCEPT !.processingIds = page.processingIds \cup {d},
                           !.documents = [page.documents EXCEPT ![d] = Guessed(@)]]
  BY <1>1, <1>3 DEF Pages, Guessed
<1>7. Call("process", d, page.selectedDocumentId) \in CallsOf(history)
  BY <1>1, <1>4, PageFields, NewCallFits DEF Kinds
<1>8. calls' \in Seq(CallsOf(history))
  BY <1>1, <1>3, <1>7, AppendProperties
<1>9. page' \in Pages(history)
  BY <1>1, <1>2, <1>5, <1>6 DEF Pages
<1>10. /\ page'.processingIds = page.processingIds \cup {d}
       /\ page'.documents = [page.documents EXCEPT ![d] = Guessed(@)]
       /\ page'.selectedDocument = page.selectedDocument
       /\ page'.selectedDocumentId = page.selectedDocumentId
       /\ page'.listState = page.listState /\ page'.detailState = page.detailState
       /\ page'.notifications = page.notifications
  BY <1>1, <1>6 DEF Pages
<1> QED
  BY <1>3, <1>4, <1>7, <1>8, <1>9, <1>10 DEF Typed, Fits

\* The two clicks that concern neither the list nor the detail.
LEMMA OtherClicksFit ==
  ASSUME Typed, handleDownload \/ \E d \in Documents : handleUpload(d)
  PROVE  /\ Fits(history, calls', inbox, page')
         /\ \E c \in CallsOf(history) : c.kind \in {"url", "upload"} /\ calls' = Append(calls, c)
         /\ page'.processingIds = page.processingIds
         /\ page'.documents = page.documents
         /\ page'.selectedDocument = page.selectedDocument
         /\ page'.selectedDocumentId = page.selectedDocumentId
         /\ page'.listState = page.listState /\ page'.detailState = page.detailState
         /\ page'.notifications = page.notifications
         /\ history' = history /\ inbox' = inbox /\ socket' = socket
<1>1. page \in Pages(history) /\ calls \in Seq(CallsOf(history)) /\ history \in Histories
  BY DEF Typed
<1>2. /\ history' = history /\ inbox' = inbox /\ socket' = socket
      /\ page' = [page EXCEPT !.downloading = TRUE] \/ page' = [page EXCEPT !.uploading = TRUE]
  BY DEF handleDownload, handleUpload, Click
<1>3. /\ page' \in Pages(history)
      /\ page'.processingIds = page.processingIds
      /\ page'.documents = page.documents
      /\ page'.selectedDocument = page.selectedDocument
      /\ page'.selectedDocumentId = page.selectedDocumentId
      /\ page'.listState = page.listState /\ page'.detailState = page.detailState
      /\ page'.notifications = page.notifications
  BY <1>1, <1>2 DEF Pages
<1>4. \E c \in CallsOf(history) : c.kind \in {"url", "upload"} /\ calls' = Append(calls, c)
  <2>1. CASE handleDownload
    <3> DEFINE d == page.selectedDocument.document
    <3>1. page.selectedDocument \in Reals(history)
      BY <1>1, <2>1, PageFields DEF handleDownload
    <3>2. d \in Documents /\ 1 <= Len(history[d])
      <4>1. d \in Documents /\ page.selectedDocument.version \in 1..Len(history[d])
        BY <3>1 DEF Reals, Known, RowType
      <4>2. history[d] \in Seq(Statuses)
        BY <1>1, <4>1 DEF Histories
      <4> QED
        BY <4>1, <4>2
    <3> HIDE DEF d
    <3>3. "url" \in Kinds \ {"list"} /\ None \in Documents \cup {None}
      BY DEF Kinds
    <3>4. Call("url", d, None) \in CallsOf(history) /\ Call("url", d, None).kind = "url"
      BY <3>2, <3>3, NewCallFits
    <3> QED
      BY <2>1, <3>4 DEF handleDownload, d
  <2>2. ASSUME NEW d \in Documents, handleUpload(d)
        PROVE  \E c \in CallsOf(history) : c.kind \in {"url", "upload"} /\ calls' = Append(calls, c)
    <3>1. Call("upload", d, None) \in CallsOf(history) /\ Call("upload", d, None).kind = "upload"
      BY NewCallFits DEF Kinds
    <3> QED
      BY <2>2, <3>1 DEF handleUpload
  <2> QED
    BY <2>1, <2>2
<1>5. calls' \in Seq(CallsOf(history))
  BY <1>1, <1>4, AppendProperties
<1> QED
  BY <1>2, <1>3, <1>4, <1>5 DEF Typed, Fits

-----------------------------------------------------------------------------
(* Answers.                                                                *)

LEMMA RefreshDocumentsFits ==
  ASSUME Typed, NEW i \in 1..Len(calls), refreshDocuments(i)
  PROVE  /\ Fits(history, calls', inbox, page')
         /\ calls[i].kind = "list" /\ calls' = RemoveAt(calls, i)
         /\ \/ page'.documents \in RealLists(history)
            \/ page'.documents = page.documents /\ page'.listState = "error"
         /\ page'.processingIds = page.processingIds
         /\ page'.selectedDocument = page.selectedDocument
         /\ page'.selectedDocumentId = page.selectedDocumentId
         /\ page'.detailState = page.detailState
         /\ page'.notifications = page.notifications
         /\ history' = history /\ inbox' = inbox /\ socket' = socket
<1>1. page \in Pages(history) /\ calls \in Seq(CallsOf(history))
  BY DEF Typed
<1>2. WellFormed(history, calls[i])
  BY <1>1, CallInFlight
<1>3. /\ calls[i].kind = "list" /\ calls' = RemoveAt(calls, i)
      /\ history' = history /\ inbox' = inbox /\ socket' = socket
  BY DEF refreshDocuments, Arrives, Throws, Is, Quietly
<1>4. calls' \in Seq(CallsOf(history))
  BY <1>3, RestFits
<1>5. CASE /\ Arrives(i, "list", "answered")
           /\ page' = [page EXCEPT !.documents = calls[i].reply, !.listState = "success"]
  <2>1. calls[i].reply \in RealLists(history)
    BY <1>2, <1>5 DEF Arrives, Is, WellFormed
  <2>2. calls[i].reply \in ShownLists(history)
    BY <2>1 DEF RealLists
  <2>3. page' \in Pages(history) /\ page'.documents = calls[i].reply
    BY <1>1, <1>5, <2>2 DEF Pages
  <2>4. /\ page'.processingIds = page.processingIds
        /\ page'.selectedDocument = page.selectedDocument
        /\ page'.selectedDocumentId = page.selectedDocumentId
        /\ page'.detailState = page.detailState
        /\ page'.notifications = page.notifications
    BY <1>1, <1>5 DEF Pages
  <2> QED
    BY <1>3, <1>4, <2>1, <2>3, <2>4 DEF Typed, Fits
<1>6. CASE page' = [page EXCEPT !.listState = "error"]
  <2>1. page' \in Pages(history)
    BY <1>1, <1>6 DEF Pages
  <2>2. /\ page'.documents = page.documents /\ page'.listState = "error"
        /\ page'.processingIds = page.processingIds
        /\ page'.selectedDocument = page.selectedDocument
        /\ page'.selectedDocumentId = page.selectedDocumentId
        /\ page'.detailState = page.detailState
        /\ page'.notifications = page.notifications
    BY <1>1, <1>6 DEF Pages
  <2> QED
    BY <1>3, <1>4, <2>1, <2>2 DEF Typed, Fits
<1> QED
  BY <1>5, <1>6 DEF refreshDocuments

LEMMA LoadDocumentFits ==
  ASSUME Typed, NEW i \in 1..Len(calls), loadDocument(i)
  PROVE  /\ Fits(history, calls', inbox, page')
         /\ calls[i].kind = "detail" /\ calls' = RemoveAt(calls, i)
         /\ \/ /\ calls[i].stage = "answered"
               /\ page'.selectedDocument = calls[i].reply
               /\ calls[i].reply.document = calls[i].about
            \/ page'.detailState = "error"
         /\ page'.processingIds = page.processingIds
         /\ page'.documents = page.documents
         /\ page'.selectedDocumentId = page.selectedDocumentId
         /\ page'.listState = page.listState
         /\ page'.notifications = page.notifications
         /\ history' = history /\ inbox' = inbox /\ socket' = socket
<1>1. page \in Pages(history) /\ calls \in Seq(CallsOf(history))
  BY DEF Typed
<1>2. WellFormed(history, calls[i])
  BY <1>1, CallInFlight
<1>3. /\ calls[i].kind = "detail" /\ calls' = RemoveAt(calls, i)
      /\ history' = history /\ inbox' = inbox /\ socket' = socket
  BY DEF loadDocument, Arrives, Throws, Is, Quietly
<1>4. calls' \in Seq(CallsOf(history))
  BY <1>3, RestFits
<1>5. CASE /\ Arrives(i, "detail", "answered")
           /\ page' = [page EXCEPT !.selectedDocument = calls[i].reply, !.detailState = "success"]
  <2>1. calls[i].stage = "answered"
    BY <1>5 DEF Arrives, Is
  <2>2. calls[i].reply \in Reals(history) /\ calls[i].reply.document = calls[i].about
    BY <1>2, <1>3, <2>1 DEF WellFormed, HasRow
  <2>3. page' \in Pages(history) /\ page'.selectedDocument = calls[i].reply
    BY <1>1, <1>5, <2>2 DEF Pages
  <2>4. /\ page'.processingIds = page.processingIds
        /\ page'.documents = page.documents
        /\ page'.selectedDocumentId = page.selectedDocumentId
        /\ page'.listState = page.listState
        /\ page'.notifications = page.notifications
    BY <1>1, <1>5 DEF Pages
  <2> QED
    BY <1>3, <1>4, <2>1, <2>2, <2>3, <2>4 DEF Typed, Fits
<1>6. CASE page' = [page EXCEPT !.detailState = "error"]
  <2>1. page' \in Pages(history)
    BY <1>1, <1>6 DEF Pages
  <2>2. /\ page'.detailState = "error"
        /\ page'.processingIds = page.processingIds
        /\ page'.documents = page.documents
        /\ page'.selectedDocumentId = page.selectedDocumentId
        /\ page'.listState = page.listState
        /\ page'.notifications = page.notifications
    BY <1>1, <1>6 DEF Pages
  <2> QED
    BY <1>3, <1>4, <2>1, <2>2 DEF Typed, Fits
<1> QED
  BY <1>5, <1>6 DEF loadDocument

\* The answers to a download URL, and to an upload that is refused.
LEMMA OtherAnswersFit ==
  ASSUME Typed, NEW i \in 1..Len(calls), DownloadUrlArrives(i) \/ UploadIsRefused(i)
  PROVE  /\ Fits(history, calls', inbox, page')
         /\ calls[i].kind \in {"url", "upload"} /\ calls' = RemoveAt(calls, i)
         /\ page'.processingIds = page.processingIds
         /\ page'.documents = page.documents
         /\ page'.selectedDocument = page.selectedDocument
         /\ page'.selectedDocumentId = page.selectedDocumentId
         /\ page'.listState = page.listState /\ page'.detailState = page.detailState
         /\ page'.notifications = page.notifications
         /\ history' = history /\ inbox' = inbox /\ socket' = socket
<1>1. page \in Pages(history) /\ calls \in Seq(CallsOf(history))
  BY DEF Typed
<1>2. WellFormed(history, calls[i])
  BY <1>1, CallInFlight
<1>3. /\ calls[i].kind \in {"url", "upload"} /\ calls' = RemoveAt(calls, i)
      /\ history' = history /\ inbox' = inbox /\ socket' = socket
  BY DEF DownloadUrlArrives, UploadIsRefused, Quietly
<1>4. calls' \in Seq(CallsOf(history))
  BY <1>3, RestFits
<1>5. calls[i].about \in Documents
  BY <1>2, <1>3 DEF WellFormed
<1>6. \/ page' = [page EXCEPT !.downloading = FALSE, !.downloadUrl = calls[i].about]
      \/ page' = [page EXCEPT !.downloading = FALSE]
      \/ page' = [page EXCEPT !.uploading = FALSE]
  BY DEF DownloadUrlArrives, UploadIsRefused
<1>7. page' \in Pages(history)
  BY ZenonT(30), <1>1, <1>5, <1>6 DEF Pages
<1>8. /\ page'.processingIds = page.processingIds
      /\ page'.documents = page.documents
      /\ page'.selectedDocument = page.selectedDocument
      /\ page'.selectedDocumentId = page.selectedDocumentId
      /\ page'.listState = page.listState /\ page'.detailState = page.detailState
      /\ page'.notifications = page.notifications
  BY <1>1, <1>6 DEF Pages
<1> QED
  BY <1>3, <1>4, <1>7, <1>8 DEF Typed, Fits

LEMMA UploadArrivesFits ==
  ASSUME Typed, NEW i \in 1..Len(calls), UploadArrives(i)
  PROVE  /\ Fits(history, calls', inbox', page')
         /\ calls[i].kind = "upload"
         /\ calls' = Append(Append(RemoveAt(calls, i), ListCall), DetailCall(calls[i].about))
         /\ page'.processingIds = page.processingIds
         /\ page'.documents = page.documents
         /\ page'.selectedDocumentId = calls[i].about
         /\ page'.listState = "loading" /\ page'.detailState = "loading"
         /\ page'.notifications = page.notifications
         /\ history' = history /\ inbox' = <<>> /\ socket' = "connecting"
<1> DEFINE d == calls[i].about
           q == [page EXCEPT !.uploading = FALSE, !.selectedDocument = calls[i].reply]
           rest == RemoveAt(calls, i)
<1>1. page \in Pages(history) /\ calls \in Seq(CallsOf(history)) /\ history \in Histories
  BY DEF Typed
<1>2. WellFormed(history, calls[i]) /\ calls[i].kind = "upload" /\ calls[i].stage = "answered"
  BY <1>1, CallInFlight DEF UploadArrives, Arrives, Is
<1>3. d \in Documents /\ calls[i].reply \in Reals(history) /\ calls[i].reply.document = d
  BY <1>2 DEF WellFormed, HasRow
<1>4. 1 <= Len(history[d])
  <2>1. history[d] \in Seq(Statuses)
    BY <1>1, <1>3 DEF Histories
  <2> QED
    BY <1>3, <2>1 DEF Reals, Known
<1>5. /\ q \in Pages(history)
      /\ q.processingIds = page.processingIds /\ q.documents = page.documents
      /\ q.notifications = page.notifications
  BY <1>1, <1>3 DEF Pages
<1>6. Choose(LoadList(q), d) /\ calls' = rest \o <<ListCall, DetailCall(d)>> /\ history' = history
  BY DEF UploadArrives
<1> HIDE DEF q
<1>7. /\ LoadList(q) \in Pages(history) /\ LoadList(q).listState = "loading"
      /\ LoadList(q).processingIds = page.processingIds /\ LoadList(q).documents = page.documents
      /\ LoadList(q).notifications = page.notifications
  BY <1>5, LoadListFits
<1>8. /\ page' \in Pages(history)
      /\ page'.processingIds = page.processingIds
      /\ page'.documents = page.documents
      /\ page'.selectedDocumentId = d
      /\ page'.listState = "loading" /\ page'.detailState = "loading"
      /\ page'.notifications = page.notifications
      /\ inbox' = <<>> /\ socket' = "connecting"
  BY <1>3, <1>6, <1>7, ChooseFits
<1>9. calls' = Append(Append(rest, ListCall), DetailCall(d))
  BY SMTT(30), <1>6, RestFits, TwoMore
<1>10. calls' \in Seq(CallsOf(history))
  <2>1. rest \in Seq(CallsOf(history))
    BY RestFits
  <2>2. Append(rest, ListCall) \in Seq(CallsOf(history))
    BY <2>1, ListIsAdded
  <2> HIDE <1>6
  <2> QED
    BY <1>3, <1>4, <1>9, <2>2, DetailIsAdded
<1>11. <<>> \in Seq(Events(history))
  OBVIOUS
<1>12. history' = history
  BY <1>6
<1> HIDE <1>6
<1> QED
  BY <1>2, <1>8, <1>9, <1>10, <1>11, <1>12 DEF Typed, Fits

LEMMA ProcessArrivesFits ==
  ASSUME Typed, NEW i \in 1..Len(calls), ProcessArrives(i)
  PROVE  /\ Fits(history, calls', inbox, page')
         /\ calls[i].kind = "process"
         /\ \E c \in CallsOf(history) :
              /\ c.kind = "summary" /\ c.about = calls[i].about
              /\ calls' = Append(RemoveAt(calls, i), c)
         /\ calls[i].reply \in Events(history)
         /\ page'.processingIds = page.processingIds
         /\ page'.documents = [page.documents EXCEPT ![calls[i].reply.document] = calls[i].reply]
         /\ page'.selectedDocument \in {page.selectedDocument, calls[i].reply}
         /\ page'.selectedDocumentId = page.selectedDocumentId
         /\ page'.listState = page.listState /\ page'.detailState = page.detailState
         /\ page'.notifications = page.notifications
         /\ history' = history /\ inbox' = inbox /\ socket' = socket
<1> DEFINE row == calls[i].reply
           d == calls[i].about
           merged == mergeDocument(page, row)
           shown == IF merged.selectedDocument # None /\ merged.selectedDocument.document = row.document
                      THEN row ELSE merged.selectedDocument
           c == Call("summary", row.document, calls[i].chosen)
<1>1. page \in Pages(history) /\ calls \in Seq(CallsOf(history)) /\ history \in Histories
  BY DEF Typed
<1>2. /\ WellFormed(history, calls[i]) /\ calls[i] \in CallType(history)
      /\ calls[i].kind = "process" /\ calls[i].stage = "answered"
  BY <1>1, CallInFlight DEF ProcessArrives, Arrives, Is
<1>3. /\ d \in Documents /\ 1 <= Len(history[d]) /\ row \in Reals(history) /\ row.document = d
      /\ row \in Events(history) /\ row \in Known(history)
      /\ calls[i].chosen \in Documents \cup {None}
  BY <1>2 DEF WellFormed, HasRow, Events, Reals, CallType
<1>4. /\ calls' = Append(RemoveAt(calls, i), c)
      /\ history' = history /\ inbox' = inbox /\ socket' = socket
      /\ page' = [merged EXCEPT !.selectedDocument =
                    IF @ # None /\ @.document = row.document THEN row ELSE @]
  BY DEF ProcessArrives
<1> HIDE DEF row
<1>5. /\ merged \in Pages(history)
      /\ merged.documents = [page.documents EXCEPT ![row.document] = row]
      /\ merged.selectedDocument = page.selectedDocument
      /\ merged.selectedDocumentId = page.selectedDocumentId
      /\ merged.listState = page.listState /\ merged.detailState = page.detailState
      /\ merged.processingIds = page.processingIds
      /\ merged.notifications = page.notifications
  BY <1>1, <1>3, MergeFits
<1> HIDE DEF merged
<1>6. shown \in {page.selectedDocument, row} /\ shown \in Reals(history) \cup {None}
  <2>1. merged.selectedDocument \in Reals(history) \cup {None}
    BY <1>5, PageFields
  <2> QED
    BY <1>3, <1>5, <2>1
<1>7. page' = [merged EXCEPT !.selectedDocument = shown]
  BY <1>4, <1>5 DEF Pages
<1> HIDE DEF shown
<1>8. /\ page' \in Pages(history) /\ page'.selectedDocument = shown
      /\ page'.documents = merged.documents
      /\ page'.selectedDocumentId = merged.selectedDocumentId
      /\ page'.listState = merged.listState /\ page'.detailState = merged.detailState
      /\ page'.processingIds = merged.processingIds
      /\ page'.notifications = merged.notifications
  BY <1>5, <1>6, <1>7 DEF Pages
<1>9. c \in CallsOf(history) /\ c.kind = "summary" /\ c.about = d
  <2>1. "summary" \in Kinds \ {"list"} /\ row.document = d
    BY <1>3 DEF Kinds
  <2>2. Call("summary", d, calls[i].chosen) \in CallsOf(history)
    BY <1>3, <2>1, NewCallFits
  <2>3. Call("summary", d, calls[i].chosen).kind = "summary"
    BY DEF Call
  <2>4. Call("summary", d, calls[i].chosen).about = d
    BY DEF Call
  <2> QED
    BY <2>1, <2>2, <2>3, <2>4
<1> HIDE DEF c
<1>10. calls' \in Seq(CallsOf(history))
  BY <1>4, <1>9, RestFits, AppendProperties
<1>11. Fits(history, calls', inbox, page')
  BY <1>5, <1>8, <1>10 DEF Typed, Fits
<1> QED
  BY <1>2, <1>3, <1>4, <1>5, <1>6, <1>8, <1>9, <1>11 DEF row

\* What stays in flight when the handler of a run ends: without its request, or
\* with a request that is nobody's here.
Rest(i, rest) ==
  /\ rest \in Seq(CallsOf(history))
  /\ \/ rest = RemoveAt(calls, i)
     \/ /\ Len(rest) = Len(calls)
        /\ \A k \in 1..Len(calls) : k # i => rest[k] = calls[k]
        /\ rest[i].kind = "foreign"

RunEnds(i) == ProcessIsDeclined(i) \/ ProcessThrows(i) \/ SummaryArrives(i)

LEMMA FinallyOf ==
  ASSUME Typed, NEW i \in 1..Len(calls), RunEnds(i)
  PROVE  /\ Mine(calls[i])
         /\ \E p \in Pages(history), rest \in Seq(CallsOf(history)) :
              /\ Finally(i, p, rest) /\ Rest(i, rest)
              /\ \/ p.documents = page.documents
                 \/ \E row \in Reals(history) :
                      p.documents = [page.documents EXCEPT ![row.document] = row]
              /\ p.selectedDocument = page.selectedDocument
              /\ p.selectedDocumentId = page.selectedDocumentId
              /\ p.processingIds = page.processingIds
              /\ p.notifications = page.notifications
<1>1. page \in Pages(history) /\ calls \in Seq(CallsOf(history))
  BY DEF Typed
<1>2. Mine(calls[i])
  BY DEF RunEnds, ProcessIsDeclined, ProcessThrows, SummaryArrives, Arrives, Is, Mine
<1>3. RemoveAt(calls, i) \in Seq(CallsOf(history)) /\ Rest(i, RemoveAt(calls, i))
  BY RestFits DEF Rest
<1>4. CASE ProcessIsDeclined(i)
  <2> DEFINE row == calls[i].reply
             p == mergeDocument(page, row)
  <2>1. WellFormed(history, calls[i]) /\ calls[i].kind = "process" /\ calls[i].stage = "declined"
    BY <1>1, <1>4, CallInFlight DEF ProcessIsDeclined, Arrives, Is
  <2>2. row \in Reals(history) /\ row \in Known(history)
    BY <2>1 DEF WellFormed, HasRow, Reals
  <2>3. Finally(i, p, RemoveAt(calls, i))
    BY <1>4 DEF ProcessIsDeclined
  <2>4. /\ p \in Pages(history)
        /\ p.documents = [page.documents EXCEPT ![row.document] = row]
        /\ p.selectedDocument = page.selectedDocument
        /\ p.selectedDocumentId = page.selectedDocumentId
        /\ p.processingIds = page.processingIds
        /\ p.notifications = page.notifications
    BY <1>1, <2>2, MergeFits
  <2> HIDE DEF p
  <2> QED
    BY <1>2, <1>3, <2>2, <2>3, <2>4
<1>5. CASE Finally(i, page, RemoveAt(calls, i))
  BY <1>1, <1>2, <1>3, <1>5
<1>6. CASE /\ calls[i].kind = "process"
           /\ Finally(i, page, [calls EXCEPT ![i].kind = "foreign"])
  <2> DEFINE rest == [calls EXCEPT ![i].kind = "foreign"]
  <2>1. rest \in Seq(CallsOf(history)) /\ Rest(i, rest)
    BY <1>1, <1>6, GivenUp DEF Rest
  <2> HIDE DEF rest
  <2>2. Finally(i, page, rest)
    BY <1>6 DEF rest
  <2> QED
    BY <1>1, <1>2, <2>1, <2>2
<1> QED
  BY <1>4, <1>5, <1>6 DEF RunEnds, ProcessThrows, SummaryArrives

LEMMA RunEndsFits ==
  ASSUME Typed, NEW i \in 1..Len(calls), RunEnds(i)
  PROVE  /\ Fits(history, calls', inbox, page') /\ Mine(calls[i])
         /\ \E rest \in Seq(CallsOf(history)) :
              /\ Rest(i, rest)
              /\ \/ /\ calls' = Append(Append(rest, ListCall), DetailCall(calls[i].about))
                    /\ newest' = "in flight"
                 \/ calls' = Append(rest, ListCall) /\ newest' = newest
         /\ \/ page'.documents = page.documents
            \/ \E row \in Reals(history) :
                 page'.documents = [page.documents EXCEPT ![row.document] = row]
         /\ page'.listState = "loading"
         /\ page'.selectedDocument = page.selectedDocument
         /\ page'.selectedDocumentId = page.selectedDocumentId
         /\ page'.processingIds = page.processingIds \ {calls[i].about}
         /\ page'.notifications = page.notifications
         /\ history' = history /\ inbox' = inbox /\ socket' = socket
<1>1. Mine(calls[i])
  BY FinallyOf
<1>2. PICK p \in Pages(history), rest \in Seq(CallsOf(history)) :
        /\ Finally(i, p, rest) /\ Rest(i, rest)
        /\ \/ p.documents = page.documents
           \/ \E row \in Reals(history) :
                p.documents = [page.documents EXCEPT ![row.document] = row]
        /\ p.selectedDocument = page.selectedDocument
        /\ p.selectedDocumentId = page.selectedDocumentId
        /\ p.processingIds = page.processingIds
        /\ p.notifications = page.notifications
  BY FinallyOf
<1>3. /\ calls' \in Seq(CallsOf(history)) /\ page' \in Pages(history)
      /\ page'.listState = "loading"
      /\ page'.documents = p.documents
      /\ page'.selectedDocument = p.selectedDocument
      /\ page'.selectedDocumentId = p.selectedDocumentId
      /\ page'.processingIds = p.processingIds \ {calls[i].about}
      /\ page'.notifications = p.notifications
      /\ \/ /\ calls' = Append(Append(rest, ListCall), DetailCall(calls[i].about))
            /\ newest' = "in flight"
         \/ calls' = Append(rest, ListCall) /\ newest' = newest
      /\ history' = history /\ socket' = socket /\ inbox' = inbox /\ clicks' = clicks
  BY <1>1, <1>2, FinallyFits
<1>4. Fits(history, calls', inbox, page')
  BY <1>2, <1>3 DEF Fits, Typed
<1>5. \/ page'.documents = page.documents
      \/ \E row \in Reals(history) :
           page'.documents = [page.documents EXCEPT ![row.document] = row]
  BY <1>2, <1>3
<1> QED
  BY <1>1, <1>2, <1>3, <1>4, <1>5

-----------------------------------------------------------------------------
(* Other clients and the socket.                                           *)

LEMMA ForeignFits ==
  ASSUME Typed,
         (\E d \in Documents : OtherClientAsks(d)) \/ \E i \in 1..Len(calls) : ForeignEnds(i)
  PROVE  /\ Fits(history, calls', inbox, page)
         /\ \/ \E c \in CallsOf(history) : c.kind = "foreign" /\ calls' = Append(calls, c)
            \/ \E i \in 1..Len(calls) : calls[i].kind = "foreign" /\ calls' = RemoveAt(calls, i)
         /\ page' = page /\ history' = history /\ inbox' = inbox /\ socket' = socket
         /\ clicks' = clicks
<1>1. calls \in Seq(CallsOf(history)) /\ history \in Histories
  BY DEF Typed
<1>2. CASE \E d \in Documents : OtherClientAsks(d)
  <2>1. PICK d \in Documents : OtherClientAsks(d)
    BY <1>2
  <2>2. history[d] \in Seq(Statuses) /\ history[d] # <<>>
    BY <1>1, <2>1 DEF OtherClientAsks, Histories
  <2>3. 1 <= Len(history[d])
    BY <2>2
  <2>4. Call("foreign", d, None) \in CallsOf(history) /\ Call("foreign", d, None).kind = "foreign"
    BY <2>3, NewCallFits DEF Kinds
  <2>5. calls' = Append(calls, Call("foreign", d, None))
    BY <2>1 DEF OtherClientAsks
  <2>6. calls' \in Seq(CallsOf(history))
    BY <1>1, <2>4, <2>5, AppendProperties
  <2>7. page' = page /\ history' = history /\ inbox' = inbox /\ socket' = socket /\ clicks' = clicks
    BY <2>1 DEF OtherClientAsks
  <2> QED
    BY <2>4, <2>5, <2>6, <2>7 DEF Typed, Fits
<1>3. CASE \E i \in 1..Len(calls) : ForeignEnds(i)
  <2>1. PICK i \in 1..Len(calls) : ForeignEnds(i)
    BY <1>3
  <2>2. calls[i].kind = "foreign" /\ calls' = RemoveAt(calls, i)
    BY <2>1 DEF ForeignEnds
  <2>3. calls' \in Seq(CallsOf(history))
    BY <2>2, RestFits
  <2>4. page' = page /\ history' = history /\ inbox' = inbox /\ socket' = socket /\ clicks' = clicks
    BY <2>1 DEF ForeignEnds
  <2> QED
    BY <2>2, <2>3, <2>4 DEF Typed, Fits
<1> QED
  BY <1>2, <1>3

LEMMA StatusChangedFits ==
  ASSUME PageAssumption, Typed, handleStatusChanged
  PROVE  /\ Fits(history, calls', inbox', page')
         /\ Head(inbox) \in Events(history)
         /\ \/ /\ page.selectedDocumentId = Head(inbox).document
               /\ calls' = Append(calls, DetailCall(Head(inbox).document))
               /\ newest' = "in flight"
            \/ /\ page.selectedDocumentId # Head(inbox).document
               /\ calls' = calls /\ newest' = newest
         /\ page'.documents = [d \in Documents |-> applyStatusEvent(page.documents[d], Head(inbox))]
         /\ page'.selectedDocument = applyStatusEvent(page.selectedDocument, Head(inbox))
         /\ page'.selectedDocumentId = page.selectedDocumentId
         /\ page'.processingIds = page.processingIds
         /\ page'.listState = page.listState
         /\ \A k \in 1..Len(page'.notifications) :
              \/ page'.notifications[k] = Head(inbox)
              \/ \E j \in 1..Len(page.notifications) :
                   page'.notifications[k] = page.notifications[j]
         /\ history' = history /\ socket' = socket /\ socket = "connected"
<1> DEFINE e == Head(inbox)
           docs == [d \in Documents |-> applyStatusEvent(page.documents[d], e)]
           shown == applyStatusEvent(page.selectedDocument, e)
           q == [page EXCEPT !.notifications = WithNews(e),
                             !.documents = [d \in Documents |-> applyStatusEvent(@[d], e)],
                             !.selectedDocument = applyStatusEvent(@, e)]
<1>1. page \in Pages(history) /\ calls \in Seq(CallsOf(history)) /\ history \in Histories
      /\ inbox \in Seq(Events(history))
  BY DEF Typed
<1>2. /\ socket = "connected" /\ inbox # <<>> /\ inbox' = Tail(inbox) /\ ReadAgain(q, e)
      /\ history' = history /\ socket' = socket
  BY DEF handleStatusChanged
<1>3. e \in Events(history) /\ inbox' \in Seq(Events(history))
  BY <1>1, <1>2, HeadTailProperties
<1> HIDE DEF e
<1>4. e \in Reals(history) /\ e \in Known(history) /\ e.document \in Documents
      /\ 1 <= Len(history[e.document])
  <2>1. e \in Reals(history) /\ e \in Known(history) /\ e.document \in Documents
    BY <1>3 DEF Events, Reals, Known, RowType
  <2>2. history[e.document] \in Seq(Statuses)
    BY <1>1, <2>1 DEF Histories
  <2> QED
    BY <2>1, <2>2 DEF Known
<1>5. docs \in ShownLists(history)
  <2>1. page.documents \in ShownLists(history)
    BY <1>1, PageFields
  <2> QED
    BY <1>4, <2>1 DEF ShownLists, applyStatusEvent
<1>6. shown \in Reals(history) \cup {None}
  BY <1>1, <1>4, PageFields DEF applyStatusEvent
<1>7. PICK news : news = WithNews(e)
  OBVIOUS
<1>8. /\ news \in Seq(Events(history)) /\ Len(news) <= MaxNotifications
      /\ \A k \in 1..Len(news) :
           news[k] = e \/ \E j \in 1..Len(page.notifications) : news[k] = page.notifications[j]
  <2>1. PICK ns \in Seq(Events(history)) : ns = page.notifications
    BY <1>1, PageFields
  <2>2. Len(ns) <= MaxNotifications /\ MaxNotifications \in Nat \ {0}
    BY <2>1 DEF Typed, PageAssumption
  <2>3. PICK x : x = <<e>> \o ns
    OBVIOUS
  <2>4. /\ x \in Seq(Events(history)) /\ Len(x) = 1 + Len(ns) /\ x[1] = e
        /\ \A k \in 2..Len(x) : x[k] = ns[k - 1]
    <3>1. <<e>> \in Seq(Events(history)) /\ Len(<<e>>) = 1 /\ <<e>>[1] = e
      BY <1>3
    <3> QED
      BY <2>3, <3>1, ConcatProperties
  <2>5. PICK n \in Nat : /\ n = IF Len(ns) < MaxNotifications THEN Len(ns) + 1 ELSE MaxNotifications
                         /\ 1 <= n /\ n <= Len(x) /\ n <= MaxNotifications
    BY <2>2, <2>4
  <2>6. news = SubSeq(x, 1, n)
    BY <1>7, <2>1, <2>3, <2>5 DEF WithNews
  <2> HIDE <1>7, <2>3
  <2>7. /\ SubSeq(x, 1, n) \in Seq(Events(history)) /\ Len(SubSeq(x, 1, n)) = n
        /\ \A k \in 1..n :
             SubSeq(x, 1, n)[k] = e \/ \E j \in 1..Len(ns) : SubSeq(x, 1, n)[k] = ns[j]
    <3>1. PICK S : S = Events(history)
      OBVIOUS
    <3>2. e \in S /\ ns \in Seq(S) /\ x \in Seq(S)
      BY <1>3, <2>4, <3>1
    <3>3. Len(x) = 1 + Len(ns) /\ x[1] = e /\ 1 <= n /\ n <= Len(x)
      BY <2>4, <2>5
    <3>4. \A k \in 2..Len(x) : x[k] = ns[k - 1]
      BY <2>4
    <3> HIDE <3>1
    <3>5. /\ SubSeq(x, 1, n) \in Seq(S) /\ Len(SubSeq(x, 1, n)) = n
          /\ \A k \in 1..n :
               SubSeq(x, 1, n)[k] = e \/ \E j \in 1..Len(ns) : SubSeq(x, 1, n)[k] = ns[j]
      BY <3>2, <3>3, <3>4, NewsAreKept
    <3> QED
      BY <3>1, <3>5
  <2>8. \A k \in 1..Len(news) :
          news[k] = e \/ \E j \in 1..Len(page.notifications) : news[k] = page.notifications[j]
    BY ZenonT(30), <2>1, <2>6, <2>7
  <2>9. news \in Seq(Events(history)) /\ Len(news) <= MaxNotifications
    BY ZenonT(30), <2>5, <2>6, <2>7
  <2> QED
    BY <2>8, <2>9
<1>9. q = [page EXCEPT !.notifications = news, !.documents = docs, !.selectedDocument = shown]
  BY <1>1, <1>7 DEF Pages
<1>10. ReadAgain(q, e)
  BY <1>2
<1> HIDE <1>7 DEF docs, shown, q
<1>11. /\ q \in Pages(history) /\ q.notifications = news /\ q.documents = docs
       /\ q.selectedDocument = shown /\ q.selectedDocumentId = page.selectedDocumentId
       /\ q.processingIds = page.processingIds /\ q.listState = page.listState
  BY <1>1, <1>5, <1>6, <1>8, <1>9 DEF Pages
<1>12. /\ calls' \in Seq(CallsOf(history))
       /\ \/ /\ page.selectedDocumentId = e.document
             /\ calls' = Append(calls, DetailCall(e.document))
             /\ page' = LoadDetail(q) /\ newest' = "in flight"
          \/ /\ page.selectedDocumentId # e.document
             /\ calls' = calls /\ page' = q /\ newest' = newest
  BY <1>1, <1>4, <1>10, <1>11, DetailIsAdded DEF ReadAgain
<1>13. /\ page' \in Pages(history) /\ page'.notifications = news /\ page'.documents = docs
       /\ page'.selectedDocument = shown /\ page'.selectedDocumentId = page.selectedDocumentId
       /\ page'.processingIds = page.processingIds /\ page'.listState = page.listState
  <2>1. /\ LoadDetail(q) \in Pages(history) /\ LoadDetail(q).notifications = news
        /\ LoadDetail(q).documents = docs /\ LoadDetail(q).selectedDocument = shown
        /\ LoadDetail(q).selectedDocumentId = page.selectedDocumentId
        /\ LoadDetail(q).processingIds = page.processingIds
        /\ LoadDetail(q).listState = page.listState
    BY <1>11, LoadDetailFits
  <2>2. CASE page' = q
    BY <1>11, <2>2
  <2>3. CASE page' = LoadDetail(q)
    BY <2>1, <2>3
  <2>4. page' = q \/ page' = LoadDetail(q)
    BY <1>12
  <2> QED
    BY <2>2, <2>3, <2>4
<1>14. Fits(history, calls', inbox', page')
  BY <1>3, <1>8, <1>12, <1>13 DEF Fits
<1>15. page'.documents = docs /\ page'.selectedDocument = shown
  BY <1>13
<1> QED
  BY <1>2, <1>3, <1>8, <1>12, <1>13, <1>14, <1>15 DEF docs, shown, e

-----------------------------------------------------------------------------
(* Types.                                                                  *)

\* The page and its requests fit the history after every step.
LEMMA StepFits ==
  ASSUME PageAssumption, Typed, [Next]_vars
  PROVE  /\ history' \in Histories /\ Grown(history, history')
         /\ Fits(history', calls', inbox', page')
<1>1. history \in Histories /\ Grown(history, history) /\ Fits(history, calls, inbox, page)
  BY NothingWrittenGrows DEF Typed, Fits
<1>2. CASE UserStep
  <2>1. CASE Refresh
    BY <1>1, <2>1, RefreshFits
  <2>2. CASE handleDownload
    BY <1>1, <2>2, OtherClicksFit
  <2>3. ASSUME NEW d \in Documents, Select(d) \/ handleProcess(d) \/ handleUpload(d)
        PROVE  /\ history' \in Histories /\ Grown(history, history')
               /\ Fits(history', calls', inbox', page')
    BY <1>1, <2>3, SelectFits, HandleProcessFits, OtherClicksFit
  <2> QED
    BY <1>2, <2>1, <2>2, <2>3 DEF UserStep
<1>3. ASSUME NEW i \in 1..Len(calls), ServiceStep(i) \/ AnswerArrives(i)
      PROVE  /\ history' \in Histories /\ Grown(history, history')
             /\ Fits(history', calls', inbox', page')
  <2>1. CASE ServeRead(i) \/ ServeUpload(i) \/ StartRun(i) \/ FinishRun(i)
    <3>1. /\ history' \in Histories /\ Grown(history, history')
          /\ calls' \in Seq(CallsOf(history')) /\ page' = page /\ inbox' = inbox
      BY <2>1, ServeReadFits, ServeWriteFits
    <3>2. Fits(history', calls, inbox, page)
      BY <1>1, <3>1, FitsStays
    <3> QED
      BY <3>1, <3>2 DEF Fits
  <2>2. CASE AnswerRun(i)
    BY <1>1, <2>2, AnswerRunFits DEF Fits
  <2>3. CASE ForeignEnds(i)
    BY <1>1, <2>3, ForeignFits
  <2>4. CASE refreshDocuments(i) \/ loadDocument(i) \/ DownloadUrlArrives(i) \/ UploadIsRefused(i)
    BY <1>1, <2>4, RefreshDocumentsFits, LoadDocumentFits, OtherAnswersFit
  <2>5. CASE UploadArrives(i) \/ ProcessArrives(i)
    BY <1>1, <2>5, UploadArrivesFits, ProcessArrivesFits
  <2>6. CASE ProcessIsDeclined(i) \/ ProcessThrows(i) \/ SummaryArrives(i)
    BY <1>1, <2>6, RunEndsFits DEF RunEnds
  <2> QED
    BY <1>3, <2>1, <2>2, <2>3, <2>4, <2>5, <2>6 DEF ServiceStep, AnswerArrives
<1>4. CASE \E d \in Documents : OtherClientAsks(d)
  BY <1>1, <1>4, ForeignFits
<1>5. CASE Connect \/ Disconnect
  <2>1. <<>> \in Seq(Events(history))
    OBVIOUS
  <2> QED
    BY <1>1, <1>5, <2>1 DEF Connect, Disconnect, Fits
<1>6. CASE handleStatusChanged
  BY <1>1, <1>6, StatusChangedFits
<1>7. CASE UNCHANGED vars
  BY <1>1, <1>7 DEF vars
<1> QED
  BY <1>2, <1>3, <1>4, <1>5, <1>6, <1>7 DEF Next

\* Where the answer to the last detail is after every step.
LEMMA StepKeepsNewest ==
  ASSUME Typed, [Next]_vars
  PROVE  newest' \in {"in flight", "shown", "gone"}
<1>1. newest \in {"in flight", "shown", "gone"}
  BY DEF Typed
<1>2. CASE UserStep
  BY <1>1, <1>2 DEF UserStep, Refresh, Select, Choose, handleProcess, handleDownload, handleUpload
<1>3. ASSUME NEW i \in 1..Len(calls), ServiceStep(i)
      PROVE  newest' = newest
  BY <1>3 DEF ServiceStep, ServeRead, ServeUpload, StartRun, FinishRun, AnswerRun, ForeignEnds, Become
<1>4. ASSUME NEW i \in 1..Len(calls), AnswerArrives(i)
      PROVE  newest' \in {"in flight", "shown", "gone"}
  BY <1>1, <1>4 DEF AnswerArrives, refreshDocuments, loadDocument, DownloadUrlArrives,
     UploadArrives, UploadIsRefused, ProcessArrives, ProcessIsDeclined, ProcessThrows,
     SummaryArrives, Finally, Choose
<1>5. CASE (\E d \in Documents : OtherClientAsks(d)) \/ Connect \/ Disconnect
  BY <1>1, <1>5 DEF OtherClientAsks, Connect, Disconnect
<1>6. CASE handleStatusChanged
  BY <1>1, <1>6 DEF handleStatusChanged, ReadAgain
<1>7. CASE UNCHANGED vars
  BY <1>1, <1>7 DEF vars
<1> QED
  BY <1>1, <1>2, <1>3, <1>4, <1>5, <1>6, <1>7 DEF Next

\* The socket and the clicks after every step.
LEMMA StepConnects ==
  ASSUME PageAssumption, Typed, [Next]_vars
  PROVE  /\ socket' \in {"connecting", "connected"}
         /\ socket' = "connecting" => inbox' = <<>>
         /\ clicks' \in 0..MaxClicks
<1> USE DEF Typed
<1>1. CASE UserStep
  <2>1. /\ clicks < MaxClicks /\ clicks' = clicks + 1
    BY <1>1 DEF UserStep, Refresh, Select, handleProcess, handleDownload, handleUpload, Click
  <2>2. \/ socket' = socket /\ inbox' = inbox
        \/ socket' = "connecting" /\ inbox' = <<>>
    BY <1>1 DEF UserStep, Refresh, Select, handleProcess, handleDownload, handleUpload, Choose
  <2>3. clicks + 1 \in 0..MaxClicks
    <3>1. clicks \in 0..MaxClicks /\ MaxClicks \in Nat
      BY DEF PageAssumption
    <3> HIDE DEF Typed
    <3> QED
      BY <2>1, <3>1
  <2> QED
    BY <2>1, <2>2, <2>3
<1>2. ASSUME NEW i \in 1..Len(calls), ServiceStep(i)
      PROVE  /\ socket' = socket /\ clicks' = clicks
             /\ inbox' = inbox \/ socket = "connected"
  BY <1>2, ServeReadFits, ServeWriteFits, AnswerRunFits, ForeignFits DEF ServiceStep
<1>3. ASSUME NEW i \in 1..Len(calls), AnswerArrives(i)
      PROVE  /\ clicks' = clicks
             /\ \/ socket' = socket /\ inbox' = inbox
                \/ socket' = "connecting" /\ inbox' = <<>>
  BY <1>3 DEF AnswerArrives, refreshDocuments, loadDocument, DownloadUrlArrives, UploadArrives,
     UploadIsRefused, ProcessArrives, ProcessIsDeclined, ProcessThrows, SummaryArrives, Finally,
     Quietly, Choose
<1>4. CASE \E d \in Documents : OtherClientAsks(d)
  BY <1>4 DEF OtherClientAsks
<1>5. CASE Connect \/ Disconnect \/ handleStatusChanged
  BY <1>5 DEF Connect, Disconnect, handleStatusChanged
<1>6. CASE UNCHANGED vars
  BY <1>6 DEF vars
<1> QED
  BY <1>1, <1>2, <1>3, <1>4, <1>5, <1>6 DEF Next

LEMMA InitIsTyped ==
  ASSUME PageAssumption, Init
  PROVE  Typed
<1>1. history \in Histories
  <2>1. <<"UPLOADED">> \in Seq(Statuses) /\ <<>> \in Seq(Statuses)
    BY DEF Statuses
  <2> QED
    BY <2>1 DEF Init, Histories
<1>2. calls \in Seq(CallsOf(history))
  <2>1. ListCall \in CallsOf(history)
    BY ListCallFits
  <2>2. PICK c \in CallsOf(history) : c = ListCall
    BY <2>1
  <2>3. calls = <<c>>
    BY <2>2 DEF Init
  <2> HIDE <2>2
  <2> QED
    BY <2>3
<1>3. page \in Pages(history) /\ page.notifications = <<>>
  <2>1. [d \in Documents |-> None] \in ShownLists(history)
    BY DEF ShownLists
  <2>2. <<>> \in Seq(Events(history))
    OBVIOUS
  <2> QED
    BY <2>1, <2>2 DEF Init, Pages
<1>4. <<>> \in Seq(Events(history)) /\ Len(<<>>) = 0
  OBVIOUS
<1>5. socket = "connecting" /\ inbox = <<>> /\ clicks = 0 /\ newest = "gone"
  BY DEF Init
<1> QED
  BY <1>1, <1>2, <1>3, <1>4, <1>5 DEF Typed, PageAssumption

LEMMA StepIsTyped ==
  ASSUME PageAssumption, Typed, [Next]_vars
  PROVE  Typed'
BY StepFits, StepConnects, StepKeepsNewest DEF Typed, Fits

LEMMA AlwaysTyped == Spec => []Typed
<1>1. Init => Typed
  BY InitIsTyped, PageAssumption
<1>2. Typed /\ [Next]_vars => Typed'
  BY StepIsTyped, PageAssumption
<1> QED
  BY <1>1, <1>2, PTL DEF Spec

\* What history, socket, page and clicks can hold is what the code can put there,
\* and the panel never holds more than MaxNotifications: whatever the order of
\* clicks, answers and events.
THEOREM TypeCorrect == Spec => []TypeOK
<1>1. Typed => TypeOK
  <2> SUFFICES ASSUME Typed
               PROVE  TypeOK
    OBVIOUS
  <2>1. page \in Pages(history)
    BY DEF Typed
  <2> QED
    BY <2>1, PageFields DEF Typed, TypeOK, Histories, Statuses
<1> QED
  BY <1>1, AlwaysTyped, PTL

\* The detail and the panel never show a row that its document never had.
THEOREM DetailWasReal == Spec => []DetailIsReal
<1>1. Typed => DetailIsReal
  <2> SUFFICES ASSUME Typed
               PROVE  DetailIsReal
    OBVIOUS
  <2>1. page \in Pages(history)
    BY DEF Typed
  <2>2. \A r \in Reals(history) : Real(r)
    BY DEF Real, Reals, Known
  <2>3. page.selectedDocument # None => Real(page.selectedDocument)
    BY <2>1, <2>2, PageFields
  <2>4. PICK ns \in Seq(Events(history)) : ns = page.notifications
    BY <2>1, PageFields
  <2>5. \A k \in 1..Len(ns) : Real(ns[k])
    <3>1. \A k \in 1..Len(ns) : ns[k] \in Events(history)
      BY ElementOfSeq
    <3> QED
      BY <2>2, <3>1 DEF Events
  <2> QED
    BY <2>3, <2>4, <2>5 DEF DetailIsReal
<1> QED
  BY <1>1, AlwaysTyped, PTL

-----------------------------------------------------------------------------
(* One run at a time.                                                      *)

LEMMA AppendElements ==
  ASSUME NEW S, NEW cs \in Seq(S), NEW c \in S
  PROVE  /\ Append(cs, c) \in Seq(S) /\ Len(Append(cs, c)) = Len(cs) + 1
         /\ Append(cs, c)[Len(cs) + 1] = c
         /\ \A k \in 1..Len(cs) : Append(cs, c)[k] = cs[k]
BY AppendProperties

LEMMA OthersComeAndGo ==
  ASSUME NEW S, NEW cs \in Seq(S), NEW c \in S, NEW ids, ~Mine(c), Exclusive(cs, ids)
  PROVE  Exclusive(Append(cs, c), ids)
<1> DEFINE ds == Append(cs, c)
<1>1. PICK n \in Nat : n = Len(cs)
  OBVIOUS
<1>2. Len(ds) = n + 1 /\ ds[n + 1] = c /\ \A k \in 1..n : ds[k] = cs[k]
  BY <1>1, AppendElements
<1> HIDE DEF ds
<1>3. \A k \in 1..n + 1 : Mine(ds[k]) => k \in 1..n /\ ds[k] = cs[k]
  <2> SUFFICES ASSUME NEW k \in 1..n + 1, Mine(ds[k])
               PROVE  k \in 1..n /\ ds[k] = cs[k]
    OBVIOUS
  <2>1. k # n + 1
    BY <1>2
  <2> QED
    BY <1>1, <1>2, <2>1
<1>4. \A k \in 1..n : k \in 1..n + 1
  BY <1>1
<1>5. Exclusive(ds, ids)
  <2>1. \A k \in 1..Len(ds) : Mine(ds[k]) => ds[k].about \in ids
    BY <1>1, <1>2, <1>3 DEF Exclusive
  <2>2. \A k, l \in 1..Len(ds) : Mine(ds[k]) /\ Mine(ds[l]) /\ ds[k].about = ds[l].about => k = l
    BY <1>1, <1>2, <1>3 DEF Exclusive
  <2>3. \A d \in ids : \E k \in 1..Len(ds) : Mine(ds[k]) /\ ds[k].about = d
    BY <1>1, <1>2, <1>4 DEF Exclusive
  <2> QED
    BY <2>1, <2>2, <2>3 DEF Exclusive
<1> QED
  BY <1>5 DEF ds

LEMMA MineBegins ==
  ASSUME NEW S, NEW cs \in Seq(S), NEW c \in S, NEW ids, Mine(c), c.about \notin ids,
         Exclusive(cs, ids)
  PROVE  Exclusive(Append(cs, c), ids \cup {c.about})
<1> DEFINE ds == Append(cs, c)
<1>1. PICK n \in Nat : n = Len(cs)
  OBVIOUS
<1>2. Len(ds) = n + 1 /\ ds[n + 1] = c /\ \A k \in 1..n : ds[k] = cs[k]
  BY <1>1, AppendElements
<1> HIDE DEF ds
<1>3. \A k \in 1..n + 1 : k = n + 1 \/ k \in 1..n
  BY <1>1
<1>4. n + 1 \in 1..n + 1 /\ \A k \in 1..n : k \in 1..n + 1
  BY <1>1
<1>5. \A k \in 1..n : Mine(ds[k]) => ds[k].about \in ids
  BY <1>1, <1>2 DEF Exclusive
<1>6. \A k \in 1..n + 1 : Mine(ds[k]) => ds[k].about \in ids \cup {c.about}
  BY <1>2, <1>3, <1>5
<1>7. \A k, l \in 1..n + 1 : Mine(ds[k]) /\ Mine(ds[l]) /\ ds[k].about = ds[l].about => k = l
  <2> SUFFICES ASSUME NEW k \in 1..n + 1, NEW l \in 1..n + 1,
                      Mine(ds[k]), Mine(ds[l]), ds[k].about = ds[l].about
               PROVE  k = l
    OBVIOUS
  <2>1. CASE k \in 1..n /\ l \in 1..n
    BY <1>1, <1>2, <2>1 DEF Exclusive
  <2>2. CASE k = n + 1 /\ l \in 1..n
    BY <1>2, <1>5, <2>2
  <2>3. CASE k \in 1..n /\ l = n + 1
    BY <1>2, <1>5, <2>3
  <2> QED
    BY <1>3, <2>1, <2>2, <2>3
<1>8. \A d \in ids \cup {c.about} : \E k \in 1..n + 1 : Mine(ds[k]) /\ ds[k].about = d
  BY <1>1, <1>2, <1>4 DEF Exclusive
<1>9. Exclusive(ds, ids \cup {c.about})
  BY <1>2, <1>6, <1>7, <1>8 DEF Exclusive
<1> QED
  BY <1>9 DEF ds

\* Without request i, whose document is no longer among ids if it was Mine.
LEMMA OneGoes ==
  ASSUME NEW S, NEW cs \in Seq(S), NEW i \in 1..Len(cs), NEW ids, NEW jds, Exclusive(cs, ids),
         jds = IF Mine(cs[i]) THEN ids \ {cs[i].about} ELSE ids
  PROVE  Exclusive(RemoveAt(cs, i), jds)
<1> DEFINE ds == RemoveAt(cs, i)
           at(k) == IF k < i THEN k ELSE k + 1
<1>1. PICK n \in Nat : n = Len(cs)
  OBVIOUS
<1>2. Len(ds) = n - 1 /\ \A k \in 1..n - 1 : ds[k] = cs[at(k)]
  BY <1>1, RemovedAt
<1> HIDE DEF ds
<1>3. \A k \in 1..n - 1 : at(k) \in 1..n /\ at(k) # i
  BY <1>1
<1>4. \A k, l \in 1..n - 1 : at(k) = at(l) => k = l
  BY <1>1
<1>5. \A m \in 1..n : m # i => \E k \in 1..n - 1 : at(k) = m
  <2> SUFFICES ASSUME NEW m \in 1..n, m # i
               PROVE  \E k \in 1..n - 1 : at(k) = m
    OBVIOUS
  <2>1. CASE m < i
    BY <1>1, <2>1
  <2>2. CASE m > i
    <3>1. m - 1 \in 1..n - 1 /\ at(m - 1) = m
      BY <1>1, <2>2
    <3> QED
      BY <3>1
  <2> QED
    BY <1>1, <2>1, <2>2
<1> HIDE DEF at
<1>6. \A k \in 1..n - 1 : Mine(ds[k]) => ds[k].about \in jds
  <2> SUFFICES ASSUME NEW k \in 1..n - 1, Mine(ds[k])
               PROVE  ds[k].about \in jds
    OBVIOUS
  <2>1. at(k) \in 1..n /\ at(k) # i /\ ds[k] = cs[at(k)]
    BY <1>2, <1>3
  <2> QED
    BY <1>1, <2>1 DEF Exclusive
<1>7. \A k, l \in 1..n - 1 : Mine(ds[k]) /\ Mine(ds[l]) /\ ds[k].about = ds[l].about => k = l
  <2> SUFFICES ASSUME NEW k \in 1..n - 1, NEW l \in 1..n - 1,
                      Mine(ds[k]), Mine(ds[l]), ds[k].about = ds[l].about
               PROVE  k = l
    OBVIOUS
  <2>1. at(k) \in 1..n /\ at(l) \in 1..n /\ ds[k] = cs[at(k)] /\ ds[l] = cs[at(l)]
    BY <1>2, <1>3
  <2>2. at(k) = at(l)
    BY <1>1, <2>1 DEF Exclusive
  <2> QED
    BY <1>4, <2>2
<1>8. \A d \in jds : \E k \in 1..n - 1 : Mine(ds[k]) /\ ds[k].about = d
  <2> SUFFICES ASSUME NEW d \in jds
               PROVE  \E k \in 1..n - 1 : Mine(ds[k]) /\ ds[k].about = d
    OBVIOUS
  <2>1. PICK m \in 1..n : Mine(cs[m]) /\ cs[m].about = d
    BY <1>1 DEF Exclusive
  <2>2. m # i
    BY <2>1
  <2>3. PICK k \in 1..n - 1 : at(k) = m
    BY <1>5, <2>2
  <2> QED
    BY <1>2, <2>1, <2>3
<1>9. Exclusive(ds, jds)
  BY <1>2, <1>6, <1>7, <1>8 DEF Exclusive
<1> QED
  BY <1>9 DEF ds

\* Request i has become another that is not Mine.
LEMMA OneIsGivenUp ==
  ASSUME NEW S, NEW cs \in Seq(S), NEW ds \in Seq(S), NEW i \in 1..Len(cs), NEW ids,
         Exclusive(cs, ids), Len(ds) = Len(cs), Mine(cs[i]), ~Mine(ds[i]),
         \A k \in 1..Len(cs) : k # i => ds[k] = cs[k]
  PROVE  Exclusive(ds, ids \ {cs[i].about})
<1>1. \A k \in 1..Len(ds) : Mine(ds[k]) => k # i /\ ds[k] = cs[k]
  OBVIOUS
<1>2. \A k \in 1..Len(ds) : Mine(ds[k]) => ds[k].about \in ids \ {cs[i].about}
  BY <1>1 DEF Exclusive
<1>3. \A k, l \in 1..Len(ds) : Mine(ds[k]) /\ Mine(ds[l]) /\ ds[k].about = ds[l].about => k = l
  BY <1>1 DEF Exclusive
<1>4. \A d \in ids \ {cs[i].about} : \E k \in 1..Len(ds) : Mine(ds[k]) /\ ds[k].about = d
  <2> SUFFICES ASSUME NEW d \in ids \ {cs[i].about}
               PROVE  \E k \in 1..Len(ds) : Mine(ds[k]) /\ ds[k].about = d
    OBVIOUS
  <2>1. PICK k \in 1..Len(cs) : Mine(cs[k]) /\ cs[k].about = d
    BY DEF Exclusive
  <2> QED
    BY <2>1
<1> QED
  BY <1>2, <1>3, <1>4 DEF Exclusive

LEMMA RestIsExclusive ==
  ASSUME Typed, Exclusive(calls, page.processingIds), NEW i \in 1..Len(calls), Mine(calls[i]),
         NEW rest \in Seq(CallsOf(history)), Rest(i, rest)
  PROVE  Exclusive(rest, page.processingIds \ {calls[i].about})
<1>1. calls \in Seq(CallsOf(history))
  BY DEF Typed
<1>2. CASE rest = RemoveAt(calls, i)
  <2>1. Exclusive(RemoveAt(calls, i), page.processingIds \ {calls[i].about})
    BY <1>1, OneGoes
  <2> QED
    BY <1>2, <2>1
<1>3. CASE /\ Len(rest) = Len(calls) /\ rest[i].kind = "foreign"
           /\ \A k \in 1..Len(calls) : k # i => rest[k] = calls[k]
  <2>1. ~Mine(rest[i])
    BY <1>3 DEF Mine
  <2> QED
    BY <1>1, <1>3, <2>1, OneIsGivenUp
<1> QED
  BY <1>2, <1>3 DEF Rest

LEMMA StepIsExclusive ==
  ASSUME PageAssumption, Typed, Exclusive(calls, page.processingIds), [Next]_vars
  PROVE  Exclusive(calls', page'.processingIds)
<1> DEFINE ids == page.processingIds
           More == \E c \in CallsOf(history) : ~Mine(c) /\ calls' = Append(calls, c)
<1>1. calls \in Seq(CallsOf(history)) /\ page \in Pages(history)
  BY DEF Typed
<1>2. ListCall \in CallsOf(history) /\ ~Mine(ListCall)
  BY ListCallFits DEF Mine
<1>3. \A d : ~Mine(DetailCall(d))
  BY DEF DetailCall, Call, Mine
\* What steps add to the requests is mostly not Mine.
<1>4. ASSUME More, page'.processingIds = ids
      PROVE  Exclusive(calls', page'.processingIds)
  <2>1. PICK c \in CallsOf(history) : ~Mine(c) /\ calls' = Append(calls, c)
    BY <1>4
  <2>2. Exclusive(Append(calls, c), ids)
    BY <1>1, <2>1, OthersComeAndGo
  <2> QED
    BY <1>4, <2>1, <2>2
\* A detail that is asked for after the list.
<1>5. ASSUME NEW rest \in Seq(CallsOf(history)), NEW jds, Exclusive(rest, jds), NEW d,
             \/ calls' = Append(rest, ListCall)
             \/ /\ calls' = Append(Append(rest, ListCall), DetailCall(d))
                /\ DetailCall(d) \in CallsOf(history)
      PROVE  Exclusive(calls', jds)
  <2>1. Exclusive(Append(rest, ListCall), jds) /\ Append(rest, ListCall) \in Seq(CallsOf(history))
    <3>1. PICK c \in CallsOf(history) : c = ListCall /\ ~Mine(c)
      BY <1>2
    <3>2. Exclusive(rest, jds)
      BY <1>5
    <3>3. Exclusive(Append(rest, c), jds)
      BY <3>1, <3>2, OthersComeAndGo
    <3> QED
      BY <3>1, <3>3, ListIsAdded
  <2>2. CASE calls' = Append(rest, ListCall)
    BY <2>1, <2>2
  <2>3. CASE /\ calls' = Append(Append(rest, ListCall), DetailCall(d))
             /\ DetailCall(d) \in CallsOf(history)
    <3>1. PICK cs \in Seq(CallsOf(history)) : cs = Append(rest, ListCall)
      BY <2>1
    <3>2. Exclusive(cs, jds)
      BY <2>1, <3>1
    <3>3. Exclusive(Append(cs, DetailCall(d)), jds)
      BY <1>3, <2>3, <3>2, OthersComeAndGo
    <3> QED
      BY <2>3, <3>1, <3>3
  <2> QED
    BY <1>5, <2>2, <2>3
\* The end of a request that is not Mine.
<1>6. ASSUME NEW i \in 1..Len(calls), ~Mine(calls[i])
      PROVE  Exclusive(RemoveAt(calls, i), ids)
  BY <1>1, <1>6, OneGoes
<1>7. ASSUME NEW i \in 1..Len(calls), WellFormed(history, calls[i]),
             calls[i].kind \notin {"list", "upload"}
      PROVE  DetailCall(calls[i].about) \in CallsOf(history)
  BY <1>7, DetailCallFits DEF WellFormed
<1>8. CASE UserStep
  <2>1. CASE Refresh
    <3>1. page'.processingIds = ids
      BY <1>1, <2>1, RefreshFits, LoadListFits
    <3>2. More
      BY <1>2, <2>1, RefreshFits
    <3> QED
      BY <1>4, <3>1, <3>2
  <2>2. CASE handleDownload \/ \E d \in Documents : handleUpload(d)
    <3>1. page'.processingIds = ids
      BY <2>2, OtherClicksFit
    <3>2. More
      BY <2>2, OtherClicksFit DEF Mine
    <3> QED
      BY <1>4, <3>1, <3>2
  <2>3. ASSUME NEW d \in Documents, Select(d)
        PROVE  Exclusive(calls', page'.processingIds)
    <3>1. calls' = Append(calls, DetailCall(d)) /\ Choose(page, d)
      BY <2>3, SelectFits
    <3>2. page'.processingIds = ids
      BY <1>1, <3>1, ChooseFits
    <3>3. 1 <= Len(history[d])
      <4>1. page.documents[d] # None /\ page.documents \in ShownLists(history)
        BY <1>1, <2>3, PageFields DEF Select
      <4>2. page.documents[d] \in Known(history) /\ page.documents[d].document = d
        BY <4>1 DEF ShownLists
      <4>3. history[d] \in Seq(Statuses)
        BY DEF Typed, Histories
      <4> QED
        BY <4>2, <4>3 DEF Known
    <3>4. More
      BY <1>3, <3>1, <3>3, DetailCallFits
    <3> QED
      BY <1>4, <3>2, <3>4
  <2>4. ASSUME NEW d \in Documents, handleProcess(d)
        PROVE  Exclusive(calls', page'.processingIds)
    <3>1. PICK c \in CallsOf(history) : c = Call("process", d, page.selectedDocumentId)
      BY <2>4, HandleProcessFits
    <3>2. calls' = Append(calls, c) /\ d \notin ids /\ page'.processingIds = ids \cup {d}
      BY <2>4, <3>1, HandleProcessFits
    <3>3. Mine(c) /\ c.about = d
      BY <3>1 DEF Call, Mine
    <3>4. Exclusive(Append(calls, c), ids \cup {c.about})
      BY <1>1, <3>2, <3>3, MineBegins
    <3> QED
      BY <3>2, <3>3, <3>4
  <2> QED
    BY <1>8, <2>1, <2>2, <2>3, <2>4 DEF UserStep
<1>9. ASSUME NEW i \in 1..Len(calls), ServiceStep(i) \/ AnswerArrives(i)
      PROVE  Exclusive(calls', page'.processingIds)
  <2>1. CASE Serves(i)
    <3>1. /\ calls' \in Seq(CallsOf(history')) /\ Moved(i, history') /\ page' = page
      BY <2>1, ServeReadFits, ServeWriteFits, AnswerRunFits DEF Serves
    <3>2. PICK c \in CallsOf(history') :
            /\ c.kind = calls[i].kind /\ c.about = calls[i].about
            /\ Len(calls') = Len(calls)
            /\ \A k \in 1..Len(calls) : calls'[k] = IF k = i THEN c ELSE calls[k]
      BY <3>1 DEF Moved
    <3>3. \A k \in 1..Len(calls) : calls'[k].kind = calls[k].kind /\ calls'[k].about = calls[k].about
      BY <3>2
    <3>4. \A k \in 1..Len(calls) : Mine(calls'[k]) <=> Mine(calls[k])
      BY <3>3 DEF Mine
    <3>5. Exclusive(calls', ids)
      BY <3>2, <3>3, <3>4 DEF Exclusive
    <3> QED
      BY <3>1, <3>5
  <2>2. CASE ForeignEnds(i)
    <3>1. calls[i].kind = "foreign" /\ calls' = RemoveAt(calls, i) /\ page' = page
      BY <2>2 DEF ForeignEnds
    <3> QED
      BY <1>6, <3>1 DEF Mine
  <2>3. CASE refreshDocuments(i) \/ loadDocument(i) \/ DownloadUrlArrives(i) \/ UploadIsRefused(i)
    <3>1. /\ calls[i].kind \in {"list", "detail", "url", "upload"} /\ calls' = RemoveAt(calls, i)
          /\ page'.processingIds = ids
      BY <2>3, RefreshDocumentsFits, LoadDocumentFits, OtherAnswersFit
    <3> QED
      BY <1>6, <3>1 DEF Mine
  <2>4. CASE UploadArrives(i)
    <3> DEFINE rest == RemoveAt(calls, i)
    <3>1. /\ calls[i].kind = "upload" /\ page'.processingIds = ids
          /\ calls' = Append(Append(rest, ListCall), DetailCall(calls[i].about))
      BY <2>4, UploadArrivesFits
    <3>2. rest \in Seq(CallsOf(history)) /\ Exclusive(rest, ids)
      BY <1>6, <3>1, RestFits DEF Mine
    <3>3. DetailCall(calls[i].about) \in CallsOf(history)
      <4>1. WellFormed(history, calls[i]) /\ calls[i].stage = "answered"
        BY <1>1, <2>4, CallInFlight DEF UploadArrives, Arrives, Is
      <4>2. /\ calls[i].about \in Documents /\ calls[i].reply \in Reals(history)
            /\ calls[i].reply.document = calls[i].about
        BY <3>1, <4>1 DEF WellFormed, HasRow
      <4>3. history[calls[i].about] \in Seq(Statuses)
        BY <4>2 DEF Typed, Histories
      <4>4. 1 <= Len(history[calls[i].about])
        BY <4>2, <4>3 DEF Reals, Known
      <4> QED
        BY <4>2, <4>4, DetailCallFits
    <3> HIDE DEF rest
    <3> QED
      BY <1>5, <3>1, <3>2, <3>3
  <2>5. CASE ProcessArrives(i)
    <3>1. PICK c \in CallsOf(history) :
            c.kind = "summary" /\ c.about = calls[i].about /\ calls' = Append(RemoveAt(calls, i), c)
      BY <2>5, ProcessArrivesFits
    <3>2. calls[i].kind = "process" /\ page'.processingIds = ids
      BY <2>5, ProcessArrivesFits
    <3>3. PICK rest \in Seq(CallsOf(history)) : rest = RemoveAt(calls, i)
      BY RestFits
    <3>4. Exclusive(rest, ids \ {calls[i].about})
      BY <3>2, <3>3, RestIsExclusive DEF Rest, Mine
    <3>5. calls[i].about \in ids
      BY <3>2 DEF Exclusive, Mine
    <3>6. Exclusive(Append(rest, c), (ids \ {calls[i].about}) \cup {c.about})
      BY <3>1, <3>4, MineBegins DEF Mine
    <3>7. (ids \ {calls[i].about}) \cup {c.about} = ids
      BY <3>1, <3>5
    <3> QED
      BY <3>1, <3>2, <3>3, <3>6, <3>7
  <2>6. CASE RunEnds(i)
    <3>1. /\ Mine(calls[i]) /\ page'.processingIds = ids \ {calls[i].about}
      BY <2>6, RunEndsFits
    <3>2. PICK rest \in Seq(CallsOf(history)) :
            /\ Rest(i, rest)
            /\ \/ calls' = Append(Append(rest, ListCall), DetailCall(calls[i].about))
               \/ calls' = Append(rest, ListCall)
      BY <2>6, RunEndsFits
    <3>3. Exclusive(rest, ids \ {calls[i].about})
      BY <3>1, <3>2, RestIsExclusive
    <3>4. DetailCall(calls[i].about) \in CallsOf(history)
      <4>1. WellFormed(history, calls[i])
        BY <1>1, CallInFlight
      <4> QED
        BY <1>7, <3>1, <4>1 DEF Mine
    <3>5. Exclusive(calls', ids \ {calls[i].about})
      BY <1>5, <3>2, <3>3, <3>4
    <3> QED
      BY <3>1, <3>5
  <2> QED
    BY <1>9, <2>1, <2>2, <2>3, <2>4, <2>5, <2>6 DEF ServiceStep, AnswerArrives, Serves, RunEnds
<1>10. CASE \E d \in Documents : OtherClientAsks(d)
  <2>1. PICK d \in Documents : OtherClientAsks(d)
    BY <1>10
  <2>2. calls' = Append(calls, Call("foreign", d, None)) /\ page' = page
    BY <2>1 DEF OtherClientAsks
  <2>3. 1 <= Len(history[d])
    <3>1. history[d] \in Seq(Statuses) /\ history[d] # <<>>
      BY <2>1 DEF OtherClientAsks, Typed, Histories
    <3> QED
      BY <3>1
  <2>4. More
    <3>1. Call("foreign", d, None) \in CallsOf(history) /\ Call("foreign", d, None).kind = "foreign"
      BY <2>3, NewCallFits DEF Kinds
    <3> QED
      BY <2>2, <3>1 DEF Mine
  <2> QED
    BY <1>4, <2>2, <2>4
<1>11. CASE Connect \/ Disconnect \/ UNCHANGED vars
  BY <1>11 DEF Connect, Disconnect, vars
<1>12. CASE handleStatusChanged
  <2>1. page'.processingIds = ids
    BY <1>12, StatusChangedFits
  <2>2. CASE calls' = calls
    BY <2>1, <2>2
  <2>3. CASE calls' = Append(calls, DetailCall(Head(inbox).document))
    <3>1. Head(inbox) \in Reals(history)
      BY <1>12, StatusChangedFits DEF Events
    <3>2. PICK d \in Documents : d = Head(inbox).document
      BY <3>1 DEF Reals, Known, RowType
    <3>3. history[d] \in Seq(Statuses)
      BY DEF Typed, Histories
    <3>4. 1 <= Len(history[d])
      BY <3>1, <3>2, <3>3 DEF Reals, Known
    <3>5. More
      BY <1>3, <2>3, <3>2, <3>4, DetailCallFits
    <3> QED
      BY <1>4, <2>1, <3>5
  <2> QED
    BY <1>12, <2>2, <2>3, StatusChangedFits
<1> QED
  BY <1>8, <1>9, <1>10, <1>11, <1>12 DEF Next

\* A page has one request at most in flight that processes a document, from the
\* click to the end of its handler, whatever lists and events do to the status its
\* button looks at.
THEOREM OneRunPerPage == Spec => []ProcessOnce
<1>1. Init => Typed /\ Exclusive(calls, page.processingIds)
  <2> SUFFICES ASSUME Init
               PROVE  Exclusive(calls, page.processingIds)
    BY InitIsTyped, PageAssumption
  <2>1. calls = <<ListCall>> /\ page.processingIds = {}
    BY DEF Init
  <2>2. Len(calls) = 1 /\ calls[1] = ListCall
    BY <2>1
  <2>3. ~Mine(ListCall)
    BY ListCallFits DEF Mine
  <2> QED
    BY <2>1, <2>2, <2>3 DEF Exclusive
<1>2. /\ Typed /\ Exclusive(calls, page.processingIds) /\ [Next]_vars
      => (Typed /\ Exclusive(calls, page.processingIds))'
  BY StepIsTyped, StepIsExclusive, PageAssumption
<1>3. Exclusive(calls, page.processingIds) => ProcessOnce
  BY DEF Exclusive, ProcessOnce, Mine
<1> QED
  BY <1>1, <1>2, <1>3, PTL DEF Spec

-----------------------------------------------------------------------------
(* What a click made up goes away.                                         *)

HasKind(cs, kind) == \E k \in 1..Len(cs) : cs[k].kind = kind

LEMMA AppendedKinds ==
  ASSUME NEW S, NEW cs \in Seq(S), NEW c \in S
  PROVE  /\ HasKind(Append(cs, c), c.kind)
         /\ \A kind : HasKind(cs, kind) => HasKind(Append(cs, c), kind)
         /\ \A kind : HasKind(Append(cs, c), kind) => HasKind(cs, kind) \/ kind = c.kind
<1> DEFINE ds == Append(cs, c)
<1>1. PICK n \in Nat : n = Len(cs)
  OBVIOUS
<1>2. Len(ds) = n + 1 /\ ds[n + 1] = c /\ \A k \in 1..n : ds[k] = cs[k]
  BY <1>1, AppendElements
<1> HIDE DEF ds
<1>3. n + 1 \in 1..n + 1 /\ \A k \in 1..n : k \in 1..n + 1
  BY <1>1
<1>4. \A k \in 1..n + 1 : k \in 1..n \/ k = n + 1
  BY <1>1
<1>5. /\ HasKind(ds, c.kind)
      /\ \A kind : HasKind(cs, kind) => HasKind(ds, kind)
      /\ \A kind : HasKind(ds, kind) => HasKind(cs, kind) \/ kind = c.kind
  BY <1>1, <1>2, <1>3, <1>4 DEF HasKind
<1> QED
  BY <1>5 DEF ds

LEMMA OtherKindsRemain ==
  ASSUME NEW S, NEW cs \in Seq(S), NEW i \in 1..Len(cs), NEW kind, cs[i].kind # kind,
         HasKind(cs, kind)
  PROVE  HasKind(RemoveAt(cs, i), kind)
<1> DEFINE ds == RemoveAt(cs, i)
<1>1. PICK n \in Nat : n = Len(cs)
  OBVIOUS
<1>2. Len(ds) = n - 1 /\ \A k \in 1..n - 1 : ds[k] = cs[IF k < i THEN k ELSE k + 1]
  BY <1>1, RemovedAt
<1> HIDE DEF ds
<1>3. PICK m \in 1..n : cs[m].kind = kind
  BY <1>1 DEF HasKind
<1>4. CASE m < i
  <2>1. m \in 1..n - 1 /\ ds[m] = cs[m]
    BY <1>1, <1>2, <1>4
  <2> QED
    BY <1>2, <1>3, <2>1 DEF HasKind, ds
<1>5. CASE m > i
  <2>1. m - 1 \in 1..n - 1 /\ ~(m - 1 < i) /\ (m - 1) + 1 = m
    BY <1>1, <1>5
  <2>2. ds[m - 1] = cs[m]
    BY <1>2, <2>1
  <2> QED
    BY <1>2, <1>3, <2>1, <2>2 DEF HasKind, ds
<1>6. m # i
  BY <1>3
<1> QED
  BY <1>1, <1>4, <1>5, <1>6

\* A row in the list that is not real is a guess, and something will correct it.
Temporary ==
  \A d \in Documents :
    page.documents[d] # None /\ page.documents[d] \notin Reals(history) =>
      /\ page.documents[d].status = "PROCESSING"
      /\ d \in page.processingIds \/ HasKind(calls, "list") \/ page.listState = "error"

LEMMA TemporaryIsGuess ==
  ASSUME Typed
  PROVE  Temporary <=> GuessIsTemporary
<1>1. page.documents \in ShownLists(history)
  BY PageFields DEF Typed
<1>2. \A d \in Documents : page.documents[d] # None => page.documents[d] \in Known(history)
  BY <1>1 DEF ShownLists
<1>3. \A r \in Known(history) : r \in Reals(history) <=> Real(r)
  BY DEF Known, Reals, Real
<1>4. \A d \in Documents : page.documents[d] # None =>
        (page.documents[d] \notin Reals(history) <=> ~Real(page.documents[d]))
  BY <1>2, <1>3
<1>5. HasKind(calls, "list") <=> InFlight("list")
  BY DEF HasKind, InFlight
<1> QED
  BY <1>4, <1>5 DEF Temporary, GuessIsTemporary

\* How a step may touch the list and what corrects it.
Corrects ==
  \/ HasKind(calls', "list")
  \/ page'.listState = "error"
  \/ /\ HasKind(calls, "list") => HasKind(calls', "list")
     /\ page'.listState = page.listState
     /\ page.processingIds \subseteq page'.processingIds

LEMMA GuessesAreKept ==
  ASSUME Typed, Temporary, history' \in Histories, Grown(history, history'), Corrects,
         \A d \in Documents :
           \/ page'.documents[d] = page.documents[d]
           \/ page'.documents[d] = None
           \/ page'.documents[d] \in Reals(history')
           \/ /\ page'.documents[d].status = "PROCESSING"
              /\ d \in page'.processingIds
  PROVE  Temporary'
<1>1. Reals(history) \subseteq Reals(history')
  BY RowsStay DEF Typed
<1> SUFFICES ASSUME NEW d \in Documents,
                    page'.documents[d] # None, page'.documents[d] \notin Reals(history')
             PROVE  /\ page'.documents[d].status = "PROCESSING"
                    /\ \/ d \in page'.processingIds \/ HasKind(calls', "list")
                       \/ page'.listState = "error"
  BY DEF Temporary
<1>2. CASE page'.documents[d] = page.documents[d]
  <2>1. page.documents[d] # None /\ page.documents[d] \notin Reals(history)
    BY <1>1, <1>2
  <2>2. /\ page.documents[d].status = "PROCESSING"
        /\ d \in page.processingIds \/ HasKind(calls, "list") \/ page.listState = "error"
    BY <2>1 DEF Temporary
  <2> QED
    BY <1>2, <2>2 DEF Corrects
<1>3. CASE page'.documents[d].status = "PROCESSING" /\ d \in page'.processingIds
  BY <1>3
<1> QED
  BY <1>2, <1>3

LEMMA StepIsTemporary ==
  ASSUME PageAssumption, Typed, Temporary, [Next]_vars
  PROVE  Temporary'
<1> DEFINE Same == \A d \in Documents :
             \/ page'.documents[d] = page.documents[d]
             \/ page'.documents[d] = None
             \/ page'.documents[d] \in Reals(history')
             \/ /\ page'.documents[d].status = "PROCESSING"
                /\ d \in page'.processingIds
<1>1. /\ calls \in Seq(CallsOf(history)) /\ page \in Pages(history)
      /\ page.documents \in ShownLists(history)
  BY PageFields DEF Typed
<1>2. history' \in Histories /\ Grown(history, history') /\ calls' \in Seq(CallsOf(history'))
  BY StepFits DEF Fits
<1>3. ASSUME Same, Corrects
      PROVE  Temporary'
  BY <1>2, <1>3, GuessesAreKept
\* A step that writes one real row into the list.
<1>4. ASSUME NEW row \in Reals(history), history' = history,
             page'.documents = [page.documents EXCEPT ![row.document] = row]
      PROVE  Same
  BY <1>1, <1>4 DEF ShownLists
<1>5. ASSUME NEW rest \in Seq(CallsOf(history)), calls' = Append(rest, ListCall)
      PROVE  HasKind(calls', "list")
  <2>1. PICK c \in CallsOf(history) : c = ListCall /\ c.kind = "list"
    BY ListCallFits
  <2>2. HasKind(Append(rest, c), c.kind)
    BY AppendedKinds
  <2> QED
    BY <1>5, <2>1, <2>2
<1>6. ASSUME NEW rest \in Seq(CallsOf(history)), NEW d, DetailCall(d) \in CallsOf(history),
             calls' = Append(Append(rest, ListCall), DetailCall(d))
      PROVE  HasKind(calls', "list")
  <2>1. PICK c \in CallsOf(history) : c = ListCall /\ c.kind = "list"
    BY ListCallFits
  <2>2. PICK cs \in Seq(CallsOf(history)) : cs = Append(rest, c)
    BY AppendElements
  <2>3. HasKind(cs, "list")
    BY <2>1, <2>2, AppendedKinds
  <2>4. HasKind(Append(cs, DetailCall(d)), "list")
    BY <1>6, <2>3, AppendedKinds
  <2> QED
    BY <1>6, <2>1, <2>2, <2>4
<1>7. ASSUME NEW c \in CallsOf(history), calls' = Append(calls, c)
      PROVE  HasKind(calls, "list") => HasKind(calls', "list")
  BY <1>1, <1>7, AppendedKinds
<1>8. ASSUME NEW i \in 1..Len(calls), calls[i].kind # "list", calls' = RemoveAt(calls, i)
      PROVE  HasKind(calls, "list") => HasKind(calls', "list")
  BY <1>1, <1>8, OtherKindsRemain
<1>9. \A d \in Documents : 1 <= Len(history[d]) => DetailCall(d) \in CallsOf(history)
  BY DetailCallFits
<1>10. \A r \in Known(history) : r.document \in Documents /\ 1 <= Len(history[r.document])
  <2> SUFFICES ASSUME NEW r \in Known(history)
               PROVE  r.document \in Documents /\ 1 <= Len(history[r.document])
    OBVIOUS
  <2>1. r.document \in Documents
    BY DEF Known, RowType
  <2>2. history[r.document] \in Seq(Statuses)
    BY <2>1 DEF Typed, Histories
  <2> QED
    BY <2>1, <2>2 DEF Known
<1>11. CASE UserStep
  <2>1. CASE Refresh
    <3>1. Same
      BY <1>1, <2>1, RefreshFits, LoadListFits
    <3>2. Corrects
      BY <1>1, <1>5, <2>1, RefreshFits DEF Corrects
    <3> QED
      BY <1>3, <3>1, <3>2
  <2>2. CASE handleDownload \/ \E d \in Documents : handleUpload(d)
    <3>1. Same
      BY <2>2, OtherClicksFit
    <3>2. HasKind(calls, "list") => HasKind(calls', "list")
      BY <1>7, <2>2, OtherClicksFit
    <3>3. Corrects
      BY <2>2, <3>2, OtherClicksFit DEF Corrects
    <3> QED
      BY <1>3, <3>1, <3>3
  <2>3. ASSUME NEW d \in Documents, Select(d)
        PROVE  Temporary'
    <3>1. calls' = Append(calls, DetailCall(d)) /\ Choose(page, d)
      BY <2>3, SelectFits
    <3>2. /\ page'.processingIds = page.processingIds /\ page'.documents = page.documents
          /\ page'.listState = page.listState
      BY <1>1, <3>1, ChooseFits
    <3>3. page.documents[d] \in Known(history) /\ page.documents[d].document = d
      BY <1>1, <2>3 DEF Select, ShownLists
    <3>4. HasKind(calls, "list") => HasKind(calls', "list")
      BY <1>7, <1>9, <1>10, <3>1, <3>3
    <3>5. Same /\ Corrects
      BY <3>2, <3>4 DEF Corrects
    <3> QED
      BY <1>3, <3>5
  <2>4. ASSUME NEW d \in Documents, handleProcess(d)
        PROVE  Temporary'
    <3>1. HasKind(calls, "list") => HasKind(calls', "list")
      BY <1>7, <2>4, HandleProcessFits
    <3>2. Corrects
      BY <2>4, <3>1, HandleProcessFits DEF Corrects
    <3>3. /\ page'.documents = [page.documents EXCEPT ![d] = Guessed(@)]
          /\ page'.processingIds = page.processingIds \cup {d}
      BY <2>4, HandleProcessFits
    <3>4. page'.documents[d] = Guessed(page.documents[d])
          /\ \A e \in Documents \ {d} : page'.documents[e] = page.documents[e]
      BY <1>1, <3>3 DEF ShownLists
    <3>5. page'.documents[d] = None \/ page'.documents[d].status = "PROCESSING"
      <4>1. CASE page.documents[d] # None
        <5>1. page.documents[d] \in Known(history)
          BY <1>1, <4>1 DEF ShownLists
        <5> QED
          BY <3>4, <4>1, <5>1 DEF Guessed, Known, RowType
      <4> QED
        BY <3>4, <4>1 DEF Guessed
    <3>6. Same
      BY <3>3, <3>4, <3>5
    <3> QED
      BY <1>3, <3>2, <3>6
  <2> QED
    BY <1>11, <2>1, <2>2, <2>3, <2>4 DEF UserStep
<1>12. ASSUME NEW i \in 1..Len(calls), ServiceStep(i) \/ AnswerArrives(i)
       PROVE  Temporary'
  <2>1. CASE Serves(i)
    <3>1. Moved(i, history') /\ page' = page
      BY <2>1, ServeReadFits, ServeWriteFits, AnswerRunFits DEF Serves
    <3>2. Len(calls') = Len(calls) /\ \A k \in 1..Len(calls) : calls'[k].kind = calls[k].kind
      BY <3>1 DEF Moved
    <3>3. HasKind(calls, "list") => HasKind(calls', "list")
      BY <3>2 DEF HasKind
    <3>4. Same /\ Corrects
      BY <3>1, <3>3 DEF Corrects
    <3> QED
      BY <1>3, <3>4
  <2>2. CASE ForeignEnds(i)
    <3>1. calls[i].kind = "foreign" /\ calls' = RemoveAt(calls, i) /\ page' = page
      BY <2>2 DEF ForeignEnds
    <3>2. HasKind(calls, "list") => HasKind(calls', "list")
      BY <1>8, <3>1
    <3>3. Same /\ Corrects
      BY <3>1, <3>2 DEF Corrects
    <3> QED
      BY <1>3, <3>3
  <2>3. CASE refreshDocuments(i)
    <3>1. CASE page'.documents \in RealLists(history)
      <4>1. \A d \in Documents :
              page'.documents[d] = None \/ page'.documents[d] \in Reals(history)
        BY <3>1 DEF RealLists
      <4>2. history' = history
        BY <2>3, RefreshDocumentsFits
      <4> QED
        BY <4>1, <4>2 DEF Temporary
    <3>2. CASE page'.documents = page.documents /\ page'.listState = "error"
      <4>1. Same /\ Corrects
        BY <3>2 DEF Corrects
      <4> QED
        BY <1>3, <4>1
    <3> QED
      BY <2>3, <3>1, <3>2, RefreshDocumentsFits
  <2>4. CASE loadDocument(i) \/ DownloadUrlArrives(i) \/ UploadIsRefused(i)
    <3>1. /\ calls[i].kind \in {"detail", "url", "upload"} /\ calls' = RemoveAt(calls, i)
          /\ page'.processingIds = page.processingIds /\ page'.documents = page.documents
          /\ page'.listState = page.listState
      BY <2>4, LoadDocumentFits, OtherAnswersFit
    <3>2. HasKind(calls, "list") => HasKind(calls', "list")
      BY <1>8, <3>1
    <3>3. Same /\ Corrects
      BY <3>1, <3>2 DEF Corrects
    <3> QED
      BY <1>3, <3>3
  <2>5. CASE UploadArrives(i)
    <3>1. /\ calls[i].kind = "upload" /\ page'.documents = page.documents
          /\ calls' = Append(Append(RemoveAt(calls, i), ListCall), DetailCall(calls[i].about))
      BY <2>5, UploadArrivesFits
    <3>2. DetailCall(calls[i].about) \in CallsOf(history)
      <4>1. WellFormed(history, calls[i]) /\ calls[i].stage = "answered"
        BY <1>1, <2>5, CallInFlight DEF UploadArrives, Arrives, Is
      <4>2. calls[i].reply \in Known(history) /\ calls[i].reply.document = calls[i].about
        BY <3>1, <4>1 DEF WellFormed, HasRow, Reals
      <4> QED
        BY <1>9, <1>10, <4>2
    <3>3. HasKind(calls', "list")
      BY <1>6, <3>1, <3>2, RestFits
    <3>4. Same /\ Corrects
      BY <3>1, <3>3 DEF Corrects
    <3> QED
      BY <1>3, <3>4
  <2>6. CASE ProcessArrives(i)
    <3>1. PICK c \in CallsOf(history) :
            c.kind = "summary" /\ calls' = Append(RemoveAt(calls, i), c)
      BY <2>6, ProcessArrivesFits
    <3>2. /\ calls[i].kind = "process" /\ calls[i].reply \in Reals(history)
          /\ page'.processingIds = page.processingIds /\ page'.listState = page.listState
          /\ page'.documents = [page.documents EXCEPT ![calls[i].reply.document] = calls[i].reply]
          /\ history' = history
      BY <2>6, ProcessArrivesFits DEF Events
    <3>3. PICK rest \in Seq(CallsOf(history)) : rest = RemoveAt(calls, i)
      BY RestFits
    <3>4. HasKind(calls, "list") => HasKind(rest, "list")
      BY <1>1, <3>2, <3>3, OtherKindsRemain
    <3>5. HasKind(rest, "list") => HasKind(calls', "list")
      BY <3>1, <3>3, AppendedKinds
    <3>6. Corrects
      BY <3>2, <3>4, <3>5 DEF Corrects
    <3>7. Same
      BY <1>4, <3>2
    <3> QED
      BY <1>3, <3>6, <3>7
  <2>7. CASE RunEnds(i)
    <3>1. PICK rest \in Seq(CallsOf(history)) :
            \/ calls' = Append(Append(rest, ListCall), DetailCall(calls[i].about))
            \/ calls' = Append(rest, ListCall)
      BY <2>7, RunEndsFits
    <3>2. DetailCall(calls[i].about) \in CallsOf(history)
      <4>1. WellFormed(history, calls[i]) /\ Mine(calls[i])
        BY <1>1, <2>7, CallInFlight, RunEndsFits
      <4> QED
        BY <1>9, <4>1 DEF WellFormed, Mine
    <3>3. Corrects
      BY <1>5, <1>6, <3>1, <3>2 DEF Corrects
    <3>4. CASE page'.documents = page.documents
      <4>1. Same
        BY <3>4
      <4> QED
        BY <1>3, <3>3, <4>1
    <3>5. CASE \E row \in Reals(history) :
                 page'.documents = [page.documents EXCEPT ![row.document] = row]
      <4>1. history' = history
        BY <2>7, RunEndsFits
      <4>2. Same
        BY <1>4, <3>5, <4>1
      <4> QED
        BY <1>3, <3>3, <4>2
    <3> QED
      BY <2>7, <3>4, <3>5, RunEndsFits
  <2> QED
    BY <1>12, <2>1, <2>2, <2>3, <2>4, <2>5, <2>6, <2>7
    DEF ServiceStep, AnswerArrives, Serves, RunEnds
<1>13. CASE \E d \in Documents : OtherClientAsks(d)
  <2>1. PICK d \in Documents : OtherClientAsks(d)
    BY <1>13
  <2>2. calls' = Append(calls, Call("foreign", d, None)) /\ page' = page
    BY <2>1 DEF OtherClientAsks
  <2>3. 1 <= Len(history[d])
    <3>1. history[d] \in Seq(Statuses) /\ history[d] # <<>>
      BY <2>1 DEF OtherClientAsks, Typed, Histories
    <3> QED
      BY <3>1
  <2>4. Call("foreign", d, None) \in CallsOf(history)
    BY <2>3, NewCallFits DEF Kinds
  <2>5. Same /\ Corrects
    BY <1>7, <2>2, <2>4 DEF Corrects
  <2> QED
    BY <1>3, <2>5
<1>14. CASE Connect \/ Disconnect \/ UNCHANGED vars
  <2>1. calls' = calls /\ page' = page
    BY <1>14 DEF Connect, Disconnect, vars
  <2>2. Same /\ Corrects
    BY <2>1 DEF Corrects
  <2> QED
    BY <1>3, <2>2
<1>15. CASE handleStatusChanged
  <2>1. PICK e \in Reals(history) : e = Head(inbox)
    BY <1>15, StatusChangedFits DEF Events
  <2>2. /\ page'.documents = [d \in Documents |-> applyStatusEvent(page.documents[d], e)]
        /\ page'.processingIds = page.processingIds /\ page'.listState = page.listState
        /\ history' = history
        /\ calls' = calls \/ calls' = Append(calls, DetailCall(e.document))
    BY <1>15, <2>1, StatusChangedFits
  <2>3. DetailCall(e.document) \in CallsOf(history)
    BY <1>9, <1>10, <2>1 DEF Reals
  <2>4. Corrects
    BY <1>7, <2>2, <2>3 DEF Corrects
  <2>5. \A d \in Documents :
          page'.documents[d] = page.documents[d] \/ page'.documents[d] = e
    BY <2>2 DEF applyStatusEvent
  <2>6. Same
    BY <2>2, <2>5
  <2> QED
    BY <1>3, <2>4, <2>6
<1> QED
  BY <1>11, <1>12, <1>13, <1>14, <1>15 DEF Next

\* The PROCESSING that a click writes into the list ahead of the service is taken
\* back when the service did not follow: as long as it is shown, the run or a list
\* is on its way, or reading the list failed.
THEOREM GuessesGoAway == Spec => []GuessIsTemporary
<1>1. Init => Typed /\ Temporary
  <2> SUFFICES ASSUME Init
               PROVE  Temporary
    BY InitIsTyped, PageAssumption
  <2> QED
    BY DEF Init, Temporary
<1>2. Typed /\ Temporary /\ [Next]_vars => (Typed /\ Temporary)'
  BY StepIsTyped, StepIsTemporary, PageAssumption
<1>3. Typed /\ Temporary => GuessIsTemporary
  BY TemporaryIsGuess
<1> QED
  BY <1>1, <1>2, <1>3, PTL DEF Spec

-----------------------------------------------------------------------------
(* The detail after an event.                                              *)

OutdatedBy(ns, row) ==
  /\ row.status = "PROCESSING"
  /\ \E k \in 1..Len(ns) : ns[k].document = row.document /\ ns[k].version > row.version

\* The last detail asked for, when it is about the selected document, brings
\* nothing older than the notifications.
IsLastAnswer(cs, sel, i) ==
  /\ cs[i].kind = "detail" /\ cs[i].stage = "answered" /\ cs[i].about = sel
  /\ \A j \in i + 1..Len(cs) : cs[j].kind # "detail"

LastIsFresh(cs, sel, ns) ==
  \A i \in 1..Len(cs) : IsLastAnswer(cs, sel, i) => ~OutdatedBy(ns, cs[i].reply)

\* NewestDetailIsCurrent of a page.
ShownIsFresh(n, p) ==
  /\ n = "shown"
  /\ p.selectedDocument # None /\ p.selectedDocument.document = p.selectedDocumentId
  => ~OutdatedBy(p.notifications, p.selectedDocument)

Fresh ==
  /\ newest = "in flight" =>
       LastIsFresh(calls, page.selectedDocumentId, page.notifications)
  /\ ShownIsFresh(newest, page)

LEMMA OthersKeepLast ==
  ASSUME NEW S, NEW cs \in Seq(S), NEW c \in S, c.kind # "detail", NEW sel, NEW ns,
         LastIsFresh(cs, sel, ns)
  PROVE  LastIsFresh(Append(cs, c), sel, ns)
<1> DEFINE ds == Append(cs, c)
<1>1. PICK n \in Nat : n = Len(cs)
  OBVIOUS
<1>2. Len(ds) = n + 1 /\ ds[n + 1] = c /\ \A k \in 1..n : ds[k] = cs[k]
  BY <1>1, AppendElements
<1> HIDE DEF ds
<1>3. ASSUME NEW i \in 1..n + 1, IsLastAnswer(ds, sel, i)
      PROVE  ~OutdatedBy(ns, ds[i].reply)
  <2>1. i # n + 1
    BY <1>2, <1>3 DEF IsLastAnswer
  <2>2. i \in 1..n /\ ds[i] = cs[i]
    BY <1>1, <1>2, <2>1
  <2>3. \A j \in i + 1..n : j \in i + 1..n + 1 /\ j \in 1..n
    BY <1>1, <2>2
  <2>4. IsLastAnswer(cs, sel, i)
    BY <1>1, <1>2, <1>3, <2>2, <2>3 DEF IsLastAnswer
  <2> QED
    BY <1>1, <2>2, <2>4 DEF LastIsFresh
<1>4. LastIsFresh(ds, sel, ns)
  BY <1>2, <1>3 DEF LastIsFresh
<1> QED
  BY <1>4 DEF ds

\* A detail that was just asked for reads the row later than everything known now.
LEMMA NewDetailIsLast ==
  ASSUME NEW S, NEW cs \in Seq(S), NEW c \in S, c.kind = "detail", c.stage = "sent",
         NEW sel, NEW ns
  PROVE  LastIsFresh(Append(cs, c), sel, ns)
<1> DEFINE ds == Append(cs, c)
<1>1. PICK n \in Nat : n = Len(cs)
  OBVIOUS
<1>2. Len(ds) = n + 1 /\ ds[n + 1] = c
  BY <1>1, AppendElements
<1> HIDE DEF ds
<1>3. ASSUME NEW i \in 1..n + 1, IsLastAnswer(ds, sel, i)
      PROVE  FALSE
  <2>1. i # n + 1
    BY <1>2, <1>3 DEF IsLastAnswer
  <2>2. n + 1 \in i + 1..n + 1
    BY <1>1, <2>1
  <2> QED
    BY <1>2, <1>3, <2>2 DEF IsLastAnswer
<1>4. LastIsFresh(ds, sel, ns)
  BY <1>2, <1>3 DEF LastIsFresh
<1> QED
  BY <1>4 DEF ds

\* A request that ends leaves the last detail where it is, if it is no detail or
\* an older one.
LEMMA EndsKeepLast ==
  ASSUME NEW S, NEW cs \in Seq(S), NEW i \in 1..Len(cs),
         cs[i].kind # "detail" \/ \E j \in i + 1..Len(cs) : cs[j].kind = "detail",
         NEW sel, NEW ns, LastIsFresh(cs, sel, ns)
  PROVE  LastIsFresh(RemoveAt(cs, i), sel, ns)
<1> DEFINE ds == RemoveAt(cs, i)
           at(k) == IF k < i THEN k ELSE k + 1
<1>1. PICK n \in Nat : n = Len(cs)
  OBVIOUS
<1>2. Len(ds) = n - 1 /\ \A k \in 1..n - 1 : ds[k] = cs[at(k)]
  BY <1>1, RemovedAt
<1> HIDE DEF ds
<1>3. ASSUME NEW k \in 1..n - 1, IsLastAnswer(ds, sel, k)
      PROVE  ~OutdatedBy(ns, ds[k].reply)
  <2>1. at(k) \in 1..n /\ at(k) # i /\ ds[k] = cs[at(k)]
    BY <1>1, <1>2
  <2>2. cs[at(k)].kind = "detail" /\ cs[at(k)].stage = "answered" /\ cs[at(k)].about = sel
    BY <1>3, <2>1 DEF IsLastAnswer
  <2>3. ASSUME NEW m \in at(k) + 1..n
        PROVE  cs[m].kind # "detail"
    <3>1. CASE m = i
      <4> SUFFICES ASSUME cs[i].kind = "detail"
                   PROVE  FALSE
        BY <3>1
      <4>1. PICK j \in i + 1..n : cs[j].kind = "detail"
        BY <1>1
      <4>2. j - 1 \in k + 1..n - 1 /\ j - 1 \in 1..n - 1 /\ at(j - 1) = j
        BY <1>1, <2>1, <3>1
      <4>3. ds[j - 1] = cs[j]
        BY <1>2, <4>2
      <4> QED
        BY <1>2, <1>3, <4>1, <4>2, <4>3 DEF IsLastAnswer
    <3>2. CASE m < i
      <4>1. m \in k + 1..n - 1 /\ at(m) = m
        BY <1>1, <3>2
      <4> QED
        BY <1>2, <1>3, <4>1 DEF IsLastAnswer
    <3>3. CASE m > i
      <4>1. m - 1 \in k + 1..n - 1 /\ at(m - 1) = m
        BY <1>1, <2>1, <3>3
      <4>2. m - 1 \in 1..n - 1
        BY <1>1, <4>1
      <4>3. ds[m - 1] = cs[m]
        BY <1>2, <4>1, <4>2
      <4> QED
        BY <1>2, <1>3, <4>1, <4>3 DEF IsLastAnswer
    <3> QED
      BY <1>1, <3>1, <3>2, <3>3
  <2>4. IsLastAnswer(cs, sel, at(k))
    BY <1>1, <2>2, <2>3 DEF IsLastAnswer
  <2> QED
    BY <1>1, <2>1, <2>4 DEF LastIsFresh
<1>4. LastIsFresh(ds, sel, ns)
  BY <1>2, <1>3 DEF LastIsFresh
<1> QED
  BY <1>4 DEF ds

\* Requests that are no details do not matter.
LEMMA DetailsDecideLast ==
  ASSUME NEW cs, NEW ds, NEW sel, NEW ns, LastIsFresh(cs, sel, ns), Len(ds) = Len(cs),
         Len(cs) \in Nat,
         \A k \in 1..Len(cs) :
           ds[k] = cs[k] \/ (cs[k].kind # "detail" /\ ds[k].kind # "detail")
  PROVE  LastIsFresh(ds, sel, ns)
<1> SUFFICES ASSUME NEW i \in 1..Len(ds), IsLastAnswer(ds, sel, i)
             PROVE  ~OutdatedBy(ns, ds[i].reply)
  BY DEF LastIsFresh
<1>1. ds[i] = cs[i]
  BY DEF IsLastAnswer
<1>2. \A j \in i + 1..Len(cs) : j \in 1..Len(cs)
  OBVIOUS
<1>3. \A j \in i + 1..Len(cs) : cs[j].kind # "detail"
  BY <1>2 DEF IsLastAnswer
<1>4. IsLastAnswer(cs, sel, i)
  BY <1>1, <1>3 DEF IsLastAnswer
<1> QED
  BY <1>1, <1>4 DEF LastIsFresh

\* What a step leaves of the detail.
SameDetail ==
  /\ page'.selectedDocument = page.selectedDocument
  /\ page'.selectedDocumentId = page.selectedDocumentId
  /\ page'.notifications = page.notifications
  /\ newest' = newest

LEMMA ShownRemains ==
  ASSUME Fresh, SameDetail
  PROVE  ShownIsFresh(newest', page')
BY DEF Fresh, SameDetail, ShownIsFresh

LEMMA MoreOthersAreFresh ==
  ASSUME Typed, Fresh, SameDetail, NEW c \in CallsOf(history), c.kind # "detail",
         calls' = Append(calls, c)
  PROVE  Fresh'
<1>1. calls \in Seq(CallsOf(history))
  BY DEF Typed
<1>2. newest = "in flight" =>
        LastIsFresh(Append(calls, c), page.selectedDocumentId, page.notifications)
  BY <1>1, OthersKeepLast DEF Fresh
<1> QED
  BY <1>2, ShownRemains DEF Fresh, SameDetail

LEMMA NewDetailIsFresh ==
  ASSUME Typed, NEW cs \in Seq(CallsOf(history)), NEW d \in Documents, 1 <= Len(history[d]),
         calls' = Append(cs, DetailCall(d)), newest' = "in flight"
  PROVE  Fresh'
<1>1. PICK c \in CallsOf(history) : c = DetailCall(d) /\ c.kind = "detail" /\ c.stage = "sent"
  BY DetailCallFits
<1>2. LastIsFresh(Append(cs, c), page'.selectedDocumentId, page'.notifications)
  BY <1>1, NewDetailIsLast
<1>3. ShownIsFresh(newest', page')
  BY DEF ShownIsFresh
<1> QED
  BY <1>1, <1>2, <1>3 DEF Fresh

LEMMA OtherEndsAreFresh ==
  ASSUME Typed, Fresh, SameDetail, NEW i \in 1..Len(calls), calls[i].kind # "detail",
         calls' = RemoveAt(calls, i)
  PROVE  Fresh'
<1>1. calls \in Seq(CallsOf(history))
  BY DEF Typed
<1>2. newest = "in flight" =>
        LastIsFresh(RemoveAt(calls, i), page.selectedDocumentId, page.notifications)
  BY <1>1, EndsKeepLast DEF Fresh
<1> QED
  BY <1>2, ShownRemains DEF Fresh, SameDetail

\* A notification is never ahead of the row.
LEMMA LastRowIsFresh ==
  ASSUME Typed, NEW d \in Documents
  PROVE  ~OutdatedBy(page.notifications, Row(d))
<1>1. PICK ns \in Seq(Events(history)) : ns = page.notifications
  BY PageFields DEF Typed
<1>2. \A k \in 1..Len(ns) : ns[k] \in Events(history)
  BY <1>1, ElementOfSeq
<1>3. Row(d).document = d /\ Row(d).version = Len(history[d])
  BY DEF Row
<1>4. history[d] \in Seq(Statuses)
  BY DEF Typed, Histories
<1>5. \A k \in 1..Len(ns) : ns[k].document = d => ~(ns[k].version > Len(history[d]))
  <2> SUFFICES ASSUME NEW k \in 1..Len(ns), ns[k].document = d
               PROVE  ~(ns[k].version > Len(history[d]))
    OBVIOUS
  <2>1. ns[k].version \in 1..Len(history[d])
    BY <1>2 DEF Events, Reals, Known
  <2> QED
    BY <1>4, <2>1
<1> QED
  BY <1>1, <1>3, <1>5 DEF OutdatedBy

\* A service step: the answer to a detail is the row of that moment.
LEMMA ServiceIsFresh ==
  ASSUME Typed, Fresh, NEW i \in 1..Len(calls), Serves(i)
  PROVE  Fresh'
<1>1. Moved(i, history') /\ page' = page
  BY ServeReadFits, ServeWriteFits, AnswerRunFits DEF Serves
<1>2. PICK c \in CallsOf(history') :
        /\ c.kind = calls[i].kind /\ c.about = calls[i].about
        /\ Len(calls') = Len(calls)
        /\ \A k \in 1..Len(calls) : calls'[k] = IF k = i THEN c ELSE calls[k]
  BY <1>1 DEF Moved
<1>3. calls \in Seq(CallsOf(history)) /\ Len(calls) \in Nat
  <2>1. calls \in Seq(CallsOf(history))
    BY DEF Typed
  <2> QED
    BY <2>1, LenProperties
<1>4. newest' = newest
  BY DEF Serves, ServeRead, ServeUpload, StartRun, FinishRun, AnswerRun, Become
<1>5. ShownIsFresh(newest', page')
  BY <1>1, <1>4, ShownRemains DEF SameDetail
<1>6. ASSUME newest = "in flight"
      PROVE  LastIsFresh(calls', page.selectedDocumentId, page.notifications)
  <2>1. CASE calls[i].kind # "detail"
    BY <1>2, <1>3, <1>6, <2>1, DetailsDecideLast DEF Fresh
  <2>2. CASE calls[i].kind = "detail"
    <3> DEFINE d == calls[i].about
    <3>1. Become(i, "answered", Row(d))
      BY <2>2 DEF Serves, ServeRead, ServeUpload, StartRun, FinishRun, AnswerRun, Is, IsRun
    <3>2. calls[i] \in CallType(history) /\ WellFormed(history, calls[i])
      BY <1>3, CallInFlight
    <3>3. calls'[i].reply = Row(d)
      <4>1. calls' = [calls EXCEPT ![i].stage = "answered", ![i].reply = Row(d)]
        BY <3>1 DEF Become
      <4> QED
        BY <1>3, <3>2, <4>1 DEF CallType
    <3>4. d \in Documents
      BY <2>2, <3>2 DEF WellFormed
    <3>5. ~OutdatedBy(page.notifications, calls'[i].reply)
      BY <3>3, <3>4, LastRowIsFresh
    <3>6. ASSUME NEW k \in 1..Len(calls'), IsLastAnswer(calls', page.selectedDocumentId, k)
          PROVE  ~OutdatedBy(page.notifications, calls'[k].reply)
      <4>1. CASE k = i
        BY <3>5, <4>1
      <4>2. CASE k # i
        <5>1. calls'[k] = calls[k]
          BY <1>2, <4>2
        <5>2. \A j \in k + 1..Len(calls) : j \in 1..Len(calls)
          BY <1>2, <1>3
        <5>3. \A j \in k + 1..Len(calls) : calls[j].kind = calls'[j].kind
          BY <1>2, <5>2
        <5>4. IsLastAnswer(calls, page.selectedDocumentId, k)
          BY <1>2, <3>6, <5>1, <5>3 DEF IsLastAnswer
        <5> QED
          BY <1>2, <1>6, <5>1, <5>4 DEF Fresh, LastIsFresh
      <4> QED
        BY <4>1, <4>2
    <3> QED
      BY <3>6 DEF LastIsFresh
  <2> QED
    BY <2>1, <2>2
<1> QED
  BY <1>1, <1>4, <1>5, <1>6 DEF Fresh

\* The answer to the last detail is no older than the notifications; what any
\* other one brings is not the answer to the last.
LEMMA LoadDocumentIsFresh ==
  ASSUME Typed, Fresh, NEW i \in 1..Len(calls), loadDocument(i)
  PROVE  Fresh'
<1>1. calls \in Seq(CallsOf(history)) /\ page \in Pages(history)
  BY DEF Typed
<1>2. /\ calls[i].kind = "detail" /\ calls' = RemoveAt(calls, i)
      /\ page'.selectedDocumentId = page.selectedDocumentId
      /\ page'.notifications = page.notifications
  BY LoadDocumentFits
<1>3. /\ newest' = "in flight" => newest = "in flight" /\ ~IsNewest(i)
      /\ newest' = "shown" => IsNewest(i) \/ newest = "shown"
  BY DEF loadDocument, IsNewest
<1>4. ASSUME newest' = "in flight"
      PROVE  LastIsFresh(RemoveAt(calls, i), page.selectedDocumentId, page.notifications)
  <2>1. newest = "in flight" /\ \E j \in i + 1..Len(calls) : calls[j].kind = "detail"
    BY <1>3, <1>4 DEF IsNewest
  <2>2. LastIsFresh(calls, page.selectedDocumentId, page.notifications)
    BY <2>1 DEF Fresh
  <2> QED
    BY <1>1, <2>1, <2>2, EndsKeepLast
<1>5. ShownIsFresh(newest', page')
  <2> SUFFICES ASSUME newest' = "shown", page'.selectedDocument # None,
                      page'.selectedDocument.document = page'.selectedDocumentId
               PROVE  ~OutdatedBy(page'.notifications, page'.selectedDocument)
    BY DEF ShownIsFresh
  <2>1. CASE IsNewest(i)
    <3>1. /\ Arrives(i, "detail", "answered")
          /\ page' = [page EXCEPT !.selectedDocument = calls[i].reply, !.detailState = "success"]
      BY <2>1 DEF loadDocument
    <3>2. calls[i].stage = "answered" /\ page'.selectedDocument = calls[i].reply
      BY <1>1, <3>1 DEF Arrives, Is, Pages
    <3>3. calls[i].reply.document = calls[i].about
      <4>1. WellFormed(history, calls[i])
        BY <1>1, CallInFlight
      <4> QED
        BY <1>2, <3>2, <4>1 DEF WellFormed, HasRow
    <3>4. IsLastAnswer(calls, page.selectedDocumentId, i)
      BY <1>2, <2>1, <3>2, <3>3 DEF IsLastAnswer, IsNewest
    <3>5. LastIsFresh(calls, page.selectedDocumentId, page.notifications)
      BY <2>1 DEF Fresh, IsNewest
    <3> QED
      BY <1>2, <3>2, <3>4, <3>5 DEF LastIsFresh
  <2>2. CASE ~IsNewest(i)
    <3>1. newest = "shown" /\ page' = [page EXCEPT !.detailState = "error"]
      BY <1>3, <2>2 DEF loadDocument
    <3>2. page'.selectedDocument = page.selectedDocument
      BY <1>1, <3>1 DEF Pages
    <3> QED
      BY <1>2, <3>1, <3>2 DEF Fresh, ShownIsFresh
  <2> QED
    BY <2>1, <2>2
<1> QED
  BY <1>2, <1>4, <1>5 DEF Fresh

LEMMA ProcessArrivesIsFresh ==
  ASSUME PageAssumption, Typed, Fresh, NEW i \in 1..Len(calls), ProcessArrives(i)
  PROVE  Fresh'
<1>1. calls \in Seq(CallsOf(history))
  BY DEF Typed
<1>2. /\ calls[i].kind = "process"
      /\ calls[i].reply \in Events(history)
      /\ page'.selectedDocument \in {page.selectedDocument, calls[i].reply}
      /\ page'.selectedDocumentId = page.selectedDocumentId
      /\ page'.notifications = page.notifications /\ newest' = newest
  BY ProcessArrivesFits DEF ProcessArrives
<1>3. PICK c \in CallsOf(history) : c.kind = "summary" /\ calls' = Append(RemoveAt(calls, i), c)
  BY ProcessArrivesFits
<1>4. PICK rest \in Seq(CallsOf(history)) : rest = RemoveAt(calls, i)
  BY RestFits
<1>5. ASSUME newest = "in flight"
      PROVE  LastIsFresh(Append(rest, c), page.selectedDocumentId, page.notifications)
  <2>1. LastIsFresh(rest, page.selectedDocumentId, page.notifications)
    BY <1>1, <1>2, <1>4, <1>5, EndsKeepLast DEF Fresh
  <2> QED
    BY <1>3, <2>1, OthersKeepLast
<1>6. ShownIsFresh(newest', page')
  <2>1. CASE page'.selectedDocument = page.selectedDocument
    BY <1>2, <2>1, ShownRemains DEF SameDetail
  <2>2. CASE page'.selectedDocument = calls[i].reply
    <3>1. calls[i].reply.status # "PROCESSING"
      BY <1>2 DEF Events, PageAssumption
    <3> QED
      BY <2>2, <3>1 DEF ShownIsFresh, OutdatedBy
  <2> QED
    BY <1>2, <2>1, <2>2
<1> QED
  BY <1>2, <1>3, <1>4, <1>5, <1>6 DEF Fresh

LEMMA RunEndsIsFresh ==
  ASSUME Typed, Fresh, NEW i \in 1..Len(calls), RunEnds(i)
  PROVE  Fresh'
<1>1. calls \in Seq(CallsOf(history)) /\ Len(calls) \in Nat
  <2>1. calls \in Seq(CallsOf(history))
    BY DEF Typed
  <2> QED
    BY <2>1, LenProperties
<1>2. PICK rest \in Seq(CallsOf(history)) :
        /\ Rest(i, rest)
        /\ \/ /\ calls' = Append(Append(rest, ListCall), DetailCall(calls[i].about))
              /\ newest' = "in flight"
           \/ calls' = Append(rest, ListCall) /\ newest' = newest
  BY RunEndsFits
<1>3. Mine(calls[i]) /\ WellFormed(history, calls[i])
  BY <1>1, CallInFlight, RunEndsFits
<1>4. PICK cs \in Seq(CallsOf(history)) : cs = Append(rest, ListCall)
  BY ListIsAdded
<1>5. CASE calls' = Append(cs, DetailCall(calls[i].about)) /\ newest' = "in flight"
  <2>1. calls[i].about \in Documents /\ 1 <= Len(history[calls[i].about])
    BY <1>3 DEF WellFormed, Mine
  <2> QED
    BY <1>5, <2>1, NewDetailIsFresh
<1>6. CASE calls' = cs /\ newest' = newest
  <2>1. SameDetail
    BY <1>6, RunEndsFits DEF SameDetail
  <2>2. ASSUME newest = "in flight"
        PROVE  LastIsFresh(rest, page.selectedDocumentId, page.notifications)
    <3>1. calls[i].kind # "detail"
      BY <1>3 DEF Mine
    <3>2. LastIsFresh(calls, page.selectedDocumentId, page.notifications)
      BY <2>2 DEF Fresh
    <3>3. CASE rest = RemoveAt(calls, i)
      <4>1. LastIsFresh(RemoveAt(calls, i), page.selectedDocumentId, page.notifications)
        BY <1>1, <3>1, <3>2, EndsKeepLast
      <4> QED
        BY <3>3, <4>1
    <3>4. CASE /\ Len(rest) = Len(calls) /\ rest[i].kind = "foreign"
               /\ \A k \in 1..Len(calls) : k # i => rest[k] = calls[k]
      <4>1. \A k \in 1..Len(calls) :
              rest[k] = calls[k] \/ (calls[k].kind # "detail" /\ rest[k].kind # "detail")
        BY <3>1, <3>4
      <4> QED
        BY <1>1, <3>2, <3>4, <4>1, DetailsDecideLast
    <3> QED
      BY <1>2, <3>3, <3>4 DEF Rest
  <2>3. PICK c \in CallsOf(history) : c = ListCall /\ c.kind = "list"
    BY ListCallFits
  <2>4. newest = "in flight" =>
          LastIsFresh(Append(rest, c), page.selectedDocumentId, page.notifications)
    BY <2>2, <2>3, OthersKeepLast
  <2>5. calls' = Append(rest, c)
    BY <1>4, <1>6, <2>3
  <2> QED
    BY <2>1, <2>4, <2>5, ShownRemains DEF Fresh, SameDetail
<1> QED
  BY <1>2, <1>4, <1>5, <1>6

\* An event about the selected document has its detail read again; one about
\* another does not concern it.
LEMMA StatusChangedIsFresh ==
  ASSUME PageAssumption, Typed, Fresh, handleStatusChanged
  PROVE  Fresh'
<1>1. calls \in Seq(CallsOf(history))
  BY DEF Typed
<1>2. PICK e \in Events(history) : e = Head(inbox)
  BY StatusChangedFits
<1>3. /\ e.document \in Documents /\ 1 <= Len(history[e.document])
      /\ e.status # "PROCESSING"
  <2>1. e.document \in Documents /\ e.version \in 1..Len(history[e.document])
    BY DEF Events, Reals, Known, RowType
  <2>2. history[e.document] \in Seq(Statuses)
    BY <2>1 DEF Typed, Histories
  <2>3. e.status # "PROCESSING"
    BY DEF Events, PageAssumption
  <2> QED
    BY <2>1, <2>2, <2>3
<1>4. CASE calls' = Append(calls, DetailCall(e.document)) /\ newest' = "in flight"
  BY <1>1, <1>3, <1>4, NewDetailIsFresh
<1>5. CASE /\ page.selectedDocumentId # e.document
           /\ calls' = calls /\ newest' = newest
  <2> DEFINE sel == page.selectedDocumentId
             ns == page.notifications
             ms == page'.notifications
  <2>1. /\ page'.selectedDocument = applyStatusEvent(page.selectedDocument, e)
        /\ page'.selectedDocumentId = sel
        /\ \A k \in 1..Len(ms) : ms[k] = e \/ \E j \in 1..Len(ns) : ms[k] = ns[j]
    BY <1>2, StatusChangedFits
  <2> HIDE DEF ns, ms
  <2>2. ASSUME NEW row, row.document = sel, ~OutdatedBy(ns, row)
        PROVE  ~OutdatedBy(ms, row)
    BY <1>5, <2>1, <2>2 DEF OutdatedBy
  <2>3. ASSUME newest = "in flight"
        PROVE  LastIsFresh(calls', sel, ms)
    <3> SUFFICES ASSUME NEW i \in 1..Len(calls), IsLastAnswer(calls, sel, i)
                 PROVE  ~OutdatedBy(ms, calls[i].reply)
      BY <1>5 DEF LastIsFresh
    <3>1. ~OutdatedBy(ns, calls[i].reply)
      BY <2>3 DEF Fresh, LastIsFresh, ns
    <3>2. WellFormed(history, calls[i])
      BY <1>1, CallInFlight
    <3>3. calls[i].reply.document = sel
      BY <3>2 DEF IsLastAnswer, WellFormed, HasRow
    <3> QED
      BY <2>2, <3>1, <3>3
  <2>4. ShownIsFresh(newest', page')
    <3> SUFFICES ASSUME newest' = "shown", page'.selectedDocument # None,
                        page'.selectedDocument.document = page'.selectedDocumentId
                 PROVE  ~OutdatedBy(ms, page'.selectedDocument)
      BY DEF ShownIsFresh, ms
    <3>1. CASE page'.selectedDocument = e
      BY <1>3, <3>1 DEF OutdatedBy
    <3>2. CASE page'.selectedDocument = page.selectedDocument
      <4>1. ~OutdatedBy(ns, page.selectedDocument)
        BY <1>5, <2>1, <3>2 DEF Fresh, ShownIsFresh, ns
      <4> QED
        BY <2>1, <2>2, <3>2, <4>1
    <3> QED
      BY <2>1, <3>1, <3>2 DEF applyStatusEvent
  <2> QED
    BY <1>5, <2>1, <2>3, <2>4 DEF Fresh, ms
<1> QED
  BY <1>2, <1>4, <1>5, StatusChangedFits

LEMMA StepIsFresh ==
  ASSUME PageAssumption, Typed, Fresh, [Next]_vars
  PROVE  Fresh'
<1>1. calls \in Seq(CallsOf(history)) /\ page \in Pages(history)
  BY DEF Typed
<1>2. \A r \in Known(history) : r.document \in Documents /\ 1 <= Len(history[r.document])
  <2> SUFFICES ASSUME NEW r \in Known(history)
               PROVE  r.document \in Documents /\ 1 <= Len(history[r.document])
    OBVIOUS
  <2>1. r.document \in Documents
    BY DEF Known, RowType
  <2>2. history[r.document] \in Seq(Statuses)
    BY <2>1 DEF Typed, Histories
  <2> QED
    BY <2>1, <2>2 DEF Known
<1>3. CASE UserStep
  <2>1. CASE Refresh
    <3>1. SameDetail
      BY <1>1, <2>1, RefreshFits, LoadListFits DEF SameDetail, Refresh
    <3>2. PICK c \in CallsOf(history) : c = ListCall /\ c.kind # "detail"
      BY ListCallFits
    <3>3. calls' = Append(calls, c)
      BY <2>1, <3>2, RefreshFits
    <3> QED
      BY <3>1, <3>2, <3>3, MoreOthersAreFresh
  <2>2. CASE handleDownload \/ \E d \in Documents : handleUpload(d)
    <3>1. SameDetail
      BY <2>2, OtherClicksFit DEF SameDetail, handleDownload, handleUpload
    <3>2. PICK c \in CallsOf(history) : c.kind \in {"url", "upload"} /\ calls' = Append(calls, c)
      BY <2>2, OtherClicksFit
    <3> QED
      BY <3>1, <3>2, MoreOthersAreFresh
  <2>3. ASSUME NEW d \in Documents, Select(d)
        PROVE  Fresh'
    <3>1. page.documents \in ShownLists(history) /\ page.documents[d] # None
      BY <1>1, <2>3, PageFields DEF Select
    <3>2. page.documents[d] \in Known(history) /\ page.documents[d].document = d
      BY <3>1 DEF ShownLists
    <3>3. 1 <= Len(history[d])
      BY <1>2, <3>2
    <3>4. newest' = "in flight"
      BY <2>3 DEF Select, Choose
    <3> QED
      BY <1>1, <2>3, <3>3, <3>4, SelectFits, NewDetailIsFresh
  <2>4. ASSUME NEW d \in Documents, handleProcess(d)
        PROVE  Fresh'
    <3>1. SameDetail
      BY <2>4, HandleProcessFits DEF SameDetail, handleProcess
    <3>2. PICK c \in CallsOf(history) : c = Call("process", d, page.selectedDocumentId)
      BY <2>4, HandleProcessFits
    <3>3. c.kind # "detail" /\ calls' = Append(calls, c)
      BY <2>4, <3>2, HandleProcessFits DEF Call
    <3> QED
      BY <3>1, <3>3, MoreOthersAreFresh
  <2> QED
    BY <1>3, <2>1, <2>2, <2>3, <2>4 DEF UserStep
<1>4. ASSUME NEW i \in 1..Len(calls), ServiceStep(i) \/ AnswerArrives(i)
      PROVE  Fresh'
  <2>1. CASE Serves(i)
    BY <2>1, ServiceIsFresh
  <2>2. CASE ForeignEnds(i)
    <3>1. calls[i].kind # "detail" /\ calls' = RemoveAt(calls, i) /\ SameDetail
      BY <2>2 DEF ForeignEnds, SameDetail
    <3> QED
      BY <3>1, OtherEndsAreFresh
  <2>3. CASE refreshDocuments(i) \/ DownloadUrlArrives(i) \/ UploadIsRefused(i)
    <3>1. calls[i].kind # "detail" /\ calls' = RemoveAt(calls, i) /\ SameDetail
      BY <2>3, RefreshDocumentsFits, OtherAnswersFit DEF SameDetail, refreshDocuments,
         DownloadUrlArrives, UploadIsRefused
    <3> QED
      BY <3>1, OtherEndsAreFresh
  <2>4. CASE UploadArrives(i)
    <3>1. /\ calls[i].kind = "upload"
          /\ calls' = Append(Append(RemoveAt(calls, i), ListCall), DetailCall(calls[i].about))
      BY <2>4, UploadArrivesFits
    <3>2. WellFormed(history, calls[i]) /\ calls[i].stage = "answered"
      BY <1>1, <2>4, CallInFlight DEF UploadArrives, Arrives, Is
    <3>3. calls[i].reply \in Known(history) /\ calls[i].reply.document = calls[i].about
      BY <3>1, <3>2 DEF WellFormed, HasRow, Reals
    <3>4. PICK cs \in Seq(CallsOf(history)) : cs = Append(RemoveAt(calls, i), ListCall)
      BY RestFits, ListIsAdded
    <3>5. newest' = "in flight"
      BY <2>4 DEF UploadArrives, Choose
    <3> QED
      BY <1>2, <3>1, <3>3, <3>4, <3>5, NewDetailIsFresh
  <2>5. CASE loadDocument(i)
    BY <2>5, LoadDocumentIsFresh
  <2>6. CASE ProcessArrives(i)
    BY <2>6, ProcessArrivesIsFresh
  <2>7. CASE RunEnds(i)
    BY <2>7, RunEndsIsFresh
  <2> QED
    BY <1>4, <2>1, <2>2, <2>3, <2>4, <2>5, <2>6, <2>7
    DEF ServiceStep, AnswerArrives, Serves, RunEnds
<1>5. CASE \E d \in Documents : OtherClientAsks(d)
  <2>1. PICK d \in Documents : OtherClientAsks(d)
    BY <1>5
  <2>2. calls' = Append(calls, Call("foreign", d, None)) /\ SameDetail
    BY <2>1 DEF OtherClientAsks, SameDetail
  <2>3. 1 <= Len(history[d])
    <3>1. history[d] \in Seq(Statuses) /\ history[d] # <<>>
      BY <2>1 DEF OtherClientAsks, Typed, Histories
    <3> QED
      BY <3>1
  <2>4. PICK c \in CallsOf(history) : c = Call("foreign", d, None) /\ c.kind = "foreign"
    BY <2>3, NewCallFits DEF Kinds
  <2> QED
    BY <2>2, <2>4, MoreOthersAreFresh
<1>6. CASE Connect \/ Disconnect \/ UNCHANGED vars
  BY <1>6 DEF Connect, Disconnect, vars, Fresh
<1>7. CASE handleStatusChanged
  BY <1>7, StatusChangedIsFresh
<1> QED
  BY <1>3, <1>4, <1>5, <1>6, <1>7 DEF Next

\* In whatever order details are answered, and whatever requests fail: the answer to
\* the last one that was asked for does not say PROCESSING of the selected document
\* after the page was told of the end of that run, for handleStatusChanged asks anew.
THEOREM NewestDetailCatchesUp == Spec => []NewestDetailIsCurrent
<1>1. Init => Typed /\ Fresh
  <2> SUFFICES ASSUME Init
               PROVE  Fresh
    BY InitIsTyped, PageAssumption
  <2>1. newest = "gone"
    BY DEF Init
  <2> QED
    BY <2>1 DEF Fresh, ShownIsFresh
<1>2. Typed /\ Fresh /\ [Next]_vars => (Typed /\ Fresh)'
  BY StepIsTyped, StepIsFresh, PageAssumption
<1>3. Fresh => NewestDetailIsCurrent
  <2>1. Outdated(page.selectedDocument) => OutdatedBy(page.notifications, page.selectedDocument)
    BY DEF Outdated, OutdatedBy
  <2> QED
    BY <2>1 DEF Fresh, ShownIsFresh, NewestDetailIsCurrent
<1> QED
  BY <1>1, <1>2, <1>3, PTL DEF Spec
===========================================================================
