------------------------------ MODULE Dashboard ------------------------------
(***************************************************************************)
(* GET /api/v1/dashboard/summary of services/bff-notifications.            *)
(*                                                                         *)
(* The BFF reads the list of documents page by page, by LIMIT and OFFSET,  *)
(* newest first, while documents are uploaded and processed, and counts    *)
(* them by status and, in the same way, by type.  A page is a request, and *)
(* its COUNT and its SELECT are two statements of a READ COMMITTED         *)
(* transaction: each sees the rows committed when it starts.  A row counts  *)
(* as created when its transaction began, so one that commits late appears *)
(* in the middle of the list and not at its head.                          *)
(***************************************************************************)
EXTENDS Integers, Sequences, FiniteSets

CONSTANTS
  BFF_DASHBOARD_PAGE_SIZE,      \* the settings, 0 for one that is
  BFF_DASHBOARD_MAX_DOCUMENTS,  \* missing or no number
  MaxLimit,           \* the greatest limit list_documents accepts: 100
  DocumentStatuses,
  MaxUploads,         \* bound: how many documents are uploaded
  MaxMoves            \* bound: how often a status changes

ASSUME SettingsAreIntegers ==
  /\ BFF_DASHBOARD_PAGE_SIZE \in Int /\ BFF_DASHBOARD_MAX_DOCUMENTS \in Int
  /\ MaxLimit \in Nat \ {0}
  /\ MaxUploads \in Nat /\ MaxMoves \in Nat

VARIABLES
  created,         \* how many documents were created; d is the d-th of them
  committed,       \* those whose INSERT is committed
  status,          \* documents.status of each
  moves,           \* how often it changed
  phase,           \* the statement the summary waits for
  items,           \* allItems: the documents aggregated so far
  offset,
  counted,         \* what COUNT returned for the page being read
  total,           \* the total of the last page
  atStart,         \* the documents committed when the summary was asked for
  had              \* the statuses each document has had since

tableVars == <<created, committed, status, moves>>
loopVars == <<items, offset, counted, total>>
startVars == <<atStart, had>>
vars == <<tableVars, phase, loopVars, startVars>>

-----------------------------------------------------------------------------
Documents == 1..MaxUploads

\* Mutant: any number will do.
getIntOfAnySign(value, fallback) == value

\* loadConfig: a setting that is no positive number is replaced.
getInt(value, fallback) == IF value > 0 THEN value ELSE fallback

PageSize == getInt(BFF_DASHBOARD_PAGE_SIZE, 100)
MaxDocuments == getInt(BFF_DASHBOARD_MAX_DOCUMENTS, 500)

Least(a, b) == IF a <= b THEN a ELSE b

Init ==
  /\ created = 0 /\ committed = {} /\ moves = 0
  /\ status = [d \in Documents |-> "UPLOADED"]
  /\ phase = "idle"
  /\ items = <<>> /\ offset = 0 /\ counted = 0 /\ total = 0
  /\ atStart = {} /\ had = [d \in Documents |-> {}]

\* ORDER BY created_at DESC, over the committed rows: a document comes after
\* those created after it.
Rank(d) == Cardinality({e \in committed : e >= d})
Listed == [i \in 1..Cardinality(committed) |-> CHOOSE d \in committed : Rank(d) = i]

\* create_document: CURRENT_TIMESTAMP is taken when the transaction begins.
BeginUpload ==
  /\ created < MaxUploads
  /\ created' = created + 1
  /\ UNCHANGED <<committed, status, moves, phase, loopVars, startVars>>

CommitUpload(d) ==
  /\ d \in 1..created \ committed
  /\ committed' = committed \cup {d}
  /\ UNCHANGED <<created, status, moves, phase, loopVars, startVars>>

\* update_status, by requests that process documents.
MoveStatus(d, s) ==
  /\ d \in committed /\ s # status[d] /\ moves < MaxMoves
  /\ moves' = moves + 1
  /\ status' = [status EXCEPT ![d] = s]
  /\ had' = [had EXCEPT ![d] = @ \cup {s}]
  /\ UNCHANGED <<created, committed, phase, loopVars, atStart>>

AskForSummary ==
  /\ phase = "idle"
  /\ phase' = "count"
  /\ atStart' = committed
  /\ had' = [d \in Documents |-> {status[d]}]
  /\ UNCHANGED <<tableVars, loopVars>>

\* The limit of the next page.
Limit == Least(Least(PageSize, MaxLimit), MaxDocuments - Len(items))

\* LIMIT and OFFSET, on the list of this moment.
Page == SubSeq(Listed, offset + 1, Least(offset + Limit, Len(Listed)))

CountDocuments ==
  /\ phase = "count"
  /\ counted' = Cardinality(committed)
  /\ phase' = "select"
  /\ UNCHANGED <<tableVars, items, offset, total, startVars>>

Read == [i \in DOMAIN Page |-> [document |-> Page[i], status |-> status[Page[i]]]]

\* Mutant: only the maximum ends the loop.
LoopToMaximum(next) ==
  /\ phase = "select"
  /\ items' = items \o Read
  /\ offset' = next
  /\ total' = counted
  /\ phase' = IF Len(items') < MaxDocuments THEN "count" ELSE "done"
  /\ UNCHANGED <<tableVars, counted, startVars>>

\* A page is aggregated.  The loop ends with an empty one, with as many documents
\* as there are, or with as many as it may aggregate.
Loop(next) ==
  /\ phase = "select"
  /\ items' = items \o Read
  /\ offset' = next
  /\ total' = counted
  /\ phase' = IF Page # <<>> /\ offset' < total' /\ Len(items') < MaxDocuments
                THEN "count" ELSE "done"
  /\ UNCHANGED <<tableVars, counted, startVars>>

\* Mutants: the offset is one too far; it stays where it is.
SelectPageOffByOne == Loop(offset + Len(Page) + 1)
SelectPageAgain == Loop(offset)

\* The page arrives.
SelectPage == Loop(offset + Len(Page))

\* fetchDocumentsPage throws: an error, a timeout or no JSON; the answer is 502.
PageFails ==
  /\ phase \in {"count", "select"}
  /\ phase' = "failed"
  /\ UNCHANGED <<tableVars, loopVars, startVars>>

SummaryStep == CountDocuments \/ SelectPage

Next ==
  \/ BeginUpload
  \/ \E d \in Documents : CommitUpload(d)
  \/ \E d \in Documents, s \in DocumentStatuses : MoveStatus(d, s)
  \/ AskForSummary
  \/ SummaryStep
  \/ PageFails

Spec == Init /\ [][Next]_vars

\* fetch is aborted after BFF_FASTAPI_TIMEOUT_SECONDS: a page arrives or fails.
FairSpec == Spec /\ WF_vars(SummaryStep \/ PageFails)
-----------------------------------------------------------------------------
\* Mutant: as complete as the maximum allows.
is_completeWithinMaximum == Len(items) >= Least(total, MaxDocuments)

is_complete == Len(items) >= total

\* Mutant: the counters start at one.
by_statusFromOne(s) == 1 + Cardinality({i \in DOMAIN items : items[i].status = s})

\* The count of a status; a document that was read twice counts twice.
by_status(s) == Cardinality({i \in DOMAIN items : items[i].status = s})

recent_documents == [i \in 1..Least(5, Len(items)) |-> items[i].document]

Aggregated == {items[i].document : i \in DOMAIN items}

(* Properties.                                                             *)

\* Every variable holds what the code can put there, and the loop never asks
\* for a page that list_documents would refuse.
TypeOK ==
  /\ created \in 0..MaxUploads /\ committed \subseteq 1..created
  /\ phase \in {"idle", "count", "select", "done", "failed"}
  /\ Aggregated \subseteq committed
  /\ offset = Len(items) /\ Len(items) <= MaxDocuments
  /\ counted \in 0..Cardinality(committed) /\ total \in 0..counted
  /\ phase \in {"count", "select"} => Limit \in 1..MaxLimit

\* Uploads move the pages under the loop's feet, but only backwards: a document
\* that was there from the start is aggregated, or is behind the offset still.
NothingIsSkipped ==
  \A d \in atStart :
    d \in Aggregated \/ \E i \in offset + 1..Len(Listed) : Listed[i] = d

\* "Si existen mas documentos que el maximo, is_complete sera false": so it is
\* when they exist from the start.
TooManyIsIncomplete ==
  phase = "done" /\ Cardinality(atStart) > MaxDocuments => ~is_complete

\* The loop ends however fast documents are uploaded.
SummaryEnds == phase = "count" ~> phase \in {"done", "failed"}

\* With no upload committed in between, a complete summary counts every document
\* once and no other, and its recent documents are the newest.
QuietSummaryIsExact ==
  phase = "done" /\ committed = atStart /\ is_complete =>
    /\ Aggregated = committed /\ Len(items) = Cardinality(committed)
    /\ recent_documents = SubSeq(Listed, 1, Least(5, Len(Listed)))

\* Such a summary is of no one moment when documents are processed meanwhile, but
\* each of its counts lies between the documents that had the status all along
\* and those that had it at some time.
CountsAreWitnessed ==
  phase = "done" /\ committed = atStart /\ is_complete =>
    \A s \in DocumentStatuses :
      by_status(s) \in Cardinality({d \in committed : had[d] = {s}})
                      .. Cardinality({d \in committed : s \in had[d]})
=============================================================================
