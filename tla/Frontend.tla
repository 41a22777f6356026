------------------------------ MODULE Frontend ------------------------------
(***************************************************************************)
(* One page of apps/frontend: the state of App.tsx, its requests, and the  *)
(* notifications it gets from services/bff-notifications.                  *)
(*                                                                         *)
(* A handler runs to its next await without being interrupted: an action   *)
(* is a click, the arrival of one reply, or the delivery of one Socket.IO  *)
(* event, each with every setState and every request it makes.  Requests   *)
(* are answered, and answers arrive, in any order.  What stands behind     *)
(* document-processing is the history of each row; the requests of other   *)
(* clients run there too.                                                  *)
(***************************************************************************)
EXTENDS Naturals, Sequences, SequencesExt

CONSTANTS
  Documents, None,
  Uploaded,          \* the documents there are when the page is opened
  FinalStatuses,     \* the statuses a run may end with
  MaxNotifications,  \* how many the panel keeps: 6
  Overtaking,        \* the kinds of requests whose answers may overtake each other
  MaxRows,           \* bound: how often a row is written
  MaxClicks,         \* bound: how often the user clicks, and how
  MaxBusy            \* many requests are in flight at most when somebody acts

ASSUME PageAssumption ==
  /\ None \notin Documents /\ Uploaded \subseteq Documents
  /\ FinalStatuses \cap {"UPLOADED", "PROCESSING"} = {}
  /\ MaxNotifications \in Nat \ {0}
  /\ MaxRows \in Nat /\ MaxClicks \in Nat /\ MaxBusy \in Nat

VARIABLES
  history,   \* documents.status of each document, every value it has had
  calls,     \* the requests in flight, in the order they were sent
  socket,    \* "connecting" | "connected"
  inbox,     \* the events on their way to the page
  page,      \* the state of App
  clicks,
  newest     \* where the answer to the last loadDocument is: "in flight", "shown"
             \* as the detail, or "gone"; the page does not know, only properties do

vars == <<history, calls, socket, inbox, page, clicks, newest>>

-----------------------------------------------------------------------------
(* Requests.                                                               *)

\* A row as of one write of it; updated_at orders the writes as version does.
Row(d) == [document |-> d, status |-> Last(history[d]), version |-> Len(history[d])]
Rows == [d \in Documents |-> IF history[d] = <<>> THEN None ELSE Row(d)]

\* chosen is what the handler's closure holds as selectedDocumentId.
Call(kind, d, chosen) ==
  [kind |-> kind, about |-> d, chosen |-> chosen, stage |-> "sent", reply |-> None]

ListCall == Call("list", None, None)
DetailCall(d) == Call("detail", d, None)

Init ==
  /\ history = [d \in Documents |-> IF d \in Uploaded THEN <<"UPLOADED">> ELSE <<>>]
  /\ calls = <<ListCall>>
  /\ socket = "connecting" /\ inbox = <<>>
  /\ page = [documents |-> [d \in Documents |-> None], listState |-> "loading",
             selectedDocumentId |-> None, selectedDocument |-> None, detailState |-> "idle",
             downloadUrl |-> None, downloading |-> FALSE, uploading |-> FALSE,
             processingIds |-> {}, notifications |-> <<>>]
  /\ clicks = 0 /\ newest = "gone"

Is(i, kind, stage) == calls[i].kind = kind /\ calls[i].stage = stage

InTurn(i, stage) ==
  calls[i].kind \in Overtaking
    \/ \A j \in 1..i - 1 : calls[j].kind = calls[i].kind => calls[j].stage # stage

Become(i, stage, reply) ==
  /\ calls' = [calls EXCEPT ![i].stage = stage, ![i].reply = reply]
  /\ UNCHANGED <<socket, page, clicks, newest>>

\* The moment list_documents or get_document reads the rows.
ServeRead(i) ==
  /\ InTurn(i, "sent")
  /\ \/ Is(i, "list", "sent") /\ Become(i, "answered", Rows)
     \/ Is(i, "detail", "sent") /\ Become(i, "answered", Row(calls[i].about))
  /\ UNCHANGED <<history, inbox>>

Write(d, status) ==
  /\ Len(history[d]) < MaxRows
  /\ history' = [history EXCEPT ![d] = Append(@, status)]

Written(d, status) == [document |-> d, status |-> status, version |-> Len(history[d]) + 1]

ServeUpload(i) ==
  /\ Is(i, "upload", "sent")
  /\ Write(calls[i].about, "UPLOADED")
  /\ Become(i, "answered", Written(calls[i].about, "UPLOADED"))
  /\ UNCHANGED inbox

\* processing_complete of the BFF: a valid payload is emitted to the sockets that
\* are connected at that time, and kept for nobody else.
ProcessingComplete(row) ==
  \/ socket = "connected" /\ inbox' = Append(inbox, row)
  \/ UNCHANGED inbox

\* POST .../process, for this page or for nobody here: another client, or this
\* page after its connection broke.  That two runs of one document may overlap
\* is DocumentProcessing's matter.
IsRun(i, stage) == calls[i].kind \in {"process", "foreign"} /\ calls[i].stage = stage

StartRun(i) ==
  /\ IsRun(i, "sent")
  /\ Last(history[calls[i].about]) # "PROCESSING"
  /\ Write(calls[i].about, "PROCESSING")
  /\ Become(i, "running", None)
  /\ UNCHANGED inbox

FinishRun(i) ==
  /\ IsRun(i, "running")
  /\ \E status \in FinalStatuses :
       /\ Write(calls[i].about, status)
       /\ Become(i, "written", Written(calls[i].about, status))
  /\ UNCHANGED inbox

\* The webhook, and the answer after it: 200, or 502 with the document when the
\* gateway gave an error; which of them it is concerns nobody but this page.
AnswerRun(i) ==
  /\ IsRun(i, "written")
  /\ \/ Become(i, "answered", calls[i].reply)
     \/ /\ calls[i].kind = "process" /\ calls[i].reply.status = "FAILED"
        /\ Become(i, "declined", calls[i].reply)
  /\ ProcessingComplete(calls[i].reply)
  /\ UNCHANGED history

\* Bounds: one request for nobody here at a time, and none that could not write.
OtherClientAsks(d) ==
  /\ history[d] # <<>> /\ Len(history[d]) < MaxRows /\ Len(calls) <= MaxBusy
  /\ \A i \in 1..Len(calls) : calls[i].kind # "foreign"
  /\ calls' = Append(calls, Call("foreign", d, None))
  /\ UNCHANGED <<history, socket, inbox, page, clicks, newest>>

\* Answered, or given up by process_document at any point.
ForeignEnds(i) ==
  /\ calls[i].kind = "foreign"
  /\ calls' = RemoveAt(calls, i)
  /\ UNCHANGED <<history, socket, inbox, page, clicks, newest>>

ServiceStep(i) ==
  \/ ServeRead(i) \/ ServeUpload(i)
  \/ StartRun(i) \/ FinishRun(i) \/ AnswerRun(i) \/ ForeignEnds(i)

-----------------------------------------------------------------------------
(* What the handlers share.                                                *)

LoadList(p) == [p EXCEPT !.listState = "loading"]
LoadDetail(p) == [p EXCEPT !.detailState = "loading", !.downloadUrl = None]

\* setSelectedDocumentId(d) and the two effects of a new selection: the detail is
\* loaded, and the socket is closed and opened again, for the handler changed.
\* What was on its way to the old socket is lost.
Choose(p, d) ==
  /\ page' = LoadDetail([p EXCEPT !.selectedDocumentId = d])
  /\ socket' = "connecting" /\ inbox' = <<>> /\ newest' = "in flight"

mergeDocument(p, row) == [p EXCEPT !.documents[row.document] = row]

\* Mutant: an event is applied to whatever is shown.
applyStatusEventToAny(row, e) ==
  IF row # None THEN [row EXCEPT !.status = e.status] ELSE row

\* The row under an event: its status and its time are the event's.
applyStatusEvent(row, e) ==
  IF row # None /\ row.document = e.document THEN e ELSE row

Click ==
  /\ clicks < MaxClicks /\ Len(calls) <= MaxBusy
  /\ clicks' = clicks + 1
  /\ UNCHANGED history

-----------------------------------------------------------------------------
(* Clicks.                                                                 *)

Refresh ==
  /\ Click
  /\ page' = LoadList(page)
  /\ calls' = Append(calls, ListCall)
  /\ UNCHANGED <<socket, inbox, newest>>

\* The eye of a row; the row that is selected already stays as it is.
Select(d) ==
  /\ Click
  /\ page.documents[d] # None /\ page.selectedDocumentId # d
  /\ Choose(page, d)
  /\ calls' = Append(calls, DetailCall(d))

\* Mutant: processingIds disables nothing.
ProcessIsEnabledByStatus(row) == row # None /\ row.status # "PROCESSING"

\* "Procesar" is enabled unless this page is processing the document, or shows it
\* PROCESSING: in the list and, of the document shown, in the detail.
ProcessIsEnabled(row) ==
  row # None /\ row.document \notin page.processingIds /\ row.status # "PROCESSING"

TableOffers(d) == ProcessIsEnabled(page.documents[d])
DetailOffers(d) ==
  ProcessIsEnabled(page.selectedDocument) /\ page.selectedDocument.document = d

handleProcess(d) ==
  /\ Click
  /\ TableOffers(d) \/ DetailOffers(d)
  /\ page' = [page EXCEPT
                !.processingIds = @ \cup {d},
                !.documents[d] = IF @ = None THEN None ELSE [@ EXCEPT !.status = "PROCESSING"]]
  /\ calls' = Append(calls, Call("process", d, page.selectedDocumentId))
  /\ UNCHANGED <<socket, inbox, newest>>

handleDownload ==
  /\ Click
  /\ page.selectedDocument # None /\ ~page.downloading
  /\ page' = [page EXCEPT !.downloading = TRUE]
  /\ calls' = Append(calls, Call("url", page.selectedDocument.document, None))
  /\ UNCHANGED <<socket, inbox, newest>>

handleUpload(d) ==
  /\ Click
  /\ ~page.uploading /\ history[d] = <<>>
  /\ page' = [page EXCEPT !.uploading = TRUE]
  /\ calls' = Append(calls, Call("upload", d, None))
  /\ UNCHANGED <<socket, inbox, newest>>

UserStep ==
  \/ Refresh \/ handleDownload
  \/ \E d \in Documents : Select(d) \/ handleProcess(d) \/ handleUpload(d)

-----------------------------------------------------------------------------
(* Answers.                                                                *)

Arrives(i, kind, stage) == Is(i, kind, stage) /\ InTurn(i, stage) /\ InTurn(i, "sent")

\* An HTTP error, or no answer.
Throws(i, kind) == Arrives(i, kind, "sent") /\ InTurn(i, "answered")

Quietly(i) ==
  /\ calls' = RemoveAt(calls, i)
  /\ UNCHANGED <<history, socket, inbox, clicks>>

IsNewest(i) == newest = "in flight" /\ \A j \in i + 1..Len(calls) : calls[j].kind # "detail"

refreshDocuments(i) ==
  /\ \/ /\ Arrives(i, "list", "answered")
        /\ page' = [page EXCEPT !.documents = calls[i].reply, !.listState = "success"]
     \/ /\ Throws(i, "list")
        /\ page' = [page EXCEPT !.listState = "error"]
  /\ Quietly(i) /\ UNCHANGED newest

loadDocument(i) ==
  /\ \/ /\ Arrives(i, "detail", "answered")
        /\ page' = [page EXCEPT !.selectedDocument = calls[i].reply, !.detailState = "success"]
        /\ newest' = IF IsNewest(i) THEN "shown" ELSE IF newest = "shown" THEN "gone" ELSE newest
     \/ /\ Throws(i, "detail")
        /\ page' = [page EXCEPT !.detailState = "error"]
        /\ newest' = IF IsNewest(i) THEN "gone" ELSE newest
  /\ Quietly(i)

\* The URL tells no more than the document asked for.
DownloadUrlArrives(i) ==
  /\ calls[i].kind = "url"
  /\ \/ page' = [page EXCEPT !.downloading = FALSE, !.downloadUrl = calls[i].about]
     \/ page' = [page EXCEPT !.downloading = FALSE]
  /\ Quietly(i) /\ UNCHANGED newest

UploadArrives(i) ==
  /\ Arrives(i, "upload", "answered")
  /\ Choose(LoadList([page EXCEPT !.uploading = FALSE, !.selectedDocument = calls[i].reply]),
            calls[i].about)
  /\ calls' = RemoveAt(calls, i) \o <<ListCall, DetailCall(calls[i].about)>>
  /\ UNCHANGED <<history, clicks>>

UploadIsRefused(i) ==
  /\ calls[i].kind = "upload"
  /\ page' = [page EXCEPT !.uploading = FALSE]
  /\ Quietly(i) /\ UNCHANGED newest

\* Mutant: only the detail is read again.
FinallyWithoutList(i, p, rest) ==
  /\ page' = LoadDetail([p EXCEPT !.processingIds = @ \ {calls[i].about}])
  /\ calls' = Append(rest, DetailCall(calls[i].about))
  /\ newest' = "in flight"
  /\ UNCHANGED <<history, socket, inbox, clicks>>

\* The finally of handleProcess; rest is what stays in flight.
Finally(i, p, rest) ==
  LET d == calls[i].about
      settled == LoadList([p EXCEPT !.processingIds = @ \ {d}])
  IN  /\ \/ /\ calls[i].chosen = d
            /\ page' = LoadDetail(settled)
            /\ calls' = rest \o <<ListCall, DetailCall(d)>>
            /\ newest' = "in flight"
         \/ /\ calls[i].chosen # d
            /\ page' = settled
            /\ calls' = Append(rest, ListCall)
            /\ UNCHANGED newest
      /\ UNCHANGED <<history, socket, inbox, clicks>>

\* 200: the answer is shown, and the dashboard read again before the finally.
ProcessArrives(i) ==
  LET row == calls[i].reply
      merged == mergeDocument(page, row)
  IN  /\ Arrives(i, "process", "answered")
      /\ page' = [merged EXCEPT !.selectedDocument =
                    IF @ # None /\ @.document = row.document THEN row ELSE @]
      /\ calls' = Append(RemoveAt(calls, i), Call("summary", row.document, calls[i].chosen))
      /\ UNCHANGED <<history, socket, inbox, clicks, newest>>

\* 502 shows the document it brings in the list only.
ProcessIsDeclined(i) ==
  /\ Arrives(i, "process", "declined")
  /\ Finally(i, mergeDocument(page, calls[i].reply), RemoveAt(calls, i))

\* Another error brings no document: process_document gave up at some point, or
\* the connection broke and it goes on.
ProcessThrows(i) ==
  /\ calls[i].kind = "process" /\ calls[i].stage \in {"sent", "running", "written"}
  /\ \/ Finally(i, page, RemoveAt(calls, i))
     \/ Finally(i, page, [calls EXCEPT ![i].kind = "foreign"])

\* refreshDashboard returned; it catches its own errors.
SummaryArrives(i) ==
  /\ calls[i].kind = "summary"
  /\ Finally(i, page, RemoveAt(calls, i))

AnswerArrives(i) ==
  \/ refreshDocuments(i) \/ loadDocument(i) \/ DownloadUrlArrives(i)
  \/ UploadArrives(i) \/ UploadIsRefused(i)
  \/ ProcessArrives(i) \/ ProcessIsDeclined(i) \/ ProcessThrows(i) \/ SummaryArrives(i)

-----------------------------------------------------------------------------
(* The socket.                                                             *)

Connect ==
  /\ socket = "connecting" /\ socket' = "connected"
  /\ UNCHANGED <<history, calls, inbox, page, clicks, newest>>

Disconnect ==
  /\ socket = "connected" /\ socket' = "connecting"
  /\ inbox' = <<>>
  /\ UNCHANGED <<history, calls, page, clicks, newest>>

\* Mutant: nothing is dropped.
WithNewsUnbounded(e) == <<e>> \o page.notifications

\* The panel with a new notification: the newest ones, newest first.
WithNews(e) ==
  SubSeq(<<e>> \o page.notifications, 1,
         IF Len(page.notifications) < MaxNotifications
           THEN Len(page.notifications) + 1 ELSE MaxNotifications)

\* Mutant: the event is all that is shown.
ReadAgainNever(p, e) == page' = p /\ UNCHANGED <<calls, newest>>

\* What handleStatusChanged reads again.
ReadAgain(p, e) ==
  \/ /\ p.selectedDocumentId = e.document
     /\ page' = LoadDetail(p)
     /\ calls' = Append(calls, DetailCall(e.document))
     /\ newest' = "in flight"
  \/ /\ p.selectedDocumentId # e.document
     /\ page' = p
     /\ UNCHANGED <<calls, newest>>

handleStatusChanged ==
  /\ socket = "connected" /\ inbox # <<>>
  /\ inbox' = Tail(inbox)
  /\ LET e == Head(inbox)
     IN ReadAgain([page EXCEPT
                     !.notifications = WithNews(e),
                     !.documents = [d \in Documents |-> applyStatusEvent(@[d], e)],
                     !.selectedDocument = applyStatusEvent(@, e)], e)
  /\ UNCHANGED <<history, socket, clicks>>

Next ==
  \/ UserStep
  \/ \E i \in 1..Len(calls) : ServiceStep(i) \/ AnswerArrives(i)
  \/ \E d \in Documents : OtherClientAsks(d)
  \/ Connect \/ Disconnect \/ handleStatusChanged

Spec == Init /\ [][Next]_vars
-----------------------------------------------------------------------------
(* Properties.                                                             *)

\* Every variable holds what the code can put there.
TypeOK ==
  /\ history \in [Documents -> Seq({"UPLOADED", "PROCESSING"} \cup FinalStatuses)]
  /\ socket \in {"connecting", "connected"}
  /\ socket = "connecting" => inbox = <<>>
  /\ page.processingIds \subseteq Documents
  /\ page.selectedDocumentId \in Documents \cup {None}
  /\ page.downloadUrl \in Documents \cup {None}
  /\ page.listState \in {"loading", "success", "error"}
  /\ page.detailState \in {"idle", "loading", "success", "error"}
  /\ Len(page.notifications) <= MaxNotifications
  /\ clicks \in 0..MaxClicks
  /\ newest \in {"in flight", "shown", "gone"}

\* A page has at most one request in flight that processes a document, from the
\* click to the end of its handler - whatever lists and events do to the status
\* its button looks at meanwhile.
ProcessOnce ==
  \A d \in Documents :
    LET own == {i \in 1..Len(calls) : calls[i].about = d /\ calls[i].kind \in {"process", "summary"}}
    IN  IF d \in page.processingIds THEN \E i \in own : own = {i} ELSE own = {}

Real(row) ==
  /\ row.version \in 1..Len(history[row.document])
  /\ row.status = history[row.document][row.version]

InFlight(kind) == \E i \in 1..Len(calls) : calls[i].kind = kind

\* The PROCESSING that a click writes into the list ahead of the service is
\* taken back when the service did not follow: a list is on its way until it is,
\* unless reading it failed.
GuessIsTemporary ==
  \A d \in Documents :
    LET row == page.documents[d]
    IN  row # None /\ ~Real(row) =>
          /\ row.status = "PROCESSING"
          /\ d \in page.processingIds \/ InFlight("list") \/ page.listState = "error"

\* The detail shows no row that its document never had, and so does the panel.
DetailIsReal ==
  /\ page.selectedDocument # None => Real(page.selectedDocument)
  /\ \A k \in 1..Len(page.notifications) : Real(page.notifications[k])

\* The page was told that what the row calls PROCESSING has ended.
Outdated(row) ==
  /\ row # None /\ row.status = "PROCESSING"
  /\ \E k \in 1..Len(page.notifications) :
       /\ page.notifications[k].document = row.document
       /\ page.notifications[k].version > row.version

\* Details arrive in any order, and an older one may be shown last.  But the answer
\* to the last one that was asked for does not say PROCESSING of the selected document
\* once the page was told of the end of that run, however early it was read and
\* however late it came: handleStatusChanged asks anew.
NewestDetailIsCurrent ==
  /\ newest = "shown"
  /\ page.selectedDocument # None /\ page.selectedDocument.document = page.selectedDocumentId
  => ~Outdated(page.selectedDocument)

-----------------------------------------------------------------------------
(* What the documentation and the tests claim, and runs refute.            *)

\* README: "Socket.IO document-status-changed -> Frontend actualiza UI", and the
\* test "updates visual status when Socket.IO emits document-status-changed".
\* So when nothing is in flight the list does not contradict the notifications.
ListLeavesProcessing ==
  calls = <<>> /\ page.listState = "success" =>
    \A d \in Documents : ~Outdated(page.documents[d])

\* The test "loads document detail and requests a download URL": the link beside
\* a document leads to its file.
LinkIsOfShownDocument ==
  page.selectedDocument # None /\ page.downloadUrl # None =>
    page.downloadUrl = page.selectedDocument.document
=============================================================================
