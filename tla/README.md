# Verification of the regulatory document platform

The platform stores regulatory documents, asks a SOAP service whether each of
them is compliant, and shows the outcome to a user.  This directory holds TLA+
models of its services, the TLC configurations that check them on small
instances, and proofs, checked by TLAPS, of what holds on every instance.
Paths are relative to the repository's root (`src/` in `PROJECT.json`).

    tlc -workers 2 -config ProcessingFaults.cfg MCDocumentProcessing    # a run
    tlapm DocumentProcessingProofs.tla                                  # proofs

## 1. The system

| component | state it keeps | operations |
| --- | --- | --- |
| Document Processing (`services/document-processing`, FastAPI) | `documents` in PostgreSQL, `processing_events` and `audit_logs` in MongoDB, objects in MinIO | upload, list, detail, process, download URL |
| SOAP Gateway (`services/soap-gateway`, Flask) | `compliance_checks` in PostgreSQL, its own events in MongoDB | check, latest status |
| Mock SOAP Server (`services/mock-soap-server`) | none | compliance check |
| BFF (`services/bff-notifications`, Express and Socket.IO) | the sockets that are connected | webhook, dashboard summary |
| Frontend (`apps/frontend`, React) | the state of one page | refresh, select, upload, process, download, and the events it is sent |
| Databases (`infra/postgres`, `infra/mongo`) | the tables, their constraints, the collections | |

A run of one document goes through all of them:

    page --POST process--> Document Processing --POST check--> SOAP Gateway --SOAP--> Mock
                              |  documents: PROCESSING            |  compliance_checks
                              |  processing_events: start         |  event
                              |  documents: final status          v
                              |  processing_events: end      <-- reply
                              +--webhook--> BFF --Socket.IO--> every page connected now

No transaction spans two of these calls, no store is shared by two of the writes
of one handler except PostgreSQL (which sees them in two transactions), nothing
retries, nothing cleans up after a crash, and `docker-compose.yml` restarts
nothing.  Handlers run on threads (FastAPI's pool for `def` handlers, Flask's
server), so requests of one service interleave at every call.

What is hard, by component, and what makes the component correct:

* **Document Processing, process.**  The status is read in one transaction and
  written in another; row, event log and webhook are written one after the
  other; each call may fail before or after it took effect; an exception that is
  none of the three the handler knows leaves it half-way.  Correct: PROCESSING
  is always on somebody's account, a final status comes from the check of the
  run that wrote it, the log has the start of every end, nobody is told of a
  result that is not logged, and documents leave PROCESSING.
* **SOAP Gateway.**  Overlapping checks of one document, a caller that has gone,
  an answer about something else, a check stored whose event is not.  Correct:
  a verdict is the SOAP server's, of that document; a reply that tells a status
  tells what both databases hold; the latest check never gets older.
* **Upload and download.**  Three stores and no undo.  Correct: what the stores
  may disagree on is explained by an upload that is at work or failed; a
  download URL leads to an object though nobody looks whether it exists.
* **BFF webhook.**  The BFF refuses payloads it does not know, keeps nothing, and
  emits to whoever is connected at that moment.  Correct: it refuses nothing the
  endpoint sends, a connected page hears every outcome once and in order, and what
  it heard last is what the document shows once its requests are served.
* **Dashboard summary.**  Pages by LIMIT and OFFSET while uploads and runs go on.
  Correct: the loop ends, no document of the start is skipped, too many documents
  are reported as incomplete, a summary no upload moved under is exact, and its
  counts are of statuses the documents had meanwhile.
* **Frontend.**  Answers in any order, events that are lost while the socket is
  reopened, a status written ahead of the service.  Correct: a page runs a
  document once at a time, shows no row that never was, takes back its guess, and
  the answer to the last detail it asked for does not contradict what it was told.

`PROJECT.json` lists every component with what is left out, and every hazard at
its line with the properties that cover it.

## 2. The modules

| module | models | composes |
| --- | --- | --- |
| `DocumentLifecycle` | abstract: `documents.status` under attempts that may be accepted, start, settle, be abandoned; exclusive or overlapping | |
| `DocumentProcessing` | `POST /documents/{id}/process` | implements `DocumentLifecycle` |
| `SoapGateway` | `POST /api/v1/compliance/check`, `GET /api/v1/compliance/status/{id}` | |
| `MockSoapServer` | the rules and the answers of the Mock SOAP Server, operators only | |
| `Platform` | endpoint, gateway, SOAP server and a reader of `GET /documents/{id}` | extends `DocumentProcessing`, instantiates the two above |
| `Notifications` | `POST /webhooks/processing-complete` of the BFF and the sockets of its pages | extends `Platform` |
| `DocumentUpload` | `POST /documents/upload`, `GET /documents/{id}/download-url` | |
| `Dashboard` | `GET /api/v1/dashboard/summary` over `GET /documents` | |
| `Frontend` | `App.tsx`, its requests and its socket; the BFF's emission | |
| `...Proofs` | the theorems of the module they are named after | |
| `MC...` | the instances TLC checks | |

**DocumentProcessing.**  `pc[r]` names the call request `r` is about to make;
there is one action per call of `process_document` (`service.py:162-250`):
`ReadDocument` (with the 404/409 decisions taken on the row), `MarkProcessing`,
`InsertStartEvent`, `CallGateway`, `PersistResult`, `InsertFinalEvent`,
`NotifyBff`.  A call that raises either took effect or did not (`MaybeWriteRow`,
`MaybeLog`).  `processed_at` is represented by the request whose clock stamped
it, so that properties can say whose result a row holds.  `CheckReturns` and
`CheckEscapes` are the two ways out of `check_document`: with a status or a
`ComplianceGatewayError`, or by an exception nobody catches.  `Faults` says
which failures an instance injects; `ClientsWait` restricts requests to one per
document in flight, as the page's button asks for.

**SoapGateway.**  `stage[c]` is the call check `c` is about to make.  The model
lets the SOAP server answer anything (`SoapReplies`: unreadable, a fault, a
result about any document, with or without an identification).  `Acceptable` and
`RecordOf` are the validation and the mapping of `compliance_service.py`;
`Latest` is the `ORDER BY checked_at DESC, created_at DESC` of the repository,
with `checked_at` in seconds, since `utc_now()` drops what is below.

**Platform.**  The check that `DocumentProcessing` leaves open is here a call
of the gateway: `SendCheck`, then `TakeReply`, or `GatewayUnreachable`, or
`LoseReply`, after which the gateway goes on for nobody.  `CheckOutcome` is what
`check_document` makes of a reply.  `ReadDetail` is the two transactions of
`get_document_detail`.

**Notifications.**  `process_document` waits for the BFF, and Node runs the handler
without an await, so that the arrival of a webhook, its validation (`Validates`) and
the emission (`Emit`) are part of the step of the services that sends it
(`ServicesStep`).  `inbox[p]` is on its way to page `p`, `heard[p]` is what reached it
over the connection it has; a connection that closes loses the former, and a new one
starts with nothing.

**DocumentUpload.**  `pc[u]` as above.  An upload stands for the fresh id it
draws, hence for its object and its row.  The user is known, unknown to the
foreign key, or blank.

**Dashboard.**  `created` is the order of `created_at`, which is the start of
the inserting transaction, and documents are numbered in it; `committed` is what a
statement sees; `Listed` puts a document at its `Rank`, the number of committed ones no
older than it.  COUNT and SELECT of a page are two actions.  `MoveStatus` is any
request that processes a document meanwhile; `had[d]` are the statuses `d` has had
since the summary was asked for.  `getInt` is the reading of the two settings, so
that an instance can leave one unset.

**Frontend.**  A handler of the page runs to its next `await` undisturbed: an
action is a click, an answer, an event, with every `setState` and every request
it makes.  `history[d]` is every status the row of `d` had; a row carries its
place in it as `version`, so that a property can tell an older row from a newer
one, though the page cannot.  `calls` are the requests in flight in the order
they were sent; `Overtaking` names the kinds of requests that may be served and
answered out of that order among themselves (different kinds always may).
`chosen` is what a handler's closure holds as `selectedDocumentId`.  Runs of
other clients are calls of kind `foreign`.  `newest` is a history variable, which no
guard reads: where the answer to the last `loadDocument` is.

## 3. The runs

Safety runs inject every fault of their module unless the table says otherwise;
deadlock is not checked, because every request is sent at most once and an
instance stops when all are served.

| run | instance | shows |
| --- | --- | --- |
| `processing_faults` | 1 document, 3 overlapping requests, all faults | type invariant; `ProcessingIsOwned`, `FinalStatusIsExplained`, `StartPrecedesEnd`, `ToldOnlyAfterLogged`; the overlapping life cycle is implemented |
| `gateway_faults` | 2 documents, 2 checks, clock 0..1, all faults, any SOAP answer | type invariant; `ReplyIsRecorded`, `EventFollowsCheck`, `VerdictIsVouched`, `LatestNeverGoesBack` |
| `platform_overlap` | 1 document, 2 overlapping requests, clock 0..1 | both services are implemented; `VerdictHasCheck`, `DetailIsCoherent` |
| `notifications_serial` | 1 document, 2 requests of clients that wait, 1 page, clock 0..1 | the exclusive life cycle is implemented; `SettledStoresAgree`, `LatestCheckIsTheVerdict`; `HeardInOrder`, `EventEndsProcessing`, `LastHeardIsCurrent` |
| `platform_live` | 2 documents, of a type the rules know and one they do not, 2 overlapping requests, handled faults | `ProcessingEnds`, `VerdictsMatchRules` |
| `upload_faults` | 3 uploads, 2 downloads, all faults | type invariant; `UrlsLeadToObjects`, `StoresAreExplained`, `AnswerTellsStores` |
| `dashboard_pages` | 6 documents, pages of 2, at most 5 aggregated, 1 change of status, fairness | type invariant; `NothingIsSkipped`, `TooManyIsIncomplete`, `QuietSummaryIsExact`, `CountsAreWitnessed`; `SummaryEnds` |
| `frontend_page` | 2 documents, one of them uploaded on the way, answers overtake each other | type invariant; `ProcessOnce`, `GuessIsTemporary`, `DetailIsReal`, `NewestDetailIsCurrent` |
| `overlapping_runs` | 2 requests, no fault | violates `OneRunAtATime` |
| `gateway_timeout` | 1 request, a timeout, fairness | violates `UnansweredCheckMarksFailed` |
| `frontend_event` | 1 document, no overtaking | violates `ListLeavesProcessing` |
| `frontend_link` | 2 documents, 3 clicks, no overtaking | violates `LinkIsOfShownDocument` |

Bounds, and why they are enough:

* Requests interact only through the row, the log and the webhooks of one
  document.  Two are needed for one to overtake another; the third of
  `processing_faults` starts from what two crossed runs leave.  In the
  composition every run is one of that module (`ImplementsProcessing`), so two
  requests are enough for what is added: a late check under the next run.
* `MaxClock = 1` gives two times, so that checks are made in the same second
  and in different ones, which is all that `Latest` compares.
* Five of six documents in pages of two: a full page, a page cut by the
  maximum, a table that outgrows it, and uploads between any two statements.  The
  page size is left unset, so that the list's own limit, 2 here and 100 in the code,
  decides.  The invariants were also checked with two changes of status.
* One page in `notifications_serial`: pages share nothing but the webhooks.
* `MaxRows = 3` writes per document (upload, PROCESSING, a final status),
  `MaxClicks` clicks, of which one may be made while one request is in flight
  (`MaxBusy`), and one run of another client at a time, while it could still write.  With one document,
  the properties of `frontend_page` were also checked with five writes, i.e. a
  second run.  `FinalStatuses` is `{"FAILED"}`, the one that may come with 200
  and with 502.  `frontend_page` keeps one notification where the code keeps
  six, so that the oldest is pushed out within the bound.

**Fairness.**  `PlatformFairSpec` and `FairSpec` assume weak fairness of the
steps of every request, check and SOAP answer: a thread that holds a request
goes on, and its call ends with a result or an exception: the HTTP clients of the
services all have a timeout, and the databases are assumed to answer or to fail.  Uploads, new requests and failures are not fair.  `ProcessingEnds`
is claimed only for failures `process_document` turns into an outcome, the
gateway's error replies and a refused connection: with a lost answer, a store's
failure or a crash it is false (`gateway_timeout`), and `ProcessingIsOwned` says
what is left then.  `FairSpec` of `Dashboard` is fair to the loop: `fetchDocumentsPage` is
aborted after a timeout, so a page arrives or the summary fails; no fairness of
uploads is assumed, nor that they stop.  The page has no liveness property: `fetch` is called without
a timeout, so no fairness of its answers is justified.

## 4. What the code does not do

Four runs find a behaviour the repository says otherwise of (the quotes are in
`PROJECT.json`):

* `overlapping_runs`: "Document is already processing" is decided on a row read
  in an earlier transaction, and the UPDATE has no condition; two requests both
  run, and the later one overwrites the result of the other.
* `gateway_timeout`: `check_document` catches `HTTPError` and `URLError`.  A
  `TimeoutError` while the answer is read is neither; it leaves
  `process_document`, and the document is PROCESSING for good: every later
  request is answered 409.
* `frontend_event`: a list that was read before a run ended and arrives after
  its event puts PROCESSING back, and nothing reads the list again.
* `frontend_link`: the URL of one document, arriving when another is selected,
  is shown beside the other.

The properties that hold are worded for what the code does on its error paths.
A 500 `PERSISTENCE_ERROR` does not say that nothing was persisted: the process
endpoint, the gateway and the upload all write MongoDB after PostgreSQL
committed, and answer so when only the second write failed.
`ProcessingIsOwned`, `EventFollowsCheck`, `StoresAreExplained` and
`AnswerTellsStores` therefore leave a 500 open, and a document can end FAILED
while its latest check is a verdict.  A summary that says it is complete may
count one document twice and miss another when an upload is committed between
two of its pages: `QuietSummaryIsExact` excludes that case, `NothingIsSkipped`
bounds the damage.
The `finally` of `handleProcess` reads the detail of the document that was selected
when the button was pressed (`App.tsx:208`, a closure): with another one selected
meanwhile, the page shows the first document beside the second one's selection, and
an event about the first, which is not selected, does not correct it.
Nor does the page abort or order its `getDocument` requests (`App.tsx:82-94`): a
detail that was asked for before the event, and arrives after the newest one or after
the newest one failed, puts PROCESSING back, and nothing reads it again.  The claim that
the detail of the selected document leaves PROCESSING for good once nothing is in
flight is therefore false, for the same reason as `ListLeavesProcessing`.
`NewestDetailIsCurrent` says what does hold: the answer to the last request, when it is
shown and is of the selected document, is never behind what the page was told.

## 5. The proofs

Each theorem holds for every value of the constants that satisfies the named
assumptions: `None` differs from every value it stands beside, `Faults` and its
kin are sets of known kinds, the clock's bound is a natural number, and in
`Platform` the endpoint admits the failures the gateway can show it
(`GatewayFailuresAreFaults`).

* **DocumentProcessingProofs.**  The invariants of `processing_faults` are not
  inductive: that nobody is told of an unlogged result rests on where every
  request stands.  `IInv` adds `Bookkeeping` (an answer means the request is
  over, a result that its check returned), `RunsAreLogged` (a request past an
  insertion has its event) and `StampsAreLate` (`processed_at` names a request
  past its check).  `StepsAreSummarised` first says of all actions at once how a
  request, a row, the log and the webhooks may move; the preservation of each
  conjunct is then proved against that summary, not against each action.
  `LifecycleImplemented` maps every step to a step of `DocumentLifecycle` or to
  none, in both readings of `ClientsWait`; the exclusive one needs `Waiting`, at
  most one request in flight per document.
* **SoapGatewayProofs.**  The same plan: a summary of the steps, and an `IInv`
  that ties a record about to be saved to the SOAP answer it was made of, and a
  reply to what both databases hold.
* **PlatformProofs.**  `ProcessingImplemented` and `GatewayImplemented`: the
  composition implements both services, so the theorems above are theorems about
  it (`FinalStatusesExplained` is one).  `VerdictsHaveChecks` and
  `VerdictsFollowRules` relate the stores of the two: a verdict on its way
  through the endpoint is its own call's reply (`VerdictIsFromItsCall`), which
  rests on a stored check, which is the answer of the SOAP server's rules.
* **DocumentUploadProofs.**  An invariant of where an upload stands
  (`ObjectsFollowCalls`, `RowsFollowCalls`, `UrlsFollowRows`) explains what the
  three stores hold, and with it that a signed URL leads to an object.
* **NotificationsProofs.**  `PagesHearInOrder` and `EventsEndProcessing`.  `NInv` says
  what is on its way and what was heard together are the webhooks since the page
  connected, that all of it was told (`HeardWasTold`), and that a request is over when
  the BFF was told of it (`ToldWhenOver`); the last is where the invariant of the
  endpoint comes in, through `WebhookIsOfNotify`: the steps that tell the BFF are those
  of `NotifyBff`.

* **DashboardProofs.**  `IInv` says that a document of the start is aggregated or has a
  `Rank` past the offset (`NothingIsBehind`; an upload only moves documents back), that
  the last COUNT saw all of them (`StartIsCounted`), and, as long as no upload was
  committed, that the items read are the head of the list (`QuietItemsAreListed`).
  The lemmas on `Rank` show that it is a bijection onto the positions of `Listed`,
  whatever documents are committed; `CountsWitnessed` compares the cardinalities of
  the items with a status and of the documents that had it.
* **FrontendProofs.**  `Typed` is of sets that grow with `history`: what a reply, an
  event or the page can hold is a row the document had (`Reals`), or one of those
  with the status an event or a click put over it (`Known`).  `Exclusive` counts
  the calls of a document: one in flight for every member of `processingIds`, none
  for the others.  `Temporary` says what will correct a row of the list that is not
  real.  `Fresh` says that the last detail asked for, if it is of the selected
  document, brings nothing older than the notifications while it is in flight, and
  that what it brought is not outdated while it is shown: an event about the selected
  document makes another request the last.  The order of the answers does not matter,
  so nothing is assumed of `Overtaking`.

The theorems about clients that wait have the hypothesis `ClientsWait`, one request
in flight per document, which `notifications_serial` satisfies:

* `StoresSettleTogether`: the row is the run's own from its mark to its end
  (`RunsHoldTheRow`), and what the log and the webhooks say last is said by the
  request that stamped it (`StampIsLoggedLast`, `StampIsToldLast`).
* `VerdictIsLatestCheck`: a call of the gateway that goes on for nobody has left the
  document PROCESSING (`CallsHoldTheRow`), so no run gets past it, and the check of a
  run stays the latest until its verdict is overwritten (`CurrentIsLatest`).
  Without the hypothesis it is false: a late check is the latest under the next run.
* `LastHeardRunIsCurrent`: what a page heard is a stretch of the webhooks
  (`HeardIsAStretch`), whose last one about a document tells its row.

Besides, `LatestGoesForward` proves the gateway's action property from the greatest
element of a finite set of checks, `DetailsAreCoherent` that a detail read between two
runs is backed by a check (`RowIsBacked`), and `PlatformTypeCorrect` the types of the
composition.

Two assumptions are about constants of the instances only: `FinalStatuses` contains
neither `UPLOADED` nor `PROCESSING`, and `None` is no row of `compliance_checks`.

Model-checked only: liveness and `ENABLED`, which are out of the prover's reach
(`ProcessingEnds`, `SummaryEnds`).  What the four runs of section 4 violate is of
course not proved.

## 6. Not modelled

* The dashboard's counts by type: the same fold as the counts by status.
* The fields of a webhook other than the status: what the endpoint puts there always
  passes the BFF's validation.
* The smoke script and the tests; the migrations under `infra/*/migrations`, which
  repeat the initialisation scripts.
* The error banner, the chosen file, the numbers shown by the page, rendering.
* Configuration, CORS, health checks, schemas, logging.  What configuration
  decides is a constant of the modules.
* Deletion: no code deletes a document, a check or an object.

## 7. Plan

Done, in this order: `DocumentProcessing` with its life cycle, `SoapGateway`,
their composition, `DocumentUpload`, `Dashboard`, `Frontend`, `Notifications`; proofs
of every safety property the passing runs check.  Next:

1. the error banner and the chosen file of the page;
2. the dashboard's numbers on the page, with the order of their two reads;
3. the composition of `Frontend` with `Notifications`, whose events the page takes
   from runs of its own here.
