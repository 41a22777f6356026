--------------------------- MODULE DocumentUpload ---------------------------
(***************************************************************************)
(* POST /documents/upload and GET /documents/{id}/download-url of          *)
(* services/document-processing.                                           *)
(*                                                                         *)
(* An upload stores the object (MinIO), inserts the row (PostgreSQL) and   *)
(* writes the audit log (MongoDB), one call after the other and with no    *)
(* undo of the earlier ones.  Every upload draws a fresh document id, which *)
(* is part of the object's key: an upload stands for its document, its row *)
(* and its object.  A download reads the row and then signs a URL for the  *)
(* object; signing asks nobody whether the object exists.                  *)
(***************************************************************************)
EXTENDS Naturals

CONSTANTS
  Uploads,         \* the uploads, each with the document it makes
  Downloads,       \* the requests for a download URL
  Users,           \* the users PostgreSQL knows
  None,            \* Python's None
  UploadFaults     \* which failures the environment may inject

UploadFaultKinds ==
  {"storage", "insert", "audit",     \* MinIO, PostgreSQL and MongoDB calls
   "read", "presign",                \* the two calls of a download
   "crash"}                          \* the process dies, with all its threads

ASSUME UploadFaultsAreKnown == UploadFaults \subseteq UploadFaultKinds
ASSUME UnknownUserIsUnknown == "unknown user" \notin Users \cup {None}

VARIABLES
  objects,         \* MinIO: the uploads whose object is in the bucket
  rows,            \* PostgreSQL: the uploads whose row is in documents
  audit_logs,      \* MongoDB: the uploads with a DOCUMENT_UPLOADED entry
  pc,              \* the call an upload is about to make
  user,            \* the user_id of its form
  outcome,         \* what it was answered
  download,        \* a download: the call it is about to make,
  wanted,          \* the document it asks for, and
  url              \* the object the URL it got is for

uploadVars == <<objects, rows, audit_logs, pc, user, outcome>>
downloadVars == <<download, wanted, url>>
vars == <<uploadVars, downloadVars>>

-----------------------------------------------------------------------------
Uploading == {"put", "insert", "audit"}
UploadAnswers == {"201", "400 form", "400 user", "500", "502"}

ASSUME NoneIsNoValue == None \notin Uploads \cup UploadAnswers

Init ==
  /\ objects = {} /\ rows = {} /\ audit_logs = {}
  /\ pc = [u \in Uploads |-> "idle"]
  /\ user = [u \in Uploads |-> None]
  /\ outcome = [u \in Uploads |-> None]
  /\ download = [g \in Downloads |-> "idle"]
  /\ wanted = [g \in Downloads |-> None]
  /\ url = [g \in Downloads |-> None]

Goto(u, from, to) ==
  /\ pc[u] = from
  /\ pc' = [pc EXCEPT ![u] = to]

Answer(u, from, code) ==
  /\ Goto(u, from, "answered")
  /\ outcome' = [outcome EXCEPT ![u] = code]

\* What a store holds after a call that raised: applied all the same, or not.
Maybe(store, u) == {store, store \cup {u}}

\* Mutant: a blank user_id is passed on as it is.
ReceiveUploadOfBlankUser(u, who) ==
  /\ Goto(u, "idle", "put")
  /\ user' = [user EXCEPT ![u] = IF who = None THEN "" ELSE who]
  /\ UNCHANGED <<objects, rows, audit_logs, outcome>>

\* A blank user_id counts as none.
ReceiveUpload(u, who) ==
  /\ Goto(u, "idle", "put")
  /\ user' = [user EXCEPT ![u] = who]
  /\ UNCHANGED <<objects, rows, audit_logs, outcome>>

\* No type, no filename, or a user_id that is no UUID.
RejectForm(u) ==
  /\ Answer(u, "idle", "400 form")
  /\ UNCHANGED <<objects, rows, audit_logs, user>>

\* Mutant: a failed put is ignored.
PutObjectBestEffort(u) ==
  /\ Goto(u, "put", "insert")
  /\ objects' \in Maybe(objects, u)
  /\ UNCHANGED <<rows, audit_logs, user, outcome>>

PutObject(u) ==
  /\ \/ /\ Goto(u, "put", "insert")
        /\ objects' = objects \cup {u}
        /\ UNCHANGED outcome
     \/ /\ "storage" \in UploadFaults
        /\ Answer(u, "put", "502")
        /\ objects' \in Maybe(objects, u)
  /\ UNCHANGED <<rows, audit_logs, user>>

\* Mutant: an unknown user is stored as none, and the caller told all the same.
InsertRowOfUnknownUser(u) ==
  /\ \/ Goto(u, "insert", "audit") /\ user[u] # "unknown user" /\ UNCHANGED outcome
     \/ Answer(u, "insert", "400 user") /\ user[u] = "unknown user"
  /\ rows' = rows \cup {u}
  /\ UNCHANGED <<objects, audit_logs, user>>

\* create_document: the foreign key refuses a user PostgreSQL does not know.
\* The object put before stays where it is.  "insert" failures include a type too
\* long for its column, which the validation of the form lets pass.
InsertRow(u) ==
  /\ \/ /\ user[u] # "unknown user"
        /\ Goto(u, "insert", "audit")
        /\ rows' = rows \cup {u}
        /\ UNCHANGED outcome
     \/ /\ user[u] = "unknown user"
        /\ Answer(u, "insert", "400 user")
        /\ UNCHANGED rows
     \/ /\ "insert" \in UploadFaults
        /\ Answer(u, "insert", "500")
        /\ rows' \in IF user[u] = "unknown user" THEN {rows} ELSE Maybe(rows, u)
  /\ UNCHANGED <<objects, audit_logs, user>>

\* Mutant: a failed insertion is ignored.
InsertAuditBestEffort(u) ==
  /\ Answer(u, "audit", "201")
  /\ audit_logs' \in Maybe(audit_logs, u)
  /\ UNCHANGED <<objects, rows, user>>

\* insert_document_uploaded and the answer.
InsertAudit(u) ==
  /\ \/ /\ Answer(u, "audit", "201")
        /\ audit_logs' = audit_logs \cup {u}
     \/ /\ "audit" \in UploadFaults
        /\ Answer(u, "audit", "500")
        /\ audit_logs' \in Maybe(audit_logs, u)
  /\ UNCHANGED <<objects, rows, user>>

UploadStep(u) == PutObject(u) \/ InsertRow(u) \/ InsertAudit(u)

-----------------------------------------------------------------------------
DownloadTo(g, from, to) ==
  /\ download[g] = from
  /\ download' = [download EXCEPT ![g] = to]

AskForUrl(g, u) ==
  /\ DownloadTo(g, "idle", "read")
  /\ wanted' = [wanted EXCEPT ![g] = u]
  /\ UNCHANGED url

\* get_document: 500, 404, or the bucket and the key of the row.
ReadRow(g) ==
  /\ \/ "read" \in UploadFaults /\ DownloadTo(g, "read", "refused")
     \/ wanted[g] \notin rows /\ DownloadTo(g, "read", "refused")
     \/ wanted[g] \in rows /\ DownloadTo(g, "read", "presign")
  /\ UNCHANGED <<wanted, url>>

Presign(g) ==
  /\ \/ /\ DownloadTo(g, "presign", "served")
        /\ url' = [url EXCEPT ![g] = wanted[g]]
     \/ /\ "presign" \in UploadFaults
        /\ DownloadTo(g, "presign", "refused")
        /\ UNCHANGED url
  /\ UNCHANGED wanted

\* The process dies: its threads are gone, the stores keep what they hold.
Crash ==
  /\ "crash" \in UploadFaults
  /\ \/ \E u \in Uploads : pc[u] \in Uploading
     \/ \E g \in Downloads : download[g] \in {"read", "presign"}
  /\ pc' = [u \in Uploads |-> IF pc[u] \in Uploading THEN "lost" ELSE pc[u]]
  /\ download' = [g \in Downloads |->
                    IF download[g] \in {"read", "presign"} THEN "lost" ELSE download[g]]
  /\ UNCHANGED <<objects, rows, audit_logs, user, outcome, wanted, url>>

Next ==
  \/ /\ \/ \E u \in Uploads, who \in Users \cup {None, "unknown user"} : ReceiveUpload(u, who)
        \/ \E u \in Uploads : RejectForm(u)
        \/ \E u \in Uploads : UploadStep(u)
     /\ UNCHANGED downloadVars
  \/ /\ \/ \E g \in Downloads, u \in Uploads : AskForUrl(g, u)
        \/ \E g \in Downloads : ReadRow(g)
        \/ \E g \in Downloads : Presign(g)
     /\ UNCHANGED uploadVars
  \/ Crash

Spec == Init /\ [][Next]_vars
-----------------------------------------------------------------------------
(* Properties.                                                             *)

\* Every variable holds what the code can put there.
TypeOK ==
  /\ objects \subseteq Uploads /\ rows \subseteq Uploads /\ audit_logs \subseteq Uploads
  /\ pc \in [Uploads -> Uploading \cup {"idle", "answered", "lost"}]
  /\ user \in [Uploads -> Users \cup {None, "unknown user"}]
  /\ outcome \in [Uploads -> UploadAnswers \cup {None}]
  /\ download \in [Downloads -> {"idle", "read", "presign", "served", "refused", "lost"}]
  /\ wanted \in [Downloads -> Uploads \cup {None}]
  /\ url \in [Downloads -> Uploads \cup {None}]

\* A URL that was handed out leads to an object, though signing does not look:
\* nothing but the order of the upload's calls sees to that.
UrlsLeadToObjects == \A g \in Downloads : url[g] # None => url[g] \in objects

\* How the three stores disagree, and on whose account: a row without its audit
\* entry, or an object without its row, belongs to an upload at work or to one
\* that died or was answered with an error - and which one tells what is left.
Ended(u, codes) == pc[u] = "lost" \/ outcome[u] \in codes

StoresAreNested == audit_logs \subseteq rows /\ rows \subseteq objects

UnauditedIsExplained ==
  \A u \in rows \ audit_logs : pc[u] = "audit" \/ Ended(u, {"500"})

OrphanIsExplained ==
  \A u \in objects \ rows : pc[u] = "insert" \/ Ended(u, {"400 user", "500", "502"})

StoresAreExplained == StoresAreNested /\ UnauditedIsExplained /\ OrphanIsExplained

\* An answer tells the stores apart: 201 says that all three hold the document,
\* an answer of the 400s and 502 that it is no document anybody can list.
AnswerTellsStores ==
  \A u \in Uploads :
    /\ outcome[u] = "201" => u \in audit_logs
    /\ outcome[u] \in {"400 form", "400 user", "502"} => u \notin rows
    /\ outcome[u] = "400 form" => u \notin objects

=============================================================================
