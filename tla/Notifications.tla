---------------------------- MODULE Notifications ----------------------------
(***************************************************************************)
(* services/bff-notifications between the platform and the pages.          *)
(*                                                                         *)
(* process_document posts the outcome of a run to the BFF, which validates *)
(* it and emits it to the sockets that are connected.  Node runs the       *)
(* handler to its end without an await: arrival and emission are one step. *)
(* The BFF stores nothing; what is on its way to a socket that closes is   *)
(* lost, and a page that connects later asks for nothing it missed.        *)
(***************************************************************************)
EXTENDS Platform

CONSTANTS Pages

VARIABLES
  sockets,   \* the pages that are connected
  inbox,     \* inbox[p]: the events on their way to p
  heard,     \* heard[p]: those p got over its present connection, in order
  joined     \* joined[p]: how many webhooks the BFF had got when p connected

socketVars == <<sockets, inbox, heard, joined>>
notificationVars == <<platformVars, socketVars>>

NotificationsInit ==
  /\ PlatformInit
  /\ sockets = {}
  /\ inbox = [p \in Pages |-> <<>>]
  /\ heard = [p \in Pages |-> <<>>]
  /\ joined = [p \in Pages |-> 0]

\* Mutant: only a status with a verdict is final.
ValidatesVerdicts(payload) == payload.status \in Gateway!Verdicts

\* validateProcessingCompletePayload.  The other fields always pass: the id is
\* the one uuid4 drew for the row, the type is not blank, and the time is the
\* gateway's or to_iso_z's.
Validates(payload) == payload.status \in FinalStatuses

\* Mutant: a queue that is emptied from the wrong end.
EmitNewestFirst(event) ==
  inbox' = [p \in Pages |-> IF p \in sockets THEN <<event>> \o inbox[p] ELSE inbox[p]]

\* notificationsNamespace.emit
Emit(event) ==
  inbox' = [p \in Pages |-> IF p \in sockets THEN Append(inbox[p], event) ELSE inbox[p]]

\* processingComplete, when the step brings the BFF a payload: 202 and an event,
\* or 400, which notify_processing_complete reports as a WebhookError.
ProcessingComplete ==
  /\ IF webhooks' # webhooks /\ Validates(webhooks'[Len(webhooks')])
       THEN Emit(webhooks'[Len(webhooks')])
       ELSE UNCHANGED inbox
  /\ UNCHANGED <<sockets, heard, joined>>

\* A step of the services; nobody here reads the detail of a document.
ServicesStep ==
  /\ ServicesNext
  /\ ProcessingComplete

Connect(p) ==
  /\ p \notin sockets
  /\ sockets' = sockets \cup {p}
  /\ heard' = [heard EXCEPT ![p] = <<>>]
  /\ joined' = [joined EXCEPT ![p] = Len(webhooks)]
  /\ UNCHANGED <<platformVars, inbox>>

\* The page closes its socket, or the connection or the BFF breaks.
Disconnect(p) ==
  /\ p \in sockets
  /\ sockets' = sockets \ {p}
  /\ inbox' = [inbox EXCEPT ![p] = <<>>]
  /\ UNCHANGED <<platformVars, heard, joined>>

\* document-status-changed reaches the page; what the page does is in Frontend.
Hear(p) ==
  /\ inbox[p] # <<>>
  /\ heard' = [heard EXCEPT ![p] = Append(@, Head(inbox[p]))]
  /\ inbox' = [inbox EXCEPT ![p] = Tail(@)]
  /\ UNCHANGED <<platformVars, sockets, joined>>

NotificationsNext ==
  \/ ServicesStep
  \/ \E p \in Pages : Connect(p) \/ Disconnect(p) \/ Hear(p)

NotificationsSpec == NotificationsInit /\ [][NotificationsNext]_notificationVars

-----------------------------------------------------------------------------
(* Properties.                                                             *)

\* A page that is connected has heard, or is about to hear, every outcome the
\* BFF was told of since, once each and in the order of the webhooks: the BFF
\* refuses nothing that process_document sends.
HeardInOrder ==
  \A p \in sockets :
    heard[p] \o inbox[p] = SubSeq(webhooks, joined[p] + 1, Len(webhooks))

\* A page that was told of the end of a run and reads the document again, as
\* handleStatusChanged does, finds it PROCESSING only for another run.
EventEndsProcessing ==
  \A p \in Pages : \A e \in {heard[p][i] : i \in DOMAIN heard[p]} :
    documents[e.document_id].status = "PROCESSING" =>
      \E q \in Requests \ {e.by} : target[q] = e.document_id /\ LeftProcessing(q)

\* Clients that wait: once all requests on a document were served, a page that
\* heard of the run its row rests on heard of no other after it.
LastHeardIsCurrent ==
  \A p \in Pages, d \in Documents :
    /\ Settled(d)
    /\ \E i \in DOMAIN heard[p] : heard[p][i].by = documents[d].processed_at
    => LastOf(heard[p], d, Event(documents[d].processed_at, documents[d].status))
=============================================================================
