--------------------------- MODULE MockSoapServer ---------------------------
(***************************************************************************)
(* services/mock-soap-server keeps no state: its answer is a function of   *)
(* the request.  A SOAP answer is a record: the HTTP status and what the   *)
(* body says - a Fault with the code of a client or of a server, or a      *)
(* compliance result, with the document it is about and when it was made.  *)
(***************************************************************************)
EXTENDS Integers

DOCUMENT_STATUS ==
  [financial_report      |-> "COMPLIANT",
   tax_filing            |-> "NON_COMPLIANT",
   regulatory_disclosure |-> "COMPLIANT"]

SupportedTypes == DOMAIN DOCUMENT_STATUS

\* build_fault: the code is soapenv:Client whatever went wrong.
Fault(status_code) == [http |-> status_code, kind |-> "client_fault"]

Result(document_id, status, now) ==
  [http |-> 200, kind |-> "result",
   document_id |-> document_id, status |-> status, checked_at |-> now]

\* do_POST on a request the SOAP Gateway built.
Respond(document_id, document_type, now) ==
  IF document_type \in SupportedTypes
    THEN Result(document_id, DOCUMENT_STATUS[document_type], now)
    ELSE Fault(500)
=============================================================================
