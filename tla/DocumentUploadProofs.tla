------------------------ MODULE DocumentUploadProofs ------------------------
(* Proofs about DocumentUpload, for any uploads, downloads and faults.     *)
EXTENDS DocumentUpload, TLAPS

USE DEF vars, uploadVars, downloadVars

\* Where a request stands tells what its earlier calls left in the stores.
OutcomeIsAnAnswer ==
  /\ \A u \in Uploads : outcome[u] # None => pc[u] = "answered"
  /\ \A u \in Uploads : pc[u] = "answered" => outcome[u] \in UploadAnswers

ObjectsFollowCalls ==
  /\ \A u \in Uploads : pc[u] = "idle" => u \notin objects
  /\ \A u \in Uploads : pc[u] = "insert" => u \in objects

RowsFollowCalls ==
  /\ \A u \in Uploads : pc[u] \in {"idle", "put", "insert"} => u \notin rows
  /\ \A u \in Uploads : pc[u] = "audit" => u \in rows

UrlsFollowRows ==
  /\ \A g \in Downloads : download[g] = "presign" => wanted[g] \in rows
  /\ \A g \in Downloads : url[g] # None => url[g] \in rows

IInv ==
  /\ TypeOK
  /\ OutcomeIsAnAnswer
  /\ ObjectsFollowCalls
  /\ RowsFollowCalls
  /\ UrlsFollowRows
  /\ StoresAreExplained
  /\ AnswerTellsStores

LEMMA InvInit == Init => IInv
BY NoneIsNoValue DEF Init, IInv, TypeOK, OutcomeIsAnAnswer, ObjectsFollowCalls, RowsFollowCalls,
   UrlsFollowRows, StoresAreExplained, StoresAreNested, UnauditedIsExplained,
   OrphanIsExplained, AnswerTellsStores, Uploading, UploadAnswers, Ended

LEMMA InvStep == IInv /\ [Next]_vars => IInv'
<1> SUFFICES ASSUME IInv, [Next]_vars
             PROVE  IInv'
    OBVIOUS
<1> USE NoneIsNoValue DEF IInv, Uploading, StoresAreExplained
<1>1. CASE UNCHANGED vars
  BY <1>1 DEF TypeOK, OutcomeIsAnAnswer, ObjectsFollowCalls, RowsFollowCalls, UrlsFollowRows,
     StoresAreNested, UnauditedIsExplained, OrphanIsExplained, AnswerTellsStores, Ended
<1>2. ASSUME NEW u \in Uploads, NEW who \in Users \cup {None, "unknown user"}, ReceiveUpload(u,
   who), UNCHANGED downloadVars
      PROVE  IInv'
  <2>1. TypeOK'
    BY <1>2 DEF ReceiveUpload, Goto, TypeOK, UploadAnswers
  <2>2. OutcomeIsAnAnswer'
    BY <1>2 DEF ReceiveUpload, Goto, TypeOK, OutcomeIsAnAnswer, UploadAnswers
  <2>3. ObjectsFollowCalls'
    BY <1>2 DEF ReceiveUpload, Goto, TypeOK, ObjectsFollowCalls, UploadAnswers
  <2>4. RowsFollowCalls'
    BY <1>2 DEF ReceiveUpload, Goto, TypeOK, RowsFollowCalls, UploadAnswers
  <2>5. UrlsFollowRows'
    BY <1>2 DEF ReceiveUpload, Goto, TypeOK, UrlsFollowRows, UploadAnswers
  <2>6. StoresAreNested'
    BY <1>2 DEF ReceiveUpload, Goto, ObjectsFollowCalls, RowsFollowCalls, TypeOK, StoresAreNested,
       UploadAnswers
  <2>7. UnauditedIsExplained'
    BY <1>2 DEF ReceiveUpload, Goto, RowsFollowCalls, StoresAreNested, OutcomeIsAnAnswer, Ended,
       TypeOK, UnauditedIsExplained, UploadAnswers
  <2>8. OrphanIsExplained'
    BY <1>2 DEF ReceiveUpload, Goto, ObjectsFollowCalls, StoresAreNested, OutcomeIsAnAnswer, Ended,
       TypeOK, OrphanIsExplained, UploadAnswers
  <2>9. AnswerTellsStores'
    BY <1>2 DEF ReceiveUpload, Goto, OutcomeIsAnAnswer, ObjectsFollowCalls, RowsFollowCalls,
       StoresAreNested, TypeOK, AnswerTellsStores, UploadAnswers
  <2> QED
    BY <2>1, <2>2, <2>3, <2>4, <2>5, <2>6, <2>7, <2>8, <2>9
<1>3. ASSUME NEW u \in Uploads, RejectForm(u), UNCHANGED downloadVars
      PROVE  IInv'
  <2>1. TypeOK'
    BY <1>3 DEF RejectForm, Answer, Goto, TypeOK, UploadAnswers
  <2>2. OutcomeIsAnAnswer'
    BY <1>3 DEF RejectForm, Answer, Goto, TypeOK, OutcomeIsAnAnswer, UploadAnswers
  <2>3. ObjectsFollowCalls'
    BY <1>3 DEF RejectForm, Answer, Goto, TypeOK, ObjectsFollowCalls, UploadAnswers
  <2>4. RowsFollowCalls'
    BY <1>3 DEF RejectForm, Answer, Goto, TypeOK, RowsFollowCalls, UploadAnswers
  <2>5. UrlsFollowRows'
    BY <1>3 DEF RejectForm, Answer, Goto, TypeOK, UrlsFollowRows, UploadAnswers
  <2>6. StoresAreNested'
    BY <1>3 DEF RejectForm, Answer, Goto, ObjectsFollowCalls, RowsFollowCalls, TypeOK,
       StoresAreNested, UploadAnswers
  <2>7. UnauditedIsExplained'
    BY <1>3 DEF RejectForm, Answer, Goto, RowsFollowCalls, StoresAreNested, OutcomeIsAnAnswer,
       Ended, TypeOK, UnauditedIsExplained, UploadAnswers
  <2>8. OrphanIsExplained'
    BY <1>3 DEF RejectForm, Answer, Goto, ObjectsFollowCalls, StoresAreNested, OutcomeIsAnAnswer,
       Ended, TypeOK, OrphanIsExplained, UploadAnswers
  <2>9. AnswerTellsStores'
    BY ZenonT(30), <1>3 DEF RejectForm, Answer, Goto, OutcomeIsAnAnswer, ObjectsFollowCalls, RowsFollowCalls,
       StoresAreNested, TypeOK, AnswerTellsStores, UploadAnswers
  <2> QED
    BY <2>1, <2>2, <2>3, <2>4, <2>5, <2>6, <2>7, <2>8, <2>9
<1>4. ASSUME NEW u \in Uploads, PutObject(u), UNCHANGED downloadVars
      PROVE  IInv'
  <2>0. UNCHANGED <<rows, audit_logs, user, downloadVars>>
    BY <1>4 DEF PutObject
  <2>1. ASSUME Goto(u, "put", "insert"), objects' = objects \cup {u}, UNCHANGED outcome
       PROVE  IInv'
    <3>1. TypeOK'
      BY <2>0, <2>1 DEF Goto, TypeOK, UploadAnswers
    <3>2. OutcomeIsAnAnswer'
      BY <2>0, <2>1 DEF Goto, TypeOK, OutcomeIsAnAnswer, UploadAnswers
    <3>3. ObjectsFollowCalls'
      BY <2>0, <2>1 DEF Goto, TypeOK, ObjectsFollowCalls, UploadAnswers
    <3>4. RowsFollowCalls'
      BY <2>0, <2>1 DEF Goto, TypeOK, RowsFollowCalls, UploadAnswers
    <3>5. UrlsFollowRows'
      BY <2>0, <2>1 DEF Goto, TypeOK, UrlsFollowRows, UploadAnswers
    <3>6. StoresAreNested'
      BY <2>0, <2>1 DEF Goto, ObjectsFollowCalls, RowsFollowCalls, TypeOK, StoresAreNested,
         UploadAnswers
    <3>7. UnauditedIsExplained'
      BY <2>0, <2>1 DEF Goto, RowsFollowCalls, StoresAreNested, OutcomeIsAnAnswer, Ended, TypeOK,
         UnauditedIsExplained, UploadAnswers
    <3>8. OrphanIsExplained'
      BY ZenonT(30), <2>0, <2>1 DEF Goto, ObjectsFollowCalls, StoresAreNested, OutcomeIsAnAnswer, Ended,
         TypeOK, OrphanIsExplained, UploadAnswers
    <3>9. AnswerTellsStores'
      BY <2>0, <2>1 DEF Goto, OutcomeIsAnAnswer, ObjectsFollowCalls, RowsFollowCalls,
         StoresAreNested, TypeOK, AnswerTellsStores, UploadAnswers
    <3> QED
      BY <3>1, <3>2, <3>3, <3>4, <3>5, <3>6, <3>7, <3>8, <3>9
  <2>2. ASSUME Answer(u, "put", "502"), UNCHANGED objects
       PROVE  IInv'
    <3>1. TypeOK'
      BY <2>0, <2>2 DEF Answer, Goto, TypeOK, UploadAnswers
    <3>2. OutcomeIsAnAnswer'
      BY <2>0, <2>2 DEF Answer, Goto, TypeOK, OutcomeIsAnAnswer, UploadAnswers
    <3>3. ObjectsFollowCalls'
      BY <2>0, <2>2 DEF Answer, Goto, TypeOK, ObjectsFollowCalls, UploadAnswers
    <3>4. RowsFollowCalls'
      BY <2>0, <2>2 DEF Answer, Goto, TypeOK, RowsFollowCalls, UploadAnswers
    <3>5. UrlsFollowRows'
      BY <2>0, <2>2 DEF Answer, Goto, TypeOK, UrlsFollowRows, UploadAnswers
    <3>6. StoresAreNested'
      BY <2>0, <2>2 DEF Answer, Goto, ObjectsFollowCalls, RowsFollowCalls, TypeOK, StoresAreNested,
         UploadAnswers
    <3>7. UnauditedIsExplained'
      BY <2>0, <2>2 DEF Answer, Goto, RowsFollowCalls, StoresAreNested, OutcomeIsAnAnswer, Ended,
         TypeOK, UnauditedIsExplained, UploadAnswers
    <3>8. OrphanIsExplained'
      BY <2>0, <2>2 DEF Answer, Goto, ObjectsFollowCalls, StoresAreNested, OutcomeIsAnAnswer,
         Ended, TypeOK, OrphanIsExplained, UploadAnswers
    <3>9. AnswerTellsStores'
      BY ZenonT(30), <2>0, <2>2 DEF Answer, Goto, OutcomeIsAnAnswer, ObjectsFollowCalls, RowsFollowCalls,
         StoresAreNested, TypeOK, AnswerTellsStores, UploadAnswers
    <3> QED
      BY <3>1, <3>2, <3>3, <3>4, <3>5, <3>6, <3>7, <3>8, <3>9
  <2>3. ASSUME Answer(u, "put", "502"), objects' = objects \cup {u}
       PROVE  IInv'
    <3>1. TypeOK'
      BY <2>0, <2>3 DEF Answer, Goto, TypeOK, UploadAnswers
    <3>2. OutcomeIsAnAnswer'
      BY <2>0, <2>3 DEF Answer, Goto, TypeOK, OutcomeIsAnAnswer, UploadAnswers
    <3>3. ObjectsFollowCalls'
      BY <2>0, <2>3 DEF Answer, Goto, TypeOK, ObjectsFollowCalls, UploadAnswers
    <3>4. RowsFollowCalls'
      BY <2>0, <2>3 DEF Answer, Goto, TypeOK, RowsFollowCalls, UploadAnswers
    <3>5. UrlsFollowRows'
      BY <2>0, <2>3 DEF Answer, Goto, TypeOK, UrlsFollowRows, UploadAnswers
    <3>6. StoresAreNested'
      BY <2>0, <2>3 DEF Answer, Goto, ObjectsFollowCalls, RowsFollowCalls, TypeOK, StoresAreNested,
         UploadAnswers
    <3>7. UnauditedIsExplained'
      BY <2>0, <2>3 DEF Answer, Goto, RowsFollowCalls, StoresAreNested, OutcomeIsAnAnswer, Ended,
         TypeOK, UnauditedIsExplained, UploadAnswers
    <3>8. OrphanIsExplained'
      BY ZenonT(30), <2>0, <2>3 DEF Answer, Goto, ObjectsFollowCalls, StoresAreNested, OutcomeIsAnAnswer,
         Ended, TypeOK, OrphanIsExplained, UploadAnswers
    <3>9. AnswerTellsStores'
      BY ZenonT(30), <2>0, <2>3 DEF Answer, Goto, OutcomeIsAnAnswer, ObjectsFollowCalls, RowsFollowCalls,
         StoresAreNested, TypeOK, AnswerTellsStores, UploadAnswers
    <3> QED
      BY <3>1, <3>2, <3>3, <3>4, <3>5, <3>6, <3>7, <3>8, <3>9
  <2> QED
    BY <1>4, <2>1, <2>2, <2>3 DEF PutObject, Maybe
<1>5. ASSUME NEW u \in Uploads, InsertRow(u), UNCHANGED downloadVars
      PROVE  IInv'
  <2>0. UNCHANGED <<objects, audit_logs, user, downloadVars>>
    BY <1>5 DEF InsertRow
  <2>1. ASSUME Goto(u, "insert", "audit"), rows' = rows \cup {u}, UNCHANGED outcome
       PROVE  IInv'
    <3>1. TypeOK'
      BY <2>0, <2>1 DEF Goto, TypeOK, UploadAnswers
    <3>2. OutcomeIsAnAnswer'
      BY <2>0, <2>1 DEF Goto, TypeOK, OutcomeIsAnAnswer, UploadAnswers
    <3>3. ObjectsFollowCalls'
      BY <2>0, <2>1 DEF Goto, TypeOK, ObjectsFollowCalls, UploadAnswers
    <3>4. RowsFollowCalls'
      BY <2>0, <2>1 DEF Goto, TypeOK, RowsFollowCalls, UploadAnswers
    <3>5. UrlsFollowRows'
      BY <2>0, <2>1 DEF Goto, TypeOK, UrlsFollowRows, UploadAnswers
    <3>6. StoresAreNested'
      BY <2>0, <2>1 DEF Goto, ObjectsFollowCalls, RowsFollowCalls, TypeOK, StoresAreNested,
         UploadAnswers
    <3>7. UnauditedIsExplained'
      <4> SUFFICES ASSUME NEW v \in rows' \ audit_logs'
                   PROVE  pc'[v] = "audit" \/ pc'[v] = "lost" \/ outcome'[v] \in {"500"}
        BY DEF UnauditedIsExplained, Ended
      <4>1. CASE v = u
        BY <2>0, <2>1, <4>1 DEF Goto, TypeOK
      <4>2. CASE v # u
        <5>1. v \in rows \ audit_logs
          BY <2>0, <2>1, <4>2
        <5>2. pc'[v] = pc[v] /\ outcome'[v] = outcome[v]
          BY <2>0, <2>1, <4>2 DEF Goto, TypeOK
        <5> QED
          BY <5>1, <5>2 DEF UnauditedIsExplained, Ended
      <4> QED
        BY <4>1, <4>2
    <3>8. OrphanIsExplained'
      BY <2>0, <2>1 DEF Goto, ObjectsFollowCalls, StoresAreNested, OutcomeIsAnAnswer, Ended,
         TypeOK, OrphanIsExplained, UploadAnswers
    <3>9. AnswerTellsStores'
      BY <2>0, <2>1 DEF Goto, OutcomeIsAnAnswer, ObjectsFollowCalls, RowsFollowCalls,
         StoresAreNested, TypeOK, AnswerTellsStores, UploadAnswers
    <3> QED
      BY <3>1, <3>2, <3>3, <3>4, <3>5, <3>6, <3>7, <3>8, <3>9
  <2>2. ASSUME Answer(u, "insert", "400 user"), UNCHANGED rows
       PROVE  IInv'
    <3>1. TypeOK'
      BY <2>0, <2>2 DEF Answer, Goto, TypeOK, UploadAnswers
    <3>2. OutcomeIsAnAnswer'
      BY <2>0, <2>2 DEF Answer, Goto, TypeOK, OutcomeIsAnAnswer, UploadAnswers
    <3>3. ObjectsFollowCalls'
      BY <2>0, <2>2 DEF Answer, Goto, TypeOK, ObjectsFollowCalls, UploadAnswers
    <3>4. RowsFollowCalls'
      BY <2>0, <2>2 DEF Answer, Goto, TypeOK, RowsFollowCalls, UploadAnswers
    <3>5. UrlsFollowRows'
      BY <2>0, <2>2 DEF Answer, Goto, TypeOK, UrlsFollowRows, UploadAnswers
    <3>6. StoresAreNested'
      BY <2>0, <2>2 DEF Answer, Goto, ObjectsFollowCalls, RowsFollowCalls, TypeOK, StoresAreNested,
         UploadAnswers
    <3>7. UnauditedIsExplained'
      BY <2>0, <2>2 DEF Answer, Goto, RowsFollowCalls, StoresAreNested, OutcomeIsAnAnswer, Ended,
         TypeOK, UnauditedIsExplained, UploadAnswers
    <3>8. OrphanIsExplained'
      BY <2>0, <2>2 DEF Answer, Goto, ObjectsFollowCalls, StoresAreNested, OutcomeIsAnAnswer,
         Ended, TypeOK, OrphanIsExplained, UploadAnswers
    <3>9. AnswerTellsStores'
      BY ZenonT(30), <2>0, <2>2 DEF Answer, Goto, OutcomeIsAnAnswer, ObjectsFollowCalls, RowsFollowCalls,
         StoresAreNested, TypeOK, AnswerTellsStores, UploadAnswers
    <3> QED
      BY <3>1, <3>2, <3>3, <3>4, <3>5, <3>6, <3>7, <3>8, <3>9
  <2>3. ASSUME Answer(u, "insert", "500"), UNCHANGED rows
       PROVE  IInv'
    <3>1. TypeOK'
      BY <2>0, <2>3 DEF Answer, Goto, TypeOK, UploadAnswers
    <3>2. OutcomeIsAnAnswer'
      BY <2>0, <2>3 DEF Answer, Goto, TypeOK, OutcomeIsAnAnswer, UploadAnswers
    <3>3. ObjectsFollowCalls'
      BY <2>0, <2>3 DEF Answer, Goto, TypeOK, ObjectsFollowCalls, UploadAnswers
    <3>4. RowsFollowCalls'
      BY <2>0, <2>3 DEF Answer, Goto, TypeOK, RowsFollowCalls, UploadAnswers
    <3>5. UrlsFollowRows'
      BY <2>0, <2>3 DEF Answer, Goto, TypeOK, UrlsFollowRows, UploadAnswers
    <3>6. StoresAreNested'
      BY <2>0, <2>3 DEF Answer, Goto, ObjectsFollowCalls, RowsFollowCalls, TypeOK, StoresAreNested,
         UploadAnswers
    <3>7. UnauditedIsExplained'
      BY <2>0, <2>3 DEF Answer, Goto, RowsFollowCalls, StoresAreNested, OutcomeIsAnAnswer, Ended,
         TypeOK, UnauditedIsExplained, UploadAnswers
    <3>8. OrphanIsExplained'
      BY <2>0, <2>3 DEF Answer, Goto, ObjectsFollowCalls, StoresAreNested, OutcomeIsAnAnswer,
         Ended, TypeOK, OrphanIsExplained, UploadAnswers
    <3>9. AnswerTellsStores'
      BY ZenonT(30), <2>0, <2>3 DEF Answer, Goto, OutcomeIsAnAnswer, ObjectsFollowCalls, RowsFollowCalls,
         StoresAreNested, TypeOK, AnswerTellsStores, UploadAnswers
    <3> QED
      BY <3>1, <3>2, <3>3, <3>4, <3>5, <3>6, <3>7, <3>8, <3>9
  <2>4. ASSUME Answer(u, "insert", "500"), rows' = rows \cup {u}
       PROVE  IInv'
    <3>1. TypeOK'
      BY <2>0, <2>4 DEF Answer, Goto, TypeOK, UploadAnswers
    <3>2. OutcomeIsAnAnswer'
      BY <2>0, <2>4 DEF Answer, Goto, TypeOK, OutcomeIsAnAnswer, UploadAnswers
    <3>3. ObjectsFollowCalls'
      BY <2>0, <2>4 DEF Answer, Goto, TypeOK, ObjectsFollowCalls, UploadAnswers
    <3>4. RowsFollowCalls'
      BY <2>0, <2>4 DEF Answer, Goto, TypeOK, RowsFollowCalls, UploadAnswers
    <3>5. UrlsFollowRows'
      BY <2>0, <2>4 DEF Answer, Goto, TypeOK, UrlsFollowRows, UploadAnswers
    <3>6. StoresAreNested'
      BY <2>0, <2>4 DEF Answer, Goto, ObjectsFollowCalls, RowsFollowCalls, TypeOK, StoresAreNested,
         UploadAnswers
    <3>7. UnauditedIsExplained'
      <4> SUFFICES ASSUME NEW v \in rows' \ audit_logs'
                   PROVE  pc'[v] = "audit" \/ pc'[v] = "lost" \/ outcome'[v] \in {"500"}
        BY DEF UnauditedIsExplained, Ended
      <4>1. CASE v = u
        BY <2>0, <2>4, <4>1 DEF Answer, Goto, TypeOK
      <4>2. CASE v # u
        <5>1. v \in rows \ audit_logs
          BY <2>0, <2>4, <4>2
        <5>2. pc'[v] = pc[v] /\ outcome'[v] = outcome[v]
          BY <2>0, <2>4, <4>2 DEF Answer, Goto, TypeOK
        <5> QED
          BY <5>1, <5>2 DEF UnauditedIsExplained, Ended
      <4> QED
        BY <4>1, <4>2
    <3>8. OrphanIsExplained'
      BY <2>0, <2>4 DEF Answer, Goto, ObjectsFollowCalls, StoresAreNested, OutcomeIsAnAnswer,
         Ended, TypeOK, OrphanIsExplained, UploadAnswers
    <3>9. AnswerTellsStores'
      BY ZenonT(30), <2>0, <2>4 DEF Answer, Goto, OutcomeIsAnAnswer, ObjectsFollowCalls, RowsFollowCalls,
         StoresAreNested, TypeOK, AnswerTellsStores, UploadAnswers
    <3> QED
      BY <3>1, <3>2, <3>3, <3>4, <3>5, <3>6, <3>7, <3>8, <3>9
  <2> QED
    BY <1>5, <2>1, <2>2, <2>3, <2>4 DEF InsertRow, Maybe
<1>6. ASSUME NEW u \in Uploads, InsertAudit(u), UNCHANGED downloadVars
      PROVE  IInv'
  <2>0. UNCHANGED <<objects, rows, user, downloadVars>>
    BY <1>6 DEF InsertAudit
  <2>1. ASSUME Answer(u, "audit", "201"), audit_logs' = audit_logs \cup {u}
       PROVE  IInv'
    <3>1. TypeOK'
      BY <2>0, <2>1 DEF Answer, Goto, TypeOK, UploadAnswers
    <3>2. OutcomeIsAnAnswer'
      BY <2>0, <2>1 DEF Answer, Goto, TypeOK, OutcomeIsAnAnswer, UploadAnswers
    <3>3. ObjectsFollowCalls'
      BY <2>0, <2>1 DEF Answer, Goto, TypeOK, ObjectsFollowCalls, UploadAnswers
    <3>4. RowsFollowCalls'
      BY <2>0, <2>1 DEF Answer, Goto, TypeOK, RowsFollowCalls, UploadAnswers
    <3>5. UrlsFollowRows'
      BY <2>0, <2>1 DEF Answer, Goto, TypeOK, UrlsFollowRows, UploadAnswers
    <3>6. StoresAreNested'
      BY <2>0, <2>1 DEF Answer, Goto, ObjectsFollowCalls, RowsFollowCalls, TypeOK, StoresAreNested,
         UploadAnswers
    <3>7. UnauditedIsExplained'
      BY <2>0, <2>1 DEF Answer, Goto, RowsFollowCalls, StoresAreNested, OutcomeIsAnAnswer, Ended,
         TypeOK, UnauditedIsExplained, UploadAnswers
    <3>8. OrphanIsExplained'
      BY ZenonT(30), <2>0, <2>1 DEF Answer, Goto, ObjectsFollowCalls, StoresAreNested, OutcomeIsAnAnswer,
         Ended, TypeOK, OrphanIsExplained, UploadAnswers
    <3>9. AnswerTellsStores'
      BY ZenonT(30), <2>0, <2>1 DEF Answer, Goto, OutcomeIsAnAnswer, ObjectsFollowCalls, RowsFollowCalls,
         StoresAreNested, TypeOK, AnswerTellsStores, UploadAnswers
    <3> QED
      BY <3>1, <3>2, <3>3, <3>4, <3>5, <3>6, <3>7, <3>8, <3>9
  <2>2. ASSUME Answer(u, "audit", "500"), UNCHANGED audit_logs
       PROVE  IInv'
    <3>1. TypeOK'
      BY <2>0, <2>2 DEF Answer, Goto, TypeOK, UploadAnswers
    <3>2. OutcomeIsAnAnswer'
      BY <2>0, <2>2 DEF Answer, Goto, TypeOK, OutcomeIsAnAnswer, UploadAnswers
    <3>3. ObjectsFollowCalls'
      BY <2>0, <2>2 DEF Answer, Goto, TypeOK, ObjectsFollowCalls, UploadAnswers
    <3>4. RowsFollowCalls'
      BY <2>0, <2>2 DEF Answer, Goto, TypeOK, RowsFollowCalls, UploadAnswers
    <3>5. UrlsFollowRows'
      BY <2>0, <2>2 DEF Answer, Goto, TypeOK, UrlsFollowRows, UploadAnswers
    <3>6. StoresAreNested'
      BY <2>0, <2>2 DEF Answer, Goto, ObjectsFollowCalls, RowsFollowCalls, TypeOK, StoresAreNested,
         UploadAnswers
    <3>7. UnauditedIsExplained'
      BY <2>0, <2>2 DEF Answer, Goto, RowsFollowCalls, StoresAreNested, OutcomeIsAnAnswer, Ended,
         TypeOK, UnauditedIsExplained, UploadAnswers
    <3>8. OrphanIsExplained'
      BY <2>0, <2>2 DEF Answer, Goto, ObjectsFollowCalls, StoresAreNested, OutcomeIsAnAnswer,
         Ended, TypeOK, OrphanIsExplained, UploadAnswers
    <3>9. AnswerTellsStores'
      BY ZenonT(30), <2>0, <2>2 DEF Answer, Goto, OutcomeIsAnAnswer, ObjectsFollowCalls, RowsFollowCalls,
         StoresAreNested, TypeOK, AnswerTellsStores, UploadAnswers
    <3> QED
      BY <3>1, <3>2, <3>3, <3>4, <3>5, <3>6, <3>7, <3>8, <3>9
  <2>3. ASSUME Answer(u, "audit", "500"), audit_logs' = audit_logs \cup {u}
       PROVE  IInv'
    <3>1. TypeOK'
      BY <2>0, <2>3 DEF Answer, Goto, TypeOK, UploadAnswers
    <3>2. OutcomeIsAnAnswer'
      BY <2>0, <2>3 DEF Answer, Goto, TypeOK, OutcomeIsAnAnswer, UploadAnswers
    <3>3. ObjectsFollowCalls'
      BY <2>0, <2>3 DEF Answer, Goto, TypeOK, ObjectsFollowCalls, UploadAnswers
    <3>4. RowsFollowCalls'
      BY <2>0, <2>3 DEF Answer, Goto, TypeOK, RowsFollowCalls, UploadAnswers
    <3>5. UrlsFollowRows'
      BY <2>0, <2>3 DEF Answer, Goto, TypeOK, UrlsFollowRows, UploadAnswers
    <3>6. StoresAreNested'
      BY <2>0, <2>3 DEF Answer, Goto, ObjectsFollowCalls, RowsFollowCalls, TypeOK, StoresAreNested,
         UploadAnswers
    <3>7. UnauditedIsExplained'
      BY <2>0, <2>3 DEF Answer, Goto, RowsFollowCalls, StoresAreNested, OutcomeIsAnAnswer, Ended,
         TypeOK, UnauditedIsExplained, UploadAnswers
    <3>8. OrphanIsExplained'
      BY <2>0, <2>3 DEF Answer, Goto, ObjectsFollowCalls, StoresAreNested, OutcomeIsAnAnswer,
         Ended, TypeOK, OrphanIsExplained, UploadAnswers
    <3>9. AnswerTellsStores'
      BY ZenonT(30), <2>0, <2>3 DEF Answer, Goto, OutcomeIsAnAnswer, ObjectsFollowCalls, RowsFollowCalls,
         StoresAreNested, TypeOK, AnswerTellsStores, UploadAnswers
    <3> QED
      BY <3>1, <3>2, <3>3, <3>4, <3>5, <3>6, <3>7, <3>8, <3>9
  <2> QED
    BY <1>6, <2>1, <2>2, <2>3 DEF InsertAudit, Maybe
<1>7. ASSUME NEW g \in Downloads, NEW u \in Uploads, AskForUrl(g, u), UNCHANGED uploadVars
      PROVE  IInv'
  <2>1. TypeOK'
    BY <1>7 DEF AskForUrl, DownloadTo, TypeOK, UploadAnswers
  <2>2. OutcomeIsAnAnswer'
    BY <1>7 DEF AskForUrl, DownloadTo, TypeOK, OutcomeIsAnAnswer, UploadAnswers
  <2>3. ObjectsFollowCalls'
    BY <1>7 DEF AskForUrl, DownloadTo, TypeOK, ObjectsFollowCalls, UploadAnswers
  <2>4. RowsFollowCalls'
    BY <1>7 DEF AskForUrl, DownloadTo, TypeOK, RowsFollowCalls, UploadAnswers
  <2>5. UrlsFollowRows'
    BY <1>7 DEF AskForUrl, DownloadTo, TypeOK, UrlsFollowRows, UploadAnswers
  <2>6. StoresAreNested'
    BY <1>7 DEF AskForUrl, DownloadTo, ObjectsFollowCalls, RowsFollowCalls, TypeOK,
       StoresAreNested, UploadAnswers
  <2>7. UnauditedIsExplained'
    BY <1>7 DEF AskForUrl, DownloadTo, RowsFollowCalls, StoresAreNested, OutcomeIsAnAnswer, Ended,
       TypeOK, UnauditedIsExplained, UploadAnswers
  <2>8. OrphanIsExplained'
    BY <1>7 DEF AskForUrl, DownloadTo, ObjectsFollowCalls, StoresAreNested, OutcomeIsAnAnswer,
       Ended, TypeOK, OrphanIsExplained, UploadAnswers
  <2>9. AnswerTellsStores'
    BY <1>7 DEF AskForUrl, DownloadTo, OutcomeIsAnAnswer, ObjectsFollowCalls, RowsFollowCalls,
       StoresAreNested, TypeOK, AnswerTellsStores, UploadAnswers
  <2> QED
    BY <2>1, <2>2, <2>3, <2>4, <2>5, <2>6, <2>7, <2>8, <2>9
<1>8. ASSUME NEW g \in Downloads, ReadRow(g), UNCHANGED uploadVars
      PROVE  IInv'
  <2>1. TypeOK'
    BY <1>8 DEF ReadRow, DownloadTo, TypeOK, UploadAnswers
  <2>2. OutcomeIsAnAnswer'
    BY <1>8 DEF ReadRow, DownloadTo, TypeOK, OutcomeIsAnAnswer, UploadAnswers
  <2>3. ObjectsFollowCalls'
    BY <1>8 DEF ReadRow, DownloadTo, TypeOK, ObjectsFollowCalls, UploadAnswers
  <2>4. RowsFollowCalls'
    BY <1>8 DEF ReadRow, DownloadTo, TypeOK, RowsFollowCalls, UploadAnswers
  <2>5. UrlsFollowRows'
    BY <1>8 DEF ReadRow, DownloadTo, TypeOK, UrlsFollowRows, UploadAnswers
  <2>6. StoresAreNested'
    BY <1>8 DEF ReadRow, DownloadTo, ObjectsFollowCalls, RowsFollowCalls, TypeOK, StoresAreNested,
       UploadAnswers
  <2>7. UnauditedIsExplained'
    BY <1>8 DEF ReadRow, DownloadTo, RowsFollowCalls, StoresAreNested, OutcomeIsAnAnswer, Ended,
       TypeOK, UnauditedIsExplained, UploadAnswers
  <2>8. OrphanIsExplained'
    BY <1>8 DEF ReadRow, DownloadTo, ObjectsFollowCalls, StoresAreNested, OutcomeIsAnAnswer, Ended,
       TypeOK, OrphanIsExplained, UploadAnswers
  <2>9. AnswerTellsStores'
    BY <1>8 DEF ReadRow, DownloadTo, OutcomeIsAnAnswer, ObjectsFollowCalls, RowsFollowCalls,
       StoresAreNested, TypeOK, AnswerTellsStores, UploadAnswers
  <2> QED
    BY <2>1, <2>2, <2>3, <2>4, <2>5, <2>6, <2>7, <2>8, <2>9
<1>9. ASSUME NEW g \in Downloads, Presign(g), UNCHANGED uploadVars
      PROVE  IInv'
  <2>1. TypeOK'
    BY <1>9 DEF Presign, DownloadTo, TypeOK, UploadAnswers
  <2>2. OutcomeIsAnAnswer'
    BY <1>9 DEF Presign, DownloadTo, TypeOK, OutcomeIsAnAnswer, UploadAnswers
  <2>3. ObjectsFollowCalls'
    BY <1>9 DEF Presign, DownloadTo, TypeOK, ObjectsFollowCalls, UploadAnswers
  <2>4. RowsFollowCalls'
    BY <1>9 DEF Presign, DownloadTo, TypeOK, RowsFollowCalls, UploadAnswers
  <2>5. UrlsFollowRows'
    BY <1>9 DEF Presign, DownloadTo, TypeOK, UrlsFollowRows, UploadAnswers
  <2>6. StoresAreNested'
    BY <1>9 DEF Presign, DownloadTo, ObjectsFollowCalls, RowsFollowCalls, TypeOK, StoresAreNested,
       UploadAnswers
  <2>7. UnauditedIsExplained'
    BY <1>9 DEF Presign, DownloadTo, RowsFollowCalls, StoresAreNested, OutcomeIsAnAnswer, Ended,
       TypeOK, UnauditedIsExplained, UploadAnswers
  <2>8. OrphanIsExplained'
    BY <1>9 DEF Presign, DownloadTo, ObjectsFollowCalls, StoresAreNested, OutcomeIsAnAnswer, Ended,
       TypeOK, OrphanIsExplained, UploadAnswers
  <2>9. AnswerTellsStores'
    BY <1>9 DEF Presign, DownloadTo, OutcomeIsAnAnswer, ObjectsFollowCalls, RowsFollowCalls,
       StoresAreNested, TypeOK, AnswerTellsStores, UploadAnswers
  <2> QED
    BY <2>1, <2>2, <2>3, <2>4, <2>5, <2>6, <2>7, <2>8, <2>9
<1>10. CASE Crash
  <2>1. TypeOK'
    BY <1>10 DEF Crash, TypeOK, UploadAnswers
  <2>2. OutcomeIsAnAnswer'
    BY <1>10 DEF Crash, TypeOK, OutcomeIsAnAnswer, UploadAnswers
  <2>3. ObjectsFollowCalls'
    BY <1>10 DEF Crash, TypeOK, ObjectsFollowCalls, UploadAnswers
  <2>4. RowsFollowCalls'
    BY <1>10 DEF Crash, TypeOK, RowsFollowCalls, UploadAnswers
  <2>5. UrlsFollowRows'
    BY <1>10 DEF Crash, TypeOK, UrlsFollowRows, UploadAnswers
  <2>6. StoresAreNested'
    BY <1>10 DEF Crash, ObjectsFollowCalls, RowsFollowCalls, TypeOK, StoresAreNested, UploadAnswers
  <2>7. UnauditedIsExplained'
    BY <1>10 DEF Crash, RowsFollowCalls, StoresAreNested, OutcomeIsAnAnswer, Ended, TypeOK,
       UnauditedIsExplained, UploadAnswers
  <2>8. OrphanIsExplained'
    BY <1>10 DEF Crash, ObjectsFollowCalls, StoresAreNested, OutcomeIsAnAnswer, Ended, TypeOK,
       OrphanIsExplained, UploadAnswers
  <2>9. AnswerTellsStores'
    BY <1>10 DEF Crash, OutcomeIsAnAnswer, ObjectsFollowCalls, RowsFollowCalls, StoresAreNested,
       TypeOK, AnswerTellsStores, UploadAnswers
  <2> QED
    BY <2>1, <2>2, <2>3, <2>4, <2>5, <2>6, <2>7, <2>8, <2>9
<1> QED
  BY <1>1, <1>2, <1>3, <1>4, <1>5, <1>6, <1>7, <1>8, <1>9, <1>10 DEF Next, UploadStep

LEMMA Invariance == Spec => []IInv
BY InvInit, InvStep, PTL DEF Spec

\* Every variable holds what the code can put there.
THEOREM TypeCorrect == Spec => []TypeOK
<1>1. IInv => TypeOK
  BY DEF IInv
<1> QED
  BY <1>1, Invariance, PTL

\* A URL that was handed out leads to an object, whatever failed meanwhile.
THEOREM UrlsAreGood == Spec => []UrlsLeadToObjects
<1>1. IInv => UrlsLeadToObjects
  BY DEF IInv, UrlsFollowRows, StoresAreExplained, StoresAreNested, UrlsLeadToObjects
<1> QED
  BY <1>1, Invariance, PTL

\* The three stores differ only by what uploads at work, or that failed, left.
THEOREM StoresExplained == Spec => []StoresAreExplained
<1>1. IInv => StoresAreExplained
  BY DEF IInv
<1> QED
  BY <1>1, Invariance, PTL

\* The HTTP status tells what an upload left in the stores.
THEOREM AnswersTellStores == Spec => []AnswerTellsStores
<1>1. IInv => AnswerTellsStores
  BY DEF IInv
<1> QED
  BY <1>1, Invariance, PTL
=============================================================================
