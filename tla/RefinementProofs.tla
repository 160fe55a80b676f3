-------------------------- MODULE RefinementProofs --------------------------
(***************************************************************************)
(* The pipeline implements FilingService as long as no statement fails and *)
(* no accepted invoice overflows the returns; and, whatever fails and      *)
(* overflows, it abandons a filed session only where FiledStays says so:   *)
(* proved for any number of sessions, threads, uploads, lines, faults and  *)
(* crashes.                                                                *)
(***************************************************************************)
EXTENDS PipelineProofs, PipelineRefinement

Filing  == {"fileChat", "fileStatus"}
Stages  == {"saveLine", "archive", "setStatus"}
Newest(s) == rows[s][Len(rows[s])]

\* Memory knows that s is filed, or filing it again throws.
Settled(s) == memStatus[s] = "FILED" \/ Overflows(rows[s])

\* A stored FILED goes with stored invoices, and memory says FILED as well, except
\* in a session that a filing has adopted and will mark, or whose ledger overflows;
\* the invoice that an upload is still working on is the newest of its session.
FiledInv ==
    /\ \A s \in Sessions : dbStatus[s] = "FILED" => rows[s] # <<>>
    /\ \A s \in live : dbStatus[s] = "FILED" =>
          \/ Settled(s)
          \/ \E t \in Threads : sess[t] = s /\ pc[t] \in Filing \cup {"gather"}
    /\ \A t \in Threads :
          /\ pc[t] \in Filing => rows[sess[t]] # <<>>
          /\ pc[t] \in Stages => rows[sess[t]] # <<>> /\ Newest(sess[t]) = doc[t]

\* With nobody else inside, the three parts are about the session of the holder.
LEMMA HolderFiled ==
    ASSUME NEW t \in Threads, AgreeInv, FiledInv, mutex = t
    PROVE  /\ \A s \in live : dbStatus[s] = "FILED" =>
                 \/ Settled(s)
                 \/ sess[t] = s /\ pc[t] \in Filing \cup {"gather"}
           /\ sess[t] \in Sessions
           /\ pc[t] \in Inner => sess[t] \in live
           /\ TypeOK
<1>1. \A u \in Threads : u # t => pc[u] \notin Inner
  BY DEF AgreeInv, SessionInv, BaseInv, LockInv
<1>2. \A s \in live : dbStatus[s] = "FILED" =>
         \/ Settled(s)
         \/ sess[t] = s /\ pc[t] \in Filing \cup {"gather"}
  BY <1>1 DEF FiledInv, Filing, Inner
<1>3. QED
  BY <1>2, HolderIsLive DEF AgreeInv, SessionInv, BaseInv

LEMMA FiledStep ==
    ASSUME NEW t \in Threads, AgreeInv, mutex = t, Leave(t) \/ \E place : Goto(t, place),
           \A s \in Sessions : dbStatus'[s] = "FILED" => rows'[s] # <<>>,
           \A s \in live' : dbStatus'[s] = "FILED" =>
              \/ Settled(s)'
              \/ sess'[t] = s /\ pc'[t] \in Filing \cup {"gather"},
           pc'[t] \in Filing => rows'[sess'[t]] # <<>>,
           pc'[t] \in Stages =>
              rows'[sess'[t]] # <<>> /\ rows'[sess'[t]][Len(rows'[sess'[t]])] = doc'[t]
    PROVE  FiledInv'
<1>1. \A u \in Threads : u # t => pc'[u] = pc[u] /\ pc[u] \notin Inner
  BY DEF Leave, Goto, AgreeInv, SessionInv, BaseInv, TypeOK, LockInv
<1>2. \A u \in Threads : u # t => pc'[u] \notin Filing \cup Stages
  BY <1>1 DEF Filing, Stages, Inner
<1>3. QED
  BY <1>2 DEF FiledInv, Newest

\* Where the step takes the holder.
LEMMA HolderGoes ==
    ASSUME NEW t \in Threads, AgreeInv
    PROVE  /\ Leave(t) => pc'[t] = "idle"
           /\ \A place : Goto(t, place) => pc'[t] = place
  BY DEF Leave, Goto, AgreeInv, SessionInv, BaseInv, TypeOK

\* Steps outside the filing and outside the saving of an invoice.
LEMMA FiledElsewhere ==
    ASSUME NEW t \in Threads, AgreeInv, FiledInv, mutex = t,
           pc[t] \notin Filing \cup {"gather"},
           Leave(t) \/ \E place : place \notin Filing \cup Stages /\ Goto(t, place),
           UNCHANGED <<live, memStatus, dbStatus, rows>>
    PROVE  FiledInv'
<1>1. pc'[t] \notin Filing \cup Stages
  BY HolderGoes DEF Filing, Stages
<1>2. \A s \in live : dbStatus[s] = "FILED" => Settled(s)
  BY HolderFiled
<1>3. QED
  BY <1>1, <1>2, FiledStep DEF FiledInv, Settled

LEMMA SessionFiled ==
    ASSUME NEW t \in Threads, AgreeInv, FiledInv, Session(t)
    PROVE  FiledInv'
<1>1. mutex = t /\ pc[t] \in {"open", "close"} /\ Leave(t)
  BY DEF Session, Open, CloseNothing, Close, At
<1>2. /\ \A s \in live : dbStatus[s] = "FILED" => Settled(s)
      /\ sess[t] \in Sessions /\ TypeOK
  BY <1>1, HolderFiled DEF Filing
<1>3. pc'[t] = "idle"
  BY <1>1, HolderGoes
<1>4. CASE Open(t)
  <2>1. /\ dbStatus[sess[t]] = "NONE"
        /\ dbStatus' = [dbStatus EXCEPT ![sess[t]] = "ACTIVE"]
        /\ live' = live \cup {sess[t]} /\ rows' = rows
        /\ memStatus' = [memStatus EXCEPT ![sess[t]] = "ACTIVE"]
    BY <1>1, <1>2, <1>4 DEF Open, At, CreateSession, AgreeInv, SessionInv, OpeningInv, TypeOK
  <2>2. \A s \in Sessions : dbStatus'[s] = "FILED" => s # sess[t] /\ dbStatus[s] = "FILED"
    BY <1>2, <2>1 DEF TypeOK
  <2>3. \A s \in live' : dbStatus'[s] = "FILED" => Settled(s)'
    BY <1>2, <2>1, <2>2 DEF TypeOK, Settled
  <2>4. QED
    BY <1>1, <1>3, <2>1, <2>2, <2>3, FiledStep DEF FiledInv, Filing, Stages
<1>5. CASE Close(t)
  <2>1. /\ dbStatus' = [dbStatus EXCEPT ![sess[t]] = IF @ = "NONE" THEN @ ELSE "ABANDONED"]
        /\ live' = live /\ rows' = rows
        /\ memStatus' = [memStatus EXCEPT ![sess[t]] = "ABANDONED"]
    BY <1>5 DEF Close, SetSessionStatus
  <2>2. \A s \in Sessions : dbStatus'[s] = "FILED" => s # sess[t] /\ dbStatus[s] = "FILED"
    BY <1>2, <2>1 DEF TypeOK
  <2>3. \A s \in live' : dbStatus'[s] = "FILED" => Settled(s)'
    BY <1>2, <2>1, <2>2 DEF TypeOK, Settled
  <2>4. QED
    BY <1>1, <1>3, <2>1, <2>2, <2>3, FiledStep DEF FiledInv, Filing, Stages
<1>6. CASE CloseNothing(t)
  BY <1>1, <1>6, FiledElsewhere DEF CloseNothing, Filing, memory, tables
<1>7. QED
  BY <1>4, <1>5, <1>6 DEF Session

LEMMA SaveInvoiceFiled ==
    ASSUME NEW t \in Threads, AgreeInv, FiledInv, SaveInvoice(t)
    PROVE  /\ FiledInv'
           /\ rows' = [rows EXCEPT ![sess[t]] = Append(@, doc[t])]
           /\ UNCHANGED <<dbStatus, filing>>
           /\ doc[t] \in Doc /\ sess[t] \in Sessions /\ dbStatus[sess[t]] # "NONE"
<1> DEFINE place == AfterLines(doc[t], 0)
<1>1. /\ mutex = t /\ pc[t] = "saveInvoice" /\ Goto(t, place)
      /\ rows' = [rows EXCEPT ![sess[t]] = Append(@, doc[t])]
      /\ UNCHANGED <<live, memStatus, sess, doc, filing>> /\ CreateSession(sess[t])
  BY DEF SaveInvoice, At, memory, history
<1>2. /\ sess[t] \in Sessions /\ sess[t] \in live /\ TypeOK
      /\ \A s \in live : dbStatus[s] = "FILED" => Settled(s)
  BY <1>1, HolderFiled DEF Filing, Inner
<1>3. doc[t] \in Doc /\ dbStatus' = dbStatus /\ dbStatus[sess[t]] # "NONE"
  BY <1>1, <1>2, CreateIsNoOp
  DEF AgreeInv, SessionInv, BaseInv, LocalInv, Saving, ReferencesHold
<1>4. pc'[t] = place
  BY <1>1, HolderGoes
<1>5. /\ rows'[sess[t]] = Append(rows[sess[t]], doc[t]) /\ rows[sess[t]] \in Seq(Doc)
      /\ \A s \in Sessions : s # sess[t] => rows'[s] = rows[s]
  BY <1>1, <1>2 DEF TypeOK
<1>6. rows'[sess[t]] # <<>> /\ rows'[sess[t]][Len(rows'[sess[t]])] = doc[t]
  BY <1>3, <1>5
<1>7. place \notin Filing
  BY DEF AfterLines, Filing
<1>8. \A s \in Sessions : dbStatus'[s] = "FILED" => rows'[s] # <<>>
  BY <1>3, <1>5, <1>6 DEF FiledInv
<1>9. \A s \in Sessions : Overflows(rows[s]) => Overflows(rows'[s])
  <2>1. Overflows(rows[sess[t]]) => Overflows(rows'[sess[t]])
    BY <1>3, <1>5 DEF Overflows
  <2>2. QED
    BY <1>5, <2>1
<1>10. \A s \in live' : dbStatus'[s] = "FILED" => Settled(s)'
  BY <1>1, <1>2, <1>3, <1>9 DEF Settled, TypeOK
<1>11. FiledInv'
  BY <1>1, <1>3, <1>4, <1>6, <1>7, <1>8, <1>10, FiledStep
<1>12. QED
  BY <1>1, <1>2, <1>3, <1>11

LEMMA UploadDoneFiled ==
    ASSUME NEW t \in Threads, AgreeInv, FiledInv, UploadDone(t)
    PROVE  /\ FiledInv'
           /\ dbStatus' = [dbStatus EXCEPT ![sess[t]] = Assessed(Newest(sess[t]))]
           /\ rows[sess[t]] # <<>> /\ UNCHANGED <<rows, filing>>
           /\ sess[t] \in Sessions
<1>1. /\ mutex = t /\ pc[t] = "setStatus" /\ Leave(t) /\ UNCHANGED <<live, rows, filing>>
      /\ memStatus' = [memStatus EXCEPT ![sess[t]] = Assessed(doc[t])]
      /\ SetSessionStatus(sess[t], Assessed(doc[t]))
  BY DEF UploadDone, At
<1>2. /\ sess[t] \in Sessions /\ sess[t] \in live /\ TypeOK
      /\ \A s \in live : dbStatus[s] = "FILED" => Settled(s)
  BY <1>1, HolderFiled DEF Filing, Inner
<1>3. rows[sess[t]] # <<>> /\ Newest(sess[t]) = doc[t]
  BY <1>1 DEF FiledInv, Stages
<1>4. dbStatus[sess[t]] # "NONE"
  BY <1>2 DEF AgreeInv, SessionInv, ReferencesHold
<1>5. dbStatus' = [dbStatus EXCEPT ![sess[t]] = Assessed(doc[t])]
  BY <1>1, <1>2, <1>4 DEF SetSessionStatus, TypeOK
<1>6. Assessed(doc[t]) # "FILED"
  BY DEF Assessed
<1>7. \A s \in Sessions : dbStatus'[s] = "FILED" => s # sess[t] /\ dbStatus[s] = "FILED"
  BY <1>2, <1>5, <1>6 DEF TypeOK
<1>8. \A s \in live' : dbStatus'[s] = "FILED" => Settled(s)'
  BY <1>1, <1>2, <1>7 DEF TypeOK, Settled
<1>9. pc'[t] = "idle"
  BY <1>1, HolderGoes
<1>10. FiledInv'
  BY <1>1, <1>7, <1>8, <1>9, FiledStep DEF FiledInv, Filing, Stages
<1>11. QED
  BY <1>1, <1>2, <1>3, <1>5, <1>10

LEMMA UploadFiled ==
    ASSUME NEW t \in Threads, AgreeInv, FiledInv, Upload(t)
    PROVE  FiledInv'
<1>1. CASE Unknown(t) \/ UploadRefused(t) \/ UploadAccepted(t)
  <2>1. /\ mutex = t /\ pc[t] \notin Filing \cup {"gather"}
        /\ Leave(t) \/ Goto(t, "saveInvoice")
        /\ UNCHANGED <<live, memStatus, dbStatus, rows>>
    BY <1>1 DEF Unknown, UploadRefused, UploadAccepted, At, Filing, memory, tables
  <2>2. "saveInvoice" \notin Filing \cup Stages
    BY DEF Filing, Stages
  <2>3. QED
    BY <2>1, <2>2, FiledElsewhere
<1>2. CASE SaveLine(t) \/ ArchiveFrame(t)
  <2>1. mutex = t /\ pc[t] \in {"saveLine", "archive"}
    BY <1>2 DEF SaveLine, ArchiveFrame, At
  <2>2. /\ sess[t] \in Sessions /\ sess[t] \in live
        /\ \A s \in live : dbStatus[s] = "FILED" => Settled(s)
    BY <2>1, HolderFiled DEF Filing, Inner
  <2>3. UNCHANGED <<live, memStatus, dbStatus, rows, sess, doc>>
    <3>1. CASE SaveLine(t)
      BY <3>1 DEF SaveLine, memory
    <3>2. CASE ArchiveFrame(t)
      <4>1. CreateSession(sess[t])
        BY <3>2 DEF ArchiveFrame, AddChatMessage
      <4>2. QED
        BY <2>2, <3>2, <4>1, CreateIsNoOp DEF ArchiveFrame, memory, AgreeInv
    <3>3. QED
      BY <1>2, <3>1, <3>2
  <2>4. \E place \in Stages : Goto(t, place)
    BY <1>2 DEF SaveLine, ArchiveFrame, AfterLines, Stages
  <2>5. pc'[t] \in Stages
    BY <2>4, HolderGoes
  <2>6. rows[sess[t]] # <<>> /\ Newest(sess[t]) = doc[t]
    BY <2>1 DEF FiledInv, Stages
  <2>7. QED
    BY <2>1, <2>2, <2>3, <2>4, <2>5, <2>6, FiledStep
    DEF FiledInv, Filing, Stages, Newest, Settled
<1>3. QED
  BY <1>1, <1>2, SaveInvoiceFiled, UploadDoneFiled DEF Upload

LEMMA ReplyFiled ==
    ASSUME NEW t \in Threads, AgreeInv, FiledInv, Reply(t)
    PROVE  FiledInv'
<1>1. mutex = t /\ pc[t] \in {"reply", "replyAck"} /\ (Leave(t) \/ Goto(t, "replyAck"))
  BY DEF Reply, ReplyUser, ReplyAck, At
<1>2. sess[t] \in live /\ \E what : AddChatMessage(sess[t], what, 0)
  BY <1>1, HolderFiled DEF Reply, ReplyUser, ReplyAck, At, Inner
<1>3. UNCHANGED <<live, memStatus, dbStatus, rows>>
  BY <1>2, CreateIsNoOp DEF Reply, ReplyUser, ReplyAck, AddChatMessage, memory, AgreeInv
<1>4. pc[t] \notin Filing \cup {"gather"} /\ "replyAck" \notin Filing \cup Stages
  BY <1>1 DEF Filing, Stages
<1>5. QED
  BY <1>1, <1>3, <1>4, FiledElsewhere

\* The filing reads the stored invoices, whichever ledger it takes.
LEMMA FileDoneFiled ==
    ASSUME NEW t \in Threads, AgreeInv, FiledInv, FileDone(t)
    PROVE  /\ FiledInv'
           /\ dbStatus' = [dbStatus EXCEPT ![sess[t]] = "FILED"]
           /\ filing' = [filing EXCEPT ![sess[t]] = rows[sess[t]]]
           /\ rows[sess[t]] # <<>> /\ UNCHANGED rows
           /\ sess[t] \in Sessions
<1>1. /\ mutex = t /\ pc[t] = "fileStatus" /\ Leave(t) /\ UNCHANGED <<live, rows>>
      /\ memStatus' = [memStatus EXCEPT ![sess[t]] = "FILED"]
      /\ filing' = [filing EXCEPT ![sess[t]] = memLedger[sess[t]]]
      /\ SetSessionStatus(sess[t], "FILED")
  BY DEF FileDone, At
<1>2. /\ sess[t] \in Sessions /\ sess[t] \in live /\ TypeOK
      /\ \A s \in live : dbStatus[s] = "FILED" => Settled(s) \/ sess[t] = s
  BY <1>1, HolderFiled DEF Inner
<1>3. rows[sess[t]] # <<>>
  BY <1>1 DEF FiledInv, Filing
<1>4. dbStatus[sess[t]] # "NONE"
  BY <1>2 DEF AgreeInv, SessionInv, ReferencesHold
<1>5. dbStatus' = [dbStatus EXCEPT ![sess[t]] = "FILED"]
  BY <1>1, <1>2, <1>4 DEF SetSessionStatus, TypeOK
<1>6. \A u \in Threads : ~Apart(u)
  BY <1>1 DEF AgreeInv, SessionInv, BaseInv, LockInv, Apart, Inner
<1>7. memLedger[sess[t]] = rows[sess[t]]
  BY <1>2, <1>6 DEF AgreeInv, LedgerInv
<1>8. \A s \in Sessions : dbStatus'[s] = "FILED" => rows'[s] # <<>>
  BY <1>1, <1>2, <1>3, <1>5 DEF FiledInv, TypeOK
<1>9. \A s \in live' : dbStatus'[s] = "FILED" => Settled(s)'
  BY <1>1, <1>2, <1>5 DEF TypeOK, Settled
<1>10. pc'[t] = "idle"
  BY <1>1, HolderGoes
<1>11. FiledInv'
  BY <1>1, <1>8, <1>9, <1>10, FiledStep DEF Filing, Stages
<1>12. QED
  BY <1>1, <1>2, <1>3, <1>5, <1>7, <1>11

LEMMA FileFiled ==
    ASSUME NEW t \in Threads, AgreeInv, FiledInv, File(t)
    PROVE  FiledInv'
<1>1. mutex = t /\ pc[t] \in {"file", "gather", "fileChat", "fileStatus"}
  BY DEF File, FileUnknown, FileAdopt, FileFound, Gather, FileChat, FileDone, At
<1>2. /\ \A s \in live : dbStatus[s] = "FILED" => Settled(s) \/ sess[t] = s
      /\ pc[t] = "file" => \A s \in live : dbStatus[s] = "FILED" => Settled(s)
      /\ sess[t] \in Sessions /\ (pc[t] # "file" => sess[t] \in live) /\ TypeOK
  BY <1>1, HolderFiled DEF Filing, Inner
<1>3. CASE FileUnknown(t)
  BY <1>1, <1>3, FiledElsewhere DEF FileUnknown, At, Filing, memory, tables
<1>4. CASE FileAdopt(t) \/ FileFound(t)
  <2>1. /\ pc[t] = "file" /\ Goto(t, "gather") /\ UNCHANGED <<dbStatus, rows, sess>>
        /\ live' = live \cup {sess[t]}
        /\ \A s \in live : s # sess[t] => memStatus'[s] = memStatus[s]
    BY <1>2, <1>4 DEF FileAdopt, FileFound, At, memory, tables, TypeOK
  <2>2. pc'[t] = "gather"
    BY <2>1, HolderGoes
  <2>3. \A s \in live' : dbStatus'[s] = "FILED" => Settled(s)' \/ sess'[t] = s
    BY <1>2, <2>1 DEF Settled
  <2>4. QED
    BY <1>1, <2>1, <2>2, <2>3, FiledStep DEF FiledInv, Filing, Stages
<1>5. CASE Gather(t)
  <2>1. /\ pc[t] = "gather" /\ UNCHANGED <<live, memStatus, dbStatus, rows>>
        /\ IF Gathered(sess[t]) = <<>> \/ Overflows(Gathered(sess[t]))
           THEN Leave(t)
           ELSE Goto(t, "fileChat") /\ UNCHANGED sess
    BY <1>5 DEF Gather, At, TakeLedger, tables
  <2>2. Gathered(sess[t]) = rows[sess[t]]
    BY <2>1 DEF Gathered, Rehydrated, AgreeInv, LedgerInv
  <2>4. CASE rows[sess[t]] = <<>>
    <3>1. Leave(t) /\ pc'[t] = "idle"
      BY <2>1, <2>2, <2>4, HolderGoes
    <3>2. dbStatus[sess[t]] # "FILED"
      BY <1>2, <2>4 DEF FiledInv
    <3>3. QED
      BY <1>1, <1>2, <2>1, <3>1, <3>2, FiledStep DEF FiledInv, Filing, Stages, Settled
  <2>5. CASE Overflows(rows[sess[t]])
    <3>1. Leave(t) /\ pc'[t] = "idle"
      BY <2>1, <2>2, <2>5, HolderGoes
    <3>2. QED
      BY <1>1, <1>2, <2>1, <2>5, <3>1, FiledStep DEF FiledInv, Filing, Stages, Settled
  <2>6. CASE rows[sess[t]] # <<>> /\ ~Overflows(rows[sess[t]])
    <3>1. Goto(t, "fileChat") /\ pc'[t] = "fileChat" /\ sess' = sess
      BY <2>1, <2>2, <2>6, HolderGoes
    <3>2. QED
      BY <1>1, <1>2, <2>1, <2>6, <3>1, FiledStep DEF FiledInv, Filing, Stages, Settled
  <2>7. QED
    BY <2>4, <2>5, <2>6
<1>6. CASE FileChat(t)
  <2>1. /\ pc[t] = "fileChat" /\ Goto(t, "fileStatus") /\ UNCHANGED <<live, memStatus, rows, sess>>
        /\ CreateSession(sess[t])
    BY <1>6 DEF FileChat, At, AddChatMessage, memory
  <2>2. dbStatus' = dbStatus /\ pc'[t] = "fileStatus" /\ rows[sess[t]] # <<>>
    BY <1>2, <2>1, CreateIsNoOp, HolderGoes DEF AgreeInv, FiledInv, Filing
  <2>3. QED
    BY <1>1, <1>2, <2>1, <2>2, FiledStep DEF FiledInv, Filing, Stages, Settled
<1>7. QED
  BY <1>3, <1>4, <1>5, <1>6, FileDoneFiled DEF File

LEMMA NextFiled ==
    ASSUME AgreeInv, FiledInv, [Next]_vars, \A t \in Threads : ~Fault(t)
    PROVE  FiledInv'
<1>1. ASSUME NEW t \in Threads, Handler(t) PROVE FiledInv'
  <2>1. ~Fault(t)
    OBVIOUS
  <2>2. QED
    BY <1>1, <2>1, SessionFiled, UploadFiled, ReplyFiled, FileFiled DEF Handler
<1>2. ASSUME NEW t \in Threads, Call(t) \/ Acquire(t) PROVE FiledInv'
  <2>1. UNCHANGED <<live, memStatus, dbStatus, rows, doc>>
    BY <1>2 DEF Call, Acquire, memory, tables, locals
  <2>2. \A u \in Threads : pc[u] \in Inner \/ pc'[u] \in Inner => UNCHANGED <<pc[u], sess[u]>>
    BY <1>2 DEF Call, Acquire, Goto, locals, Entry, Inner, AgreeInv, SessionInv, BaseInv, TypeOK
  <2>3. QED
    BY <2>1, <2>2 DEF FiledInv, Filing, Stages, Inner, Newest, Settled
<1>3. CASE Crash
  BY <1>3 DEF Crash, tables, FiledInv, Filing, Stages
<1>4. CASE UNCHANGED vars
  BY <1>4 DEF vars, memory, tables, locals, FiledInv, Newest, Settled
<1>5. QED
  BY <1>1, <1>2, <1>3, <1>4 DEF Next

LEMMA InitFiled == Init => FiledInv
  BY DEF Init, FiledInv, Filing, Stages
-----------------------------------------------------------------------------
(* The steps of the service *)

\* The actions of the service that the pipeline's steps map to, in its own terms.
LEMMA StepAccepts ==
    ASSUME NEW t \in Threads, AgreeInv, FiledInv, SaveInvoice(t)
    PROVE  Service!SNext
<1>1. /\ rows' = [rows EXCEPT ![sess[t]] = Append(@, doc[t])]
      /\ UNCHANGED <<dbStatus, filing>>
      /\ doc[t] \in Doc /\ sess[t] \in Sessions /\ dbStatus[sess[t]] # "NONE"
  BY SaveInvoiceFiled
<1>2. Service!Accept(sess[t])
  BY <1>1 DEF Service!Accept, Service!Opened
<1>3. QED
  BY <1>1, <1>2 DEF Service!SNext

LEMMA StepAssesses ==
    ASSUME NEW t \in Threads, AgreeInv, FiledInv, UploadDone(t)
    PROVE  Service!SNext
<1>1. /\ dbStatus' = [dbStatus EXCEPT ![sess[t]] = Assessed(Newest(sess[t]))]
      /\ rows[sess[t]] # <<>> /\ UNCHANGED <<rows, filing>>
      /\ sess[t] \in Sessions
  BY UploadDoneFiled
<1>2. Service!Assess(sess[t])
  BY <1>1 DEF Service!Assess, Newest
<1>3. QED
  BY <1>1, <1>2 DEF Service!SNext

LEMMA NoOverflow ==
    ASSUME "overflow" \notin Kinds, TypeOK, NEW s \in Sessions
    PROVE  ~Overflows(rows[s])
<1>1. \A d \in Doc : d.kind # "overflow"
  BY DEF Doc
<1>2. \A i \in DOMAIN rows[s] : rows[s][i] \in Doc
  BY DEF TypeOK
<1>3. QED
  BY <1>1, <1>2 DEF Overflows

LEMMA StepFiles ==
    ASSUME NEW t \in Threads, "overflow" \notin Kinds, AgreeInv, FiledInv, FileDone(t)
    PROVE  Service!SNext
<1>1. /\ dbStatus' = [dbStatus EXCEPT ![sess[t]] = "FILED"]
      /\ filing' = [filing EXCEPT ![sess[t]] = rows[sess[t]]]
      /\ rows[sess[t]] # <<>> /\ UNCHANGED rows
      /\ sess[t] \in Sessions
  BY FileDoneFiled
<1>2. Returnable(rows[sess[t]])
  BY <1>1, NoOverflow DEF Returnable, AgreeInv, SessionInv, BaseInv
<1>3. Service!FileReturns(sess[t])
  BY <1>1, <1>2 DEF Service!FileReturns
<1>4. QED
  BY <1>1, <1>3 DEF Service!SNext

LEMMA StepOpens ==
    ASSUME NEW t \in Threads, AgreeInv, Open(t)
    PROVE  Service!SNext
<1>1. mutex = t /\ pc[t] = "open" /\ CreateSession(sess[t]) /\ UNCHANGED <<rows, filing>>
  BY DEF Open, At, history
<1>2. sess[t] \in Sessions /\ dbStatus[sess[t]] = "NONE"
  BY <1>1, HolderIsLive DEF AgreeInv, SessionInv, OpeningInv
<1>3. dbStatus' = [dbStatus EXCEPT ![sess[t]] = "ACTIVE"]
  BY <1>1, <1>2 DEF CreateSession, AgreeInv, SessionInv, BaseInv, TypeOK
<1>4. Service!SOpen(sess[t])
  BY <1>1, <1>2, <1>3 DEF Service!SOpen, Service!Opened
<1>5. QED
  BY <1>2, <1>4 DEF Service!SNext

LEMMA StepAbandons ==
    ASSUME NEW t \in Threads, "overflow" \notin Kinds, AgreeInv, FiledInv, Close(t)
    PROVE  Service!SNext
<1>1. /\ mutex = t /\ pc[t] = "close" /\ sess[t] \in live /\ memStatus[sess[t]] # "FILED"
      /\ SetSessionStatus(sess[t], "ABANDONED") /\ UNCHANGED <<rows, filing>>
  BY DEF Close, At, history
<1>2. sess[t] \in Sessions /\ dbStatus[sess[t]] # "FILED"
  BY <1>1, HolderFiled, NoOverflow DEF Filing, Settled
<1>3. dbStatus[sess[t]] # "NONE"
  BY <1>1, <1>2 DEF AgreeInv, SessionInv, ReferencesHold
<1>4. dbStatus' = [dbStatus EXCEPT ![sess[t]] = "ABANDONED"]
  BY <1>1, <1>2, <1>3 DEF SetSessionStatus, AgreeInv, SessionInv, BaseInv, TypeOK
<1>5. Service!Abandon(sess[t])
  BY <1>1, <1>2, <1>3, <1>4 DEF Service!Abandon, Service!Opened
<1>6. QED
  BY <1>2, <1>5 DEF Service!SNext

\* Whatever else happens concerns the threads, the memory or the transcript only.
LEMMA OtherSteps ==
    ASSUME AgreeInv, [Next]_vars, \A t \in Threads : ~Fault(t),
           \A t \in Threads : ~Open(t) /\ ~Close(t) /\ ~SaveInvoice(t) /\ ~UploadDone(t)
                                       /\ ~FileDone(t)
    PROVE  UNCHANGED <<dbStatus, rows, filing>>
<1>1. ASSUME NEW t \in Threads, Reply(t) \/ ArchiveFrame(t) \/ FileChat(t)
      PROVE  UNCHANGED <<dbStatus, rows, filing>>
  <2>1. /\ mutex = t /\ pc[t] \in {"reply", "replyAck", "archive", "fileChat"}
        /\ pc[t] = "reply" => sess[t] \in live
        /\ CreateSession(sess[t]) /\ UNCHANGED <<rows, filing>>
    BY <1>1 DEF Reply, ReplyUser, ReplyAck, ArchiveFrame, FileChat, At, AddChatMessage, history
  <2>2. sess[t] \in live
    BY <2>1, HolderIsLive DEF AgreeInv, SessionInv, Inner
  <2>3. QED
    BY <2>1, <2>2, CreateIsNoOp DEF AgreeInv
<1>2. ASSUME NEW t \in Threads,
             \/ Call(t) \/ Acquire(t) \/ CloseNothing(t) \/ Unknown(t) \/ UploadRefused(t)
             \/ UploadAccepted(t) \/ SaveLine(t) \/ FileUnknown(t) \/ FileAdopt(t)
             \/ FileFound(t) \/ Gather(t)
      PROVE  UNCHANGED <<dbStatus, rows, filing>>
  BY <1>2 DEF Call, Acquire, CloseNothing, Unknown, UploadRefused, UploadAccepted, SaveLine,
              FileUnknown, FileAdopt, FileFound, Gather, TakeLedger, tables, history
<1>3. CASE Crash \/ UNCHANGED vars
  BY <1>3 DEF Crash, vars, tables, history
<1>4. QED
  BY <1>1, <1>2, <1>3 DEF Next, Handler, Session, Upload, File

LEMMA StepRefines ==
    ASSUME "overflow" \notin Kinds, AgreeInv, FiledInv, [Next]_vars,
           \A t \in Threads : ~Fault(t)
    PROVE  [Service!SNext]_(Service!service)
<1>1. ASSUME NEW t \in Threads,
             Open(t) \/ Close(t) \/ SaveInvoice(t) \/ UploadDone(t) \/ FileDone(t)
      PROVE  Service!SNext
  BY <1>1, StepOpens, StepAbandons, StepAccepts, StepAssesses, StepFiles
<1>2. QED
  BY <1>1, OtherSteps DEF Service!service

LEMMA InitRefines == Init => Service!SInit
  BY DEF Init, Service!SInit

\* As long as no statement fails and no invoice overflows the returns, the pipeline
\* implements the filing service, with any number of threads and crashes.
THEOREM PipelineImplementsService ==
    ASSUME MaxFaults = 0, "overflow" \notin Kinds
    PROVE  Spec => ImplementsService
<1>1. AgreeInv => \A t \in Threads : ~Fault(t)
  BY NoFault DEF AgreeInv, SessionInv, BaseInv
<1>2. Spec => [](AgreeInv /\ FiledInv)
  <2>1. AgreeInv /\ FiledInv /\ [Next]_vars => (AgreeInv /\ FiledInv)'
    BY <1>1, NextAgree, NextFiled
  <2>2. QED
    BY <2>1, InitAgree, InitFiled, PTL DEF Spec
<1>3. AgreeInv /\ FiledInv /\ [Next]_vars => [Service!SNext]_(Service!service)
  BY <1>1, StepRefines
<1>4. QED
  BY <1>2, <1>3, InitRefines, PTL DEF Spec, ImplementsService, Service!SSpec

-----------------------------------------------------------------------------
(* Filed sessions, whatever fails *)

\* Before the first crash every stored session is in memory, which knows what is
\* filed; before the first fault the ledgers agree and FiledInv holds.
WarmInv ==
    crashes = 0 =>
        \A s \in Sessions : dbStatus[s] # "NONE" =>
            s \in live /\ (dbStatus[s] = "FILED" => memStatus[s] = "FILED")

FaultlessInv == faults = 0 => LedgerInv /\ FiledInv

LEMMA NextFaultless ==
    ASSUME SessionInv, FaultlessInv, [Next]_vars
    PROVE  FaultlessInv'
<1>1. SUFFICES ASSUME faults' = 0 PROVE LedgerInv' /\ FiledInv'
  BY DEF FaultlessInv
<1>2. faults \in Nat
  BY BoundAssumption DEF SessionInv, BaseInv, TypeOK
<1>3. \A t \in Threads : ~Fault(t)
  BY <1>1, <1>2 DEF Fault, StatementFails, RehydrationStops
<1>4. faults = 0
  BY <1>1, <1>3
  DEF Next, vars, Call, Acquire, Handler, Session, Open, CloseNothing, Close, Upload, Unknown,
      UploadRefused, UploadAccepted, SaveInvoice, SaveLine, ArchiveFrame, UploadDone, Reply,
      ReplyUser, ReplyAck, File, FileUnknown, FileAdopt, FileFound, Gather, FileChat, FileDone,
      Crash
<1>5. AgreeInv /\ FiledInv
  BY <1>4 DEF FaultlessInv, AgreeInv
<1>6. QED
  BY <1>3, <1>5, NextAgree, NextFiled DEF AgreeInv

LEMMA NextWarm ==
    ASSUME SessionInv, WarmInv, [Next]_vars
    PROVE  WarmInv'
<1> USE DEF WarmInv
<1>1. TypeOK
  BY DEF SessionInv, BaseInv
<1>2. ASSUME NEW t \in Threads, Call(t) \/ Acquire(t) PROVE WarmInv'
  BY <1>2 DEF Call, Acquire, memory, tables
<1>3. ASSUME NEW t \in Threads, Handler(t) PROVE WarmInv'
  <2>1. mutex = t /\ sess[t] \in Sessions
    <3>1. Session(t) \/ Reply(t) \/ Fault(t) => mutex = t
      BY DEF Session, Open, CloseNothing, Close, Reply, ReplyUser, ReplyAck, Fault,
             StatementFails, RehydrationStops, At
    <3>2. Upload(t) => mutex = t
      BY DEF Upload, Unknown, UploadRefused, UploadAccepted, SaveInvoice, SaveLine,
             ArchiveFrame, UploadDone, At
    <3>3. File(t) => mutex = t
      BY DEF File, FileUnknown, FileAdopt, FileFound, Gather, FileChat, FileDone, At
    <3>4. QED
      BY <1>3, <3>1, <3>2, <3>3, HolderIsLive DEF SessionInv, Handler
  <2>2. CASE Open(t)
    <3>1. dbStatus[sess[t]] = "NONE"
      BY <2>2 DEF Open, At, SessionInv, OpeningInv
    <3>2. QED
      BY <1>1, <2>1, <2>2, <3>1 DEF Open, CreateSession, TypeOK
  <2>3. CASE Close(t)
    BY <1>1, <2>1, <2>3 DEF Close, SetSessionStatus, TypeOK
  <2>4. CASE UploadDone(t)
    <3>1. Assessed(doc[t]) # "FILED"
      BY DEF Assessed
    <3>2. QED
      BY <1>1, <2>1, <2>4, <3>1 DEF UploadDone, SetSessionStatus, TypeOK
  <2>5. CASE FileDone(t)
    BY <1>1, <2>1, <2>5 DEF FileDone, SetSessionStatus, TypeOK
  <2>6. CASE FileAdopt(t)
    BY <1>1, <2>1, <2>6 DEF FileAdopt, tables
  <2>7. CASE SaveInvoice(t) \/ ArchiveFrame(t) \/ Reply(t) \/ FileChat(t)
    <3>1. CreateSession(sess[t]) /\ sess[t] \in live
      BY <2>1, <2>7, HolderIsLive
      DEF SaveInvoice, ArchiveFrame, Reply, ReplyUser, ReplyAck, FileChat, AddChatMessage, At,
          Inner, SessionInv
    <3>2. dbStatus' = dbStatus
      BY <3>1, CreateIsNoOp
    <3>3. UNCHANGED <<live, memStatus, crashes>>
      BY <2>7
      DEF SaveInvoice, ArchiveFrame, Reply, ReplyUser, ReplyAck, FileChat, memory
    <3>4. QED
      BY <3>2, <3>3
  <2>8. CASE StatementFails(t)
    <3>1. /\ UNCHANGED <<live, dbStatus, crashes>>
          /\ memStatus' = IF pc[t] = "close" THEN [memStatus EXCEPT ![sess[t]] = "ABANDONED"]
                                             ELSE memStatus
          /\ pc[t] = "close" => memStatus[sess[t]] # "FILED"
      BY <2>8 DEF StatementFails, AtStatement, tables
    <3>2. QED
      BY <1>1, <2>1, <3>1 DEF TypeOK
  <2>9. CASE \/ CloseNothing(t) \/ Unknown(t) \/ UploadRefused(t) \/ UploadAccepted(t)
             \/ SaveLine(t) \/ FileUnknown(t) \/ FileFound(t) \/ Gather(t)
             \/ RehydrationStops(t)
    BY <2>9 DEF CloseNothing, Unknown, UploadRefused, UploadAccepted, SaveLine, FileUnknown,
                FileFound, Gather, RehydrationStops, TakeLedger, memory, tables
  <2>10. QED
    BY <1>3, <2>2, <2>3, <2>4, <2>5, <2>6, <2>7, <2>8, <2>9
    DEF Handler, Session, Upload, File, Fault
<1>4. CASE Crash
  BY <1>1, <1>4, BoundAssumption DEF Crash, TypeOK
<1>5. CASE UNCHANGED vars
  BY <1>5 DEF vars, memory, tables
<1>6. QED
  BY <1>2, <1>3, <1>4, <1>5 DEF Next

\* ABANDONED is written by closeSession only.
LEMMA OnlyCloseAbandons ==
    ASSUME SessionInv, [Next]_vars, NEW s \in Sessions,
           dbStatus[s] = "FILED", dbStatus'[s] = "ABANDONED"
    PROVE  \E t \in Threads : Close(t) /\ sess[t] = s
<1>1. TypeOK
  BY DEF SessionInv, BaseInv
<1>2. \A r : ~CreateSession(r)
  BY <1>1 DEF CreateSession, TypeOK
<1>3. \A r, status : status # "ABANDONED" => ~SetSessionStatus(r, status)
  BY <1>1 DEF SetSessionStatus, TypeOK
<1>4. \A t \in Threads : ~UploadDone(t) /\ ~FileDone(t)
  BY <1>3 DEF UploadDone, FileDone, Assessed
<1>5. \A t \in Threads : /\ ~Open(t) /\ ~SaveInvoice(t) /\ ~ArchiveFrame(t) /\ ~FileChat(t)
                         /\ ~Reply(t)
  BY <1>2 DEF Open, SaveInvoice, ArchiveFrame, FileChat, Reply, ReplyUser, ReplyAck,
              AddChatMessage
<1>6. ASSUME NEW t \in Threads,
             \/ Call(t) \/ Acquire(t) \/ CloseNothing(t) \/ Unknown(t) \/ UploadRefused(t)
             \/ UploadAccepted(t) \/ SaveLine(t) \/ FileUnknown(t) \/ FileAdopt(t)
             \/ FileFound(t) \/ Gather(t) \/ Fault(t)
      PROVE  FALSE
  BY <1>6 DEF Call, Acquire, CloseNothing, Unknown, UploadRefused, UploadAccepted, SaveLine,
              FileUnknown, FileAdopt, FileFound, Gather, Fault, StatementFails,
              RehydrationStops, TakeLedger, tables
<1>7. ~Crash /\ ~UNCHANGED vars
  BY DEF Crash, vars, tables
<1>8. PICK t \in Threads : Close(t)
  BY <1>4, <1>5, <1>6, <1>7 DEF Next, Handler, Session, Upload, File
<1>9. sess[t] = s
  BY <1>1, <1>8 DEF Close, SetSessionStatus, TypeOK
<1>10. QED
  BY <1>8, <1>9

\* A stored FILED is overwritten by ABANDONED only after a restart, and there only
\* after a fault or where the stored ledger overflows: with any number of faults and
\* crashes, and whatever kinds of invoices there are.
THEOREM FiledAlwaysStays == Spec => FiledStays
<1>1. ASSUME SessionInv, WarmInv, FaultlessInv, [Next]_vars, NEW s \in Sessions,
             dbStatus[s] = "FILED", dbStatus'[s] = "ABANDONED"
      PROVE  crashes > 0 /\ (faults > 0 \/ Overflows(rows[s]))
  <2>1. PICK t \in Threads : Close(t) /\ sess[t] = s
    BY <1>1, OnlyCloseAbandons
  <2>2. mutex = t /\ pc[t] = "close" /\ s \in live /\ memStatus[s] # "FILED"
    BY <2>1 DEF Close, At
  <2>3. crashes \in Nat /\ faults \in Nat
    BY <1>1, BoundAssumption DEF SessionInv, BaseInv, TypeOK
  <2>4. crashes # 0
    BY <1>1, <2>2 DEF WarmInv
  <2>5. faults = 0 => Overflows(rows[s])
    <3>1. SUFFICES ASSUME faults = 0 PROVE Overflows(rows[s])
      OBVIOUS
    <3>2. AgreeInv /\ FiledInv
      BY <1>1, <3>1 DEF FaultlessInv, AgreeInv
    <3>3. Settled(s)
      BY <1>1, <2>2, <3>2, HolderFiled DEF Filing
    <3>4. QED
      BY <2>2, <3>3 DEF Settled
  <2>6. QED
    BY <2>3, <2>4, <2>5
<1>2. SessionInv /\ WarmInv /\ FaultlessInv /\ [Next]_vars
      => [\A s \in Sessions :
            dbStatus[s] = "FILED" /\ dbStatus'[s] = "ABANDONED"
            => crashes > 0 /\ (faults > 0 \/ Overflows(rows[s]))]_vars
  BY <1>1
<1>3. Init => WarmInv /\ FaultlessInv
  BY InitAgree, InitFiled DEF Init, WarmInv, FaultlessInv, AgreeInv
<1>4. SessionInv /\ WarmInv /\ FaultlessInv /\ [Next]_vars => (WarmInv /\ FaultlessInv)'
  BY NextWarm, NextFaultless
<1>5. QED
  BY <1>2, <1>3, <1>4, InitSession, NextSession, PTL DEF Spec, FiledStays
=============================================================================
