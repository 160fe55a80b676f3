--------------------------- MODULE PipelineProofs ---------------------------
(***************************************************************************)
(* Proofs about Pipeline, for every set of sessions and threads and every  *)
(* bound.                                                                  *)
(***************************************************************************)
EXTENDS Pipeline, TLAPS

Saving == {"saveInvoice", "saveLine", "archive", "setStatus"}

\* Whoever is past the entry of a method holds the mutex, and whoever holds the
\* mutex is in a method.
LockInv ==
    \A t \in Threads :
        /\ pc[t] \in Inner => mutex = t
        /\ mutex = t => pc[t] # "idle"

\* What a method may rely on about its locals at each place.
LocalInv ==
    \A t \in Threads :
        /\ pc[t] # "idle" => sess[t] \in Sessions
        /\ pc[t] \in Inner => sess[t] \in live
        /\ pc[t] \in Saving => doc[t] \in Doc
        /\ pc[t] \in Saving \ {"setStatus"} => frames[t] # <<>>

BaseInv == TypeOK /\ LockInv /\ LocalInv

LEMMA FramesForType ==
    ASSUME NEW d \in Doc
    PROVE  /\ FramesFor(d) \in Seq({"gap", "summary", "verified"})
           /\ FramesFor(d) # <<>>
<1>1. <<"gap", "summary">> \in Seq({"gap", "summary", "verified"})
  OBVIOUS
<1>2. <<"verified">> \in Seq({"gap", "summary", "verified"})
  OBVIOUS
<1>3. <<"gap", "summary">> # <<>> /\ <<"verified">> # <<>>
  OBVIOUS
<1>4. CASE d.kind = "gaps"
  BY <1>1, <1>3, <1>4 DEF FramesFor
<1>5. CASE d.kind # "gaps"
  BY <1>2, <1>3, <1>5 DEF FramesFor
<1>6. QED
  BY <1>4, <1>5

LEMMA InitBase == Init => BaseInv
  BY BoundAssumption, NoneAssumption
  DEF Init, BaseInv, TypeOK, LockInv, LocalInv, UploadId, Status, Inner, Entry, Saving

LEMMA CallBase == ASSUME NEW t \in Threads, BaseInv, Call(t) PROVE BaseInv'
  BY NoneAssumption
  DEF Call, BaseInv, TypeOK, LockInv, LocalInv, Goto, memory, tables, history,
      Inner, Entry, Saving

LEMMA AcquireBase == ASSUME NEW t \in Threads, BaseInv, Acquire(t) PROVE BaseInv'
  BY NoneAssumption
  DEF Acquire, BaseInv, TypeOK, LockInv, LocalInv, memory, tables, locals, history,
      Inner, Entry, Saving

\* A step of the thread that holds the mutex keeps the locals of all threads in
\* order when it goes on with good locals or leaves.
LEMMA LeaveLocals ==
    ASSUME NEW t \in Threads, BaseInv, mutex = t, Leave(t), live \subseteq live'
    PROVE  /\ LockInv' /\ LocalInv'
           /\ mutex' \in Threads \cup {None}
           /\ pc' \in [Threads -> {"idle"} \cup Entry \cup Inner]
           /\ sess' \in [Threads -> Sessions \cup {None}]
           /\ doc' \in [Threads -> Doc \cup {None}]
           /\ frames' \in [Threads -> Seq({"gap", "summary", "verified"})]
  BY NoneAssumption
  DEF Leave, BaseInv, TypeOK, LockInv, LocalInv, Inner, Entry, Saving

\* The same when the thread goes on to `place`, keeping session and document.
LEMMA GotoLocals ==
    ASSUME NEW t \in Threads, NEW place \in Inner, BaseInv, mutex = t, Goto(t, place),
           sess[t] \in live', live \subseteq live', UNCHANGED <<mutex, sess>>,
           doc' \in [Threads -> Doc \cup {None}],
           frames' \in [Threads -> Seq({"gap", "summary", "verified"})],
           place \in Saving => doc'[t] \in Doc,
           place \in Saving \ {"setStatus"} => frames'[t] # <<>>
    PROVE  /\ LockInv' /\ LocalInv'
           /\ mutex' \in Threads \cup {None}
           /\ pc' \in [Threads -> {"idle"} \cup Entry \cup Inner]
           /\ sess' \in [Threads -> Sessions \cup {None}]
<1>1. /\ mutex = t /\ mutex' = t /\ sess' = sess
      /\ pc' \in [Threads -> {"idle"} \cup Entry \cup Inner]
      /\ pc'[t] = place /\ place # "idle"
      /\ \A u \in Threads : u # t => pc'[u] = pc[u] /\ pc[u] \notin Inner
  BY DEF Goto, BaseInv, TypeOK, LockInv, Inner
<1>2. LockInv'
  BY <1>1 DEF LockInv
<1>3. ASSUME NEW u \in Threads
      PROVE  /\ pc'[u] # "idle" => sess'[u] \in Sessions
             /\ pc'[u] \in Inner => sess'[u] \in live'
             /\ pc'[u] \in Saving => doc'[u] \in Doc
             /\ pc'[u] \in Saving \ {"setStatus"} => frames'[u] # <<>>
  <2>1. CASE u = t
    <3>1. sess[t] \in Sessions
      BY DEF BaseInv, LockInv, LocalInv
    <3>2. QED
      BY <1>1, <2>1, <3>1
  <2>2. CASE u # t
    BY <1>1, <2>2 DEF BaseInv, LocalInv, Saving, Inner
  <2>3. QED
    BY <2>1, <2>2
<1>4. QED
  BY <1>1, <1>2, <1>3 DEF LocalInv, BaseInv, TypeOK

\* The statements of the repository keep their tables typed.
LEMMA StatementTypes ==
    ASSUME NEW s \in Sessions, TypeOK
    PROVE  /\ CreateSession(s) => dbStatus' \in [Sessions -> Status \cup {"NONE"}]
           /\ \A status \in Status : SetSessionStatus(s, status)
                  => dbStatus' \in [Sessions -> Status \cup {"NONE"}]
           /\ \A what \in {"gap", "summary", "verified", "user", "ack", "filed"}, id \in Nat :
                  AddChatMessage(s, what, id)
                  => /\ dbStatus' \in [Sessions -> Status \cup {"NONE"}]
                     /\ chat' \in [Sessions -> SUBSET Message]
<1>1. CreateSession(s) => dbStatus' \in [Sessions -> Status \cup {"NONE"}]
  BY DEF TypeOK, CreateSession, Status
<1>2. \A status \in Status : SetSessionStatus(s, status)
         => dbStatus' \in [Sessions -> Status \cup {"NONE"}]
  BY DEF TypeOK, SetSessionStatus
<1>3. ASSUME NEW what \in {"gap", "summary", "verified", "user", "ack", "filed"},
             NEW id \in Nat, AddChatMessage(s, what, id)
      PROVE  chat' \in [Sessions -> SUBSET Message]
  <2>1. [what |-> what, id |-> id] \in Message
    BY DEF Message
  <2>2. chat[s] \cup {[what |-> what, id |-> id]} \in SUBSET Message
    BY <2>1 DEF TypeOK
  <2>3. QED
    BY <1>3, <2>2 DEF TypeOK, AddChatMessage
<1>4. QED
  BY <1>1, <1>2, <1>3 DEF AddChatMessage

\* What leaves the tables, the memory and the history typed, a step of the holder
\* that leaves or goes on keeps all of the invariant.
LEMMA HolderStep ==
    ASSUME NEW t \in Threads, BaseInv, mutex = t,
           LockInv', LocalInv',
           mutex' \in Threads \cup {None},
           pc' \in [Threads -> {"idle"} \cup Entry \cup Inner],
           sess' \in [Threads -> Sessions \cup {None}],
           doc' \in [Threads -> Doc \cup {None}],
           frames' \in [Threads -> Seq({"gap", "summary", "verified"})],
           live' \subseteq Sessions,
           memStatus' \in [Sessions -> Status],
           memLedger' \in [Sessions -> Seq(Doc)],
           dbStatus' \in [Sessions -> Status \cup {"NONE"}],
           rows' \in [Sessions -> Seq(Doc)],
           lineRows' \in [UploadId -> Nat],
           chat' \in [Sessions -> SUBSET Message],
           uploads' \in 0 .. MaxUploads,
           acked' \in [Sessions -> SUBSET UploadId],
           filing' \in [Sessions -> Seq(Doc)],
           faults' \in 0 .. MaxFaults,
           crashes' \in 0 .. MaxCrashes
    PROVE  BaseInv'
  BY DEF BaseInv, TypeOK

LEMMA SessionBase == ASSUME NEW t \in Threads, BaseInv, Session(t) PROVE BaseInv'
<1>1. sess[t] \in Sessions
  BY DEF Session, Open, CloseNothing, Close, At, BaseInv, LockInv, LocalInv
<1>2. CASE Open(t)
  <2>1. live \subseteq live' /\ mutex = t /\ Leave(t)
    BY <1>2 DEF Open, At
  <2>2. dbStatus' \in [Sessions -> Status \cup {"NONE"}]
    BY <1>1, <1>2, StatementTypes DEF Open, BaseInv
  <2>3. /\ live' \subseteq Sessions /\ memStatus' \in [Sessions -> Status]
        /\ memLedger' \in [Sessions -> Seq(Doc)]
    BY <1>1, <1>2 DEF Open, BaseInv, TypeOK, Status
  <2>4. QED
    BY <1>2, <2>1, <2>2, <2>3, LeaveLocals, HolderStep
    DEF Open, BaseInv, TypeOK, history
<1>3. CASE CloseNothing(t)
  BY <1>3, LeaveLocals, HolderStep
  DEF CloseNothing, At, BaseInv, TypeOK, memory, tables, history
<1>4. CASE Close(t)
  <2>1. live \subseteq live' /\ mutex = t /\ Leave(t)
    BY <1>4 DEF Close, At
  <2>2. dbStatus' \in [Sessions -> Status \cup {"NONE"}]
    BY <1>1, <1>4, StatementTypes DEF Close, BaseInv, Status
  <2>3. memStatus' \in [Sessions -> Status]
    BY <1>1, <1>4 DEF Close, BaseInv, TypeOK, Status
  <2>4. QED
    BY <1>4, <2>1, <2>2, <2>3, LeaveLocals, HolderStep
    DEF Close, BaseInv, TypeOK, history
<1>5. QED
  BY <1>2, <1>3, <1>4 DEF Session

LEMMA UploadBase == ASSUME NEW t \in Threads, BaseInv, Upload(t) PROVE BaseInv'
<1>1. mutex = t
  BY DEF Upload, Unknown, UploadRefused, UploadAccepted, SaveInvoice, SaveLine,
         ArchiveFrame, UploadDone, At
<1>2. sess[t] \in Sessions
  BY <1>1 DEF BaseInv, LockInv, LocalInv
<1>3. CASE Unknown(t) \/ UploadRefused(t)
  BY <1>1, <1>3, LeaveLocals, HolderStep
  DEF Unknown, UploadRefused, BaseInv, TypeOK, memory, tables, history
<1>4. CASE UploadAccepted(t)
  <2>1. PICK kind \in Kinds, n \in 0 .. MaxLines :
           LET d == [id |-> uploads + 1, kind |-> kind, lines |-> n] IN
           /\ doc' = [doc EXCEPT ![t] = d]
           /\ frames' = [frames EXCEPT ![t] = FramesFor(d)]
           /\ memLedger' = [memLedger EXCEPT ![sess[t]] = Append(@, d)]
    BY <1>4 DEF UploadAccepted
  <2> DEFINE d == [id |-> uploads + 1, kind |-> kind, lines |-> n]
  <2>2. d \in Doc /\ uploads' \in 0 .. MaxUploads
    BY <1>4, BoundAssumption DEF UploadAccepted, Doc, UploadId, BaseInv, TypeOK
  <2>3. /\ doc' \in [Threads -> Doc \cup {None}] /\ doc'[t] \in Doc
        /\ memLedger' \in [Sessions -> Seq(Doc)]
    BY <1>2, <2>1, <2>2 DEF BaseInv, TypeOK
  <2>4. /\ frames' \in [Threads -> Seq({"gap", "summary", "verified"})]
        /\ frames'[t] # <<>>
    BY <2>1, <2>2, FramesForType DEF BaseInv, TypeOK
  <2>5. /\ Goto(t, "saveInvoice") /\ sess[t] \in live'
        /\ UNCHANGED <<live, memStatus, tables, mutex, sess, acked, filing, faults, crashes>>
    BY <1>4 DEF UploadAccepted
  <2>6. "saveInvoice" \in Inner
    BY DEF Inner
  <2>7. /\ LockInv' /\ LocalInv'
        /\ mutex' \in Threads \cup {None}
        /\ pc' \in [Threads -> {"idle"} \cup Entry \cup Inner]
        /\ sess' \in [Threads -> Sessions \cup {None}]
    BY <1>1, <2>3, <2>4, <2>5, <2>6, GotoLocals
  <2>8. QED
    BY <1>1, <2>2, <2>3, <2>4, <2>5, <2>7, HolderStep DEF BaseInv, TypeOK, tables
<1>5. CASE SaveInvoice(t)
  <2>1. doc[t] \in Doc /\ frames[t] # <<>> /\ sess[t] \in live
    BY <1>1, <1>5 DEF SaveInvoice, At, BaseInv, LocalInv, Saving, Inner
  <2>2. dbStatus' \in [Sessions -> Status \cup {"NONE"}]
    BY <1>2, <1>5, StatementTypes DEF SaveInvoice, BaseInv
  <2>3. rows' \in [Sessions -> Seq(Doc)]
    BY <1>2, <1>5, <2>1 DEF SaveInvoice, BaseInv, TypeOK
  <2>4. AfterLines(doc[t], 0) \in Inner \cap Saving
    BY DEF AfterLines, Inner, Saving
  <2>5. Goto(t, AfterLines(doc[t], 0))
    BY <1>5 DEF SaveInvoice
  <2>6. UNCHANGED <<memory, lineRows, chat, mutex, sess, doc, frames, history, faults, crashes>>
    BY <1>5 DEF SaveInvoice
  <2>7. /\ LockInv' /\ LocalInv'
        /\ mutex' \in Threads \cup {None}
        /\ pc' \in [Threads -> {"idle"} \cup Entry \cup Inner]
        /\ sess' \in [Threads -> Sessions \cup {None}]
    BY <1>1, <2>1, <2>4, <2>5, <2>6, GotoLocals DEF memory, BaseInv, TypeOK
  <2>8. QED
    BY <1>1, <2>2, <2>3, <2>6, <2>7, HolderStep DEF BaseInv, TypeOK, memory, history
<1>6. CASE SaveLine(t)
  <2>1. doc[t] \in Doc /\ frames[t] # <<>> /\ sess[t] \in live
    BY <1>1, <1>6 DEF SaveLine, At, BaseInv, LocalInv, Saving, Inner
  <2>2. lineRows' \in [UploadId -> Nat]
    BY <1>6, <2>1 DEF SaveLine, BaseInv, TypeOK, Doc
  <2>3. AfterLines(doc[t], lineRows[doc[t].id] + 1) \in Inner \cap Saving
    BY DEF AfterLines, Inner, Saving
  <2>4. /\ Goto(t, AfterLines(doc[t], lineRows[doc[t].id] + 1))
        /\ UNCHANGED <<memory, dbStatus, rows, chat, mutex, sess, doc, frames, history,
                       faults, crashes>>
    BY <1>6 DEF SaveLine
  <2>5. /\ LockInv' /\ LocalInv'
        /\ mutex' \in Threads \cup {None}
        /\ pc' \in [Threads -> {"idle"} \cup Entry \cup Inner]
        /\ sess' \in [Threads -> Sessions \cup {None}]
    BY <1>1, <2>1, <2>3, <2>4, GotoLocals DEF memory, BaseInv, TypeOK
  <2>6. QED
    BY <1>1, <2>2, <2>4, <2>5, HolderStep DEF BaseInv, TypeOK, memory, history
<1>7. CASE ArchiveFrame(t)
  <2> DEFINE rest == Tail(frames[t])
             place == IF rest = <<>> THEN "setStatus" ELSE "archive"
  <2>1. doc[t] \in Doc /\ frames[t] # <<>> /\ sess[t] \in live
    BY <1>1, <1>7 DEF ArchiveFrame, At, BaseInv, LocalInv, Saving, Inner
  <2>2. /\ Head(frames[t]) \in {"gap", "summary", "verified"}
        /\ rest \in Seq({"gap", "summary", "verified"})
    BY <2>1 DEF BaseInv, TypeOK
  <2>3. doc[t].id \in Nat
    BY <2>1, BoundAssumption DEF Doc, UploadId
  <2>4. /\ dbStatus' \in [Sessions -> Status \cup {"NONE"}]
        /\ chat' \in [Sessions -> SUBSET Message]
    BY <1>2, <1>7, <2>2, <2>3, StatementTypes DEF ArchiveFrame, BaseInv
  <2>5. /\ Goto(t, place) /\ frames' = [frames EXCEPT ![t] = rest]
        /\ UNCHANGED <<memory, rows, lineRows, mutex, sess, doc, history, faults, crashes>>
    BY <1>7 DEF ArchiveFrame
  <2>6. /\ place \in Inner /\ place \in Saving
        /\ place \in Saving \ {"setStatus"} => rest # <<>>
    BY DEF Inner, Saving
  <2>7. /\ frames' \in [Threads -> Seq({"gap", "summary", "verified"})]
        /\ frames'[t] = rest
    BY <2>2, <2>5 DEF BaseInv, TypeOK
  <2>8. /\ LockInv' /\ LocalInv'
        /\ mutex' \in Threads \cup {None}
        /\ pc' \in [Threads -> {"idle"} \cup Entry \cup Inner]
        /\ sess' \in [Threads -> Sessions \cup {None}]
    <3>1. /\ doc' \in [Threads -> Doc \cup {None}] /\ doc'[t] \in Doc
          /\ sess[t] \in live' /\ live \subseteq live' /\ UNCHANGED <<mutex, sess>>
      BY <2>1, <2>5 DEF BaseInv, TypeOK, memory
    <3>2. place \in Saving \ {"setStatus"} => frames'[t] # <<>>
      BY <2>6, <2>7
    <3> HIDE DEF place
    <3>3. QED
      BY <1>1, <2>5, <2>6, <2>7, <3>1, <3>2, GotoLocals
  <2>9. QED
    BY <1>1, <2>4, <2>5, <2>7, <2>8, HolderStep DEF BaseInv, TypeOK, memory, history
<1>8. CASE UploadDone(t)
  <2>1. doc[t] \in Doc
    BY <1>1, <1>8 DEF UploadDone, At, BaseInv, LocalInv, Saving
  <2>2. Assessed(doc[t]) \in Status
    BY DEF Assessed, Status
  <2>3. /\ dbStatus' \in [Sessions -> Status \cup {"NONE"}]
        /\ memStatus' \in [Sessions -> Status]
    BY <1>2, <1>8, <2>2, StatementTypes DEF UploadDone, BaseInv, TypeOK
  <2>4. acked' \in [Sessions -> SUBSET UploadId]
    <3>1. doc[t].id \in UploadId
      BY <2>1 DEF Doc
    <3>2. QED
      BY <1>2, <1>8, <3>1 DEF UploadDone, BaseInv, TypeOK
  <2>5. /\ Leave(t)
        /\ UNCHANGED <<live, memLedger, rows, lineRows, chat, uploads, filing, faults, crashes>>
    BY <1>8 DEF UploadDone
  <2>6. QED
    BY <1>1, <2>3, <2>4, <2>5, LeaveLocals, HolderStep DEF BaseInv, TypeOK
<1>9. QED
  BY <1>3, <1>4, <1>5, <1>6, <1>7, <1>8 DEF Upload

LEMMA ReplyBase == ASSUME NEW t \in Threads, BaseInv, Reply(t) PROVE BaseInv'
<1>1. mutex = t
  BY DEF Reply, ReplyUser, ReplyAck, At
<1>2. sess[t] \in Sessions
  BY <1>1 DEF BaseInv, LockInv, LocalInv
<1>3. CASE ReplyUser(t)
  <2>1. /\ dbStatus' \in [Sessions -> Status \cup {"NONE"}]
        /\ chat' \in [Sessions -> SUBSET Message]
    BY <1>2, <1>3, StatementTypes DEF ReplyUser, BaseInv
  <2>2. /\ Goto(t, "replyAck") /\ sess[t] \in live
        /\ UNCHANGED <<memory, rows, lineRows, mutex, sess, doc, frames, history, faults, crashes>>
    BY <1>3 DEF ReplyUser
  <2>3. "replyAck" \in Inner /\ "replyAck" \notin Saving
    BY DEF Inner, Saving
  <2>4. /\ LockInv' /\ LocalInv'
        /\ mutex' \in Threads \cup {None}
        /\ pc' \in [Threads -> {"idle"} \cup Entry \cup Inner]
        /\ sess' \in [Threads -> Sessions \cup {None}]
    BY <1>1, <2>2, <2>3, GotoLocals DEF memory, BaseInv, TypeOK
  <2>5. QED
    BY <1>1, <2>1, <2>2, <2>4, HolderStep DEF BaseInv, TypeOK, memory, history
<1>4. CASE ReplyAck(t)
  <2>1. /\ dbStatus' \in [Sessions -> Status \cup {"NONE"}]
        /\ chat' \in [Sessions -> SUBSET Message]
    BY <1>2, <1>4, StatementTypes DEF ReplyAck, BaseInv
  <2>2. QED
    BY <1>1, <1>4, <2>1, LeaveLocals, HolderStep
    DEF ReplyAck, BaseInv, TypeOK, memory, history
<1>5. QED
  BY <1>3, <1>4 DEF Reply

\* Both ways of gathering the ledger.
LEMMA TakeLedgerBase ==
    ASSUME NEW t \in Threads, NEW led \in Seq(Doc), BaseInv,
           At(t, "gather"), TakeLedger(t, led), faults' \in 0 .. MaxFaults
    PROVE  BaseInv'
<1>1. mutex = t /\ sess[t] \in Sessions /\ sess[t] \in live
  BY DEF At, BaseInv, LockInv, LocalInv, Inner
<1>2. /\ memLedger' \in [Sessions -> Seq(Doc)]
      /\ UNCHANGED <<live, memStatus, tables, history, crashes>>
  BY <1>1 DEF TakeLedger, BaseInv, TypeOK
<1>3. CASE led = <<>> \/ Overflows(led)
  BY <1>1, <1>2, <1>3, LeaveLocals, HolderStep
  DEF TakeLedger, BaseInv, TypeOK, tables, history
<1>4. CASE ~(led = <<>> \/ Overflows(led))
  <2>1. Goto(t, "fileChat") /\ UNCHANGED <<mutex, sess, doc, frames>>
    BY <1>4 DEF TakeLedger
  <2>2. "fileChat" \in Inner /\ "fileChat" \notin Saving
    BY DEF Inner, Saving
  <2>3. /\ LockInv' /\ LocalInv'
        /\ mutex' \in Threads \cup {None}
        /\ pc' \in [Threads -> {"idle"} \cup Entry \cup Inner]
        /\ sess' \in [Threads -> Sessions \cup {None}]
    BY <1>1, <1>2, <2>1, <2>2, GotoLocals DEF BaseInv, TypeOK
  <2>4. QED
    BY <1>1, <1>2, <2>1, <2>3, HolderStep DEF BaseInv, TypeOK, tables, history
<1>5. QED
  BY <1>3, <1>4

LEMMA FileBase == ASSUME NEW t \in Threads, BaseInv, File(t) PROVE BaseInv'
<1>1. mutex = t
  BY DEF File, FileUnknown, FileAdopt, FileFound, Gather, FileChat, FileDone, At
<1>2. sess[t] \in Sessions
  BY <1>1 DEF BaseInv, LockInv, LocalInv
<1>3. CASE FileUnknown(t)
  BY <1>1, <1>3, LeaveLocals, HolderStep
  DEF FileUnknown, BaseInv, TypeOK, memory, tables, history
<1>4. CASE FileAdopt(t) \/ FileFound(t)
  <2>1. /\ Goto(t, "gather") /\ sess[t] \in live' /\ live \subseteq live'
        /\ UNCHANGED <<tables, mutex, sess, doc, frames, history, faults, crashes>>
    BY <1>4 DEF FileAdopt, FileFound, memory
  <2>2. /\ live' \subseteq Sessions /\ memStatus' \in [Sessions -> Status]
        /\ memLedger' \in [Sessions -> Seq(Doc)]
    <3>1. CASE FileAdopt(t)
      BY <1>2, <3>1 DEF FileAdopt, BaseInv, TypeOK, Status
    <3>2. CASE FileFound(t)
      BY <3>2 DEF FileFound, memory, BaseInv, TypeOK
    <3>3. QED
      BY <1>4, <3>1, <3>2
  <2>3. "gather" \in Inner /\ "gather" \notin Saving
    BY DEF Inner, Saving
  <2>4. /\ LockInv' /\ LocalInv'
        /\ mutex' \in Threads \cup {None}
        /\ pc' \in [Threads -> {"idle"} \cup Entry \cup Inner]
        /\ sess' \in [Threads -> Sessions \cup {None}]
    BY <1>1, <2>1, <2>3, GotoLocals DEF BaseInv, TypeOK
  <2>5. QED
    BY <1>1, <2>1, <2>2, <2>4, HolderStep DEF BaseInv, TypeOK, tables, history
<1>5. CASE Gather(t)
  <2>1. Gathered(sess[t]) \in Seq(Doc)
    BY <1>2 DEF Gathered, Rehydrated, BaseInv, TypeOK
  <2>2. QED
    BY <1>5, <2>1, TakeLedgerBase DEF Gather, BaseInv, TypeOK
<1>6. CASE FileChat(t)
  <2>1. Len(memLedger[sess[t]]) \in Nat
    BY <1>2 DEF BaseInv, TypeOK
  <2>2. /\ dbStatus' \in [Sessions -> Status \cup {"NONE"}]
        /\ chat' \in [Sessions -> SUBSET Message]
    BY <1>2, <1>6, <2>1, StatementTypes DEF FileChat, BaseInv
  <2>3. /\ Goto(t, "fileStatus") /\ sess[t] \in live
        /\ UNCHANGED <<memory, rows, lineRows, mutex, sess, doc, frames, history, faults, crashes>>
    BY <1>1, <1>6 DEF FileChat, At, BaseInv, LocalInv, Inner
  <2>4. "fileStatus" \in Inner /\ "fileStatus" \notin Saving
    BY DEF Inner, Saving
  <2>5. /\ LockInv' /\ LocalInv'
        /\ mutex' \in Threads \cup {None}
        /\ pc' \in [Threads -> {"idle"} \cup Entry \cup Inner]
        /\ sess' \in [Threads -> Sessions \cup {None}]
    BY <1>1, <2>3, <2>4, GotoLocals DEF memory, BaseInv, TypeOK
  <2>6. QED
    BY <1>1, <2>2, <2>3, <2>5, HolderStep DEF BaseInv, TypeOK, memory, history
<1>7. CASE FileDone(t)
  <2>1. "FILED" \in Status
    BY DEF Status
  <2>2. /\ dbStatus' \in [Sessions -> Status \cup {"NONE"}]
        /\ memStatus' \in [Sessions -> Status]
        /\ filing' \in [Sessions -> Seq(Doc)]
    BY <1>2, <1>7, <2>1, StatementTypes DEF FileDone, BaseInv, TypeOK
  <2>3. /\ Leave(t)
        /\ UNCHANGED <<live, memLedger, rows, lineRows, chat, uploads, acked, faults, crashes>>
    BY <1>7 DEF FileDone
  <2>4. QED
    BY <1>1, <2>2, <2>3, LeaveLocals, HolderStep DEF BaseInv, TypeOK
<1>8. QED
  BY <1>3, <1>4, <1>5, <1>6, <1>7 DEF File

LEMMA FaultBase == ASSUME NEW t \in Threads, BaseInv, Fault(t) PROVE BaseInv'
<1>1. mutex = t /\ sess[t] \in Sessions
  BY DEF Fault, StatementFails, RehydrationStops, At, BaseInv, LockInv, LocalInv
<1>2. faults' \in 0 .. MaxFaults
  BY BoundAssumption DEF Fault, StatementFails, RehydrationStops, BaseInv, TypeOK
<1>3. CASE StatementFails(t)
  <2>1. memStatus' \in [Sessions -> Status]
    BY <1>1, <1>3 DEF StatementFails, BaseInv, TypeOK, Status
  <2>2. /\ Leave(t) /\ UNCHANGED <<live, memLedger, tables, history, crashes>>
    BY <1>3 DEF StatementFails
  <2>3. QED
    BY <1>1, <1>2, <2>1, <2>2, LeaveLocals, HolderStep
    DEF BaseInv, TypeOK, tables, history
<1>4. CASE RehydrationStops(t)
  <2>1. PICK n \in 0 .. Len(rows[sess[t]]) - 1 :
           TakeLedger(t, SubSeq(rows[sess[t]], 1, n))
    BY <1>4 DEF RehydrationStops
  <2>2. SubSeq(rows[sess[t]], 1, n) \in Seq(Doc)
    <3>1. rows[sess[t]] \in Seq(Doc) /\ Len(rows[sess[t]]) \in Nat
      BY <1>1 DEF BaseInv, TypeOK
    <3>2. \A i \in 1 .. n : rows[sess[t]][i] \in Doc
      BY <3>1
    <3>3. QED
      BY <3>1, <3>2
  <2>3. QED
    BY <1>2, <1>4, <2>1, <2>2, TakeLedgerBase DEF RehydrationStops
<1>5. QED
  BY <1>3, <1>4 DEF Fault

LEMMA CrashBase == ASSUME BaseInv, Crash PROVE BaseInv'
<1>1. TypeOK'
  BY BoundAssumption DEF Crash, BaseInv, TypeOK, Status, tables, history
<1>2. LockInv' /\ LocalInv'
  BY NoneAssumption DEF Crash, LockInv, LocalInv, Inner, Saving
<1>3. QED
  BY <1>1, <1>2 DEF BaseInv

LEMMA NextBase == BaseInv /\ [Next]_vars => BaseInv'
<1> SUFFICES ASSUME BaseInv, [Next]_vars PROVE BaseInv'
  OBVIOUS
<1>1. ASSUME NEW t \in Threads, Call(t) \/ Acquire(t) \/ Handler(t) PROVE BaseInv'
  BY <1>1, CallBase, AcquireBase, SessionBase, UploadBase, ReplyBase, FileBase, FaultBase
  DEF Handler
<1>2. CASE Crash
  BY <1>2, CrashBase
<1>3. CASE UNCHANGED vars
  BY <1>3 DEF vars, memory, tables, locals, history, BaseInv, TypeOK, LockInv, LocalInv
<1>4. QED
  BY <1>1, <1>2, <1>3 DEF Next

THEOREM BaseInvariant == Spec => []BaseInv
<1>1. Init => BaseInv
  BY InitBase
<1>2. QED
  BY <1>1, NextBase, PTL DEF Spec

\* Every variable keeps its type, whatever fails and crashes.
THEOREM TypeCorrect == Spec => []TypeOK
<1>1. BaseInv => TypeOK
  BY DEF BaseInv
<1>2. QED
  BY <1>1, BaseInvariant, PTL

-----------------------------------------------------------------------------
(* Sessions and their rows *)

\* A session id that is being opened is nobody else's and has no row yet.
OpeningInv ==
    \A t \in Threads : pc[t] = "open" =>
        /\ dbStatus[sess[t]] = "NONE"
        /\ \A u \in Threads : pc[u] = "open" /\ sess[u] = sess[t] => u = t

SessionInv == BaseInv /\ ReferencesHold /\ OpeningInv

\* For a session in memory createSession changes nothing, so an archived message
\* only adds to the transcript.
LEMMA CreateIsNoOp ==
    ASSUME SessionInv, NEW s \in live, CreateSession(s)
    PROVE  dbStatus' = dbStatus
  BY DEF SessionInv, BaseInv, TypeOK, ReferencesHold, CreateSession

\* Steps that create no row of tax_sessions and open no session.
LEMMA SessionKept ==
    ASSUME SessionInv,
           \A s \in Sessions : dbStatus'[s] = "NONE" <=> dbStatus[s] = "NONE",
           \A s \in Sessions : s \in live' \/ rows'[s] # <<>> \/ chat'[s] # {}
                                  => dbStatus[s] # "NONE",
           \A t \in Threads : pc'[t] = "open" => pc[t] = "open" /\ sess'[t] = sess[t]
    PROVE  ReferencesHold' /\ OpeningInv'
<1>1. ReferencesHold'
  BY DEF ReferencesHold
<1>2. \A t \in Threads : pc[t] = "open" => sess[t] \in Sessions
  BY DEF SessionInv, BaseInv, LocalInv
<1>3. OpeningInv'
  BY <1>2 DEF SessionInv, OpeningInv
<1>4. QED
  BY <1>1, <1>3

\* The holder of the mutex at one of the places where its session is in memory.
LEMMA HolderIsLive ==
    ASSUME NEW t \in Threads, BaseInv, mutex = t
    PROVE  /\ sess[t] \in Sessions
           /\ pc[t] \in Inner => sess[t] \in live
  BY DEF BaseInv, LockInv, LocalInv

\* What leaving or going on does to the threads that open a session.
LEMMA NoNewOpening ==
    ASSUME NEW t \in Threads, BaseInv,
           Leave(t) \/ (sess' = sess /\ \E place \in Inner : Goto(t, place))
    PROVE  \A u \in Threads : pc'[u] = "open" => pc[u] = "open" /\ sess'[u] = sess[u]
  BY DEF BaseInv, TypeOK, Leave, Goto, Inner

LEMMA OpenSession ==
    ASSUME NEW t \in Threads, SessionInv, Open(t)
    PROVE  ReferencesHold' /\ OpeningInv'
<1> DEFINE s == sess[t]
<1>1. /\ s \in Sessions /\ pc[t] = "open" /\ dbStatus[s] = "NONE"
      /\ dbStatus' = [dbStatus EXCEPT ![s] = "ACTIVE"]
  BY HolderIsLive DEF Open, At, SessionInv, OpeningInv, CreateSession
<1>2. /\ live' = live \cup {s} /\ UNCHANGED <<rows, chat>> /\ Leave(t)
  BY DEF Open
<1>3. ReferencesHold'
  BY <1>1, <1>2 DEF SessionInv, BaseInv, TypeOK, ReferencesHold
<1>4. \A u \in Threads : pc'[u] = "open"
         => u # t /\ pc[u] = "open" /\ sess'[u] = sess[u] /\ sess[u] \in Sessions
  BY <1>2 DEF SessionInv, BaseInv, TypeOK, LocalInv, Leave
<1>5. \A u \in Threads : pc'[u] = "open" => sess[u] # s
  BY <1>1, <1>4 DEF SessionInv, OpeningInv
<1>6. OpeningInv'
  BY <1>1, <1>4, <1>5 DEF SessionInv, BaseInv, TypeOK, OpeningInv
<1>7. QED
  BY <1>3, <1>6

LEMMA CallSession ==
    ASSUME NEW t \in Threads, SessionInv, Call(t)
    PROVE  ReferencesHold' /\ OpeningInv'
<1>1. PICK entry \in Entry, s \in Sessions :
         /\ entry = "open" => Fresh(s)
         /\ Goto(t, entry)
         /\ sess' = [sess EXCEPT ![t] = s]
  BY DEF Call
<1>2. UNCHANGED <<memory, tables>> /\ pc[t] = "idle"
  BY DEF Call
<1>3. ReferencesHold'
  BY <1>2 DEF SessionInv, ReferencesHold, memory, tables
<1>4. pc'[t] = entry /\ sess'[t] = s
  BY <1>1 DEF SessionInv, BaseInv, TypeOK, Goto
<1>5. \A u \in Threads : u # t => pc'[u] = pc[u] /\ sess'[u] = sess[u]
  BY <1>1 DEF SessionInv, BaseInv, TypeOK, Goto
<1>6. OpeningInv'
  BY <1>1, <1>2, <1>4, <1>5 DEF SessionInv, OpeningInv, Fresh, tables
<1>7. QED
  BY <1>3, <1>6

LEMMA UploadSession ==
    ASSUME NEW t \in Threads, SessionInv, Upload(t)
    PROVE  ReferencesHold' /\ OpeningInv'
<1>1. mutex = t /\ sess[t] \in Sessions /\ (pc[t] \in Inner => sess[t] \in live)
  BY HolderIsLive
  DEF SessionInv, Upload, Unknown, UploadRefused, UploadAccepted, SaveInvoice, SaveLine,
      ArchiveFrame, UploadDone, At
<1>2. \A s \in live : dbStatus[s] # "NONE"
  BY DEF SessionInv, BaseInv, TypeOK, ReferencesHold
<1>3. Leave(t) \/ (sess' = sess /\ \E place \in Inner : Goto(t, place))
  BY DEF Upload, Unknown, UploadRefused, UploadAccepted, SaveInvoice, SaveLine,
         ArchiveFrame, UploadDone, AfterLines, Inner
<1>4. CASE Unknown(t) \/ UploadRefused(t) \/ UploadAccepted(t) \/ SaveLine(t)
  <2>1. UNCHANGED <<live, dbStatus, rows, chat>>
    BY <1>4 DEF Unknown, UploadRefused, UploadAccepted, SaveLine, memory, tables
  <2>2. QED
    BY <1>3, <2>1, NoNewOpening, SessionKept DEF SessionInv, ReferencesHold
<1>5. CASE SaveInvoice(t)
  <2>1. sess[t] \in live
    BY <1>1, <1>5 DEF SaveInvoice, At, Inner
  <2>2. UNCHANGED <<live, dbStatus, chat>>
    BY <1>5, <2>1, CreateIsNoOp DEF SaveInvoice, memory
  <2>3. \A s \in Sessions : s # sess[t] => rows'[s] = rows[s]
    BY <1>5 DEF SaveInvoice, SessionInv, BaseInv, TypeOK
  <2>4. QED
    BY <1>2, <1>3, <2>1, <2>2, <2>3, NoNewOpening, SessionKept DEF SessionInv, ReferencesHold
<1>6. CASE ArchiveFrame(t)
  <2>1. sess[t] \in live
    BY <1>1, <1>6 DEF ArchiveFrame, At, Inner
  <2>2. UNCHANGED <<live, dbStatus, rows>>
    BY <1>6, <2>1, CreateIsNoOp DEF ArchiveFrame, AddChatMessage, memory
  <2>3. \A s \in Sessions : s # sess[t] => chat'[s] = chat[s]
    BY <1>6 DEF ArchiveFrame, AddChatMessage, SessionInv, BaseInv, TypeOK
  <2>4. QED
    BY <1>2, <1>3, <2>1, <2>2, <2>3, NoNewOpening, SessionKept DEF SessionInv, ReferencesHold
<1>7. CASE UploadDone(t)
  <2>1. Assessed(doc[t]) # "NONE"
    BY DEF Assessed
  <2>2. \A s \in Sessions : dbStatus'[s] = "NONE" <=> dbStatus[s] = "NONE"
    BY <1>7, <2>1 DEF UploadDone, SetSessionStatus, SessionInv, BaseInv, TypeOK
  <2>3. UNCHANGED <<live, rows, chat>>
    BY <1>7 DEF UploadDone
  <2>4. QED
    BY <1>3, <2>2, <2>3, NoNewOpening, SessionKept DEF SessionInv, ReferencesHold
<1>8. QED
  BY <1>4, <1>5, <1>6, <1>7 DEF Upload

LEMMA CloseSession ==
    ASSUME NEW t \in Threads, SessionInv, CloseNothing(t) \/ Close(t)
    PROVE  ReferencesHold' /\ OpeningInv'
<1>1. Leave(t) /\ UNCHANGED <<live, rows, chat>>
  BY DEF CloseNothing, Close, memory, tables
<1>2. \A s \in Sessions : dbStatus'[s] = "NONE" <=> dbStatus[s] = "NONE"
  BY DEF CloseNothing, Close, SetSessionStatus, SessionInv, BaseInv, TypeOK, tables
<1>3. QED
  BY <1>1, <1>2, NoNewOpening, SessionKept DEF SessionInv, ReferencesHold

LEMMA ReplySession ==
    ASSUME NEW t \in Threads, SessionInv, Reply(t)
    PROVE  ReferencesHold' /\ OpeningInv'
<1>1. sess[t] \in live
  BY HolderIsLive DEF SessionInv, Reply, ReplyUser, ReplyAck, At, Inner
<1>2. PICK what \in {"user", "ack"} : AddChatMessage(sess[t], what, 0)
  BY DEF Reply, ReplyUser, ReplyAck
<1>3. UNCHANGED <<live, dbStatus, rows>>
  BY <1>1, <1>2, CreateIsNoOp DEF Reply, ReplyUser, ReplyAck, AddChatMessage, memory
<1>4. \A s \in Sessions : s # sess[t] => chat'[s] = chat[s]
  BY <1>2 DEF AddChatMessage, SessionInv, BaseInv, TypeOK
<1>5. Leave(t) \/ (sess' = sess /\ \E place \in Inner : Goto(t, place))
  BY DEF Reply, ReplyUser, ReplyAck, Inner
<1>6. dbStatus[sess[t]] # "NONE"
  BY <1>1 DEF SessionInv, BaseInv, TypeOK, ReferencesHold
<1>7. QED
  BY <1>3, <1>4, <1>5, <1>6, NoNewOpening, SessionKept DEF SessionInv, ReferencesHold

LEMMA FileSession ==
    ASSUME NEW t \in Threads, SessionInv, File(t)
    PROVE  ReferencesHold' /\ OpeningInv'
<1>1. mutex = t /\ sess[t] \in Sessions /\ (pc[t] \in Inner => sess[t] \in live)
  BY HolderIsLive
  DEF SessionInv, File, FileUnknown, FileAdopt, FileFound, Gather, FileChat, FileDone, At
<1>2. Leave(t) \/ (sess' = sess /\ \E place \in Inner : Goto(t, place))
  BY DEF File, FileUnknown, FileAdopt, FileFound, Gather, TakeLedger, FileChat, FileDone, Inner
<1>3. CASE FileUnknown(t) \/ FileFound(t) \/ Gather(t)
  <2>1. UNCHANGED <<live, dbStatus, rows, chat>>
    BY <1>3 DEF FileUnknown, FileFound, Gather, TakeLedger, memory, tables
  <2>2. QED
    BY <1>2, <2>1, NoNewOpening, SessionKept DEF SessionInv, ReferencesHold
<1>4. CASE FileAdopt(t)
  <2>1. /\ live' = live \cup {sess[t]} /\ dbStatus[sess[t]] # "NONE"
        /\ UNCHANGED <<dbStatus, rows, chat>>
    BY <1>4 DEF FileAdopt, tables
  <2>2. QED
    BY <1>2, <2>1, NoNewOpening, SessionKept DEF SessionInv, ReferencesHold
<1>5. CASE FileChat(t)
  <2>1. sess[t] \in live
    BY <1>1, <1>5 DEF FileChat, At, Inner
  <2>2. UNCHANGED <<live, dbStatus, rows>>
    BY <1>5, <2>1, CreateIsNoOp DEF FileChat, AddChatMessage, memory
  <2>3. \A s \in Sessions : s # sess[t] => chat'[s] = chat[s]
    BY <1>5 DEF FileChat, AddChatMessage, SessionInv, BaseInv, TypeOK
  <2>4. dbStatus[sess[t]] # "NONE"
    BY <2>1 DEF SessionInv, BaseInv, TypeOK, ReferencesHold
  <2>5. QED
    BY <1>2, <2>2, <2>3, <2>4, NoNewOpening, SessionKept DEF SessionInv, ReferencesHold
<1>6. CASE FileDone(t)
  <2>1. \A s \in Sessions : dbStatus'[s] = "NONE" <=> dbStatus[s] = "NONE"
    BY <1>6 DEF FileDone, SetSessionStatus, SessionInv, BaseInv, TypeOK
  <2>2. UNCHANGED <<live, rows, chat>>
    BY <1>6 DEF FileDone
  <2>3. QED
    BY <1>2, <2>1, <2>2, NoNewOpening, SessionKept DEF SessionInv, ReferencesHold
<1>7. QED
  BY <1>3, <1>4, <1>5, <1>6 DEF File

LEMMA FaultSession ==
    ASSUME NEW t \in Threads, SessionInv, Fault(t)
    PROVE  ReferencesHold' /\ OpeningInv'
<1>1. UNCHANGED <<live, dbStatus, rows, chat>>
  BY DEF Fault, StatementFails, RehydrationStops, TakeLedger, tables
<1>2. Leave(t) \/ (sess' = sess /\ \E place \in Inner : Goto(t, place))
  BY DEF Fault, StatementFails, RehydrationStops, TakeLedger, Inner
<1>3. QED
  BY <1>1, <1>2, NoNewOpening, SessionKept DEF SessionInv, ReferencesHold

LEMMA NextSession == SessionInv /\ [Next]_vars => SessionInv'
<1> SUFFICES ASSUME SessionInv, [Next]_vars PROVE SessionInv'
  OBVIOUS
<1>1. BaseInv'
  BY NextBase DEF SessionInv
<1>2. ASSUME NEW t \in Threads, Call(t) \/ Handler(t)
      PROVE  ReferencesHold' /\ OpeningInv'
  BY <1>2, CallSession, OpenSession, CloseSession, UploadSession, ReplySession, FileSession,
     FaultSession
  DEF Handler, Session
<1>3. ASSUME NEW t \in Threads, Acquire(t)
      PROVE  ReferencesHold' /\ OpeningInv'
  BY <1>3 DEF Acquire, SessionInv, ReferencesHold, OpeningInv, memory, tables, locals
<1>4. CASE Crash
  <2>1. ReferencesHold'
    BY <1>4 DEF Crash, SessionInv, ReferencesHold, tables
  <2>2. OpeningInv'
    BY <1>4 DEF Crash, OpeningInv
  <2>3. QED
    BY <1>1, <2>1, <2>2 DEF SessionInv
<1>5. CASE UNCHANGED vars
  <2>1. UNCHANGED <<live, dbStatus, rows, chat, pc, sess>>
    BY <1>5 DEF vars, memory, tables, locals
  <2>2. ReferencesHold' /\ OpeningInv'
    BY <2>1 DEF SessionInv, ReferencesHold, OpeningInv
  <2>3. QED
    BY <1>1, <2>2 DEF SessionInv
<1>6. QED
  BY <1>1, <1>2, <1>3, <1>4, <1>5 DEF Next, SessionInv

LEMMA InitSession == Init => SessionInv
  BY InitBase DEF Init, SessionInv, ReferencesHold, OpeningInv

THEOREM SessionInvariant == Spec => []SessionInv
  BY InitSession, NextSession, PTL DEF Spec

\* Whatever fails and crashes, nothing in memory or in a table refers to a session
\* that has no row in tax_sessions.
THEOREM ReferencesAlwaysHold == Spec => []ReferencesHold
<1>1. SessionInv => ReferencesHold
  BY DEF SessionInv
<1>2. QED
  BY <1>1, SessionInvariant, PTL

-----------------------------------------------------------------------------
(* The two ledgers *)

\* t has them apart: between the append in memory and the INSERT, and in an
\* adopted session that is not rehydrated yet
Apart(t) == pc[t] \in {"saveInvoice", "gather"}

LedgerInv ==
    /\ \A s \in live :
          (\A t \in Threads : sess[t] = s => ~Apart(t)) => memLedger[s] = rows[s]
    /\ \A t \in Threads :
          /\ pc[t] = "saveInvoice" => memLedger[sess[t]] = Append(rows[sess[t]], doc[t])
          /\ pc[t] = "gather" => memLedger[sess[t]] \in {<<>>, rows[sess[t]]}

AgreeInv == SessionInv /\ LedgerInv

\* Where nobody else is inside a method, only the holder can be apart.
LEMMA OnlyHolderApart ==
    ASSUME NEW t \in Threads, AgreeInv, mutex = t, Leave(t) \/ \E place : Goto(t, place)
    PROVE  \A u \in Threads : u # t => ~Apart(u) /\ ~Apart(u)'
<1>1. \A u \in Threads : u # t => pc'[u] = pc[u]
  BY DEF Leave, Goto, AgreeInv, SessionInv, BaseInv, TypeOK
<1>2. \A u \in Threads : u # t => pc[u] \notin Inner
  BY DEF AgreeInv, SessionInv, BaseInv, LockInv
<1>3. QED
  BY <1>1, <1>2 DEF Apart, Inner

\* Steps that leave both ledgers alone and bring nobody to or from a place where
\* they are apart.
LEMMA LedgersUntouched ==
    ASSUME AgreeInv, UNCHANGED <<live, memLedger, rows>>,
           \A u \in Threads : ~Apart(u)' /\ ~Apart(u)
    PROVE  LedgerInv'
  BY DEF AgreeInv, LedgerInv, Apart

LEMMA HolderLedger ==
    ASSUME NEW t \in Threads, AgreeInv, mutex = t, ~Apart(t),
           Leave(t) \/ \E place : Goto(t, place) /\ place \notin {"saveInvoice", "gather"},
           UNCHANGED <<live, memLedger, rows>>
    PROVE  LedgerInv'
<1>1. ~Apart(t)'
  BY DEF Apart, Leave, Goto, AgreeInv, SessionInv, BaseInv, TypeOK
<1>2. QED
  BY <1>1, OnlyHolderApart, LedgersUntouched

LEMMA OpenLedger == ASSUME NEW t \in Threads, AgreeInv, Open(t) PROVE LedgerInv'
<1>1. /\ mutex = t /\ pc[t] = "open" /\ sess[t] \in Sessions
      /\ dbStatus[sess[t]] = "NONE" /\ ~Apart(t)
  BY HolderIsLive DEF Open, At, AgreeInv, SessionInv, OpeningInv, Apart
<1>2. rows[sess[t]] = <<>> /\ sess[t] \notin live
  BY <1>1 DEF AgreeInv, SessionInv, ReferencesHold
<1>3. /\ live' = live \cup {sess[t]} /\ rows' = rows /\ Leave(t)
      /\ memLedger' = [memLedger EXCEPT ![sess[t]] = <<>>]
  BY DEF Open
<1>4. \A u \in Threads : ~Apart(u) /\ ~Apart(u)'
  BY <1>1, <1>3, OnlyHolderApart DEF Apart, Leave, AgreeInv, SessionInv, BaseInv, TypeOK
<1>5. \A s \in live' : memLedger'[s] = rows'[s]
  BY <1>1, <1>2, <1>3, <1>4 DEF AgreeInv, SessionInv, BaseInv, TypeOK, LedgerInv
<1>6. QED
  BY <1>4, <1>5 DEF LedgerInv, Apart

LEMMA UploadLedger == ASSUME NEW t \in Threads, AgreeInv, Upload(t) PROVE LedgerInv'
<1>1. mutex = t /\ sess[t] \in Sessions
  BY HolderIsLive
  DEF AgreeInv, SessionInv, Upload, Unknown, UploadRefused, UploadAccepted, SaveInvoice,
      SaveLine, ArchiveFrame, UploadDone, At
<1>2. CASE Unknown(t) \/ UploadRefused(t) \/ SaveLine(t) \/ ArchiveFrame(t) \/ UploadDone(t)
  <2>1. ~Apart(t) /\ UNCHANGED <<live, memLedger, rows>>
    BY <1>2 DEF Unknown, UploadRefused, SaveLine, ArchiveFrame, UploadDone, At, Apart,
                memory, tables
  <2>2. Leave(t) \/ \E place : Goto(t, place) /\ place \notin {"saveInvoice", "gather"}
    BY <1>2 DEF Unknown, UploadRefused, SaveLine, ArchiveFrame, UploadDone, AfterLines
  <2>3. QED
    BY <1>1, <2>1, <2>2, HolderLedger
<1>3. CASE UploadAccepted(t)
  <2>1. PICK d : /\ doc' = [doc EXCEPT ![t] = d]
                 /\ memLedger' = [memLedger EXCEPT ![sess[t]] = Append(@, d)]
    BY <1>3 DEF UploadAccepted
  <2>2. /\ ~Apart(t) /\ sess[t] \in live /\ Goto(t, "saveInvoice")
        /\ UNCHANGED <<live, rows, sess>>
    BY <1>3 DEF UploadAccepted, At, Apart, tables
  <2>3. \A u \in Threads : ~Apart(u)
    BY <1>1, <2>2, OnlyHolderApart
  <2>4. memLedger[sess[t]] = rows[sess[t]]
    BY <2>2, <2>3 DEF AgreeInv, LedgerInv
  <2>5. pc'[t] = "saveInvoice" /\ doc'[t] = d /\ Apart(t)'
    BY <2>1, <2>2 DEF Goto, Apart, AgreeInv, SessionInv, BaseInv, TypeOK
  <2>6. memLedger'[sess'[t]] = Append(rows'[sess'[t]], doc'[t])
    BY <1>1, <2>1, <2>2, <2>4, <2>5 DEF AgreeInv, SessionInv, BaseInv, TypeOK
  <2>7. \A s \in live : s # sess[t] => memLedger'[s] = rows'[s]
    BY <1>1, <2>1, <2>2, <2>3 DEF AgreeInv, SessionInv, BaseInv, TypeOK, LedgerInv
  <2>8. \A u \in Threads : u # t => ~Apart(u)'
    BY <1>1, <2>2, OnlyHolderApart
  <2>9. QED
    BY <2>2, <2>5, <2>6, <2>7, <2>8 DEF LedgerInv, Apart
<1>4. CASE SaveInvoice(t)
  <2>1. /\ pc[t] = "saveInvoice" /\ sess' = sess /\ UNCHANGED <<live, memLedger>>
        /\ rows' = [rows EXCEPT ![sess[t]] = Append(@, doc[t])]
        /\ Goto(t, AfterLines(doc[t], 0))
    BY <1>4 DEF SaveInvoice, At, memory
  <2>2. \A u \in Threads : ~Apart(u)'
    BY <1>1, <2>1, OnlyHolderApart DEF Goto, Apart, AfterLines, AgreeInv, SessionInv, BaseInv, TypeOK
  <2>3. memLedger'[sess[t]] = rows'[sess[t]]
    BY <1>1, <2>1 DEF AgreeInv, SessionInv, BaseInv, TypeOK, LedgerInv
  <2>4. \A u \in Threads : u # t => ~Apart(u)
    BY <1>1, <2>1, OnlyHolderApart
  <2>5. \A s \in live : s # sess[t] => memLedger'[s] = rows'[s]
    BY <1>1, <2>1, <2>4 DEF AgreeInv, SessionInv, BaseInv, TypeOK, LedgerInv
  <2>6. QED
    BY <2>1, <2>2, <2>3, <2>5 DEF LedgerInv, Apart
<1>5. QED
  BY <1>2, <1>3, <1>4 DEF Upload

LEMMA FileLedger == ASSUME NEW t \in Threads, AgreeInv, File(t) PROVE LedgerInv'
<1>1. mutex = t /\ sess[t] \in Sessions
  BY HolderIsLive
  DEF AgreeInv, SessionInv, File, FileUnknown, FileAdopt, FileFound, Gather, FileChat,
      FileDone, At
<1>2. CASE FileUnknown(t) \/ FileChat(t) \/ FileDone(t)
  <2>1. ~Apart(t) /\ UNCHANGED <<live, memLedger, rows>>
    BY <1>2 DEF FileUnknown, FileChat, FileDone, At, Apart, memory, tables
  <2>2. Leave(t) \/ \E place : Goto(t, place) /\ place \notin {"saveInvoice", "gather"}
    BY <1>2 DEF FileUnknown, FileChat, FileDone
  <2>3. QED
    BY <1>1, <2>1, <2>2, HolderLedger
<1>3. CASE FileAdopt(t) \/ FileFound(t)
  <2>1. ~Apart(t) /\ Goto(t, "gather") /\ UNCHANGED <<rows, sess>>
    BY <1>3 DEF FileAdopt, FileFound, At, Apart, tables
  <2>2. \A u \in Threads : ~Apart(u) /\ (u # t => ~Apart(u)')
    BY <1>1, <2>1, OnlyHolderApart
  <2>3. pc'[t] = "gather" /\ Apart(t)'
    BY <2>1 DEF Goto, Apart, AgreeInv, SessionInv, BaseInv, TypeOK
  <2>4. memLedger'[sess[t]] \in {<<>>, rows[sess[t]]}
    <3>1. CASE FileAdopt(t)
      BY <1>1, <3>1 DEF FileAdopt, AgreeInv, SessionInv, BaseInv, TypeOK
    <3>2. CASE FileFound(t)
      BY <2>2, <3>2 DEF FileFound, AgreeInv, LedgerInv, memory
    <3>3. QED
      BY <1>3, <3>1, <3>2
  <2>5. \A s \in live' : s # sess[t] => memLedger'[s] = rows[s]
    <3>1. CASE FileAdopt(t)
      BY <1>1, <2>2, <3>1 DEF FileAdopt, AgreeInv, SessionInv, BaseInv, TypeOK, LedgerInv
    <3>2. CASE FileFound(t)
      BY <2>2, <3>2 DEF FileFound, AgreeInv, LedgerInv, memory
    <3>3. QED
      BY <1>3, <3>1, <3>2
  <2>6. QED
    BY <2>1, <2>2, <2>3, <2>4, <2>5 DEF LedgerInv, Apart
<1>4. CASE Gather(t)
  <2>1. /\ pc[t] = "gather" /\ UNCHANGED <<live, rows>>
        /\ memLedger' = [memLedger EXCEPT ![sess[t]] = Gathered(sess[t])]
    BY <1>4 DEF Gather, At, TakeLedger, tables
  <2>2. Gathered(sess[t]) = rows[sess[t]]
    BY <2>1 DEF Gathered, Rehydrated, AgreeInv, LedgerInv
  <2>3. Leave(t) \/ Goto(t, "fileChat")
    BY <1>4 DEF Gather, TakeLedger
  <2>4. \A u \in Threads : ~Apart(u)' /\ (u # t => ~Apart(u))
    BY <1>1, <2>3, OnlyHolderApart DEF Leave, Goto, Apart, AgreeInv, SessionInv, BaseInv, TypeOK
  <2>5. \A s \in live : memLedger'[s] = rows[s]
    BY <1>1, <2>1, <2>2, <2>4 DEF AgreeInv, SessionInv, BaseInv, TypeOK, LedgerInv
  <2>6. QED
    BY <2>1, <2>4, <2>5 DEF LedgerInv, Apart
<1>5. QED
  BY <1>2, <1>3, <1>4 DEF File

LEMMA CallLedger ==
    ASSUME NEW t \in Threads, AgreeInv, Call(t) \/ Acquire(t)
    PROVE  LedgerInv'
<1>1. UNCHANGED <<live, memLedger, rows, doc>>
  BY DEF Call, Acquire, memory, tables, locals
<1>2. \A u \in Threads : u # t => pc'[u] = pc[u] /\ sess'[u] = sess[u]
  BY DEF Call, Acquire, Goto, locals, AgreeInv, SessionInv, BaseInv, TypeOK
<1>3. ~Apart(t) /\ ~Apart(t)'
  BY DEF Call, Acquire, Goto, locals, Apart, Entry, AgreeInv, SessionInv, BaseInv, TypeOK
<1>4. QED
  BY <1>1, <1>2, <1>3 DEF AgreeInv, LedgerInv, Apart

\* Where no statement may fail, none does.
LEMMA NoFault ==
    ASSUME MaxFaults = 0, TypeOK, NEW t \in Threads
    PROVE  ~Fault(t)
  BY DEF Fault, StatementFails, RehydrationStops, TypeOK

LEMMA NextAgree ==
    ASSUME AgreeInv, [Next]_vars, \A t \in Threads : ~Fault(t)
    PROVE  AgreeInv'
<1>1. SessionInv'
  BY NextSession DEF AgreeInv
<1>2. ASSUME NEW t \in Threads, Call(t) \/ Acquire(t) \/ Handler(t)
      PROVE  LedgerInv'
  <2>1. ~Fault(t)
    OBVIOUS
  <2>2. CASE CloseNothing(t) \/ Close(t) \/ Reply(t)
    <3>1. mutex = t /\ ~Apart(t) /\ UNCHANGED <<live, memLedger, rows>>
      BY <2>2 DEF CloseNothing, Close, Reply, ReplyUser, ReplyAck, At, Apart, memory, tables
    <3>2. Leave(t) \/ \E place : Goto(t, place) /\ place \notin {"saveInvoice", "gather"}
      BY <2>2 DEF CloseNothing, Close, Reply, ReplyUser, ReplyAck
    <3>3. QED
      BY <3>1, <3>2, HolderLedger
  <2>3. QED
    BY <1>2, <2>1, <2>2, CallLedger, OpenLedger, UploadLedger, FileLedger
    DEF Handler, Session
<1>3. CASE Crash
  <2>1. live' = {} /\ \A t \in Threads : pc'[t] = "idle"
    BY <1>3 DEF Crash
  <2>2. LedgerInv'
    BY <2>1 DEF LedgerInv
  <2>3. QED
    BY <1>1, <2>2 DEF AgreeInv
<1>4. CASE UNCHANGED vars
  <2>1. UNCHANGED <<live, memLedger, rows, pc, sess, doc>>
    BY <1>4 DEF vars, memory, tables, locals
  <2>2. LedgerInv'
    BY <2>1 DEF AgreeInv, LedgerInv, Apart
  <2>3. QED
    BY <1>1, <2>2 DEF AgreeInv
<1>5. QED
  BY <1>1, <1>2, <1>3, <1>4 DEF Next, AgreeInv

LEMMA InitAgree == Init => AgreeInv
  BY InitSession DEF Init, AgreeInv, LedgerInv

\* As long as no statement fails, whatever crashes: when no method is running the
\* ledger in memory is the stored one for every live session.
THEOREM LedgersAlwaysAgree ==
    ASSUME MaxFaults = 0
    PROVE  Spec => []LedgersAgree
<1>1. AgreeInv => LedgersAgree
  BY NoneAssumption
  DEF AgreeInv, LedgerInv, LedgersAgree, SessionInv, BaseInv, LockInv, Apart, Inner
<1>2. AgreeInv /\ [Next]_vars => AgreeInv'
  BY NoFault, NextAgree DEF AgreeInv, SessionInv, BaseInv
<1>3. QED
  BY <1>1, <1>2, InitAgree, PTL DEF Spec

\* As long as no statement fails, every filing holds exactly the invoices stored
\* for its session.
THEOREM FilingsAreComplete ==
    ASSUME MaxFaults = 0
    PROVE  Spec => FilingIsComplete
<1>1. ASSUME AgreeInv, [Next]_vars, NEW s \in Sessions, filing'[s] # filing[s]
      PROVE  filing'[s] = rows'[s]
  <2>1. PICK t \in Threads : FileDone(t)
    BY <1>1
    DEF Next, vars, history, Call, Acquire, Handler, Session, Open, CloseNothing, Close,
        Upload, Unknown, UploadRefused, UploadAccepted, SaveInvoice, SaveLine, ArchiveFrame,
        UploadDone, Reply, ReplyUser, ReplyAck, File, FileUnknown, FileAdopt, FileFound,
        Gather, TakeLedger, FileChat, Fault, StatementFails, RehydrationStops, Crash
  <2>2. /\ mutex = t /\ pc[t] = "fileStatus" /\ rows' = rows
        /\ filing' = [filing EXCEPT ![sess[t]] = memLedger[sess[t]]]
    BY <2>1 DEF FileDone, At
  <2>3. sess[t] \in live /\ sess[t] \in Sessions
    BY <1>1, <2>2, HolderIsLive DEF AgreeInv, SessionInv, Inner
  <2>4. s = sess[t] /\ filing'[s] = memLedger[s]
    BY <1>1, <2>2, <2>3 DEF AgreeInv, SessionInv, BaseInv, TypeOK
  <2>5. \A u \in Threads : ~Apart(u)
    BY <1>1, <2>2 DEF AgreeInv, SessionInv, BaseInv, LockInv, Apart, Inner
  <2>6. QED
    BY <1>1, <2>2, <2>3, <2>4, <2>5 DEF AgreeInv, LedgerInv
<1>2. AgreeInv /\ [Next]_vars
      => [\A s \in Sessions : filing'[s] # filing[s] => filing'[s] = rows'[s]]_vars
  BY <1>1
<1>3. AgreeInv /\ [Next]_vars => AgreeInv'
  BY NoFault, NextAgree DEF AgreeInv, SessionInv, BaseInv
<1>4. QED
  BY <1>2, <1>3, InitAgree, PTL DEF Spec, FilingIsComplete

=============================================================================
