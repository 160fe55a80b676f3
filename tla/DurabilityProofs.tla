-------------------------- MODULE DurabilityProofs --------------------------
(***************************************************************************)
(* What survives failing statements and crashes, proved for any number of  *)
(* both: the order of filings, acknowledged uploads, and the explanation   *)
(* of the stored status.                                                   *)
(***************************************************************************)
EXTENDS PipelineProofs

-----------------------------------------------------------------------------
(* Order *)

Counted(led) == \A i \in DOMAIN led : led[i].id <= uploads

\* Every ledger is in the order of acceptance, and an invoice on its way to the
\* table is newer than those in it.
OrderInv ==
    /\ \A s \in Sessions : /\ InOrder(memLedger[s]) /\ Counted(memLedger[s])
                           /\ InOrder(rows[s])      /\ Counted(rows[s])
                           /\ InOrder(filing[s])
    /\ \A t \in Threads : pc[t] = "saveInvoice" =>
          /\ doc[t].id <= uploads
          /\ \A i \in DOMAIN rows[sess[t]] : rows[sess[t]][i].id < doc[t].id

LEMMA EmptyInOrder == InOrder(<<>>) /\ Counted(<<>>)
  BY DEF InOrder, Counted

LEMMA IdsAreNumbers ==
    ASSUME NEW led \in Seq(Doc)
    PROVE  \A i \in DOMAIN led : led[i] \in Doc /\ led[i].id \in Int
<1>1. \A d \in Doc : d.id \in Int
  BY DEF Doc, UploadId
<1>2. \A i \in DOMAIN led : led[i] \in Doc
  OBVIOUS
<1>3. QED
  BY <1>1, <1>2

LEMMA AppendInOrder ==
    ASSUME NEW led \in Seq(Doc), NEW d \in Doc, InOrder(led),
           \A i \in DOMAIN led : led[i].id < d.id
    PROVE  InOrder(Append(led, d))
<1>1. SUFFICES ASSUME NEW i \in DOMAIN Append(led, d), NEW j \in DOMAIN Append(led, d), i < j
               PROVE  Append(led, d)[i].id < Append(led, d)[j].id
  BY DEF InOrder, Before
<1>2. i \in DOMAIN led /\ Append(led, d)[i] = led[i]
  BY <1>1
<1>3. CASE j \in DOMAIN led
  BY <1>1, <1>2, <1>3 DEF InOrder, Before
<1>4. CASE j \notin DOMAIN led
  <2>1. Append(led, d)[j] = d
    BY <1>1, <1>4
  <2>2. QED
    BY <1>2, <2>1
<1>5. QED
  BY <1>3, <1>4

LEMMA PrefixInOrder ==
    ASSUME NEW led \in Seq(Doc), NEW n \in 0 .. Len(led), InOrder(led), Counted(led)
    PROVE  InOrder(SubSeq(led, 1, n)) /\ Counted(SubSeq(led, 1, n))
<1>1. /\ DOMAIN SubSeq(led, 1, n) \subseteq DOMAIN led
      /\ \A i \in DOMAIN SubSeq(led, 1, n) : SubSeq(led, 1, n)[i] = led[i]
  OBVIOUS
<1>2. QED
  BY <1>1 DEF InOrder, Before, Counted

\* Only the holder of the mutex saves an invoice, before and after its step.
LEMMA OnlyHolderInside ==
    ASSUME NEW t \in Threads, BaseInv, mutex = t, Leave(t) \/ \E place : Goto(t, place)
    PROVE  /\ \A u \in Threads : u # t => pc'[u] \notin Inner
           /\ Leave(t) => pc'[t] = "idle"
           /\ \A place : Goto(t, place) => pc'[t] = place
  BY DEF Leave, Goto, BaseInv, TypeOK, LockInv

\* Steps that leave the ledgers alone and send nobody to save an invoice.
LEMMA OrderUntouched ==
    ASSUME NEW t \in Threads, BaseInv, OrderInv, mutex = t,
           Leave(t) \/ \E place : place # "saveInvoice" /\ Goto(t, place),
           UNCHANGED <<memLedger, rows, filing, uploads>>
    PROVE  OrderInv'
<1>1. \A u \in Threads : pc'[u] # "saveInvoice"
  BY OnlyHolderInside DEF Inner
<1>2. QED
  BY <1>1 DEF OrderInv, InOrder, Counted

\* Steps that give the holder's session another ledger in memory.
LEMMA OrderTaken ==
    ASSUME NEW t \in Threads, NEW led, BaseInv, OrderInv, mutex = t,
           Leave(t) \/ \E place : place # "saveInvoice" /\ Goto(t, place),
           memLedger' = [memLedger EXCEPT ![sess[t]] = led], InOrder(led), Counted(led),
           UNCHANGED <<rows, filing, uploads>>
    PROVE  OrderInv'
<1>1. \A u \in Threads : pc'[u] # "saveInvoice"
  BY OnlyHolderInside DEF Inner
<1>2. \A s \in Sessions : memLedger'[s] = memLedger[s] \/ memLedger'[s] = led
  BY DEF BaseInv, TypeOK
<1>3. \A s \in Sessions : InOrder(memLedger'[s]) /\ \A i \in DOMAIN memLedger'[s] :
                                                       memLedger'[s][i].id <= uploads
  BY <1>2 DEF OrderInv, Counted
<1>4. QED
  BY <1>1, <1>3 DEF OrderInv, InOrder, Counted

LEMMA AcceptOrder ==
    ASSUME NEW t \in Threads, BaseInv, OrderInv, UploadAccepted(t)
    PROVE  OrderInv'
<1>1. /\ mutex = t /\ Goto(t, "saveInvoice") /\ sess[t] \in Sessions
      /\ UNCHANGED <<rows, filing, sess>> /\ uploads' = uploads + 1 /\ uploads \in Nat
  BY BoundAssumption, HolderIsLive DEF UploadAccepted, At, tables, BaseInv, TypeOK
<1>2. PICK d : /\ d.id = uploads + 1 /\ d \in Doc
               /\ doc' = [doc EXCEPT ![t] = d]
               /\ memLedger' = [memLedger EXCEPT ![sess[t]] = Append(@, d)]
  <2>1. PICK kind \in Kinds, n \in 0 .. MaxLines :
           LET d == [id |-> uploads + 1, kind |-> kind, lines |-> n] IN
           /\ doc' = [doc EXCEPT ![t] = d]
           /\ memLedger' = [memLedger EXCEPT ![sess[t]] = Append(@, d)]
    BY DEF UploadAccepted
  <2>2. [id |-> uploads + 1, kind |-> kind, lines |-> n] \in Doc
    BY BoundAssumption DEF UploadAccepted, Doc, UploadId, BaseInv, TypeOK
  <2>3. QED
    BY <2>1, <2>2
<1>3. \A s \in Sessions : /\ memLedger[s] \in Seq(Doc)
                          /\ \A i \in DOMAIN memLedger[s] : memLedger[s][i].id \in Int
                          /\ rows[s] \in Seq(Doc)
                          /\ \A i \in DOMAIN rows[s] : rows[s][i].id \in Int
  BY IdsAreNumbers DEF BaseInv, TypeOK
<1>4. ASSUME NEW s \in Sessions
      PROVE  InOrder(memLedger'[s]) /\ \A i \in DOMAIN memLedger'[s] :
                                          memLedger'[s][i].id <= uploads'
  <2>1. CASE s # sess[t]
    BY <1>1, <1>2, <1>3, <2>1 DEF OrderInv, Counted, BaseInv, TypeOK
  <2>2. CASE s = sess[t]
    <3>1. memLedger'[s] = Append(memLedger[s], d)
      BY <1>2, <2>2 DEF BaseInv, TypeOK
    <3>2. \A i \in DOMAIN memLedger[s] : memLedger[s][i].id < d.id
      BY <1>1, <1>2, <1>3 DEF OrderInv, Counted
    <3>3. InOrder(memLedger'[s])
      BY <1>2, <1>3, <3>1, <3>2, AppendInOrder DEF OrderInv
    <3>4. \A i \in DOMAIN memLedger'[s] : memLedger'[s][i] = d \/ \E j \in DOMAIN memLedger[s] :
                                             memLedger'[s][i] = memLedger[s][j]
      BY <1>3, <3>1
    <3>5. QED
      BY <1>1, <1>2, <1>3, <3>2, <3>3, <3>4
  <2>3. QED
    BY <2>1, <2>2
<1>5. \A s \in Sessions : \A i \in DOMAIN rows[s] : rows[s][i].id < uploads + 1
  BY <1>1, <1>3 DEF OrderInv, Counted
<1>6. \A s \in Sessions : \A i \in DOMAIN rows'[s] : rows'[s][i].id <= uploads'
  BY <1>1, <1>3, <1>5
<1>7. doc'[t] = d /\ sess'[t] = sess[t]
  BY <1>1, <1>2 DEF BaseInv, TypeOK
<1>8. \A u \in Threads : pc'[u] = "saveInvoice" => u = t
  BY <1>1, OnlyHolderInside DEF Inner
<1>9. QED
  BY <1>1, <1>2, <1>4, <1>5, <1>6, <1>7, <1>8 DEF OrderInv, Counted, InOrder

LEMMA SaveOrder ==
    ASSUME NEW t \in Threads, BaseInv, OrderInv, SaveInvoice(t)
    PROVE  OrderInv'
<1>1. /\ mutex = t /\ pc[t] = "saveInvoice" /\ sess[t] \in Sessions /\ doc[t] \in Doc
      /\ Goto(t, AfterLines(doc[t], 0))
      /\ rows' = [rows EXCEPT ![sess[t]] = Append(@, doc[t])]
      /\ UNCHANGED <<memLedger, filing, uploads>>
  BY HolderIsLive DEF SaveInvoice, At, memory, history, BaseInv, LocalInv, Saving
<1>2. \A u \in Threads : pc'[u] # "saveInvoice"
  BY <1>1, OnlyHolderInside DEF Inner, AfterLines
<1>3. ASSUME NEW s \in Sessions
      PROVE  InOrder(rows'[s]) /\ \A i \in DOMAIN rows'[s] : rows'[s][i].id <= uploads
  <2>1. CASE s # sess[t]
    BY <1>1, <2>1 DEF OrderInv, Counted, BaseInv, TypeOK
  <2>2. CASE s = sess[t]
    <3>1. rows'[s] = Append(rows[s], doc[t]) /\ rows[s] \in Seq(Doc)
      BY <1>1, <2>2 DEF BaseInv, TypeOK
    <3>2. InOrder(rows'[s])
      BY <1>1, <2>2, <3>1, AppendInOrder DEF OrderInv
    <3>3. \A i \in DOMAIN rows'[s] : rows'[s][i] = doc[t] \/ \E j \in DOMAIN rows[s] :
                                        rows'[s][i] = rows[s][j]
      BY <3>1, <1>1
    <3>4. QED
      BY <1>1, <3>2, <3>3 DEF OrderInv, Counted
  <2>3. QED
    BY <2>1, <2>2
<1>4. QED
  BY <1>1, <1>2, <1>3 DEF OrderInv, Counted, InOrder

LEMMA GatheredInOrder ==
    ASSUME NEW s \in Sessions, BaseInv, OrderInv
    PROVE  InOrder(Gathered(s)) /\ Counted(Gathered(s))
  BY DEF OrderInv, Gathered, Rehydrated

LEMMA HandlerOrder ==
    ASSUME NEW t \in Threads, BaseInv, OrderInv, Handler(t)
    PROVE  OrderInv'
<1>1. mutex = t /\ sess[t] \in Sessions
  BY HolderIsLive
  DEF Handler, Session, Open, CloseNothing, Close, Upload, Unknown, UploadRefused,
      UploadAccepted, SaveInvoice, SaveLine, ArchiveFrame, UploadDone, Reply, ReplyUser,
      ReplyAck, File, FileUnknown, FileAdopt, FileFound, Gather, FileChat, FileDone, Fault,
      StatementFails, RehydrationStops, At
<1>2. CASE \/ CloseNothing(t) \/ Close(t) \/ Unknown(t) \/ UploadRefused(t) \/ SaveLine(t)
           \/ ArchiveFrame(t) \/ UploadDone(t) \/ Reply(t) \/ FileUnknown(t) \/ FileFound(t)
           \/ FileChat(t) \/ StatementFails(t)
  <2>1. UNCHANGED <<memLedger, rows, filing, uploads>>
    BY <1>2 DEF CloseNothing, Close, Unknown, UploadRefused, SaveLine, ArchiveFrame,
                UploadDone, Reply, ReplyUser, ReplyAck, FileUnknown, FileFound, FileChat,
                StatementFails, memory, tables, history
  <2>2. Leave(t) \/ \E place : place # "saveInvoice" /\ Goto(t, place)
    BY <1>2 DEF CloseNothing, Close, Unknown, UploadRefused, SaveLine, ArchiveFrame,
                UploadDone, Reply, ReplyUser, ReplyAck, FileUnknown, FileFound, FileChat,
                StatementFails, AfterLines
  <2>3. QED
    BY <1>1, <2>1, <2>2, OrderUntouched
<1>3. CASE Open(t) \/ FileAdopt(t)
  <2>1. /\ memLedger' = [memLedger EXCEPT ![sess[t]] = <<>>]
        /\ UNCHANGED <<rows, filing, uploads>>
        /\ Leave(t) \/ Goto(t, "gather")
    BY <1>3 DEF Open, FileAdopt, tables, history
  <2>2. QED
    BY <1>1, <2>1, EmptyInOrder, OrderTaken
<1>4. CASE Gather(t) \/ RehydrationStops(t)
  <2>1. PICK led : TakeLedger(t, led) /\ InOrder(led) /\ Counted(led)
    <3>1. CASE Gather(t)
      BY <1>1, <3>1, GatheredInOrder DEF Gather
    <3>2. CASE RehydrationStops(t)
      <4>1. PICK n \in 0 .. Len(rows[sess[t]]) - 1 :
               TakeLedger(t, SubSeq(rows[sess[t]], 1, n))
        BY <3>2 DEF RehydrationStops
      <4>2. rows[sess[t]] \in Seq(Doc) /\ n \in 0 .. Len(rows[sess[t]])
        BY <1>1 DEF BaseInv, TypeOK
      <4>3. QED
        BY <1>1, <4>1, <4>2, PrefixInOrder DEF OrderInv
    <3>3. QED
      BY <1>4, <3>1, <3>2
  <2>2. /\ memLedger' = [memLedger EXCEPT ![sess[t]] = led]
        /\ UNCHANGED <<rows, filing, uploads>>
        /\ Leave(t) \/ Goto(t, "fileChat")
    BY <2>1 DEF TakeLedger, tables, history
  <2>3. QED
    BY <1>1, <2>1, <2>2, OrderTaken
<1>5. CASE FileDone(t)
  <2>1. /\ filing' = [filing EXCEPT ![sess[t]] = memLedger[sess[t]]]
        /\ UNCHANGED <<memLedger, rows, uploads>> /\ Leave(t)
    BY <1>5 DEF FileDone
  <2>2. \A u \in Threads : pc'[u] # "saveInvoice"
    BY <1>1, <2>1, OnlyHolderInside DEF Inner
  <2>3. \A s \in Sessions : filing'[s] \in {filing[s], memLedger[s]}
    BY <1>1, <2>1 DEF BaseInv, TypeOK
  <2>4. QED
    BY <2>1, <2>2, <2>3 DEF OrderInv, InOrder, Counted
<1>6. QED
  BY <1>2, <1>3, <1>4, <1>5, AcceptOrder, SaveOrder
  DEF Handler, Session, Upload, Reply, File, Fault

LEMMA NextOrder == BaseInv /\ OrderInv /\ [Next]_vars => OrderInv'
<1> SUFFICES ASSUME BaseInv, OrderInv, [Next]_vars PROVE OrderInv'
  OBVIOUS
<1>1. ASSUME NEW t \in Threads, Call(t) \/ Acquire(t) PROVE OrderInv'
  <2>1. UNCHANGED <<memLedger, rows, filing, uploads, doc>>
    BY <1>1 DEF Call, Acquire, memory, tables, history, locals
  <2>2. \A u \in Threads : pc'[u] = "saveInvoice" => pc[u] = "saveInvoice" /\ sess'[u] = sess[u]
    BY <1>1 DEF Call, Acquire, Goto, locals, Entry, BaseInv, TypeOK
  <2>3. QED
    BY <2>1, <2>2 DEF OrderInv, InOrder, Counted
<1>2. CASE Crash
  BY <1>2, EmptyInOrder DEF Crash, tables, history, OrderInv, InOrder, Counted
<1>3. CASE UNCHANGED vars
  BY <1>3 DEF vars, memory, tables, locals, history, OrderInv, InOrder, Counted
<1>4. QED
  BY <1>1, <1>2, <1>3, HandlerOrder DEF Next

\* Whatever fails and crashes, no filing holds an invoice twice or out of the order
\* in which the invoices were accepted.
THEOREM FilingsAreInOrder == Spec => []FilingInOrder
<1>1. Init => OrderInv
  BY DEF Init, OrderInv, InOrder, Counted
<1>2. OrderInv => FilingInOrder
  BY DEF OrderInv, FilingInOrder
<1>3. QED
  BY <1>1, <1>2, InitBase, NextBase, NextOrder, PTL DEF Spec
-----------------------------------------------------------------------------
(* Durability *)

FrameOf(d, what) == [what |-> what, id |-> d.id]

\* the frames of d's reply are archived, except for those that are `left`
Archived(transcript, d, left) ==
    \A k \in DOMAIN FramesFor(d) :
        \/ FrameOf(d, FramesFor(d)[k]) \in transcript
        \/ \E j \in DOMAIN left : left[j] = FramesFor(d)[k]

\* How far a method has brought the tables at each place.
WorkInv(t) ==
    /\ pc[t] \in Saving =>
          /\ doc[t].id <= uploads /\ \A s \in Sessions : doc[t].id \notin acked[s]
          /\ Archived(chat[sess[t]], doc[t], frames[t])
    /\ pc[t] = "saveInvoice" => lineRows[doc[t].id] = 0
    /\ pc[t] \in Saving \ {"saveInvoice"} =>
          \E k \in DOMAIN rows[sess[t]] : rows[sess[t]][k] = doc[t]
    /\ pc[t] \in {"archive", "setStatus"} => lineRows[doc[t].id] = doc[t].lines
    /\ pc[t] = "setStatus" => frames[t] = <<>>
    /\ pc[t] = "fileStatus" => \E m \in chat[sess[t]] : m.what = "filed"

CountInv ==
    /\ \A i \in UploadId : i > uploads => lineRows[i] = 0
    /\ \A s \in Sessions : \A i \in acked[s] : i <= uploads

DurableInv ==
    /\ \A t \in Threads : WorkInv(t)
    /\ CountInv
    /\ AckedIsDurable
    /\ StatusIsJustified

\* Neither table loses a row.
TablesGrow ==
    \A s \in Sessions :
        /\ chat[s] \subseteq chat'[s]
        /\ \A k \in DOMAIN rows[s] : k \in DOMAIN rows'[s] /\ rows'[s][k] = rows[s][k]

LEMMA WorkOfOthers ==
    ASSUME NEW t \in Threads, BaseInv, mutex = t, Leave(t) \/ \E place : Goto(t, place)
    PROVE  \A u \in Threads : u # t => WorkInv(u)'
<1>1. \A u \in Threads : u # t => pc'[u] \notin Inner
  BY OnlyHolderInside
<1>2. QED
  BY <1>1 DEF WorkInv, Inner, Saving

LEMMA WorkElsewhere ==
    ASSUME NEW t \in Threads, pc'[t] \notin Saving \cup {"fileStatus"}
    PROVE  WorkInv(t)'
  BY DEF WorkInv, Saving

LEMMA AckedKept ==
    ASSUME AckedIsDurable, TablesGrow, UNCHANGED acked,
           \A s \in Sessions : \A i \in acked[s] : lineRows'[i] = lineRows[i]
    PROVE  AckedIsDurable'
<1>1. SUFFICES ASSUME NEW s \in Sessions, NEW i \in acked[s]
      PROVE  \E d \in {rows'[s][k] : k \in DOMAIN rows'[s]} :
                /\ d.id = i
                /\ lineRows'[i] = d.lines
                /\ {[what |-> FramesFor(d)[k], id |-> i] : k \in DOMAIN FramesFor(d)}
                      \subseteq chat'[s]
  BY DEF AckedIsDurable, FramesFor
<1>2. PICK d \in {rows[s][k] : k \in DOMAIN rows[s]} :
         /\ d.id = i
         /\ lineRows[i] = d.lines
         /\ {[what |-> FramesFor(d)[k], id |-> i] : k \in DOMAIN FramesFor(d)} \subseteq chat[s]
  BY DEF AckedIsDurable
<1>3. d \in {rows'[s][k] : k \in DOMAIN rows'[s]}
  BY <1>2 DEF TablesGrow
<1>4. lineRows'[i] = lineRows[i] /\ chat[s] \subseteq chat'[s]
  BY DEF TablesGrow
<1>5. QED
  BY <1>2, <1>3, <1>4

LEMMA StoredGrows ==
    ASSUME TablesGrow, NEW s \in Sessions
    PROVE  Stored(s) \subseteq Stored(s)'
  BY DEF TablesGrow, Stored

LEMMA JustifiedKept ==
    ASSUME StatusIsJustified, TablesGrow, NEW s \in Sessions,
           dbStatus'[s] \notin {"INTERROGATING", "FILED"} \/ dbStatus'[s] = dbStatus[s]
    PROVE  /\ dbStatus'[s] = "INTERROGATING" =>
                 \E m \in chat'[s] : m.what = "gap" /\ m.id \in Stored(s)'
           /\ dbStatus'[s] = "FILED" => \E m \in chat'[s] : m.what = "filed"
<1>1. chat[s] \subseteq chat'[s] /\ Stored(s) \subseteq Stored(s)'
  BY StoredGrows DEF TablesGrow
<1>2. /\ dbStatus[s] = "INTERROGATING" => \E m \in chat[s] : m.what = "gap" /\ m.id \in Stored(s)
      /\ dbStatus[s] = "FILED" => \E m \in chat[s] : m.what = "filed"
  BY DEF StatusIsJustified
<1>3. QED
  BY <1>1, <1>2

\* What justifies a status that a step of the holder writes for its own session.
LEMMA JustifiedAnew ==
    ASSUME StatusIsJustified, TablesGrow, TypeOK, NEW s \in Sessions, NEW status,
           SetSessionStatus(s, status),
           status = "INTERROGATING" => \E m \in chat'[s] : m.what = "gap" /\ m.id \in Stored(s)',
           status = "FILED" => \E m \in chat'[s] : m.what = "filed"
    PROVE  StatusIsJustified'
<1>1. dbStatus'[s] \in {"NONE", status} /\ \A r \in Sessions : r # s => dbStatus'[r] = dbStatus[r]
  BY DEF SetSessionStatus, TypeOK
<1>2. QED
  BY <1>1, JustifiedKept DEF StatusIsJustified

LEMMA StatementsGrow ==
    ASSUME TypeOK, NEW s \in Sessions
    PROVE  /\ \A what, id : AddChatMessage(s, what, id) /\ UNCHANGED rows => TablesGrow
           /\ \A what, id : AddChatMessage(s, what, id) => [what |-> what, id |-> id] \in chat'[s]
           /\ UNCHANGED <<rows, chat>> => TablesGrow
           /\ CreateSession(s) => \A r \in Sessions :
                 dbStatus'[r] \notin {"INTERROGATING", "FILED"} \/ dbStatus'[r] = dbStatus[r]
  BY DEF TypeOK, AddChatMessage, TablesGrow, CreateSession

\* Steps that only add to the tables, and write no status that needs an explanation.
LEMMA DurableStep ==
    ASSUME NEW t \in Threads, BaseInv, DurableInv, mutex = t,
           Leave(t) \/ \E place : Goto(t, place),
           WorkInv(t)', TablesGrow, UNCHANGED <<lineRows, acked, uploads>>,
           \A s \in Sessions :
              dbStatus'[s] \notin {"INTERROGATING", "FILED"} \/ dbStatus'[s] = dbStatus[s]
    PROVE  DurableInv'
<1>1. AckedIsDurable'
  BY AckedKept DEF DurableInv
<1>2. StatusIsJustified'
  BY JustifiedKept DEF DurableInv, StatusIsJustified
<1>3. QED
  BY <1>1, <1>2, WorkOfOthers DEF DurableInv, CountInv
LEMMA AcceptDurable ==
    ASSUME NEW t \in Threads, SessionInv, DurableInv, UploadAccepted(t)
    PROVE  DurableInv'
<1>1. /\ mutex = t /\ Goto(t, "saveInvoice") /\ sess[t] \in Sessions /\ BaseInv
      /\ UNCHANGED <<tables, sess, acked>> /\ uploads' = uploads + 1
      /\ uploads \in Nat /\ uploads < MaxUploads
  BY BoundAssumption, HolderIsLive DEF UploadAccepted, At, SessionInv, BaseInv, TypeOK
<1>2. PICK d \in Doc : /\ d.id = uploads + 1
                       /\ doc' = [doc EXCEPT ![t] = d]
                       /\ frames' = [frames EXCEPT ![t] = FramesFor(d)]
  <2>1. PICK kind \in Kinds, n \in 0 .. MaxLines :
           LET d == [id |-> uploads + 1, kind |-> kind, lines |-> n] IN
           /\ doc' = [doc EXCEPT ![t] = d]
           /\ frames' = [frames EXCEPT ![t] = FramesFor(d)]
    BY DEF UploadAccepted
  <2>2. [id |-> uploads + 1, kind |-> kind, lines |-> n] \in Doc
    BY <1>1, BoundAssumption DEF Doc, UploadId
  <2>3. QED
    BY <2>1, <2>2
<1>3. /\ pc'[t] = "saveInvoice" /\ doc'[t] = d /\ frames'[t] = FramesFor(d)
  BY <1>1, <1>2, OnlyHolderInside DEF BaseInv, TypeOK
<1>4. \A s \in Sessions : \A i \in acked[s] : i \in Int /\ i <= uploads
  BY <1>1 DEF DurableInv, CountInv, BaseInv, TypeOK, UploadId
<1>5. d.id \in UploadId /\ lineRows[d.id] = 0 /\ \A s \in Sessions : d.id \notin acked[s]
  <2>1. d.id \in UploadId
    BY <1>2 DEF Doc
  <2>2. lineRows[d.id] = 0
    BY <1>1, <1>2, <2>1 DEF DurableInv, CountInv
  <2>3. QED
    BY <1>1, <1>2, <1>4, <2>1, <2>2
<1>6. Archived(chat'[sess'[t]], doc'[t], frames'[t])
  BY <1>3 DEF Archived
<1>7. WorkInv(t)'
  BY <1>1, <1>2, <1>3, <1>5, <1>6 DEF WorkInv, tables
<1>8. CountInv'
  BY <1>1, <1>4 DEF DurableInv, CountInv, tables, UploadId
<1>9. TablesGrow /\ UNCHANGED <<dbStatus, lineRows>>
  BY <1>1, StatementsGrow DEF tables, BaseInv
<1>10. AckedIsDurable' /\ StatusIsJustified'
  BY <1>1, <1>9, AckedKept, JustifiedKept DEF DurableInv, StatusIsJustified
<1>11. QED
  BY <1>1, <1>7, <1>8, <1>10, WorkOfOthers DEF DurableInv

LEMMA SaveInvoiceDurable ==
    ASSUME NEW t \in Threads, SessionInv, DurableInv, SaveInvoice(t)
    PROVE  DurableInv'
<1> DEFINE s == sess[t]
           d == doc[t]
<1>1. /\ mutex = t /\ pc[t] = "saveInvoice" /\ s \in Sessions /\ d \in Doc /\ BaseInv
      /\ Goto(t, AfterLines(d, 0)) /\ CreateSession(s)
      /\ rows' = [rows EXCEPT ![s] = Append(@, d)]
      /\ UNCHANGED <<lineRows, chat, sess, doc, frames, acked, uploads>>
  BY HolderIsLive
  DEF SaveInvoice, At, history, SessionInv, BaseInv, LocalInv, Saving
<1>2. /\ rows'[s] = Append(rows[s], d) /\ rows[s] \in Seq(Doc)
      /\ \A r \in Sessions : r # s => rows'[r] = rows[r]
  BY <1>1 DEF BaseInv, TypeOK
<1>3. Len(rows[s]) + 1 \in DOMAIN rows'[s] /\ rows'[s][Len(rows[s]) + 1] = d
  BY <1>1, <1>2
<1>4. TablesGrow
  BY <1>1, <1>2 DEF TablesGrow
<1>5. pc'[t] = AfterLines(d, 0)
  BY <1>1, OnlyHolderInside
<1>6. Archived(chat'[s], d, frames[t])
  BY <1>1 DEF DurableInv, WorkInv, Archived, Saving
<1>7. lineRows[d.id] = 0 /\ d.id <= uploads /\ \A r \in Sessions : d.id \notin acked[r]
  BY <1>1 DEF DurableInv, WorkInv, Saving
<1>8. WorkInv(t)'
  BY <1>1, <1>3, <1>5, <1>6, <1>7 DEF WorkInv, AfterLines
<1>9. QED
  BY <1>1, <1>4, <1>8, StatementsGrow, DurableStep DEF BaseInv

LEMMA SaveLineDurable ==
    ASSUME NEW t \in Threads, SessionInv, DurableInv, SaveLine(t)
    PROVE  DurableInv'
<1> DEFINE s == sess[t]
           d == doc[t]
           place == AfterLines(d, lineRows[d.id] + 1)
<1>1. /\ mutex = t /\ pc[t] = "saveLine" /\ s \in Sessions /\ d \in Doc /\ BaseInv
      /\ Goto(t, place)
      /\ lineRows' = [lineRows EXCEPT ![d.id] = @ + 1]
      /\ UNCHANGED <<dbStatus, rows, chat, sess, doc, frames, acked, uploads>>
  BY HolderIsLive
  DEF SaveLine, At, history, SessionInv, BaseInv, LocalInv, Saving
<1>2. /\ d.id \in UploadId /\ d.id <= uploads /\ \A r \in Sessions : d.id \notin acked[r]
  BY <1>1 DEF DurableInv, WorkInv, Saving, Doc
<1>3. lineRows'[d.id] = lineRows[d.id] + 1
  BY <1>1, <1>2 DEF BaseInv, TypeOK
<1>4. pc'[t] = place
  BY <1>1, OnlyHolderInside
<1>5. Archived(chat'[s], d, frames[t])
  BY <1>1 DEF DurableInv, WorkInv, Archived, Saving
<1>6. \E k \in DOMAIN rows[s] : rows[s][k] = d
  BY <1>1 DEF DurableInv, WorkInv, Saving
<1>7. WorkInv(t)'
  BY <1>1, <1>2, <1>3, <1>4, <1>5, <1>6 DEF WorkInv, AfterLines
<1>8. CountInv'
  <2>1. \A i \in UploadId : i > uploads => i # d.id
    BY <1>1, <1>2 DEF UploadId, BaseInv, TypeOK
  <2>2. QED
    BY <1>1, <2>1 DEF DurableInv, CountInv, BaseInv, TypeOK
<1>9. \A r \in Sessions : \A i \in acked[r] : lineRows'[i] = lineRows[i]
  BY <1>1, <1>2 DEF BaseInv, TypeOK
<1>10. TablesGrow
  BY <1>1, StatementsGrow DEF BaseInv
<1>11. AckedIsDurable' /\ StatusIsJustified'
  BY <1>1, <1>9, <1>10, AckedKept, JustifiedKept DEF DurableInv, StatusIsJustified
<1>12. QED
  BY <1>1, <1>7, <1>8, <1>11, WorkOfOthers DEF DurableInv

LEMMA ArchiveDurable ==
    ASSUME NEW t \in Threads, SessionInv, DurableInv, ArchiveFrame(t)
    PROVE  DurableInv'
<1> DEFINE s == sess[t]
           d == doc[t]
           rest == Tail(frames[t])
           place == IF rest = <<>> THEN "setStatus" ELSE "archive"
<1>1. /\ mutex = t /\ pc[t] = "archive" /\ s \in Sessions /\ s \in live /\ BaseInv
      /\ Goto(t, place) /\ AddChatMessage(s, Head(frames[t]), d.id)
      /\ frames' = [frames EXCEPT ![t] = rest]
      /\ UNCHANGED <<rows, lineRows, sess, doc, acked, uploads>>
  BY HolderIsLive DEF ArchiveFrame, At, history, SessionInv, Inner
<1>2. /\ frames[t] # <<>> /\ frames[t] \in Seq({"gap", "summary", "verified"})
  BY <1>1 DEF BaseInv, TypeOK, LocalInv, Saving
<1>3. pc'[t] = place /\ frames'[t] = rest
  BY <1>1, <1>2, OnlyHolderInside DEF BaseInv, TypeOK
<1>4. TablesGrow /\ FrameOf(d, Head(frames[t])) \in chat'[s]
  BY <1>1, StatementsGrow DEF BaseInv, FrameOf
<1>5. Archived(chat'[s], d, rest)
  <2>1. SUFFICES ASSUME NEW k \in DOMAIN FramesFor(d)
                 PROVE  \/ FrameOf(d, FramesFor(d)[k]) \in chat'[s]
                        \/ \E j \in DOMAIN rest : rest[j] = FramesFor(d)[k]
    BY DEF Archived
  <2>2. CASE FrameOf(d, FramesFor(d)[k]) \in chat[s]
    BY <1>1, <1>4, <2>2 DEF TablesGrow
  <2>3. CASE \E j \in DOMAIN frames[t] : frames[t][j] = FramesFor(d)[k]
    <3>1. PICK j \in DOMAIN frames[t] : frames[t][j] = FramesFor(d)[k]
      BY <2>3
    <3>2. CASE j = 1
      BY <1>2, <1>4, <3>1, <3>2
    <3>3. CASE j # 1
      <4>1. j - 1 \in DOMAIN rest /\ rest[j - 1] = frames[t][j]
        BY <1>2, <3>1, <3>3
      <4>2. QED
        BY <3>1, <4>1
    <3>4. QED
      BY <3>2, <3>3
  <2>4. QED
    BY <1>1, <2>2, <2>3 DEF DurableInv, WorkInv, Archived, Saving
<1>6. /\ d.id <= uploads /\ \A r \in Sessions : d.id \notin acked[r]
      /\ lineRows[d.id] = d.lines
      /\ \E k \in DOMAIN rows[s] : rows[s][k] = d
  BY <1>1 DEF DurableInv, WorkInv, Saving
<1>7. WorkInv(t)'
  BY <1>1, <1>3, <1>5, <1>6 DEF WorkInv
<1>8. dbStatus' = dbStatus
  BY <1>1, CreateIsNoOp DEF AddChatMessage
<1>9. QED
  BY <1>1, <1>4, <1>7, <1>8, DurableStep

LEMMA UploadDoneDurable ==
    ASSUME NEW t \in Threads, SessionInv, DurableInv, UploadDone(t)
    PROVE  DurableInv'
<1> DEFINE s == sess[t]
           d == doc[t]
<1>1. /\ mutex = t /\ pc[t] = "setStatus" /\ s \in Sessions /\ d \in Doc /\ BaseInv
      /\ Leave(t) /\ SetSessionStatus(s, Assessed(d))
      /\ acked' = [acked EXCEPT ![s] = @ \cup {d.id}]
      /\ UNCHANGED <<rows, lineRows, chat, uploads>>
  BY HolderIsLive DEF UploadDone, At, history, SessionInv, BaseInv, LocalInv, Saving
<1>2. TablesGrow
  BY <1>1, StatementsGrow DEF BaseInv
<1>3. /\ d.id <= uploads /\ lineRows[d.id] = d.lines
      /\ \E k \in DOMAIN rows[s] : rows[s][k] = d
      /\ \A k \in DOMAIN FramesFor(d) : FrameOf(d, FramesFor(d)[k]) \in chat[s]
  <2>1. WorkInv(t) /\ pc[t] \in Saving
    BY <1>1 DEF DurableInv, Saving
  <2>2. frames[t] = <<>> /\ Archived(chat[s], d, frames[t])
    BY <1>1, <2>1 DEF WorkInv
  <2>3. \A k \in DOMAIN FramesFor(d) : FrameOf(d, FramesFor(d)[k]) \in chat[s]
    BY <2>2 DEF Archived
  <2>4. QED
    BY <1>1, <2>1, <2>3 DEF WorkInv, Saving
<1>4. WorkInv(t)'
  BY <1>1, OnlyHolderInside, WorkElsewhere DEF Saving
<1>5. CountInv'
  BY <1>1, <1>3 DEF DurableInv, CountInv, BaseInv, TypeOK
<1>6. AckedIsDurable'
  <2>1. SUFFICES ASSUME NEW r \in Sessions, NEW i \in acked'[r]
        PROVE  \E e \in {rows[r][k] : k \in DOMAIN rows[r]} :
                  /\ e.id = i
                  /\ lineRows[i] = e.lines
                  /\ {[what |-> FramesFor(e)[k], id |-> i] : k \in DOMAIN FramesFor(e)}
                        \subseteq chat[r]
    BY <1>1 DEF AckedIsDurable, FramesFor
  <2>2. CASE i \in acked[r]
    BY <2>2 DEF DurableInv, AckedIsDurable
  <2>3. CASE i \notin acked[r]
    <3>1. r = s /\ i = d.id
      BY <1>1, <2>1, <2>3 DEF BaseInv, TypeOK
    <3>2. QED
      BY <1>3, <3>1 DEF FrameOf
  <2>4. QED
    BY <2>2, <2>3
<1>7. StatusIsJustified'
  <2>1. PICK r \in Sessions : r = sess[t]
    BY <1>1
  <2>2. Assessed(d) = "INTERROGATING" => \E m \in chat'[r] : m.what = "gap" /\ m.id \in Stored(r)'
    <3>1. SUFFICES ASSUME d.kind = "gaps"
                   PROVE  \E m \in chat'[r] : m.what = "gap" /\ m.id \in Stored(r)'
      BY DEF Assessed
    <3>2. 1 \in DOMAIN FramesFor(d) /\ FramesFor(d)[1] = "gap"
      BY <3>1 DEF FramesFor
    <3>3. FrameOf(d, "gap") \in chat'[r]
      BY <1>1, <1>3, <2>1, <3>2
    <3>4. d.id \in Stored(r)'
      BY <1>1, <1>3, <2>1 DEF Stored
    <3>5. QED
      BY <3>3, <3>4 DEF FrameOf
  <2>3. Assessed(d) # "FILED" /\ TypeOK /\ StatusIsJustified /\ SetSessionStatus(r, Assessed(d))
    BY <1>1, <2>1 DEF Assessed, BaseInv, DurableInv
  <2>4. QED
    BY <1>2, <2>2, <2>3, JustifiedAnew
<1>8. QED
  BY <1>1, <1>4, <1>5, <1>6, <1>7, WorkOfOthers DEF DurableInv

LEMMA FileDurable ==
    ASSUME NEW t \in Threads, SessionInv, DurableInv, FileChat(t) \/ FileDone(t)
    PROVE  DurableInv'
<1> DEFINE s == sess[t]
<1>1. mutex = t /\ s \in Sessions /\ s \in live /\ BaseInv
  BY HolderIsLive DEF FileChat, FileDone, At, SessionInv, Inner
<1>2. CASE FileChat(t)
  <2>1. /\ Goto(t, "fileStatus") /\ AddChatMessage(s, "filed", Len(memLedger[s]))
        /\ UNCHANGED <<rows, lineRows, sess, acked, uploads>>
    BY <1>2 DEF FileChat, history
  <2>2. /\ TablesGrow /\ pc'[t] = "fileStatus"
        /\ [what |-> "filed", id |-> Len(memLedger[s])] \in chat'[s]
    BY <1>1, <2>1, StatementsGrow, OnlyHolderInside DEF BaseInv
  <2>3. WorkInv(t)'
    BY <2>1, <2>2 DEF WorkInv, Saving
  <2>4. dbStatus' = dbStatus
    BY <1>1, <2>1, CreateIsNoOp DEF AddChatMessage
  <2>5. QED
    BY <1>1, <2>1, <2>2, <2>3, <2>4, DurableStep
<1>3. CASE FileDone(t)
  <2>1. /\ Leave(t) /\ SetSessionStatus(s, "FILED") /\ pc[t] = "fileStatus"
        /\ UNCHANGED <<rows, lineRows, chat, acked, uploads>>
    BY <1>3 DEF FileDone, At
  <2>2. TablesGrow /\ WorkInv(t)'
    BY <1>1, <2>1, StatementsGrow, OnlyHolderInside, WorkElsewhere DEF BaseInv, Saving
  <2>3. \E m \in chat'[s] : m.what = "filed"
    BY <2>1 DEF DurableInv, WorkInv
  <2>4. StatusIsJustified'
    BY <1>1, <2>1, <2>2, <2>3, JustifiedAnew DEF BaseInv, DurableInv
  <2>5. AckedIsDurable'
    BY <2>1, <2>2, AckedKept DEF DurableInv
  <2>6. QED
    BY <1>1, <2>1, <2>2, <2>4, <2>5, WorkOfOthers DEF DurableInv, CountInv
<1>4. QED
  BY <1>2, <1>3

\* The other steps of a handler.
LEMMA RestDurable ==
    ASSUME NEW t \in Threads, SessionInv, DurableInv,
           \/ Session(t) \/ Unknown(t) \/ UploadRefused(t) \/ Reply(t)
           \/ FileUnknown(t) \/ FileAdopt(t) \/ FileFound(t) \/ Gather(t) \/ Fault(t)
    PROVE  DurableInv'
<1>1. mutex = t /\ sess[t] \in Sessions /\ BaseInv /\ TypeOK
  BY HolderIsLive
  DEF Session, Open, CloseNothing, Close, Unknown, UploadRefused, Reply, ReplyUser, ReplyAck,
      FileUnknown, FileAdopt, FileFound, Gather, Fault, StatementFails, RehydrationStops, At,
      SessionInv, BaseInv
<1>2. Leave(t) \/ \E place \in {"replyAck", "gather", "fileChat"} : Goto(t, place)
  BY DEF Session, Open, CloseNothing, Close, Unknown, UploadRefused, Reply, ReplyUser,
         ReplyAck, FileUnknown, FileAdopt, FileFound, Gather, TakeLedger, Fault,
         StatementFails, RehydrationStops
<1>3. WorkInv(t)'
  <2>1. pc'[t] \in {"idle", "replyAck", "gather", "fileChat"}
    BY <1>1, <1>2, OnlyHolderInside
  <2>2. QED
    BY <2>1, WorkElsewhere DEF Saving
<1>4. UNCHANGED <<lineRows, acked, uploads, rows>>
  BY DEF Session, Open, CloseNothing, Close, Unknown, UploadRefused, Reply, ReplyUser,
         ReplyAck, FileUnknown, FileAdopt, FileFound, Gather, TakeLedger, Fault,
         StatementFails, RehydrationStops, tables, history
<1>5. TablesGrow /\ \A s \in Sessions :
         dbStatus'[s] \notin {"INTERROGATING", "FILED"} \/ dbStatus'[s] = dbStatus[s]
  <2>1. CASE Open(t)
    BY <1>1, <2>1, StatementsGrow DEF Open
  <2>2. CASE Close(t)
    <3>1. \A s \in Sessions : dbStatus'[s] \in {dbStatus[s], "ABANDONED"}
      BY <1>1, <2>2 DEF Close, SetSessionStatus, TypeOK
    <3>2. QED
      BY <1>1, <2>2, <3>1, StatementsGrow DEF Close
  <2>3. CASE Reply(t)
    <3>1. PICK what : AddChatMessage(sess[t], what, 0)
      BY <2>3 DEF Reply, ReplyUser, ReplyAck
    <3>2. CreateSession(sess[t])
      BY <3>1 DEF AddChatMessage
    <3>3. QED
      BY <1>1, <1>4, <3>1, <3>2, StatementsGrow
  <2>4. CASE ~Open(t) /\ ~Close(t) /\ ~Reply(t)
    <3>1. UNCHANGED <<rows, chat, dbStatus>>
      BY <2>4 DEF Session, CloseNothing, Unknown, UploadRefused, FileUnknown, FileAdopt,
                  FileFound, Gather, TakeLedger, Fault, StatementFails, RehydrationStops, tables
    <3>2. QED
      BY <1>1, <3>1, StatementsGrow
  <2>5. QED
    BY <2>1, <2>2, <2>3, <2>4
<1>6. QED
  BY <1>1, <1>2, <1>3, <1>4, <1>5, DurableStep

LEMMA NextDurable == SessionInv /\ DurableInv /\ [Next]_vars => DurableInv'
<1> SUFFICES ASSUME SessionInv, DurableInv, [Next]_vars PROVE DurableInv'
  OBVIOUS
<1>1. ASSUME NEW t \in Threads, Handler(t) PROVE DurableInv'
  BY <1>1, AcceptDurable, SaveInvoiceDurable, SaveLineDurable, ArchiveDurable,
     UploadDoneDurable, FileDurable, RestDurable
  DEF Handler, Session, Upload, Reply, File, Fault
<1>2. ASSUME UNCHANGED <<tables, history>>,
             \A u \in Threads : pc'[u] \in Inner =>
                UNCHANGED <<pc[u], sess[u], doc[u], frames[u]>>
      PROVE  DurableInv'
  <2>1. \A u \in Threads : WorkInv(u)'
    <3>1. SUFFICES ASSUME NEW u \in Threads, pc'[u] \in Inner PROVE WorkInv(u)'
      BY WorkElsewhere DEF Inner, Saving
    <3>2. UNCHANGED <<pc[u], sess[u], doc[u], frames[u], uploads, acked, chat, rows, lineRows>>
      BY <1>2, <3>1 DEF tables, history
    <3>3. Archived(chat[sess[u]], doc[u], frames[u]) => Archived(chat'[sess'[u]], doc'[u], frames'[u])
      BY <3>2
    <3>4. QED
      BY <3>2, <3>3 DEF DurableInv, WorkInv, Saving
  <2>2. TablesGrow /\ UNCHANGED <<dbStatus, acked, lineRows, uploads>>
    BY <1>2 DEF tables, history, TablesGrow
  <2>3. QED
    BY <2>1, <2>2, AckedKept, JustifiedKept DEF DurableInv, CountInv, StatusIsJustified
<1>3. ASSUME NEW t \in Threads, Call(t) \/ Acquire(t) PROVE DurableInv'
  <2>1. UNCHANGED <<tables, history, doc, frames>>
    BY <1>3 DEF Call, Acquire, locals
  <2>2. \A u \in Threads : pc'[u] \in Inner => UNCHANGED <<pc[u], sess[u]>>
    BY <1>3 DEF Call, Acquire, Goto, locals, Entry, Inner, SessionInv, BaseInv, TypeOK
  <2>3. QED
    BY <1>2, <2>1, <2>2
<1>4. CASE Crash
  BY <1>2, <1>4 DEF Crash, Inner
<1>5. CASE UNCHANGED vars
  BY <1>2, <1>5 DEF vars, locals
<1>6. QED
  BY <1>1, <1>3, <1>4, <1>5 DEF Next

LEMMA InitDurable == Init => DurableInv
  BY DEF Init, DurableInv, WorkInv, CountInv, AckedIsDurable, StatusIsJustified, Saving

THEOREM DurableInvariant == Spec => []DurableInv
  BY InitSession, NextSession, InitDurable, NextDurable, PTL DEF Spec

\* Whatever fails and crashes, an upload whose frames were returned is stored whole:
\* its row, all its line items, and the frames.
THEOREM AckedAlwaysDurable == Spec => []AckedIsDurable
<1>1. DurableInv => AckedIsDurable
  BY DEF DurableInv
<1>2. QED
  BY <1>1, DurableInvariant, PTL

\* Whatever fails and crashes, a stored INTERROGATING or FILED is explained by the
\* stored invoices and the transcript.
THEOREM StatusAlwaysJustified == Spec => []StatusIsJustified
<1>1. DurableInv => StatusIsJustified
  BY DEF DurableInv
<1>2. QED
  BY <1>1, DurableInvariant, PTL
=============================================================================
