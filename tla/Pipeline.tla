------------------------------ MODULE Pipeline ------------------------------
(***************************************************************************)
(* The session pipeline of the backend: Pipeline.cpp driving               *)
(* InvoiceRepository.cpp.  Threads of the WebSocket server call the public *)
(* methods; each method runs behind one mutex, keeps a ledger of accepted  *)
(* invoices in memory, and writes SQLite through autocommitted statements. *)
(* An action runs a method up to and including its next statement, so a    *)
(* crash of the process, which keeps the database and loses the memory,    *)
(* can fall between any two statements, and a failing statement leaves the *)
(* statements before it in place (the repository opens no transaction).    *)
(*                                                                         *)
(* Abstracted: an invoice is an identity, what the rules and the return    *)
(* generator make of it (`kind`) and its number of line items; a chat      *)
(* message is what it announces and about which invoice.                   *)
(***************************************************************************)
EXTENDS Integers, Sequences, FiniteSets

CONSTANTS
    Sessions,    \* session ids that openSession may generate
    Threads,     \* server threads that call the pipeline
    None,        \* no session, no document, nobody holds the mutex
    Kinds,       \* what an accepted invoice may turn out to be
    MaxUploads,  \* bound: invoices accepted in a behaviour
    MaxLines,    \* bound: line items of an invoice
    MaxFaults,   \* bound: failing SQLite statements in a behaviour
    MaxCrashes   \* bound: crashes of the process in a behaviour

ASSUME NoneAssumption  == None \notin Sessions /\ None \notin Threads
\* clean: passes every rule; gaps: some rule is violated; overflow: passes the
\* rules, and money::taxOn overflows when the returns are generated from it
ASSUME KindsAssumption == Kinds \subseteq {"clean", "gaps", "overflow"}
ASSUME BoundAssumption == /\ MaxUploads \in Nat /\ MaxLines \in Nat
                          /\ MaxFaults \in Nat  /\ MaxCrashes \in Nat

UploadId == 1 .. MaxUploads
Doc      == [id : UploadId, kind : Kinds, lines : 0 .. MaxLines]
Status   == {"ACTIVE", "INTERROGATING", "FILED", "ABANDONED"}
Message  == [what : {"gap", "summary", "verified", "user", "ack", "filed"},
             id   : Nat]
Entry    == {"open", "upload", "reply", "file", "close"}
Inner    == {"saveInvoice", "saveLine", "archive", "setStatus", "replyAck",
             "gather", "fileChat", "fileStatus"}

VARIABLES
    live,       \* the keys of sessions_
    memStatus,  \* SessionState::status
    memLedger,  \* SessionState::invoices
    dbStatus,   \* tax_sessions.status, "NONE" where there is no row
    rows,       \* the invoices table, by session, in invoice_id order
    lineRows,   \* how many line_items rows each invoice has
    chat,       \* the chat_messages table, by session
    mutex,      \* who holds mutex_
    pc, sess,   \* each thread: where it is, and for which session
    doc,        \* each thread: the invoice it is processing
    frames,     \* each thread: chat frames it still has to archive
    uploads,    \* how many invoices were accepted so far
    acked,      \* history: invoices whose upload returned its frames
    filing,     \* history: the ledger behind the last FILING_READY frame
    faults, crashes

memory  == <<live, memStatus, memLedger>>
tables  == <<dbStatus, rows, lineRows, chat>>
locals  == <<pc, sess, doc, frames>>
history == <<uploads, acked, filing>>
vars    == <<memory, tables, mutex, locals, history, faults, crashes>>

TypeOK ==
    /\ live \subseteq Sessions
    /\ memStatus \in [Sessions -> Status]
    /\ memLedger \in [Sessions -> Seq(Doc)]
    /\ dbStatus \in [Sessions -> Status \cup {"NONE"}]
    /\ rows \in [Sessions -> Seq(Doc)]
    /\ lineRows \in [UploadId -> Nat]
    /\ chat \in [Sessions -> SUBSET Message]
    /\ mutex \in Threads \cup {None}
    /\ pc \in [Threads -> {"idle"} \cup Entry \cup Inner]
    /\ sess \in [Threads -> Sessions \cup {None}]
    /\ doc \in [Threads -> Doc \cup {None}]
    /\ frames \in [Threads -> Seq({"gap", "summary", "verified"})]
    /\ uploads \in 0 .. MaxUploads
    /\ acked \in [Sessions -> SUBSET UploadId]
    /\ filing \in [Sessions -> Seq(Doc)]
    /\ faults \in 0 .. MaxFaults
    /\ crashes \in 0 .. MaxCrashes

Init ==
    /\ live = {}
    /\ memStatus = [s \in Sessions |-> "ACTIVE"]
    /\ memLedger = [s \in Sessions |-> <<>>]
    /\ dbStatus = [s \in Sessions |-> "NONE"]
    /\ rows = [s \in Sessions |-> <<>>]
    /\ lineRows = [i \in UploadId |-> 0]
    /\ chat = [s \in Sessions |-> {}]
    /\ mutex = None
    /\ pc = [t \in Threads |-> "idle"]
    /\ sess = [t \in Threads |-> None]
    /\ doc = [t \in Threads |-> None]
    /\ frames = [t \in Threads |-> <<>>]
    /\ uploads = 0
    /\ acked = [s \in Sessions |-> {}]
    /\ filing = [s \in Sessions |-> <<>>]
    /\ faults = 0
    /\ crashes = 0

-----------------------------------------------------------------------------
(* Helpers *)

\* t holds the mutex and stands at `place` of a method
At(t, place) == mutex = t /\ pc[t] = place
Goto(t, place) == pc' = [pc EXCEPT ![t] = place]

\* the method returns or throws: lock_guard releases the mutex either way
Leave(t) ==
    /\ mutex' = None
    /\ pc' = [pc EXCEPT ![t] = "idle"]
    /\ sess' = [sess EXCEPT ![t] = None]
    /\ doc' = [doc EXCEPT ![t] = None]
    /\ frames' = [frames EXCEPT ![t] = <<>>]

\* createSession: INSERT OR IGNORE
CreateSession(s) ==
    dbStatus' = [dbStatus EXCEPT ![s] = IF @ = "NONE" THEN "ACTIVE" ELSE @]

\* setSessionStatus: an UPDATE, which changes nothing where there is no row
SetSessionStatus(s, status) ==
    dbStatus' = [dbStatus EXCEPT ![s] = IF @ = "NONE" THEN @ ELSE status]

\* addChatMessage: createSession, then INSERT.  The two statements (here and in
\* saveExtraction) are one step: the first changes nothing once the session has
\* its row, which it always has (ReferencesHold)
AddChatMessage(s, what, id) ==
    /\ CreateSession(s)
    /\ chat' = [chat EXCEPT ![s] = @ \cup {[what |-> what, id |-> id]}]

\* mutant: the SELECT has no WHERE clause
RehydratedAnyones(s) ==
    LET stored == {r \in Sessions : rows[r] # <<>>} IN
    IF stored = {} THEN <<>> ELSE rows[CHOOSE r \in stored : TRUE]

\* invoicesForSession: every stored document, revalidated, in ingestion order
Rehydrated(s) == rows[s]

\* the ledger a filing is generated from: memory first, the database when empty
Gathered(s) == IF memLedger[s] # <<>> THEN memLedger[s] ELSE Rehydrated(s)

Assessed(d)    == IF d.kind = "gaps" THEN "INTERROGATING" ELSE "ACTIVE"
FramesFor(d)   == IF d.kind = "gaps" THEN <<"gap", "summary">> ELSE <<"verified">>
Overflows(led) == \E i \in DOMAIN led : led[i].kind = "overflow"

-----------------------------------------------------------------------------
(* Calling a method, and taking the mutex *)

\* uuid4 outside the lock: an id that nobody has or is about to insert
Fresh(s) == /\ dbStatus[s] = "NONE"
            /\ \A t \in Threads : ~(pc[t] = "open" /\ sess[t] = s)

Call(t) ==
    /\ pc[t] = "idle"
    /\ \E entry \in Entry, s \in Sessions :
          /\ entry = "open" => Fresh(s)
          /\ Goto(t, entry)
          /\ sess' = [sess EXCEPT ![t] = s]
    /\ UNCHANGED <<memory, tables, mutex, doc, frames, history, faults, crashes>>

\* mutant: the method runs without waiting for the mutex
AcquireUnlocked(t) ==
    /\ pc[t] \in Entry /\ mutex # t
    /\ mutex' = t
    /\ UNCHANGED <<memory, tables, locals, history, faults, crashes>>

Acquire(t) ==
    /\ pc[t] \in Entry
    /\ mutex = None
    /\ mutex' = t
    /\ UNCHANGED <<memory, tables, locals, history, faults, crashes>>

-----------------------------------------------------------------------------
(* openSession, closeSession *)

\* mutant: the session lives in memory only
OpenUnstored(t) ==
    LET s == sess[t] IN
    /\ At(t, "open")
    /\ live' = live \cup {s}
    /\ memStatus' = [memStatus EXCEPT ![s] = "ACTIVE"]
    /\ memLedger' = [memLedger EXCEPT ![s] = <<>>]
    /\ Leave(t)
    /\ UNCHANGED <<tables, history, faults, crashes>>

Open(t) ==
    LET s == sess[t] IN
    /\ At(t, "open")
    /\ CreateSession(s)
    /\ live' = live \cup {s}
    /\ memStatus' = [memStatus EXCEPT ![s] = "ACTIVE"]
    /\ memLedger' = [memLedger EXCEPT ![s] = <<>>]
    /\ Leave(t)
    /\ UNCHANGED <<rows, lineRows, chat, history, faults, crashes>>

\* no such session in memory, or it is FILED already
CloseNothing(t) ==
    LET s == sess[t] IN
    /\ At(t, "close")
    /\ s \notin live \/ memStatus[s] = "FILED"
    /\ Leave(t)
    /\ UNCHANGED <<memory, tables, history, faults, crashes>>

\* mutant: closing a session does not ask whether it was filed
CloseAlways(t) ==
    LET s == sess[t] IN
    /\ At(t, "close")
    /\ s \in live
    /\ memStatus' = [memStatus EXCEPT ![s] = "ABANDONED"]
    /\ SetSessionStatus(s, "ABANDONED")
    /\ Leave(t)
    /\ UNCHANGED <<live, memLedger, rows, lineRows, chat, history, faults, crashes>>

Close(t) ==
    LET s == sess[t] IN
    /\ At(t, "close")
    /\ s \in live /\ memStatus[s] # "FILED"
    /\ memStatus' = [memStatus EXCEPT ![s] = "ABANDONED"]
    /\ SetSessionStatus(s, "ABANDONED")
    /\ Leave(t)
    /\ UNCHANGED <<live, memLedger, rows, lineRows, chat, history, faults, crashes>>

-----------------------------------------------------------------------------
(* processUpload *)

\* processUpload and processUserReply: "Unknown session"
Unknown(t) ==
    /\ At(t, "upload") \/ At(t, "reply")
    /\ sess[t] \notin live
    /\ Leave(t)
    /\ UNCHANGED <<memory, tables, history, faults, crashes>>

\* the extractor fails, or the document does not pass the schema contract (both
\* answered with a chat frame), or validation throws json::out_of_range, which
\* the handler for invalid_argument lets through: nothing has changed yet
UploadRefused(t) ==
    /\ At(t, "upload")
    /\ sess[t] \in live
    /\ Leave(t)
    /\ UNCHANGED <<memory, tables, history, faults, crashes>>

\* extracted, validated and evaluated: the invoice enters the memory ledger
UploadAccepted(t) ==
    LET s == sess[t] IN
    /\ At(t, "upload")
    /\ s \in live
    /\ uploads < MaxUploads
    /\ uploads' = uploads + 1
    /\ \E kind \in Kinds, n \in 0 .. MaxLines :
          LET d == [id |-> uploads + 1, kind |-> kind, lines |-> n] IN
          /\ doc' = [doc EXCEPT ![t] = d]
          /\ frames' = [frames EXCEPT ![t] = FramesFor(d)]
          /\ memLedger' = [memLedger EXCEPT ![s] = Append(@, d)]
    /\ Goto(t, "saveInvoice")
    /\ UNCHANGED <<live, memStatus, tables, mutex, sess, acked, filing, faults, crashes>>

\* mutant: the transcript is not archived
AfterLinesSilent(d, stored) == IF stored = d.lines THEN "setStatus" ELSE "saveLine"

AfterLines(d, stored) == IF stored = d.lines THEN "archive" ELSE "saveLine"

\* mutant: the invoice is stored ahead of the ones before it
SaveInvoiceFirst(t) ==
    LET s == sess[t] IN
    /\ At(t, "saveInvoice")
    /\ CreateSession(s)
    /\ rows' = [rows EXCEPT ![s] = <<doc[t]>> \o @]
    /\ Goto(t, AfterLines(doc[t], 0))
    /\ UNCHANGED <<memory, lineRows, chat, mutex, sess, doc, frames, history, faults, crashes>>

\* saveExtraction: the invoices row
SaveInvoice(t) ==
    LET s == sess[t] IN
    /\ At(t, "saveInvoice")
    /\ CreateSession(s)
    /\ rows' = [rows EXCEPT ![s] = Append(@, doc[t])]
    /\ Goto(t, AfterLines(doc[t], 0))
    /\ UNCHANGED <<memory, lineRows, chat, mutex, sess, doc, frames, history, faults, crashes>>

\* mutant: the last line item is not stored
SaveLineShort(t) ==
    LET d == doc[t] IN
    /\ At(t, "saveLine")
    /\ lineRows' = [lineRows EXCEPT ![d.id] = IF @ + 1 = d.lines THEN @ ELSE @ + 1]
    /\ Goto(t, AfterLines(d, lineRows[d.id] + 1))
    /\ UNCHANGED <<memory, dbStatus, rows, chat, mutex, sess, doc, frames, history,
                   faults, crashes>>

\* saveExtraction: one line_items row
SaveLine(t) ==
    LET d == doc[t] IN
    /\ At(t, "saveLine")
    /\ lineRows' = [lineRows EXCEPT ![d.id] = @ + 1]
    /\ Goto(t, AfterLines(d, lineRows[d.id] + 1))
    /\ UNCHANGED <<memory, dbStatus, rows, chat, mutex, sess, doc, frames, history,
                   faults, crashes>>

\* one chat frame of the reply is archived
ArchiveFrame(t) ==
    LET rest == Tail(frames[t]) IN
    /\ At(t, "archive")
    /\ AddChatMessage(sess[t], Head(frames[t]), doc[t].id)
    /\ frames' = [frames EXCEPT ![t] = rest]
    /\ Goto(t, IF rest = <<>> THEN "setStatus" ELSE "archive")
    /\ UNCHANGED <<memory, rows, lineRows, mutex, sess, doc, history, faults, crashes>>

\* the status follows the invoice just processed, and the frames are returned
UploadDone(t) ==
    LET s == sess[t] IN
    /\ At(t, "setStatus")
    /\ SetSessionStatus(s, Assessed(doc[t]))
    /\ memStatus' = [memStatus EXCEPT ![s] = Assessed(doc[t])]
    /\ acked' = [acked EXCEPT ![s] = @ \cup {doc[t].id}]
    /\ Leave(t)
    /\ UNCHANGED <<live, memLedger, rows, lineRows, chat, uploads, filing, faults, crashes>>

-----------------------------------------------------------------------------
(* processUserReply *)

\* the user's note is archived
ReplyUser(t) ==
    /\ At(t, "reply")
    /\ sess[t] \in live
    /\ AddChatMessage(sess[t], "user", 0)
    /\ Goto(t, "replyAck")
    /\ UNCHANGED <<memory, rows, lineRows, mutex, sess, doc, frames, history, faults, crashes>>

\* then the acknowledgement
ReplyAck(t) ==
    /\ At(t, "replyAck")
    /\ AddChatMessage(sess[t], "ack", 0)
    /\ Leave(t)
    /\ UNCHANGED <<memory, rows, lineRows, history, faults, crashes>>

-----------------------------------------------------------------------------
(* requestFiling *)

\* neither in memory nor in the database
FileUnknown(t) ==
    LET s == sess[t] IN
    /\ At(t, "file")
    /\ s \notin live /\ dbStatus[s] = "NONE"
    /\ Leave(t)
    /\ UNCHANGED <<memory, tables, history, faults, crashes>>

\* mutant: adopts with the stored status, without asking whether there is one
FileAdoptUnchecked(t) ==
    LET s == sess[t] IN
    /\ At(t, "file")
    /\ s \notin live
    /\ live' = live \cup {s}
    /\ memStatus' = [memStatus EXCEPT ![s] = dbStatus[s]]
    /\ memLedger' = [memLedger EXCEPT ![s] = <<>>]
    /\ Goto(t, "gather")
    /\ UNCHANGED <<tables, mutex, sess, doc, frames, history, faults, crashes>>

\* cold start: a stored session is adopted as ACTIVE with an empty ledger,
\* whatever its stored status
FileAdopt(t) ==
    LET s == sess[t] IN
    /\ At(t, "file")
    /\ s \notin live /\ dbStatus[s] # "NONE"
    /\ live' = live \cup {s}
    /\ memStatus' = [memStatus EXCEPT ![s] = "ACTIVE"]
    /\ memLedger' = [memLedger EXCEPT ![s] = <<>>]
    /\ Goto(t, "gather")
    /\ UNCHANGED <<tables, mutex, sess, doc, frames, history, faults, crashes>>

FileFound(t) ==
    /\ At(t, "file")
    /\ sess[t] \in live
    /\ Goto(t, "gather")
    /\ UNCHANGED <<memory, tables, mutex, sess, doc, frames, history, faults, crashes>>

\* the ledger becomes `led` and the returns are generated from it: none are when
\* it is empty ("No verified invoices are available"), or when taxOn throws
TakeLedger(t, led) ==
    /\ memLedger' = [memLedger EXCEPT ![sess[t]] = led]
    /\ IF led = <<>> \/ Overflows(led)
       THEN Leave(t)
       ELSE Goto(t, "fileChat") /\ UNCHANGED <<mutex, sess, doc, frames>>
    /\ UNCHANGED <<live, memStatus, tables, history, crashes>>

\* mutant: the stored invoices are added to those in memory
GatherBoth(t) ==
    /\ At(t, "gather")
    /\ Len(memLedger[sess[t]]) <= MaxUploads
    /\ TakeLedger(t, memLedger[sess[t]] \o Rehydrated(sess[t]))
    /\ UNCHANGED faults

Gather(t) ==
    /\ At(t, "gather")
    /\ TakeLedger(t, Gathered(sess[t]))
    /\ UNCHANGED faults

\* the transcript records how many invoices the filing holds
FileChat(t) ==
    LET s == sess[t] IN
    /\ At(t, "fileChat")
    /\ AddChatMessage(s, "filed", Len(memLedger[s]))
    /\ Goto(t, "fileStatus")
    /\ UNCHANGED <<memory, rows, lineRows, mutex, sess, doc, frames, history, faults, crashes>>

\* FILED in the database, then in memory, and FILING_READY is returned
FileDone(t) ==
    LET s == sess[t] IN
    /\ At(t, "fileStatus")
    /\ SetSessionStatus(s, "FILED")
    /\ memStatus' = [memStatus EXCEPT ![s] = "FILED"]
    /\ filing' = [filing EXCEPT ![s] = memLedger[s]]
    /\ Leave(t)
    /\ UNCHANGED <<live, memLedger, rows, lineRows, chat, uploads, acked, faults, crashes>>

-----------------------------------------------------------------------------
(* Failures *)

\* where a method stands before a statement; closeSession and requestFiling
\* reach theirs only on some of their paths
AtStatement(t) ==
    LET s == sess[t] IN
    \/ pc[t] \in {"open", "saveInvoice", "saveLine", "archive", "setStatus",
                  "replyAck", "fileChat", "fileStatus"}
    \/ pc[t] = "reply" /\ s \in live
    \/ pc[t] = "close" /\ s \in live /\ memStatus[s] # "FILED"
    \/ pc[t] = "file" /\ s \notin live
    \/ pc[t] = "gather" /\ memLedger[s] = <<>>

\* the statement fails and the method throws (requestFiling takes a failing
\* lookup of the session for an unknown one and returns): memory keeps what the
\* method did to it before the statement, the tables what was committed
StatementFails(t) ==
    LET s == sess[t] IN
    /\ mutex = t /\ AtStatement(t)
    /\ faults < MaxFaults
    /\ faults' = faults + 1
    /\ memStatus' = IF pc[t] = "close" THEN [memStatus EXCEPT ![s] = "ABANDONED"]
                                       ELSE memStatus
    /\ Leave(t)
    /\ UNCHANGED <<live, memLedger, tables, history, crashes>>

\* sqlite3_step fails while rehydrating, after n rows: invoicesForSession takes
\* the error for the end of the result and returns the rows it has
RehydrationStops(t) ==
    LET s == sess[t] IN
    /\ At(t, "gather") /\ memLedger[s] = <<>>
    /\ faults < MaxFaults
    /\ faults' = faults + 1
    /\ \E n \in 0 .. Len(rows[s]) - 1 : TakeLedger(t, SubSeq(rows[s], 1, n))

\* the process dies and is started again: the database file is what is left
Crash ==
    /\ crashes < MaxCrashes
    /\ crashes' = crashes + 1
    /\ live' = {}
    /\ memStatus' = [s \in Sessions |-> "ACTIVE"]
    /\ memLedger' = [s \in Sessions |-> <<>>]
    /\ mutex' = None
    /\ pc' = [t \in Threads |-> "idle"]
    /\ sess' = [t \in Threads |-> None]
    /\ doc' = [t \in Threads |-> None]
    /\ frames' = [t \in Threads |-> <<>>]
    /\ UNCHANGED <<tables, history, faults>>

-----------------------------------------------------------------------------
Session(t) == Open(t) \/ CloseNothing(t) \/ Close(t)
Upload(t)  == \/ Unknown(t) \/ UploadRefused(t) \/ UploadAccepted(t) \/ SaveInvoice(t)
              \/ SaveLine(t) \/ ArchiveFrame(t) \/ UploadDone(t)
Reply(t)   == ReplyUser(t) \/ ReplyAck(t)
File(t)    == \/ FileUnknown(t) \/ FileAdopt(t) \/ FileFound(t)
              \/ Gather(t) \/ FileChat(t) \/ FileDone(t)
Fault(t)   == StatementFails(t) \/ RehydrationStops(t)

\* a step of the method that t runs
Handler(t) == Session(t) \/ Upload(t) \/ Reply(t) \/ File(t) \/ Fault(t)

Next == (\E t \in Threads : Call(t) \/ Acquire(t) \/ Handler(t)) \/ Crash
Spec == Init /\ [][Next]_vars

-----------------------------------------------------------------------------
(* Properties *)

Stored(s)  == {rows[s][i].id : i \in DOMAIN rows[s]}
Before(a, b) == a.id < b.id
InOrder(led) == \A i, j \in DOMAIN led : i < j => Before(led[i], led[j])

\* While no method runs, the in-memory ledger of every live session is the
\* stored one, in the same order: processUpload appends to the one before it
\* writes the other, and several uploads of a session may be under way
\* (Pipeline.cpp:223-224).  Failing statements break it; crashes do not.
LedgersAgree ==
    mutex = None => \A s \in live : memLedger[s] = rows[s]

\* Every FILING_READY frame is generated from all the invoices stored for its
\* session, whether the ledger came from memory or was rehydrated after a
\* restart (Pipeline.hpp:19-22).
FilingIsComplete ==
    [][\A s \in Sessions : filing'[s] # filing[s] => filing'[s] = rows'[s]]_vars

\* No filing holds an invoice twice or out of ingestion order, whatever failed
\* and restarted before it (InvoiceRepository.hpp:77).
FilingInOrder == \A s \in Sessions : InOrder(filing[s])

\* closeSession goes by the status in memory, and a restart makes it differ from the
\* stored one (Pipeline.cpp:111, 296).  A stored FILED is overwritten by ABANDONED
\* nowhere but after a restart, and there only where a statement has failed, or where
\* the stored ledger overflows, so that filing it again throws once it is adopted.
FiledStays ==
    [][\A s \in Sessions :
          dbStatus[s] = "FILED" /\ dbStatus'[s] = "ABANDONED"
          => crashes > 0 /\ (faults > 0 \/ Overflows(rows[s]))]_vars

\* Documented, and not so in the cases that FiledStays leaves: closing a session is
\* a no-op when it is already FILED (Pipeline.hpp:84-85).
NeverUnfiled ==
    [][\A s \in Sessions : dbStatus[s] = "FILED" => dbStatus'[s] # "ABANDONED"]_vars

\* An upload whose frames were returned survives crashes and failing statements
\* whole: its row, all its line items, and the frames themselves.
AckedIsDurable ==
    \A s \in Sessions : \A i \in acked[s] :
        \E d \in {rows[s][k] : k \in DOMAIN rows[s]} :
            /\ d.id = i
            /\ lineRows[i] = d.lines
            /\ {[what |-> FramesFor(d)[k], id |-> i] : k \in DOMAIN FramesFor(d)} \subseteq chat[s]

\* The stored status can always be explained from the other tables: a session
\* under interrogation has an invoice whose gap was put to the user, and a filed
\* one a transcript entry of the filing.
StatusIsJustified ==
    \A s \in Sessions :
        /\ dbStatus[s] = "INTERROGATING" =>
              \E m \in chat[s] : m.what = "gap" /\ m.id \in Stored(s)
        /\ dbStatus[s] = "FILED" => \E m \in chat[s] : m.what = "filed"

\* Nothing refers to a session without a row in tax_sessions: setSessionStatus
\* would silently change nothing (InvoiceRepository.hpp:63), and the foreign
\* keys would refuse the row.
ReferencesHold ==
    \A s \in Sessions :
        s \in live \/ rows[s] # <<>> \/ chat[s] # {} => dbStatus[s] # "NONE"

\* Documented, and not so when a statement fails: rehydration is lossless
\* (InvoiceRepository.hpp:77), so a filing holds every invoice whose upload
\* returned its frames, also after a restart.
AckedIsFiled ==
    [][\A s \in Sessions : filing'[s] # filing[s] =>
          acked[s] \subseteq {filing'[s][k].id : k \in DOMAIN filing'[s]}]_vars

\* Documented, and not so when a statement fails: what was filed can be rebuilt
\* from the database (InvoiceRepository.hpp:11-14).
FiledIsStored ==
    \A s \in Sessions : \A i \in DOMAIN filing[s] : filing[s][i].id \in Stored(s)
=============================================================================
