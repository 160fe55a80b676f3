--------------------------- MODULE GatewayProofs ---------------------------
(***************************************************************************)
(* The gateway only calls the pipeline in ways that Pipeline allows, so    *)
(* that what is proved of the pipeline holds behind it; and the sessions   *)
(* of the sockets: each is one socket's own, none is left without one, and *)
(* none that was abandoned is touched again.  For any number of sockets,   *)
(* threads, messages, failing statements and crashes.                      *)
(***************************************************************************)
EXTENDS Gateway, PipelineProofs, FiniteSetTheorems

\* The steps of the gateway, by what they do to the pipeline.
LEMMA GatewaySteps ==
    ASSUME GNext
    PROVE  \/ UNCHANGED vars
           \/ \E t \in Threads : Call(t) /\ pc'[t] # "idle"
           \/ \E t \in Threads : Method(t)
           \/ GCrash
<1>1. ASSUME NEW c \in Sockets, Client(c) PROVE UNCHANGED vars
  BY <1>1 DEF Client, Send, HangUp
<1>2. ASSUME NEW t, NEW c, NEW kind, NEW entry \in Entry, NEW s, Calls(t, c, kind, entry, s)
      PROVE  Call(t) /\ pc'[t] # "idle"
  BY <1>2 DEF Calls, Entry
<1>3. ASSUME NEW t \in Threads, NEW c \in Sockets, NEW busy, CheckDestroy(t, c, busy)
      PROVE  UNCHANGED vars \/ (Call(t) /\ pc'[t] # "idle")
  BY <1>2, <1>3 DEF CheckDestroy, NoCall, Entry
<1>4. ASSUME NEW t \in Threads, NEW c \in Sockets, Accept(t, c)
      PROVE  Call(t) /\ pc'[t] # "idle"
  BY <1>2, <1>4 DEF Accept, Entry
<1>5. ASSUME NEW t \in Threads, NEW c \in Sockets,
             OpenReturns(t, c) \/ OnMessage(t, c) \/ OnClose(t, c) \/ Writes(t, c)
      PROVE  UNCHANGED vars \/ (Call(t) /\ pc'[t] # "idle")
  <2>1. CASE OpenReturns(t, c) \/ MessageReturns(t, c) \/ CloseFrameReturns(t, c)
             \/ DestroyReturns(t, c)
    BY <2>1 DEF OpenReturns, MessageReturns, CloseFrameReturns, DestroyReturns, Returned
  <2>2. CASE ReadRefused(t, c) \/ Flush(t, c) \/ WriteDone(t, c)
    BY <2>2 DEF ReadRefused, Flush, WriteDone, NoCall
  <2>3. CASE ReadMessage(t, c)
    BY <1>2, <2>3 DEF ReadMessage, Entry
  <2>4. CASE ReadCloseFrame(t, c)
    BY <1>2, <2>4 DEF ReadCloseFrame, NoCall, Entry
  <2>5. CASE ReadError(t, c) \/ WriteFails(t, c)
    BY <1>3, <2>5 DEF ReadError, WriteFails
  <2>6. QED
    BY <1>5, <2>1, <2>2, <2>3, <2>4, <2>5 DEF OnMessage, OnClose, Writes
<1>6. QED
  BY <1>1, <1>4, <1>5 DEF GNext, Serve

LEMMA GatewayStepIsPipelineStep == [GNext]_gvars => [Next]_vars
<1>1. GNext => [Next]_vars
  BY GatewaySteps DEF Next, Method, GCrash
<1>2. UNCHANGED gvars => UNCHANGED vars
  BY DEF gvars
<1>3. QED
  BY <1>1, <1>2

\* Every behaviour of the gateway is one of the pipeline.
THEOREM GatewayImplementsPipeline == GSpec => Spec
<1>1. GInit => Init
  BY DEF GInit
<1>2. QED
  BY <1>1, GatewayStepIsPipelineStep, PTL DEF GSpec, Spec
-----------------------------------------------------------------------------
(* What a step of a method does, as far as sockets depend on it *)

LEMMA MethodThreads ==
    ASSUME NEW t \in Threads, SessionInv, Acquire(t) \/ Handler(t)
    PROVE  /\ pc[t] # "idle" /\ sess[t] \in Sessions
           /\ \A u \in Threads : u # t => pc'[u] = pc[u] /\ sess'[u] = sess[u]
           /\ pc'[t] # "idle" => /\ sess'[t] = sess[t]
                                 /\ pc'[t] = "open" <=> pc[t] = "open"
                                 /\ pc'[t] = "close" <=> pc[t] = "close"
<1>1. CASE Acquire(t)
  BY <1>1 DEF Acquire, locals, Entry, SessionInv, BaseInv, LocalInv
<1>2. CASE Handler(t)
  <2>1. mutex = t
    BY <1>2
    DEF Handler, Session, Open, CloseNothing, Close, Upload, Unknown, UploadRefused,
        UploadAccepted, SaveInvoice, SaveLine, ArchiveFrame, UploadDone, Reply, ReplyUser,
        ReplyAck, File, FileUnknown, FileAdopt, FileFound, Gather, FileChat, FileDone, Fault,
        StatementFails, RehydrationStops, At
  <2>2. CASE Leave(t)
    BY <2>1, <2>2, HolderIsLive DEF Leave, SessionInv, BaseInv, TypeOK, LockInv
  <2>3. CASE ~Leave(t)
    <3>1. /\ pc[t] \notin {"open", "close"} /\ sess' = sess
          /\ \E place \in Inner : Goto(t, place)
      BY <1>2, <2>3
      DEF Handler, Session, Open, CloseNothing, Close, Upload, Unknown, UploadRefused,
          UploadAccepted, SaveInvoice, SaveLine, AfterLines, ArchiveFrame, UploadDone, Reply,
          ReplyUser, ReplyAck, File, FileUnknown, FileAdopt, FileFound, Gather, TakeLedger,
          FileChat, FileDone, Fault, StatementFails, RehydrationStops, At, Inner
    <3>2. QED
      BY <2>1, <3>1, HolderIsLive DEF Goto, Inner, SessionInv, BaseInv, TypeOK, LockInv
  <2>4. QED
    BY <2>2, <2>3
<1>3. QED
  BY <1>1, <1>2

\* Only the session of the thread changes its status, in memory and stored, and only
\* in these ways.
LEMMA MethodStatus ==
    ASSUME NEW t \in Threads, SessionInv, Acquire(t) \/ Handler(t)
    PROVE  /\ live \subseteq live' /\ live' \subseteq live \cup {sess[t]}
           /\ \A s \in Sessions : s # sess[t] =>
                 memStatus'[s] = memStatus[s] /\ dbStatus'[s] = dbStatus[s]
           /\ pc[t] = "open" =>
                 \/ UNCHANGED <<live, memStatus, dbStatus>> /\ (pc'[t] = "idle" => faults' # faults)
                 \/ /\ sess[t] \in live' /\ dbStatus[sess[t]] = "NONE"
                    /\ dbStatus'[sess[t]] = "ACTIVE"
                    /\ pc'[t] = "idle" /\ faults' = faults
           /\ pc[t] = "close" =>
                 /\ live' = live
                 /\ sess[t] \in live /\ pc'[t] = "idle"
                       => memStatus'[sess[t]] \in {"FILED", "ABANDONED"}
                 /\ \/ dbStatus'[sess[t]] = dbStatus[sess[t]]
                    \/ dbStatus'[sess[t]] = "ABANDONED" /\ pc'[t] = "idle" /\ faults' = faults
           /\ pc[t] \notin {"open", "close"} /\ dbStatus'[sess[t]] = "ABANDONED"
                 => dbStatus[sess[t]] = "ABANDONED"
<1> DEFINE s == sess[t]
<1>1. CASE Acquire(t)
  BY <1>1 DEF Acquire, memory, tables, locals, Entry
<1>2. CASE Handler(t)
  <2>1. mutex = t
    BY <1>2
    DEF Handler, Session, Open, CloseNothing, Close, Upload, Unknown, UploadRefused,
        UploadAccepted, SaveInvoice, SaveLine, ArchiveFrame, UploadDone, Reply, ReplyUser,
        ReplyAck, File, FileUnknown, FileAdopt, FileFound, Gather, FileChat, FileDone, Fault,
        StatementFails, RehydrationStops, At
  <2>2. s \in Sessions /\ TypeOK /\ (pc[t] \in Inner => s \in live)
    BY <2>1, HolderIsLive DEF SessionInv, BaseInv
  <2>3. Leave(t) => pc'[t] = "idle"
    BY <2>2 DEF Leave, TypeOK
  <2>4. CASE Open(t)
    <3>1. pc[t] = "open" /\ dbStatus[s] = "NONE" /\ live' = live \cup {s} /\ faults' = faults
          /\ Leave(t)
      BY <2>4 DEF Open, At, SessionInv, OpeningInv
    <3>2. dbStatus' = [dbStatus EXCEPT ![s] = "ACTIVE"]
          /\ memStatus' = [memStatus EXCEPT ![s] = "ACTIVE"]
      BY <2>2, <2>4, <3>1 DEF Open, CreateSession, TypeOK
    <3>3. QED
      BY <2>2, <2>3, <3>1, <3>2 DEF TypeOK
  <2>5. CASE CloseNothing(t)
    BY <2>2, <2>3, <2>5 DEF CloseNothing, At, memory, tables
  <2>6. CASE Close(t)
    <3>1. /\ pc[t] = "close" /\ s \in live /\ live' = live /\ faults' = faults /\ Leave(t)
          /\ memStatus' = [memStatus EXCEPT ![s] = "ABANDONED"]
          /\ dbStatus' = [dbStatus EXCEPT ![s] = IF @ = "NONE" THEN @ ELSE "ABANDONED"]
      BY <2>6 DEF Close, At, SetSessionStatus
    <3>2. QED
      BY <2>2, <2>3, <3>1 DEF TypeOK
  <2>7. CASE StatementFails(t)
    <3>1. /\ Leave(t) /\ UNCHANGED <<live, dbStatus>> /\ faults' # faults
          /\ memStatus' = IF pc[t] = "close" THEN [memStatus EXCEPT ![s] = "ABANDONED"]
                                             ELSE memStatus
      BY <2>2, <2>7, BoundAssumption DEF StatementFails, tables, TypeOK
    <3>2. QED
      BY <2>2, <2>3, <3>1 DEF TypeOK
  <2>8. CASE FileAdopt(t)
    BY <2>2, <2>8 DEF FileAdopt, At, tables, TypeOK
  <2>9. CASE UploadDone(t) \/ FileDone(t)
    <3>1. PICK status \in {"ACTIVE", "INTERROGATING", "FILED"} :
             /\ SetSessionStatus(s, status)
             /\ memStatus' = [memStatus EXCEPT ![s] = status]
      BY <2>9 DEF UploadDone, FileDone, Assessed
    <3>2. pc[t] \in {"setStatus", "fileStatus"} /\ live' = live
      BY <2>9 DEF UploadDone, FileDone, At
    <3>3. QED
      BY <2>2, <3>1, <3>2 DEF SetSessionStatus, TypeOK
  <2>10. CASE Reply(t) \/ ArchiveFrame(t) \/ FileChat(t) \/ SaveInvoice(t)
    <3>1. pc[t] \notin {"open", "close"} /\ UNCHANGED <<live, memStatus>> /\ CreateSession(s)
      BY <2>10 DEF Reply, ReplyUser, ReplyAck, ArchiveFrame, FileChat, SaveInvoice, At,
                   AddChatMessage, memory
    <3>2. QED
      BY <2>2, <3>1 DEF CreateSession, TypeOK
  <2>11. CASE \/ Unknown(t) \/ UploadRefused(t) \/ UploadAccepted(t) \/ SaveLine(t)
              \/ FileUnknown(t) \/ FileFound(t) \/ Gather(t) \/ RehydrationStops(t)
    BY <2>11 DEF Unknown, UploadRefused, UploadAccepted, SaveLine, FileUnknown, FileFound,
                 Gather, RehydrationStops, TakeLedger, At, memory, tables
  <2>12. QED
    BY <1>2, <2>4, <2>5, <2>6, <2>7, <2>8, <2>9, <2>10, <2>11
    DEF Handler, Session, Upload, File, Fault
<1>3. QED
  BY <1>1, <1>2
-----------------------------------------------------------------------------
(* The invariant of sockets and handlers *)

Closing    == {"closeFrame", "destroy"}
Opening(t) == job[t].kind = "open" /\ outcome[t] # "failed"
Names(c, s) == conn[c] = "live" /\ userdata[c] = s

\* A handler runs for a live socket of its thread and for the session bound to it
\* (onopen: not bound yet); what its method has done by the time it ends.
JobAt(t) ==
    LET c == job[t].sock
        s == job[t].sess
        kind == job[t].kind
    IN  /\ job[t] = NoJob => pc[t] = "idle"
        /\ job[t] # NoJob => conn[c] = "live" /\ worker[c] = t
        /\ pc[t] # "idle" => /\ sess[t] = s
                             /\ pc[t] = "open" <=> kind = "open"
                             /\ pc[t] = "close" <=> kind \in Closing
        /\ pc[t] = "open" => outcome[t] # "failed"
        /\ kind = "open" => userdata[c] = None
        /\ kind \in {"message"} \cup Closing => userdata[c] = s
        /\ kind \in {"open", "message", "destroy"} => ~called[c]
        /\ kind \in Closing /\ pc[t] = "idle" => Done(s)
        /\ Opening(t) /\ pc[t] = "idle" => s \in live /\ dbStatus[s] \notin {"NONE", "ABANDONED"}

JobInv == \A t \in Threads : JobAt(t)

\* A session is bound to one socket, and only when no handler opens it any more.
OwnInv ==
    /\ \A c \in Sockets : conn[c] = "none" => userdata[c] = None /\ ~called[c]
    /\ \A c \in Sockets, s \in Sessions : Names(c, s) =>
          /\ s \in live
          /\ \A d \in Sockets : Names(d, s) => d = c
          /\ \A t \in Threads : Opening(t) => job[t].sess # s
    /\ \A t, u \in Threads : Opening(t) /\ Opening(u) /\ job[t].sess = job[u].sess => t = u

\* Once the close handler was called the socket is not read, and its session is
\* over or about to be; an abandoned session is bound for as long only as the
\* handler that closed it has not returned.
ClosedInv ==
    /\ \A c \in Sockets : conn[c] = "live" /\ called[c] => ~reading[c]
    /\ \A c \in Sockets, s \in Sessions : Names(c, s) =>
          /\ called[c] => Done(s) \/ \E t \in Threads : job[t].sock = c
          /\ dbStatus[s] = "ABANDONED" => \E t \in Threads :
                /\ job[t].sock = c /\ job[t].kind \in Closing
                /\ pc[t] = "idle" /\ outcome[t] # "failed"

OrphanInv ==
    \A s \in live :
        \/ Done(s)
        \/ \E c \in Sockets : Names(c, s)
        \/ \E t \in Threads : Opening(t) /\ pc[t] = "idle" /\ job[t].sess = s

SocketInv == JobInv /\ OwnInv /\ ClosedInv /\ OrphanInv
\* No more messages are on their way than were sent.
PendingInv == \A c \in Sockets : pending[c] <= sent

GInv == GTypeOK /\ SessionInv /\ SocketInv /\ PendingInv

\* What the types say of a job.
LEMMA JobFacts ==
    ASSUME NEW t \in Threads, GTypeOK
    PROVE  /\ job[t] # NoJob => /\ job[t].sock \in Sockets /\ job[t].sess \in Sessions
                                /\ job[t].kind \in {"open", "message", "closeFrame", "destroy"}
           /\ job[t] = NoJob => job[t].sock \notin Sockets /\ job[t].kind = "none"
  BY SocketsAssumption DEF GTypeOK, Job, NoJob

\* A socket has one worker, so one handler runs for it at a time.
LEMMA OneHandler ==
    ASSUME GTypeOK, JobInv, NEW t \in Threads, NEW c \in Sockets
    PROVE  /\ job[t].sock = c => conn[c] = "live" /\ worker[c] = t /\ job[t] # NoJob
           /\ \A u \in Threads : job[t].sock = c /\ job[u].sock = c => u = t
  BY JobFacts DEF JobInv, JobAt

\* Two threads never work for the same session.
LEMMA Exclusive ==
    ASSUME GInv, NEW t \in Threads, NEW u \in Threads, u # t, pc[t] # "idle",
           job[u].kind \in {"message"} \cup Closing \/ Opening(u)
    PROVE  job[u].sess # sess[t]
<1>1. job[t] # NoJob /\ job[u] # NoJob /\ sess[t] = job[t].sess
  BY JobFacts DEF GInv, SocketInv, JobInv, JobAt, Opening, Closing
<1>2. CASE job[t].kind = "open"
  <2>1. Opening(t)
    BY <1>2 DEF GInv, SocketInv, JobInv, JobAt, Opening
  <2>2. CASE Opening(u)
    BY <1>1, <2>1, <2>2 DEF GInv, SocketInv, OwnInv
  <2>3. CASE job[u].kind \in {"message"} \cup Closing
    <3>1. Names(job[u].sock, job[u].sess) /\ job[u].sock \in Sockets /\ job[u].sess \in Sessions
      BY <1>1, <2>3, JobFacts DEF GInv, SocketInv, JobInv, JobAt, Names
    <3>2. QED
      BY <1>1, <2>1, <3>1 DEF GInv, SocketInv, OwnInv
  <2>4. QED
    BY <2>2, <2>3
<1>3. CASE job[t].kind # "open"
  <2>1. /\ Names(job[t].sock, job[t].sess) /\ job[t].sock \in Sockets
        /\ job[t].sess \in Sessions
    BY <1>1, <1>3, JobFacts DEF GInv, SocketInv, JobInv, JobAt, Names, Closing
  <2>2. CASE Opening(u)
    BY <1>1, <2>1, <2>2 DEF GInv, SocketInv, OwnInv
  <2>3. CASE job[u].kind \in {"message"} \cup Closing
    <3>1. Names(job[u].sock, job[u].sess) /\ job[u].sock \in Sockets
      BY <1>1, <2>3, JobFacts DEF GInv, SocketInv, JobInv, JobAt, Names
    <3>2. job[u].sess = job[t].sess => job[u].sock = job[t].sock
      BY <2>1, <3>1 DEF GInv, SocketInv, OwnInv
    <3>3. QED
      BY <1>1, <2>1, <3>2, OneHandler DEF GInv, SocketInv
  <2>4. QED
    BY <2>2, <2>3
<1>4. QED
  BY <1>2, <1>3
-----------------------------------------------------------------------------
(* A step of a method *)

LEMMA MethodJobs ==
    ASSUME NEW t \in Threads, GInv, Method(t)
    PROVE  JobInv'
<1>1. /\ SessionInv /\ GTypeOK /\ (Acquire(t) \/ Handler(t)) /\ job[t] # NoJob
      /\ UNCHANGED <<conn, worker, called, userdata, job>>
      /\ \A u \in Threads : u # t => outcome'[u] = outcome[u]
      /\ faults' = faults => outcome'[t] # "failed"
  BY RepliesAssumption DEF Method, GInv, GTypeOK, sockets
<1>2. /\ pc[t] # "idle" /\ sess[t] \in Sessions /\ sess[t] = job[t].sess
      /\ \A u \in Threads : u # t => pc'[u] = pc[u] /\ sess'[u] = sess[u]
  BY <1>1, MethodThreads DEF GInv, SocketInv, JobInv, JobAt
<1>3. ASSUME NEW u \in Threads, u # t PROVE JobAt(u)'
  <2>1. job[u].kind \in {"message"} \cup Closing \/ Opening(u)
           => job[u].sess # sess[t] /\ job[u].sess \in Sessions
    BY <1>1, <1>2, <1>3, Exclusive, JobFacts DEF Opening, Closing
  <2>2. job[u].kind \in Closing /\ pc'[u] = "idle" => Done(job[u].sess)'
    <3>1. SUFFICES ASSUME job[u].kind \in Closing, pc[u] = "idle"
                   PROVE  memStatus'[job[u].sess] \in {"FILED", "ABANDONED"}
      BY <1>1, <1>2, <1>3 DEF Done
    <3>2. memStatus'[job[u].sess] = memStatus[job[u].sess]
      BY <1>1, <2>1, <3>1, MethodStatus
    <3>3. QED
      BY <3>1, <3>2 DEF GInv, SocketInv, JobInv, JobAt, Done
  <2>3. Opening(u) /\ pc'[u] = "idle"
           => job[u].sess \in live' /\ dbStatus'[job[u].sess] \notin {"NONE", "ABANDONED"}
    BY <1>1, <1>2, <1>3, <2>1, MethodStatus DEF GInv, SocketInv, JobInv, JobAt
  <2>4. Opening(u)' <=> Opening(u)
    BY <1>1, <1>3 DEF Opening
  <2>5. QED
    BY <1>1, <1>2, <1>3, <2>2, <2>3, <2>4 DEF GInv, SocketInv, JobInv, JobAt
<1>4. JobAt(t)'
  <2>1. JobAt(t)
    BY DEF GInv, SocketInv, JobInv
  <2>2. pc'[t] # "idle" => /\ sess'[t] = sess[t]
                           /\ pc'[t] = "open" <=> pc[t] = "open"
                           /\ pc'[t] = "close" <=> pc[t] = "close"
    BY <1>1, MethodThreads
  <2>3. pc'[t] = "open" => outcome'[t] # "failed"
    <3>1. SUFFICES ASSUME pc'[t] = "open" PROVE Acquire(t)
      BY <1>1 DEF Acquire
    <3>2. ~Leave(t) /\ \A place \in Inner : ~Goto(t, place)
      BY <3>1 DEF Leave, Goto, Inner, GInv, SessionInv, BaseInv, TypeOK
    <3>3. QED
      BY <1>1, <3>2
      DEF Handler, Session, Open, CloseNothing, Close, Upload, Unknown, UploadRefused,
          UploadAccepted, SaveInvoice, SaveLine, AfterLines, ArchiveFrame, UploadDone, Reply,
          ReplyUser, ReplyAck, File, FileUnknown, FileAdopt, FileFound, Gather, TakeLedger,
          FileChat, FileDone, Fault, StatementFails, RehydrationStops, Inner
  <2>4. job[t].kind \in Closing /\ pc'[t] = "idle" => Done(job[t].sess)'
    <3>1. SUFFICES ASSUME job[t].kind \in Closing, pc'[t] = "idle"
                   PROVE  memStatus'[job[t].sess] \in {"FILED", "ABANDONED"}
      BY <1>1 DEF Done
    <3>2. pc[t] = "close"
      BY <1>2, <2>1, <3>1 DEF JobAt
    <3>3. Names(job[t].sock, job[t].sess) /\ job[t].sock \in Sockets
      BY <1>1, <2>1, <3>1, JobFacts DEF JobAt, Names, Closing
    <3>4. sess[t] \in live
      BY <1>2, <3>3 DEF GInv, SocketInv, OwnInv
    <3>5. QED
      BY <1>1, <1>2, <3>1, <3>2, <3>4, MethodStatus
  <2>5. Opening(t)' /\ pc'[t] = "idle"
           => job[t].sess \in live' /\ dbStatus'[job[t].sess] \notin {"NONE", "ABANDONED"}
    <3>1. SUFFICES ASSUME job[t].kind = "open", outcome'[t] # "failed", pc'[t] = "idle"
                   PROVE  job[t].sess \in live' /\ dbStatus'[job[t].sess] = "ACTIVE"
      BY <1>1 DEF Opening
    <3>2. pc[t] = "open"
      BY <1>2, <2>1, <3>1 DEF JobAt
    <3>3. faults' = faults
      BY <1>1, <3>1 DEF Method, GInv, GTypeOK
    <3>4. QED
      BY <1>1, <1>2, <3>1, <3>2, <3>3, MethodStatus
  <2>6. QED
    BY <1>1, <1>2, <2>1, <2>2, <2>3, <2>4, <2>5 DEF JobAt
<1>5. QED
  BY <1>3, <1>4 DEF JobInv

LEMMA MethodSockets ==
    ASSUME NEW t \in Threads, GInv, Method(t)
    PROVE  OwnInv' /\ ClosedInv' /\ OrphanInv'
<1>1. /\ SessionInv /\ GTypeOK /\ (Acquire(t) \/ Handler(t)) /\ job[t] # NoJob
      /\ UNCHANGED <<conn, worker, reading, called, userdata, job>>
      /\ \A u \in Threads : u # t => outcome'[u] = outcome[u]
      /\ faults' = faults => outcome'[t] # "failed"
      /\ faults' # faults => outcome'[t] = "failed"
  BY RepliesAssumption DEF Method, GInv, GTypeOK, sockets
<1>2. /\ pc[t] # "idle" /\ sess[t] \in Sessions /\ sess[t] = job[t].sess /\ JobAt(t)
      /\ \A u \in Threads : u # t => pc'[u] = pc[u]
      /\ live \subseteq live'
  BY <1>1, MethodThreads, MethodStatus DEF GInv, SocketInv, JobInv, JobAt
<1>3. \A u \in Threads : Opening(u)' => Opening(u)
  BY <1>1, <1>2 DEF Opening, JobAt
<1>4. \A c \in Sockets : \A s : Names(c, s)' <=> Names(c, s)
  BY <1>1 DEF Names
<1>5. OwnInv'
  BY <1>1, <1>2, <1>3, <1>4 DEF GInv, SocketInv, OwnInv
\* the socket of the handler, where the method is for a session that is bound
<1>6. job[t].kind # "open" => /\ Names(job[t].sock, sess[t]) /\ job[t].sock \in Sockets
                              /\ \A c \in Sockets : Names(c, sess[t]) => c = job[t].sock
  <2>1. SUFFICES ASSUME job[t].kind # "open"
                 PROVE  Names(job[t].sock, sess[t]) /\ job[t].sock \in Sockets
    BY <1>2 DEF GInv, SocketInv, OwnInv
  <2>2. QED
    BY <1>1, <1>2, <2>1, JobFacts DEF JobAt, Names, Closing
<1>7. job[t].kind = "open" => pc[t] = "open" /\ \A c \in Sockets : ~Names(c, sess[t])
  <2>1. SUFFICES ASSUME job[t].kind = "open"
                 PROVE  pc[t] = "open" /\ \A c \in Sockets : ~Names(c, sess[t])
    OBVIOUS
  <2>2. pc[t] = "open" /\ Opening(t)
    BY <1>2, <2>1 DEF JobAt, Opening
  <2>3. QED
    BY <1>2, <2>2 DEF GInv, SocketInv, OwnInv
<1>8. ClosedInv'
  <2>1. \A c \in Sockets : conn'[c] = "live" /\ called'[c] => ~reading'[c]
    BY <1>1 DEF GInv, SocketInv, ClosedInv
  <2>2. ASSUME NEW c \in Sockets, NEW s \in Sessions, Names(c, s), called[c]
        PROVE  Done(s)' \/ \E u \in Threads : job[u].sock = c
    <3>1. CASE s = sess[t]
      BY <1>6, <1>7, <2>2, <3>1
    <3>2. CASE s # sess[t]
      <4>1. memStatus'[s] = memStatus[s]
        BY <1>1, <3>2, MethodStatus
      <4>2. QED
        BY <2>2, <4>1 DEF GInv, SocketInv, ClosedInv, Done
    <3>3. QED
      BY <3>1, <3>2
  <2>3. ASSUME NEW c \in Sockets, NEW s \in Sessions, Names(c, s), dbStatus'[s] = "ABANDONED"
        PROVE  \E u \in Threads : /\ job[u].sock = c /\ job[u].kind \in Closing
                                  /\ pc'[u] = "idle" /\ outcome'[u] # "failed"
    <3>1. CASE dbStatus[s] = "ABANDONED"
      <4>1. PICK u \in Threads : /\ job[u].sock = c /\ job[u].kind \in Closing
                                 /\ pc[u] = "idle" /\ outcome[u] # "failed"
        BY <2>3, <3>1 DEF GInv, SocketInv, ClosedInv
      <4>2. QED
        BY <1>1, <1>2, <4>1
    <3>2. CASE dbStatus[s] # "ABANDONED"
      <4>1. s = sess[t] /\ pc[t] \notin {"open"}
        BY <1>1, <1>2, <1>7, <2>3, <3>2, MethodStatus
      <4>2. pc[t] = "close" /\ pc'[t] = "idle" /\ faults' = faults
        BY <1>1, <2>3, <3>2, <4>1, MethodStatus
      <4>3. job[t].kind \in Closing /\ job[t].sock = c
        BY <1>2, <1>6, <1>7, <2>3, <4>1, <4>2 DEF JobAt
      <4>4. QED
        BY <1>1, <4>2, <4>3
    <3>3. QED
      BY <3>1, <3>2
  <2>4. QED
    BY <1>1, <1>4, <2>1, <2>2, <2>3 DEF ClosedInv
<1>9. OrphanInv'
  <2>1. SUFFICES ASSUME NEW s \in live'
        PROVE  \/ memStatus'[s] \in {"FILED", "ABANDONED"}
               \/ \E c \in Sockets : Names(c, s)
               \/ \E u \in Threads : Opening(u)' /\ pc'[u] = "idle" /\ job[u].sess = s
    BY <1>1, <1>4 DEF OrphanInv, Done
  <2>2. CASE s # sess[t]
    <3>1. s \in live /\ s \in Sessions /\ memStatus'[s] = memStatus[s]
      BY <1>1, <2>2, MethodStatus DEF SessionInv, BaseInv, TypeOK
    <3>2. \A u \in Threads : u # t => (Opening(u)' <=> Opening(u))
      BY <1>1 DEF Opening
    <3>3. QED
      BY <1>2, <2>2, <3>1, <3>2 DEF GInv, SocketInv, OrphanInv, Done
  <2>3. CASE s = sess[t] /\ job[t].kind # "open"
    BY <1>6, <2>3
  <2>4. CASE s = sess[t] /\ job[t].kind = "open"
    <3>1. CASE UNCHANGED <<live, memStatus, dbStatus>>
      <4>1. dbStatus[s] = "NONE"
        BY <1>1, <1>7, <2>4 DEF SessionInv, OpeningInv
      <4>2. s \notin live
        BY <1>2, <2>4, <4>1 DEF GInv, SessionInv, ReferencesHold
      <4>3. QED
        BY <3>1, <4>2
    <3>2. CASE ~UNCHANGED <<live, memStatus, dbStatus>>
      <4>1. pc'[t] = "idle" /\ faults' = faults
        BY <1>1, <1>7, <2>4, <3>2, MethodStatus
      <4>2. Opening(t)'
        BY <1>1, <2>4, <4>1 DEF Opening
      <4>3. QED
        BY <1>2, <2>4, <4>1, <4>2
    <3>3. QED
      BY <3>1, <3>2
  <2>5. QED
    BY <2>2, <2>3, <2>4
<1>10. QED
  BY <1>5, <1>8, <1>9
-----------------------------------------------------------------------------
(* The steps of clients, handlers and connections *)

\* What the jobs of other threads depend on is left alone by a step of t on c.
LEMMA OtherJobs ==
    ASSUME NEW t \in Threads, NEW c \in Sockets, GInv,
           \A u \in Threads : job[u].sock = c => u = t,
           \A u \in Threads : u # t => UNCHANGED <<job[u], outcome[u], pc[u], sess[u]>>,
           \A d \in Sockets : d # c => UNCHANGED <<conn[d], worker[d], called[d], userdata[d]>>,
           UNCHANGED <<live, memStatus, dbStatus>>,
           JobAt(t)'
    PROVE  JobInv'
<1>1. SUFFICES ASSUME NEW u \in Threads, u # t PROVE JobAt(u)'
  BY DEF JobInv
<1>2. JobAt(u) /\ job[u].sock # c /\ (job[u] # NoJob => job[u].sock \in Sockets)
  BY <1>1, JobFacts DEF GInv, SocketInv, JobInv
<1>3. job[u] = NoJob => job[u].kind = "none"
  BY DEF NoJob
<1>4. Done(job[u].sess)' <=> Done(job[u].sess)
  BY <1>1 DEF Done
<1>5. Opening(u)' <=> Opening(u)
  BY <1>1 DEF Opening
<1>6. CASE job[u] = NoJob
  BY <1>1, <1>2, <1>3, <1>6 DEF JobAt, NoJob, Opening, Closing
<1>7. CASE job[u] # NoJob
  BY <1>1, <1>2, <1>4, <1>5, <1>7 DEF JobAt
<1>8. QED
  BY <1>6, <1>7

\* A thread without a job.
LEMMA IdleJob ==
    ASSUME NEW t \in Threads, job'[t] = NoJob, pc'[t] = "idle"
    PROVE  JobAt(t)' /\ ~Opening(t)'
  BY DEF JobAt, NoJob, Opening, Closing

\* Steps that touch no session, handler or job: the client, reading without a call,
\* writing.
LEMMA QuietSockets ==
    ASSUME GInv, UNCHANGED <<vars, conn, worker, reading, called, userdata, job, outcome>>
    PROVE  SocketInv'
<1>1. UNCHANGED <<live, memStatus, dbStatus, pc, sess>>
  BY DEF vars, memory, tables, locals
<1>2. \A t \in Threads : JobAt(t)'
  BY <1>1 DEF GInv, SocketInv, JobInv, JobAt, Opening, Done
<1>3. OwnInv' /\ ClosedInv' /\ OrphanInv'
  BY <1>1 DEF GInv, SocketInv, OwnInv, ClosedInv, OrphanInv, Names, Opening, Done
<1>4. QED
  BY <1>2, <1>3 DEF SocketInv, JobInv

\* What a call changes.
LEMMA CallFacts ==
    ASSUME GInv, NEW t \in Threads, NEW c \in Sockets, NEW s \in Sessions, NEW entry \in Entry,
           NEW kind \in {"open", "message", "closeFrame", "destroy"},
           Calls(t, c, kind, entry, s)
    PROVE  /\ pc[t] = "idle" /\ pc'[t] = entry /\ entry # "idle" /\ sess'[t] = s
           /\ entry = "open" => Fresh(s)
           /\ outcome'[t] = "fine"
           /\ job'[t].sock = c /\ job'[t].kind = kind /\ job'[t].sess = s /\ job'[t] # NoJob
           /\ \A u \in Threads : u # t => UNCHANGED <<job[u], outcome[u], pc[u], sess[u]>>
           /\ UNCHANGED <<live, memStatus, dbStatus>>
<1>1. PICK e \in Entry, r \in Sessions :
         /\ e = "open" => Fresh(r)
         /\ Goto(t, e) /\ sess' = [sess EXCEPT ![t] = r]
  BY DEF Calls, Call
<1>2. /\ pc'[t] = e /\ sess'[t] = r
      /\ \A u \in Threads : u # t => UNCHANGED <<pc[u], sess[u]>>
  BY <1>1 DEF Goto, GInv, SessionInv, BaseInv, TypeOK
<1>3. e = entry /\ r = s /\ pc[t] = "idle" /\ UNCHANGED <<live, memStatus, dbStatus>>
  BY <1>2 DEF Calls, Call, memory, tables
<1>4. /\ job'[t] = [sock |-> c, kind |-> kind, sess |-> s] /\ outcome'[t] = "fine"
      /\ \A u \in Threads : u # t => UNCHANGED <<job[u], outcome[u]>>
  BY DEF Calls, GInv, GTypeOK
<1>5. job'[t].sock = c /\ c # None
  BY <1>4, SocketsAssumption
<1>6. QED
  BY <1>1, <1>2, <1>3, <1>4, <1>5 DEF Entry, NoJob

\* What a return changes.
LEMMA ReturnFacts ==
    ASSUME GInv, NEW t \in Threads, NEW c \in Sockets,
           NEW kind \in {"open", "message", "closeFrame", "destroy"}, Returned(t, c, kind)
    PROVE  /\ job[t].sock = c /\ job[t].kind = kind /\ job[t].sess \in Sessions
           /\ pc[t] = "idle" /\ JobAt(t) /\ conn[c] = "live" /\ worker[c] = t
           /\ \A u \in Threads : job[u].sock = c => u = t
           /\ JobAt(t)' /\ ~Opening(t)' /\ job'[t].sock # c
           /\ \A u \in Threads : u # t => UNCHANGED <<job[u], outcome[u], pc[u], sess[u]>>
           /\ UNCHANGED <<live, memStatus, dbStatus, pc>>
<1>1. job[t].sock = c /\ job[t].kind = kind /\ pc[t] = "idle"
  BY DEF Returned
<1>2. job[t] # NoJob /\ job[t].sess \in Sessions
  BY <1>1, JobFacts, SocketsAssumption DEF NoJob, GInv
<1>3. /\ conn[c] = "live" /\ worker[c] = t /\ JobAt(t)
      /\ \A u \in Threads : job[u].sock = c => u = t
  BY <1>1, <1>2, OneHandler DEF GInv, SocketInv, JobInv
<1>4. UNCHANGED <<live, memStatus, dbStatus, pc, sess>>
  BY DEF Returned, vars, memory, tables, locals
<1>5. /\ job'[t] = NoJob /\ \A u \in Threads : u # t => UNCHANGED <<job[u], outcome[u]>>
  BY DEF Returned, GInv, GTypeOK
<1>6. job'[t].sock # c
  BY <1>5, SocketsAssumption DEF NoJob
<1>7. JobAt(t)' /\ ~Opening(t)'
  BY <1>1, <1>4, <1>5, IdleJob
<1>8. QED
  BY <1>1, <1>2, <1>3, <1>4, <1>5, <1>6, <1>7
LEMMA AcceptSockets ==
    ASSUME GInv, NEW t \in Threads, NEW c \in Sockets, Accept(t, c)
    PROVE  SocketInv'
<1>1. PICK s \in Sessions : Calls(t, c, "open", "open", s)
  BY DEF Accept
<1>2. /\ conn[c] = "none" /\ job[t] = NoJob /\ userdata[c] = None /\ ~called[c]
      /\ conn'[c] = "live" /\ worker'[c] = t
      /\ \A d \in Sockets : d # c => conn'[d] = conn[d] /\ worker'[d] = worker[d]
      /\ UNCHANGED <<reading, called, userdata>>
  BY DEF Accept, GInv, GTypeOK, SocketInv, OwnInv
<1>3. /\ pc[t] = "idle" /\ pc'[t] = "open" /\ sess'[t] = s /\ Fresh(s)
      /\ job'[t].sock = c /\ job'[t].kind = "open" /\ job'[t].sess = s /\ job'[t] # NoJob
      /\ outcome'[t] = "fine"
      /\ \A u \in Threads : u # t => UNCHANGED <<job[u], outcome[u], pc[u], sess[u]>>
      /\ UNCHANGED <<live, memStatus, dbStatus>>
  BY <1>1, CallFacts DEF Entry
<1>4. \A u \in Threads : job[u].sock # c
  BY <1>2, OneHandler DEF GInv, SocketInv
<1>5. JobAt(t)'
  BY <1>2, <1>3 DEF JobAt, Opening, Closing
<1>6. JobInv'
  BY <1>2, <1>3, <1>4, <1>5, OtherJobs
<1>7. \A d \in Sockets, r \in Sessions : Names(d, r)' <=> Names(d, r)
  BY <1>2, NoneAssumption DEF Names
<1>8. s \notin live
  BY <1>3 DEF Fresh, GInv, SessionInv, ReferencesHold
<1>9. \A u \in Threads : u # t /\ Opening(u) => job[u].sess # s
  <2>1. SUFFICES ASSUME NEW u \in Threads, Opening(u) PROVE job[u].sess # s
    OBVIOUS
  <2>2. JobAt(u)
    BY DEF GInv, SocketInv, JobInv
  <2>3. CASE pc[u] = "idle"
    BY <1>8, <2>1, <2>2, <2>3 DEF JobAt
  <2>4. CASE pc[u] # "idle"
    BY <1>3, <2>1, <2>2, <2>4 DEF JobAt, Opening, Fresh
  <2>5. QED
    BY <2>3, <2>4
<1>10. \A u \in Threads : u # t => (Opening(u)' <=> Opening(u))
  BY <1>3 DEF Opening
<1>11. OwnInv'
  <2>1. \A d \in Sockets : ~Names(d, s)
    BY <1>8 DEF GInv, SocketInv, OwnInv
  <2>2. \A d \in Sockets : conn'[d] = "none" => userdata'[d] = None /\ ~called'[d]
    BY <1>2 DEF GInv, SocketInv, OwnInv
  <2>3. ASSUME NEW d \in Sockets, NEW r \in Sessions, Names(d, r)
        PROVE  /\ r \in live' /\ \A e \in Sockets : Names(e, r) => e = d
               /\ \A u \in Threads : Opening(u)' => job'[u].sess # r
    BY <1>3, <1>10, <2>1, <2>3 DEF GInv, SocketInv, OwnInv
  <2>4. ASSUME NEW u \in Threads, NEW v \in Threads, Opening(u)', Opening(v)',
               job'[u].sess = job'[v].sess
        PROVE  u = v
    BY <1>3, <1>9, <1>10, <2>4 DEF GInv, SocketInv, OwnInv
  <2>5. QED
    BY <1>7, <2>2, <2>3, <2>4 DEF OwnInv
<1>12. ClosedInv'
  <2>1. \A d \in Sockets : conn'[d] = "live" /\ called'[d] => ~reading'[d]
    BY <1>2 DEF GInv, SocketInv, ClosedInv
  <2>2. ASSUME NEW d \in Sockets, NEW r \in Sessions, Names(d, r)
        PROVE  /\ called[d] => Done(r) \/ \E u \in Threads : job'[u].sock = d
               /\ dbStatus[r] = "ABANDONED" => \E u \in Threads :
                     /\ job'[u].sock = d /\ job'[u].kind \in Closing
                     /\ pc'[u] = "idle" /\ outcome'[u] # "failed"
    <3>1. job[t].sock # d
      BY <1>2, SocketsAssumption DEF NoJob
    <3>2. QED
      BY <1>3, <2>2, <3>1 DEF GInv, SocketInv, ClosedInv
  <2>3. \A r : Done(r)' <=> Done(r)
    BY <1>3 DEF Done
  <2>4. QED
    BY <1>2, <1>3, <1>7, <2>1, <2>2, <2>3 DEF ClosedInv
<1>13. OrphanInv'
  <2>1. \A u \in Threads : Opening(u) => u # t
    BY <1>2 DEF Opening, NoJob
  <2>2. \A r \in live : r \in Sessions
    BY DEF GInv, SessionInv, BaseInv, TypeOK
  <2>3. QED
    BY <1>3, <1>7, <1>10, <2>1, <2>2 DEF GInv, SocketInv, OrphanInv, Done
<1>14. QED
  BY <1>6, <1>11, <1>12, <1>13 DEF SocketInv

\* A thread that serves a socket has no handler running, and so has the socket.
LEMMA ServesFacts ==
    ASSUME GInv, NEW t \in Threads, NEW c \in Sockets, Serves(t, c)
    PROVE  /\ conn[c] = "live" /\ worker[c] = t /\ job[t] = NoJob /\ pc[t] = "idle"
           /\ ~Opening(t)
           /\ \A u \in Threads : job[u].sock # c
           /\ \A s \in Sessions : Names(c, s) => dbStatus[s] # "ABANDONED"
           /\ called[c] => ~reading[c] /\ \A s \in Sessions : Names(c, s) => Done(s)
<1>1. conn[c] = "live" /\ worker[c] = t /\ job[t] = NoJob /\ pc[t] = "idle" /\ ~Opening(t)
  BY DEF Serves, GInv, SocketInv, JobInv, JobAt, Opening, NoJob
<1>2. \A u \in Threads : job[u].sock # c
  BY <1>1, OneHandler DEF GInv, SocketInv
<1>3. QED
  BY <1>1, <1>2 DEF GInv, SocketInv, ClosedInv

\* A handler other than onopen starts on a socket that is served: a message on one
\* that is read, a close on one that has not been closed by a close frame.
LEMMA CallSockets ==
    ASSUME GInv, NEW t \in Threads, NEW c \in Sockets, NEW s \in Sessions,
           NEW kind \in {"message", "closeFrame", "destroy"}, NEW entry \in Entry,
           Serves(t, c), userdata[c] = s, Calls(t, c, kind, entry, s),
           entry # "open", entry = "close" <=> kind \in Closing,
           UNCHANGED <<conn, worker, userdata>>,
           \A d \in Sockets : d # c => UNCHANGED <<reading[d], called[d]>>,
           called'[c] => ~reading'[c],
           called'[c] => kind = "closeFrame"
    PROVE  SocketInv'
<1>1. /\ conn[c] = "live" /\ worker[c] = t /\ pc[t] = "idle" /\ ~Opening(t)
      /\ \A u \in Threads : job[u].sock # c
      /\ \A r \in Sessions : Names(c, r) => dbStatus[r] # "ABANDONED"
  BY ServesFacts
<1>2. /\ pc'[t] = entry /\ entry # "idle" /\ sess'[t] = s
      /\ job'[t].sock = c /\ job'[t].kind = kind /\ job'[t].sess = s /\ job'[t] # NoJob
      /\ outcome'[t] = "fine"
      /\ \A u \in Threads : u # t => UNCHANGED <<job[u], outcome[u], pc[u], sess[u]>>
      /\ UNCHANGED <<live, memStatus, dbStatus>>
  BY CallFacts
<1>3. JobAt(t)'
  BY <1>1, <1>2 DEF JobAt, Opening, Closing
<1>4. JobInv'
  BY <1>1, <1>2, <1>3, OtherJobs
<1>5. \A d \in Sockets : \A r : Names(d, r)' <=> Names(d, r)
  BY DEF Names
<1>6. \A u \in Threads : /\ Opening(u)' => Opening(u) /\ u # t
                         /\ Opening(u) => Opening(u)' /\ u # t
  BY <1>1, <1>2 DEF Opening
<1>7. OwnInv'
  <2>1. \A d \in Sockets : conn'[d] = "none" => userdata'[d] = None /\ ~called'[d]
    BY <1>1 DEF GInv, SocketInv, OwnInv
  <2>2. QED
    BY <1>2, <1>5, <1>6, <2>1 DEF GInv, SocketInv, OwnInv
<1>8. ClosedInv'
  <2>1. \A d \in Sockets : conn'[d] = "live" /\ called'[d] => ~reading'[d]
    BY DEF GInv, SocketInv, ClosedInv
  <2>2. ASSUME NEW d \in Sockets, NEW r \in Sessions, Names(d, r)
        PROVE  /\ called'[d] => Done(r) \/ \E u \in Threads : job'[u].sock = d
               /\ dbStatus[r] = "ABANDONED" => \E u \in Threads :
                     /\ job'[u].sock = d /\ job'[u].kind \in Closing
                     /\ pc'[u] = "idle" /\ outcome'[u] # "failed"
    <3>1. CASE d = c
      BY <1>1, <1>2, <2>2, <3>1
    <3>2. CASE d # c
      <4>1. job[t].sock # d
        BY SocketsAssumption DEF Serves, NoJob
      <4>2. QED
        BY <1>2, <2>2, <3>2, <4>1 DEF GInv, SocketInv, ClosedInv
    <3>3. QED
      BY <3>1, <3>2
  <2>3. \A r : Done(r)' <=> Done(r)
    BY <1>2 DEF Done
  <2>4. QED
    BY <1>2, <1>5, <2>1, <2>2, <2>3 DEF ClosedInv
<1>9. OrphanInv'
  BY <1>2, <1>5, <1>6 DEF GInv, SocketInv, OrphanInv, Done
<1>10. QED
  BY <1>4, <1>7, <1>8, <1>9 DEF SocketInv
\* A close frame, or the end of the connection, where no session needs closing.
LEMMA UncalledSockets ==
    ASSUME GInv, NEW t \in Threads, NEW c \in Sockets, Serves(t, c),
           UNCHANGED <<vars, job, outcome, worker, userdata>>,
           \A d \in Sockets : d # c => UNCHANGED <<conn[d], reading[d], called[d]>>,
           conn'[c] \in {"live", "gone"},
           called'[c] => ~reading'[c],
           called'[c] \/ conn'[c] = "gone" => called[c] \/ userdata[c] = None
    PROVE  SocketInv'
<1>1. /\ conn[c] = "live" /\ job[t] = NoJob
      /\ \A u \in Threads : job[u].sock # c
      /\ \A s \in Sessions : Names(c, s) => dbStatus[s] # "ABANDONED"
      /\ called[c] => \A s \in Sessions : Names(c, s) => Done(s)
  BY ServesFacts
<1>2. UNCHANGED <<live, memStatus, dbStatus, pc, sess>> /\ job'[t] = NoJob /\ pc'[t] = "idle"
  BY <1>1, ServesFacts DEF vars, memory, tables, locals
<1>3. JobInv'
  BY <1>1, <1>2, IdleJob, OtherJobs
<1>4. \A d \in Sockets : \A s : /\ Names(d, s)' => Names(d, s)
                                /\ d # c => (Names(d, s)' <=> Names(d, s))
  BY <1>1 DEF Names
<1>5. \A u \in Threads : Opening(u)' <=> Opening(u)
  BY DEF Opening
<1>6. \A s : Done(s)' <=> Done(s)
  BY <1>2 DEF Done
<1>7. OwnInv'
  <2>1. \A d \in Sockets : conn'[d] = "none" => userdata'[d] = None /\ ~called'[d]
    BY DEF GInv, SocketInv, OwnInv
  <2>2. QED
    BY <1>2, <1>4, <1>5, <2>1 DEF GInv, SocketInv, OwnInv
<1>8. ClosedInv'
  <2>1. \A d \in Sockets : conn'[d] = "live" /\ called'[d] => ~reading'[d]
    BY DEF GInv, SocketInv, ClosedInv
  <2>2. ASSUME NEW d \in Sockets, NEW s \in Sessions, Names(d, s)'
        PROVE  /\ called'[d] => Done(s) \/ \E u \in Threads : job[u].sock = d
               /\ dbStatus[s] = "ABANDONED" => \E u \in Threads :
                     /\ job[u].sock = d /\ job[u].kind \in Closing
                     /\ pc[u] = "idle" /\ outcome[u] # "failed"
    <3>1. CASE d = c
      <4>1. Names(c, s) /\ userdata[c] # None
        BY <1>4, <2>2, <3>1, NoneAssumption DEF Names
      <4>2. QED
        BY <1>1, <3>1, <4>1
    <3>2. CASE d # c
      BY <1>4, <2>2, <3>2 DEF GInv, SocketInv, ClosedInv
    <3>3. QED
      BY <3>1, <3>2
  <2>3. QED
    BY <1>2, <1>6, <2>1, <2>2 DEF ClosedInv
<1>9. OrphanInv'
  <2>1. SUFFICES ASSUME NEW s \in live
        PROVE  \/ Done(s)
               \/ \E d \in Sockets : Names(d, s)'
               \/ \E u \in Threads : Opening(u) /\ pc[u] = "idle" /\ job[u].sess = s
    BY <1>2, <1>5, <1>6 DEF OrphanInv
  <2>2. s \in Sessions
    BY DEF GInv, SessionInv, BaseInv, TypeOK
  <2>3. CASE Names(c, s)
    <3>1. CASE conn'[c] = "live"
      BY <2>3, <3>1 DEF Names
    <3>2. CASE conn'[c] = "gone"
      <4>1. called[c]
        BY <2>2, <2>3, <3>2, NoneAssumption DEF Names
      <4>2. QED
        BY <1>1, <2>2, <2>3, <4>1
    <3>3. QED
      BY <3>1, <3>2
  <2>4. CASE ~Names(c, s)
    BY <1>4, <2>4 DEF GInv, SocketInv, OrphanInv
  <2>5. QED
    BY <2>3, <2>4
<1>10. QED
  BY <1>3, <1>7, <1>8, <1>9 DEF SocketInv

LEMMA ReadMessageSockets ==
    ASSUME GInv, NEW t \in Threads, NEW c \in Sockets, ReadMessage(t, c)
    PROVE  SocketInv'
<1>1. PICK entry \in {"upload", "reply", "file"} :
         Calls(t, c, "message", entry, userdata[c])
  BY DEF ReadMessage
<1>2. /\ Serves(t, c) /\ userdata[c] \in Sessions /\ reading[c]
      /\ UNCHANGED <<conn, worker, userdata, called>>
      /\ reading' = [reading EXCEPT ![c] = FALSE]
  BY DEF ReadMessage, Reads, GInv, GTypeOK
<1>3. ~called[c]
  BY <1>2, ServesFacts
<1>4. /\ \A d \in Sockets : d # c => UNCHANGED <<reading[d], called[d]>>
      /\ entry \in Entry /\ entry # "open" /\ entry # "close" /\ "message" \notin Closing
  BY <1>2 DEF Entry, Closing, GInv, GTypeOK
<1>5. QED
  BY <1>1, <1>2, <1>3, <1>4, CallSockets

LEMMA ReadCloseFrameSockets ==
    ASSUME GInv, NEW t \in Threads, NEW c \in Sockets, ReadCloseFrame(t, c)
    PROVE  SocketInv'
<1>1. /\ Serves(t, c) /\ UNCHANGED <<conn, worker, userdata>>
      /\ called' = [called EXCEPT ![c] = TRUE] /\ reading' = [reading EXCEPT ![c] = FALSE]
  BY DEF ReadCloseFrame
<1>2. /\ called'[c] /\ ~reading'[c] /\ userdata[c] \in Sessions \cup {None} /\ conn[c] = "live"
      /\ \A d \in Sockets : d # c => UNCHANGED <<reading[d], called[d]>>
  BY <1>1 DEF GInv, GTypeOK, Serves
<1>3. CASE userdata[c] = None
  <2>1. UNCHANGED <<vars, job, outcome>>
    BY <1>3 DEF ReadCloseFrame, NoCall
  <2>2. QED
    BY <1>1, <1>2, <1>3, <2>1, UncalledSockets
<1>4. CASE userdata[c] # None
  <2>1. Calls(t, c, "closeFrame", "close", userdata[c])
    BY <1>4 DEF ReadCloseFrame
  <2>2. "close" \in Entry /\ "closeFrame" \in Closing
    BY DEF Entry, Closing
  <2>3. QED
    BY <1>1, <1>2, <1>4, <2>1, <2>2, CallSockets
<1>5. QED
  BY <1>3, <1>4

LEMMA BrokenSockets ==
    ASSUME GInv, NEW t \in Threads, NEW c \in Sockets, ReadError(t, c) \/ WriteFails(t, c)
    PROVE  SocketInv'
<1>1. /\ Serves(t, c) /\ UNCHANGED <<worker, userdata, called>>
      /\ \E busy : CheckDestroy(t, c, busy)
      /\ reading' = reading \/ reading' = [reading EXCEPT ![c] = FALSE]
  BY DEF ReadError, WriteFails
<1>2. /\ called[c] => ~reading'[c]
      /\ userdata[c] \in Sessions \cup {None} /\ conn[c] = "live"
      /\ \A d \in Sockets : d # c => UNCHANGED <<reading[d], called[d]>>
  BY <1>1, ServesFacts DEF GInv, GTypeOK
<1>3. CASE called[c] \/ userdata[c] = None
  <2>1. /\ UNCHANGED <<vars, job, outcome>>
        /\ conn' = conn \/ conn' = [conn EXCEPT ![c] = "gone"]
    BY <1>1, <1>3 DEF CheckDestroy, NoCall, DeleteUnlessBusy
  <2>2. conn'[c] \in {"live", "gone"} /\ \A d \in Sockets : d # c => conn'[d] = conn[d]
    BY <1>2, <2>1 DEF GInv, GTypeOK
  <2>3. QED
    BY <1>1, <1>2, <1>3, <2>1, <2>2, UncalledSockets
<1>4. CASE ~(called[c] \/ userdata[c] = None)
  <2>1. Calls(t, c, "destroy", "close", userdata[c]) /\ UNCHANGED conn
    BY <1>1, <1>4 DEF CheckDestroy
  <2>2. "close" \in Entry /\ "destroy" \in Closing
    BY DEF Entry, Closing
  <2>3. QED
    BY <1>1, <1>2, <1>4, <2>1, <2>2, CallSockets
<1>5. QED
  BY <1>3, <1>4

\* A handler other than onopen returns: it unbinds the session only when the session
\* is over, and a handler that closed it leaves it bound only where that failed.
LEMMA ReturnSockets ==
    ASSUME GInv, NEW t \in Threads, NEW c \in Sockets,
           NEW kind \in {"message", "closeFrame", "destroy"}, Returned(t, c, kind),
           UNCHANGED <<worker, called>>,
           \A d \in Sockets : d # c => UNCHANGED <<conn[d], userdata[d], reading[d]>>,
           conn'[c] \in {"live", "gone"},
           userdata'[c] \in {userdata[c], None},
           conn'[c] = "gone" => userdata'[c] = None,
           userdata'[c] = None => kind \in Closing,
           userdata'[c] # None => outcome[t] = "failed" \/ kind = "message",
           called[c] => ~reading'[c]
    PROVE  SocketInv'
<1> DEFINE s == job[t].sess
<1>1. /\ job[t].sock = c /\ job[t].kind = kind /\ s \in Sessions
      /\ pc[t] = "idle" /\ JobAt(t) /\ conn[c] = "live"
      /\ \A u \in Threads : job[u].sock = c => u = t
      /\ JobAt(t)' /\ ~Opening(t)' /\ job'[t].sock # c
      /\ \A u \in Threads : u # t => UNCHANGED <<job[u], outcome[u], pc[u], sess[u]>>
      /\ UNCHANGED <<live, memStatus, dbStatus, pc>>
  BY ReturnFacts
<1>2. /\ userdata[c] = s /\ s # None /\ Names(c, s)
      /\ kind \in Closing => Done(s)
      /\ kind = "message" => ~called[c]
  BY <1>1, NoneAssumption DEF JobAt, Closing, Names
<1>3. JobInv'
  BY <1>1, OtherJobs
<1>4. \A d \in Sockets : \A r \in Sessions :
         /\ Names(d, r)' => Names(d, r)
         /\ d # c => (Names(d, r)' <=> Names(d, r))
  BY <1>1, NoneAssumption DEF Names
<1>5. /\ \A u \in Threads : Opening(u)' <=> Opening(u)
      /\ \A u \in Threads : Opening(u) => u # t
  BY <1>1 DEF Opening
<1>6. OwnInv'
  <2>1. \A d \in Sockets : conn'[d] = "none" => userdata'[d] = None /\ ~called'[d]
    BY <1>1 DEF GInv, SocketInv, OwnInv
  <2>2. ASSUME NEW d \in Sockets, NEW r \in Sessions, Names(d, r)'
        PROVE  /\ r \in live' /\ \A e \in Sockets : Names(e, r)' => e = d
               /\ \A u \in Threads : Opening(u)' => job'[u].sess # r
    BY <1>1, <1>4, <1>5, <2>2 DEF GInv, SocketInv, OwnInv
  <2>3. \A u, v \in Threads : Opening(u)' /\ Opening(v)' /\ job'[u].sess = job'[v].sess => u = v
    BY <1>1, <1>5 DEF GInv, SocketInv, OwnInv
  <2>4. QED
    BY <2>1, <2>2, <2>3 DEF OwnInv
<1>7. ClosedInv'
  <2>1. \A d \in Sockets : conn'[d] = "live" /\ called'[d] => ~reading'[d]
    BY <1>1 DEF GInv, SocketInv, ClosedInv
  <2>2. ASSUME NEW d \in Sockets, NEW r \in Sessions, Names(d, r)'
        PROVE  /\ called'[d] => Done(r) \/ \E u \in Threads : job'[u].sock = d
               /\ dbStatus[r] = "ABANDONED" => \E u \in Threads :
                     /\ job'[u].sock = d /\ job'[u].kind \in Closing
                     /\ pc'[u] = "idle" /\ outcome'[u] # "failed"
    <3>1. CASE d = c
      <4>1. r = s /\ Names(c, s) /\ userdata'[c] # None
        BY <1>2, <1>4, <2>2, <3>1, NoneAssumption DEF Names
      <4>2. outcome[t] = "failed" \/ kind = "message"
        BY <4>1
      <4>3. dbStatus[s] # "ABANDONED"
        BY <1>1, <1>2, <4>2 DEF GInv, SocketInv, ClosedInv, Closing
      <4>4. QED
        BY <1>2, <3>1, <4>1, <4>3 DEF Closing
    <3>2. CASE d # c
      <4>1. job[t].sock # d /\ Names(d, r)
        BY <1>1, <1>4, <2>2, <3>2
      <4>2. QED
        BY <1>1, <4>1 DEF GInv, SocketInv, ClosedInv
    <3>3. QED
      BY <3>1, <3>2
  <2>3. \A r : Done(r)' <=> Done(r)
    BY <1>1 DEF Done
  <2>4. QED
    BY <1>1, <2>1, <2>2, <2>3 DEF ClosedInv
<1>8. OrphanInv'
  <2>1. SUFFICES ASSUME NEW r \in live
        PROVE  \/ Done(r)
               \/ \E d \in Sockets : Names(d, r)'
               \/ \E u \in Threads : Opening(u)' /\ pc'[u] = "idle" /\ job'[u].sess = r
    BY <1>1 DEF OrphanInv, Done
  <2>2. r \in Sessions
    BY DEF GInv, SessionInv, BaseInv, TypeOK
  <2>3. CASE r = s
    <3>1. CASE userdata'[c] = None
      BY <1>2, <2>3, <3>1
    <3>2. CASE userdata'[c] # None
      BY <1>2, <2>3, <3>2 DEF Names
    <3>3. QED
      BY <3>1, <3>2
  <2>4. CASE r # s
    <3>1. ~Names(c, r)
      BY <1>2, <2>4 DEF Names
    <3>2. QED
      BY <1>1, <1>4, <1>5, <2>2, <3>1 DEF GInv, SocketInv, OrphanInv
  <2>5. QED
    BY <2>3, <2>4
<1>9. QED
  BY <1>3, <1>6, <1>7, <1>8 DEF SocketInv

LEMMA MessageReturnsSockets ==
    ASSUME GInv, NEW t \in Threads, NEW c \in Sockets, MessageReturns(t, c)
    PROVE  SocketInv'
<1>1. /\ Returned(t, c, "message") /\ UNCHANGED <<conn, worker, called, userdata>>
      /\ \A d \in Sockets : d # c => reading'[d] = reading[d]
  BY DEF MessageReturns, GInv, GTypeOK
<1>2. JobAt(t) /\ job[t].sock = c /\ job[t].kind = "message" /\ conn[c] = "live"
      /\ job[t].sess \in Sessions
  BY <1>1, ReturnFacts
<1>3. ~called[c] /\ userdata[c] # None
  BY <1>2, NoneAssumption DEF JobAt
<1>4. QED
  BY <1>1, <1>2, <1>3, ReturnSockets

LEMMA CloseReturnsSockets ==
    ASSUME GInv, NEW t \in Threads, NEW c \in Sockets,
           CloseFrameReturns(t, c) \/ DestroyReturns(t, c)
    PROVE  SocketInv'
<1>1. PICK kind \in Closing : Returned(t, c, kind)
  BY DEF CloseFrameReturns, DestroyReturns, Closing
<1>2. /\ kind \in {"message", "closeFrame", "destroy"} /\ kind \in {"open", "message", "closeFrame", "destroy"}
      /\ kind # "message"
  BY DEF Closing
<1>3. /\ conn[c] = "live" /\ job[t].sess \in Sessions /\ JobAt(t)
      /\ job[t].sock = c /\ job[t].kind = kind
  BY <1>1, <1>2, ReturnFacts
<1>4. userdata[c] # None
  BY <1>3, NoneAssumption DEF JobAt
<1>5. /\ UNCHANGED <<worker, called, reading>>
      /\ \/ outcome[t] = "failed" /\ UNCHANGED <<conn, userdata>>
         \/ /\ userdata' = [userdata EXCEPT ![c] = None]
            /\ conn' = conn \/ conn' = [conn EXCEPT ![c] = "gone"]
  BY DEF CloseFrameReturns, DestroyReturns, DeleteUnlessBusy, GInv, GTypeOK
<1>6. /\ \A d \in Sockets : d # c => UNCHANGED <<conn[d], userdata[d], reading[d]>>
      /\ conn'[c] \in {"live", "gone"}
      /\ userdata'[c] \in {userdata[c], None}
      /\ conn'[c] = "gone" => userdata'[c] = None
      /\ userdata'[c] # None => outcome[t] = "failed"
  BY <1>3, <1>5 DEF GInv, GTypeOK
<1>7. called[c] => ~reading'[c]
  BY <1>3, <1>5 DEF GInv, SocketInv, ClosedInv
<1>8. QED
  BY <1>1, <1>2, <1>5, <1>6, <1>7, ReturnSockets

\* onopen returns: the session it opened is bound, or none where openSession threw.
LEMMA OpenReturnsSockets ==
    ASSUME GInv, NEW t \in Threads, NEW c \in Sockets, OpenReturns(t, c)
    PROVE  SocketInv'
<1> DEFINE s == job[t].sess
           failed == outcome[t] = "failed"
<1>1. /\ Returned(t, c, "open") /\ UNCHANGED <<conn, worker, called>>
      /\ \A d \in Sockets : d # c => UNCHANGED <<userdata[d], reading[d]>>
      /\ userdata'[c] = IF failed THEN None ELSE s
  BY DEF OpenReturns, GInv, GTypeOK
<1>2. /\ job[t].sock = c /\ job[t].kind = "open" /\ s \in Sessions
      /\ pc[t] = "idle" /\ JobAt(t) /\ conn[c] = "live"
      /\ \A u \in Threads : job[u].sock = c => u = t
      /\ JobAt(t)' /\ ~Opening(t)' /\ job'[t].sock # c
      /\ \A u \in Threads : u # t => UNCHANGED <<job[u], outcome[u], pc[u], sess[u]>>
      /\ UNCHANGED <<live, memStatus, dbStatus, pc>>
  BY <1>1, ReturnFacts
<1>3. userdata[c] = None /\ ~called[c] /\ s # None
  BY <1>2, NoneAssumption DEF JobAt
<1>4. JobInv'
  BY <1>1, <1>2, OtherJobs
<1>5. ~failed => /\ Opening(t) /\ s \in live /\ dbStatus[s] # "ABANDONED"
                 /\ \A d \in Sockets : ~Names(d, s)
                 /\ \A u \in Threads : Opening(u) /\ job[u].sess = s => u = t
  <2>1. SUFFICES ASSUME ~failed
                 PROVE  Opening(t) /\ s \in live /\ dbStatus[s] # "ABANDONED"
    BY <1>2 DEF GInv, SocketInv, OwnInv
  <2>2. QED
    BY <1>2, <2>1 DEF JobAt, Opening
<1>6. \A u \in Threads : /\ Opening(u)' => Opening(u) /\ u # t
                         /\ Opening(u) /\ u # t => Opening(u)'
  BY <1>2 DEF Opening
<1>7. /\ \A d \in Sockets : d # c => \A r : (Names(d, r)' <=> Names(d, r))
      /\ \A r \in Sessions : ~Names(c, r) /\ (Names(c, r)' <=> ~failed /\ r = s)
  BY <1>1, <1>2, <1>3, NoneAssumption DEF Names
<1>8. OwnInv'
  <2>1. \A d \in Sockets : conn'[d] = "none" => userdata'[d] = None /\ ~called'[d]
    BY <1>1, <1>2 DEF GInv, SocketInv, OwnInv
  <2>2. ASSUME NEW d \in Sockets, NEW r \in Sessions, Names(d, r)'
        PROVE  /\ r \in live' /\ \A e \in Sockets : Names(e, r)' => e = d
               /\ \A u \in Threads : Opening(u)' => job'[u].sess # r
    <3>1. CASE d = c
      BY <1>2, <1>5, <1>6, <1>7, <2>2, <3>1
    <3>2. CASE d # c
      BY <1>2, <1>5, <1>6, <1>7, <2>2, <3>2 DEF GInv, SocketInv, OwnInv
    <3>3. QED
      BY <3>1, <3>2
  <2>3. \A u, v \in Threads : Opening(u)' /\ Opening(v)' /\ job'[u].sess = job'[v].sess => u = v
    BY <1>2, <1>6 DEF GInv, SocketInv, OwnInv
  <2>4. QED
    BY <2>1, <2>2, <2>3 DEF OwnInv
<1>9. ClosedInv'
  <2>1. \A d \in Sockets : conn'[d] = "live" /\ called'[d] => ~reading'[d]
    BY <1>1, <1>3 DEF GInv, SocketInv, ClosedInv
  <2>2. ASSUME NEW d \in Sockets, NEW r \in Sessions, Names(d, r)'
        PROVE  /\ called'[d] => Done(r) \/ \E u \in Threads : job'[u].sock = d
               /\ dbStatus[r] = "ABANDONED" => \E u \in Threads :
                     /\ job'[u].sock = d /\ job'[u].kind \in Closing
                     /\ pc'[u] = "idle" /\ outcome'[u] # "failed"
    <3>1. CASE d = c
      BY <1>1, <1>3, <1>5, <1>7, <2>2, <3>1
    <3>2. CASE d # c
      <4>1. job[t].sock # d /\ Names(d, r)
        BY <1>2, <1>7, <2>2, <3>2
      <4>2. QED
        BY <1>1, <1>2, <4>1 DEF GInv, SocketInv, ClosedInv
    <3>3. QED
      BY <3>1, <3>2
  <2>3. \A r : Done(r)' <=> Done(r)
    BY <1>2 DEF Done
  <2>4. QED
    BY <1>2, <2>1, <2>2, <2>3 DEF ClosedInv
<1>10. OrphanInv'
  <2>1. SUFFICES ASSUME NEW r \in live
        PROVE  \/ Done(r)
               \/ \E d \in Sockets : Names(d, r)'
               \/ \E u \in Threads : Opening(u)' /\ pc'[u] = "idle" /\ job'[u].sess = r
    BY <1>2 DEF OrphanInv, Done
  <2>2. r \in Sessions
    BY DEF GInv, SessionInv, BaseInv, TypeOK
  <2>3. CASE r = s /\ ~failed
    BY <1>7, <2>2, <2>3
  <2>4. CASE ~(r = s /\ ~failed)
    <3>1. ~(Opening(t) /\ job[t].sess = r)
      BY <2>4 DEF Opening
    <3>2. QED
      BY <1>2, <1>6, <1>7, <2>2, <3>1 DEF GInv, SocketInv, OrphanInv
  <2>5. QED
    BY <2>3, <2>4
<1>11. QED
  BY <1>4, <1>8, <1>9, <1>10 DEF SocketInv

LEMMA CrashSockets == ASSUME GInv, GCrash PROVE SocketInv'
<1>1. /\ conn'     = [c \in Sockets |-> IF conn[c] = "live" THEN "gone" ELSE conn[c]]
      /\ userdata' = [c \in Sockets |-> None]
      /\ called'   = [c \in Sockets |-> FALSE]
      /\ job'      = [t \in Threads |-> NoJob]
      /\ pc'       = [t \in Threads |-> "idle"]
      /\ live'     = {}
  BY DEF GCrash, Crash
<1>2. JobInv'
  BY <1>1, IdleJob DEF JobInv
<1>3. \A c \in Sockets : \A s \in Sessions : ~Names(c, s)'
  BY <1>1, NoneAssumption DEF Names
<1>4. \A t \in Threads : ~Opening(t)'
  BY <1>1, IdleJob
<1>5. OwnInv'
  BY <1>1, <1>3, <1>4 DEF OwnInv
<1>6. ClosedInv'
  BY <1>1, <1>3 DEF ClosedInv
<1>7. OrphanInv'
  BY <1>1 DEF OrphanInv
<1>8. QED
  BY <1>2, <1>5, <1>6, <1>7 DEF SocketInv
-----------------------------------------------------------------------------
(* The types of the gateway's own variables *)

GTypes ==
    /\ conn \in [Sockets -> {"none", "live", "gone"}]
    /\ worker \in [Sockets -> Threads \cup {None}]
    /\ peer \in [Sockets -> {"up", "closing", "down"}]
    /\ pending \in [Sockets -> 0 .. MaxMessages]
    /\ {reading, posted, writing, closing, called} \subseteq [Sockets -> BOOLEAN]
    /\ userdata \in [Sockets -> Sessions \cup {None}]
    /\ job \in [Threads -> Job]
    /\ outcome \in [Threads -> {"fine", "broken", "failed"}]
    /\ sent \in 0 .. MaxMessages

LEMMA CallTypes ==
    ASSUME GInv, NEW t \in Threads, NEW c \in Sockets, NEW s \in Sessions, NEW entry,
           NEW kind \in {"open", "message", "closeFrame", "destroy"},
           Calls(t, c, kind, entry, s)
    PROVE  /\ job' \in [Threads -> Job]
           /\ outcome' \in [Threads -> {"fine", "broken", "failed"}]
<1>1. [sock |-> c, kind |-> kind, sess |-> s] \in Job
  BY DEF Job
<1>2. QED
  BY <1>1 DEF Calls, GInv, GTypeOK

LEMMA ReturnTypes ==
    ASSUME GInv, NEW t \in Threads, NEW c \in Sockets, NEW kind, Returned(t, c, kind)
    PROVE  /\ job' \in [Threads -> Job]
           /\ outcome' \in [Threads -> {"fine", "broken", "failed"}]
           /\ sent' = sent
<1>1. NoJob \in Job
  BY DEF Job
<1>2. QED
  BY <1>1 DEF Returned, GInv, GTypeOK

LEMMA ClientTypes ==
    ASSUME GInv, NEW c \in Sockets, Client(c)
    PROVE  GTypes' /\ PendingInv'
<1>1. CASE Send(c)
  BY <1>1, SocketsAssumption DEF Send, GInv, GTypeOK, GTypes, PendingInv
<1>2. CASE HangUp(c)
  BY <1>2 DEF HangUp, GInv, GTypeOK, GTypes, PendingInv
<1>3. QED
  BY <1>1, <1>2 DEF Client

LEMMA OpenTypes ==
    ASSUME GInv, NEW t \in Threads, NEW c \in Sockets, Accept(t, c) \/ OpenReturns(t, c)
    PROVE  GTypes' /\ PendingInv'
<1>1. CASE Accept(t, c)
  <2>1. /\ job' \in [Threads -> Job]
        /\ outcome' \in [Threads -> {"fine", "broken", "failed"}]
    BY <1>1, CallTypes DEF Accept
  <2>2. QED
    BY <1>1, <2>1 DEF Accept, GInv, GTypeOK, GTypes, PendingInv
<1>2. CASE OpenReturns(t, c)
  <2>1. job[t].sess \in Sessions
    BY <1>2, ReturnFacts DEF OpenReturns
  <2>2. QED
    BY <1>2, <2>1, ReturnTypes DEF OpenReturns, GInv, GTypeOK, GTypes, PendingInv
<1>3. QED
  BY <1>1, <1>2

LEMMA MessageTypes ==
    ASSUME GInv, NEW t \in Threads, NEW c \in Sockets, OnMessage(t, c)
    PROVE  GTypes' /\ PendingInv'
<1>1. CASE ReadRefused(t, c)
  BY <1>1, SocketsAssumption
  DEF ReadRefused, Reads, NoCall, GInv, GTypeOK, GTypes, PendingInv
<1>2. CASE ReadMessage(t, c)
  <2>1. /\ job' \in [Threads -> Job]
        /\ outcome' \in [Threads -> {"fine", "broken", "failed"}]
    BY <1>2, CallTypes DEF ReadMessage, GInv, GTypeOK
  <2>2. QED
    BY <1>2, <2>1, SocketsAssumption DEF ReadMessage, Reads, GInv, GTypeOK, GTypes, PendingInv
<1>3. CASE MessageReturns(t, c)
  BY <1>3, ReturnTypes DEF MessageReturns, GInv, GTypeOK, GTypes, PendingInv
<1>4. QED
  BY <1>1, <1>2, <1>3 DEF OnMessage

\* Calling the close handler when the connection is over.
LEMMA DestroyTypes ==
    ASSUME GInv, NEW t \in Threads, NEW c \in Sockets, NEW busy, CheckDestroy(t, c, busy)
    PROVE  /\ job' \in [Threads -> Job]
           /\ outcome' \in [Threads -> {"fine", "broken", "failed"}]
           /\ conn' \in [Sockets -> {"none", "live", "gone"}]
<1>1. CASE called[c] \/ userdata[c] = None
  BY <1>1 DEF CheckDestroy, NoCall, DeleteUnlessBusy, GInv, GTypeOK
<1>2. CASE ~(called[c] \/ userdata[c] = None)
  BY <1>2, CallTypes DEF CheckDestroy, GInv, GTypeOK
<1>3. QED
  BY <1>1, <1>2

LEMMA CloseTypes ==
    ASSUME GInv, NEW t \in Threads, NEW c \in Sockets, OnClose(t, c)
    PROVE  GTypes' /\ PendingInv'
<1>1. CASE ReadCloseFrame(t, c)
  <2>1. /\ job' \in [Threads -> Job]
        /\ outcome' \in [Threads -> {"fine", "broken", "failed"}]
    BY <1>1, CallTypes DEF ReadCloseFrame, NoCall, GInv, GTypeOK
  <2>2. writing' \in [Sockets -> BOOLEAN] /\ closing' \in [Sockets -> BOOLEAN]
    BY <1>1 DEF ReadCloseFrame, GInv, GTypeOK
  <2>3. QED
    BY <1>1, <2>1, <2>2 DEF ReadCloseFrame, GInv, GTypeOK, GTypes, PendingInv
<1>2. CASE CloseFrameReturns(t, c)
  BY <1>2, ReturnTypes DEF CloseFrameReturns, GInv, GTypeOK, GTypes, PendingInv
<1>3. CASE ReadError(t, c)
  BY <1>3, DestroyTypes, SocketsAssumption DEF ReadError, GInv, GTypeOK, GTypes, PendingInv
<1>4. CASE DestroyReturns(t, c)
  BY <1>4, ReturnTypes
  DEF DestroyReturns, DeleteUnlessBusy, GInv, GTypeOK, GTypes, PendingInv
<1>5. QED
  BY <1>1, <1>2, <1>3, <1>4 DEF OnClose

LEMMA WriteTypes ==
    ASSUME GInv, NEW t \in Threads, NEW c \in Sockets, Writes(t, c)
    PROVE  GTypes' /\ PendingInv'
<1>1. CASE Flush(t, c) \/ WriteDone(t, c)
  <2>1. posted' \in [Sockets -> BOOLEAN] /\ writing' \in [Sockets -> BOOLEAN]
    BY <1>1 DEF Flush, WriteDone, GInv, GTypeOK
  <2>2. called[c] \in BOOLEAN /\ closing \in [Sockets -> BOOLEAN]
    BY DEF GInv, GTypeOK
  <2>3. closing' = closing \/ closing' = [closing EXCEPT ![c] = called[c]]
    BY <1>1 DEF Flush, WriteDone
  <2>4. closing' \in [Sockets -> BOOLEAN]
    BY <2>2, <2>3, Zenon
  <2>5. QED
    BY <1>1, <2>1, <2>4 DEF Flush, WriteDone, NoCall, GInv, GTypeOK, GTypes, PendingInv
<1>2. CASE WriteFails(t, c)
  BY <1>2, DestroyTypes DEF WriteFails, GInv, GTypeOK, GTypes, PendingInv
<1>3. QED
  BY <1>1, <1>2 DEF Writes

LEMMA MethodTypes ==
    ASSUME GInv, NEW t \in Threads, Method(t)
    PROVE  GTypes' /\ PendingInv'
  BY RepliesAssumption DEF Method, sockets, GInv, GTypeOK, GTypes, PendingInv

LEMMA CrashTypes == ASSUME GInv, GCrash PROVE GTypes' /\ PendingInv'
<1>1. NoJob \in Job
  BY DEF Job
<1>2. /\ conn' = [c \in Sockets |-> IF conn[c] = "live" THEN "gone" ELSE conn[c]]
      /\ conn' \in [Sockets -> {"none", "live", "gone"}]
  BY DEF GCrash, GInv, GTypeOK
<1>3. QED
  BY <1>1, <1>2, SocketsAssumption DEF GCrash, GInv, GTypeOK, GTypes, PendingInv
-----------------------------------------------------------------------------
(* The invariant *)

LEMMA InitGInv == GInit => GInv
<1> SUFFICES ASSUME GInit PROVE GInv
  OBVIOUS
<1>1. SessionInv /\ TypeOK
  BY InitSession DEF GInit, SessionInv, BaseInv
<1>2. GTypeOK
  BY <1>1, SocketsAssumption DEF GInit, GTypeOK, Job
<1>3. JobInv
  BY DEF GInit, Init, JobInv, JobAt, NoJob, Opening, Closing
<1>4. OwnInv /\ ClosedInv
  BY DEF GInit, OwnInv, ClosedInv, Names, Opening, NoJob
<1>5. OrphanInv
  BY DEF GInit, Init, OrphanInv
<1>6. PendingInv
  BY DEF GInit, PendingInv
<1>7. QED
  BY <1>1, <1>2, <1>3, <1>4, <1>5, <1>6 DEF GInv, SocketInv

\* Every step keeps what ties sockets, handlers and sessions together.
LEMMA NextSockets == ASSUME GInv, [GNext]_gvars PROVE SocketInv'
<1>1. ASSUME NEW c \in Sockets, Client(c) PROVE SocketInv'
  BY <1>1, QuietSockets DEF Client, Send, HangUp
<1>2. ASSUME NEW t \in Threads, NEW c \in Sockets, Accept(t, c) \/ OpenReturns(t, c)
      PROVE  SocketInv'
  BY <1>2, AcceptSockets, OpenReturnsSockets
<1>3. ASSUME NEW t \in Threads, NEW c \in Sockets, OnMessage(t, c) PROVE SocketInv'
  <2>1. CASE ReadRefused(t, c)
    BY <2>1, QuietSockets DEF ReadRefused, NoCall
  <2>2. QED
    BY <1>3, <2>1, ReadMessageSockets, MessageReturnsSockets DEF OnMessage
<1>4. ASSUME NEW t \in Threads, NEW c \in Sockets, OnClose(t, c) PROVE SocketInv'
  BY <1>4, ReadCloseFrameSockets, BrokenSockets, CloseReturnsSockets DEF OnClose
<1>5. ASSUME NEW t \in Threads, NEW c \in Sockets, Writes(t, c) PROVE SocketInv'
  <2>1. CASE Flush(t, c) \/ WriteDone(t, c)
    BY <2>1, QuietSockets DEF Flush, WriteDone, NoCall
  <2>2. QED
    BY <1>5, <2>1, BrokenSockets DEF Writes
<1>6. ASSUME NEW t \in Threads, Method(t) PROVE SocketInv'
  BY <1>6, MethodJobs, MethodSockets DEF SocketInv
<1>7. CASE UNCHANGED gvars
  BY <1>7, QuietSockets DEF gvars, sockets
<1>8. QED
  BY <1>1, <1>2, <1>3, <1>4, <1>5, <1>6, <1>7, CrashSockets DEF GNext, Serve

LEMMA NextGTypes == ASSUME GInv, [GNext]_gvars PROVE GTypes' /\ PendingInv'
<1>1. CASE UNCHANGED gvars
  BY <1>1 DEF gvars, sockets, GInv, GTypeOK, GTypes, PendingInv
<1>2. QED
  BY <1>1, ClientTypes, OpenTypes, MessageTypes, CloseTypes, WriteTypes, MethodTypes,
     CrashTypes
  DEF GNext, Serve

LEMMA NextGInv == GInv /\ [GNext]_gvars => GInv'
<1> SUFFICES ASSUME GInv, [GNext]_gvars PROVE GInv'
  OBVIOUS
<1>1. SessionInv' /\ TypeOK'
  BY GatewayStepIsPipelineStep, NextSession DEF GInv, SessionInv, BaseInv
<1>2. QED
  BY <1>1, NextSockets, NextGTypes DEF GInv, GTypeOK, GTypes

\* Sockets, the handlers that run for them and the sessions they name always fit
\* together, whatever clients send, statements fail and processes crash.
THEOREM GatewayInvariant == GSpec => []GInv
  BY InitGInv, NextGInv, PTL DEF GSpec

\* The gateway is well-typed: no message is read that was not sent, and no handler
\* runs without a socket and a session (main.cpp:187-275).
THEOREM GatewayTypeCorrect == GSpec => []GTypeOK
<1>1. GInv => GTypeOK
  BY DEF GInv
<1>2. QED
  BY <1>1, GatewayInvariant, PTL
-----------------------------------------------------------------------------
(* The properties *)

\* A session belongs to one socket: two sockets never name the same one, a named
\* session is in memory and stored, and a method other than openSession works for
\* the session of the socket whose handler called it.
THEOREM SessionsAreAlwaysOwn == GSpec => []SessionsAreOwn
<1>1. ASSUME GInv, NEW s \in Sessions
      PROVE  /\ Cardinality(Bound(s)) <= 1
             /\ Bound(s) # {} => s \in live /\ dbStatus[s] # "NONE"
             /\ \A t \in Threads : pc[t] \notin {"idle", "open"} /\ sess[t] = s
                                       => Bound(s) = {job[t].sock}
  <2>1. Bound(s) = {c \in Sockets : Names(c, s)}
    BY DEF Bound, Names
  <2>2. \A c, d \in Bound(s) : c = d
    BY <1>1, <2>1 DEF GInv, SocketInv, OwnInv
  <2>3. Cardinality(Bound(s)) <= 1
    <3>1. CASE Bound(s) = {}
      BY <3>1, FS_EmptySet
    <3>2. CASE Bound(s) # {}
      <4>1. PICK c : Bound(s) = {c}
        BY <2>2, <3>2
      <4>2. QED
        BY <4>1, FS_Singleton
    <3>3. QED
      BY <3>1, <3>2
  <2>4. Bound(s) # {} => s \in live /\ dbStatus[s] # "NONE"
    BY <1>1, <2>1 DEF GInv, SocketInv, OwnInv, SessionInv, ReferencesHold
  <2>5. ASSUME NEW t \in Threads, pc[t] \notin {"idle", "open"}, sess[t] = s
        PROVE  Bound(s) = {job[t].sock}
    <3>1. JobAt(t) /\ job[t] # NoJob /\ job[t].sess = s /\ job[t].sock \in Sockets
          /\ job[t].kind \in {"message"} \cup Closing
      BY <1>1, <2>5, JobFacts DEF GInv, SocketInv, JobInv, JobAt, Closing
    <3>2. job[t].sock \in Bound(s)
      BY <2>1, <3>1 DEF JobAt, Names
    <3>3. QED
      BY <2>2, <3>2
  <2>6. QED
    BY <2>3, <2>4, <2>5
<1>2. GInv => SessionsAreOwn
  BY <1>1 DEF SessionsAreOwn
<1>3. QED
  BY <1>2, GatewayInvariant, PTL

\* No session in memory is without a socket before it is over.
THEOREM NoneIsEverOrphaned == GSpec => []NoneIsOrphaned
<1>1. GInv => NoneIsOrphaned
  <2>1. SUFFICES ASSUME GInv, NEW s \in live
        PROVE  \/ Done(s) \/ Bound(s) # {}
               \/ \E t \in Threads : job[t].kind = "open" /\ job[t].sess = s
    BY DEF NoneIsOrphaned
  <2>2. \A c \in Sockets : Names(c, s) => c \in Bound(s)
    BY DEF Names, Bound
  <2>3. QED
    BY <2>1, <2>2 DEF GInv, SocketInv, OrphanInv, Opening
<1>2. QED
  BY <1>1, GatewayInvariant, PTL

\* No message, and no second call of the close handler, changes the stored status
\* of an abandoned session.
THEOREM AbandonedStays == GSpec => AbandonedIsFinal
<1>1. ASSUME GInv, [GNext]_gvars, NEW s \in Sessions, dbStatus[s] = "ABANDONED"
      PROVE  dbStatus'[s] = "ABANDONED"
  <2>1. CASE UNCHANGED vars \/ GCrash \/ \E t \in Threads : Call(t)
    BY <1>1, <2>1 DEF vars, tables, GCrash, Crash, Call
  <2>2. ASSUME NEW t \in Threads, Method(t) PROVE dbStatus'[s] = "ABANDONED"
    <3>1. /\ Acquire(t) \/ Handler(t)
          /\ SessionInv /\ JobAt(t)
      BY <1>1, <2>2 DEF Method, GInv, SocketInv, JobInv
    <3>2. pc[t] # "idle"
      BY <3>1, MethodThreads
    <3>3. CASE s # sess[t]
      BY <1>1, <3>1, <3>3, MethodStatus
    <3>4. CASE s = sess[t] /\ pc[t] \in {"open", "close"}
      BY <1>1, <3>1, <3>4, MethodStatus
    <3>5. CASE s = sess[t] /\ pc[t] \notin {"open", "close"}
      <4>1. /\ job[t] # NoJob /\ job[t].sess = s /\ job[t].sock \in Sockets
            /\ job[t].kind \in {"message"} \cup Closing
        BY <1>1, <3>1, <3>2, <3>5, JobFacts DEF GInv, JobAt, Closing
      <4>2. Names(job[t].sock, s)
        BY <3>1, <4>1 DEF JobAt, Names
      <4>3. PICK u \in Threads : job[u].sock = job[t].sock /\ pc[u] = "idle"
        BY <1>1, <4>1, <4>2 DEF GInv, SocketInv, ClosedInv
      <4>4. u = t
        BY <1>1, <4>1, <4>3, OneHandler DEF GInv, SocketInv
      <4>5. QED
        BY <3>2, <4>3, <4>4
    <3>6. QED
      BY <3>3, <3>4, <3>5
  <2>3. QED
    BY <1>1, <2>1, <2>2, GatewaySteps DEF gvars
<1>2. GInv /\ [GNext]_gvars
      => [\A s \in Sessions : dbStatus[s] = "ABANDONED" => dbStatus'[s] = "ABANDONED"]_gvars
  BY <1>1
<1>3. QED
  BY <1>2, InitGInv, NextGInv, PTL DEF GSpec, AbandonedIsFinal
=============================================================================
