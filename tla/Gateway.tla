------------------------------ MODULE Gateway ------------------------------
(***************************************************************************)
(* main.cpp: the WebSocket gateway in front of the pipeline.  Each socket  *)
(* belongs to one worker thread of the server, which runs its handlers     *)
(* (onopen, onmessage, onclose) one at a time, and each handler runs a     *)
(* method of Pipeline to its end.  The session of a socket is a heap       *)
(* string hung on the connection (`userdata`).                             *)
(*                                                                         *)
(* The connection object is Crow's, modelled from what the handlers rely   *)
(* on: when it reads, writes, calls the close handler, and is deleted.     *)
(***************************************************************************)
EXTENDS Pipeline

CONSTANTS
    Sockets,
    MaxMessages,   \* bound: messages that clients send in a behaviour
    Replies        \* what a frame that quotes text from outside may be

\* broken: cut inside a multi-byte character, so that dump() throws
ASSUME RepliesAssumption == Replies \in {{"fine"}, {"fine", "broken"}}
ASSUME SocketsAssumption == None \notin Sockets /\ MaxMessages \in Nat

VARIABLES
    conn,      \* the connection object: "none" yet, "live", or "gone"
    worker,    \* the thread that runs its handlers
    peer,      \* the client: "up", "closing" (sent a close frame), "down"
    pending,   \* messages on their way to the server
    reading,   \* a read is outstanding (is_reading)
    posted,    \* frames wait to be written
    writing,   \* a write is in flight (sending_buffers_)
    closing,   \* close_connection_
    called,    \* is_close_handler_called_, and a close frame was received
    userdata,  \* the session hung on the connection
    job,       \* each thread: the handler it runs, its socket and its session
    outcome,   \* each thread: how the method that the handler called ended
    sent

sockets == <<conn, worker, peer, pending, reading, posted, writing, closing, called,
             userdata>>
gvars == <<vars, sockets, job, outcome, sent>>

NoJob == [sock |-> None, kind |-> "none", sess |-> None]
Job   == [sock : Sockets, kind : {"open", "message", "closeFrame", "destroy"},
          sess : Sessions] \cup {NoJob}

GTypeOK ==
    /\ TypeOK
    /\ conn \in [Sockets -> {"none", "live", "gone"}]
    /\ worker \in [Sockets -> Threads \cup {None}]
    /\ peer \in [Sockets -> {"up", "closing", "down"}]
    /\ pending \in [Sockets -> 0 .. MaxMessages]
    /\ {reading, posted, writing, closing, called} \subseteq [Sockets -> BOOLEAN]
    /\ userdata \in [Sockets -> Sessions \cup {None}]
    /\ job \in [Threads -> Job]
    /\ outcome \in [Threads -> {"fine", "broken", "failed"}]
    /\ sent \in 0 .. MaxMessages

GInit ==
    /\ Init
    /\ worker   = [c \in Sockets |-> None]
    /\ pending  = [c \in Sockets |-> 0]
    /\ reading  = [c \in Sockets |-> FALSE]
    /\ posted   = [c \in Sockets |-> FALSE]
    /\ writing  = [c \in Sockets |-> FALSE]
    /\ closing  = [c \in Sockets |-> FALSE]
    /\ called   = [c \in Sockets |-> FALSE]
    /\ userdata = [c \in Sockets |-> None]
    /\ job      = [t \in Threads |-> NoJob]
    /\ outcome  = [t \in Threads |-> "fine"]
    /\ conn = [c \in Sockets |-> "none"]
    /\ peer = [c \in Sockets |-> "up"]
    /\ sent = 0

-----------------------------------------------------------------------------
(* Helpers *)

\* t is free to run the next event of c
Serves(t, c) == conn[c] = "live" /\ worker[c] = t /\ job[t] = NoJob

\* the handler of c's event calls a method for the session s
Calls(t, c, kind, entry, s) ==
    /\ Call(t) /\ pc'[t] = entry /\ sess'[t] = s
    /\ job' = [job EXCEPT ![t] = [sock |-> c, kind |-> kind, sess |-> s]]
    /\ outcome' = [outcome EXCEPT ![t] = "fine"]

NoCall == UNCHANGED <<vars, job, outcome>>

\* the handler of c runs in t, and the method it called has ended
Returned(t, c, kind) ==
    /\ job[t].sock = c /\ job[t].kind = kind /\ pc[t] = "idle"
    /\ job' = [job EXCEPT ![t] = NoJob]
    /\ outcome' = [outcome EXCEPT ![t] = "fine"]
    /\ UNCHANGED <<vars, sent>>

\* check_destroy after the close handler: `delete this`, unless a read or a write
\* still refers to the connection
DeleteUnlessBusy(c, busy) == conn' = IF busy THEN conn ELSE [conn EXCEPT ![c] = "gone"]

\* mutant: a connection that breaks is deleted without the close handler
CheckDestroyUncalled(t, c, busy) == NoCall /\ DeleteUnlessBusy(c, busy)

\* check_destroy: the close handler is called, again where an earlier
\* check_destroy called it; it does nothing once no session is bound
CheckDestroy(t, c, busy) ==
    IF called[c] \/ userdata[c] = None
    THEN NoCall /\ DeleteUnlessBusy(c, busy)
    ELSE Calls(t, c, "destroy", "close", userdata[c]) /\ UNCHANGED conn

-----------------------------------------------------------------------------
(* Clients.  What a client does while a handler of its socket runs is seen when *)
(* the handler has returned, and is a step after that.                       *)

Quiet(c) == conn[c] = "live" /\ \A t \in Threads : job[t].sock # c

Send(c) ==
    /\ Quiet(c) /\ peer[c] = "up"
    /\ sent < MaxMessages
    /\ sent' = sent + 1
    /\ pending' = [pending EXCEPT ![c] = @ + 1]
    /\ UNCHANGED <<vars, conn, worker, peer, reading, posted, writing, closing, called,
                   userdata, job, outcome>>

\* the client closes the socket in order, or the connection breaks
HangUp(c) ==
    /\ Quiet(c)
    /\ \/ peer[c] = "up"      /\ peer' = [peer EXCEPT ![c] = "closing"]
       \/ peer[c] # "down"    /\ peer' = [peer EXCEPT ![c] = "down"]
    /\ UNCHANGED <<vars, conn, worker, pending, reading, posted, writing, closing, called,
                   userdata, job, outcome, sent>>

-----------------------------------------------------------------------------
(* onopen *)

\* the upgrade response is written, and onopen calls openSession
Accept(t, c) ==
    /\ conn[c] = "none" /\ job[t] = NoJob
    /\ \E s \in Sessions : Calls(t, c, "open", "open", s)
    /\ conn'    = [conn EXCEPT ![c] = "live"]
    /\ worker'  = [worker EXCEPT ![c] = t]
    /\ writing' = [writing EXCEPT ![c] = TRUE]
    /\ UNCHANGED <<peer, pending, reading, posted, closing, called, userdata, sent>>

\* mutant: the session is bound before it is known that openSession succeeded
OpenReturnsBound(t, c) ==
    /\ Returned(t, c, "open")
    /\ userdata' = [userdata EXCEPT ![c] = job[t].sess]
    /\ posted'   = [posted EXCEPT ![c] = TRUE]
    /\ reading'  = [reading EXCEPT ![c] = TRUE]
    /\ UNCHANGED <<conn, worker, peer, pending, writing, closing, called>>

\* SESSION_INIT, or the error where openSession threw and no session is bound
OpenReturns(t, c) ==
    /\ Returned(t, c, "open")
    /\ userdata' = [userdata EXCEPT ![c] = IF outcome[t] = "failed" THEN None
                                                                    ELSE job[t].sess]
    /\ posted'   = [posted EXCEPT ![c] = TRUE]
    /\ reading'  = [reading EXCEPT ![c] = TRUE]
    /\ UNCHANGED <<conn, worker, peer, pending, writing, closing, called>>

-----------------------------------------------------------------------------
(* onmessage *)

\* mutant: a read that brought nothing is handled like a message
ReadsNothing(t, c) == Serves(t, c) /\ reading[c]

Reads(t, c) == Serves(t, c) /\ reading[c] /\ pending[c] > 0

\* no session is bound, the text is no JSON, or its type is unknown: answered
\* without a call
ReadRefused(t, c) ==
    /\ Reads(t, c)
    /\ pending' = [pending EXCEPT ![c] = @ - 1]
    /\ posted'  = [posted EXCEPT ![c] = TRUE]
    /\ NoCall
    /\ UNCHANGED <<conn, worker, peer, reading, writing, closing, called, userdata, sent>>

\* mutant: the message names the session
ReadMessageNaming(t, c) ==
    /\ Reads(t, c)
    /\ userdata[c] # None
    /\ \E entry \in {"upload", "reply", "file"}, s \in Sessions :
          Calls(t, c, "message", entry, s)
    /\ pending' = [pending EXCEPT ![c] = @ - 1]
    /\ reading' = [reading EXCEPT ![c] = FALSE]
    /\ UNCHANGED <<conn, worker, peer, posted, writing, closing, called, userdata, sent>>

\* UPLOAD_INVOICE, USER_REPLY, REQUEST_FILING
ReadMessage(t, c) ==
    /\ Reads(t, c)
    /\ userdata[c] # None
    /\ \E entry \in {"upload", "reply", "file"} :
          Calls(t, c, "message", entry, userdata[c])
    /\ pending' = [pending EXCEPT ![c] = @ - 1]
    /\ reading' = [reading EXCEPT ![c] = FALSE]
    /\ UNCHANGED <<conn, worker, peer, posted, writing, closing, called, userdata, sent>>

\* the frames, or the error where the method threw, are sent and the next message
\* is read; a broken frame throws out of the handler, before either
MessageReturns(t, c) ==
    /\ Returned(t, c, "message")
    /\ posted'  = [posted EXCEPT ![c] = @ \/ outcome[t] # "broken"]
    /\ reading' = [reading EXCEPT ![c] = outcome[t] # "broken"]
    /\ UNCHANGED <<conn, worker, peer, pending, writing, closing, called, userdata>>

-----------------------------------------------------------------------------
(* onclose *)

\* the client's close frame: close() calls the close handler, which calls
\* closeSession where a session is bound
ReadCloseFrame(t, c) ==
    /\ Serves(t, c) /\ reading[c] /\ pending[c] = 0
    /\ peer[c] = "closing" /\ ~called[c]
    /\ called'  = [called EXCEPT ![c] = TRUE]
    /\ reading' = [reading EXCEPT ![c] = FALSE]
    /\ IF userdata[c] = None
       THEN /\ NoCall
            /\ writing' = [writing EXCEPT ![c] = TRUE]
            /\ closing' = [closing EXCEPT ![c] = TRUE]
       ELSE /\ Calls(t, c, "closeFrame", "close", userdata[c])
            /\ UNCHANGED <<writing, closing>>
    /\ UNCHANGED <<conn, worker, peer, pending, posted, userdata, sent>>

\* the session is unbound and a close frame written; where closeSession threw
\* neither happens, and nothing reads from the socket again
CloseFrameReturns(t, c) ==
    LET ok == outcome[t] # "failed" IN
    /\ Returned(t, c, "closeFrame")
    /\ userdata' = [userdata EXCEPT ![c] = IF ok THEN None ELSE @]
    /\ writing'  = [writing EXCEPT ![c] = @ \/ ok]
    /\ closing'  = [closing EXCEPT ![c] = @ \/ ok]
    /\ UNCHANGED <<conn, worker, peer, pending, reading, posted, called>>

\* the read fails, and with it what the client has sent last
ReadError(t, c) ==
    /\ Serves(t, c) /\ reading[c] /\ peer[c] = "down"
    /\ reading' = [reading EXCEPT ![c] = FALSE]
    /\ pending' = [pending EXCEPT ![c] = 0]
    /\ closing' = [closing EXCEPT ![c] = TRUE]
    /\ CheckDestroy(t, c, writing[c])
    /\ UNCHANGED <<worker, peer, posted, writing, called, userdata, sent>>

\* mutant: the session is deleted and stays bound
DestroyReturnsBound(t, c) ==
    /\ Returned(t, c, "destroy")
    /\ IF outcome[t] = "failed" THEN UNCHANGED conn
                                ELSE DeleteUnlessBusy(c, reading[c] \/ writing[c])
    /\ UNCHANGED <<worker, peer, pending, reading, posted, writing, closing, called, userdata>>

\* the session is unbound; where closeSession threw it stays bound, and the
\* connection there, until another check_destroy
DestroyReturns(t, c) ==
    /\ Returned(t, c, "destroy")
    /\ IF outcome[t] = "failed"
       THEN UNCHANGED <<conn, userdata>>
       ELSE /\ userdata' = [userdata EXCEPT ![c] = None]
            /\ DeleteUnlessBusy(c, reading[c] \/ writing[c])
    /\ UNCHANGED <<worker, peer, pending, reading, posted, writing, closing, called>>

-----------------------------------------------------------------------------
(* Writing *)

Flush(t, c) ==
    /\ Serves(t, c) /\ posted[c] /\ ~writing[c]
    /\ posted'  = [posted EXCEPT ![c] = FALSE]
    /\ writing' = [writing EXCEPT ![c] = TRUE]
    /\ NoCall
    /\ UNCHANGED <<conn, worker, peer, pending, reading, closing, called, userdata, sent>>

\* a write succeeds; the one after a close frame ends the connection
WriteDone(t, c) ==
    /\ Serves(t, c) /\ writing[c] /\ ~closing[c]
    /\ writing' = [writing EXCEPT ![c] = FALSE]
    /\ closing' = [closing EXCEPT ![c] = called[c]]
    /\ NoCall
    /\ UNCHANGED <<conn, worker, peer, pending, reading, posted, called, userdata, sent>>

\* mutant: only a write that fails ends the connection, not one that is its last
WriteFailsOnly(t, c) ==
    /\ Serves(t, c) /\ writing[c] /\ peer[c] = "down"
    /\ writing' = [writing EXCEPT ![c] = FALSE]
    /\ closing' = [closing EXCEPT ![c] = TRUE]
    /\ CheckDestroy(t, c, reading[c])
    /\ UNCHANGED <<worker, peer, pending, reading, posted, called, userdata, sent>>

\* a write fails, or ends on a connection that is being closed
WriteFails(t, c) ==
    /\ Serves(t, c) /\ writing[c]
    /\ closing[c] \/ peer[c] = "down"
    /\ writing' = [writing EXCEPT ![c] = FALSE]
    /\ closing' = [closing EXCEPT ![c] = TRUE]
    /\ CheckDestroy(t, c, reading[c])
    /\ UNCHANGED <<worker, peer, pending, reading, posted, called, userdata, sent>>

-----------------------------------------------------------------------------
(* The pipeline under a handler, and restarts *)

\* frames that quote text from outside: the reply, and why an upload was refused
Quotes(t) == pc'[t] = "idle" /\ (pc[t] = "replyAck" \/ pc[t] = "upload")

\* a step of the method that the handler called
Method(t) ==
    /\ job[t] # NoJob
    /\ Acquire(t) \/ Handler(t)
    /\ \E reply \in Replies :
          outcome' = [outcome EXCEPT ![t] = IF faults' # faults THEN "failed"
                                            ELSE IF Quotes(t) THEN reply ELSE "fine"]
    /\ UNCHANGED <<sockets, job, sent>>

\* SIGINT stops the server without onclose, and is a crash to the sessions
GCrash ==
    /\ Crash
    /\ worker'   = [c \in Sockets |-> None]
    /\ pending'  = [c \in Sockets |-> 0]
    /\ reading'  = [c \in Sockets |-> FALSE]
    /\ posted'   = [c \in Sockets |-> FALSE]
    /\ writing'  = [c \in Sockets |-> FALSE]
    /\ closing'  = [c \in Sockets |-> FALSE]
    /\ called'   = [c \in Sockets |-> FALSE]
    /\ userdata' = [c \in Sockets |-> None]
    /\ job'      = [t \in Threads |-> NoJob]
    /\ outcome'  = [t \in Threads |-> "fine"]
    /\ conn' = [c \in Sockets |-> IF conn[c] = "live" THEN "gone" ELSE conn[c]]
    /\ UNCHANGED <<peer, sent>>

-----------------------------------------------------------------------------
Client(c)       == Send(c) \/ HangUp(c)
OnMessage(t, c) == ReadRefused(t, c) \/ ReadMessage(t, c) \/ MessageReturns(t, c)
OnClose(t, c)   == \/ ReadCloseFrame(t, c) \/ CloseFrameReturns(t, c)
                   \/ ReadError(t, c) \/ DestroyReturns(t, c)
Writes(t, c)    == Flush(t, c) \/ WriteDone(t, c) \/ WriteFails(t, c)
Serve(t) == \/ \E c \in Sockets : OpenReturns(t, c) \/ OnMessage(t, c) \/ OnClose(t, c)
                                                    \/ Writes(t, c)
            \/ Method(t)

GNext == \/ \E c \in Sockets : Client(c)
         \/ \E t \in Threads, c \in Sockets : Accept(t, c)
         \/ \E t \in Threads : Serve(t)
         \/ GCrash

GSpec == GInit /\ [][GNext]_gvars

\* a worker runs as long as an event of one of its sockets or a step of a handler
\* is left to run; clients do as they please, except that TCP reports a lost peer
GFairSpec == GSpec /\ \A t \in Threads : WF_gvars(Serve(t))

-----------------------------------------------------------------------------
(* Properties *)

Bound(s) == {c \in Sockets : conn[c] = "live" /\ userdata[c] = s}
Done(s)  == memStatus[s] \in {"FILED", "ABANDONED"}

\* The string behind userdata always names a session of its own: one that is in
\* memory and stored, that no other socket names, and that no handler of another
\* socket works on (main.cpp:197, "the id rides on the connection").
SessionsAreOwn ==
    \A s \in Sessions :
        /\ Cardinality(Bound(s)) <= 1
        /\ Bound(s) # {} => s \in live /\ dbStatus[s] # "NONE"
        /\ \A t \in Threads : pc[t] \notin {"idle", "open"} /\ sess[t] = s
                                  => Bound(s) = {job[t].sock}

\* Once ABANDONED a session keeps its stored status: no message that is read
\* after onclose, and no second call of the close handler, reaches it again
\* (main.cpp:268-273 unbinds it, main.cpp:206 refuses the message).
AbandonedIsFinal ==
    [][\A s \in Sessions : dbStatus[s] = "ABANDONED" => dbStatus'[s] = "ABANDONED"]_gvars

\* Every session in memory that is neither filed nor abandoned has a socket, or
\* the handler that is opening it: sockets come and go, handlers throw, and no
\* session is left that nobody can close.  Hence a stored session is never
\* adopted after a restart, though requestFiling provides for it
\* (Pipeline.cpp:286-297): a socket only ever names the session it opened.
NoneIsOrphaned ==
    \A s \in live :
        Done(s) \/ Bound(s) # {} \/ \E t \in Threads : job[t].kind = "open" /\ job[t].sess = s

\* The socket of a client that leaves is deleted, in whatever order messages,
\* writes and the close arrive, and so (NoneIsOrphaned) its session ends FILED or
\* ABANDONED (main.cpp:271, Pipeline.hpp:84); unless a statement fails or the
\* process dies.
EndedIsClosed ==
    \A c \in Sockets :
        conn[c] = "live" /\ peer[c] # "up" ~> conn[c] = "gone" \/ faults # 0 \/ crashes # 0
=============================================================================
