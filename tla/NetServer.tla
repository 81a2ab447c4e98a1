----------------------------- MODULE NetServer -----------------------------
(***************************************************************************)
(* The network service of src/observer/net with both of its threading      *)
(* models: a thread for each connection                                    *)
(* (one_thread_per_connection_thread_handler.cpp) and the pool of threads  *)
(* fed by a libevent loop (java_thread_pool_thread_handler.cpp over        *)
(* deps/common/thread/thread_pool_executor.cpp).                           *)
(*                                                                         *)
(* A communicator is identified with the client it talks to; each client   *)
(* has connected, sends a request, waits for its answer, and may vanish at *)
(* any moment.  A request is what `read_event' collects up to the          *)
(* terminating zero byte, or a packet of the MySQL protocol: it may have   *)
(* arrived in part.  What a statement does is SqlQuery's business; here it *)
(* is one answer in the writer's buffer.                                   *)
(***************************************************************************)
EXTENDS Integers, Sequences, FiniteSets

CONSTANTS Clients,      \* the clients
          Threads,      \* room for the threads of the pool
          CoreSize,     \* core_pool_size_
          MaxSize,      \* max_pool_size_
          MaxRequests,  \* bound: the requests the clients send
          MaxGone,      \* bound: no client vanishes once so many connections ended
          Params,       \* the server's parameters: pairs of threading model and protocol
          EarlyThreads  \* whether a new thread may get to look at state_ before init sets it

ASSUME NetAssumption == /\ Clients \subseteq Nat \ {0} /\ Threads \subseteq Nat \ {0}
                        /\ Clients \cap Threads = {}
                        /\ CoreSize \in 1..MaxSize /\ MaxSize = Cardinality(Threads) /\ MaxSize \in Nat
                        /\ MaxRequests \in Nat /\ MaxGone \in Nat
                        /\ Params \subseteq {"pool", "per_connection"} \X {"plain", "mysql"}
                        /\ EarlyThreads \in BOOLEAN

VARIABLES mode,         \* server_param_.thread_handling: "pool" or "per_connection"
          protocol,     \* server_param_.protocol: "plain" or "mysql"
          authed,       \* MysqlCommunicator::authed_: clients that have answered the handshake
          started,      \* NetServer::started_
          main,         \* main thread: "init", "submit", "extend" while the pool starts; "poll", "stop",
                        \* "await", "freed" (the handler is deleted)
          sock,         \* client -> "backlog", "open", "gone"
          req,          \* client -> "none", "part", "full", "long" (for the buffer), "taken"
          sent,         \* requests begun so far
          comm,         \* communicator -> "none", "live", "freed"
          registered,   \* event_map_ or thread_map_
          armed,        \* clients whose event is added to the event base
          loopexit,     \* event_base_loopexit was called
          state,        \* ThreadPoolExecutor::state_
          active,       \* active_count_
          queue,        \* work_queue_
          running,      \* workers whose running_ is true
          thr           \* thread -> [pc, core, task]

server == <<mode, protocol, authed>>
client == <<sock, req, sent>>
handler == <<registered, armed, loopexit, running>>
pool   == <<state, active, queue>>
vars == <<server, started, main, client, comm, handler, pool, thr>>

Loop == 0                                           \* event_loop_thread as a task
Off  == [pc |-> "none", core |-> FALSE, task |-> Loop]
Workers == Threads \cup Clients                     \* a worker of per_connection is its client
\* Which thread it is does not matter: the one of the lowest number.
First(S) == CHOOSE t \in S : \A u \in S : t <= u
FreeThread == First({t \in Threads : thr[t].pc = "none"})
PoolSize == Cardinality({t \in Threads : thr[t].pc # "none"})

\* serve() has created the handler; the pool's start() is still to come.
Init ==
    /\ \E p \in Params : mode = p[1] /\ protocol = p[2]
    /\ authed = {}
    /\ started = (mode = "per_connection") /\ main = IF mode = "pool" THEN "init" ELSE "poll"
    /\ sock = [c \in Clients |-> "backlog"] /\ req = [c \in Clients |-> "none"] /\ sent = 0
    /\ comm = [c \in Clients |-> "none"]
    /\ registered = {} /\ armed = {} /\ loopexit = FALSE /\ running = {}
    /\ state = "NEW" /\ active = 0 /\ queue = <<>>
    /\ thr = [t \in Workers |-> Off]

(***************************************************************************)
(* The clients (external).                                                 *)
(***************************************************************************)
BeginRequest(c) ==
    /\ sock[c] = "open" /\ req[c] = "none" /\ sent < MaxRequests
    /\ req' = [req EXCEPT ![c] = "part"] /\ sent' = sent + 1
    /\ UNCHANGED <<server, started, main, sock, comm, handler, pool, thr>>

EndRequest(c) ==
    /\ sock[c] = "open" /\ req[c] = "part"
    /\ \E r \in {"full", "long"} : (protocol = "plain" \/ r = "full") /\ req' = [req EXCEPT ![c] = r]
    /\ UNCHANGED <<server, started, main, sock, sent, comm, handler, pool, thr>>

Vanish(c) ==
    /\ sock[c] = "open" /\ Cardinality({d \in Clients : sock[d] = "gone"}) < MaxGone
    /\ sock' = [sock EXCEPT ![c] = "gone"]
    /\ UNCHANGED <<server, started, main, req, sent, comm, handler, pool, thr>>

Readable(c) == req[c] \in {"part", "full", "long"} \/ sock[c] = "gone"

(***************************************************************************)
(* start() of the pool, in the main thread.                                *)
(***************************************************************************)
\* ThreadPoolExecutor::init: the threads run while state_ is still NEW; when there are enough of
\* them the pool is RUNNING.
InitPool ==
    /\ main = "init"
    /\ IF PoolSize < CoreSize
       THEN /\ thr' = [thr EXCEPT ![FreeThread] = [pc |-> "loop", core |-> TRUE, task |-> Loop]]
            /\ UNCHANGED <<main, state>>
       ELSE main' = "submit" /\ state' = "RUNNING" /\ thr' = thr
    /\ UNCHANGED <<server, started, client, comm, handler, active, queue>>

SubmitLoop ==
    /\ main = "submit" /\ main' = "extend"
    /\ queue' = Append(queue, Loop)
    /\ UNCHANGED <<server, started, client, comm, handler, state, active, thr>>

\* extend_thread: a thread more if the tasks outnumber the threads that look idle.
MustExtend == Len(queue) > PoolSize - active /\ PoolSize < MaxSize
Extended(th) == IF MustExtend THEN [th EXCEPT ![FreeThread].pc = "loop"] ELSE th

StartServing ==
    /\ main = "extend" /\ main' = "poll" /\ started' = TRUE
    /\ thr' = Extended(thr)
    /\ UNCHANGED <<server, client, comm, handler, pool>>

(***************************************************************************)
(* The main thread: serve().                                               *)
(***************************************************************************)
Polling == main = "poll" /\ started

\* new_connection of the threading model.  The worker's thread is started under lock_, so it cannot
\* close the connection before it is in the map.
NewConnection(c) ==
    /\ registered' = registered \cup {c}
    /\ IF mode = "pool" THEN armed' = armed \cup {c} /\ UNCHANGED <<running, thr>>
       ELSE /\ running' = running \cup {c} /\ armed' = armed
            /\ thr' = [thr EXCEPT ![c] = [pc |-> "poll", core |-> FALSE, task |-> c]]

\* accept with Communicator::init.
Accept(c) ==
    /\ Polling /\ sock[c] = "backlog"
    /\ sock' = [sock EXCEPT ![c] = "open"]
    /\ comm' = [comm EXCEPT ![c] = "live"]
    /\ NewConnection(c)
    /\ UNCHANGED <<server, started, main, req, sent, loopexit, pool>>

\* A socket option that cannot be set: the connection is closed again.
Refuse(c) ==
    /\ Polling /\ sock[c] = "backlog"
    /\ sock' = [sock EXCEPT ![c] = "gone"]
    /\ UNCHANGED <<server, started, main, req, sent, comm, handler, pool, thr>>

\* quit_thread_func, on a signal.
Shutdown ==
    /\ started /\ started' = FALSE
    /\ UNCHANGED <<server, main, client, comm, handler, pool, thr>>

\* Mutant: only the executor is told to stop.
MutStopLoop ==
    /\ main = "poll" /\ ~started
    /\ main' = "stop"
    /\ running' = IF mode = "pool" THEN running ELSE {}
    /\ UNCHANGED <<server, started, client, comm, registered, armed, loopexit, pool, thr>>

\* stop() of the pool asks the loop to exit first, then the executor.
StopLoop ==
    /\ main = "poll" /\ ~started
    /\ main' = "stop"
    /\ IF mode = "pool" THEN loopexit' = TRUE /\ running' = running
       ELSE running' = {} /\ loopexit' = loopexit
    /\ UNCHANGED <<server, started, client, comm, registered, armed, pool, thr>>

StopPool ==
    /\ main = "stop" /\ main' = "await"
    /\ state' = IF state = "RUNNING" THEN "TERMINATING" ELSE state
    /\ UNCHANGED <<server, started, client, comm, handler, active, queue, thr>>

NoThreads == \A t \in Threads : thr[t].pc = "none"

\* Mutant: the pool's threads are not waited for.
MutAwaitStop ==
    /\ main = "await" /\ main' = "freed"
    /\ comm' = [c \in Clients |-> IF c \in registered THEN "freed" ELSE comm[c]]
    /\ registered' = {} /\ armed' = {}
    /\ UNCHANGED <<server, started, client, loopexit, running, pool, thr>>

\* await_stop; the pool's frees the connections that are left, and serve() deletes the handler.
AwaitStop ==
    /\ main = "await" /\ main' = "freed"
    /\ IF mode = "pool" THEN NoThreads ELSE registered = {}
    /\ comm' = [c \in Clients |-> IF c \in registered THEN "freed" ELSE comm[c]]
    /\ registered' = {} /\ armed' = {}
    /\ UNCHANGED <<server, started, client, loopexit, running, pool, thr>>

(***************************************************************************)
(* ThreadPoolExecutor::thread_func.                                        *)
(***************************************************************************)
Goto(t, pc) == thr' = [thr EXCEPT ![t].pc = pc]

Pop(t) ==
    /\ thr[t].pc = "loop" /\ queue # <<>>
    /\ queue' = Tail(queue)
    /\ thr' = [thr EXCEPT ![t].pc = "popped", ![t].task = Head(queue)]
    /\ UNCHANGED <<server, started, main, client, comm, handler, state, active>>

\* Until here the pool still counts the thread as idle.
BeginTask(t) ==
    /\ thr[t].pc = "popped"
    /\ active' = active + 1
    /\ Goto(t, IF thr[t].task = Loop THEN "dispatch" ELSE "read")
    /\ UNCHANGED <<server, started, main, client, comm, handler, state, queue>>

EndTask(t) ==
    /\ thr[t].pc = "ran"
    /\ active' = active - 1
    /\ thr' = [thr EXCEPT ![t].pc = "loop", ![t].task = Loop]
    /\ UNCHANGED <<server, started, main, client, comm, handler, state, queue>>

\* The pool stops and there is nothing left to do, or the keep-alive time of a thread that is
\* not core is over: the queue is not looked at again.
LeaveLoop(t) ==
    /\ thr[t].pc = "loop"
    /\ \/ state # "RUNNING" /\ queue = <<>> /\ (state = "NEW" => EarlyThreads)
       \/ ~thr[t].core
    /\ Goto(t, "exiting")
    /\ UNCHANGED <<server, started, main, client, comm, handler, pool>>

ExitThread(t) ==
    /\ thr[t].pc = "exiting"
    /\ thr' = [thr EXCEPT ![t] = Off]
    /\ UNCHANGED <<server, started, main, client, comm, handler, pool>>

(***************************************************************************)
(* The event loop, a task of the pool.                                     *)
(***************************************************************************)
\* Mutant: the event is persistent and stays in the base while the request is handled.
MutDispatch(t, c) ==
    /\ thr[t].pc = "dispatch" /\ c \in armed /\ Readable(c)
    /\ queue' = IF state = "RUNNING" /\ Len(queue) < 4 THEN Append(queue, c) ELSE queue
    /\ Goto(t, IF state = "RUNNING" THEN "extend" ELSE "dispatch")
    /\ UNCHANGED <<server, started, main, client, comm, registered, armed, loopexit, running, state, active>>

\* The event fires once and leaves the base; a pool that no longer runs drops the task.
Dispatch(t, c) ==
    /\ thr[t].pc = "dispatch" /\ c \in armed /\ Readable(c)
    /\ armed' = armed \ {c}
    /\ queue' = IF state = "RUNNING" THEN Append(queue, c) ELSE queue
    /\ Goto(t, IF state = "RUNNING" THEN "extend" ELSE "dispatch")
    /\ UNCHANGED <<server, started, main, client, comm, registered, loopexit, running, state, active>>

\* The end of execute.
ExtendThread(t) ==
    /\ thr[t].pc = "extend"
    /\ thr' = Extended([thr EXCEPT ![t].pc = "dispatch"])
    /\ UNCHANGED <<server, started, main, client, comm, handler, pool>>

\* Mutant: without EVLOOP_NO_EXIT_ON_EMPTY the loop ends when no event is added.
MutEndLoop(t) ==
    /\ thr[t].pc = "dispatch" /\ (loopexit \/ armed = {})
    /\ Goto(t, "ran")
    /\ UNCHANGED <<server, started, main, client, comm, handler, pool>>

EndLoop(t) ==
    /\ thr[t].pc = "dispatch" /\ loopexit
    /\ Goto(t, "ran")
    /\ UNCHANGED <<server, started, main, client, comm, handler, pool>>

(***************************************************************************)
(* A worker of its own connection: poll with a timeout.                    *)
(***************************************************************************)
PollWorker(t) ==
    /\ thr[t].pc = "poll"
    /\ \/ t \notin running /\ Goto(t, "close")
       \/ t \in running /\ Readable(t) /\ Goto(t, "read")
       \/ t \in running /\ sock[t] = "gone" /\ Goto(t, "close")
    /\ UNCHANGED <<server, started, main, client, comm, handler, pool>>

(***************************************************************************)
(* SqlTaskHandler::handle_event, in a thread of either model.              *)
(***************************************************************************)
\* read_event turns on EAGAIN until the whole request or the end of the stream is there; a request
\* that fills its buffer reads as the end of the stream.
ReadEvent(t) ==
    LET c == thr[t].task
    IN  /\ thr[t].pc = "read" /\ protocol = "plain"
        /\ \/ req[c] = "full" /\ req' = [req EXCEPT ![c] = "taken"] /\ Goto(t, "write")
           \/ req[c] = "long" /\ Goto(t, "close") /\ req' = [req EXCEPT ![c] = "none"]
           \/ req[c] \in {"none", "part"} /\ sock[c] = "gone" /\ Goto(t, "close") /\ req' = req
        /\ UNCHANGED <<server, started, main, sock, sent, comm, handler, pool>>

\* flush_internal fails only when the connection is broken; on EAGAIN it tries again.
WriteMayFail(c) == sock[c] = "gone"

\* The statement runs and its answer is written.  A failure shows in writen, and the connection is
\* closed, or only in flush, and is not noticed before the next read.
WriteResult(t) ==
    LET c == thr[t].task
    IN  /\ thr[t].pc = "write" /\ protocol = "plain"
        /\ req' = [req EXCEPT ![c] = "none"]
        /\ Goto(t, "done") \/ (WriteMayFail(c) /\ Goto(t, "close"))
        /\ UNCHANGED <<server, started, main, sock, sent, comm, handler, pool>>

\* MysqlCommunicator::read_event reads a whole packet.  The first one answers the handshake, and
\* gets its OK here; so do "select @@version_comment" and the commands that are not queries.  Only
\* a query becomes an event.
ReadMysql(t) ==
    LET c == thr[t].task
    IN  /\ thr[t].pc = "read" /\ protocol = "mysql"
        /\ \/ /\ req[c] = "full" /\ c \in authed
              /\ req' = [req EXCEPT ![c] = "taken"] /\ Goto(t, "write") /\ UNCHANGED authed
           \/ /\ req[c] = "full" /\ req' = [req EXCEPT ![c] = "none"]
              /\ authed' = authed \cup {c}
              /\ Goto(t, "done") \/ (WriteMayFail(c) /\ Goto(t, "close"))
           \/ /\ req[c] \in {"none", "part"} /\ sock[c] = "gone"
              /\ Goto(t, "close") /\ UNCHANGED <<req, authed>>
        /\ UNCHANGED <<mode, protocol, started, main, sock, sent, comm, handler, pool>>

\* need_disconnect, by the part of the answer whose writing failed or not: the rows forget that
\* they failed when the packet after them is sent.
WriteState(failed)           == failed
SendColumnDefinition(failed) == failed
SendResultRows(failed)       == FALSE
NeedDisconnect(part, failed) ==
    CASE part = "state"   -> WriteState(failed)
      [] part = "columns" -> SendColumnDefinition(failed)
      [] part = "rows"    -> SendResultRows(failed)

WriteMysql(t) ==
    LET c == thr[t].task
    IN  /\ thr[t].pc = "write" /\ protocol = "mysql"
        /\ req' = [req EXCEPT ![c] = "none"]
        /\ \E part \in {"state", "columns", "rows"}, failed \in {FALSE, WriteMayFail(c)} :
             Goto(t, IF NeedDisconnect(part, failed) THEN "close" ELSE "done")
        /\ UNCHANGED <<server, started, main, sock, sent, comm, handler, pool>>

\* The event is added again, or the worker polls again.
Rearm(t) ==
    /\ thr[t].pc = "done"
    /\ IF mode = "pool" THEN armed' = armed \cup {thr[t].task} /\ Goto(t, "ran")
       ELSE armed' = armed /\ Goto(t, "poll")
    /\ UNCHANGED <<server, started, main, client, comm, registered, loopexit, running, pool>>

\* close_connection: out of the map; event_del and event_free, or stop and detach, then delete.
CloseConnection(t) ==
    /\ thr[t].pc = "close"
    /\ registered' = registered \ {thr[t].task} /\ running' = running \ {thr[t].task}
    /\ Goto(t, "delete")
    /\ UNCHANGED <<server, started, main, client, comm, armed, loopexit, pool>>

\* ~Communicator: the session, the descriptor and the writer go.
DeleteCommunicator(t) ==
    /\ thr[t].pc = "delete"
    /\ comm' = [comm EXCEPT ![thr[t].task] = "freed"] /\ sock' = [sock EXCEPT ![thr[t].task] = "gone"]
    /\ thr' = [thr EXCEPT ![t] = IF mode = "pool" THEN [@ EXCEPT !.pc = "ran"] ELSE Off]
    /\ UNCHANGED <<server, started, main, req, sent, handler, pool>>

HandleEvent(t) == \/ ReadEvent(t) \/ WriteResult(t) \/ ReadMysql(t) \/ WriteMysql(t) \/ Rearm(t)
                  \/ CloseConnection(t) \/ DeleteCommunicator(t)
PoolThread(t) == Pop(t) \/ BeginTask(t) \/ EndTask(t) \/ ExitThread(t) \/ ExtendThread(t) \/ EndLoop(t)

Next ==
    \/ \E c \in Clients : BeginRequest(c) \/ EndRequest(c) \/ Vanish(c)
    \/ \E c \in Clients : Accept(c) \/ Refuse(c) \/ PollWorker(c)
    \/ InitPool \/ SubmitLoop \/ StartServing \/ Shutdown \/ StopLoop \/ StopPool \/ AwaitStop
    \/ \E t \in Threads : PoolThread(t) \/ LeaveLoop(t) \/ \E c \in Clients : Dispatch(t, c)
    \/ \E t \in Workers : HandleEvent(t)

\* Threads get to run; libevent returns every event that is ready; a client finishes a request
\* it began or goes away; serve() looks at started_ every time poll() times out.
Fairness ==
    /\ \A c \in Clients : /\ WF_vars(Accept(c)) /\ WF_vars(EndRequest(c))
                          /\ WF_vars(PollWorker(c) \/ HandleEvent(c))
                          /\ WF_vars(\E t \in Threads : Dispatch(t, c))
    /\ \A t \in Threads : WF_vars(PoolThread(t) \/ HandleEvent(t) \/ (state # "RUNNING" /\ LeaveLoop(t)))
    /\ WF_vars(InitPool \/ SubmitLoop \/ StartServing \/ StopLoop \/ StopPool \/ AwaitStop)

Spec == Init /\ [][Next]_vars /\ Fairness

(***************************************************************************)
(* Properties.                                                             *)
(***************************************************************************)
\* How often a connection's event, queued task, thread or worker may still come to use it.
Users(c) ==
    Cardinality({t \in Workers : thr[t].pc \notin {"none", "ran"} /\ thr[t].task = c})
      + Cardinality({i \in DOMAIN queue : queue[i] = c}) + (IF c \in armed THEN 1 ELSE 0)

\* A communicator, which has no lock, is never used by two threads, nor after it was freed: at any
\* time at most one of its armed event, a queued task and a thread stands for it, none once it is
\* freed.
OneUser ==
    \A c \in Clients :
        /\ Users(c) <= IF comm[c] = "freed" THEN 0 ELSE 1
        /\ c \in armed => comm[c] = "live" /\ c \in registered
        /\ \A t \in Workers : (thr[t].task = c /\ thr[t].pc \in {"popped", "read", "write", "done"}) => comm[c] = "live"

\* When the pool has stopped and serve() goes on to delete the handler, no thread of the pool runs
\* any more, no task was forgotten in the queue, and every connection ever accepted was freed and
\* its descriptor given back.
PoolStopsClean ==
    (main = "freed" /\ mode = "pool") =>
        /\ NoThreads /\ queue = <<>>
        /\ \A c \in Clients : comm[c] \in {"none", "freed"}

\* While the server runs, a request that arrived whole is answered unless its
\* client goes away, also when the threads of the pool come and go and all are busy for a while.
Served ==
    \A c \in Clients : req[c] = "full" ~> (req[c] = "none" \/ sock[c] = "gone" \/ ~started)

\* A server that is told to quit does: whatever the threads were doing and whoever was connected,
\* serve() gets past await_stop.
Stops == (main = "poll" /\ ~started) ~> main = "freed"

\* The documentation of ThreadPoolExecutor (thread_pool_executor.h:36): core threads do not leave, as
\* long as the pool is not shut down.
CoreThreadsStay == state = "RUNNING" => Cardinality({t \in Threads : thr[t].core}) = CoreSize
=============================================================================
