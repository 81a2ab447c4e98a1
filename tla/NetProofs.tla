------------------------------ MODULE NetProofs ------------------------------
(***************************************************************************)
(* Proofs about the network service: for any number of clients, threads    *)
(* and requests a communicator has one user, and a pool that has stopped   *)
(* has left nothing behind.  The threads of the pool start to run after    *)
(* init is done (EarlyThreads = FALSE).                                    *)
(***************************************************************************)
EXTENDS NetServer, FiniteSetTheorems, SequenceTheorems, WellFoundedInduction, TLAPS

Tasks      == Clients \cup {Loop}
LoopPcs    == {"none", "loop", "dispatch", "extend", "exiting"}
RequestPcs == {"poll", "read", "write", "done", "close", "delete"}

\* Types of the variables the proof speaks of.
TypeInv ==
    /\ mode \in {"pool", "per_connection"} /\ protocol \in {"plain", "mysql"}
    /\ main \in {"init", "submit", "extend", "poll", "stop", "await", "freed"}
    /\ sock \in [Clients -> {"backlog", "open", "gone"}]
    /\ comm \in [Clients -> {"none", "live", "freed"}]
    /\ registered \subseteq Clients /\ armed \subseteq Clients
    /\ state \in {"NEW", "RUNNING", "TERMINATING"}
    /\ queue \in Seq(Tasks)
    /\ thr \in [Workers -> [pc : LoopPcs \cup RequestPcs \cup {"popped", "ran"}, core : BOOLEAN,
                            task : Tasks]]

\* A thread that is not in a task, or runs the event loop, has the loop as its task; the others
\* have a client.  A worker of its own connection serves that connection.
PcInv ==
    \A t \in Workers :
        /\ thr[t].pc \in LoopPcs => thr[t].task = Loop
        /\ thr[t].pc \in RequestPcs => thr[t].task \in Clients
        /\ t \in Clients => thr[t].pc \in RequestPcs \cup {"none"} /\ thr[t].task \in {t, Loop}
        /\ t \in Threads => thr[t].pc # "poll"

\* Each threading model leaves the state of the other alone, and the state of the executor follows
\* the main thread.
ModeInv ==
    /\ mode = "per_connection" =>
         /\ state = "NEW" /\ queue = <<>> /\ armed = {} /\ main \in {"poll", "stop", "await", "freed"}
         /\ \A t \in Threads : thr[t].pc = "none"
    /\ mode = "pool" =>
         /\ state = CASE main = "init" -> "NEW"
                      [] main \in {"await", "freed"} -> "TERMINATING"
                      [] OTHER -> "RUNNING"
         /\ \A c \in Clients : thr[c].pc = "none"

Serving(t, c) == thr[t].task = c /\ thr[t].pc \notin {"none", "ran"}
Queued(c)     == \E i \in 1..Len(queue) : queue[i] = c

\* The one user of a connection: its event, a task in the queue or a thread.
UserInv ==
    \A c \in Clients :
        /\ sock[c] = "backlog" => comm[c] = "none" /\ c \notin registered
        /\ c \in armed => comm[c] = "live" /\ c \in registered /\ ~Queued(c)
        /\ Queued(c) => comm[c] = "live"
        /\ \A i, j \in 1..Len(queue) : queue[i] = c /\ queue[j] = c => i = j
        /\ \A t \in Workers : Serving(t, c) => comm[c] = "live" /\ c \notin armed /\ ~Queued(c)
        /\ \A t, u \in Workers : Serving(t, c) /\ Serving(u, c) => t = u

\* A communicator is in the map until the thread that closes it is about to delete it.
RegisteredInv ==
    \A c \in Clients : comm[c] = "live" =>
        c \in registered \/ \E t \in Workers : thr[t].task = c /\ thr[t].pc = "delete"

\* Some core thread takes care of the queue, unless the pool ends and the queue is empty.
Attended == \E t \in Threads : thr[t].core /\ thr[t].pc \notin {"none", "exiting"}
AttendedInv ==
    mode = "pool" =>
        /\ state = "NEW" => /\ queue = <<>>
                            /\ \A t \in Threads : thr[t].pc \in {"none", "loop"}
                            /\ \A t \in Threads : thr[t].pc = "loop" => thr[t].core
        /\ state = "RUNNING" => Attended
        /\ state = "TERMINATING" => Attended \/ queue = <<>>

\* After await_stop nothing is left.
FreedInv ==
    main = "freed" /\ mode = "pool" => NoThreads /\ queue = <<>> /\ \A c \in Clients : comm[c] # "live"

IInv == TypeInv /\ PcInv /\ ModeInv /\ UserInv /\ RegisteredInv /\ AttendedInv /\ FreedInv

-----------------------------------------------------------------------------
\* create_thread_locked finds room for a thread as long as the pool is below its size.
LEMMA FreeThreadExists ==
    ASSUME TypeInv, NEW n \in Nat, n <= MaxSize, PoolSize < n
    PROVE  FreeThread \in Threads /\ thr[FreeThread].pc = "none"
<1> DEFINE F == {t \in Threads : thr[t].pc = "none"}
<1>1. F # {}
  <2> SUFFICES ASSUME F = {} PROVE FALSE
    OBVIOUS
  <2>1. {t \in Threads : thr[t].pc # "none"} = Threads
    OBVIOUS
  <2> QED BY SMTT(20), <2>1, NetAssumption DEF PoolSize
<1>2. F \subseteq Nat
  BY NetAssumption
<1>3. PICK x \in F : \A y \in F : ~(<<y, x>> \in OpToRel(<, Nat))
  BY <1>1, <1>2, WFMin, NatLessThanWellFounded
<1>4. ASSUME NEW y \in F PROVE x <= y
  <2>1. x \in Nat /\ y \in Nat
    BY <1>2
  <2>2. ~(y < x)
    BY <1>3, <2>1 DEF OpToRel
  <2> QED BY <2>1, <2>2
<1>5. First(F) \in F
  BY <1>4 DEF First
<1> QED BY <1>5 DEF FreeThread

\* The pool has a thread when it has as many as it should start with.
LEMMA StartedThreadExists ==
    ASSUME TypeInv, ~(PoolSize < CoreSize)
    PROVE  \E t \in Threads : thr[t].pc # "none"
<1> SUFFICES ASSUME \A t \in Threads : thr[t].pc = "none" PROVE FALSE
  OBVIOUS
<1>1. {t \in Threads : thr[t].pc # "none"} = {}
  OBVIOUS
<1>2. PoolSize = 0
  BY <1>1, FS_EmptySet DEF PoolSize
<1> QED BY <1>2, NetAssumption

\* A step inside the handling of a request.
LEMMA RequestStep ==
    ASSUME IInv, NEW t \in Workers, NEW x \in RequestPcs,
           thr[t].pc \in RequestPcs \ {"delete"}, x = "poll" => t \in Clients,
           Goto(t, x), UNCHANGED <<mode, protocol, main, sock, comm, registered, armed, state, queue>>
    PROVE  IInv'
<1> USE DEF IInv, RequestPcs, LoopPcs
<1>1. thr' = [thr EXCEPT ![t].pc = x]
  BY DEF Goto
<1>2. TypeInv'
  BY <1>1 DEF TypeInv
<1>3. PcInv'
  BY <1>1, NetAssumption DEF PcInv, TypeInv
<1>4. ModeInv'
  BY <1>1, NetAssumption DEF ModeInv, TypeInv, Workers
<1>5. \A u \in Workers, c \in Clients : Serving(u, c)' <=> Serving(u, c)
  BY <1>1 DEF Serving, TypeInv
<1>6. UserInv'
  BY <1>5 DEF UserInv, Queued
<1>7. RegisteredInv'
  BY <1>1 DEF RegisteredInv, TypeInv
<1>8. AttendedInv'
  BY <1>1 DEF AttendedInv, Attended, TypeInv, Workers, ModeInv
<1>9. FreedInv'
  BY <1>1 DEF FreedInv, NoThreads, TypeInv, Workers, ModeInv, UserInv, Serving, PcInv
<1> QED BY <1>2, <1>3, <1>4, <1>6, <1>7, <1>8, <1>9

\* Threads of the pool are started, end or go on between their tasks or in the event loop, and
\* no core thread leaves while there is work.
LEMMA LoopStep ==
    ASSUME IInv, mode = "pool", main # "freed", NEW r \in [Workers -> [pc : LoopPcs \cup {"ran"},
                                                  core : BOOLEAN, task : {Loop}]],
           NEW T \in SUBSET Threads,
           \A t \in T : /\ thr[t].pc \in LoopPcs \cup {"ran"}
                        /\ thr[t].core /\ thr[t].pc \notin {"none", "exiting"} =>
                             \/ r[t].core /\ r[t].pc \notin {"none", "exiting"}
                             \/ state = "TERMINATING" /\ queue = <<>>
                        /\ state = "NEW" => r[t].pc = "loop" /\ r[t].core,
           thr' = [t \in Workers |-> IF t \in T THEN r[t] ELSE thr[t]],
           main' = main \/ (main = "extend" /\ main' = "poll"),
           UNCHANGED <<mode, protocol, sock, comm, registered, armed, state, queue>>
    PROVE  IInv'
<1> USE DEF IInv, RequestPcs, LoopPcs
<1>1. TypeInv'
  BY DEF TypeInv, Tasks
<1>2. PcInv'
  BY NetAssumption DEF PcInv, TypeInv
<1>3. ModeInv'
  BY NetAssumption DEF ModeInv, TypeInv, Workers
<1>4. \A u \in Workers, c \in Clients : Serving(u, c)' <=> Serving(u, c)
  BY NetAssumption DEF Serving, TypeInv, PcInv, Loop, Workers
<1>5. UserInv'
  BY <1>4 DEF UserInv, Queued
<1>6. RegisteredInv'
  <2> SUFFICES ASSUME NEW c \in Clients, comm[c] = "live", c \notin registered
               PROVE  \E t \in Workers : thr'[t].task = c /\ thr'[t].pc = "delete"
    BY DEF RegisteredInv
  <2>1. PICK t \in Workers : thr[t].task = c /\ thr[t].pc = "delete"
    BY DEF RegisteredInv
  <2>2. t \notin T
    BY <2>1
  <2> QED BY <2>1, <2>2
<1>7. AttendedInv'
  <2>1. CASE state = "NEW"
    BY <2>1 DEF AttendedInv, TypeInv, Workers
  <2>2. CASE state # "NEW" /\ ~Attended
    BY <2>2 DEF AttendedInv, TypeInv
  <2>3. CASE state # "NEW" /\ Attended
    <3>1. PICK t \in Threads : thr[t].core /\ thr[t].pc \notin {"none", "exiting"}
      BY <2>3 DEF Attended
    <3> QED BY <2>3, <3>1 DEF AttendedInv, Attended, TypeInv, Workers
  <2> QED BY <2>1, <2>2, <2>3
<1>8. FreedInv'
  BY DEF FreedInv
<1> QED BY <1>1, <1>2, <1>3, <1>5, <1>6, <1>7, <1>8

\* What concerns the clients only.
LEMMA ClientStep ==
    ASSUME IInv, sock' \in [Clients -> {"backlog", "open", "gone"}],
           \A c \in Clients : sock'[c] = "backlog" => sock[c] = "backlog",
           UNCHANGED <<mode, protocol, main, comm, registered, armed, state, queue, thr>>
    PROVE  IInv'
<1> USE DEF IInv
<1>1. TypeInv' /\ PcInv' /\ ModeInv'
  BY DEF TypeInv, PcInv, ModeInv
<1>2. UserInv'
  BY DEF UserInv, Serving, Queued
<1>3. RegisteredInv' /\ AttendedInv' /\ FreedInv'
  BY DEF RegisteredInv, AttendedInv, FreedInv, Attended, NoThreads
<1> QED BY <1>1, <1>2, <1>3

-----------------------------------------------------------------------------
(***************************************************************************)
(* Start and stop.                                                         *)
(***************************************************************************)
LEMMA InitPoolInv == ASSUME IInv, InitPool PROVE IInv'
<1>0. mode = "pool" /\ state = "NEW" /\ main = "init"
  BY DEF IInv, TypeInv, ModeInv, InitPool
<1>1. CASE PoolSize < CoreSize
  <2> DEFINE n == [pc |-> "loop", core |-> TRUE, task |-> Loop]
             r == [u \in Workers |-> n]
  <2>1. PICK f \in Threads : f = FreeThread /\ thr[f].pc = "none"
    <3>1. TypeInv /\ CoreSize \in Nat /\ CoreSize <= MaxSize
      BY NetAssumption DEF IInv
    <3> QED BY <1>1, <3>1, FreeThreadExists
  <2>2. r \in [Workers -> [pc : LoopPcs \cup {"ran"}, core : BOOLEAN, task : {Loop}]]
    BY DEF LoopPcs
  <2>3. r[f].pc = "loop" /\ r[f].core
    BY DEF Workers
  <2>4. thr' = [t \in Workers |-> IF t \in {f} THEN r[t] ELSE thr[t]]
    BY <1>1, <2>1 DEF InitPool, IInv, TypeInv, Workers
  <2>5. UNCHANGED <<mode, protocol, sock, comm, registered, armed, state, queue>> /\ main' = main
    BY <1>1 DEF InitPool, server, client, handler
  <2>6. \A t \in {f} : /\ thr[t].pc \in LoopPcs \cup {"ran"}
                       /\ thr[t].pc \in {"none", "exiting"}
                       /\ r[t].pc = "loop" /\ r[t].core
    BY <2>1, <2>3 DEF LoopPcs
  <2> HIDE DEF r
  <2>7. {f} \in SUBSET Threads
    OBVIOUS
  <2> QED BY <1>0, <2>2, <2>4, <2>5, <2>6, <2>7, LoopStep
<1>2. CASE ~(PoolSize < CoreSize)
  <2>0. main' = "submit" /\ state' = "RUNNING" /\ UNCHANGED <<mode, protocol, sock, comm, registered, armed, queue, thr>>
    BY <1>2 DEF InitPool, server, client, handler
  <2>1. PICK t \in Threads : thr[t].pc # "none"
    BY <1>2, StartedThreadExists DEF IInv
  <2>2. thr[t].pc = "loop" /\ thr[t].core
    BY <1>0, <2>1 DEF IInv, AttendedInv
  <2>3. AttendedInv'
    BY <2>0, <2>2 DEF IInv, AttendedInv, Attended
  <2>4. TypeInv' /\ PcInv' /\ ModeInv'
    BY <1>0, <2>0 DEF IInv, TypeInv, PcInv, ModeInv
  <2>5. UserInv' /\ RegisteredInv' /\ FreedInv'
    BY <2>0 DEF IInv, UserInv, RegisteredInv, FreedInv, Serving, Queued
  <2> QED BY <2>3, <2>4, <2>5 DEF IInv
<1> QED BY <1>1, <1>2

\* A thread of the pool that exists belongs to a pool that has not been waited for.
LEMMA ThreadRuns ==
    ASSUME IInv, NEW t \in Threads, thr[t].pc # "none"
    PROVE  mode = "pool" /\ main # "freed" /\ (state = "NEW" => thr[t].pc = "loop" /\ thr[t].core)
BY DEF IInv, TypeInv, ModeInv, FreedInv, NoThreads, AttendedInv

\* A step of a thread as a new record.
LEMMA SetPc ==
    ASSUME TypeInv, NEW t \in Workers, NEW x, NEW y
    PROVE  /\ [thr EXCEPT ![t].pc = x] = [thr EXCEPT ![t] = [pc |-> x, core |-> thr[t].core, task |-> thr[t].task]]
           /\ [thr EXCEPT ![t].pc = x, ![t].task = y] = [thr EXCEPT ![t] = [pc |-> x, core |-> thr[t].core, task |-> y]]
<1>1. /\ thr[t] = [pc |-> thr[t].pc, core |-> thr[t].core, task |-> thr[t].task]
      /\ thr = [u \in Workers |-> thr[u]]
  BY DEF TypeInv
<1>2. [thr[t] EXCEPT !.pc = x] = [pc |-> x, core |-> thr[t].core, task |-> thr[t].task]
  BY <1>1
<1>3. [thr[t] EXCEPT !.pc = x, !.task = y] = [pc |-> x, core |-> thr[t].core, task |-> y]
  <2>1. [thr[t] EXCEPT !.pc = x, !.task = y] = [[pc |-> x, core |-> thr[t].core, task |-> thr[t].task] EXCEPT !.task = y]
    BY <1>2
  <2> QED BY <2>1
<1>4. [thr EXCEPT ![t].pc = x] = [thr EXCEPT ![t] = [thr[t] EXCEPT !.pc = x]]
  OBVIOUS
<1>5. [thr EXCEPT ![t].pc = x, ![t].task = y] = [thr EXCEPT ![t] = [thr[t] EXCEPT !.pc = x, !.task = y]]
  BY <1>1
<1> QED BY <1>2, <1>3, <1>4, <1>5

\* LoopStep for one thread.
LEMMA OneLoopStep ==
    ASSUME IInv, NEW t \in Threads, thr[t].pc \in LoopPcs \cup {"ran"}, thr[t].pc # "none", state # "NEW",
           NEW n \in [pc : LoopPcs \cup {"ran"}, core : BOOLEAN, task : {Loop}],
           \/ thr[t].core /\ thr[t].pc # "exiting" => n.core /\ n.pc \notin {"none", "exiting"}
           \/ state = "TERMINATING" /\ queue = <<>>,
           thr' = [thr EXCEPT ![t] = n],
           UNCHANGED <<mode, protocol, main, sock, comm, registered, armed, state, queue>>
    PROVE  IInv'
<1> DEFINE r == [u \in Workers |-> n]
<1>1. r \in [Workers -> [pc : LoopPcs \cup {"ran"}, core : BOOLEAN, task : {Loop}]]
  OBVIOUS
<1>2. r[t] = n
  BY DEF Workers
<1>3. thr' = [u \in Workers |-> IF u \in {t} THEN r[u] ELSE thr[u]]
  BY DEF IInv, TypeInv, Workers
<1>4. \A u \in {t} : /\ thr[u].pc \in LoopPcs \cup {"ran"}
                     /\ thr[u].core /\ thr[u].pc \notin {"none", "exiting"} =>
                          \/ r[u].core /\ r[u].pc \notin {"none", "exiting"}
                          \/ state = "TERMINATING" /\ queue = <<>>
  BY <1>2
<1>5. {t} \in SUBSET Threads
  OBVIOUS
<1>6. mode = "pool" /\ main # "freed"
  BY ThreadRuns
<1> HIDE DEF r
<1> QED BY <1>1, <1>3, <1>4, <1>5, <1>6, LoopStep

LEMMA SubmitLoopInv == ASSUME IInv, SubmitLoop PROVE IInv'
<1>0. /\ main = "submit" /\ main' = "extend" /\ queue' = Append(queue, Loop)
      /\ UNCHANGED <<mode, protocol, sock, comm, registered, armed, state, thr>>
  BY DEF SubmitLoop, server, client, handler
<1>1. mode = "pool" /\ state = "RUNNING"
  BY <1>0 DEF IInv, TypeInv, ModeInv
<1>2. queue \in Seq(Tasks) /\ Loop \in Tasks /\ Loop \notin Clients
  BY NetAssumption DEF IInv, TypeInv, Tasks, Loop
<1>3. queue' \in Seq(Tasks) /\ Len(queue') = Len(queue) + 1 /\ queue'[Len(queue) + 1] = Loop
      /\ \A i \in 1..Len(queue) : queue'[i] = queue[i]
  BY <1>0, <1>2, AppendProperties
<1>4. TypeInv' /\ PcInv' /\ ModeInv'
  BY <1>0, <1>1, <1>3 DEF IInv, TypeInv, PcInv, ModeInv
<1>5. ASSUME NEW c \in Clients PROVE \A i \in 1..Len(queue') : queue'[i] = c => i \in 1..Len(queue) /\ queue[i] = c
  BY <1>2, <1>3, LenProperties
<1>6. UserInv'
  BY <1>0, <1>5 DEF IInv, UserInv, Serving, Queued
<1>7. RegisteredInv' /\ AttendedInv' /\ FreedInv'
  BY <1>0, <1>1 DEF IInv, RegisteredInv, AttendedInv, FreedInv, Attended
<1> QED BY <1>4, <1>6, <1>7 DEF IInv

LEMMA StartServingInv == ASSUME IInv, StartServing PROVE IInv'
<1>0. /\ main = "extend" /\ main' = "poll" /\ thr' = Extended(thr)
      /\ UNCHANGED <<mode, protocol, sock, comm, registered, armed, state, queue>>
  BY DEF StartServing, server, client, handler, pool
<1>1. mode = "pool" /\ state = "RUNNING"
  BY <1>0 DEF IInv, TypeInv, ModeInv
<1>2. CASE MustExtend
  <2>1. PICK f \in Threads : f = FreeThread /\ thr[f].pc = "none"
    <3>1. TypeInv /\ MaxSize \in Nat /\ MaxSize <= MaxSize /\ PoolSize < MaxSize
      BY <1>2, NetAssumption DEF IInv, MustExtend
    <3>2. FreeThread \in Threads /\ thr[FreeThread].pc = "none"
      BY <3>1, FreeThreadExists
    <3> QED BY <3>2
  <2> DEFINE n == [pc |-> "loop", core |-> thr[f].core, task |-> Loop]
             r == [u \in Workers |-> n]
  <2>2. thr[f] = [pc |-> "none", core |-> thr[f].core, task |-> Loop] /\ thr[f].core \in BOOLEAN
    BY <2>1 DEF IInv, TypeInv, PcInv, Workers, LoopPcs
  <2>3. r \in [Workers -> [pc : LoopPcs \cup {"ran"}, core : BOOLEAN, task : {Loop}]]
    BY <2>2 DEF LoopPcs
  <2>4. thr' = [t \in Workers |-> IF t \in {f} THEN r[t] ELSE thr[t]]
    <3>1. thr' = [thr EXCEPT ![f] = [thr[f] EXCEPT !.pc = "loop"]] /\ f \in Workers
      BY <1>0, <1>2, <2>1 DEF Extended, Workers
    <3>2. [thr[f] EXCEPT !.pc = "loop"] = n
      BY <2>2
    <3>3. thr' = [thr EXCEPT ![f] = n]
      BY <3>1, <3>2
    <3>4. r[f] = n
      BY <3>1
    <3> QED BY <3>1, <3>3, <3>4 DEF IInv, TypeInv
  <2>5. \A t \in {f} : thr[t].pc \in LoopPcs \cup {"ran"} /\ thr[t].pc \in {"none", "exiting"}
    BY <2>1 DEF LoopPcs
  <2>6. {f} \in SUBSET Threads
    OBVIOUS
  <2> HIDE DEF r
  <2> QED BY <1>0, <1>1, <2>3, <2>4, <2>5, <2>6, LoopStep
<1>3. CASE ~MustExtend
  <2>1. thr' = thr
    BY <1>0, <1>3 DEF Extended
  <2>2. TypeInv' /\ PcInv' /\ ModeInv'
    BY <1>0, <1>1, <2>1 DEF IInv, TypeInv, PcInv, ModeInv
  <2>3. UserInv' /\ RegisteredInv' /\ AttendedInv' /\ FreedInv'
    BY <1>0, <2>1 DEF IInv, UserInv, RegisteredInv, AttendedInv, FreedInv, Serving, Queued, Attended
  <2> QED BY <2>2, <2>3 DEF IInv
<1> QED BY <1>2, <1>3

\* stop of the handler and of the executor.
LEMMA StopInv == ASSUME IInv, StopLoop \/ StopPool PROVE IInv'
<1>0. /\ \/ main = "poll" /\ main' = "stop" /\ state' = state
         \/ main = "stop" /\ main' = "await" /\ state' = IF state = "RUNNING" THEN "TERMINATING" ELSE state
      /\ UNCHANGED <<mode, protocol, sock, comm, registered, armed, queue, thr>>
  BY DEF StopLoop, StopPool, server, client, handler, pool
<1>1. TypeInv' /\ PcInv' /\ ModeInv'
  BY <1>0 DEF IInv, TypeInv, PcInv, ModeInv
<1>2. UserInv' /\ RegisteredInv' /\ FreedInv'
  BY <1>0 DEF IInv, UserInv, RegisteredInv, FreedInv, Serving, Queued
<1>3. AttendedInv'
  BY <1>0 DEF IInv, TypeInv, AttendedInv, Attended, ModeInv
<1> QED BY <1>1, <1>2, <1>3 DEF IInv

LEMMA AwaitStopInv == ASSUME IInv, AwaitStop PROVE IInv'
<1>0. /\ main = "await" /\ main' = "freed" /\ registered' = {} /\ armed' = {}
      /\ comm' = [c \in Clients |-> IF c \in registered THEN "freed" ELSE comm[c]]
      /\ UNCHANGED <<mode, protocol, sock, state, queue, thr>>
  BY DEF AwaitStop, server, client, pool
<1>1. TypeInv' /\ PcInv' /\ ModeInv'
  BY <1>0 DEF IInv, TypeInv, PcInv, ModeInv
<1>2. CASE mode = "pool"
  <2>1. NoThreads /\ state = "TERMINATING"
    BY <1>0, <1>2 DEF AwaitStop, IInv, ModeInv
  <2>2. queue = <<>>
    BY <1>2, <2>1 DEF IInv, AttendedInv, Attended, NoThreads
  <2>3. \A t \in Workers : thr[t].pc = "none"
    BY <1>2, <2>1 DEF IInv, ModeInv, NoThreads, Workers
  <2>4. \A c \in Clients : comm'[c] # "live"
    BY <1>0, <2>3 DEF IInv, TypeInv, RegisteredInv
  <2>5. \A c \in Clients : ~Queued(c)'
    BY <1>0, <2>2 DEF Queued
  <2>6. \A c \in Clients : sock[c] = "backlog" => comm'[c] = "none"
    BY <1>0, <2>3 DEF IInv, UserInv, RegisteredInv, TypeInv
  <2>7. UserInv'
    BY <1>0, <2>2, <2>3, <2>5, <2>6 DEF UserInv, Serving
  <2>8. RegisteredInv' /\ AttendedInv' /\ FreedInv'
    BY <1>0, <2>1, <2>2, <2>4 DEF RegisteredInv, AttendedInv, FreedInv, NoThreads
  <2> QED BY <1>1, <2>7, <2>8 DEF IInv
<1>3. CASE mode # "pool"
  <2>1. registered = {} /\ armed = {}
    BY <1>3 DEF AwaitStop, IInv, TypeInv, ModeInv
  <2>2. comm' = comm
    BY <1>0, <2>1 DEF IInv, TypeInv
  <2>3. UserInv'
    BY <1>0, <2>1, <2>2 DEF IInv, UserInv, Serving, Queued
  <2>4. RegisteredInv' /\ AttendedInv' /\ FreedInv'
    BY <1>0, <1>3, <2>1, <2>2 DEF IInv, RegisteredInv, AttendedInv, FreedInv
  <2> QED BY <1>1, <2>3, <2>4 DEF IInv
<1> QED BY <1>2, <1>3

\* new_connection gives the connection its first user.
LEMMA AcceptInv == ASSUME IInv, NEW c \in Clients, Accept(c) PROVE IInv'
<1>0. /\ main = "poll" /\ sock[c] = "backlog" /\ comm[c] = "none" /\ c \notin registered
      /\ sock' = [sock EXCEPT ![c] = "open"] /\ comm' = [comm EXCEPT ![c] = "live"]
      /\ registered' = registered \cup {c} /\ NewConnection(c)
      /\ UNCHANGED <<mode, protocol, main, state, queue>>
  BY DEF Accept, Polling, NewConnection, IInv, UserInv, server, pool
<1>1. /\ c \notin armed /\ ~Queued(c) /\ c \in Workers
      /\ \A t \in Workers : ~Serving(t, c)
  BY <1>0 DEF IInv, UserInv, Workers
<1>2. /\ \A d \in Clients \ {c} : sock'[d] = sock[d] /\ comm'[d] = comm[d] /\ (d \in registered' <=> d \in registered)
      /\ sock'[c] = "open" /\ comm'[c] = "live" /\ c \in registered'
  BY <1>0 DEF IInv, TypeInv
<1>3. CASE mode = "pool"
  <2>0. armed' = armed \cup {c} /\ thr' = thr
    BY <1>0, <1>3 DEF NewConnection
  <2>1. TypeInv' /\ PcInv' /\ ModeInv'
    BY <1>0, <1>3, <2>0 DEF IInv, TypeInv, PcInv, ModeInv
  <2>2. UserInv'
    BY <1>0, <1>1, <1>2, <2>0 DEF IInv, UserInv, Serving, Queued
  <2>3. RegisteredInv'
    BY <1>2, <2>0 DEF IInv, RegisteredInv
  <2>4. AttendedInv' /\ FreedInv'
    BY <1>0, <2>0 DEF IInv, AttendedInv, Attended, FreedInv
  <2> QED BY <2>1, <2>2, <2>3, <2>4 DEF IInv
<1>4. CASE mode # "pool"
  <2>0. armed' = armed /\ thr' = [thr EXCEPT ![c] = [pc |-> "poll", core |-> FALSE, task |-> c]]
    BY <1>0, <1>4 DEF NewConnection
  <2>1. /\ thr'[c].pc = "poll" /\ thr'[c].task = c
        /\ \A t \in Workers \ {c} : thr'[t] = thr[t]
    BY <1>1, <2>0 DEF IInv, TypeInv
  <2>2. TypeInv'
    BY <1>0, <2>0 DEF IInv, TypeInv, RequestPcs, Tasks
  <2>3. PcInv'
    BY <2>1, NetAssumption DEF IInv, PcInv, RequestPcs, LoopPcs
  <2>4. ModeInv' /\ AttendedInv' /\ FreedInv'
    BY <1>0, <1>4, <2>0, <2>1, NetAssumption DEF IInv, TypeInv, ModeInv, AttendedInv, FreedInv, Workers
  <2>5. \A d \in Clients \ {c}, t \in Workers : Serving(t, d)' <=> Serving(t, d)
    <3>1. thr[c].task \in {c, Loop} /\ Loop \notin Clients
      BY <1>1, NetAssumption DEF IInv, PcInv, Loop
    <3> QED BY <2>1, <3>1 DEF Serving
  <2>6. \A t \in Workers : Serving(t, c)' => t = c
    BY <1>1, <2>1 DEF Serving
  <2>7. UserInv'
    BY <1>0, <1>1, <1>2, <2>0, <2>5, <2>6 DEF IInv, UserInv, Queued
  <2>8. RegisteredInv'
    <3> SUFFICES ASSUME NEW d \in Clients \ {c}, comm[d] = "live", d \notin registered
                 PROVE  \E t \in Workers : thr'[t].task = d /\ thr'[t].pc = "delete"
      BY <1>2 DEF RegisteredInv
    <3>1. PICK t \in Workers : thr[t].task = d /\ thr[t].pc = "delete"
      BY DEF IInv, RegisteredInv
    <3>2. t # c
      BY <3>1, NetAssumption DEF IInv, PcInv, Loop
    <3> QED BY <2>1, <3>1, <3>2
  <2> QED BY <2>2, <2>3, <2>4, <2>7, <2>8 DEF IInv
<1> QED BY <1>3, <1>4

-----------------------------------------------------------------------------
(***************************************************************************)
(* The threads of the pool.                                                *)
(***************************************************************************)
\* The thread takes the place of the task it pops.
LEMMA PopInv == ASSUME IInv, NEW t \in Threads, Pop(t) PROVE IInv'
<1>0. /\ thr[t].pc = "loop" /\ queue # <<>> /\ queue' = Tail(queue)
      /\ UNCHANGED <<mode, protocol, main, sock, comm, registered, armed, state>>
  BY DEF Pop, server, client, handler
<1>1. mode = "pool" /\ main # "freed" /\ state # "NEW" /\ t \in Workers /\ t \notin Clients
  BY <1>0, ThreadRuns, NetAssumption DEF IInv, AttendedInv, Workers
<1>2. /\ queue \in Seq(Tasks) /\ Head(queue) = queue[1] /\ Head(queue) \in Tasks
      /\ queue' \in Seq(Tasks) /\ Len(queue') = Len(queue) - 1 /\ Len(queue) \in Nat \ {0}
      /\ \A i \in 1..Len(queue') : queue'[i] = queue[i + 1]
  BY <1>0, HeadTailProperties, EmptySeq, LenProperties DEF IInv, TypeInv
<1>3. /\ thr'[t].pc = "popped" /\ thr'[t].task = Head(queue) /\ thr'[t].core = thr[t].core
      /\ \A u \in Workers \ {t} : thr'[u] = thr[u]
  BY <1>1 DEF Pop, IInv, TypeInv
<1>4. TypeInv'
  BY ZenonT(40), <1>0, <1>1, <1>2 DEF Pop, IInv, TypeInv
<1>5. PcInv'
  BY <1>1, <1>3 DEF IInv, PcInv, LoopPcs, RequestPcs
<1>6. ModeInv'
  BY <1>0, <1>1, <1>3 DEF IInv, ModeInv, Workers
<1>7. ASSUME NEW c \in Clients
      PROVE  /\ \A i \in 1..Len(queue') : i + 1 \in 1..Len(queue) /\ queue'[i] = queue[i + 1]
             /\ Queued(c)' => Queued(c)
             /\ c = Head(queue) => Queued(c) /\ ~Queued(c)'
  <2>1. \A i \in 1..Len(queue') : i + 1 \in 1..Len(queue) /\ i + 1 # 1 /\ queue'[i] = queue[i + 1]
    BY <1>2
  <2>2. Queued(c)' => Queued(c)
    BY <2>1 DEF Queued
  <2>3. ASSUME c = Head(queue) PROVE Queued(c) /\ ~Queued(c)'
    <3>1. 1 \in 1..Len(queue) /\ queue[1] = c
      BY <1>2, <2>3
    <3>2. \A i \in 1..Len(queue) : queue[i] = c => i = 1
      BY <3>1 DEF IInv, UserInv
    <3> QED BY <2>1, <3>1, <3>2 DEF Queued
  <2> QED BY <2>1, <2>2, <2>3
<1>8. ASSUME NEW c \in Clients, NEW u \in Workers
      PROVE  Serving(u, c)' <=> Serving(u, c) \/ (u = t /\ c = Head(queue))
  <2>1. ~Serving(t, c)
    BY <1>0, <1>1, NetAssumption DEF Serving, IInv, PcInv, LoopPcs, Loop
  <2> QED BY <1>3, <2>1 DEF Serving
<1>9. UserInv'
  <2> SUFFICES ASSUME NEW c \in Clients
               PROVE  /\ sock[c] = "backlog" => comm[c] = "none" /\ c \notin registered
                      /\ c \in armed => comm[c] = "live" /\ c \in registered /\ ~Queued(c)'
                      /\ Queued(c)' => comm[c] = "live"
                      /\ \A i, j \in 1..Len(queue') : queue'[i] = c /\ queue'[j] = c => i = j
                      /\ \A u \in Workers : Serving(u, c)' => comm[c] = "live" /\ c \notin armed /\ ~Queued(c)'
                      /\ \A u, v \in Workers : Serving(u, c)' /\ Serving(v, c)' => u = v
    BY <1>0 DEF UserInv
  <2>1. \A i, j \in 1..Len(queue') : queue'[i] = c /\ queue'[j] = c => i = j
    <3> SUFFICES ASSUME NEW i \in 1..Len(queue'), NEW j \in 1..Len(queue'), queue'[i] = c, queue'[j] = c PROVE i = j
      OBVIOUS
    <3>1. i + 1 = j + 1
      BY <1>7 DEF IInv, UserInv
    <3> QED BY <3>1
  <2> QED BY <1>7, <1>8, <2>1 DEF IInv, UserInv
<1>10. RegisteredInv'
  BY <1>0, <1>3 DEF IInv, RegisteredInv
<1>11. AttendedInv'
  <2>1. Attended
    BY <1>0, <1>1 DEF IInv, TypeInv, AttendedInv
  <2>2. Attended'
    BY <1>0, <1>3, <2>1 DEF Attended, Workers
  <2> QED BY <1>0, <1>1, <2>2 DEF AttendedInv
<1>12. FreedInv'
  BY <1>0, <1>1 DEF FreedInv
<1> QED BY <1>4, <1>5, <1>6, <1>9, <1>10, <1>11, <1>12 DEF IInv

LEMMA BeginTaskInv == ASSUME IInv, NEW t \in Threads, BeginTask(t) PROVE IInv'
<1> DEFINE x == IF thr[t].task = Loop THEN "dispatch" ELSE "read"
<1>0. /\ thr[t].pc = "popped" /\ thr' = [thr EXCEPT ![t].pc = x]
      /\ UNCHANGED <<mode, protocol, main, sock, comm, registered, armed, state, queue>>
  BY DEF BeginTask, Goto, server, client, handler
<1>1. mode = "pool" /\ main # "freed" /\ state # "NEW" /\ t \in Workers /\ t \notin Clients
  BY <1>0, ThreadRuns, NetAssumption DEF Workers
<1>2. /\ thr'[t].pc = x /\ thr'[t].task = thr[t].task /\ thr'[t].core = thr[t].core
      /\ \A u \in Workers \ {t} : thr'[u] = thr[u]
  BY <1>0, <1>1 DEF IInv, TypeInv
<1>3. x \in {"dispatch", "read"} /\ thr[t].task \in Tasks
  BY <1>1 DEF IInv, TypeInv
<1>4. TypeInv'
  BY <1>0, <1>1, <1>3 DEF IInv, TypeInv, LoopPcs, RequestPcs
<1>5. PcInv'
  BY <1>1, <1>2, <1>3 DEF IInv, PcInv, LoopPcs, RequestPcs, Tasks
<1> HIDE DEF x
<1>6. ModeInv'
  BY <1>0, <1>1, <1>2 DEF IInv, ModeInv, Workers
<1>7. \A u \in Workers, c \in Clients : Serving(u, c)' <=> Serving(u, c)
  BY <1>0, <1>2, <1>3 DEF Serving
<1>8. UserInv'
  BY <1>0, <1>7 DEF IInv, UserInv, Queued
<1>9. RegisteredInv'
  BY <1>0, <1>2 DEF IInv, RegisteredInv
<1>10. AttendedInv'
  BY <1>0, <1>1, <1>2, <1>3 DEF IInv, AttendedInv, Attended, Workers
<1>11. FreedInv'
  BY <1>0, <1>1 DEF FreedInv
<1> QED BY <1>4, <1>5, <1>6, <1>8, <1>9, <1>10, <1>11 DEF IInv

\* Only a thread that is not core, or any thread of a pool that ends with nothing to do, leaves.
LEMMA PlainThreadInv ==
    ASSUME IInv, EarlyThreads = FALSE, NEW t \in Threads, EndTask(t) \/ LeaveLoop(t) \/ ExitThread(t) \/ EndLoop(t)
    PROVE  IInv'
<1>0. UNCHANGED <<mode, protocol, main, sock, comm, registered, armed, state, queue>>
  BY DEF EndTask, LeaveLoop, ExitThread, EndLoop, server, client, handler, pool
<1>1. thr[t].pc \in {"ran", "loop", "exiting", "dispatch"}
  BY DEF EndTask, LeaveLoop, ExitThread, EndLoop
<1>2. thr[t].pc \in LoopPcs \cup {"ran"} /\ thr[t].pc # "none" /\ t \in Workers
  BY <1>1 DEF LoopPcs, Workers
<1>3. thr \in [Workers -> [pc : LoopPcs \cup RequestPcs \cup {"popped", "ran"}, core : BOOLEAN, task : Tasks]]
  BY DEF IInv, TypeInv
<1>4. thr[t].pc # "ran" => thr[t].task = Loop
  BY <1>1, <1>2 DEF IInv, PcInv, LoopPcs
<1>5. CASE EndTask(t)
  <2> DEFINE n == [pc |-> "loop", core |-> thr[t].core, task |-> Loop]
  <2>1. state # "NEW"
    BY <1>5, <1>2, ThreadRuns DEF EndTask
  <2>2. n \in [pc : LoopPcs \cup {"ran"}, core : BOOLEAN, task : {Loop}]
    BY <1>2, <1>3 DEF LoopPcs
  <2>3. thr' = [thr EXCEPT ![t] = n]
    BY ZenonT(40), <1>5, <1>2, SetPc DEF EndTask, IInv
  <2> QED BY <1>0, <1>2, <2>1, <2>2, <2>3, OneLoopStep
<1>6. CASE EndLoop(t)
  <2> DEFINE n == [pc |-> "ran", core |-> thr[t].core, task |-> Loop]
  <2>1. state # "NEW"
    BY <1>6, <1>2, ThreadRuns DEF EndLoop
  <2>2. n \in [pc : LoopPcs \cup {"ran"}, core : BOOLEAN, task : {Loop}]
    BY <1>2, <1>3 DEF LoopPcs
  <2>3. thr' = [thr EXCEPT ![t] = n]
    BY <1>6, <1>2, <1>4, SetPc DEF EndLoop, Goto, IInv
  <2> QED BY <1>0, <1>2, <2>1, <2>2, <2>3, OneLoopStep
<1>7. CASE ExitThread(t)
  <2>1. state # "NEW"
    BY <1>7, <1>2, ThreadRuns DEF ExitThread
  <2>2. Off \in [pc : LoopPcs \cup {"ran"}, core : BOOLEAN, task : {Loop}]
    BY DEF Off, LoopPcs
  <2>3. thr' = [thr EXCEPT ![t] = Off] /\ thr[t].pc = "exiting"
    BY <1>7 DEF ExitThread
  <2> QED BY <1>0, <1>2, <2>1, <2>2, <2>3, OneLoopStep
<1>8. CASE LeaveLoop(t)
  <2> DEFINE n == [pc |-> "exiting", core |-> thr[t].core, task |-> Loop]
  <2>1. state # "NEW"
    BY <1>8, <1>2, ThreadRuns DEF LeaveLoop
  <2>2. n \in [pc : LoopPcs \cup {"ran"}, core : BOOLEAN, task : {Loop}]
    BY <1>2, <1>3 DEF LoopPcs
  <2>3. thr' = [thr EXCEPT ![t] = n]
    BY <1>8, <1>2, <1>4, SetPc DEF LeaveLoop, Goto, IInv
  <2>4. \/ ~thr[t].core
        \/ state = "TERMINATING" /\ queue = <<>>
    BY <1>8, <2>1 DEF LeaveLoop, IInv, TypeInv
  <2> QED BY <1>0, <1>2, <2>1, <2>2, <2>3, <2>4, OneLoopStep
<1> QED BY <1>5, <1>6, <1>7, <1>8

LEMMA ExtendThreadInv == ASSUME IInv, NEW t \in Threads, ExtendThread(t) PROVE IInv'
<1>0. /\ thr[t].pc = "extend" /\ thr' = Extended([thr EXCEPT ![t].pc = "dispatch"])
      /\ UNCHANGED <<mode, protocol, main, sock, comm, registered, armed, state, queue>>
  BY DEF ExtendThread, server, client, handler, pool
<1>1. mode = "pool" /\ main # "freed" /\ state # "NEW" /\ t \in Workers
  BY <1>0, ThreadRuns DEF Workers
<1>2. /\ thr \in [Workers -> [pc : LoopPcs \cup RequestPcs \cup {"popped", "ran"}, core : BOOLEAN, task : Tasks]]
      /\ thr[t].task = Loop
  BY <1>0, <1>1 DEF IInv, TypeInv, PcInv, LoopPcs
<1> DEFINE th == [thr EXCEPT ![t].pc = "dispatch"]
           n == [pc |-> "dispatch", core |-> thr[t].core, task |-> Loop]
<1>3. th = [thr EXCEPT ![t] = n]
  BY <1>1, <1>2, SetPc DEF IInv
<1>4. n \in [pc : LoopPcs \cup {"ran"}, core : BOOLEAN, task : {Loop}]
  BY <1>1, <1>2 DEF LoopPcs
<1>5. thr[t].pc \in LoopPcs \cup {"ran"} /\ thr[t].pc # "none"
  BY <1>0 DEF LoopPcs
<1>6. CASE ~MustExtend
  <2>1. thr' = [thr EXCEPT ![t] = n]
    BY <1>0, <1>3, <1>6 DEF Extended
  <2> QED BY <1>0, <1>1, <1>4, <1>5, <2>1, OneLoopStep
<1>7. CASE MustExtend
  <2>1. PICK f \in Threads : f = FreeThread /\ thr[f].pc = "none"
    <3>1. TypeInv /\ MaxSize \in Nat /\ MaxSize <= MaxSize /\ PoolSize < MaxSize
      BY <1>7, NetAssumption DEF IInv, MustExtend
    <3>2. FreeThread \in Threads /\ thr[FreeThread].pc = "none"
      BY <3>1, FreeThreadExists
    <3> QED BY <3>2
  <2>2. f # t /\ f \in Workers
    BY <1>0, <2>1 DEF Workers
  <2>3. thr[f] = [pc |-> "none", core |-> thr[f].core, task |-> Loop] /\ thr[f].core \in BOOLEAN
    BY <1>2, <2>1, <2>2 DEF IInv, PcInv, LoopPcs
  <2> DEFINE m == [pc |-> "loop", core |-> thr[f].core, task |-> Loop]
             r == [u \in Workers |-> IF u = t THEN n ELSE m]
  <2>4. r \in [Workers -> [pc : LoopPcs \cup {"ran"}, core : BOOLEAN, task : {Loop}]]
    BY <1>4, <2>3 DEF LoopPcs
  <2>5. r[t] = n /\ r[f] = m
    BY <1>1, <2>2
  <2>T. PICK T \in SUBSET Threads : T = {t, f}
    OBVIOUS
  <2>6. thr' = [u \in Workers |-> IF u \in T THEN r[u] ELSE thr[u]]
    <3>1. thr' = [th EXCEPT ![f] = [th[f] EXCEPT !.pc = "loop"]]
      BY <1>0, <1>7, <2>1 DEF Extended
    <3>2. th[f] = thr[f] /\ [thr[f] EXCEPT !.pc = "loop"] = m
      BY <1>2, <1>3, <2>2, <2>3
    <3>3. thr' = [[thr EXCEPT ![t] = n] EXCEPT ![f] = m]
      BY <3>1, <3>2, <1>3
    <3> QED BY <1>2, <2>2, <2>5, <2>T, <3>3
  <2>7. \A u \in T : /\ thr[u].pc \in LoopPcs \cup {"ran"}
                     /\ thr[u].core /\ thr[u].pc \notin {"none", "exiting"} =>
                          \/ r[u].core /\ r[u].pc \notin {"none", "exiting"}
                          \/ state = "TERMINATING" /\ queue = <<>>
                     /\ state = "NEW" => r[u].pc = "loop" /\ r[u].core
    BY <1>1, <1>5, <2>1, <2>5, <2>T DEF LoopPcs
  <2> HIDE DEF r, m, n, th
  <2>8. UNCHANGED <<mode, protocol, sock, comm, registered, armed, state, queue>> /\ main' = main
    BY <1>0
  <2> QED BY <1>1, <2>4, <2>6, <2>7, <2>8, LoopStep
<1> QED BY <1>6, <1>7

\* The event leaves the base before its task is queued.
LEMMA DispatchInv == ASSUME IInv, NEW t \in Threads, NEW c \in Clients, Dispatch(t, c) PROVE IInv'
<1> DEFINE x == IF state = "RUNNING" THEN "extend" ELSE "dispatch"
<1>0. /\ thr[t].pc = "dispatch" /\ c \in armed /\ armed' = armed \ {c}
      /\ queue' = IF state = "RUNNING" THEN Append(queue, c) ELSE queue
      /\ thr' = [thr EXCEPT ![t].pc = x]
      /\ UNCHANGED <<mode, protocol, main, sock, comm, registered, state>>
  BY DEF Dispatch, Goto, server, client
<1>1. mode = "pool" /\ main # "freed" /\ state # "NEW" /\ t \in Workers /\ t \notin Clients
  BY <1>0, ThreadRuns, NetAssumption DEF Workers
<1>2. /\ thr'[t].pc = x /\ thr'[t].task = thr[t].task /\ thr'[t].core = thr[t].core
      /\ \A u \in Workers \ {t} : thr'[u] = thr[u]
  BY <1>0, <1>1 DEF IInv, TypeInv
<1>3. x \in {"dispatch", "extend"}
  OBVIOUS
<1>4. queue' \in Seq(Tasks) /\ queue \in Seq(Tasks)
  BY <1>0, AppendProperties DEF IInv, TypeInv, Tasks
<1>5. /\ \A i \in 1..Len(queue') : (i \in 1..Len(queue) /\ queue'[i] = queue[i]) \/ (i = Len(queue) + 1 /\ queue'[i] = c)
      /\ comm[c] = "live" /\ c \in registered /\ ~Queued(c)
  <2>1. comm[c] = "live" /\ c \in registered /\ ~Queued(c)
    BY <1>0 DEF IInv, UserInv
  <2>2. c \in Tasks /\ Len(queue) \in Nat
    BY <1>4, LenProperties DEF Tasks
  <2>3. CASE state = "RUNNING"
    <3>1. queue' = Append(queue, c)
      BY <1>0, <2>3
    <3> QED BY <1>4, <2>1, <2>2, <3>1, AppendProperties
  <2>4. CASE state # "RUNNING"
    <3>1. queue' = queue
      BY <1>0, <2>4
    <3> QED BY <2>1, <3>1
  <2> QED BY <2>3, <2>4
<1> HIDE DEF x
<1>6. TypeInv'
  BY <1>0, <1>1, <1>3, <1>4 DEF IInv, TypeInv, LoopPcs
<1>7. PcInv'
  BY <1>0, <1>1, <1>2, <1>3 DEF IInv, PcInv, LoopPcs, RequestPcs
<1>8. ModeInv'
  BY <1>0, <1>1, <1>2 DEF IInv, ModeInv, Workers
<1>9. \A u \in Workers, d \in Clients : Serving(u, d)' <=> Serving(u, d)
  BY <1>0, <1>2, <1>3 DEF Serving
<1>10. \A d \in Clients \ {c} : Queued(d)' => Queued(d)
  BY <1>5 DEF Queued
<1>11. ASSUME NEW d \in Clients, NEW i \in 1..Len(queue'), NEW j \in 1..Len(queue'), queue'[i] = d, queue'[j] = d
       PROVE  i = j
  BY <1>5, <1>11 DEF IInv, UserInv, Queued
<1>12. UserInv'
  <2> SUFFICES ASSUME NEW d \in Clients
               PROVE  /\ sock[d] = "backlog" => comm[d] = "none" /\ d \notin registered
                      /\ d \in armed' => comm[d] = "live" /\ d \in registered /\ ~Queued(d)'
                      /\ Queued(d)' => comm[d] = "live"
                      /\ \A i, j \in 1..Len(queue') : queue'[i] = d /\ queue'[j] = d => i = j
                      /\ \A u \in Workers : Serving(u, d)' => comm[d] = "live" /\ d \notin armed' /\ ~Queued(d)'
                      /\ \A u, v \in Workers : Serving(u, d)' /\ Serving(v, d)' => u = v
    BY <1>0 DEF UserInv
  <2>1. \A u \in Workers : ~Serving(u, c)
    BY <1>0 DEF IInv, UserInv
  <2> QED BY <1>0, <1>5, <1>9, <1>10, <1>11, <2>1 DEF IInv, UserInv
<1>13. RegisteredInv'
  BY <1>0, <1>2 DEF IInv, RegisteredInv
<1>14. AttendedInv'
  <2>1. CASE Attended
    BY <1>0, <1>1, <1>2, <1>3, <2>1 DEF AttendedInv, Attended, Workers
  <2>2. CASE ~Attended
    BY <1>0, <1>1, <2>2 DEF IInv, AttendedInv
  <2> QED BY <2>1, <2>2
<1>15. FreedInv'
  BY <1>0, <1>1 DEF FreedInv
<1> QED BY <1>6, <1>7, <1>8, <1>12, <1>13, <1>14, <1>15 DEF IInv

-----------------------------------------------------------------------------
(***************************************************************************)
(* Handling a request.                                                     *)
(***************************************************************************)
\* Reading and answering leave it to the same thread.
LEMMA RequestInv ==
    ASSUME IInv, NEW t \in Workers,
           \/ ReadEvent(t) \/ WriteResult(t) \/ ReadMysql(t) \/ WriteMysql(t)
           \/ t \in Clients /\ PollWorker(t)
    PROVE  IInv'
<1>0. UNCHANGED <<mode, protocol, main, sock, comm, registered, armed, state, queue>>
  BY DEF ReadEvent, WriteResult, ReadMysql, WriteMysql, PollWorker, server, client, handler, pool
<1>1. thr[t].pc \in {"read", "write", "poll"}
  BY DEF ReadEvent, WriteResult, ReadMysql, WriteMysql, PollWorker
<1>2. \E x \in {"write", "close", "done", "read"} : Goto(t, x)
  <2>1. CASE ReadEvent(t) \/ WriteResult(t)
    BY <2>1 DEF ReadEvent, WriteResult
  <2>2. CASE ReadMysql(t) \/ PollWorker(t)
    BY <2>2 DEF ReadMysql, PollWorker
  <2>3. CASE WriteMysql(t)
    BY <2>3 DEF WriteMysql
  <2> QED BY <2>1, <2>2, <2>3
<1>3. PICK x \in {"write", "close", "done", "read"} : Goto(t, x)
  BY <1>2
<1>4. x \in RequestPcs /\ thr[t].pc \in RequestPcs \ {"delete"} /\ x # "poll"
  BY <1>1 DEF RequestPcs
<1> QED BY <1>0, <1>3, <1>4, RequestStep

\* A thread in a request serves a live client that nobody else uses.
LEMMA ServingClient ==
    ASSUME IInv, NEW t \in Workers, thr[t].pc \in RequestPcs
    PROVE  /\ thr[t].task \in Clients /\ Serving(t, thr[t].task) /\ comm[thr[t].task] = "live"
           /\ thr[t].task \notin armed /\ ~Queued(thr[t].task)
           /\ \A u \in Workers : Serving(u, thr[t].task) => u = t
           /\ mode = "pool" => t \in Threads /\ main # "freed" /\ state # "NEW"
           /\ mode # "pool" => t \in Clients
<1>1. thr[t].task \in Clients /\ Serving(t, thr[t].task)
  BY DEF IInv, PcInv, Serving, RequestPcs
<1>2. mode = "pool" => t \in Threads /\ main # "freed" /\ state # "NEW"
  BY ThreadRuns DEF IInv, ModeInv, Workers, RequestPcs
<1>3. mode # "pool" => t \in Clients
  BY DEF IInv, TypeInv, ModeInv, Workers, RequestPcs
<1> QED BY <1>1, <1>2, <1>3 DEF IInv, UserInv

\* The event is the next user.
LEMMA RearmInv == ASSUME IInv, NEW t \in Workers, Rearm(t) PROVE IInv'
<1> DEFINE c == thr[t].task
<1>0. thr[t].pc = "done" /\ UNCHANGED <<mode, protocol, main, sock, comm, registered, state, queue>>
  BY DEF Rearm, server, client, pool
<1>1. thr[t].pc \in RequestPcs \ {"delete"}
  BY <1>0 DEF RequestPcs
<1>2. CASE mode # "pool"
  <2>1. armed' = armed /\ Goto(t, "poll") /\ "poll" \in RequestPcs
    BY <1>2 DEF Rearm, RequestPcs
  <2>2. t \in Clients
    BY <1>1, <1>2, ServingClient
  <2> QED BY <1>0, <1>1, <2>1, <2>2, RequestStep
<1>3. CASE mode = "pool"
  <2>0. armed' = armed \cup {c} /\ thr' = [thr EXCEPT ![t].pc = "ran"]
    BY <1>3 DEF Rearm, Goto
  <2>1. /\ c \in Clients /\ Serving(t, c) /\ comm[c] = "live" /\ c \notin armed /\ ~Queued(c)
        /\ \A u \in Workers : Serving(u, c) => u = t
        /\ t \in Threads /\ main # "freed" /\ state # "NEW"
    BY <1>1, <1>3, ServingClient
  <2>2. c \in registered
    <3> SUFFICES ASSUME c \notin registered PROVE FALSE
      OBVIOUS
    <3>1. PICK u \in Workers : thr[u].task = c /\ thr[u].pc = "delete"
      BY <2>1 DEF IInv, RegisteredInv
    <3>2. Serving(u, c)
      BY <3>1 DEF Serving
    <3> QED BY <1>0, <2>1, <3>1, <3>2
  <2>3. /\ thr'[t].pc = "ran" /\ thr'[t].task = c /\ thr'[t].core = thr[t].core
        /\ \A u \in Workers \ {t} : thr'[u] = thr[u]
    BY <2>0 DEF IInv, TypeInv
  <2>4. TypeInv'
    BY <1>0, <2>0, <2>1 DEF IInv, TypeInv
  <2> HIDE DEF c
  <2>5. PcInv'
    BY <2>1, <2>3, NetAssumption DEF IInv, PcInv, LoopPcs, RequestPcs
  <2>6. ModeInv'
    BY <1>0, <1>3, <2>1, <2>3, NetAssumption DEF IInv, ModeInv, Workers
  <2>7. \A u \in Workers, d \in Clients : Serving(u, d)' <=> Serving(u, d) /\ d # c
    BY <2>1, <2>3 DEF Serving
  <2>8. UserInv'
    BY <1>0, <2>0, <2>1, <2>2, <2>7 DEF IInv, UserInv, Queued
  <2>9. RegisteredInv'
    BY <1>0, <2>3 DEF IInv, RegisteredInv
  <2>10. AttendedInv'
    BY <1>0, <1>3, <2>1, <2>3 DEF IInv, AttendedInv, Attended, Workers
  <2>11. FreedInv'
    BY <1>0, <2>1 DEF FreedInv
  <2> QED BY <2>4, <2>5, <2>6, <2>8, <2>9, <2>10, <2>11 DEF IInv
<1> QED BY <1>2, <1>3

\* Out of the map, the communicator is left to the thread that deletes it.
LEMMA CloseConnectionInv == ASSUME IInv, NEW t \in Workers, CloseConnection(t) PROVE IInv'
<1> DEFINE c == thr[t].task
<1>0. /\ thr[t].pc = "close" /\ registered' = registered \ {c} /\ thr' = [thr EXCEPT ![t].pc = "delete"]
      /\ UNCHANGED <<mode, protocol, main, sock, comm, armed, state, queue>>
  BY DEF CloseConnection, Goto, server, client, pool
<1>1. thr[t].pc \in RequestPcs
  BY <1>0 DEF RequestPcs
<1>2. /\ c \in Clients /\ Serving(t, c) /\ comm[c] = "live" /\ c \notin armed
      /\ mode = "pool" => t \in Threads /\ main # "freed" /\ state # "NEW"
      /\ mode # "pool" => t \in Clients
  BY <1>1, ServingClient
<1>3. /\ thr'[t].pc = "delete" /\ thr'[t].task = c /\ thr'[t].core = thr[t].core
      /\ \A u \in Workers \ {t} : thr'[u] = thr[u]
  BY <1>0 DEF IInv, TypeInv
<1>4. TypeInv'
  BY <1>0 DEF IInv, TypeInv, RequestPcs
<1>5. PcInv'
  BY <1>0, <1>2, <1>3, NetAssumption DEF IInv, PcInv, LoopPcs, RequestPcs
<1> HIDE DEF c
<1>6. ModeInv'
  BY <1>0, <1>2, <1>3, NetAssumption DEF IInv, ModeInv, Workers
<1>7. \A u \in Workers, d \in Clients : Serving(u, d)' <=> Serving(u, d)
  BY <1>0, <1>2, <1>3 DEF Serving
<1>8. UserInv'
  BY <1>0, <1>2, <1>7 DEF IInv, UserInv, Queued
<1>9. RegisteredInv'
  <2> SUFFICES ASSUME NEW d \in Clients, comm[d] = "live", d \notin registered'
               PROVE  \E u \in Workers : thr'[u].task = d /\ thr'[u].pc = "delete"
    BY <1>0 DEF RegisteredInv
  <2>1. CASE d = c
    BY <1>3, <2>1
  <2>2. CASE d # c
    <3>1. PICK u \in Workers : thr[u].task = d /\ thr[u].pc = "delete"
      BY <1>0, <2>2 DEF IInv, RegisteredInv
    <3> QED BY <1>0, <1>3, <3>1
  <2> QED BY <2>1, <2>2
<1>10. AttendedInv'
  BY <1>0, <1>2, <1>3 DEF IInv, AttendedInv, Attended, Workers
<1>11. FreedInv'
  BY <1>0, <1>2 DEF FreedInv
<1> QED BY <1>4, <1>5, <1>6, <1>8, <1>9, <1>10, <1>11 DEF IInv

\* A communicator is freed with its last user gone.
LEMMA DeleteCommunicatorInv == ASSUME IInv, NEW t \in Workers, DeleteCommunicator(t) PROVE IInv'
<1> DEFINE c == thr[t].task
           n == IF mode = "pool" THEN [thr[t] EXCEPT !.pc = "ran"] ELSE Off
<1>0. /\ thr[t].pc = "delete" /\ comm' = [comm EXCEPT ![c] = "freed"] /\ sock' = [sock EXCEPT ![c] = "gone"]
      /\ thr' = [thr EXCEPT ![t] = n]
      /\ UNCHANGED <<mode, protocol, main, registered, armed, state, queue>>
  BY DEF DeleteCommunicator, server, handler, pool
<1>1. thr[t].pc \in RequestPcs
  BY <1>0 DEF RequestPcs
<1>2. /\ c \in Clients /\ Serving(t, c) /\ comm[c] = "live" /\ c \notin armed /\ ~Queued(c)
      /\ \A u \in Workers : Serving(u, c) => u = t
      /\ mode = "pool" => t \in Threads /\ main # "freed" /\ state # "NEW"
      /\ mode # "pool" => t \in Clients
  BY <1>1, ServingClient
<1>3. /\ n \in [pc : LoopPcs \cup RequestPcs \cup {"popped", "ran"}, core : BOOLEAN, task : Tasks]
      /\ n.pc \in {"none", "ran"}
      /\ mode = "pool" => n.pc = "ran" /\ n.task = c /\ n.core = thr[t].core
      /\ mode # "pool" => n.pc = "none" /\ n.task = Loop
  BY DEF IInv, TypeInv, Off, LoopPcs, Tasks
<1> HIDE DEF n
<1>4. thr'[t] = n /\ \A u \in Workers \ {t} : thr'[u] = thr[u]
  BY <1>0 DEF IInv, TypeInv
<1>5. TypeInv'
  BY <1>0, <1>3 DEF IInv, TypeInv
<1>6. PcInv'
  BY <1>2, <1>3, <1>4, NetAssumption DEF IInv, PcInv, LoopPcs, RequestPcs
<1>7. ModeInv'
  BY <1>0, <1>2, <1>3, <1>4, NetAssumption DEF IInv, TypeInv, ModeInv, Workers
<1> HIDE DEF c
<1>8. /\ comm'[c] = "freed" /\ sock'[c] = "gone"
      /\ \A d \in Clients \ {c} : comm'[d] = comm[d] /\ sock'[d] = sock[d]
  BY <1>0, <1>2 DEF IInv, TypeInv
<1>9. \A u \in Workers, d \in Clients : Serving(u, d)' <=> Serving(u, d) /\ d # c
  <2>1. thr[t].task = c
    BY DEF c
  <2> QED BY <1>2, <1>3, <1>4, <2>1 DEF Serving
<1>10. UserInv'
  BY <1>0, <1>2, <1>8, <1>9 DEF IInv, UserInv, Queued
<1>11. RegisteredInv'
  <2> SUFFICES ASSUME NEW d \in Clients \ {c}, comm[d] = "live", d \notin registered
               PROVE  \E u \in Workers : thr'[u].task = d /\ thr'[u].pc = "delete"
    BY <1>0, <1>8 DEF RegisteredInv
  <2>1. PICK u \in Workers : thr[u].task = d /\ thr[u].pc = "delete"
    BY DEF IInv, RegisteredInv
  <2>2. u # t
    BY <2>1 DEF c
  <2> QED BY <1>4, <2>1, <2>2
<1>12. AttendedInv'
  BY <1>0, <1>2, <1>3, <1>4 DEF IInv, AttendedInv, Attended, Workers
<1>13. FreedInv'
  BY <1>0, <1>2 DEF FreedInv
<1> QED BY <1>5, <1>6, <1>7, <1>10, <1>11, <1>12, <1>13 DEF IInv

-----------------------------------------------------------------------------
LEMMA InitInv == ASSUME Init PROVE IInv
<1>1. mode \in {"pool", "per_connection"} /\ protocol \in {"plain", "mysql"}
  BY NetAssumption DEF Init
<1>2. \A t \in Workers : thr[t] = Off
  BY DEF Init
<1>3. TypeInv
  BY <1>1 DEF Init, TypeInv, Off, LoopPcs, Tasks
<1>4. PcInv
  BY <1>2 DEF PcInv, Off, LoopPcs, RequestPcs
<1>5. ModeInv
  BY <1>1, <1>2 DEF Init, ModeInv, Off, Workers
<1>6. UserInv /\ RegisteredInv /\ FreedInv
  BY <1>2 DEF Init, UserInv, RegisteredInv, FreedInv, Serving, Queued, Off
<1>7. AttendedInv
  BY <1>2 DEF Init, AttendedInv, Off, Workers
<1> QED BY <1>3, <1>4, <1>5, <1>6, <1>7 DEF IInv

LEMMA NextInv == ASSUME IInv, [Next]_vars, EarlyThreads = FALSE PROVE IInv'
<1>1. ASSUME NEW c \in Clients, BeginRequest(c) \/ EndRequest(c) \/ Vanish(c) \/ Refuse(c) PROVE IInv'
  <2>1. UNCHANGED <<mode, protocol, main, comm, registered, armed, state, queue, thr>>
    BY <1>1 DEF BeginRequest, EndRequest, Vanish, Refuse, server, handler, pool
  <2>2. /\ sock' \in [Clients -> {"backlog", "open", "gone"}]
        /\ \A d \in Clients : sock'[d] = "backlog" => sock[d] = "backlog"
    BY <1>1 DEF BeginRequest, EndRequest, Vanish, Refuse, IInv, TypeInv
  <2> QED BY <2>1, <2>2, ClientStep
<1>2. CASE Shutdown \/ UNCHANGED vars
  <2>1. UNCHANGED <<mode, protocol, main, comm, registered, armed, state, queue, thr, sock>>
    BY <1>2 DEF Shutdown, vars, server, handler, pool, client
  <2> QED BY <2>1, ClientStep DEF IInv, TypeInv
<1>3. CASE InitPool \/ SubmitLoop \/ StartServing \/ StopLoop \/ StopPool \/ AwaitStop
  BY <1>3, InitPoolInv, SubmitLoopInv, StartServingInv, StopInv, AwaitStopInv
<1>4. ASSUME NEW c \in Clients, Accept(c) \/ PollWorker(c) PROVE IInv'
  BY <1>4, AcceptInv, RequestInv DEF Workers
<1>5. ASSUME NEW t \in Threads, PoolThread(t) \/ LeaveLoop(t) PROVE IInv'
  BY <1>5, PopInv, BeginTaskInv, PlainThreadInv, ExtendThreadInv DEF PoolThread
<1>6. ASSUME NEW t \in Threads, NEW c \in Clients, Dispatch(t, c) PROVE IInv'
  BY <1>6, DispatchInv
<1>7. ASSUME NEW t \in Workers, HandleEvent(t) PROVE IInv'
  BY <1>7, RequestInv, RearmInv, CloseConnectionInv, DeleteCommunicatorInv DEF HandleEvent
<1> QED BY <1>1, <1>2, <1>3, <1>4, <1>5, <1>6, <1>7 DEF Next

\* At most one element is in a set all of whose elements are equal.
LEMMA AtMostOne ==
    ASSUME NEW S, \A x, y \in S : x = y
    PROVE  Cardinality(S) \in {0, 1} /\ (S = {} => Cardinality(S) = 0)
<1>1. CASE S = {}
  BY <1>1, FS_EmptySet
<1>2. CASE S # {}
  <2>1. PICK x \in S : TRUE
    BY <1>2
  <2>2. S = {x}
    BY <2>1
  <2> QED BY <1>2, <2>2, FS_Singleton
<1> QED BY <1>1, <1>2

LEMMA IInvOneUser == ASSUME IInv PROVE OneUser
<1> SUFFICES ASSUME NEW c \in Clients
             PROVE  /\ Users(c) <= IF comm[c] = "freed" THEN 0 ELSE 1
                    /\ c \in armed => comm[c] = "live" /\ c \in registered
                    /\ \A t \in Workers : (thr[t].task = c /\ thr[t].pc \in {"popped", "read", "write", "done"}) => comm[c] = "live"
  BY DEF OneUser
<1> DEFINE S == {t \in Workers : thr[t].pc \notin {"none", "ran"} /\ thr[t].task = c}
           Q == {i \in DOMAIN queue : queue[i] = c}
<1>1. \A t \in S : t \in Workers /\ Serving(t, c)
  BY DEF Serving
<1>2. DOMAIN queue = 1..Len(queue)
  BY LenProperties DEF IInv, TypeInv
<1>3. \A i \in Q : i \in 1..Len(queue) /\ queue[i] = c /\ Queued(c)
  BY <1>2 DEF Queued
<1>4. (\A t, u \in S : t = u) /\ (\A i, j \in Q : i = j)
  BY <1>1, <1>3 DEF IInv, UserInv
<1>5. Cardinality(S) \in {0, 1} /\ (S = {} => Cardinality(S) = 0)
  BY <1>4, AtMostOne
<1>6. Cardinality(Q) \in {0, 1} /\ (Q = {} => Cardinality(Q) = 0)
  BY <1>4, AtMostOne
<1>7. /\ comm[c] # "live" => S = {} /\ Q = {} /\ c \notin armed
      /\ S # {} => Q = {} /\ c \notin armed
      /\ Q # {} => c \notin armed
  BY <1>1, <1>3 DEF IInv, UserInv
<1>8. Users(c) = Cardinality(S) + Cardinality(Q) + (IF c \in armed THEN 1 ELSE 0)
  BY DEF Users
<1> HIDE DEF S, Q
<1>9. Users(c) <= IF comm[c] = "freed" THEN 0 ELSE 1
  BY <1>5, <1>6, <1>7, <1>8
<1> QED BY <1>9 DEF IInv, UserInv, Serving

\* For any clients, threads and requests: a communicator, which has no lock, is only ever used by
\* one of its armed event, a queued task or a thread, and by none once close_connection freed it.
THEOREM OneUserAlways == EarlyThreads = FALSE => (Spec => []OneUser)
<1> SUFFICES ASSUME EarlyThreads = FALSE PROVE Spec => []OneUser
  OBVIOUS
<1>1. Init => IInv
  BY InitInv
<1>2. IInv /\ [Next]_vars => IInv'
  BY NextInv
<1>3. IInv => OneUser
  BY IInvOneUser
<1> QED BY <1>1, <1>2, <1>3, PTL DEF Spec

\* For any clients, threads and requests: when await_stop of the pool returns no thread runs, the
\* queue is empty and every accepted connection was freed.
THEOREM PoolStopsCleanAlways == EarlyThreads = FALSE => (Spec => []PoolStopsClean)
<1> SUFFICES ASSUME EarlyThreads = FALSE PROVE Spec => []PoolStopsClean
  OBVIOUS
<1>1. Init => IInv
  BY InitInv
<1>2. IInv /\ [Next]_vars => IInv'
  BY NextInv
<1>3. IInv => PoolStopsClean
  BY DEF IInv, TypeInv, FreedInv, PoolStopsClean
<1> QED BY <1>1, <1>2, <1>3, PTL DEF Spec
=============================================================================
