------------------------------ MODULE BufferPool ------------------------------
(***************************************************************************)
(* The buffer pool of observer/storage/buffer: BPFrameManager with its LRU *)
(* list and its pool of frames, the DiskBufferPools that share it, the     *)
(* page log (buffer_pool_log.cpp) and the redo of it.                      *)
(*                                                                         *)
(* A thread gets or allocates a page, changes it under its page latch, and *)
(* lets it go.  The content of a page is the LSN of its last change; the   *)
(* content of page 0 is the file header.  The double write buffer and the  *)
(* data file are one store (PageStore, which DoubleWriteBuffer             *)
(* implements): what was written last is read, and survives a kill.        *)
(***************************************************************************)
EXTENDS Integers, Sequences, FiniteSets, SequencesExt

CONSTANTS
    Pools,          \* the files, by buffer pool id
    Threads,
    MaxPageNum,     \* BPFileHeader::MAX_PAGE_NUM
    InitCount,      \* page_count of the files at the start, by pool
    InitBits,       \* and their allocated pages
    FrameNum,       \* frames of the allocator, which does not grow
    MaxLog,         \* bound on the log entries
    MaxStops        \* bound on the times a file is closed or the process dies

ASSUME BufferPoolAssumption ==
    /\ MaxPageNum \in Nat \ {0} /\ MaxLog \in Nat /\ MaxStops \in Nat
    /\ IsFiniteSet(Pools) /\ Pools # {} /\ IsFiniteSet(Threads) /\ "free" \notin Threads
    /\ FrameNum \in Nat /\ FrameNum >= Cardinality(Pools) + Cardinality(Threads)
    /\ InitCount \in [Pools -> 1..MaxPageNum]
    /\ InitBits \in [Pools -> SUBSET Nat] /\ \A b \in Pools : InitBits[b] \subseteq 1..(InitCount[b] - 1)

VARIABLES
    frame,      \* the frames in use, by FrameId: data, dirty, pin
    lru,        \* their FrameIds, the most recently used first
    frees,      \* dirty flags of the free frames, which nobody resets
    lock,       \* DiskBufferPool::lock_
    open,       \* the pools with an open file
    store,      \* double write buffer and file: content of the pages
    log, durable,
    th,         \* the threads
    mode, redo, \* recovery: the next entry to replay
    written,    \* history: LSN of the last change of a page since it was allocated
    lost,       \* history: pages that lost a change
    stops

memory  == <<frame, lru, frees>>
disk    == <<store, log, durable>>
history == <<written, lost>>
vars    == <<memory, lock, open, disk, th, mode, redo, history, stops>>

Header == 0             \* BP_HEADER_PAGE
Absent == -1            \* the file is too short
Keys   == Pools \X (0..MaxPageNum - 1)
Free   == "free"
Idle   == [pc |-> "idle", key |-> <<CHOOSE b \in Pools : TRUE, Header>>]

\* create_file makes a header with count 1; the files may have been used before.
FileHeader(b) == [count |-> InitCount[b], bits |-> {Header} \cup InitBits[b], lsn |-> 0]
Headers   == {<<b, Header>> : b \in Pools}
Hdr(b)    == frame[<<b, Header>>].data
Resident  == DOMAIN frame

-----------------------------------------------------------------------------
(***************************************************************************)
(* LruCache and BPFrameManager, on a value f of the memory state.          *)
(***************************************************************************)
Memory == [frame |-> frame, lru |-> lru, frees |-> frees, store |-> store, durable |-> durable,
           lost |-> lost]
SetMemory(f) ==
    /\ frame' = f.frame /\ lru' = f.lru /\ frees' = f.frees
    /\ store' = f.store /\ durable' = f.durable /\ lost' = f.lost

\* MemPoolSimple without dynamic growth: frames are taken from the front and given back at the
\* end, as they are.
PoolInit(n)           == [i \in 1..n |-> FALSE]
PoolAlloc(fs)         == Tail(fs)
PoolFree(fs, dirty)   == Append(fs, dirty)

\* LruCache
LruPush(l, k)   == <<k>> \o l
LruRemove(l, k) == SelectSeq(l, LAMBDA j : j # k)
LruTouch(l, k)  == LruPush(LruRemove(l, k), k)

Touch(f, k)  == [f EXCEPT !.lru = LruTouch(@, k)]
Pin(f, k)    == [Touch(f, k) EXCEPT !.frame[k].pin = @ + 1]
Unpin(f, k)  == [f EXCEPT !.frame[k].pin = @ - 1]

\* alloc, with a free frame: it is found by others before its page is loaded.
Alloc(f, k) ==
    [f EXCEPT !.frame = [l \in DOMAIN @ \cup {k} |->
                           IF l = k THEN [data |-> 0, dirty |-> Head(f.frees), pin |-> 1] ELSE @[l]],
              !.lru   = LruPush(@, k),
              !.frees = PoolAlloc(@)]

\* free_internal
FreeFrame(f, k) ==
    [f EXCEPT !.frame = [l \in DOMAIN @ \ {k} |-> @[l]],
              !.lru   = LruRemove(@, k),
              !.frees = PoolFree(@, f.frame[k].dirty)]

PageLsn(f, k) == IF k[2] = Header THEN f.frame[k].data.lsn ELSE f.frame[k].data

\* flush_page_internal: the log first, then the page.  Mutant: the dirty flag is cleared only.
MutFlushInternal(f, k) == [f EXCEPT !.frame[k].dirty = FALSE]
FlushInternal(f, k) ==
    [f EXCEPT !.durable = IF PageLsn(f, k) > @ THEN PageLsn(f, k) ELSE @,
              !.store[k] = f.frame[k].data,
              !.frame[k].dirty = FALSE]

\* Mutant: pinned frames are purged too.
MutCanPurge(f, k) == k[2] # Header
CanPurge(f, k)    == f.frame[k].pin = 0

\* purge_frames on behalf of pool b: the least recently used frame that nobody has pinned is
\* flushed and freed.  For a frame of another pool the manager calls flush_page, which returns
\* before it has flushed anything.
Victims(f) ==
    {k \in DOMAIN f.frame : \E i \in 1..Len(f.lru) :
        f.lru[i] = k /\ CanPurge(f, k) /\ \A j \in i + 1..Len(f.lru) : ~CanPurge(f, f.lru[j])}
Drop(f, k) == [f EXCEPT !.lost = IF f.store[k] # f.frame[k].data THEN @ \cup {k} ELSE @]
Purge(f, b, k) ==
    IF ~f.frame[k].dirty THEN FreeFrame(f, k)
    ELSE IF k[1] = b THEN FreeFrame(FlushInternal(f, k), k)
    ELSE FreeFrame(Drop(f, k), k)

\* allocate_frame for pool b, up to the frame it gets.
MakeRoom(f, b) == IF f.frees # <<>> THEN {f} ELSE {Purge(f, b, k) : k \in Victims(f)}

\* purge_frame of the owner, who holds one pin.
PurgeFrame(f, k) ==
    IF f.frame[k].pin # 1 THEN f
    ELSE IF f.frame[k].dirty THEN FreeFrame(FlushInternal(f, k), k) ELSE FreeFrame(f, k)

\* load_page
MarkLost(f, k) == IF f.frame[k].data # 0 /\ f.frame[k].data # f.store[k] THEN {k} ELSE {}
LoadPage(f, k) == [f EXCEPT !.frame[k].data = f.store[k], !.lost = @ \cup MarkLost(f, k)]

-----------------------------------------------------------------------------
(***************************************************************************)
(* get_this_page.                                                          *)
(***************************************************************************)
At(t, pc)      == mode = "run" /\ th[t].pc = pc
Go(t, pc)      == th' = [th EXCEPT ![t] = IF pc = "idle" THEN Idle ELSE [@ EXCEPT !.pc = pc]]
Take(t, pc, k) == th' = [th EXCEPT ![t] = [pc |-> pc, key |-> k]]
NotInUse(k)    == \A t \in Threads : th[t].pc = "idle" \/ th[t].key # k

\* The frame is there, or the pool has to be locked.
Find(t, k) ==
    /\ \/ k \in Resident /\ SetMemory(Pin(Memory, k)) /\ Take(t, "hold", k)
       \/ k \notin Resident /\ Take(t, "lock", k) /\ UNCHANGED <<memory, store, durable, lost>>
    /\ UNCHANGED <<lock, open, log, mode, redo, written, stops>>

Get(t, k) ==
    /\ At(t, "idle") /\ k[1] \in open /\ k[2] # Header /\ k[2] \in Hdr(k[1]).bits
    /\ Find(t, k)

Lookup(t) == At(t, "get") /\ Find(t, th[t].key)

\* The pool is locked; allocate_frame takes the frame another thread has put there meanwhile, a
\* free one, or goes round once more with a frame purged.
AllocateFrame(t) ==
    LET k == th[t].key
        Then(pc) == IF th[t].pc = "extending" THEN Go(t, IF pc = "load" THEN "extend" ELSE "extending")
                    ELSE Go(t, pc)
    IN  /\ \/ At(t, "lock") /\ lock[k[1]] = Free
           \/ At(t, "alloc")
           \/ At(t, "extending")
        /\ lock' = [lock EXCEPT ![k[1]] = t]
        /\ \/ k \in Resident /\ SetMemory(Pin(Memory, k)) /\ Then("load")
           \/ k \notin Resident /\ frees # <<>> /\ SetMemory(Alloc(Memory, k)) /\ Then("load")
           \/ /\ k \notin Resident /\ frees = <<>>
              /\ \E v \in Victims(Memory) : SetMemory(Purge(Memory, k[1], v))
              /\ Then("alloc")
        /\ UNCHANGED <<open, log, mode, redo, written, stops>>

\* The page is read also when the frame was another thread's, who may have changed it.
Load(t) ==
    LET k == th[t].key
    IN  /\ At(t, "load")
        /\ \/ store[k] # Absent /\ SetMemory(LoadPage(Memory, k)) /\ Go(t, "hold")
           \/ store[k] = Absent /\ SetMemory(PurgeFrame(Memory, k)) /\ Go(t, "idle")
        /\ lock' = [lock EXCEPT ![k[1]] = Free]
        /\ UNCHANGED <<open, log, mode, redo, written, stops>>

-----------------------------------------------------------------------------
(***************************************************************************)
(* allocate_page and dispose_page.                                         *)
(***************************************************************************)
Log(op, k)          == log' = Append(log, [op |-> op, key |-> k])
SetHeader(f, b, h)  == [f EXCEPT !.frame[<<b, Header>>] = [@ EXCEPT !.data = h, !.dirty = TRUE]]
FreeBits(b)         == (0..Hdr(b).count - 1) \ Hdr(b).bits

\* A page below page_count is free: the first one is taken and fetched like any other.
AllocateFreePage(t, b) ==
    LET n == CHOOSE i \in FreeBits(b) : \A j \in FreeBits(b) : i <= j
        h == [Hdr(b) EXCEPT !.bits = @ \cup {n}, !.lsn = Len(log) + 1]
    IN  /\ At(t, "idle") /\ b \in open /\ lock[b] = Free /\ FreeBits(b) # {} /\ Len(log) < MaxLog
        /\ SetMemory(SetHeader(Memory, b, h))
        /\ Log("allocate", <<b, n>>)
        /\ Take(t, "get", <<b, n>>)
        /\ written' = [written EXCEPT ![<<b, n>>] = 0]
        /\ UNCHANGED <<lock, open, mode, redo, stops>>

\* Otherwise the file is extended; the log entry comes first.
BeginExtend(t, b) ==
    /\ At(t, "idle") /\ b \in open /\ lock[b] = Free /\ FreeBits(b) = {} /\ Len(log) < MaxLog
    /\ Hdr(b).count < MaxPageNum
    /\ frame' = [frame EXCEPT ![<<b, Header>>].data.lsn = Len(log) + 1]
    /\ Log("allocate", <<b, Hdr(b).count>>)
    /\ lock' = [lock EXCEPT ![b] = t]
    /\ Take(t, "extending", <<b, Hdr(b).count>>)
    /\ UNCHANGED <<lru, frees, open, store, durable, mode, redo, history, stops>>

Extend(t) ==
    LET k == th[t].key
        b == k[1]
        h == [Hdr(b) EXCEPT !.count = @ + 1, !.bits = @ \cup {k[2]}]
    IN  /\ At(t, "extend")
        /\ SetMemory(FlushInternal([SetHeader(Memory, b, h) EXCEPT !.frame[k].data = 0], k))
        /\ lock' = [lock EXCEPT ![b] = Free]
        /\ Go(t, "hold")
        /\ written' = [written EXCEPT ![k] = 0]
        /\ UNCHANGED <<open, log, mode, redo, stops>>

\* The callers dispose of pages that nobody can reach any more; free_internal asserts that
\* nobody else has the frame pinned.
Dispose(t, k) ==
    LET b == k[1]
        h == [Hdr(b) EXCEPT !.bits = @ \ {k[2]}, !.lsn = Len(log) + 1]
    IN  /\ At(t, "idle") /\ b \in open /\ lock[b] = Free /\ Len(log) < MaxLog
        /\ k[2] # Header /\ k[2] \in Hdr(b).bits /\ NotInUse(k)
        /\ SetMemory(SetHeader(IF k \in Resident THEN FreeFrame(Memory, k) ELSE Memory, b, h))
        /\ Log("deallocate", k)
        /\ written' = [written EXCEPT ![k] = 0]
        /\ UNCHANGED <<th, lock, open, mode, redo, stops>>

-----------------------------------------------------------------------------
(***************************************************************************)
(* The holder of a page: a change under the write latch, and unpin_page.   *)
(* A page that is not in the file, because the process died between        *)
(* logging its allocation and extending the file, is known to the bitmap   *)
(* only: scans of the file visit it, and nobody changes it.                *)
(***************************************************************************)
Modify(t) ==
    LET k == th[t].key
    IN  /\ At(t, "hold") /\ Len(log) < MaxLog /\ store[k] # Absent
        /\ Log("write", k)
        /\ frame' = [frame EXCEPT ![k].data = Len(log) + 1, ![k].dirty = TRUE]
        /\ written' = [written EXCEPT ![k] = Len(log) + 1]
        /\ UNCHANGED <<lru, frees, lock, open, store, durable, th, mode, redo, lost, stops>>

\* Mutant: the thread goes without letting go.
MutUnpinPage(t) ==
    /\ At(t, "hold")
    /\ Go(t, "idle")
    /\ UNCHANGED <<memory, lock, open, disk, mode, redo, history, stops>>

UnpinPage(t) ==
    /\ At(t, "hold")
    /\ SetMemory(Unpin(Memory, th[t].key))
    /\ Go(t, "idle")
    /\ UNCHANGED <<lock, open, log, mode, redo, written, stops>>

-----------------------------------------------------------------------------
(***************************************************************************)
(* open_file and close_file, when no thread uses the pool.                 *)
(***************************************************************************)
PagesOf(f, b) == {k \in DOMAIN f.frame : k[1] = b}

\* purge_all_pages, after find_list has pinned the frames and the header lost its own pin: each is
\* flushed if it is dirty, and freed.
PurgeAll(f, b) ==
    LET dirty == {k \in PagesOf(f, b) : f.frame[k].dirty}
        lsns  == {f.durable} \cup {PageLsn(f, k) : k \in dirty}
    IN  [f EXCEPT !.frame   = [k \in DOMAIN @ \ PagesOf(f, b) |-> @[k]],
                  !.lru     = SelectSeq(@, LAMBDA k : k[1] # b),
                  !.frees   = @ \o PoolInit(Cardinality(PagesOf(f, b))),
                  !.store   = [k \in Keys |-> IF k \in dirty THEN f.frame[k].data ELSE @[k]],
                  !.durable = CHOOSE n \in lsns : \A m \in lsns : m <= n]

\* open_file of every file, with all frames free: their headers are loaded and stay pinned.
OpenAll(s)  == [k \in Headers |-> [data |-> s[k], dirty |-> FALSE, pin |-> 1]]
OpenedLru   == SetToSeq(Headers)
OpenedFrees == PoolInit(FrameNum - Cardinality(Pools))

CloseFile(b) ==
    /\ mode = "run" /\ b \in open /\ stops < MaxStops
    /\ stops' = stops + 1
    /\ \A t \in Threads : th[t].pc = "idle" \/ th[t].key[1] # b
    /\ SetMemory(PurgeAll(Memory, b))
    /\ open' = open \ {b}
    /\ UNCHANGED <<lock, log, th, mode, redo, written>>

OpenFile(b) ==
    LET k == <<b, Header>>
    IN  /\ mode = "run" /\ b \notin open
        /\ \E f \in MakeRoom(Memory, b) : SetMemory(LoadPage(Alloc(f, k), k))
        /\ open' = open \cup {b}
        /\ UNCHANGED <<lock, log, th, mode, redo, written, stops>>

-----------------------------------------------------------------------------
(***************************************************************************)
(* A crash, and BufferPoolLogReplayer on the log with the open files.      *)
(***************************************************************************)
Crash ==
    /\ stops < MaxStops
    /\ stops' = stops + 1
    /\ \E n \in 0..Len(log) : durable <= n /\ log' = SubSeq(log, 1, n) /\ durable' = n
    /\ frame' = OpenAll(store) /\ lru' = OpenedLru /\ frees' = OpenedFrees
    /\ UNCHANGED store /\ lost' = {}
    /\ open' = Pools
    /\ lock' = [b \in Pools |-> Free]
    /\ th' = [t \in Threads |-> Idle]
    /\ mode' = "redo" /\ redo' = 1
    /\ written' = [k \in Keys |-> 0]

\* redo_allocate_page: the LSN of the header is not set when the page is below page_count.
RedoAllocate(f, b, n, lsn) ==
    LET h == f.frame[<<b, Header>>].data
    IN  IF h.lsn >= lsn \/ n \in h.bits THEN f
        ELSE IF n < h.count THEN SetHeader(f, b, [h EXCEPT !.bits = @ \cup {n}])
        ELSE SetHeader(f, b, [count |-> h.count + 1, bits |-> h.bits \cup {n}, lsn |-> lsn])

\* redo_deallocate_page.  Mutant: without looking at the LSN of the header.
MutRedoDeallocate(f, b, n, lsn) ==
    LET h == f.frame[<<b, Header>>].data
    IN  SetHeader(f, b, [h EXCEPT !.bits = @ \ {n}, !.lsn = lsn])
RedoDeallocate(f, b, n, lsn) ==
    LET h == f.frame[<<b, Header>>].data
    IN  IF h.lsn >= lsn THEN f ELSE SetHeader(f, b, [h EXCEPT !.bits = @ \ {n}, !.lsn = lsn])

RedoFails(f, e, lsn) ==
    LET h == f.frame[<<e.key[1], Header>>].data
    IN  CASE e.op = "allocate"   -> h.lsn < lsn /\ (e.key[2] > h.count
                                                    \/ (e.key[2] = h.count /\ h.count >= MaxPageNum))
          [] e.op = "deallocate" -> h.lsn < lsn /\ (e.key[2] >= h.count \/ e.key[2] \notin h.bits)
          [] e.op = "write"      -> e.key \notin DOMAIN f.frame /\ f.store[e.key] = Absent

\* A replayer that changes a page fetches it, looks at its LSN, and lets it go.
Fetch(f, k) ==
    IF k \in DOMAIN f.frame THEN {Pin(f, k)} ELSE {LoadPage(Alloc(g, k), k) : g \in MakeRoom(f, k[1])}
RedoWrite(g, k, lsn) ==
    Unpin(IF g.frame[k].data >= lsn THEN g
          ELSE [g EXCEPT !.frame[k].data = lsn, !.frame[k].dirty = TRUE], k)

\* IntegratedLogReplayer gives each entry to the replayer of its module, in the order of the log.
Redo(f, e, lsn) ==
    CASE e.op = "allocate"   -> {RedoAllocate(f, e.key[1], e.key[2], lsn)}
      [] e.op = "deallocate" -> {RedoDeallocate(f, e.key[1], e.key[2], lsn)}
      [] e.op = "write"      -> {RedoWrite(g, e.key, lsn) : g \in Fetch(f, e.key)}

Replay ==
    LET e == log[redo]
    IN  /\ mode = "redo" /\ redo <= Len(log)
        /\ \/ /\ RedoFails(Memory, e, redo)
              /\ mode' = "failed"
              /\ UNCHANGED <<memory, store, durable, lost, redo>>
           \/ /\ ~RedoFails(Memory, e, redo)
              /\ redo' = redo + 1
              /\ \E f \in Redo(Memory, e, redo) : SetMemory(f)
              /\ UNCHANGED mode
        /\ UNCHANGED <<lock, open, log, th, written, stops>>

\* What the log says of a page.
Of(ops, k)   == {i \in 1..Len(log) : log[i].op \in ops /\ log[i].key = k}
LastOf(S)    == IF S = {} THEN 0 ELSE CHOOSE i \in S : \A j \in S : j <= i
Allocated(k) == IF Of({"allocate", "deallocate"}, k) = {} THEN k[2] \in InitBits[k[1]]
                ELSE log[LastOf(Of({"allocate", "deallocate"}, k))].op = "allocate"
LastWrite(k) ==
    LET w == LastOf(Of({"write"}, k))
    IN  IF Allocated(k) /\ w > LastOf(Of({"allocate"}, k)) THEN w ELSE 0

Recovered ==
    /\ mode = "redo" /\ redo > Len(log)
    /\ mode' = "run"
    /\ written' = [k \in Keys |-> LastWrite(k)]
    /\ UNCHANGED <<memory, lock, open, disk, th, redo, lost, stops>>

-----------------------------------------------------------------------------
Init ==
    /\ store = [k \in Keys |-> IF k[2] = Header THEN FileHeader(k[1])
                              ELSE IF k[2] < InitCount[k[1]] THEN 0 ELSE Absent]
    /\ frame = OpenAll(store) /\ lru = OpenedLru /\ frees = OpenedFrees
    /\ lock = [b \in Pools |-> Free]
    /\ open = Pools
    /\ log = <<>> /\ durable = 0
    /\ th = [t \in Threads |-> Idle]
    /\ mode = "run" /\ redo = 1
    /\ written = [k \in Keys |-> 0]
    /\ lost = {}
    /\ stops = 0

Next ==
    \/ \E t \in Threads :
         \/ \E k \in Keys : Get(t, k) \/ Dispose(t, k)
         \/ \E b \in Pools : AllocateFreePage(t, b) \/ BeginExtend(t, b)
         \/ Lookup(t) \/ AllocateFrame(t) \/ Load(t) \/ Extend(t)
         \/ Modify(t) \/ UnpinPage(t)
    \/ \E b \in Pools : CloseFile(b) \/ OpenFile(b)
    \/ Crash \/ Replay \/ Recovered

Spec == Init /\ [][Next]_vars

-----------------------------------------------------------------------------
(***************************************************************************)
(* Properties.                                                             *)
(***************************************************************************)

\* The pins of a frame are the threads that have fetched its page and not let it go, and the
\* pool's own for the header: no frame is freed under a thread that uses it, and none stays
\* pinned when nobody does (pin, unpin, purge_frames, free_internal).  A page whose load fails
\* is left out: purge_frame returns without unpinning when a second thread waits for it.
Users(k)  == {t \in Threads : th[t].key = k /\ th[t].pc \in {"load", "extend", "hold"}}
PinsExact ==
    /\ \A t \in Threads : th[t].pc = "hold" => th[t].key \in Resident
    /\ \A k \in Resident : ~(k[2] # Header /\ store[k] = Absent) =>
         frame[k].pin = Cardinality(Users(k)) + (IF k[2] = Header THEN 1 ELSE 0)

\* Eviction, reloading, closing and recovery keep the last change of a page: whoever holds it
\* sees that change.  Left out are a page some thread is still loading, and the ones that
\* NothingLost is about.
HolderSeesNewest ==
    \A t \in Threads :
        LET k == th[t].key
        IN  th[t].pc = "hold" /\ written[k] # 0 /\ k \notin lost
            /\ (\A u \in Threads : ~(th[u].pc \in {"load", "extend"} /\ th[u].key = k))
            => frame[k].data = written[k]

\* Replaying the log never fails, and afterwards each header has exactly the pages allocated
\* in the log, and each page the last change logged since its allocation, whichever of them
\* had been flushed before the crash (redo_allocate_page, redo_deallocate_page).
Content(k)     == IF k \in Resident THEN frame[k].data ELSE store[k]
RecoveredExactly ==
    /\ mode # "failed"
    /\ mode = "redo" /\ redo > Len(log) =>
         \A b \in Pools, n \in 1..MaxPageNum - 1 :
            /\ n \in Hdr(b).bits <=> Allocated(<<b, n>>)
            /\ LastWrite(<<b, n>>) # 0 /\ <<b, n>> \notin lost => Content(<<b, n>>) = LastWrite(<<b, n>>)

\* allocate_frame does not loop for ever: when a thread, open_file or the replay needs a frame,
\* one is free or has no pins, so that purge_frames finds it, in whatever way frames were pinned,
\* freed and purged before.  Excepted are the pins that purge_frame leaves on a page that it
\* could not load, when a second thread had found it.
NeedsFrame ==
    \/ \E t \in Threads : mode = "run" /\ th[t].pc \in {"lock", "alloc", "extending"} /\ th[t].key \notin Resident
    \/ mode = "run" /\ open # Pools
    \/ mode = "redo" /\ redo <= Len(log) /\ log[redo].key \notin Resident
PinsLeft   == \E k \in Resident : k[2] # Header /\ store[k] = Absent /\ frame[k].pin > Cardinality(Users(k))
FrameFound == NeedsFrame => frees # <<>> \/ (\E k \in Resident : CanPurge(Memory, k)) \/ PinsLeft

\* No change of a page is lost while the process runs: frame.h says of mark_dirty that the
\* system writes such a page when it is evicted.
NothingLost == lost = {}
=============================================================================
