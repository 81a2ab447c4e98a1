----------------------------- MODULE RecordFile -----------------------------
(***************************************************************************)
(* The record manager: RecordPageHandler, RecordFileHandler and            *)
(* RecordFileScanner of observer/storage/record with RecordLogHandler and  *)
(* RecordLogReplayer.                                                      *)
(*                                                                         *)
(* A page holds Capacity records; its header says how many are there       *)
(* (record_num) and its bitmap where.  A thread latches a page to use it,  *)
(* and lock_ guards free_pages_, the pages insert_record tries.  A record  *)
(* is represented by the LSN of the log entry that wrote it.               *)
(*                                                                         *)
(* The buffer pool (module BufferPool) is what the handlers need of it:    *)
(* pages are allocated in order, a frame nobody uses may be evicted, its   *)
(* log entries go to disk before it.  While the log is replayed only dirty *)
(* frames are evicted: replay_init_page does not mark its frame dirty.     *)
(***************************************************************************)
EXTENDS Integers, Sequences, FiniteSets, FiniteSetsExt

CONSTANTS
    Threads,
    Capacity,       \* page_record_capacity
    MaxPages,       \* bound on the pages of the file
    MaxLog,         \* bound on the log
    MaxScans,       \* bound on the scans
    MaxCrashes      \* bound on the crashes

ASSUME RecordFileAssumption ==
    /\ Capacity \in Nat \ {0} /\ MaxPages \in Nat \ {0}
    /\ "free" \notin Threads
    /\ MaxLog \in Nat /\ MaxScans \in Nat /\ MaxCrashes \in Nat

VARIABLES
    pages,          \* the pages as the buffer pool shows them
    disk,           \* the pages in the file
    alloc,          \* number of allocated pages
    log, durable,   \* the redo log and its length on disk
    free_pages,     \* RecordFileHandler::free_pages_
    lock,           \* RecordFileHandler::lock_
    xlatch, slatch, \* holders of the latches of the frames
    th,             \* the threads
    mode, redo,     \* recovery: the next entry to replay
    redone,         \* history: pages that replaying the log has allocated or changed
    scans, crashes

store   == <<pages, disk, alloc, log, durable>>
latches == <<xlatch, slatch>>
bounds  == <<scans, crashes>>
vars    == <<store, free_pages, lock, latches, th, mode, redo, redone, bounds>>

PageNums == 1..MaxPages
Slots    == 0..Capacity - 1
Rids     == PageNums \X Slots
Free     == "free"

-----------------------------------------------------------------------------
(***************************************************************************)
(* RecordPageHandler, on the value of a page.  A page of a new file is     *)
(* zero: it has no capacity, and counts as full.                           *)
(***************************************************************************)
ZeroPage == [cap |-> 0, num |-> 0, bits |-> {}, data |-> [s \in Slots |-> 0], lsn |-> 0, dirty |-> FALSE]

\* init_empty_page: the header is written and the bitmap cleared, the records stay as they are.
InitEmptyPage(pg) == [pg EXCEPT !.cap = Capacity, !.num = 0, !.bits = {}]

IsFull(pg) == pg.num >= pg.cap

\* Bitmap::next_unsetted_bit and next_setted_bit; -1 when there is none.  Mutant: the bit at start
\* is passed over.
MutNextSettedBit(pg, start) ==
    LET used == {s \in pg.bits : s > start} IN IF used = {} THEN -1 ELSE Min(used)
NextUnsettedBit(pg, start) ==
    LET free == {s \in start..pg.cap - 1 : s \notin pg.bits} IN IF free = {} THEN -1 ELSE Min(free)
NextSettedBit(pg, start) ==
    LET used == {s \in pg.bits : s >= start} IN IF used = {} THEN -1 ELSE Min(used)

\* insert_record, when the page is not full
InsertIndex(pg)     == NextUnsettedBit(pg, 0)
PutRecord(pg, s, v) ==
    [pg EXCEPT !.bits = @ \cup {s}, !.num = @ + 1, !.data[s] = v, !.dirty = TRUE]
\* delete_record and update_record, when the slot is used
HasRecord(pg, s)    == s < pg.cap /\ s \in pg.bits
DropRecord(pg, s)   == [pg EXCEPT !.bits = @ \ {s}, !.num = @ - 1, !.dirty = TRUE]
SetRecord(pg, s, v) == [pg EXCEPT !.data[s] = v, !.dirty = TRUE]

Records(pg) == {<<s, pg.data[s]>> : s \in pg.bits}

\* RecordLogHandler: the entry, and the LSN of the frame.
Entry(type, p, s) == [type |-> type, page |-> p, slot |-> s]
NewLsn    == Len(log) + 1
Stamp(pg) == [pg EXCEPT !.lsn = NewLsn]
Room      == Len(log) < MaxLog
LogAllocate(p)        == log' = Append(log, Entry("allocate", p, -1))
LogInitNewPage(p)     == log' = Append(log, Entry("init_page", p, -1))
LogInsertRecord(p, s) == log' = Append(log, Entry("insert", p, s))
LogUpdateRecord(p, s) == log' = Append(log, Entry("update", p, s))
LogDeleteRecord(p, s) == log' = Append(log, Entry("delete", p, s))

-----------------------------------------------------------------------------
(***************************************************************************)
(* Threads, latches.                                                       *)
(***************************************************************************)
Idle == [pc |-> "idle", page |-> 0, slot |-> -1, last |-> 0, write |-> FALSE, seen |-> {}, must |-> {}]
At(t, pc) == mode = "run" /\ th[t].pc = pc
Go(t, pc) == th' = [th EXCEPT ![t] = IF pc = "idle" THEN Idle ELSE [@ EXCEPT !.pc = pc]]
GoPage(t, pc, p) == th' = [th EXCEPT ![t].pc = pc, ![t].page = p]

CanRead(p)  == xlatch[p] = Free
CanWrite(p) == xlatch[p] = Free /\ slatch[p] = {}
Unlatched(p) == /\ xlatch' = [xlatch EXCEPT ![p] = Free] /\ UNCHANGED slatch

\* The frame is pinned: a thread has latched the page or waits to.
Users(p) == {t \in Threads : th[t].page = p /\ th[t].pc \notin {"idle", "del_free", "scan_move"}}

\* What the threads that scan remember when a record is gone.
Forget(p, s) == [t \in Threads |-> [th[t] EXCEPT !.must = @ \ {<<p, s>>}]]

-----------------------------------------------------------------------------
(***************************************************************************)
(* RecordFileHandler::insert_record.                                       *)
(***************************************************************************)
InsertStart(t) ==
    /\ At(t, "idle") /\ Room
    /\ Go(t, "ins_lock")
    /\ UNCHANGED <<store, free_pages, lock, latches, mode, redo, redone, bounds>>

InsertLock(t) ==
    /\ At(t, "ins_lock") /\ lock = Free
    /\ lock' = t
    /\ Go(t, "ins_find")
    /\ UNCHANGED <<store, free_pages, latches, mode, redo, redone, bounds>>

\* The loop over free_pages_, with lock_ held: the first page is latched, and forgotten if full.
InsertFind(t) ==
    LET p == Min(free_pages)
    IN  /\ At(t, "ins_find")
        /\ \/ /\ free_pages = {}
              /\ lock' = Free
              /\ Go(t, "ins_alloc")
              /\ UNCHANGED <<free_pages, latches>>
           \/ /\ free_pages # {} /\ CanWrite(p) /\ IsFull(pages[p])
              /\ free_pages' = free_pages \ {p}
              /\ UNCHANGED <<lock, latches, th>>
           \/ /\ free_pages # {} /\ CanWrite(p) /\ ~IsFull(pages[p])
              /\ xlatch' = [xlatch EXCEPT ![p] = t]
              /\ lock' = Free
              /\ GoPage(t, "ins_put", p)
              /\ UNCHANGED <<free_pages, slatch>>
        /\ UNCHANGED <<store, mode, redo, redone, bounds>>

\* No page has room: allocate_page; the operation fails when the file cannot grow.
InsertAllocate(t) ==
    /\ At(t, "ins_alloc")
    /\ IF alloc < MaxPages /\ Room
       THEN /\ alloc' = alloc + 1
            /\ LogAllocate(alloc + 1)
            /\ GoPage(t, "ins_init", alloc + 1)
       ELSE Go(t, "idle") /\ UNCHANGED <<alloc, log>>
    /\ UNCHANGED <<pages, disk, durable, free_pages, lock, latches, mode, redo, redone, bounds>>

\* init_empty_page; the latch is kept.
InsertInitPage(t) ==
    LET p == th[t].page
    IN  /\ At(t, "ins_init") /\ CanWrite(p) /\ Room
        /\ xlatch' = [xlatch EXCEPT ![p] = t]
        /\ pages' = [pages EXCEPT ![p] = Stamp(InitEmptyPage(@))]
        /\ LogInitNewPage(p)
        /\ Go(t, "ins_free")
        /\ UNCHANGED <<disk, alloc, durable, free_pages, lock, slatch, mode, redo, redone, bounds>>

\* lock_ with the page latched, the other way round than in the loop.
InsertNewFreePage(t) ==
    /\ At(t, "ins_free") /\ lock = Free
    /\ free_pages' = free_pages \cup {th[t].page}
    /\ Go(t, "ins_put")
    /\ UNCHANGED <<store, lock, latches, mode, redo, redone, bounds>>

\* RowRecordPageHandler::insert_record, and the latch is released.
InsertPut(t) ==
    LET p == th[t].page
        s == InsertIndex(pages[p])
    IN  /\ At(t, "ins_put") /\ Room
        /\ pages' = [pages EXCEPT ![p] = Stamp(PutRecord(@, s, NewLsn))]
        /\ LogInsertRecord(p, s)
        /\ Unlatched(p)
        /\ Go(t, "idle")
        /\ UNCHANGED <<disk, alloc, durable, free_pages, lock, mode, redo, redone, bounds>>

-----------------------------------------------------------------------------
(***************************************************************************)
(* delete_record, update_record and visit_record of a RID.                 *)
(***************************************************************************)
DeleteStart(t, rid) ==
    /\ At(t, "idle") /\ Room /\ rid[1] <= alloc
    /\ th' = [th EXCEPT ![t].pc = "del_page", ![t].page = rid[1], ![t].slot = rid[2]]
    /\ UNCHANGED <<store, free_pages, lock, latches, mode, redo, redone, bounds>>

\* The page is latched, the record deleted, and the page unlatched by cleanup.  Mutant: without
\* cleanup.
MutDeletePage(t) ==
    LET p == th[t].page
        s == th[t].slot
    IN  /\ At(t, "del_page") /\ CanWrite(p) /\ Room
        /\ IF HasRecord(pages[p], s)
           THEN /\ pages' = [pages EXCEPT ![p] = Stamp(DropRecord(@, s))]
                /\ LogDeleteRecord(p, s)
                /\ xlatch' = [xlatch EXCEPT ![p] = t]
                /\ th' = [Forget(p, s) EXCEPT ![t].pc = "del_free"]
           ELSE Go(t, "idle") /\ UNCHANGED <<pages, log, xlatch>>
        /\ UNCHANGED <<disk, alloc, durable, free_pages, lock, slatch, mode, redo, redone, bounds>>
DeletePage(t) ==
    LET p == th[t].page
        s == th[t].slot
    IN  /\ At(t, "del_page") /\ CanWrite(p) /\ Room
        /\ IF HasRecord(pages[p], s)
           THEN /\ pages' = [pages EXCEPT ![p] = Stamp(DropRecord(@, s))]
                /\ LogDeleteRecord(p, s)
                /\ th' = [Forget(p, s) EXCEPT ![t].pc = "del_free"]
           ELSE Go(t, "idle") /\ UNCHANGED <<pages, log>>
        /\ UNCHANGED <<disk, alloc, durable, free_pages, lock, latches, mode, redo, redone, bounds>>

\* Mutant: the page is not added when a thread is looking for a free one.
MutDeleteFreePage(t) ==
    /\ At(t, "del_free")
    /\ free_pages' = IF lock = Free THEN free_pages \cup {th[t].page} ELSE free_pages
    /\ Go(t, "idle")
    /\ UNCHANGED <<store, lock, latches, mode, redo, redone, bounds>>
DeleteFreePage(t) ==
    /\ At(t, "del_free") /\ lock = Free
    /\ free_pages' = free_pages \cup {th[t].page}
    /\ Go(t, "idle")
    /\ UNCHANGED <<store, lock, latches, mode, redo, redone, bounds>>

\* update_record, and visit_record with a visitor that changes the record.
UpdateRecord(t, rid) ==
    LET p == rid[1]
    IN  /\ At(t, "idle") /\ Room /\ p <= alloc
        /\ CanWrite(p) /\ HasRecord(pages[p], rid[2])
        /\ pages' = [pages EXCEPT ![p] = Stamp(SetRecord(@, rid[2], NewLsn))]
        /\ LogUpdateRecord(p, rid[2])
        /\ UNCHANGED <<disk, alloc, durable, free_pages, lock, latches, th, mode, redo, redone, bounds>>

-----------------------------------------------------------------------------
(***************************************************************************)
(* RecordFileScanner.  The latch of the page is kept between two calls.    *)
(***************************************************************************)
Existing == {r \in Rids : r[1] <= alloc /\ r[2] \in pages[r[1]].bits}

\* open_scan: the iterator of the buffer pool goes as far as the file goes now.
OpenScan(t, write) ==
    /\ At(t, "idle") /\ scans < MaxScans
    /\ scans' = scans + 1
    /\ th' = [th EXCEPT ![t] = [Idle EXCEPT !.pc = "scan_move", !.last = alloc, !.write = write,
                                            !.must = Existing]]
    /\ UNCHANGED <<store, free_pages, lock, latches, mode, redo, redone, crashes>>

\* BufferPoolIterator and RecordPageIterator
NextPage(t)     == th[t].page + 1
FirstSlot(pg)   == NextSettedBit(pg, 0)
NextSlot(pg, s) == NextSettedBit(pg, s + 1)

\* fetch_next_record with a new page: RecordPageHandler::init and RecordPageIterator::init.
ScanPage(t) ==
    LET p == NextPage(t)
    IN  /\ At(t, "scan_move") /\ p <= th[t].last
        /\ IF th[t].write THEN CanWrite(p) ELSE CanRead(p)
        /\ IF th[t].write
           THEN xlatch' = [xlatch EXCEPT ![p] = t] /\ UNCHANGED slatch
           ELSE slatch' = [slatch EXCEPT ![p] = @ \cup {t}] /\ UNCHANGED xlatch
        /\ th' = [th EXCEPT ![t].pc = "scan", ![t].page = p, ![t].slot = FirstSlot(pages[p])]
        /\ UNCHANGED <<store, free_pages, lock, mode, redo, redone, bounds>>

\* fetch_next_record_in_page
ScanRecord(t) ==
    LET p == th[t].page
        s == th[t].slot
    IN  /\ At(t, "scan") /\ s # -1
        /\ th' = [th EXCEPT ![t].seen = @ \cup {<<p, s>>},
                            ![t].slot = NextSlot(pages[p], s)]
        /\ UNCHANGED <<store, free_pages, lock, latches, mode, redo, redone, bounds>>

\* update_current: the record next has returned last.
UpdateCurrent(t) ==
    LET p == th[t].page
    IN  /\ At(t, "scan") /\ th[t].write /\ Room
        /\ \E s \in {r[2] : r \in {q \in th[t].seen : q[1] = p}} :
              /\ \A r \in th[t].seen : r[1] = p => r[2] <= s
              /\ pages' = [pages EXCEPT ![p] = Stamp(SetRecord(@, s, NewLsn))]
              /\ LogUpdateRecord(p, s)
        /\ UNCHANGED <<disk, alloc, durable, free_pages, lock, latches, th, mode, redo, redone, bounds>>

Release(t, p) ==
    /\ xlatch' = [xlatch EXCEPT ![p] = IF @ = t THEN Free ELSE @]
    /\ slatch' = [slatch EXCEPT ![p] = @ \ {t}]

\* The page has no more records: cleanup, before the next page is latched.
ScanCleanup(t) ==
    /\ At(t, "scan") /\ th[t].slot = -1
    /\ Release(t, th[t].page)
    /\ Go(t, "scan_move")
    /\ UNCHANGED <<store, free_pages, lock, mode, redo, redone, bounds>>

\* RECORD_EOF or close_scan.
CloseScan(t) ==
    /\ \/ At(t, "scan") /\ Release(t, th[t].page)
       \/ At(t, "scan_move") /\ NextPage(t) > th[t].last /\ UNCHANGED latches
    /\ Go(t, "idle")
    /\ UNCHANGED <<store, free_pages, lock, mode, redo, redone, bounds>>

-----------------------------------------------------------------------------
(***************************************************************************)
(* The buffer pool, crashes and RecordLogReplayer.                         *)
(***************************************************************************)
OnDisk(p) == [pages[p] EXCEPT !.dirty = FALSE]

Evict(p) ==
    /\ Users(p) = {} /\ xlatch[p] = Free
    /\ pages[p].dirty
    /\ disk' = [disk EXCEPT ![p] = OnDisk(p)]
    /\ pages' = [pages EXCEPT ![p] = OnDisk(p)]
    /\ durable' = Max({durable, pages[p].lsn})
    /\ UNCHANGED <<alloc, log, free_pages, lock, latches, th, mode, redo, redone, bounds>>

Allocated(l) == Cardinality({i \in 1..Len(l) : l[i].type = "allocate"})

\* init_free_pages, when the header on disk knows k pages
FreePagesAtOpen(k) == {p \in 1..k : ~IsFull(disk[p])}

\* The process dies and starts again: Db::init opens the tables, where init_free_pages reads the
\* pages the header on disk knows of, and then replays the log.
Crash ==
    /\ crashes < MaxCrashes
    /\ crashes' = crashes + 1
    /\ \E n \in durable..Len(log) :
         LET l == SubSeq(log, 1, n)
         IN  /\ log' = l /\ durable' = n
             /\ \E k \in 0..Allocated(l) :
                  /\ alloc' = k
                  /\ free_pages' = FreePagesAtOpen(k)
    /\ pages' = disk
    /\ lock' = Free
    /\ xlatch' = [p \in PageNums |-> Free] /\ slatch' = [p \in PageNums |-> {}]
    /\ th' = [t \in Threads |-> Idle]
    /\ mode' = "redo" /\ redo' = 1 /\ redone' = {}
    /\ UNCHANGED <<disk, scans>>

\* replay_insert finds the slot again; replay_delete and replay_update use the one in the entry.
\* Mutant: records are put one after the other.
MutReplayInsert(pg, lsn) == PutRecord(pg, pg.num, lsn)
ReplayInsert(pg, lsn)    == PutRecord(pg, InsertIndex(pg), lsn)
ReplayInitPage(pg)       == InitEmptyPage(pg)
ReplayDelete(pg, s)      == DropRecord(pg, s)
ReplayUpdate(pg, s, lsn) == SetRecord(pg, s, lsn)
Replayed(pg, e, lsn) ==
    CASE e.type = "init_page" -> ReplayInitPage(pg)
      [] e.type = "insert"    -> ReplayInsert(pg, lsn)
      [] e.type = "delete"    -> ReplayDelete(pg, e.slot)
      [] e.type = "update"    -> ReplayUpdate(pg, e.slot, lsn)

ReplayFails(pg, e) ==
    \/ e.type = "insert" /\ pg.num = pg.cap
    \/ e.type \in {"delete", "update"} /\ ~HasRecord(pg, e.slot)

Seen(pg, lsn) == pg.lsn >= lsn

Replay ==
    LET e == log[redo]
        p == e.page
    IN  /\ mode = "redo" /\ redo <= Len(log)
        /\ \/ /\ e.type = "allocate"
              /\ alloc' = Max({alloc, p})
              /\ redone' = IF p > alloc THEN redone \cup {p} ELSE redone
              /\ redo' = redo + 1
              /\ UNCHANGED <<pages, mode>>
           \/ /\ e.type # "allocate" /\ Seen(pages[p], redo)
              /\ redo' = redo + 1
              /\ UNCHANGED <<pages, alloc, mode, redone>>
           \/ /\ e.type # "allocate" /\ ~Seen(pages[p], redo) /\ ~ReplayFails(pages[p], e)
              /\ pages' = [pages EXCEPT ![p] = [Replayed(@, e, redo) EXCEPT !.lsn = redo]]
              /\ redone' = redone \cup {p}
              /\ redo' = redo + 1
              /\ UNCHANGED <<alloc, mode>>
        /\ UNCHANGED <<disk, log, durable, free_pages, lock, latches, th, bounds>>

ReplayDone ==
    /\ mode = "redo" /\ redo > Len(log)
    /\ mode' = "run" /\ redo' = 1
    /\ UNCHANGED <<store, free_pages, lock, latches, th, redone, bounds>>

\* A table with one page that Capacity calls of insert_record have filled, all of it on disk; the
\* next insert will find the page full.
FullPage ==
    [ZeroPage EXCEPT !.cap = Capacity, !.num = Capacity, !.bits = Slots,
                     !.data = [s \in Slots |-> s + 3], !.lsn = Capacity + 2]
Init ==
    /\ pages = [p \in PageNums |-> IF p = 1 THEN FullPage ELSE ZeroPage] /\ disk = pages
    /\ alloc = 1
    /\ log = <<Entry("allocate", 1, -1), Entry("init_page", 1, -1)>>
               \o [i \in 1..Capacity |-> Entry("insert", 1, i - 1)]
    /\ durable = Len(log)
    /\ free_pages = {1} /\ lock = Free
    /\ xlatch = [p \in PageNums |-> Free] /\ slatch = [p \in PageNums |-> {}]
    /\ th = [t \in Threads |-> Idle]
    /\ mode = "run" /\ redo = 1 /\ redone = {}
    /\ scans = 0 /\ crashes = 0

ThreadStep(t) ==
    \/ InsertStart(t) \/ InsertLock(t) \/ InsertFind(t) \/ InsertAllocate(t)
    \/ InsertInitPage(t) \/ InsertNewFreePage(t) \/ InsertPut(t)
    \/ \E rid \in Rids : DeleteStart(t, rid) \/ UpdateRecord(t, rid)
    \/ DeletePage(t) \/ DeleteFreePage(t)
    \/ \E w \in BOOLEAN : OpenScan(t, w)
    \/ ScanPage(t) \/ ScanRecord(t) \/ UpdateCurrent(t) \/ ScanCleanup(t) \/ CloseScan(t)

Next ==
    \/ \E t \in Threads : ThreadStep(t)
    \/ \E p \in PageNums : Evict(p)
    \/ Crash \/ Replay \/ ReplayDone

Spec == Init /\ [][Next]_vars

-----------------------------------------------------------------------------
(***************************************************************************)
(* Properties.                                                             *)
(***************************************************************************)
\* The records of a page as the log entries with their RIDs give them.
Overwrites(j, i) ==
    /\ log[j].page = log[i].page
    /\ log[j].type = "init_page" \/ (log[j].type # "allocate" /\ log[j].slot = log[i].slot)
Logged(p, n) ==
    {<<log[i].slot, i>> : i \in
       {j \in 1..n : /\ log[j].page = p /\ log[j].type \in {"insert", "update"}
                     /\ \A l \in j + 1..n : ~Overwrites(l, j)}}

\* Every record is where the log says it was put, and the header counts the records: in use, and
\* after a crash once the log is replayed, which never fails (RecordLogReplayer::replay_insert does
\* not look at the slot of the entry).
RecordsAsLogged ==
    /\ mode = "run" =>
         \A p \in PageNums : Records(pages[p]) = Logged(p, Len(log)) /\ pages[p].num = Cardinality(pages[p].bits)
    /\ mode = "redo" /\ redo <= Len(log) /\ log[redo].type # "allocate" =>
         LET p == log[redo].page IN Seen(pages[p], redo) \/ ~ReplayFails(pages[p], log[redo])

\* insert_record finds every page with room: it is in free_pages_, or a thread is about to put it
\* there (the comments of insert_record and delete_record on the two locks).  A page that recovery
\* has changed is not known, since init_free_pages comes before it.
FreePagesKnown ==
    mode = "run" =>
      \A p \in PageNums :
        ~IsFull(pages[p]) /\ p \notin redone =>
          \/ p \in free_pages
          \/ \E t \in Threads : th[t].page = p /\ th[t].pc \in {"del_free", "ins_free"}

\* A scan that reaches the end has returned every record that was there all the time.
ScanComplete ==
    \A t \in Threads :
      At(t, "scan_move") /\ NextPage(t) > th[t].last => th[t].must \subseteq th[t].seen

\* No group of threads in which each waits for another of them: insert_record takes lock_ and then a
\* latch, and with a new page a latch and then lock_ (record_manager.cpp: "但是不会引起死锁").
WaitsFor(t, u) ==
    CASE th[t].pc \in {"ins_lock", "ins_free", "del_free"} -> lock = u
      [] th[t].pc = "ins_find" /\ free_pages # {} ->
           LET p == Min(free_pages) IN xlatch[p] = u \/ u \in slatch[p]
      [] th[t].pc \in {"ins_init", "del_page"} ->
           xlatch[th[t].page] = u \/ u \in slatch[th[t].page]
      [] th[t].pc = "scan_move" /\ NextPage(t) <= th[t].last ->
           xlatch[NextPage(t)] = u \/ (th[t].write /\ u \in slatch[NextPage(t)])
      [] OTHER -> FALSE
NoWaitCycle ==
    \A group \in SUBSET Threads :
        (\A t \in group : \E u \in group : WaitsFor(t, u)) => group = {}
=============================================================================
