--------------------------- MODULE DoubleWriteBuffer ---------------------------
(***************************************************************************)
(* DiskDoubleWriteBuffer of observer/storage/buffer: a dirty page first    *)
(* goes to a slot of the shared file dblwr.db and only later, when the     *)
(* buffer is full, at a snapshot or when its pool is closed, to its own    *)
(* data file, so that a write torn by a crash can be repaired from the     *)
(* slot at the next start.                                                 *)
(*                                                                         *)
(* A page is a pair <<pool, page number>> and its content is the number of *)
(* the add_page call that brought it.  Every step is at most one write to  *)
(* one of the files, so that the process can die between any two of them.  *)
(* The calls do not overlap: add_page and the flush it may end in hold     *)
(* lock_, and a snapshot or a close runs alone.                            *)
(***************************************************************************)
EXTENDS Integers, FiniteSets

CONSTANTS
    Pools,          \* ids of the buffer pools
    PageNums,       \* page numbers of each of them
    MaxPages,       \* max_pages_
    CloseShared,    \* a pool may be closed while pages of another are buffered
    Faults,         \* which of AllFaults the environment may inject
    MaxAdds,        \* bound on the add_page calls
    MaxFaults,      \* bound on the failed writes
    MaxCrashes      \* bound on the crashes

(***************************************************************************)
(* "tear": the crash tears the write in progress.  "power": the crash is a *)
(* power failure, and of what was written since the last sync() any part   *)
(* may be missing.  "data": a write to a data file fails.                  *)
(***************************************************************************)
AllFaults == {"tear", "power", "data"}

ASSUME DwbAssumption ==
    /\ PageNums \subseteq Nat
    /\ MaxPages \in Nat \ {0}
    /\ CloseShared \in BOOLEAN
    /\ Faults \subseteq AllFaults
    /\ MaxAdds \in Nat /\ MaxFaults \in Nat /\ MaxCrashes \in Nat

VARIABLES
    phase,          \* "down", "recovering", "up", "undefined"
    open,           \* the buffer pools that are open
    dblwr_pages,    \* DiskDoubleWriteBuffer::dblwr_pages_
    page_cnt,       \* header_.page_cnt
    pc,             \* where the current call is
    cur,            \* the page (or, for a close, the pool) it works on
    todo,           \* the pages flush_page or clear_pages has still to write
    spec_pages,     \* clear_pages: the pages taken out of dblwr_pages_
    slots,          \* dblwr.db: the page slots
    header,         \* dblwr.db: page_cnt in the file's header
    data,           \* the data files: the content of each page
    lag,            \* earlier contents that a power failure may bring back
    adds,           \* number of add_page calls
    added,          \* history: last content add_page has written to dblwr.db
    excused,        \* history: pages whose newest content a fault has destroyed
    faults,
    crashes

memory == <<open, dblwr_pages, page_cnt, pc, cur, todo, spec_pages>>
files  == <<slots, header, data, lag>>
counts == <<faults, crashes>>
vars   == <<phase, memory, files, adds, added, excused, counts>>

Pages  == Pools \X PageNums
Slot   == 0..(MaxPages + MaxFaults - 1)
Torn   == -1
Nobody == <<>>

\* What a slot holds: never written, a page image, or an image whose checksum is wrong.
Blank     == [key |-> Nobody, ver |-> 0, valid |-> FALSE]
TornSlot  == [key |-> Nobody, ver |-> Torn, valid |-> FALSE]
Image(k, p) == [key |-> k, ver |-> p.ver, valid |-> p.valid]

NoPages == [k \in {} |-> 0]
NoLag   == [data |-> [k \in Pages |-> {}], slots |-> [i \in Slot |-> {}], header |-> {}]

Buffered == DOMAIN dblwr_pages

\* The process has ended: its memory is gone.
LoseMemory ==
    /\ phase' = "down" /\ open' = {}
    /\ dblwr_pages' = NoPages /\ page_cnt' = 0 /\ spec_pages' = NoPages
    /\ pc' = "idle" /\ cur' = Nobody /\ todo' = {}

-----------------------------------------------------------------------------
(***************************************************************************)
(* Writing to the files.  What a write replaces can come back after a      *)
(* power failure, until the next sync().                                   *)
(***************************************************************************)
PutData(k, v) ==
    /\ data' = [data EXCEPT ![k] = v]
    /\ lag' = IF "power" \in Faults THEN [lag EXCEPT !.data[k] = @ \cup {data[k], Torn}] ELSE lag
    /\ UNCHANGED <<slots, header>>

\* write_page_internal
PutSlot(i, image) ==
    /\ slots' = [slots EXCEPT ![i] = image]
    /\ lag' = IF "power" \in Faults THEN [lag EXCEPT !.slots[i] = @ \cup {slots[i], TornSlot}] ELSE lag
    /\ UNCHANGED <<header, data>>

PutHeader(n) ==
    /\ header' = n
    /\ lag' = IF "power" \in Faults THEN [lag EXCEPT !.header = @ \cup {header}] ELSE lag
    /\ UNCHANGED <<slots, data>>

-----------------------------------------------------------------------------
(***************************************************************************)
(* add_page                                                                *)
(***************************************************************************)

\* A page that is buffered keeps its slot; a new one takes the slot numbered by
\* the size of dblwr_pages_.
AddPage(k) ==
    /\ phase = "up" /\ pc = "idle" /\ k[1] \in open /\ adds < MaxAdds
    /\ adds' = adds + 1
    /\ IF k \in Buffered
         THEN /\ dblwr_pages' = [dblwr_pages EXCEPT ![k].ver = adds + 1]
              /\ pc' = "hit"
         ELSE /\ dblwr_pages' = [j \in Buffered \cup {k} |->
                                   IF j = k THEN [slot |-> Cardinality(Buffered),
                                                  ver |-> adds + 1, valid |-> TRUE]
                                            ELSE dblwr_pages[j]]
              /\ pc' = "slot"
    /\ cur' = k
    /\ UNCHANGED <<phase, open, page_cnt, todo, spec_pages, files, added, excused, counts>>

\* Mutant: a hit changes the page in memory only.
MutWriteHit ==
    /\ pc = "hit"
    /\ added' = [added EXCEPT ![cur] = dblwr_pages[cur].ver]
    /\ pc' = "idle" /\ cur' = Nobody
    /\ UNCHANGED <<phase, open, dblwr_pages, page_cnt, todo, spec_pages, files, adds, excused, counts>>

\* A hit ends here.
WriteHit ==
    /\ pc = "hit"
    /\ PutSlot(dblwr_pages[cur].slot, Image(cur, dblwr_pages[cur]))
    /\ added' = [added EXCEPT ![cur] = dblwr_pages[cur].ver]
    /\ pc' = "idle" /\ cur' = Nobody
    /\ UNCHANGED <<phase, open, dblwr_pages, page_cnt, todo, spec_pages, adds, excused, counts>>

WriteSlot ==
    /\ pc = "slot"
    /\ PutSlot(dblwr_pages[cur].slot, Image(cur, dblwr_pages[cur]))
    /\ pc' = "header"
    /\ UNCHANGED <<phase, open, dblwr_pages, page_cnt, cur, todo, spec_pages, adds, added, excused, counts>>

\* The header is written when the count grows; a full buffer is flushed.
WriteHeader ==
    /\ pc = "header"
    /\ IF dblwr_pages[cur].slot + 1 > page_cnt
         THEN page_cnt' = dblwr_pages[cur].slot + 1 /\ PutHeader(page_cnt')
         ELSE UNCHANGED <<page_cnt, files>>
    /\ added' = [added EXCEPT ![cur] = dblwr_pages[cur].ver]
    /\ cur' = Nobody
    /\ pc' = IF Cardinality(Buffered) >= MaxPages THEN "sync" ELSE "idle"
    /\ UNCHANGED <<phase, open, dblwr_pages, todo, spec_pages, adds, excused, counts>>

-----------------------------------------------------------------------------
(***************************************************************************)
(* flush_page: from add_page, from Db::sync and from recover.              *)
(***************************************************************************)

\* Db::sync
Snapshot ==
    /\ phase = "up" /\ pc = "idle"
    /\ pc' = "sync"
    /\ UNCHANGED <<phase, open, dblwr_pages, page_cnt, cur, todo, spec_pages, files, adds, added, excused, counts>>

\* sync()
SyncFiles ==
    /\ pc = "sync"
    /\ lag' = NoLag
    /\ todo' = Buffered
    /\ pc' = "flush"
    /\ UNCHANGED <<phase, open, dblwr_pages, page_cnt, cur, spec_pages, slots, header, data, adds, added, excused, counts>>

\* Mutant: invalid pages are written too.
MutFlushPage(k) ==
    /\ pc = "flush" /\ k \in todo
    /\ PutData(k, dblwr_pages[k].ver)
    /\ cur' = k /\ pc' = "invalidate"
    /\ UNCHANGED <<phase, open, dblwr_pages, page_cnt, todo, spec_pages, adds, added, excused, counts>>

\* write_page: an invalid page is skipped.
FlushPage(k) ==
    /\ pc = "flush" /\ k \in todo
    /\ IF dblwr_pages[k].valid THEN PutData(k, dblwr_pages[k].ver) ELSE UNCHANGED files
    /\ cur' = k /\ pc' = "invalidate"
    /\ UNCHANGED <<phase, open, dblwr_pages, page_cnt, todo, spec_pages, adds, added, excused, counts>>

\* Mutant: the image stays valid in the file.
MutInvalidate ==
    /\ pc = "invalidate"
    /\ dblwr_pages' = [dblwr_pages EXCEPT ![cur].valid = FALSE]
    /\ todo' = todo \ {cur} /\ cur' = Nobody
    /\ pc' = "flush"
    /\ UNCHANGED <<phase, open, page_cnt, spec_pages, files, adds, added, excused, counts>>

\* valid = false, in the file too.
Invalidate ==
    /\ pc = "invalidate"
    /\ dblwr_pages' = [dblwr_pages EXCEPT ![cur].valid = FALSE]
    /\ PutSlot(dblwr_pages[cur].slot, Image(cur, dblwr_pages'[cur]))
    /\ todo' = todo \ {cur} /\ cur' = Nobody
    /\ pc' = "flush"
    /\ UNCHANGED <<phase, open, page_cnt, spec_pages, adds, added, excused, counts>>

FlushEnd ==
    /\ pc = "flush" /\ todo = {}
    /\ dblwr_pages' = NoPages /\ page_cnt' = 0
    /\ phase' = "up" /\ pc' = "idle"
    /\ UNCHANGED <<open, cur, todo, spec_pages, files, adds, added, excused, counts>>

\* The write of a data page fails and flush_page returns.  The pages it has
\* written are deleted but stay in dblwr_pages_, which then holds dangling
\* pointers.  During recovery the error ends Db::init, and the process.
FlushFails(k) ==
    /\ pc = "flush" /\ k \in todo /\ dblwr_pages[k].valid
    /\ "data" \in Faults /\ faults < MaxFaults
    /\ faults' = faults + 1
    /\ CASE todo # Buffered ->
              /\ phase' = "undefined" /\ pc' = "idle" /\ todo' = {}
              /\ UNCHANGED <<open, dblwr_pages, page_cnt, cur, spec_pages>>
         [] todo = Buffered /\ phase = "up" ->
              /\ pc' = "idle" /\ todo' = {}
              /\ UNCHANGED <<phase, open, dblwr_pages, page_cnt, cur, spec_pages>>
         [] todo = Buffered /\ phase = "recovering" -> LoseMemory
    /\ UNCHANGED <<files, adds, added, excused, crashes>>

\* What the process does with a dangling pointer is not described further.
Undefined == phase = "undefined" /\ UNCHANGED vars

-----------------------------------------------------------------------------
(***************************************************************************)
(* clear_pages: DiskBufferPool::close_file.                                *)
(***************************************************************************)
Of(p) == {k \in Buffered : k[1] = p}

\* Mutant: the pages are dropped without being written.
MutClearPages(p) ==
    /\ phase = "up" /\ pc = "idle" /\ p \in open
    /\ CloseShared \/ Of(p) = Buffered
    /\ spec_pages' = NoPages
    /\ dblwr_pages' = [k \in Buffered \ Of(p) |-> dblwr_pages[k]]
    /\ todo' = {} /\ cur' = p /\ pc' = "clear"
    /\ UNCHANGED <<phase, open, page_cnt, files, adds, added, excused, counts>>

\* The pool's pages leave dblwr_pages_, under the lock.
ClearPages(p) ==
    /\ phase = "up" /\ pc = "idle" /\ p \in open
    /\ CloseShared \/ Of(p) = Buffered
    /\ spec_pages' = [k \in Of(p) |-> dblwr_pages[k]]
    /\ dblwr_pages' = [k \in Buffered \ Of(p) |-> dblwr_pages[k]]
    /\ todo' = Of(p) /\ cur' = p /\ pc' = "clear"
    /\ UNCHANGED <<phase, open, page_cnt, files, adds, added, excused, counts>>

\* The pages are written by ascending page number.
FirstPage(k) == k \in todo /\ \A j \in todo : k[2] <= j[2]

ClearPage(k) ==
    /\ pc = "clear" /\ FirstPage(k)
    /\ PutData(k, spec_pages[k].ver)
    /\ cur' = k /\ pc' = "clear_slot"
    /\ UNCHANGED <<phase, open, dblwr_pages, page_cnt, todo, spec_pages, adds, added, excused, counts>>

ClearSlot ==
    /\ pc = "clear_slot"
    /\ PutSlot(spec_pages[cur].slot, [Image(cur, spec_pages[cur]) EXCEPT !.valid = FALSE])
    /\ todo' = todo \ {cur} /\ cur' = cur[1] /\ pc' = "clear"
    /\ UNCHANGED <<phase, open, dblwr_pages, page_cnt, spec_pages, adds, added, excused, counts>>

\* A write fails: the loop ends, the pages are deleted and SUCCESS is returned.
ClearFails ==
    /\ pc = "clear" /\ todo # {} /\ "data" \in Faults /\ faults < MaxFaults
    /\ faults' = faults + 1
    /\ excused' = excused \cup todo
    /\ todo' = {}
    /\ UNCHANGED <<phase, open, dblwr_pages, page_cnt, pc, cur, spec_pages, files, adds, added, crashes>>

\* The pages are deleted and close_file closes the file.
ClearEnd ==
    /\ pc = "clear" /\ todo = {}
    /\ open' = open \ {cur}
    /\ spec_pages' = NoPages /\ pc' = "idle" /\ cur' = Nobody
    /\ UNCHANGED <<phase, dblwr_pages, page_cnt, todo, files, adds, added, excused, counts>>

\* BufferPoolManager::open_file on a file that had been closed.
OpenPool(p) ==
    /\ phase = "up" /\ pc = "idle" /\ p \notin open
    /\ open' = open \cup {p}
    /\ UNCHANGED <<phase, dblwr_pages, page_cnt, pc, cur, todo, spec_pages, files, adds, added, excused, counts>>

-----------------------------------------------------------------------------
(***************************************************************************)
(* Start, end and crash of the process.                                    *)
(***************************************************************************)

\* Mutant: the last slot is not read.
MutLoadable(k) == {i \in Slot : i + 1 < header /\ slots[i].key = k}

\* Slots load_pages accepts for page k: the checksum is right; it does not look
\* at valid.
Loadable(k) == {i \in Slot : i < header /\ slots[i].key = k}
Least(S)    == CHOOSE i \in S : \A j \in S : i <= j

\* load_pages: insert keeps the first slot of a page.
Loaded == [k \in {j \in Pages : Loadable(j) # {}} |->
             LET i == Least(Loadable(k))
             IN  [slot |-> i, ver |-> slots[i].ver, valid |-> slots[i].valid]]

\* Every slot the header counts is in the file (else load_pages fails).
LoadSucceeds == \A i \in Slot : i < header => slots[i] # Blank

\* Db::init: open_file loads the pages, the tables are opened, recover flushes.
Restart ==
    /\ phase = "down" /\ LoadSucceeds
    /\ dblwr_pages' = Loaded /\ page_cnt' = header
    /\ open' = Pools
    /\ phase' = "recovering" /\ pc' = "sync"
    /\ UNCHANGED <<cur, todo, spec_pages, files, adds, added, excused, counts>>

\* Every pool is closed and the destructor finds nothing to flush.
Shutdown ==
    /\ phase = "up" /\ pc = "idle" /\ open = {}
    /\ LoseMemory
    /\ UNCHANGED <<files, adds, added, excused, counts>>

Dies == phase \in {"recovering", "up"} /\ crashes < MaxCrashes /\ crashes' = crashes + 1

\* kill -9 between two writes.
Crash ==
    /\ Dies /\ LoseMemory
    /\ UNCHANGED <<files, adds, added, excused, faults>>

\* The crash tears the data page being written.
CrashTearsPage(k) ==
    /\ "tear" \in Faults /\ Dies /\ LoseMemory
    /\ \/ pc = "flush" /\ k \in todo /\ dblwr_pages[k].valid
       \/ pc = "clear" /\ FirstPage(k)
    /\ PutData(k, Torn)
    /\ UNCHANGED <<adds, added, excused, faults>>

\* The crash tears the image being written: the slot's checksum is wrong.
CrashTearsSlot ==
    /\ "tear" \in Faults /\ Dies /\ LoseMemory
    /\ pc \in {"hit", "slot"}
    /\ PutSlot(dblwr_pages[cur].slot, TornSlot)
    /\ excused' = excused \cup {cur}
    /\ UNCHANGED <<adds, added, faults>>

\* A power failure: each write since the last sync() may be missing or torn.
PowerFails ==
    /\ "power" \in Faults /\ Dies /\ LoseMemory
    /\ \E d \in [Pages -> {Torn} \cup 0..MaxAdds] :
         /\ \A k \in Pages : d[k] \in lag.data[k] \cup {data[k]}
         /\ data' = d
    /\ \E s \in [Slot -> UNION {lag.slots[i] \cup {slots[i]} : i \in Slot}] :
         /\ \A i \in Slot : s[i] \in lag.slots[i] \cup {slots[i]}
         /\ slots' = s
    /\ header' \in lag.header \cup {header}
    /\ lag' = NoLag
    /\ excused' = Pages
    /\ UNCHANGED <<adds, added, faults>>

-----------------------------------------------------------------------------
Init ==
    /\ phase = "down" /\ open = {}
    /\ dblwr_pages = NoPages /\ page_cnt = 0 /\ spec_pages = NoPages
    /\ pc = "idle" /\ cur = Nobody /\ todo = {}
    /\ slots = [i \in Slot |-> Blank] /\ header = 0
    /\ data = [k \in Pages |-> 0] /\ lag = NoLag
    /\ adds = 0 /\ added = [k \in Pages |-> 0] /\ excused = {}
    /\ faults = 0 /\ crashes = 0

Next == \/ \E k \in Pages : AddPage(k) \/ FlushPage(k) \/ FlushFails(k)
                            \/ ClearPage(k) \/ CrashTearsPage(k)
        \/ \E p \in Pools : ClearPages(p) \/ OpenPool(p)
        \/ WriteHit \/ WriteSlot \/ WriteHeader \/ Undefined
        \/ Snapshot \/ SyncFiles \/ Invalidate \/ FlushEnd
        \/ ClearSlot \/ ClearFails \/ ClearEnd
        \/ Restart \/ Shutdown \/ Crash \/ CrashTearsSlot

Spec == Init /\ [][Next]_vars

SpecPower == Init /\ [][Next \/ PowerFails]_vars

-----------------------------------------------------------------------------
(***************************************************************************)
(* Properties.                                                             *)
(***************************************************************************)

DwbPage == [slot : Slot, ver : 0..MaxAdds, valid : BOOLEAN]

\* Types of the variables; a buffered page always has a slot within the file.
TypeOK ==
    /\ phase \in {"down", "recovering", "up", "undefined"}
    /\ open \subseteq Pools /\ page_cnt \in Nat /\ header \in Nat
    /\ Buffered \subseteq Pages /\ dblwr_pages \in [Buffered -> DwbPage]
    /\ DOMAIN spec_pages \subseteq Pages /\ spec_pages \in [DOMAIN spec_pages -> DwbPage]
    /\ pc \in {"idle", "hit", "slot", "header", "sync", "flush", "invalidate", "clear", "clear_slot"}
    /\ cur \in Pages \cup Pools \cup {Nobody} /\ todo \subseteq Pages
    /\ slots \in [Slot -> {Blank, TornSlot} \cup [key : Pages, ver : 0..MaxAdds, valid : BOOLEAN]]
    /\ data \in [Pages -> {Torn} \cup 0..MaxAdds]
    /\ adds \in 0..MaxAdds /\ added \in [Pages -> 0..MaxAdds]
    /\ excused \subseteq Pages
    /\ faults \in 0..MaxFaults /\ crashes \in 0..MaxCrashes

\* What load_page reads: the buffered page if there is one, else the data file.
Current(k) == IF k \in Buffered THEN dblwr_pages[k].ver ELSE data[k]

\* load_pages never meets a slot that is not there: the header is written after
\* the slots it counts, whatever flushes and restarts did to the count.
HeaderCoversSlots == LoadSucceeds

\* Recovery repairs every torn page: once the process is up no page of a data
\* file is torn (docs/design/miniob-double-write-buffer.md).
RecoveredIntact == phase = "up" => \A k \in Pages : data[k] # Torn

\* The note on the class: memory and file hold the newest content.  The slot of
\* a buffered page holds that page with the content in memory.
FileHoldsNewest ==
    phase = "up" /\ pc \in {"idle", "sync", "flush", "clear"} =>
      \A k \in Buffered : slots[dblwr_pages[k].slot] = Image(k, dblwr_pages[k])

\* What add_page has written is read back by load_page, also after kill -9 and a
\* restart, unless a fault destroyed the only copy.
NewestSurvives ==
    phase = "up" /\ pc = "idle" =>
      \A k \in Pages \ excused : k[1] \in open => Current(k) >= added[k]

\* A data file is never overwritten with older content, by recovery either.
NeverRegress ==
    [][\A k \in Pages \ excused : data'[k] # Torn => data'[k] >= data[k]]_vars

-----------------------------------------------------------------------------
(***************************************************************************)
(* The store the buffer pools see.                                         *)
(***************************************************************************)

\* What the next start makes of the pages: it writes the images load_pages finds to the data files,
\* if they are valid.
Intact == Pages \ excused
Kept   == LET l == Loaded
          IN  [k \in Intact |-> IF k \in DOMAIN l /\ l[k].valid THEN l[k].ver ELSE data[k]]

Writing == IF pc \in {"hit", "slot", "header"} THEN {cur} ELSE {}
Closing == CASE pc = "clear" -> {cur} [] pc = "clear_slot" -> {cur[1]} [] OTHER -> {}
Usable  == IF phase = "up" THEN open \ Closing ELSE {}

Seen    == LET kept == Kept
           IN  [k \in Intact |-> IF k[1] \in Usable THEN Current(k) ELSE kept[k]]

Store == INSTANCE PageStore WITH
            Contents <- 0..MaxAdds,
            up       <- phase = "up",
            open     <- Usable,
            content  <- Seen,
            kept     <- Kept,
            writing  <- Writing,
            closing  <- Closing

\* For its callers the double write buffer is a store of pages: a call takes effect at one moment
\* before it returns, and flushes, failing flushes, snapshots, closing, kill -9 and recovery change
\* nothing.
ImplementsStore == Store!Spec
=============================================================================
