------------------------------ MODULE BplusTree ------------------------------
(***************************************************************************)
(* The B+ tree index of observer/storage/index under concurrent requests   *)
(* and crashes: BplusTreeHandler, LatchMemo, BplusTreeScanner and          *)
(* BplusTreeMiniTransaction, in a build with latches (CONCURRENCY).        *)
(*                                                                         *)
(* A thread descends with latch coupling, one page latch a step, changes   *)
(* the leaf, works its way up through the pages it has kept latched, and   *)
(* commits: the operations of the request become one entry of the redo     *)
(* log.  A page is flushed when nobody has it pinned, after the log up to  *)
(* its LSN; after a crash redo applies the log to the pages of the file.   *)
(***************************************************************************)
EXTENDS BplusTreeNode

CONSTANTS
    Threads,
    MaxPages,       \* pages of the index file, MAX_PAGE_NUM
    Unique,         \* IndexFileHeader::unique
    InitTree,       \* the nodes in the file when the threads start, by page number
    Scripts,        \* the sequences of requests a thread may have to execute
    MaxCrashes      \* bound on the crashes

ASSUME BplusTreeAssumption ==
    /\ LeafMax >= 4 /\ InternalMax >= 4
    /\ MaxPages \in Nat /\ MaxCrashes \in Nat /\ Unique \in BOOLEAN

VARIABLES
    page,       \* the frames: nodes, and the index header at page Hdr
    lsn,        \* Page::lsn of the frames
    alloc,      \* the pages allocated in the file
    xl,         \* who holds a page latch, or the root lock, exclusively
    sl,         \* who shares it
    th,         \* the threads: place in the code, local variables, mini-transaction
    log,        \* the redo log, in LSN order
    durable,    \* LSN up to which the log has been waited for
    disk,       \* the index file: page and LSN
    contents,   \* history: keys of the committed requests
    crashes

tree    == <<page, lsn, alloc>>
latches == <<xl, sl>>
storage == <<durable, disk, crashes>>
vars    == <<tree, latches, th, log, storage, contents>>

Nobody   == "nobody"
RootLock == -2
Pages    == 1..MaxPages
MaxRid   == 99          \* RID::max

\* Requests: insert_entry and delete_entry with a key, update_entry with the new and the old
\* key, and a scan of the user keys from lo to hi, 0 where the scan has no bound.
InsertReq(k)      == [op |-> "insert", key |-> k, old |-> NoKey, lo |-> 0, hi |-> 0]
DeleteReq(k)      == [op |-> "delete", key |-> k, old |-> NoKey, lo |-> 0, hi |-> 0]
UpdateReq(k, old) == [op |-> "insert", key |-> k, old |-> old, lo |-> 0, hi |-> 0]
ScanReq(lo, hi)   == [op |-> "scan", key |-> NoKey, old |-> NoKey, lo |-> lo, hi |-> hi]

Idle(todo) == [pc |-> "idle", todo |-> todo, req |-> ScanReq(0, 0), at |-> Invalid, new |-> Invalid,
               sep |-> NoKey, ops |-> <<>>, disposed |-> {}, idx |-> 0, emitted |-> FALSE,
               out |-> <<>>, quiet |-> TRUE]

InitRoot  == IF DOMAIN InitTree = {} THEN Invalid
             ELSE CHOOSE p \in DOMAIN InitTree : InitTree[p].parent = Invalid
InitPages == [p \in Pages \cup {Hdr} |->
    IF p = Hdr THEN [Blank EXCEPT !.next = InitRoot]
    ELSE IF p \in DOMAIN InitTree THEN InitTree[p] ELSE Blank]

-----------------------------------------------------------------------------
(***************************************************************************)
(* LatchMemo.                                                              *)
(***************************************************************************)
CanX(t, p) == xl[p] \in {Nobody, t} /\ sl[p] \subseteq {t}
CanS(t, p) == xl[p] = Nobody

\* release_to, release: all latches of t but the ones on the pages of "keep" are given back.
XOnly(t, keep) == [p \in DOMAIN xl |-> IF p \in keep THEN t ELSE IF xl[p] = t THEN Nobody ELSE xl[p]]
SOnly(t, keep) == [p \in DOMAIN sl |-> IF p \in keep THEN sl[p] \cup {t} ELSE sl[p] \ {t}]
AddX(t, ps)    == [p \in DOMAIN xl |-> IF p \in ps THEN t ELSE xl[p]]
ReleaseAll(t)  == xl' = XOnly(t, {}) /\ sl' = SOnly(t, {})

\* The pages a thread has pinned: the ones it latched and the ones its operations changed.
Pinned(t) == {p \in Pages \cup {Hdr} : xl[p] = t \/ t \in sl[p]} \cup {o.p : o \in ToSet(th[t].ops)}

\* DiskBufferPool::allocate_page logs the allocation by itself.
FreePages      == Pages \ alloc
AllocEntry(q)  == [t |-> "alloc", p |-> q, ops |-> <<>>, set |-> contents]
FreeEntries(S) == [i \in 1..Cardinality(S) |->
                     [t |-> "free", p |-> SetToSeq(S)[i], ops |-> <<>>, set |-> contents']]
Allocate(q) ==
    /\ q \in FreePages /\ \A r \in FreePages : q <= r
    /\ alloc' = alloc \cup {q}
    /\ log' = Append(log, AllocEntry(q))

\* The thread changes pages by the operations os.
Do(t, os) == page' = ApplyAll(page, os)

-----------------------------------------------------------------------------
(***************************************************************************)
(* The end of a request.                                                   *)
(***************************************************************************)

\* update_entry goes on with the deletion of the old key.
AfterRequest(t) ==
    IF th[t].req.op = "insert" /\ th[t].req.old # NoKey
    THEN Idle(<<DeleteReq(th[t].req.old)>> \o th[t].todo)
    ELSE Idle(th[t].todo)

\* BplusTreeMiniTransaction: commit appends one log entry and stamps the frames, then the memo
\* releases the latches and disposes of the pages.
Commit(t) ==
    LET ops == th[t].ops key == th[t].req.key
    IN  /\ th[t].pc = "commit"
        /\ contents' = CASE th[t].req.op = "insert" -> contents \cup {key}
                         [] th[t].req.op = "delete" -> contents \ {key}
        /\ log' = Append(log, [t |-> "mtr", p |-> Hdr, ops |-> ops, set |-> contents'])
                  \o FreeEntries(th[t].disposed)
        /\ lsn' = [p \in DOMAIN lsn |->
                     IF \E o \in ToSet(ops) : o.p = p THEN Len(log) + 1 ELSE lsn[p]]
        /\ alloc' = alloc \ th[t].disposed
        /\ th' = [th EXCEPT ![t] = AfterRequest(t)]
        /\ ReleaseAll(t)
        /\ UNCHANGED <<page, storage>>

\* The request fails without having changed a page.
Fail(t) ==
    /\ th' = [th EXCEPT ![t] = Idle(th[t].todo)]
    /\ ReleaseAll(t)
    /\ UNCHANGED <<tree, log, storage, contents>>

\* Redo of the log entry with LSN i: the operations on the pages whose LSN is below, and
\* the frames get the LSN at the end.  Mutants: the LSN of the page is not looked at; the frame
\* gets it with its first operation.
MutRedoAgain(s, i) ==
    LET e == log[i]
    IN  CASE e.t = "alloc" -> [s EXCEPT !.alloc = @ \cup {e.p}]
          [] e.t = "free"  -> [s EXCEPT !.alloc = @ \ {e.p}]
          [] e.t = "mtr"   -> [s EXCEPT !.pg = ApplyAll(@, e.ops)]

MutRedoStamp(s, i) ==
    LET e == log[i]
        first(j) == \A l \in 1..j - 1 : e.ops[l].p # e.ops[j].p
        os == [l \in {j \in 1..Len(e.ops) : first(j)} |-> e.ops[l]]
    IN  CASE e.t = "alloc" -> [s EXCEPT !.alloc = @ \cup {e.p}]
          [] e.t = "free"  -> [s EXCEPT !.alloc = @ \ {e.p}]
          [] e.t = "mtr"   -> [s EXCEPT !.pg = [p \in DOMAIN @ |->
               IF \E l \in DOMAIN os : os[l].p = p
               THEN ApplyTo(@[p], os[CHOOSE l \in DOMAIN os : os[l].p = p]) ELSE @[p]]]

RedoEntry(s, i) ==
    LET e == log[i]
        os == SelectSeq(e.ops, LAMBDA o : s.lsn[o.p] < i)
    IN  CASE e.t = "alloc" -> [s EXCEPT !.alloc = @ \cup {e.p}]
          [] e.t = "free"  -> [s EXCEPT !.alloc = @ \ {e.p}]
          [] e.t = "mtr"   ->
               [s EXCEPT !.pg  = ApplyAll(@, os),
                         !.lsn = [p \in DOMAIN @ |->
                                    IF \E o \in ToSet(os) : o.p = p THEN i ELSE @[p]]]

\* The pages of the file after redo of the first n entries.
Redo(n) == FoldLeft(RedoEntry,
                    [pg    |-> [p \in DOMAIN disk |-> disk[p].node],
                     lsn   |-> [p \in DOMAIN disk |-> disk[p].lsn],
                     alloc |-> DOMAIN InitTree],
                    [i \in 1..n |-> i])

\* The process dies; n entries of the log have reached the disk.
CrashAt(n) ==
    /\ crashes < MaxCrashes
    /\ crashes' = crashes + 1
    /\ page' = Redo(n).pg /\ lsn' = Redo(n).lsn /\ alloc' = Redo(n).alloc
    /\ log' = SubSeq(log, 1, n)
    /\ contents' = IF n = 0 THEN Entries(InitPages) ELSE log[n].set
    /\ durable' = n
    /\ xl' = [p \in DOMAIN xl |-> Nobody] /\ sl' = [p \in DOMAIN sl |-> {}]
    /\ th' = [t \in Threads |-> Idle(th[t].todo)]
    /\ UNCHANGED disk

Crash == \E n \in durable..Len(log) : CrashAt(n)

\* No page is left in the file: split, or the allocation of a root, fails.
AllocateFails(t) ==
    /\ FreePages = {}
    /\ IF RollbackSurvives(th[t].ops) THEN Fail(t) ELSE \E n \in durable..Len(log) : CrashAt(n)

-----------------------------------------------------------------------------
(***************************************************************************)
(* Finding the leaf.                                                       *)
(***************************************************************************)

\* insert_entry looks at the root page without the root lock; delete_entry and the scanner
\* go straight to find_leaf.
Begin(t) ==
    /\ th[t].pc = "idle" /\ th[t].todo # <<>>
    /\ LET req == Head(th[t].todo)
           pc  == IF req.op # "insert" THEN "find"
                  ELSE IF Root(page) = Invalid THEN "create"
                  ELSE IF Unique THEN "probe" ELSE "find"
       IN  th' = [u \in Threads |->
                    IF u = t
                    THEN [Idle(Tail(th[t].todo)) EXCEPT !.req = req, !.pc = pc,
                            !.quiet = \A v \in Threads \ {t} : th[v].pc = "idle" \/ th[v].req.op = "scan"]
                    ELSE [th[u] EXCEPT !.quiet = @ /\ req.op = "scan"]]
    /\ UNCHANGED <<tree, latches, log, storage, contents>>

\* create_new_tree under the root lock, unless another thread was faster.  The root lock is
\* given back at once, the header page stays latched until the commit.
CreateTree(t) ==
    /\ th[t].pc = "create" /\ CanX(t, RootLock)
    /\ IF Root(page) # Invalid
       THEN /\ th' = [th EXCEPT ![t].pc = IF Unique THEN "probe" ELSE "find"]
            /\ UNCHANGED <<tree, latches, log, storage, contents>>
       ELSE \/ AllocateFails(t)
            \/ /\ CanX(t, Hdr)
               /\ \E q \in FreePages :
                    /\ Allocate(q)
                    /\ LET os == <<InitEmpty(q, TRUE),
                                   NodeInsert(q, 0, <<Item(th[t].req.key, th[t].req.key[2])>>),
                                   UpdateRoot(q)>>
                       IN  Do(t, os) /\ th' = [th EXCEPT ![t].ops = os, ![t].pc = "commit"]
               /\ xl' = AddX(t, {Hdr})
               /\ UNCHANGED <<lsn, sl, storage, contents>>

\* The mode of the latches: try_insert_entry searches as an insert does.
Reads(t) == th[t].req.op = "scan"

\* find_leaf_internal takes the root lock.
LockRoot(t) ==
    /\ th[t].pc \in {"find", "probe"}
    /\ IF Reads(t) THEN CanS(t, RootLock) ELSE CanX(t, RootLock)
    /\ IF Root(page) = Invalid
       THEN IF Reads(t)
            THEN /\ th' = [th EXCEPT ![t].pc = "scanned"]
                 /\ UNCHANGED <<tree, latches, log, storage, contents>>
            ELSE Fail(t)
       ELSE /\ xl' = IF Reads(t) THEN xl ELSE AddX(t, {RootLock})
            /\ sl' = IF Reads(t) THEN SOnly(t, {RootLock}) ELSE sl
            /\ th' = [th EXCEPT ![t].at = Root(page), ![t].pc = IF @ = "find" THEN "down" ELSE "probing"]
            /\ UNCHANGED <<tree, log, storage, contents>>

\* The key find_leaf looks for: a scan with a left bound starts at its smallest RID.
SearchKey(t) ==
    CASE th[t].req.op = "scan" -> <<th[t].req.lo, 0>>
      [] th[t].pc \in {"probe", "probing", "probed"} -> <<th[t].req.key[1], 0>>
      [] OTHER -> th[t].req.key

\* crabing_protocal_fetch_page: latch the page, and when it is safe give back what is above.
FetchPage(t) ==
    LET p == th[t].at
        n == page[p]
        safe == IsSafe(n, th[t].req.op, p = Root(page))
    IN  /\ th[t].pc \in {"down", "probing"}
        /\ IF Reads(t) THEN CanS(t, p) ELSE CanX(t, p)
        /\ xl' = IF Reads(t) THEN xl ELSE IF safe THEN XOnly(t, {p}) ELSE AddX(t, {p})
        /\ sl' = IF Reads(t) THEN SOnly(t, {p}) ELSE sl
        /\ th' = [th EXCEPT ![t].at = IF n.leaf THEN p ELSE ValueAt(n, InternalLookup(n, SearchKey(t))),
                            ![t].pc = IF ~n.leaf THEN @ ELSE IF @ = "down" THEN "leaf" ELSE "probed"]
        /\ UNCHANGED <<tree, log, storage, contents>>

\* try_insert_entry: when the place is behind the last item the next page is fetched, but the
\* key is still read from this one.  The latches are given back before the insert starts.
ProbeUnique(t) ==
    LET n == page[th[t].at]
        pos == LeafLookup(n, SearchKey(t))
        dup == \/ pos < Size(n) /\ KeyAt(n, pos)[1] = th[t].req.key[1]
               \/ pos >= Size(n) /\ n.next # Invalid /\ KeyAt(n, 0)[1] = th[t].req.key[1]
    IN  /\ th[t].pc = "probed"
        /\ IF dup THEN Fail(t)
           ELSE /\ th' = [th EXCEPT ![t].pc = "find", ![t].at = Invalid]
                /\ ReleaseAll(t)
                /\ UNCHANGED <<tree, log, storage, contents>>

-----------------------------------------------------------------------------
(***************************************************************************)
(* Insert.                                                                 *)
(***************************************************************************)
Change(t, os, pc) ==
    /\ Do(t, os)
    /\ th' = [th EXCEPT ![t].ops = @ \o os, ![t].pc = pc]

InsertIntoLeaf(t) ==
    LET p == th[t].at
        n == page[p]
        item == Item(th[t].req.key, th[t].req.key[2])
    IN  /\ th[t].pc = "leaf" /\ th[t].req.op = "insert"
        /\ \/ Exists(n, item.k) /\ Fail(t)
           \/ /\ ~Exists(n, item.k) /\ Size(n) < MaxSize(n)
              /\ Change(t, <<NodeInsert(p, LeafLookup(n, item.k), <<item>>)>>, "commit")
              /\ UNCHANGED <<lsn, alloc, latches, log, storage, contents>>
           \/ ~Exists(n, item.k) /\ Size(n) >= MaxSize(n) /\ AllocateFails(t)
           \/ /\ ~Exists(n, item.k) /\ Size(n) >= MaxSize(n)
              /\ \E q \in FreePages :
                   /\ Allocate(q)
                   /\ LET os == LeafSplitOps(page, p, q, item)
                      IN  /\ Do(t, os)
                          /\ th' = [th EXCEPT ![t].ops = os, ![t].pc = "parent", ![t].new = q,
                                              ![t].sep = KeyAt(ApplyAll(page, os)[q], 0)]
                   /\ xl' = AddX(t, {q})
              /\ UNCHANGED <<lsn, sl, storage, contents>>

\* insert_entry_into_parent: at and new are the halves, sep the first key of new.
InsertIntoParent(t) ==
    LET p == th[t].at
        pp == page[p].parent
        q == th[t].new
        sep == th[t].sep
    IN  /\ th[t].pc = "parent"
        /\ \/ (pp # Invalid => Size(page[pp]) >= MaxSize(page[pp])) /\ AllocateFails(t)
           \/ /\ pp = Invalid /\ CanX(t, Hdr)
              /\ \E r \in FreePages : Allocate(r) /\ Change(t, NewRootOps(p, q, sep, r), "commit")
              /\ xl' = AddX(t, {Hdr})
              /\ UNCHANGED <<lsn, sl, storage, contents>>
           \/ /\ pp # Invalid /\ Size(page[pp]) < MaxSize(page[pp])
              /\ Change(t, ParentInsertOps(page, pp, q, sep), "commit")
              /\ UNCHANGED <<lsn, alloc, latches, log, storage, contents>>
           \/ /\ pp # Invalid /\ Size(page[pp]) >= MaxSize(page[pp])
              /\ \E pq \in FreePages :
                   /\ Allocate(pq)
                   /\ LET os == ParentSplitOps(page, pp, q, sep, pq)
                      IN  /\ Do(t, os)
                          /\ th' = [th EXCEPT ![t].ops = @ \o os, ![t].at = pp, ![t].new = pq,
                                              ![t].sep = KeyAt(ApplyAll(page, os)[pq], 0)]
                   /\ xl' = AddX(t, {pq})
              /\ UNCHANGED <<lsn, sl, storage, contents>>

-----------------------------------------------------------------------------
(***************************************************************************)
(* Delete.                                                                 *)
(***************************************************************************)
DeleteFromLeaf(t) ==
    LET p == th[t].at
        n == page[p]
        pos == LeafLookup(n, th[t].req.key)
    IN  /\ th[t].pc = "leaf" /\ th[t].req.op = "delete"
        /\ \/ ~Exists(n, th[t].req.key) /\ Fail(t)
           \/ /\ Exists(n, th[t].req.key)
              /\ Change(t, <<NodeRemove(p, pos, <<n.items[pos + 1]>>)>>,
                        IF Size(n) - 1 >= MinSize(n) THEN "commit" ELSE "fix")
              /\ UNCHANGED <<lsn, alloc, latches, log, storage, contents>>

\* coalesce_or_redistribute of the node at: the neighbour is latched in the order of the
\* code, whatever the thread holds already.
CoalesceOrRedistribute(t) ==
    LET p == th[t].at
        n == page[p]
        root == n.parent = Invalid
        b == Neighbor(page, p)
    IN  /\ th[t].pc = "fix"
        /\ \/ /\ Size(n) < MinSize(n) => root /\ (Size(n) > 1 \/ (n.leaf /\ Size(n) > 0))
              /\ th' = [th EXCEPT ![t].pc = "commit"]
              /\ UNCHANGED <<page, xl, alloc>>
           \/ /\ Size(n) < MinSize(n) /\ root /\ Size(n) <= 1 /\ ~(n.leaf /\ Size(n) > 0)
              /\ CanX(t, Hdr)
              /\ Do(t, AdjustRootOps(page, p))
              /\ th' = [th EXCEPT ![t].ops = @ \o AdjustRootOps(page, p), ![t].pc = "commit",
                                  ![t].disposed = @ \cup {p}]
              /\ xl' = AddX(t, {Hdr})
              /\ UNCHANGED alloc
           \/ /\ Size(n) < MinSize(n) /\ ~root /\ CanX(t, b)
              /\ Size(n) + Size(page[b]) > MaxSize(n)
              /\ Change(t, RedistributeOps(page, p), "commit")
              /\ xl' = AddX(t, {b})
              /\ UNCHANGED alloc
           \/ /\ Size(n) < MinSize(n) /\ ~root /\ CanX(t, b)
              /\ Size(n) + Size(page[b]) <= MaxSize(n)
              /\ Do(t, CoalesceOps(page, p))
              /\ th' = [th EXCEPT ![t].ops = @ \o CoalesceOps(page, p), ![t].at = n.parent,
                                  ![t].disposed = @ \cup {CoalesceRight(page, p)}]
              /\ xl' = AddX(t, {b})
              /\ UNCHANGED alloc
        /\ UNCHANGED <<lsn, sl, log, storage, contents>>

-----------------------------------------------------------------------------
(***************************************************************************)
(* BplusTreeScanner.                                                       *)
(***************************************************************************)
TouchEnd(t, p, i) ==
    th[t].req.hi # 0 /\ KeyLess(<<th[t].req.hi, MaxRid>>, KeyAt(page[p], i))

\* open, at the leaf: start here, or on the next leaf when the place is behind the last item.
OpenScan(t) ==
    LET p == th[t].at
        n == page[p]
        idx == IF th[t].req.lo = 0 THEN 0 ELSE LeafLookup(n, SearchKey(t))
    IN  /\ th[t].pc = "leaf" /\ Reads(t)
        /\ IF idx >= Size(n) /\ n.next # Invalid
           THEN th' = [th EXCEPT ![t].pc = "hop"] /\ UNCHANGED latches
           ELSE /\ th' = [th EXCEPT ![t].idx = idx,
                            ![t].pc = IF idx >= Size(n) \/ TouchEnd(t, p, idx) THEN "scanned" ELSE "scan"]
                /\ ReleaseAll(t)
        /\ UNCHANGED <<tree, log, storage, contents>>

\* Mutant: the scan starts on the next leaf with the second item.
MutHopScan(t) ==
    LET q == page[th[t].at].next
    IN  /\ th[t].pc = "hop" /\ CanS(t, q)
        /\ th' = [th EXCEPT ![t].at = q, ![t].idx = 1, ![t].pc = "scan"]
        /\ ReleaseAll(t)
        /\ UNCHANGED <<tree, log, storage, contents>>

\* open waits for the latch of the next leaf with this one latched.
HopScan(t) ==
    LET q == page[th[t].at].next
    IN  /\ th[t].pc = "hop" /\ CanS(t, q)
        /\ th' = [th EXCEPT ![t].at = q, ![t].idx = 0,
                            ![t].pc = IF TouchEnd(t, q, 0) THEN "scanned" ELSE "scan"]
        /\ ReleaseAll(t)
        /\ UNCHANGED <<tree, log, storage, contents>>

\* Mutant: next_entry waits for the latch of the next leaf.
MutNextEntry(t) ==
    LET p == th[t].at
        n == page[p]
        i == IF th[t].emitted THEN th[t].idx + 1 ELSE th[t].idx
    IN  /\ th[t].pc = "scan"
        /\ IF i < Size(n)
           THEN th' = [th EXCEPT ![t].idx = i, ![t].emitted = TRUE] /\ UNCHANGED latches
           ELSE IF n.next = Invalid
                THEN th' = [th EXCEPT ![t].pc = "scanned"] /\ ReleaseAll(t)
                ELSE /\ IF CanS(t, n.next)
                        THEN th' = [th EXCEPT ![t].at = n.next, ![t].idx = 0] /\ sl' = SOnly(t, {n.next})
                        ELSE th' = [th EXCEPT ![t].pc = "hop"] /\ UNCHANGED sl
                     /\ UNCHANGED xl
        /\ UNCHANGED <<tree, log, storage, contents>>

\* next_entry.  The page is not latched after open, so another thread may have changed it.
\* Moving on to the next leaf, the latch is only tried for; without it the scan fails.
NextEntry(t) ==
    LET p == th[t].at
        n == page[p]
        i == IF th[t].emitted THEN th[t].idx + 1 ELSE th[t].idx
        Emit(q, j) == [th EXCEPT ![t].at = q, ![t].idx = j, ![t].emitted = TRUE,
                                 ![t].out = Append(@, KeyAt(page[q], j))]
    IN  /\ th[t].pc = "scan"
        /\ \/ /\ i < Size(n) /\ ~(th[t].emitted /\ TouchEnd(t, p, i))
              /\ th' = Emit(p, i)
              /\ UNCHANGED latches
           \/ /\ (i < Size(n) /\ th[t].emitted /\ TouchEnd(t, p, i)) \/ (i >= Size(n) /\ n.next = Invalid)
              /\ th' = [th EXCEPT ![t].pc = "scanned"]
              /\ ReleaseAll(t)
           \/ /\ i >= Size(n) /\ n.next # Invalid /\ CanS(t, n.next)
              /\ IF Size(page[n.next]) = 0 \/ TouchEnd(t, n.next, 0)
                 THEN th' = [th EXCEPT ![t].pc = "scanned"] /\ ReleaseAll(t)
                 ELSE th' = Emit(n.next, 0) /\ sl' = SOnly(t, {n.next}) /\ UNCHANGED xl
           \/ /\ i >= Size(n) /\ n.next # Invalid /\ ~CanS(t, n.next)
              /\ th' = [th EXCEPT ![t] = Idle(th[t].todo)]
              /\ ReleaseAll(t)
        /\ UNCHANGED <<tree, log, storage, contents>>

CloseScan(t) ==
    /\ th[t].pc = "scanned"
    /\ th' = [th EXCEPT ![t] = Idle(th[t].todo)]
    /\ ReleaseAll(t)
    /\ UNCHANGED <<tree, log, storage, contents>>

-----------------------------------------------------------------------------
(***************************************************************************)
(* The buffer pool flushes a page nobody has pinned, after its log.        *)
(* Mutant: without waiting for the log.                                    *)
(***************************************************************************)
MutFlush(p) ==
    /\ crashes < MaxCrashes
    /\ disk[p] # [node |-> page[p], lsn |-> lsn[p]]
    /\ \A t \in Threads : p \notin Pinned(t)
    /\ disk' = [disk EXCEPT ![p] = [node |-> page[p], lsn |-> lsn[p]]]
    /\ UNCHANGED <<tree, latches, th, log, durable, crashes, contents>>

Flush(p) ==
    /\ crashes < MaxCrashes
    /\ disk[p] # [node |-> page[p], lsn |-> lsn[p]]
    /\ \A t \in Threads : p \notin Pinned(t)
    /\ durable' = IF lsn[p] > durable THEN lsn[p] ELSE durable
    /\ disk' = [disk EXCEPT ![p] = [node |-> page[p], lsn |-> lsn[p]]]
    /\ UNCHANGED <<tree, latches, th, log, crashes, contents>>

Init ==
    /\ page = InitPages
    /\ lsn = [p \in Pages \cup {Hdr} |-> 0]
    /\ alloc = DOMAIN InitTree
    /\ xl = [p \in Pages \cup {Hdr, RootLock} |-> Nobody]
    /\ sl = [p \in Pages \cup {Hdr, RootLock} |-> {}]
    /\ \E f \in [Threads -> Scripts] : th = [t \in Threads |-> Idle(f[t])]
    /\ log = <<>> /\ durable = 0
    /\ disk = [p \in Pages \cup {Hdr} |-> [node |-> InitPages[p], lsn |-> 0]]
    /\ contents = Entries(InitPages)
    /\ crashes = 0

Next ==
    \/ \E t \in Threads :
         \/ Begin(t) \/ CreateTree(t) \/ LockRoot(t) \/ FetchPage(t) \/ ProbeUnique(t)
         \/ InsertIntoLeaf(t) \/ InsertIntoParent(t)
         \/ DeleteFromLeaf(t) \/ CoalesceOrRedistribute(t)
         \/ Commit(t)
         \/ OpenScan(t) \/ HopScan(t) \/ NextEntry(t) \/ CloseScan(t)
    \/ \E p \in Pages \cup {Hdr} : Flush(p)
    \/ Crash

Spec == Init /\ [][Next]_vars

-----------------------------------------------------------------------------
(***************************************************************************)
(* Properties.                                                             *)
(***************************************************************************)
Writing(t) == th[t].pc \in {"parent", "fix", "commit"}
Quiet      == \A t \in Threads : ~Writing(t)

\* Whenever no request is between its first and its last change, whatever splits, merges,
\* redistributions and crashes came before, validate_tree succeeds and the leaf chain holds
\* exactly the keys that were inserted and not deleted (insert_entry, delete_entry).
TreeConsistent == Quiet => ValidTree(page) /\ Entries(page) = contents

\* The items and the chain of a page in use are changed only by a thread that has latched the
\* page; its parent pointer also by one that has latched the old or the new parent, which is
\* what insert_items relies on ("no write latch here, because the parent is latched").
Latched(p) == p \in Pages \cup {Hdr} => xl'[p] # Nobody \/ xl[p] # Nobody \/ p \notin alloc
ChangesLatched ==
    [][crashes' = crashes =>
         \A p \in alloc \cup {Hdr} :
           /\ (page'[p].items # page[p].items \/ page'[p].next # page[p].next) => Latched(p)
           /\ page'[p].parent # page[p].parent =>
                \/ Latched(p)
                \/ page[p].parent # Invalid /\ Latched(page[p].parent)
                \/ page'[p].parent # Invalid /\ Latched(page'[p].parent)]_vars

\* The log repeats what happened: whenever no request is under way, redo of the whole log on
\* top of the file gives the tree in memory, though requests commit in another order than
\* they changed the pages (BplusTreeLogger::commit, __redo).
LogRepeatsTree ==
    Quiet => LET r == Redo(Len(log))
             IN  /\ Root(r.pg) = Root(page)
                 /\ \A p \in Reachable(page) : r.pg[p] = page[p]
                 /\ r.alloc = alloc

\* A scan that no writer overlapped returns all keys of its range and nothing else, in order,
\* across the leaves (BplusTreeScanner::open, next_entry, touch_end).
InRange(k, req) == k[1] >= req.lo /\ (req.hi = 0 \/ k[1] <= req.hi)
ScanExact ==
    \A t \in Threads : th[t].pc = "scanned" /\ th[t].quiet =>
        /\ ToSet(th[t].out) = {k \in contents : InRange(k, th[t].req)}
        /\ \A i \in 2..Len(th[t].out) : KeyLess(th[t].out[i - 1], th[t].out[i])

\* No two threads wait for latches of each other (the comment in next_entry names the order of
\* latches as the reason for try_slatch).
Wants(t) ==
    CASE th[t].pc \in {"create", "find", "probe"} -> {RootLock}
      [] th[t].pc \in {"down", "probing"} -> {th[t].at}
      [] th[t].pc = "hop" -> {page[th[t].at].next}
      [] th[t].pc = "fix" /\ page[th[t].at].parent # Invalid
           /\ Size(page[th[t].at]) < MinSize(page[th[t].at]) -> {Neighbor(page, th[t].at)}
      [] OTHER -> {}
WaitsFor(t, u) == \E p \in Wants(t) : xl[p] = u \/ (~Reads(t) /\ u \in sl[p])
NoLatchCycle   == \A t, u \in Threads : t # u => ~(WaitsFor(t, u) /\ WaitsFor(u, t))

\* A unique index holds at most one RID for each user key (try_insert_entry).
UniqueKeys == Unique => \A k, l \in contents : k[1] = l[1] => k = l
=============================================================================
