------------------------------ MODULE BufferProofs ------------------------------
(***************************************************************************)
(* Proofs about BufferPool, for any files, threads, frames, page numbers   *)
(* and bounds: the pins are exact (PinsAlwaysExact), and no frame is lost, *)
(* so that whoever needs one finds one (FrameAlwaysFound).                 *)
(***************************************************************************)
EXTENDS BufferPool, FiniteSetTheorems, SequenceTheorems, WellFoundedInduction, TLAPS

Pages    == Pools \X (1..MaxPageNum - 1)
FileHdr  == [count : 1..MaxPageNum, bits : SUBSET Nat, lsn : Nat]
Datum    == FileHdr \cup Int
FrameRec == [data : Datum, dirty : BOOLEAN, pin : Nat]
Pcs      == {"idle", "get", "lock", "alloc", "load", "extending", "extend", "hold"}

\* The header page is allocated, and no page behind page_count.
HeaderOK(h) == h \in FileHdr /\ Header \in h.bits /\ h.bits \subseteq 0..(h.count - 1)

Fits(k, d)  == (k[2] # Header => d \in Int) /\ (k[2] = Header => HeaderOK(d))

\* A memory state: frames of open files only, the headers of all of them, and a store of pages.
FramesOK(x, op) ==
    /\ DOMAIN x \subseteq Keys /\ x \in [DOMAIN x -> FrameRec]
    /\ \A k \in DOMAIN x : k[1] \in op /\ (k[2] # Header => x[k].data \in Int)
    /\ \A b \in op : <<b, Header>> \in DOMAIN x /\ HeaderOK(x[<<b, Header>>].data)
StoreOK(s) ==
    /\ s \in [Keys -> Datum]
    /\ \A k \in Keys : k[2] # Header => s[k] \in Int
    /\ \A b \in Pools : HeaderOK(s[<<b, Header>>])
IsMem(f) == f = [frame |-> f.frame, lru |-> f.lru, frees |-> f.frees, store |-> f.store,
                 durable |-> f.durable, lost |-> f.lost]
MemOK(f, op) == FramesOK(f.frame, op) /\ StoreOK(f.store) /\ f.frees \in Seq(BOOLEAN)

CountOf(f, b) == f.frame[<<b, Header>>].data.count

\* The threads at page k, for threads h.
ThreadRec     == [pc : Pcs, key : Keys]
At1(x, k)     == x.key = k /\ x.pc \in {"load", "extend", "hold"}
UsersIn(h, k) == {t \in Threads : At1(h[t], k)}

\* Threads h become g when thread t takes state r.
Becomes(h, g, t, r) == g = [h EXCEPT ![t] = r]

\* The pins of a frame are its users and the pool's own of the header.  Purging a page that cannot be
\* loaded leaves pins behind, so for such a page they are enough only; a page that does not exist
\* yet (page_count) is exact again, since the thread that makes it is the only one to know it.
Own(k)      == IF k[2] = Header THEN 1 ELSE 0
Exact(f, k) == k[2] = Header \/ f.store[k] # Absent \/ k[2] >= CountOf(f, k[1])
PinOK(f, h, k) == /\ f.frame[k].pin >= Cardinality(UsersIn(h, k)) + Own(k)
                  /\ Exact(f, k) => f.frame[k].pin = Cardinality(UsersIn(h, k)) + Own(k)

\* Thread t, in state x, works on a page of an open file that exists or that it is about to make,
\* and holds the lock of the file where get_this_page and allocate_page do.
Working(x) == x.pc \in {"get", "lock", "alloc", "load", "hold"}
Making(x)  == x.pc \in {"extending", "extend"}
Locking(x) == x.pc \in {"alloc", "load", "extending", "extend"}
ThreadOK(x, t, f, op, lk) ==
    x.pc # "idle" =>
        /\ x.key \in Pages /\ x.key[1] \in op
        /\ Working(x) => x.key[2] < CountOf(f, x.key[1])
        /\ Making(x)  => x.key[2] = CountOf(f, x.key[1])
        /\ Locking(x) => lk[x.key[1]] = t
        /\ x.pc \in {"load", "extend", "hold"} => x.key \in DOMAIN f.frame

Entry == [op : {"allocate", "deallocate", "write"}, key : Pages]
TypeInv ==
    /\ lock \in [Pools -> Threads \cup {Free}] /\ open \in SUBSET Pools
    /\ log \in Seq(Entry) /\ redo \in Nat \ {0}
    /\ th \in [Threads -> ThreadRec]
    /\ mode \in {"run", "redo", "failed"}

\* While the log is replayed every file is open and no thread works.
QuietInv == mode # "run" => open = Pools /\ \A t \in Threads : th[t].pc = "idle"

StateOK(f, h, op, lk) ==
    /\ IsMem(f) /\ MemOK(f, op)
    /\ \A t \in Threads : ThreadOK(h[t], t, f, op, lk)
    /\ \A k \in DOMAIN f.frame : PinOK(f, h, k)

IInv == TypeInv /\ QuietInv /\ StateOK(Memory, th, open, lock)

-----------------------------------------------------------------------------
(***************************************************************************)
(* The operations on the memory state, field by field.                     *)
(***************************************************************************)
Put(x, k, q)  == [x EXCEPT ![k] = q]
Add(x, k, q)  == [l \in DOMAIN x \cup {k} |-> IF l = k THEN q ELSE x[l]]
Without(x, S) == [l \in DOMAIN x \ S |-> x[l]]
Dirtied(q, d) == [q EXCEPT !.data = d, !.dirty = TRUE]

LEMMA MemoryIs ==
    /\ IsMem(Memory) /\ Memory.frame = frame /\ Memory.store = store /\ Memory.frees = frees
    /\ Memory.durable = durable /\ Memory.lost = lost /\ Memory.lru = lru
  BY DEF IsMem, Memory

LEMMA PinIs ==
    ASSUME NEW f, NEW k,
           IsMem(f)
    PROVE  /\ IsMem(Pin(f, k)) /\ Pin(f, k).frame = [f.frame EXCEPT ![k].pin = @ + 1]
           /\ Pin(f, k).store = f.store /\ Pin(f, k).frees = f.frees
           /\ Pin(f, k).durable = f.durable /\ Pin(f, k).lost = f.lost
<1>1. PICK l : l = LruTouch(f.lru, k)
  OBVIOUS
<1>2. PICK g : g = [f EXCEPT !.lru = l]
  OBVIOUS
<1>3. IsMem(g) /\ g.frame = f.frame /\ g.store = f.store /\ g.frees = f.frees /\ g.durable = f.durable /\ g.lost = f.lost
  BY <1>2 DEF IsMem
<1>4. Pin(f, k) = [g EXCEPT !.frame[k].pin = @ + 1]
  BY <1>1, <1>2 DEF Pin, Touch
<1>5. PICK x : x = [g.frame EXCEPT ![k].pin = @ + 1]
  OBVIOUS
<1>6. PICK h : h = [g EXCEPT !.frame = x]
  OBVIOUS
<1>7. IsMem(h) /\ h.frame = x /\ h.store = g.store /\ h.frees = g.frees /\ h.durable = g.durable /\ h.lost = g.lost
  BY <1>3, <1>6 DEF IsMem
<1>8. Pin(f, k) = h
  BY <1>4, <1>5, <1>6
<1> QED BY <1>3, <1>5, <1>7, <1>8

LEMMA UnpinIs ==
    ASSUME NEW f, NEW k,
           IsMem(f)
    PROVE  /\ IsMem(Unpin(f, k)) /\ Unpin(f, k).frame = [f.frame EXCEPT ![k].pin = @ - 1]
           /\ Unpin(f, k).store = f.store /\ Unpin(f, k).frees = f.frees
           /\ Unpin(f, k).durable = f.durable /\ Unpin(f, k).lost = f.lost
  BY DEF IsMem, Unpin

LEMMA AllocIs ==
    ASSUME NEW f, NEW k,
           IsMem(f)
    PROVE  /\ IsMem(Alloc(f, k))
           /\ Alloc(f, k).frame = Add(f.frame, k, [data |-> 0, dirty |-> Head(f.frees), pin |-> 1])
           /\ Alloc(f, k).store = f.store /\ Alloc(f, k).frees = Tail(f.frees)
           /\ Alloc(f, k).durable = f.durable /\ Alloc(f, k).lost = f.lost
<1>1. PICK x, u, s : /\ u = LruPush(f.lru, k) /\ s = Tail(f.frees)
                     /\ x = Add(f.frame, k, [data |-> 0, dirty |-> Head(f.frees), pin |-> 1])
  OBVIOUS
<1>2. PICK g : g = [f EXCEPT !.frame = x, !.lru = u, !.frees = s]
  OBVIOUS
<1>3. IsMem(g) /\ g.frame = x /\ g.store = f.store /\ g.frees = s /\ g.durable = f.durable /\ g.lost = f.lost
  BY <1>2 DEF IsMem
<1>4. Alloc(f, k) = g
  BY <1>1, <1>2 DEF Alloc, PoolAlloc, Add
<1> QED BY <1>1, <1>3, <1>4

LEMMA FreeIs ==
    ASSUME NEW f, NEW k,
           IsMem(f)
    PROVE  /\ IsMem(FreeFrame(f, k))
           /\ FreeFrame(f, k).frame = Without(f.frame, {k})
           /\ FreeFrame(f, k).store = f.store /\ FreeFrame(f, k).frees = Append(f.frees, f.frame[k].dirty)
           /\ FreeFrame(f, k).durable = f.durable /\ FreeFrame(f, k).lost = f.lost
<1>1. PICK x, u, s : /\ u = LruRemove(f.lru, k) /\ s = Append(f.frees, f.frame[k].dirty)
                     /\ x = Without(f.frame, {k})
  OBVIOUS
<1>2. PICK g : g = [f EXCEPT !.frame = x, !.lru = u, !.frees = s]
  OBVIOUS
<1>3. IsMem(g) /\ g.frame = x /\ g.store = f.store /\ g.frees = s /\ g.durable = f.durable /\ g.lost = f.lost
  BY <1>2 DEF IsMem
<1>4. FreeFrame(f, k) = g
  BY <1>1, <1>2 DEF FreeFrame, PoolFree, Without
<1> QED BY <1>1, <1>3, <1>4

LEMMA FlushIs ==
    ASSUME NEW f, NEW k,
           IsMem(f)
    PROVE  /\ IsMem(FlushInternal(f, k))
           /\ FlushInternal(f, k).frame = [f.frame EXCEPT ![k].dirty = FALSE]
           /\ FlushInternal(f, k).store = [f.store EXCEPT ![k] = f.frame[k].data]
           /\ FlushInternal(f, k).frees = f.frees /\ FlushInternal(f, k).lost = f.lost
           /\ FlushInternal(f, k).durable = IF PageLsn(f, k) > f.durable THEN PageLsn(f, k) ELSE f.durable
<1>1. PICK x, s, n : /\ n = IF PageLsn(f, k) > f.durable THEN PageLsn(f, k) ELSE f.durable
                     /\ s = [f.store EXCEPT ![k] = f.frame[k].data]
                     /\ x = [f.frame EXCEPT ![k].dirty = FALSE]
  OBVIOUS
<1>2. PICK g : g = [f EXCEPT !.durable = n, !.store = s, !.frame = x]
  OBVIOUS
<1>3. IsMem(g) /\ g.frame = x /\ g.store = s /\ g.frees = f.frees /\ g.durable = n /\ g.lost = f.lost
  BY <1>2 DEF IsMem
<1>4. FlushInternal(f, k) = g
  <2>1. PICK y : y = [f EXCEPT !.durable = n]
    OBVIOUS
  <2>2. IsMem(y) /\ y.frame = f.frame /\ y.store = f.store
    BY <2>1 DEF IsMem
  <2>3. PICK z : z = [y EXCEPT !.store = s]
    OBVIOUS
  <2>4. IsMem(z) /\ z.frame = f.frame
    BY <2>2, <2>3 DEF IsMem
  <2>5. z = [y EXCEPT !.store[k] = f.frame[k].data]
    BY <1>1, <2>2, <2>3
  <2>6. [z EXCEPT !.frame[k].dirty = FALSE] = [z EXCEPT !.frame = x]
    BY <1>1, <2>4
  <2>7. g = [z EXCEPT !.frame = x]
    BY <1>2, <2>1, <2>3
  <2>8. FlushInternal(f, k) = [z EXCEPT !.frame[k].dirty = FALSE]
    BY <1>1, <2>1, <2>5 DEF FlushInternal
  <2> QED BY <2>6, <2>7, <2>8
<1> QED BY <1>1, <1>3, <1>4

LEMMA LoadIs ==
    ASSUME NEW f, NEW k,
           IsMem(f)
    PROVE  /\ IsMem(LoadPage(f, k)) /\ LoadPage(f, k).frame = [f.frame EXCEPT ![k].data = f.store[k]]
           /\ LoadPage(f, k).store = f.store /\ LoadPage(f, k).frees = f.frees
           /\ LoadPage(f, k).durable = f.durable /\ LoadPage(f, k).lost = f.lost \cup MarkLost(f, k)
<1>1. PICK x, s : s = f.lost \cup MarkLost(f, k) /\ x = [f.frame EXCEPT ![k].data = f.store[k]]
  OBVIOUS
<1>2. PICK g : g = [f EXCEPT !.frame = x, !.lost = s]
  OBVIOUS
<1>3. IsMem(g) /\ g.frame = x /\ g.store = f.store /\ g.frees = f.frees /\ g.durable = f.durable /\ g.lost = s
  BY <1>2 DEF IsMem
<1>4. LoadPage(f, k) = g
  BY <1>1, <1>2 DEF LoadPage
<1> QED BY <1>1, <1>3, <1>4

LEMMA DropIs ==
    ASSUME NEW f, NEW k,
           IsMem(f)
    PROVE  /\ IsMem(Drop(f, k)) /\ Drop(f, k).frame = f.frame
           /\ Drop(f, k).store = f.store /\ Drop(f, k).frees = f.frees /\ Drop(f, k).durable = f.durable
           /\ Drop(f, k).lost = IF f.store[k] # f.frame[k].data THEN f.lost \cup {k} ELSE f.lost
  BY DEF IsMem, Drop

LEMMA SetHeaderIs ==
    ASSUME NEW f, NEW b, NEW h,
           IsMem(f)
    PROVE  /\ IsMem(SetHeader(f, b, h))
           /\ SetHeader(f, b, h).frame = Put(f.frame, <<b, Header>>, Dirtied(f.frame[<<b, Header>>], h))
           /\ SetHeader(f, b, h).store = f.store /\ SetHeader(f, b, h).frees = f.frees
           /\ SetHeader(f, b, h).durable = f.durable /\ SetHeader(f, b, h).lost = f.lost
  BY DEF IsMem, SetHeader, Put, Dirtied

-----------------------------------------------------------------------------
(***************************************************************************)
(* They keep the memory state well formed.                                 *)
(***************************************************************************)


\* Frame k of x is replaced.
LEMMA PutFrame ==
    ASSUME NEW op \in SUBSET Pools, NEW x, NEW y, NEW k \in DOMAIN x, NEW q \in FrameRec,
           FramesOK(x, op), Fits(k, q.data), y = Put(x, k, q)
    PROVE  FramesOK(y, op) /\ DOMAIN y = DOMAIN x /\ y[k] = q /\ \A j \in DOMAIN x : j # k => y[j] = x[j]
<1>1. DOMAIN y = DOMAIN x /\ y \in [DOMAIN x -> FrameRec] /\ y[k] = q /\ \A j \in DOMAIN x : j # k => y[j] = x[j]
  BY DEF FramesOK, Put
<1>2. \A b \in op : <<b, Header>> \in DOMAIN y /\ HeaderOK(y[<<b, Header>>].data)
  <2> SUFFICES ASSUME NEW b \in op PROVE <<b, Header>> \in DOMAIN y /\ HeaderOK(y[<<b, Header>>].data)
    OBVIOUS
  <2>1. CASE k = <<b, Header>>
    BY <1>1, <2>1 DEF FramesOK, Fits
  <2>2. CASE k # <<b, Header>>
    BY <1>1, <2>2 DEF FramesOK
  <2> QED BY <2>1, <2>2
<1> QED BY <1>1, <1>2 DEF FramesOK, Fits

\* Frame k is new, of an open file or the header of one that is opened.
Opens(op, op2, k) == op2 = op \cup {k[1]} /\ (k[1] \in op \/ k[2] = Header)
Added(x, y, k, q) == DOMAIN y = DOMAIN x \cup {k} /\ y[k] = q /\ \A j \in DOMAIN x : y[j] = x[j]
LEMMA AddFrame ==
    ASSUME NEW op \in SUBSET Pools, NEW op2 \in SUBSET Pools, NEW x, NEW y, NEW k \in Keys, NEW q \in FrameRec,
           FramesOK(x, op), k \notin DOMAIN x, Opens(op, op2, k), Fits(k, q.data), y = Add(x, k, q)
    PROVE  FramesOK(y, op2) /\ Added(x, y, k, q)
<1>1. DOMAIN y = DOMAIN x \cup {k} /\ y \in [DOMAIN y -> FrameRec] /\ y[k] = q /\ \A j \in DOMAIN x : y[j] = x[j]
  BY DEF FramesOK, Add
<1>2. \A b \in op2 : <<b, Header>> \in DOMAIN y /\ HeaderOK(y[<<b, Header>>].data)
  <2>1. ASSUME NEW b \in op PROVE <<b, Header>> \in DOMAIN y /\ HeaderOK(y[<<b, Header>>].data)
    BY <1>1 DEF FramesOK
  <2>2. CASE k[2] = Header
    <3>1. k = <<k[1], Header>>
      BY <2>2 DEF Keys
    <3> QED BY <1>1, <2>1, <2>2, <3>1 DEF Fits, Opens
  <2>3. CASE k[1] \in op
    BY <2>1, <2>3 DEF Opens
  <2> QED BY <2>2, <2>3 DEF Opens
<1>3. \A j \in DOMAIN y : j \in Keys /\ j[1] \in op2 /\ (j[2] # Header => y[j].data \in Int)
  BY <1>1 DEF FramesOK, Fits, Opens
<1> QED BY <1>1, <1>2, <1>3 DEF FramesOK, Added

\* The frames of S are freed: all of a file that is closed, or no header.
Droppable(x, S, op) == (\A k \in DOMAIN x \ S : k[1] \in op) /\ (\A b \in op : <<b, Header>> \notin S)
Dropped(x, y, S) == DOMAIN y = DOMAIN x \ S /\ \A j \in DOMAIN y : y[j] = x[j]
LEMMA DropFrames ==
    ASSUME NEW op \in SUBSET Pools, NEW op2 \in SUBSET op, NEW x, NEW S, NEW y,
           FramesOK(x, op), Droppable(x, S, op2), y = Without(x, S)
    PROVE  FramesOK(y, op2) /\ Dropped(x, y, S)
<1>1. DOMAIN y = DOMAIN x \ S /\ y \in [DOMAIN y -> FrameRec] /\ \A j \in DOMAIN y : y[j] = x[j]
  BY DEF FramesOK, Without
<1>2. \A b \in op2 : <<b, Header>> \in DOMAIN y /\ HeaderOK(y[<<b, Header>>].data)
  BY <1>1 DEF FramesOK, Droppable
<1> QED BY <1>1, <1>2 DEF FramesOK, Droppable, Dropped

\* Page k is written.
LEMMA PutPage ==
    ASSUME NEW s, NEW k \in Keys, NEW d \in Datum,
           StoreOK(s), Fits(k, d)
    PROVE  StoreOK(Put(s, k, d)) /\ Put(s, k, d)[k] = d /\ \A j \in Keys : j # k => Put(s, k, d)[j] = s[j]
<1>1. PICK y : y = Put(s, k, d)
  OBVIOUS
<1>2. y \in [Keys -> Datum] /\ y[k] = d /\ \A j \in Keys : j # k => y[j] = s[j]
  BY <1>1 DEF StoreOK, Put
<1>3. ASSUME NEW b \in Pools PROVE HeaderOK(y[<<b, Header>>])
  <2>1. <<b, Header>> \in Keys
    BY BufferPoolAssumption DEF Keys, Header
  <2> QED BY <1>2, <2>1 DEF StoreOK, Fits
<1>4. \A j \in Keys : j[2] # Header => y[j] \in Int
  BY <1>2 DEF StoreOK, Fits
<1> QED BY <1>1, <1>2, <1>3, <1>4 DEF StoreOK

\* The threads at a page, when one thread takes another state.
LEMMA UsersChange ==
    ASSUME NEW h \in [Threads -> ThreadRec], NEW t \in Threads, NEW r \in ThreadRec, NEW k, NEW g,
           Becomes(h, g, t, r)
    PROVE  /\ Cardinality(UsersIn(h, k)) \in Nat /\ Cardinality(UsersIn(g, k)) \in Nat
           /\ (At1(h[t], k) <=> At1(r, k)) => Cardinality(UsersIn(g, k)) = Cardinality(UsersIn(h, k))
           /\ ~At1(h[t], k) /\ At1(r, k) => Cardinality(UsersIn(g, k)) = Cardinality(UsersIn(h, k)) + 1
           /\ At1(h[t], k) /\ ~At1(r, k) => Cardinality(UsersIn(g, k)) = Cardinality(UsersIn(h, k)) - 1
           /\ At1(h[t], k) => Cardinality(UsersIn(h, k)) > 0
<1>1. g[t] = r /\ \A u \in Threads : u # t => g[u] = h[u]
  BY DEF Becomes
<1>2. PICK G, H : G = UsersIn(g, k) /\ H = UsersIn(h, k)
  OBVIOUS
<1>3. IsFiniteSet(G) /\ IsFiniteSet(H)
  BY <1>2, BufferPoolAssumption, FS_Subset DEF UsersIn
<1>4. Cardinality(G) \in Nat /\ Cardinality(H) \in Nat
  BY <1>3, FS_CardinalityType
<1>5. ASSUME At1(h[t], k) <=> At1(r, k) PROVE G = H
  BY <1>1, <1>2, <1>5 DEF UsersIn
<1>6. ASSUME ~At1(h[t], k), At1(r, k) PROVE Cardinality(G) = Cardinality(H) + 1
  <2>1. G = H \cup {t} /\ t \notin H
    BY <1>1, <1>2, <1>6 DEF UsersIn
  <2> QED BY <1>3, <2>1, FS_AddElement
<1>7. ASSUME At1(h[t], k), ~At1(r, k) PROVE Cardinality(G) = Cardinality(H) - 1
  <2>1. G = H \ {t} /\ t \in H
    BY <1>1, <1>2, <1>7 DEF UsersIn
  <2> QED BY <1>3, <2>1, FS_RemoveElement
<1>8. ASSUME At1(h[t], k) PROVE Cardinality(H) > 0
  <2>1. t \in H
    BY <1>2, <1>8 DEF UsersIn
  <2>2. Cardinality(H) # 0
    BY <1>3, <2>1, FS_EmptySet
  <2> QED BY <1>4, <2>2
<1> QED BY <1>2, <1>4, <1>5, <1>6, <1>7, <1>8

-----------------------------------------------------------------------------
(***************************************************************************)
(* A step of thread t that takes memory f to g and t to state r.           *)
(***************************************************************************)
\* Pages and headers.
LEMMA KeyIs ==
    ASSUME NEW k \in Keys
    PROVE  /\ k = <<k[1], k[2]>> /\ k[1] \in Pools /\ k[2] \in 0..(MaxPageNum - 1) /\ k[2] \in Nat
           /\ <<k[1], Header>> \in Keys /\ (k[2] = Header <=> k = <<k[1], Header>>) /\ (k \in Pages <=> k[2] # Header)
  BY BufferPoolAssumption DEF Keys, Pages, Header

LEMMA CountIs ==
    ASSUME NEW op \in SUBSET Pools, NEW f, NEW b \in op,
           MemOK(f, op)
    PROVE  /\ CountOf(f, b) \in 1..MaxPageNum /\ CountOf(f, b) \in Nat /\ <<b, Header>> \in DOMAIN f.frame
           /\ <<b, Header>> \in Keys /\ HeaderOK(f.frame[<<b, Header>>].data)
<1>1. <<b, Header>> \in DOMAIN f.frame /\ <<b, Header>> \in Keys /\ HeaderOK(f.frame[<<b, Header>>].data)
  BY DEF MemOK, FramesOK
<1>2. f.frame[<<b, Header>>].data \in FileHdr
  BY <1>1 DEF HeaderOK
<1>3. CountOf(f, b) \in 1..MaxPageNum
  BY <1>2 DEF CountOf, FileHdr
<1> QED BY <1>1, <1>3, BufferPoolAssumption

LocksKept(lk, lk2, t) == \A u \in Threads \ {t} : \A b \in Pools : lk[b] = u => lk2[b] = u
CountsKept(f, g, h, t) ==
    \A u \in Threads \ {t} : h[u].pc # "idle" =>
        /\ CountOf(g, h[u].key[1]) >= CountOf(f, h[u].key[1])
        /\ Making(h[u]) => CountOf(g, h[u].key[1]) = CountOf(f, h[u].key[1])
UsersKept(f, g, h, t) == \A u \in Threads \ {t} : \A k \in DOMAIN f.frame : At1(h[u], k) => k \in DOMAIN g.frame
PinsOK(f, h) == \A k \in DOMAIN f.frame : PinOK(f, h, k)

LEMMA StateStep ==
    ASSUME NEW op \in SUBSET Pools, NEW h \in [Threads -> ThreadRec], NEW t \in Threads, NEW r \in ThreadRec,
           NEW h2, NEW f, NEW g, NEW lk, NEW lk2,
           Becomes(h, h2, t, r), StateOK(f, h, op, lk), IsMem(g), MemOK(g, op), ThreadOK(r, t, g, op, lk2),
           LocksKept(lk, lk2, t), CountsKept(f, g, h, t), UsersKept(f, g, h, t), PinsOK(g, h2)
    PROVE  StateOK(g, h2, op, lk2)
<1>1. ASSUME NEW u \in Threads \ {t} PROVE ThreadOK(h[u], u, g, op, lk2)
  <2> SUFFICES ASSUME h[u].pc # "idle" PROVE ThreadOK(h[u], u, g, op, lk2)
    BY DEF ThreadOK
  <2>1. ThreadOK(h[u], u, f, op, lk)
    BY DEF StateOK
  <2>2. h[u].key \in Pages /\ h[u].key[1] \in op /\ h[u].key[1] \in Pools /\ h[u].key[2] \in Int
    BY <2>1 DEF ThreadOK, Pages
  <2>3. CountOf(f, h[u].key[1]) \in Int /\ CountOf(g, h[u].key[1]) \in Int
    <3>1. PICK b \in op : b = h[u].key[1]
      BY <2>2
    <3>2. CountOf(f, b) \in Nat /\ CountOf(g, b) \in Nat
      BY CountIs DEF StateOK
    <3> QED BY <3>1, <3>2
  <2>4. Locking(h[u]) => lk2[h[u].key[1]] = u
    BY <2>1, <2>2 DEF ThreadOK, LocksKept
  <2>5. h[u].pc \in {"load", "extend", "hold"} => h[u].key \in DOMAIN g.frame
    BY <2>1 DEF ThreadOK, At1, UsersKept
  <2>6. Working(h[u]) => h[u].key[2] < CountOf(g, h[u].key[1])
    BY <2>1, <2>2, <2>3 DEF ThreadOK, CountsKept
  <2>7. Making(h[u]) => h[u].key[2] = CountOf(g, h[u].key[1])
    BY <2>1 DEF ThreadOK, CountsKept
  <2> QED BY <2>2, <2>4, <2>5, <2>6, <2>7 DEF ThreadOK
<1>2. \A u \in Threads : ThreadOK(h2[u], u, g, op, lk2)
  BY <1>1 DEF Becomes
<1> QED BY <1>2 DEF StateOK, PinsOK

\* A frame whose pins and users stay.
LEMMA PinKept ==
    ASSUME NEW h \in [Threads -> ThreadRec], NEW t \in Threads, NEW r \in ThreadRec, NEW h2, NEW f, NEW g,
           NEW k \in DOMAIN f.frame,
           Becomes(h, h2, t, r), PinOK(f, h, k), g.frame[k].pin = f.frame[k].pin, Exact(g, k) => Exact(f, k),
           At1(h[t], k) <=> At1(r, k)
    PROVE  PinOK(g, h2, k)
<1>1. Cardinality(UsersIn(h2, k)) = Cardinality(UsersIn(h, k))
  BY UsersChange
<1> QED BY <1>1 DEF PinOK

LEMMA FrameIs ==
    ASSUME NEW op \in SUBSET Pools, NEW f, NEW k \in DOMAIN f.frame,
           MemOK(f, op)
    PROVE  /\ k \in Keys /\ k[1] \in op /\ f.frame[k] \in FrameRec /\ f.frame[k].pin \in Nat
           /\ f.frame[k].data \in Datum /\ f.frame[k].dirty \in BOOLEAN
           /\ Fits(k, f.frame[k].data)
<1>1. k \in Keys /\ k[1] \in op /\ f.frame[k] \in FrameRec /\ (k[2] # Header => f.frame[k].data \in Int)
  BY DEF MemOK, FramesOK
<1>2. k[2] = Header => k = <<k[1], Header>>
  BY <1>1, KeyIs
<1>3. k[2] = Header => HeaderOK(f.frame[k].data)
  BY <1>1, <1>2 DEF MemOK, FramesOK
<1>4. f.frame[k].pin \in Nat /\ f.frame[k].data \in Datum /\ f.frame[k].dirty \in BOOLEAN
  BY <1>1 DEF FrameRec
<1> QED BY <1>1, <1>3, <1>4 DEF Fits

-----------------------------------------------------------------------------
(***************************************************************************)
(* What each operation does to frames and pins.                            *)
(***************************************************************************)

CountsSame(f, g, op) == \A b \in op : CountOf(g, b) = CountOf(f, b)
ExactSame(f, g, D)   == \A j \in D : Exact(g, j) => Exact(f, j)

\* g has the frames of f, and at k at most another pin or flag.
SameBut(f, g, k) ==
    /\ IsMem(g) /\ DOMAIN g.frame = DOMAIN f.frame /\ g.store = f.store
    /\ \A j \in DOMAIN f.frame : /\ g.frame[j].data = f.frame[j].data
                                 /\ j # k => g.frame[j] = f.frame[j]

LEMMA SameCounts ==
    ASSUME NEW op \in SUBSET Pools, NEW f, NEW g, NEW k,
           MemOK(f, op), SameBut(f, g, k)
    PROVE  CountsSame(f, g, op) /\ ExactSame(f, g, DOMAIN f.frame)
<1>1. ASSUME NEW b \in op PROVE CountOf(g, b) = CountOf(f, b)
  BY CountIs DEF SameBut, CountOf
<1>2. ASSUME NEW j \in DOMAIN f.frame PROVE Exact(g, j) <=> Exact(f, j)
  <2>1. j[1] \in op /\ j \in Keys
    BY FrameIs
  <2> QED BY <1>1, <2>1 DEF Exact, SameBut
<1> QED BY <1>1, <1>2 DEF CountsSame, ExactSame

Pinned(f, g, k)   == g.frame[k].pin = f.frame[k].pin + 1
Unpinned(f, g, k) == g.frame[k].pin = f.frame[k].pin - 1

LEMMA PinFrame ==
    ASSUME NEW op \in SUBSET Pools, NEW f, NEW k \in DOMAIN f.frame, NEW g,
           IsMem(f), MemOK(f, op), g = Pin(f, k)
    PROVE  MemOK(g, op) /\ SameBut(f, g, k) /\ Pinned(f, g, k)
<1>1. IsMem(g) /\ g.frame = [f.frame EXCEPT ![k].pin = @ + 1] /\ g.store = f.store /\ g.frees = f.frees
  BY PinIs
<1>2. PICK r \in FrameRec, n \in Nat : r = f.frame[k] /\ n = f.frame[k].pin + 1
  <2>1. f.frame[k] \in FrameRec /\ f.frame[k].pin \in Nat
    BY FrameIs
  <2> QED BY <2>1
<1>3. PICK q : q = [r EXCEPT !.pin = n]
  OBVIOUS
<1>4. q \in FrameRec /\ q.data = r.data /\ q.pin = n
  BY <1>3 DEF FrameRec
<1>5. g.frame = Put(f.frame, k, q)
  BY <1>1, <1>2, <1>3 DEF Put
<1>6. Fits(k, q.data)
  BY <1>2, <1>4, FrameIs
<1>7. /\ FramesOK(g.frame, op) /\ DOMAIN g.frame = DOMAIN f.frame /\ g.frame[k] = q
      /\ \A j \in DOMAIN f.frame : j # k => g.frame[j] = f.frame[j]
  <2>1. FramesOK(f.frame, op)
    BY DEF MemOK
  <2> QED BY <1>4, <1>5, <1>6, <2>1, PutFrame
<1> QED BY <1>1, <1>2, <1>4, <1>7 DEF MemOK, SameBut, Pinned

LEMMA UnpinFrame ==
    ASSUME NEW op \in SUBSET Pools, NEW f, NEW k \in DOMAIN f.frame, NEW g,
           IsMem(f), MemOK(f, op), f.frame[k].pin > 0, g = Unpin(f, k)
    PROVE  MemOK(g, op) /\ SameBut(f, g, k) /\ Unpinned(f, g, k)
<1>1. IsMem(g) /\ g.frame = [f.frame EXCEPT ![k].pin = @ - 1] /\ g.store = f.store /\ g.frees = f.frees
  BY UnpinIs
<1>2. PICK r \in FrameRec, n \in Nat : r = f.frame[k] /\ n = f.frame[k].pin - 1
  <2>1. f.frame[k] \in FrameRec /\ f.frame[k].pin \in Nat
    BY FrameIs
  <2> QED BY <2>1
<1>3. PICK q : q = [r EXCEPT !.pin = n]
  OBVIOUS
<1>4. q \in FrameRec /\ q.data = r.data /\ q.pin = n
  BY <1>3 DEF FrameRec
<1>5. g.frame = Put(f.frame, k, q)
  BY <1>1, <1>2, <1>3 DEF Put
<1>6. Fits(k, q.data)
  BY <1>2, <1>4, FrameIs
<1>7. /\ FramesOK(g.frame, op) /\ DOMAIN g.frame = DOMAIN f.frame /\ g.frame[k] = q
      /\ \A j \in DOMAIN f.frame : j # k => g.frame[j] = f.frame[j]
  <2>1. FramesOK(f.frame, op)
    BY DEF MemOK
  <2> QED BY <1>4, <1>5, <1>6, <2>1, PutFrame
<1> QED BY <1>1, <1>2, <1>4, <1>7 DEF MemOK, SameBut, Unpinned

\* Content d in the frame of page k.
PutData(f, g, k, d) ==
    /\ IsMem(g) /\ DOMAIN g.frame = DOMAIN f.frame /\ g.store = f.store
    /\ g.frame[k].data = d /\ g.frame[k].pin = f.frame[k].pin
    /\ \A j \in DOMAIN f.frame : j # k => g.frame[j] = f.frame[j]

LEMMA LoadFrame ==
    ASSUME NEW op \in SUBSET Pools, NEW f, NEW k \in DOMAIN f.frame, NEW g,
           IsMem(f), MemOK(f, op), g = LoadPage(f, k)
    PROVE  MemOK(g, op) /\ PutData(f, g, k, f.store[k])
<1>1. IsMem(g) /\ g.frame = [f.frame EXCEPT ![k].data = f.store[k]] /\ g.store = f.store /\ g.frees = f.frees
  BY LoadIs
<1>0. k \in Keys /\ <<k[1], Header>> \in Keys /\ k[1] \in Pools /\ (k[2] = Header => k = <<k[1], Header>>)
  BY FrameIs, KeyIs
<1>2. PICK r \in FrameRec, d \in Datum : r = f.frame[k] /\ d = f.store[k]
  BY <1>0, FrameIs DEF MemOK, StoreOK
<1>3. PICK q : q = [r EXCEPT !.data = d]
  OBVIOUS
<1>4. q \in FrameRec /\ q.data = d /\ q.pin = r.pin
  BY <1>3 DEF FrameRec
<1>5. g.frame = Put(f.frame, k, q)
  BY <1>1, <1>2, <1>3 DEF Put
<1>6. Fits(k, q.data)
  BY <1>0, <1>2, <1>4 DEF MemOK, StoreOK, Fits
<1>7. /\ FramesOK(g.frame, op) /\ DOMAIN g.frame = DOMAIN f.frame /\ g.frame[k] = q
      /\ \A j \in DOMAIN f.frame : j # k => g.frame[j] = f.frame[j]
  <2>1. FramesOK(f.frame, op)
    BY DEF MemOK
  <2> QED BY <1>4, <1>5, <1>6, <2>1, PutFrame
<1> QED BY <1>1, <1>2, <1>4, <1>7 DEF MemOK, PutData

LEMMA SetHeaderFrame ==
    ASSUME NEW op \in SUBSET Pools, NEW f, NEW b \in op, NEW d, NEW g,
           IsMem(f), MemOK(f, op), HeaderOK(d), g = SetHeader(f, b, d)
    PROVE  MemOK(g, op) /\ PutData(f, g, <<b, Header>>, d)
<1>1. /\ IsMem(g) /\ g.frame = Put(f.frame, <<b, Header>>, Dirtied(f.frame[<<b, Header>>], d))
      /\ g.store = f.store /\ g.frees = f.frees
  BY SetHeaderIs
<1>2. PICK k \in DOMAIN f.frame : k = <<b, Header>> /\ k[2] = Header
  <2>1. <<b, Header>> \in DOMAIN f.frame
    BY CountIs
  <2> QED BY <2>1
<1>3. PICK r \in FrameRec : r = f.frame[k]
  BY FrameIs
<1>4. PICK q : q = Dirtied(r, d)
  OBVIOUS
<1>5. q \in FrameRec /\ q.data = d /\ q.pin = r.pin
  BY <1>4 DEF FrameRec, HeaderOK, Datum, Dirtied
<1>6. g.frame = Put(f.frame, k, q)
  BY <1>1, <1>2, <1>3, <1>4
<1>7. /\ FramesOK(g.frame, op) /\ DOMAIN g.frame = DOMAIN f.frame /\ g.frame[k] = q
      /\ \A j \in DOMAIN f.frame : j # k => g.frame[j] = f.frame[j]
  <2>1. FramesOK(f.frame, op)
    BY DEF MemOK
  <2>2. Fits(k, q.data)
    BY <1>2, <1>5 DEF Fits
  <2> QED BY <1>5, <1>6, <2>1, <2>2, PutFrame
<1> QED BY <1>1, <1>2, <1>3, <1>5, <1>7 DEF MemOK, PutData

\* Frame k is given back; its page may have been written.
Freed(f, g, k) ==
    /\ IsMem(g) /\ DOMAIN g.frame = DOMAIN f.frame \ {k}
    /\ \A j \in DOMAIN g.frame : g.frame[j] = f.frame[j]
    /\ \A j \in Keys : j # k => g.store[j] = f.store[j]

LEMMA FreedCounts ==
    ASSUME NEW op \in SUBSET Pools, NEW f, NEW g, NEW k \in Keys,
           MemOK(f, op), Freed(f, g, k), k[2] # Header
    PROVE  CountsSame(f, g, op) /\ ExactSame(f, g, DOMAIN g.frame)
<1>1. ASSUME NEW b \in op PROVE CountOf(g, b) = CountOf(f, b)
  <2>1. <<b, Header>> \in DOMAIN f.frame /\ <<b, Header>> # k
    BY CountIs
  <2> QED BY <2>1 DEF Freed, CountOf
<1>2. ASSUME NEW j \in DOMAIN g.frame PROVE Exact(g, j) <=> Exact(f, j)
  <2>0. j \in DOMAIN f.frame /\ j # k
    BY DEF Freed
  <2>1. j[1] \in op /\ j \in Keys
    BY <2>0, FrameIs
  <2>2. g.store[j] = f.store[j] /\ CountOf(g, j[1]) = CountOf(f, j[1])
    BY <1>1, <2>0, <2>1 DEF Freed
  <2> QED BY <2>2 DEF Exact
<1> QED BY <1>1, <1>2 DEF CountsSame, ExactSame

LEMMA FreeFrameOK ==
    ASSUME NEW op \in SUBSET Pools, NEW f, NEW g, NEW k \in DOMAIN f.frame,
           IsMem(f), MemOK(f, op), k[2] # Header, g = FreeFrame(f, k)
    PROVE  MemOK(g, op) /\ Freed(f, g, k) /\ g.store = f.store
<1>0. PICK S : S = {k}
  OBVIOUS
<1>1. /\ IsMem(g) /\ g.frame = Without(f.frame, S) /\ g.store = f.store
      /\ g.frees = Append(f.frees, f.frame[k].dirty)
  BY <1>0, FreeIs
<1>2. FramesOK(f.frame, op) /\ f.frame[k].dirty \in BOOLEAN /\ f.frees \in Seq(BOOLEAN) /\ StoreOK(f.store)
  BY FrameIs DEF MemOK
<1>3. Droppable(f.frame, S, op)
  BY <1>0, <1>2 DEF Droppable, FramesOK
<1>4. FramesOK(g.frame, op) /\ DOMAIN g.frame = DOMAIN f.frame \ S /\ \A j \in DOMAIN g.frame : g.frame[j] = f.frame[j]
  <2>1. PICK p \in SUBSET op : p = op
    OBVIOUS
  <2>2. PICK x, y : x = f.frame /\ y = g.frame
    OBVIOUS
  <2>3. FramesOK(x, op) /\ Droppable(x, S, p) /\ y = Without(x, S)
    BY <1>1, <1>2, <1>3, <2>1, <2>2
  <2>4. FramesOK(y, p) /\ Dropped(x, y, S)
    BY <2>3, DropFrames
  <2> QED BY <2>1, <2>2, <2>4 DEF Dropped
<1>5. g.frees \in Seq(BOOLEAN)
  BY <1>1, <1>2
<1> QED BY <1>0, <1>1, <1>2, <1>4, <1>5 DEF MemOK, Freed

\* Page k is written.
Flushed(f, g, k) ==
    /\ IsMem(g) /\ DOMAIN g.frame = DOMAIN f.frame
    /\ \A j \in DOMAIN f.frame : /\ g.frame[j].data = f.frame[j].data /\ g.frame[j].pin = f.frame[j].pin
                                 /\ j # k => g.frame[j] = f.frame[j]
    /\ g.store[k] = f.frame[k].data /\ \A j \in Keys : j # k => g.store[j] = f.store[j]

LEMMA FlushOK ==
    ASSUME NEW op \in SUBSET Pools, NEW f, NEW g, NEW k \in DOMAIN f.frame,
           IsMem(f), MemOK(f, op), g = FlushInternal(f, k)
    PROVE  MemOK(g, op) /\ Flushed(f, g, k)
<1>1. /\ IsMem(g) /\ g.frame = [f.frame EXCEPT ![k].dirty = FALSE]
      /\ g.store = Put(f.store, k, f.frame[k].data) /\ g.frees = f.frees
  BY FlushIs DEF Put
<1>2. PICK r \in FrameRec : r = f.frame[k]
  <2>1. f.frame[k] \in FrameRec
    BY FrameIs
  <2> QED BY <2>1
<1>3. PICK q : q = [r EXCEPT !.dirty = FALSE]
  OBVIOUS
<1>4. q \in FrameRec /\ q.data = r.data /\ q.pin = r.pin
  BY <1>3 DEF FrameRec
<1>5. g.frame = Put(f.frame, k, q)
  BY <1>1, <1>2, <1>3 DEF Put
<1>6. k \in Keys /\ f.frame[k].data \in Datum /\ Fits(k, f.frame[k].data)
  BY FrameIs
<1>7. Fits(k, q.data) /\ FramesOK(f.frame, op) /\ StoreOK(f.store) /\ f.frees \in Seq(BOOLEAN)
  BY <1>2, <1>4, <1>6 DEF MemOK
<1>8. /\ FramesOK(g.frame, op) /\ DOMAIN g.frame = DOMAIN f.frame /\ g.frame[k] = q
      /\ \A j \in DOMAIN f.frame : j # k => g.frame[j] = f.frame[j]
  BY <1>4, <1>5, <1>7, PutFrame
<1>9. StoreOK(g.store) /\ g.store[k] = f.frame[k].data /\ \A j \in Keys : j # k => g.store[j] = f.store[j]
  BY <1>1, <1>6, <1>7, PutPage
<1>10. MemOK(g, op)
  BY <1>1, <1>7, <1>8, <1>9 DEF MemOK
<1> QED BY <1>1, <1>2, <1>4, <1>8, <1>9, <1>10 DEF Flushed

LEMMA FlushFreeOK ==
    ASSUME NEW op \in SUBSET Pools, NEW f, NEW g, NEW k \in DOMAIN f.frame,
           IsMem(f), MemOK(f, op), k[2] # Header, g = FreeFrame(FlushInternal(f, k), k)
    PROVE  MemOK(g, op) /\ Freed(f, g, k)
<1>1. PICK e : e = FlushInternal(f, k)
  OBVIOUS
<1>2. MemOK(e, op) /\ Flushed(f, e, k)
  BY <1>1, FlushOK
<1>3. IsMem(e) /\ k \in DOMAIN e.frame
  BY <1>2 DEF Flushed
<1>4. MemOK(g, op) /\ Freed(e, g, k)
  BY <1>1, <1>2, <1>3, FreeFrameOK
<1> QED BY <1>2, <1>4 DEF Freed, Flushed

LEMMA PurgeOK ==
    ASSUME NEW op \in SUBSET Pools, NEW f, NEW g, NEW k \in DOMAIN f.frame, NEW b,
           IsMem(f), MemOK(f, op), k[2] # Header, g = Purge(f, b, k)
    PROVE  MemOK(g, op) /\ Freed(f, g, k)
<1>1. CASE ~f.frame[k].dirty
  <2>1. g = FreeFrame(f, k)
    BY <1>1 DEF Purge
  <2> QED BY <2>1, FreeFrameOK
<1>2. CASE f.frame[k].dirty /\ k[1] = b
  <2>1. g = FreeFrame(FlushInternal(f, k), k)
    BY <1>2 DEF Purge
  <2> QED BY <2>1, FlushFreeOK
<1>3. CASE f.frame[k].dirty /\ k[1] # b
  <2>1. PICK e : e = Drop(f, k) /\ g = FreeFrame(e, k)
    BY <1>3 DEF Purge
  <2>2. IsMem(e) /\ e.frame = f.frame /\ e.store = f.store /\ e.frees = f.frees
    BY <2>1, DropIs
  <2>3. MemOK(e, op) /\ k \in DOMAIN e.frame
    BY <2>2 DEF MemOK
  <2>4. MemOK(g, op) /\ Freed(e, g, k)
    BY <2>1, <2>2, <2>3, FreeFrameOK
  <2> QED BY <2>2, <2>4 DEF Freed
<1> QED BY <1>1, <1>2, <1>3

LEMMA PurgeFrameOK ==
    ASSUME NEW op \in SUBSET Pools, NEW f, NEW g, NEW k \in DOMAIN f.frame,
           IsMem(f), MemOK(f, op), k[2] # Header, f.frame[k].pin = 1, g = PurgeFrame(f, k)
    PROVE  MemOK(g, op) /\ Freed(f, g, k)
<1>1. CASE ~f.frame[k].dirty
  <2>1. g = FreeFrame(f, k)
    BY <1>1 DEF PurgeFrame
  <2> QED BY <2>1, FreeFrameOK
<1>2. CASE f.frame[k].dirty
  <2>1. g = FreeFrame(FlushInternal(f, k), k)
    BY <1>2 DEF PurgeFrame
  <2> QED BY <2>1, FlushFreeOK
<1> QED BY <1>1, <1>2

\* A new frame for page k.
Grown(f, g, k) ==
    /\ IsMem(g) /\ DOMAIN g.frame = DOMAIN f.frame \cup {k} /\ g.store = f.store
    /\ \A j \in DOMAIN f.frame : g.frame[j] = f.frame[j]
    /\ g.frame[k].pin = 1

LEMMA GrownCounts ==
    ASSUME NEW op \in SUBSET Pools, NEW f, NEW g, NEW k \in Keys,
           MemOK(f, op), Grown(f, g, k)
    PROVE  CountsSame(f, g, op) /\ ExactSame(f, g, DOMAIN f.frame)
<1>1. ASSUME NEW b \in op PROVE CountOf(g, b) = CountOf(f, b)
  BY CountIs DEF Grown, CountOf
<1>2. ASSUME NEW j \in DOMAIN f.frame PROVE Exact(g, j) <=> Exact(f, j)
  <2>1. j[1] \in op /\ j \in Keys
    BY FrameIs
  <2> QED BY <1>1, <2>1 DEF Exact, Grown
<1> QED BY <1>1, <1>2 DEF CountsSame, ExactSame

LEMMA AllocOK ==
    ASSUME NEW op \in SUBSET Pools, NEW f, NEW g, NEW k \in Keys,
           IsMem(f), MemOK(f, op), k \notin DOMAIN f.frame, k[1] \in op, k[2] # Header, f.frees # <<>>, g = Alloc(f, k)
    PROVE  MemOK(g, op) /\ Grown(f, g, k) /\ g.frame[k].data = 0
<1>1. PICK c \in BOOLEAN : c = Head(f.frees)
  <2>1. Head(f.frees) \in BOOLEAN
    BY DEF MemOK
  <2> QED BY <2>1, Zenon
<1>2. PICK q : q = [data |-> 0, dirty |-> c, pin |-> 1]
  OBVIOUS
<1>3. q \in FrameRec /\ q.data = 0 /\ q.pin = 1 /\ Fits(k, q.data)
  BY <1>2 DEF FrameRec, Datum, Fits
<1>4. IsMem(g) /\ g.frame = Add(f.frame, k, q) /\ g.store = f.store /\ g.frees = Tail(f.frees)
  BY <1>1, <1>2, AllocIs
<1>5. FramesOK(f.frame, op) /\ StoreOK(f.store) /\ f.frees \in Seq(BOOLEAN)
  BY DEF MemOK
<1>6. g.frees \in Seq(BOOLEAN)
  <2>1. PICK s \in Seq(BOOLEAN) : s = f.frees /\ s # <<>>
    BY <1>5
  <2>2. Tail(s) \in Seq(BOOLEAN)
    BY <2>1, HeadTailProperties
  <2> QED BY <1>4, <2>1, <2>2
<1>8. Opens(op, op, k)
  BY DEF Opens
<1>7. /\ FramesOK(g.frame, op) /\ DOMAIN g.frame = DOMAIN f.frame \cup {k} /\ g.frame[k] = q
      /\ \A j \in DOMAIN f.frame : g.frame[j] = f.frame[j]
  <2>2. PICK x, y : x = f.frame /\ y = g.frame
    OBVIOUS
  <2>3. FramesOK(x, op) /\ k \notin DOMAIN x /\ Opens(op, op, k) /\ y = Add(x, k, q)
    BY <1>4, <1>5, <1>8, <2>2
  <2>4. FramesOK(y, op) /\ Added(x, y, k, q)
    BY <1>3, <2>3, AddFrame
  <2> QED BY <2>2, <2>4 DEF Added
<1> QED BY <1>3, <1>4, <1>5, <1>6, <1>7 DEF MemOK, Grown

LEMMA PutDataCounts ==
    ASSUME NEW op \in SUBSET Pools, NEW f, NEW g, NEW k, NEW d,
           MemOK(f, op), PutData(f, g, k, d), k[2] # Header
    PROVE  CountsSame(f, g, op) /\ ExactSame(f, g, DOMAIN f.frame)
<1>1. ASSUME NEW b \in op PROVE CountOf(g, b) = CountOf(f, b)
  <2>1. <<b, Header>> \in DOMAIN f.frame /\ <<b, Header>> # k
    BY CountIs
  <2> QED BY <2>1 DEF PutData, CountOf
<1>2. ASSUME NEW j \in DOMAIN f.frame PROVE Exact(g, j) <=> Exact(f, j)
  <2>1. j[1] \in op /\ j \in Keys
    BY FrameIs
  <2> QED BY <1>1, <2>1 DEF Exact, PutData
<1> QED BY <1>1, <1>2 DEF CountsSame, ExactSame

-----------------------------------------------------------------------------
(***************************************************************************)
(* The steps of a thread that leave page_count alone.                      *)
(***************************************************************************)
LEMMA CountsStay ==
    ASSUME NEW op, NEW h, NEW t, NEW f, NEW g, NEW lk,
           StateOK(f, h, op, lk), MemOK(f, op), op \in SUBSET Pools, CountsSame(f, g, op)
    PROVE  CountsKept(f, g, h, t)
<1> SUFFICES ASSUME NEW u \in Threads \ {t}, h[u].pc # "idle"
             PROVE  CountOf(g, h[u].key[1]) = CountOf(f, h[u].key[1]) /\ CountOf(f, h[u].key[1]) \in Nat
  BY DEF CountsKept
<1>1. PICK b \in op : b = h[u].key[1]
  <2>1. h[u].key[1] \in op
    BY DEF StateOK, ThreadOK
  <2> QED BY <2>1
<1> QED BY <1>1, CountIs DEF CountsSame

\* The frames D that stay keep their pins, and t joins or leaves page k only.
PinsSame(f, g, D, k)  == D \subseteq DOMAIN f.frame /\ \A j \in D : j # k => g.frame[j].pin = f.frame[j].pin
UseSame(x, r, D, k)   == \A j \in D : j # k => (At1(x, j) <=> At1(r, j))
PinsHold(g, h2, D, k) == \A j \in D : j # k => PinOK(g, h2, j)
LEMMA PinsStay ==
    ASSUME NEW h \in [Threads -> ThreadRec], NEW t \in Threads, NEW r \in ThreadRec, NEW h2, NEW f, NEW g,
           NEW D, NEW k, NEW op, NEW lk,
           Becomes(h, h2, t, r), StateOK(f, h, op, lk), ExactSame(f, g, D), PinsSame(f, g, D, k), UseSame(h[t], r, D, k)
    PROVE  PinsHold(g, h2, D, k)
<1> SUFFICES ASSUME NEW j \in D, j # k PROVE PinOK(g, h2, j)
  BY DEF PinsHold
<1>1. j \in DOMAIN f.frame /\ PinOK(f, h, j) /\ (Exact(g, j) => Exact(f, j)) /\ g.frame[j].pin = f.frame[j].pin
  BY DEF StateOK, ExactSame, PinsSame
<1>2. At1(h[t], j) <=> At1(r, j)
  BY DEF UseSame
<1> QED BY <1>1, <1>2, PinKept

LEMMA JoinStep ==
    ASSUME NEW op \in SUBSET Pools, NEW h \in [Threads -> ThreadRec], NEW t \in Threads, NEW r \in ThreadRec,
           NEW h2, NEW f, NEW g, NEW lk, NEW lk2, NEW k \in DOMAIN f.frame,
           Becomes(h, h2, t, r), StateOK(f, h, op, lk), g = Pin(f, k), LocksKept(lk, lk2, t),
           h[t].pc \notin {"load", "extend", "hold"}, At1(r, k), ThreadOK(r, t, f, op, lk2)
    PROVE  StateOK(g, h2, op, lk2)
<1>1. IsMem(f) /\ MemOK(f, op) /\ PinOK(f, h, k)
  BY DEF StateOK
<1>2. MemOK(g, op) /\ SameBut(f, g, k) /\ Pinned(f, g, k)
  BY <1>1, PinFrame
<1>3. CountsSame(f, g, op) /\ ExactSame(f, g, DOMAIN f.frame)
  BY <1>1, <1>2, SameCounts
<1>4. CountsKept(f, g, h, t)
  BY <1>1, <1>3, CountsStay
<1>5. IsMem(g) /\ DOMAIN g.frame = DOMAIN f.frame /\ \A j \in DOMAIN f.frame : j # k => g.frame[j] = f.frame[j]
  BY <1>2 DEF SameBut
<1>6. ThreadOK(r, t, g, op, lk2)
  BY <1>3, <1>5 DEF ThreadOK, CountsSame
<1>7. PinsHold(g, h2, DOMAIN f.frame, k)
  <2>1. PinsSame(f, g, DOMAIN f.frame, k)
    BY <1>5 DEF PinsSame
  <2>2. UseSame(h[t], r, DOMAIN f.frame, k)
    BY DEF At1, UseSame
  <2> QED BY <1>3, <2>1, <2>2, PinsStay
<1>8. PinOK(g, h2, k)
  <2>1. ~At1(h[t], k)
    BY DEF At1
  <2>2. Cardinality(UsersIn(h, k)) \in Nat /\ Cardinality(UsersIn(h2, k)) = Cardinality(UsersIn(h, k)) + 1
    BY <2>1, UsersChange
  <2>3. f.frame[k].pin \in Nat /\ Own(k) \in Nat
    BY <1>1, FrameIs DEF Own
  <2>4. Exact(g, k) => Exact(f, k)
    BY <1>3 DEF ExactSame
  <2> QED BY <1>1, <1>2, <2>2, <2>3, <2>4 DEF PinOK, Pinned
<1>9. UsersKept(f, g, h, t) /\ PinsOK(g, h2)
  BY <1>5, <1>7, <1>8 DEF UsersKept, PinsOK, PinsHold
<1> QED BY <1>2, <1>4, <1>5, <1>6, <1>9, StateStep

\* Nobody is at a page that has no frame, and nobody at a frame without pins.
LEMMA NoUsers ==
    ASSUME NEW op \in SUBSET Pools, NEW h, NEW f, NEW lk, NEW k \in Keys,
           StateOK(f, h, op, lk), k \notin DOMAIN f.frame \/ (f.frame[k].pin = 0 /\ k[2] # Header)
    PROVE  Cardinality(UsersIn(h, k)) = 0 /\ UsersIn(h, k) = {}
<1>0. IsFiniteSet(UsersIn(h, k))
  BY BufferPoolAssumption, FS_Subset DEF UsersIn
<1>1. CASE k \notin DOMAIN f.frame
  <2>1. UsersIn(h, k) = {}
    BY <1>1 DEF UsersIn, At1, StateOK, ThreadOK
  <2> QED BY <2>1, FS_EmptySet
<1>2. CASE k \in DOMAIN f.frame /\ f.frame[k].pin = 0
  <2>1. Cardinality(UsersIn(h, k)) \in Nat
    BY <1>0, FS_CardinalityType
  <2>2. PinOK(f, h, k)
    BY <1>2 DEF StateOK
  <2>3. Cardinality(UsersIn(h, k)) = 0
    BY <1>2, <2>1, <2>2 DEF PinOK, Own
  <2> QED BY <1>0, <2>3, FS_EmptySet
<1> QED BY <1>1, <1>2

LEMMA AllocStep ==
    ASSUME NEW op \in SUBSET Pools, NEW h \in [Threads -> ThreadRec], NEW t \in Threads, NEW r \in ThreadRec,
           NEW h2, NEW f, NEW g, NEW lk, NEW lk2, NEW k \in Pages,
           Becomes(h, h2, t, r), StateOK(f, h, op, lk), k \notin DOMAIN f.frame, k[1] \in op, f.frees # <<>>,
           g = Alloc(f, k), LocksKept(lk, lk2, t),
           h[t].pc \notin {"load", "extend", "hold"}, At1(r, k), ThreadOK(r, t, g, op, lk2)
    PROVE  StateOK(g, h2, op, lk2)
<1>0. k \in Keys /\ k[2] # Header
  BY DEF Pages, Keys, Header
<1>1. IsMem(f) /\ MemOK(f, op)
  BY DEF StateOK
<1>2. MemOK(g, op) /\ Grown(f, g, k)
  BY <1>0, <1>1, AllocOK
<1>3. CountsSame(f, g, op) /\ ExactSame(f, g, DOMAIN f.frame)
  BY <1>0, <1>1, <1>2, GrownCounts
<1>4. CountsKept(f, g, h, t)
  BY <1>1, <1>3, CountsStay
<1>5. IsMem(g) /\ DOMAIN g.frame = DOMAIN f.frame \cup {k} /\ g.frame[k].pin = 1
  BY <1>2 DEF Grown
<1>7. PinsHold(g, h2, DOMAIN f.frame, k)
  <2>1. PinsSame(f, g, DOMAIN f.frame, k)
    BY <1>2 DEF PinsSame, Grown
  <2>2. UseSame(h[t], r, DOMAIN f.frame, k)
    BY DEF At1, UseSame
  <2> QED BY <1>3, <2>1, <2>2, PinsStay
<1>8. PinOK(g, h2, k)
  <2>1. ~At1(h[t], k)
    BY DEF At1
  <2>2. Cardinality(UsersIn(h2, k)) = Cardinality(UsersIn(h, k)) + 1
    BY <2>1, UsersChange
  <2>3. Cardinality(UsersIn(h, k)) = 0
    BY <1>0, NoUsers
  <2> QED BY <1>0, <1>5, <2>2, <2>3 DEF PinOK, Own
<1>9. UsersKept(f, g, h, t) /\ PinsOK(g, h2)
  BY <1>5, <1>7, <1>8 DEF UsersKept, PinsOK, PinsHold
<1> QED BY <1>2, <1>4, <1>5, <1>9, StateStep

\* Frame v that nobody has pinned is purged.
LEMMA PurgeStep ==
    ASSUME NEW op \in SUBSET Pools, NEW h \in [Threads -> ThreadRec], NEW t \in Threads, NEW r \in ThreadRec,
           NEW h2, NEW f, NEW g, NEW lk, NEW lk2, NEW v \in DOMAIN f.frame, NEW b,
           Becomes(h, h2, t, r), StateOK(f, h, op, lk), f.frame[v].pin = 0, g = Purge(f, b, v), LocksKept(lk, lk2, t),
           h[t].pc \notin {"load", "extend", "hold"}, r.pc \notin {"load", "extend", "hold"}, ThreadOK(r, t, f, op, lk2)
    PROVE  StateOK(g, h2, op, lk2)
<1>1. IsMem(f) /\ MemOK(f, op) /\ PinOK(f, h, v) /\ v \in Keys
  BY FrameIs DEF StateOK
<1>0. v[2] # Header
  <2>1. IsFiniteSet(UsersIn(h, v))
    BY BufferPoolAssumption, FS_Subset DEF UsersIn
  <2>2. Cardinality(UsersIn(h, v)) \in Nat
    BY <2>1, FS_CardinalityType
  <2> QED BY <1>1, <2>2 DEF PinOK, Own
<1>2. MemOK(g, op) /\ Freed(f, g, v)
  BY <1>0, <1>1, PurgeOK
<1>3. CountsSame(f, g, op) /\ ExactSame(f, g, DOMAIN g.frame)
  BY <1>0, <1>1, <1>2, FreedCounts
<1>4. CountsKept(f, g, h, t)
  BY <1>1, <1>3, CountsStay
<1>5. IsMem(g) /\ DOMAIN g.frame = DOMAIN f.frame \ {v} /\ \A j \in DOMAIN g.frame : g.frame[j] = f.frame[j]
  BY <1>2 DEF Freed
<1>6. ThreadOK(r, t, g, op, lk2)
  BY <1>3 DEF ThreadOK, CountsSame
<1>7. PinsHold(g, h2, DOMAIN g.frame, v)
  <2>1. PinsSame(f, g, DOMAIN g.frame, v)
    BY <1>5 DEF PinsSame
  <2>2. UseSame(h[t], r, DOMAIN g.frame, v)
    BY DEF At1, UseSame
  <2> QED BY <1>3, <2>1, <2>2, PinsStay
<1>8. UsersIn(h, v) = {}
  BY <1>0, <1>1, NoUsers
<1>9. UsersKept(f, g, h, t) /\ PinsOK(g, h2)
  BY <1>5, <1>7, <1>8 DEF UsersKept, PinsOK, PinsHold, UsersIn
<1> QED BY <1>2, <1>4, <1>5, <1>6, <1>9, StateStep

\* Page k gets new content; t stays where it was, or did not use a page.
LEMMA DataStep ==
    ASSUME NEW op \in SUBSET Pools, NEW h \in [Threads -> ThreadRec], NEW t \in Threads, NEW r \in ThreadRec,
           NEW h2, NEW f, NEW g, NEW lk, NEW lk2, NEW k \in DOMAIN f.frame, NEW d,
           Becomes(h, h2, t, r), StateOK(f, h, op, lk), MemOK(g, op), PutData(f, g, k, d), CountsSame(f, g, op),
           ExactSame(f, g, DOMAIN f.frame), LocksKept(lk, lk2, t),
           UseSame(h[t], r, DOMAIN f.frame, k), At1(h[t], k) <=> At1(r, k), ThreadOK(r, t, f, op, lk2)
    PROVE  StateOK(g, h2, op, lk2)
<1>1. IsMem(f) /\ MemOK(f, op)
  BY DEF StateOK
<1>4. CountsKept(f, g, h, t)
  BY <1>1, CountsStay
<1>5. IsMem(g) /\ DOMAIN g.frame = DOMAIN f.frame /\ \A j \in DOMAIN g.frame : g.frame[j].pin = f.frame[j].pin
  BY DEF PutData
<1>6. ThreadOK(r, t, g, op, lk2)
  BY <1>5 DEF ThreadOK, CountsSame
<1>7. PinsHold(g, h2, DOMAIN f.frame, k)
  <2>1. PinsSame(f, g, DOMAIN f.frame, k)
    BY <1>5 DEF PinsSame
  <2> QED BY <2>1, PinsStay
<1>8. PinOK(g, h2, k)
  <2>1. PinOK(f, h, k) /\ (Exact(g, k) => Exact(f, k)) /\ g.frame[k].pin = f.frame[k].pin
    BY <1>5 DEF StateOK, ExactSame
  <2> QED BY <2>1, PinKept
<1>9. UsersKept(f, g, h, t) /\ PinsOK(g, h2)
  BY <1>5, <1>7, <1>8 DEF UsersKept, PinsOK, PinsHold
<1> QED BY <1>4, <1>5, <1>6, <1>9, StateStep

\* UnpinPage of thread t.
LEMMA UnpinStep ==
    ASSUME NEW op \in SUBSET Pools, NEW h \in [Threads -> ThreadRec], NEW t \in Threads, NEW r \in ThreadRec,
           NEW h2, NEW f, NEW g, NEW lk, NEW k \in DOMAIN f.frame,
           Becomes(h, h2, t, r), StateOK(f, h, op, lk), At1(h[t], k), r.pc = "idle", g = Unpin(f, k)
    PROVE  StateOK(g, h2, op, lk)
<1>1. IsMem(f) /\ MemOK(f, op) /\ PinOK(f, h, k) /\ f.frame[k].pin \in Nat /\ Own(k) \in Nat
  BY FrameIs DEF StateOK, Own
<1>0. /\ Cardinality(UsersIn(h, k)) \in Nat /\ Cardinality(UsersIn(h, k)) > 0
      /\ Cardinality(UsersIn(h2, k)) = Cardinality(UsersIn(h, k)) - 1
  <2>1. ~At1(r, k)
    BY DEF At1
  <2> QED BY <2>1, UsersChange
<1>2. MemOK(g, op) /\ SameBut(f, g, k) /\ Unpinned(f, g, k)
  <2>1. f.frame[k].pin > 0
    BY <1>0, <1>1 DEF PinOK
  <2> QED BY <1>1, <2>1, UnpinFrame
<1>3. CountsSame(f, g, op) /\ ExactSame(f, g, DOMAIN f.frame)
  BY <1>1, <1>2, SameCounts
<1>4. CountsKept(f, g, h, t)
  BY <1>1, <1>3, CountsStay
<1>5. IsMem(g) /\ DOMAIN g.frame = DOMAIN f.frame /\ \A j \in DOMAIN f.frame : j # k => g.frame[j] = f.frame[j]
  BY <1>2 DEF SameBut
<1>6. ThreadOK(r, t, g, op, lk) /\ LocksKept(lk, lk, t)
  BY DEF ThreadOK, LocksKept
<1>7. PinsHold(g, h2, DOMAIN f.frame, k)
  <2>1. PinsSame(f, g, DOMAIN f.frame, k)
    BY <1>5 DEF PinsSame
  <2>2. UseSame(h[t], r, DOMAIN f.frame, k)
    BY DEF At1, UseSame
  <2> QED BY <1>3, <2>1, <2>2, PinsStay
<1>8. PinOK(g, h2, k)
  <2>4. Exact(g, k) => Exact(f, k)
    BY <1>3 DEF ExactSame
  <2> QED BY <1>0, <1>1, <1>2, <2>4 DEF PinOK, Unpinned
<1>9. UsersKept(f, g, h, t) /\ PinsOK(g, h2)
  BY <1>5, <1>7, <1>8 DEF UsersKept, PinsOK, PinsHold
<1> QED BY <1>2, <1>4, <1>5, <1>6, <1>9, StateStep

\* Load of a page that is not in the file: the frame goes, or loses none of its pins.
LEMMA FailedLoadStep ==
    ASSUME NEW op \in SUBSET Pools, NEW h \in [Threads -> ThreadRec], NEW t \in Threads, NEW r \in ThreadRec,
           NEW h2, NEW f, NEW g, NEW lk, NEW lk2, NEW k \in DOMAIN f.frame,
           Becomes(h, h2, t, r), StateOK(f, h, op, lk), h[t].pc = "load", h[t].key = k, r.pc = "idle",
           f.store[k] = Absent, g = PurgeFrame(f, k), LocksKept(lk, lk2, t)
    PROVE  StateOK(g, h2, op, lk2)
<1>1. /\ IsMem(f) /\ MemOK(f, op) /\ PinOK(f, h, k) /\ f.frame[k].pin \in Nat /\ k \in Keys
      /\ k[2] # Header /\ k[2] < CountOf(f, k[1]) /\ k[1] \in op /\ Own(k) = 0
  BY FrameIs, KeyIs DEF StateOK, ThreadOK, Working, Own
<1>0. /\ Cardinality(UsersIn(h, k)) \in Nat /\ Cardinality(UsersIn(h, k)) > 0
      /\ Cardinality(UsersIn(h2, k)) = Cardinality(UsersIn(h, k)) - 1
  <2>1. ~At1(r, k) /\ At1(h[t], k)
    BY DEF At1
  <2> QED BY <2>1, UsersChange
<1>6. ThreadOK(r, t, g, op, lk2) /\ UseSame(h[t], r, DOMAIN f.frame, k) /\ UseSame(h[t], r, DOMAIN g.frame, k)
  BY DEF ThreadOK, UseSame, At1
<1>2. CASE f.frame[k].pin # 1
  <2>1. g = f
    BY <1>2 DEF PurgeFrame
  <2>2. CountsSame(f, g, op) /\ ExactSame(f, g, DOMAIN f.frame) /\ PinsSame(f, g, DOMAIN f.frame, k)
    BY <2>1 DEF CountsSame, ExactSame, PinsSame
  <2>3. CountsKept(f, g, h, t)
    BY <1>1, <2>2, CountsStay
  <2>4. PinsHold(g, h2, DOMAIN f.frame, k)
    BY <1>6, <2>2, PinsStay
  <2>5. PinOK(g, h2, k)
    <3>1. CountOf(f, k[1]) \in Nat /\ k[2] \in Nat
      BY <1>1, CountIs, KeyIs
    <3>2. ~Exact(g, k)
      BY <1>1, <2>1, <3>1 DEF Exact
    <3> QED BY <1>0, <1>1, <2>1, <3>2 DEF PinOK
  <2>6. UsersKept(f, g, h, t) /\ PinsOK(g, h2)
    BY <2>1, <2>4, <2>5 DEF UsersKept, PinsOK, PinsHold
  <2> QED BY <1>1, <1>6, <2>1, <2>3, <2>6, StateStep
<1>3. CASE f.frame[k].pin = 1
  <2>1. MemOK(g, op) /\ Freed(f, g, k)
    BY <1>1, <1>3, PurgeFrameOK
  <2>2. CountsSame(f, g, op) /\ ExactSame(f, g, DOMAIN g.frame)
    BY <1>1, <2>1, FreedCounts
  <2>3. CountsKept(f, g, h, t)
    BY <1>1, <2>2, CountsStay
  <2>4. IsMem(g) /\ DOMAIN g.frame = DOMAIN f.frame \ {k} /\ PinsSame(f, g, DOMAIN g.frame, k)
    BY <2>1 DEF Freed, PinsSame
  <2>5. PinsHold(g, h2, DOMAIN g.frame, k)
    BY <1>6, <2>2, <2>4, PinsStay
  <2>6. UsersIn(h2, k) = {}
    <3>1. IsFiniteSet(UsersIn(h2, k))
      BY BufferPoolAssumption, FS_Subset DEF UsersIn
    <3>2. Cardinality(UsersIn(h2, k)) = 0
      BY <1>0, <1>1, <1>3 DEF PinOK
    <3> QED BY <3>1, <3>2, FS_EmptySet
  <2>7. UsersKept(f, g, h, t)
    <3> SUFFICES ASSUME NEW u \in Threads \ {t}, NEW j \in DOMAIN f.frame, At1(h[u], j) PROVE j \in DOMAIN g.frame
      BY DEF UsersKept
    <3>1. h2[u] = h[u]
      BY DEF Becomes
    <3>2. j # k
      BY <2>6, <3>1 DEF UsersIn
    <3> QED BY <2>4, <3>2
  <2>8. PinsOK(g, h2)
    BY <2>4, <2>5 DEF PinsOK, PinsHold
  <2> QED BY <1>6, <2>1, <2>3, <2>4, <2>7, <2>8, StateStep
<1> QED BY <1>2, <1>3

\* Memory stays, and t uses a page neither before nor after.
LEMMA MemoryStays ==
    ASSUME NEW op \in SUBSET Pools, NEW h \in [Threads -> ThreadRec], NEW t \in Threads, NEW r \in ThreadRec,
           NEW h2, NEW f, NEW lk,
           Becomes(h, h2, t, r), StateOK(f, h, op, lk), ThreadOK(r, t, f, op, lk),
           h[t].pc \notin {"load", "extend", "hold"}, r.pc \notin {"load", "extend", "hold"}
    PROVE  StateOK(f, h2, op, lk)
<1>1. IsMem(f) /\ MemOK(f, op) /\ CountsSame(f, f, op) /\ ExactSame(f, f, DOMAIN f.frame)
  BY DEF StateOK, CountsSame, ExactSame
<1>2. CountsKept(f, f, h, t)
  BY <1>1, CountsStay
<1>3. LocksKept(lk, lk, t) /\ UsersKept(f, f, h, t)
  BY DEF LocksKept, UsersKept
<1>4. PinsOK(f, h2)
  <2>1. ASSUME NEW k \in DOMAIN f.frame PROVE PinOK(f, h2, k)
    <3>1. PinOK(f, h, k)
      BY DEF StateOK
    <3>2. At1(h[t], k) <=> At1(r, k)
      BY DEF At1
    <3> QED BY <3>1, <3>2, PinKept
  <2> QED BY <2>1 DEF PinsOK
<1> QED BY <1>1, <1>2, <1>3, <1>4, StateStep

\* The header of file b changes, and not its page_count.
LEMMA HeaderCounts ==
    ASSUME NEW op \in SUBSET Pools, NEW f, NEW g, NEW b \in op, NEW d,
           MemOK(f, op), MemOK(g, op), PutData(f, g, <<b, Header>>, d), d.count = CountOf(f, b)
    PROVE  CountsSame(f, g, op) /\ ExactSame(f, g, DOMAIN f.frame)
<1>1. ASSUME NEW c \in op PROVE CountOf(g, c) = CountOf(f, c)
  <2>0. <<c, Header>> \in DOMAIN f.frame
    BY CountIs
  <2>1. CASE c = b
    BY <2>1 DEF PutData, CountOf
  <2>2. CASE c # b
    BY <2>0, <2>2 DEF PutData, CountOf
  <2> QED BY <2>1, <2>2
<1>2. ASSUME NEW j \in DOMAIN f.frame PROVE Exact(g, j) <=> Exact(f, j)
  <2>1. j[1] \in op /\ j \in Keys
    BY FrameIs
  <2> QED BY <1>1, <2>1 DEF Exact, PutData
<1> QED BY <1>1, <1>2 DEF CountsSame, ExactSame

LEMMA HeaderStep ==
    ASSUME NEW op \in SUBSET Pools, NEW h \in [Threads -> ThreadRec], NEW t \in Threads, NEW r \in ThreadRec,
           NEW h2, NEW f, NEW g, NEW lk, NEW lk2, NEW b \in op, NEW d,
           Becomes(h, h2, t, r), StateOK(f, h, op, lk), MemOK(g, op), PutData(f, g, <<b, Header>>, d),
           d.count = CountOf(f, b), LocksKept(lk, lk2, t), ThreadOK(r, t, f, op, lk2),
           h[t].pc \notin {"load", "extend", "hold"}, r.pc \notin {"load", "extend", "hold"}
    PROVE  StateOK(g, h2, op, lk2)
<1>1. IsMem(f) /\ MemOK(f, op)
  BY DEF StateOK
<1>2. CountsSame(f, g, op) /\ ExactSame(f, g, DOMAIN f.frame)
  BY <1>1, HeaderCounts
<1>3. PICK k \in DOMAIN f.frame : k = <<b, Header>>
  <2>1. <<b, Header>> \in DOMAIN f.frame
    BY <1>1, CountIs
  <2> QED BY <2>1
<1>4. UseSame(h[t], r, DOMAIN f.frame, k) /\ (At1(h[t], k) <=> At1(r, k)) /\ PutData(f, g, k, d)
  BY <1>3 DEF At1, UseSame
<1> QED BY <1>2, <1>4, DataStep

\* The frame of page k gets content d.
LEMMA DataFrame ==
    ASSUME NEW op \in SUBSET Pools, NEW f, NEW k \in DOMAIN f.frame, NEW d, NEW q \in FrameRec, NEW g,
           IsMem(g), MemOK(f, op), Fits(k, d), q.data = d, q.pin = f.frame[k].pin,
           g.frame = Put(f.frame, k, q), g.store = f.store, g.frees = f.frees
    PROVE  MemOK(g, op) /\ PutData(f, g, k, d)
<1>1. FramesOK(f.frame, op) /\ Fits(k, q.data)
  BY DEF MemOK
<1>7. /\ FramesOK(g.frame, op) /\ DOMAIN g.frame = DOMAIN f.frame /\ g.frame[k] = q
      /\ \A j \in DOMAIN f.frame : j # k => g.frame[j] = f.frame[j]
  BY <1>1, PutFrame
<1> QED BY <1>7 DEF MemOK, PutData

Zeroed(f, k) == [f EXCEPT !.frame[k].data = 0]
LEMMA ZeroFrame ==
    ASSUME NEW op \in SUBSET Pools, NEW f, NEW k \in DOMAIN f.frame, NEW g,
           IsMem(f), MemOK(f, op), k[2] # Header, g = Zeroed(f, k)
    PROVE  MemOK(g, op) /\ PutData(f, g, k, 0)
<1>1. PICK r \in FrameRec : r = f.frame[k]
  <2>1. f.frame[k] \in FrameRec
    BY FrameIs
  <2> QED BY <2>1
<1>2. PICK q : q = [r EXCEPT !.data = 0]
  OBVIOUS
<1>3. q \in FrameRec /\ q.data = 0 /\ q.pin = f.frame[k].pin
  BY <1>1, <1>2 DEF FrameRec, Datum
<1>4. PICK x : x = Put(f.frame, k, q)
  OBVIOUS
<1>5. g = [f EXCEPT !.frame = x]
  BY <1>1, <1>2, <1>4 DEF Put, Zeroed
<1>6. IsMem(g) /\ g.frame = x /\ g.store = f.store /\ g.frees = f.frees
  BY <1>5 DEF IsMem
<1>7. PICK d : d = 0 /\ Fits(k, d)
  BY DEF Fits
<1>8. PICK y : y = g
  OBVIOUS
<1>9. q.data = d /\ IsMem(y) /\ y.frame = Put(f.frame, k, q) /\ y.store = f.store /\ y.frees = f.frees
  BY <1>3, <1>4, <1>6, <1>7, <1>8
<1>10. MemOK(y, op) /\ PutData(f, y, k, d)
  BY <1>3, <1>7, <1>9, DataFrame
<1> QED BY <1>7, <1>8, <1>10

\* Extend of thread t: page_count of file b grows over page k, which is written at once.
Grows(d, f, b) == HeaderOK(d) /\ d.count = CountOf(f, b) + 1
AtExtend(x, r, k, b)      == x.pc = "extend" /\ x.key = k /\ k[1] = b /\ r.pc = "hold" /\ r.key = k
Extended(f, b, d, k)      == FlushInternal(Zeroed(SetHeader(f, b, d), k), k)
LEMMA ExtendStep ==
    ASSUME NEW op \in SUBSET Pools, NEW h \in [Threads -> ThreadRec], NEW t \in Threads, NEW r \in ThreadRec,
           NEW h2, NEW f, NEW g, NEW lk, NEW lk2, NEW b \in op, NEW d, NEW k \in DOMAIN f.frame,
           Becomes(h, h2, t, r), StateOK(f, h, op, lk), AtExtend(h[t], r, k, b), Grows(d, f, b),
           LocksKept(lk, lk2, t), g = Extended(f, b, d, k)
    PROVE  StateOK(g, h2, op, lk2)
<1>0. /\ h[t].pc = "extend" /\ h[t].key = k /\ k[1] = b /\ r.pc = "hold" /\ r.key = k
      /\ HeaderOK(d) /\ d.count = CountOf(f, b) + 1
  BY DEF AtExtend, Grows
<1>16. PICK e : e = Zeroed(SetHeader(f, b, d), k) /\ g = FlushInternal(e, k)
  BY DEF Extended
<1>1. /\ IsMem(f) /\ MemOK(f, op) /\ PinOK(f, h, k) /\ ThreadOK(h[t], t, f, op, lk)
  BY DEF StateOK
<1>2. /\ k \in Keys /\ k \in Pages /\ k[2] # Header /\ k[2] \in Nat /\ k[2] = CountOf(f, b) /\ lk[b] = t
      /\ k # <<b, Header>> /\ b \in Pools
  BY <1>0, <1>1, FrameIs, KeyIs DEF ThreadOK, Making, Locking
<1>3. PICK a : a = SetHeader(f, b, d)
  OBVIOUS
<1>4. MemOK(a, op) /\ PutData(f, a, <<b, Header>>, d)
  BY <1>0, <1>1, <1>3, SetHeaderFrame
<1>5. IsMem(a) /\ k \in DOMAIN a.frame
  BY <1>4 DEF PutData
<1>6. MemOK(e, op) /\ PutData(a, e, k, 0)
  BY <1>2, <1>3, <1>4, <1>5, <1>16, ZeroFrame
<1>7. IsMem(e) /\ k \in DOMAIN e.frame
  BY <1>5, <1>6 DEF PutData
<1>8. MemOK(g, op) /\ Flushed(e, g, k)
  BY <1>6, <1>7, <1>16, FlushOK
<1>9. /\ IsMem(g) /\ DOMAIN g.frame = DOMAIN f.frame /\ g.store[k] = 0
      /\ \A j \in DOMAIN f.frame : g.frame[j].pin = f.frame[j].pin
      /\ \A j \in Keys : j # k => g.store[j] = f.store[j]
      /\ g.frame[<<b, Header>>].data = d
      /\ \A j \in DOMAIN f.frame : j # k /\ j # <<b, Header>> => g.frame[j] = f.frame[j]
  <2>1. <<b, Header>> \in DOMAIN f.frame
    BY <1>1, CountIs
  <2>2. /\ IsMem(g) /\ DOMAIN g.frame = DOMAIN f.frame /\ g.store[k] = 0
        /\ \A j \in Keys : j # k => g.store[j] = f.store[j]
    <3>1. e.store = f.store /\ e.frame[k].data = 0 /\ DOMAIN e.frame = DOMAIN f.frame
      BY <1>4, <1>6 DEF PutData
    <3> QED BY <1>8, <3>1 DEF Flushed
  <2>3. \A j \in DOMAIN f.frame : g.frame[j].pin = f.frame[j].pin
    <3> SUFFICES ASSUME NEW j \in DOMAIN f.frame PROVE g.frame[j].pin = f.frame[j].pin
      OBVIOUS
    <3>1. a.frame[j].pin = f.frame[j].pin /\ j \in DOMAIN a.frame
      BY <1>4 DEF PutData
    <3>2. e.frame[j].pin = a.frame[j].pin /\ j \in DOMAIN e.frame
      BY <1>6, <3>1 DEF PutData
    <3> QED BY <1>8, <3>1, <3>2 DEF Flushed
  <2>4. g.frame[<<b, Header>>].data = d
    <3>1. a.frame[<<b, Header>>].data = d /\ <<b, Header>> \in DOMAIN a.frame
      BY <1>4, <2>1 DEF PutData
    <3>2. e.frame[<<b, Header>>].data = d /\ <<b, Header>> \in DOMAIN e.frame
      BY <1>2, <1>6, <3>1 DEF PutData
    <3> QED BY <1>8, <3>2 DEF Flushed
  <2>5. \A j \in DOMAIN f.frame : j # k /\ j # <<b, Header>> => g.frame[j] = f.frame[j]
    BY <1>4, <1>6, <1>8 DEF PutData, Flushed
  <2> QED BY <2>2, <2>3, <2>4, <2>5
<1>10. CountOf(g, b) = CountOf(f, b) + 1 /\ \A c \in op : c # b => CountOf(g, c) = CountOf(f, c)
  <2>1. ASSUME NEW c \in op, c # b PROVE CountOf(g, c) = CountOf(f, c)
    <3>1. <<c, Header>> \in DOMAIN f.frame /\ <<c, Header>> # <<b, Header>> /\ <<c, Header>> # k
      BY <1>1, <1>2, <2>1, CountIs
    <3> QED BY <1>9, <3>1 DEF CountOf
  <2> QED BY <1>0, <1>9, <2>1 DEF CountOf
<1>11. CountOf(f, b) \in Nat /\ CountOf(g, b) \in Nat
  BY <1>1, <1>8, CountIs
<1>12. CountsKept(f, g, h, t)
  <2> SUFFICES ASSUME NEW u \in Threads \ {t}, h[u].pc # "idle"
               PROVE  /\ CountOf(g, h[u].key[1]) >= CountOf(f, h[u].key[1])
                      /\ Making(h[u]) => CountOf(g, h[u].key[1]) = CountOf(f, h[u].key[1])
    BY DEF CountsKept
  <2>1. ThreadOK(h[u], u, f, op, lk)
    BY DEF StateOK
  <2>2. PICK c \in op : c = h[u].key[1]
    <3>1. h[u].key[1] \in op
      BY <2>1 DEF ThreadOK
    <3> QED BY <3>1
  <2>3. CountOf(f, c) \in Nat
    BY <1>1, CountIs
  <2>4. Making(h[u]) => c # b
    BY <1>2, <2>1, <2>2 DEF ThreadOK, Making, Locking
  <2> QED BY <1>10, <1>11, <2>2, <2>3, <2>4
<1>13. ThreadOK(r, t, g, op, lk2)
  BY <1>0, <1>2, <1>9, <1>10, <1>11 DEF ThreadOK, Working, Making, Locking
<1>14. ASSUME NEW j \in DOMAIN f.frame PROVE PinOK(g, h2, j)
  <2>1. PinOK(f, h, j) /\ g.frame[j].pin = f.frame[j].pin
    BY <1>9 DEF StateOK
  <2>2. At1(h[t], j) <=> At1(r, j)
    BY <1>0 DEF At1
  <2>3. Exact(g, j) => Exact(f, j)
    <3>1. j \in Keys /\ j[1] \in op /\ j[2] \in Nat
      BY <1>1, FrameIs, KeyIs
    <3>2. CASE j = k
      BY <1>0, <1>2, <1>11, <3>2 DEF Exact
    <3>3. CASE j # k /\ j[1] = b
      BY <1>9, <1>10, <1>11, <3>1, <3>3 DEF Exact
    <3>4. CASE j # k /\ j[1] # b
      BY <1>9, <1>10, <3>1, <3>4 DEF Exact
    <3> QED BY <3>2, <3>3, <3>4
  <2> QED BY <2>1, <2>2, <2>3, PinKept
<1>15. UsersKept(f, g, h, t) /\ PinsOK(g, h2)
  BY <1>9, <1>14 DEF UsersKept, PinsOK
<1> QED BY <1>8, <1>9, <1>12, <1>13, <1>15, StateStep

-----------------------------------------------------------------------------
(***************************************************************************)
(* Steps that change no thread: frames go, files are opened and closed.    *)
(***************************************************************************)
LEMMA FreedStep ==
    ASSUME NEW op \in SUBSET Pools, NEW h, NEW f, NEW g, NEW lk, NEW k \in Keys,
           StateOK(f, h, op, lk), MemOK(g, op), Freed(f, g, k), k[2] # Header, UsersIn(h, k) = {}
    PROVE  StateOK(g, h, op, lk)
<1>1. IsMem(f) /\ MemOK(f, op)
  BY DEF StateOK
<1>2. CountsSame(f, g, op) /\ ExactSame(f, g, DOMAIN g.frame)
  BY <1>1, FreedCounts
<1>3. IsMem(g) /\ DOMAIN g.frame = DOMAIN f.frame \ {k} /\ \A j \in DOMAIN g.frame : g.frame[j] = f.frame[j]
  BY DEF Freed
<1>4. ASSUME NEW t \in Threads PROVE ThreadOK(h[t], t, g, op, lk)
  <2>1. ThreadOK(h[t], t, f, op, lk)
    BY DEF StateOK
  <2>2. h[t].pc \in {"load", "extend", "hold"} => h[t].key # k
    BY DEF UsersIn, At1
  <2> QED BY <1>2, <1>3, <2>1, <2>2 DEF ThreadOK, CountsSame
<1>5. ASSUME NEW j \in DOMAIN g.frame PROVE PinOK(g, h, j)
  <2>1. PinOK(f, h, j) /\ g.frame[j] = f.frame[j] /\ (Exact(g, j) => Exact(f, j))
    BY <1>2, <1>3 DEF StateOK, ExactSame
  <2> QED BY <2>1 DEF PinOK
<1> QED BY <1>3, <1>4, <1>5 DEF StateOK

\* purge_frames frees a frame.
LEMMA PurgeFrees ==
    ASSUME NEW op \in SUBSET Pools, NEW f, NEW b, NEW k,
           IsMem(f), MemOK(f, op)
    PROVE  Purge(f, b, k).frees # <<>>
<1>0. f.frees \in Seq(BOOLEAN)
  BY DEF MemOK
<1>1. ASSUME NEW s \in Seq(BOOLEAN), NEW c PROVE Append(s, c) # <<>>
  <2>1. Len(Append(s, c)) # 0
    OBVIOUS
  <2> QED BY <2>1
<1>2. CASE ~f.frame[k].dirty
  <2>1. Purge(f, b, k).frees = Append(f.frees, f.frame[k].dirty)
    BY <1>2, FreeIs DEF Purge
  <2> QED BY <1>0, <1>1, <2>1
<1>3. CASE f.frame[k].dirty /\ k[1] = b
  <2>1. PICK e : e = FlushInternal(f, k)
    OBVIOUS
  <2>2. IsMem(e) /\ e.frees = f.frees
    BY <2>1, FlushIs
  <2>3. Purge(f, b, k).frees = Append(e.frees, e.frame[k].dirty)
    BY <1>3, <2>1, <2>2, FreeIs DEF Purge
  <2> QED BY <1>0, <1>1, <2>2, <2>3
<1>4. CASE f.frame[k].dirty /\ k[1] # b
  <2>1. PICK e : e = Drop(f, k)
    OBVIOUS
  <2>2. IsMem(e) /\ e.frees = f.frees
    BY <2>1, DropIs
  <2>3. Purge(f, b, k).frees = Append(e.frees, e.frame[k].dirty)
    BY <1>4, <2>1, <2>2, FreeIs DEF Purge
  <2> QED BY <1>0, <1>1, <2>2, <2>3
<1> QED BY <1>2, <1>3, <1>4

LEMMA MakeRoomStep ==
    ASSUME NEW op \in SUBSET Pools, NEW h, NEW f, NEW lk, NEW b, NEW g \in MakeRoom(f, b),
           StateOK(f, h, op, lk)
    PROVE  StateOK(g, h, op, lk) /\ g.frees # <<>> /\ DOMAIN g.frame \subseteq DOMAIN f.frame
<1>1. CASE f.frees # <<>>
  BY <1>1 DEF MakeRoom
<1>2. CASE f.frees = <<>>
  <2>0. IsMem(f) /\ MemOK(f, op)
    BY DEF StateOK
  <2>1. PICK v \in Victims(f) : g = Purge(f, b, v)
    BY <1>2 DEF MakeRoom
  <2>2. v \in DOMAIN f.frame /\ f.frame[v].pin = 0
    BY <2>1 DEF Victims, CanPurge
  <2>3. v \in Keys /\ PinOK(f, h, v)
    BY <2>0, <2>2, FrameIs DEF StateOK
  <2>4. v[2] # Header
    <3>1. IsFiniteSet(UsersIn(h, v))
      BY BufferPoolAssumption, FS_Subset DEF UsersIn
    <3>2. Cardinality(UsersIn(h, v)) \in Nat
      BY <3>1, FS_CardinalityType
    <3> QED BY <2>2, <2>3, <3>2 DEF PinOK, Own
  <2>5. MemOK(g, op) /\ Freed(f, g, v)
    BY <2>0, <2>1, <2>2, <2>4, PurgeOK
  <2>6. UsersIn(h, v) = {}
    BY <2>2, <2>3, <2>4, NoUsers
  <2>7. StateOK(g, h, op, lk)
    BY <2>3, <2>4, <2>5, <2>6, FreedStep
  <2>8. g.frees # <<>>
    BY <2>0, <2>1, PurgeFrees
  <2> QED BY <2>5, <2>7, <2>8 DEF Freed
<1> QED BY <1>1, <1>2

\* A frame with the page in it.
LEMMA FetchedOK ==
    ASSUME NEW op \in SUBSET Pools, NEW op2 \in SUBSET Pools, NEW f, NEW e, NEW g, NEW k \in Keys,
           IsMem(f), MemOK(f, op), k \notin DOMAIN f.frame, Opens(op, op2, k), f.frees # <<>>,
           e = Alloc(f, k), g = LoadPage(e, k)
    PROVE  MemOK(g, op2) /\ Grown(f, g, k)
<1>1. PICK c \in BOOLEAN : c = Head(f.frees)
  <2>1. Head(f.frees) \in BOOLEAN
    BY DEF MemOK
  <2> QED BY <2>1, Zenon
<1>2. PICK d \in Datum : d = f.store[k]
  <2>1. f.store[k] \in Datum
    BY DEF MemOK, StoreOK
  <2> QED BY <2>1
<1>3. PICK p, q : p = [data |-> 0, dirty |-> c, pin |-> 1] /\ q = [data |-> d, dirty |-> c, pin |-> 1]
  OBVIOUS
<1>4. q \in FrameRec /\ q.pin = 1
  BY <1>3 DEF FrameRec
<1>5. Fits(k, q.data)
  <2>1. k[2] = Header => k = <<k[1], Header>> /\ k[1] \in Pools
    BY KeyIs
  <2>2. StoreOK(f.store) /\ q.data = f.store[k]
    BY <1>2, <1>3 DEF MemOK
  <2> QED BY <2>1, <2>2 DEF StoreOK, Fits
<1>6. IsMem(e) /\ e.frame = Add(f.frame, k, p) /\ e.store = f.store /\ e.frees = Tail(f.frees)
  BY <1>1, <1>3, AllocIs
<1>7. IsMem(g) /\ g.frame = [e.frame EXCEPT ![k].data = d] /\ g.store = f.store /\ g.frees = Tail(f.frees)
  <2>1. PICK a : a = e
    OBVIOUS
  <2>2. IsMem(a) /\ a.store = f.store /\ a.frees = Tail(f.frees) /\ a.store[k] = d
    BY <1>2, <1>6, <2>1
  <2>3. /\ IsMem(LoadPage(a, k)) /\ LoadPage(a, k).frame = [a.frame EXCEPT ![k].data = a.store[k]]
        /\ LoadPage(a, k).store = a.store /\ LoadPage(a, k).frees = a.frees
    BY <2>2, LoadIs
  <2> QED BY <2>1, <2>2, <2>3
<1>8. g.frame = Add(f.frame, k, q)
  <2>1. PICK x, y : x = e.frame /\ y = [x EXCEPT ![k].data = d]
    OBVIOUS
  <2>2. DOMAIN x = DOMAIN f.frame \cup {k} /\ x[k] = p /\ \A j \in DOMAIN f.frame : j # k => x[j] = f.frame[j]
    BY <1>6, <2>1 DEF Add
  <2>3. y = [j \in DOMAIN x |-> IF j = k THEN q ELSE x[j]]
    <3>1. q = [p EXCEPT !.data = d]
      BY <1>3
    <3> QED BY <2>1, <2>2, <3>1
  <2>4. y = Add(f.frame, k, q)
    BY <2>2, <2>3 DEF Add
  <2> QED BY <1>7, <2>1, <2>4
<1>9. g.frees \in Seq(BOOLEAN) /\ StoreOK(g.store)
  <2>1. PICK s \in Seq(BOOLEAN) : s = f.frees /\ s # <<>>
    BY DEF MemOK
  <2>2. Tail(s) \in Seq(BOOLEAN)
    BY <2>1, HeadTailProperties
  <2> QED BY <1>7, <2>1, <2>2 DEF MemOK
<1>10. PICK x, y : x = f.frame /\ y = g.frame
  OBVIOUS
<1>11. FramesOK(x, op) /\ k \notin DOMAIN x /\ y = Add(x, k, q)
  BY <1>8, <1>10 DEF MemOK
<1>12. FramesOK(y, op2) /\ Added(x, y, k, q)
  BY <1>4, <1>5, <1>11, AddFrame
<1> QED BY <1>4, <1>7, <1>9, <1>10, <1>12 DEF MemOK, Grown, Added

LEMMA OpenStep ==
    ASSUME NEW op \in SUBSET Pools, NEW op2 \in SUBSET Pools, NEW h, NEW f, NEW g, NEW lk, NEW b \in Pools,
           StateOK(f, h, op, lk), b \notin op, op2 = op \cup {b}, f.frees # <<>>,
           g = LoadPage(Alloc(f, <<b, Header>>), <<b, Header>>)
    PROVE  StateOK(g, h, op2, lk)
<1>0. PICK k \in Keys : k = <<b, Header>>
  <2>1. <<b, Header>> \in Keys
    BY BufferPoolAssumption DEF Keys, Header
  <2> QED BY <2>1
<1>1. IsMem(f) /\ MemOK(f, op) /\ k[1] = b /\ k[2] = Header
  BY <1>0 DEF StateOK
<1>2. k \notin DOMAIN f.frame /\ Opens(op, op2, k)
  BY <1>1, FrameIs DEF Opens
<1>3. MemOK(g, op2) /\ Grown(f, g, k)
  BY <1>0, <1>1, <1>2, FetchedOK
<1>4. CountsSame(f, g, op) /\ ExactSame(f, g, DOMAIN f.frame)
  BY <1>1, <1>3, GrownCounts
<1>5. /\ IsMem(g) /\ DOMAIN g.frame = DOMAIN f.frame \cup {k} /\ g.frame[k].pin = 1
      /\ \A j \in DOMAIN f.frame : g.frame[j] = f.frame[j]
  BY <1>3 DEF Grown
<1>6. ASSUME NEW t \in Threads PROVE ThreadOK(h[t], t, g, op2, lk)
  <2>1. ThreadOK(h[t], t, f, op, lk)
    BY DEF StateOK
  <2> QED BY <1>4, <1>5, <2>1 DEF ThreadOK, CountsSame
<1>7. ASSUME NEW j \in DOMAIN f.frame PROVE PinOK(g, h, j)
  <2>1. PinOK(f, h, j) /\ g.frame[j] = f.frame[j] /\ (Exact(g, j) => Exact(f, j))
    BY <1>4, <1>5 DEF StateOK, ExactSame
  <2> QED BY <2>1 DEF PinOK
<1>8. PinOK(g, h, k)
  <2>1. Cardinality(UsersIn(h, k)) = 0
    BY <1>2, NoUsers
  <2> QED BY <1>1, <1>5, <2>1 DEF PinOK, Own
<1> QED BY <1>3, <1>5, <1>6, <1>7, <1>8 DEF StateOK

\* Every frame of file b is flushed and freed.
LEMMA PoolInitIs ==
    ASSUME NEW n \in Nat
    PROVE  PoolInit(n) \in Seq(BOOLEAN)
<1>1. PICK s : s = PoolInit(n)
  OBVIOUS
<1>2. s \in [1..n -> BOOLEAN]
  BY <1>1 DEF PoolInit
<1>3. s \in Seq(BOOLEAN)
  BY <1>2
<1> QED BY <1>1, <1>3

LEMMA KeysFinite == IsFiniteSet(Keys)
<1>1. IsFiniteSet(0..MaxPageNum - 1)
  BY BufferPoolAssumption, FS_Interval
<1> QED BY <1>1, BufferPoolAssumption, FS_Product DEF Keys

DirtyOf(f, b)      == {k \in PagesOf(f, b) : f.frame[k].dirty}
StoreAll(f, S)     == [k \in Keys |-> IF k \in S THEN f.frame[k].data ELSE f.store[k]]
LEMMA PurgeAllIs ==
    ASSUME NEW f, NEW b, NEW g,
           IsMem(f), g = PurgeAll(f, b)
    PROVE  /\ IsMem(g) /\ g.frame = Without(f.frame, PagesOf(f, b))
           /\ g.frees = f.frees \o PoolInit(Cardinality(PagesOf(f, b)))
           /\ g.store = StoreAll(f, DirtyOf(f, b)) /\ g.lost = f.lost
<1>1. PICK x, l, s, z, n :
        /\ x = Without(f.frame, PagesOf(f, b)) /\ l = SelectSeq(f.lru, LAMBDA k : k[1] # b)
        /\ s = StoreAll(f, DirtyOf(f, b))
        /\ z = f.frees \o PoolInit(Cardinality(PagesOf(f, b)))
        /\ n = PurgeAll(f, b).durable
  OBVIOUS
<1>2. PICK y : y = [f EXCEPT !.frame = x, !.lru = l, !.frees = z, !.store = s, !.durable = n]
  OBVIOUS
<1>3. IsMem(y) /\ y.frame = x /\ y.frees = z /\ y.store = s /\ y.lost = f.lost
  BY <1>2 DEF IsMem
<1>4. g = y
  BY <1>1, <1>2 DEF PurgeAll, Without, StoreAll, DirtyOf, IsMem
<1> QED BY <1>1, <1>3, <1>4

LEMMA StoreAllOK ==
    ASSUME NEW op \in SUBSET Pools, NEW f, NEW S, NEW s,
           MemOK(f, op), S \subseteq DOMAIN f.frame, s = StoreAll(f, S)
    PROVE  StoreOK(s)
<1>1. StoreOK(f.store)
  BY DEF MemOK
<1>2. ASSUME NEW k \in Keys PROVE s[k] \in Datum /\ Fits(k, s[k])
  <2>1. CASE k \in S
    <3>1. k \in DOMAIN f.frame /\ s[k] = f.frame[k].data
      BY <2>1 DEF StoreAll
    <3>2. f.frame[k].data \in Datum /\ Fits(k, f.frame[k].data)
      BY <3>1, FrameIs
    <3> QED BY <3>1, <3>2
  <2>2. CASE k \notin S
    <3>1. s[k] = f.store[k]
      BY <2>2 DEF StoreAll
    <3>2. k[2] = Header => k = <<k[1], Header>> /\ k[1] \in Pools
      BY KeyIs
    <3> QED BY <1>1, <3>1, <3>2 DEF StoreOK, Fits
  <2> QED BY <2>1, <2>2
<1>3. s \in [Keys -> Datum]
  BY <1>2 DEF StoreAll
<1>4. ASSUME NEW b \in Pools PROVE HeaderOK(s[<<b, Header>>])
  <2>1. <<b, Header>> \in Keys /\ <<b, Header>>[2] = Header
    BY BufferPoolAssumption DEF Keys, Header
  <2> QED BY <1>2, <2>1 DEF Fits
<1> QED BY <1>2, <1>3, <1>4 DEF StoreOK, Fits

LEMMA CloseStep ==
    ASSUME NEW op \in SUBSET Pools, NEW op2 \in SUBSET Pools, NEW h, NEW f, NEW g, NEW lk, NEW b \in op,
           StateOK(f, h, op, lk), op2 = op \ {b}, g = PurgeAll(f, b),
           \A t \in Threads : h[t].pc = "idle" \/ h[t].key[1] # b
    PROVE  StateOK(g, h, op2, lk)
<1>0. PICK S : S = PagesOf(f, b)
  OBVIOUS
<1>1. IsMem(f) /\ MemOK(f, op) /\ FramesOK(f.frame, op) /\ f.frees \in Seq(BOOLEAN)
  BY DEF StateOK, MemOK
<1>2. /\ IsMem(g) /\ g.frame = Without(f.frame, S) /\ g.frees = f.frees \o PoolInit(Cardinality(S))
      /\ g.store = StoreAll(f, DirtyOf(f, b))
  <2>1. /\ IsMem(g) /\ g.frame = Without(f.frame, PagesOf(f, b))
        /\ g.frees = f.frees \o PoolInit(Cardinality(PagesOf(f, b)))
        /\ g.store = StoreAll(f, DirtyOf(f, b))
    BY <1>1, PurgeAllIs
  <2> QED BY <1>0, <2>1
<1>3. FramesOK(g.frame, op2) /\ DOMAIN g.frame = DOMAIN f.frame \ S /\ \A j \in DOMAIN g.frame : g.frame[j] = f.frame[j]
  <2>1. PICK p \in SUBSET op : p = op2
    OBVIOUS
  <2>2. PICK x, y : x = f.frame /\ y = g.frame
    OBVIOUS
  <2>3. Droppable(x, S, p)
    BY <1>0, <1>1, <2>1, <2>2 DEF Droppable, PagesOf, FramesOK
  <2>4. FramesOK(x, op) /\ y = Without(x, S)
    BY <1>1, <1>2, <2>2
  <2>5. FramesOK(y, p) /\ Dropped(x, y, S)
    BY <2>3, <2>4, DropFrames
  <2> QED BY <2>1, <2>2, <2>5 DEF Dropped
<1>4. g.frees \in Seq(BOOLEAN)
  <2>1. S \subseteq Keys
    BY <1>0, <1>1 DEF PagesOf, FramesOK
  <2>2. Cardinality(S) \in Nat
    BY <2>1, KeysFinite, FS_Subset, FS_CardinalityType
  <2>3. PICK s \in Seq(BOOLEAN) : s = PoolInit(Cardinality(S))
    <3>1. PoolInit(Cardinality(S)) \in Seq(BOOLEAN)
      BY <2>2, PoolInitIs
    <3> QED BY <3>1
  <2>4. f.frees \o s \in Seq(BOOLEAN)
    BY <1>1
  <2> QED BY <1>2, <2>3, <2>4
<1>5. StoreOK(g.store)
  <2>1. PICK D : D = DirtyOf(f, b)
    OBVIOUS
  <2>2. D \subseteq DOMAIN f.frame /\ g.store = StoreAll(f, D)
    BY <1>2, <2>1 DEF DirtyOf, PagesOf
  <2> QED BY <1>1, <2>2, StoreAllOK
<1>6. MemOK(g, op2)
  BY <1>3, <1>4, <1>5 DEF MemOK
<1>7. ASSUME NEW c \in op2 PROVE CountOf(g, c) = CountOf(f, c)
  <2>1. <<c, Header>> \in DOMAIN g.frame
    BY <1>6, CountIs
  <2> QED BY <1>3, <2>1 DEF CountOf
<1>8. ASSUME NEW t \in Threads PROVE ThreadOK(h[t], t, g, op2, lk)
  <2> SUFFICES ASSUME h[t].pc # "idle" PROVE ThreadOK(h[t], t, g, op2, lk)
    BY DEF ThreadOK
  <2>1. ThreadOK(h[t], t, f, op, lk)
    BY DEF StateOK
  <2>2. h[t].key[1] # b /\ h[t].key[1] \in op2
    BY <2>1 DEF ThreadOK
  <2>3. h[t].key \notin S
    BY <1>0, <2>2 DEF PagesOf
  <2>4. CountOf(g, h[t].key[1]) = CountOf(f, h[t].key[1])
    BY <1>7, <2>2
  <2> QED BY <1>3, <2>1, <2>2, <2>3, <2>4 DEF ThreadOK
<1>9. ASSUME NEW j \in DOMAIN g.frame PROVE PinOK(g, h, j)
  <2>1. j \in DOMAIN f.frame /\ PinOK(f, h, j) /\ g.frame[j] = f.frame[j] /\ j \notin S
    BY <1>3 DEF StateOK
  <2>2. j \in Keys /\ j[1] \in op2
    BY <1>0, <1>1, <2>1, FrameIs DEF PagesOf
  <2>3. g.store[j] = f.store[j]
    BY <1>0, <1>2, <2>1, <2>2 DEF StoreAll, DirtyOf
  <2>4. Exact(g, j) => Exact(f, j)
    BY <1>7, <2>2, <2>3 DEF Exact
  <2> QED BY <2>1, <2>4 DEF PinOK
<1> QED BY <1>2, <1>6, <1>8, <1>9 DEF StateOK

-----------------------------------------------------------------------------
(***************************************************************************)
(* No thread is at work: the files are opened, or the log is replayed.     *)
(***************************************************************************)
FreePin(f, k) == f.frame[k].pin \in Nat /\ f.frame[k].pin >= Own(k) /\ (Exact(f, k) => f.frame[k].pin = Own(k))
FreePins(f)   == \A k \in DOMAIN f.frame : FreePin(f, k)
AllIdle(h)    == \A t \in Threads : h[t].pc = "idle"

LEMMA QuietState ==
    ASSUME NEW op \in SUBSET Pools, NEW h, NEW f, NEW lk,
           AllIdle(h), IsMem(f), MemOK(f, op)
    PROVE  StateOK(f, h, op, lk) <=> FreePins(f)
<1>1. ASSUME NEW k PROVE Cardinality(UsersIn(h, k)) = 0
  <2>1. UsersIn(h, k) = {}
    BY DEF UsersIn, At1, AllIdle
  <2> QED BY <2>1, FS_EmptySet
<1>2. \A t \in Threads : ThreadOK(h[t], t, f, op, lk)
  BY DEF AllIdle, ThreadOK
<1>3. ASSUME NEW k \in DOMAIN f.frame PROVE PinOK(f, h, k) <=> FreePin(f, k)
  <2>1. f.frame[k].pin \in Nat /\ Own(k) \in Nat
    BY FrameIs DEF Own
  <2>2. Cardinality(UsersIn(h, k)) = 0
    BY <1>1
  <2> QED BY <2>1, <2>2 DEF PinOK, FreePin
<1> QED BY <1>2, <1>3 DEF StateOK, FreePins

LEMMA OpenedOK ==
    ASSUME NEW f, NEW h, NEW lk,
           IsMem(f), StoreOK(f.store), f.frame = OpenAll(f.store), f.frees = OpenedFrees, AllIdle(h)
    PROVE  StateOK(f, h, Pools, lk)
<1>0. PICK x, s : x = f.frame /\ s = f.store
  OBVIOUS
<1>1. DOMAIN x = Headers /\ \A k \in Headers : x[k] = [data |-> s[k], dirty |-> FALSE, pin |-> 1]
  BY <1>0 DEF OpenAll
<1>2. ASSUME NEW k \in Headers PROVE k \in Keys /\ k[1] \in Pools /\ k[2] = Header /\ HeaderOK(s[k]) /\ s[k] \in Datum
  <2>1. PICK b \in Pools : k = <<b, Header>>
    BY DEF Headers
  <2>2. k \in Keys
    BY <2>1, BufferPoolAssumption DEF Keys, Header
  <2> QED BY <1>0, <2>1, <2>2 DEF StoreOK
<1>3. ASSUME NEW k \in Headers PROVE x[k] \in FrameRec /\ x[k].data = s[k] /\ x[k].pin = 1
  <2>1. PICK d \in Datum : d = s[k]
    <3>1. s[k] \in Datum
      BY <1>2
    <3> QED BY <3>1
  <2>2. x[k] = [data |-> d, dirty |-> FALSE, pin |-> 1]
    BY <1>1, <2>1
  <2> QED BY <2>1, <2>2 DEF FrameRec
<1>4. FramesOK(x, Pools)
  <2>1. x \in [DOMAIN x -> FrameRec]
    BY <1>0, <1>1, <1>3 DEF OpenAll
  <2>2. \A b \in Pools : <<b, Header>> \in DOMAIN x /\ HeaderOK(x[<<b, Header>>].data)
    <3> SUFFICES ASSUME NEW b \in Pools PROVE <<b, Header>> \in DOMAIN x /\ HeaderOK(x[<<b, Header>>].data)
      OBVIOUS
    <3>1. PICK k \in Headers : k = <<b, Header>>
      BY DEF Headers
    <3> QED BY <1>1, <1>2, <1>3, <3>1
  <2> QED BY <1>1, <1>2, <2>1, <2>2 DEF FramesOK
<1>5. f.frees \in Seq(BOOLEAN)
  <2>1. Cardinality(Pools) \in Nat /\ Cardinality(Threads) \in Nat
    BY BufferPoolAssumption, FS_CardinalityType
  <2>2. FrameNum - Cardinality(Pools) \in Nat
    BY <2>1, BufferPoolAssumption
  <2> QED BY <2>2, PoolInitIs DEF OpenedFrees
<1>6. MemOK(f, Pools)
  BY <1>0, <1>4, <1>5 DEF MemOK
<1>7. FreePins(f)
  BY <1>0, <1>1, <1>2, <1>3 DEF FreePins, FreePin, Own
<1>8. Pools \in SUBSET Pools
  OBVIOUS
<1> QED BY <1>6, <1>7, <1>8, QuietState

\* Redo of one entry, on files that are all open.
QuietOK(f) == IsMem(f) /\ MemOK(f, Pools) /\ FreePins(f)

\* The header of file b changes, and page_count does not shrink.
LEMMA RedoHeader ==
    ASSUME NEW f, NEW b \in Pools, NEW d, NEW g,
           QuietOK(f), HeaderOK(d), d.count >= CountOf(f, b), g = SetHeader(f, b, d)
    PROVE  QuietOK(g)
<1>1. IsMem(f) /\ MemOK(f, Pools) /\ Pools \in SUBSET Pools
  BY DEF QuietOK
<1>2. MemOK(g, Pools) /\ PutData(f, g, <<b, Header>>, d)
  BY <1>1, SetHeaderFrame
<1>3. IsMem(g) /\ DOMAIN g.frame = DOMAIN f.frame /\ g.store = f.store /\ g.frame[<<b, Header>>].data = d
  BY <1>2 DEF PutData
<1>4. ASSUME NEW k \in DOMAIN f.frame PROVE FreePin(g, k)
  <2>1. FreePin(f, k) /\ g.frame[k].pin = f.frame[k].pin
    BY <1>2 DEF QuietOK, FreePins, PutData
  <2>2. k \in Keys /\ k[1] \in Pools /\ k[2] \in Nat
    BY <1>1, FrameIs, KeyIs
  <2>3. CountOf(f, k[1]) \in Nat /\ CountOf(g, k[1]) \in Nat
    BY <1>1, <1>2, <2>2, CountIs
  <2>4. CountOf(g, k[1]) >= CountOf(f, k[1])
    <3>1. CASE k[1] = b
      BY <1>3, <3>1 DEF CountOf
    <3>2. CASE k[1] # b
      <4>1. <<k[1], Header>> \in DOMAIN f.frame /\ <<k[1], Header>> # <<b, Header>>
        BY <1>1, <2>2, <3>2, CountIs
      <4>2. CountOf(g, k[1]) = CountOf(f, k[1])
        BY <1>2, <4>1 DEF PutData, CountOf
      <4> QED BY <2>3, <4>2
    <3> QED BY <3>1, <3>2
  <2>5. Exact(g, k) => Exact(f, k)
    BY <1>3, <2>2, <2>3, <2>4 DEF Exact
  <2> QED BY <2>1, <2>5 DEF FreePin
<1> QED BY <1>2, <1>3, <1>4 DEF QuietOK, FreePins

LEMMA RedoAllocateOK ==
    ASSUME NEW f, NEW b \in Pools, NEW n \in 1..(MaxPageNum - 1), NEW lsn \in Nat, NEW g,
           QuietOK(f), g = RedoAllocate(f, b, n, lsn),
           ~(f.frame[<<b, Header>>].data.lsn < lsn
              /\ (n > CountOf(f, b) \/ (n = CountOf(f, b) /\ CountOf(f, b) >= MaxPageNum)))
    PROVE  QuietOK(g)
<1>1. PICK h : h = f.frame[<<b, Header>>].data
  OBVIOUS
<1>2. h \in FileHdr /\ HeaderOK(h) /\ h.count = CountOf(f, b) /\ h.lsn \in Nat /\ h.count \in 1..MaxPageNum
  <2>1. HeaderOK(h)
    BY <1>1, CountIs DEF QuietOK
  <2> QED BY <1>1, <2>1 DEF HeaderOK, FileHdr, CountOf
<1>3. CASE h.lsn >= lsn \/ n \in h.bits
  BY <1>1, <1>3 DEF RedoAllocate
<1>4. CASE h.lsn < lsn /\ n \notin h.bits /\ n < h.count
  <2>1. PICK d : d = [h EXCEPT !.bits = @ \cup {n}]
    OBVIOUS
  <2>2. HeaderOK(d) /\ d.count = h.count
    BY <1>2, <1>4, <2>1 DEF HeaderOK, FileHdr
  <2>3. g = SetHeader(f, b, d)
    BY <1>1, <1>2, <1>4, <2>1 DEF RedoAllocate
  <2>4. d.count >= CountOf(f, b)
    BY <1>2, <2>2
  <2> QED BY <2>2, <2>3, <2>4, RedoHeader
<1>5. CASE h.lsn < lsn /\ n \notin h.bits /\ ~(n < h.count)
  <2>0. n = h.count /\ h.count < MaxPageNum
    BY <1>1, <1>2, <1>5, BufferPoolAssumption
  <2>1. PICK d : d = [count |-> h.count + 1, bits |-> h.bits \cup {n}, lsn |-> lsn]
    OBVIOUS
  <2>2. HeaderOK(d) /\ d.count = h.count + 1
    <3>1. h.count + 1 \in 1..MaxPageNum
      BY <1>2, <2>0, BufferPoolAssumption
    <3>2. h.bits \cup {n} \in SUBSET Nat /\ h.bits \cup {n} \subseteq 0..((h.count + 1) - 1) /\ Header \in h.bits \cup {n}
      BY <1>2, <2>0 DEF HeaderOK, FileHdr
    <3> QED BY <2>1, <3>1, <3>2 DEF HeaderOK, FileHdr
  <2>3. g = SetHeader(f, b, d)
    BY <1>1, <1>2, <1>5, <2>1 DEF RedoAllocate
  <2>4. d.count >= CountOf(f, b)
    BY <1>2, <2>2
  <2> QED BY <2>2, <2>3, <2>4, RedoHeader
<1> QED BY <1>2, <1>3, <1>4, <1>5

LEMMA RedoDeallocateOK ==
    ASSUME NEW f, NEW b \in Pools, NEW n \in 1..(MaxPageNum - 1), NEW lsn \in Nat, NEW g,
           QuietOK(f), g = RedoDeallocate(f, b, n, lsn)
    PROVE  QuietOK(g)
<1>1. PICK h : h = f.frame[<<b, Header>>].data
  OBVIOUS
<1>2. h \in FileHdr /\ HeaderOK(h) /\ h.count = CountOf(f, b) /\ h.count \in 1..MaxPageNum
  <2>1. HeaderOK(h)
    BY <1>1, CountIs DEF QuietOK
  <2> QED BY <1>1, <2>1 DEF HeaderOK, FileHdr, CountOf
<1>3. CASE h.lsn >= lsn
  BY <1>1, <1>3 DEF RedoDeallocate
<1>4. CASE ~(h.lsn >= lsn)
  <2>1. PICK d : d = [h EXCEPT !.bits = @ \ {n}, !.lsn = lsn]
    OBVIOUS
  <2>2. HeaderOK(d) /\ d.count = h.count
    <3>1. PICK B \in SUBSET Nat : B = h.bits \ {n}
      BY <1>2 DEF FileHdr
    <3>2. B \subseteq 0..(h.count - 1) /\ Header \in B
      BY <1>2, <3>1 DEF HeaderOK, Header
    <3>3. d = [count |-> h.count, bits |-> B, lsn |-> lsn]
      BY <1>2, <2>1, <3>1 DEF FileHdr
    <3> QED BY <1>2, <3>2, <3>3 DEF HeaderOK, FileHdr
  <2>3. g = SetHeader(f, b, d)
    BY <1>1, <1>4, <2>1 DEF RedoDeallocate
  <2>4. d.count >= CountOf(f, b)
    BY <1>2, <2>2, BufferPoolAssumption
  <2> QED BY <2>2, <2>3, <2>4, RedoHeader
<1> QED BY <1>3, <1>4

LEMMA FetchOK ==
    ASSUME NEW f, NEW k \in Pages, NEW g \in Fetch(f, k), NEW h, NEW lk,
           QuietOK(f), AllIdle(h)
    PROVE  /\ IsMem(g) /\ MemOK(g, Pools) /\ k \in DOMAIN g.frame
           /\ g.frame[k].pin \in Nat /\ g.frame[k].pin > 0 /\ (Exact(g, k) => g.frame[k].pin = 1)
           /\ \A j \in DOMAIN g.frame : j # k => FreePin(g, j)
<1>0. k \in Keys /\ k[1] \in Pools /\ k[2] # Header /\ Own(k) = 0 /\ Pools \in SUBSET Pools
  BY DEF Pages, Keys, Header, Own
<1>1. IsMem(f) /\ MemOK(f, Pools)
  BY DEF QuietOK
<1>2. CASE k \in DOMAIN f.frame
  <2>1. g = Pin(f, k)
    BY <1>2 DEF Fetch
  <2>2. MemOK(g, Pools) /\ SameBut(f, g, k) /\ Pinned(f, g, k)
    BY <1>0, <1>1, <1>2, <2>1, PinFrame
  <2>3. ExactSame(f, g, DOMAIN f.frame)
    BY <1>0, <1>1, <2>2, SameCounts
  <2>4. FreePin(f, k) /\ (Exact(g, k) => Exact(f, k))
    BY <1>2, <2>3 DEF QuietOK, FreePins, ExactSame
  <2>5. IsMem(g) /\ DOMAIN g.frame = DOMAIN f.frame /\ \A j \in DOMAIN f.frame : j # k => g.frame[j] = f.frame[j]
    BY <2>2 DEF SameBut
  <2>6. ASSUME NEW j \in DOMAIN g.frame, j # k PROVE FreePin(g, j)
    <3>1. FreePin(f, j) /\ (Exact(g, j) => Exact(f, j)) /\ g.frame[j] = f.frame[j]
      BY <2>3, <2>5, <2>6 DEF QuietOK, FreePins, ExactSame
    <3> QED BY <3>1 DEF FreePin
  <2> QED BY <1>0, <1>2, <2>2, <2>4, <2>5, <2>6 DEF FreePin, Pinned
<1>3. CASE k \notin DOMAIN f.frame
  <2>1. PICK a \in MakeRoom(f, k[1]) : g = LoadPage(Alloc(a, k), k)
    BY <1>3 DEF Fetch
  <2>2. StateOK(f, h, Pools, lk)
    BY <1>0, <1>1, QuietState DEF QuietOK
  <2>3. StateOK(a, h, Pools, lk) /\ a.frees # <<>> /\ DOMAIN a.frame \subseteq DOMAIN f.frame
    BY <1>0, <2>2, MakeRoomStep
  <2>4. IsMem(a) /\ MemOK(a, Pools) /\ k \notin DOMAIN a.frame
    BY <1>3, <2>3 DEF StateOK
  <2>5. FreePins(a)
    BY <1>0, <2>3, <2>4, QuietState
  <2>6. Opens(Pools, Pools, k)
    BY <1>0 DEF Opens
  <2>7. MemOK(g, Pools) /\ Grown(a, g, k)
    BY <1>0, <2>1, <2>3, <2>4, <2>6, FetchedOK
  <2>8. ExactSame(a, g, DOMAIN a.frame)
    BY <1>0, <2>4, <2>7, GrownCounts
  <2>9. /\ IsMem(g) /\ DOMAIN g.frame = DOMAIN a.frame \cup {k} /\ g.frame[k].pin = 1
        /\ \A j \in DOMAIN a.frame : g.frame[j] = a.frame[j]
    BY <2>7 DEF Grown
  <2>10. ASSUME NEW j \in DOMAIN g.frame, j # k PROVE FreePin(g, j)
    <3>1. FreePin(a, j) /\ (Exact(g, j) => Exact(a, j)) /\ g.frame[j] = a.frame[j]
      BY <2>5, <2>8, <2>9, <2>10 DEF FreePins, ExactSame
    <3> QED BY <3>1 DEF FreePin
  <2> QED BY <2>7, <2>9, <2>10
<1> QED BY <1>2, <1>3

LEMMA RedoWriteOK ==
    ASSUME NEW f, NEW k \in Pages, NEW a \in Fetch(f, k), NEW h, NEW lsn \in Nat, NEW g,
           QuietOK(f), AllIdle(h), g = RedoWrite(a, k, lsn)
    PROVE  QuietOK(g)
<1>0. k \in Keys /\ k[1] \in Pools /\ k[2] # Header /\ Own(k) = 0 /\ Pools \in SUBSET Pools
  BY DEF Pages, Keys, Header, Own
<1>1. /\ IsMem(a) /\ MemOK(a, Pools) /\ k \in DOMAIN a.frame
      /\ a.frame[k].pin \in Nat /\ a.frame[k].pin > 0 /\ (Exact(a, k) => a.frame[k].pin = 1)
      /\ \A j \in DOMAIN a.frame : j # k => FreePin(a, j)
  BY FetchOK
<1>2. PICK e : /\ g = Unpin(e, k) /\ IsMem(e) /\ MemOK(e, Pools) /\ DOMAIN e.frame = DOMAIN a.frame
               /\ \A j \in DOMAIN a.frame : e.frame[j].pin = a.frame[j].pin
               /\ ExactSame(a, e, DOMAIN a.frame)
  <2>1. CASE a.frame[k].data >= lsn
    <3>1. g = Unpin(a, k) /\ ExactSame(a, a, DOMAIN a.frame)
      BY <2>1 DEF RedoWrite, ExactSame
    <3> QED BY <1>1, <3>1
  <2>2. CASE ~(a.frame[k].data >= lsn)
    <3>1. PICK r \in FrameRec : r = a.frame[k]
      <4>1. a.frame[k] \in FrameRec
        BY <1>0, <1>1, FrameIs
      <4> QED BY <4>1
    <3>2. PICK q : q = Dirtied(r, lsn)
      OBVIOUS
    <3>3. q \in FrameRec /\ q.data = lsn /\ q.pin = a.frame[k].pin
      <4>1. PICK d \in Datum : d = lsn
        BY DEF Datum
      <4>2. q = [data |-> d, dirty |-> TRUE, pin |-> r.pin] /\ r.pin \in Nat
        BY <3>1, <3>2, <4>1 DEF FrameRec, Dirtied
      <4> QED BY <3>1, <4>1, <4>2 DEF FrameRec
    <3>4. PICK x : x = Put(a.frame, k, q)
      OBVIOUS
    <3>5. PICK e : e = [a EXCEPT !.frame = x]
      OBVIOUS
    <3>6. IsMem(e) /\ e.frame = x /\ e.store = a.store /\ e.frees = a.frees
      BY <1>1, <3>5 DEF IsMem
    <3>7. [a EXCEPT !.frame[k].data = lsn, !.frame[k].dirty = TRUE] = e
      <4>1. PICK y : y = [a.frame EXCEPT ![k].data = lsn]
        OBVIOUS
      <4>2. PICK c : c = [a EXCEPT !.frame = y]
        OBVIOUS
      <4>3. IsMem(c) /\ c.frame = y
        BY <1>1, <4>2 DEF IsMem
      <4>4. [y EXCEPT ![k].dirty = TRUE] = x
        <5>1. PICK z, p : z = a.frame /\ p = [r EXCEPT !.data = lsn]
          OBVIOUS
        <5>2. y = [z EXCEPT ![k] = p] /\ q = [p EXCEPT !.dirty = TRUE] /\ k \in DOMAIN z
          BY <1>1, <3>1, <3>2, <4>1, <5>1 DEF Dirtied
        <5>3. y[k] = p
          BY <5>2
        <5>4. [y EXCEPT ![k].dirty = TRUE] = [y EXCEPT ![k] = q]
          BY <5>2, <5>3
        <5>5. [y EXCEPT ![k] = q] = [z EXCEPT ![k] = q]
          BY <5>2
        <5> QED BY <3>4, <5>1, <5>4, <5>5 DEF Put
      <4>5. [a EXCEPT !.frame[k].data = lsn, !.frame[k].dirty = TRUE] = [c EXCEPT !.frame[k].dirty = TRUE]
        BY <4>1, <4>2
      <4>6. [c EXCEPT !.frame[k].dirty = TRUE] = [c EXCEPT !.frame = x]
        BY <4>3, <4>4
      <4>7. [c EXCEPT !.frame = x] = e
        BY <3>5, <4>2
      <4> QED BY <4>5, <4>6, <4>7
    <3>8. g = Unpin(e, k)
      BY <2>2, <3>7 DEF RedoWrite
    <3>9. PICK d : d = lsn /\ Fits(k, d)
      BY <1>0 DEF Fits
    <3>10. q.data = d /\ e.frame = Put(a.frame, k, q)
      BY <3>3, <3>4, <3>6, <3>9
    <3>11. MemOK(e, Pools) /\ PutData(a, e, k, d)
      BY <1>0, <1>1, <3>3, <3>6, <3>9, <3>10, DataFrame
    <3>12. ExactSame(a, e, DOMAIN a.frame)
      BY <1>0, <1>1, <3>11, PutDataCounts
    <3>13. DOMAIN e.frame = DOMAIN a.frame /\ \A j \in DOMAIN a.frame : e.frame[j].pin = a.frame[j].pin
      BY <3>11 DEF PutData
    <3> QED BY <3>6, <3>8, <3>11, <3>12, <3>13
  <2> QED BY <2>1, <2>2
<1>3. MemOK(g, Pools) /\ SameBut(e, g, k) /\ Unpinned(e, g, k)
  <2>1. k \in DOMAIN e.frame /\ e.frame[k].pin > 0
    BY <1>1, <1>2
  <2> QED BY <1>0, <1>2, <2>1, UnpinFrame
<1>4. ExactSame(e, g, DOMAIN e.frame)
  BY <1>0, <1>2, <1>3, SameCounts
<1>5. IsMem(g) /\ DOMAIN g.frame = DOMAIN a.frame /\ \A j \in DOMAIN a.frame : j # k => g.frame[j] = e.frame[j]
  BY <1>2, <1>3 DEF SameBut
<1>6. ASSUME NEW j \in DOMAIN g.frame PROVE FreePin(g, j)
  <2>1. Exact(g, j) => Exact(a, j)
    BY <1>2, <1>4, <1>5 DEF ExactSame
  <2>2. CASE j = k
    <3>1. e.frame[k].pin = a.frame[k].pin /\ g.frame[k].pin = e.frame[k].pin - 1
      BY <1>1, <1>2, <1>3 DEF Unpinned
    <3> QED BY <1>0, <1>1, <2>1, <2>2, <3>1 DEF FreePin
  <2>3. CASE j # k
    <3>1. FreePin(a, j) /\ g.frame[j].pin = a.frame[j].pin
      BY <1>1, <1>2, <1>5, <2>3
    <3> QED BY <2>1, <3>1 DEF FreePin
  <2> QED BY <2>2, <2>3
<1> QED BY <1>3, <1>5, <1>6 DEF QuietOK, FreePins

-----------------------------------------------------------------------------
(***************************************************************************)
(* The actions.                                                            *)
(***************************************************************************)
LEMMA SetMemoryIs ==
    ASSUME NEW g,
           IsMem(g), SetMemory(g)
    PROVE  Memory' = g
  BY DEF IsMem, SetMemory, Memory

LEMMA MemoryKept == ASSUME UNCHANGED <<memory, store, durable, lost>> PROVE Memory' = Memory
  BY DEF memory, Memory

LEMMA IdleType == Idle \in ThreadRec /\ Idle.pc = "idle"
<1>1. (CHOOSE b \in Pools : TRUE) \in Pools
  BY BufferPoolAssumption
<1>2. <<CHOOSE b \in Pools : TRUE, Header>> \in Keys
  BY <1>1, BufferPoolAssumption DEF Keys, Header
<1> QED BY <1>2 DEF Idle, ThreadRec, Pcs

State(p, k) == [pc |-> p, key |-> k]
LEMMA StateType ==
    ASSUME NEW p \in Pcs, NEW k \in Keys
    PROVE  State(p, k) \in ThreadRec /\ State(p, k).pc = p /\ State(p, k).key = k
  BY DEF State, ThreadRec

LEMMA TakeIs ==
    ASSUME NEW t \in Threads, NEW p, NEW k,
           Take(t, p, k)
    PROVE  Becomes(th, th', t, State(p, k))
  BY DEF Take, Becomes, State

LEMMA GoIs ==
    ASSUME NEW t \in Threads, NEW p,
           Go(t, p), th \in [Threads -> ThreadRec]
    PROVE  Becomes(th, th', t, IF p = "idle" THEN Idle ELSE State(p, th[t].key))
<1>1. th[t] \in ThreadRec
  OBVIOUS
<1>2. [th[t] EXCEPT !.pc = p] = State(p, th[t].key)
  BY <1>1 DEF ThreadRec, State
<1> QED BY <1>2 DEF Go, Becomes

\* The header of an open file.
LEMMA HdrIs ==
    ASSUME IInv, NEW b \in open
    PROVE  /\ HeaderOK(Hdr(b)) /\ Hdr(b) \in FileHdr /\ CountOf(Memory, b) = Hdr(b).count
           /\ Hdr(b).count \in 1..MaxPageNum /\ Hdr(b).count \in Nat /\ b \in Pools
<1>1. open \in SUBSET Pools /\ MemOK(Memory, open)
  BY DEF IInv, TypeInv, StateOK
<1>2. Memory.frame[<<b, Header>>].data = Hdr(b)
  BY MemoryIs DEF Hdr
<1>3. HeaderOK(Hdr(b)) /\ CountOf(Memory, b) = Hdr(b).count
  BY <1>1, <1>2, CountIs DEF CountOf
<1> QED BY <1>1, <1>3, CountIs DEF HeaderOK

\* Thread t of the run takes a state; the files stay open.
LEMMA ThreadInv ==
    ASSUME IInv, mode = "run", NEW t \in Threads, NEW r \in ThreadRec,
           Becomes(th, th', t, r), lock' \in [Pools -> Threads \cup {Free}], log' \in Seq(Entry),
           UNCHANGED <<open, mode, redo>>, StateOK(Memory', th', open, lock')
    PROVE  IInv'
<1>1. th' \in [Threads -> ThreadRec]
  BY DEF IInv, TypeInv, Becomes
<1> QED BY <1>1 DEF IInv, TypeInv, QuietInv

LEMMA StateNow ==
    ASSUME IInv
    PROVE  /\ StateOK(Memory, th, open, lock) /\ open \in SUBSET Pools /\ th \in [Threads -> ThreadRec]
           /\ IsMem(Memory) /\ MemOK(Memory, open) /\ lock \in [Pools -> Threads \cup {Free}]
           /\ log \in Seq(Entry)
  BY DEF IInv, TypeInv, StateOK

LEMMA FindInv ==
    ASSUME IInv, mode = "run", NEW t \in Threads, NEW k \in Pages,
           th[t].pc \in {"idle", "get"}, k[1] \in open, k[2] < CountOf(Memory, k[1]), Find(t, k)
    PROVE  IInv'
<1>1. /\ StateOK(Memory, th, open, lock) /\ open \in SUBSET Pools /\ th \in [Threads -> ThreadRec]
      /\ IsMem(Memory) /\ lock \in [Pools -> Threads \cup {Free}] /\ log \in Seq(Entry)
  BY StateNow
<1>2. UNCHANGED <<lock, open, log, mode, redo>> /\ k \in Keys
  BY DEF Find, Pages, Keys
<1>3. LocksKept(lock, lock, t)
  BY DEF LocksKept
<1>4. PICK f, h2 : f = Memory /\ h2 = th'
  OBVIOUS
<1>5. StateOK(f, th, open, lock) /\ IsMem(f)
  BY <1>1, <1>4
<1>6. CASE k \in Resident /\ SetMemory(Pin(Memory, k)) /\ Take(t, "hold", k)
  <2>1. PICK r : r = State("hold", k)
    OBVIOUS
  <2>2. r \in ThreadRec /\ r.pc = "hold" /\ r.key = k
    BY <1>2, <2>1, StateType DEF Pcs
  <2>3. Becomes(th, h2, t, r)
    BY <1>4, <1>6, <2>1, TakeIs
  <2>4. k \in DOMAIN f.frame
    BY <1>4, <1>6, MemoryIs DEF Resident
  <2>5. ThreadOK(r, t, f, open, lock) /\ At1(r, k)
    BY <1>4, <2>2, <2>4 DEF ThreadOK, Working, Making, Locking, At1
  <2>6. PICK g : g = Pin(f, k)
    OBVIOUS
  <2>7. StateOK(g, h2, open, lock)
    BY <1>1, <1>3, <1>5, <2>2, <2>3, <2>4, <2>5, <2>6, JoinStep
  <2>8. Memory' = g
    BY <1>4, <1>5, <1>6, <2>6, PinIs, SetMemoryIs
  <2> QED BY <1>1, <1>2, <1>4, <2>2, <2>3, <2>7, <2>8, ThreadInv
<1>7. CASE k \notin Resident /\ Take(t, "lock", k) /\ UNCHANGED <<memory, store, durable, lost>>
  <2>1. PICK r : r = State("lock", k)
    OBVIOUS
  <2>2. r \in ThreadRec /\ r.pc = "lock" /\ r.key = k
    BY <1>2, <2>1, StateType DEF Pcs
  <2>3. Becomes(th, h2, t, r)
    BY <1>4, <1>7, <2>1, TakeIs
  <2>5. ThreadOK(r, t, f, open, lock)
    BY <1>4, <2>2 DEF ThreadOK, Working, Making, Locking
  <2>7. StateOK(f, h2, open, lock)
    BY <1>1, <1>5, <2>2, <2>3, <2>5, MemoryStays
  <2>8. Memory' = f
    BY <1>4, <1>7, MemoryKept
  <2> QED BY <1>1, <1>2, <1>4, <2>2, <2>3, <2>7, <2>8, ThreadInv
<1> QED BY <1>6, <1>7 DEF Find

LEMMA GetInv ==
    ASSUME IInv, NEW t \in Threads, NEW k \in Keys, Get(t, k)
    PROVE  IInv'
<1>1. mode = "run" /\ th[t].pc = "idle" /\ k[1] \in open /\ k[2] # Header /\ k[2] \in Hdr(k[1]).bits /\ Find(t, k)
  BY DEF Get, At
<1>2. k \in Pages
  BY <1>1, KeyIs
<1>3. k[2] < CountOf(Memory, k[1])
  <2>1. /\ HeaderOK(Hdr(k[1])) /\ CountOf(Memory, k[1]) = Hdr(k[1]).count /\ Hdr(k[1]).count \in Nat
    BY <1>1, HdrIs
  <2> QED BY <1>1, <2>1 DEF HeaderOK
<1> QED BY <1>1, <1>2, <1>3, FindInv

LEMMA LookupInv ==
    ASSUME IInv, NEW t \in Threads, Lookup(t)
    PROVE  IInv'
<1>1. mode = "run" /\ th[t].pc = "get" /\ Find(t, th[t].key)
  BY DEF Lookup, At
<1>2. ThreadOK(th[t], t, Memory, open, lock)
  BY StateNow DEF StateOK
<1>3. th[t].key \in Pages /\ th[t].key[1] \in open /\ th[t].key[2] < CountOf(Memory, th[t].key[1])
  BY <1>1, <1>2 DEF ThreadOK, Working
<1> QED BY <1>1, <1>3, FindInv

\* allocate_frame under the lock of the file.
LEMMA LockTaken ==
    ASSUME NEW lk \in [Pools -> Threads \cup {Free}], NEW t \in Threads, NEW b \in Pools, NEW lk2,
           lk[b] = Free \/ lk[b] = t, lk2 = [lk EXCEPT ![b] = t]
    PROVE  LocksKept(lk, lk2, t) /\ lk2 \in [Pools -> Threads \cup {Free}] /\ lk2[b] = t
  BY BufferPoolAssumption DEF LocksKept, Free

LEMMA LockFreed ==
    ASSUME NEW lk \in [Pools -> Threads \cup {Free}], NEW t \in Threads, NEW b \in Pools, NEW lk2,
           lk[b] = t, lk2 = [lk EXCEPT ![b] = Free]
    PROVE  LocksKept(lk, lk2, t) /\ lk2 \in [Pools -> Threads \cup {Free}]
  BY BufferPoolAssumption DEF LocksKept, Free

LEMMA AllocateFrameInv ==
    ASSUME IInv, NEW t \in Threads, AllocateFrame(t)
    PROVE  IInv'
<1>1. /\ StateOK(Memory, th, open, lock) /\ open \in SUBSET Pools /\ th \in [Threads -> ThreadRec]
      /\ IsMem(Memory) /\ lock \in [Pools -> Threads \cup {Free}] /\ log \in Seq(Entry)
  BY StateNow
<1>2. PICK k : k = th[t].key
  OBVIOUS
<1>3. /\ th[t].pc \in {"lock", "alloc", "extending"} /\ mode = "run" /\ (th[t].pc = "lock" => lock[k[1]] = Free)
      /\ lock' = [lock EXCEPT ![k[1]] = t] /\ UNCHANGED <<open, log, mode, redo>>
  BY <1>2 DEF AllocateFrame, At
<1>4. ThreadOK(th[t], t, Memory, open, lock)
  BY <1>1 DEF StateOK
<1>5. k \in Pages /\ k \in Keys /\ k[1] \in open /\ k[1] \in Pools
  BY <1>1, <1>2, <1>3, <1>4 DEF ThreadOK, Pages, Keys
<1>6. PICK f, h2, lk2 : f = Memory /\ h2 = th' /\ lk2 = lock'
  OBVIOUS
<1>7. LocksKept(lock, lk2, t) /\ lk2 \in [Pools -> Threads \cup {Free}] /\ lk2[k[1]] = t
  <2>1. lock[k[1]] = Free \/ lock[k[1]] = t
    BY <1>2, <1>3, <1>4 DEF ThreadOK, Locking
  <2> QED BY <1>1, <1>3, <1>5, <1>6, <2>1, LockTaken
<1>8. StateOK(f, th, open, lock) /\ IsMem(f) /\ th[t].pc \notin {"load", "extend", "hold"}
  BY <1>1, <1>3, <1>6
<1>9. PICK p \in Pcs, q \in Pcs :
         /\ p = (IF th[t].pc = "extending" THEN "extend" ELSE "load")
         /\ q = (IF th[t].pc = "extending" THEN "extending" ELSE "alloc")
  BY DEF Pcs
<1>10. PICK r, s : r = State(p, k) /\ s = State(q, k)
  OBVIOUS
<1>11. r \in ThreadRec /\ r.pc = p /\ r.key = k /\ s \in ThreadRec /\ s.pc = q /\ s.key = k
  BY <1>5, <1>10, StateType
<1>12. \A g : (\A b \in open : CountOf(g, b) = CountOf(f, b)) /\ k \in DOMAIN g.frame => ThreadOK(r, t, g, open, lk2)
  <2>1. ASSUME NEW g, CountOf(g, k[1]) = CountOf(f, k[1]), k \in DOMAIN g.frame PROVE ThreadOK(r, t, g, open, lk2)
    BY <1>2, <1>3, <1>4, <1>5, <1>6, <1>7, <1>9, <1>11, <2>1 DEF ThreadOK, Working, Making, Locking
  <2> QED BY <1>5, <2>1
<1>13. ThreadOK(s, t, f, open, lk2)
  BY <1>2, <1>3, <1>4, <1>5, <1>6, <1>7, <1>9, <1>11 DEF ThreadOK, Working, Making, Locking
<1>14. At1(r, k) /\ s.pc \notin {"load", "extend", "hold"}
  BY <1>9, <1>11 DEF At1
<1>15. CASE k \in Resident /\ SetMemory(Pin(Memory, k)) /\ Go(t, p)
  <2>1. Becomes(th, h2, t, r)
    BY <1>1, <1>2, <1>6, <1>9, <1>10, <1>15, GoIs
  <2>2. k \in DOMAIN f.frame
    BY <1>6, <1>15, MemoryIs DEF Resident
  <2>3. ThreadOK(r, t, f, open, lk2)
    BY <1>12, <2>2
  <2>4. PICK g : g = Pin(f, k)
    OBVIOUS
  <2>5. StateOK(g, h2, open, lk2)
    BY <1>1, <1>7, <1>8, <1>11, <1>14, <2>1, <2>2, <2>3, <2>4, JoinStep
  <2>6. Memory' = g
    BY <1>6, <1>8, <1>15, <2>4, PinIs, SetMemoryIs
  <2> QED BY <1>1, <1>3, <1>6, <1>7, <1>11, <2>1, <2>5, <2>6, ThreadInv
<1>16. CASE k \notin Resident /\ frees # <<>> /\ SetMemory(Alloc(Memory, k)) /\ Go(t, p)
  <2>1. Becomes(th, h2, t, r)
    BY <1>1, <1>2, <1>6, <1>9, <1>10, <1>16, GoIs
  <2>2. k \notin DOMAIN f.frame /\ f.frees # <<>>
    BY <1>6, <1>16, MemoryIs DEF Resident
  <2>4. PICK g : g = Alloc(f, k)
    OBVIOUS
  <2>3. ThreadOK(r, t, g, open, lk2)
    <3>1. k[2] # Header /\ MemOK(f, open)
      BY <1>1, <1>5, <1>6, KeyIs DEF StateOK
    <3>2. MemOK(g, open) /\ Grown(f, g, k)
      BY <1>1, <1>5, <1>8, <2>2, <2>4, <3>1, AllocOK
    <3>3. CountsSame(f, g, open)
      BY <1>1, <1>5, <3>1, <3>2, GrownCounts
    <3> QED BY <1>12, <3>2, <3>3 DEF CountsSame, Grown
  <2>5. StateOK(g, h2, open, lk2)
    BY <1>1, <1>5, <1>7, <1>8, <1>11, <1>14, <2>1, <2>2, <2>3, <2>4, AllocStep
  <2>6. Memory' = g
    BY <1>6, <1>8, <1>16, <2>4, AllocIs, SetMemoryIs
  <2> QED BY <1>1, <1>3, <1>6, <1>7, <1>11, <2>1, <2>5, <2>6, ThreadInv
<1>17. CASE \E v \in Victims(Memory) : SetMemory(Purge(Memory, k[1], v)) /\ Go(t, q)
  <2>1. Becomes(th, h2, t, s)
    BY <1>1, <1>2, <1>6, <1>9, <1>10, <1>17, GoIs
  <2>2. PICK v \in DOMAIN f.frame : SetMemory(Purge(Memory, k[1], v)) /\ f.frame[v].pin = 0
    BY <1>6, <1>17 DEF Victims, CanPurge
  <2>4. PICK g : g = Purge(f, k[1], v)
    OBVIOUS
  <2>5. StateOK(g, h2, open, lk2)
    BY <1>1, <1>7, <1>8, <1>11, <1>13, <1>14, <2>1, <2>2, <2>4, PurgeStep
  <2>6. Memory' = g
    BY <1>6, <2>2, <2>4, <2>5, SetMemoryIs DEF StateOK
  <2> QED BY <1>1, <1>3, <1>6, <1>7, <1>11, <2>1, <2>5, <2>6, ThreadInv
<1> QED BY <1>2, <1>9, <1>15, <1>16, <1>17 DEF AllocateFrame

LEMMA LoadInv ==
    ASSUME IInv, NEW t \in Threads, Load(t)
    PROVE  IInv'
<1>1. /\ StateOK(Memory, th, open, lock) /\ open \in SUBSET Pools /\ th \in [Threads -> ThreadRec]
      /\ IsMem(Memory) /\ MemOK(Memory, open) /\ lock \in [Pools -> Threads \cup {Free}] /\ log \in Seq(Entry)
  BY StateNow
<1>2. PICK k : k = th[t].key
  OBVIOUS
<1>3. /\ th[t].pc = "load" /\ mode = "run" /\ lock' = [lock EXCEPT ![k[1]] = Free]
      /\ UNCHANGED <<open, log, mode, redo>>
  BY <1>2 DEF Load, At
<1>4. ThreadOK(th[t], t, Memory, open, lock)
  BY <1>1 DEF StateOK
<1>5. PICK f, h2, lk2 : f = Memory /\ h2 = th' /\ lk2 = lock'
  OBVIOUS
<1>6. /\ k \in Pages /\ k \in Keys /\ k[1] \in open /\ k[1] \in Pools /\ lock[k[1]] = t /\ k \in DOMAIN f.frame
      /\ k[2] # Header /\ k[2] < CountOf(f, k[1])
  BY <1>1, <1>2, <1>3, <1>4, <1>5, KeyIs DEF ThreadOK, Pages, Keys, Locking, Working
<1>7. LocksKept(lock, lk2, t) /\ lk2 \in [Pools -> Threads \cup {Free}]
  BY <1>1, <1>3, <1>5, <1>6, LockFreed
<1>8. StateOK(f, th, open, lock) /\ IsMem(f) /\ MemOK(f, open)
  BY <1>1, <1>5
<1>9. CASE store[k] # Absent /\ SetMemory(LoadPage(Memory, k)) /\ Go(t, "hold")
  <2>1. PICK r : r = State("hold", k)
    OBVIOUS
  <2>2. r \in ThreadRec /\ r.pc = "hold" /\ r.key = k
    BY <1>6, <2>1, StateType DEF Pcs
  <2>3. Becomes(th, h2, t, r)
    BY <1>1, <1>2, <1>5, <1>9, <2>1, GoIs
  <2>4. PICK g : g = LoadPage(f, k)
    OBVIOUS
  <2>5. PICK d : d = f.store[k]
    OBVIOUS
  <2>6. MemOK(g, open) /\ PutData(f, g, k, d)
    BY <1>1, <1>6, <1>8, <2>4, <2>5, LoadFrame
  <2>7. CountsSame(f, g, open) /\ ExactSame(f, g, DOMAIN f.frame)
    BY <1>1, <1>6, <1>8, <2>6, PutDataCounts
  <2>8. ThreadOK(r, t, f, open, lk2)
    BY <1>6, <2>2 DEF ThreadOK, Working, Making, Locking
  <2>9. UseSame(th[t], r, DOMAIN f.frame, k) /\ (At1(th[t], k) <=> At1(r, k))
    BY <1>2, <1>3, <2>2 DEF UseSame, At1
  <2>10. StateOK(g, h2, open, lk2)
    BY <1>1, <1>6, <1>7, <1>8, <2>2, <2>3, <2>6, <2>7, <2>8, <2>9, DataStep
  <2>11. Memory' = g
    BY <1>5, <1>8, <1>9, <2>4, LoadIs, SetMemoryIs
  <2> QED BY <1>1, <1>3, <1>5, <1>7, <2>2, <2>3, <2>10, <2>11, ThreadInv
<1>10. CASE store[k] = Absent /\ SetMemory(PurgeFrame(Memory, k)) /\ Go(t, "idle")
  <2>1. PICK r : r = Idle
    OBVIOUS
  <2>2. r \in ThreadRec /\ r.pc = "idle"
    BY <2>1, IdleType
  <2>3. Becomes(th, h2, t, r)
    BY <1>1, <1>5, <1>10, <2>1, GoIs
  <2>4. PICK g : g = PurgeFrame(f, k)
    OBVIOUS
  <2>5. f.store[k] = Absent /\ th[t].key = k
    BY <1>2, <1>5, <1>10, MemoryIs
  <2>6. StateOK(g, h2, open, lk2)
    BY <1>1, <1>3, <1>6, <1>7, <1>8, <2>2, <2>3, <2>4, <2>5, FailedLoadStep
  <2>7. Memory' = g
    BY <1>5, <1>10, <2>4, <2>6, SetMemoryIs DEF StateOK
  <2> QED BY <1>1, <1>3, <1>5, <1>7, <2>2, <2>3, <2>6, <2>7, ThreadInv
<1> QED BY <1>2, <1>9, <1>10 DEF Load

LEMMA LogType ==
    ASSUME IInv, NEW o \in {"allocate", "deallocate", "write"}, NEW k \in Pages, Log(o, k)
    PROVE  log' \in Seq(Entry)
<1>1. PICK e \in Entry : e = [op |-> o, key |-> k]
  BY DEF Entry
<1>2. log' = Append(log, e) /\ log \in Seq(Entry)
  BY <1>1, StateNow DEF Log
<1> QED BY <1>2

LEMMA LeastIs ==
    ASSUME NEW S \in SUBSET Nat, S # {}
    PROVE  \E m \in S : \A j \in S : m <= j
<1>1. PICK m \in S : \A y \in S : ~(<<y, m>> \in OpToRel(<, Nat))
  BY WFMin, NatLessThanWellFounded
<1>2. ASSUME NEW y \in S PROVE m <= y
  <2>1. ~(y < m)
    BY <1>1 DEF OpToRel
  <2> QED BY <2>1
<1> QED BY <1>2

\* allocate_page of a page below page_count.
LEMMA AllocateFreePageInv ==
    ASSUME IInv, NEW t \in Threads, NEW b \in Pools, AllocateFreePage(t, b)
    PROVE  IInv'
<1>1. /\ StateOK(Memory, th, open, lock) /\ open \in SUBSET Pools /\ th \in [Threads -> ThreadRec]
      /\ IsMem(Memory) /\ MemOK(Memory, open) /\ lock \in [Pools -> Threads \cup {Free}] /\ log \in Seq(Entry)
  BY StateNow
<1>2. PICK n, d : /\ n = CHOOSE i \in FreeBits(b) : \A j \in FreeBits(b) : i <= j
                  /\ d = [Hdr(b) EXCEPT !.bits = @ \cup {n}, !.lsn = Len(log) + 1]
  OBVIOUS
<1>3. PICK k : k = <<b, n>>
  OBVIOUS
<1>4. /\ th[t].pc = "idle" /\ mode = "run" /\ b \in open /\ FreeBits(b) # {} /\ SetMemory(SetHeader(Memory, b, d))
      /\ Log("allocate", k) /\ Take(t, "get", k) /\ UNCHANGED <<lock, open, mode, redo>>
  BY <1>2, <1>3 DEF AllocateFreePage, At
<1>5. /\ HeaderOK(Hdr(b)) /\ Hdr(b) \in FileHdr /\ CountOf(Memory, b) = Hdr(b).count
      /\ Hdr(b).count \in 1..MaxPageNum /\ Hdr(b).count \in Nat
  BY <1>4, HdrIs
<1>6. n \in FreeBits(b)
  <2>1. PICK S : S = FreeBits(b)
    OBVIOUS
  <2>2. S \in SUBSET Nat /\ S # {}
    BY <1>4, <1>5, <2>1 DEF FreeBits
  <2>3. \E m \in S : \A j \in S : m <= j
    BY <2>2, LeastIs
  <2>4. n = CHOOSE i \in S : \A j \in S : i <= j
    BY <1>2, <2>1
  <2> QED BY <2>1, <2>3, <2>4
<1>7. n \in 0..(Hdr(b).count - 1) /\ n \notin Hdr(b).bits /\ n # Header /\ n \in 1..(MaxPageNum - 1)
  BY <1>5, <1>6, BufferPoolAssumption DEF FreeBits, HeaderOK, Header
<1>8. k \in Pages /\ k \in Keys /\ k[1] = b /\ k[2] = n
  BY <1>3, <1>7 DEF Pages, Keys
<1>9. HeaderOK(d) /\ d.count = CountOf(Memory, b)
  <2>1. PICK B \in SUBSET Nat : B = Hdr(b).bits \cup {n}
    <3>1. Hdr(b).bits \in SUBSET Nat /\ n \in Nat
      BY <1>5, <1>7, BufferPoolAssumption DEF FileHdr
    <3> QED BY <3>1
  <2>2. B \subseteq 0..(Hdr(b).count - 1) /\ Header \in B
    BY <1>5, <1>7, <2>1 DEF HeaderOK
  <2>3. PICK l \in Nat : l = Len(log) + 1
    BY <1>1
  <2>4. d = [count |-> Hdr(b).count, bits |-> B, lsn |-> l]
    BY <1>2, <1>5, <2>1, <2>3 DEF FileHdr
  <2> QED BY <1>5, <2>2, <2>4 DEF HeaderOK, FileHdr
<1>10. PICK f, h2, r, g : f = Memory /\ h2 = th' /\ r = State("get", k) /\ g = SetHeader(f, b, d)
  OBVIOUS
<1>11. r \in ThreadRec /\ r.pc = "get" /\ r.key = k /\ Becomes(th, h2, t, r)
  BY <1>4, <1>8, <1>10, StateType, TakeIs DEF Pcs
<1>12. StateOK(f, th, open, lock) /\ IsMem(f) /\ MemOK(f, open) /\ d.count = CountOf(f, b)
  BY <1>1, <1>9, <1>10
<1>13. MemOK(g, open) /\ PutData(f, g, <<b, Header>>, d)
  BY <1>1, <1>4, <1>9, <1>10, <1>12, SetHeaderFrame
<1>14. ThreadOK(r, t, f, open, lock) /\ LocksKept(lock, lock, t)
  BY <1>4, <1>5, <1>7, <1>8, <1>9, <1>11, <1>12 DEF ThreadOK, Working, Making, Locking, LocksKept
<1>15. StateOK(g, h2, open, lock)
  BY <1>1, <1>4, <1>11, <1>12, <1>13, <1>14, HeaderStep
<1>16. Memory' = g
  BY <1>4, <1>10, <1>12, SetHeaderIs, SetMemoryIs
<1>17. log' \in Seq(Entry)
  BY <1>4, <1>8, LogType
<1> QED BY <1>1, <1>4, <1>10, <1>11, <1>15, <1>16, <1>17, ThreadInv

LEMMA MemoryNext ==
    /\ IsMem(Memory') /\ Memory'.frame = frame' /\ Memory'.store = store' /\ Memory'.frees = frees'
    /\ Memory'.durable = durable' /\ Memory'.lost = lost'
  BY DEF IsMem, Memory

\* The rest of the file is allocated: the file is locked, and page_count is the page to come.
LEMMA BeginExtendInv ==
    ASSUME IInv, NEW t \in Threads, NEW b \in Pools, BeginExtend(t, b)
    PROVE  IInv'
<1>1. /\ StateOK(Memory, th, open, lock) /\ open \in SUBSET Pools /\ th \in [Threads -> ThreadRec]
      /\ IsMem(Memory) /\ MemOK(Memory, open) /\ lock \in [Pools -> Threads \cup {Free}] /\ log \in Seq(Entry)
  BY StateNow
<1>0. PICK l \in Nat : l = Len(log) + 1
  BY <1>1
<1>2. PICK n, d : n = Hdr(b).count /\ d = [Hdr(b) EXCEPT !.lsn = l]
  OBVIOUS
<1>3. PICK k : k = <<b, n>>
  OBVIOUS
<1>4. /\ th[t].pc = "idle" /\ mode = "run" /\ b \in open /\ lock[b] = Free /\ n < MaxPageNum
      /\ Log("allocate", k) /\ Take(t, "extending", k) /\ UNCHANGED <<open, mode, redo, frees, store, durable, lost>>
      /\ lock' = [lock EXCEPT ![b] = t] /\ frame' = [frame EXCEPT ![<<b, Header>>].data.lsn = l]
  BY <1>0, <1>2, <1>3 DEF BeginExtend, At, history
<1>5. /\ HeaderOK(Hdr(b)) /\ Hdr(b) \in FileHdr /\ CountOf(Memory, b) = n
      /\ n \in 1..MaxPageNum /\ n \in Nat
  BY <1>2, <1>4, HdrIs
<1>8. k \in Pages /\ k \in Keys /\ k[1] = b /\ k[2] = n
  BY <1>3, <1>4, <1>5, BufferPoolAssumption DEF Pages, Keys
<1>9. HeaderOK(d) /\ d.count = n
  BY <1>2, <1>5 DEF HeaderOK, FileHdr
<1>10. PICK f, h2, r, g, lk2 : f = Memory /\ h2 = th' /\ r = State("extending", k) /\ g = Memory' /\ lk2 = lock'
  OBVIOUS
<1>11. r \in ThreadRec /\ r.pc = "extending" /\ r.key = k /\ Becomes(th, h2, t, r)
  BY <1>4, <1>8, <1>10, StateType, TakeIs DEF Pcs
<1>12. StateOK(f, th, open, lock) /\ IsMem(f) /\ MemOK(f, open) /\ d.count = CountOf(f, b) /\ f.frame = frame
  BY <1>1, <1>5, <1>9, <1>10, MemoryIs
<1>13. MemOK(g, open) /\ PutData(f, g, <<b, Header>>, d)
  <2>1. PICK j \in DOMAIN f.frame : j = <<b, Header>> /\ j[2] = Header
    <3>1. <<b, Header>> \in DOMAIN f.frame
      BY <1>1, <1>4, <1>12, CountIs
    <3> QED BY <3>1
  <2>2. PICK p \in FrameRec : p = f.frame[j] /\ p.data = Hdr(b)
    <3>1. f.frame[j] \in FrameRec
      BY <1>1, <1>12, <2>1, FrameIs
    <3> QED BY <1>12, <2>1, <3>1 DEF Hdr
  <2>3. PICK q : q = [p EXCEPT !.data = d]
    OBVIOUS
  <2>4. d \in Datum /\ Fits(j, d)
    BY <1>9, <2>1 DEF HeaderOK, Datum, Fits
  <2>5. q \in FrameRec /\ q.data = d /\ q.pin = f.frame[j].pin
    BY <2>2, <2>3, <2>4 DEF FrameRec
  <2>6. g.frame = Put(f.frame, j, q) /\ IsMem(g) /\ g.store = f.store /\ g.frees = f.frees
    <3>1. [p EXCEPT !.data.lsn = l] = q
      BY <1>2, <2>2, <2>3
    <3>2. frame' = [f.frame EXCEPT ![j] = [p EXCEPT !.data.lsn = l]]
      BY <1>4, <1>12, <2>1, <2>2
    <3>3. frame' = Put(f.frame, j, q)
      BY <3>1, <3>2 DEF Put
    <3> QED BY <1>4, <1>10, <3>3, MemoryIs, MemoryNext
  <2>7. MemOK(g, open) /\ PutData(f, g, j, d)
    BY <1>1, <1>12, <2>4, <2>5, <2>6, DataFrame
  <2> QED BY <2>1, <2>7
<1>7. LocksKept(lock, lk2, t) /\ lk2 \in [Pools -> Threads \cup {Free}] /\ lk2[b] = t
  BY <1>1, <1>4, <1>10, LockTaken
<1>14. ThreadOK(r, t, f, open, lk2)
  BY <1>4, <1>5, <1>7, <1>8, <1>10, <1>11 DEF ThreadOK, Working, Making, Locking
<1>15. StateOK(g, h2, open, lk2)
  BY <1>1, <1>4, <1>7, <1>11, <1>12, <1>13, <1>14, HeaderStep
<1>17. log' \in Seq(Entry)
  BY <1>4, <1>8, LogType
<1> QED BY <1>1, <1>4, <1>7, <1>10, <1>11, <1>15, <1>17, ThreadInv

LEMMA ExtendInv ==
    ASSUME IInv, NEW t \in Threads, Extend(t)
    PROVE  IInv'
<1>1. /\ StateOK(Memory, th, open, lock) /\ open \in SUBSET Pools /\ th \in [Threads -> ThreadRec]
      /\ IsMem(Memory) /\ MemOK(Memory, open) /\ lock \in [Pools -> Threads \cup {Free}] /\ log \in Seq(Entry)
  BY StateNow
<1>2. PICK k, b, d : k = th[t].key /\ b = k[1] /\ d = [Hdr(b) EXCEPT !.count = @ + 1, !.bits = @ \cup {k[2]}]
  OBVIOUS
<1>3. /\ th[t].pc = "extend" /\ mode = "run" /\ lock' = [lock EXCEPT ![b] = Free] /\ Go(t, "hold")
      /\ SetMemory(FlushInternal(Zeroed(SetHeader(Memory, b, d), k), k))
      /\ UNCHANGED <<open, log, mode, redo>>
  BY <1>2 DEF Extend, At, Zeroed
<1>4. ThreadOK(th[t], t, Memory, open, lock)
  BY <1>1 DEF StateOK
<1>5. PICK f, h2, lk2, r : f = Memory /\ h2 = th' /\ lk2 = lock' /\ r = State("hold", k)
  OBVIOUS
<1>6. /\ k \in Pages /\ k \in Keys /\ b \in open /\ b \in Pools /\ lock[b] = t /\ k \in DOMAIN f.frame
      /\ k[2] = CountOf(Memory, b) /\ k[2] \in 1..(MaxPageNum - 1)
  <2>1. k \in Pages /\ b \in open /\ lock[b] = t /\ k \in DOMAIN f.frame /\ k[2] = CountOf(Memory, b)
    BY <1>2, <1>3, <1>4, <1>5 DEF ThreadOK, Locking, Making
  <2> QED BY <1>1, <2>1 DEF Pages, Keys
<1>7. LocksKept(lock, lk2, t) /\ lk2 \in [Pools -> Threads \cup {Free}]
  BY <1>1, <1>3, <1>5, <1>6, LockFreed
<1>8. Grows(d, f, b)
  <2>1. /\ HeaderOK(Hdr(b)) /\ Hdr(b) \in FileHdr /\ CountOf(Memory, b) = Hdr(b).count /\ Hdr(b).count \in Nat
    BY <1>6, HdrIs
  <2>2. PICK B \in SUBSET Nat : B = Hdr(b).bits \cup {k[2]}
    <3>1. Hdr(b).bits \in SUBSET Nat /\ k[2] \in Nat
      BY <1>6, <2>1 DEF FileHdr
    <3> QED BY <3>1
  <2>3. PICK n \in 1..MaxPageNum : n = Hdr(b).count + 1
    BY <1>6, <2>1, BufferPoolAssumption
  <2>4. B \subseteq 0..(n - 1) /\ Header \in B
    BY <1>6, <2>1, <2>2, <2>3 DEF HeaderOK
  <2>5. d = [count |-> n, bits |-> B, lsn |-> Hdr(b).lsn] /\ Hdr(b).lsn \in Nat
    BY <1>2, <2>1, <2>2, <2>3 DEF FileHdr
  <2> QED BY <1>5, <2>1, <2>3, <2>4, <2>5 DEF HeaderOK, FileHdr, Grows
<1>9. r \in ThreadRec /\ r.pc = "hold" /\ r.key = k /\ Becomes(th, h2, t, r)
  BY <1>1, <1>2, <1>3, <1>5, <1>6, StateType, GoIs DEF Pcs
<1>10. PICK g : g = Extended(f, b, d, k)
  OBVIOUS
<1>11. StateOK(f, th, open, lock) /\ AtExtend(th[t], r, k, b)
  BY <1>1, <1>2, <1>3, <1>5, <1>9 DEF AtExtend
<1>13. StateOK(g, h2, open, lk2)
  BY <1>1, <1>6, <1>7, <1>8, <1>9, <1>10, <1>11, ExtendStep
<1>14. Memory' = g
  BY <1>3, <1>5, <1>10, <1>13, SetMemoryIs DEF StateOK, Extended
<1> QED BY <1>1, <1>3, <1>5, <1>7, <1>9, <1>13, <1>14, ThreadInv

\* dispose_page: the frame goes, and the page leaves the bitmap.
LEMMA DisposeInv ==
    ASSUME IInv, NEW t \in Threads, NEW k \in Keys, Dispose(t, k)
    PROVE  IInv'
<1>1. /\ StateOK(Memory, th, open, lock) /\ open \in SUBSET Pools /\ th \in [Threads -> ThreadRec]
      /\ IsMem(Memory) /\ MemOK(Memory, open) /\ lock \in [Pools -> Threads \cup {Free}] /\ log \in Seq(Entry)
  BY StateNow
<1>2. PICK b, d : b = k[1] /\ d = [Hdr(b) EXCEPT !.bits = @ \ {k[2]}, !.lsn = Len(log) + 1]
  OBVIOUS
<1>3. PICK a, f : f = Memory /\ a = IF k \in Resident THEN FreeFrame(f, k) ELSE f
  OBVIOUS
<1>4. /\ th[t].pc = "idle" /\ mode = "run" /\ b \in open /\ k[2] # Header /\ NotInUse(k)
      /\ SetMemory(SetHeader(a, b, d)) /\ Log("deallocate", k) /\ UNCHANGED <<th, lock, open, mode, redo>>
  BY <1>2, <1>3 DEF Dispose, At
<1>5. k \in Pages /\ k[2] \in Nat
  BY <1>4, KeyIs
<1>6. StateOK(f, th, open, lock) /\ IsMem(f) /\ MemOK(f, open)
  BY <1>1, <1>3
<1>7. StateOK(a, th, open, lock) /\ CountOf(a, b) = CountOf(f, b)
  <2>1. CASE k \in Resident
    <3>1. k \in DOMAIN f.frame /\ a = FreeFrame(f, k)
      BY <1>3, <2>1, MemoryIs DEF Resident
    <3>2. MemOK(a, open) /\ Freed(f, a, k)
      BY <1>1, <1>4, <1>6, <3>1, FreeFrameOK
    <3>3. UsersIn(th, k) = {}
      BY <1>4 DEF UsersIn, At1, NotInUse
    <3>4. StateOK(a, th, open, lock)
      BY <1>1, <1>4, <1>6, <3>2, <3>3, FreedStep
    <3>5. CountsSame(f, a, open)
      BY <1>1, <1>4, <1>6, <3>2, FreedCounts
    <3> QED BY <1>4, <3>4, <3>5 DEF CountsSame
  <2>2. CASE k \notin Resident
    BY <1>3, <1>6, <2>2
  <2> QED BY <2>1, <2>2
<1>8. HeaderOK(d) /\ d.count = CountOf(a, b)
  <2>1. /\ HeaderOK(Hdr(b)) /\ Hdr(b) \in FileHdr /\ CountOf(Memory, b) = Hdr(b).count /\ Hdr(b).count \in Nat
    BY <1>4, HdrIs
  <2>2. PICK B \in SUBSET Nat : B = Hdr(b).bits \ {k[2]}
    <3>1. Hdr(b).bits \ {k[2]} \in SUBSET Nat
      BY <2>1 DEF FileHdr
    <3> QED BY <3>1
  <2>3. B \subseteq 0..(Hdr(b).count - 1) /\ Header \in B
    BY <1>4, <2>1, <2>2 DEF HeaderOK
  <2>4. PICK l \in Nat : l = Len(log) + 1
    BY <1>1
  <2>5. d = [count |-> Hdr(b).count, bits |-> B, lsn |-> l] /\ Hdr(b).count \in 1..MaxPageNum
    BY <1>2, <2>1, <2>2, <2>4 DEF FileHdr
  <2> QED BY <1>3, <1>7, <2>1, <2>3, <2>5 DEF HeaderOK, FileHdr
<1>9. PICK g, h2, r : g = SetHeader(a, b, d) /\ h2 = th' /\ r = th[t]
  OBVIOUS
<1>10. r \in ThreadRec /\ r.pc = "idle" /\ Becomes(th, h2, t, r) /\ h2 = th
  BY <1>1, <1>4, <1>9 DEF Becomes
<1>11. IsMem(a) /\ MemOK(a, open)
  BY <1>7 DEF StateOK
<1>12. MemOK(g, open) /\ PutData(a, g, <<b, Header>>, d)
  BY <1>1, <1>4, <1>8, <1>9, <1>11, SetHeaderFrame
<1>13. ThreadOK(r, t, a, open, lock) /\ LocksKept(lock, lock, t)
  BY <1>10 DEF ThreadOK, LocksKept
<1>14. StateOK(g, h2, open, lock)
  <2>1. th[t].pc \notin {"load", "extend", "hold"} /\ r.pc \notin {"load", "extend", "hold"} /\ d.count = CountOf(a, b)
    BY <1>4, <1>8, <1>10
  <2> QED BY <1>1, <1>4, <1>7, <1>10, <1>12, <1>13, <2>1, HeaderStep
<1>15. Memory' = g
  BY <1>4, <1>9, <1>14, SetMemoryIs DEF StateOK
<1>16. log' \in Seq(Entry)
  BY <1>4, <1>5, LogType
<1> QED BY <1>1, <1>4, <1>9, <1>10, <1>14, <1>15, <1>16, ThreadInv

LEMMA ModifyInv ==
    ASSUME IInv, NEW t \in Threads, Modify(t)
    PROVE  IInv'
<1>1. /\ StateOK(Memory, th, open, lock) /\ open \in SUBSET Pools /\ th \in [Threads -> ThreadRec]
      /\ IsMem(Memory) /\ MemOK(Memory, open) /\ lock \in [Pools -> Threads \cup {Free}] /\ log \in Seq(Entry)
  BY StateNow
<1>2. PICK l \in Nat : l = Len(log) + 1
  BY <1>1
<1>3. PICK k, f, g, h2, r : k = th[t].key /\ f = Memory /\ g = Memory' /\ h2 = th' /\ r = th[t]
  OBVIOUS
<1>4. /\ th[t].pc = "hold" /\ mode = "run" /\ Log("write", k) /\ frame' = [frame EXCEPT ![k].data = l, ![k].dirty = TRUE]
      /\ UNCHANGED <<frees, lock, open, store, durable, th, mode, redo, lost>>
  BY <1>2, <1>3 DEF Modify, At
<1>5. ThreadOK(r, t, f, open, lock) /\ StateOK(f, th, open, lock) /\ IsMem(f) /\ MemOK(f, open) /\ f.frame = frame
  BY <1>1, <1>3, MemoryIs DEF StateOK
<1>6. k \in Pages /\ k \in DOMAIN f.frame
  BY <1>3, <1>4, <1>5 DEF ThreadOK
<1>7. k \in Keys /\ k[2] # Header
  BY <1>6 DEF Pages, Keys, Header
<1>8. PICK p \in FrameRec : p = f.frame[k]
  <2>1. f.frame[k] \in FrameRec
    BY <1>1, <1>5, <1>6, FrameIs
  <2> QED BY <2>1
<1>9. PICK d \in Datum : d = l /\ Fits(k, d)
  BY <1>7 DEF Datum, Fits
<1>10. PICK q : q = Dirtied(p, d)
  OBVIOUS
<1>11. q \in FrameRec /\ q.data = d /\ q.pin = f.frame[k].pin
  BY <1>8, <1>10 DEF FrameRec, Dirtied
<1>12. IsMem(g) /\ g.frame = Put(f.frame, k, q) /\ g.store = f.store /\ g.frees = f.frees
  <2>1. PICK z, y, c : z = f.frame /\ y = [z EXCEPT ![k].data = d] /\ c = [p EXCEPT !.data = d]
    OBVIOUS
  <2>2. y = [z EXCEPT ![k] = c] /\ q = [c EXCEPT !.dirty = TRUE] /\ k \in DOMAIN z
    BY <1>6, <1>8, <1>10, <2>1 DEF Dirtied
  <2>3. y[k] = c
    BY <2>2
  <2>4. [y EXCEPT ![k].dirty = TRUE] = [y EXCEPT ![k] = q]
    BY <2>2, <2>3
  <2>5. [y EXCEPT ![k] = q] = [z EXCEPT ![k] = q]
    BY <2>2
  <2>6. frame' = [y EXCEPT ![k].dirty = TRUE]
    BY <1>4, <1>5, <1>9, <2>1
  <2>7. frame' = Put(f.frame, k, q)
    BY <2>1, <2>4, <2>5, <2>6 DEF Put
  <2> QED BY <1>3, <1>4, <2>7, MemoryIs, MemoryNext
<1>13. MemOK(g, open) /\ PutData(f, g, k, d)
  BY <1>1, <1>5, <1>6, <1>9, <1>11, <1>12, DataFrame
<1>14. CountsSame(f, g, open) /\ ExactSame(f, g, DOMAIN f.frame)
  BY <1>1, <1>5, <1>7, <1>13, PutDataCounts
<1>15. r \in ThreadRec /\ Becomes(th, h2, t, r) /\ LocksKept(lock, lock, t)
  BY <1>1, <1>3, <1>4 DEF Becomes, LocksKept
<1>16. UseSame(th[t], r, DOMAIN f.frame, k) /\ (At1(th[t], k) <=> At1(r, k))
  BY <1>3 DEF UseSame
<1>17. StateOK(g, h2, open, lock)
  BY <1>1, <1>5, <1>6, <1>13, <1>14, <1>15, <1>16, DataStep
<1>18. log' \in Seq(Entry)
  BY <1>4, <1>6, LogType
<1> QED BY <1>1, <1>3, <1>4, <1>15, <1>17, <1>18, ThreadInv

LEMMA UnpinPageInv ==
    ASSUME IInv, NEW t \in Threads, UnpinPage(t)
    PROVE  IInv'
<1>1. /\ StateOK(Memory, th, open, lock) /\ open \in SUBSET Pools /\ th \in [Threads -> ThreadRec]
      /\ IsMem(Memory) /\ MemOK(Memory, open) /\ lock \in [Pools -> Threads \cup {Free}] /\ log \in Seq(Entry)
  BY StateNow
<1>2. PICK k, f, h2, r : k = th[t].key /\ f = Memory /\ h2 = th' /\ r = Idle
  OBVIOUS
<1>3. /\ th[t].pc = "hold" /\ mode = "run" /\ SetMemory(Unpin(Memory, k)) /\ Go(t, "idle")
      /\ UNCHANGED <<lock, open, log, mode, redo>>
  BY <1>2 DEF UnpinPage, At
<1>4. StateOK(f, th, open, lock) /\ IsMem(f) /\ ThreadOK(th[t], t, f, open, lock)
  BY <1>1, <1>2 DEF StateOK
<1>5. k \in DOMAIN f.frame /\ At1(th[t], k)
  BY <1>2, <1>3, <1>4 DEF ThreadOK, At1
<1>6. r \in ThreadRec /\ r.pc = "idle" /\ Becomes(th, h2, t, r)
  BY <1>1, <1>2, <1>3, IdleType, GoIs
<1>7. PICK g : g = Unpin(f, k)
  OBVIOUS
<1>8. StateOK(g, h2, open, lock)
  BY <1>1, <1>4, <1>5, <1>6, <1>7, UnpinStep
<1>9. Memory' = g
  BY <1>2, <1>3, <1>7, <1>8, SetMemoryIs DEF StateOK
<1> QED BY <1>1, <1>2, <1>3, <1>6, <1>8, <1>9, ThreadInv

LEMMA CloseFileInv ==
    ASSUME IInv, NEW b \in Pools, CloseFile(b)
    PROVE  IInv'
<1>1. /\ StateOK(Memory, th, open, lock) /\ open \in SUBSET Pools /\ IsMem(Memory)
  BY StateNow
<1>2. /\ mode = "run" /\ b \in open /\ (\A t \in Threads : th[t].pc = "idle" \/ th[t].key[1] # b)
      /\ SetMemory(PurgeAll(Memory, b)) /\ open' = open \ {b} /\ UNCHANGED <<lock, log, th, mode, redo>>
  BY DEF CloseFile
<1>3. PICK op2 \in SUBSET Pools : op2 = open \ {b}
  BY <1>1
<1>4. PICK f, g : f = Memory /\ g = PurgeAll(f, b)
  OBVIOUS
<1>5. StateOK(f, th, open, lock)
  BY <1>1, <1>4
<1>6. StateOK(g, th, op2, lock)
  BY <1>1, <1>2, <1>3, <1>4, <1>5, CloseStep
<1>7. Memory' = g
  BY <1>2, <1>4, <1>6, SetMemoryIs DEF StateOK
<1> QED BY <1>2, <1>3, <1>6, <1>7 DEF IInv, TypeInv, QuietInv

LEMMA OpenFileInv ==
    ASSUME IInv, NEW b \in Pools, OpenFile(b)
    PROVE  IInv'
<1>1. /\ StateOK(Memory, th, open, lock) /\ open \in SUBSET Pools
  BY StateNow
<1>2. /\ mode = "run" /\ b \notin open /\ open' = open \cup {b} /\ UNCHANGED <<lock, log, th, mode, redo>>
  BY DEF OpenFile
<1>3. PICK op2 \in SUBSET Pools : op2 = open \cup {b}
  BY <1>1
<1>4. PICK f : f = Memory
  OBVIOUS
<1>5. PICK e \in MakeRoom(f, b) : SetMemory(LoadPage(Alloc(e, <<b, Header>>), <<b, Header>>))
  BY <1>4 DEF OpenFile
<1>6. StateOK(f, th, open, lock)
  BY <1>1, <1>4
<1>7. StateOK(e, th, open, lock) /\ e.frees # <<>>
  BY <1>1, <1>6, MakeRoomStep
<1>8. PICK g : g = LoadPage(Alloc(e, <<b, Header>>), <<b, Header>>)
  OBVIOUS
<1>9. StateOK(g, th, op2, lock)
  BY <1>1, <1>2, <1>3, <1>7, <1>8, OpenStep
<1>10. Memory' = g
  BY <1>5, <1>8, <1>9, SetMemoryIs DEF StateOK
<1> QED BY <1>2, <1>3, <1>9, <1>10 DEF IInv, TypeInv, QuietInv

LEMMA IdleThreads ==
    ASSUME NEW h, h = [t \in Threads |-> Idle]
    PROVE  h \in [Threads -> ThreadRec] /\ AllIdle(h)
  BY IdleType DEF AllIdle

LEMMA CrashInv ==
    ASSUME IInv, Crash
    PROVE  IInv'
<1>1. /\ IsMem(Memory) /\ MemOK(Memory, open) /\ log \in Seq(Entry)
  BY StateNow
<1>2. PICK n \in 0..Len(log) : log' = SubSeq(log, 1, n)
  BY DEF Crash
<1>3. /\ frame' = OpenAll(store) /\ frees' = OpenedFrees /\ store' = store /\ open' = Pools
      /\ lock' = [b \in Pools |-> Free] /\ th' = [t \in Threads |-> Idle] /\ mode' = "redo" /\ redo' = 1
  BY DEF Crash
<1>4. log' \in Seq(Entry)
  <2>1. n \in Int /\ \A i \in 1..n : log[i] \in Entry
    BY <1>1
  <2> QED BY <1>2, <2>1, SubSeqProperties
<1>5. PICK g, h2, lk2 : g = Memory' /\ h2 = th' /\ lk2 = lock'
  OBVIOUS
<1>6. h2 \in [Threads -> ThreadRec] /\ AllIdle(h2)
  BY <1>3, <1>5, IdleThreads
<1>7. IsMem(g) /\ StoreOK(g.store) /\ g.frame = OpenAll(g.store) /\ g.frees = OpenedFrees
  BY <1>1, <1>3, <1>5, MemoryIs, MemoryNext DEF MemOK
<1>8. StateOK(g, h2, Pools, lk2)
  BY <1>6, <1>7, OpenedOK
<1>9. lk2 \in [Pools -> Threads \cup {Free}]
  BY <1>3, <1>5
<1> QED BY <1>3, <1>4, <1>5, <1>6, <1>8, <1>9 DEF IInv, TypeInv, QuietInv, AllIdle

LEMMA ReplayInv ==
    ASSUME IInv, Replay
    PROVE  IInv'
<1>1. /\ StateOK(Memory, th, open, lock) /\ IsMem(Memory) /\ MemOK(Memory, open) /\ log \in Seq(Entry)
      /\ Pools \in SUBSET Pools
  BY StateNow
<1>2. /\ mode = "redo" /\ redo <= Len(log) /\ UNCHANGED <<lock, open, log, th>> /\ redo \in Nat \ {0}
  BY DEF Replay, IInv, TypeInv
<1>3. open = Pools /\ AllIdle(th)
  BY <1>2 DEF IInv, QuietInv, AllIdle
<1>4. PICK e \in Entry : e = log[redo]
  BY <1>1, <1>2
<1>5. PICK f : f = Memory
  OBVIOUS
<1>6. QuietOK(f)
  BY <1>1, <1>3, <1>5, QuietState DEF QuietOK
<1>7. CASE mode' = "failed" /\ UNCHANGED <<memory, store, durable, lost, redo>>
  <2>1. Memory' = Memory
    BY <1>7, MemoryKept
  <2> QED BY <1>1, <1>2, <1>3, <1>7, <2>1 DEF IInv, TypeInv, QuietInv
<1>8. CASE /\ ~RedoFails(f, e, redo) /\ redo' = redo + 1 /\ (\E g \in Redo(f, e, redo) : SetMemory(g))
           /\ UNCHANGED mode
  <2>1. PICK g \in Redo(f, e, redo) : SetMemory(g)
    BY <1>8
  <2>2. PICK k \in Pages, b \in Pools, n \in 1..(MaxPageNum - 1), lsn \in Nat :
           k = e.key /\ b = k[1] /\ n = k[2] /\ lsn = redo
    BY <1>2, <1>4 DEF Entry, Pages
  <2>3. QuietOK(g)
    <3>1. CASE e.op = "allocate"
      <4>1. g = RedoAllocate(f, b, n, lsn)
        BY <2>1, <2>2, <3>1 DEF Redo
      <4>2. ~(f.frame[<<b, Header>>].data.lsn < lsn
               /\ (n > CountOf(f, b) \/ (n = CountOf(f, b) /\ CountOf(f, b) >= MaxPageNum)))
        BY <1>8, <2>2, <3>1 DEF RedoFails, CountOf
      <4> QED BY <1>6, <4>1, <4>2, RedoAllocateOK
    <3>2. CASE e.op = "deallocate"
      <4>1. g = RedoDeallocate(f, b, n, lsn)
        BY <2>1, <2>2, <3>2 DEF Redo
      <4> QED BY <1>6, <4>1, RedoDeallocateOK
    <3>3. CASE e.op = "write"
      <4>1. PICK a \in Fetch(f, k) : g = RedoWrite(a, k, lsn)
        BY <2>1, <2>2, <3>3 DEF Redo
      <4> QED BY <1>3, <1>6, <4>1, RedoWriteOK
    <3> QED BY <3>1, <3>2, <3>3 DEF Entry
  <2>4. StateOK(g, th, Pools, lock)
    BY <1>1, <1>3, <2>3, QuietState DEF QuietOK
  <2>5. Memory' = g
    BY <2>1, <2>3, SetMemoryIs DEF QuietOK
  <2> QED BY <1>2, <1>3, <1>8, <2>4, <2>5 DEF IInv, TypeInv, QuietInv
<1> QED BY <1>4, <1>5, <1>7, <1>8 DEF Replay

LEMMA RecoveredInv ==
    ASSUME IInv, Recovered
    PROVE  IInv'
<1>1. Memory' = Memory /\ mode' = "run" /\ UNCHANGED <<lock, open, log, th, redo>>
  BY MemoryKept DEF Recovered, disk
<1> QED BY <1>1 DEF IInv, TypeInv, QuietInv

LEMMA InitInv ==
    ASSUME Init
    PROVE  IInv
<1>1. /\ store = [k \in Keys |-> IF k[2] = Header THEN FileHeader(k[1])
                                ELSE IF k[2] < InitCount[k[1]] THEN 0 ELSE Absent]
      /\ frame = OpenAll(store) /\ frees = OpenedFrees /\ lock = [b \in Pools |-> Free] /\ open = Pools
      /\ log = <<>> /\ th = [t \in Threads |-> Idle] /\ mode = "run" /\ redo = 1
  BY DEF Init
<1>2. ASSUME NEW b \in Pools PROVE HeaderOK(FileHeader(b)) /\ FileHeader(b) \in Datum
  <2>1. InitCount[b] \in 1..MaxPageNum /\ InitBits[b] \subseteq 1..(InitCount[b] - 1)
    BY BufferPoolAssumption
  <2>2. PICK B \in SUBSET Nat : B = {Header} \cup InitBits[b]
    <3>1. {Header} \cup InitBits[b] \in SUBSET Nat
      BY BufferPoolAssumption DEF Header
    <3> QED BY <3>1
  <2>3. B \subseteq 0..(InitCount[b] - 1) /\ Header \in B
    BY <2>1, <2>2, BufferPoolAssumption DEF Header
  <2> QED BY <2>1, <2>2, <2>3 DEF FileHeader, HeaderOK, FileHdr, Datum
<1>3. ASSUME NEW k \in Keys PROVE store[k] \in Datum /\ Fits(k, store[k])
  <2>1. k[1] \in Pools
    BY DEF Keys
  <2>2. CASE k[2] = Header
    BY <1>1, <1>2, <2>1, <2>2 DEF Fits
  <2>3. CASE k[2] # Header
    <3>1. store[k] = 0 \/ store[k] = -1
      BY <1>1, <2>3 DEF Absent
    <3>2. store[k] \in Int
      BY <3>1
    <3> QED BY <2>3, <3>2 DEF Fits, Datum
  <2> QED BY <2>2, <2>3
<1>4. StoreOK(store)
  <2>1. store \in [Keys -> Datum]
    BY <1>1, <1>3
  <2>2. ASSUME NEW b \in Pools PROVE HeaderOK(store[<<b, Header>>])
    <3>1. <<b, Header>> \in Keys /\ <<b, Header>>[2] = Header
      BY BufferPoolAssumption DEF Keys, Header
    <3> QED BY <1>3, <3>1 DEF Fits
  <2> QED BY <1>3, <2>1, <2>2 DEF StoreOK, Fits
<1>5. th \in [Threads -> ThreadRec] /\ AllIdle(th)
  BY <1>1, IdleThreads
<1>6. StateOK(Memory, th, Pools, lock)
  BY <1>1, <1>4, <1>5, MemoryIs, OpenedOK
<1> QED BY <1>1, <1>5, <1>6 DEF IInv, TypeInv, QuietInv

LEMMA StepInv ==
    ASSUME IInv, [Next]_vars
    PROVE  IInv'
<1>1. CASE UNCHANGED vars
  <2>1. Memory' = Memory /\ UNCHANGED <<lock, open, log, th, mode, redo>>
    BY <1>1, MemoryKept DEF vars, disk, history
  <2> QED BY <2>1 DEF IInv, TypeInv, QuietInv
<1>2. ASSUME NEW t \in Threads, NEW k \in Keys, Get(t, k) \/ Dispose(t, k) PROVE IInv'
  BY <1>2, GetInv, DisposeInv
<1>3. ASSUME NEW t \in Threads, NEW b \in Pools, AllocateFreePage(t, b) \/ BeginExtend(t, b) PROVE IInv'
  BY <1>3, AllocateFreePageInv, BeginExtendInv
<1>4. ASSUME NEW t \in Threads, Lookup(t) \/ AllocateFrame(t) \/ Load(t) \/ Extend(t) PROVE IInv'
  BY <1>4, LookupInv, AllocateFrameInv, LoadInv, ExtendInv
<1>5. ASSUME NEW t \in Threads, Modify(t) \/ UnpinPage(t) PROVE IInv'
  BY <1>5, ModifyInv, UnpinPageInv
<1>6. ASSUME NEW b \in Pools, CloseFile(b) \/ OpenFile(b) PROVE IInv'
  BY <1>6, CloseFileInv, OpenFileInv
<1>7. CASE Crash \/ Replay \/ Recovered
  BY <1>7, CrashInv, ReplayInv, RecoveredInv
<1> QED BY <1>1, <1>2, <1>3, <1>4, <1>5, <1>6, <1>7 DEF Next

\* The invariant gives the pins of every frame whose page is in the file, and of the headers.
LEMMA PinsFromInv ==
    ASSUME IInv
    PROVE  PinsExact
<1>1. StateOK(Memory, th, open, lock) /\ Memory.frame = frame /\ Memory.store = store
  BY StateNow, MemoryIs
<1>2. ASSUME NEW t \in Threads, th[t].pc = "hold" PROVE th[t].key \in Resident
  BY <1>1, <1>2 DEF StateOK, ThreadOK, Resident
<1>3. ASSUME NEW k \in Resident, ~(k[2] # Header /\ store[k] = Absent)
      PROVE  frame[k].pin = Cardinality(Users(k)) + (IF k[2] = Header THEN 1 ELSE 0)
  <2>1. PinOK(Memory, th, k) /\ Exact(Memory, k)
    BY <1>1, <1>3 DEF StateOK, Resident, Exact
  <2>2. UsersIn(th, k) = Users(k)
    BY DEF UsersIn, Users, At1
  <2> QED BY <1>1, <2>1, <2>2 DEF PinOK, Own
<1> QED BY <1>2, <1>3 DEF PinsExact

\* Whatever threads fetch, allocate, change, dispose of and let go, and however files are closed,
\* opened and recovered: a frame is pinned exactly as often as threads use its page, and once
\* more if it is a header.  So none is purged or freed under a thread (pin, unpin, purge_frames,
\* free_internal).
THEOREM PinsAlwaysExact == Spec => []PinsExact
<1>1. Init => IInv
  BY InitInv
<1>2. IInv /\ [Next]_vars => IInv'
  BY StepInv
<1>3. IInv => PinsExact
  BY PinsFromInv
<1> QED BY <1>1, <1>2, <1>3, PTL DEF Spec

-----------------------------------------------------------------------------
(***************************************************************************)
(* No frame is lost: the frames in use and the free ones are all there     *)
(* are, so that a frame can be had while threads hold fewer pages than     *)
(* there are frames beside the headers.                                    *)
(***************************************************************************)
FramesAll(f) == IsFiniteSet(DOMAIN f.frame) /\ Cardinality(DOMAIN f.frame) + Len(f.frees) = FrameNum
Counted(f)   == IsMem(f) /\ f.frees \in Seq(BOOLEAN) /\ FramesAll(f)

LEMMA SameFrames ==
    ASSUME NEW f, NEW g,
           Counted(f), IsMem(g), DOMAIN g.frame = DOMAIN f.frame, g.frees = f.frees
    PROVE  Counted(g)
  BY DEF Counted, FramesAll

LEMMA PinCount == ASSUME NEW f, NEW k, Counted(f) PROVE Counted(Pin(f, k)) /\ Counted(Unpin(f, k))
<1>0. IsMem(f)
  BY DEF Counted
<1>1. PICK g, h : g = Pin(f, k) /\ h = Unpin(f, k)
  OBVIOUS
<1>2. IsMem(g) /\ g.frame = [f.frame EXCEPT ![k].pin = @ + 1] /\ g.frees = f.frees
  BY <1>0, <1>1, PinIs
<1>3. IsMem(h) /\ h.frame = [f.frame EXCEPT ![k].pin = @ - 1] /\ h.frees = f.frees
  BY <1>0, <1>1, UnpinIs
<1>4. DOMAIN g.frame = DOMAIN f.frame /\ DOMAIN h.frame = DOMAIN f.frame
  BY <1>2, <1>3
<1> QED BY <1>1, <1>2, <1>3, <1>4, SameFrames

LEMMA FlushCount == ASSUME NEW f, NEW k, Counted(f) PROVE Counted(FlushInternal(f, k))
<1>0. IsMem(f)
  BY DEF Counted
<1>1. PICK g : g = FlushInternal(f, k)
  OBVIOUS
<1>2. IsMem(g) /\ g.frame = [f.frame EXCEPT ![k].dirty = FALSE] /\ g.frees = f.frees
  BY <1>0, <1>1, FlushIs
<1>3. DOMAIN g.frame = DOMAIN f.frame
  BY <1>2
<1> QED BY <1>1, <1>2, <1>3, SameFrames

LEMMA LoadCount == ASSUME NEW f, NEW k, Counted(f) PROVE Counted(LoadPage(f, k))
<1>0. IsMem(f)
  BY DEF Counted
<1>1. PICK g : g = LoadPage(f, k)
  OBVIOUS
<1>2. IsMem(g) /\ g.frame = [f.frame EXCEPT ![k].data = f.store[k]] /\ g.frees = f.frees
  BY <1>0, <1>1, LoadIs
<1>3. DOMAIN g.frame = DOMAIN f.frame
  BY <1>2
<1> QED BY <1>1, <1>2, <1>3, SameFrames

LEMMA DropCount == ASSUME NEW f, NEW k, Counted(f) PROVE Counted(Drop(f, k))
  BY DropIs, SameFrames DEF Counted

LEMMA HeaderCount == ASSUME NEW f, NEW b, NEW h, Counted(f) PROVE Counted(SetHeader(f, b, h))
<1>0. IsMem(f)
  BY DEF Counted
<1>1. PICK g, q : g = SetHeader(f, b, h) /\ q = Dirtied(f.frame[<<b, Header>>], h)
  OBVIOUS
<1>2. IsMem(g) /\ g.frame = Put(f.frame, <<b, Header>>, q) /\ g.frees = f.frees
  BY <1>0, <1>1, SetHeaderIs
<1>3. DOMAIN g.frame = DOMAIN f.frame
  BY <1>2 DEF Put
<1> QED BY <1>1, <1>2, <1>3, SameFrames

LEMMA AllocCount ==
    ASSUME NEW f, NEW k,
           Counted(f), f.frees # <<>>, k \notin DOMAIN f.frame
    PROVE  Counted(Alloc(f, k))
<1>1. PICK g : g = Alloc(f, k)
  OBVIOUS
<1>2. IsMem(g) /\ DOMAIN g.frame = DOMAIN f.frame \cup {k} /\ g.frees = Tail(f.frees)
  <2>1. IsMem(f)
    BY DEF Counted
  <2>2. PICK q : q = [data |-> 0, dirty |-> Head(f.frees), pin |-> 1]
    OBVIOUS
  <2>3. IsMem(g) /\ g.frame = Add(f.frame, k, q) /\ g.frees = Tail(f.frees)
    BY <1>1, <2>1, <2>2, AllocIs
  <2> QED BY <2>3 DEF Add
<1>3. IsFiniteSet(DOMAIN g.frame) /\ Cardinality(DOMAIN g.frame) = Cardinality(DOMAIN f.frame) + 1
  BY <1>2, FS_AddElement DEF Counted, FramesAll
<1>4. g.frees \in Seq(BOOLEAN) /\ Len(g.frees) = Len(f.frees) - 1 /\ Len(f.frees) \in Nat
  <2>1. PICK s \in Seq(BOOLEAN) : s = f.frees
    BY DEF Counted
  <2>2. s # <<>> /\ Len(s) \in Nat
    BY <2>1
  <2>3. Tail(s) \in Seq(BOOLEAN) /\ Len(Tail(s)) = Len(s) - 1
    BY <2>1, <2>2, HeadTailProperties
  <2> QED BY <1>2, <2>1, <2>2, <2>3
<1>5. Cardinality(DOMAIN f.frame) \in Nat
  BY FS_CardinalityType DEF Counted, FramesAll
<1> QED BY <1>1, <1>2, <1>3, <1>4, <1>5 DEF Counted, FramesAll

\* Frame k is freed.
LEMMA FreeCount ==
    ASSUME NEW f, NEW k,
           Counted(f), k \in DOMAIN f.frame, f.frame[k] \in FrameRec
    PROVE  Counted(FreeFrame(f, k))
<1>1. PICK g : g = FreeFrame(f, k)
  OBVIOUS
<1>2. IsMem(g) /\ DOMAIN g.frame = DOMAIN f.frame \ {k} /\ g.frees = Append(f.frees, f.frame[k].dirty)
  <2>1. IsMem(g) /\ g.frame = Without(f.frame, {k}) /\ g.frees = Append(f.frees, f.frame[k].dirty)
    BY <1>1, FreeIs DEF Counted
  <2> QED BY <2>1 DEF Without
<1>3. IsFiniteSet(DOMAIN g.frame) /\ Cardinality(DOMAIN g.frame) = Cardinality(DOMAIN f.frame) - 1
  BY <1>2, FS_RemoveElement DEF Counted, FramesAll
<1>4. g.frees \in Seq(BOOLEAN) /\ Len(g.frees) = Len(f.frees) + 1 /\ Len(f.frees) \in Nat
  <2>1. PICK s \in Seq(BOOLEAN), d \in BOOLEAN : s = f.frees /\ d = f.frame[k].dirty
    BY DEF Counted, FrameRec
  <2> QED BY <1>2, <2>1
<1>5. Cardinality(DOMAIN f.frame) \in Nat
  BY FS_CardinalityType DEF Counted, FramesAll
<1>6. Cardinality(DOMAIN f.frame) + Len(f.frees) = FrameNum
  BY DEF Counted, FramesAll
<1>7. Cardinality(DOMAIN g.frame) + Len(g.frees) = FrameNum
  BY <1>3, <1>4, <1>5, <1>6
<1> QED BY <1>1, <1>2, <1>3, <1>4, <1>7 DEF Counted, FramesAll

LEMMA FlushFreeCount ==
    ASSUME NEW f, NEW k,
           Counted(f), k \in DOMAIN f.frame, f.frame[k] \in FrameRec
    PROVE  Counted(FreeFrame(FlushInternal(f, k), k))
<1>1. PICK e : e = FlushInternal(f, k)
  OBVIOUS
<1>2. Counted(e)
  BY <1>1, FlushCount
<1>3. k \in DOMAIN e.frame /\ e.frame[k] \in FrameRec
  <2>1. e.frame = [f.frame EXCEPT ![k].dirty = FALSE]
    BY <1>1, FlushIs DEF Counted
  <2>2. e.frame[k] = [f.frame[k] EXCEPT !.dirty = FALSE]
    BY <2>1
  <2> QED BY <2>1, <2>2 DEF FrameRec
<1> QED BY <1>1, <1>2, <1>3, FreeCount

LEMMA PurgeCount ==
    ASSUME NEW f, NEW b, NEW k,
           Counted(f), k \in DOMAIN f.frame, f.frame[k] \in FrameRec
    PROVE  Counted(Purge(f, b, k))
<1>1. CASE ~f.frame[k].dirty
  BY <1>1, FreeCount DEF Purge
<1>2. CASE f.frame[k].dirty /\ k[1] = b
  BY <1>2, FlushFreeCount DEF Purge
<1>3. CASE f.frame[k].dirty /\ k[1] # b
  <2>1. PICK e : e = Drop(f, k)
    OBVIOUS
  <2>2. Counted(e) /\ e.frame = f.frame
    BY <2>1, DropCount, DropIs DEF Counted
  <2>3. Counted(FreeFrame(e, k))
    BY <2>2, FreeCount
  <2> QED BY <1>3, <2>1, <2>3 DEF Purge
<1> QED BY <1>1, <1>2, <1>3

LEMMA PurgeFrameCount ==
    ASSUME NEW f, NEW k,
           Counted(f), k \in DOMAIN f.frame, f.frame[k] \in FrameRec
    PROVE  Counted(PurgeFrame(f, k))
<1>1. CASE f.frame[k].pin # 1
  BY <1>1 DEF PurgeFrame
<1>2. CASE f.frame[k].pin = 1 /\ f.frame[k].dirty
  BY <1>2, FlushFreeCount DEF PurgeFrame
<1>3. CASE f.frame[k].pin = 1 /\ ~f.frame[k].dirty
  BY <1>3, FreeCount DEF PurgeFrame
<1> QED BY <1>1, <1>2, <1>3

LEMMA RecIs ==
    ASSUME NEW op \in SUBSET Pools, NEW f, NEW k \in DOMAIN f.frame,
           MemOK(f, op)
    PROVE  f.frame[k] \in FrameRec
  BY DEF MemOK, FramesOK

LEMMA MakeRoomCount ==
    ASSUME NEW op \in SUBSET Pools, NEW f, NEW b, NEW g \in MakeRoom(f, b),
           Counted(f), MemOK(f, op)
    PROVE  Counted(g)
<1>1. CASE f.frees # <<>>
  BY <1>1 DEF MakeRoom
<1>2. CASE f.frees = <<>>
  <2>1. PICK v \in Victims(f) : g = Purge(f, b, v)
    BY <1>2 DEF MakeRoom
  <2>2. v \in DOMAIN f.frame
    BY <2>1 DEF Victims
  <2> QED BY <2>1, <2>2, PurgeCount, RecIs
<1> QED BY <1>1, <1>2

\* A page is fetched by the replay, and changed.
LEMMA FetchCount ==
    ASSUME NEW op \in SUBSET Pools, NEW h, NEW lk, NEW f, NEW k, NEW g \in Fetch(f, k),
           Counted(f), StateOK(f, h, op, lk)
    PROVE  Counted(g)
<1>1. CASE k \in DOMAIN f.frame
  BY <1>1, PinCount DEF Fetch
<1>2. CASE k \notin DOMAIN f.frame
  <2>1. PICK e \in MakeRoom(f, k[1]) : g = LoadPage(Alloc(e, k), k)
    BY <1>2 DEF Fetch
  <2>2. Counted(e)
    BY MakeRoomCount DEF StateOK
  <2>3. e.frees # <<>> /\ k \notin DOMAIN e.frame
    BY <1>2, MakeRoomStep
  <2> QED BY <2>1, <2>2, <2>3, AllocCount, LoadCount
<1> QED BY <1>1, <1>2

LEMMA RedoWriteCount ==
    ASSUME NEW g, NEW k, NEW lsn,
           Counted(g)
    PROVE  Counted(RedoWrite(g, k, lsn))
<1>1. PICK e : e = [g EXCEPT !.frame[k].data = lsn, !.frame[k].dirty = TRUE]
  OBVIOUS
<1>2. Counted(e)
  <2>0. IsMem(g)
    BY DEF Counted
  <2>1. PICK x : x = [g.frame EXCEPT ![k].data = lsn]
    OBVIOUS
  <2>2. PICK c : c = [g EXCEPT !.frame = x]
    OBVIOUS
  <2>3. IsMem(c) /\ c.frame = x /\ c.frees = g.frees
    BY <2>0, <2>2 DEF IsMem
  <2>4. PICK y : y = [x EXCEPT ![k].dirty = TRUE]
    OBVIOUS
  <2>5. PICK d : d = [c EXCEPT !.frame = y]
    OBVIOUS
  <2>6. IsMem(d) /\ d.frame = y /\ d.frees = g.frees
    BY <2>3, <2>5 DEF IsMem
  <2>7. DOMAIN y = DOMAIN g.frame
    BY <2>1, <2>4
  <2>8. c = [g EXCEPT !.frame[k].data = lsn]
    BY <2>1, <2>2
  <2>9. d = [c EXCEPT !.frame[k].dirty = TRUE]
    BY <2>3, <2>4, <2>5
  <2>10. e = d
    BY <1>1, <2>8, <2>9
  <2> QED BY <2>6, <2>7, <2>10, SameFrames
<1> QED BY <1>1, <1>2, PinCount DEF RedoWrite

LEMMA RedoCount ==
    ASSUME NEW op \in SUBSET Pools, NEW h, NEW lk, NEW f, NEW e \in Entry, NEW lsn, NEW g \in Redo(f, e, lsn),
           Counted(f), StateOK(f, h, op, lk)
    PROVE  Counted(g)
<1>1. CASE e.op = "allocate"
  <2>1. g = RedoAllocate(f, e.key[1], e.key[2], lsn)
    BY <1>1 DEF Redo
  <2> QED BY <2>1, HeaderCount DEF RedoAllocate
<1>2. CASE e.op = "deallocate"
  <2>1. g = RedoDeallocate(f, e.key[1], e.key[2], lsn)
    BY <1>2 DEF Redo
  <2> QED BY <2>1, HeaderCount DEF RedoDeallocate
<1>3. CASE e.op = "write"
  <2>1. PICK a \in Fetch(f, e.key) : g = RedoWrite(a, e.key, lsn)
    BY <1>3 DEF Redo
  <2>2. Counted(a)
    BY FetchCount
  <2> QED BY <2>1, <2>2, RedoWriteCount
<1> QED BY <1>1, <1>2, <1>3 DEF Entry

\* All frames of a file are freed; all files are opened.
LEMMA CloseCount ==
    ASSUME NEW f, NEW b,
           Counted(f)
    PROVE  Counted(PurgeAll(f, b))
<1>1. PICK g, S : g = PurgeAll(f, b) /\ S = PagesOf(f, b)
  OBVIOUS
<1>2. IsMem(g) /\ g.frame = Without(f.frame, S) /\ g.frees = f.frees \o PoolInit(Cardinality(S))
  BY <1>1, PurgeAllIs DEF Counted
<1>3. S \subseteq DOMAIN f.frame /\ DOMAIN g.frame = DOMAIN f.frame \ S
  BY <1>1, <1>2 DEF PagesOf, Without
<1>4. PICK D, n, c : D = DOMAIN f.frame /\ n = Cardinality(S) /\ c = Cardinality(D)
  OBVIOUS
<1>5. IsFiniteSet(D) /\ c + Len(f.frees) = FrameNum /\ f.frees \in Seq(BOOLEAN)
  BY <1>4 DEF Counted, FramesAll
<1>6. IsFiniteSet(S) /\ n \in Nat /\ c \in Nat
  BY <1>3, <1>4, <1>5, FS_Subset, FS_CardinalityType
<1>7. IsFiniteSet(D \ S) /\ Cardinality(D \ S) = c - n
  <2>1. IsFiniteSet(D \ S) /\ Cardinality(D \ S) = Cardinality(D) - Cardinality(D \cap S)
    BY <1>5, FS_Difference
  <2>2. D \cap S = S
    BY <1>3, <1>4
  <2> QED BY <1>4, <2>1, <2>2
<1>8. g.frees \in Seq(BOOLEAN) /\ Len(g.frees) = Len(f.frees) + n
  <2>1. PICK s, z : s = f.frees /\ z = PoolInit(n)
    OBVIOUS
  <2>2. z \in Seq(BOOLEAN)
    BY <1>6, <2>1, PoolInitIs
  <2>3. Len(z) = n
    BY <1>6, <2>1 DEF PoolInit
  <2>4. s \o z \in Seq(BOOLEAN) /\ Len(s \o z) = Len(s) + Len(z)
    BY <1>5, <2>1, <2>2
  <2> QED BY <1>2, <1>4, <2>1, <2>3, <2>4
<1>9. Len(f.frees) \in Nat
  BY <1>5
<1>10. Cardinality(DOMAIN g.frame) + Len(g.frees) = FrameNum
  BY <1>3, <1>4, <1>5, <1>6, <1>7, <1>8, <1>9
<1> QED BY <1>1, <1>2, <1>3, <1>4, <1>7, <1>8, <1>10 DEF Counted, FramesAll

\* The headers of some files.
LEMMA HeadersCount ==
    ASSUME NEW B \in SUBSET Pools
    PROVE  LET H == {<<b, Header>> : b \in B}
           IN  IsFiniteSet(H) /\ Cardinality(H) = Cardinality(B) /\ Cardinality(B) \in Nat
<1>1. PICK H : H = {<<b, Header>> : b \in B}
  OBVIOUS
<1>2. PICK f : f = [b \in B |-> <<b, Header>>]
  OBVIOUS
<1>3. f \in Surjection(B, H) /\ f \in Injection(B, H)
  BY <1>1, <1>2 DEF Surjection, Injection, IsInjective
<1>4. IsFiniteSet(B) /\ Cardinality(B) \in Nat
  BY BufferPoolAssumption, FS_Subset, FS_CardinalityType
<1>5. IsFiniteSet(H) /\ Cardinality(H) = Cardinality(B)
  BY <1>3, <1>4, FS_Surjection
<1> QED BY <1>1, <1>4, <1>5

LEMMA OpenedCount ==
    ASSUME NEW f,
           IsMem(f), f.frame = OpenAll(f.store), f.frees = OpenedFrees
    PROVE  Counted(f)
<1>1. DOMAIN f.frame = {<<b, Header>> : b \in Pools}
  BY DEF OpenAll, Headers
<1>2. PICK n : n = FrameNum - Cardinality(Pools)
  OBVIOUS
<1>3. IsFiniteSet(DOMAIN f.frame) /\ Cardinality(DOMAIN f.frame) = Cardinality(Pools) /\ Cardinality(Pools) \in Nat
  BY <1>1, HeadersCount
<1>4. n \in Nat
  <2>1. Cardinality(Threads) \in Nat
    BY BufferPoolAssumption, FS_CardinalityType
  <2> QED BY <1>2, <1>3, <2>1, BufferPoolAssumption
<1>5. f.frees \in Seq(BOOLEAN)
  BY <1>2, <1>4, PoolInitIs DEF OpenedFrees
<1>6. Len(f.frees) = n
  BY <1>2, <1>4 DEF OpenedFrees, PoolInit
<1>7. Cardinality(DOMAIN f.frame) + Len(f.frees) = FrameNum
  BY <1>2, <1>3, <1>6, BufferPoolAssumption
<1> QED BY <1>3, <1>5, <1>7 DEF Counted, FramesAll

-----------------------------------------------------------------------------
(***************************************************************************)
(* Every step keeps the count.                                             *)
(***************************************************************************)
FrameInv == Counted(Memory) /\ (log # <<>> => Threads # {})

LEMMA SetCount == ASSUME NEW g, Counted(g), SetMemory(g) PROVE Counted(Memory)'
<1>1. Memory' = g
  BY SetMemoryIs DEF Counted
<1> QED BY <1>1

LEMMA KeptCount == ASSUME FrameInv, UNCHANGED <<memory, store, durable, lost>> PROVE Counted(Memory)'
<1>1. Memory' = Memory
  BY MemoryKept
<1> QED BY <1>1 DEF FrameInv

LEMMA FindCount == ASSUME FrameInv, NEW t \in Threads, NEW k, Find(t, k) PROVE Counted(Memory)'
<1>1. CASE SetMemory(Pin(Memory, k))
  BY <1>1, PinCount, SetCount DEF FrameInv
<1>2. CASE UNCHANGED <<memory, store, durable, lost>>
  BY <1>2, KeptCount
<1> QED BY <1>1, <1>2 DEF Find

LEMMA AllocateFrameCount == ASSUME IInv, FrameInv, NEW t \in Threads, AllocateFrame(t) PROVE Counted(Memory)'
<1>1. PICK k : k = th[t].key
  OBVIOUS
<1>2. MemOK(Memory, open) /\ open \in SUBSET Pools /\ Counted(Memory)
  BY StateNow DEF FrameInv
<1>3. CASE SetMemory(Pin(Memory, k))
  BY <1>2, <1>3, PinCount, SetCount
<1>4. CASE k \notin Resident /\ frees # <<>> /\ SetMemory(Alloc(Memory, k))
  <2>1. k \notin DOMAIN Memory.frame /\ Memory.frees # <<>>
    BY <1>4, MemoryIs DEF Resident
  <2> QED BY <1>2, <1>4, <2>1, AllocCount, SetCount
<1>5. CASE \E v \in Victims(Memory) : SetMemory(Purge(Memory, k[1], v))
  <2>1. PICK v \in Victims(Memory) : SetMemory(Purge(Memory, k[1], v))
    BY <1>5
  <2>2. v \in DOMAIN Memory.frame
    BY DEF Victims
  <2>3. Memory.frame[v] \in FrameRec
    BY <1>2, <2>2, RecIs
  <2> QED BY <1>2, <2>1, <2>2, <2>3, PurgeCount, SetCount
<1> QED BY <1>1, <1>3, <1>4, <1>5 DEF AllocateFrame

LEMMA LoadActionCount == ASSUME IInv, FrameInv, NEW t \in Threads, Load(t) PROVE Counted(Memory)'
<1>1. PICK k : k = th[t].key
  OBVIOUS
<1>2. MemOK(Memory, open) /\ open \in SUBSET Pools /\ Counted(Memory) /\ StateOK(Memory, th, open, lock)
  BY StateNow DEF FrameInv
<1>3. CASE SetMemory(LoadPage(Memory, k))
  BY <1>2, <1>3, LoadCount, SetCount
<1>4. CASE SetMemory(PurgeFrame(Memory, k))
  <2>1. th[t].pc = "load"
    BY DEF Load, At
  <2>2. k \in DOMAIN Memory.frame
    BY <1>1, <1>2, <2>1 DEF StateOK, ThreadOK
  <2>3. Memory.frame[k] \in FrameRec
    BY <1>2, <2>2, RecIs
  <2> QED BY <1>2, <1>4, <2>2, <2>3, PurgeFrameCount, SetCount
<1> QED BY <1>1, <1>3, <1>4 DEF Load

LEMMA ZeroCount == ASSUME NEW f, NEW k, Counted(f) PROVE Counted([f EXCEPT !.frame[k].data = 0])
<1>0. IsMem(f)
  BY DEF Counted
<1>1. PICK x : x = [f.frame EXCEPT ![k].data = 0]
  OBVIOUS
<1>2. PICK g : g = [f EXCEPT !.frame = x]
  OBVIOUS
<1>3. IsMem(g) /\ g.frame = x /\ g.frees = f.frees
  BY <1>0, <1>2 DEF IsMem
<1>4. DOMAIN x = DOMAIN f.frame
  BY <1>1
<1>5. [f EXCEPT !.frame[k].data = 0] = g
  BY <1>1, <1>2
<1> QED BY <1>3, <1>4, <1>5, SameFrames

LEMMA ChangeCount ==
    ASSUME FrameInv, DOMAIN frame' = DOMAIN frame, frees' = frees
    PROVE  Counted(Memory)'
<1>1. PICK g : g = Memory'
  OBVIOUS
<1>2. IsMem(g) /\ g.frame = frame' /\ g.frees = frees'
  BY <1>1 DEF Memory, IsMem
<1>3. DOMAIN g.frame = DOMAIN Memory.frame /\ g.frees = Memory.frees
  BY <1>2, MemoryIs
<1>4. Counted(g)
  BY <1>2, <1>3, SameFrames DEF FrameInv
<1> QED BY <1>1, <1>4

LEMMA HolderCount ==
    ASSUME IInv, FrameInv, NEW t \in Threads, Extend(t) \/ Modify(t) \/ UnpinPage(t)
    PROVE  Counted(Memory)'
<1>1. CASE Extend(t)
  <2>1. PICK k, b, h : SetMemory(FlushInternal([SetHeader(Memory, b, h) EXCEPT !.frame[k].data = 0], k))
    BY <1>1 DEF Extend
  <2>2. PICK e : e = SetHeader(Memory, b, h)
    OBVIOUS
  <2>3. Counted(e)
    BY <2>2, HeaderCount DEF FrameInv
  <2>4. PICK d : d = [e EXCEPT !.frame[k].data = 0]
    OBVIOUS
  <2>5. Counted(d)
    BY <2>3, <2>4, ZeroCount
  <2> QED BY <2>1, <2>2, <2>4, <2>5, FlushCount, SetCount
<1>2. CASE Modify(t)
  <2>1. DOMAIN frame' = DOMAIN frame /\ frees' = frees
    BY <1>2 DEF Modify
  <2> QED BY <2>1, ChangeCount
<1>3. CASE UnpinPage(t)
  <2>1. SetMemory(Unpin(Memory, th[t].key))
    BY <1>3 DEF UnpinPage
  <2> QED BY <2>1, PinCount, SetCount DEF FrameInv
<1> QED BY <1>1, <1>2, <1>3

LEMMA AllocateCount ==
    ASSUME IInv, FrameInv, NEW t \in Threads, NEW b \in Pools, AllocateFreePage(t, b) \/ BeginExtend(t, b)
    PROVE  Counted(Memory)'
<1>1. CASE AllocateFreePage(t, b)
  <2>1. PICK h : SetMemory(SetHeader(Memory, b, h))
    BY <1>1 DEF AllocateFreePage
  <2> QED BY <2>1, HeaderCount, SetCount DEF FrameInv
<1>2. CASE BeginExtend(t, b)
  <2>1. DOMAIN frame' = DOMAIN frame /\ frees' = frees
    BY <1>2 DEF BeginExtend
  <2> QED BY <2>1, ChangeCount
<1> QED BY <1>1, <1>2

LEMMA DisposeCount == ASSUME IInv, FrameInv, NEW t \in Threads, NEW k \in Keys, Dispose(t, k) PROVE Counted(Memory)'
<1>1. PICK e : e = IF k \in Resident THEN FreeFrame(Memory, k) ELSE Memory
  OBVIOUS
<1>2. PICK b, h : SetMemory(SetHeader(e, b, h))
  BY <1>1 DEF Dispose
<1>3. Counted(e)
  <2>1. CASE k \in Resident
    <3>1. k \in DOMAIN Memory.frame
      BY <2>1, MemoryIs DEF Resident
    <3>2. Memory.frame[k] \in FrameRec
      BY <3>1, StateNow, RecIs
    <3> QED BY <1>1, <2>1, <3>1, <3>2, FreeCount DEF FrameInv
  <2>2. CASE k \notin Resident
    BY <1>1, <2>2 DEF FrameInv
  <2> QED BY <2>1, <2>2
<1> QED BY <1>2, <1>3, HeaderCount, SetCount

LEMMA FilesCount == ASSUME IInv, FrameInv, NEW b \in Pools, CloseFile(b) \/ OpenFile(b) PROVE Counted(Memory)'
<1>1. MemOK(Memory, open) /\ open \in SUBSET Pools /\ Counted(Memory) /\ StateOK(Memory, th, open, lock)
  BY StateNow DEF FrameInv
<1>2. CASE CloseFile(b)
  <2>1. SetMemory(PurgeAll(Memory, b))
    BY <1>2 DEF CloseFile
  <2> QED BY <1>1, <2>1, CloseCount, SetCount
<1>3. CASE OpenFile(b)
  <2>1. PICK k : k = <<b, Header>>
    OBVIOUS
  <2>2. b \notin open /\ \E f \in MakeRoom(Memory, b) : SetMemory(LoadPage(Alloc(f, k), k))
    BY <1>3, <2>1 DEF OpenFile
  <2>3. PICK f \in MakeRoom(Memory, b) : SetMemory(LoadPage(Alloc(f, k), k))
    BY <2>2
  <2>4. k \notin DOMAIN Memory.frame
    BY <1>1, <2>1, <2>2 DEF MemOK, FramesOK
  <2>5. Counted(f) /\ f.frees # <<>> /\ k \notin DOMAIN f.frame
    BY <1>1, <2>4, MakeRoomCount, MakeRoomStep
  <2> QED BY <2>3, <2>5, AllocCount, LoadCount, SetCount
<1> QED BY <1>2, <1>3

LEMMA RecoveryCount == ASSUME IInv, FrameInv, Crash \/ Replay \/ Recovered PROVE Counted(Memory)'
<1>1. CASE Crash
  <2>1. PICK g : g = Memory'
    OBVIOUS
  <2>2. frame' = OpenAll(store) /\ frees' = OpenedFrees /\ store' = store
    BY <1>1 DEF Crash
  <2>3. IsMem(g) /\ g.frame = OpenAll(g.store) /\ g.frees = OpenedFrees
    BY <2>1, <2>2 DEF Memory, IsMem
  <2> QED BY <2>1, <2>3, OpenedCount
<1>2. CASE Replay
  <2>1. PICK e \in Entry : e = log[redo]
    BY <1>2 DEF Replay, IInv, TypeInv
  <2>2. CASE UNCHANGED <<memory, store, durable, lost>>
    BY <2>2, KeptCount
  <2>3. CASE \E f \in Redo(Memory, e, redo) : SetMemory(f)
    <3>1. PICK f \in Redo(Memory, e, redo) : SetMemory(f)
      BY <2>3
    <3>2. Counted(f)
      BY StateNow, RedoCount DEF FrameInv
    <3> QED BY <3>1, <3>2, SetCount
  <2> QED BY <1>2, <2>1, <2>2, <2>3 DEF Replay
<1>3. CASE Recovered
  BY <1>3, KeptCount DEF Recovered, disk
<1> QED BY <1>1, <1>2, <1>3

LEMMA FrameInitially == Init => FrameInv
<1> SUFFICES ASSUME Init PROVE FrameInv
  OBVIOUS
<1>1. PICK g : g = Memory
  OBVIOUS
<1>2. IsMem(g) /\ g.frame = OpenAll(g.store) /\ g.frees = OpenedFrees
  BY <1>1, MemoryIs DEF Init
<1>3. Counted(g)
  BY <1>2, OpenedCount
<1>4. log = <<>>
  BY DEF Init
<1> QED BY <1>1, <1>3, <1>4 DEF FrameInv

\* Only threads write log entries.
LEMMA LogHasThreads ==
    ASSUME IInv, FrameInv, [Next]_vars, log' # <<>>
    PROVE  Threads # {}
<1>1. CASE log # <<>>
  BY <1>1 DEF FrameInv
<1>2. CASE log = <<>>
  <2>1. CASE UNCHANGED log
    BY <1>2, <2>1
  <2>2. CASE Crash
    <3>1. PICK n \in 0..Len(log) : log' = SubSeq(log, 1, n)
      BY <2>2 DEF Crash
    <3>2. n = 0
      BY <1>2, <3>1
    <3> QED BY <3>1, <3>2
  <2>3. CASE \E t \in Threads : TRUE
    BY <2>3
  <2>4. ASSUME NEW b \in Pools, CloseFile(b) \/ OpenFile(b) PROVE UNCHANGED log
    BY <2>4 DEF CloseFile, OpenFile
  <2>5. ASSUME Replay \/ Recovered PROVE UNCHANGED log
    BY <2>5 DEF Replay, Recovered, disk
  <2>6. ASSUME UNCHANGED vars PROVE UNCHANGED log
    BY <2>6 DEF vars, disk
  <2>7. CASE \E b \in Pools : CloseFile(b) \/ OpenFile(b)
    BY <2>1, <2>4, <2>7
  <2>8. CASE Replay \/ Recovered \/ UNCHANGED vars
    BY <2>1, <2>5, <2>6, <2>8
  <2> QED BY <2>2, <2>3, <2>7, <2>8 DEF Next
<1> QED BY <1>1, <1>2

LEMMA FrameStep ==
    ASSUME IInv, FrameInv, [Next]_vars
    PROVE  FrameInv'
<1>1. CASE UNCHANGED vars
  <2>1. UNCHANGED <<memory, store, durable, lost>>
    BY <1>1 DEF vars, disk, history
  <2>2. Counted(Memory)'
    BY <2>1, KeptCount
  <2> QED BY <2>2, LogHasThreads DEF FrameInv
<1>2. ASSUME NEW t \in Threads, NEW k \in Keys, Get(t, k) \/ Dispose(t, k) PROVE Counted(Memory)'
  <2>1. CASE Get(t, k)
    <3>1. Find(t, k)
      BY <2>1 DEF Get
    <3> QED BY <3>1, FindCount
  <2>2. CASE Dispose(t, k)
    BY <2>2, DisposeCount
  <2> QED BY <1>2, <2>1, <2>2
<1>3. ASSUME NEW t \in Threads, NEW b \in Pools, AllocateFreePage(t, b) \/ BeginExtend(t, b) PROVE Counted(Memory)'
  BY <1>3, AllocateCount
<1>4. ASSUME NEW t \in Threads, Lookup(t) \/ AllocateFrame(t) \/ Load(t) PROVE Counted(Memory)'
  <2>1. CASE Lookup(t)
    <3>1. PICK k : Find(t, k)
      BY <2>1 DEF Lookup
    <3> QED BY <3>1, FindCount
  <2> QED BY <1>4, <2>1, AllocateFrameCount, LoadActionCount
<1>5. ASSUME NEW t \in Threads, Extend(t) \/ Modify(t) \/ UnpinPage(t) PROVE Counted(Memory)'
  BY <1>5, HolderCount
<1>6. ASSUME NEW b \in Pools, CloseFile(b) \/ OpenFile(b) PROVE Counted(Memory)'
  BY <1>6, FilesCount
<1>7. ASSUME Crash \/ Replay \/ Recovered PROVE Counted(Memory)'
  BY <1>7, RecoveryCount
<1>8. CASE Next
  <2>1. Counted(Memory)'
    BY <1>2, <1>3, <1>4, <1>5, <1>6, <1>7, <1>8 DEF Next
  <2> QED BY <2>1, LogHasThreads DEF FrameInv
<1> QED BY <1>1, <1>8

-----------------------------------------------------------------------------
(***************************************************************************)
(* The pigeonhole: when no frame is free and none can be purged, every     *)
(* frame beside the headers belongs to a thread of its own that uses it.   *)
(***************************************************************************)
UsingPages == {t \in Threads : th[t].pc \in {"load", "extend", "hold"} /\ th[t].key \in Resident
                               /\ th[t].key[2] # Header}
PageFrames == {k \in Resident : k[2] # Header}

LEMMA PinnedHasUser ==
    ASSUME IInv, ~PinsLeft, NEW k \in PageFrames, ~CanPurge(Memory, k)
    PROVE  \E t \in UsingPages : th[t].key = k
<1>1. StateOK(Memory, th, open, lock) /\ Memory.frame = frame /\ Memory.store = store
  BY StateNow, MemoryIs
<1>2. k \in Resident /\ k[2] # Header /\ k \in DOMAIN frame
  BY DEF PageFrames, Resident
<1>3. frame[k] \in FrameRec /\ frame[k].pin # 0
  <2>1. MemOK(Memory, open) /\ k \in DOMAIN Memory.frame /\ open \in SUBSET Pools
    BY <1>1, <1>2 DEF StateOK, IInv, TypeInv
  <2>2. Memory.frame[k] \in FrameRec
    BY <2>1, RecIs
  <2> QED BY <1>1, <2>2 DEF CanPurge
<1>4. PICK n : n = Cardinality(Users(k))
  OBVIOUS
<1>5. n \in Nat /\ IsFiniteSet(Users(k))
  BY <1>4, BufferPoolAssumption, FS_Subset, FS_CardinalityType DEF Users
<1>6. n # 0
  <2>1. CASE store[k] # Absent
    <3>1. PinOK(Memory, th, k) /\ Exact(Memory, k)
      BY <1>1, <1>2, <2>1 DEF StateOK, Exact
    <3>2. UsersIn(th, k) = Users(k)
      BY DEF UsersIn, Users, At1
    <3>3. frame[k].pin = Cardinality(UsersIn(th, k)) + Own(k)
      BY <1>1, <3>1 DEF PinOK
    <3>4. frame[k].pin = n + 0
      BY <1>2, <1>4, <3>2, <3>3 DEF Own
    <3> QED BY <1>3, <1>5, <3>4
  <2>2. CASE store[k] = Absent
    BY <1>2, <1>3, <1>4, <1>5, <2>2 DEF PinsLeft, FrameRec
  <2> QED BY <2>1, <2>2
<1>7. PICK t : t \in Users(k)
  BY <1>4, <1>5, <1>6, FS_EmptySet
<1> QED BY <1>2, <1>7 DEF Users, UsingPages

LEMMA FrameCountBound ==
    ASSUME IInv, FrameInv, frees = <<>>, ~PinsLeft, \A k \in Resident : ~CanPurge(Memory, k)
    PROVE  /\ Cardinality(open) \in Nat /\ Cardinality(UsingPages) \in Nat
           /\ FrameNum <= Cardinality(open) + Cardinality(UsingPages)
<1>1. MemOK(Memory, open) /\ open \in SUBSET Pools /\ Memory.frame = frame /\ Memory.frees = frees
  BY StateNow, MemoryIs
<1>2. IsFiniteSet(Resident) /\ Cardinality(Resident) = FrameNum
  <2>1. FramesAll(Memory)
    BY DEF FrameInv, Counted
  <2>2. IsFiniteSet(DOMAIN frame) /\ Cardinality(DOMAIN frame) + 0 = FrameNum
    BY <1>1, <2>1 DEF FramesAll
  <2>3. Cardinality(DOMAIN frame) \in Nat
    BY <2>2, FS_CardinalityType
  <2> QED BY <2>2, <2>3 DEF Resident
<1>3. PICK H : H = {<<b, Header>> : b \in open}
  OBVIOUS
<1>4. IsFiniteSet(H) /\ Cardinality(H) = Cardinality(open) /\ Cardinality(open) \in Nat
  BY <1>1, <1>3, HeadersCount
<1>5. IsFiniteSet(UsingPages) /\ Cardinality(UsingPages) \in Nat
  BY BufferPoolAssumption, FS_Subset, FS_CardinalityType DEF UsingPages
<1>6. IsFiniteSet(PageFrames) /\ Cardinality(PageFrames) <= Cardinality(UsingPages) /\ Cardinality(PageFrames) \in Nat
  <2>1. PICK f : f = [t \in UsingPages |-> th[t].key]
    OBVIOUS
  <2>2. \A t \in UsingPages : f[t] \in PageFrames
    BY <2>1 DEF UsingPages, PageFrames
  <2>3. \A k \in PageFrames : \E t \in UsingPages : f[t] = k
    BY <2>1, PinnedHasUser DEF PageFrames
  <2>4. f \in Surjection(UsingPages, PageFrames)
    BY <2>1, <2>2, <2>3 DEF Surjection
  <2>5. IsFiniteSet(PageFrames) /\ Cardinality(PageFrames) <= Cardinality(UsingPages)
    BY <1>5, <2>4, FS_Surjection
  <2> QED BY <2>5, FS_CardinalityType
<1>7. Resident \subseteq H \cup PageFrames
  <2>1. ASSUME NEW k \in Resident, k[2] = Header PROVE k \in H
    <3>1. k \in Keys /\ k[1] \in open
      BY <1>1 DEF MemOK, FramesOK, Resident
    <3>2. k = <<k[1], Header>>
      BY <2>1, <3>1 DEF Keys
    <3> QED BY <1>3, <3>1, <3>2
  <2> QED BY <2>1 DEF PageFrames
<1>8. PICK W : W = H \cup PageFrames
  OBVIOUS
<1>9. IsFiniteSet(W) /\ Cardinality(W) = Cardinality(H) + Cardinality(PageFrames) - Cardinality(H \cap PageFrames)
  BY <1>4, <1>6, <1>8, FS_Union
<1>10. Cardinality(H \cap PageFrames) \in Nat
  BY <1>4, FS_Subset, FS_CardinalityType
<1>11. Cardinality(Resident) <= Cardinality(W) /\ Cardinality(W) \in Nat
  BY <1>7, <1>8, <1>9, FS_Subset, FS_CardinalityType
<1> QED BY <1>2, <1>4, <1>5, <1>6, <1>9, <1>10, <1>11, BufferPoolAssumption

LEMMA FrameFoundFromInv ==
    ASSUME IInv, FrameInv
    PROVE  FrameFound
<1> SUFFICES ASSUME NeedsFrame, frees = <<>>, ~PinsLeft, \A k \in Resident : ~CanPurge(Memory, k)
             PROVE  FALSE
  BY DEF FrameFound
<1>1. PICK n, u, p, m : n = Cardinality(open) /\ u = Cardinality(UsingPages) /\ p = Cardinality(Pools) /\ m = Cardinality(Threads)
  OBVIOUS
<1>2. n \in Nat /\ u \in Nat /\ FrameNum <= n + u
  BY <1>1, FrameCountBound
<1>3. p \in Nat /\ m \in Nat /\ FrameNum >= p + m /\ FrameNum \in Nat
  BY <1>1, BufferPoolAssumption, FS_CardinalityType
<1>4. n <= p /\ (open # Pools => n < p)
  <2>1. open \in SUBSET Pools
    BY DEF IInv, TypeInv
  <2>2. n <= p /\ (p = n => Pools = open)
    BY <1>1, <2>1, BufferPoolAssumption, FS_Subset
  <2> QED BY <1>2, <1>3, <2>2
<1>5. u <= m
  BY <1>1, BufferPoolAssumption, FS_Subset DEF UsingPages
<1>6. ASSUME NEW t \in Threads, t \notin UsingPages PROVE FALSE
  <2>1. UsingPages \subseteq Threads /\ UsingPages # Threads
    BY <1>6 DEF UsingPages
  <2>2. u < m
    <3>1. PICK W : W = UsingPages
      OBVIOUS
    <3>2. W \in SUBSET Threads /\ W # Threads /\ u = Cardinality(W) /\ m = Cardinality(Threads)
      BY <1>1, <2>1, <3>1
    <3>3. u <= m /\ (m = u => Threads = W)
      BY <3>2, BufferPoolAssumption, FS_Subset
    <3> QED BY <1>2, <1>3, <3>2, <3>3
  <2> QED BY <1>2, <1>3, <1>4, <2>2
<1>7. CASE \E t \in Threads : th[t].pc \in {"lock", "alloc", "extending"}
  BY <1>6, <1>7 DEF UsingPages
<1>8. CASE open # Pools
  BY <1>2, <1>3, <1>4, <1>5, <1>8
<1>9. CASE mode = "redo" /\ redo <= Len(log)
  <2>1. log # <<>>
    BY <1>9 DEF IInv, TypeInv
  <2>2. PICK t \in Threads : TRUE
    BY <2>1 DEF FrameInv
  <2>3. th[t].pc = "idle"
    BY <1>9 DEF IInv, QuietInv
  <2> QED BY <1>6, <2>3 DEF UsingPages
<1> QED BY <1>7, <1>8, <1>9 DEF NeedsFrame

\* However threads fetch, allocate, dispose of and evict pages, and files are closed, opened and
\* recovered: a thread, open_file or the replay that needs a frame finds one free or one to purge,
\* so that allocate_frame comes back.  No frame leaks, and none stays pinned without a user, but
\* for the pins that purge_frame leaves on a page it cannot load.
THEOREM FrameAlwaysFound == Spec => []FrameFound
<1>1. Init => IInv /\ FrameInv
  BY InitInv, FrameInitially
<1>2. IInv /\ FrameInv /\ [Next]_vars => IInv' /\ FrameInv'
  BY StepInv, FrameStep
<1>3. IInv /\ FrameInv => FrameFound
  BY FrameFoundFromInv
<1> QED BY <1>1, <1>2, <1>3, PTL DEF Spec
=============================================================================
