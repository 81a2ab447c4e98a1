---------------------------- MODULE BufferDataProofs ----------------------------
(***************************************************************************)
(* Proofs about BufferPool: what the frames and the files hold of a page   *)
(* and of the header, and the changes of them that are logged.             *)
(***************************************************************************)
EXTENDS BufferProofs

W(k) == [op |-> "write", key |-> k]

\* Content d of page k is a change logged among the first n entries, or none.
DataIs(lg, n, k, d) == d = 0 \/ (d \in 1..n /\ lg[d] = W(k))
Loads(x, k)         == x.pc \in {"load", "extend"} /\ x.key = k
Loader(h, k)        == \E t \in Threads : Loads(h[t], k)
HdrOf(f, b)         == f.frame[<<b, Header>>].data

\* Content v of page k is kept: it is in the frame, and in the file unless the frame is dirty, or
\* about to be loaded.
Keeps(f, h, k, v) ==
    IF k \in DOMAIN f.frame
    THEN \/ f.frame[k].data = v /\ (f.frame[k].dirty \/ f.store[k] = v)
         \/ f.frame[k].data = 0 /\ f.store[k] = v /\ Loader(h, k)
    ELSE f.store[k] = v

\* What is in the file is logged durably, a page that is not in the file has never been changed, and
\* the last change is kept: in the run the one of w, in the recovery one as new as the replayed
\* entries.
Replayed(lg, rd, k, v) == v \in Nat /\ \A i \in 1..rd - 1 : lg[i] = W(k) => i <= v
PageOK(f, h, lg, w, md, rd, k) ==
    /\ f.store[k] # Absent => DataIs(lg, f.durable, k, f.store[k])
    /\ k \in DOMAIN f.frame => DataIs(lg, Len(lg), k, f.frame[k].data)
    /\ f.store[k] = Absent => (\A i \in 1..Len(lg) : lg[i] # W(k)) /\ w[k] = 0
    /\ md = "run" /\ w[k] # 0 /\ k \notin f.lost => Keeps(f, h, k, w[k])
    /\ md = "redo" /\ f.store[k] # Absent /\ k \notin f.lost =>
         \E v : Keeps(f, h, k, v) /\ Replayed(lg, rd, k, v)

\* The LSN of a header is one of the log, and of a durable entry in the file.
LsnAt(f, op, n, b) == f.store[<<b, Header>>].lsn <= f.durable /\ (b \in op => HdrOf(f, b).lsn <= n)
LsnOK(f, op, n)    == \A b \in Pools : LsnAt(f, op, n, b)

DataOK(f, h, lg, w, md, rd, op) ==
    /\ f.durable \in 0..Len(lg) /\ LsnOK(f, op, Len(lg))
    /\ \A k \in Pages : PageOK(f, h, lg, w, md, rd, k)

OnKeys(w) == w = [k \in Keys |-> w[k]]
PageInv == OnKeys(written) /\ DataOK(Memory, th, log, written, mode, redo, open)

-----------------------------------------------------------------------------
(***************************************************************************)
(* What a step that takes memory f to g does to page k.                    *)
(***************************************************************************)
Same(f, g, k) ==
    /\ k \in DOMAIN g.frame <=> k \in DOMAIN f.frame
    /\ k \in DOMAIN f.frame => g.frame[k].data = f.frame[k].data /\ g.frame[k].dirty = f.frame[k].dirty
    /\ g.store[k] = f.store[k] /\ (k \in f.lost => k \in g.lost)
Out(f, g, k) ==
    /\ k \in DOMAIN f.frame /\ k \notin DOMAIN g.frame
    /\ g.store[k] = f.store[k] /\ (k \in f.lost => k \in g.lost)
    /\ f.frame[k].dirty => f.store[k] = f.frame[k].data \/ k \in g.lost
WrittenOut(f, g, k) ==
    /\ k \in DOMAIN f.frame /\ k \notin DOMAIN g.frame
    /\ g.store[k] = f.frame[k].data /\ (k \in f.lost => k \in g.lost)
    /\ PageLsn(f, k) <= g.durable
New(f, g, k) ==
    /\ k \notin DOMAIN f.frame /\ k \in DOMAIN g.frame /\ g.frame[k].data = 0
    /\ g.store[k] = f.store[k] /\ (k \in f.lost => k \in g.lost)
Loaded(f, g, k) ==
    /\ k \in DOMAIN f.frame /\ k \in DOMAIN g.frame
    /\ g.frame[k].data = f.store[k] /\ g.frame[k].dirty = f.frame[k].dirty
    /\ g.store[k] = f.store[k] /\ (k \in f.lost \cup MarkLost(f, k) => k \in g.lost)

Moves(f, g, h, h2, k) ==
    \/ Same(f, g, k) /\ (Loader(h, k) => Loader(h2, k))
    \/ Out(f, g, k)
    \/ WrittenOut(f, g, k) /\ ~Loader(h, k)
    \/ New(f, g, k) /\ Loader(h2, k)
Changes(f, g, h, h2, k) == Moves(f, g, h, h2, k) \/ (Loaded(f, g, k) /\ f.store[k] # Absent)

\* The log grows, and not by a change of page k.
LogKept(lg, lg2, k) ==
    /\ Len(lg) \in Nat /\ Len(lg2) \in Nat /\ Len(lg) <= Len(lg2)
    /\ \A i \in 1..Len(lg) : lg2[i] = lg[i]
    /\ \A i \in Len(lg) + 1..Len(lg2) : lg2[i] # W(k)
DurableUp(f, g, n) == f.durable \in Nat /\ g.durable \in f.durable..n

LEMMA KeepsStep ==
    ASSUME NEW f, NEW g, NEW h, NEW h2, NEW k, NEW v,
           Changes(f, g, h, h2, k), Keeps(f, h, k, v), k \notin g.lost, v # 0 \/ Moves(f, g, h, h2, k)
    PROVE  Keeps(g, h2, k, v)
<1>1. CASE Same(f, g, k) /\ (Loader(h, k) => Loader(h2, k))
  BY <1>1 DEF Same, Keeps
<1>2. CASE Out(f, g, k)
  BY <1>2 DEF Out, Keeps
<1>3. CASE WrittenOut(f, g, k) /\ ~Loader(h, k)
  BY <1>3 DEF WrittenOut, Keeps
<1>4. CASE New(f, g, k) /\ Loader(h2, k)
  BY <1>4 DEF New, Keeps
<1>5. CASE Loaded(f, g, k) /\ v # 0
  BY <1>5 DEF Loaded, Keeps, MarkLost
<1> QED BY <1>1, <1>2, <1>3, <1>4, <1>5 DEF Changes, Moves

LEMMA DataGrows ==
    ASSUME NEW lg, NEW lg2, NEW k, NEW d, NEW m \in Int, NEW n \in Int,
           LogKept(lg, lg2, k), m <= Len(lg), m <= n, DataIs(lg, m, k, d)
    PROVE  DataIs(lg2, n, k, d)
  BY DEF LogKept, DataIs

LEMMA PageStep ==
    ASSUME NEW f, NEW g, NEW h, NEW h2, NEW lg, NEW lg2, NEW w, NEW w2, NEW md, NEW rd \in Nat \ {0}, NEW k \in Pages,
           PageOK(f, h, lg, w, md, rd, k), Changes(f, g, h, h2, k), LogKept(lg, lg2, k), w2[k] = w[k],
           f.durable <= Len(lg), DurableUp(f, g, Len(lg2)), md # "redo" \/ (Moves(f, g, h, h2, k) /\ rd - 1 <= Len(lg))
    PROVE  PageOK(g, h2, lg2, w2, md, rd, k)
<1>0. /\ f.durable \in Nat /\ g.durable \in Nat /\ f.durable <= g.durable /\ g.durable <= Len(lg2)
      /\ Len(lg) \in Nat /\ Len(lg2) \in Nat /\ Len(lg) <= Len(lg2) /\ k[2] # Header
  BY DEF DurableUp, LogKept, Pages, Header
<1>1. g.store[k] # Absent => DataIs(lg2, g.durable, k, g.store[k])
  <2>1. CASE g.store[k] = f.store[k]
    BY <1>0, <2>1, DataGrows DEF PageOK
  <2>2. CASE WrittenOut(f, g, k)
    <3>1. DataIs(lg, Len(lg), k, f.frame[k].data) /\ f.frame[k].data <= g.durable
      BY <1>0, <2>2 DEF WrittenOut, PageOK, PageLsn
    <3>2. DataIs(lg2, g.durable, k, f.frame[k].data)
      BY <1>0, <3>1 DEF DataIs, LogKept
    <3> QED BY <2>2, <3>2 DEF WrittenOut
  <2> QED BY <2>1, <2>2 DEF Changes, Moves, Same, Out, New, Loaded
<1>2. k \in DOMAIN g.frame => DataIs(lg2, Len(lg2), k, g.frame[k].data)
  <2> SUFFICES ASSUME k \in DOMAIN g.frame PROVE DataIs(lg2, Len(lg2), k, g.frame[k].data)
    OBVIOUS
  <2>1. CASE Same(f, g, k)
    <3>1. DataIs(lg, Len(lg), k, f.frame[k].data) /\ g.frame[k].data = f.frame[k].data
      BY <2>1 DEF Same, PageOK
    <3> QED BY <1>0, <3>1, DataGrows
  <2>2. CASE New(f, g, k)
    BY <2>2 DEF New, DataIs
  <2>3. CASE Loaded(f, g, k) /\ f.store[k] # Absent
    <3>1. DataIs(lg, f.durable, k, f.store[k]) /\ g.frame[k].data = f.store[k]
      BY <2>3 DEF Loaded, PageOK
    <3> QED BY <1>0, <3>1, DataGrows
  <2> QED BY <2>1, <2>2, <2>3 DEF Changes, Moves, Out, WrittenOut
<1>3. g.store[k] = Absent => f.store[k] = Absent
  <2>1. ASSUME WrittenOut(f, g, k) PROVE g.store[k] # Absent
    <3>1. DataIs(lg, Len(lg), k, f.frame[k].data)
      BY <2>1 DEF WrittenOut, PageOK
    <3> QED BY <1>0, <2>1, <3>1 DEF WrittenOut, DataIs, Absent
  <2> QED BY <2>1 DEF Changes, Moves, Same, Out, New, Loaded
<1>4. f.store[k] = Absent => (\A i \in 1..Len(lg2) : lg2[i] # W(k)) /\ w2[k] = 0
  BY <1>0 DEF PageOK, LogKept
<1>5. k \notin g.lost => k \notin f.lost
  BY DEF Changes, Moves, Same, Out, WrittenOut, New, Loaded
<1>6. md = "run" /\ w2[k] # 0 /\ k \notin g.lost => Keeps(g, h2, k, w2[k])
  BY <1>5, KeepsStep DEF PageOK
<1>7. ASSUME md = "redo", g.store[k] # Absent, k \notin g.lost
      PROVE  \E v : Keeps(g, h2, k, v) /\ Replayed(lg2, rd, k, v)
  <2>1. CASE f.store[k] # Absent
    <3>1. PICK v : Keeps(f, h, k, v) /\ Replayed(lg, rd, k, v)
      BY <1>5, <1>7, <2>1 DEF PageOK
    <3>2. Keeps(g, h2, k, v)
      BY <1>7, <3>1, KeepsStep
    <3>3. ASSUME NEW i \in 1..rd - 1, lg2[i] = W(k) PROVE i <= v
      <4>1. rd - 1 <= Len(lg)
        BY <1>7
      <4>2. i \in 1..Len(lg)
        BY <1>0, <4>1
      <4>3. lg2[i] = lg[i]
        BY <4>2 DEF LogKept
      <4> QED BY <3>1, <3>3, <4>3 DEF Replayed
    <3>4. v \in Nat
      BY <3>1 DEF Replayed
    <3>5. Replayed(lg2, rd, k, v)
      BY <3>3, <3>4 DEF Replayed
    <3> QED BY <3>2, <3>5
  <2>2. CASE f.store[k] = Absent
    <3>1. WrittenOut(f, g, k)
      BY <1>7, <2>2 DEF Changes, Moves, Same, Out, New, Loaded
    <3>2. PICK v : v = f.frame[k].data
      OBVIOUS
    <3>3. Keeps(g, h2, k, v) /\ DataIs(lg, Len(lg), k, v)
      BY <3>1, <3>2 DEF WrittenOut, Keeps, PageOK
    <3>4. v \in Nat
      BY <1>0, <3>3 DEF DataIs
    <3>5. \A i \in 1..rd - 1 : lg2[i] # W(k)
      BY <1>0, <1>4, <1>7, <2>2
    <3> QED BY <3>3, <3>4, <3>5 DEF Replayed
  <2> QED BY <2>1, <2>2
<1> QED BY <1>1, <1>2, <1>3, <1>4, <1>6, <1>7 DEF PageOK

-----------------------------------------------------------------------------
(***************************************************************************)
(* A step that changes the keys of S only.                                 *)
(***************************************************************************)
OthersSame(f, g, S) == \A j \in Keys \ S : Same(f, g, j)
LoadersKept(h, h2, S) == \A j \in Pages \ S : Loader(h, j) => Loader(h2, j)
LogOthers(lg, lg2, S) == \A j \in Pages \ S : LogKept(lg, lg2, j)
WOthers(w, w2, S) == \A j \in Pages \ S : w2[j] = w[j]

LEMMA LsnStep ==
    ASSUME NEW op \in SUBSET Pools, NEW f, NEW g, NEW n \in Nat, NEW n2 \in Nat, NEW b \in Pools,
           MemOK(f, op), LsnOK(f, op, n), n <= n2, DurableUp(f, g, n2), Same(f, g, <<b, Header>>)
    PROVE  LsnAt(g, op, n2, b)
<1>1. f.store[<<b, Header>>] \in FileHdr /\ (b \in op => <<b, Header>> \in DOMAIN f.frame /\ HdrOf(f, b) \in FileHdr)
  BY DEF MemOK, StoreOK, FramesOK, HeaderOK, HdrOf
<1>2. f.store[<<b, Header>>].lsn \in Nat /\ (b \in op => HdrOf(f, b).lsn \in Nat)
  BY <1>1 DEF FileHdr
<1>3. f.durable \in Nat /\ g.durable \in Nat /\ f.durable <= g.durable
  BY DEF DurableUp
<1> QED BY <1>1, <1>2, <1>3 DEF LsnOK, LsnAt, Same, HdrOf

\* A thread takes another state; it loads no page outside S.
Loading(x, S) == x.pc \in {"load", "extend"} => x.key \in S
LEMMA LoadersStep ==
    ASSUME NEW h \in [Threads -> ThreadRec], NEW h2, NEW t \in Threads, NEW r, NEW S,
           Becomes(h, h2, t, r), Loading(h[t], S)
    PROVE  LoadersKept(h, h2, S)
<1>1. ASSUME NEW j \in Pages \ S, Loader(h, j) PROVE Loader(h2, j)
  <2>1. PICK u \in Threads : Loads(h[u], j)
    BY <1>1 DEF Loader
  <2>2. u # t
    BY <2>1 DEF Loads, Loading
  <2>3. h2[u] = h[u]
    BY <2>2 DEF Becomes
  <2> QED BY <2>1, <2>3 DEF Loader
<1> QED BY <1>1 DEF LoadersKept

LEMMA DataJoin ==
    ASSUME NEW op \in SUBSET Pools, NEW op2 \in SUBSET Pools, NEW f, NEW g, NEW h, NEW h2, NEW lg, NEW lg2,
           NEW w, NEW w2, NEW md, NEW rd \in Nat \ {0}, NEW S,
           DataOK(f, h, lg, w, md, rd, op), OthersSame(f, g, S), LoadersKept(h, h2, S), LogOthers(lg, lg2, S),
           WOthers(w, w2, S), DurableUp(f, g, Len(lg2)), md # "redo" \/ rd - 1 <= Len(lg),
           LsnOK(g, op2, Len(lg2)), Len(lg2) \in Nat,
           \A k \in Pages \cap S : PageOK(g, h2, lg2, w2, md, rd, k)
    PROVE  DataOK(g, h2, lg2, w2, md, rd, op2)
<1>1. ASSUME NEW k \in Pages \ S PROVE PageOK(g, h2, lg2, w2, md, rd, k)
  <2>1. k \in Keys /\ PageOK(f, h, lg, w, md, rd, k) /\ f.durable <= Len(lg)
    BY DEF Pages, Keys, DataOK
  <2>2. Same(f, g, k) /\ LogKept(lg, lg2, k) /\ w2[k] = w[k]
    BY <2>1 DEF OthersSame, LogOthers, WOthers
  <2>3. Moves(f, g, h, h2, k) /\ Changes(f, g, h, h2, k)
    BY <2>2 DEF Changes, Moves, LoadersKept
  <2> QED BY <2>1, <2>2, <2>3, PageStep
<1>2. \A k \in Pages : PageOK(g, h2, lg2, w2, md, rd, k)
  BY <1>1
<1>3. g.durable \in 0..Len(lg2)
  BY DEF DurableUp
<1> QED BY <1>2, <1>3 DEF DataOK

-----------------------------------------------------------------------------
(***************************************************************************)
(* The operations.                                                         *)
(***************************************************************************)
\* Only the pins of a frame change, if any.
OnlyPins(f, g) == OthersSame(f, g, {}) /\ g.durable = f.durable

LEMMA OnlyPinsFrom ==
    ASSUME NEW op \in SUBSET Pools, NEW f, NEW g, NEW k \in DOMAIN f.frame, NEW q,
           MemOK(f, op), g.frame = Put(f.frame, k, q), q.data = f.frame[k].data, q.dirty = f.frame[k].dirty,
           g.store = f.store, g.lost = f.lost, g.durable = f.durable
    PROVE  OnlyPins(f, g)
<1>1. DOMAIN g.frame = DOMAIN f.frame /\ g.frame[k] = q /\ \A j \in DOMAIN f.frame : j # k => g.frame[j] = f.frame[j]
  BY DEF Put, MemOK, FramesOK
<1> QED BY <1>1 DEF OnlyPins, OthersSame, Same

LEMMA PinEffect ==
    ASSUME NEW op \in SUBSET Pools, NEW f, NEW k \in DOMAIN f.frame, NEW g,
           IsMem(f), MemOK(f, op), g = Pin(f, k)
    PROVE  OnlyPins(f, g)
<1>1. /\ g.frame = [f.frame EXCEPT ![k].pin = @ + 1] /\ g.store = f.store
      /\ g.lost = f.lost /\ g.durable = f.durable
  BY PinIs
<1>2. PICK r, n : r \in FrameRec /\ r = f.frame[k] /\ n = f.frame[k].pin + 1
  BY FrameIs
<1>3. PICK q : q = [r EXCEPT !.pin = n]
  OBVIOUS
<1>4. q.data = r.data /\ q.dirty = r.dirty
  BY <1>3 DEF FrameRec
<1>5. g.frame = Put(f.frame, k, q)
  BY <1>1, <1>2, <1>3 DEF Put
<1> QED BY <1>1, <1>2, <1>4, <1>5, OnlyPinsFrom

LEMMA UnpinEffect ==
    ASSUME NEW op \in SUBSET Pools, NEW f, NEW k \in DOMAIN f.frame, NEW g,
           IsMem(f), MemOK(f, op), g = Unpin(f, k)
    PROVE  OnlyPins(f, g)
<1>1. /\ g.frame = [f.frame EXCEPT ![k].pin = @ - 1] /\ g.store = f.store
      /\ g.lost = f.lost /\ g.durable = f.durable
  BY UnpinIs
<1>2. PICK r, n : r \in FrameRec /\ r = f.frame[k] /\ n = f.frame[k].pin - 1
  BY FrameIs
<1>3. PICK q : q = [r EXCEPT !.pin = n]
  OBVIOUS
<1>4. q.data = r.data /\ q.dirty = r.dirty
  BY <1>3 DEF FrameRec
<1>5. g.frame = Put(f.frame, k, q)
  BY <1>1, <1>2, <1>3 DEF Put
<1> QED BY <1>1, <1>2, <1>4, <1>5, OnlyPinsFrom

\* Page k gets a frame, which is still empty.
LEMMA AllocEffect ==
    ASSUME NEW f, NEW k, NEW g,
           IsMem(f), k \notin DOMAIN f.frame, g = Alloc(f, k)
    PROVE  OthersSame(f, g, {k}) /\ New(f, g, k) /\ g.durable = f.durable
<1>1. PICK q : q = [data |-> 0, dirty |-> Head(f.frees), pin |-> 1]
  OBVIOUS
<1>2. /\ g.frame = Add(f.frame, k, q) /\ g.store = f.store /\ g.lost = f.lost /\ g.durable = f.durable /\ q.data = 0
  BY <1>1, AllocIs
<1>3. DOMAIN g.frame = DOMAIN f.frame \cup {k} /\ g.frame[k] = q /\ \A j \in DOMAIN f.frame : j # k => g.frame[j] = f.frame[j]
  BY <1>2 DEF Add
<1> QED BY <1>2, <1>3 DEF OthersSame, Same, New

\* Frame k is read from the file.
LEMMA LoadEffect ==
    ASSUME NEW op \in SUBSET Pools, NEW f, NEW k \in DOMAIN f.frame, NEW g,
           IsMem(f), MemOK(f, op), g = LoadPage(f, k)
    PROVE  OthersSame(f, g, {k}) /\ Loaded(f, g, k) /\ g.durable = f.durable
<1>1. /\ g.frame = [f.frame EXCEPT ![k].data = f.store[k]] /\ g.store = f.store
      /\ g.lost = f.lost \cup MarkLost(f, k) /\ g.durable = f.durable
  BY LoadIs
<1>2. PICK r, d : r \in FrameRec /\ r = f.frame[k] /\ d = f.store[k]
  BY FrameIs
<1>3. PICK q : q = [r EXCEPT !.data = d]
  OBVIOUS
<1>4. q.data = d /\ q.dirty = r.dirty
  BY <1>3 DEF FrameRec
<1>5. g.frame = Put(f.frame, k, q)
  BY <1>1, <1>2, <1>3 DEF Put
<1>6. DOMAIN g.frame = DOMAIN f.frame /\ g.frame[k] = q /\ \A j \in DOMAIN f.frame : j # k => g.frame[j] = f.frame[j]
  BY <1>5 DEF Put, MemOK, FramesOK
<1> QED BY <1>1, <1>2, <1>4, <1>6 DEF OthersSame, Same, Loaded

\* Frame k is freed.
FreedOnly(f, g, k) == DOMAIN g.frame = DOMAIN f.frame \ {k} /\ \A j \in DOMAIN g.frame : g.frame[j] = f.frame[j]
LEMMA FreeEffect ==
    ASSUME NEW f, NEW k, NEW g,
           IsMem(f), g = FreeFrame(f, k)
    PROVE  /\ FreedOnly(f, g, k) /\ g.store = f.store /\ g.lost = f.lost /\ g.durable = f.durable
           /\ OthersSame(f, g, {k})
<1>1. /\ g.frame = Without(f.frame, {k}) /\ g.store = f.store /\ g.lost = f.lost /\ g.durable = f.durable
  BY FreeIs
<1>2. FreedOnly(f, g, k)
  BY <1>1 DEF Without, FreedOnly
<1> QED BY <1>1, <1>2 DEF OthersSame, Same, FreedOnly

\* Page k is written, and its frame freed.
WroteLsn(f, g, k) == g.durable = f.durable \/ g.durable = PageLsn(f, k)
LEMMA FlushFreeEffect ==
    ASSUME NEW op \in SUBSET Pools, NEW f, NEW k \in DOMAIN f.frame, NEW g,
           IsMem(f), MemOK(f, op), f.durable \in Int, PageLsn(f, k) \in Int, g = FreeFrame(FlushInternal(f, k), k)
    PROVE  /\ OthersSame(f, g, {k}) /\ WrittenOut(f, g, k)
           /\ g.durable \in Int /\ f.durable <= g.durable /\ WroteLsn(f, g, k)
<1>1. PICK e : e = FlushInternal(f, k) /\ g = FreeFrame(e, k)
  OBVIOUS
<1>2. /\ IsMem(e) /\ e.frame = [f.frame EXCEPT ![k].dirty = FALSE]
      /\ e.store = [f.store EXCEPT ![k] = f.frame[k].data] /\ e.lost = f.lost
      /\ e.durable = IF PageLsn(f, k) > f.durable THEN PageLsn(f, k) ELSE f.durable
  BY <1>1, FlushIs
<1>3. FreedOnly(e, g, k) /\ g.store = e.store /\ g.lost = e.lost /\ g.durable = e.durable
  <2>1. IsMem(e) /\ g = FreeFrame(e, k)
    BY <1>1, <1>2
  <2>2. /\ FreedOnly(e, g, k) /\ g.store = e.store /\ g.lost = e.lost /\ g.durable = e.durable
        /\ OthersSame(e, g, {k})
    BY <2>1, FreeEffect
  <2> QED BY <2>2
<1>4. DOMAIN e.frame = DOMAIN f.frame /\ \A j \in DOMAIN f.frame : j # k => e.frame[j] = f.frame[j]
  BY <1>2 DEF MemOK, FramesOK
<1>5. k \in Keys /\ DOMAIN f.store = Keys
  BY FrameIs DEF MemOK, StoreOK
<1>6. g.store[k] = f.frame[k].data /\ \A j \in Keys : j # k => g.store[j] = f.store[j]
  BY <1>2, <1>3, <1>5
<1>7. g.durable \in Int /\ f.durable <= g.durable /\ PageLsn(f, k) <= g.durable /\ WroteLsn(f, g, k)
  BY <1>2, <1>3 DEF WroteLsn
<1>8. OthersSame(f, g, {k})
  BY <1>2, <1>3, <1>4, <1>6 DEF OthersSame, Same, FreedOnly
<1> QED BY <1>2, <1>3, <1>4, <1>6, <1>7, <1>8 DEF WrittenOut, FreedOnly

\* purge_frames: the frame of page k goes.
LEMMA PurgeEffect ==
    ASSUME NEW op \in SUBSET Pools, NEW f, NEW k \in DOMAIN f.frame, NEW b, NEW g,
           IsMem(f), MemOK(f, op), f.durable \in Int, PageLsn(f, k) \in Int, g = Purge(f, b, k)
    PROVE  /\ OthersSame(f, g, {k}) /\ (Out(f, g, k) \/ WrittenOut(f, g, k))
           /\ g.durable \in Int /\ f.durable <= g.durable /\ WroteLsn(f, g, k)
<1>1. CASE ~f.frame[k].dirty
  <2>1. /\ FreedOnly(f, g, k) /\ g.store = f.store /\ g.lost = f.lost /\ g.durable = f.durable /\ OthersSame(f, g, {k})
    BY <1>1, FreeEffect DEF Purge
  <2> QED BY <1>1, <2>1 DEF FreedOnly, Out, WroteLsn
<1>2. CASE f.frame[k].dirty /\ k[1] = b
  <2>1. g = FreeFrame(FlushInternal(f, k), k)
    BY <1>2 DEF Purge
  <2> QED BY <2>1, FlushFreeEffect
<1>3. CASE f.frame[k].dirty /\ k[1] # b
  <2>1. PICK e : e = Drop(f, k)
    OBVIOUS
  <2>2. /\ IsMem(e) /\ e.frame = f.frame /\ e.store = f.store /\ e.durable = f.durable
        /\ e.lost = IF f.store[k] # f.frame[k].data THEN f.lost \cup {k} ELSE f.lost
    BY <2>1, DropIs
  <2>3. FreedOnly(e, g, k) /\ g.store = e.store /\ g.lost = e.lost /\ g.durable = e.durable
    BY <1>3, <2>1, <2>2, FreeEffect DEF Purge
  <2>4. Out(f, g, k)
    BY <2>2, <2>3 DEF FreedOnly, Out
  <2>5. OthersSame(f, g, {k})
    BY <2>2, <2>3 DEF FreedOnly, OthersSame, Same
  <2> QED BY <2>2, <2>3, <2>4, <2>5 DEF WroteLsn
<1> QED BY <1>1, <1>2, <1>3

-----------------------------------------------------------------------------
(***************************************************************************)
(* The actions of the run that log nothing.                                *)
(***************************************************************************)
LEMMA LogSame ==
    ASSUME NEW lg \in Seq(Entry), NEW S
    PROVE  LogOthers(lg, lg, S) /\ \A k : LogKept(lg, lg, k)
  BY DEF LogOthers, LogKept

\* Page k changes, or only pins do.
InRun(md) == md = "run"
LEMMA OneChange ==
    ASSUME NEW op \in SUBSET Pools, NEW f, NEW g, NEW h, NEW h2, NEW lg \in Seq(Entry), NEW w, NEW md,
           NEW rd \in Nat \ {0}, NEW k \in Pages,
           MemOK(f, op), DataOK(f, h, lg, w, md, rd, op), OthersSame(f, g, {k}), LoadersKept(h, h2, {k}),
           Changes(f, g, h, h2, k), DurableUp(f, g, Len(lg)), InRun(md) \/ (Moves(f, g, h, h2, k) /\ rd - 1 <= Len(lg))
    PROVE  DataOK(g, h2, lg, w, md, rd, op)
<1>0. md # "redo" \/ (Moves(f, g, h, h2, k) /\ rd - 1 <= Len(lg))
  BY DEF InRun
<1>1. PICK S : S = {k}
  OBVIOUS
<1>2. LogOthers(lg, lg, S) /\ LogKept(lg, lg, k) /\ WOthers(w, w, S) /\ Len(lg) \in Nat
  BY LogSame DEF WOthers
<1>3. PageOK(f, h, lg, w, md, rd, k) /\ f.durable <= Len(lg) /\ LsnOK(f, op, Len(lg))
  BY DEF DataOK
<1>4. PageOK(g, h2, lg, w, md, rd, k)
  BY <1>0, <1>2, <1>3, PageStep
<1>5. LsnOK(g, op, Len(lg))
  <2>1. ASSUME NEW b \in Pools PROVE LsnAt(g, op, Len(lg), b)
    <3>1. <<b, Header>> \in Keys \ {k}
      BY BufferPoolAssumption DEF Keys, Pages, Header
    <3>2. Same(f, g, <<b, Header>>)
      BY <3>1 DEF OthersSame
    <3>3. PICK n \in Nat : n = Len(lg)
      BY <1>2
    <3>4. LsnOK(f, op, n) /\ n <= n /\ DurableUp(f, g, n)
      BY <1>3, <3>3
    <3> QED BY <3>2, <3>3, <3>4, LsnStep
  <2> QED BY <2>1 DEF LsnOK
<1>6. \A j \in Pages \cap S : PageOK(g, h2, lg, w, md, rd, j)
  BY <1>1, <1>4
<1>7. md # "redo" \/ rd - 1 <= Len(lg)
  BY <1>0
<1> QED BY <1>1, <1>2, <1>3, <1>5, <1>6, <1>7, DataJoin

LEMMA PinsChange ==
    ASSUME NEW op \in SUBSET Pools, NEW f, NEW g, NEW h \in [Threads -> ThreadRec], NEW h2, NEW lg \in Seq(Entry), NEW w, NEW md,
           NEW rd \in Nat \ {0}, NEW t \in Threads, NEW r,
           MemOK(f, op), DataOK(f, h, lg, w, md, rd, op), md = "run", OnlyPins(f, g),
           Becomes(h, h2, t, r), h[t].pc \notin {"load", "extend"}
    PROVE  DataOK(g, h2, lg, w, md, rd, op)
<1>1. PICK S : S = {}
  OBVIOUS
<1>2. LogOthers(lg, lg, S) /\ WOthers(w, w, S) /\ Len(lg) \in Nat
  BY LogSame DEF WOthers
<1>3. f.durable \in Nat /\ f.durable <= Len(lg) /\ LsnOK(f, op, Len(lg)) /\ g.durable = f.durable /\ OthersSame(f, g, S)
  BY <1>1 DEF DataOK, OnlyPins
<1>4. DurableUp(f, g, Len(lg))
  BY <1>2, <1>3 DEF DurableUp
<1>5. LsnOK(g, op, Len(lg))
  <2>1. ASSUME NEW b \in Pools PROVE LsnAt(g, op, Len(lg), b)
    <3>1. <<b, Header>> \in Keys
      BY BufferPoolAssumption DEF Keys, Header
    <3>2. Same(f, g, <<b, Header>>)
      BY <1>1, <1>3, <3>1 DEF OthersSame
    <3>3. PICK n \in Nat : n = Len(lg)
      BY <1>2
    <3>4. LsnOK(f, op, n) /\ n <= n /\ DurableUp(f, g, n)
      BY <1>3, <1>4, <3>3
    <3> QED BY <3>2, <3>3, <3>4, LsnStep
  <2> QED BY <2>1 DEF LsnOK
<1>6. LoadersKept(h, h2, S)
  <2>1. Loading(h[t], S)
    BY DEF Loading
  <2> QED BY <2>1, LoadersStep
<1>7. \A j \in Pages \cap S : PageOK(g, h2, lg, w, md, rd, j)
  BY <1>1
<1> QED BY <1>2, <1>3, <1>4, <1>5, <1>6, <1>7, DataJoin

\* What holds before a step.
LEMMA DataNow ==
    ASSUME IInv, PageInv
    PROVE  /\ StateOK(Memory, th, open, lock) /\ open \in SUBSET Pools /\ th \in [Threads -> ThreadRec]
           /\ IsMem(Memory) /\ MemOK(Memory, open) /\ log \in Seq(Entry) /\ redo \in Nat \ {0} /\ Len(log) \in Nat
           /\ DataOK(Memory, th, log, written, mode, redo, open) /\ Memory.durable \in 0..Len(log) /\ OnKeys(written)
<1>1. log \in Seq(Entry) /\ redo \in Nat \ {0}
  BY DEF IInv, TypeInv
<1> QED BY <1>1, StateNow DEF PageInv, DataOK

LEMMA PageInvNext ==
    ASSUME NEW g, NEW h2, PageInv, Memory' = g, th' = h2, UNCHANGED <<open, log, mode, redo, written>>,
           DataOK(g, h2, log, written, mode, redo, open)
    PROVE  PageInv'
  BY DEF PageInv

LEMMA FindData ==
    ASSUME IInv, PageInv, mode = "run", NEW t \in Threads, NEW k \in Pages, th[t].pc \in {"idle", "get"}, Find(t, k)
    PROVE  PageInv'
<1>1. /\ open \in SUBSET Pools /\ th \in [Threads -> ThreadRec] /\ IsMem(Memory) /\ MemOK(Memory, open)
      /\ log \in Seq(Entry) /\ redo \in Nat \ {0} /\ DataOK(Memory, th, log, written, mode, redo, open)
  BY DataNow
<1>2. UNCHANGED <<open, log, mode, redo, written>> /\ th[t].pc \notin {"load", "extend"}
  BY DEF Find
<1>3. PICK f, h2 : f = Memory /\ h2 = th'
  OBVIOUS
<1>4. \E r : Becomes(th, h2, t, r)
  BY <1>3, TakeIs DEF Find
<1>5. CASE k \in Resident /\ SetMemory(Pin(Memory, k))
  <2>1. PICK g : g = Pin(f, k)
    OBVIOUS
  <2>2. k \in DOMAIN f.frame /\ IsMem(f) /\ MemOK(f, open) /\ DataOK(f, th, log, written, mode, redo, open)
    BY <1>1, <1>3, <1>5, MemoryIs DEF Resident
  <2>3. OnlyPins(f, g)
    BY <1>1, <2>1, <2>2, PinEffect
  <2>4. DataOK(g, h2, log, written, mode, redo, open)
    BY <1>1, <1>2, <1>4, <2>2, <2>3, PinsChange
  <2>5. Memory' = g
    BY <1>1, <1>3, <1>5, <2>1, PinIs, SetMemoryIs
  <2> QED BY <1>2, <1>3, <2>4, <2>5, PageInvNext
<1>6. CASE UNCHANGED <<memory, store, durable, lost>>
  <2>1. OnlyPins(f, f) /\ MemOK(f, open) /\ DataOK(f, th, log, written, mode, redo, open)
    BY <1>1, <1>3 DEF OnlyPins, OthersSame, Same
  <2>2. DataOK(f, h2, log, written, mode, redo, open)
    BY <1>1, <1>2, <1>4, <2>1, PinsChange
  <2>3. Memory' = f
    BY <1>3, <1>6, MemoryKept
  <2> QED BY <1>2, <1>3, <2>2, <2>3, PageInvNext
<1> QED BY <1>5, <1>6 DEF Find

LEMMA GetData ==
    ASSUME IInv, PageInv, NEW t \in Threads, NEW k \in Keys, Get(t, k)
    PROVE  PageInv'
<1>1. mode = "run" /\ th[t].pc = "idle" /\ k \in Pages /\ Find(t, k)
  BY KeyIs DEF Get, At
<1> QED BY <1>1, FindData

LEMMA LookupData ==
    ASSUME IInv, PageInv, NEW t \in Threads, Lookup(t)
    PROVE  PageInv'
<1>1. mode = "run" /\ th[t].pc = "get" /\ Find(t, th[t].key)
  BY DEF Lookup, At
<1>2. th[t].key \in Pages
  BY <1>1, StateNow DEF StateOK, ThreadOK
<1> QED BY <1>1, <1>2, FindData

\* A frame nobody has pinned is purged.
LEMMA VictimEffect ==
    ASSUME NEW op \in SUBSET Pools, NEW f, NEW h, NEW lk, NEW lg \in Seq(Entry), NEW w, NEW md, NEW rd,
           NEW v \in DOMAIN f.frame, NEW b, NEW g,
           StateOK(f, h, op, lk), DataOK(f, h, lg, w, md, rd, op), f.frame[v].pin = 0, g = Purge(f, b, v)
    PROVE  /\ v \in Pages /\ OthersSame(f, g, {v}) /\ (Out(f, g, v) \/ WrittenOut(f, g, v)) /\ ~Loader(h, v)
           /\ DurableUp(f, g, Len(lg))
<1>1. IsMem(f) /\ MemOK(f, op) /\ PinOK(f, h, v)
  BY DEF StateOK
<1>2. v \in Keys
  BY <1>1, FrameIs
<1>3. v[2] # Header
  <2>1. IsFiniteSet(UsersIn(h, v))
    BY BufferPoolAssumption, FS_Subset DEF UsersIn
  <2>2. Cardinality(UsersIn(h, v)) \in Nat
    BY <2>1, FS_CardinalityType
  <2> QED BY <1>1, <2>2 DEF PinOK, Own
<1>4. v \in Pages
  BY <1>2, <1>3, KeyIs
<1>5. ~Loader(h, v)
  <2>1. UsersIn(h, v) = {}
    BY <1>2, <1>3, NoUsers
  <2> QED BY <2>1 DEF UsersIn, Loader, Loads, At1
<1>6. f.durable \in 0..Len(lg) /\ Len(lg) \in Nat /\ DataIs(lg, Len(lg), v, f.frame[v].data)
  BY <1>4 DEF DataOK, PageOK
<1>7. PageLsn(f, v) \in 0..Len(lg)
  BY <1>3, <1>6 DEF PageLsn, DataIs
<1>8. f.durable \in Int /\ PageLsn(f, v) \in Int
  BY <1>6, <1>7
<1>9. /\ OthersSame(f, g, {v}) /\ (Out(f, g, v) \/ WrittenOut(f, g, v))
      /\ g.durable \in Int /\ f.durable <= g.durable /\ WroteLsn(f, g, v)
  BY <1>1, <1>8, PurgeEffect
<1>10. DurableUp(f, g, Len(lg))
  BY <1>6, <1>7, <1>9 DEF DurableUp, WroteLsn
<1> QED BY <1>4, <1>5, <1>9, <1>10

LEMMA AllocateFrameData ==
    ASSUME IInv, PageInv, NEW t \in Threads, AllocateFrame(t)
    PROVE  PageInv'
<1>1. /\ open \in SUBSET Pools /\ th \in [Threads -> ThreadRec] /\ IsMem(Memory) /\ MemOK(Memory, open)
      /\ StateOK(Memory, th, open, lock)
      /\ log \in Seq(Entry) /\ redo \in Nat \ {0} /\ DataOK(Memory, th, log, written, mode, redo, open)
  BY DataNow
<1>2. PICK k : k = th[t].key
  OBVIOUS
<1>3. /\ th[t].pc \in {"lock", "alloc", "extending"} /\ mode = "run"
      /\ UNCHANGED <<open, log, mode, redo, written>>
  BY <1>2 DEF AllocateFrame, At
<1>4. k \in Pages
  <2>1. ThreadOK(th[t], t, Memory, open, lock)
    BY <1>1 DEF StateOK
  <2> QED BY <1>2, <1>3, <2>1 DEF ThreadOK
<1>5. PICK f, h2 : f = Memory /\ h2 = th'
  OBVIOUS
<1>6. PICK p \in {"load", "extend"}, q \in {"extending", "alloc"} :
         /\ p = (IF th[t].pc = "extending" THEN "extend" ELSE "load")
         /\ q = (IF th[t].pc = "extending" THEN "extending" ELSE "alloc")
  OBVIOUS
<1>7. StateOK(f, th, open, lock) /\ IsMem(f) /\ MemOK(f, open) /\ DataOK(f, th, log, written, mode, redo, open)
  BY <1>1, <1>5
<1>8. th[t].pc \notin {"load", "extend"} /\ \A S : Loading(th[t], S)
  BY <1>3 DEF Loading
<1>9. ASSUME NEW S, NEW r, Becomes(th, h2, t, r) PROVE LoadersKept(th, h2, S)
  BY <1>1, <1>8, <1>9, LoadersStep
<1>10. f.durable \in Nat /\ f.durable <= Len(log) /\ Len(log) \in Nat
  BY <1>1, <1>7 DEF DataOK
<1>15. CASE k \in Resident /\ SetMemory(Pin(Memory, k)) /\ Go(t, p)
  <2>1. \E r : Becomes(th, h2, t, r)
    BY <1>1, <1>5, <1>15, GoIs
  <2>2. PICK g : g = Pin(f, k)
    OBVIOUS
  <2>3. k \in DOMAIN f.frame
    BY <1>5, <1>15, MemoryIs DEF Resident
  <2>4. OnlyPins(f, g)
    BY <1>1, <1>7, <2>2, <2>3, PinEffect
  <2>5. DataOK(g, h2, log, written, mode, redo, open)
    BY <1>1, <1>3, <1>7, <1>8, <2>1, <2>4, PinsChange
  <2>6. Memory' = g
    BY <1>5, <1>7, <1>15, <2>2, PinIs, SetMemoryIs
  <2> QED BY <1>3, <1>5, <2>5, <2>6, PageInvNext
<1>16. CASE k \notin Resident /\ SetMemory(Alloc(Memory, k)) /\ Go(t, p)
  <2>1. PICK r : r = State(p, k) /\ Becomes(th, h2, t, r)
    BY <1>1, <1>2, <1>5, <1>6, <1>16, GoIs
  <2>2. PICK g : g = Alloc(f, k)
    OBVIOUS
  <2>3. k \notin DOMAIN f.frame
    BY <1>5, <1>16, MemoryIs DEF Resident
  <2>4. OthersSame(f, g, {k}) /\ New(f, g, k) /\ g.durable = f.durable
    BY <1>7, <2>2, <2>3, AllocEffect
  <2>5. Loader(h2, k)
    BY <1>1, <1>6, <2>1 DEF Loader, Loads, Becomes, State
  <2>6. Changes(f, g, th, h2, k) /\ DurableUp(f, g, Len(log)) /\ LoadersKept(th, h2, {k})
    BY <1>9, <1>10, <2>1, <2>4, <2>5 DEF Changes, Moves, DurableUp
  <2>7. DataOK(g, h2, log, written, mode, redo, open)
    BY <1>1, <1>3, <1>4, <1>7, <2>4, <2>6, OneChange DEF InRun
  <2>8. Memory' = g
    BY <1>5, <1>7, <1>16, <2>2, AllocIs, SetMemoryIs
  <2> QED BY <1>3, <1>5, <2>7, <2>8, PageInvNext
<1>17. CASE \E v \in Victims(Memory) : SetMemory(Purge(Memory, k[1], v)) /\ Go(t, q)
  <2>1. PICK r : Becomes(th, h2, t, r)
    BY <1>1, <1>5, <1>17, GoIs
  <2>2. PICK v \in DOMAIN f.frame : SetMemory(Purge(Memory, k[1], v)) /\ f.frame[v].pin = 0
    BY <1>5, <1>17 DEF Victims, CanPurge
  <2>3. PICK g, b : g = Purge(f, b, v) /\ b = k[1]
    OBVIOUS
  <2>4. /\ v \in Pages /\ OthersSame(f, g, {v}) /\ (Out(f, g, v) \/ WrittenOut(f, g, v)) /\ ~Loader(th, v)
        /\ DurableUp(f, g, Len(log))
    BY <1>1, <1>7, <2>2, <2>3, VictimEffect
  <2>5. Changes(f, g, th, h2, v) /\ LoadersKept(th, h2, {v})
    BY <1>9, <2>1, <2>4 DEF Changes, Moves
  <2>6. DataOK(g, h2, log, written, mode, redo, open)
    BY <1>1, <1>3, <1>7, <2>4, <2>5, OneChange DEF InRun
  <2>7. IsMem(g)
    <3>1. v[2] # Header
      BY <2>4 DEF Pages, Header
    <3>2. MemOK(g, open) /\ Freed(f, g, v)
      BY <1>1, <1>7, <2>3, <3>1, PurgeOK
    <3> QED BY <3>2 DEF Freed
  <2>8. Memory' = g
    BY <1>5, <2>2, <2>3, <2>7, SetMemoryIs
  <2> QED BY <1>3, <1>5, <2>6, <2>8, PageInvNext
<1> QED BY <1>2, <1>6, <1>15, <1>16, <1>17 DEF AllocateFrame

LEMMA UnpinPageData ==
    ASSUME IInv, PageInv, NEW t \in Threads, UnpinPage(t)
    PROVE  PageInv'
<1>1. /\ open \in SUBSET Pools /\ th \in [Threads -> ThreadRec] /\ IsMem(Memory) /\ MemOK(Memory, open)
      /\ StateOK(Memory, th, open, lock)
      /\ log \in Seq(Entry) /\ redo \in Nat \ {0} /\ DataOK(Memory, th, log, written, mode, redo, open)
  BY DataNow
<1>2. PICK k, f, h2 : k = th[t].key /\ f = Memory /\ h2 = th'
  OBVIOUS
<1>3. /\ th[t].pc = "hold" /\ mode = "run" /\ SetMemory(Unpin(Memory, k)) /\ Go(t, "idle")
      /\ UNCHANGED <<open, log, mode, redo, written>>
  BY <1>2 DEF UnpinPage, At
<1>4. k \in DOMAIN f.frame
  <2>1. ThreadOK(th[t], t, f, open, lock)
    BY <1>1, <1>2 DEF StateOK
  <2> QED BY <1>2, <1>3, <2>1 DEF ThreadOK
<1>5. PICK r : Becomes(th, h2, t, r)
  BY <1>1, <1>2, <1>3, GoIs
<1>6. PICK g : g = Unpin(f, k)
  OBVIOUS
<1>7. IsMem(f) /\ MemOK(f, open) /\ DataOK(f, th, log, written, mode, redo, open) /\ th[t].pc \notin {"load", "extend"}
  BY <1>1, <1>2, <1>3
<1>8. OnlyPins(f, g)
  BY <1>1, <1>4, <1>6, <1>7, UnpinEffect
<1>9. DataOK(g, h2, log, written, mode, redo, open)
  BY <1>1, <1>3, <1>5, <1>7, <1>8, PinsChange
<1>10. Memory' = g
  BY <1>2, <1>3, <1>6, <1>7, UnpinIs, SetMemoryIs
<1> QED BY <1>2, <1>3, <1>9, <1>10, PageInvNext

\* A step of the run that changes pages and headers of S.
HeadersLsn(g, op, n, S) == \A b \in Pools : <<b, Header>> \in S => LsnAt(g, op, n, b)
PagesIn(g, h, lg, w, md, rd, S) == \A k \in Pages \cap S : PageOK(g, h, lg, w, md, rd, k)
LEMMA RunStep ==
    ASSUME NEW op \in SUBSET Pools, NEW f, NEW g, NEW h, NEW h2, NEW lg \in Seq(Entry), NEW lg2 \in Seq(Entry),
           NEW w, NEW w2, NEW md, NEW rd \in Nat \ {0}, NEW S,
           MemOK(f, op), DataOK(f, h, lg, w, md, rd, op), md = "run", OthersSame(f, g, S), LoadersKept(h, h2, S),
           LogOthers(lg, lg2, S), WOthers(w, w2, S), DurableUp(f, g, Len(lg2)), Len(lg) <= Len(lg2),
           HeadersLsn(g, op, Len(lg2), S), PagesIn(g, h2, lg2, w2, md, rd, S)
    PROVE  DataOK(g, h2, lg2, w2, md, rd, op)
<1>1. LsnOK(f, op, Len(lg)) /\ Len(lg) \in Nat /\ Len(lg2) \in Nat
  BY DEF DataOK
<1>2. LsnOK(g, op, Len(lg2))
  <2>1. ASSUME NEW b \in Pools, <<b, Header>> \notin S PROVE LsnAt(g, op, Len(lg2), b)
    <3>1. <<b, Header>> \in Keys
      BY BufferPoolAssumption DEF Keys, Header
    <3>2. Same(f, g, <<b, Header>>)
      BY <2>1, <3>1 DEF OthersSame
    <3>3. PICK n \in Nat, m \in Nat : n = Len(lg) /\ m = Len(lg2)
      BY <1>1
    <3>4. LsnOK(f, op, n) /\ n <= m /\ DurableUp(f, g, m)
      BY <1>1, <3>3
    <3>5. LsnAt(g, op, m, b)
      BY <3>2, <3>4, LsnStep
    <3> QED BY <3>3, <3>5
  <2> QED BY <2>1 DEF LsnOK, HeadersLsn
<1> QED BY <1>1, <1>2, DataJoin DEF PagesIn

\* A page nobody has changed since it was allocated.
Fresh(f, g, k) ==
    /\ \/ g.store[k] = f.store[k]
       \/ k \in DOMAIN f.frame /\ g.store[k] = f.frame[k].data /\ f.frame[k].data <= g.durable
    /\ k \in DOMAIN g.frame => g.frame[k].data = 0 \/ (k \in DOMAIN f.frame /\ g.frame[k].data = f.frame[k].data)
LEMMA FreshPage ==
    ASSUME NEW f, NEW g, NEW h, NEW h2, NEW lg, NEW lg2, NEW w, NEW w2, NEW md, NEW rd, NEW k \in Pages,
           PageOK(f, h, lg, w, md, rd, k), Fresh(f, g, k), LogKept(lg, lg2, k), w2[k] = 0, md = "run",
           f.durable <= Len(lg), DurableUp(f, g, Len(lg2))
    PROVE  PageOK(g, h2, lg2, w2, md, rd, k)
<1>0. /\ f.durable \in Nat /\ g.durable \in Nat /\ f.durable <= g.durable /\ g.durable <= Len(lg2)
      /\ Len(lg) \in Nat /\ Len(lg2) \in Nat /\ Len(lg) <= Len(lg2)
  BY DEF DurableUp, LogKept
<1>1. g.store[k] # Absent => DataIs(lg2, g.durable, k, g.store[k])
  <2>1. CASE g.store[k] = f.store[k]
    BY <1>0, <2>1, DataGrows DEF PageOK
  <2>2. CASE k \in DOMAIN f.frame /\ g.store[k] = f.frame[k].data /\ f.frame[k].data <= g.durable
    <3>1. DataIs(lg, Len(lg), k, f.frame[k].data)
      BY <2>2 DEF PageOK
    <3> QED BY <1>0, <2>2, <3>1 DEF DataIs, LogKept
  <2> QED BY <2>1, <2>2 DEF Fresh
<1>2. k \in DOMAIN g.frame => DataIs(lg2, Len(lg2), k, g.frame[k].data)
  <2>1. CASE k \in DOMAIN g.frame /\ g.frame[k].data = 0
    BY <2>1 DEF DataIs
  <2>2. CASE k \in DOMAIN f.frame /\ g.frame[k].data = f.frame[k].data
    <3>1. DataIs(lg, Len(lg), k, f.frame[k].data)
      BY <2>2 DEF PageOK
    <3> QED BY <1>0, <2>2, <3>1, DataGrows
  <2> QED BY <2>1, <2>2 DEF Fresh
<1>3. g.store[k] = Absent => f.store[k] = Absent
  <2>1. CASE k \in DOMAIN f.frame /\ g.store[k] = f.frame[k].data
    <3>1. DataIs(lg, Len(lg), k, f.frame[k].data)
      BY <2>1 DEF PageOK
    <3>2. f.frame[k].data # Absent
      BY <1>0, <3>1 DEF DataIs, Absent
    <3> QED BY <2>1, <3>2
  <2> QED BY <2>1 DEF Fresh
<1>4. f.store[k] = Absent => \A i \in 1..Len(lg2) : lg2[i] # W(k)
  BY <1>0 DEF PageOK, LogKept
<1> QED BY <1>1, <1>2, <1>3, <1>4 DEF PageOK

LEMMA LoadData ==
    ASSUME IInv, PageInv, NEW t \in Threads, Load(t)
    PROVE  PageInv'
<1>1. /\ open \in SUBSET Pools /\ th \in [Threads -> ThreadRec] /\ IsMem(Memory) /\ MemOK(Memory, open)
      /\ StateOK(Memory, th, open, lock)
      /\ log \in Seq(Entry) /\ redo \in Nat \ {0} /\ DataOK(Memory, th, log, written, mode, redo, open)
  BY DataNow
<1>2. PICK k, f, h2 : k = th[t].key /\ f = Memory /\ h2 = th'
  OBVIOUS
<1>3. th[t].pc = "load" /\ mode = "run" /\ UNCHANGED <<open, log, mode, redo, written>>
  BY <1>2 DEF Load, At
<1>4. k \in Pages /\ k \in DOMAIN f.frame /\ k[2] # Header
  <2>1. ThreadOK(th[t], t, f, open, lock)
    BY <1>1, <1>2 DEF StateOK
  <2> QED BY <1>2, <1>3, <2>1 DEF ThreadOK, Pages, Header
<1>5. IsMem(f) /\ MemOK(f, open) /\ DataOK(f, th, log, written, mode, redo, open)
  BY <1>1, <1>2
<1>6. ASSUME NEW r, Becomes(th, h2, t, r) PROVE LoadersKept(th, h2, {k})
  <2>1. Loading(th[t], {k})
    BY <1>2 DEF Loading
  <2> QED BY <1>1, <1>6, <2>1, LoadersStep
<1>7. f.durable \in Nat /\ f.durable <= Len(log) /\ Len(log) \in Nat /\ PageOK(f, th, log, written, mode, redo, k)
  BY <1>1, <1>4, <1>5 DEF DataOK
<1>8. CASE store[k] # Absent /\ SetMemory(LoadPage(Memory, k)) /\ Go(t, "hold")
  <2>1. PICK r : Becomes(th, h2, t, r)
    BY <1>1, <1>2, <1>8, GoIs
  <2>2. PICK g : g = LoadPage(f, k)
    OBVIOUS
  <2>3. OthersSame(f, g, {k}) /\ Loaded(f, g, k) /\ g.durable = f.durable
    BY <1>1, <1>4, <1>5, <2>2, LoadEffect
  <2>4. f.store[k] # Absent
    BY <1>2, <1>8, MemoryIs
  <2>5. Changes(f, g, th, h2, k) /\ DurableUp(f, g, Len(log)) /\ LoadersKept(th, h2, {k})
    <3>1. Changes(f, g, th, h2, k)
      BY <2>3, <2>4 DEF Changes
    <3>2. DurableUp(f, g, Len(log))
      BY <1>7, <2>3 DEF DurableUp
    <3>3. LoadersKept(th, h2, {k})
      BY <1>6, <2>1
    <3> QED BY <3>1, <3>2, <3>3
  <2>6. DataOK(g, h2, log, written, mode, redo, open)
    BY <1>1, <1>3, <1>4, <1>5, <2>3, <2>5, OneChange DEF InRun
  <2>7. Memory' = g
    BY <1>2, <1>5, <1>8, <2>2, LoadIs, SetMemoryIs
  <2> QED BY <1>2, <1>3, <2>6, <2>7, PageInvNext
<1>9. CASE store[k] = Absent /\ SetMemory(PurgeFrame(Memory, k)) /\ Go(t, "idle")
  <2>1. PICK r : Becomes(th, h2, t, r)
    BY <1>1, <1>2, <1>9, GoIs
  <2>2. PICK g : g = PurgeFrame(f, k)
    OBVIOUS
  <2>3. f.store[k] = Absent /\ written[k] = 0 /\ PageLsn(f, k) = f.frame[k].data /\ PageLsn(f, k) \in 0..Len(log)
    BY <1>2, <1>4, <1>7, <1>9, MemoryIs DEF PageOK, PageLsn, DataIs
  <2>4. Fresh(f, g, k) /\ OthersSame(f, g, {k}) /\ DurableUp(f, g, Len(log)) /\ IsMem(g)
    <3>1. CASE f.frame[k].pin # 1
      <4>1. g = f
        BY <2>2, <3>1 DEF PurgeFrame
      <4> QED BY <1>4, <1>5, <1>7, <4>1 DEF Fresh, OthersSame, Same, DurableUp
    <3>2. CASE f.frame[k].pin = 1 /\ f.frame[k].dirty
      <4>1. g = FreeFrame(FlushInternal(f, k), k)
        BY <2>2, <3>2 DEF PurgeFrame
      <4>2. f.durable \in Int /\ PageLsn(f, k) \in Int
        BY <1>7, <2>3
      <4>3. /\ OthersSame(f, g, {k}) /\ WrittenOut(f, g, k)
            /\ g.durable \in Int /\ f.durable <= g.durable /\ WroteLsn(f, g, k)
        BY <1>1, <1>4, <1>5, <4>1, <4>2, FlushFreeEffect
      <4>4. IsMem(g)
        BY <1>5, <4>1, FlushIs, FreeIs
      <4> QED BY <1>7, <2>3, <4>3, <4>4 DEF Fresh, WrittenOut, WroteLsn, DurableUp
    <3>3. CASE f.frame[k].pin = 1 /\ ~f.frame[k].dirty
      <4>1. g = FreeFrame(f, k)
        BY <2>2, <3>3 DEF PurgeFrame
      <4>2. /\ FreedOnly(f, g, k) /\ g.store = f.store /\ g.lost = f.lost /\ g.durable = f.durable
            /\ OthersSame(f, g, {k})
        BY <1>5, <4>1, FreeEffect
      <4>3. IsMem(g)
        BY <1>5, <4>1, FreeIs
      <4> QED BY <1>7, <4>2, <4>3 DEF Fresh, FreedOnly, DurableUp
    <3> QED BY <3>1, <3>2, <3>3
  <2>5. LogKept(log, log, k) /\ LogOthers(log, log, {k}) /\ WOthers(written, written, {k})
    BY <1>1, LogSame DEF WOthers
  <2>6. PageOK(g, h2, log, written, mode, redo, k)
    BY <1>3, <1>4, <1>7, <2>3, <2>4, <2>5, FreshPage
  <2>7. PagesIn(g, h2, log, written, mode, redo, {k}) /\ HeadersLsn(g, open, Len(log), {k})
    BY <1>4, <2>6 DEF PagesIn, HeadersLsn, Pages, Header
  <2>8. LoadersKept(th, h2, {k})
    BY <1>6, <2>1
  <2>9. DataOK(g, h2, log, written, mode, redo, open)
    <3>1. PICK S : S = {k}
      OBVIOUS
    <3> QED BY <1>1, <1>3, <1>5, <1>7, <2>4, <2>5, <2>7, <2>8, <3>1, RunStep
  <2>10. Memory' = g
    BY <1>2, <1>9, <2>2, <2>4, SetMemoryIs
  <2> QED BY <1>2, <1>3, <2>9, <2>10, PageInvNext
<1> QED BY <1>2, <1>8, <1>9 DEF Load

-----------------------------------------------------------------------------
(***************************************************************************)
(* The actions that log.                                                   *)
(***************************************************************************)
\* One more entry e.
Appended(lg, lg2, e) == Len(lg2) = Len(lg) + 1 /\ lg2[Len(lg2)] = e /\ \A i \in 1..Len(lg) : lg2[i] = lg[i]
LEMMA LogAppended ==
    ASSUME IInv, NEW o \in {"allocate", "deallocate", "write"}, NEW k \in Pages, Log(o, k)
    PROVE  /\ log' \in Seq(Entry) /\ Appended(log, log', [op |-> o, key |-> k])
           /\ Len(log) \in Nat /\ Len(log') \in Nat /\ Len(log') = Len(log) + 1 /\ Len(log) <= Len(log')
<1>1. PICK e \in Entry : e = [op |-> o, key |-> k]
  BY DEF Entry
<1>2. log' = Append(log, e) /\ log \in Seq(Entry)
  BY <1>1, StateNow DEF Log
<1>3. log' \in Seq(Entry)
  BY <1>1, <1>2
<1>4. Len(log') = Len(log) + 1 /\ log'[Len(log')] = e /\ \A i \in 1..Len(log) : log'[i] = log[i]
  BY <1>1, <1>2
<1>5. Len(log) \in Nat
  BY <1>2
<1> QED BY <1>1, <1>3, <1>4, <1>5 DEF Appended

\* The entry is no change of page j.
LEMMA AppendKeeps ==
    ASSUME NEW lg, NEW lg2, NEW e, NEW j,
           Appended(lg, lg2, e), Len(lg) \in Nat, e # W(j)
    PROVE  LogKept(lg, lg2, j)
  BY DEF Appended, LogKept

LEMMA AppendOthers ==
    ASSUME NEW lg, NEW lg2, NEW o, NEW k, NEW S,
           Appended(lg, lg2, [op |-> o, key |-> k]), Len(lg) \in Nat, o # "write" \/ k \in S
    PROVE  LogOthers(lg, lg2, S) /\ (o # "write" => \A j : LogKept(lg, lg2, j))
<1>1. PICK e : e = [op |-> o, key |-> k]
  OBVIOUS
<1>2. ASSUME NEW j, e # W(j) PROVE LogKept(lg, lg2, j)
  BY <1>1, <1>2, AppendKeeps
<1>3. \A j : j # k \/ o # "write" => e # W(j)
  <2>1. e.op = o /\ e.key = k
    BY <1>1
  <2>2. \A j : W(j).op = "write" /\ W(j).key = j
    BY DEF W
  <2> QED BY <2>1, <2>2
<1> QED BY <1>2, <1>3 DEF LogOthers

SameElse(f, g, c) == OthersSame(f, g, {c})
IsHdr(c, b)   == c = <<b, Header>>
IsDirty(g, c) == g.frame[c].dirty
FramesBut(f, g, c) == DOMAIN g.frame = DOMAIN f.frame /\ \A j \in DOMAIN f.frame : j # c => g.frame[j] = f.frame[j]
LEMMA SetHeaderEffect ==
    ASSUME NEW op \in SUBSET Pools, NEW f, NEW b \in op, NEW d, NEW g, NEW c,
           IsMem(f), MemOK(f, op), g = SetHeader(f, b, d), IsHdr(c, b)
    PROVE  /\ IsMem(g) /\ SameElse(f, g, c) /\ g.store = f.store /\ g.durable = f.durable
           /\ FramesBut(f, g, c) /\ HdrOf(g, b) = d /\ IsDirty(g, c) /\ g.lost = f.lost
<1>1. PICK k \in DOMAIN f.frame : k = <<b, Header>> /\ k = c
  <2>1. <<b, Header>> \in DOMAIN f.frame
    BY CountIs
  <2> QED BY <2>1 DEF IsHdr
<1>2. PICK p, q : p \in FrameRec /\ p = f.frame[k] /\ q = Dirtied(p, d)
  BY FrameIs
<1>3. q.data = d /\ q.dirty
  BY <1>2 DEF Dirtied, FrameRec
<1>4. IsMem(g) /\ g.frame = Put(f.frame, k, q) /\ g.store = f.store /\ g.durable = f.durable /\ g.lost = f.lost
  BY <1>1, <1>2, SetHeaderIs
<1>5. DOMAIN g.frame = DOMAIN f.frame /\ g.frame[k] = q /\ \A j \in DOMAIN f.frame : j # k => g.frame[j] = f.frame[j]
  BY <1>4 DEF Put, MemOK, FramesOK
<1> QED BY <1>1, <1>3, <1>4, <1>5 DEF OthersSame, Same, HdrOf, FramesBut, IsDirty, SameElse

\* The LSN of a header is the entry just logged.
LEMMA HeaderLsn ==
    ASSUME NEW op \in SUBSET Pools, NEW f, NEW g, NEW b \in op, NEW n \in Nat, NEW n2 \in Nat,
           MemOK(f, op), LsnOK(f, op, n), g.store[<<b, Header>>] = f.store[<<b, Header>>], HdrOf(g, b).lsn <= n2,
           DurableUp(f, g, n2)
    PROVE  LsnAt(g, op, n2, b)
<1>1. f.store[<<b, Header>>].lsn \in Nat /\ f.store[<<b, Header>>].lsn <= f.durable
  BY DEF MemOK, StoreOK, HeaderOK, FileHdr, LsnOK, LsnAt
<1>2. f.durable \in Nat /\ g.durable \in Nat /\ f.durable <= g.durable
  BY DEF DurableUp
<1> QED BY <1>1, <1>2 DEF LsnAt

\* The page allocate_page finds.
LEMMA FreePageIs ==
    ASSUME IInv, NEW b \in open, NEW n, FreeBits(b) # {}, n = CHOOSE i \in FreeBits(b) : \A j \in FreeBits(b) : i <= j
    PROVE  <<b, n>> \in Pages /\ n < Hdr(b).count /\ n \notin Hdr(b).bits
<1>1. HeaderOK(Hdr(b)) /\ Hdr(b).count \in 1..MaxPageNum /\ Hdr(b).count \in Nat /\ b \in Pools
  BY HdrIs
<1>2. n \in FreeBits(b) /\ \A j \in FreeBits(b) : n <= j
  <2>1. PICK S : S = FreeBits(b)
    OBVIOUS
  <2>2. S \in SUBSET Nat /\ S # {}
    BY <1>1, <2>1 DEF FreeBits
  <2>3. \E m \in S : \A j \in S : m <= j
    BY <2>2, LeastIs
  <2>4. n = CHOOSE i \in S : \A j \in S : i <= j
    BY <2>1
  <2> QED BY <2>1, <2>3, <2>4
<1>3. n \in 1..(MaxPageNum - 1) /\ n < Hdr(b).count /\ n \notin Hdr(b).bits
  BY <1>1, <1>2, BufferPoolAssumption DEF FreeBits, HeaderOK, Header
<1>4. <<b, n>> \in Pages
  <2>1. PICK c \in Pools, m \in 1..(MaxPageNum - 1) : c = b /\ m = n
    BY <1>1, <1>3
  <2>2. <<c, m>> \in Pages
    BY DEF Pages
  <2> QED BY <2>1, <2>2
<1> QED BY <1>3, <1>4

PutAt(w, w2, k) == \A j : j # k => w2[j] = w[j]
LEMMA PutIn ==
    ASSUME NEW w, NEW w2, NEW k \in Pages, NEW v,
           OnKeys(w), w2 = [w EXCEPT ![k] = v]
    PROVE  OnKeys(w2) /\ w2[k] = v /\ PutAt(w, w2, k)
<1>1. k \in Keys
  BY DEF Pages, Keys
<1>2. w2 = [j \in Keys |-> IF j = k THEN v ELSE w[j]]
  BY <1>1 DEF OnKeys
<1> QED BY <1>1, <1>2 DEF OnKeys, PutAt

\* allocate_page and dispose_page log, and page k is a new one after them, or none.
LogsFresh(f, g, b, k, n) ==
    /\ Fresh(f, g, k) /\ g.store = f.store /\ g.durable = f.durable /\ HdrOf(g, b).lsn <= n
LEMMA FreshStep ==
    ASSUME IInv, PageInv, mode = "run", NEW b \in open, NEW k \in Pages, NEW o \in {"allocate", "deallocate"},
           NEW f, NEW g, NEW h2, NEW S, Log(o, k), f = Memory, g = Memory', h2 = th', S = {<<b, Header>>, k},
           OthersSame(f, g, S), LogsFresh(f, g, b, k, Len(log')), LoadersKept(th, h2, S),
           Becomes(written, written', k, 0), UNCHANGED <<open, mode, redo>>
    PROVE  PageInv'
<1>1. /\ open \in SUBSET Pools /\ MemOK(f, open) /\ log \in Seq(Entry) /\ redo \in Nat \ {0}
      /\ DataOK(f, th, log, written, mode, redo, open) /\ OnKeys(written)
  BY DataNow
<1>2. PICK lg, w, w2, c : lg = log' /\ w = written /\ w2 = written' /\ c = <<b, Header>>
  OBVIOUS
<1>3. /\ lg \in Seq(Entry) /\ Appended(log, lg, [op |-> o, key |-> k])
      /\ Len(log) \in Nat /\ Len(lg) \in Nat /\ Len(lg) = Len(log) + 1 /\ Len(log) <= Len(lg)
  BY <1>2, LogAppended
<1>4. OnKeys(w2) /\ w2[k] = 0 /\ PutAt(w, w2, k)
  <2>1. OnKeys(w) /\ w2 = [w EXCEPT ![k] = 0]
    BY <1>1, <1>2 DEF Becomes
  <2> QED BY <2>1, PutIn
<1>5. WOthers(w, w2, S)
  BY <1>4 DEF WOthers, PutAt
<1>6. LogOthers(log, lg, S) /\ LogKept(log, lg, k)
  BY <1>3, AppendOthers
<1>7. f.durable \in Nat /\ f.durable <= Len(log) /\ PageOK(f, th, log, w, mode, redo, k) /\ LsnOK(f, open, Len(log))
  BY <1>1, <1>2, <1>3 DEF DataOK
<1>8. DurableUp(f, g, Len(lg))
  BY <1>3, <1>7 DEF DurableUp, LogsFresh
<1>9. HeadersLsn(g, open, Len(lg), S)
  <2>1. LsnAt(g, open, Len(lg), b)
    <3>1. PICK m \in Nat, m2 \in Nat : m = Len(log) /\ m2 = Len(lg)
      BY <1>3
    <3>2. /\ LsnOK(f, open, m) /\ HdrOf(g, b).lsn <= m2 /\ DurableUp(f, g, m2)
          /\ g.store[<<b, Header>>] = f.store[<<b, Header>>]
      BY <1>2, <1>7, <1>8, <3>1 DEF LogsFresh
    <3>3. LsnAt(g, open, m2, b)
      BY <1>1, <3>2, HeaderLsn
    <3> QED BY <3>1, <3>3
  <2>2. ASSUME NEW x \in Pools, <<x, Header>> \in S PROVE x = b
    BY <2>2 DEF Pages, Header
  <2> QED BY <2>1, <2>2 DEF HeadersLsn
<1>10. PagesIn(g, h2, lg, w2, mode, redo, S)
  <2>1. PageOK(g, h2, lg, w2, mode, redo, k)
    BY <1>4, <1>6, <1>7, <1>8, FreshPage DEF LogsFresh
  <2>2. <<b, Header>> \notin Pages
    BY DEF Pages, Header
  <2> QED BY <2>1, <2>2 DEF PagesIn
<1>11. DataOK(g, h2, lg, w2, mode, redo, open)
  BY <1>1, <1>2, <1>3, <1>5, <1>6, <1>8, <1>9, <1>10, RunStep
<1> QED BY <1>2, <1>4, <1>11 DEF PageInv

LEMMA AllocateFreePageData ==
    ASSUME IInv, PageInv, NEW t \in Threads, NEW b \in Pools, AllocateFreePage(t, b)
    PROVE  PageInv'
<1>1. open \in SUBSET Pools /\ th \in [Threads -> ThreadRec] /\ IsMem(Memory) /\ MemOK(Memory, open)
  BY DataNow
<1>2. PICK n, d : /\ n = CHOOSE i \in FreeBits(b) : \A j \in FreeBits(b) : i <= j
                  /\ d = [Hdr(b) EXCEPT !.bits = @ \cup {n}, !.lsn = Len(log) + 1]
  OBVIOUS
<1>3. PICK k, c, S : k = <<b, n>> /\ c = <<b, Header>> /\ S = {c, k}
  OBVIOUS
<1>4. /\ th[t].pc = "idle" /\ mode = "run" /\ b \in open /\ FreeBits(b) # {} /\ SetMemory(SetHeader(Memory, b, d))
      /\ Log("allocate", k) /\ Take(t, "get", k) /\ UNCHANGED <<open, mode, redo>>
      /\ Becomes(written, written', k, 0)
  BY <1>2, <1>3 DEF AllocateFreePage, At, Becomes
<1>5. k \in Pages /\ k # c
  <2>1. k \in Pages
    BY <1>2, <1>3, <1>4, FreePageIs
  <2> QED BY <1>3, <2>1 DEF Pages, Header
<1>6. PICK f, g, h2 : f = Memory /\ g = SetHeader(f, b, d) /\ h2 = th'
  OBVIOUS
<1>7. /\ IsMem(g) /\ OthersSame(f, g, {c}) /\ g.store = f.store /\ g.durable = f.durable
      /\ FramesBut(f, g, c) /\ HdrOf(g, b) = d
  <2>1. IsMem(f) /\ MemOK(f, open) /\ open \in SUBSET Pools /\ b \in open /\ g = SetHeader(f, b, d)
          /\ IsHdr(c, b)
    BY <1>1, <1>3, <1>4, <1>6 DEF IsHdr
  <2>2. /\ IsMem(g) /\ SameElse(f, g, c) /\ g.store = f.store /\ g.durable = f.durable
        /\ FramesBut(f, g, c) /\ HdrOf(g, b) = d
    BY <2>1, SetHeaderEffect
  <2> QED BY <2>2 DEF SameElse
<1>8. OthersSame(f, g, S)
  BY <1>3, <1>7 DEF OthersSame
<1>9. LogsFresh(f, g, b, k, Len(log'))
  <2>1. Fresh(f, g, k)
    BY <1>5, <1>7 DEF Fresh, FramesBut
  <2>2. Hdr(b) \in FileHdr
    BY <1>4, HdrIs
  <2>3. d.lsn = Len(log) + 1
    BY <1>2, <2>2 DEF FileHdr
  <2>4. Len(log') = Len(log) + 1 /\ Len(log') \in Nat
    BY <1>4, <1>5, LogAppended
  <2> QED BY <1>7, <2>1, <2>3, <2>4 DEF LogsFresh
<1>10. LoadersKept(th, h2, S)
  <2>1. Becomes(th, h2, t, State("get", k)) /\ Loading(th[t], S)
    BY <1>4, <1>6, TakeIs DEF Loading
  <2> QED BY <1>1, <2>1, LoadersStep
<1>11. Memory' = g
  BY <1>4, <1>6, <1>7, SetMemoryIs
<1>12. PICK o \in {"allocate", "deallocate"} : o = "allocate"
  OBVIOUS
<1> QED BY <1>3, <1>4, <1>5, <1>6, <1>8, <1>9, <1>10, <1>11, <1>12, FreshStep

LEMMA DisposeData ==
    ASSUME IInv, PageInv, NEW t \in Threads, NEW k \in Keys, Dispose(t, k)
    PROVE  PageInv'
<1>1. open \in SUBSET Pools /\ th \in [Threads -> ThreadRec] /\ IsMem(Memory) /\ MemOK(Memory, open)
  BY DataNow
<1>2. PICK b, d : b = k[1] /\ d = [Hdr(b) EXCEPT !.bits = @ \ {k[2]}, !.lsn = Len(log) + 1]
  OBVIOUS
<1>3. PICK a, f, g, c, S, h2 : /\ f = Memory /\ a = (IF k \in Resident THEN FreeFrame(f, k) ELSE f)
                               /\ g = SetHeader(a, b, d) /\ c = <<b, Header>> /\ S = {c, k} /\ h2 = th'
  OBVIOUS
<1>4. /\ mode = "run" /\ b \in open /\ k[2] # Header /\ SetMemory(g) /\ Log("deallocate", k)
      /\ UNCHANGED <<th, open, mode, redo>> /\ Becomes(written, written', k, 0)
  BY <1>2, <1>3 DEF Dispose, At, Becomes
<1>5. k \in Pages /\ k # c
  BY <1>3, <1>4, KeyIs DEF Pages, Header
<1>6. IsMem(f) /\ MemOK(f, open) /\ Resident = DOMAIN f.frame
  BY <1>1, <1>3, MemoryIs DEF Resident
<1>7. /\ IsMem(a) /\ MemOK(a, open) /\ a.store = f.store /\ a.durable = f.durable /\ OthersSame(f, a, {k})
      /\ k \notin DOMAIN a.frame
  <2>1. CASE k \in Resident
    <3>1. k \in DOMAIN f.frame /\ a = FreeFrame(f, k)
      BY <1>3, <1>6, <2>1
    <3>2. MemOK(a, open) /\ Freed(f, a, k)
      BY <1>1, <1>4, <1>6, <3>1, FreeFrameOK
    <3>3. FreedOnly(f, a, k) /\ a.store = f.store /\ a.durable = f.durable /\ OthersSame(f, a, {k})
      BY <1>6, <3>1, FreeEffect
    <3> QED BY <3>2, <3>3 DEF Freed, FreedOnly
  <2>2. CASE k \notin Resident
    BY <1>3, <1>6, <2>2 DEF OthersSame, Same
  <2> QED BY <2>1, <2>2
<1>8. /\ IsMem(g) /\ OthersSame(a, g, {c}) /\ g.store = a.store /\ g.durable = a.durable
      /\ FramesBut(a, g, c) /\ HdrOf(g, b) = d
  <2>1. IsMem(a) /\ MemOK(a, open) /\ open \in SUBSET Pools /\ b \in open /\ g = SetHeader(a, b, d)
          /\ IsHdr(c, b)
    BY <1>1, <1>3, <1>4, <1>7 DEF IsHdr
  <2>2. /\ IsMem(g) /\ SameElse(a, g, c) /\ g.store = a.store /\ g.durable = a.durable
        /\ FramesBut(a, g, c) /\ HdrOf(g, b) = d
    BY <2>1, SetHeaderEffect
  <2> QED BY <2>2 DEF SameElse
<1>9. OthersSame(f, g, S)
  BY <1>3, <1>7, <1>8 DEF OthersSame, Same
<1>10. LogsFresh(f, g, b, k, Len(log'))
  <2>1. Fresh(f, g, k)
    BY <1>5, <1>7, <1>8 DEF Fresh, FramesBut
  <2>2. Hdr(b) \in FileHdr
    BY <1>4, HdrIs
  <2>3. d.lsn = Len(log) + 1
    BY <1>2, <2>2 DEF FileHdr
  <2>4. Len(log') = Len(log) + 1 /\ Len(log') \in Nat
    BY <1>4, <1>5, LogAppended
  <2> QED BY <1>7, <1>8, <2>1, <2>3, <2>4 DEF LogsFresh
<1>11. LoadersKept(th, h2, S)
  BY <1>3, <1>4 DEF LoadersKept
<1>12. Memory' = g
  BY <1>4, <1>8, SetMemoryIs
<1>13. PICK o \in {"allocate", "deallocate"} : o = "deallocate"
  OBVIOUS
<1> QED BY <1>3, <1>4, <1>5, <1>9, <1>10, <1>11, <1>12, <1>13, FreshStep

\* The LSN of a header grows with the log.
LEMMA BeginExtendData ==
    ASSUME IInv, PageInv, NEW t \in Threads, NEW b \in Pools, BeginExtend(t, b)
    PROVE  PageInv'
<1>1. /\ open \in SUBSET Pools /\ th \in [Threads -> ThreadRec] /\ IsMem(Memory) /\ MemOK(Memory, open)
      /\ log \in Seq(Entry) /\ redo \in Nat \ {0} /\ DataOK(Memory, th, log, written, mode, redo, open)
      /\ OnKeys(written) /\ Len(log) \in Nat
  BY DataNow
<1>2. PICK l \in Nat : l = Len(log) + 1
  BY <1>1
<1>3. PICK n, d : n = Hdr(b).count /\ d = [Hdr(b) EXCEPT !.lsn = l]
  OBVIOUS
<1>4. PICK k, c, S : k = <<b, n>> /\ c = <<b, Header>> /\ S = {c}
  OBVIOUS
<1>5. /\ th[t].pc = "idle" /\ mode = "run" /\ b \in open /\ n < MaxPageNum
      /\ Log("allocate", k) /\ Take(t, "extending", k) /\ UNCHANGED <<open, mode, redo, store, durable, lost, written>>
      /\ frame' = [frame EXCEPT ![c].data.lsn = l]
  BY <1>2, <1>3, <1>4 DEF BeginExtend, At, history
<1>6. Hdr(b) \in FileHdr /\ n \in 1..MaxPageNum /\ d.lsn = l
  BY <1>3, <1>5, HdrIs DEF FileHdr
<1>7. k \in Pages
  <2>1. PICK m \in 1..(MaxPageNum - 1) : m = n
    BY <1>5, <1>6, BufferPoolAssumption
  <2> QED BY <1>4, <2>1 DEF Pages
<1>8. PICK f, g, h2, lg : f = Memory /\ g = Memory' /\ h2 = th' /\ lg = log'
  OBVIOUS
<1>9. /\ lg \in Seq(Entry) /\ Appended(log, lg, [op |-> "allocate", key |-> k])
      /\ Len(lg) \in Nat /\ Len(lg) = l /\ Len(log) <= Len(lg)
  BY <1>2, <1>5, <1>7, <1>8, LogAppended
<1>10. MemOK(f, open) /\ DataOK(f, th, log, written, mode, redo, open) /\ f.frame = frame /\ c \in DOMAIN frame
  <2>1. MemOK(f, open) /\ DataOK(f, th, log, written, mode, redo, open) /\ f.frame = frame
    BY <1>1, <1>8, MemoryIs
  <2>2. <<b, Header>> \in DOMAIN f.frame
    BY <1>1, <1>5, <2>1, CountIs
  <2> QED BY <1>4, <2>1, <2>2
<1>11. /\ DOMAIN g.frame = DOMAIN f.frame /\ HdrOf(g, b) = d /\ g.store = f.store /\ g.durable = f.durable
       /\ g.lost = f.lost /\ \A j \in DOMAIN f.frame : j # c => g.frame[j] = f.frame[j]
  <2>1. g.frame = frame' /\ g.store = f.store /\ g.durable = f.durable /\ g.lost = f.lost
    BY <1>5, <1>8, MemoryIs, MemoryNext
  <2>2. PICK p : p = frame[c] /\ p.data = Hdr(b)
    BY <1>4 DEF Hdr
  <2>3. PICK q : q = [p EXCEPT !.data.lsn = l]
    OBVIOUS
  <2>4. frame' = [frame EXCEPT ![c] = q]
    BY <1>5, <2>2, <2>3
  <2>5. q.data = d
    <3>1. p \in FrameRec
      BY <1>1, <1>10, <2>2, FrameIs
    <3>2. q = [p EXCEPT !.data = d]
      BY <1>3, <2>2, <2>3
    <3> QED BY <3>1, <3>2 DEF FrameRec
  <2>6. DOMAIN frame' = DOMAIN frame /\ frame'[c] = q /\ \A j \in DOMAIN frame : j # c => frame'[j] = frame[j]
    BY <1>10, <2>4 DEF MemOK, FramesOK
  <2> QED BY <1>4, <1>10, <2>1, <2>5, <2>6 DEF HdrOf
<1>12. OthersSame(f, g, S)
  BY <1>4, <1>11 DEF OthersSame, Same
<1>13. LoadersKept(th, h2, S)
  <2>1. Becomes(th, h2, t, State("extending", k)) /\ Loading(th[t], S)
    BY <1>5, <1>8, TakeIs DEF Loading
  <2> QED BY <1>1, <2>1, LoadersStep
<1>14. LogOthers(log, lg, S) /\ WOthers(written, written, S)
  <2>1. PICK o : o = "allocate"
    OBVIOUS
  <2>2. Appended(log, lg, [op |-> o, key |-> k]) /\ o # "write"
    BY <1>9, <2>1
  <2> QED BY <1>1, <2>2, AppendOthers DEF WOthers
<1>15. f.durable \in Nat /\ f.durable <= Len(log) /\ LsnOK(f, open, Len(log)) /\ DurableUp(f, g, Len(lg))
  <2>1. f.durable \in Nat /\ f.durable <= Len(log) /\ LsnOK(f, open, Len(log))
    BY <1>1, <1>10 DEF DataOK
  <2> QED BY <1>1, <1>9, <1>11, <2>1 DEF DurableUp
<1>16. HeadersLsn(g, open, Len(lg), S)
  <2>1. LsnAt(g, open, Len(lg), b)
    <3>1. PICK m \in Nat, m2 \in Nat : m = Len(log) /\ m2 = Len(lg)
      BY <1>1, <1>9
    <3>2. /\ LsnOK(f, open, m) /\ HdrOf(g, b).lsn <= m2 /\ DurableUp(f, g, m2)
          /\ g.store[<<b, Header>>] = f.store[<<b, Header>>]
      BY <1>6, <1>9, <1>11, <1>15, <3>1
    <3>3. LsnAt(g, open, m2, b)
      BY <1>1, <1>5, <1>10, <3>2, HeaderLsn
    <3> QED BY <3>1, <3>3
  <2>2. ASSUME NEW x \in Pools, <<x, Header>> \in S PROVE x = b
    BY <1>4, <2>2
  <2> QED BY <2>1, <2>2 DEF HeadersLsn
<1>17. PagesIn(g, h2, lg, written, mode, redo, S)
  BY <1>4 DEF PagesIn, Pages, Header
<1>18. DataOK(g, h2, lg, written, mode, redo, open)
  BY <1>1, <1>5, <1>9, <1>10, <1>12, <1>13, <1>14, <1>15, <1>16, <1>17, RunStep
<1> QED BY <1>1, <1>5, <1>8, <1>18 DEF PageInv

\* The page is appended to the file, empty.
ExtendedBy(f, g, b, d, k) ==
    /\ OthersSame(f, g, {<<b, Header>>, k}) /\ HdrOf(g, b) = d /\ IsDirty(g, <<b, Header>>)
    /\ g.store[<<b, Header>>] = f.store[<<b, Header>>]
    /\ g.store[k] = 0 /\ k \in DOMAIN g.frame /\ g.frame[k].data = 0 /\ g.durable = f.durable
LEMMA ExtendEffect ==
    ASSUME NEW op \in SUBSET Pools, NEW f, NEW b \in op, NEW k \in Pages, NEW d, NEW g,
           IsMem(f), MemOK(f, op), f.durable \in Nat, HeaderOK(d), k \in DOMAIN f.frame, g = Extended(f, b, d, k)
    PROVE  IsMem(g) /\ ExtendedBy(f, g, b, d, k)
<1>1. PICK a, e, c : /\ a = SetHeader(f, b, d) /\ e = Zeroed(a, k) /\ g = FlushInternal(e, k) /\ IsHdr(c, b)
  BY DEF Extended, IsHdr
<1>2. /\ IsMem(a) /\ SameElse(f, a, c) /\ a.store = f.store /\ a.durable = f.durable
      /\ FramesBut(f, a, c) /\ HdrOf(a, b) = d /\ IsDirty(a, c) /\ a.lost = f.lost
  BY <1>1, SetHeaderEffect
<1>3. MemOK(a, op)
  BY <1>1, SetHeaderFrame
<1>4. k # c /\ k[2] # Header /\ k \in DOMAIN a.frame /\ k \in Keys /\ c \in Keys
  <2>1. <<b, Header>> \in Keys
    BY CountIs
  <2> QED BY <1>1, <1>2, <2>1 DEF IsHdr, Pages, Keys, Header, FramesBut
<1>5. PICK x : x = [a.frame EXCEPT ![k].data = 0]
  OBVIOUS
<1>6. IsMem(e) /\ e.frame = x /\ e.store = a.store /\ e.durable = a.durable /\ e.lost = a.lost
  <2>1. e = [a EXCEPT !.frame = x]
    BY <1>1, <1>5 DEF Zeroed
  <2> QED BY <1>2, <2>1 DEF IsMem
<1>7. DOMAIN x = DOMAIN a.frame /\ x[k].data = 0 /\ \A j \in DOMAIN x : j # k => x[j] = a.frame[j]
  <2>1. PICK p \in FrameRec : p = a.frame[k]
    BY <1>3, <1>4, FrameIs
  <2>2. x = [a.frame EXCEPT ![k] = [p EXCEPT !.data = 0]]
    BY <1>5, <2>1
  <2>3. [p EXCEPT !.data = 0].data = 0
    BY DEF FrameRec
  <2> QED BY <1>3, <1>4, <2>2, <2>3 DEF MemOK, FramesOK
<1>8. /\ IsMem(g) /\ g.frame = [x EXCEPT ![k].dirty = FALSE] /\ g.store = [f.store EXCEPT ![k] = 0]
      /\ g.lost = f.lost /\ g.durable = f.durable
  <2>1. PageLsn(e, k) = 0 /\ e.frame[k].data = 0
    BY <1>4, <1>6, <1>7 DEF PageLsn
  <2>2. /\ IsMem(g) /\ g.frame = [e.frame EXCEPT ![k].dirty = FALSE] /\ g.lost = e.lost
        /\ g.store = [e.store EXCEPT ![k] = e.frame[k].data]
        /\ g.durable = IF PageLsn(e, k) > e.durable THEN PageLsn(e, k) ELSE e.durable
    BY <1>1, <1>6, FlushIs
  <2> QED BY <1>2, <1>6, <2>1, <2>2
<1>9. DOMAIN g.frame = DOMAIN x /\ g.frame[k].data = 0 /\ \A j \in DOMAIN x : j # k => g.frame[j] = x[j]
  <2>1. PICK q : q = x[k] /\ q.data = 0
    BY <1>7
  <2>2. g.frame = [x EXCEPT ![k] = [q EXCEPT !.dirty = FALSE]]
    BY <1>8, <2>1
  <2>3. [q EXCEPT !.dirty = FALSE].data = q.data
    OBVIOUS
  <2>4. x = [j \in DOMAIN x |-> x[j]]
    BY <1>5
  <2> QED BY <1>4, <1>7, <2>1, <2>2, <2>3, <2>4
<1>10. g.store[k] = 0 /\ \A j \in Keys : j # k => g.store[j] = f.store[j]
  BY <1>4, <1>8 DEF MemOK, StoreOK
<1>11. OthersSame(f, g, {c, k})
  <2> SUFFICES ASSUME NEW j \in Keys, j # c, j # k PROVE Same(f, g, j)
    BY DEF OthersSame
  <2>1. g.store[j] = f.store[j] /\ g.lost = f.lost
    BY <1>2, <1>8, <1>10
  <2>2. j \in DOMAIN g.frame <=> j \in DOMAIN f.frame
    BY <1>2, <1>7, <1>9 DEF FramesBut
  <2>3. j \in DOMAIN f.frame => g.frame[j] = f.frame[j]
    BY <1>2, <1>7, <1>9 DEF FramesBut
  <2> QED BY <2>1, <2>2, <2>3 DEF Same
<1>12. HdrOf(g, b) = d /\ IsDirty(g, c)
  <2>1. c \in DOMAIN x
    <3>1. <<b, Header>> \in DOMAIN a.frame
      BY <1>3, CountIs
    <3> QED BY <1>1, <1>7, <3>1 DEF IsHdr
  <2>2. g.frame[c] = a.frame[c]
    BY <1>4, <1>7, <1>9, <2>1
  <2> QED BY <1>1, <1>2, <2>2 DEF HdrOf, IsDirty, IsHdr
<1> QED BY <1>1, <1>4, <1>7, <1>8, <1>9, <1>10, <1>11, <1>12 DEF ExtendedBy, IsHdr

\* Page_count grows over the page that the thread has just appended.
Grown1(h, d, n) == d = [h EXCEPT !.count = @ + 1, !.bits = @ \cup {n}]
LEMMA ExtendHeader ==
    ASSUME IInv, NEW b \in open, NEW n, NEW d, n = Hdr(b).count, n < MaxPageNum, Grown1(Hdr(b), d, n)
    PROVE  HeaderOK(d) /\ d.lsn = Hdr(b).lsn
<1>1. /\ HeaderOK(Hdr(b)) /\ Hdr(b) \in FileHdr /\ Hdr(b).count \in 1..MaxPageNum
  BY HdrIs
<1>2. PICK B \in SUBSET Nat : B = Hdr(b).bits \cup {n}
  <2>1. Hdr(b).bits \in SUBSET Nat /\ n \in Nat
    BY <1>1 DEF FileHdr
  <2> QED BY <2>1
<1>3. PICK m \in 1..MaxPageNum : m = Hdr(b).count + 1
  BY <1>1, BufferPoolAssumption
<1>4. B \subseteq 0..(m - 1) /\ Header \in B
  BY <1>1, <1>2, <1>3 DEF HeaderOK
<1>5. d = [count |-> m, bits |-> B, lsn |-> Hdr(b).lsn] /\ Hdr(b).lsn \in Nat
  BY <1>1, <1>2, <1>3 DEF FileHdr, Grown1
<1>6. d \in FileHdr /\ d.bits = B /\ d.count = m /\ d.lsn = Hdr(b).lsn
  BY <1>5 DEF FileHdr
<1> QED BY <1>4, <1>6 DEF HeaderOK

LEMMA ExtendData ==
    ASSUME IInv, PageInv, NEW t \in Threads, Extend(t)
    PROVE  PageInv'
<1>1. /\ open \in SUBSET Pools /\ th \in [Threads -> ThreadRec] /\ IsMem(Memory) /\ MemOK(Memory, open)
      /\ StateOK(Memory, th, open, lock)
      /\ log \in Seq(Entry) /\ redo \in Nat \ {0} /\ DataOK(Memory, th, log, written, mode, redo, open)
      /\ OnKeys(written) /\ Len(log) \in Nat
  BY DataNow
<1>2. PICK k, b, d : k = th[t].key /\ b = k[1] /\ d = [Hdr(b) EXCEPT !.count = @ + 1, !.bits = @ \cup {k[2]}]
  OBVIOUS
<1>3. PICK n, f, h2, w, w2 : n = k[2] /\ f = Memory /\ h2 = th' /\ w = written /\ w2 = written'
  OBVIOUS
<1>4. /\ th[t].pc = "extend" /\ mode = "run" /\ Go(t, "hold")
      /\ SetMemory(Extended(f, b, d, k)) /\ w2 = [w EXCEPT ![k] = 0]
      /\ UNCHANGED <<open, log, mode, redo>>
  <2>1. /\ th[t].pc = "extend" /\ mode = "run" /\ Go(t, "hold")
        /\ SetMemory(FlushInternal(Zeroed(SetHeader(Memory, b, d), k), k))
        /\ UNCHANGED <<open, log, mode, redo>>
    BY <1>2 DEF Extend, At, Zeroed
  <2>2. Becomes(written, written', k, 0)
    BY <1>2 DEF Extend, Becomes
  <2> QED BY <1>3, <2>1, <2>2 DEF Extended, Becomes
<1>5. k \in Pages /\ b \in open /\ k \in DOMAIN f.frame /\ n = Hdr(b).count /\ n \in 1..(MaxPageNum - 1) /\ b \in Pools
  <2>1. ThreadOK(th[t], t, f, open, lock)
    BY <1>1, <1>3 DEF StateOK
  <2>2. k \in Pages /\ b \in open /\ k \in DOMAIN f.frame /\ n = CountOf(f, b)
    BY <1>2, <1>3, <1>4, <2>1 DEF ThreadOK, Making
  <2> QED BY <1>2, <1>3, <2>2, HdrIs DEF Pages
<1>6. HeaderOK(d) /\ d.lsn = Hdr(b).lsn
  <2>1. n < MaxPageNum
    BY <1>5, BufferPoolAssumption
  <2>2. Grown1(Hdr(b), d, n)
    BY <1>2, <1>3 DEF Grown1
  <2> QED BY <1>5, <2>1, <2>2, ExtendHeader
<1>7. IsMem(f) /\ MemOK(f, open) /\ DataOK(f, th, log, w, mode, redo, open) /\ OnKeys(w)
  BY <1>1, <1>3
<1>8. f.durable \in Nat /\ f.durable <= Len(log) /\ LsnOK(f, open, Len(log))
  BY <1>1, <1>7 DEF DataOK
<1>9. PICK g : g = Extended(f, b, d, k)
  OBVIOUS
<1>10. IsMem(g) /\ ExtendedBy(f, g, b, d, k)
  BY <1>1, <1>5, <1>6, <1>7, <1>8, <1>9, ExtendEffect
<1>11. PICK S : S = {<<b, Header>>, k}
  OBVIOUS
<1>12. /\ OthersSame(f, g, S) /\ HdrOf(g, b) = d /\ g.store[<<b, Header>>] = f.store[<<b, Header>>]
       /\ g.store[k] = 0 /\ k \in DOMAIN g.frame /\ g.frame[k].data = 0 /\ g.durable = f.durable
  BY <1>10, <1>11 DEF ExtendedBy
<1>13. DurableUp(f, g, Len(log))
  BY <1>1, <1>8, <1>12 DEF DurableUp
<1>14. OnKeys(w2) /\ w2[k] = 0 /\ WOthers(w, w2, S)
  <2>1. PICK v : v = 0
    OBVIOUS
  <2>2. k \in Pages /\ OnKeys(w) /\ w2 = [w EXCEPT ![k] = v]
    BY <1>4, <1>5, <1>7, <2>1
  <2>3. OnKeys(w2) /\ w2[k] = v /\ PutAt(w, w2, k)
    BY <2>2, PutIn
  <2> QED BY <1>11, <2>1, <2>3 DEF WOthers, PutAt
<1>15. LogOthers(log, log, S)
  BY <1>1, LogSame
<1>16. LoadersKept(th, h2, S)
  <2>1. PICK r : Becomes(th, h2, t, r)
    BY <1>1, <1>3, <1>4, GoIs
  <2>2. Loading(th[t], S)
    BY <1>2, <1>11 DEF Loading
  <2> QED BY <1>1, <2>1, <2>2, LoadersStep
<1>17. HeadersLsn(g, open, Len(log), S)
  <2>1. HdrOf(f, b).lsn <= Len(log)
    BY <1>5, <1>8 DEF LsnOK, LsnAt
  <2>2. HdrOf(f, b) = Hdr(b)
    BY <1>3, MemoryIs DEF HdrOf, Hdr
  <2>3. HdrOf(g, b).lsn <= Len(log)
    BY <1>6, <1>12, <2>1, <2>2
  <2>4. LsnAt(g, open, Len(log), b)
    <3>1. PICK m \in Nat : m = Len(log)
      BY <1>1
    <3>2. LsnOK(f, open, m) /\ HdrOf(g, b).lsn <= m /\ DurableUp(f, g, m)
      BY <1>8, <1>13, <2>3, <3>1
    <3>3. LsnAt(g, open, m, b)
      BY <1>1, <1>5, <1>7, <1>12, <3>2, HeaderLsn
    <3> QED BY <3>1, <3>3
  <2>5. ASSUME NEW x \in Pools, <<x, Header>> \in S PROVE x = b
    BY <1>5, <1>11, <2>5 DEF Pages, Header
  <2> QED BY <2>4, <2>5 DEF HeadersLsn
<1>18. PagesIn(g, h2, log, w2, mode, redo, S)
  <2>1. PageOK(g, h2, log, w2, mode, redo, k)
    BY <1>4, <1>12, <1>14 DEF PageOK, DataIs, Absent
  <2>2. <<b, Header>> \notin Pages
    BY DEF Pages, Header
  <2> QED BY <1>11, <2>1, <2>2 DEF PagesIn
<1>19. DataOK(g, h2, log, w2, mode, redo, open)
  BY <1>1, <1>4, <1>7, <1>12, <1>13, <1>14, <1>15, <1>16, <1>17, <1>18, RunStep
<1>20. Memory' = g
  BY <1>4, <1>9, <1>10, SetMemoryIs
<1> QED BY <1>3, <1>4, <1>14, <1>19, <1>20 DEF PageInv

\* The page is changed in its frame, and the change is logged.
LEMMA ModifyPage ==
    ASSUME NEW f, NEW g, NEW h2, NEW lg, NEW lg2, NEW w2, NEW rd, NEW k, NEW h, NEW w,
           PageOK(f, h, lg, w, "run", rd, k), Appended(lg, lg2, W(k)), Len(lg) \in Nat, Len(lg2) \in Nat,
           f.durable \in 0..Len(lg), g.durable = f.durable, g.store = f.store, f.store[k] # Absent,
           k \in DOMAIN g.frame, g.frame[k].data = Len(lg2), IsDirty(g, k), w2[k] = Len(lg2)
    PROVE  PageOK(g, h2, lg2, w2, "run", rd, k)
<1>1. DataIs(lg2, g.durable, k, g.store[k])
  BY DEF PageOK, DataIs, Appended
<1>2. DataIs(lg2, Len(lg2), k, g.frame[k].data)
  BY DEF DataIs, Appended
<1>3. Keeps(g, h2, k, w2[k])
  BY DEF Keeps, IsDirty
<1> QED BY <1>1, <1>2, <1>3 DEF PageOK

LEMMA ModifyData ==
    ASSUME IInv, PageInv, NEW t \in Threads, Modify(t)
    PROVE  PageInv'
<1>1. /\ open \in SUBSET Pools /\ th \in [Threads -> ThreadRec] /\ IsMem(Memory) /\ MemOK(Memory, open)
      /\ StateOK(Memory, th, open, lock)
      /\ log \in Seq(Entry) /\ redo \in Nat \ {0} /\ DataOK(Memory, th, log, written, mode, redo, open)
      /\ OnKeys(written) /\ Len(log) \in Nat
  BY DataNow
<1>2. PICK l \in Nat : l = Len(log) + 1
  BY <1>1
<1>3. PICK k, f, g, h2, w, w2, lg : /\ k = th[t].key /\ f = Memory /\ g = Memory' /\ h2 = th' /\ w = written
                                    /\ w2 = written' /\ lg = log'
  OBVIOUS
<1>4. /\ th[t].pc = "hold" /\ mode = "run" /\ Log("write", k) /\ frame' = [frame EXCEPT ![k].data = l, ![k].dirty = TRUE]
      /\ store[k] # Absent /\ UNCHANGED <<frees, open, store, durable, th, mode, redo, lost>>
      /\ Becomes(written, written', k, l)
  BY <1>2, <1>3 DEF Modify, At, Becomes
<1>5. ThreadOK(th[t], t, f, open, lock) /\ IsMem(f) /\ MemOK(f, open) /\ f.frame = frame /\ f.store = store
      /\ DataOK(f, th, log, w, mode, redo, open)
  BY <1>1, <1>3, MemoryIs DEF StateOK
<1>6. k \in Pages /\ k \in DOMAIN f.frame
  BY <1>3, <1>4, <1>5 DEF ThreadOK
<1>7. /\ lg \in Seq(Entry) /\ Appended(log, lg, W(k)) /\ Len(lg) \in Nat /\ Len(lg) = l /\ Len(log) <= Len(lg)
  BY <1>2, <1>3, <1>4, <1>6, LogAppended DEF W
<1>8. PICK p \in FrameRec : p = f.frame[k]
  <2>1. f.frame[k] \in FrameRec
    BY <1>1, <1>5, <1>6, FrameIs
  <2> QED BY <2>1
<1>9. PICK q : q = Dirtied(p, l)
  OBVIOUS
<1>10. q.data = l /\ q.dirty
  BY <1>8, <1>9 DEF FrameRec, Dirtied
<1>11. g.frame = Put(f.frame, k, q) /\ g.store = f.store /\ g.durable = f.durable /\ g.lost = f.lost
  <2>1. PICK z, y, c : z = f.frame /\ y = [z EXCEPT ![k].data = l] /\ c = [p EXCEPT !.data = l]
    OBVIOUS
  <2>2. y = [z EXCEPT ![k] = c] /\ q = [c EXCEPT !.dirty = TRUE] /\ k \in DOMAIN z
    BY <1>6, <1>8, <1>9, <2>1 DEF Dirtied
  <2>3. y[k] = c
    BY <2>2
  <2>4. [y EXCEPT ![k].dirty = TRUE] = [y EXCEPT ![k] = q]
    BY <2>2, <2>3
  <2>5. [y EXCEPT ![k] = q] = [z EXCEPT ![k] = q]
    BY <2>2
  <2>6. frame' = [y EXCEPT ![k].dirty = TRUE]
    BY <1>4, <1>5, <2>1
  <2>7. frame' = Put(f.frame, k, q)
    BY <2>1, <2>4, <2>5, <2>6 DEF Put
  <2> QED BY <1>3, <1>4, <2>7, MemoryIs, MemoryNext
<1>12. /\ DOMAIN g.frame = DOMAIN f.frame /\ g.frame[k] = q /\ \A j \in DOMAIN f.frame : j # k => g.frame[j] = f.frame[j]
  BY <1>5, <1>6, <1>11 DEF Put, MemOK, FramesOK
<1>13. PICK S : S = {k}
  OBVIOUS
<1>14. OthersSame(f, g, S)
  BY <1>11, <1>12, <1>13 DEF OthersSame, Same
<1>15. LoadersKept(th, h2, S)
  BY <1>3, <1>4 DEF LoadersKept
<1>16. LogOthers(log, lg, S)
  <2>1. PICK o : o = "write"
    OBVIOUS
  <2>2. Appended(log, lg, [op |-> o, key |-> k]) /\ k \in S
    BY <1>7, <1>13, <2>1 DEF W
  <2> QED BY <1>1, <2>2, AppendOthers
<1>17. OnKeys(w2) /\ w2[k] = l /\ WOthers(w, w2, S)
  <2>1. OnKeys(w) /\ w2 = [w EXCEPT ![k] = l] /\ k \in Pages
    BY <1>1, <1>3, <1>4, <1>6 DEF Becomes
  <2>2. OnKeys(w2) /\ w2[k] = l /\ PutAt(w, w2, k)
    BY <2>1, PutIn
  <2> QED BY <1>13, <2>2 DEF WOthers, PutAt
<1>18. f.durable \in 0..Len(log) /\ PageOK(f, th, log, w, mode, redo, k)
  BY <1>5, <1>6 DEF DataOK
<1>19. DurableUp(f, g, Len(lg))
  BY <1>1, <1>7, <1>11, <1>18 DEF DurableUp
<1>20. PagesIn(g, h2, lg, w2, mode, redo, S)
  <2>1. f.store[k] # Absent /\ k \in DOMAIN g.frame /\ g.frame[k].data = Len(lg) /\ IsDirty(g, k) /\ w2[k] = Len(lg)
    BY <1>4, <1>5, <1>6, <1>7, <1>10, <1>12, <1>17 DEF IsDirty
  <2>2. PageOK(f, th, log, w, "run", redo, k)
    BY <1>4, <1>18
  <2>3. PageOK(g, h2, lg, w2, "run", redo, k)
    BY <1>1, <1>7, <1>11, <1>18, <2>1, <2>2, ModifyPage
  <2> QED BY <1>4, <1>13, <2>3 DEF PagesIn
<1>21. HeadersLsn(g, open, Len(lg), S)
  BY <1>6, <1>13 DEF HeadersLsn, Pages, Header
<1>22. DataOK(g, h2, lg, w2, mode, redo, open)
  BY <1>1, <1>4, <1>5, <1>7, <1>14, <1>15, <1>16, <1>17, <1>19, <1>20, <1>21, RunStep
<1> QED BY <1>3, <1>4, <1>17, <1>22 DEF PageInv

-----------------------------------------------------------------------------
(***************************************************************************)
(* A file is closed, or opened.                                            *)
(***************************************************************************)
LEMMA GreatestIs ==
    ASSUME NEW n \in Nat, NEW S \in SUBSET (0..n), S # {}
    PROVE  \E m \in S : \A j \in S : j <= m
<1>1. PICK T \in SUBSET Nat : T = {n - i : i \in S}
  <2>1. {n - i : i \in S} \in SUBSET Nat
    OBVIOUS
  <2> QED BY <2>1
<1>2. T # {}
  BY <1>1
<1>3. PICK x \in T : \A y \in T : x <= y
  BY <1>2, LeastIs
<1>4. PICK m \in S : x = n - m
  BY <1>1, <1>3
<1>5. ASSUME NEW j \in S PROVE j <= m
  <2>1. n - j \in T
    BY <1>1
  <2>2. x <= n - j
    BY <1>3, <2>1
  <2> QED BY <1>4, <2>2
<1> QED BY <1>5

\* purge_all_pages: every change of the file is durable.
LEMMA PurgeAllDurable ==
    ASSUME NEW f, NEW b, NEW g, NEW n \in Nat,
           IsMem(f), g = PurgeAll(f, b), f.durable \in 0..n, \A k \in DirtyOf(f, b) : PageLsn(f, k) \in 0..n
    PROVE  g.durable \in f.durable..n /\ \A k \in DirtyOf(f, b) : PageLsn(f, k) <= g.durable
<1>1. PICK S : S = {f.durable} \cup {PageLsn(f, k) : k \in DirtyOf(f, b)}
  OBVIOUS
<1>2. S \in SUBSET (0..n) /\ S # {} /\ f.durable \in S /\ \A k \in DirtyOf(f, b) : PageLsn(f, k) \in S
  BY <1>1
<1>3. PICK d : d = CHOOSE i \in S : \A m \in S : m <= i
  OBVIOUS
<1>4. g.durable = d
  BY <1>1, <1>3 DEF PurgeAll, DirtyOf, IsMem
<1>5. \E i \in S : \A m \in S : m <= i
  BY <1>2, GreatestIs
<1>6. d \in S /\ \A m \in S : m <= d
  BY <1>3, <1>5
<1>7. d \in 0..n /\ f.durable <= d /\ \A k \in DirtyOf(f, b) : PageLsn(f, k) <= d
  BY <1>2, <1>6
<1> QED BY <1>4, <1>7

\* The LSN of a frame is one of the log.
LEMMA LsnIs ==
    ASSUME NEW op \in SUBSET Pools, NEW f, NEW h, NEW lg \in Seq(Entry), NEW w, NEW md, NEW rd, NEW k \in DOMAIN f.frame,
           MemOK(f, op), DataOK(f, h, lg, w, md, rd, op)
    PROVE  PageLsn(f, k) \in 0..Len(lg)
<1>1. k \in Keys /\ k[1] \in op /\ Fits(k, f.frame[k].data)
  BY FrameIs
<1>2. CASE k[2] = Header
  <2>1. f.frame[k].data = HdrOf(f, k[1]) /\ f.frame[k].data \in FileHdr
    BY <1>1, <1>2, KeyIs DEF HdrOf, Fits, HeaderOK
  <2>2. HdrOf(f, k[1]).lsn <= Len(lg)
    BY <1>1 DEF DataOK, LsnOK, LsnAt
  <2> QED BY <1>2, <2>1, <2>2 DEF PageLsn, FileHdr
<1>3. CASE k[2] # Header
  <2>1. k \in Pages
    BY <1>1, <1>3, KeyIs
  <2>2. DataIs(lg, Len(lg), k, f.frame[k].data)
    BY <2>1 DEF DataOK, PageOK
  <2> QED BY <1>3, <2>2 DEF PageLsn, DataIs
<1> QED BY <1>2, <1>3

LEMMA CloseFileData ==
    ASSUME IInv, PageInv, NEW b \in Pools, CloseFile(b)
    PROVE  PageInv'
<1>1. /\ open \in SUBSET Pools /\ th \in [Threads -> ThreadRec] /\ IsMem(Memory) /\ MemOK(Memory, open)
      /\ log \in Seq(Entry) /\ redo \in Nat \ {0} /\ DataOK(Memory, th, log, written, mode, redo, open)
      /\ OnKeys(written) /\ Len(log) \in Nat
  BY DataNow
<1>2. /\ mode = "run" /\ b \in open /\ (\A t \in Threads : th[t].pc = "idle" \/ th[t].key[1] # b)
      /\ SetMemory(PurgeAll(Memory, b)) /\ open' = open \ {b} /\ UNCHANGED <<log, th, mode, redo, written>>
  BY DEF CloseFile
<1>3. PICK f, g, S : f = Memory /\ g = PurgeAll(f, b) /\ S = PagesOf(f, b)
  OBVIOUS
<1>4. PICK op2 \in SUBSET Pools : op2 = open \ {b}
  BY <1>1
<1>5. IsMem(f) /\ MemOK(f, open) /\ DataOK(f, th, log, written, mode, redo, open) /\ f.durable \in 0..Len(log)
  BY <1>1, <1>3 DEF DataOK
<1>6. IsMem(g) /\ g.frame = Without(f.frame, S) /\ g.store = StoreAll(f, DirtyOf(f, b)) /\ g.lost = f.lost
  BY <1>3, <1>5, PurgeAllIs
<1>7. /\ \A j \in Keys : g.store[j] = IF j \in DirtyOf(f, b) THEN f.frame[j].data ELSE f.store[j]
      /\ DOMAIN g.frame = DOMAIN f.frame \ S /\ \A j \in DOMAIN g.frame : g.frame[j] = f.frame[j]
  BY <1>6 DEF StoreAll, Without
<1>8. g.durable \in f.durable..Len(log) /\ \A k \in DirtyOf(f, b) : PageLsn(f, k) <= g.durable
  <2>1. \A k \in DirtyOf(f, b) : PageLsn(f, k) \in 0..Len(log)
    BY <1>1, <1>5, LsnIs DEF DirtyOf, PagesOf
  <2> QED BY <1>1, <1>3, <1>5, <2>1, PurgeAllDurable
<1>9. DurableUp(f, g, Len(log)) /\ f.durable \in Nat /\ g.durable \in Nat /\ f.durable <= g.durable
  BY <1>1, <1>5, <1>8 DEF DurableUp
<1>10. OthersSame(f, g, S)
  BY <1>3, <1>6, <1>7 DEF OthersSame, Same, DirtyOf
<1>11. LoadersKept(th, th, S) /\ LogOthers(log, log, S) /\ WOthers(written, written, S) /\ \A k : LogKept(log, log, k)
  BY <1>1, LogSame DEF LoadersKept, WOthers
<1>12. ASSUME NEW k \in Pages \cap S PROVE PageOK(g, th, log, written, mode, redo, k)
  <2>1. k \in Keys /\ k \in DOMAIN f.frame /\ k \notin DOMAIN g.frame /\ k[1] = b /\ g.lost = f.lost
    BY <1>3, <1>6, <1>7 DEF PagesOf, Pages, Keys
  <2>2. CASE f.frame[k].dirty
    <3>1. k \in DirtyOf(f, b)
      BY <1>3, <2>2 DEF DirtyOf
    <3>2. WrittenOut(f, g, k)
      BY <1>7, <1>8, <2>1, <3>1 DEF WrittenOut
    <3>3. ~Loader(th, k)
      BY <1>2, <2>1 DEF Loader, Loads
    <3>4. Changes(f, g, th, th, k)
      BY <3>2, <3>3 DEF Changes, Moves
    <3> QED BY <1>1, <1>2, <1>5, <1>9, <1>11, <3>4, PageStep DEF DataOK
  <2>3. CASE ~f.frame[k].dirty
    <3>1. Out(f, g, k)
      BY <1>7, <2>1, <2>3 DEF Out, DirtyOf
    <3>2. Changes(f, g, th, th, k)
      BY <3>1 DEF Changes, Moves
    <3> QED BY <1>1, <1>2, <1>5, <1>9, <1>11, <3>2, PageStep DEF DataOK
  <2> QED BY <2>2, <2>3
<1>13. ASSUME NEW c \in Pools PROVE LsnAt(g, op2, Len(log), c)
  <2>0. LsnOK(f, open, Len(log))
    BY <1>5 DEF DataOK
  <2>1. CASE c = b
    <3>1. PICK k : k = <<b, Header>>
      OBVIOUS
    <3>2. k \in DOMAIN f.frame /\ k \in Keys /\ k[2] = Header
      BY <1>1, <1>2, <1>5, <3>1, CountIs
    <3>3. f.store[k] \in FileHdr /\ f.store[k].lsn <= f.durable
      BY <1>5, <2>0, <3>1 DEF MemOK, StoreOK, HeaderOK, LsnOK, LsnAt
    <3>4. f.store[k].lsn \in Nat
      BY <3>3 DEF FileHdr
    <3>5. k \in DirtyOf(f, b) => f.frame[k].data.lsn <= g.durable
      BY <1>8, <3>2 DEF PageLsn
    <3>6. g.store[k].lsn <= g.durable
      BY <1>7, <1>9, <3>2, <3>3, <3>4, <3>5
    <3> QED BY <1>4, <2>1, <3>1, <3>6 DEF LsnAt
  <2>2. CASE c # b
    <3>1. <<c, Header>> \in Keys \ S
      BY <1>3, <2>2, BufferPoolAssumption DEF Keys, Header, PagesOf
    <3>2. Same(f, g, <<c, Header>>)
      BY <1>10, <3>1 DEF OthersSame
    <3>3. PICK n \in Nat : n = Len(log)
      BY <1>1
    <3>4. LsnOK(f, open, n) /\ n <= n /\ DurableUp(f, g, n)
      BY <1>9, <2>0, <3>3
    <3>5. LsnAt(g, open, n, c)
      BY <1>1, <1>5, <3>2, <3>4, LsnStep
    <3> QED BY <1>4, <3>3, <3>5 DEF LsnAt
  <2> QED BY <2>1, <2>2
<1>14. LsnOK(g, op2, Len(log))
  BY <1>13 DEF LsnOK
<1>15. DataOK(g, th, log, written, mode, redo, op2)
  BY <1>1, <1>2, <1>5, <1>9, <1>10, <1>11, <1>12, <1>14, DataJoin
<1>16. Memory' = g
  BY <1>2, <1>3, <1>6, SetMemoryIs
<1> QED BY <1>1, <1>2, <1>4, <1>15, <1>16 DEF PageInv

\* allocate_frame: a frame is free, or a page is evicted.
RoomMade(f, e) == /\ DOMAIN e.frame \subseteq DOMAIN f.frame
                  /\ \A j \in Keys \ DOMAIN f.frame : e.store[j] = f.store[j] /\ (j \in f.lost => j \in e.lost)
LEMMA MakeRoomData ==
    ASSUME NEW op \in SUBSET Pools, NEW f, NEW h \in [Threads -> ThreadRec], NEW lk, NEW lg \in Seq(Entry), NEW w, NEW md,
           NEW rd \in Nat \ {0}, NEW b, NEW e \in MakeRoom(f, b),
           StateOK(f, h, op, lk), DataOK(f, h, lg, w, md, rd, op), InRun(md) \/ rd - 1 <= Len(lg)
    PROVE  DataOK(e, h, lg, w, md, rd, op) /\ RoomMade(f, e)
<1>1. CASE f.frees # <<>>
  <2>1. e = f
    BY <1>1 DEF MakeRoom
  <2> QED BY <2>1 DEF RoomMade
<1>2. CASE f.frees = <<>>
  <2>1. PICK v \in DOMAIN f.frame : e = Purge(f, b, v) /\ f.frame[v].pin = 0
    BY <1>2 DEF MakeRoom, Victims, CanPurge
  <2>2. /\ v \in Pages /\ OthersSame(f, e, {v}) /\ (Out(f, e, v) \/ WrittenOut(f, e, v)) /\ ~Loader(h, v)
        /\ DurableUp(f, e, Len(lg))
    BY <2>1, VictimEffect
  <2>3. Moves(f, e, h, h, v) /\ Changes(f, e, h, h, v) /\ LoadersKept(h, h, {v})
    BY <2>2 DEF Changes, Moves, LoadersKept
  <2>4. MemOK(f, op)
    BY DEF StateOK
  <2>5. DataOK(e, h, lg, w, md, rd, op)
    BY <2>2, <2>3, <2>4, OneChange
  <2>6. RoomMade(f, e)
    <3>1. DOMAIN f.frame \subseteq Keys /\ DOMAIN e.frame \subseteq Keys
      <4>1. StateOK(e, h, op, lk)
        BY MakeRoomStep
      <4> QED BY <2>4, <4>1 DEF StateOK, MemOK, FramesOK
    <3>2. ASSUME NEW j \in DOMAIN e.frame PROVE j \in DOMAIN f.frame
      BY <2>2, <3>1 DEF OthersSame, Same, Out, WrittenOut
    <3>3. ASSUME NEW j \in Keys \ DOMAIN f.frame PROVE e.store[j] = f.store[j] /\ (j \in f.lost => j \in e.lost)
      BY <2>1, <2>2 DEF OthersSame, Same
    <3> QED BY <3>2, <3>3 DEF RoomMade
  <2> QED BY <2>5, <2>6
<1> QED BY <1>1, <1>2

\* Page k gets a frame, and is read.
ReadIn(f, g, k) ==
    /\ OthersSame(f, g, {k}) /\ g.store = f.store /\ g.durable = f.durable
    /\ DOMAIN g.frame = DOMAIN f.frame \cup {k} /\ g.frame[k].data = f.store[k] /\ f.lost \subseteq g.lost
LEMMA ReadEffect ==
    ASSUME NEW f, NEW e, NEW g, NEW k,
           IsMem(f), k \notin DOMAIN f.frame, e = Alloc(f, k), g = LoadPage(e, k)
    PROVE  IsMem(g) /\ ReadIn(f, g, k)
<1>1. PICK d, c : d = f.store[k] /\ c = Head(f.frees)
  OBVIOUS
<1>2. PICK p, q : p = [data |-> 0, dirty |-> c, pin |-> 1] /\ q = [data |-> d, dirty |-> c, pin |-> 1]
  OBVIOUS
<1>3. q.data = d /\ q = [p EXCEPT !.data = d]
  BY <1>2
<1>4. IsMem(e) /\ e.frame = Add(f.frame, k, p) /\ e.store = f.store /\ e.durable = f.durable /\ e.lost = f.lost
  BY <1>1, <1>2, AllocIs
<1>5. /\ IsMem(g) /\ g.frame = [e.frame EXCEPT ![k].data = d] /\ g.store = f.store /\ g.durable = f.durable
      /\ f.lost \subseteq g.lost
  <2>1. PICK a : a = e
    OBVIOUS
  <2>2. IsMem(a) /\ a.store = f.store /\ a.durable = f.durable /\ a.lost = f.lost /\ a.store[k] = d
    BY <1>1, <1>4, <2>1
  <2>3. /\ IsMem(LoadPage(a, k)) /\ LoadPage(a, k).frame = [a.frame EXCEPT ![k].data = a.store[k]]
        /\ LoadPage(a, k).store = a.store /\ LoadPage(a, k).durable = a.durable
        /\ LoadPage(a, k).lost = a.lost \cup MarkLost(a, k)
    BY ZenonT(40), <2>2, LoadIs
  <2>4. PICK z : z = LoadPage(a, k)
    OBVIOUS
  <2>5. IsMem(z) /\ z.frame = [a.frame EXCEPT ![k].data = d] /\ z.store = f.store /\ z.durable = f.durable
    BY <2>2, <2>3, <2>4
  <2>6. f.lost \subseteq z.lost
    BY <2>2, <2>3, <2>4
  <2>7. g = z /\ a.frame = e.frame
    BY <1>1, <2>1, <2>4
  <2> QED BY <2>5, <2>6, <2>7
<1>6. DOMAIN e.frame = DOMAIN f.frame \cup {k} /\ e.frame[k] = p /\ \A j \in DOMAIN f.frame : j # k => e.frame[j] = f.frame[j]
  BY <1>4 DEF Add
<1>7. g.frame = [j \in DOMAIN e.frame |-> IF j = k THEN q ELSE e.frame[j]]
  BY <1>3, <1>5, <1>6
<1>8. DOMAIN g.frame = DOMAIN f.frame \cup {k} /\ g.frame[k] = q /\ \A j \in DOMAIN f.frame : j # k => g.frame[j] = f.frame[j]
  BY <1>6, <1>7
<1>9. OthersSame(f, g, {k})
  BY <1>5, <1>8 DEF OthersSame, Same
<1> QED BY <1>1, <1>3, <1>5, <1>8, <1>9 DEF ReadIn

LEMMA OpenFileData ==
    ASSUME IInv, PageInv, NEW b \in Pools, OpenFile(b)
    PROVE  PageInv'
<1>1. /\ open \in SUBSET Pools /\ th \in [Threads -> ThreadRec] /\ StateOK(Memory, th, open, lock)
      /\ log \in Seq(Entry) /\ redo \in Nat \ {0} /\ DataOK(Memory, th, log, written, mode, redo, open)
      /\ OnKeys(written) /\ Len(log) \in Nat
  BY DataNow
<1>2. /\ mode = "run" /\ b \notin open /\ open' = open \cup {b} /\ UNCHANGED <<log, th, mode, redo, written>>
  BY DEF OpenFile
<1>3. PICK op2 \in SUBSET Pools : op2 = open \cup {b}
  BY <1>1
<1>4. PICK f, k, S : f = Memory /\ k = <<b, Header>> /\ S = {k}
  OBVIOUS
<1>5. PICK e \in MakeRoom(f, b) : SetMemory(LoadPage(Alloc(e, k), k))
  BY <1>4 DEF OpenFile
<1>6. StateOK(f, th, open, lock) /\ DataOK(f, th, log, written, mode, redo, open)
  BY <1>1, <1>4
<1>7. DataOK(e, th, log, written, mode, redo, open)
  BY <1>1, <1>2, <1>6, MakeRoomData DEF InRun
<1>8. StateOK(e, th, open, lock)
  BY <1>1, <1>6, MakeRoomStep
<1>9. IsMem(e) /\ MemOK(e, open) /\ k \notin DOMAIN e.frame
  <2>1. IsMem(e) /\ MemOK(e, open)
    BY <1>8 DEF StateOK
  <2> QED BY <1>2, <1>4, <2>1 DEF MemOK, FramesOK
<1>10. PICK a, g : a = Alloc(e, k) /\ g = LoadPage(a, k)
  OBVIOUS
<1>11. IsMem(g) /\ ReadIn(e, g, k)
  BY <1>9, <1>10, ReadEffect
<1>12. /\ OthersSame(e, g, S) /\ g.store = e.store /\ g.durable = e.durable /\ g.frame[k].data = e.store[k]
  BY <1>4, <1>11 DEF ReadIn
<1>13. e.durable \in 0..Len(log) /\ LsnOK(e, open, Len(log))
  BY <1>7 DEF DataOK
<1>14. DurableUp(e, g, Len(log))
  BY <1>1, <1>12, <1>13 DEF DurableUp
<1>15. LoadersKept(th, th, S) /\ LogOthers(log, log, S) /\ WOthers(written, written, S)
  BY <1>1, LogSame DEF LoadersKept, WOthers
<1>16. ASSUME NEW c \in Pools PROVE LsnAt(g, op2, Len(log), c)
  <2>1. CASE c = b
    <3>1. e.store[k].lsn <= e.durable /\ e.store[k] \in FileHdr
      BY <1>4, <1>9, <1>13 DEF LsnOK, LsnAt, MemOK, StoreOK, HeaderOK
    <3>2. e.store[k].lsn \in Nat /\ e.store[k].lsn <= Len(log)
      BY <1>1, <1>13, <3>1 DEF FileHdr
    <3> QED BY <1>4, <1>12, <2>1, <3>1, <3>2 DEF LsnAt, HdrOf
  <2>2. CASE c # b
    <3>1. <<c, Header>> \in Keys \ S
      BY <1>4, <2>2, BufferPoolAssumption DEF Keys, Header
    <3>2. Same(e, g, <<c, Header>>)
      BY <1>12, <3>1 DEF OthersSame
    <3>3. PICK n \in Nat : n = Len(log)
      BY <1>1
    <3>4. LsnOK(e, open, n) /\ n <= n /\ DurableUp(e, g, n)
      BY <1>13, <1>14, <3>3
    <3>5. LsnAt(g, open, n, c)
      BY <1>1, <1>9, <3>2, <3>4, LsnStep
    <3> QED BY <1>3, <2>2, <3>3, <3>5 DEF LsnAt
  <2> QED BY <2>1, <2>2
<1>17. LsnOK(g, op2, Len(log))
  BY <1>16 DEF LsnOK
<1>18. \A j \in Pages \cap S : PageOK(g, th, log, written, mode, redo, j)
  BY <1>4 DEF Pages, Header
<1>19. DataOK(g, th, log, written, mode, redo, op2)
  BY <1>1, <1>2, <1>7, <1>12, <1>14, <1>15, <1>17, <1>18, DataJoin
<1>20. Memory' = g
  BY <1>5, <1>10, <1>11, SetMemoryIs
<1> QED BY <1>1, <1>2, <1>3, <1>19, <1>20 DEF PageInv

-----------------------------------------------------------------------------
(***************************************************************************)
(* The crash, and the recovery.                                            *)
(***************************************************************************)
\* What was durable is still in the log.
Shortened(lg, lg2, n) == Len(lg2) = n /\ \A i \in 1..n : lg2[i] = lg[i]
LEMMA CrashPage ==
    ASSUME NEW f, NEW g, NEW h, NEW h2, NEW lg, NEW lg2, NEW w, NEW w2, NEW md, NEW rd, NEW k, NEW n \in Nat,
           PageOK(f, h, lg, w, md, rd, k), Shortened(lg, lg2, n), n <= Len(lg), Len(lg) \in Nat,
           f.durable \in Nat, f.durable <= n, g.durable = n, g.store = f.store, k \notin DOMAIN g.frame, w2[k] = 0
    PROVE  PageOK(g, h2, lg2, w2, "redo", 1, k)
<1>1. g.store[k] # Absent => DataIs(lg2, g.durable, k, g.store[k])
  BY DEF PageOK, DataIs, Shortened
<1>2. g.store[k] = Absent => \A i \in 1..Len(lg2) : lg2[i] # W(k)
  BY DEF PageOK, Shortened
<1>3. ASSUME g.store[k] # Absent PROVE \E v : Keeps(g, h2, k, v) /\ Replayed(lg2, 1, k, v)
  <2>1. PICK v : v = g.store[k]
    OBVIOUS
  <2>2. Keeps(g, h2, k, v)
    BY <2>1 DEF Keeps
  <2>3. v \in Nat
    BY <1>1, <1>3, <2>1 DEF DataIs
  <2>4. Replayed(lg2, 1, k, v)
    BY <2>3 DEF Replayed
  <2> QED BY <2>2, <2>4
<1> QED BY <1>1, <1>2, <1>3 DEF PageOK

LEMMA CrashData ==
    ASSUME IInv, PageInv, Crash
    PROVE  PageInv'
<1>1. /\ open \in SUBSET Pools /\ MemOK(Memory, open) /\ log \in Seq(Entry)
      /\ DataOK(Memory, th, log, written, mode, redo, open) /\ Len(log) \in Nat
  BY DataNow
<1>2. PICK n \in 0..Len(log) : durable <= n /\ log' = SubSeq(log, 1, n) /\ durable' = n
  BY DEF Crash
<1>3. /\ frame' = OpenAll(store) /\ store' = store /\ lost' = {} /\ open' = Pools /\ mode' = "redo" /\ redo' = 1
      /\ written' = [k \in Keys |-> 0]
  BY DEF Crash
<1>4. PICK f, g, h2, lg, w2 : f = Memory /\ g = Memory' /\ h2 = th' /\ lg = log' /\ w2 = written'
  OBVIOUS
<1>5. Shortened(log, lg, n) /\ n \in Nat /\ n <= Len(log)
  <2>1. n \in Int /\ \A i \in 1..n : log[i] \in Entry
    BY <1>1, <1>2
  <2>2. Len(lg) = n /\ \A i \in 1..n : lg[i] = log[i]
    BY <1>1, <1>2, <1>4, <2>1, SubSeqProperties
  <2> QED BY <1>1, <2>2 DEF Shortened
<1>6. MemOK(f, open) /\ DataOK(f, th, log, written, mode, redo, open)
  BY <1>1, <1>4
<1>7. f.durable \in Nat /\ f.durable <= n /\ LsnOK(f, open, Len(log))
  BY <1>1, <1>2, <1>4, <1>6, MemoryIs DEF DataOK
<1>8. g.frame = OpenAll(f.store) /\ g.store = f.store /\ g.durable = n /\ g.lost = {}
  BY <1>2, <1>3, <1>4, MemoryIs, MemoryNext
<1>9. DOMAIN g.frame = Headers /\ \A k \in Headers : g.frame[k].data = f.store[k]
  BY <1>8 DEF OpenAll
<1>10. ASSUME NEW k \in Pages PROVE PageOK(g, h2, lg, w2, "redo", 1, k)
  <2>1. k \in Keys /\ k \notin Headers
    BY DEF Pages, Keys, Headers, Header
  <2>2. PageOK(f, th, log, written, mode, redo, k)
    BY <1>6 DEF DataOK
  <2>3. w2[k] = 0
    BY <1>3, <1>4, <2>1
  <2> QED BY <1>1, <1>5, <1>7, <1>8, <1>9, <2>1, <2>2, <2>3, CrashPage
<1>11. ASSUME NEW b \in Pools PROVE LsnAt(g, Pools, Len(lg), b)
  <2>1. f.store[<<b, Header>>].lsn \in Nat /\ f.store[<<b, Header>>].lsn <= f.durable
    BY <1>6, <1>7 DEF LsnOK, LsnAt, MemOK, StoreOK, HeaderOK, FileHdr
  <2>2. <<b, Header>> \in Headers
    BY DEF Headers
  <2>3. g.frame[<<b, Header>>].data = f.store[<<b, Header>>]
    BY <1>9, <2>2
  <2>4. Len(lg) = n
    BY <1>5 DEF Shortened
  <2> QED BY <1>5, <1>7, <1>8, <2>1, <2>3, <2>4 DEF LsnAt, HdrOf
<1>12. DataOK(g, h2, lg, w2, "redo", 1, Pools)
  <2>1. g.durable \in 0..Len(lg)
    BY <1>5, <1>8 DEF Shortened
  <2>2. LsnOK(g, Pools, Len(lg))
    BY <1>11 DEF LsnOK
  <2> QED BY <1>10, <2>1, <2>2 DEF DataOK
<1>13. OnKeys(w2)
  BY <1>3, <1>4 DEF OnKeys
<1> QED BY <1>3, <1>4, <1>12, <1>13 DEF PageInv

\* An entry that is no change of the page is replayed.
LEMMA NextEntry ==
    ASSUME NEW f, NEW h, NEW lg, NEW w, NEW rd \in Nat \ {0}, NEW k,
           PageOK(f, h, lg, w, "redo", rd, k), lg[rd] # W(k)
    PROVE  PageOK(f, h, lg, w, "redo", rd + 1, k)
<1>1. ASSUME NEW v, Replayed(lg, rd, k, v) PROVE Replayed(lg, rd + 1, k, v)
  BY <1>1 DEF Replayed
<1> QED BY <1>1 DEF PageOK

\* The header of file b takes another value.
LEMMA ReplayHeader ==
    ASSUME NEW f, NEW g, NEW h, NEW lg \in Seq(Entry), NEW w, NEW rd \in Nat \ {0}, NEW b \in Pools, NEW d, NEW n \in Nat,
           IsMem(f), MemOK(f, Pools), DataOK(f, h, lg, w, "redo", rd, Pools), rd <= Len(lg), \A k : lg[rd] # W(k),
           g = SetHeader(f, b, d), d.lsn = n, n <= Len(lg)
    PROVE  DataOK(g, h, lg, w, "redo", rd + 1, Pools)
<1>1. PICK op, c, S, md : op = Pools /\ c = <<b, Header>> /\ S = {c} /\ md = "redo"
  OBVIOUS
<1>2. op \in SUBSET Pools /\ b \in op /\ MemOK(f, op) /\ IsHdr(c, b) /\ DataOK(f, h, lg, w, md, rd, op) /\ Len(lg) \in Nat
  BY <1>1 DEF IsHdr
<1>3. /\ IsMem(g) /\ SameElse(f, g, c) /\ g.store = f.store /\ g.durable = f.durable
      /\ FramesBut(f, g, c) /\ HdrOf(g, b) = d /\ IsDirty(g, c) /\ g.lost = f.lost
  <2>1. op \in SUBSET Pools /\ b \in op /\ IsMem(f) /\ MemOK(f, op) /\ IsHdr(c, b) /\ g = SetHeader(f, b, d)
    BY <1>2
  <2> QED BY <2>1, SetHeaderEffect
<1>4. OthersSame(f, g, S)
  BY <1>1, <1>3 DEF SameElse
<1>5. LoadersKept(h, h, S) /\ LogOthers(lg, lg, S) /\ WOthers(w, w, S)
  BY LogSame DEF LoadersKept, WOthers
<1>6. f.durable \in 0..Len(lg) /\ LsnOK(f, op, Len(lg))
  BY <1>2 DEF DataOK
<1>7. DurableUp(f, g, Len(lg))
  BY <1>2, <1>3, <1>6 DEF DurableUp
<1>8. ASSUME NEW x \in Pools PROVE LsnAt(g, op, Len(lg), x)
  <2>1. PICK m \in Nat : m = Len(lg)
    BY <1>2
  <2>2. LsnOK(f, op, m) /\ m <= m /\ DurableUp(f, g, m)
    BY <1>6, <1>7, <2>1
  <2>3. CASE x = b
    <3>1. HdrOf(g, b).lsn <= m /\ g.store[<<b, Header>>] = f.store[<<b, Header>>]
      BY <1>3, <2>1
    <3>2. LsnAt(g, op, m, b)
      BY <1>2, <2>2, <3>1, HeaderLsn
    <3> QED BY <2>1, <2>3, <3>2
  <2>4. CASE x # b
    <3>1. <<x, Header>> \in Keys \ S
      BY <1>1, <2>4, BufferPoolAssumption DEF Keys, Header
    <3>2. Same(f, g, <<x, Header>>)
      BY <1>4, <3>1 DEF OthersSame
    <3>3. LsnAt(g, op, m, x)
      BY <1>2, <2>2, <3>2, LsnStep
    <3> QED BY <2>1, <3>3
  <2> QED BY <2>3, <2>4
<1>9. LsnOK(g, op, Len(lg))
  BY <1>8 DEF LsnOK
<1>10. \A k \in Pages \cap S : PageOK(g, h, lg, w, md, rd, k)
  BY <1>1 DEF Pages, Header
<1>11. rd - 1 <= Len(lg)
  BY <1>2
<1>12. DataOK(g, h, lg, w, md, rd, op)
  BY <1>2, <1>4, <1>5, <1>7, <1>9, <1>10, <1>11, DataJoin
<1>13. ASSUME NEW k \in Pages PROVE PageOK(g, h, lg, w, "redo", rd + 1, k)
  <2>1. PageOK(g, h, lg, w, "redo", rd, k)
    BY <1>1, <1>12 DEF DataOK
  <2> QED BY <2>1, NextEntry
<1> QED BY <1>1, <1>12, <1>13 DEF DataOK

\* Nothing is to be done for the entry.
LEMMA ReplayNothing ==
    ASSUME NEW f, NEW h, NEW lg, NEW w, NEW rd \in Nat \ {0},
           DataOK(f, h, lg, w, "redo", rd, Pools), \A k : lg[rd] # W(k)
    PROVE  DataOK(f, h, lg, w, "redo", rd + 1, Pools)
  BY NextEntry DEF DataOK

\* The page is read for the replayer.
LEMMA ReadPage ==
    ASSUME NEW f, NEW g, NEW h, NEW lg \in Seq(Entry), NEW w, NEW md, NEW rd, NEW k \in Pages,
           PageOK(f, h, lg, w, md, rd, k), k \notin DOMAIN f.frame, f.store[k] # Absent, ReadIn(f, g, k),
           f.durable \in 0..Len(lg)
    PROVE  PageOK(g, h, lg, w, md, rd, k)
<1>1. k \in DOMAIN g.frame /\ g.frame[k].data = f.store[k] /\ g.store = f.store /\ g.durable = f.durable
  BY DEF ReadIn
<1>2. DataIs(lg, f.durable, k, f.store[k])
  BY DEF PageOK
<1>3. DataIs(lg, Len(lg), k, g.frame[k].data)
  BY <1>1, <1>2 DEF DataIs
<1>4. ASSUME NEW v, Keeps(f, h, k, v) PROVE Keeps(g, h, k, v)
  BY <1>1, <1>4 DEF Keeps
<1>5. k \notin g.lost => k \notin f.lost
  BY DEF ReadIn
<1> QED BY <1>1, <1>2, <1>3, <1>4, <1>5 DEF PageOK

LEMMA FetchData ==
    ASSUME NEW f, NEW h \in [Threads -> ThreadRec], NEW lk, NEW lg \in Seq(Entry), NEW w, NEW rd \in Nat \ {0},
           NEW k \in Pages, NEW a \in Fetch(f, k),
           StateOK(f, h, Pools, lk), DataOK(f, h, lg, w, "redo", rd, Pools), rd <= Len(lg),
           k \in DOMAIN f.frame \/ f.store[k] # Absent
    PROVE  DataOK(a, h, lg, w, "redo", rd, Pools)
<1>1. PICK op, md : op = Pools /\ md = "redo"
  OBVIOUS
<1>2. /\ op \in SUBSET Pools /\ StateOK(f, h, op, lk) /\ DataOK(f, h, lg, w, md, rd, op) /\ Len(lg) \in Nat
      /\ IsMem(f) /\ MemOK(f, op) /\ rd - 1 <= Len(lg)
  BY <1>1 DEF StateOK
<1>3. ASSUME NEW S PROVE LoadersKept(h, h, S) /\ LogOthers(lg, lg, S) /\ WOthers(w, w, S)
  BY LogSame DEF LoadersKept, WOthers
<1>4. ASSUME NEW x, NEW y, NEW S, MemOK(x, op), OthersSame(x, y, S), y.durable = x.durable, DataOK(x, h, lg, w, md, rd, op),
             \A b \in Pools : <<b, Header>> \notin S, \A j \in Pages \cap S : PageOK(y, h, lg, w, md, rd, j)
      PROVE  DataOK(y, h, lg, w, md, rd, op)
  <2>1. x.durable \in 0..Len(lg) /\ LsnOK(x, op, Len(lg))
    BY <1>4 DEF DataOK
  <2>2. DurableUp(x, y, Len(lg))
    BY <1>2, <1>4, <2>1 DEF DurableUp
  <2>3. ASSUME NEW b \in Pools PROVE LsnAt(y, op, Len(lg), b)
    <3>1. <<b, Header>> \in Keys \ S
      BY <1>4, BufferPoolAssumption DEF Keys, Header
    <3>2. Same(x, y, <<b, Header>>)
      BY <1>4, <3>1 DEF OthersSame
    <3>3. PICK m \in Nat : m = Len(lg)
      BY <1>2
    <3>4. LsnOK(x, op, m) /\ m <= m /\ DurableUp(x, y, m) /\ MemOK(x, op)
      BY <1>4, <2>1, <2>2, <3>3
    <3>5. LsnAt(y, op, m, b)
      BY <1>2, <3>2, <3>4, LsnStep
    <3> QED BY <3>3, <3>5
  <2>4. LsnOK(y, op, Len(lg))
    BY <2>3 DEF LsnOK
  <2> QED BY <1>2, <1>3, <1>4, <2>2, <2>4, DataJoin
<1>5. CASE k \in DOMAIN f.frame
  <2>1. a = Pin(f, k)
    BY <1>5 DEF Fetch
  <2>2. OnlyPins(f, a)
    BY <1>2, <1>5, <2>1, PinEffect
  <2>3. PICK S : S = {}
    OBVIOUS
  <2>4. OthersSame(f, a, S) /\ a.durable = f.durable
    BY <2>2, <2>3 DEF OnlyPins
  <2>5. DataOK(a, h, lg, w, md, rd, op)
    BY <1>2, <1>4, <2>3, <2>4
  <2> QED BY <1>1, <2>5
<1>6. CASE k \notin DOMAIN f.frame
  <2>1. PICK e \in MakeRoom(f, k[1]) : a = LoadPage(Alloc(e, k), k)
    BY <1>6 DEF Fetch
  <2>2. DataOK(e, h, lg, w, md, rd, op) /\ RoomMade(f, e)
    BY <1>2, MakeRoomData
  <2>3. StateOK(e, h, op, lk)
    BY <1>2, MakeRoomStep
  <2>4. IsMem(e) /\ MemOK(e, op) /\ k \notin DOMAIN e.frame /\ e.store[k] # Absent
    BY <1>6, <2>2, <2>3 DEF StateOK, RoomMade, Pages, Keys
  <2>5. ReadIn(e, a, k)
    BY <2>1, <2>4, ReadEffect
  <2>6. PageOK(e, h, lg, w, md, rd, k) /\ e.durable \in 0..Len(lg)
    BY <2>2 DEF DataOK
  <2>7. PageOK(a, h, lg, w, md, rd, k)
    BY <2>4, <2>5, <2>6, ReadPage
  <2>8. PICK S : S = {k}
    OBVIOUS
  <2>9. /\ OthersSame(e, a, S) /\ a.durable = e.durable /\ (\A b \in Pools : <<b, Header>> \notin S)
        /\ \A j \in Pages \cap S : PageOK(a, h, lg, w, md, rd, j)
    BY <2>5, <2>7, <2>8 DEF ReadIn, Pages, Header
  <2>10. DataOK(a, h, lg, w, md, rd, op)
    BY <1>4, <2>2, <2>4, <2>9
  <2> QED BY <1>1, <2>10
<1> QED BY <1>5, <1>6

\* The replayer writes the entry into the frame, unless the page is newer, and lets it go.
Rewritten(a, g, k, lsn) ==
    IF a.frame[k].data >= lsn THEN g.frame[k].data = a.frame[k].data /\ (a.frame[k].dirty => g.frame[k].dirty)
    ELSE g.frame[k].data = lsn /\ IsDirty(g, k)
LEMMA RedoWriteEffect ==
    ASSUME NEW op \in SUBSET Pools, NEW a, NEW k \in Pages, NEW lsn \in Nat, NEW g,
           IsMem(a), MemOK(a, op), k \in DOMAIN a.frame, g = RedoWrite(a, k, lsn)
    PROVE  /\ OthersSame(a, g, {k}) /\ g.store = a.store /\ g.durable = a.durable /\ g.lost = a.lost
           /\ k \in DOMAIN g.frame /\ Rewritten(a, g, k, lsn)
<1>0. k \in Keys /\ k[2] # Header
  BY DEF Pages, Keys, Header
<1>1. PICK e : /\ g = Unpin(e, k) /\ IsMem(e) /\ MemOK(e, op) /\ k \in DOMAIN e.frame
               /\ OthersSame(a, e, {k}) /\ e.store = a.store /\ e.durable = a.durable /\ e.lost = a.lost
               /\ Rewritten(a, e, k, lsn)
  <2>1. CASE a.frame[k].data >= lsn
    <3>1. g = Unpin(a, k)
      BY <2>1 DEF RedoWrite
    <3> QED BY <2>1, <3>1 DEF OthersSame, Same, Rewritten
  <2>2. CASE ~(a.frame[k].data >= lsn)
    <3>1. PICK r \in FrameRec : r = a.frame[k]
      <4>1. a.frame[k] \in FrameRec
        BY <1>0, FrameIs
      <4> QED BY <4>1
    <3>2. PICK q : q = Dirtied(r, lsn)
      OBVIOUS
    <3>3. q \in FrameRec /\ q.data = lsn /\ q.pin = a.frame[k].pin /\ q.dirty
      <4>1. PICK d \in Datum : d = lsn
        BY DEF Datum
      <4>2. q = [data |-> d, dirty |-> TRUE, pin |-> r.pin] /\ r.pin \in Nat
        BY <3>1, <3>2, <4>1 DEF FrameRec, Dirtied
      <4> QED BY <3>1, <4>1, <4>2 DEF FrameRec
    <3>4. PICK x : x = Put(a.frame, k, q)
      OBVIOUS
    <3>5. PICK e : e = [a EXCEPT !.frame = x]
      OBVIOUS
    <3>6. /\ IsMem(e) /\ e.frame = x /\ e.store = a.store /\ e.frees = a.frees /\ e.durable = a.durable
          /\ e.lost = a.lost
      BY <3>5 DEF IsMem
    <3>7. [a EXCEPT !.frame[k].data = lsn, !.frame[k].dirty = TRUE] = e
      <4>1. PICK y : y = [a.frame EXCEPT ![k].data = lsn]
        OBVIOUS
      <4>2. PICK c : c = [a EXCEPT !.frame = y]
        OBVIOUS
      <4>3. IsMem(c) /\ c.frame = y
        BY <4>2 DEF IsMem
      <4>4. [y EXCEPT ![k].dirty = TRUE] = x
        <5>1. PICK z, p : z = a.frame /\ p = [r EXCEPT !.data = lsn]
          OBVIOUS
        <5>2. y = [z EXCEPT ![k] = p] /\ q = [p EXCEPT !.dirty = TRUE] /\ k \in DOMAIN z
          BY <3>1, <3>2, <4>1, <5>1 DEF Dirtied
        <5>3. y[k] = p
          BY <5>2
        <5>4. [y EXCEPT ![k].dirty = TRUE] = [y EXCEPT ![k] = q]
          BY <5>2, <5>3
        <5>5. [y EXCEPT ![k] = q] = [z EXCEPT ![k] = q]
          BY <5>2
        <5> QED BY <3>4, <5>1, <5>4, <5>5 DEF Put
      <4>5. [a EXCEPT !.frame[k].data = lsn, !.frame[k].dirty = TRUE] = [c EXCEPT !.frame[k].dirty = TRUE]
        BY <4>1, <4>2
      <4>6. [c EXCEPT !.frame[k].dirty = TRUE] = [c EXCEPT !.frame = x]
        BY <4>3, <4>4
      <4>7. [c EXCEPT !.frame = x] = e
        BY <3>5, <4>2
      <4> QED BY <4>5, <4>6, <4>7
    <3>8. g = Unpin(e, k)
      BY <2>2, <3>7 DEF RedoWrite
    <3>9. PICK d : d = lsn /\ Fits(k, d)
      BY <1>0 DEF Fits
    <3>10. q.data = d /\ e.frame = Put(a.frame, k, q)
      BY <3>3, <3>4, <3>6, <3>9
    <3>11. MemOK(e, op)
      BY <1>0, <3>3, <3>6, <3>9, <3>10, DataFrame
    <3>12. DOMAIN e.frame = DOMAIN a.frame /\ e.frame[k] = q /\ \A j \in DOMAIN a.frame : j # k => e.frame[j] = a.frame[j]
      BY <3>4, <3>6 DEF Put, MemOK, FramesOK
    <3>13. OthersSame(a, e, {k}) /\ Rewritten(a, e, k, lsn)
      BY <2>2, <3>3, <3>6, <3>12 DEF OthersSame, Same, Rewritten, IsDirty
    <3> QED BY <3>6, <3>8, <3>11, <3>12, <3>13
  <2> QED BY <2>1, <2>2
<1>2. OnlyPins(e, g)
  BY <1>1, UnpinEffect
<1>3. g.store = e.store /\ g.durable = e.durable /\ g.lost = e.lost
  <2>1. IsMem(e) /\ g = Unpin(e, k)
    BY <1>1
  <2>2. IsMem(e) => Unpin(e, k).store = e.store /\ Unpin(e, k).durable = e.durable /\ Unpin(e, k).lost = e.lost
    BY UnpinIs
  <2> QED BY <2>1, <2>2
<1>4. \A j \in Keys : Same(e, g, j)
  BY <1>2 DEF OnlyPins, OthersSame
<1>5. k \in DOMAIN g.frame /\ g.frame[k].data = e.frame[k].data /\ g.frame[k].dirty = e.frame[k].dirty
  BY <1>0, <1>1, <1>4 DEF Same
<1>6. OthersSame(a, g, {k})
  BY <1>1, <1>4 DEF OthersSame, Same
<1>7. Rewritten(a, g, k, lsn)
  BY <1>1, <1>5 DEF Rewritten, IsDirty
<1> QED BY <1>1, <1>3, <1>5, <1>6, <1>7

\* Afterwards the frame is as new as the entry.
LEMMA RewrittenPage ==
    ASSUME NEW a, NEW g, NEW h, NEW lg \in Seq(Entry), NEW w, NEW rd \in Nat \ {0}, NEW k \in Pages,
           PageOK(a, h, lg, w, "redo", rd, k), rd <= Len(lg), lg[rd] = W(k), ~Loader(h, k),
           k \in DOMAIN a.frame, k \in DOMAIN g.frame, Rewritten(a, g, k, rd),
           g.store = a.store, g.durable = a.durable, g.lost = a.lost
    PROVE  PageOK(g, h, lg, w, "redo", rd + 1, k)
<1>1. Len(lg) \in Nat /\ rd \in 1..Len(lg)
  OBVIOUS
<1>2. a.store[k] # Absent
  BY <1>1 DEF PageOK
<1>3. DataIs(lg, g.durable, k, g.store[k])
  BY <1>2 DEF PageOK
<1>4. DataIs(lg, Len(lg), k, a.frame[k].data)
  BY DEF PageOK
<1>5. DataIs(lg, Len(lg), k, g.frame[k].data)
  BY <1>1, <1>4 DEF Rewritten, DataIs
<1>6. ASSUME k \notin g.lost PROVE \E v : Keeps(g, h, k, v) /\ Replayed(lg, rd + 1, k, v)
  <2>1. PICK v : Keeps(a, h, k, v) /\ Replayed(lg, rd, k, v)
    BY <1>2, <1>6 DEF PageOK
  <2>2. a.frame[k].data = v /\ (a.frame[k].dirty \/ a.store[k] = v) /\ v \in Nat
    BY <2>1 DEF Keeps, Replayed
  <2>3. CASE v >= rd
    <3>1. Keeps(g, h, k, v)
      BY <2>2, <2>3 DEF Keeps, Rewritten
    <3>2. Replayed(lg, rd + 1, k, v)
      BY <2>1, <2>2, <2>3 DEF Replayed
    <3> QED BY <3>1, <3>2
  <2>4. CASE ~(v >= rd)
    <3>1. Keeps(g, h, k, rd)
      BY <2>2, <2>4 DEF Keeps, Rewritten, IsDirty
    <3>2. Replayed(lg, rd + 1, k, rd)
      BY DEF Replayed
    <3> QED BY <3>1, <3>2
  <2> QED BY <2>3, <2>4
<1> QED BY <1>2, <1>3, <1>5, <1>6 DEF PageOK

LEMMA ReplayWrite ==
    ASSUME NEW f, NEW h \in [Threads -> ThreadRec], NEW lk, NEW lg \in Seq(Entry), NEW w, NEW rd \in Nat \ {0},
           NEW k \in Pages, NEW a \in Fetch(f, k), NEW g,
           StateOK(f, h, Pools, lk), DataOK(f, h, lg, w, "redo", rd, Pools), rd <= Len(lg), lg[rd] = W(k), AllIdle(h),
           k \in DOMAIN f.frame \/ f.store[k] # Absent, g = RedoWrite(a, k, rd)
    PROVE  DataOK(g, h, lg, w, "redo", rd + 1, Pools)
<1>1. DataOK(a, h, lg, w, "redo", rd, Pools)
  BY FetchData
<1>2. IsMem(a) /\ MemOK(a, Pools) /\ k \in DOMAIN a.frame
  <2>1. QuietOK(f)
    <3>1. Pools \in SUBSET Pools /\ IsMem(f) /\ MemOK(f, Pools)
      BY DEF StateOK
    <3> QED BY <3>1, QuietState DEF QuietOK
  <2> QED BY <2>1, FetchOK
<1>3. /\ OthersSame(a, g, {k}) /\ g.store = a.store /\ g.durable = a.durable /\ g.lost = a.lost
      /\ k \in DOMAIN g.frame /\ Rewritten(a, g, k, rd)
  <2>1. PICK op \in SUBSET Pools, lsn \in Nat : op = Pools /\ lsn = rd
    OBVIOUS
  <2>2. IsMem(a) /\ MemOK(a, op) /\ k \in DOMAIN a.frame /\ g = RedoWrite(a, k, lsn)
    BY <1>2, <2>1
  <2>3. /\ OthersSame(a, g, {k}) /\ g.store = a.store /\ g.durable = a.durable /\ g.lost = a.lost
        /\ k \in DOMAIN g.frame /\ Rewritten(a, g, k, lsn)
    BY <2>2, RedoWriteEffect
  <2> QED BY <2>1, <2>3
<1>4. ~Loader(h, k)
  BY DEF AllIdle, Loader, Loads
<1>5. a.durable \in 0..Len(lg) /\ LsnOK(a, Pools, Len(lg)) /\ Len(lg) \in Nat
  BY <1>1 DEF DataOK
<1>6. DurableUp(a, g, Len(lg))
  BY <1>3, <1>5 DEF DurableUp
<1>7. PageOK(g, h, lg, w, "redo", rd + 1, k)
  <2>1. PageOK(a, h, lg, w, "redo", rd, k)
    BY <1>1 DEF DataOK
  <2> QED BY <1>2, <1>3, <1>4, <2>1, RewrittenPage
<1>8. ASSUME NEW j \in Pages, j # k PROVE PageOK(g, h, lg, w, "redo", rd + 1, j)
  <2>1. PageOK(a, h, lg, w, "redo", rd, j)
    BY <1>1 DEF DataOK
  <2>2. Same(a, g, j)
    BY <1>3, <1>8 DEF OthersSame, Pages, Keys
  <2>3. Moves(a, g, h, h, j) /\ Changes(a, g, h, h, j) /\ LogKept(lg, lg, j)
    BY <2>2, LogSame DEF Changes, Moves
  <2>4. PICK md : md = "redo"
    OBVIOUS
  <2>5. PageOK(a, h, lg, w, md, rd, j) /\ rd - 1 <= Len(lg) /\ a.durable <= Len(lg)
    BY <1>5, <2>1, <2>4
  <2>6. PageOK(g, h, lg, w, md, rd, j)
    BY <1>6, <2>3, <2>5, PageStep
  <2>7. lg[rd] # W(j)
    <3>1. W(k).key = k /\ W(j).key = j
      BY DEF W
    <3> QED BY <1>8, <3>1
  <2> QED BY <2>4, <2>6, <2>7, NextEntry
<1>9. ASSUME NEW b \in Pools PROVE LsnAt(g, Pools, Len(lg), b)
  <2>1. <<b, Header>> \in Keys \ {k}
    BY BufferPoolAssumption DEF Keys, Pages, Header
  <2>2. Same(a, g, <<b, Header>>)
    BY <1>3, <2>1 DEF OthersSame
  <2>3. PICK m \in Nat, op \in SUBSET Pools : m = Len(lg) /\ op = Pools
    BY <1>5
  <2>4. LsnOK(a, op, m) /\ m <= m /\ DurableUp(a, g, m) /\ MemOK(a, op)
    BY <1>2, <1>5, <1>6, <2>3
  <2>5. LsnAt(g, op, m, b)
    BY <2>2, <2>4, LsnStep
  <2> QED BY <2>3, <2>5
<1>10. LsnOK(g, Pools, Len(lg)) /\ g.durable \in 0..Len(lg) /\ \A j \in Pages : PageOK(g, h, lg, w, "redo", rd + 1, j)
  BY <1>3, <1>5, <1>7, <1>8, <1>9 DEF LsnOK
<1> QED BY <1>10 DEF DataOK

\* The LSN that the replay gives a header is the one it has, or that of the entry.
LEMMA ReplayAllocate ==
    ASSUME NEW f, NEW g, NEW h, NEW lg \in Seq(Entry), NEW w, NEW rd \in Nat \ {0}, NEW b \in Pools, NEW n,
           IsMem(f), MemOK(f, Pools), DataOK(f, h, lg, w, "redo", rd, Pools), rd <= Len(lg), \A k : lg[rd] # W(k),
           g = RedoAllocate(f, b, n, rd) \/ g = RedoDeallocate(f, b, n, rd)
    PROVE  DataOK(g, h, lg, w, "redo", rd + 1, Pools)
<1>1. PICK d : d = f.frame[<<b, Header>>].data
  OBVIOUS
<1>2. d \in FileHdr /\ d.lsn \in Nat /\ d.lsn <= Len(lg)
  <2>1. HeaderOK(d)
    BY <1>1 DEF MemOK, FramesOK
  <2>2. d.lsn <= Len(lg)
    BY <1>1 DEF DataOK, LsnOK, LsnAt, HdrOf
  <2> QED BY <2>1, <2>2 DEF HeaderOK, FileHdr
<1>3. PICK d1, d2, d3 : /\ d1 = [d EXCEPT !.bits = @ \cup {n}]
                        /\ d2 = [count |-> d.count + 1, bits |-> d.bits \cup {n}, lsn |-> rd]
                        /\ d3 = [d EXCEPT !.bits = @ \ {n}, !.lsn = rd]
  OBVIOUS
<1>4. d1.lsn = d.lsn /\ d2.lsn = rd /\ d3.lsn = rd
  BY <1>2, <1>3 DEF FileHdr
<1>5. g = f \/ g = SetHeader(f, b, d1) \/ g = SetHeader(f, b, d2) \/ g = SetHeader(f, b, d3)
  BY <1>1, <1>3 DEF RedoAllocate, RedoDeallocate
<1>6. CASE g = f
  BY <1>6, ReplayNothing
<1>7. ASSUME NEW x, NEW m \in Nat, g = SetHeader(f, b, x), x.lsn = m, m <= Len(lg)
      PROVE  DataOK(g, h, lg, w, "redo", rd + 1, Pools)
  BY <1>7, ReplayHeader
<1> QED BY <1>2, <1>4, <1>5, <1>6, <1>7

LEMMA ReplayData ==
    ASSUME IInv, PageInv, Replay
    PROVE  PageInv'
<1>1. /\ StateOK(Memory, th, open, lock) /\ IsMem(Memory) /\ MemOK(Memory, open) /\ log \in Seq(Entry)
      /\ th \in [Threads -> ThreadRec] /\ DataOK(Memory, th, log, written, mode, redo, open) /\ Len(log) \in Nat
  BY DataNow
<1>2. /\ mode = "redo" /\ redo <= Len(log) /\ UNCHANGED <<lock, open, log, th, written>> /\ redo \in Nat \ {0}
  BY DEF Replay, IInv, TypeInv
<1>3. open = Pools /\ AllIdle(th)
  BY <1>2 DEF IInv, QuietInv, AllIdle
<1>4. PICK e \in Entry : e = log[redo]
  BY <1>1, <1>2
<1>5. PICK f : f = Memory
  OBVIOUS
<1>6. /\ StateOK(f, th, Pools, lock) /\ IsMem(f) /\ MemOK(f, Pools) /\ DataOK(f, th, log, written, "redo", redo, Pools)
  BY <1>1, <1>2, <1>3, <1>5
<1>7. CASE mode' = "failed" /\ UNCHANGED <<memory, store, durable, lost, redo>>
  <2>1. Memory' = Memory
    BY <1>7, MemoryKept
  <2>2. ASSUME NEW k \in Pages PROVE PageOK(f, th, log, written, "failed", redo, k)
    <3>1. PageOK(f, th, log, written, "redo", redo, k)
      BY <1>6 DEF DataOK
    <3> QED BY <3>1 DEF PageOK
  <2>3. DataOK(f, th, log, written, "failed", redo, Pools)
    BY <1>6, <2>2 DEF DataOK
  <2> QED BY <1>2, <1>3, <1>5, <1>7, <2>1, <2>3 DEF PageInv
<1>8. CASE /\ ~RedoFails(f, e, redo) /\ redo' = redo + 1 /\ (\E g \in Redo(f, e, redo) : SetMemory(g))
           /\ UNCHANGED mode
  <2>1. PICK g \in Redo(f, e, redo) : SetMemory(g)
    BY <1>8
  <2>2. PICK k \in Pages, b \in Pools, n \in 1..(MaxPageNum - 1) : k = e.key /\ b = k[1] /\ n = k[2]
    BY <1>4 DEF Entry, Pages
  <2>3. IsMem(g) /\ DataOK(g, th, log, written, "redo", redo + 1, Pools)
    <3>1. CASE e.op = "allocate" \/ e.op = "deallocate"
      <4>1. g = RedoAllocate(f, b, n, redo) \/ g = RedoDeallocate(f, b, n, redo)
        BY <2>1, <2>2, <3>1 DEF Redo
      <4>2. \A j : log[redo] # W(j)
        <5>1. \A j : W(j).op = "write"
          BY DEF W
        <5> QED BY <1>4, <3>1, <5>1
      <4>3. DataOK(g, th, log, written, "redo", redo + 1, Pools)
        BY <1>1, <1>2, <1>6, <4>1, <4>2, ReplayAllocate
      <4>4. IsMem(g)
        BY <1>6, <4>1, SetHeaderIs DEF RedoAllocate, RedoDeallocate
      <4> QED BY <4>3, <4>4
    <3>2. CASE e.op = "write"
      <4>1. PICK a \in Fetch(f, k) : g = RedoWrite(a, k, redo)
        BY <2>1, <2>2, <3>2 DEF Redo
      <4>2. k \in DOMAIN f.frame \/ f.store[k] # Absent
        BY <1>8, <2>2, <3>2 DEF RedoFails
      <4>3. log[redo] = W(k)
        BY <1>4, <2>2, <3>2 DEF W, Entry
      <4>4. DataOK(g, th, log, written, "redo", redo + 1, Pools)
        BY <1>1, <1>2, <1>3, <1>6, <4>1, <4>2, <4>3, ReplayWrite
      <4>5. IsMem(g)
        <5>1. QuietOK(f)
          <6>1. Pools \in SUBSET Pools
            OBVIOUS
          <6> QED BY <1>3, <1>6, <6>1, QuietState DEF QuietOK
        <5>2. PICK lsn \in Nat : lsn = redo
          BY <1>2
        <5>3. QuietOK(g)
          BY <1>3, <4>1, <5>1, <5>2, RedoWriteOK
        <5> QED BY <5>3 DEF QuietOK
      <4> QED BY <4>4, <4>5
    <3> QED BY <1>4, <3>1, <3>2 DEF Entry
  <2>4. Memory' = g
    BY <2>1, <2>3, SetMemoryIs
  <2> QED BY <1>1, <1>2, <1>3, <1>8, <2>3, <2>4 DEF PageInv
<1> QED BY <1>4, <1>5, <1>7, <1>8 DEF Replay


\* LastWrite, when it is one, is the last change of page k in the log.
LEMMA LastWriteIs ==
    ASSUME log \in Seq(Entry), NEW k \in Pages, LastWrite(k) # 0
    PROVE  \E w \in 1..Len(log) : /\ LastWrite(k) = w /\ log[w] = W(k)
                                  /\ \A i \in 1..Len(log) : log[i] = W(k) => i <= w
<1>1. PICK S : S = Of({"write"}, k)
  OBVIOUS
<1>2. Len(log) \in Nat /\ S \subseteq 1..Len(log) /\ \A i \in 1..Len(log) : i \in S <=> log[i] = W(k)
  <2>1. ASSUME NEW i \in 1..Len(log) PROVE i \in S <=> log[i] = W(k)
    <3>1. PICK e \in Entry : e = log[i]
      BY <2>1
    <3>2. i \in S <=> e.op = "write" /\ e.key = k
      BY <1>1, <2>1, <3>1 DEF Of
    <3>3. e = W(k) <=> e.op = "write" /\ e.key = k
      BY DEF Entry, W
    <3> QED BY <3>1, <3>2, <3>3
  <2>2. S \subseteq 1..Len(log)
    BY <1>1 DEF Of
  <2> QED BY <2>1, <2>2
<1>3. PICK w : w = LastOf(S)
  OBVIOUS
<1>4. LastWrite(k) = w /\ w # 0
  BY <1>1, <1>3 DEF LastWrite
<1>5. S # {}
  BY <1>3, <1>4 DEF LastOf
<1>6. w \in S /\ \A j \in S : j <= w
  <2>1. \E n \in S : \A m \in S : m <= n
    <3>1. PICK n \in Nat : n = Len(log)
      BY <1>2
    <3>2. S \in SUBSET (0..n)
      BY <1>2, <3>1
    <3> QED BY <1>5, <3>2, GreatestIs
  <2>2. w = CHOOSE n \in S : \A m \in S : m <= n
    BY <1>3, <1>5 DEF LastOf
  <2> QED BY <2>1, <2>2
<1> QED BY <1>2, <1>4, <1>6

LEMMA RecoveredPage ==
    ASSUME NEW f, NEW h, NEW lg \in Seq(Entry), NEW u, NEW w2, NEW rd \in Nat \ {0}, NEW k \in Pages,
           PageOK(f, h, lg, u, "redo", rd, k), ~Loader(h, k), f.durable \in 0..Len(lg), rd > Len(lg),
           w2[k] # 0 => w2[k] \in 1..Len(lg) /\ lg[w2[k]] = W(k) /\ \A i \in 1..Len(lg) : lg[i] = W(k) => i <= w2[k]
    PROVE  PageOK(f, h, lg, w2, "run", rd, k)
<1>1. Len(lg) \in Nat
  OBVIOUS
<1>2. f.store[k] = Absent => (\A i \in 1..Len(lg) : lg[i] # W(k)) /\ w2[k] = 0
  BY DEF PageOK
<1>3. ASSUME w2[k] # 0, k \notin f.lost PROVE Keeps(f, h, k, w2[k])
  <2>1. PICK w \in 1..Len(lg) : w = w2[k] /\ lg[w] = W(k) /\ \A i \in 1..Len(lg) : lg[i] = W(k) => i <= w
    BY <1>3
  <2>2. PICK v : Keeps(f, h, k, v) /\ Replayed(lg, rd, k, v)
    BY <1>2, <1>3 DEF PageOK
  <2>3. v \in Nat /\ w <= v
    BY <1>1, <2>1, <2>2 DEF Replayed
  <2>4. DataIs(lg, Len(lg), k, v)
    <3>1. CASE k \in DOMAIN f.frame
      BY <2>2, <3>1 DEF Keeps, PageOK
    <3>2. CASE k \notin DOMAIN f.frame
      <4>1. DataIs(lg, f.durable, k, v)
        BY <1>2, <1>3, <2>2, <3>2 DEF Keeps, PageOK
      <4> QED BY <1>1, <4>1 DEF DataIs
    <3> QED BY <3>1, <3>2
  <2>5. v \in 1..Len(lg) /\ lg[v] = W(k)
    BY <1>1, <2>3, <2>4 DEF DataIs
  <2>6. v = w
    BY <2>1, <2>3, <2>5
  <2> QED BY <2>1, <2>2, <2>6
<1> QED BY <1>2, <1>3 DEF PageOK

LEMMA RecoveredData ==
    ASSUME IInv, PageInv, Recovered
    PROVE  PageInv'
<1>1. /\ log \in Seq(Entry) /\ redo \in Nat \ {0} /\ DataOK(Memory, th, log, written, mode, redo, open)
      /\ Len(log) \in Nat
  BY DataNow
<1>2. /\ mode = "redo" /\ redo > Len(log) /\ mode' = "run" /\ written' = [k \in Keys |-> LastWrite(k)]
      /\ UNCHANGED <<memory, store, durable, lost, open, log, th, redo>>
  BY DEF Recovered, disk
<1>3. Memory' = Memory
  BY <1>2, MemoryKept
<1>4. PICK f, w2 : f = Memory /\ w2 = written'
  OBVIOUS
<1>5. DataOK(f, th, log, written, "redo", redo, open) /\ f.durable \in 0..Len(log)
  BY <1>1, <1>2, <1>4 DEF DataOK
<1>6. ASSUME NEW k \in Pages PROVE PageOK(f, th, log, w2, "run", redo, k)
  <2>1. w2[k] = LastWrite(k)
    BY <1>2, <1>4 DEF Pages, Keys
  <2>2. w2[k] # 0 => w2[k] \in 1..Len(log) /\ log[w2[k]] = W(k) /\ \A i \in 1..Len(log) : log[i] = W(k) => i <= w2[k]
    BY <1>1, <2>1, LastWriteIs
  <2>3. ~Loader(th, k)
    BY <1>2 DEF IInv, QuietInv, Loader, Loads
  <2>4. PageOK(f, th, log, written, "redo", redo, k)
    BY <1>5 DEF DataOK
  <2> QED BY <1>1, <1>2, <1>5, <2>2, <2>3, <2>4, RecoveredPage
<1>7. DataOK(f, th, log, w2, "run", redo, open)
  BY <1>5, <1>6 DEF DataOK
<1>8. OnKeys(w2)
  BY <1>2, <1>4 DEF OnKeys
<1> QED BY <1>2, <1>3, <1>4, <1>7, <1>8 DEF PageInv

-----------------------------------------------------------------------------
LEMMA InitData ==
    ASSUME Init
    PROVE  PageInv
<1>1. /\ store = [k \in Keys |-> IF k[2] = Header THEN FileHeader(k[1])
                                ELSE IF k[2] < InitCount[k[1]] THEN 0 ELSE Absent]
      /\ frame = OpenAll(store) /\ open = Pools /\ log = <<>> /\ durable = 0 /\ mode = "run" /\ redo = 1
      /\ written = [k \in Keys |-> 0]
  BY DEF Init
<1>2. PICK f, h, w : f = Memory /\ h = th /\ w = written
  OBVIOUS
<1>3. f.frame = OpenAll(f.store) /\ f.store = store /\ f.durable = 0 /\ Len(log) = 0
  BY <1>1, <1>2, MemoryIs
<1>4. DOMAIN f.frame = Headers /\ \A k \in Headers : f.frame[k].data = f.store[k]
  BY <1>3 DEF OpenAll
<1>5. ASSUME NEW k \in Pages PROVE PageOK(f, h, log, w, "run", 1, k)
  <2>1. k \in Keys /\ k \notin Headers /\ k[2] # Header
    BY DEF Pages, Keys, Headers, Header
  <2>2. w[k] = 0 /\ (f.store[k] = 0 \/ f.store[k] = Absent)
    BY <1>1, <1>2, <1>3, <2>1
  <2>3. f.store[k] # Absent => DataIs(log, f.durable, k, f.store[k])
    BY <2>2 DEF DataIs
  <2>4. f.store[k] = Absent => \A i \in 1..Len(log) : log[i] # W(k)
    BY <1>3
  <2> QED BY <1>4, <2>1, <2>2, <2>3, <2>4 DEF PageOK
<1>6. ASSUME NEW b \in Pools PROVE LsnAt(f, Pools, Len(log), b)
  <2>1. <<b, Header>> \in Headers /\ <<b, Header>> \in Keys /\ <<b, Header>>[1] = b /\ <<b, Header>>[2] = Header
    BY BufferPoolAssumption DEF Headers, Keys, Header
  <2>2. f.store[<<b, Header>>] = FileHeader(b)
    BY <1>1, <1>3, <2>1
  <2>3. f.store[<<b, Header>>].lsn = 0
    BY <2>2 DEF FileHeader
  <2> QED BY <1>3, <1>4, <2>1, <2>3 DEF LsnAt, HdrOf
<1>7. DataOK(f, h, log, w, "run", 1, Pools)
  <2>1. LsnOK(f, Pools, Len(log)) /\ f.durable \in 0..Len(log)
    BY <1>3, <1>6 DEF LsnOK
  <2> QED BY <1>5, <2>1 DEF DataOK
<1>8. OnKeys(w)
  BY <1>1, <1>2 DEF OnKeys
<1> QED BY <1>1, <1>2, <1>7, <1>8 DEF PageInv

LEMMA StepData ==
    ASSUME IInv, PageInv, [Next]_vars
    PROVE  PageInv'
<1>1. CASE UNCHANGED vars
  <2>1. Memory' = Memory /\ UNCHANGED <<open, log, th, mode, redo, written>>
    BY <1>1, MemoryKept DEF vars, disk, history
  <2> QED BY <2>1 DEF PageInv
<1>2. ASSUME NEW t \in Threads, NEW k \in Keys, Get(t, k) \/ Dispose(t, k) PROVE PageInv'
  BY <1>2, GetData, DisposeData
<1>3. ASSUME NEW t \in Threads, NEW b \in Pools, AllocateFreePage(t, b) \/ BeginExtend(t, b) PROVE PageInv'
  BY <1>3, AllocateFreePageData, BeginExtendData
<1>4. ASSUME NEW t \in Threads, Lookup(t) \/ AllocateFrame(t) \/ Load(t) \/ Extend(t) PROVE PageInv'
  BY <1>4, LookupData, AllocateFrameData, LoadData, ExtendData
<1>5. ASSUME NEW t \in Threads, Modify(t) \/ UnpinPage(t) PROVE PageInv'
  BY <1>5, ModifyData, UnpinPageData
<1>6. ASSUME NEW b \in Pools, CloseFile(b) \/ OpenFile(b) PROVE PageInv'
  BY <1>6, CloseFileData, OpenFileData
<1>7. CASE Crash \/ Replay \/ Recovered
  BY <1>7, CrashData, ReplayData, RecoveredData
<1> QED BY <1>1, <1>2, <1>3, <1>4, <1>5, <1>6, <1>7 DEF Next

\* A thread that holds a page, while no other loads it, sees what is kept of it.
LEMMA HoldersFromInv ==
    ASSUME IInv, PageInv
    PROVE  HolderSeesNewest
<1>1. /\ StateOK(Memory, th, open, lock) /\ DataOK(Memory, th, log, written, mode, redo, open)
      /\ Memory.frame = frame /\ Memory.lost = lost
  BY DataNow, MemoryIs
<1>2. ASSUME NEW t \in Threads, NEW k, k = th[t].key, th[t].pc = "hold", written[k] # 0, k \notin lost,
             \A u \in Threads : ~(th[u].pc \in {"load", "extend"} /\ th[u].key = k)
      PROVE  frame[k].data = written[k]
  <2>1. mode = "run"
    <3>1. mode \in {"run", "redo", "failed"} /\ (mode # "run" => th[t].pc = "idle")
      BY DEF IInv, TypeInv, QuietInv
    <3> QED BY <1>2, <3>1
  <2>2. k \in Pages /\ k \in DOMAIN Memory.frame
    BY <1>1, <1>2 DEF StateOK, ThreadOK
  <2>3. Keeps(Memory, th, k, written[k])
    BY <1>1, <1>2, <2>1, <2>2 DEF DataOK, PageOK
  <2>4. ~Loader(th, k)
    BY <1>2 DEF Loader, Loads
  <2> QED BY <1>1, <2>2, <2>3, <2>4 DEF Keeps
<1> QED BY <1>2 DEF HolderSeesNewest

\* Whatever frames are evicted, loaded again and taken from free pages, and however files are
\* closed, opened and recovered after a crash: a thread that holds a page sees the last change of
\* it (get_this_page, allocate_page, flush_page_internal, redo of a changed page), unless the
\* page is one that allocate_frame has dropped or load_page has read over.
THEOREM HoldersSeeNewest == Spec => []HolderSeesNewest
<1>1. Init => IInv /\ PageInv
  BY InitInv, InitData
<1>2. IInv /\ PageInv /\ [Next]_vars => (IInv /\ PageInv)'
  BY StepInv, StepData
<1>3. IInv /\ PageInv => HolderSeesNewest
  BY HoldersFromInv
<1> QED BY <1>1, <1>2, <1>3, PTL DEF Spec

-----------------------------------------------------------------------------
(***************************************************************************)
(* The headers of the files, and what the log says of the pages that are   *)
(* allocated.                                                              *)
(***************************************************************************)
A(k) == [op |-> "allocate", key |-> k]
D(k) == [op |-> "deallocate", key |-> k]

\* Entry i allocates or disposes of a page of file b.
OfFile(lg, i, b) == \E k \in Pages : k[1] = b /\ (lg[i] = A(k) \/ lg[i] = D(k))

\* Page k is allocated after the first m entries.
AllocAt(lg, m, k) ==
    \/ \E i \in 1..m : lg[i] = A(k) /\ \A j \in i + 1..m : lg[j] # D(k)
    \/ k[2] \in InitBits[k[1]] /\ \A j \in 1..m : lg[j] # D(k)

\* The page_count of file b then is c: above every page allocated so far, and not more.
Below(lg, m, b, c)   == c >= InitCount[b] /\ \A i \in 1..m, k \in Pages : k[1] = b /\ lg[i] = A(k) => k[2] < c
Reached(lg, m, b, c) == c <= InitCount[b] \/ \E i \in 1..m, k \in Pages : k[1] = b /\ lg[i] = A(k) /\ c <= k[2] + 1

\* Header d has what the first m entries allocate in file b.
BitsAt(d, lg, m, b)   == \A k \in Pages : k[1] = b => (k[2] \in d.bits <=> AllocAt(lg, m, k))
HeaderAt(d, lg, m, b) == Below(lg, m, b, d.count) /\ Reached(lg, m, b, d.count) /\ BitsAt(d, lg, m, b)

\* So it has, but its LSN may be older, as redo_allocate_page does not always set it: then it only
\* misses allocations.
NoDispose(lg, l, m, b) == \A i \in l + 1..m, k \in Pages : k[1] = b => lg[i] # D(k)
Says(d, lg, m, b)      == m \in d.lsn..Len(lg) /\ HeaderAt(d, lg, m, b) /\ NoDispose(lg, d.lsn, m, b)

\* What is logged could be done: a page is allocated when it is not, and not behind page_count, and
\* disposed of when it is allocated.
EntryOK(lg, i) ==
    \A k \in Pages :
        /\ lg[i] = A(k) => ~AllocAt(lg, i - 1, k) /\ Reached(lg, i - 1, k[1], k[2])
        /\ lg[i] = D(k) => AllocAt(lg, i - 1, k)
LogOK(lg) == \A i \in 1..Len(lg) : EntryOK(lg, i)

\* File b is being extended: the page is logged, and page_count still is the page.
Extends(x, b)     == Making(x) /\ x.key[1] = b
Extender(h, b)    == \E t \in Threads : Extends(h[t], b)
Pending(d, lg, b) ==
    /\ d.lsn \in 1..Len(lg) /\ (\E k \in Pages : k[1] = b /\ k[2] = d.count /\ lg[d.lsn] = A(k))
    /\ HeaderAt(d, lg, d.lsn - 1, b) /\ \A i \in d.lsn + 1..Len(lg) : ~OfFile(lg, i, b)

\* The header of file b: in the file as the first m entries left it, all of them durable; in its
\* frame as all entries leave it, or all that are replayed.  The frame is dirty if it differs from
\* the file, and writing it makes the entries durable that it has.
Clean(f, b)           == IsDirty(f, <<b, Header>>) \/ HdrOf(f, b) = f.store[<<b, Header>>]
SoFar(f, d, m)        == m <= f.durable \/ m <= d.lsn
StoreHdrOK(f, lg, b)  == \E m \in 0..f.durable : Says(f.store[<<b, Header>>], lg, m, b)
RestHdrOK(f, lg, b)   ==
    /\ HeaderAt(HdrOf(f, b), lg, Len(lg), b) /\ Clean(f, b)
    /\ \E m \in 0..Len(lg) : SoFar(f, HdrOf(f, b), m) /\ Says(HdrOf(f, b), lg, m, b)
RedoHdrOK(f, lg, rd, b) ==
    Clean(f, b) /\ \E m \in rd - 1..Len(lg) : Says(HdrOf(f, b), lg, m, b)
ClosedHdrOK(f, lg, b) == HeaderAt(f.store[<<b, Header>>], lg, Len(lg), b)

HdrOK(f, h, lg, md, rd, op, b) ==
    /\ StoreHdrOK(f, lg, b)
    /\ md = "run" /\ b \in op => IF Extender(h, b) THEN Pending(HdrOf(f, b), lg, b) ELSE RestHdrOK(f, lg, b)
    /\ md = "run" /\ b \notin op => ClosedHdrOK(f, lg, b)
    /\ md = "redo" => RedoHdrOK(f, lg, rd, b)

HdrInv ==
    /\ mode # "failed" /\ (mode = "redo" => durable = Len(log)) /\ LogOK(log)
    /\ \A b \in Pools : HdrOK(Memory, th, log, mode, redo, open, b)

-----------------------------------------------------------------------------
(***************************************************************************)
(* The log.                                                                *)
(***************************************************************************)
LEMMA EntriesDiffer ==
    /\ \A k, j : (A(k) = A(j) => k = j) /\ (D(k) = D(j) => k = j) /\ A(k) # D(j) /\ A(k) # W(j) /\ D(k) # W(j)
    /\ \A e \in Entry : e = A(e.key) \/ e = D(e.key) \/ e = W(e.key)
<1>1. \A k : A(k).op = "allocate" /\ A(k).key = k /\ D(k).op = "deallocate" /\ D(k).key = k /\ W(k).op = "write" /\ W(k).key = k
  BY DEF A, D, W
<1>2. \A e \in Entry : e = A(e.key) \/ e = D(e.key) \/ e = W(e.key)
  BY DEF Entry, A, D, W
<1>3. \A k, j : (A(k) = A(j) => k = j) /\ (D(k) = D(j) => k = j) /\ A(k) # D(j) /\ A(k) # W(j) /\ D(k) # W(j)
  BY <1>1
<1> QED BY <1>2, <1>3

LEMMA PageIs == ASSUME NEW k \in Pages, NEW j \in Pages, k[1] = j[1], k[2] = j[2] PROVE k = j
  BY DEF Pages

\* The first n entries are the same.
Agree(lg, lg2, n) == \A i \in 1..n : lg2[i] = lg[i]

LEMMA AllocAgrees ==
    ASSUME NEW lg, NEW lg2, NEW m \in Int, NEW n \in Int, NEW k, Agree(lg, lg2, n), m <= n
    PROVE  AllocAt(lg, m, k) <=> AllocAt(lg2, m, k)
  BY DEF Agree, AllocAt

LEMMA HeaderAgrees ==
    ASSUME NEW lg, NEW lg2, NEW m \in Int, NEW n \in Int, NEW b, NEW d,
           Agree(lg, lg2, n), m <= n, HeaderAt(d, lg, m, b)
    PROVE  HeaderAt(d, lg2, m, b)
<1>1. BitsAt(d, lg2, m, b)
  BY AllocAgrees DEF HeaderAt, BitsAt
<1>2. Below(lg2, m, b, d.count)
  BY DEF Below, Agree, HeaderAt
<1>3. Reached(lg2, m, b, d.count)
  BY DEF Reached, Agree, HeaderAt
<1> QED BY <1>1, <1>2, <1>3 DEF HeaderAt

\* Entries of other files, and changes of pages, allocate nothing.
NoneOf(lg, m, n, b) == \A i \in m + 1..n : ~OfFile(lg, i, b)
LEMMA AllocLater ==
    ASSUME NEW lg, NEW m \in Nat, NEW n \in Nat, NEW k \in Pages, m <= n, NoneOf(lg, m, n, k[1])
    PROVE  AllocAt(lg, m, k) <=> AllocAt(lg, n, k)
<1>1. \A i \in m + 1..n : lg[i] # A(k) /\ lg[i] # D(k)
  BY DEF NoneOf, OfFile
<1>2. ASSUME AllocAt(lg, m, k) PROVE AllocAt(lg, n, k)
  <2>1. CASE \E i \in 1..m : lg[i] = A(k) /\ \A j \in i + 1..m : lg[j] # D(k)
    <3>1. PICK i \in 1..m : lg[i] = A(k) /\ \A j \in i + 1..m : lg[j] # D(k)
      BY <2>1
    <3>2. \A j \in i + 1..n : lg[j] # D(k)
      BY <1>1, <3>1
    <3> QED BY <3>1, <3>2 DEF AllocAt
  <2>2. CASE k[2] \in InitBits[k[1]] /\ \A j \in 1..m : lg[j] # D(k)
    <3>1. \A j \in 1..n : lg[j] # D(k)
      BY <1>1, <2>2
    <3> QED BY <2>2, <3>1 DEF AllocAt
  <2> QED BY <1>2, <2>1, <2>2 DEF AllocAt
<1>3. ASSUME AllocAt(lg, n, k) PROVE AllocAt(lg, m, k)
  <2>1. CASE \E i \in 1..n : lg[i] = A(k) /\ \A j \in i + 1..n : lg[j] # D(k)
    <3>1. PICK i \in 1..n : lg[i] = A(k) /\ \A j \in i + 1..n : lg[j] # D(k)
      BY <2>1
    <3>2. i \in 1..m /\ \A j \in i + 1..m : lg[j] # D(k)
      BY <1>1, <3>1
    <3> QED BY <3>1, <3>2 DEF AllocAt
  <2>2. CASE k[2] \in InitBits[k[1]] /\ \A j \in 1..n : lg[j] # D(k)
    BY <2>2 DEF AllocAt
  <2> QED BY <1>3, <2>1, <2>2 DEF AllocAt
<1> QED BY <1>2, <1>3

LEMMA HeaderLater ==
    ASSUME NEW lg, NEW m \in Nat, NEW n \in Nat, NEW b, NEW d, m <= n, NoneOf(lg, m, n, b), HeaderAt(d, lg, m, b)
    PROVE  HeaderAt(d, lg, n, b)
<1>1. BitsAt(d, lg, n, b)
  BY AllocLater DEF HeaderAt, BitsAt
<1>2. Below(lg, n, b, d.count)
  <2>1. ASSUME NEW i \in 1..n, NEW k \in Pages, k[1] = b, lg[i] = A(k) PROVE k[2] < d.count
    <3>1. i \in 1..m
      BY <2>1 DEF NoneOf, OfFile
    <3> QED BY <2>1, <3>1 DEF HeaderAt, Below
  <2> QED BY <2>1 DEF HeaderAt, Below
<1>3. Reached(lg, n, b, d.count)
  <2>1. CASE \E i \in 1..m, k \in Pages : k[1] = b /\ lg[i] = A(k) /\ d.count <= k[2] + 1
    <3>1. PICK i \in 1..m, k \in Pages : k[1] = b /\ lg[i] = A(k) /\ d.count <= k[2] + 1
      BY <2>1
    <3>2. i \in 1..n
      OBVIOUS
    <3> QED BY <3>1, <3>2 DEF Reached
  <2> QED BY <2>1 DEF HeaderAt, Reached
<1> QED BY <1>1, <1>2, <1>3 DEF HeaderAt

\* An entry allocates a page, or disposes of it.
LEMMA AllocAllocated ==
    ASSUME NEW lg, NEW m \in Nat, NEW n \in Nat, NEW k, NEW j, n = m + 1, lg[n] = A(k)
    PROVE  AllocAt(lg, n, j) <=> j = k \/ AllocAt(lg, m, j)
<1>1. lg[n] # D(j) /\ (lg[n] = A(j) <=> j = k)
  BY EntriesDiffer
<1>2. ASSUME j = k PROVE AllocAt(lg, n, j)
  <2>1. n \in 1..n /\ \A i \in n + 1..n : lg[i] # D(j)
    OBVIOUS
  <2> QED BY <1>2, <2>1 DEF AllocAt
<1>3. ASSUME AllocAt(lg, m, j) PROVE AllocAt(lg, n, j)
  <2>1. CASE \E i \in 1..m : lg[i] = A(j) /\ \A l \in i + 1..m : lg[l] # D(j)
    <3>1. PICK i \in 1..m : lg[i] = A(j) /\ \A l \in i + 1..m : lg[l] # D(j)
      BY <2>1
    <3>2. i \in 1..n /\ \A l \in i + 1..n : lg[l] # D(j)
      BY <1>1, <3>1
    <3> QED BY <3>1, <3>2 DEF AllocAt
  <2>2. CASE j[2] \in InitBits[j[1]] /\ \A l \in 1..m : lg[l] # D(j)
    <3>1. \A l \in 1..n : lg[l] # D(j)
      BY <1>1, <2>2
    <3> QED BY <2>2, <3>1 DEF AllocAt
  <2> QED BY <1>3, <2>1, <2>2 DEF AllocAt
<1>4. ASSUME AllocAt(lg, n, j), j # k PROVE AllocAt(lg, m, j)
  <2>1. CASE \E i \in 1..n : lg[i] = A(j) /\ \A l \in i + 1..n : lg[l] # D(j)
    <3>1. PICK i \in 1..n : lg[i] = A(j) /\ \A l \in i + 1..n : lg[l] # D(j)
      BY <2>1
    <3>2. i \in 1..m /\ \A l \in i + 1..m : lg[l] # D(j)
      BY <1>1, <1>4, <3>1
    <3> QED BY <3>1, <3>2 DEF AllocAt
  <2>2. CASE j[2] \in InitBits[j[1]] /\ \A l \in 1..n : lg[l] # D(j)
    BY <2>2 DEF AllocAt
  <2> QED BY <1>4, <2>1, <2>2 DEF AllocAt
<1> QED BY <1>2, <1>3, <1>4

LEMMA AllocDisposed ==
    ASSUME NEW lg, NEW m \in Nat, NEW n \in Nat, NEW k, NEW j, n = m + 1, lg[n] = D(k)
    PROVE  AllocAt(lg, n, j) <=> j # k /\ AllocAt(lg, m, j)
<1>1. lg[n] # A(j) /\ (lg[n] = D(j) <=> j = k)
  BY EntriesDiffer
<1>2. ASSUME j = k PROVE ~AllocAt(lg, n, j)
  <2>1. ASSUME NEW i \in 1..n, lg[i] = A(j) PROVE \E l \in i + 1..n : lg[l] = D(j)
    <3>1. i # n
      BY <1>1, <2>1
    <3> QED BY <1>1, <1>2, <3>1
  <2>2. n \in 1..n /\ lg[n] = D(j)
    BY <1>1, <1>2
  <2> QED BY <2>1, <2>2 DEF AllocAt
<1>3. ASSUME AllocAt(lg, m, j), j # k PROVE AllocAt(lg, n, j)
  <2>1. CASE \E i \in 1..m : lg[i] = A(j) /\ \A l \in i + 1..m : lg[l] # D(j)
    <3>1. PICK i \in 1..m : lg[i] = A(j) /\ \A l \in i + 1..m : lg[l] # D(j)
      BY <2>1
    <3>2. i \in 1..n /\ \A l \in i + 1..n : lg[l] # D(j)
      BY <1>1, <1>3, <3>1
    <3> QED BY <3>1, <3>2 DEF AllocAt
  <2>2. CASE j[2] \in InitBits[j[1]] /\ \A l \in 1..m : lg[l] # D(j)
    <3>1. \A l \in 1..n : lg[l] # D(j)
      BY <1>1, <1>3, <2>2
    <3> QED BY <2>2, <3>1 DEF AllocAt
  <2> QED BY <1>3, <2>1, <2>2 DEF AllocAt
<1>4. ASSUME AllocAt(lg, n, j) PROVE AllocAt(lg, m, j)
  <2>1. CASE \E i \in 1..n : lg[i] = A(j) /\ \A l \in i + 1..n : lg[l] # D(j)
    <3>1. PICK i \in 1..n : lg[i] = A(j) /\ \A l \in i + 1..n : lg[l] # D(j)
      BY <2>1
    <3>2. i \in 1..m /\ \A l \in i + 1..m : lg[l] # D(j)
      BY <1>1, <3>1
    <3> QED BY <3>1, <3>2 DEF AllocAt
  <2>2. CASE j[2] \in InitBits[j[1]] /\ \A l \in 1..n : lg[l] # D(j)
    BY <2>2 DEF AllocAt
  <2> QED BY <1>4, <2>1, <2>2 DEF AllocAt
<1> QED BY <1>2, <1>3, <1>4

\* Header d becomes d2, with page number x.
Gains(d, d2, x) ==
    /\ d2.bits = d.bits \cup {x}
    /\ \/ x < d.count /\ d2.count = d.count
       \/ x = d.count /\ d2.count = d.count + 1
Loses(d, d2, x) == d2.bits = d.bits \ {x} /\ d2.count = d.count

LEMMA HeaderGains ==
    ASSUME NEW lg, NEW m \in Nat, NEW n \in Nat, NEW b, NEW d, NEW d2, NEW k \in Pages,
           HeaderAt(d, lg, m, b), n = m + 1, lg[n] = A(k), k[1] = b, d.count \in Nat, InitCount[b] \in Nat,
           Gains(d, d2, k[2])
    PROVE  HeaderAt(d2, lg, n, b)
<1>0. k[2] \in Nat /\ k[2] < d2.count /\ d.count <= d2.count /\ d2.count \in Nat
  BY DEF Gains, Pages
<1>1. BitsAt(d2, lg, n, b)
  <2>1. ASSUME NEW j \in Pages, j[1] = b PROVE j[2] \in d2.bits <=> AllocAt(lg, n, j)
    <3>1. AllocAt(lg, n, j) <=> j = k \/ AllocAt(lg, m, j)
      BY AllocAllocated
    <3>2. j = k <=> j[2] = k[2]
      BY <2>1, PageIs
    <3>3. j[2] \in d.bits <=> AllocAt(lg, m, j)
      BY <2>1 DEF HeaderAt, BitsAt
    <3> QED BY <3>1, <3>2, <3>3 DEF Gains
  <2> QED BY <2>1 DEF BitsAt
<1>2. Below(lg, n, b, d2.count)
  <2>1. ASSUME NEW i \in 1..n, NEW j \in Pages, j[1] = b, lg[i] = A(j) PROVE j[2] < d2.count
    <3>1. CASE i = n
      <4>1. j = k
        BY <2>1, <3>1, EntriesDiffer
      <4> QED BY <1>0, <4>1
    <3>2. CASE i # n
      <4>1. i \in 1..m
        BY <3>2
      <4>2. j[2] < d.count /\ j[2] \in Nat
        BY <2>1, <4>1 DEF HeaderAt, Below, Pages
      <4> QED BY <1>0, <4>2
    <3> QED BY <3>1, <3>2
  <2>2. d2.count >= InitCount[b]
    BY <1>0 DEF HeaderAt, Below
  <2> QED BY <2>1, <2>2 DEF Below
<1>3. Reached(lg, n, b, d2.count)
  <2>1. CASE d2.count = d.count + 1 /\ k[2] = d.count
    <3>1. n \in 1..n /\ d2.count <= k[2] + 1
      BY <1>0, <2>1
    <3> QED BY <3>1 DEF Reached
  <2>2. CASE d2.count = d.count
    <3>1. CASE \E i \in 1..m, j \in Pages : j[1] = b /\ lg[i] = A(j) /\ d.count <= j[2] + 1
      <4>1. PICK i \in 1..m, j \in Pages : j[1] = b /\ lg[i] = A(j) /\ d.count <= j[2] + 1
        BY <3>1
      <4>2. i \in 1..n
        OBVIOUS
      <4> QED BY <2>2, <4>1, <4>2 DEF Reached
    <3> QED BY <2>2, <3>1 DEF HeaderAt, Reached
  <2> QED BY <2>1, <2>2 DEF Gains
<1> QED BY <1>1, <1>2, <1>3 DEF HeaderAt

LEMMA HeaderLoses ==
    ASSUME NEW lg, NEW m \in Nat, NEW n \in Nat, NEW b, NEW d, NEW d2, NEW k \in Pages,
           HeaderAt(d, lg, m, b), n = m + 1, lg[n] = D(k), k[1] = b, Loses(d, d2, k[2])
    PROVE  HeaderAt(d2, lg, n, b)
<1>1. BitsAt(d2, lg, n, b)
  <2>1. ASSUME NEW j \in Pages, j[1] = b PROVE j[2] \in d2.bits <=> AllocAt(lg, n, j)
    <3>1. AllocAt(lg, n, j) <=> j # k /\ AllocAt(lg, m, j)
      BY AllocDisposed
    <3>2. j = k <=> j[2] = k[2]
      BY <2>1, PageIs
    <3>3. j[2] \in d.bits <=> AllocAt(lg, m, j)
      BY <2>1 DEF HeaderAt, BitsAt
    <3> QED BY <3>1, <3>2, <3>3 DEF Loses
  <2> QED BY <2>1 DEF BitsAt
<1>2. Below(lg, n, b, d.count)
  <2>1. ASSUME NEW i \in 1..n, NEW j \in Pages, j[1] = b, lg[i] = A(j) PROVE j[2] < d.count
    <3>1. i # n
      BY <2>1, EntriesDiffer
    <3>2. i \in 1..m
      BY <3>1
    <3> QED BY <2>1, <3>2 DEF HeaderAt, Below
  <2> QED BY <2>1 DEF HeaderAt, Below
<1>3. Reached(lg, n, b, d.count)
  <2>1. CASE \E i \in 1..m, j \in Pages : j[1] = b /\ lg[i] = A(j) /\ d.count <= j[2] + 1
    <3>1. PICK i \in 1..m, j \in Pages : j[1] = b /\ lg[i] = A(j) /\ d.count <= j[2] + 1
      BY <2>1
    <3>2. i \in 1..n
      OBVIOUS
    <3> QED BY <3>1, <3>2 DEF Reached
  <2> QED BY <2>1 DEF HeaderAt, Reached
<1> QED BY <1>1, <1>2, <1>3 DEF HeaderAt, Loses

\* The log gets longer, or stays: what its entries say of headers stays.
Longer(lg, lg2) == Len(lg) \in Nat /\ Len(lg2) \in Nat /\ Len(lg) <= Len(lg2) /\ Agree(lg, lg2, Len(lg))
LEMMA SaysKept ==
    ASSUME NEW lg, NEW lg2, NEW m \in Nat, NEW b, NEW d, d.lsn \in Nat, Longer(lg, lg2), Says(d, lg, m, b)
    PROVE  Says(d, lg2, m, b)
<1>1. m \in d.lsn..Len(lg2) /\ m <= Len(lg)
  BY DEF Says, Longer
<1>2. HeaderAt(d, lg2, m, b)
  <2>1. PICK n \in Int : n = Len(lg)
    BY DEF Longer
  <2>2. Agree(lg, lg2, n) /\ m <= n
    BY <1>1, <2>1 DEF Longer
  <2> QED BY <2>2, HeaderAgrees DEF Says
<1>3. NoDispose(lg2, d.lsn, m, b)
  BY <1>1 DEF NoDispose, Says, Longer, Agree
<1> QED BY <1>1, <1>2, <1>3 DEF Says

LEMMA HeaderKept ==
    ASSUME NEW lg, NEW lg2, NEW b, NEW d, Longer(lg, lg2), NoneOf(lg2, Len(lg), Len(lg2), b), HeaderAt(d, lg, Len(lg), b)
    PROVE  HeaderAt(d, lg2, Len(lg2), b)
<1>1. PICK m \in Nat, n \in Nat : m = Len(lg) /\ n = Len(lg2)
  BY DEF Longer
<1>2. Agree(lg, lg2, m) /\ m <= m /\ m <= n /\ NoneOf(lg2, m, n, b) /\ HeaderAt(d, lg, m, b)
  BY <1>1 DEF Longer
<1>3. HeaderAt(d, lg2, m, b)
  BY <1>2, HeaderAgrees
<1>4. HeaderAt(d, lg2, n, b)
  BY <1>2, <1>3, HeaderLater
<1> QED BY <1>1, <1>4

LEMMA PendingKept ==
    ASSUME NEW lg, NEW lg2, NEW b, NEW d, Longer(lg, lg2), NoneOf(lg2, Len(lg), Len(lg2), b), Pending(d, lg, b)
    PROVE  Pending(d, lg2, b)
<1>1. PICK l \in Nat, m \in Int, n \in Int : l = d.lsn /\ m = l - 1 /\ n = Len(lg) /\ l \in 1..n
  BY DEF Pending, Longer
<1>2. d.lsn \in 1..Len(lg2) /\ lg2[d.lsn] = lg[d.lsn]
  BY <1>1 DEF Longer, Agree
<1>3. HeaderAt(d, lg2, d.lsn - 1, b)
  <2>1. Agree(lg, lg2, n) /\ m <= n /\ HeaderAt(d, lg, m, b)
    BY <1>1 DEF Longer, Pending
  <2>2. HeaderAt(d, lg2, m, b)
    BY <2>1, HeaderAgrees
  <2> QED BY <1>1, <2>2
<1>4. ASSUME NEW i \in d.lsn + 1..Len(lg2) PROVE ~OfFile(lg2, i, b)
  <2>1. CASE i <= Len(lg)
    <3>1. i \in d.lsn + 1..Len(lg) /\ lg2[i] = lg[i]
      BY <1>1, <2>1 DEF Longer, Agree
    <3>2. ~OfFile(lg, i, b)
      BY <3>1 DEF Pending
    <3> QED BY <3>1, <3>2 DEF OfFile
  <2>2. CASE ~(i <= Len(lg))
    <3>1. i \in Len(lg) + 1..Len(lg2)
      BY <1>1, <2>2 DEF Longer
    <3> QED BY <3>1 DEF NoneOf
  <2> QED BY <2>1, <2>2
<1> QED BY <1>2, <1>3, <1>4 DEF Pending

-----------------------------------------------------------------------------
(***************************************************************************)
(* A step that leaves a header alone.                                      *)
(***************************************************************************)
LEMMA HdrFacts ==
    ASSUME NEW op \in SUBSET Pools, NEW f, NEW b \in Pools, MemOK(f, op)
    PROVE  /\ HeaderOK(f.store[<<b, Header>>]) /\ f.store[<<b, Header>>].lsn \in Nat
           /\ b \in op => /\ HeaderOK(HdrOf(f, b)) /\ HdrOf(f, b).lsn \in Nat /\ HdrOf(f, b).count \in 1..MaxPageNum
                          /\ HdrOf(f, b).count \in Nat /\ <<b, Header>> \in DOMAIN f.frame
<1>1. HeaderOK(f.store[<<b, Header>>])
  BY DEF MemOK, StoreOK
<1>2. b \in op => HeaderOK(HdrOf(f, b)) /\ <<b, Header>> \in DOMAIN f.frame
  BY DEF MemOK, FramesOK, HdrOf
<1>3. \A d : HeaderOK(d) => d.lsn \in Nat /\ d.count \in 1..MaxPageNum /\ d.count \in Nat
  BY BufferPoolAssumption DEF HeaderOK, FileHdr
<1> QED BY <1>1, <1>2, <1>3

LogMore(lg, lg2, b) == Longer(lg, lg2) /\ NoneOf(lg2, Len(lg), Len(lg2), b)
LEMMA StoreHdrKept ==
    ASSUME NEW op \in SUBSET Pools, NEW f, NEW g, NEW lg, NEW lg2, NEW b \in Pools,
           MemOK(f, op), StoreHdrOK(f, lg, b), g.store[<<b, Header>>] = f.store[<<b, Header>>],
           DurableUp(f, g, Len(lg2)), Longer(lg, lg2)
    PROVE  StoreHdrOK(g, lg2, b)
<1>1. PICK d : d = f.store[<<b, Header>>]
  OBVIOUS
<1>2. PICK m \in Nat : m \in 0..f.durable /\ Says(d, lg, m, b)
  BY <1>1 DEF StoreHdrOK
<1>3. d.lsn \in Nat
  BY <1>1, HdrFacts
<1>4. Says(d, lg2, m, b)
  BY <1>2, <1>3, SaysKept
<1>5. m \in 0..g.durable
  BY <1>2 DEF DurableUp
<1> QED BY <1>1, <1>4, <1>5 DEF StoreHdrOK

LEMMA HdrStep ==
    ASSUME NEW op \in SUBSET Pools, NEW op2, NEW f, NEW g, NEW h, NEW h2, NEW lg, NEW lg2, NEW md, NEW rd, NEW b \in Pools,
           MemOK(f, op), HdrOK(f, h, lg, md, rd, op, b), Same(f, g, <<b, Header>>), DurableUp(f, g, Len(lg2)),
           LogMore(lg, lg2, b), md # "redo" \/ (lg2 = lg /\ b \in op), b \in op2 <=> b \in op,
           Extender(h2, b) <=> Extender(h, b)
    PROVE  HdrOK(g, h2, lg2, md, rd, op2, b)
<1>1. PICK s, d : s = f.store[<<b, Header>>] /\ d = HdrOf(f, b)
  OBVIOUS
<1>2. s.lsn \in Nat /\ g.store[<<b, Header>>] = s /\ Longer(lg, lg2) /\ NoneOf(lg2, Len(lg), Len(lg2), b)
  BY <1>1, HdrFacts DEF Same, LogMore
<1>3. b \in op => d.lsn \in Nat /\ HdrOf(g, b) = d /\ (Clean(f, b) => Clean(g, b))
  <2> SUFFICES ASSUME b \in op PROVE d.lsn \in Nat /\ HdrOf(g, b) = d /\ (Clean(f, b) => Clean(g, b))
    OBVIOUS
  <2>1. d.lsn \in Nat /\ <<b, Header>> \in DOMAIN f.frame
    BY <1>1, HdrFacts
  <2>2. HdrOf(g, b) = d /\ g.frame[<<b, Header>>].dirty = f.frame[<<b, Header>>].dirty
    BY <1>1, <2>1 DEF Same, HdrOf
  <2>3. Clean(f, b) => Clean(g, b)
    BY <1>1, <1>2, <2>2 DEF Clean, IsDirty
  <2> QED BY <2>1, <2>2, <2>3
<1>4. StoreHdrOK(g, lg2, b)
  BY <1>1, <1>2, StoreHdrKept DEF HdrOK
<1>5. ASSUME md = "run", b \in op, Extender(h, b) PROVE Pending(HdrOf(g, b), lg2, b)
  <2>1. Pending(d, lg, b)
    BY <1>1, <1>5 DEF HdrOK
  <2> QED BY <1>2, <1>3, <1>5, <2>1, PendingKept
<1>6. ASSUME md = "run", b \in op, ~Extender(h, b) PROVE RestHdrOK(g, lg2, b)
  <2>1. HeaderAt(d, lg, Len(lg), b) /\ Clean(f, b) /\ \E m \in 0..Len(lg) : SoFar(f, d, m) /\ Says(d, lg, m, b)
    BY <1>1, <1>6 DEF HdrOK, RestHdrOK
  <2>2. HeaderAt(d, lg2, Len(lg2), b)
    BY <1>2, <2>1, HeaderKept
  <2>3. PICK m \in Nat : m \in 0..Len(lg) /\ SoFar(f, d, m) /\ Says(d, lg, m, b)
    BY <2>1
  <2>4. Says(d, lg2, m, b) /\ m \in 0..Len(lg2)
    <3>1. Says(d, lg2, m, b)
      BY <1>2, <1>3, <1>6, <2>3, SaysKept
    <3> QED BY <1>2, <2>3, <3>1 DEF Longer
  <2>5. SoFar(g, d, m)
    BY <2>3 DEF SoFar, DurableUp
  <2> QED BY <1>3, <1>6, <2>1, <2>2, <2>4, <2>5 DEF RestHdrOK
<1>7. ASSUME md = "run", b \notin op PROVE ClosedHdrOK(g, lg2, b)
  <2>1. HeaderAt(s, lg, Len(lg), b)
    BY <1>1, <1>7 DEF HdrOK, ClosedHdrOK
  <2>2. HeaderAt(s, lg2, Len(lg2), b)
    BY <1>2, <2>1, HeaderKept
  <2> QED BY <1>2, <2>2 DEF ClosedHdrOK
<1>8. ASSUME md = "redo" PROVE RedoHdrOK(g, lg2, rd, b)
  <2>1. RedoHdrOK(f, lg, rd, b) /\ lg2 = lg /\ b \in op
    BY <1>8 DEF HdrOK
  <2> QED BY <1>1, <1>3, <2>1 DEF RedoHdrOK
<1> QED BY <1>4, <1>5, <1>6, <1>7, <1>8 DEF HdrOK

LEMMA HdrNow ==
    ASSUME IInv, PageInv, HdrInv
    PROVE  /\ StateOK(Memory, th, open, lock) /\ open \in SUBSET Pools /\ th \in [Threads -> ThreadRec]
           /\ IsMem(Memory) /\ MemOK(Memory, open) /\ log \in Seq(Entry) /\ redo \in Nat \ {0} /\ Len(log) \in Nat
           /\ DataOK(Memory, th, log, written, mode, redo, open) /\ Memory.durable \in 0..Len(log) /\ LogOK(log)
           /\ \A b \in Pools : HdrOK(Memory, th, log, mode, redo, open, b)
  BY DataNow DEF HdrInv

\* Headers alone, and which file is being extended.
HeadersSame(f, g)    == \A b \in Pools : Same(f, g, <<b, Header>>)
ExtendersSame(h, h2) == \A b \in Pools : Extender(h2, b) <=> Extender(h, b)
LEMMA ThreadExtends ==
    ASSUME NEW h \in [Threads -> ThreadRec], NEW h2, NEW t \in Threads, NEW r, NEW b,
           Becomes(h, h2, t, r), Extends(r, b) <=> Extends(h[t], b)
    PROVE  Extender(h2, b) <=> Extender(h, b)
<1>1. h2[t] = r /\ \A u \in Threads : u # t => h2[u] = h[u]
  BY DEF Becomes
<1> QED BY <1>1 DEF Extender

LEMMA PageHeaders ==
    ASSUME NEW f, NEW g, NEW S, OthersSame(f, g, S), S \subseteq Pages
    PROVE  HeadersSame(f, g)
<1>1. ASSUME NEW b \in Pools PROVE Same(f, g, <<b, Header>>)
  <2>1. <<b, Header>> \in Keys /\ <<b, Header>> \notin Pages
    BY BufferPoolAssumption DEF Keys, Pages, Header
  <2> QED BY <2>1 DEF OthersSame
<1> QED BY <1>1 DEF HeadersSame

LEMMA EntryAgrees ==
    ASSUME NEW lg, NEW lg2, NEW n \in Int, NEW i \in Int, Agree(lg, lg2, n), 1 <= i, i <= n, EntryOK(lg, i)
    PROVE  EntryOK(lg2, i)
<1>1. PICK m \in Int : m = i - 1 /\ m <= n
  OBVIOUS
<1>2. lg2[i] = lg[i]
  BY DEF Agree
<1>3. ASSUME NEW k \in Pages, lg2[i] = A(k) PROVE ~AllocAt(lg2, m, k) /\ Reached(lg2, m, k[1], k[2])
  <2>1. ~AllocAt(lg, m, k) /\ Reached(lg, m, k[1], k[2])
    BY <1>1, <1>2, <1>3 DEF EntryOK
  <2>2. ~AllocAt(lg2, m, k)
    BY <1>1, <2>1, AllocAgrees
  <2> QED BY <1>1, <2>1, <2>2 DEF Reached, Agree
<1>4. ASSUME NEW k \in Pages, lg2[i] = D(k) PROVE AllocAt(lg2, m, k)
  <2>1. AllocAt(lg, m, k)
    BY <1>1, <1>2, <1>4 DEF EntryOK
  <2> QED BY <1>1, <2>1, AllocAgrees
<1> QED BY <1>1, <1>3, <1>4 DEF EntryOK

LEMMA LogOKGrows ==
    ASSUME NEW lg, NEW lg2, LogOK(lg), Longer(lg, lg2), Len(lg2) <= Len(lg) + 1,
           Len(lg2) # Len(lg) => EntryOK(lg2, Len(lg2))
    PROVE  LogOK(lg2)
<1>1. PICK n \in Int : n = Len(lg) /\ Agree(lg, lg2, n)
  BY DEF Longer
<1>2. ASSUME NEW i \in 1..Len(lg2) PROVE EntryOK(lg2, i)
  <2>1. CASE i <= n
    <3>1. EntryOK(lg, i)
      BY <1>1, <2>1 DEF LogOK
    <3> QED BY <1>1, <2>1, <3>1, EntryAgrees
  <2>2. CASE ~(i <= n)
    <3>1. i = Len(lg2) /\ Len(lg2) # Len(lg)
      BY <1>1, <2>2 DEF Longer
    <3> QED BY <3>1
  <2> QED BY <2>1, <2>2
<1> QED BY <1>2 DEF LogOK

\* A step of the run that leaves all headers alone.
LEMMA HeadersRest ==
    ASSUME IInv, PageInv, HdrInv, mode = "run", NEW f, NEW g, NEW h2, NEW lg2, f = Memory, g = Memory', h2 = th',
           lg2 = log', HeadersSame(f, g), ExtendersSame(th, h2), DurableUp(f, g, Len(lg2)),
           \A b \in Pools : LogMore(log, lg2, b), LogOK(lg2), UNCHANGED <<open, mode, redo>>
    PROVE  HdrInv'
<1>1. open \in SUBSET Pools /\ MemOK(f, open) /\ \A b \in Pools : HdrOK(f, th, log, mode, redo, open, b)
  BY HdrNow
<1>2. ASSUME NEW b \in Pools PROVE HdrOK(g, h2, lg2, mode, redo, open, b)
  <2>1. /\ HdrOK(f, th, log, mode, redo, open, b) /\ Same(f, g, <<b, Header>>) /\ LogMore(log, lg2, b)
        /\ Extender(h2, b) <=> Extender(th, b)
    BY <1>1 DEF HeadersSame, ExtendersSame
  <2>2. mode # "redo"
    OBVIOUS
  <2> QED BY <1>1, <2>1, <2>2, HdrStep
<1> QED BY <1>2 DEF HdrInv

LEMMA LogStays ==
    ASSUME NEW lg \in Seq(Entry), NEW b
    PROVE  LogMore(lg, lg, b) /\ Longer(lg, lg)
  BY DEF LogMore, Longer, NoneOf, Agree

\* Which does not log either.
LEMMA HeadersStay ==
    ASSUME IInv, PageInv, HdrInv, mode = "run", NEW f, NEW g, NEW h2, f = Memory, g = Memory', h2 = th',
           HeadersSame(f, g), ExtendersSame(th, h2), DurableUp(f, g, Len(log)), UNCHANGED <<log, open, mode, redo>>
    PROVE  HdrInv'
<1>1. PICK lg2 : lg2 = log /\ lg2 = log'
  OBVIOUS
<1>2. \A b \in Pools : LogMore(log, lg2, b)
  BY <1>1, HdrNow, LogStays
<1>3. LogOK(lg2) /\ DurableUp(f, g, Len(lg2))
  BY <1>1, HdrNow
<1> QED BY <1>1, <1>2, <1>3, HeadersRest

-----------------------------------------------------------------------------
(***************************************************************************)
(* The actions on pages.                                                   *)
(***************************************************************************)
LEMMA PinsHeaders ==
    ASSUME IInv, PageInv, NEW f, NEW g, f = Memory, OnlyPins(f, g)
    PROVE  HeadersSame(f, g) /\ DurableUp(f, g, Len(log))
<1>1. PICK S : S = {}
  OBVIOUS
<1>2. OthersSame(f, g, S) /\ S \subseteq Pages
  BY <1>1 DEF OnlyPins
<1>3. f.durable \in 0..Len(log) /\ Len(log) \in Nat
  BY DataNow
<1> QED BY <1>2, <1>3, PageHeaders DEF OnlyPins, DurableUp

LEMMA FindHdr ==
    ASSUME IInv, PageInv, HdrInv, mode = "run", NEW t \in Threads, NEW k \in Pages, th[t].pc \in {"idle", "get"}, Find(t, k)
    PROVE  HdrInv'
<1>1. /\ open \in SUBSET Pools /\ th \in [Threads -> ThreadRec] /\ IsMem(Memory) /\ MemOK(Memory, open)
      /\ log \in Seq(Entry)
  BY DataNow
<1>2. UNCHANGED <<open, log, mode, redo>>
  BY DEF Find
<1>3. PICK f, h2 : f = Memory /\ h2 = th'
  OBVIOUS
<1>4. \E r : Becomes(th, h2, t, r) /\ ~Making(r)
  <2>1. Becomes(th, h2, t, State("hold", k)) \/ Becomes(th, h2, t, State("lock", k))
    BY <1>3, TakeIs DEF Find
  <2>2. ~Making(State("hold", k)) /\ ~Making(State("lock", k))
    BY DEF State, Making
  <2> QED BY <2>1, <2>2
<1>5. ExtendersSame(th, h2)
  <2>1. PICK r : Becomes(th, h2, t, r) /\ ~Making(r)
    BY <1>4
  <2>2. \A b : ~Extends(r, b) /\ ~Extends(th[t], b)
    BY <2>1 DEF Extends, Making
  <2> QED BY <1>1, <2>1, <2>2, ThreadExtends DEF ExtendersSame
<1>6. CASE k \in Resident /\ SetMemory(Pin(Memory, k))
  <2>1. PICK g : g = Pin(f, k)
    OBVIOUS
  <2>2. k \in DOMAIN f.frame /\ IsMem(f) /\ MemOK(f, open)
    BY <1>1, <1>3, <1>6, MemoryIs DEF Resident
  <2>3. OnlyPins(f, g)
    BY <1>1, <2>1, <2>2, PinEffect
  <2>4. HeadersSame(f, g) /\ DurableUp(f, g, Len(log))
    BY <1>3, <2>3, PinsHeaders
  <2>5. Memory' = g
    BY <1>1, <1>3, <1>6, <2>1, PinIs, SetMemoryIs
  <2> QED BY <1>2, <1>3, <1>5, <2>4, <2>5, HeadersStay
<1>7. CASE UNCHANGED <<memory, store, durable, lost>>
  <2>1. OnlyPins(f, f)
    BY DEF OnlyPins, OthersSame, Same
  <2>2. HeadersSame(f, f) /\ DurableUp(f, f, Len(log))
    BY <1>3, <2>1, PinsHeaders
  <2>3. Memory' = f
    BY <1>3, <1>7, MemoryKept
  <2> QED BY <1>2, <1>3, <1>5, <2>2, <2>3, HeadersStay
<1> QED BY <1>6, <1>7 DEF Find

LEMMA GetHdr ==
    ASSUME IInv, PageInv, HdrInv, NEW t \in Threads, NEW k \in Keys, Get(t, k)
    PROVE  HdrInv'
<1>1. mode = "run" /\ th[t].pc = "idle" /\ k \in Pages /\ Find(t, k)
  BY KeyIs DEF Get, At
<1> QED BY <1>1, FindHdr

LEMMA LookupHdr ==
    ASSUME IInv, PageInv, HdrInv, NEW t \in Threads, Lookup(t)
    PROVE  HdrInv'
<1>1. mode = "run" /\ th[t].pc = "get" /\ Find(t, th[t].key)
  BY DEF Lookup, At
<1>2. th[t].key \in Pages
  BY <1>1, StateNow DEF StateOK, ThreadOK
<1> QED BY <1>1, <1>2, FindHdr

LEMMA AllocateFrameHdr ==
    ASSUME IInv, PageInv, HdrInv, NEW t \in Threads, AllocateFrame(t)
    PROVE  HdrInv'
<1>1. /\ open \in SUBSET Pools /\ th \in [Threads -> ThreadRec] /\ IsMem(Memory) /\ MemOK(Memory, open)
      /\ StateOK(Memory, th, open, lock) /\ log \in Seq(Entry) /\ Len(log) \in Nat
      /\ DataOK(Memory, th, log, written, mode, redo, open)
  BY DataNow
<1>2. PICK k : k = th[t].key
  OBVIOUS
<1>3. /\ th[t].pc \in {"lock", "alloc", "extending"} /\ mode = "run" /\ UNCHANGED <<open, log, mode, redo>>
  BY <1>2 DEF AllocateFrame, At
<1>4. k \in Pages
  <2>1. ThreadOK(th[t], t, Memory, open, lock)
    BY <1>1 DEF StateOK
  <2> QED BY <1>2, <1>3, <2>1 DEF ThreadOK
<1>5. PICK f, h2 : f = Memory /\ h2 = th'
  OBVIOUS
<1>6. PICK p \in {"load", "extend"}, q \in {"extending", "alloc"} :
         /\ p = (IF th[t].pc = "extending" THEN "extend" ELSE "load")
         /\ q = (IF th[t].pc = "extending" THEN "extending" ELSE "alloc")
  OBVIOUS
<1>7. StateOK(f, th, open, lock) /\ IsMem(f) /\ MemOK(f, open) /\ DataOK(f, th, log, written, mode, redo, open)
  BY <1>1, <1>5
<1>8. f.durable \in 0..Len(log)
  BY <1>7 DEF DataOK
<1>9. ASSUME NEW c, Go(t, c), c = p \/ c = q PROVE ExtendersSame(th, h2)
  <2>1. Becomes(th, h2, t, State(c, k))
    BY <1>1, <1>2, <1>5, <1>6, <1>9, GoIs
  <2>2. Making(State(c, k)) <=> Making(th[t])
    BY <1>3, <1>6, <1>9 DEF State, Making
  <2>3. State(c, k).key = th[t].key
    BY <1>2 DEF State
  <2>4. \A b : Extends(State(c, k), b) <=> Extends(th[t], b)
    BY <2>2, <2>3 DEF Extends
  <2> QED BY <1>1, <2>1, <2>4, ThreadExtends DEF ExtendersSame
<1>10. ASSUME NEW g, HeadersSame(f, g), DurableUp(f, g, Len(log)), Memory' = g, ExtendersSame(th, h2)
       PROVE  HdrInv'
  BY <1>3, <1>5, <1>10, HeadersStay
<1>15. CASE k \in Resident /\ SetMemory(Pin(Memory, k)) /\ Go(t, p)
  <2>1. PICK g : g = Pin(f, k)
    OBVIOUS
  <2>2. k \in DOMAIN f.frame
    BY <1>5, <1>15, MemoryIs DEF Resident
  <2>3. OnlyPins(f, g)
    BY <1>1, <1>7, <2>1, <2>2, PinEffect
  <2>4. HeadersSame(f, g) /\ DurableUp(f, g, Len(log))
    BY <1>5, <2>3, PinsHeaders
  <2>5. Memory' = g
    BY <1>5, <1>7, <1>15, <2>1, PinIs, SetMemoryIs
  <2> QED BY <1>9, <1>10, <1>15, <2>4, <2>5
<1>16. CASE k \notin Resident /\ SetMemory(Alloc(Memory, k)) /\ Go(t, p)
  <2>1. PICK g, S : g = Alloc(f, k) /\ S = {k}
    OBVIOUS
  <2>2. k \notin DOMAIN f.frame
    BY <1>5, <1>16, MemoryIs DEF Resident
  <2>3. OthersSame(f, g, S) /\ g.durable = f.durable
    BY <1>7, <2>1, <2>2, AllocEffect
  <2>4. HeadersSame(f, g)
    BY <1>4, <2>1, <2>3, PageHeaders
  <2>5. DurableUp(f, g, Len(log))
    BY <1>1, <1>8, <2>3 DEF DurableUp
  <2>6. Memory' = g
    BY <1>5, <1>7, <1>16, <2>1, AllocIs, SetMemoryIs
  <2> QED BY <1>9, <1>10, <1>16, <2>4, <2>5, <2>6
<1>17. CASE \E v \in Victims(Memory) : SetMemory(Purge(Memory, k[1], v)) /\ Go(t, q)
  <2>1. PICK v \in DOMAIN f.frame : SetMemory(Purge(Memory, k[1], v)) /\ f.frame[v].pin = 0
    BY <1>5, <1>17 DEF Victims, CanPurge
  <2>2. PICK g, b, S : g = Purge(f, b, v) /\ b = k[1] /\ S = {v}
    OBVIOUS
  <2>3. v \in Pages /\ OthersSame(f, g, S) /\ DurableUp(f, g, Len(log))
    <3>1. /\ v \in Pages /\ OthersSame(f, g, {v}) /\ (Out(f, g, v) \/ WrittenOut(f, g, v)) /\ ~Loader(th, v)
          /\ DurableUp(f, g, Len(log))
      BY <1>1, <1>7, <2>1, <2>2, VictimEffect
    <3> QED BY <2>2, <3>1
  <2>4. HeadersSame(f, g)
    BY <2>2, <2>3, PageHeaders
  <2>5. IsMem(g)
    <3>1. v[2] # Header
      BY <2>3 DEF Pages, Header
    <3>2. MemOK(g, open) /\ Freed(f, g, v)
      BY <1>1, <1>7, <2>1, <2>2, <3>1, PurgeOK
    <3> QED BY <3>2 DEF Freed
  <2>6. Memory' = g
    BY <1>5, <2>1, <2>2, <2>5, SetMemoryIs
  <2> QED BY <1>9, <1>10, <1>17, <2>3, <2>4, <2>6
<1> QED BY <1>2, <1>6, <1>15, <1>16, <1>17 DEF AllocateFrame

LEMMA LoadHdr ==
    ASSUME IInv, PageInv, HdrInv, NEW t \in Threads, Load(t)
    PROVE  HdrInv'
<1>1. /\ open \in SUBSET Pools /\ th \in [Threads -> ThreadRec] /\ IsMem(Memory) /\ MemOK(Memory, open)
      /\ StateOK(Memory, th, open, lock) /\ log \in Seq(Entry) /\ Len(log) \in Nat
      /\ DataOK(Memory, th, log, written, mode, redo, open)
  BY DataNow
<1>2. PICK k, f, h2, S : k = th[t].key /\ f = Memory /\ h2 = th' /\ S = {k}
  OBVIOUS
<1>3. th[t].pc = "load" /\ mode = "run" /\ UNCHANGED <<open, log, mode, redo>>
  BY <1>2 DEF Load, At
<1>4. k \in Pages /\ k \in DOMAIN f.frame /\ k[2] # Header
  <2>1. ThreadOK(th[t], t, f, open, lock)
    BY <1>1, <1>2 DEF StateOK
  <2> QED BY <1>2, <1>3, <2>1 DEF ThreadOK, Pages, Header
<1>5. IsMem(f) /\ MemOK(f, open) /\ DataOK(f, th, log, written, mode, redo, open)
  BY <1>1, <1>2
<1>6. f.durable \in Nat /\ f.durable <= Len(log) /\ PageLsn(f, k) \in 0..Len(log)
  <2>1. PageLsn(f, k) \in 0..Len(log)
    BY <1>1, <1>4, <1>5, LsnIs
  <2>2. f.durable \in 0..Len(log)
    BY <1>5 DEF DataOK
  <2> QED BY <1>1, <2>1, <2>2
<1>7. ExtendersSame(th, h2)
  <2>1. PICK r : Becomes(th, h2, t, r) /\ ~Making(r)
    <3>1. Becomes(th, h2, t, Idle) \/ Becomes(th, h2, t, State("hold", k))
      BY <1>1, <1>2, GoIs DEF Load
    <3>2. ~Making(Idle) /\ ~Making(State("hold", k))
      BY IdleType DEF State, Making
    <3> QED BY <3>1, <3>2
  <2>2. \A b : ~Extends(r, b) /\ ~Extends(th[t], b)
    BY <1>3, <2>1 DEF Extends, Making
  <2> QED BY <1>1, <2>1, <2>2, ThreadExtends DEF ExtendersSame
<1>8. CASE store[k] # Absent /\ SetMemory(LoadPage(Memory, k)) /\ Go(t, "hold")
  <2>1. PICK g : g = LoadPage(f, k)
    OBVIOUS
  <2>2. OthersSame(f, g, {k}) /\ g.durable = f.durable
    BY <1>1, <1>4, <1>5, <2>1, LoadEffect
  <2>3. HeadersSame(f, g)
    BY <1>2, <1>4, <2>2, PageHeaders
  <2>4. DurableUp(f, g, Len(log))
    BY <1>1, <1>6, <2>2 DEF DurableUp
  <2>5. Memory' = g
    BY <1>2, <1>5, <1>8, <2>1, LoadIs, SetMemoryIs
  <2> QED BY <1>2, <1>3, <1>7, <2>3, <2>4, <2>5, HeadersStay
<1>9. CASE SetMemory(PurgeFrame(Memory, k))
  <2>1. PICK g : g = PurgeFrame(f, k)
    OBVIOUS
  <2>2. OthersSame(f, g, S) /\ DurableUp(f, g, Len(log)) /\ IsMem(g)
    <3>1. CASE f.frame[k].pin # 1
      <4>1. g = f
        BY <2>1, <3>1 DEF PurgeFrame
      <4> QED BY <1>1, <1>5, <1>6, <4>1 DEF OthersSame, Same, DurableUp
    <3>2. CASE f.frame[k].pin = 1 /\ f.frame[k].dirty
      <4>1. g = FreeFrame(FlushInternal(f, k), k)
        BY <2>1, <3>2 DEF PurgeFrame
      <4>2. f.durable \in Int /\ PageLsn(f, k) \in Int
        BY <1>6
      <4>3. /\ OthersSame(f, g, {k}) /\ WrittenOut(f, g, k)
            /\ g.durable \in Int /\ f.durable <= g.durable /\ WroteLsn(f, g, k)
        BY <1>1, <1>4, <1>5, <4>1, <4>2, FlushFreeEffect
      <4>4. IsMem(g)
        BY <1>5, <4>1, FlushIs, FreeIs
      <4>5. DurableUp(f, g, Len(log))
        BY <1>6, <4>3 DEF WroteLsn, DurableUp
      <4> QED BY <1>2, <4>3, <4>4, <4>5
    <3>3. CASE f.frame[k].pin = 1 /\ ~f.frame[k].dirty
      <4>1. g = FreeFrame(f, k)
        BY <2>1, <3>3 DEF PurgeFrame
      <4>2. /\ FreedOnly(f, g, k) /\ g.store = f.store /\ g.lost = f.lost /\ g.durable = f.durable
            /\ OthersSame(f, g, {k})
        BY <1>5, <4>1, FreeEffect
      <4>3. IsMem(g)
        BY <1>5, <4>1, FreeIs
      <4> QED BY <1>1, <1>2, <1>6, <4>2, <4>3 DEF DurableUp
    <3> QED BY <3>1, <3>2, <3>3
  <2>3. HeadersSame(f, g)
    BY <1>2, <1>4, <2>2, PageHeaders
  <2>4. Memory' = g
    BY <1>2, <1>9, <2>1, <2>2, SetMemoryIs
  <2> QED BY <1>2, <1>3, <1>7, <2>2, <2>3, <2>4, HeadersStay
<1> QED BY <1>2, <1>8, <1>9 DEF Load

LEMMA UnpinPageHdr ==
    ASSUME IInv, PageInv, HdrInv, NEW t \in Threads, UnpinPage(t)
    PROVE  HdrInv'
<1>1. /\ open \in SUBSET Pools /\ th \in [Threads -> ThreadRec] /\ IsMem(Memory) /\ MemOK(Memory, open)
      /\ StateOK(Memory, th, open, lock)
  BY DataNow
<1>2. PICK k, f, h2 : k = th[t].key /\ f = Memory /\ h2 = th'
  OBVIOUS
<1>3. /\ th[t].pc = "hold" /\ mode = "run" /\ SetMemory(Unpin(Memory, k)) /\ Go(t, "idle")
      /\ UNCHANGED <<open, log, mode, redo>>
  BY <1>2 DEF UnpinPage, At
<1>4. k \in DOMAIN f.frame
  <2>1. ThreadOK(th[t], t, f, open, lock)
    BY <1>1, <1>2 DEF StateOK
  <2> QED BY <1>2, <1>3, <2>1 DEF ThreadOK
<1>5. ExtendersSame(th, h2)
  <2>1. Becomes(th, h2, t, Idle)
    BY <1>1, <1>2, <1>3, GoIs
  <2>2. \A b : ~Extends(Idle, b) /\ ~Extends(th[t], b)
    BY <1>3, IdleType DEF Extends, Making
  <2> QED BY <1>1, <2>1, <2>2, ThreadExtends DEF ExtendersSame
<1>6. PICK g : g = Unpin(f, k)
  OBVIOUS
<1>7. OnlyPins(f, g)
  BY <1>1, <1>2, <1>4, <1>6, UnpinEffect
<1>8. HeadersSame(f, g) /\ DurableUp(f, g, Len(log))
  BY <1>2, <1>7, PinsHeaders
<1>9. Memory' = g
  BY <1>1, <1>2, <1>3, <1>6, UnpinIs, SetMemoryIs
<1> QED BY <1>2, <1>3, <1>5, <1>8, <1>9, HeadersStay

-----------------------------------------------------------------------------
(***************************************************************************)
(* The actions that log.                                                   *)
(***************************************************************************)
LEMMA AppendMore ==
    ASSUME NEW lg, NEW lg2, NEW e, Appended(lg, lg2, e), Len(lg) \in Nat
    PROVE  /\ Longer(lg, lg2) /\ Len(lg2) = Len(lg) + 1 /\ lg2[Len(lg2)] = e /\ Agree(lg, lg2, Len(lg))
           /\ \A b : (\A k \in Pages : k[1] = b => e # A(k) /\ e # D(k)) => LogMore(lg, lg2, b)
<1>1. Len(lg2) = Len(lg) + 1 /\ lg2[Len(lg2)] = e /\ Agree(lg, lg2, Len(lg))
  BY DEF Appended, Agree
<1>2. Longer(lg, lg2)
  BY <1>1 DEF Longer
<1>3. ASSUME NEW b, \A k \in Pages : k[1] = b => e # A(k) /\ e # D(k) PROVE NoneOf(lg2, Len(lg), Len(lg2), b)
  BY <1>1, <1>3 DEF NoneOf, OfFile
<1> QED BY <1>1, <1>2, <1>3 DEF LogMore

LEMMA ModifyHdr ==
    ASSUME IInv, PageInv, HdrInv, NEW t \in Threads, Modify(t)
    PROVE  HdrInv'
<1>1. /\ open \in SUBSET Pools /\ IsMem(Memory) /\ MemOK(Memory, open) /\ StateOK(Memory, th, open, lock)
      /\ log \in Seq(Entry) /\ Len(log) \in Nat /\ Memory.durable \in 0..Len(log) /\ LogOK(log)
  BY HdrNow
<1>2. PICK k, f, g, h2, lg : k = th[t].key /\ f = Memory /\ g = Memory' /\ h2 = th' /\ lg = log'
  OBVIOUS
<1>3. /\ th[t].pc = "hold" /\ mode = "run" /\ Log("write", k)
      /\ UNCHANGED <<open, store, durable, th, mode, redo, lost>>
      /\ \E l : frame' = [frame EXCEPT ![k].data = l, ![k].dirty = TRUE]
  BY <1>2 DEF Modify, At
<1>4. k \in Pages
  <2>1. ThreadOK(th[t], t, f, open, lock)
    BY <1>1, <1>2 DEF StateOK
  <2> QED BY <1>2, <1>3, <2>1 DEF ThreadOK
<1>5. Appended(log, lg, W(k))
  BY <1>2, <1>3, <1>4, LogAppended DEF W
<1>6. Longer(log, lg) /\ Len(lg) = Len(log) + 1 /\ lg[Len(lg)] = W(k) /\ \A b \in Pools : LogMore(log, lg, b)
  <2>1. PICK e : e = W(k) /\ \A j : e # A(j) /\ e # D(j)
    BY EntriesDiffer
  <2>2. Appended(log, lg, e)
    BY <1>5, <2>1
  <2> QED BY <1>1, <2>1, <2>2, AppendMore
<1>7. LogOK(lg)
  <2>1. EntryOK(lg, Len(lg))
    BY <1>6, EntriesDiffer DEF EntryOK
  <2>2. Len(lg) <= Len(log) + 1
    BY <1>6 DEF Longer
  <2> QED BY <1>1, <1>6, <2>1, <2>2, LogOKGrows
<1>8. HeadersSame(f, g)
  <2>1. f.frame = frame /\ g.frame = frame' /\ f.store = store /\ g.store = store' /\ f.lost = lost /\ g.lost = lost'
    BY <1>2, MemoryIs, MemoryNext
  <2>2. PICK l : frame' = [frame EXCEPT ![k].data = l, ![k].dirty = TRUE]
    BY <1>3
  <2>3. PICK y : y = [frame EXCEPT ![k].data = l]
    OBVIOUS
  <2>4. frame' = [y EXCEPT ![k].dirty = TRUE]
    BY <2>2, <2>3
  <2>5. DOMAIN frame' = DOMAIN frame /\ \A j \in DOMAIN frame : j # k => frame'[j] = frame[j]
    BY <2>3, <2>4
  <2>6. PICK S : S = {k}
    OBVIOUS
  <2>7. OthersSame(f, g, S) /\ S \subseteq Pages
    BY <1>3, <1>4, <2>1, <2>5, <2>6 DEF OthersSame, Same
  <2> QED BY <2>7, PageHeaders
<1>9. DurableUp(f, g, Len(lg))
  <2>1. g.durable = f.durable
    BY <1>2, <1>3, MemoryIs, MemoryNext
  <2> QED BY <1>1, <1>2, <1>6, <2>1 DEF DurableUp
<1>10. ExtendersSame(th, h2)
  BY <1>2, <1>3 DEF ExtendersSame
<1>11. UNCHANGED <<open, mode, redo>>
  BY <1>3
<1> QED BY <1>2, <1>3, <1>6, <1>7, <1>8, <1>9, <1>10, <1>11, HeadersRest

\* What the header has is what the log allows.
LEMMA ReachedBelow ==
    ASSUME NEW lg, NEW m, NEW b, NEW c \in Nat, NEW x \in Nat, Reached(lg, m, b, c), x <= c, InitCount[b] \in Nat
    PROVE  Reached(lg, m, b, x)
<1>1. CASE \E i \in 1..m, k \in Pages : k[1] = b /\ lg[i] = A(k) /\ c <= k[2] + 1
  <2>1. PICK i \in 1..m, k \in Pages : k[1] = b /\ lg[i] = A(k) /\ c <= k[2] + 1
    BY <1>1
  <2>2. x <= k[2] + 1
    BY <2>1 DEF Pages
  <2> QED BY <2>1, <2>2 DEF Reached
<1> QED BY <1>1 DEF Reached

LEMMA AllocateOK ==
    ASSUME NEW lg, NEW lg2, NEW k \in Pages, NEW b \in Pools, NEW d, k[1] = b, Appended(lg, lg2, A(k)), Len(lg) \in Nat, LogOK(lg),
           HeaderAt(d, lg, Len(lg), b), k[2] \notin d.bits, k[2] <= d.count, d.count \in Nat
    PROVE  LogOK(lg2)
<1>1. Longer(lg, lg2) /\ Len(lg2) = Len(lg) + 1 /\ lg2[Len(lg2)] = A(k) /\ Agree(lg, lg2, Len(lg))
  BY AppendMore
<1>2. PICK m \in Nat : m = Len(lg) /\ Len(lg2) - 1 = m /\ Agree(lg, lg2, m)
  BY <1>1
<1>3. k[2] \in Nat /\ InitCount[b] \in Nat
  BY BufferPoolAssumption DEF Pages
<1>4. ~AllocAt(lg, m, k) /\ Reached(lg, m, b, k[2])
  <2>1. ~AllocAt(lg, m, k) /\ Reached(lg, m, b, d.count)
    BY <1>2 DEF HeaderAt, BitsAt
  <2> QED BY <1>3, <2>1, ReachedBelow
<1>5. ~AllocAt(lg2, m, k)
  BY <1>2, <1>4, AllocAgrees
<1>6. Reached(lg2, m, b, k[2])
  BY <1>2, <1>4 DEF Reached, Agree
<1>7. EntryOK(lg2, Len(lg2))
  <2>1. \A j \in Pages : (lg2[Len(lg2)] = A(j) => j = k) /\ lg2[Len(lg2)] # D(j)
    BY <1>1, EntriesDiffer
  <2> QED BY <1>2, <1>5, <1>6, <2>1 DEF EntryOK
<1> QED BY <1>1, <1>7, LogOKGrows

LEMMA DisposeOK ==
    ASSUME NEW lg, NEW lg2, NEW k \in Pages, NEW b \in Pools, NEW d, k[1] = b, Appended(lg, lg2, D(k)), Len(lg) \in Nat, LogOK(lg),
           HeaderAt(d, lg, Len(lg), b), k[2] \in d.bits
    PROVE  LogOK(lg2)
<1>1. Longer(lg, lg2) /\ Len(lg2) = Len(lg) + 1 /\ lg2[Len(lg2)] = D(k) /\ Agree(lg, lg2, Len(lg))
  BY AppendMore
<1>2. PICK m \in Nat : m = Len(lg) /\ Len(lg2) - 1 = m /\ Agree(lg, lg2, m)
  BY <1>1
<1>3. AllocAt(lg, m, k)
  BY <1>2 DEF HeaderAt, BitsAt
<1>4. AllocAt(lg2, m, k)
  BY <1>2, <1>3, AllocAgrees
<1>5. EntryOK(lg2, Len(lg2))
  <2>1. \A j \in Pages : (lg2[Len(lg2)] = D(j) => j = k) /\ lg2[Len(lg2)] # A(j)
    BY <1>1, EntriesDiffer
  <2> QED BY <1>2, <1>4, <2>1 DEF EntryOK
<1> QED BY <1>1, <1>5, LogOKGrows

\* A step of the run that changes the header of file b.
OtherHeader(f, g, h, h2, lg, lg2, op, op2, c) ==
    /\ Same(f, g, <<c, Header>>) /\ LogMore(lg, lg2, c)
    /\ Extender(h2, c) <=> Extender(h, c)
    /\ c \in op2 <=> c \in op
LEMMA OneHeader ==
    ASSUME IInv, PageInv, HdrInv, mode = "run", NEW b \in Pools, NEW f, NEW g, NEW h2, NEW lg2, NEW op2, f = Memory, g = Memory',
           h2 = th', lg2 = log', op2 = open', UNCHANGED <<mode, redo>>, DurableUp(f, g, Len(lg2)), LogOK(lg2),
           \A c \in Pools : c # b => OtherHeader(f, g, th, h2, log, lg2, open, op2, c),
           HdrOK(g, h2, lg2, "run", redo, op2, b)
    PROVE  HdrInv'
<1>1. open \in SUBSET Pools /\ MemOK(f, open) /\ \A c \in Pools : HdrOK(f, th, log, mode, redo, open, c)
  BY HdrNow
<1>2. ASSUME NEW c \in Pools PROVE HdrOK(g, h2, lg2, mode, redo, op2, c)
  <2>1. CASE c = b
    BY <2>1
  <2>2. CASE c # b
    <3>1. /\ HdrOK(f, th, log, mode, redo, open, c) /\ Same(f, g, <<c, Header>>) /\ LogMore(log, lg2, c)
          /\ (Extender(h2, c) <=> Extender(th, c)) /\ (c \in op2 <=> c \in open)
      BY <1>1, <2>2 DEF OtherHeader
    <3>2. mode # "redo"
      OBVIOUS
    <3> QED BY <1>1, <3>1, <3>2, HdrStep
  <2> QED BY <2>1, <2>2
<1> QED BY <1>2 DEF HdrInv

\* The header is dirty, has all entries, and its LSN tells so.
LEMMA HdrSet ==
    ASSUME NEW op \in SUBSET Pools, NEW f, NEW g, NEW h2, NEW lg, NEW lg2, NEW rd, NEW b \in op, NEW m \in Nat, NEW d,
           MemOK(f, op), StoreHdrOK(f, lg, b), g.store[<<b, Header>>] = f.store[<<b, Header>>],
           DurableUp(f, g, Len(lg2)), Longer(lg, lg2), ~Extender(h2, b), IsDirty(g, <<b, Header>>), HdrOf(g, b) = d,
           HeaderAt(d, lg2, Len(lg2), b), m <= d.lsn, Says(d, lg2, m, b)
    PROVE  HdrOK(g, h2, lg2, "run", rd, op, b)
<1>1. StoreHdrOK(g, lg2, b)
  BY StoreHdrKept
<1>2. m \in 0..Len(lg2)
  BY DEF Says, Longer
<1>3. RestHdrOK(g, lg2, b)
  BY <1>2 DEF RestHdrOK, Clean, SoFar
<1> QED BY <1>1, <1>3 DEF HdrOK

LEMMA ExtenderLocks ==
    ASSUME IInv, NEW b \in Pools
    PROVE  /\ lock[b] = Free => ~Extender(th, b)
           /\ \A t \in Threads : lock[b] = t => \A u \in Threads : Extends(th[u], b) => u = t
<1>1. ASSUME NEW u \in Threads, Extends(th[u], b) PROVE lock[b] = u
  <2>1. ThreadOK(th[u], u, Memory, open, lock)
    BY StateNow DEF StateOK
  <2>2. th[u].pc # "idle" /\ Locking(th[u]) /\ th[u].key[1] = b
    BY <1>1 DEF Extends, Making, Locking
  <2> QED BY <2>1, <2>2 DEF ThreadOK
<1>2. Free \notin Threads
  BY BufferPoolAssumption DEF Free
<1> QED BY <1>1, <1>2 DEF Extender

\* The entry is one of file b, and so are the header and the page that change.
LEMMA OthersLogged ==
    ASSUME NEW f, NEW g, NEW h, NEW h2, NEW lg, NEW lg2, NEW op, NEW b \in Pools, NEW k \in Pages, NEW e, NEW S, k[1] = b,
           e = A(k) \/ e = D(k), Appended(lg, lg2, e), Len(lg) \in Nat, S \subseteq {<<b, Header>>, k}, OthersSame(f, g, S),
           \A c \in Pools : c # b => (Extender(h2, c) <=> Extender(h, c))
    PROVE  \A c \in Pools : c # b => OtherHeader(f, g, h, h2, lg, lg2, op, op, c)
<1>1. ASSUME NEW c \in Pools, c # b PROVE OtherHeader(f, g, h, h2, lg, lg2, op, op, c)
  <2>1. <<c, Header>> \in Keys \ S
    BY <1>1, BufferPoolAssumption DEF Keys, Pages, Header
  <2>2. Same(f, g, <<c, Header>>)
    BY <2>1 DEF OthersSame
  <2>3. \A j \in Pages : j[1] = c => e # A(j) /\ e # D(j)
    BY <1>1, EntriesDiffer
  <2>4. LogMore(lg, lg2, c)
    BY <2>3, AppendMore
  <2> QED BY <1>1, <2>2, <2>4 DEF OtherHeader
<1> QED BY <1>1

\* allocate_page below page_count, and dispose_page: header d becomes d2.
TakesPage(d, d2, k, e) == e = A(k) /\ k[2] \notin d.bits /\ k[2] < d.count /\ Gains(d, d2, k[2])
GivesPage(d, d2, k, e) == e = D(k) /\ k[2] \in d.bits /\ Loses(d, d2, k[2])
LEMMA HeaderLogged ==
    ASSUME IInv, PageInv, HdrInv, mode = "run", NEW b \in open, NEW k \in Pages, NEW e, NEW f, NEW g, NEW h2, NEW lg2, NEW S,
           NEW d, NEW d2, k[1] = b, lock[b] = Free, f = Memory, g = Memory', h2 = th', lg2 = log', d = Hdr(b),
           Appended(log, lg2, e), ExtendersSame(th, h2), UNCHANGED <<open, mode, redo>>,
           S = {<<b, Header>>, k}, OthersSame(f, g, S), HdrOf(g, b) = d2, d2.lsn = Len(lg2), IsDirty(g, <<b, Header>>),
           g.store = f.store, g.durable = f.durable, TakesPage(d, d2, k, e) \/ GivesPage(d, d2, k, e)
    PROVE  HdrInv'
<1>1. /\ open \in SUBSET Pools /\ IsMem(f) /\ MemOK(f, open) /\ log \in Seq(Entry) /\ Len(log) \in Nat /\ LogOK(log)
      /\ f.durable \in 0..Len(log) /\ HdrOK(f, th, log, mode, redo, open, b) /\ b \in Pools
  BY HdrNow
<1>2. d = HdrOf(f, b) /\ d.count \in Nat /\ InitCount[b] \in Nat
  <2>1. d = HdrOf(f, b)
    BY MemoryIs DEF HdrOf, Hdr
  <2>2. HdrOf(f, b).count \in Nat
    BY <1>1, HdrFacts
  <2>3. InitCount[b] \in Nat
    BY <1>1, BufferPoolAssumption
  <2> QED BY <2>1, <2>2, <2>3
<1>3. ~Extender(th, b) /\ ~Extender(h2, b)
  BY <1>1, ExtenderLocks DEF ExtendersSame
<1>4. HeaderAt(d, log, Len(log), b) /\ StoreHdrOK(f, log, b)
  BY <1>2, <1>3 , <1>1 DEF HdrOK, RestHdrOK
<1>5. Longer(log, lg2) /\ Len(lg2) = Len(log) + 1 /\ lg2[Len(lg2)] = e /\ Agree(log, lg2, Len(log))
  BY <1>1, AppendMore
<1>6. PICK m \in Nat, n \in Nat : m = Len(log) /\ n = Len(lg2) /\ n = m + 1 /\ Agree(log, lg2, m) /\ lg2[n] = e
  BY <1>1, <1>5
<1>7. HeaderAt(d, lg2, m, b)
  BY <1>4, <1>6, HeaderAgrees
<1>8. HeaderAt(d2, lg2, n, b)
  <2>1. CASE TakesPage(d, d2, k, e)
    BY <1>2, <1>6, <1>7, <2>1, HeaderGains DEF TakesPage
  <2>2. CASE GivesPage(d, d2, k, e)
    BY <1>6, <1>7, <2>2, HeaderLoses DEF GivesPage
  <2> QED BY <2>1, <2>2
<1>9. Says(d2, lg2, n, b)
  BY <1>6, <1>8 DEF Says, NoDispose
<1>10. LogOK(lg2)
  <2>1. CASE TakesPage(d, d2, k, e)
    <3>1. k[2] \notin d.bits /\ k[2] <= d.count /\ Appended(log, lg2, A(k))
      BY <1>2, <2>1 DEF TakesPage, Pages
    <3> QED BY <1>1, <1>2, <1>4, <3>1, AllocateOK
  <2>2. CASE GivesPage(d, d2, k, e)
    <3>1. k[2] \in d.bits /\ Appended(log, lg2, D(k))
      BY <2>2 DEF GivesPage
    <3> QED BY <1>1, <1>4, <3>1, DisposeOK
  <2> QED BY <2>1, <2>2
<1>11. DurableUp(f, g, Len(lg2))
  BY <1>1, <1>5 DEF DurableUp
<1>12. HdrOK(g, h2, lg2, "run", redo, open, b)
  <2>1. n <= d2.lsn /\ HeaderAt(d2, lg2, Len(lg2), b)
    BY <1>6, <1>8
  <2>2. g.store[<<b, Header>>] = f.store[<<b, Header>>]
    OBVIOUS
  <2> QED BY <1>1, <1>3, <1>4, <1>5, <1>9, <1>11, <2>1, <2>2, HdrSet
<1>13. \A c \in Pools : c # b => OtherHeader(f, g, th, h2, log, lg2, open, open, c)
  <2>1. e = A(k) \/ e = D(k)
    BY DEF TakesPage, GivesPage
  <2>2. \A c \in Pools : c # b => (Extender(h2, c) <=> Extender(th, c))
    BY DEF ExtendersSame
  <2> QED BY <1>1, <2>1, <2>2, OthersLogged
<1>14. PICK op2 : op2 = open /\ op2 = open'
  OBVIOUS
<1>15. HdrOK(g, h2, lg2, "run", redo, op2, b) /\ \A c \in Pools : c # b => OtherHeader(f, g, th, h2, log, lg2, open, op2, c)
  BY <1>12, <1>13, <1>14
<1> QED BY <1>1, <1>10, <1>11, <1>14, <1>15, OneHeader

LEMMA AllocateFreePageHdr ==
    ASSUME IInv, PageInv, HdrInv, NEW t \in Threads, NEW b \in Pools, AllocateFreePage(t, b)
    PROVE  HdrInv'
<1>1. /\ open \in SUBSET Pools /\ th \in [Threads -> ThreadRec] /\ IsMem(Memory) /\ MemOK(Memory, open)
      /\ Len(log) \in Nat
  BY HdrNow
<1>2. PICK n, d2 : /\ n = CHOOSE i \in FreeBits(b) : \A j \in FreeBits(b) : i <= j
                   /\ d2 = [Hdr(b) EXCEPT !.bits = @ \cup {n}, !.lsn = Len(log) + 1]
  OBVIOUS
<1>3. PICK k, c, S, d : k = <<b, n>> /\ c = <<b, Header>> /\ S = {c, k} /\ d = Hdr(b)
  OBVIOUS
<1>4. /\ th[t].pc = "idle" /\ mode = "run" /\ b \in open /\ FreeBits(b) # {} /\ SetMemory(SetHeader(Memory, b, d2))
      /\ Log("allocate", k) /\ Take(t, "get", k) /\ UNCHANGED <<open, mode, redo>> /\ lock[b] = Free
  BY <1>2, <1>3 DEF AllocateFreePage, At
<1>5. k \in Pages /\ k[1] = b /\ k[2] = n /\ n < d.count /\ n \notin d.bits
  BY <1>2, <1>3, <1>4, FreePageIs
<1>6. PICK f, g, h2, lg : f = Memory /\ g = SetHeader(f, b, d2) /\ h2 = th' /\ lg = log'
  OBVIOUS
<1>7. IsMem(g) /\ OthersSame(f, g, {c}) /\ g.store = f.store /\ g.durable = f.durable /\ HdrOf(g, b) = d2 /\ IsDirty(g, c)
  <2>1. IsMem(f) /\ MemOK(f, open) /\ open \in SUBSET Pools /\ b \in open /\ g = SetHeader(f, b, d2) /\ IsHdr(c, b)
    BY <1>1, <1>3, <1>4, <1>6 DEF IsHdr
  <2>2. IsMem(g) /\ SameElse(f, g, c) /\ g.store = f.store /\ g.durable = f.durable /\ HdrOf(g, b) = d2 /\ IsDirty(g, c)
    BY <2>1, SetHeaderEffect
  <2> QED BY <2>2 DEF SameElse
<1>8. OthersSame(f, g, S)
  BY <1>3, <1>7 DEF OthersSame
<1>9. Appended(log, lg, A(k)) /\ Len(lg) = Len(log) + 1
  BY <1>4, <1>5, <1>6, LogAppended DEF A
<1>10. d2.bits = d.bits \cup {n} /\ d2.count = d.count /\ d2.lsn = Len(log) + 1
  <2>1. Hdr(b) \in FileHdr
    BY <1>4, HdrIs
  <2> QED BY <1>2, <1>3, <2>1 DEF FileHdr
<1>11. PICK e : e = A(k) /\ TakesPage(d, d2, k, e)
  BY <1>5, <1>10 DEF TakesPage, Gains
<1>12. ExtendersSame(th, h2)
  <2>1. Becomes(th, h2, t, State("get", k))
    BY <1>4, <1>6, TakeIs
  <2>2. \A a : ~Extends(State("get", k), a) /\ ~Extends(th[t], a)
    BY <1>4 DEF State, Extends, Making
  <2> QED BY <1>1, <2>1, <2>2, ThreadExtends DEF ExtendersSame
<1>13. Memory' = g
  BY <1>4, <1>6, <1>7, SetMemoryIs
<1>14. d2.lsn = Len(lg) /\ Appended(log, lg, e) /\ S = {<<b, Header>>, k} /\ IsDirty(g, <<b, Header>>)
  BY <1>3, <1>7, <1>9, <1>10, <1>11
<1> QED BY <1>3, <1>4, <1>5, <1>6, <1>7, <1>8, <1>11, <1>12, <1>13, <1>14, HeaderLogged

LEMMA DisposeHdr ==
    ASSUME IInv, PageInv, HdrInv, NEW t \in Threads, NEW k \in Keys, Dispose(t, k)
    PROVE  HdrInv'
<1>1. /\ open \in SUBSET Pools /\ th \in [Threads -> ThreadRec] /\ IsMem(Memory) /\ MemOK(Memory, open)
      /\ Len(log) \in Nat
  BY HdrNow
<1>2. PICK b, d, d2 : b = k[1] /\ d = Hdr(b) /\ d2 = [Hdr(b) EXCEPT !.bits = @ \ {k[2]}, !.lsn = Len(log) + 1]
  OBVIOUS
<1>3. PICK a, f, g, c, S, h2, lg : /\ f = Memory /\ a = (IF k \in Resident THEN FreeFrame(f, k) ELSE f)
                                   /\ g = SetHeader(a, b, d2) /\ c = <<b, Header>> /\ S = {c, k} /\ h2 = th' /\ lg = log'
  OBVIOUS
<1>4. /\ mode = "run" /\ b \in open /\ k[2] # Header /\ SetMemory(g) /\ Log("deallocate", k) /\ lock[b] = Free
      /\ UNCHANGED <<th, open, mode, redo>> /\ k[2] \in d.bits
  BY <1>2, <1>3 DEF Dispose, At
<1>5. k \in Pages
  BY <1>3, <1>4, KeyIs DEF Pages, Header
<1>6. IsMem(f) /\ MemOK(f, open) /\ Resident = DOMAIN f.frame
  BY <1>1, <1>3, MemoryIs DEF Resident
<1>7. IsMem(a) /\ MemOK(a, open) /\ a.store = f.store /\ a.durable = f.durable /\ OthersSame(f, a, {k})
  <2>1. CASE k \in Resident
    <3>1. k \in DOMAIN f.frame /\ a = FreeFrame(f, k)
      BY <1>3, <1>6, <2>1
    <3>2. MemOK(a, open) /\ Freed(f, a, k)
      BY <1>1, <1>4, <1>6, <3>1, FreeFrameOK
    <3>3. FreedOnly(f, a, k) /\ a.store = f.store /\ a.durable = f.durable /\ OthersSame(f, a, {k})
      BY <1>6, <3>1, FreeEffect
    <3> QED BY <3>2, <3>3 DEF Freed, FreedOnly
  <2>2. CASE k \notin Resident
    BY <1>3, <1>6, <2>2 DEF OthersSame, Same
  <2> QED BY <2>1, <2>2
<1>8. IsMem(g) /\ OthersSame(a, g, {c}) /\ g.store = a.store /\ g.durable = a.durable /\ HdrOf(g, b) = d2 /\ IsDirty(g, c)
  <2>1. IsMem(a) /\ MemOK(a, open) /\ open \in SUBSET Pools /\ b \in open /\ g = SetHeader(a, b, d2) /\ IsHdr(c, b)
    BY <1>1, <1>3, <1>4, <1>7 DEF IsHdr
  <2>2. IsMem(g) /\ SameElse(a, g, c) /\ g.store = a.store /\ g.durable = a.durable /\ HdrOf(g, b) = d2 /\ IsDirty(g, c)
    BY <2>1, SetHeaderEffect
  <2> QED BY <2>2 DEF SameElse
<1>9. OthersSame(f, g, S)
  BY <1>3, <1>7, <1>8 DEF OthersSame, Same
<1>10. Appended(log, lg, D(k)) /\ Len(lg) = Len(log) + 1
  BY <1>3, <1>4, <1>5, LogAppended DEF D
<1>11. d2.bits = d.bits \ {k[2]} /\ d2.count = d.count /\ d2.lsn = Len(log) + 1
  <2>1. Hdr(b) \in FileHdr
    BY <1>4, HdrIs
  <2> QED BY <1>2, <2>1 DEF FileHdr
<1>12. PICK e : e = D(k) /\ GivesPage(d, d2, k, e)
  BY <1>4, <1>11 DEF GivesPage, Loses
<1>13. ExtendersSame(th, h2)
  BY <1>3, <1>4 DEF ExtendersSame
<1>14. Memory' = g
  BY <1>4, <1>8, SetMemoryIs
<1>15. /\ d2.lsn = Len(lg) /\ Appended(log, lg, e) /\ S = {<<b, Header>>, k} /\ IsDirty(g, <<b, Header>>)
       /\ g.store = f.store /\ g.durable = f.durable
  BY <1>3, <1>7, <1>8, <1>10, <1>11, <1>12
<1>16. /\ mode = "run" /\ b \in open /\ k[1] = b /\ lock[b] = Free /\ f = Memory /\ g = Memory' /\ h2 = th' /\ lg = log'
       /\ d = Hdr(b) /\ UNCHANGED <<open, mode, redo>> /\ HdrOf(g, b) = d2
  BY <1>2, <1>3, <1>4, <1>8, <1>14
<1> QED BY <1>5, <1>9, <1>12, <1>13, <1>15, <1>16, HeaderLogged

\* The first page behind the others is logged: the header has no room for it yet.
LEMMA PendingBegins ==
    ASSUME NEW lg, NEW lg2, NEW k \in Pages, NEW b, NEW d, NEW d2, k[1] = b, k[2] = d.count, Appended(lg, lg2, A(k)),
           Len(lg) \in Nat, HeaderAt(d, lg, Len(lg), b), d2.lsn = Len(lg2), d2.count = d.count, d2.bits = d.bits
    PROVE  Pending(d2, lg2, b)
<1>1. Len(lg2) = Len(lg) + 1 /\ lg2[Len(lg2)] = A(k) /\ Agree(lg, lg2, Len(lg))
  BY AppendMore
<1>2. PICK m \in Nat, n \in Nat : m = Len(lg) /\ n = Len(lg2) /\ n = m + 1 /\ n - 1 = m /\ Agree(lg, lg2, m) /\ lg2[n] = A(k)
  BY <1>1
<1>3. HeaderAt(d, lg2, m, b)
  BY <1>2, HeaderAgrees
<1>4. HeaderAt(d2, lg2, m, b)
  BY <1>3 DEF HeaderAt, BitsAt
<1>5. d2.lsn = n /\ n \in 1..n /\ \A i \in n + 1..n : ~OfFile(lg2, i, b)
  BY <1>2
<1> QED BY <1>2, <1>4, <1>5 DEF Pending

LEMMA BeginExtendHdr ==
    ASSUME IInv, PageInv, HdrInv, NEW t \in Threads, NEW b \in Pools, BeginExtend(t, b)
    PROVE  HdrInv'
<1>1. /\ open \in SUBSET Pools /\ th \in [Threads -> ThreadRec] /\ IsMem(Memory) /\ MemOK(Memory, open)
      /\ Len(log) \in Nat /\ Memory.durable \in 0..Len(log) /\ LogOK(log)
      /\ \A a \in Pools : HdrOK(Memory, th, log, mode, redo, open, a)
  BY HdrNow
<1>2. PICK l \in Nat : l = Len(log) + 1
  BY <1>1
<1>3. PICK n, d, d2 : n = Hdr(b).count /\ d = Hdr(b) /\ d2 = [d EXCEPT !.lsn = l]
  OBVIOUS
<1>4. PICK k, c, S : k = <<b, n>> /\ c = <<b, Header>> /\ S = {c}
  OBVIOUS
<1>5. /\ th[t].pc = "idle" /\ mode = "run" /\ b \in open /\ n < MaxPageNum /\ FreeBits(b) = {} /\ lock[b] = Free
      /\ Log("allocate", k) /\ Take(t, "extending", k) /\ UNCHANGED <<open, mode, redo, store, durable, lost>>
      /\ frame' = [frame EXCEPT ![c].data.lsn = l]
  BY <1>2, <1>3, <1>4 DEF BeginExtend, At, history
<1>6. d \in FileHdr /\ HeaderOK(d) /\ n \in 1..MaxPageNum /\ n \in Nat
  BY <1>3, <1>5, HdrIs
<1>7. k \in Pages /\ k[1] = b /\ k[2] = n
  <2>1. PICK m \in 1..(MaxPageNum - 1) : m = n
    BY <1>5, <1>6, BufferPoolAssumption
  <2> QED BY <1>4, <2>1 DEF Pages
<1>8. PICK f, g, h2, lg : f = Memory /\ g = Memory' /\ h2 = th' /\ lg = log'
  OBVIOUS
<1>9. Appended(log, lg, A(k)) /\ Len(lg) = l /\ Len(lg) \in Nat
  BY <1>2, <1>5, <1>7, <1>8, LogAppended DEF A
<1>10. MemOK(f, open) /\ f.frame = frame /\ c \in DOMAIN frame /\ f.durable \in 0..Len(log)
  <2>1. MemOK(f, open) /\ f.frame = frame /\ f.durable \in 0..Len(log)
    BY <1>1, <1>8, MemoryIs
  <2>2. <<b, Header>> \in DOMAIN f.frame
    BY <1>1, <1>5, <2>1, CountIs
  <2> QED BY <1>4, <2>1, <2>2
<1>11. /\ DOMAIN g.frame = DOMAIN f.frame /\ HdrOf(g, b) = d2 /\ g.store = f.store /\ g.durable = f.durable
       /\ g.lost = f.lost /\ \A j \in DOMAIN f.frame : j # c => g.frame[j] = f.frame[j]
  <2>1. g.frame = frame' /\ g.store = f.store /\ g.durable = f.durable /\ g.lost = f.lost
    BY <1>5, <1>8, MemoryIs, MemoryNext
  <2>2. PICK p : p = frame[c] /\ p.data = d
    BY <1>3, <1>4 DEF Hdr
  <2>3. PICK q : q = [p EXCEPT !.data.lsn = l]
    OBVIOUS
  <2>4. frame' = [frame EXCEPT ![c] = q]
    BY <1>5, <2>2, <2>3
  <2>5. q.data = d2
    <3>1. p \in FrameRec
      BY <1>1, <1>10, <2>2, FrameIs
    <3>2. q = [p EXCEPT !.data = d2]
      BY <1>3, <2>2, <2>3
    <3> QED BY <3>1, <3>2 DEF FrameRec
  <2>6. DOMAIN frame' = DOMAIN frame /\ frame'[c] = q /\ \A j \in DOMAIN frame : j # c => frame'[j] = frame[j]
    BY <1>10, <2>4 DEF MemOK, FramesOK
  <2> QED BY <1>4, <1>10, <2>1, <2>5, <2>6 DEF HdrOf
<1>12. OthersSame(f, g, S)
  BY <1>4, <1>11 DEF OthersSame, Same
<1>13. d2.lsn = l /\ d2.count = d.count /\ d2.bits = d.bits
  BY <1>3, <1>6 DEF FileHdr
<1>14. HeaderAt(d, log, Len(log), b) /\ StoreHdrOK(f, log, b)
  <2>1. ~Extender(th, b)
    BY <1>5, ExtenderLocks
  <2>2. d = HdrOf(f, b)
    BY <1>3, <1>8, MemoryIs DEF HdrOf, Hdr
  <2>3. HdrOK(f, th, log, mode, redo, open, b)
    BY <1>1, <1>8
  <2> QED BY <1>5, <2>1, <2>2, <2>3 DEF HdrOK, RestHdrOK
<1>15. Pending(d2, lg, b)
  <2>1. k[2] = d.count /\ d2.lsn = Len(lg)
    BY <1>3, <1>7, <1>9, <1>13
  <2> QED BY <1>1, <1>7, <1>9, <1>13, <1>14, <2>1, PendingBegins
<1>16. LogOK(lg)
  <2>1. n \notin d.bits
    BY <1>6, <1>3 DEF HeaderOK
  <2>2. k[2] \notin d.bits /\ k[2] <= d.count /\ d.count \in Nat
    BY <1>3, <1>6, <1>7, <2>1
  <2> QED BY <1>1, <1>7, <1>9, <1>14, <2>2, AllocateOK
<1>17. Becomes(th, h2, t, State("extending", k))
  BY <1>5, <1>8, TakeIs
<1>18. Extender(h2, b) /\ \A a \in Pools : a # b => (Extender(h2, a) <=> Extender(th, a))
  <2>1. \A a : Extends(State("extending", k), a) <=> a = b
    BY <1>7 DEF State, Extends, Making
  <2>2. \A a : ~Extends(th[t], a)
    BY <1>5 DEF Extends, Making
  <2>3. h2[t] = State("extending", k)
    BY <1>1, <1>17 DEF Becomes
  <2>4. ASSUME NEW a \in Pools, a # b PROVE Extender(h2, a) <=> Extender(th, a)
    <3>1. Extends(State("extending", k), a) <=> Extends(th[t], a)
      BY <2>1, <2>2, <2>4
    <3> QED BY <1>1, <1>17, <3>1, ThreadExtends
  <2> QED BY <2>1, <2>3, <2>4 DEF Extender
<1>19. DurableUp(f, g, Len(lg)) /\ Longer(log, lg)
  <2>1. Longer(log, lg)
    BY <1>1, <1>9, AppendMore
  <2> QED BY <1>1, <1>2, <1>9, <1>10, <1>11, <2>1 DEF DurableUp
<1>20. HdrOK(g, h2, lg, "run", redo, open, b)
  <2>1. g.store[<<b, Header>>] = f.store[<<b, Header>>]
    BY <1>11
  <2>2. StoreHdrOK(g, lg, b)
    BY <1>1, <1>10, <1>14, <1>19, <2>1, StoreHdrKept
  <2> QED BY <1>5, <1>11, <1>15, <1>18, <2>2 DEF HdrOK
<1>21. PICK e, op2 : e = A(k) /\ op2 = open /\ op2 = open'
  BY <1>5
<1>22. \A a \in Pools : a # b => OtherHeader(f, g, th, h2, log, lg, open, open, a)
  <2>1. S \subseteq {<<b, Header>>, k} /\ (e = A(k) \/ e = D(k)) /\ Appended(log, lg, e)
    BY <1>4, <1>9, <1>21
  <2> QED BY <1>1, <1>7, <1>12, <1>18, <2>1, OthersLogged
<1>23. HdrOK(g, h2, lg, "run", redo, op2, b) /\ \A a \in Pools : a # b => OtherHeader(f, g, th, h2, log, lg, open, op2, a)
  BY <1>20, <1>21, <1>22
<1> QED BY <1>5, <1>8, <1>16, <1>19, <1>21, <1>23, OneHeader

\* The header gets the page that was logged for it.
LEMMA PendingEnds ==
    ASSUME NEW lg, NEW k \in Pages, NEW b \in Pools, NEW d, NEW d2, k[1] = b, k[2] = d.count, Pending(d, lg, b),
           d.count \in Nat, Len(lg) \in Nat, Gains(d, d2, k[2]), d2.lsn = d.lsn
    PROVE  \E m \in Nat : m = d2.lsn /\ Says(d2, lg, m, b) /\ HeaderAt(d2, lg, Len(lg), b)
<1>1. PICK l \in Nat, m \in Nat, n \in Nat : m = d.lsn /\ l = m - 1 /\ m = l + 1 /\ n = Len(lg) /\ 1 <= m /\ m <= n
  BY DEF Pending
<1>2. HeaderAt(d, lg, l, b) /\ NoneOf(lg, m, n, b)
  BY <1>1 DEF Pending, NoneOf
<1>3. lg[m] = A(k)
  <2>1. PICK j \in Pages : j[1] = b /\ j[2] = d.count /\ lg[m] = A(j)
    BY <1>1 DEF Pending
  <2>2. j = k
    BY <2>1, PageIs
  <2> QED BY <2>1, <2>2
<1>4. InitCount[b] \in Nat
  BY BufferPoolAssumption
<1>5. HeaderAt(d2, lg, m, b)
  BY <1>1, <1>2, <1>3, <1>4, HeaderGains
<1>6. HeaderAt(d2, lg, n, b)
  BY <1>1, <1>2, <1>5, HeaderLater
<1>7. Says(d2, lg, m, b)
  BY <1>1, <1>5 DEF Says, NoDispose
<1> QED BY <1>1, <1>6, <1>7

LEMMA ExtendHdr ==
    ASSUME IInv, PageInv, HdrInv, NEW t \in Threads, Extend(t)
    PROVE  HdrInv'
<1>1. /\ open \in SUBSET Pools /\ th \in [Threads -> ThreadRec] /\ IsMem(Memory) /\ MemOK(Memory, open)
      /\ StateOK(Memory, th, open, lock) /\ log \in Seq(Entry) /\ Len(log) \in Nat
      /\ Memory.durable \in 0..Len(log) /\ LogOK(log)
      /\ \A a \in Pools : HdrOK(Memory, th, log, mode, redo, open, a)
  BY HdrNow
<1>2. PICK k, b, d, d2 : k = th[t].key /\ b = k[1] /\ d = Hdr(b) /\ d2 = [Hdr(b) EXCEPT !.count = @ + 1, !.bits = @ \cup {k[2]}]
  OBVIOUS
<1>3. PICK n, f, h2, lg, op2 : n = k[2] /\ f = Memory /\ h2 = th' /\ lg = log' /\ op2 = open'
  OBVIOUS
<1>4. /\ th[t].pc = "extend" /\ mode = "run" /\ Go(t, "hold")
      /\ SetMemory(Extended(f, b, d2, k)) /\ UNCHANGED <<open, log, mode, redo>>
  <2>1. /\ th[t].pc = "extend" /\ mode = "run" /\ Go(t, "hold")
        /\ SetMemory(FlushInternal(Zeroed(SetHeader(Memory, b, d2), k), k))
        /\ UNCHANGED <<open, log, mode, redo>>
    BY <1>2 DEF Extend, At, Zeroed
  <2> QED BY <1>3, <2>1 DEF Extended
<1>5. /\ k \in Pages /\ b \in open /\ k \in DOMAIN f.frame /\ n = Hdr(b).count /\ n \in 1..(MaxPageNum - 1) /\ b \in Pools
      /\ lock[b] = t
  <2>1. ThreadOK(th[t], t, f, open, lock)
    BY <1>1, <1>3 DEF StateOK
  <2>2. k \in Pages /\ b \in open /\ k \in DOMAIN f.frame /\ n = CountOf(f, b) /\ lock[b] = t
    BY <1>2, <1>3, <1>4, <2>1 DEF ThreadOK, Making, Locking
  <2> QED BY <1>2, <1>3, <2>2, HdrIs DEF Pages
<1>6. HeaderOK(d2) /\ d2.lsn = d.lsn /\ Gains(d, d2, n) /\ d.count \in Nat
  <2>1. n < MaxPageNum
    BY <1>5, BufferPoolAssumption
  <2>2. Grown1(Hdr(b), d2, n)
    BY <1>2, <1>3 DEF Grown1
  <2>3. HeaderOK(d2) /\ d2.lsn = Hdr(b).lsn
    BY <1>5, <2>1, <2>2, ExtendHeader
  <2>4. Hdr(b) \in FileHdr /\ Hdr(b).count \in Nat
    BY <1>5, HdrIs
  <2>5. d2.bits = d.bits \cup {n} /\ d2.count = d.count + 1
    BY <1>2, <1>3, <2>4 DEF FileHdr
  <2> QED BY <1>2, <1>5, <2>3, <2>4, <2>5 DEF Gains
<1>7. IsMem(f) /\ MemOK(f, open) /\ f.durable \in 0..Len(log) /\ f.durable \in Nat
  BY <1>1, <1>3
<1>8. PICK g : g = Extended(f, b, d2, k)
  OBVIOUS
<1>9. IsMem(g) /\ ExtendedBy(f, g, b, d2, k)
  BY <1>1, <1>5, <1>6, <1>7, <1>8, ExtendEffect
<1>10. PICK S : S = {<<b, Header>>, k}
  OBVIOUS
<1>11. /\ OthersSame(f, g, S) /\ HdrOf(g, b) = d2 /\ g.store[<<b, Header>>] = f.store[<<b, Header>>]
       /\ g.durable = f.durable /\ IsDirty(g, <<b, Header>>)
  BY <1>9, <1>10 DEF ExtendedBy
<1>12. DurableUp(f, g, Len(log))
  BY <1>1, <1>7, <1>11 DEF DurableUp
<1>13. Extends(th[t], b) /\ \A a : Extends(th[t], a) => a = b
  BY <1>2, <1>4 DEF Extends, Making
<1>14. Becomes(th, h2, t, State("hold", k)) /\ \A a : ~Extends(State("hold", k), a)
  <2>1. Becomes(th, h2, t, State("hold", k))
    BY <1>1, <1>2, <1>3, <1>4, GoIs
  <2> QED BY <2>1 DEF State, Extends, Making
<1>15. ~Extender(h2, b) /\ Extender(th, b) /\ \A a \in Pools : a # b => (Extender(h2, a) <=> Extender(th, a))
  <2>1. \A u \in Threads : Extends(th[u], b) => u = t
    BY <1>5, ExtenderLocks
  <2>2. h2[t] = State("hold", k) /\ \A u \in Threads : u # t => h2[u] = th[u]
    BY <1>1, <1>14 DEF Becomes
  <2>3. ASSUME NEW a \in Pools, a # b PROVE Extender(h2, a) <=> Extender(th, a)
    <3>1. Extends(State("hold", k), a) <=> Extends(th[t], a)
      BY <1>13, <1>14, <2>3
    <3> QED BY <1>1, <1>14, <3>1, ThreadExtends
  <2> QED BY <1>13, <1>14, <2>1, <2>2, <2>3 DEF Extender
<1>16. Pending(d, log, b) /\ StoreHdrOK(f, log, b)
  <2>1. d = HdrOf(f, b)
    BY <1>2, <1>3, MemoryIs DEF HdrOf, Hdr
  <2>2. HdrOK(f, th, log, mode, redo, open, b)
    BY <1>1, <1>3, <1>5
  <2> QED BY <1>4, <1>5, <1>15, <2>1, <2>2 DEF HdrOK
<1>17. PICK m \in Nat : m = d2.lsn /\ Says(d2, log, m, b) /\ HeaderAt(d2, log, Len(log), b)
  <2>1. k[1] = b /\ k[2] = d.count /\ Gains(d, d2, k[2])
    BY <1>2, <1>3, <1>5, <1>6
  <2> QED BY <1>1, <1>5, <1>6, <1>16, <2>1, PendingEnds
<1>18. Longer(log, log)
  BY <1>1, LogStays
<1>19. HdrOK(g, h2, log, "run", redo, open, b)
  <2>1. m <= d2.lsn
    BY <1>17
  <2> QED BY <1>1, <1>5, <1>7, <1>11, <1>12, <1>15, <1>16, <1>17, <1>18, <2>1, HdrSet
<1>20. \A a \in Pools : a # b => OtherHeader(f, g, th, h2, log, lg, open, op2, a)
  <2>1. ASSUME NEW a \in Pools, a # b PROVE OtherHeader(f, g, th, h2, log, lg, open, op2, a)
    <3>1. <<a, Header>> \in Keys \ S
      BY <1>5, <1>10, <2>1, BufferPoolAssumption DEF Keys, Pages, Header
    <3>2. Same(f, g, <<a, Header>>)
      BY <1>11, <3>1 DEF OthersSame
    <3>3. LogMore(log, log, a)
      BY <1>1, LogStays
    <3> QED BY <1>3, <1>4, <1>15, <2>1, <3>2, <3>3 DEF OtherHeader
  <2> QED BY <2>1
<1>21. Memory' = g
  BY <1>4, <1>8, <1>9, SetMemoryIs
<1>22. HdrOK(g, h2, lg, "run", redo, op2, b) /\ LogOK(lg) /\ DurableUp(f, g, Len(lg))
  BY <1>1, <1>3, <1>4, <1>12, <1>19
<1>23. /\ mode = "run" /\ b \in Pools /\ f = Memory /\ g = Memory' /\ h2 = th' /\ lg = log' /\ op2 = open'
       /\ UNCHANGED <<mode, redo>>
  BY <1>3, <1>4, <1>5, <1>21
<1> QED BY <1>20, <1>22, <1>23, OneHeader

-----------------------------------------------------------------------------
(***************************************************************************)
(* Closing and opening a file.                                             *)
(***************************************************************************)
LEMMA CloseFileHdr ==
    ASSUME IInv, PageInv, HdrInv, NEW b \in Pools, CloseFile(b)
    PROVE  HdrInv'
<1>1. /\ open \in SUBSET Pools /\ th \in [Threads -> ThreadRec] /\ IsMem(Memory) /\ MemOK(Memory, open)
      /\ log \in Seq(Entry) /\ Len(log) \in Nat /\ DataOK(Memory, th, log, written, mode, redo, open)
      /\ Memory.durable \in 0..Len(log) /\ LogOK(log) /\ \A a \in Pools : HdrOK(Memory, th, log, mode, redo, open, a)
  BY HdrNow
<1>2. /\ mode = "run" /\ b \in open /\ (\A t \in Threads : th[t].pc = "idle" \/ th[t].key[1] # b)
      /\ SetMemory(PurgeAll(Memory, b)) /\ open' = open \ {b} /\ UNCHANGED <<log, th, mode, redo>>
  BY DEF CloseFile
<1>3. PICK f, g, S, c, h2, lg, op2 : /\ f = Memory /\ g = PurgeAll(f, b) /\ S = PagesOf(f, b) /\ c = <<b, Header>>
                                     /\ h2 = th' /\ lg = log' /\ op2 = open'
  OBVIOUS
<1>4. IsMem(f) /\ MemOK(f, open) /\ DataOK(f, th, log, written, mode, redo, open) /\ f.durable \in 0..Len(log)
  BY <1>1, <1>3
<1>5. IsMem(g) /\ g.frame = Without(f.frame, S) /\ g.store = StoreAll(f, DirtyOf(f, b)) /\ g.lost = f.lost
  BY <1>3, <1>4, PurgeAllIs
<1>6. /\ \A j \in Keys : g.store[j] = IF j \in DirtyOf(f, b) THEN f.frame[j].data ELSE f.store[j]
      /\ DOMAIN g.frame = DOMAIN f.frame \ S /\ \A j \in DOMAIN g.frame : g.frame[j] = f.frame[j]
  BY <1>5 DEF StoreAll, Without
<1>7. g.durable \in f.durable..Len(log) /\ \A k \in DirtyOf(f, b) : PageLsn(f, k) <= g.durable
  <2>1. \A k \in DirtyOf(f, b) : PageLsn(f, k) \in 0..Len(log)
    BY <1>1, <1>4, LsnIs DEF DirtyOf, PagesOf
  <2> QED BY <1>1, <1>3, <1>4, <2>1, PurgeAllDurable
<1>8. DurableUp(f, g, Len(log)) /\ f.durable \in Nat /\ g.durable \in Nat /\ f.durable <= g.durable
  BY <1>1, <1>4, <1>7 DEF DurableUp
<1>9. OthersSame(f, g, S)
  BY <1>3, <1>5, <1>6 DEF OthersSame, Same, DirtyOf
<1>10. ~Extender(th, b)
  BY <1>2 DEF Extender, Extends, Making
<1>11. PICK d : d = HdrOf(f, b)
  OBVIOUS
<1>12. /\ StoreHdrOK(f, log, b) /\ HeaderAt(d, log, Len(log), b) /\ (f.frame[c].dirty \/ d = f.store[c])
       /\ \E m \in 0..Len(log) : SoFar(f, d, m) /\ Says(d, log, m, b)
  <2>1. HdrOK(f, th, log, mode, redo, open, b)
    BY <1>1, <1>3
  <2>2. StoreHdrOK(f, log, b) /\ RestHdrOK(f, log, b)
    BY <1>2, <1>10, <2>1 DEF HdrOK
  <2> QED BY <1>3, <1>11, <2>2 DEF RestHdrOK, Clean, IsDirty
<1>13. c \in DOMAIN f.frame /\ c \in Keys /\ c[2] = Header /\ d.lsn \in Nat /\ d = f.frame[c].data
  <2>1. c \in DOMAIN f.frame /\ c \in Keys /\ c[2] = Header
    BY <1>1, <1>2, <1>3, <1>4, CountIs
  <2>2. d.lsn \in Nat
    BY <1>1, <1>2, <1>4, <1>11, HdrFacts
  <2> QED BY <1>3, <1>11, <2>1, <2>2 DEF HdrOf
<1>14. g.store[c] = d /\ \E m \in Nat : m <= g.durable /\ Says(d, log, m, b)
  <2>1. CASE f.frame[c].dirty
    <3>1. c \in DirtyOf(f, b)
      BY <1>3, <1>13, <2>1 DEF DirtyOf, PagesOf
    <3>2. d.lsn <= g.durable
      BY <1>7, <1>13, <3>1 DEF PageLsn
    <3>3. PICK m \in Nat : SoFar(f, d, m) /\ Says(d, log, m, b)
      BY <1>12
    <3>4. m <= g.durable
      BY <1>8, <1>13, <3>2, <3>3 DEF SoFar
    <3> QED BY <1>6, <1>13, <3>1, <3>3, <3>4
  <2>2. CASE ~f.frame[c].dirty
    <3>1. c \notin DirtyOf(f, b) /\ d = f.store[c]
      BY <1>12, <2>2 DEF DirtyOf
    <3>2. PICK m \in Nat : m <= f.durable /\ Says(d, log, m, b)
      BY <1>3, <1>8, <1>12, <3>1 DEF StoreHdrOK
    <3>3. m <= g.durable
      BY <1>8, <3>2
    <3> QED BY <1>6, <1>13, <3>1, <3>2, <3>3
  <2> QED BY <2>1, <2>2
<1>15. StoreHdrOK(g, log, b) /\ ClosedHdrOK(g, log, b)
  <2>1. PICK m \in Nat : m <= g.durable /\ Says(d, log, m, b) /\ g.store[c] = d
    BY <1>14
  <2>2. m \in 0..g.durable
    BY <1>8, <2>1
  <2> QED BY <1>3, <1>12, <2>1, <2>2 DEF StoreHdrOK, ClosedHdrOK
<1>16. HdrOK(g, h2, lg, "run", redo, op2, b)
  <2>1. b \notin op2 /\ lg = log
    BY <1>2, <1>3
  <2> QED BY <1>15, <2>1 DEF HdrOK
<1>17. ASSUME NEW a \in Pools, a # b PROVE OtherHeader(f, g, th, h2, log, lg, open, op2, a)
  <2>1. <<a, Header>> \in Keys \ S
    BY <1>3, <1>17, BufferPoolAssumption DEF Keys, Header, PagesOf
  <2>2. Same(f, g, <<a, Header>>)
    BY <1>9, <2>1 DEF OthersSame
  <2>3. LogMore(log, log, a)
    BY <1>1, LogStays
  <2> QED BY <1>2, <1>3, <1>17, <2>2, <2>3 DEF OtherHeader
<1>18. Memory' = g
  BY <1>2, <1>3, <1>5, SetMemoryIs
<1>19. LogOK(lg) /\ DurableUp(f, g, Len(lg))
  BY <1>1, <1>2, <1>3, <1>8
<1> QED BY <1>2, <1>3, <1>16, <1>17, <1>18, <1>19, OneHeader

\* Headers are not evicted.
LEMMA MakeRoomHdr ==
    ASSUME NEW op \in SUBSET Pools, NEW f, NEW h \in [Threads -> ThreadRec], NEW lk, NEW lg \in Seq(Entry), NEW w, NEW md,
           NEW rd \in Nat \ {0}, NEW b, NEW e \in MakeRoom(f, b),
           StateOK(f, h, op, lk), DataOK(f, h, lg, w, md, rd, op), InRun(md) \/ rd - 1 <= Len(lg)
    PROVE  HeadersSame(f, e) /\ DurableUp(f, e, Len(lg))
<1>1. CASE f.frees # <<>>
  <2>1. e = f
    BY <1>1 DEF MakeRoom
  <2>2. f.durable \in 0..Len(lg) /\ Len(lg) \in Nat
    BY DEF DataOK
  <2> QED BY <2>1, <2>2 DEF HeadersSame, Same, DurableUp
<1>2. CASE f.frees = <<>>
  <2>1. PICK v \in DOMAIN f.frame : e = Purge(f, b, v) /\ f.frame[v].pin = 0
    BY <1>2 DEF MakeRoom, Victims, CanPurge
  <2>2. /\ v \in Pages /\ OthersSame(f, e, {v}) /\ (Out(f, e, v) \/ WrittenOut(f, e, v)) /\ ~Loader(h, v)
        /\ DurableUp(f, e, Len(lg))
    BY <2>1, VictimEffect
  <2>3. PICK S : S = {v}
    OBVIOUS
  <2>4. OthersSame(f, e, S) /\ S \subseteq Pages
    BY <2>2, <2>3
  <2>5. HeadersSame(f, e)
    BY <2>4, PageHeaders
  <2> QED BY <2>2, <2>5
<1> QED BY <1>1, <1>2

LEMMA OpenFileHdr ==
    ASSUME IInv, PageInv, HdrInv, NEW b \in Pools, OpenFile(b)
    PROVE  HdrInv'
<1>1. /\ open \in SUBSET Pools /\ th \in [Threads -> ThreadRec] /\ StateOK(Memory, th, open, lock)
      /\ log \in Seq(Entry) /\ redo \in Nat \ {0} /\ DataOK(Memory, th, log, written, mode, redo, open)
      /\ Len(log) \in Nat /\ LogOK(log) /\ \A a \in Pools : HdrOK(Memory, th, log, mode, redo, open, a)
      /\ MemOK(Memory, open) /\ Memory.durable \in 0..Len(log)
  BY HdrNow
<1>2. /\ mode = "run" /\ b \notin open /\ open' = open \cup {b} /\ UNCHANGED <<log, th, mode, redo>>
  BY DEF OpenFile
<1>3. PICK f, k, S, h2, lg, op2 : f = Memory /\ k = <<b, Header>> /\ S = {k} /\ h2 = th' /\ lg = log' /\ op2 = open'
  OBVIOUS
<1>4. PICK e \in MakeRoom(f, b) : SetMemory(LoadPage(Alloc(e, k), k))
  BY <1>3 DEF OpenFile
<1>5. /\ StateOK(f, th, open, lock) /\ DataOK(f, th, log, written, mode, redo, open) /\ MemOK(f, open)
      /\ f.durable \in 0..Len(log)
  BY <1>1, <1>3
<1>6. HeadersSame(f, e) /\ DurableUp(f, e, Len(log))
  BY <1>1, <1>2, <1>5, MakeRoomHdr DEF InRun
<1>7. StateOK(e, th, open, lock)
  BY <1>1, <1>5, MakeRoomStep
<1>8. IsMem(e) /\ MemOK(e, open) /\ k \notin DOMAIN e.frame
  <2>1. IsMem(e) /\ MemOK(e, open)
    BY <1>7 DEF StateOK
  <2> QED BY <1>2, <1>3, <2>1 DEF MemOK, FramesOK
<1>9. PICK a, g : a = Alloc(e, k) /\ g = LoadPage(a, k)
  OBVIOUS
<1>10. IsMem(g) /\ ReadIn(e, g, k)
  BY <1>8, <1>9, ReadEffect
<1>11. OthersSame(e, g, S) /\ g.store = e.store /\ g.durable = e.durable /\ g.frame[k].data = e.store[k]
  BY <1>3, <1>10 DEF ReadIn
<1>12. PICK s : s = f.store[k] /\ e.store[k] = s /\ g.store[k] = s /\ HdrOf(g, b) = s
  <2>1. e.store[k] = f.store[k]
    BY <1>3, <1>6 DEF HeadersSame, Same
  <2> QED BY <1>3, <1>11, <2>1 DEF HdrOf
<1>13. /\ DurableUp(f, g, Len(log)) /\ f.durable \in Nat /\ g.durable \in Nat /\ f.durable <= g.durable
       /\ g.durable <= Len(log)
  BY <1>6, <1>11 DEF DurableUp
<1>14. HeaderAt(s, log, Len(log), b) /\ \E m \in 0..f.durable : Says(s, log, m, b)
  <2>1. HdrOK(f, th, log, mode, redo, open, b)
    BY <1>1, <1>3
  <2>2. StoreHdrOK(f, log, b) /\ ClosedHdrOK(f, log, b)
    BY <1>2, <2>1 DEF HdrOK
  <2> QED BY <1>3, <1>12, <2>2 DEF StoreHdrOK, ClosedHdrOK
<1>15. PICK m \in Nat : m <= g.durable /\ m <= Len(log) /\ Says(s, log, m, b)
  BY <1>1, <1>13, <1>14
<1>16. StoreHdrOK(g, log, b)
  <2>1. m \in 0..g.durable
    BY <1>13, <1>15
  <2> QED BY <1>3, <1>12, <1>15, <2>1 DEF StoreHdrOK
<1>17. RestHdrOK(g, log, b)
  <2>1. Clean(g, b)
    BY <1>3, <1>12 DEF Clean
  <2>2. m \in 0..Len(log) /\ SoFar(g, s, m)
    BY <1>1, <1>15 DEF SoFar
  <2> QED BY <1>12, <1>14, <1>15, <2>1, <2>2 DEF RestHdrOK
<1>18. ~Extender(th, b)
  <2>1. ASSUME NEW u \in Threads, Extends(th[u], b) PROVE b \in open
    <3>1. ThreadOK(th[u], u, f, open, lock)
      BY <1>5 DEF StateOK
    <3>2. th[u].pc # "idle" /\ th[u].key[1] = b
      BY <2>1 DEF Extends, Making
    <3> QED BY <3>1, <3>2 DEF ThreadOK
  <2> QED BY <1>2, <2>1 DEF Extender
<1>19. HdrOK(g, h2, lg, "run", redo, op2, b)
  <2>1. b \in op2 /\ lg = log /\ ~Extender(h2, b)
    BY <1>2, <1>3, <1>18
  <2> QED BY <1>16, <1>17, <2>1 DEF HdrOK
<1>20. ASSUME NEW c \in Pools, c # b PROVE OtherHeader(f, g, th, h2, log, lg, open, op2, c)
  <2>1. <<c, Header>> \in Keys \ S
    BY <1>3, <1>20, BufferPoolAssumption DEF Keys, Header
  <2>2. Same(e, g, <<c, Header>>) /\ Same(f, e, <<c, Header>>)
    BY <1>6, <1>11, <2>1 DEF OthersSame, HeadersSame
  <2>3. Same(f, g, <<c, Header>>)
    BY <2>2 DEF Same
  <2>4. LogMore(log, log, c)
    BY <1>1, LogStays
  <2> QED BY <1>2, <1>3, <1>20, <2>3, <2>4 DEF OtherHeader
<1>21. Memory' = g
  BY <1>4, <1>9, <1>10, SetMemoryIs
<1>22. LogOK(lg) /\ DurableUp(f, g, Len(lg))
  BY <1>1, <1>2, <1>3, <1>13
<1> QED BY <1>2, <1>3, <1>19, <1>20, <1>21, <1>22, OneHeader

-----------------------------------------------------------------------------
(***************************************************************************)
(* The crash, and the recovery.                                            *)
(***************************************************************************)
LEMMA SaysShortened ==
    ASSUME NEW lg, NEW lg2, NEW n \in Nat, NEW m \in Nat, NEW b, NEW d, d.lsn \in Nat, Shortened(lg, lg2, n), m <= n,
           Says(d, lg, m, b)
    PROVE  Says(d, lg2, m, b)
<1>1. Agree(lg, lg2, n) /\ m \in d.lsn..Len(lg2)
  BY DEF Shortened, Agree, Says
<1>2. HeaderAt(d, lg2, m, b)
  BY <1>1, HeaderAgrees DEF Says
<1>3. NoDispose(lg2, d.lsn, m, b)
  BY DEF Says, NoDispose, Shortened
<1> QED BY <1>1, <1>2, <1>3 DEF Says

LEMMA CrashHdr ==
    ASSUME IInv, PageInv, HdrInv, Crash
    PROVE  HdrInv'
<1>1. /\ open \in SUBSET Pools /\ MemOK(Memory, open) /\ log \in Seq(Entry) /\ Len(log) \in Nat
      /\ Memory.durable \in 0..Len(log) /\ LogOK(log) /\ \A a \in Pools : HdrOK(Memory, th, log, mode, redo, open, a)
  BY HdrNow
<1>2. PICK n \in 0..Len(log) : durable <= n /\ log' = SubSeq(log, 1, n) /\ durable' = n
  BY DEF Crash
<1>3. /\ frame' = OpenAll(store) /\ store' = store /\ open' = Pools /\ mode' = "redo" /\ redo' = 1
  BY DEF Crash
<1>4. PICK f, g, h2, lg : f = Memory /\ g = Memory' /\ h2 = th' /\ lg = log'
  OBVIOUS
<1>5. Shortened(log, lg, n) /\ n \in Nat /\ n <= Len(log)
  <2>1. n \in Int /\ \A i \in 1..n : log[i] \in Entry
    BY <1>1, <1>2
  <2>2. Len(lg) = n /\ \A i \in 1..n : lg[i] = log[i]
    BY <1>1, <1>2, <1>4, <2>1, SubSeqProperties
  <2> QED BY <1>1, <2>2 DEF Shortened
<1>6. MemOK(f, open) /\ f.durable \in Nat /\ f.durable <= n
  BY <1>1, <1>2, <1>4, MemoryIs
<1>7. g.frame = OpenAll(f.store) /\ g.store = f.store /\ g.durable = n
  BY <1>2, <1>3, <1>4, MemoryIs, MemoryNext
<1>8. \A k \in Headers : g.frame[k].data = f.store[k]
  BY <1>7 DEF OpenAll
<1>9. LogOK(lg)
  <2>1. Agree(log, lg, n) /\ Len(lg) = n
    BY <1>5 DEF Shortened, Agree
  <2>2. ASSUME NEW i \in 1..n PROVE EntryOK(lg, i)
    <3>1. EntryOK(log, i)
      BY <1>1, <1>5 DEF LogOK
    <3> QED BY <1>5, <2>1, <3>1, EntryAgrees
  <2> QED BY <2>1, <2>2 DEF LogOK
<1>10. ASSUME NEW b \in Pools PROVE HdrOK(g, h2, lg, "redo", 1, Pools, b)
  <2>1. PICK s : s = f.store[<<b, Header>>] /\ s = g.store[<<b, Header>>] /\ s = HdrOf(g, b)
    <3>1. <<b, Header>> \in Headers
      BY DEF Headers
    <3> QED BY <1>7, <1>8, <3>1 DEF HdrOf
  <2>2. s.lsn \in Nat
    BY <1>1, <1>6, <2>1, HdrFacts
  <2>3. PICK m \in Nat : m <= f.durable /\ Says(s, log, m, b)
    <3>1. HdrOK(f, th, log, mode, redo, open, b)
      BY <1>1, <1>4
    <3> QED BY <1>6, <2>1, <3>1 DEF HdrOK, StoreHdrOK
  <2>4. m <= n /\ Len(lg) = n
    BY <1>5, <1>6, <2>3 DEF Shortened
  <2>5. Says(s, lg, m, b)
    BY <1>5, <2>2, <2>3, <2>4, SaysShortened
  <2>6. m \in 0..g.durable /\ m \in 1 - 1..Len(lg)
    BY <1>5, <1>7, <2>4
  <2>7. StoreHdrOK(g, lg, b)
    BY <2>1, <2>5, <2>6 DEF StoreHdrOK
  <2>8. RedoHdrOK(g, lg, 1, b)
    BY <2>1, <2>5, <2>6 DEF RedoHdrOK, Clean
  <2> QED BY <2>7, <2>8 DEF HdrOK
<1>11. durable' = Len(log')
  BY <1>2, <1>4, <1>5 DEF Shortened
<1> QED BY <1>3, <1>4, <1>9, <1>10, <1>11 DEF HdrInv

\* What redo_allocate_page and redo_deallocate_page make of header d, for entry rd and page number n.
Allocates(d, d2, n, rd) ==
    \/ (d.lsn >= rd \/ n \in d.bits) /\ d2 = d
    \/ d.lsn < rd /\ n \notin d.bits /\ Gains(d, d2, n) /\ d2.lsn \in {d.lsn, rd}
Deallocates(d, d2, n, rd) ==
    \/ d.lsn >= rd /\ d2 = d
    \/ d.lsn < rd /\ Loses(d, d2, n) /\ d2.lsn = rd

LEMMA AllocateRedone ==
    ASSUME NEW lg, NEW rd \in Nat \ {0}, NEW k \in Pages, NEW b \in Pools, NEW d, NEW d2, NEW m \in Nat,
           Len(lg) \in Nat, rd <= Len(lg), k[1] = b, lg[rd] = A(k), LogOK(lg), d.lsn \in Nat, d.count \in Nat,
           m >= rd - 1, Says(d, lg, m, b), Allocates(d, d2, k[2], rd)
    PROVE  \E m2 \in Nat : m2 >= rd /\ Says(d2, lg, m2, b)
<1>1. PICK l \in Nat : l = rd - 1 /\ rd = l + 1
  OBVIOUS
<1>2. d.lsn <= m /\ m <= Len(lg) /\ HeaderAt(d, lg, m, b) /\ NoDispose(lg, d.lsn, m, b)
  BY DEF Says
<1>3. k[2] \in d.bits <=> AllocAt(lg, m, k)
  BY <1>2 DEF HeaderAt, BitsAt
<1>4. ~AllocAt(lg, l, k)
  BY <1>1 DEF LogOK, EntryOK
<1>5. CASE d2 = d /\ m >= rd
  BY <1>5
<1>6. CASE (d.lsn >= rd \/ k[2] \in d.bits) /\ d2 = d
  <2>1. m # l
    BY <1>1, <1>2, <1>3, <1>4, <1>6
  <2> QED BY <1>1, <1>5, <1>6, <2>1
<1>7. CASE d.lsn < rd /\ k[2] \notin d.bits /\ Gains(d, d2, k[2]) /\ d2.lsn \in {d.lsn, rd}
  <2>1. m = l
    <3> SUFFICES ASSUME m >= rd PROVE AllocAt(lg, m, k)
      BY <1>1, <1>3, <1>7
    <3>1. ASSUME NEW i \in rd + 1..m PROVE lg[i] # D(k)
      BY <1>7 , <1>2 DEF NoDispose
    <3>2. rd \in 1..m
      OBVIOUS
    <3> QED BY <3>1, <3>2 DEF AllocAt
  <2>2. InitCount[b] \in Nat
    BY BufferPoolAssumption
  <2>3. HeaderAt(d2, lg, rd, b)
    BY <1>1, <1>2, <1>7, <2>1, <2>2, HeaderGains
  <2>4. NoDispose(lg, d2.lsn, rd, b)
    <3>1. ASSUME NEW i \in d2.lsn + 1..rd, NEW j \in Pages, j[1] = b PROVE lg[i] # D(j)
      <4>1. CASE i = rd
        BY <4>1, EntriesDiffer
      <4>2. CASE i # rd
        <5>1. i \in d.lsn + 1..m
          BY <1>1, <1>7, <2>1, <4>2
        <5> QED BY <1>2, <3>1, <5>1 DEF NoDispose
      <4> QED BY <4>1, <4>2
    <3> QED BY <3>1 DEF NoDispose
  <2>5. rd \in d2.lsn..Len(lg)
    BY <1>7
  <2>6. Says(d2, lg, rd, b)
    BY <2>3, <2>4, <2>5 DEF Says
  <2> QED BY <2>6
<1> QED BY <1>6, <1>7 DEF Allocates

LEMMA DeallocateRedone ==
    ASSUME NEW lg, NEW rd \in Nat \ {0}, NEW k \in Pages, NEW b \in Pools, NEW d, NEW d2, NEW m \in Nat,
           Len(lg) \in Nat, rd <= Len(lg), k[1] = b, lg[rd] = D(k), d.lsn \in Nat,
           m >= rd - 1, Says(d, lg, m, b), Deallocates(d, d2, k[2], rd)
    PROVE  \E m2 \in Nat : m2 >= rd /\ Says(d2, lg, m2, b)
<1>1. PICK l \in Nat : l = rd - 1 /\ rd = l + 1
  OBVIOUS
<1>2. d.lsn <= m /\ m <= Len(lg) /\ HeaderAt(d, lg, m, b) /\ NoDispose(lg, d.lsn, m, b)
  BY DEF Says
<1>3. CASE d.lsn >= rd /\ d2 = d
  BY <1>2, <1>3
<1>4. CASE d.lsn < rd /\ Loses(d, d2, k[2]) /\ d2.lsn = rd
  <2>1. m = l
    <3>1. ~(m >= rd)
      BY <1>2, <1>4 DEF NoDispose
    <3> QED BY <1>1, <3>1
  <2>2. HeaderAt(d2, lg, rd, b)
    BY <1>1, <1>2, <1>4, <2>1, HeaderLoses
  <2>3. Says(d2, lg, rd, b)
    BY <1>4, <2>2 DEF Says, NoDispose
  <2> QED BY <2>3
<1> QED BY <1>3, <1>4 DEF Deallocates

\* The entry is none of file b.
LEMMA OtherRedone ==
    ASSUME NEW lg, NEW rd \in Nat \ {0}, NEW b, NEW d, NEW m \in Nat,
           Len(lg) \in Nat, rd <= Len(lg), ~OfFile(lg, rd, b), d.lsn \in Nat, m >= rd - 1, Says(d, lg, m, b)
    PROVE  \E m2 \in Nat : m2 >= rd /\ Says(d, lg, m2, b)
<1>1. d.lsn <= m /\ m <= Len(lg) /\ HeaderAt(d, lg, m, b) /\ NoDispose(lg, d.lsn, m, b)
  BY DEF Says
<1>2. CASE m >= rd
  BY <1>2
<1>3. CASE ~(m >= rd)
  <2>1. m = rd - 1 /\ m <= rd /\ NoneOf(lg, m, rd, b)
    <3>1. m = rd - 1
      BY <1>3
    <3> QED BY <3>1 DEF NoneOf
  <2>2. HeaderAt(d, lg, rd, b)
    BY <1>1, <2>1, HeaderLater
  <2>3. NoDispose(lg, d.lsn, rd, b)
    <3>1. ASSUME NEW i \in d.lsn + 1..rd, NEW j \in Pages, j[1] = b PROVE lg[i] # D(j)
      <4>1. CASE i = rd
        BY <3>1, <4>1 DEF OfFile
      <4>2. CASE i # rd
        <5>1. i \in d.lsn + 1..m
          BY <2>1, <4>2
        <5> QED BY <1>1, <3>1, <5>1 DEF NoDispose
      <4> QED BY <4>1, <4>2
    <3> QED BY <3>1 DEF NoDispose
  <2>4. Says(d, lg, rd, b)
    BY <1>1, <2>1, <2>2, <2>3 DEF Says
  <2> QED BY <2>4
<1> QED BY <1>2, <1>3

\* Replaying an allocation never fails: the page is not behind page_count.
LEMMA AllocateReplays ==
    ASSUME NEW lg, NEW rd \in Nat \ {0}, NEW k \in Pages, NEW b \in Pools, NEW d, NEW m \in Nat,
           Len(lg) \in Nat, rd <= Len(lg), k[1] = b, lg[rd] = A(k), LogOK(lg), d.count \in Nat,
           m >= rd - 1, Says(d, lg, m, b)
    PROVE  k[2] <= d.count
<1>1. Reached(lg, rd - 1, b, k[2])
  BY DEF LogOK, EntryOK
<1>2. d.count >= InitCount[b] /\ \A i \in 1..m, j \in Pages : j[1] = b /\ lg[i] = A(j) => j[2] < d.count
  BY DEF Says, HeaderAt, Below
<1>3. k[2] \in Nat /\ InitCount[b] \in Nat
  BY BufferPoolAssumption DEF Pages
<1>4. CASE k[2] <= InitCount[b]
  BY <1>2, <1>3, <1>4
<1>5. CASE \E i \in 1..rd - 1, j \in Pages : j[1] = b /\ lg[i] = A(j) /\ k[2] <= j[2] + 1
  <2>1. PICK i \in 1..rd - 1, j \in Pages : j[1] = b /\ lg[i] = A(j) /\ k[2] <= j[2] + 1
    BY <1>5
  <2>2. i \in 1..m
    OBVIOUS
  <2>3. j[2] < d.count /\ j[2] \in Nat
    BY <1>2, <2>1, <2>2 DEF Pages
  <2> QED BY <1>3, <2>1, <2>3
<1> QED BY <1>1, <1>4, <1>5 DEF Reached

\* Nor does replaying a disposal: the page is allocated, unless the header is newer.
LEMMA DeallocateReplays ==
    ASSUME NEW lg, NEW rd \in Nat \ {0}, NEW k \in Pages, NEW b \in Pools, NEW d, NEW m \in Nat,
           Len(lg) \in Nat, rd <= Len(lg), k[1] = b, lg[rd] = D(k), LogOK(lg), HeaderOK(d), d.lsn \in Nat, d.count \in Nat,
           m >= rd - 1, Says(d, lg, m, b), d.lsn < rd
    PROVE  k[2] \in d.bits /\ k[2] < d.count
<1>1. PICK l \in Nat : l = rd - 1
  OBVIOUS
<1>2. d.lsn <= m /\ HeaderAt(d, lg, m, b) /\ NoDispose(lg, d.lsn, m, b)
  BY DEF Says
<1>3. m = l
  <2>1. ~(m >= rd)
    BY <1>2 DEF NoDispose
  <2> QED BY <1>1, <2>1
<1>4. AllocAt(lg, l, k)
  BY <1>1 DEF LogOK, EntryOK
<1>5. k[2] \in d.bits
  BY <1>2, <1>3, <1>4 DEF HeaderAt, BitsAt
<1>6. k[2] < d.count
  BY <1>5 DEF HeaderOK
<1> QED BY <1>5, <1>6

\* What a step of the replay keeps: the headers of files that it leaves alone.
RedoAt(f, h, lg, rd, b) == HdrOK(f, h, lg, "redo", rd, Pools, b)
LEMMA HdrKept ==
    ASSUME NEW f, NEW g, NEW h, NEW lg \in Seq(Entry), NEW rd \in Nat \ {0}, NEW b \in Pools, MemOK(f, Pools),
           RedoAt(f, h, lg, rd, b), rd <= Len(lg), ~OfFile(lg, rd, b), Same(f, g, <<b, Header>>), DurableUp(f, g, Len(lg))
    PROVE  RedoAt(g, h, lg, rd + 1, b)
<1>0. PICK op \in SUBSET Pools : op = Pools
  OBVIOUS
<1>1. PICK md, n : op = Pools /\ md = "redo" /\ n = rd + 1 /\ n - 1 = rd
  BY <1>0
<1>2. MemOK(f, op) /\ b \in op /\ HdrOK(f, h, lg, md, rd, op, b) /\ md # "run"
  BY <1>1 DEF RedoAt
<1>3. PICK d : d = HdrOf(f, b)
  OBVIOUS
<1>4. d.lsn \in Nat /\ Len(lg) \in Nat
  <2>1. HdrOf(f, b).lsn \in Nat
    BY <1>2, HdrFacts
  <2> QED BY <1>3, <2>1
<1>5. StoreHdrOK(f, lg, b) /\ RedoHdrOK(f, lg, rd, b)
  BY <1>1, <1>2 DEF HdrOK
<1>6. PICK m \in Nat : Clean(f, b) /\ m >= rd - 1 /\ Says(d, lg, m, b)
  BY <1>3, <1>4, <1>5 DEF RedoHdrOK
<1>7. PICK m2 \in Nat : m2 >= rd /\ Says(d, lg, m2, b)
  BY <1>4, <1>6, OtherRedone
<1>8. m2 \in n - 1..Len(lg)
  BY <1>1, <1>4, <1>7 DEF Says
<1>9. RedoHdrOK(f, lg, n, b)
  BY <1>3, <1>6, <1>7, <1>8 DEF RedoHdrOK
<1>10. HdrOK(f, h, lg, md, n, op, b)
  BY <1>1, <1>2, <1>5, <1>9 DEF HdrOK
<1>11. LogMore(lg, lg, b)
  BY LogStays
<1>12. HdrOK(g, h, lg, md, n, op, b)
  BY <1>2, <1>10, <1>11, HdrStep
<1> QED BY <1>1, <1>12 DEF RedoAt

\* And the header that it sets.
LEMMA HdrRedone ==
    ASSUME NEW f, NEW g, NEW h, NEW lg \in Seq(Entry), NEW rd \in Nat \ {0}, NEW b \in Pools, NEW d2, NEW m \in Nat,
           MemOK(f, Pools), IsMem(f), StoreHdrOK(f, lg, b), Clean(f, b), m >= rd, Says(d2, lg, m, b),
           (g = f /\ HdrOf(f, b) = d2) \/ g = SetHeader(f, b, d2)
    PROVE  RedoAt(g, h, lg, rd + 1, b)
<1>0. PICK c : IsHdr(c, b)
  BY DEF IsHdr
<1>1. PICK op, n : op = Pools /\ n = rd + 1 /\ n - 1 = rd /\ IsHdr(c, b)
  BY <1>0
<1>2. HdrOf(g, b) = d2 /\ Clean(g, b) /\ g.store = f.store /\ g.durable = f.durable
  <2>1. CASE g = f /\ HdrOf(f, b) = d2
    BY <2>1
  <2>2. CASE g = SetHeader(f, b, d2)
    <3>1. op \in SUBSET Pools /\ b \in op /\ IsMem(f) /\ MemOK(f, op) /\ IsHdr(c, b)
      BY <1>1
    <3>2. g.store = f.store /\ g.durable = f.durable /\ HdrOf(g, b) = d2 /\ IsDirty(g, c)
      BY <2>2, <3>1, SetHeaderEffect
    <3> QED BY <1>1, <3>2 DEF Clean, IsHdr
  <2> QED BY <2>1, <2>2
<1>3. StoreHdrOK(g, lg, b)
  BY <1>2 DEF StoreHdrOK
<1>4. m \in n - 1..Len(lg)
  BY <1>1 DEF Says
<1>5. RedoHdrOK(g, lg, n, b)
  BY <1>2, <1>4 DEF RedoHdrOK
<1> QED BY <1>1, <1>3, <1>5 DEF RedoAt, HdrOK

LEMMA ReplayedHeader ==
    ASSUME NEW f, NEW g, NEW h, NEW lg \in Seq(Entry), NEW rd \in Nat \ {0}, NEW k \in Pages, NEW b \in Pools, k[1] = b,
           IsMem(f), MemOK(f, Pools), RedoAt(f, h, lg, rd, b), rd <= Len(lg), LogOK(lg), f.durable \in 0..Len(lg),
           \/ lg[rd] = A(k) /\ g = RedoAllocate(f, b, k[2], rd)
           \/ lg[rd] = D(k) /\ g = RedoDeallocate(f, b, k[2], rd)
    PROVE  RedoAt(g, h, lg, rd + 1, b)
<1>1. PICK d, n : d = HdrOf(f, b) /\ n = k[2]
  OBVIOUS
<1>2. HeaderOK(d) /\ d \in FileHdr /\ d.lsn \in Nat /\ d.count \in Nat /\ Len(lg) \in Nat
  <2>1. PICK op \in SUBSET Pools : op = Pools
    OBVIOUS
  <2>2. MemOK(f, op) /\ b \in op
    BY <2>1
  <2>3. HeaderOK(d) /\ d.lsn \in Nat /\ d.count \in Nat
    BY <1>1, <2>2, HdrFacts
  <2> QED BY <2>3 DEF HeaderOK
<1>3. StoreHdrOK(f, lg, b) /\ RedoHdrOK(f, lg, rd, b)
  BY DEF RedoAt, HdrOK
<1>4. PICK m \in Nat : Clean(f, b) /\ m >= rd - 1 /\ Says(d, lg, m, b)
  BY <1>1, <1>2, <1>3 DEF RedoHdrOK
<1>5. CASE lg[rd] = A(k) /\ g = RedoAllocate(f, b, n, rd)
  <2>1. n <= d.count /\ n \in Nat
    <3>1. k[2] <= d.count
      BY <1>2, <1>4, <1>5, AllocateReplays
    <3> QED BY <1>1, <3>1 DEF Pages
  <2>2. PICK d2 : Allocates(d, d2, n, rd) /\ ((g = f /\ d2 = d) \/ g = SetHeader(f, b, d2))
    <3>1. CASE d.lsn >= rd \/ n \in d.bits
      <4>1. g = f
        BY <1>1, <1>5, <3>1 DEF RedoAllocate, HdrOf
      <4> QED BY <3>1, <4>1 DEF Allocates
    <3>2. CASE d.lsn < rd /\ n \notin d.bits /\ n < d.count
      <4>1. PICK d2 : d2 = [d EXCEPT !.bits = @ \cup {n}]
        OBVIOUS
      <4>2. g = SetHeader(f, b, d2)
        BY <1>1, <1>2, <1>5, <3>2, <4>1 DEF RedoAllocate, HdrOf
      <4>3. Gains(d, d2, n) /\ d2.lsn = d.lsn
        BY <1>2, <3>2, <4>1 DEF FileHdr, Gains
      <4> QED BY <3>2, <4>2, <4>3 DEF Allocates
    <3>3. CASE d.lsn < rd /\ n \notin d.bits /\ n = d.count
      <4>1. PICK d2 : d2 = [count |-> d.count + 1, bits |-> d.bits \cup {n}, lsn |-> rd]
        OBVIOUS
      <4>2. g = SetHeader(f, b, d2)
        BY <1>1, <1>2, <1>5, <3>3, <4>1 DEF RedoAllocate, HdrOf
      <4>3. Gains(d, d2, n) /\ d2.lsn = rd
        BY <3>3, <4>1 DEF Gains
      <4> QED BY <3>3, <4>2, <4>3 DEF Allocates
    <3> QED BY <1>2, <2>1, <3>1, <3>2, <3>3
  <2>3. PICK m2 \in Nat : m2 >= rd /\ Says(d2, lg, m2, b)
    <3>1. Allocates(d, d2, k[2], rd)
      BY <1>1, <2>2
    <3> QED BY <1>2, <1>4, <1>5, <3>1, AllocateRedone
  <2>4. CASE g = f /\ d2 = d
    <3>1. HdrOf(f, b) = d2
      BY <1>1, <2>4
    <3> QED BY <1>3, <1>4, <2>3, <2>4, <3>1, HdrRedone
  <2>5. CASE g = SetHeader(f, b, d2)
    BY <1>3, <1>4, <2>3, <2>5, HdrRedone
  <2> QED BY <2>2, <2>4, <2>5
<1>6. CASE lg[rd] = D(k) /\ g = RedoDeallocate(f, b, n, rd)
  <2>1. PICK d2 : Deallocates(d, d2, n, rd) /\ ((g = f /\ d2 = d) \/ g = SetHeader(f, b, d2))
    <3>1. CASE d.lsn >= rd
      <4>1. g = f
        BY <1>1, <1>6, <3>1 DEF RedoDeallocate, HdrOf
      <4> QED BY <3>1, <4>1 DEF Deallocates
    <3>2. CASE d.lsn < rd
      <4>1. PICK d2 : d2 = [d EXCEPT !.bits = @ \ {n}, !.lsn = rd]
        OBVIOUS
      <4>2. g = SetHeader(f, b, d2)
        BY <1>1, <1>2, <1>6, <3>2, <4>1 DEF RedoDeallocate, HdrOf
      <4>3. Loses(d, d2, n) /\ d2.lsn = rd
        BY <1>2, <4>1 DEF FileHdr, Loses
      <4> QED BY <3>2, <4>2, <4>3 DEF Deallocates
    <3> QED BY <1>2, <3>1, <3>2
  <2>2. PICK m2 \in Nat : m2 >= rd /\ Says(d2, lg, m2, b)
    <3>1. Deallocates(d, d2, k[2], rd)
      BY <1>1, <2>1
    <3> QED BY <1>2, <1>4, <1>6, <3>1, DeallocateRedone
  <2>3. CASE g = f /\ d2 = d
    <3>1. HdrOf(f, b) = d2
      BY <1>1, <2>3
    <3> QED BY <1>3, <1>4, <2>2, <2>3, <3>1, HdrRedone
  <2>4. CASE g = SetHeader(f, b, d2)
    BY <1>3, <1>4, <2>2, <2>4, HdrRedone
  <2> QED BY <2>1, <2>3, <2>4
<1> QED BY <1>1, <1>5, <1>6

\* A change of a page is replayed in frames of pages.
LEMMA RedoWriteHdr ==
    ASSUME NEW f, NEW h \in [Threads -> ThreadRec], NEW lk, NEW lg \in Seq(Entry), NEW w, NEW rd \in Nat \ {0},
           NEW k \in Pages, NEW a \in Fetch(f, k), NEW g,
           StateOK(f, h, Pools, lk), DataOK(f, h, lg, w, "redo", rd, Pools), rd <= Len(lg), AllIdle(h), g = RedoWrite(a, k, rd)
    PROVE  HeadersSame(f, g) /\ DurableUp(f, g, Len(lg)) /\ IsMem(g)
<1>0. PICK op \in SUBSET Pools, lsn \in Nat : op = Pools /\ lsn = rd
  OBVIOUS
<1>1. PICK md, S : op = Pools /\ lsn = rd /\ md = "redo" /\ S = {k}
  BY <1>0
<1>2. /\ StateOK(f, h, op, lk) /\ DataOK(f, h, lg, w, md, rd, op) /\ Len(lg) \in Nat
      /\ IsMem(f) /\ MemOK(f, op) /\ rd - 1 <= Len(lg) /\ f.durable \in 0..Len(lg)
  BY <1>1 DEF StateOK, DataOK
<1>3. QuietOK(f)
  <2>1. op \in SUBSET Pools /\ IsMem(f) /\ MemOK(f, op)
    BY <1>2
  <2> QED BY <1>1, <1>2, <2>1, QuietState DEF QuietOK
<1>4. IsMem(a) /\ MemOK(a, op) /\ k \in DOMAIN a.frame
  <2>1. IsMem(a) /\ MemOK(a, Pools) /\ k \in DOMAIN a.frame
    BY <1>3, FetchOK
  <2> QED BY <1>1, <2>1
<1>5. OthersSame(a, g, S) /\ g.durable = a.durable /\ S \subseteq Pages
  <2>1. g = RedoWrite(a, k, lsn)
    BY <1>1
  <2>2. /\ OthersSame(a, g, {k}) /\ g.store = a.store /\ g.durable = a.durable /\ g.lost = a.lost
        /\ k \in DOMAIN g.frame /\ Rewritten(a, g, k, lsn)
    BY <1>4, <2>1, RedoWriteEffect
  <2> QED BY <1>1, <2>2
<1>6. HeadersSame(a, g)
  BY <1>5, PageHeaders
<1>7. HeadersSame(f, a) /\ DurableUp(f, a, Len(lg))
  <2>1. CASE k \in DOMAIN f.frame
    <3>1. a = Pin(f, k)
      BY <2>1 DEF Fetch
    <3>2. OnlyPins(f, a)
      BY <1>2, <2>1, <3>1, PinEffect
    <3>3. PICK T : T = {}
      OBVIOUS
    <3>4. OthersSame(f, a, T) /\ a.durable = f.durable
      BY <3>2, <3>3 DEF OnlyPins
    <3>5. T \subseteq Pages
      BY <3>3
    <3>6. HeadersSame(f, a)
      BY <3>4, <3>5, PageHeaders
    <3> QED BY <1>2, <3>4, <3>6 DEF DurableUp
  <2>2. CASE k \notin DOMAIN f.frame
    <3>1. PICK e \in MakeRoom(f, k[1]) : a = LoadPage(Alloc(e, k), k)
      BY <2>2 DEF Fetch
    <3>2. HeadersSame(f, e) /\ DurableUp(f, e, Len(lg))
      BY <1>2, MakeRoomHdr
    <3>3. RoomMade(f, e)
      BY <1>2, MakeRoomData
    <3>4. StateOK(e, h, op, lk)
      BY <1>2, MakeRoomStep
    <3>5. IsMem(e) /\ k \notin DOMAIN e.frame
      BY <2>2, <3>3, <3>4 DEF StateOK, RoomMade
    <3>6. ReadIn(e, a, k)
      BY <3>1, <3>5, ReadEffect
    <3>7. OthersSame(e, a, S) /\ a.durable = e.durable
      BY <1>1, <3>6 DEF ReadIn
    <3>8. HeadersSame(e, a)
      BY <1>5, <3>7, PageHeaders
    <3>9. HeadersSame(f, a)
      BY <3>2, <3>8 DEF HeadersSame, Same
    <3> QED BY <3>2, <3>7, <3>9 DEF DurableUp
  <2> QED BY <2>1, <2>2
<1>8. HeadersSame(f, g)
  BY <1>6, <1>7 DEF HeadersSame, Same
<1>9. DurableUp(f, g, Len(lg))
  BY <1>5, <1>7 DEF DurableUp
<1>10. IsMem(g)
  <2>1. g = RedoWrite(a, k, lsn)
    BY <1>1
  <2>2. QuietOK(g)
    BY <1>3, <2>1, RedoWriteOK
  <2> QED BY <2>2 DEF QuietOK
<1> QED BY <1>8, <1>9, <1>10

LEMMA ReplayHdr ==
    ASSUME IInv, PageInv, HdrInv, Replay
    PROVE  HdrInv'
<1>1. /\ StateOK(Memory, th, open, lock) /\ IsMem(Memory) /\ MemOK(Memory, open) /\ log \in Seq(Entry)
      /\ th \in [Threads -> ThreadRec] /\ DataOK(Memory, th, log, written, mode, redo, open) /\ Len(log) \in Nat
      /\ Memory.durable \in 0..Len(log) /\ LogOK(log) /\ \A b \in Pools : HdrOK(Memory, th, log, mode, redo, open, b)
  BY HdrNow
<1>2. /\ mode = "redo" /\ redo <= Len(log) /\ UNCHANGED <<lock, open, log, th, written>> /\ redo \in Nat \ {0}
  BY DEF Replay, IInv, TypeInv
<1>3. open = Pools /\ AllIdle(th) /\ durable = Len(log)
  BY <1>2 DEF IInv, QuietInv, AllIdle, HdrInv
<1>40. PICK e \in Entry, k \in Pages, b \in Pools :
          e = log[redo] /\ k = e.key /\ b = k[1] /\ redo \in 1..Len(log) /\ (e = A(k) \/ e = D(k) \/ e = W(k))
  <2>1. redo \in 1..Len(log)
    BY <1>1, <1>2
  <2>2. PICK e \in Entry : e = log[redo]
    BY <1>1, <2>1
  <2>3. e.key \in Pages /\ e.key[1] \in Pools
    BY <2>2 DEF Entry, Pages
  <2>4. e = A(e.key) \/ e = D(e.key) \/ e = W(e.key)
    BY EntriesDiffer
  <2> QED BY <2>1, <2>2, <2>3, <2>4
<1>4. PICK n : e = log[redo] /\ k = e.key /\ b = k[1] /\ n = k[2] /\ redo \in 1..Len(log) /\ (e = A(k) \/ e = D(k) \/ e = W(k))
  BY <1>40
<1>5. PICK f : f = Memory
  OBVIOUS
<1>6. /\ StateOK(f, th, Pools, lock) /\ IsMem(f) /\ MemOK(f, Pools) /\ DataOK(f, th, log, written, "redo", redo, Pools)
      /\ f.durable \in 0..Len(log) /\ f.durable = Len(log) /\ \A a \in Pools : RedoAt(f, th, log, redo, a)
  BY <1>1, <1>2, <1>3, <1>5, MemoryIs DEF RedoAt
<1>7. PICK d : d = HdrOf(f, b) /\ HeaderOK(d) /\ d.lsn \in Nat /\ d.count \in Nat
  <2>1. PICK op \in SUBSET Pools : op = Pools
    OBVIOUS
  <2>2. MemOK(f, op) /\ b \in op
    BY <1>6, <2>1
  <2> QED BY <2>2, HdrFacts
<1>8. PICK m \in Nat : m >= redo - 1 /\ Says(d, log, m, b)
  <2>1. RedoHdrOK(f, log, redo, b)
    BY <1>6 DEF RedoAt, HdrOK
  <2> QED BY <1>1, <1>2, <1>7, <2>1 DEF RedoHdrOK
<1>9. ~RedoFails(f, e, redo)
  <2>1. CASE e = A(k)
    <3>1. n <= d.count /\ n \in Nat /\ n < MaxPageNum
      <4>1. k[2] <= d.count
        BY <1>1, <1>2, <1>4, <1>7, <1>8, <2>1, AllocateReplays
      <4> QED BY <1>4, <4>1, BufferPoolAssumption DEF Pages
    <3>2. ~(n > d.count) /\ ~(n = d.count /\ d.count >= MaxPageNum)
      BY <1>7, <3>1, BufferPoolAssumption
    <3>3. e.op = "allocate"
      BY <2>1 DEF A
    <3> QED BY <1>4, <1>7, <3>2, <3>3 DEF RedoFails, HdrOf
  <2>2. CASE e = D(k)
    <3>1. d.lsn < redo => n \in d.bits /\ n < d.count /\ n \in Nat
      <4>1. d.lsn < redo => k[2] \in d.bits /\ k[2] < d.count
        BY <1>1, <1>2, <1>4, <1>7, <1>8, <2>2, DeallocateReplays
      <4> QED BY <1>4, <4>1 DEF Pages
    <3>2. ~(d.lsn < redo /\ (n >= d.count \/ n \notin d.bits))
      BY <1>7, <3>1
    <3>3. e.op = "deallocate"
      BY <2>2 DEF D
    <3> QED BY <1>4, <1>7, <3>2, <3>3 DEF RedoFails, HdrOf
  <2>3. CASE e = W(k)
    <3>1. PageOK(f, th, log, written, "redo", redo, k)
      BY <1>6 DEF DataOK
    <3>2. f.store[k] # Absent
      BY <1>1, <1>2, <1>4, <2>3, <3>1 DEF PageOK
    <3>3. e.op = "write"
      BY <2>3 DEF W
    <3> QED BY <1>4, <3>2, <3>3 DEF RedoFails
  <2> QED BY <1>4, <2>1, <2>2, <2>3
<1>10. PICK g \in Redo(f, e, redo) : SetMemory(g) /\ redo' = redo + 1 /\ mode' = mode
  BY <1>4, <1>5, <1>9 DEF Replay
<1>11. CASE e = W(k)
  <2>1. PICK x \in Fetch(f, k) : g = RedoWrite(x, k, redo)
    <3>1. e.op = "write"
      BY <1>11 DEF W
    <3> QED BY <1>4, <1>10, <3>1 DEF Redo
  <2>2. HeadersSame(f, g) /\ DurableUp(f, g, Len(log)) /\ IsMem(g)
    BY <1>1, <1>2, <1>3, <1>6, <2>1, RedoWriteHdr
  <2>3. ASSUME NEW a \in Pools PROVE RedoAt(g, th, log, redo + 1, a)
    <3>1. ~OfFile(log, redo, a)
      BY <1>4, <1>11, EntriesDiffer DEF OfFile
    <3>2. Same(f, g, <<a, Header>>)
      BY <2>2 DEF HeadersSame
    <3> QED BY <1>1, <1>2, <1>6, <2>2, <3>1, <3>2, HdrKept
  <2>4. Memory' = g
    BY <1>10, <2>2, SetMemoryIs
  <2>5. durable' = Len(log)
    <3>1. g.durable = Len(log)
      BY <1>1, <1>6, <2>2 DEF DurableUp
    <3> QED BY <2>4, <3>1, MemoryNext
  <2> QED BY <1>1, <1>2, <1>3, <1>10, <2>3, <2>4, <2>5 DEF HdrInv, RedoAt
<1>12. CASE e = A(k) \/ e = D(k)
  <2>1. \/ log[redo] = A(k) /\ g = RedoAllocate(f, b, n, redo)
        \/ log[redo] = D(k) /\ g = RedoDeallocate(f, b, n, redo)
    <3>1. CASE e = A(k)
      <4>1. e.op = "allocate"
        BY <3>1 DEF A
      <4>2. g = RedoAllocate(f, b, n, redo)
        BY <1>4, <1>10, <4>1 DEF Redo
      <4>3. log[redo] = A(k)
        BY <1>4, <3>1
      <4> QED BY <4>2, <4>3
    <3>2. CASE e = D(k)
      <4>1. e.op = "deallocate"
        BY <3>2 DEF D
      <4>2. g = RedoDeallocate(f, b, n, redo)
        BY <1>4, <1>10, <4>1 DEF Redo
      <4>3. log[redo] = D(k)
        BY <1>4, <3>2
      <4> QED BY <4>2, <4>3
    <3> QED BY <1>12, <3>1, <3>2
  <2>2. RedoAt(g, th, log, redo + 1, b)
    BY <1>1, <1>2, <1>4, <1>6, <2>1, ReplayedHeader
  <2>3. g = f \/ \E x : g = SetHeader(f, b, x)
    BY <2>1 DEF RedoAllocate, RedoDeallocate
  <2>4. PICK S : S = {<<b, Header>>}
    OBVIOUS
  <2>5. IsMem(g) /\ g.durable = f.durable /\ OthersSame(f, g, S)
    <3>1. CASE g = f
      BY <1>6, <3>1 DEF OthersSame, Same
    <3>2. CASE \E x : g = SetHeader(f, b, x)
      <4>0. PICK x : g = SetHeader(f, b, x)
        BY <3>2
      <4>1. PICK c, op : g = SetHeader(f, b, x) /\ IsHdr(c, b) /\ op = Pools /\ op \in SUBSET Pools
        BY <4>0 DEF IsHdr
      <4>2. op \in SUBSET Pools /\ b \in op /\ IsMem(f) /\ MemOK(f, op) /\ IsHdr(c, b) /\ g = SetHeader(f, b, x)
        BY <1>6, <4>1
      <4>3. IsMem(g) /\ SameElse(f, g, c) /\ g.durable = f.durable
        BY <4>2, SetHeaderEffect
      <4> QED BY <2>4, <4>1, <4>3 DEF SameElse, IsHdr
    <3> QED BY <2>3, <3>1, <3>2
  <2>6. DurableUp(f, g, Len(log))
    BY <1>1, <1>6, <2>5 DEF DurableUp
  <2>7. ASSUME NEW a \in Pools, a # b PROVE RedoAt(g, th, log, redo + 1, a)
    <3>1. ~OfFile(log, redo, a)
      BY <1>4, <1>12, <2>7, EntriesDiffer DEF OfFile
    <3>2. <<a, Header>> \in Keys \ S
      BY <2>4, <2>7, BufferPoolAssumption DEF Keys, Header
    <3>3. Same(f, g, <<a, Header>>)
      BY <2>5, <3>2 DEF OthersSame
    <3> QED BY <1>1, <1>2, <1>6, <2>6, <3>1, <3>3, HdrKept
  <2>8. Memory' = g
    BY <1>10, <2>5, SetMemoryIs
  <2>9. durable' = Len(log)
    BY <1>6, <2>5, <2>8, MemoryNext
  <2>10. \A a \in Pools : RedoAt(g, th, log, redo + 1, a)
    BY <2>2, <2>7
  <2> QED BY <1>1, <1>2, <1>3, <1>10, <2>8, <2>9, <2>10 DEF HdrInv, RedoAt
<1> QED BY <1>4, <1>11, <1>12

\* When all entries are replayed, the headers are what the whole log says.
LEMMA AllReplayed ==
    ASSUME NEW f, NEW lg \in Seq(Entry), NEW rd \in Nat \ {0}, NEW b, RedoHdrOK(f, lg, rd, b), rd > Len(lg)
    PROVE  Clean(f, b) /\ Says(HdrOf(f, b), lg, Len(lg), b)
<1>1. PICK n \in Nat : n = Len(lg) /\ rd > n
  OBVIOUS
<1>2. PICK m \in rd - 1..n : Clean(f, b) /\ Says(HdrOf(f, b), lg, m, b)
  BY <1>1 DEF RedoHdrOK
<1>3. m = n
  BY <1>1, <1>2
<1> QED BY <1>1, <1>2, <1>3

LEMMA RecoveredHdr ==
    ASSUME IInv, PageInv, HdrInv, Recovered
    PROVE  HdrInv'
<1>1. /\ log \in Seq(Entry) /\ Len(log) \in Nat /\ LogOK(log)
      /\ Memory.durable \in 0..Len(log) /\ \A b \in Pools : HdrOK(Memory, th, log, mode, redo, open, b)
  BY HdrNow
<1>2. /\ mode = "redo" /\ redo > Len(log) /\ mode' = "run" /\ redo \in Nat \ {0}
      /\ UNCHANGED <<memory, store, durable, lost, open, log, th, redo>>
  BY DEF Recovered, disk, IInv, TypeInv
<1>3. Memory' = Memory
  BY <1>2, MemoryKept
<1>4. durable = Len(log) /\ open = Pools /\ AllIdle(th)
  BY <1>2 DEF HdrInv, IInv, QuietInv, AllIdle
<1>5. PICK f, h, md, n : f = Memory /\ h = th /\ md = "run" /\ n = Len(log) /\ f.durable = n
  BY <1>4, MemoryIs
<1>6. ASSUME NEW b \in Pools PROVE HdrOK(f, h, log, md, redo, Pools, b)
  <2>1. HdrOK(f, h, log, "redo", redo, Pools, b)
    BY <1>1, <1>2, <1>4, <1>5
  <2>2. StoreHdrOK(f, log, b) /\ RedoHdrOK(f, log, redo, b)
    BY <2>1 DEF HdrOK
  <2>3. Clean(f, b) /\ Says(HdrOf(f, b), log, Len(log), b)
    BY <1>1, <1>2, <2>2, AllReplayed
  <2>4. HeaderAt(HdrOf(f, b), log, Len(log), b) /\ SoFar(f, HdrOf(f, b), n) /\ n \in 0..Len(log)
    BY <1>1, <1>5, <2>3 DEF Says, SoFar
  <2>5. RestHdrOK(f, log, b)
    BY <1>5, <2>3, <2>4 DEF RestHdrOK
  <2>6. ~Extender(h, b)
    BY <1>4, <1>5 DEF Extender, Extends, Making, AllIdle
  <2> QED BY <1>5, <2>2, <2>5, <2>6 DEF HdrOK
<1> QED BY <1>1, <1>2, <1>3, <1>4, <1>5, <1>6 DEF HdrInv

-----------------------------------------------------------------------------
LEMMA InitHdr ==
    ASSUME Init
    PROVE  HdrInv
<1>1. /\ store = [k \in Keys |-> IF k[2] = Header THEN FileHeader(k[1])
                                ELSE IF k[2] < InitCount[k[1]] THEN 0 ELSE Absent]
      /\ frame = OpenAll(store) /\ open = Pools /\ log = <<>> /\ durable = 0 /\ mode = "run" /\ redo = 1
      /\ th = [t \in Threads |-> Idle]
  BY DEF Init
<1>2. PICK f, h, n, md : f = Memory /\ h = th /\ n = Len(log) /\ n = 0 /\ md = "run"
  BY <1>1
<1>3. f.frame = OpenAll(f.store) /\ f.store = store /\ f.durable = 0
  BY <1>1, <1>2, MemoryIs
<1>4. LogOK(log)
  BY <1>2 DEF LogOK
<1>5. ASSUME NEW b \in Pools PROVE HdrOK(f, h, log, md, 1, Pools, b)
  <2>0. <<b, Header>> \in Headers /\ <<b, Header>> \in Keys /\ <<b, Header>>[1] = b /\ <<b, Header>>[2] = Header
    BY BufferPoolAssumption DEF Headers, Keys, Header
  <2>1. PICK c : c = <<b, Header>> /\ c \in Headers /\ c \in Keys /\ c[1] = b /\ c[2] = Header
    BY <2>0
  <2>2. PICK d : d = FileHeader(b)
    OBVIOUS
  <2>3. d.count = InitCount[b] /\ d.bits = {Header} \cup InitBits[b] /\ d.lsn = 0 /\ InitCount[b] \in Nat
    BY <2>2, BufferPoolAssumption DEF FileHeader
  <2>4. f.store[c] = d /\ f.frame[c].data = d
    BY <1>1, <1>3, <2>1, <2>2 DEF OpenAll
  <2>5. f.store[<<b, Header>>] = d /\ HdrOf(f, b) = d
    BY <2>1, <2>4 DEF HdrOf
  <2>6. Below(log, n, b, d.count) /\ Reached(log, n, b, d.count)
    BY <1>2, <2>3 DEF Below, Reached
  <2>7. BitsAt(d, log, n, b)
    <3>1. ASSUME NEW k \in Pages, k[1] = b PROVE k[2] \in d.bits <=> AllocAt(log, n, k)
      <4>1. k[2] # Header
        BY DEF Pages, Header
      <4>2. AllocAt(log, n, k) <=> k[2] \in InitBits[b]
        BY <1>2, <3>1 DEF AllocAt
      <4> QED BY <2>3, <4>1, <4>2
    <3> QED BY <3>1 DEF BitsAt
  <2>8. HeaderAt(d, log, n, b)
    BY <2>6, <2>7 DEF HeaderAt
  <2>9. n \in d.lsn..n /\ NoDispose(log, d.lsn, n, b) /\ n \in 0..f.durable /\ n <= f.durable
    BY <1>2, <1>3, <2>3 DEF NoDispose
  <2>10. Says(d, log, n, b)
    BY <1>2, <2>8, <2>9 DEF Says
  <2>11. StoreHdrOK(f, log, b)
    BY <2>5, <2>9, <2>10 DEF StoreHdrOK
  <2>12. RestHdrOK(f, log, b)
    <3>1. Clean(f, b) /\ SoFar(f, d, n) /\ n \in 0..Len(log)
      BY <1>2, <2>5, <2>9 DEF Clean, SoFar
    <3> QED BY <1>2, <2>5, <2>8, <2>10, <3>1 DEF RestHdrOK
  <2>13. ~Extender(h, b)
    BY <1>1, <1>2, IdleType DEF Extender, Extends, Making
  <2> QED BY <1>2, <2>11, <2>12, <2>13 DEF HdrOK
<1> QED BY <1>1, <1>2, <1>4, <1>5 DEF HdrInv

LEMMA StepHdr ==
    ASSUME IInv, PageInv, HdrInv, [Next]_vars
    PROVE  HdrInv'
<1>1. CASE UNCHANGED vars
  <2>1. Memory' = Memory /\ UNCHANGED <<open, log, th, mode, redo, durable>>
    BY <1>1, MemoryKept DEF vars, disk, history
  <2> QED BY <2>1 DEF HdrInv
<1>2. ASSUME NEW t \in Threads, NEW k \in Keys, Get(t, k) \/ Dispose(t, k) PROVE HdrInv'
  BY <1>2, GetHdr, DisposeHdr
<1>3. ASSUME NEW t \in Threads, NEW b \in Pools, AllocateFreePage(t, b) \/ BeginExtend(t, b) PROVE HdrInv'
  BY <1>3, AllocateFreePageHdr, BeginExtendHdr
<1>4. ASSUME NEW t \in Threads, Lookup(t) \/ AllocateFrame(t) \/ Load(t) \/ Extend(t) PROVE HdrInv'
  BY <1>4, LookupHdr, AllocateFrameHdr, LoadHdr, ExtendHdr
<1>5. ASSUME NEW t \in Threads, Modify(t) \/ UnpinPage(t) PROVE HdrInv'
  BY <1>5, ModifyHdr, UnpinPageHdr
<1>6. ASSUME NEW b \in Pools, CloseFile(b) \/ OpenFile(b) PROVE HdrInv'
  BY <1>6, CloseFileHdr, OpenFileHdr
<1>7. CASE Crash \/ Replay \/ Recovered
  BY <1>7, CrashHdr, ReplayHdr, RecoveredHdr
<1> QED BY <1>1, <1>2, <1>3, <1>4, <1>5, <1>6, <1>7 DEF Next

-----------------------------------------------------------------------------
\* The last entry about page k says whether it is allocated.
LEMMA AllocatedIs ==
    ASSUME log \in Seq(Entry), NEW k \in Pages
    PROVE  Allocated(k) <=> AllocAt(log, Len(log), k)
<1>1. PICK S : S = Of({"allocate", "deallocate"}, k)
  OBVIOUS
<1>2. PICK n \in Nat : n = Len(log)
  OBVIOUS
<1>3. S \subseteq 1..n /\ \A i \in 1..n : /\ i \in S <=> log[i] = A(k) \/ log[i] = D(k)
                                          /\ i \in S => (log[i].op = "allocate" <=> log[i] = A(k))
  <2>1. ASSUME NEW i \in 1..n
        PROVE  /\ i \in S <=> log[i] = A(k) \/ log[i] = D(k)
               /\ i \in S => (log[i].op = "allocate" <=> log[i] = A(k))
    <3>1. PICK e \in Entry : e = log[i]
      BY <1>2, <2>1
    <3>2. i \in S <=> e.op \in {"allocate", "deallocate"} /\ e.key = k
      BY <1>1, <1>2, <2>1, <3>1 DEF Of
    <3>3. (e = A(k) <=> e.op = "allocate" /\ e.key = k) /\ (e = D(k) <=> e.op = "deallocate" /\ e.key = k)
      BY DEF Entry, A, D
    <3> QED BY <3>1, <3>2, <3>3
  <2>2. S \subseteq 1..n
    BY <1>1, <1>2 DEF Of
  <2> QED BY <2>1, <2>2
<1>4. CASE S = {}
  <2>1. Allocated(k) <=> k[2] \in InitBits[k[1]]
    BY <1>1, <1>4 DEF Allocated
  <2>2. \A i \in 1..n : log[i] # A(k) /\ log[i] # D(k)
    BY <1>3, <1>4
  <2>3. AllocAt(log, n, k) <=> k[2] \in InitBits[k[1]]
    BY <2>2 DEF AllocAt
  <2> QED BY <1>2, <2>1, <2>3
<1>5. CASE S # {}
  <2>1. PICK w : w = LastOf(S)
    OBVIOUS
  <2>2. w \in S /\ \A j \in S : j <= w
    <3>1. \E l \in S : \A m \in S : m <= l
      <4>1. S \in SUBSET (0..n)
        BY <1>3
      <4> QED BY <1>5, <4>1, GreatestIs
    <3>2. w = CHOOSE l \in S : \A m \in S : m <= l
      BY <1>5, <2>1 DEF LastOf
    <3> QED BY <3>1, <3>2
  <2>3. Allocated(k) <=> log[w] = A(k)
    <3>1. Allocated(k) <=> log[w].op = "allocate"
      BY <1>1, <1>5, <2>1 DEF Allocated
    <3> QED BY <1>3, <2>2, <3>1
  <2>4. w \in 1..n /\ (log[w] = A(k) \/ log[w] = D(k)) /\ A(k) # D(k)
    BY <1>3, <2>2, EntriesDiffer
  <2>5. ASSUME log[w] = A(k) PROVE AllocAt(log, n, k)
    <3>1. \A j \in w + 1..n : log[j] # D(k)
      <4>1. ASSUME NEW j \in w + 1..n PROVE j \notin S
        BY <2>2, <2>4
      <4>2. w + 1..n \subseteq 1..n
        BY <2>4
      <4> QED BY <1>3, <4>1, <4>2
    <3> QED BY <2>4, <2>5, <3>1 DEF AllocAt
  <2>6. ASSUME AllocAt(log, n, k) PROVE log[w] = A(k)
    <3>1. CASE \E i \in 1..n : log[i] = A(k) /\ \A j \in i + 1..n : log[j] # D(k)
      <4>1. PICK i \in 1..n : log[i] = A(k) /\ \A j \in i + 1..n : log[j] # D(k)
        BY <3>1
      <4>2. i <= w
        BY <1>3, <2>2, <4>1
      <4>3. CASE i = w
        BY <4>1, <4>3
      <4>4. CASE i # w
        <5>1. w \in i + 1..n
          BY <2>4, <4>2, <4>4
        <5> QED BY <2>4, <4>1, <5>1
      <4> QED BY <4>3, <4>4
    <3>2. CASE \A j \in 1..n : log[j] # D(k)
      BY <2>4, <3>2
    <3> QED BY <2>6, <3>1, <3>2 DEF AllocAt
  <2> QED BY <1>2, <2>3, <2>5, <2>6
<1> QED BY <1>4, <1>5

LEMMA RecoveredFromInv ==
    ASSUME IInv, PageInv, HdrInv
    PROVE  RecoveredExactly
<1>1. /\ log \in Seq(Entry) /\ redo \in Nat \ {0} /\ Len(log) \in Nat
      /\ DataOK(Memory, th, log, written, mode, redo, open)
      /\ Memory.durable \in 0..Len(log) /\ \A b \in Pools : HdrOK(Memory, th, log, mode, redo, open, b)
  BY HdrNow
<1>2. mode # "failed"
  BY DEF HdrInv
<1>3. ASSUME mode = "redo", redo > Len(log), NEW k \in Pages, NEW b \in Pools, NEW n, k = <<b, n>>
      PROVE  n \in Hdr(b).bits <=> Allocated(k)
  <2>1. PICK f : f = Memory
    OBVIOUS
  <2>2. RedoHdrOK(f, log, redo, b)
    BY <1>1, <1>3, <2>1 DEF HdrOK
  <2>3. Says(HdrOf(f, b), log, Len(log), b)
    BY <1>1, <1>3, <2>2, AllReplayed
  <2>4. BitsAt(HdrOf(f, b), log, Len(log), b)
    BY <2>3 DEF Says, HeaderAt
  <2>5. k[1] = b /\ k[2] = n
    BY <1>3
  <2>6. n \in HdrOf(f, b).bits <=> AllocAt(log, Len(log), k)
    BY <2>4, <2>5 DEF BitsAt
  <2>7. Hdr(b) = HdrOf(f, b)
    BY <2>1, MemoryIs DEF Hdr, HdrOf
  <2>8. Allocated(k) <=> AllocAt(log, Len(log), k)
    BY <1>1, AllocatedIs
  <2> QED BY <2>6, <2>7, <2>8
<1>4. ASSUME mode = "redo", redo > Len(log), NEW k \in Pages, LastWrite(k) # 0, k \notin lost
      PROVE  Content(k) = LastWrite(k)
  <2>1. PICK f, w2 : f = Memory /\ w2 = [j \in Keys |-> LastWrite(j)]
    OBVIOUS
  <2>2. w2[k] = LastWrite(k)
    BY <2>1 DEF Pages, Keys
  <2>3. w2[k] # 0 => w2[k] \in 1..Len(log) /\ log[w2[k]] = W(k) /\ \A i \in 1..Len(log) : log[i] = W(k) => i <= w2[k]
    BY <1>1, <2>2, LastWriteIs
  <2>4. ~Loader(th, k)
    BY <1>4 DEF IInv, QuietInv, Loader, Loads
  <2>5. PageOK(f, th, log, written, "redo", redo, k) /\ f.durable \in 0..Len(log)
    BY <1>1, <1>4, <2>1 DEF DataOK
  <2>6. PageOK(f, th, log, w2, "run", redo, k)
    BY <1>1, <1>4, <2>3, <2>4, <2>5, RecoveredPage
  <2>7. f.frame = frame /\ f.store = store /\ f.lost = lost
    BY <2>1, MemoryIs
  <2>8. Keeps(f, th, k, LastWrite(k))
    BY <1>4, <2>2, <2>6, <2>7 DEF PageOK
  <2> QED BY <2>4, <2>7, <2>8 DEF Keeps, Content, Resident
<1>5. ASSUME NEW b \in Pools, NEW n \in 1..MaxPageNum - 1 PROVE \E k \in Pages : k = <<b, n>>
  BY BufferPoolAssumption DEF Pages, Keys, Header
<1>6. ASSUME mode = "redo", redo > Len(log), NEW b \in Pools, NEW n \in 1..MaxPageNum - 1
      PROVE  /\ n \in Hdr(b).bits <=> Allocated(<<b, n>>)
             /\ LastWrite(<<b, n>>) # 0 /\ <<b, n>> \notin lost => Content(<<b, n>>) = LastWrite(<<b, n>>)
  <2>1. PICK k \in Pages : k = <<b, n>>
    BY <1>5
  <2>2. n \in Hdr(b).bits <=> Allocated(k)
    BY <1>3, <1>6, <2>1
  <2>3. LastWrite(k) # 0 /\ k \notin lost => Content(k) = LastWrite(k)
    BY <1>4, <1>6
  <2> QED BY <2>1, <2>2, <2>3
<1> QED BY <1>2, <1>6 DEF RecoveredExactly

\* Whatever was flushed before the crash, whichever durable prefix of the log it leaves, and with
\* frames that are evicted meanwhile: no entry fails to be replayed, and afterwards the header of
\* every file has exactly the pages that the log leaves allocated, and every page its last logged
\* change (redo_allocate_page, redo_deallocate_page, the replayers of page changes).
THEOREM RecoversExactly == Spec => []RecoveredExactly
<1>1. Init => IInv /\ PageInv /\ HdrInv
  BY InitInv, InitData, InitHdr
<1>2. IInv /\ PageInv /\ HdrInv /\ [Next]_vars => (IInv /\ PageInv /\ HdrInv)'
  BY StepInv, StepData, StepHdr
<1>3. IInv /\ PageInv /\ HdrInv => RecoveredExactly
  BY RecoveredFromInv
<1> QED BY <1>1, <1>2, <1>3, PTL DEF Spec
=============================================================================
