------------------------------ MODULE RecordProofs ------------------------------
(***************************************************************************)
(* Proofs about RecordFile, for any threads, page capacity and bounds.     *)
(*                                                                         *)
(* Two arguments meet here.  The pages: every entry of the log is one its  *)
(* page could make when it was written (EntryOK), and a page, in memory    *)
(* and on disk, is what the log up to its LSN makes of it (PageOK).  An    *)
(* operation of a thread and the replay of its entry are then the same     *)
(* step on a page.  The threads: who holds lock_ and the latches           *)
(* (HolderInv), and that a page which is being made is nobody else's       *)
(* (FreshInv).                                                             *)
(***************************************************************************)
EXTENDS RecordFile, FiniteSetTheorems, SequenceTheorems, WellFoundedInduction, TLAPS

Types      == {"allocate", "init_page", "insert", "delete", "update"}
LogEntry   == [type : Types, page : PageNums, slot : Slots \cup {-1}]
Page       == [cap : Nat, num : Int, bits : SUBSET Slots, data : [Slots -> Nat], lsn : Nat, dirty : BOOLEAN]

\* RecordFile's Overwrites and Logged for any log l.
OverIn(l, j, i) ==
    /\ l[j].page = l[i].page
    /\ l[j].type = "init_page" \/ (l[j].type # "allocate" /\ l[j].slot = l[i].slot)
LiveIn(l, p, n)   == {j \in 1..n : /\ l[j].page = p /\ l[j].type \in {"insert", "update"}
                                   /\ \A i \in j + 1..n : ~OverIn(l, i, j)}
LoggedIn(l, p, n) == {<<l[i].slot, i>> : i \in LiveIn(l, p, n)}
BitsIn(l, p, n)   == {x[1] : x \in LoggedIn(l, p, n)}
InitedIn(l, p, n) == \E i \in 1..n : l[i].page = p /\ l[i].type = "init_page"
IsAllocate(l, i, p) == l[i].type = "allocate" /\ l[i].page = p

\* Entry i is one that page and allocator could make after the entries before it.
EntryOK(l, i) ==
    LET e == l[i] IN
    /\ e.type # "allocate" => \E j \in 1..(i - 1) : IsAllocate(l, j, e.page)
    /\ e.type = "allocate" => \A j \in 1..(i - 1) : l[j].type = "allocate" => l[j].page < e.page
    /\ e.type \in {"insert", "delete", "update"} => InitedIn(l, e.page, i - 1)
    /\ e.type = "insert" => /\ e.slot \in Slots \ BitsIn(l, e.page, i - 1)
                            /\ \A s \in 0..(e.slot - 1) : s \in BitsIn(l, e.page, i - 1)
    /\ e.type \in {"delete", "update"} => e.slot \in BitsIn(l, e.page, i - 1)

\* The page is what the log up to its LSN makes of it.
PageOK(l, pg, p) ==
    /\ pg.lsn \in 0..Len(l)
    /\ Records(pg) = LoggedIn(l, p, pg.lsn)
    /\ pg.num = Cardinality(pg.bits)
    /\ pg.cap = IF InitedIn(l, p, pg.lsn) THEN Capacity ELSE 0

\* The page with the entry of LSN n.
Applied(pg, e, n) == [Replayed(pg, e, n) EXCEPT !.lsn = n]

\* The page has all entries up to n.
UpTo(l, pg, p, n) == \A i \in (pg.lsn + 1)..n : l[i].page = p => l[i].type = "allocate"

-----------------------------------------------------------------------------
(***************************************************************************)
(* The log and its pages.                                                  *)
(***************************************************************************)
LEMMA LoggedSame ==
    ASSUME NEW l, NEW p, NEW m \in Nat, NEW n \in Nat, m <= n,
           \A i \in (m + 1)..n : l[i].page = p => l[i].type = "allocate"
    PROVE  LoggedIn(l, p, n) = LoggedIn(l, p, m) /\ (InitedIn(l, p, n) <=> InitedIn(l, p, m))
<1>1. LiveIn(l, p, n) = LiveIn(l, p, m)
  <2>1. ASSUME NEW j \in LiveIn(l, p, n) PROVE j \in LiveIn(l, p, m)
    <3>1. j \in 1..n /\ l[j].page = p /\ l[j].type \in {"insert", "update"} /\ \A i \in j + 1..n : ~OverIn(l, i, j)
      BY DEF LiveIn
    <3>2. j \in 1..m
      <4>1. j \notin (m + 1)..n
        BY <3>1
      <4> QED BY <3>1, <4>1
    <3>3. \A i \in j + 1..m : i \in j + 1..n
      BY <3>2
    <3> QED BY <3>1, <3>2, <3>3 DEF LiveIn
  <2>2. ASSUME NEW j \in LiveIn(l, p, m) PROVE j \in LiveIn(l, p, n)
    <3>1. j \in 1..m /\ l[j].page = p /\ l[j].type \in {"insert", "update"} /\ \A i \in j + 1..m : ~OverIn(l, i, j)
      BY DEF LiveIn
    <3>2. j \in 1..n
      BY <3>1
    <3>3. ASSUME NEW i \in j + 1..n PROVE ~OverIn(l, i, j)
      <4>1. CASE i \in j + 1..m
        BY <3>1, <4>1
      <4>2. CASE i \notin j + 1..m
        <5>1. i \in (m + 1)..n
          BY <3>1, <4>2
        <5> QED BY <3>1, <5>1 DEF OverIn
      <4> QED BY <4>1, <4>2
    <3> QED BY <3>1, <3>2, <3>3 DEF LiveIn
  <2> QED BY <2>1, <2>2
<1>2. InitedIn(l, p, n) <=> InitedIn(l, p, m)
  <2>1. \A i \in 1..n : i \in 1..m \/ i \in (m + 1)..n
    OBVIOUS
  <2>2. \A i \in 1..m : i \in 1..n
    OBVIOUS
  <2> QED BY <2>1, <2>2 DEF InitedIn
<1> QED BY <1>1, <1>2 DEF LoggedIn

LEMMA LoggedPrefix ==
    ASSUME NEW l, NEW k, NEW p, NEW n \in Nat, \A i \in 1..n : k[i] = l[i]
    PROVE  /\ LoggedIn(k, p, n) = LoggedIn(l, p, n) /\ (InitedIn(k, p, n) <=> InitedIn(l, p, n))
           /\ BitsIn(k, p, n) = BitsIn(l, p, n)
<1>1. ASSUME NEW j \in 1..n, NEW i \in j + 1..n PROVE OverIn(k, i, j) <=> OverIn(l, i, j)
  <2>1. i \in 1..n
    OBVIOUS
  <2> QED BY <2>1 DEF OverIn
<1>2. LiveIn(k, p, n) = LiveIn(l, p, n)
  BY <1>1 DEF LiveIn
<1>3. \A i \in LiveIn(l, p, n) : k[i] = l[i]
  BY DEF LiveIn
<1>4. LoggedIn(k, p, n) = LoggedIn(l, p, n)
  BY <1>2, <1>3 DEF LoggedIn
<1>5. InitedIn(k, p, n) <=> InitedIn(l, p, n)
  BY DEF InitedIn
<1> QED BY <1>4, <1>5 DEF BitsIn

LEMMA EntryPrefix ==
    ASSUME NEW l, NEW k, NEW i \in Nat \ {0}, \A j \in 1..i : k[j] = l[j], EntryOK(l, i)
    PROVE  EntryOK(k, i)
<1>1. i - 1 \in Nat /\ k[i] = l[i] /\ \A j \in 1..(i - 1) : k[j] = l[j]
  OBVIOUS
<1>2. \A p : /\ InitedIn(k, p, i - 1) <=> InitedIn(l, p, i - 1)
             /\ BitsIn(k, p, i - 1) = BitsIn(l, p, i - 1)
  BY <1>1, LoggedPrefix
<1> QED BY <1>1, <1>2 DEF EntryOK, IsAllocate

LEMMA PagePrefix ==
    ASSUME NEW l, NEW k, NEW pg, NEW p, PageOK(l, pg, p), pg.lsn \in 0..Len(k), \A j \in 1..pg.lsn : k[j] = l[j]
    PROVE  PageOK(k, pg, p)
<1>1. PICK n \in Nat : n = pg.lsn
  BY DEF PageOK
<1>2. \A j \in 1..n : k[j] = l[j]
  BY <1>1
<1>3. LoggedIn(k, p, n) = LoggedIn(l, p, n) /\ (InitedIn(k, p, n) <=> InitedIn(l, p, n))
  BY <1>2, LoggedPrefix
<1> QED BY <1>1, <1>3 DEF PageOK

\* What one entry does to the records of its page.
LEMMA LoggedWrite ==
    ASSUME NEW l, NEW p, NEW n \in Nat, l[n + 1].page = p, l[n + 1].type \in {"insert", "update"}
    PROVE  LoggedIn(l, p, n + 1) = {x \in LoggedIn(l, p, n) : x[1] # l[n + 1].slot} \cup {<<l[n + 1].slot, n + 1>>}
<1>1. n + 1 \in LiveIn(l, p, n + 1)
  BY DEF LiveIn
<1>2. ASSUME NEW j \in LiveIn(l, p, n + 1), j # n + 1
      PROVE  j \in LiveIn(l, p, n) /\ l[j].slot # l[n + 1].slot
  <2>1. /\ j \in 1..n + 1 /\ l[j].page = p /\ l[j].type \in {"insert", "update"}
        /\ \A i \in j + 1..n + 1 : ~OverIn(l, i, j)
    BY DEF LiveIn
  <2>2. j \in 1..n /\ n + 1 \in j + 1..n + 1 /\ \A i \in j + 1..n : i \in j + 1..n + 1
    BY <1>2, <2>1
  <2> QED BY <2>1, <2>2 DEF LiveIn, OverIn
<1>3. ASSUME NEW j \in LiveIn(l, p, n), l[j].slot # l[n + 1].slot PROVE j \in LiveIn(l, p, n + 1) /\ j # n + 1
  <2>1. /\ j \in 1..n /\ l[j].page = p /\ l[j].type \in {"insert", "update"}
        /\ \A i \in j + 1..n : ~OverIn(l, i, j)
    BY DEF LiveIn
  <2>2. j \in 1..n + 1 /\ j # n + 1 /\ \A i \in j + 1..n + 1 : i \in j + 1..n \/ i = n + 1
    BY <2>1
  <2> QED BY <1>3, <2>1, <2>2 DEF LiveIn, OverIn
<1>4. ASSUME NEW x \in LoggedIn(l, p, n + 1)
      PROVE  x \in {y \in LoggedIn(l, p, n) : y[1] # l[n + 1].slot} \cup {<<l[n + 1].slot, n + 1>>}
  <2>1. PICK j \in LiveIn(l, p, n + 1) : x = <<l[j].slot, j>>
    BY DEF LoggedIn
  <2>2. CASE j # n + 1
    <3>1. x \in LoggedIn(l, p, n) /\ x[1] = l[j].slot
      BY <1>2, <2>1, <2>2 DEF LoggedIn
    <3> QED BY <1>2, <2>2, <3>1
  <2> QED BY <2>1, <2>2
<1>5. ASSUME NEW x \in LoggedIn(l, p, n), x[1] # l[n + 1].slot PROVE x \in LoggedIn(l, p, n + 1)
  <2>1. PICK j \in LiveIn(l, p, n) : x = <<l[j].slot, j>>
    BY DEF LoggedIn
  <2>2. l[j].slot # l[n + 1].slot
    BY <1>5, <2>1
  <2> QED BY <1>3, <2>1, <2>2 DEF LoggedIn
<1>6. <<l[n + 1].slot, n + 1>> \in LoggedIn(l, p, n + 1)
  BY <1>1 DEF LoggedIn
<1> QED BY <1>4, <1>5, <1>6

LEMMA LoggedDelete ==
    ASSUME NEW l, NEW p, NEW n \in Nat, l[n + 1].page = p, l[n + 1].type = "delete"
    PROVE  \A x : x \in LoggedIn(l, p, n + 1) <=> x \in LoggedIn(l, p, n) /\ x[1] # l[n + 1].slot
<1>1. n + 1 \notin LiveIn(l, p, n + 1)
  BY DEF LiveIn
<1>2. ASSUME NEW j \in LiveIn(l, p, n + 1)
      PROVE  j \in LiveIn(l, p, n) /\ l[j].slot # l[n + 1].slot
  <2>1. /\ j \in 1..n + 1 /\ l[j].page = p /\ l[j].type \in {"insert", "update"}
        /\ \A i \in j + 1..n + 1 : ~OverIn(l, i, j)
    BY DEF LiveIn
  <2>2. j \in 1..n /\ n + 1 \in j + 1..n + 1 /\ \A i \in j + 1..n : i \in j + 1..n + 1
    BY <1>1, <2>1
  <2> QED BY <2>1, <2>2 DEF LiveIn, OverIn
<1>3. ASSUME NEW j \in LiveIn(l, p, n), l[j].slot # l[n + 1].slot PROVE j \in LiveIn(l, p, n + 1)
  <2>1. /\ j \in 1..n /\ l[j].page = p /\ l[j].type \in {"insert", "update"}
        /\ \A i \in j + 1..n : ~OverIn(l, i, j)
    BY DEF LiveIn
  <2>2. j \in 1..n + 1 /\ \A i \in j + 1..n + 1 : i \in j + 1..n \/ i = n + 1
    BY <2>1
  <2> QED BY <1>3, <2>1, <2>2 DEF LiveIn, OverIn
<1>4. ASSUME NEW x \in LoggedIn(l, p, n + 1) PROVE x \in LoggedIn(l, p, n) /\ x[1] # l[n + 1].slot
  <2>1. PICK j \in LiveIn(l, p, n + 1) : x = <<l[j].slot, j>>
    BY DEF LoggedIn
  <2>2. x[1] = l[j].slot
    BY <2>1
  <2> QED BY <1>2, <2>1, <2>2 DEF LoggedIn
<1>5. ASSUME NEW x \in LoggedIn(l, p, n), x[1] # l[n + 1].slot PROVE x \in LoggedIn(l, p, n + 1)
  <2>1. PICK j \in LiveIn(l, p, n) : x = <<l[j].slot, j>>
    BY DEF LoggedIn
  <2>2. l[j].slot # l[n + 1].slot
    BY <1>5, <2>1
  <2> QED BY <1>3, <2>1, <2>2 DEF LoggedIn
<1> QED BY <1>4, <1>5

LEMMA LoggedInit ==
    ASSUME NEW l, NEW p, NEW n \in Nat, l[n + 1].page = p, l[n + 1].type = "init_page"
    PROVE  LoggedIn(l, p, n + 1) = {} /\ InitedIn(l, p, n + 1)
<1>1. ASSUME NEW j \in LiveIn(l, p, n + 1) PROVE FALSE
  <2>1. /\ j \in 1..n + 1 /\ l[j].page = p /\ l[j].type \in {"insert", "update"}
        /\ \A i \in j + 1..n + 1 : ~OverIn(l, i, j)
    BY DEF LiveIn
  <2>2. n + 1 \in j + 1..n + 1
    BY <2>1
  <2> QED BY <2>1, <2>2 DEF OverIn
<1> QED BY <1>1 DEF LoggedIn, InitedIn

-----------------------------------------------------------------------------
(***************************************************************************)
(* RecordPageHandler on a page.                                            *)
(***************************************************************************)
LEMMA SlotsFinite ==
    Slots \subseteq Nat /\ IsFiniteSet(Slots) /\ Cardinality(Slots) = Capacity /\ Capacity \in Nat \ {0}
<1>1. Capacity \in Nat \ {0}
  BY RecordFileAssumption
<1> QED BY <1>1, FS_Interval DEF Slots

LEMMA LeastIs ==
    ASSUME NEW S \in SUBSET Nat, S # {}
    PROVE  Min(S) \in S /\ \A y \in S : Min(S) <= y
<1>1. PICK x \in S : \A y \in S : ~(<<y, x>> \in OpToRel(<, Nat))
  BY WFMin, NatLessThanWellFounded
<1>2. ASSUME NEW y \in S PROVE x <= y
  <2>1. ~(y < x)
    BY <1>1 DEF OpToRel
  <2> QED BY <2>1
<1> QED BY <1>2 DEF Min

\* A page that is not full has a slot: next_unsetted_bit finds the least.
LEMMA InsertIndexIs ==
    ASSUME NEW pg \in Page, ~IsFull(pg), pg.cap = Capacity, pg.num = Cardinality(pg.bits)
    PROVE  /\ InsertIndex(pg) \in Slots \ pg.bits
           /\ \A s \in 0..(InsertIndex(pg) - 1) : s \in pg.bits
<1> DEFINE free == {s \in 0..pg.cap - 1 : s \notin pg.bits}
<1>1. free = Slots \ pg.bits /\ free \in SUBSET Nat
  BY SlotsFinite DEF Slots
<1>2. free # {}
  <2>1. SUFFICES ASSUME free = {} PROVE FALSE
    OBVIOUS
  <2>2. pg.bits = Slots
    BY <1>1, <2>1 DEF Page
  <2> QED BY <2>2, SlotsFinite DEF IsFull
<1>3. InsertIndex(pg) = Min(free)
  BY <1>2 DEF InsertIndex, NextUnsettedBit
<1>4. Min(free) \in free /\ \A y \in free : Min(free) <= y
  BY <1>1, <1>2, LeastIs
<1>5. PICK m \in free : m = Min(free)
  BY <1>4
<1>6. ASSUME NEW s \in 0..(m - 1) PROVE s \in pg.bits
  <2>1. s \in Slots /\ ~(m <= s) /\ m \in Slots
    BY <1>1, <1>5, SlotsFinite DEF Slots
  <2>2. s \notin free
    BY <1>4, <1>5, <2>1
  <2> QED BY <1>1, <2>1, <2>2
<1> HIDE DEF free
<1> QED BY <1>1, <1>3, <1>5, <1>6

LEMMA LeastUnique ==
    ASSUME NEW B, NEW a \in Nat, NEW b \in Nat, a \notin B, b \notin B,
           \A s \in 0..(a - 1) : s \in B, \A s \in 0..(b - 1) : s \in B
    PROVE  a = b
<1>1. ~(a < b) /\ ~(b < a)
  OBVIOUS
<1> QED BY <1>1

LEMMA PutIs ==
    ASSUME NEW pg \in Page, NEW s \in Slots, NEW v \in Nat, NEW n \in Nat, s \notin pg.bits
    PROVE  LET q == [PutRecord(pg, s, v) EXCEPT !.lsn = n]
           IN  /\ q \in Page /\ q.cap = pg.cap /\ q.lsn = n /\ q.bits = pg.bits \cup {s} /\ q.num = pg.num + 1
               /\ Records(q) = {x \in Records(pg) : x[1] # s} \cup {<<s, v>>}
<1> DEFINE q == [PutRecord(pg, s, v) EXCEPT !.lsn = n]
<1>1. /\ q \in Page /\ q.cap = pg.cap /\ q.lsn = n /\ q.bits = pg.bits \cup {s} /\ q.num = pg.num + 1
      /\ q.data = [pg.data EXCEPT ![s] = v] /\ pg.data \in [Slots -> Nat] /\ pg.bits \subseteq Slots
  <2>1. PICK b \in SUBSET Slots, m \in Int, d \in [Slots -> Nat] :
               b = pg.bits \cup {s} /\ m = pg.num + 1 /\ d = [pg.data EXCEPT ![s] = v]
    <3>1. pg.bits \cup {s} \in SUBSET Slots /\ pg.num + 1 \in Int /\ [pg.data EXCEPT ![s] = v] \in [Slots -> Nat]
      BY DEF Page
    <3> QED BY <3>1, Zenon
  <2> DEFINE r == [pg EXCEPT !.bits = b, !.num = m, !.data = d, !.dirty = TRUE]
  <2>2. r \in Page /\ r.cap = pg.cap /\ r.bits = b /\ r.num = m /\ r.data = d
    BY <2>1 DEF Page
  <2>3. q = [r EXCEPT !.lsn = n]
    BY <2>1 DEF PutRecord
  <2> HIDE DEF q, r
  <2>4. pg.data \in [Slots -> Nat] /\ pg.bits \subseteq Slots
    BY SlotsFinite DEF Page
  <2> QED BY <2>1, <2>2, <2>3, <2>4 DEF Page
<1>2. q.data[s] = v /\ \A r \in pg.bits : q.data[r] = pg.data[r] /\ r # s
  BY <1>1
<1> HIDE DEF q
<1>3. ASSUME NEW x \in Records(q) PROVE x \in {y \in Records(pg) : y[1] # s} \cup {<<s, v>>}
  <2>1. PICK r \in q.bits : x = <<r, q.data[r]>>
    BY DEF Records
  <2>2. CASE r = s
    BY <1>2, <2>1, <2>2
  <2>3. CASE r # s
    <3>1. r \in pg.bits
      BY <1>1, <2>3
    <3>2. x = <<r, pg.data[r]>> /\ x[1] = r
      BY <1>2, <2>1, <3>1
    <3> QED BY <2>3, <3>1, <3>2 DEF Records
  <2> QED BY <2>2, <2>3
<1>4. ASSUME NEW x \in Records(pg) PROVE x \in Records(q)
  <2>1. PICK r \in pg.bits : x = <<r, pg.data[r]>>
    BY DEF Records
  <2> QED BY <1>1, <1>2, <2>1 DEF Records
<1>5. <<s, v>> \in Records(q)
  BY <1>1, <1>2 DEF Records
<1>6. Records(q) = {x \in Records(pg) : x[1] # s} \cup {<<s, v>>}
  BY <1>3, <1>4, <1>5
<1> QED BY <1>1, <1>6 DEF q

LEMMA DropIs ==
    ASSUME NEW pg \in Page, NEW s \in Slots, NEW n \in Nat, s \in pg.bits
    PROVE  LET q == [DropRecord(pg, s) EXCEPT !.lsn = n]
           IN  /\ q \in Page /\ q.cap = pg.cap /\ q.lsn = n /\ q.bits = pg.bits \ {s} /\ q.num = pg.num - 1
               /\ Records(q) = {x \in Records(pg) : x[1] # s}
<1> DEFINE q == [DropRecord(pg, s) EXCEPT !.lsn = n]
<1>1. /\ q \in Page /\ q.cap = pg.cap /\ q.lsn = n /\ q.bits = pg.bits \ {s} /\ q.num = pg.num - 1
      /\ q.data = pg.data
  <2>1. PICK b \in SUBSET Slots, m \in Int : b = pg.bits \ {s} /\ m = pg.num - 1
    <3>1. pg.bits \ {s} \in SUBSET Slots /\ pg.num - 1 \in Int
      BY DEF Page
    <3> QED BY <3>1, Zenon
  <2> DEFINE r == [pg EXCEPT !.bits = b, !.num = m, !.dirty = TRUE]
  <2>2. r \in Page /\ r.cap = pg.cap /\ r.bits = b /\ r.num = m /\ r.data = pg.data
    BY <2>1 DEF Page
  <2>3. q = [r EXCEPT !.lsn = n]
    BY <2>1 DEF DropRecord
  <2> HIDE DEF q, r
  <2>4. pg.data \in [Slots -> Nat]
    BY SlotsFinite DEF Page
  <2> QED BY <2>1, <2>2, <2>3, <2>4 DEF Page
<1> HIDE DEF q
<1>2. ASSUME NEW x \in Records(q) PROVE x \in Records(pg) /\ x[1] # s
  <2>1. PICK r \in q.bits : x = <<r, q.data[r]>>
    BY DEF Records
  <2>2. x[1] = r /\ r # s /\ r \in pg.bits
    BY <1>1, <2>1
  <2> QED BY <1>1, <2>1, <2>2 DEF Records
<1>3. ASSUME NEW x \in Records(pg), x[1] # s PROVE x \in Records(q)
  <2>1. PICK r \in pg.bits : x = <<r, pg.data[r]>>
    BY DEF Records
  <2>2. r # s
    BY <1>3, <2>1
  <2> QED BY <1>1, <2>1, <2>2 DEF Records
<1>4. Records(q) = {x \in Records(pg) : x[1] # s}
  BY <1>2, <1>3
<1> QED BY <1>1, <1>4 DEF q

LEMMA SetIs ==
    ASSUME NEW pg \in Page, NEW s \in Slots, NEW v \in Nat, NEW n \in Nat, s \in pg.bits
    PROVE  LET q == [SetRecord(pg, s, v) EXCEPT !.lsn = n]
           IN  /\ q \in Page /\ q.cap = pg.cap /\ q.lsn = n /\ q.bits = pg.bits /\ q.num = pg.num
               /\ Records(q) = {x \in Records(pg) : x[1] # s} \cup {<<s, v>>}
<1> DEFINE q == [SetRecord(pg, s, v) EXCEPT !.lsn = n]
<1>1. /\ q \in Page /\ q.cap = pg.cap /\ q.lsn = n /\ q.bits = pg.bits /\ q.num = pg.num
      /\ q.data = [pg.data EXCEPT ![s] = v] /\ pg.data \in [Slots -> Nat] /\ pg.bits \subseteq Slots
  BY DEF SetRecord, Page
<1>2. q.data[s] = v /\ \A r \in pg.bits : r # s => q.data[r] = pg.data[r]
  BY <1>1
<1> HIDE DEF q
<1>3. ASSUME NEW x \in Records(q) PROVE x \in {y \in Records(pg) : y[1] # s} \cup {<<s, v>>}
  <2>1. PICK r \in q.bits : x = <<r, q.data[r]>>
    BY DEF Records
  <2>2. CASE r = s
    BY <1>2, <2>1, <2>2
  <2>3. CASE r # s
    <3>1. r \in pg.bits
      BY <1>1
    <3>2. x = <<r, pg.data[r]>> /\ x[1] = r
      BY <1>2, <2>1, <2>3, <3>1
    <3> QED BY <2>3, <3>1, <3>2 DEF Records
  <2> QED BY <2>2, <2>3
<1>4. ASSUME NEW x \in Records(pg), x[1] # s PROVE x \in Records(q)
  <2>1. PICK r \in pg.bits : x = <<r, pg.data[r]>>
    BY DEF Records
  <2>2. r # s
    BY <1>4, <2>1
  <2> QED BY <1>1, <1>2, <2>1, <2>2 DEF Records
<1>5. <<s, v>> \in Records(q)
  BY <1>1, <1>2 DEF Records
<1>6. Records(q) = {x \in Records(pg) : x[1] # s} \cup {<<s, v>>}
  BY <1>3, <1>4, <1>5
<1> QED BY <1>1, <1>6 DEF q

LEMMA InitIs ==
    ASSUME NEW pg \in Page, NEW n \in Nat
    PROVE  LET q == [InitEmptyPage(pg) EXCEPT !.lsn = n]
           IN  /\ q \in Page /\ q.cap = Capacity /\ q.lsn = n /\ q.bits = {} /\ q.num = 0
               /\ Records(q) = {}
<1> DEFINE q == [InitEmptyPage(pg) EXCEPT !.lsn = n]
<1>1. q \in Page /\ q.cap = Capacity /\ q.lsn = n /\ q.bits = {} /\ q.num = 0
  <2>1. PICK b \in SUBSET Slots, m \in Int, c \in Nat : b = {} /\ m = 0 /\ c = Capacity
    <3>1. {} \in SUBSET Slots /\ 0 \in Int /\ Capacity \in Nat
      BY SlotsFinite
    <3> QED BY <3>1, Zenon
  <2> DEFINE r == [pg EXCEPT !.cap = c, !.num = m, !.bits = b]
  <2>2. r \in Page /\ r.cap = c /\ r.bits = b /\ r.num = m
    BY <2>1 DEF Page
  <2>3. q = [r EXCEPT !.lsn = n]
    BY <2>1 DEF InitEmptyPage
  <2> HIDE DEF q, r
  <2>4. pg.data \in [Slots -> Nat]
    BY SlotsFinite DEF Page
  <2> QED BY <2>1, <2>2, <2>3, <2>4 DEF Page
<1> HIDE DEF q
<1>2. Records(q) = {}
  BY <1>1 DEF Records
<1> QED BY <1>1, <1>2 DEF q

LEMMA RecordSlots ==
    ASSUME NEW pg
    PROVE  pg.bits = {x[1] : x \in Records(pg)}
<1>1. ASSUME NEW s \in pg.bits PROVE s \in {x[1] : x \in Records(pg)}
  <2>1. <<s, pg.data[s]>> \in Records(pg) /\ <<s, pg.data[s]>>[1] = s
    BY DEF Records
  <2> QED BY <2>1
<1>2. ASSUME NEW x \in Records(pg) PROVE x[1] \in pg.bits
  BY DEF Records
<1> QED BY <1>1, <1>2

LEMMA InitedMore ==
    ASSUME NEW l, NEW p, NEW m \in Nat, NEW n \in Nat, m <= n, InitedIn(l, p, m)
    PROVE  InitedIn(l, p, n)
<1>1. PICK i \in 1..m : l[i].page = p /\ l[i].type = "init_page"
  BY DEF InitedIn
<1>2. i \in 1..n
  OBVIOUS
<1> QED BY <1>1, <1>2 DEF InitedIn

LEMMA InitedOnly ==
    ASSUME NEW l, NEW p, NEW n \in Nat, l[n + 1].type # "init_page"
    PROVE  InitedIn(l, p, n + 1) <=> InitedIn(l, p, n)
<1>1. \A i \in 1..n + 1 : i \in 1..n \/ i = n + 1
  OBVIOUS
<1>2. \A i \in 1..n : i \in 1..n + 1
  OBVIOUS
<1> QED BY <1>1, <1>2 DEF InitedIn

\* A page with all entries up to n is what the log up to n makes of it.
LEMMA PageAt ==
    ASSUME NEW l, NEW p, NEW n \in Nat, NEW pg \in Page, PageOK(l, pg, p), UpTo(l, pg, p, n), pg.lsn <= n
    PROVE  /\ Records(pg) = LoggedIn(l, p, n) /\ pg.bits = BitsIn(l, p, n)
           /\ pg.num = Cardinality(pg.bits)
           /\ pg.cap = IF InitedIn(l, p, n) THEN Capacity ELSE 0
<1>1. PICK m \in Nat : m = pg.lsn
  BY DEF Page
<1>2. \A i \in (m + 1)..n : l[i].page = p => l[i].type = "allocate"
  BY <1>1 DEF UpTo
<1>3. LoggedIn(l, p, n) = LoggedIn(l, p, m) /\ (InitedIn(l, p, n) <=> InitedIn(l, p, m))
  BY <1>1, <1>2, LoggedSame
<1>4. Records(pg) = LoggedIn(l, p, n)
  BY <1>1, <1>3 DEF PageOK
<1> QED BY <1>1, <1>3, <1>4, RecordSlots DEF PageOK, BitsIn

\* The replay of an entry on a page that has all entries before it does not fail, and gives the page
\* that has this one too.
LEMMA PageStep ==
    ASSUME NEW l, Len(l) \in Nat, NEW n \in Nat, n < Len(l), NEW p, NEW pg \in Page,
           PageOK(l, pg, p), UpTo(l, pg, p, n), pg.lsn <= n,
           l[n + 1].page = p, l[n + 1].type \in Types \ {"allocate"}, EntryOK(l, n + 1)
    PROVE  /\ ~ReplayFails(pg, l[n + 1])
           /\ Applied(pg, l[n + 1], n + 1) \in Page /\ Applied(pg, l[n + 1], n + 1).lsn = n + 1
           /\ PageOK(l, Applied(pg, l[n + 1], n + 1), p)
<1> DEFINE e == l[n + 1]
           s == e.slot
           q == Applied(pg, e, n + 1)
<1>1. /\ Records(pg) = LoggedIn(l, p, n) /\ pg.bits = BitsIn(l, p, n)
      /\ pg.num = Cardinality(pg.bits)
      /\ pg.cap = IF InitedIn(l, p, n) THEN Capacity ELSE 0
  BY PageAt
<1>2. pg.bits \subseteq Slots /\ IsFiniteSet(pg.bits)
  BY FS_Subset, SlotsFinite DEF Page
<1>3. n + 1 \in Nat /\ n + 1 \in 0..Len(l) /\ (n + 1) - 1 = n
  OBVIOUS
<1>4. e.type \in {"insert", "delete", "update"} => pg.cap = Capacity
  BY <1>1, <1>3 DEF EntryOK
<1>5. CASE e.type = "init_page"
  <2>1. q = [InitEmptyPage(pg) EXCEPT !.lsn = n + 1]
    BY <1>5 DEF Applied, Replayed, ReplayInitPage
  <2> HIDE DEF q, e
  <2>2. q \in Page /\ q.cap = Capacity /\ q.lsn = n + 1 /\ q.bits = {} /\ q.num = 0 /\ Records(q) = {}
    BY <1>3, <2>1, InitIs
  <2>3. LoggedIn(l, p, n + 1) = {} /\ InitedIn(l, p, n + 1)
    BY <1>5, LoggedInit DEF e
  <2>4. q.num = Cardinality(q.bits)
    BY <2>2, FS_EmptySet
  <2>5. ~ReplayFails(pg, e)
    BY <1>5 DEF ReplayFails
  <2>6. PageOK(l, q, p)
    BY <1>3, <2>2, <2>3, <2>4 DEF PageOK
  <2> QED BY <2>2, <2>5, <2>6 DEF q, e
<1>6. CASE e.type = "insert"
  <2>1. s \in Slots \ pg.bits /\ \A r \in 0..(s - 1) : r \in pg.bits
    BY <1>1, <1>3, <1>6 DEF EntryOK
  <2>2. pg.num < pg.cap /\ pg.num \in Nat
    <3>1. Cardinality(pg.bits) \in Nat /\ Cardinality(pg.bits) <= Capacity /\ pg.bits # Slots
      BY <1>2, <2>1, FS_Subset, FS_CardinalityType, SlotsFinite
    <3>2. Cardinality(pg.bits) # Capacity
      BY <1>2, <3>1, FS_Subset, SlotsFinite
    <3> QED BY <1>1, <1>4, <1>6, <3>1, <3>2, SlotsFinite
  <2>3. InsertIndex(pg) = s
    <3>1. ~IsFull(pg)
      BY <1>4, <1>6, <2>2, SlotsFinite DEF IsFull
    <3>2. InsertIndex(pg) \in Slots \ pg.bits /\ \A r \in 0..(InsertIndex(pg) - 1) : r \in pg.bits
      BY <1>1, <1>4, <1>6, <3>1, InsertIndexIs
    <3>3. PICK i \in Slots \ pg.bits : i = InsertIndex(pg)
      BY <3>2
    <3> HIDE DEF s, e
    <3> QED BY <2>1, <3>2, <3>3, LeastUnique, SlotsFinite
  <2>4. q = [PutRecord(pg, s, n + 1) EXCEPT !.lsn = n + 1]
    BY <1>6, <2>3 DEF Applied, Replayed, ReplayInsert
  <2>5. /\ q \in Page /\ q.cap = pg.cap /\ q.lsn = n + 1 /\ q.bits = pg.bits \cup {s} /\ q.num = pg.num + 1
        /\ Records(q) = {x \in Records(pg) : x[1] # s} \cup {<<s, n + 1>>}
    <3>1. s \in Slots /\ s \notin pg.bits
      BY <2>1
    <3> HIDE DEF s, q
    <3> QED BY <1>3, <2>4, <3>1, PutIs
  <2>6. Records(q) = LoggedIn(l, p, n + 1)
    <3> HIDE DEF q
    <3> QED BY <1>1, <1>6, <2>5, LoggedWrite
  <2>7. q.num = Cardinality(q.bits)
    <3>1. s \notin pg.bits
      BY <2>1
    <3> HIDE DEF q, s
    <3>2. Cardinality(pg.bits \cup {s}) = Cardinality(pg.bits) + 1
      BY <1>2, <3>1, FS_AddElement
    <3> QED BY <1>1, <2>5, <3>2
  <2>8. q.cap = IF InitedIn(l, p, n + 1) THEN Capacity ELSE 0
    <3> HIDE DEF q
    <3> QED BY <1>1, <1>6, <2>5, InitedOnly
  <2>9. ~ReplayFails(pg, e)
    BY <1>6, <2>2 DEF ReplayFails, Page
  <2> HIDE DEF q, e
  <2> QED BY <1>3, <2>5, <2>6, <2>7, <2>8, <2>9 DEF PageOK, q, e
<1>7. CASE e.type = "delete"
  <2>1. s \in pg.bits
    BY <1>1, <1>3, <1>7 DEF EntryOK
  <2>2. q = [DropRecord(pg, s) EXCEPT !.lsn = n + 1]
    BY <1>7 DEF Applied, Replayed, ReplayDelete
  <2>3. /\ q \in Page /\ q.cap = pg.cap /\ q.lsn = n + 1 /\ q.bits = pg.bits \ {s} /\ q.num = pg.num - 1
        /\ Records(q) = {x \in Records(pg) : x[1] # s}
    <3> HIDE DEF s, q
    <3> QED BY <1>2, <1>3, <2>1, <2>2, DropIs
  <2>4. Records(q) = LoggedIn(l, p, n + 1)
    <3> HIDE DEF q
    <3>1. l[n + 1].type = "delete"
      BY <1>7
    <3>2. \A x : x \in LoggedIn(l, p, n + 1) <=> x \in LoggedIn(l, p, n) /\ x[1] # s
      BY <3>1, LoggedDelete
    <3> HIDE DEF s
    <3> QED BY <1>1, <2>3, <3>2
  <2>5. q.num = Cardinality(q.bits)
    <3> HIDE DEF q, s
    <3>1. Cardinality(pg.bits \ {s}) = Cardinality(pg.bits) - 1
      BY <1>2, <2>1, FS_RemoveElement
    <3> QED BY <1>1, <2>3, <3>1
  <2>6. q.cap = IF InitedIn(l, p, n + 1) THEN Capacity ELSE 0
    <3> HIDE DEF q
    <3> QED BY <1>1, <1>7, <2>3, InitedOnly
  <2>7. ~ReplayFails(pg, e)
    BY <1>2, <1>4, <1>7, <2>1, SlotsFinite DEF ReplayFails, HasRecord, Slots
  <2> HIDE DEF q, e
  <2> QED BY <1>3, <2>3, <2>4, <2>5, <2>6, <2>7 DEF PageOK, q, e
<1>8. CASE e.type = "update"
  <2>1. s \in pg.bits
    BY <1>1, <1>3, <1>8 DEF EntryOK
  <2>2. q = [SetRecord(pg, s, n + 1) EXCEPT !.lsn = n + 1]
    BY <1>8 DEF Applied, Replayed, ReplayUpdate
  <2>3. /\ q \in Page /\ q.cap = pg.cap /\ q.lsn = n + 1 /\ q.bits = pg.bits /\ q.num = pg.num
        /\ Records(q) = {x \in Records(pg) : x[1] # s} \cup {<<s, n + 1>>}
    <3> HIDE DEF s, q
    <3> QED BY <1>2, <1>3, <2>1, <2>2, SetIs
  <2>4. Records(q) = LoggedIn(l, p, n + 1)
    <3> HIDE DEF q
    <3> QED BY <1>1, <1>8, <2>3, LoggedWrite
  <2>5. q.num = Cardinality(q.bits)
    BY <1>1, <2>3
  <2>6. q.cap = IF InitedIn(l, p, n + 1) THEN Capacity ELSE 0
    <3> HIDE DEF q
    <3> QED BY <1>1, <1>8, <2>3, InitedOnly
  <2>7. ~ReplayFails(pg, e)
    BY <1>2, <1>4, <1>8, <2>1, SlotsFinite DEF ReplayFails, HasRecord, Slots
  <2> HIDE DEF q, e
  <2> QED BY <1>3, <2>3, <2>4, <2>5, <2>6, <2>7 DEF PageOK, q, e
<1> HIDE DEF q
<1> QED BY <1>5, <1>6, <1>7, <1>8 DEF Types, q

-----------------------------------------------------------------------------
(***************************************************************************)
(* The inductive invariant.                                                *)
(***************************************************************************)
Pcs         == {"idle", "ins_lock", "ins_find", "ins_alloc", "ins_init", "ins_free", "ins_put",
                "del_page", "del_free", "scan_move", "scan"}
ThreadState == [pc : Pcs, page : 0..MaxPages, slot : Slots \cup {-1}, last : 0..MaxPages,
                write : BOOLEAN, seen : SUBSET Rids, must : SUBSET Rids]

TypeInv ==
    /\ pages \in [PageNums -> Page] /\ disk \in [PageNums -> Page]
    /\ alloc \in 0..MaxPages
    /\ log \in Seq(LogEntry) /\ durable \in 0..Len(log)
    /\ free_pages \in SUBSET (1..alloc)
    /\ lock \in Threads \cup {Free}
    /\ xlatch \in [PageNums -> Threads \cup {Free}] /\ slatch \in [PageNums -> SUBSET Threads]
    /\ th \in [Threads -> ThreadState]
    /\ mode \in {"run", "redo"} /\ redo \in 1..(Len(log) + 1)

\* Who holds lock_ and the latches; nobody works while the log is replayed.
Holds(x)  == x.pc \in {"ins_free", "ins_put"} \/ (x.pc = "scan" /\ x.write)
Shares(x) == x.pc = "scan" /\ ~x.write
HolderInv ==
    \A t \in Threads :
        /\ lock = t <=> th[t].pc = "ins_find"
        /\ \A p \in PageNums : /\ xlatch[p] = t <=> th[t].page = p /\ Holds(th[t])
                               /\ t \in slatch[p] <=> th[t].page = p /\ Shares(th[t])
QuietInv == mode = "redo" => \A t \in Threads : th[t] = Idle

\* The entries of the log that are in the pages.
Done == IF mode = "run" THEN Len(log) ELSE redo - 1

\* The log is one that pages could make; the pages in memory and on disk are what it makes of them.
StoreOK(l, mem, dsk, dur, done) ==
    /\ \A i \in 1..Len(l) : EntryOK(l, i)
    /\ \A p \in PageNums : /\ PageOK(l, mem[p], p) /\ UpTo(l, mem[p], p, done)
                           /\ PageOK(l, dsk[p], p) /\ dsk[p].lsn <= dur
StoreInv == StoreOK(log, pages, disk, durable, Done)

\* The pages the log has allocated, and the threads' pages, are pages of the file.
AllocInv ==
    /\ \A i \in 1..Done : log[i].type = "allocate" => log[i].page <= alloc
    /\ \A t \in Threads :
         /\ th[t].pc \in {"ins_init", "ins_free", "ins_put", "del_page", "del_free"} => th[t].page \in 1..alloc
         /\ th[t].pc \in {"scan", "scan_move"} => th[t].last <= alloc /\ th[t].page <= th[t].last
         /\ th[t].pc = "scan" => th[t].page >= 1
         /\ th[t].pc = "ins_init" => \E i \in 1..Len(log) : IsAllocate(log, i, th[t].page)

\* A new page belongs to the thread that makes it until it is in free_pages_; a page a thread is
\* about to put a record in has room.
Makes(x) == x.pc \in {"ins_init", "ins_free"}
Knows(x) == x.pc \in {"ins_init", "ins_free", "ins_put", "del_free"}
FreshInv ==
    \A t \in Threads :
        /\ Makes(th[t]) => /\ th[t].page \notin free_pages /\ pages[th[t].page].bits = {}
                           /\ \A u \in Threads \ {t} : ~(th[u].page = th[t].page /\ Knows(th[u]))
        /\ th[t].pc \in {"ins_free", "ins_put"} => ~IsFull(pages[th[t].page])

\* FreePagesKnown during the replay as well: a page the log will allocate is still to come.
Gives(x) == x.pc \in {"del_free", "ins_free"}
KnownInv ==
    \A p \in PageNums :
        ~IsFull(pages[p]) /\ p \notin redone =>
          \/ p \in free_pages
          \/ \E t \in Threads : th[t].page = p /\ Gives(th[t])
          \/ mode = "redo" /\ p > alloc /\ \E i \in redo..Len(log) : IsAllocate(log, i, p)

\* Where a scan is: every record it must return is there, and returned or before it.
Scans(x) == x.pc \in {"scan", "scan_move"}
Ahead(x, r) ==
    \/ r \in x.seen \/ r[1] > x.page
    \/ x.pc = "scan" /\ r[1] = x.page /\ x.slot # -1 /\ r[2] >= x.slot
ScanOK(x, mem) ==
    /\ ~Scans(x) => x.must = {}
    /\ Scans(x) => /\ \A r \in x.must : r[1] <= x.last /\ r[2] \in mem[r[1]].bits /\ Ahead(x, r)
                   /\ \A r \in x.seen : r[1] <= x.page
    /\ x.pc = "scan" /\ x.write => /\ x.slot = -1 \/ x.slot \in mem[x.page].bits
                                   /\ \A r \in x.seen : r[1] = x.page => r[2] \in mem[x.page].bits
ScanInv == \A t \in Threads : ScanOK(th[t], pages)

IInv == TypeInv /\ HolderInv /\ QuietInv /\ StoreInv /\ AllocInv /\ FreshInv /\ KnownInv /\ ScanInv

-----------------------------------------------------------------------------
(***************************************************************************)
(* What the invariant says of the properties.                              *)
(***************************************************************************)
LEMMA Sizes == MaxPages \in Nat \ {0} /\ PageNums = 1..MaxPages /\ \A p \in PageNums : p \in Nat \ {0}
  BY RecordFileAssumption DEF PageNums

LEMMA FreePageIs ==
    ASSUME TypeInv, free_pages # {}
    PROVE  Min(free_pages) \in free_pages /\ Min(free_pages) \in 1..alloc /\ Min(free_pages) \in PageNums
<1>1. alloc \in Nat /\ alloc <= MaxPages /\ free_pages \subseteq 1..alloc
  BY Sizes DEF TypeInv
<1>2. free_pages \in SUBSET Nat
  BY <1>1
<1>3. Min(free_pages) \in free_pages
  BY <1>2, LeastIs
<1>4. PICK m \in free_pages : m = Min(free_pages)
  BY <1>3
<1>5. m \in 1..alloc /\ m \in PageNums
  BY <1>1, Sizes
<1> QED BY <1>4, <1>5

\* The page a thread uses is a page of the file.
LEMMA ThreadPage ==
    ASSUME TypeInv, AllocInv, NEW t \in Threads
    PROVE  /\ th[t].page \in 0..MaxPages /\ th[t].last \in 0..MaxPages /\ alloc \in 0..MaxPages
           /\ th[t].pc \in {"ins_init", "ins_free", "ins_put", "del_page", "del_free", "scan"} =>
                th[t].page \in PageNums /\ th[t].page <= alloc
           /\ Scans(th[t]) => th[t].last <= alloc /\ th[t].page <= th[t].last
<1>1. th[t].page \in 0..MaxPages /\ th[t].last \in 0..MaxPages /\ alloc \in 0..MaxPages
  BY DEF TypeInv, ThreadState
<1> QED BY <1>1, Sizes DEF AllocInv, Scans

LEMMA NoCycle ==
    ASSUME TypeInv, HolderInv, AllocInv, FreshInv
    PROVE  NoWaitCycle
<1>1. SUFFICES ASSUME NEW group \in SUBSET Threads, NEW t \in group,
                      \A a \in group : \E b \in group : WaitsFor(a, b)
               PROVE  FALSE
  BY DEF NoWaitCycle
<1>2. free_pages # {} => Min(free_pages) \in free_pages /\ Min(free_pages) \in PageNums
  BY FreePageIs
<1>3. ASSUME NEW a \in Threads, NEW b \in Threads, WaitsFor(a, b)
      PROVE  \/ th[a].pc \in {"ins_lock", "ins_free", "del_free"} /\ th[b].pc = "ins_find"
             \/ th[a].pc = "ins_find" /\ th[b].page \in free_pages /\ th[b].pc \in {"ins_free", "ins_put", "scan"}
             \/ th[a].pc \in {"ins_init", "del_page", "scan_move"} /\ th[b].pc \in {"ins_free", "ins_put", "scan"}
  <2>1. CASE th[a].pc \in {"ins_lock", "ins_free", "del_free"}
    BY <1>3, <2>1 DEF WaitsFor, HolderInv
  <2>2. CASE th[a].pc = "ins_find"
    <3>1. free_pages # {} /\ (xlatch[Min(free_pages)] = b \/ b \in slatch[Min(free_pages)])
      BY <1>3, <2>2 DEF WaitsFor
    <3> QED BY <1>2, <2>2, <3>1 DEF HolderInv, Holds, Shares
  <2>3. CASE th[a].pc \in {"ins_init", "del_page"}
    <3>1. xlatch[th[a].page] = b \/ b \in slatch[th[a].page]
      BY <1>3, <2>3 DEF WaitsFor
    <3>2. th[a].page \in PageNums
      BY <2>3, ThreadPage
    <3> QED BY <2>3, <3>1, <3>2 DEF HolderInv, Holds, Shares
  <2>4. CASE th[a].pc = "scan_move"
    <3>1. NextPage(a) <= th[a].last /\ (xlatch[NextPage(a)] = b \/ b \in slatch[NextPage(a)])
      BY <1>3, <2>4 DEF WaitsFor
    <3>2. NextPage(a) \in PageNums
      BY <2>4, <3>1, ThreadPage, Sizes DEF NextPage, Scans
    <3> QED BY <2>4, <3>1, <3>2 DEF HolderInv, Holds, Shares
  <2> QED BY <1>3, <2>1, <2>2, <2>3, <2>4 DEF WaitsFor
<1>4. ASSUME NEW a \in Threads, th[a].pc = "ins_free" PROVE th[a].page \notin free_pages
  BY <1>4 DEF FreshInv, Makes
\* Whoever waits is followed, after at most two more, by a thread that does not wait.
<1>5. ASSUME NEW a \in group PROVE ~(th[a].pc \in {"ins_put", "scan"})
  <2>1. PICK b \in group : WaitsFor(a, b)
    BY <1>1
  <2> QED BY <1>3, <2>1
<1>6. ASSUME NEW a \in group PROVE th[a].pc # "ins_find"
  <2>1. PICK b \in group : WaitsFor(a, b)
    BY <1>1
  <2> QED BY <1>3, <1>4, <1>5, <2>1
<1>7. ASSUME NEW a \in group PROVE th[a].pc # "ins_free"
  <2>1. PICK b \in group : WaitsFor(a, b)
    BY <1>1
  <2> QED BY <1>3, <1>6, <2>1
<1>8. PICK u \in group : WaitsFor(t, u)
  BY <1>1
<1> QED BY <1>3, <1>5, <1>6, <1>7, <1>8

LEMMA FreeKnown ==
    ASSUME KnownInv
    PROVE  FreePagesKnown
  BY DEF KnownInv, FreePagesKnown, Gives

LEMMA ScanAll ==
    ASSUME TypeInv, ScanInv
    PROVE  ScanComplete
<1>1. SUFFICES ASSUME NEW t \in Threads, At(t, "scan_move"), NextPage(t) > th[t].last, NEW r \in th[t].must
               PROVE  r \in th[t].seen
  BY DEF ScanComplete
<1>2. th[t].pc = "scan_move" /\ ScanOK(th[t], pages)
  BY <1>1 DEF At, ScanInv
<1>3. r[1] <= th[t].last /\ Ahead(th[t], r)
  BY <1>2 DEF ScanOK, Scans
<1>4. r[1] \in Int /\ th[t].page \in Int /\ th[t].last \in Int
  BY DEF TypeInv, ThreadState, Rids, PageNums
<1> QED BY <1>1, <1>2, <1>3, <1>4 DEF Ahead, NextPage

LEMMA AsLogged ==
    ASSUME TypeInv, StoreInv
    PROVE  RecordsAsLogged
<1>1. ASSUME mode = "run", NEW p \in PageNums
      PROVE  Records(pages[p]) = Logged(p, Len(log)) /\ pages[p].num = Cardinality(pages[p].bits)
  <2>1. Len(log) \in Nat /\ pages[p] \in Page /\ Done = Len(log)
    BY <1>1 DEF TypeInv, Done
  <2>2. PageOK(log, pages[p], p) /\ UpTo(log, pages[p], p, Len(log))
    BY <2>1 DEF StoreInv, StoreOK
  <2>3. pages[p].lsn <= Len(log)
    BY <2>1, <2>2 DEF PageOK
  <2>4. Records(pages[p]) = LoggedIn(log, p, Len(log)) /\ pages[p].num = Cardinality(pages[p].bits)
    BY <2>1, <2>2, <2>3, PageAt
  <2>5. LoggedIn(log, p, Len(log)) = Logged(p, Len(log))
    BY DEF LoggedIn, Logged, LiveIn, OverIn, Overwrites
  <2> QED BY <2>4, <2>5
<1>2. ASSUME mode = "redo", redo <= Len(log), log[redo].type # "allocate"
      PROVE  LET p == log[redo].page IN Seen(pages[p], redo) \/ ~ReplayFails(pages[p], log[redo])
  <2> DEFINE p == log[redo].page
  <2>1. SUFFICES ASSUME ~Seen(pages[p], redo) PROVE ~ReplayFails(pages[p], log[redo])
    OBVIOUS
  <2>2. PICK n \in Nat : redo = n + 1 /\ Done = n /\ n < Len(log)
    BY <1>2 DEF TypeInv, Done
  <2>3. log[redo] \in LogEntry /\ p \in PageNums /\ Len(log) \in Nat
    <3>1. log \in Seq(LogEntry) /\ redo \in 1..Len(log)
      BY <1>2 DEF TypeInv
    <3>2. log[redo] \in LogEntry /\ Len(log) \in Nat
      BY <3>1
    <3> QED BY <3>2 DEF LogEntry
  <2>4. log[redo].type \in Types \ {"allocate"}
    BY <1>2, <2>3 DEF LogEntry
  <2>5. pages[p] \in Page /\ pages[p].lsn \in Nat
    BY <2>3 DEF TypeInv, Page
  <2>6. pages[p].lsn <= n
    BY <2>1, <2>2, <2>5 DEF Seen
  <2>7. PageOK(log, pages[p], p) /\ UpTo(log, pages[p], p, n) /\ EntryOK(log, n + 1)
    BY <2>2, <2>3 DEF StoreInv, StoreOK
  <2>8. PICK q \in PageNums : q = p
    BY <2>3
  <2> HIDE DEF p
  <2>9. log[n + 1].page = q
    BY <2>2, <2>8 DEF p
  <2> QED BY <2>2, <2>3, <2>4, <2>5, <2>6, <2>7, <2>8, <2>9, PageStep
<1> QED BY <1>1, <1>2 DEF RecordsAsLogged

-----------------------------------------------------------------------------
(***************************************************************************)
(* Steps of a thread that change no page.                                  *)
(***************************************************************************)
\* The other threads hold what they held.
OthersHold(t) ==
    \A u \in Threads \ {t} :
        /\ lock' = u <=> lock = u
        /\ \A p \in PageNums : (xlatch'[p] = u <=> xlatch[p] = u) /\ (u \in slatch'[p] <=> u \in slatch[p])
HolderTypes ==
    /\ lock' \in Threads \cup {Free}
    /\ xlatch' \in [PageNums -> Threads \cup {Free}] /\ slatch' \in [PageNums -> SUBSET Threads]
\* The thread holds what its place in the code says.
HoldsOwn(t) ==
    /\ lock' = t <=> th'[t].pc = "ins_find"
    /\ \A p \in PageNums : /\ xlatch'[p] = t <=> th'[t].page = p /\ Holds(th'[t])
                           /\ t \in slatch'[p] <=> th'[t].page = p /\ Shares(th'[t])
OthersStay(t) ==
    \A u \in Threads \ {t} :
        th'[u].pc = th[u].pc /\ th'[u].page = th[u].page /\ th'[u].write = th[u].write /\ th'[u].last = th[u].last
OnlyThread(t) ==
    /\ th' \in [Threads -> ThreadState]
    /\ \A u \in Threads \ {t} : th'[u] = th[u]
PagesOwn(x, k) ==
    /\ x.pc \in {"ins_init", "ins_free", "ins_put", "del_page", "del_free"} => x.page \in 1..k
    /\ x.pc \in {"scan", "scan_move"} => x.last <= k /\ x.page <= x.last
    /\ x.pc = "scan" => x.page >= 1

LEMMA HoldersKept ==
    ASSUME HolderInv, NEW t \in Threads, OthersStay(t), OthersHold(t), HoldsOwn(t)
    PROVE  HolderInv'
<1>1. ASSUME NEW u \in Threads
      PROVE  /\ lock' = u <=> th'[u].pc = "ins_find"
             /\ \A p \in PageNums : /\ xlatch'[p] = u <=> th'[u].page = p /\ Holds(th'[u])
                                    /\ u \in slatch'[p] <=> th'[u].page = p /\ Shares(th'[u])
  <2>1. CASE u = t
    BY <2>1 DEF HoldsOwn
  <2>2. CASE u # t
    <3>1. th'[u].pc = th[u].pc /\ th'[u].page = th[u].page /\ th'[u].write = th[u].write
      BY <2>2 DEF OthersStay
    <3> QED BY <2>2, <3>1 DEF HolderInv, OthersHold, Holds, Shares
  <2> QED BY <2>1, <2>2
<1> QED BY <1>1 DEF HolderInv

LEMMA LocalStep ==
    ASSUME IInv, NEW t \in Threads, mode = "run", UNCHANGED <<store, mode, redo, redone>>,
           OnlyThread(t), HolderTypes, OthersHold(t), HoldsOwn(t),
           free_pages' \in SUBSET (1..alloc), PagesOwn(th'[t], alloc),
           ~Makes(th'[t]), \A q \in free_pages' \ free_pages : Knows(th[t]) /\ q = th[t].page,
           Knows(th'[t]) => (Knows(th[t]) /\ th'[t].page = th[t].page) \/ th'[t].page \in free_pages,
           th'[t].pc = "ins_put" => ~IsFull(pages[th'[t].page]),
           \A q \in free_pages \ free_pages' : IsFull(pages[q]),
           Gives(th[t]) => th[t].page \in free_pages',
           ScanOK(th'[t], pages)
    PROVE  IInv'
<1> USE DEF store
<1>1. TypeInv'
  BY DEF TypeInv, IInv, OnlyThread, HolderTypes
<1>2. HolderInv'
  BY HoldersKept DEF IInv, OnlyThread, OthersStay
<1>3. QuietInv'
  BY DEF QuietInv
<1>4. Done' = Done /\ StoreInv'
  BY DEF IInv, StoreInv, Done
<1>5. AllocInv'
  <2>1. ASSUME NEW u \in Threads PROVE PagesOwn(th'[u], alloc)
    BY DEF PagesOwn, OnlyThread, IInv, AllocInv
  <2>2. \A i \in 1..Done' : log'[i].type = "allocate" => log'[i].page <= alloc'
    BY <1>4 DEF IInv, AllocInv
  <2>3. ASSUME NEW u \in Threads, th'[u].pc = "ins_init" PROVE \E i \in 1..Len(log) : IsAllocate(log, i, th'[u].page)
    <3>1. u # t /\ th'[u] = th[u]
      BY <2>3 DEF OnlyThread, Makes
    <3> QED BY <2>3, <3>1 DEF IInv, AllocInv
  <2> QED BY <2>1, <2>2, <2>3 DEF PagesOwn, AllocInv
<1>6. FreshInv'
  <2>1. ASSUME NEW u \in Threads, Makes(th'[u])
        PROVE  /\ th'[u].page \notin free_pages' /\ pages'[th'[u].page].bits = {}
               /\ \A v \in Threads \ {u} : ~(th'[v].page = th'[u].page /\ Knows(th'[v]))
    <3>1. u # t /\ th'[u] = th[u]
      BY <2>1 DEF OnlyThread
    <3>2. /\ th[u].page \notin free_pages /\ pages[th[u].page].bits = {}
          /\ \A v \in Threads \ {u} : ~(th[v].page = th[u].page /\ Knows(th[v]))
      BY <2>1, <3>1 DEF IInv, FreshInv
    <3>3. th[u].page \notin free_pages'
      BY <3>1, <3>2
    <3>4. ASSUME NEW v \in Threads \ {u} PROVE ~(th'[v].page = th[u].page /\ Knows(th'[v]))
      <4>1. CASE v = t
        BY <3>1, <3>2, <4>1
      <4>2. CASE v # t
        BY <3>2, <4>2 DEF OnlyThread
      <4> QED BY <4>1, <4>2
    <3> QED BY <3>1, <3>2, <3>3, <3>4
  <2>2. ASSUME NEW u \in Threads, th'[u].pc \in {"ins_free", "ins_put"} PROVE ~IsFull(pages'[th'[u].page])
    <3>1. CASE u = t
      BY <2>2, <3>1 DEF Makes
    <3>2. CASE u # t
      BY <2>2, <3>2 DEF OnlyThread, IInv, FreshInv
    <3> QED BY <3>1, <3>2
  <2> QED BY <2>1, <2>2 DEF FreshInv
<1>7. KnownInv'
  <2>1. SUFFICES ASSUME NEW p \in PageNums, ~IsFull(pages[p]), p \notin redone
                 PROVE  p \in free_pages' \/ \E u \in Threads : th'[u].page = p /\ Gives(th'[u])
    BY DEF KnownInv
  <2>2. p \in free_pages \/ \E u \in Threads : th[u].page = p /\ Gives(th[u])
    BY <2>1 DEF IInv, KnownInv
  <2>3. CASE p \in free_pages
    BY <2>1, <2>3
  <2>4. ASSUME NEW u \in Threads, th[u].page = p, Gives(th[u]) PROVE p \in free_pages' \/ (th'[u].page = p /\ Gives(th'[u]))
    BY <2>4 DEF OnlyThread
  <2> QED BY <2>2, <2>3, <2>4
<1>8. ScanInv'
  BY DEF ScanInv, IInv, OnlyThread
<1> QED BY <1>1, <1>2, <1>3, <1>4, <1>5, <1>6, <1>7, <1>8 DEF IInv

LEMMA NotFree == Free \notin Threads
  BY RecordFileAssumption DEF Free

LEMMA ThreadIs ==
    ASSUME TypeInv, NEW t \in Threads, NEW x \in ThreadState, th' = [th EXCEPT ![t] = x]
    PROVE  OnlyThread(t) /\ th'[t] = x
  BY DEF TypeInv, OnlyThread

LEMMA IdleIs == Idle \in ThreadState /\ Idle.pc = "idle" /\ Idle.must = {} /\ Idle.seen = {} /\ Idle.page = 0
<1>1. 0 \in 0..MaxPages
  BY Sizes
<1> QED BY <1>1 DEF Idle, ThreadState, Pcs

LEMMA GoIdle ==
    ASSUME TypeInv, NEW t \in Threads, Go(t, "idle")
    PROVE  OnlyThread(t) /\ th'[t] = Idle
<1>1. th' = [th EXCEPT ![t] = Idle]
  BY DEF Go
<1> QED BY <1>1, IdleIs, ThreadIs

LEMMA GoIs ==
    ASSUME TypeInv, NEW t \in Threads, NEW pc \in Pcs \ {"idle"}, Go(t, pc)
    PROVE  /\ OnlyThread(t) /\ th'[t].pc = pc
           /\ th'[t].page = th[t].page /\ th'[t].slot = th[t].slot /\ th'[t].last = th[t].last
           /\ th'[t].write = th[t].write /\ th'[t].seen = th[t].seen /\ th'[t].must = th[t].must
<1>1. PICK x : x = [th[t] EXCEPT !.pc = pc]
  OBVIOUS
<1>2. /\ x \in ThreadState /\ x.pc = pc /\ x.page = th[t].page /\ x.slot = th[t].slot /\ x.last = th[t].last
      /\ x.write = th[t].write /\ x.seen = th[t].seen /\ x.must = th[t].must
  BY <1>1 DEF TypeInv, ThreadState
<1>3. th' = [th EXCEPT ![t] = x]
  BY <1>1 DEF Go
<1> QED BY <1>2, <1>3, ThreadIs

LEMMA GoPageIs ==
    ASSUME TypeInv, NEW t \in Threads, NEW pc \in Pcs, NEW p \in 0..MaxPages, GoPage(t, pc, p)
    PROVE  /\ OnlyThread(t) /\ th'[t].pc = pc /\ th'[t].page = p
           /\ th'[t].slot = th[t].slot /\ th'[t].last = th[t].last
           /\ th'[t].write = th[t].write /\ th'[t].seen = th[t].seen /\ th'[t].must = th[t].must
<1>1. PICK x : x = [th[t] EXCEPT !.pc = pc, !.page = p]
  OBVIOUS
<1>2. /\ x \in ThreadState /\ x.pc = pc /\ x.page = p /\ x.slot = th[t].slot /\ x.last = th[t].last
      /\ x.write = th[t].write /\ x.seen = th[t].seen /\ x.must = th[t].must
  BY <1>1 DEF TypeInv, ThreadState
<1>3. th' = [th EXCEPT ![t] = x]
  BY <1>1 DEF GoPage, TypeInv
<1> QED BY <1>2, <1>3, ThreadIs

LEMMA HoldNone ==
    ASSUME TypeInv, HolderInv, NEW t \in Threads, UNCHANGED <<lock, latches>>,
           th[t].pc # "ins_find", ~Holds(th[t]), ~Shares(th[t]),
           th'[t].pc # "ins_find", ~Holds(th'[t]), ~Shares(th'[t])
    PROVE  HolderTypes /\ OthersHold(t) /\ HoldsOwn(t)
  BY DEF TypeInv, HolderInv, HolderTypes, OthersHold, HoldsOwn, latches

\* A thread that does not scan has nothing to return.
LEMMA NoScan ==
    ASSUME NEW x, ~Scans(x), x.must = {}
    PROVE  ScanOK(x, pages)
  BY DEF ScanOK, Scans

LEMMA NoMust ==
    ASSUME ScanInv, NEW t \in Threads, ~Scans(th[t])
    PROVE  th[t].must = {}
  BY DEF ScanInv, ScanOK

LEMMA InsertStartInv ==
    ASSUME IInv, NEW t \in Threads, InsertStart(t)
    PROVE  IInv'
<1> USE DEF Makes, Knows, Gives, Scans, Holds, Shares
<1>1. mode = "run" /\ th[t].pc = "idle" /\ Go(t, "ins_lock") /\ UNCHANGED <<store, free_pages, lock, latches, mode, redo, redone>>
  BY DEF InsertStart, At
<1>2. OnlyThread(t) /\ th'[t].pc = "ins_lock" /\ th'[t].must = th[t].must
  BY <1>1, GoIs DEF IInv, Pcs
<1>3. HolderTypes /\ OthersHold(t) /\ HoldsOwn(t)
  BY <1>1, <1>2, HoldNone DEF IInv
<1>4. ScanOK(th'[t], pages)
  BY <1>1, <1>2, NoMust, NoScan DEF IInv
<1>5. free_pages' \in SUBSET (1..alloc)
  BY <1>1 DEF IInv, TypeInv
<1> QED BY <1>1, <1>2, <1>3, <1>4, <1>5, LocalStep DEF PagesOwn

LEMMA InsertLockInv ==
    ASSUME IInv, NEW t \in Threads, InsertLock(t)
    PROVE  IInv'
<1> USE DEF Makes, Knows, Gives, Scans, Holds, Shares
<1>1. /\ mode = "run" /\ th[t].pc = "ins_lock" /\ Go(t, "ins_find") /\ lock = Free /\ lock' = t
      /\ UNCHANGED <<store, free_pages, latches, mode, redo, redone>>
  BY DEF InsertLock, At
<1>2. OnlyThread(t) /\ th'[t].pc = "ins_find" /\ th'[t].must = th[t].must
  BY <1>1, GoIs DEF IInv, Pcs
<1>3. HolderTypes /\ OthersHold(t) /\ HoldsOwn(t)
  BY <1>1, <1>2, NotFree DEF IInv, TypeInv, HolderInv, HolderTypes, OthersHold, HoldsOwn, latches
<1>4. ScanOK(th'[t], pages)
  BY <1>1, <1>2, NoMust, NoScan DEF IInv
<1>5. free_pages' \in SUBSET (1..alloc)
  BY <1>1 DEF IInv, TypeInv
<1> QED BY <1>1, <1>2, <1>3, <1>4, <1>5, LocalStep DEF PagesOwn

LEMMA InsertFindInv ==
    ASSUME IInv, NEW t \in Threads, InsertFind(t)
    PROVE  IInv'
<1> USE DEF Makes, Knows, Gives, Scans, Holds, Shares
<1>1. mode = "run" /\ th[t].pc = "ins_find" /\ UNCHANGED <<store, mode, redo, redone>>
  BY DEF InsertFind, At
<1>2. lock = t /\ th[t].must = {} /\ free_pages \in SUBSET (1..alloc)
  BY <1>1, NoMust DEF IInv, HolderInv, TypeInv
<1>3. ASSUME free_pages = {}, lock' = Free, Go(t, "ins_alloc"), UNCHANGED <<free_pages, latches>> PROVE IInv'
  <2>1. OnlyThread(t) /\ th'[t].pc = "ins_alloc" /\ th'[t].must = {}
    BY <1>2, <1>3, GoIs DEF IInv, Pcs
  <2>2. HolderTypes /\ OthersHold(t) /\ HoldsOwn(t)
    BY <1>1, <1>2, <1>3, <2>1, NotFree DEF IInv, TypeInv, HolderInv, HolderTypes, OthersHold, HoldsOwn, latches
  <2>3. ScanOK(th'[t], pages)
    BY <2>1, NoScan
  <2> QED BY <1>1, <1>2, <1>3, <2>1, <2>2, <2>3, LocalStep DEF PagesOwn
<1>4. ASSUME NEW p, IsFull(pages[p]), free_pages' = free_pages \ {p}, UNCHANGED <<lock, latches, th>> PROVE IInv'
  <2>1. OnlyThread(t) /\ th'[t] = th[t]
    BY <1>4 DEF OnlyThread, IInv, TypeInv
  <2>2. HolderTypes /\ OthersHold(t) /\ HoldsOwn(t)
    BY <1>4 DEF IInv, TypeInv, HolderInv, HolderTypes, OthersHold, HoldsOwn, latches
  <2>3. ScanOK(th'[t], pages)
    BY <1>1, <1>2, <2>1, NoScan
  <2>4. free_pages' \in SUBSET (1..alloc) /\ \A q \in free_pages \ free_pages' : IsFull(pages[q])
    BY <1>2, <1>4
  <2> QED BY <1>1, <1>4, <2>1, <2>2, <2>3, <2>4, LocalStep DEF PagesOwn
<1>5. ASSUME NEW p \in free_pages, p \in PageNums, CanWrite(p), ~IsFull(pages[p]), xlatch' = [xlatch EXCEPT ![p] = t],
             lock' = Free, GoPage(t, "ins_put", p), UNCHANGED <<free_pages, slatch>>
      PROVE  IInv'
  <2>1. OnlyThread(t) /\ th'[t].pc = "ins_put" /\ th'[t].must = {} /\ th'[t].page = p
    BY <1>2, <1>5, GoPageIs, Sizes DEF IInv, Pcs
  <2>2. HolderTypes
    BY <1>5 DEF IInv, TypeInv, HolderTypes
  <2>3. xlatch'[p] = t /\ \A q \in PageNums \ {p} : xlatch'[q] = xlatch[q]
    BY <1>5 DEF IInv, TypeInv
  <2>4. OthersHold(t)
    BY <1>2, <1>5, <2>3, NotFree DEF OthersHold, CanWrite
  <2>5. HoldsOwn(t)
    BY <1>1, <1>5, <2>1, <2>3, NotFree DEF HoldsOwn, IInv, HolderInv
  <2>6. ScanOK(th'[t], pages)
    BY <2>1, NoScan
  <2>7. PagesOwn(th'[t], alloc)
    BY <1>2, <2>1 DEF PagesOwn
  <2> QED BY <1>1, <1>2, <1>5, <2>1, <2>2, <2>4, <2>5, <2>6, <2>7, LocalStep
<1>6. free_pages # {} => Min(free_pages) \in free_pages /\ Min(free_pages) \in PageNums
  BY FreePageIs DEF IInv
<1> QED BY <1>3, <1>4, <1>5, <1>6 DEF InsertFind

LEMMA InsertFailsInv ==
    ASSUME IInv, NEW t \in Threads, mode = "run", th[t].pc \in {"ins_alloc", "del_page"}, Go(t, "idle"),
           UNCHANGED <<store, free_pages, lock, latches, mode, redo, redone>>
    PROVE  IInv'
<1> USE DEF Makes, Knows, Gives, Scans, Holds, Shares
<1>1. OnlyThread(t) /\ th'[t] = Idle
  BY GoIdle DEF IInv
<1>2. HolderTypes /\ OthersHold(t) /\ HoldsOwn(t)
  BY <1>1, IdleIs, HoldNone DEF IInv
<1>3. ScanOK(th'[t], pages)
  BY <1>1, IdleIs, NoScan
<1>4. free_pages' \in SUBSET (1..alloc)
  BY DEF IInv, TypeInv
<1> QED BY <1>1, <1>2, <1>3, <1>4, IdleIs, LocalStep DEF PagesOwn

LEMMA InsertNewFreePageInv ==
    ASSUME IInv, NEW t \in Threads, InsertNewFreePage(t)
    PROVE  IInv'
<1> USE DEF Makes, Knows, Gives, Scans, Holds, Shares
<1>1. /\ mode = "run" /\ th[t].pc = "ins_free" /\ Go(t, "ins_put") /\ free_pages' = free_pages \cup {th[t].page}
      /\ UNCHANGED <<store, lock, latches, mode, redo, redone>>
  BY DEF InsertNewFreePage, At
<1>2. OnlyThread(t) /\ th'[t].pc = "ins_put" /\ th'[t].must = th[t].must /\ th'[t].page = th[t].page
  BY <1>1, GoIs DEF IInv, Pcs
<1>3. HolderTypes /\ OthersHold(t) /\ HoldsOwn(t)
  BY <1>1, <1>2 DEF IInv, TypeInv, HolderInv, HolderTypes, OthersHold, HoldsOwn, latches
<1>4. ScanOK(th'[t], pages)
  BY <1>1, <1>2, NoMust, NoScan DEF IInv
<1>5. th[t].page \in 1..alloc /\ free_pages' \in SUBSET (1..alloc)
  BY <1>1 DEF IInv, TypeInv, AllocInv
<1>6. ~IsFull(pages[th'[t].page])
  BY <1>1, <1>2 DEF IInv, FreshInv
<1> QED BY <1>1, <1>2, <1>3, <1>4, <1>5, <1>6, LocalStep DEF PagesOwn

LEMMA DeleteStartInv ==
    ASSUME IInv, NEW t \in Threads, NEW rid \in Rids, DeleteStart(t, rid)
    PROVE  IInv'
<1> USE DEF Makes, Knows, Gives, Scans, Holds, Shares
<1>1. /\ mode = "run" /\ th[t].pc = "idle" /\ rid[1] <= alloc
      /\ th' = [th EXCEPT ![t].pc = "del_page", ![t].page = rid[1], ![t].slot = rid[2]]
      /\ UNCHANGED <<store, free_pages, lock, latches, mode, redo, redone>>
  BY DEF DeleteStart, At
<1>2. PICK p \in PageNums, s \in Slots : p = rid[1] /\ s = rid[2]
  BY DEF Rids
<1>3. PICK x : x = [th[t] EXCEPT !.pc = "del_page", !.page = p, !.slot = s]
  OBVIOUS
<1>4. x \in ThreadState /\ x.pc = "del_page" /\ x.page = p /\ x.must = th[t].must
  <2>1. th[t] \in ThreadState /\ "del_page" \in Pcs /\ p \in 0..MaxPages /\ s \in Slots \cup {-1}
    BY Sizes DEF IInv, TypeInv, Pcs
  <2> QED BY <1>3, <2>1 DEF ThreadState
<1>5. th' = [th EXCEPT ![t] = x]
  BY <1>1, <1>2, <1>3 DEF IInv, TypeInv
<1>6. OnlyThread(t) /\ th'[t] = x
  BY <1>4, <1>5, ThreadIs DEF IInv
<1>7. HolderTypes /\ OthersHold(t) /\ HoldsOwn(t)
  BY <1>1, <1>4, <1>6, HoldNone DEF IInv
<1>8. ScanOK(th'[t], pages)
  BY <1>1, <1>4, <1>6, NoMust, NoScan DEF IInv
<1>9. free_pages' \in SUBSET (1..alloc)
  BY <1>1 DEF IInv, TypeInv
<1>10. PagesOwn(th'[t], alloc)
  BY <1>1, <1>2, <1>4, <1>6, Sizes DEF PagesOwn, IInv, TypeInv
<1> QED BY <1>1, <1>4, <1>6, <1>7, <1>8, <1>9, <1>10, LocalStep

LEMMA DeleteFreePageInv ==
    ASSUME IInv, NEW t \in Threads, DeleteFreePage(t)
    PROVE  IInv'
<1> USE DEF Makes, Knows, Gives, Scans, Holds, Shares
<1>1. /\ mode = "run" /\ th[t].pc = "del_free" /\ Go(t, "idle") /\ free_pages' = free_pages \cup {th[t].page}
      /\ UNCHANGED <<store, lock, latches, mode, redo, redone>>
  BY DEF DeleteFreePage, At
<1>2. OnlyThread(t) /\ th'[t] = Idle
  BY <1>1, GoIdle DEF IInv
<1>3. HolderTypes /\ OthersHold(t) /\ HoldsOwn(t)
  BY <1>1, <1>2, IdleIs, HoldNone DEF IInv
<1>4. ScanOK(th'[t], pages)
  BY <1>2, IdleIs, NoScan
<1>5. th[t].page \in 1..alloc /\ free_pages' \in SUBSET (1..alloc)
  BY <1>1 DEF IInv, TypeInv, AllocInv
<1> QED BY <1>1, <1>2, <1>3, <1>4, <1>5, IdleIs, LocalStep DEF PagesOwn

\* next_setted_bit: the least record of the page from start on.
LEMMA NextSettedBitIs ==
    ASSUME NEW pg \in Page, NEW start \in Nat
    PROVE  /\ NextSettedBit(pg, start) \in Slots \cup {-1}
           /\ NextSettedBit(pg, start) # -1 => NextSettedBit(pg, start) \in pg.bits
           /\ \A s \in pg.bits : s >= start => NextSettedBit(pg, start) # -1 /\ s >= NextSettedBit(pg, start)
<1> DEFINE used == {s \in pg.bits : s >= start}
<1>1. pg.bits \subseteq Slots /\ used \in SUBSET Nat
  BY SlotsFinite DEF Page
<1>2. CASE used = {}
  <2>1. NextSettedBit(pg, start) = -1
    BY <1>2 DEF NextSettedBit
  <2> QED BY <1>2, <2>1
<1>3. CASE used # {}
  <2>1. NextSettedBit(pg, start) = Min(used)
    BY <1>3 DEF NextSettedBit
  <2>2. Min(used) \in used /\ \A y \in used : Min(used) <= y
    BY <1>1, <1>3, LeastIs
  <2>3. PICK m \in used : m = Min(used)
    BY <2>2
  <2>4. m \in Slots /\ m \in Nat /\ m \in pg.bits /\ m # -1
    BY <1>1
  <2>5. ASSUME NEW s \in pg.bits, s >= start PROVE s >= m
    <3>1. s \in used /\ s \in Nat
      BY <1>1, <2>5
    <3> QED BY <2>2, <2>3, <2>4, <3>1
  <2> HIDE DEF used
  <2> QED BY <2>1, <2>3, <2>4, <2>5
<1> QED BY <1>2, <1>3

LEMMA OpenScanInv ==
    ASSUME IInv, NEW t \in Threads, NEW w \in BOOLEAN, OpenScan(t, w)
    PROVE  IInv'
<1> USE DEF Makes, Knows, Gives, Holds, Shares
<1>1. /\ mode = "run" /\ th[t].pc = "idle"
      /\ th' = [th EXCEPT ![t] = [Idle EXCEPT !.pc = "scan_move", !.last = alloc, !.write = w, !.must = Existing]]
      /\ UNCHANGED <<store, free_pages, lock, latches, mode, redo, redone>>
  BY DEF OpenScan, At
<1>2. PICK x : x = [Idle EXCEPT !.pc = "scan_move", !.last = alloc, !.write = w, !.must = Existing]
  OBVIOUS
<1>3. /\ x \in ThreadState /\ x.pc = "scan_move" /\ x.page = 0 /\ x.last = alloc /\ x.seen = {} /\ x.must = Existing
  <2>1. alloc \in 0..MaxPages /\ Existing \in SUBSET Rids /\ "scan_move" \in Pcs
    BY DEF IInv, TypeInv, Existing, Pcs
  <2> QED BY <1>2, <2>1, IdleIs DEF ThreadState
<1>4. OnlyThread(t) /\ th'[t] = x
  BY <1>1, <1>2, <1>3, ThreadIs DEF IInv
<1>5. HolderTypes /\ OthersHold(t) /\ HoldsOwn(t)
  BY <1>1, <1>3, <1>4, HoldNone DEF IInv
<1>6. ScanOK(x, pages)
  <2>1. ASSUME NEW r \in x.must PROVE r[1] <= x.last /\ r[2] \in pages[r[1]].bits /\ Ahead(x, r)
    <3>1. r \in Rids /\ r[1] <= alloc /\ r[2] \in pages[r[1]].bits
      BY <1>3 DEF Existing
    <3>2. r[1] > 0
      BY <3>1, Sizes DEF Rids
    <3> QED BY <1>3, <3>1, <3>2 DEF Ahead
  <2> QED BY <1>3, <2>1 DEF ScanOK, Scans
<1>7. free_pages' \in SUBSET (1..alloc)
  BY <1>1 DEF IInv, TypeInv
<1>8. PagesOwn(th'[t], alloc)
  BY <1>3, <1>4, Sizes DEF PagesOwn, IInv, TypeInv
<1> QED BY <1>1, <1>3, <1>4, <1>5, <1>6, <1>7, <1>8, LocalStep

LEMMA ScanPageInv ==
    ASSUME IInv, NEW t \in Threads, ScanPage(t)
    PROVE  IInv'
<1> USE DEF Makes, Knows, Gives, Holds, Shares
<1>1. PICK p : p = NextPage(t)
  OBVIOUS
<1>2. /\ mode = "run" /\ th[t].pc = "scan_move" /\ p <= th[t].last
      /\ IF th[t].write THEN CanWrite(p) ELSE CanRead(p)
      /\ IF th[t].write
         THEN xlatch' = [xlatch EXCEPT ![p] = t] /\ UNCHANGED slatch
         ELSE slatch' = [slatch EXCEPT ![p] = @ \cup {t}] /\ UNCHANGED xlatch
      /\ th' = [th EXCEPT ![t].pc = "scan", ![t].page = p, ![t].slot = FirstSlot(pages[p])]
      /\ UNCHANGED <<store, free_pages, lock, mode, redo, redone>>
  BY <1>1 DEF ScanPage, At
<1>3. th[t] \in ThreadState /\ th[t].write \in BOOLEAN
  BY DEF IInv, TypeInv, ThreadState
<1>4. th[t].page \in Nat /\ p = th[t].page + 1 /\ p \in PageNums /\ p \in 0..MaxPages /\ th[t].last <= alloc
  BY <1>1, <1>2, ThreadPage, Sizes DEF NextPage, Scans, IInv
<1>5. PICK s : s = FirstSlot(pages[p])
  OBVIOUS
<1>6. /\ s \in Slots \cup {-1} /\ (s # -1 => s \in pages[p].bits)
      /\ \A r \in pages[p].bits : s # -1 /\ r >= s
  <2>1. pages[p] \in Page
    BY <1>4 DEF IInv, TypeInv
  <2>2. \A r \in pages[p].bits : r >= 0
    <3>1. pages[p].bits \subseteq Slots
      BY <2>1 DEF Page
    <3>2. ASSUME NEW r \in pages[p].bits PROVE r \in Nat
      BY <3>1, SlotsFinite
    <3> QED BY <3>2
  <2> QED BY <1>5, <2>1, <2>2, NextSettedBitIs DEF FirstSlot
<1>7. PICK x : x = [th[t] EXCEPT !.pc = "scan", !.page = p, !.slot = s]
  OBVIOUS
<1>8. /\ x \in ThreadState /\ x.pc = "scan" /\ x.page = p /\ x.slot = s /\ x.last = th[t].last
      /\ x.write = th[t].write /\ x.seen = th[t].seen /\ x.must = th[t].must
  <2>1. "scan" \in Pcs
    BY DEF Pcs
  <2> QED BY <1>3, <1>4, <1>6, <1>7, <2>1 DEF ThreadState
<1>9. OnlyThread(t) /\ th'[t] = x
  <2>1. th' = [th EXCEPT ![t] = x]
    BY <1>2, <1>5, <1>7 DEF IInv, TypeInv
  <2> QED BY <1>8, <2>1, ThreadIs DEF IInv
<1>10. HolderTypes /\ OthersHold(t) /\ HoldsOwn(t)
  <2>0. lock # t /\ \A q \in PageNums : xlatch[q] # t /\ t \notin slatch[q]
    BY <1>2 DEF IInv, HolderInv
  <2>1. CASE th[t].write
    <3>1. xlatch'[p] = t /\ (\A q \in PageNums \ {p} : xlatch'[q] = xlatch[q]) /\ xlatch[p] = Free /\ slatch' = slatch
      BY <1>2, <1>4, <2>1 DEF IInv, TypeInv, CanWrite
    <3>2. HolderTypes
      BY <1>2, <1>4, <2>1 DEF IInv, TypeInv, HolderTypes
    <3>3. OthersHold(t)
      BY <1>2, <3>1, NotFree DEF OthersHold
    <3>4. HoldsOwn(t)
      <4>1. x.write
        BY <1>8, <2>1
      <4>2. ASSUME NEW q \in PageNums
            PROVE  (xlatch'[q] = t <=> x.page = q) /\ t \notin slatch'[q]
        BY <1>8, <2>0, <3>1
      <4>3. lock' # t
        BY <1>2, <2>0
      <4> QED BY <1>8, <1>9, <4>1, <4>2, <4>3 DEF HoldsOwn
    <3> QED BY <3>2, <3>3, <3>4
  <2>2. CASE ~th[t].write
    <3>1. slatch'[p] = slatch[p] \cup {t} /\ (\A q \in PageNums \ {p} : slatch'[q] = slatch[q]) /\ xlatch' = xlatch
      BY <1>2, <1>4, <2>2 DEF IInv, TypeInv
    <3>2. HolderTypes
      BY <1>2, <1>4, <2>2 DEF IInv, TypeInv, HolderTypes
    <3>3. OthersHold(t)
      BY <1>2, <3>1 DEF OthersHold
    <3>4. HoldsOwn(t)
      BY ZenonT(40), <1>2, <1>8, <1>9, <2>0, <2>2, <3>1 DEF HoldsOwn
    <3> QED BY <3>2, <3>3, <3>4
  <2> QED BY <2>1, <2>2
<1>11. ScanOK(x, pages)
  <2>1. ScanOK(th[t], pages)
    BY DEF IInv, ScanInv
  <2>2. ASSUME NEW r \in x.must PROVE r[1] <= x.last /\ r[2] \in pages[r[1]].bits /\ Ahead(x, r)
    <3>1. r[1] <= x.last /\ r[2] \in pages[r[1]].bits /\ Ahead(th[t], r) /\ r[1] \in Nat
      BY <1>2, <1>3, <1>8, <2>1, Sizes DEF ScanOK, Scans, ThreadState, Rids
    <3>2. r \in x.seen \/ r[1] > p \/ r[1] = p
      BY <1>2, <1>4, <1>8, <3>1, Sizes DEF Ahead
    <3> QED BY <1>6, <1>8, <3>1, <3>2 DEF Ahead
  <2>3. ASSUME NEW r \in x.seen PROVE r[1] < p /\ r[1] <= p
    <3>1. r[1] <= th[t].page /\ r[1] \in Nat
      BY <1>2, <1>3, <1>8, <2>1, Sizes DEF ScanOK, Scans, ThreadState, Rids
    <3> QED BY <1>4, <3>1
  <2>4. \A r \in x.seen : r[1] # p
    <3>1. \A r \in x.seen : r[1] \in Nat
      BY <1>8, Sizes DEF ThreadState, Rids
    <3> QED BY <1>4, <2>3, <3>1
  <2> QED BY <1>6, <1>8, <2>2, <2>3, <2>4 DEF ScanOK, Scans
<1>12. free_pages' \in SUBSET (1..alloc)
  BY <1>2 DEF IInv, TypeInv
<1>13. PagesOwn(x, alloc)
  BY <1>2, <1>4, <1>8, Sizes DEF PagesOwn
<1> QED BY <1>2, <1>8, <1>9, <1>10, <1>11, <1>12, <1>13, LocalStep

LEMMA ScanRecordInv ==
    ASSUME IInv, NEW t \in Threads, ScanRecord(t)
    PROVE  IInv'
<1> USE DEF Makes, Knows, Gives, Holds, Shares
<1>1. PICK p, s : p = th[t].page /\ s = th[t].slot
  OBVIOUS
<1>2. /\ mode = "run" /\ th[t].pc = "scan" /\ s # -1
      /\ th' = [th EXCEPT ![t].seen = @ \cup {<<p, s>>}, ![t].slot = NextSlot(pages[p], s)]
      /\ UNCHANGED <<store, free_pages, lock, latches, mode, redo, redone>>
  BY <1>1 DEF ScanRecord, At
<1>3. th[t] \in ThreadState /\ s \in Slots /\ s \in Nat
  BY <1>1, <1>2, SlotsFinite DEF IInv, TypeInv, ThreadState
<1>4. p \in PageNums /\ p \in Nat
  BY <1>1, <1>2, ThreadPage, Sizes DEF IInv
<1>5. PICK n : n = NextSlot(pages[p], s)
  OBVIOUS
<1>6. /\ n \in Slots \cup {-1} /\ (n # -1 => n \in pages[p].bits)
      /\ \A r \in pages[p].bits : r >= s + 1 => n # -1 /\ r >= n
  <2>1. pages[p] \in Page /\ s + 1 \in Nat
    BY <1>3, <1>4 DEF IInv, TypeInv
  <2> QED BY <1>5, <2>1, NextSettedBitIs DEF NextSlot
<1>7. PICK sn \in SUBSET Rids : sn = th[t].seen \cup {<<p, s>>}
  <2>1. <<p, s>> \in Rids /\ th[t].seen \in SUBSET Rids
    BY <1>3, <1>4 DEF Rids, ThreadState
  <2>2. th[t].seen \cup {<<p, s>>} \in SUBSET Rids
    BY <2>1
  <2> QED BY <2>2, Zenon
<1>8. PICK x : x = [th[t] EXCEPT !.seen = sn, !.slot = n]
  OBVIOUS
<1>9. /\ x \in ThreadState /\ x.pc = "scan" /\ x.page = p /\ x.slot = n /\ x.last = th[t].last
      /\ x.write = th[t].write /\ x.seen = sn /\ x.must = th[t].must
  BY <1>1, <1>2, <1>3, <1>6, <1>8 DEF ThreadState
<1>10. OnlyThread(t) /\ th'[t] = x
  <2>1. th' = [th EXCEPT ![t] = x]
    BY <1>2, <1>5, <1>7, <1>8 DEF IInv, TypeInv
  <2> QED BY <1>9, <2>1, ThreadIs DEF IInv
<1>11. HolderTypes /\ OthersHold(t) /\ HoldsOwn(t)
  BY <1>1, <1>2, <1>9, <1>10 DEF IInv, TypeInv, HolderInv, HolderTypes, OthersHold, HoldsOwn, latches
<1>12. ScanOK(x, pages)
  <2>1. ScanOK(th[t], pages)
    BY DEF IInv, ScanInv
  <2>2. ASSUME NEW r \in x.must PROVE r[1] <= x.last /\ r[2] \in pages[r[1]].bits /\ Ahead(x, r)
    <3>1. r[1] <= x.last /\ r[2] \in pages[r[1]].bits /\ Ahead(th[t], r) /\ r \in Rids
      BY <1>2, <1>3, <1>9, <2>1 DEF ScanOK, Scans, ThreadState
    <3>2. r = <<r[1], r[2]>> /\ r[2] \in Nat
      <4>1. PICK a \in PageNums, b \in Slots : r = <<a, b>>
        BY <3>1 DEF Rids
      <4> QED BY <4>1, SlotsFinite
    <3>3. CASE r \in th[t].seen \/ r[1] > p
      BY <1>7, <1>9, <3>1, <3>3 DEF Ahead
    <3>4. CASE r[1] = p /\ r[2] >= s
      <4>1. CASE r[2] = s
        BY <1>7, <1>9, <3>1, <3>2, <3>4, <4>1 DEF Ahead
      <4>2. CASE r[2] # s
        <5>1. r[2] >= s + 1
          BY <1>3, <3>2, <3>4, <4>2
        <5> QED BY <1>6, <1>9, <3>1, <3>4, <5>1 DEF Ahead
      <4> QED BY <4>1, <4>2
    <3> QED BY <1>1, <3>1, <3>3, <3>4 DEF Ahead
  <2>3. ASSUME NEW r \in x.seen PROVE r[1] <= p
    <3>1. CASE r \in th[t].seen
      BY <1>1, <1>2, <2>1, <3>1 DEF ScanOK, Scans
    <3>2. CASE r = <<p, s>>
      BY <1>4, <3>2
    <3> QED BY <1>7, <1>9, <3>1, <3>2
  <2>4. ASSUME x.write, NEW r \in x.seen, r[1] = p PROVE r[2] \in pages[p].bits
    <3>1. CASE r \in th[t].seen
      BY <1>1, <1>2, <1>9, <2>1, <2>4, <3>1 DEF ScanOK
    <3>2. CASE r = <<p, s>>
      BY <1>1, <1>2, <1>9, <2>1, <2>4, <3>2 DEF ScanOK
    <3> QED BY <1>7, <1>9, <3>1, <3>2
  <2> QED BY <1>6, <1>9, <2>2, <2>3, <2>4 DEF ScanOK, Scans
<1>13. free_pages' \in SUBSET (1..alloc)
  BY <1>2 DEF IInv, TypeInv
<1>14. PagesOwn(x, alloc)
  BY <1>1, <1>2, <1>9, ThreadPage, Sizes DEF PagesOwn, IInv, Scans
<1> QED BY <1>2, <1>9, <1>10, <1>11, <1>12, <1>13, <1>14, LocalStep

LEMMA ReleaseIs ==
    ASSUME IInv, NEW t \in Threads, th[t].pc = "scan", Release(t, th[t].page), UNCHANGED lock,
           th'[t].pc # "ins_find", ~Holds(th'[t]), ~Shares(th'[t])
    PROVE  HolderTypes /\ OthersHold(t) /\ HoldsOwn(t)
<1>1. PICK p \in PageNums : p = th[t].page
  BY ThreadPage DEF IInv
<1>2. /\ xlatch \in [PageNums -> Threads \cup {Free}] /\ slatch \in [PageNums -> SUBSET Threads]
      /\ lock \in Threads \cup {Free}
  BY DEF IInv, TypeInv
<1>3. /\ xlatch' = [xlatch EXCEPT ![p] = IF xlatch[p] = t THEN Free ELSE xlatch[p]]
      /\ slatch' = [slatch EXCEPT ![p] = slatch[p] \ {t}]
  BY <1>1 DEF Release
<1>4. HolderTypes
  BY <1>2, <1>3 DEF HolderTypes
<1>5. /\ xlatch'[p] = IF xlatch[p] = t THEN Free ELSE xlatch[p]
      /\ slatch'[p] = slatch[p] \ {t}
      /\ \A q \in PageNums \ {p} : xlatch'[q] = xlatch[q] /\ slatch'[q] = slatch[q]
  BY <1>2, <1>3
<1>6. OthersHold(t)
  BY <1>5, NotFree DEF OthersHold
<1>7. \A q \in PageNums \ {p} : xlatch[q] # t /\ t \notin slatch[q]
  BY <1>1 DEF IInv, HolderInv
<1>8. lock # t
  BY DEF IInv, HolderInv
<1>9. HoldsOwn(t)
  BY <1>5, <1>7, <1>8, NotFree DEF HoldsOwn
<1> QED BY <1>4, <1>6, <1>9

LEMMA ScanCleanupInv ==
    ASSUME IInv, NEW t \in Threads, ScanCleanup(t)
    PROVE  IInv'
<1> USE DEF Makes, Knows, Gives, Holds, Shares
<1>1. /\ mode = "run" /\ th[t].pc = "scan" /\ th[t].slot = -1 /\ Release(t, th[t].page) /\ Go(t, "scan_move")
      /\ UNCHANGED <<store, free_pages, lock, mode, redo, redone>>
  BY DEF ScanCleanup, At
<1>2. /\ OnlyThread(t) /\ th'[t].pc = "scan_move"
      /\ th'[t].page = th[t].page /\ th'[t].last = th[t].last /\ th'[t].seen = th[t].seen /\ th'[t].must = th[t].must
  BY <1>1, GoIs DEF IInv, Pcs
<1>3. HolderTypes /\ OthersHold(t) /\ HoldsOwn(t)
  BY <1>1, <1>2, ReleaseIs
<1>4. ScanOK(th'[t], pages)
  <2>1. ScanOK(th[t], pages)
    BY DEF IInv, ScanInv
  <2>2. ASSUME NEW r \in th'[t].must PROVE r[1] <= th'[t].last /\ r[2] \in pages[r[1]].bits /\ Ahead(th'[t], r)
    BY <1>1, <1>2, <2>1 DEF ScanOK, Scans, Ahead
  <2>3. \A r \in th'[t].seen : r[1] <= th'[t].page
    BY <1>1, <1>2, <2>1 DEF ScanOK, Scans
  <2> QED BY <1>2, <2>2, <2>3 DEF ScanOK, Scans
<1>5. free_pages' \in SUBSET (1..alloc)
  BY <1>1 DEF IInv, TypeInv
<1>6. PagesOwn(th'[t], alloc)
  BY <1>1, <1>2, ThreadPage DEF PagesOwn, IInv, Scans
<1> QED BY <1>1, <1>2, <1>3, <1>4, <1>5, <1>6, LocalStep

LEMMA CloseScanInv ==
    ASSUME IInv, NEW t \in Threads, CloseScan(t)
    PROVE  IInv'
<1> USE DEF Makes, Knows, Gives, Holds, Shares
<1>1. /\ mode = "run" /\ th[t].pc \in {"scan", "scan_move"} /\ Go(t, "idle")
      /\ th[t].pc = "scan" => Release(t, th[t].page)
      /\ th[t].pc = "scan_move" => UNCHANGED latches
      /\ UNCHANGED <<store, free_pages, lock, mode, redo, redone>>
  BY DEF CloseScan, At
<1>2. OnlyThread(t) /\ th'[t] = Idle
  BY <1>1, GoIdle DEF IInv
<1>3. HolderTypes /\ OthersHold(t) /\ HoldsOwn(t)
  <2>1. CASE th[t].pc = "scan"
    BY <1>1, <1>2, <2>1, IdleIs, ReleaseIs
  <2>2. CASE th[t].pc = "scan_move"
    BY <1>1, <1>2, <2>2, IdleIs, HoldNone DEF IInv
  <2> QED BY <1>1, <2>1, <2>2
<1>4. ScanOK(th'[t], pages)
  BY <1>2, IdleIs, NoScan DEF Scans
<1>5. free_pages' \in SUBSET (1..alloc)
  BY <1>1 DEF IInv, TypeInv
<1> QED BY <1>1, <1>2, <1>3, <1>4, <1>5, IdleIs, LocalStep DEF PagesOwn

-----------------------------------------------------------------------------
(***************************************************************************)
(* Steps of a thread that change a page and log it.                        *)
(***************************************************************************)
LEMMA AppendIs ==
    ASSUME NEW l \in Seq(LogEntry), NEW e \in LogEntry, NEW k, k = Append(l, e)
    PROVE  /\ k \in Seq(LogEntry) /\ Len(k) = Len(l) + 1 /\ Len(l) \in Nat
           /\ k[Len(l) + 1] = e /\ \A i \in 1..Len(l) : k[i] = l[i]
  OBVIOUS

\* The operation of a thread is the replay of its entry: the pages stay what the log makes of them.
LEMMA StoreAppend ==
    ASSUME NEW l \in Seq(LogEntry), NEW e \in LogEntry, NEW k, k = Append(l, e), EntryOK(k, Len(l) + 1),
           NEW mem \in [PageNums -> Page], NEW dsk, NEW dur, StoreOK(l, mem, dsk, dur, Len(l)), NEW new,
           \/ e.type = "allocate" /\ new = mem
           \/ /\ e.type # "allocate"
              /\ new = [mem EXCEPT ![e.page] = Applied(mem[e.page], e, Len(l) + 1)]
    PROVE  StoreOK(k, new, dsk, dur, Len(l) + 1) /\ new \in [PageNums -> Page]
<1>1. PICK n \in Nat : n = Len(l)
  OBVIOUS
<1>2. k \in Seq(LogEntry) /\ Len(k) = n + 1 /\ k[n + 1] = e /\ \A i \in 1..n : k[i] = l[i]
  BY <1>1, AppendIs
<1>3. ASSUME NEW i \in 1..Len(k) PROVE EntryOK(k, i)
  <2>1. CASE i = n + 1
    BY <1>1, <2>1
  <2>2. CASE i # n + 1
    <3>1. i \in 1..n /\ i \in Nat \ {0} /\ \A j \in 1..i : k[j] = l[j]
      BY <1>2, <2>2
    <3>2. EntryOK(l, i)
      BY <1>1, <3>1 DEF StoreOK
    <3> QED BY <3>1, <3>2, EntryPrefix
  <2> QED BY <2>1, <2>2
<1>4. ASSUME NEW pg, NEW p, PageOK(l, pg, p) PROVE PageOK(k, pg, p)
  <2>1. pg.lsn \in 0..n /\ pg.lsn \in 0..Len(k) /\ \A j \in 1..pg.lsn : k[j] = l[j]
    BY <1>1, <1>2, <1>4 DEF PageOK
  <2> QED BY <1>4, <2>1, PagePrefix
<1>5. ASSUME NEW p \in PageNums
      PROVE  PageOK(k, mem[p], p) /\ UpTo(k, mem[p], p, n) /\ PageOK(k, dsk[p], p) /\ dsk[p].lsn <= dur
             /\ mem[p] \in Page /\ mem[p].lsn \in 0..n
  <2>1. PageOK(l, mem[p], p) /\ UpTo(l, mem[p], p, n) /\ PageOK(l, dsk[p], p) /\ dsk[p].lsn <= dur
    BY <1>1 DEF StoreOK
  <2>2. mem[p] \in Page /\ mem[p].lsn \in 0..n
    BY <1>1, <2>1 DEF PageOK
  <2>3. PICK m \in 0..n : m = mem[p].lsn
    BY <2>2
  <2>4. \A i \in (m + 1)..n : k[i] = l[i]
    BY <1>2
  <2>5. UpTo(k, mem[p], p, n)
    BY <2>1, <2>3, <2>4 DEF UpTo
  <2> QED BY <1>4, <2>1, <2>2, <2>5
<1>6. ASSUME NEW p \in PageNums, e.type = "allocate" \/ e.page # p PROVE UpTo(k, mem[p], p, n + 1)
  <2>1. PICK m \in 0..n : m = mem[p].lsn
    BY <1>5
  <2>2. \A i \in (m + 1)..(n + 1) : i \in (m + 1)..n \/ i = n + 1
    OBVIOUS
  <2> QED BY <1>2, <1>5, <1>6, <2>1, <2>2 DEF UpTo
<1>7. CASE e.type = "allocate" /\ new = mem
  BY <1>1, <1>3, <1>5, <1>6, <1>7 DEF StoreOK
<1>8. CASE /\ e.type # "allocate"
           /\ new = [mem EXCEPT ![e.page] = Applied(mem[e.page], e, n + 1)]
  <2>1. PICK p \in PageNums : p = e.page
    BY DEF LogEntry
  <2>2. PICK q : q = Applied(mem[p], e, n + 1)
    OBVIOUS
  <2>3. q \in Page /\ q.lsn = n + 1 /\ PageOK(k, q, p)
    <3>1. e.type \in Types \ {"allocate"}
      BY <1>8 DEF LogEntry
    <3>2. PICK pg \in Page : pg = mem[p]
      BY <1>5
    <3>3. PageOK(k, pg, p) /\ UpTo(k, pg, p, n) /\ pg.lsn <= n
      BY <1>5, <3>2
    <3>4. k[n + 1].page = p /\ k[n + 1].type \in Types \ {"allocate"} /\ EntryOK(k, n + 1) /\ Len(k) \in Nat /\ n < Len(k)
      BY <1>1, <1>2, <2>1, <3>1
    <3>5. q = Applied(pg, k[n + 1], n + 1)
      BY <1>2, <2>2, <3>2
    <3> QED BY <3>3, <3>4, <3>5, PageStep
  <2>4. new[p] = q /\ new \in [PageNums -> Page] /\ \A o \in PageNums \ {p} : new[o] = mem[o]
    BY <1>8, <2>1, <2>2, <2>3
  <2>5. UpTo(k, q, p, n + 1)
    BY <2>3 DEF UpTo
  <2>6. ASSUME NEW o \in PageNums
        PROVE  PageOK(k, new[o], o) /\ UpTo(k, new[o], o, n + 1) /\ PageOK(k, dsk[o], o) /\ dsk[o].lsn <= dur
    <3>1. CASE o = p
      BY <1>5, <2>3, <2>4, <2>5, <3>1
    <3>2. CASE o # p
      BY <1>5, <1>6, <2>1, <2>4, <3>2
    <3> QED BY <3>1, <3>2
  <2> QED BY <1>1, <1>3, <2>4, <2>6 DEF StoreOK
<1> QED BY <1>1, <1>7, <1>8

\* In use, a page is what the whole log makes of it.
LEMMA PageNow ==
    ASSUME TypeInv, StoreInv, mode = "run", NEW p \in PageNums
    PROVE  /\ pages[p] \in Page /\ pages[p].bits = BitsIn(log, p, Len(log))
           /\ pages[p].num = Cardinality(pages[p].bits) /\ pages[p].num \in Nat
           /\ pages[p].bits \subseteq Slots /\ IsFiniteSet(pages[p].bits)
           /\ pages[p].cap = IF InitedIn(log, p, Len(log)) THEN Capacity ELSE 0
<1>1. Len(log) \in Nat /\ pages[p] \in Page /\ Done = Len(log)
  BY DEF TypeInv, Done
<1>2. PageOK(log, pages[p], p) /\ UpTo(log, pages[p], p, Len(log))
  BY <1>1 DEF StoreInv, StoreOK
<1>3. pages[p].lsn <= Len(log)
  BY <1>1, <1>2 DEF PageOK
<1>4. /\ pages[p].bits = BitsIn(log, p, Len(log)) /\ pages[p].num = Cardinality(pages[p].bits)
      /\ pages[p].cap = IF InitedIn(log, p, Len(log)) THEN Capacity ELSE 0
  BY <1>1, <1>2, <1>3, PageAt
<1>5. pages[p].bits \subseteq Slots /\ IsFiniteSet(pages[p].bits)
  BY <1>1, FS_Subset, SlotsFinite DEF Page
<1>6. Cardinality(pages[p].bits) \in Nat
  BY <1>5, FS_CardinalityType
<1> QED BY <1>1, <1>4, <1>5, <1>6

\* A page with a header has been allocated.
LEMMA InitedAllocated ==
    ASSUME NEW l, NEW p, NEW n \in Nat, InitedIn(l, p, n), \A i \in 1..n : EntryOK(l, i)
    PROVE  \E j \in 1..n : IsAllocate(l, j, p)
<1>1. PICK i \in 1..n : l[i].page = p /\ l[i].type = "init_page"
  BY DEF InitedIn
<1>2. PICK j \in 1..(i - 1) : IsAllocate(l, j, p)
  BY <1>1 DEF EntryOK
<1>3. j \in 1..n
  OBVIOUS
<1> QED BY <1>2, <1>3

LEMMA NewEntry ==
    ASSUME TypeInv, StoreInv, mode = "run", NEW e \in LogEntry, log' = Append(log, e), NEW p \in PageNums, p = e.page,
           \/ e.type = "init_page" /\ \E i \in 1..Len(log) : IsAllocate(log, i, p)
           \/ /\ e.type = "insert" /\ pages[p].cap # 0
              /\ e.slot \in Slots \ pages[p].bits /\ \A s \in 0..(e.slot - 1) : s \in pages[p].bits
           \/ e.type \in {"delete", "update"} /\ pages[p].cap # 0 /\ e.slot \in pages[p].bits
    PROVE  EntryOK(log', Len(log) + 1)
<1>1. PICK n \in Nat : n = Len(log)
  BY DEF TypeInv
<1>2. PICK k : k = log'
  OBVIOUS
<1>3. k[n + 1] = e /\ \A i \in 1..n : k[i] = log[i]
  BY <1>1, <1>2, AppendIs DEF TypeInv
<1>4. pages[p].bits = BitsIn(log, p, n) /\ pages[p].cap = IF InitedIn(log, p, n) THEN Capacity ELSE 0
  BY <1>1, PageNow
<1>5. BitsIn(k, p, n) = BitsIn(log, p, n) /\ (InitedIn(k, p, n) <=> InitedIn(log, p, n))
  <2>1. PICK l : l = log
    OBVIOUS
  <2>2. \A i \in 1..n : k[i] = l[i]
    BY <1>3, <2>1
  <2>3. BitsIn(k, p, n) = BitsIn(l, p, n) /\ (InitedIn(k, p, n) <=> InitedIn(l, p, n))
    BY SMTT(20), <2>2, LoggedPrefix
  <2> QED BY <2>1, <2>3
<1>6. e.type # "init_page" => InitedIn(log, p, n)
  BY <1>4
<1>7. \E j \in 1..n : IsAllocate(k, j, p)
  <2>1. \A i \in 1..n : EntryOK(log, i)
    BY <1>1 DEF StoreInv, StoreOK
  <2>2. \E j \in 1..n : IsAllocate(log, j, p)
    BY <1>1, <1>6, <2>1, InitedAllocated
  <2> QED BY <1>3, <2>2 DEF IsAllocate
<1>8. (n + 1) - 1 = n
  OBVIOUS
<1>9. EntryOK(k, n + 1)
  BY <1>3, <1>4, <1>5, <1>6, <1>7, <1>8 DEF EntryOK
<1> QED BY <1>1, <1>2, <1>9

\* A step of a thread with page p latched, or free: it makes q of the page and logs e.
PageOp(t, e, p, q) ==
    /\ e \in LogEntry /\ e.type # "allocate" /\ e.page = p /\ p \in PageNums
    /\ log' = Append(log, e) /\ EntryOK(log', Len(log) + 1)
    /\ q = Applied(pages[p], e, Len(log) + 1) /\ pages' = [pages EXCEPT ![p] = q]
    /\ UNCHANGED <<disk, alloc, durable, free_pages, mode, redo, redone>>
    /\ xlatch[p] \in {Free, t}
    /\ \A u \in Threads \ {t} : ~(th[u].page = p /\ Makes(th[u]))
\* What the page is to the thread before and after.
PagePlace(t, p, q) ==
    /\ th'[t].pc # "ins_init" /\ PagesOwn(th'[t], alloc)
    /\ Makes(th'[t]) => Makes(th[t]) /\ th[t].page = p /\ q.bits = {}
    /\ Knows(th'[t]) => th'[t].page = p
    /\ th'[t].pc \in {"ins_free", "ins_put"} => ~IsFull(q)
    /\ ~Gives(th[t]) /\ (~IsFull(q) => ~IsFull(pages[p]) \/ (Gives(th'[t]) /\ th'[t].page = p))

LEMMA PageStepInv ==
    ASSUME IInv, NEW t \in Threads, mode = "run", NEW e, NEW p, NEW q, PageOp(t, e, p, q), PagePlace(t, p, q),
           th' \in [Threads -> ThreadState], OthersStay(t), HolderTypes, HolderInv', ScanInv'
    PROVE  IInv'
<1>0. PageOp(t, e, p, q) /\ PagePlace(t, p, q)
  OBVIOUS
<1> USE <1>0 DEF PageOp, PagePlace
<1>1. /\ log \in Seq(LogEntry) /\ pages \in [PageNums -> Page] /\ Done = Len(log)
      /\ StoreOK(log, pages, disk, durable, Len(log))
  BY DEF IInv, TypeInv, StoreInv, Done
<1>2. log' \in Seq(LogEntry) /\ Len(log') = Len(log) + 1 /\ Len(log) \in Nat /\ log'[Len(log) + 1] = e
      /\ \A i \in 1..Len(log) : log'[i] = log[i]
  BY <1>1, AppendIs
<1>3. StoreOK(log', pages', disk, durable, Len(log) + 1) /\ pages' \in [PageNums -> Page]
  <2>1. /\ pages' = [pages EXCEPT ![e.page] = Applied(pages[e.page], e, Len(log) + 1)]
        /\ e \in LogEntry /\ e.type # "allocate" /\ log' = Append(log, e) /\ EntryOK(log', Len(log) + 1)
    OBVIOUS
  <2> HIDE <1>0 DEF PageOp, PagePlace
  <2> QED BY <1>1, <2>1, StoreAppend
<1>4. pages'[p] = q /\ \A o \in PageNums \ {p} : pages'[o] = pages[o]
  BY <1>1
<1>5. TypeInv'
  <2>1. durable \in 0..Len(log') /\ redo \in 1..(Len(log') + 1)
    BY <1>2 DEF IInv, TypeInv
  <2> QED BY <1>2, <1>3, <2>1 DEF TypeInv, IInv, HolderTypes
<1>6. Done' = Len(log) + 1 /\ StoreInv'
  <2>1. Done' = Len(log) + 1
    BY <1>2 DEF Done
  <2> QED BY <1>3, <2>1 DEF StoreInv
<1>7. AllocInv'
  <2>1. ASSUME NEW u \in Threads PROVE PagesOwn(th'[u], alloc)
    BY DEF PagesOwn, OthersStay, IInv, AllocInv
  <2>2. ASSUME NEW i \in 1..Done', log'[i].type = "allocate" PROVE log'[i].page <= alloc'
    <3>1. i \in 1..Len(log)
      BY <1>2, <1>6, <2>2
    <3> QED BY <1>1, <1>2, <2>2, <3>1 DEF IInv, AllocInv
  <2>3. ASSUME NEW u \in Threads, th'[u].pc = "ins_init" PROVE \E i \in 1..Len(log') : IsAllocate(log', i, th'[u].page)
    <3>1. u # t /\ th[u].pc = "ins_init" /\ th'[u].page = th[u].page
      BY <2>3 DEF OthersStay
    <3>2. PICK i \in 1..Len(log) : IsAllocate(log, i, th[u].page)
      BY <3>1 DEF IInv, AllocInv
    <3> QED BY <1>2, <3>1, <3>2 DEF IsAllocate
  <2> QED BY <2>1, <2>2, <2>3 DEF PagesOwn, AllocInv
<1>8. FreshInv'
  <2>0. ASSUME NEW u \in Threads \ {t}
        PROVE  /\ Makes(th'[u]) <=> Makes(th[u])
               /\ Knows(th'[u]) <=> Knows(th[u])
               /\ th'[u].page = th[u].page /\ th'[u].pc = th[u].pc
    BY DEF OthersStay, Makes, Knows
  <2>1. ASSUME NEW u \in Threads, Makes(th'[u])
        PROVE  /\ th'[u].page \notin free_pages' /\ pages'[th'[u].page].bits = {}
               /\ \A v \in Threads \ {u} : ~(th'[v].page = th'[u].page /\ Knows(th'[v]))
    <3>1. CASE u = t
      <4>1. th'[t].page = p /\ th[t].page = p /\ q.bits = {} /\ Makes(th[t])
        BY <2>1, <3>1 DEF Makes, Knows
      <4>2. p \notin free_pages /\ \A v \in Threads \ {t} : ~(th[v].page = p /\ Knows(th[v]))
        BY <4>1 DEF IInv, FreshInv
      <4> QED BY <1>4, <2>0, <3>1, <4>1, <4>2
    <3>2. CASE u # t
      <4>1. Makes(th[u]) /\ th'[u].page = th[u].page /\ th[u].page # p
        BY <2>0, <2>1, <3>2
      <4>2. th[u].page \in PageNums
        BY <4>1, ThreadPage DEF IInv, Makes
      <4>3. /\ th[u].page \notin free_pages /\ pages[th[u].page].bits = {}
            /\ \A v \in Threads \ {u} : ~(th[v].page = th[u].page /\ Knows(th[v]))
        BY <4>1 DEF IInv, FreshInv
      <4>4. ASSUME NEW v \in Threads \ {u} PROVE ~(th'[v].page = th[u].page /\ Knows(th'[v]))
        <5>1. CASE v = t
          BY <4>1, <5>1
        <5>2. CASE v # t
          BY <2>0, <4>3, <5>2
        <5> QED BY <5>1, <5>2
      <4>5. pages'[th[u].page] = pages[th[u].page]
        BY <1>4, <4>1, <4>2
      <4> QED BY <4>1, <4>3, <4>4, <4>5
    <3> QED BY <3>1, <3>2
  <2>2. ASSUME NEW u \in Threads, th'[u].pc \in {"ins_free", "ins_put"} PROVE ~IsFull(pages'[th'[u].page])
    <3>1. CASE u = t
      <4>1. th'[t].page = p
        BY <2>2, <3>1 DEF Knows
      <4> QED BY <1>4, <2>2, <3>1, <4>1
    <3>2. CASE u # t
      <4>1. th[u].pc \in {"ins_free", "ins_put"} /\ th'[u].page = th[u].page
        BY <2>0, <2>2, <3>2
      <4>2. th[u].page \in PageNums /\ ~IsFull(pages[th[u].page])
        BY <4>1, ThreadPage DEF IInv, FreshInv
      <4>3. th[u].page # p
        BY <3>2, <4>1, NotFree DEF IInv, HolderInv, Holds
      <4> QED BY <1>4, <4>1, <4>2, <4>3
    <3> QED BY <3>1, <3>2
  <2> QED BY <2>1, <2>2 DEF FreshInv
<1>9. KnownInv'
  <2>1. SUFFICES ASSUME NEW o \in PageNums, ~IsFull(pages'[o]), o \notin redone
                 PROVE  o \in free_pages \/ \E u \in Threads : th'[u].page = o /\ Gives(th'[u])
    BY DEF KnownInv
  <2>2. ASSUME ~IsFull(pages[o]) PROVE o \in free_pages \/ \E u \in Threads : th'[u].page = o /\ Gives(th'[u])
    <3>1. o \in free_pages \/ \E u \in Threads : th[u].page = o /\ Gives(th[u])
      BY <2>1, <2>2 DEF IInv, KnownInv
    <3>2. ASSUME NEW u \in Threads, Gives(th[u]) PROVE th'[u].page = th[u].page /\ Gives(th'[u])
      BY <3>2 DEF OthersStay, Gives
    <3> QED BY <3>1, <3>2
  <2> QED BY <1>4, <2>1, <2>2
<1>10. QuietInv'
  BY DEF QuietInv
<1> QED BY <1>5, <1>6, <1>7, <1>8, <1>9, <1>10 DEF IInv

\* The pages after an operation, as the code makes them.
LEMMA AppliedInit ==
    ASSUME NEW pg \in Page, NEW n \in Nat, NEW e, e.type = "init_page"
    PROVE  /\ Applied(pg, e, n) = [InitEmptyPage(pg) EXCEPT !.lsn = n]
           /\ Applied(pg, e, n).bits = {} /\ Applied(pg, e, n).num = 0 /\ Applied(pg, e, n).cap = Capacity
<1>1. Applied(pg, e, n) = [InitEmptyPage(pg) EXCEPT !.lsn = n]
  BY DEF Applied, Replayed, ReplayInitPage
<1>2. PICK q : q = Applied(pg, e, n)
  OBVIOUS
<1>3. q.cap = Capacity /\ q.bits = {} /\ q.num = 0
  BY <1>1, <1>2, InitIs
<1> QED BY <1>1, <1>2, <1>3

LEMMA AppliedInsert ==
    ASSUME NEW pg \in Page, NEW n \in Nat, NEW e, e.type = "insert", InsertIndex(pg) \in Slots \ pg.bits
    PROVE  /\ Applied(pg, e, n) = [PutRecord(pg, InsertIndex(pg), n) EXCEPT !.lsn = n]
           /\ Applied(pg, e, n).bits = pg.bits \cup {InsertIndex(pg)}
           /\ Applied(pg, e, n).num = pg.num + 1 /\ Applied(pg, e, n).cap = pg.cap
<1>1. Applied(pg, e, n) = [PutRecord(pg, InsertIndex(pg), n) EXCEPT !.lsn = n]
  BY DEF Applied, Replayed, ReplayInsert
<1>2. PICK q, s : q = Applied(pg, e, n) /\ s = InsertIndex(pg)
  OBVIOUS
<1>3. s \in Slots /\ s \notin pg.bits
  BY <1>2
<1>4. q.cap = pg.cap /\ q.bits = pg.bits \cup {s} /\ q.num = pg.num + 1
  BY <1>1, <1>2, <1>3, PutIs
<1> QED BY <1>1, <1>2, <1>4

LEMMA AppliedDelete ==
    ASSUME NEW pg \in Page, NEW n \in Nat, NEW e, e.type = "delete", e.slot \in pg.bits
    PROVE  /\ Applied(pg, e, n) = [DropRecord(pg, e.slot) EXCEPT !.lsn = n]
           /\ Applied(pg, e, n).bits = pg.bits \ {e.slot}
           /\ Applied(pg, e, n).num = pg.num - 1 /\ Applied(pg, e, n).cap = pg.cap
<1>1. Applied(pg, e, n) = [DropRecord(pg, e.slot) EXCEPT !.lsn = n]
  BY DEF Applied, Replayed, ReplayDelete
<1>2. PICK q, s : q = Applied(pg, e, n) /\ s = e.slot
  OBVIOUS
<1>3. s \in Slots /\ s \in pg.bits
  BY <1>2 DEF Page
<1>4. q.cap = pg.cap /\ q.bits = pg.bits \ {s} /\ q.num = pg.num - 1
  BY <1>1, <1>2, <1>3, DropIs
<1> QED BY <1>1, <1>2, <1>4

LEMMA AppliedUpdate ==
    ASSUME NEW pg \in Page, NEW n \in Nat, NEW e, e.type = "update", e.slot \in pg.bits
    PROVE  /\ Applied(pg, e, n) = [SetRecord(pg, e.slot, n) EXCEPT !.lsn = n]
           /\ Applied(pg, e, n).bits = pg.bits
           /\ Applied(pg, e, n).num = pg.num /\ Applied(pg, e, n).cap = pg.cap
<1>1. Applied(pg, e, n) = [SetRecord(pg, e.slot, n) EXCEPT !.lsn = n]
  BY DEF Applied, Replayed, ReplayUpdate
<1>2. PICK q, s : q = Applied(pg, e, n) /\ s = e.slot
  OBVIOUS
<1>3. s \in Slots /\ s \in pg.bits
  BY <1>2 DEF Page
<1>4. q.cap = pg.cap /\ q.bits = pg.bits /\ q.num = pg.num
  BY <1>1, <1>2, <1>3, SetIs
<1> QED BY <1>1, <1>2, <1>4

\* A scan is not disturbed by new and changed records.
LEMMA ScanKept ==
    ASSUME NEW x \in ThreadState, NEW mem, NEW new, ScanOK(x, mem), x.pc = "scan" => x.page \in PageNums,
           \A o \in PageNums : mem[o].bits \subseteq new[o].bits
    PROVE  ScanOK(x, new)
<1>1. ASSUME NEW r \in x.must PROVE r[1] \in PageNums
  BY DEF ThreadState, Rids
<1> QED BY <1>1 DEF ScanOK, Scans

LEMMA EntryIs ==
    ASSUME NEW type \in Types, NEW p \in PageNums, NEW s \in Slots \cup {-1}
    PROVE  /\ Entry(type, p, s) \in LogEntry /\ Entry(type, p, s).type = type
           /\ Entry(type, p, s).page = p /\ Entry(type, p, s).slot = s
  BY DEF Entry, LogEntry

LEMMA InsertInitPageInv ==
    ASSUME IInv, NEW t \in Threads, InsertInitPage(t)
    PROVE  IInv'
<1> USE DEF Makes, Knows, Gives, Holds, Shares
<1>1. th[t].pc = "ins_init" /\ mode = "run"
  BY DEF InsertInitPage, At
<1>2. PICK p \in PageNums : p = th[t].page /\ p <= alloc
  BY <1>1, ThreadPage DEF IInv
<1>3. /\ CanWrite(p) /\ xlatch' = [xlatch EXCEPT ![p] = t] /\ log' = Append(log, Entry("init_page", p, -1))
      /\ pages' = [pages EXCEPT ![p] = [InitEmptyPage(pages[p]) EXCEPT !.lsn = Len(log) + 1]]
      /\ Go(t, "ins_free") /\ UNCHANGED <<disk, alloc, durable, free_pages, lock, slatch, mode, redo, redone>>
  BY <1>2 DEF InsertInitPage, Stamp, NewLsn, LogInitNewPage
<1>4. PICK e \in LogEntry : e = Entry("init_page", p, -1) /\ e.type = "init_page" /\ e.page = p
  BY EntryIs DEF Types
<1>5. pages[p] \in Page /\ Len(log) + 1 \in Nat
  BY DEF IInv, TypeInv
<1>6. PICK q : q = Applied(pages[p], e, Len(log) + 1)
  OBVIOUS
<1>7. pages' = [pages EXCEPT ![p] = q] /\ q.bits = {} /\ q.num = 0 /\ q.cap = Capacity
  BY <1>3, <1>4, <1>5, <1>6, AppliedInit
<1>8. EntryOK(log', Len(log) + 1)
  <2>1. \E i \in 1..Len(log) : IsAllocate(log, i, p)
    BY <1>1, <1>2 DEF IInv, AllocInv
  <2> QED BY <1>1, <1>3, <1>4, <2>1, NewEntry DEF IInv
<1>9. /\ OnlyThread(t) /\ th'[t].pc = "ins_free" /\ th'[t].page = p /\ th'[t].must = th[t].must
  BY <1>2, <1>3, GoIs DEF IInv, Pcs
<1>10. OthersStay(t) /\ th' \in [Threads -> ThreadState]
  BY <1>9 DEF OnlyThread, OthersStay
<1>11. xlatch'[p] = t /\ (\A o \in PageNums \ {p} : xlatch'[o] = xlatch[o]) /\ xlatch[p] = Free /\ slatch' = slatch
  BY <1>3 DEF IInv, TypeInv, CanWrite
<1>12. HolderTypes
  BY <1>3 DEF HolderTypes, IInv, TypeInv
<1>13. HolderInv'
  <2>1. OthersHold(t)
    BY <1>3, <1>11, NotFree DEF OthersHold
  <2>2. lock # t /\ \A o \in PageNums : xlatch[o] # t /\ t \notin slatch[o]
    BY <1>1 DEF IInv, HolderInv
  <2>3. HoldsOwn(t)
    BY <1>3, <1>9, <1>11, <2>2 DEF HoldsOwn
  <2> QED BY <1>10, <2>1, <2>3, HoldersKept DEF IInv
<1>14. \A u \in Threads \ {t} : ~(th[u].page = p /\ Knows(th[u]))
  BY <1>1, <1>2 DEF IInv, FreshInv
<1>15. pages[p].bits = {}
  BY <1>1, <1>2 DEF IInv, FreshInv
<1>16. ScanInv'
  <2>1. ASSUME NEW u \in Threads PROVE ScanOK(th'[u], pages')
    <3>1. \A o \in PageNums : pages[o].bits \subseteq pages'[o].bits
      BY <1>7, <1>15 DEF IInv, TypeInv
    <3>2. CASE u = t
      <4>1. th[t].must = {}
        BY <1>1, NoMust DEF IInv, Scans
      <4> QED BY <1>9, <3>2, <4>1 DEF ScanOK, Scans
    <3>3. CASE u # t
      <4>1. th[u] \in ThreadState /\ ScanOK(th[u], pages) /\ th'[u] = th[u]
        BY <1>9, <3>3 DEF IInv, TypeInv, ScanInv, OnlyThread
      <4>2. th[u].pc = "scan" => th[u].page \in PageNums
        BY ThreadPage DEF IInv
      <4>3. PICK x \in ThreadState : x = th[u]
        BY <4>1
      <4> QED BY <3>1, <4>1, <4>2, <4>3, ScanKept
    <3> QED BY <3>2, <3>3
  <2> QED BY <2>1 DEF ScanInv
<1>17. ~IsFull(q)
  BY <1>7, SlotsFinite DEF IsFull
<1>18. PagesOwn(th'[t], alloc)
  BY <1>2, <1>9, Sizes DEF PagesOwn, IInv, TypeInv
<1>19. PageOp(t, e, p, q)
  BY <1>3, <1>4, <1>6, <1>7, <1>8, <1>11, <1>14 DEF PageOp
<1>20. PagePlace(t, p, q)
  BY <1>1, <1>2, <1>7, <1>9, <1>17, <1>18 DEF PagePlace
<1> QED BY <1>1, <1>10, <1>12, <1>13, <1>16, <1>19, <1>20, PageStepInv

\* A page with a record has a header.
LEMMA RecordInited ==
    ASSUME TypeInv, StoreInv, mode = "run", NEW p \in PageNums, pages[p].bits # {}
    PROVE  pages[p].cap = Capacity
<1>1. PICK n \in Nat : n = Len(log)
  BY DEF TypeInv
<1>2. pages[p].bits = BitsIn(log, p, n) /\ pages[p].cap = IF InitedIn(log, p, n) THEN Capacity ELSE 0
  BY <1>1, PageNow
<1>3. PICK i \in 1..n : log[i].page = p /\ log[i].type \in {"insert", "update"}
  <2>1. PICK x : x \in LoggedIn(log, p, n)
    BY <1>2 DEF BitsIn
  <2> QED BY <2>1 DEF LoggedIn, LiveIn
<1>4. EntryOK(log, i)
  BY <1>1 DEF StoreInv, StoreOK
<1>5. PICK j \in 1..(i - 1) : log[j].page = p /\ log[j].type = "init_page"
  BY <1>3, <1>4 DEF EntryOK, InitedIn
<1>6. j \in 1..n
  OBVIOUS
<1> QED BY <1>2, <1>5, <1>6 DEF InitedIn

\* The scans of threads whose state is the same.
LEMMA ScansKept ==
    ASSUME IInv, NEW S \in SUBSET Threads,
           \A o \in PageNums : pages[o].bits \subseteq pages'[o].bits,
           \A u \in S : th'[u] = th[u]
    PROVE  \A u \in S : ScanOK(th'[u], pages')
<1>1. TAKE u \in S
<1>2. u \in Threads /\ th[u] \in ThreadState /\ ScanOK(th[u], pages) /\ th'[u] = th[u]
  BY DEF IInv, TypeInv, ScanInv
<1>3. th[u].pc = "scan" => th[u].page \in PageNums
  BY <1>2, ThreadPage DEF IInv
<1>4. PICK x \in ThreadState : x = th[u]
  BY <1>2
<1> QED BY <1>2, <1>3, <1>4, ScanKept

LEMMA InsertPutInv ==
    ASSUME IInv, NEW t \in Threads, InsertPut(t)
    PROVE  IInv'
<1> USE DEF Makes, Knows, Gives, Holds, Shares
<1>1. th[t].pc = "ins_put" /\ mode = "run"
  BY DEF InsertPut, At
<1>2. PICK p \in PageNums : p = th[t].page
  BY <1>1, ThreadPage DEF IInv
<1>3. PICK s : s = InsertIndex(pages[p])
  OBVIOUS
<1>4. /\ xlatch' = [xlatch EXCEPT ![p] = Free] /\ log' = Append(log, Entry("insert", p, s))
      /\ pages' = [pages EXCEPT ![p] = [PutRecord(pages[p], s, Len(log) + 1) EXCEPT !.lsn = Len(log) + 1]]
      /\ Go(t, "idle") /\ UNCHANGED <<disk, alloc, durable, free_pages, lock, slatch, mode, redo, redone>>
  BY <1>2, <1>3 DEF InsertPut, Stamp, NewLsn, LogInsertRecord, Unlatched
<1>5. /\ pages[p] \in Page /\ pages[p].num \in Nat /\ pages[p].num = Cardinality(pages[p].bits)
      /\ pages[p].cap \in {0, Capacity} /\ Len(log) + 1 \in Nat
  BY <1>1, PageNow DEF IInv, TypeInv
<1>6. ~IsFull(pages[p])
  BY <1>1, <1>2 DEF IInv, FreshInv
<1>7. pages[p].cap = Capacity /\ pages[p].cap # 0
  BY <1>5, <1>6, SlotsFinite DEF IsFull
<1>8. s \in Slots \ pages[p].bits /\ \A r \in 0..(s - 1) : r \in pages[p].bits
  BY <1>3, <1>5, <1>6, <1>7, InsertIndexIs
<1>9. PICK e \in LogEntry : e = Entry("insert", p, s) /\ e.type = "insert" /\ e.page = p /\ e.slot = s
  BY <1>8, EntryIs DEF Types
<1>10. PICK q : q = Applied(pages[p], e, Len(log) + 1)
  OBVIOUS
<1>11. pages' = [pages EXCEPT ![p] = q] /\ q.bits = pages[p].bits \cup {s} /\ q.num = pages[p].num + 1 /\ q.cap = pages[p].cap
  <2>1. PICK pg \in Page : pg = pages[p]
    BY <1>5
  <2>2. InsertIndex(pg) \in Slots \ pg.bits /\ InsertIndex(pg) = s
    BY <1>3, <1>8, <2>1
  <2>3. q = Applied(pg, e, Len(log) + 1)
    BY <1>10, <2>1
  <2>4. /\ q = [PutRecord(pg, s, Len(log) + 1) EXCEPT !.lsn = Len(log) + 1]
        /\ q.bits = pg.bits \cup {s} /\ q.num = pg.num + 1 /\ q.cap = pg.cap
    BY <1>5, <1>9, <2>2, <2>3, AppliedInsert
  <2> QED BY <1>4, <2>1, <2>4
<1>12. EntryOK(log', Len(log) + 1)
  BY <1>1, <1>4, <1>7, <1>8, <1>9, NewEntry DEF IInv
<1>13. OnlyThread(t) /\ th'[t] = Idle
  BY <1>4, GoIdle DEF IInv
<1>14. OthersStay(t) /\ th' \in [Threads -> ThreadState]
  BY <1>13 DEF OnlyThread, OthersStay
<1>15. xlatch'[p] = Free /\ (\A o \in PageNums \ {p} : xlatch'[o] = xlatch[o]) /\ xlatch[p] = t /\ slatch' = slatch
  BY <1>1, <1>2, <1>4 DEF IInv, TypeInv, HolderInv
<1>16. HolderTypes
  BY <1>4 DEF HolderTypes, IInv, TypeInv
<1>17. HolderInv'
  <2>1. OthersHold(t)
    BY <1>4, <1>15, NotFree DEF OthersHold
  <2>2. lock # t /\ (\A o \in PageNums : t \notin slatch[o]) /\ \A o \in PageNums \ {p} : xlatch[o] # t
    BY <1>1, <1>2 DEF IInv, HolderInv
  <2>3. HoldsOwn(t)
    BY <1>4, <1>13, <1>15, <2>2, IdleIs, NotFree DEF HoldsOwn
  <2> QED BY <1>14, <2>1, <2>3, HoldersKept DEF IInv
<1>18. \A u \in Threads \ {t} : ~(th[u].page = p /\ Makes(th[u]))
  BY <1>1, <1>2 DEF IInv, FreshInv
<1>19. PageOp(t, e, p, q)
  BY <1>4, <1>9, <1>10, <1>11, <1>12, <1>15, <1>18 DEF PageOp
<1>20. PagePlace(t, p, q)
  BY <1>1, <1>6, <1>13, IdleIs DEF PagePlace, PagesOwn
<1>21. ScanInv'
  <2>1. \A o \in PageNums : pages[o].bits \subseteq pages'[o].bits
    BY <1>11 DEF IInv, TypeInv
  <2>2. \A u \in Threads \ {t} : ScanOK(th'[u], pages')
    BY <1>13, <2>1, ScansKept DEF OnlyThread
  <2>3. ScanOK(th'[t], pages')
    BY <1>13, IdleIs DEF ScanOK, Scans
  <2> QED BY <2>2, <2>3 DEF ScanInv
<1> QED BY <1>1, <1>14, <1>16, <1>17, <1>19, <1>20, <1>21, PageStepInv

\* update_record and update_current: the record is there, and nobody else writes the page.
LEMMA UpdateInv ==
    ASSUME IInv, NEW t \in Threads, NEW p \in PageNums, NEW s \in pages[p].bits, mode = "run",
           xlatch[p] \in {Free, t}, th[t].pc \in {"idle", "scan"},
           pages' = [pages EXCEPT ![p] = Stamp(SetRecord(@, s, NewLsn))], LogUpdateRecord(p, s),
           UNCHANGED <<disk, alloc, durable, free_pages, lock, latches, th, mode, redo, redone>>
    PROVE  IInv'
<1> USE DEF Makes, Knows, Gives, Holds, Shares
<1>1. log' = Append(log, Entry("update", p, s)) /\ Len(log) + 1 \in Nat
  BY DEF LogUpdateRecord, IInv, TypeInv
<1>2. PICK pg \in Page : pg = pages[p]
  BY DEF IInv, TypeInv
<1>3. s \in pg.bits /\ s \in Slots
  BY <1>2 DEF Page
<1>4. PICK e \in LogEntry : e = Entry("update", p, s) /\ e.type = "update" /\ e.page = p /\ e.slot = s
  BY <1>3, EntryIs DEF Types
<1>5. PICK q : q = Applied(pg, e, Len(log) + 1)
  OBVIOUS
<1>6. /\ q = [SetRecord(pg, s, Len(log) + 1) EXCEPT !.lsn = Len(log) + 1]
      /\ q.bits = pg.bits /\ q.num = pg.num /\ q.cap = pg.cap
  BY <1>1, <1>3, <1>4, <1>5, AppliedUpdate
<1>7. pages' = [pages EXCEPT ![p] = q]
  BY <1>2, <1>6 DEF Stamp, NewLsn
<1>8. EntryOK(log', Len(log) + 1)
  <2>1. pages[p].cap # 0
    BY RecordInited, SlotsFinite DEF IInv
  <2> QED BY <1>1, <1>4, <2>1, NewEntry DEF IInv
<1>9. OthersStay(t) /\ th' \in [Threads -> ThreadState] /\ HolderTypes /\ HolderInv'
  BY DEF OthersStay, IInv, TypeInv, HolderTypes, HolderInv, latches
<1>10. \A u \in Threads \ {t} : ~(th[u].page = p /\ Makes(th[u]))
  BY DEF IInv, FreshInv
<1>11. PageOp(t, e, p, q)
  BY <1>1, <1>2, <1>4, <1>5, <1>7, <1>8, <1>10 DEF PageOp
<1>12. IsFull(q) <=> IsFull(pages[p])
  BY <1>2, <1>6 DEF IsFull
<1>13. PagesOwn(th'[t], alloc)
  BY DEF PagesOwn, IInv, AllocInv
<1>14. PagePlace(t, p, q)
  BY <1>12, <1>13 DEF PagePlace
<1>15. ScanInv'
  <2>1. \A o \in PageNums : pages[o].bits \subseteq pages'[o].bits
    BY <1>2, <1>6, <1>7 DEF IInv, TypeInv
  <2> QED BY <2>1, ScansKept DEF ScanInv
<1> QED BY <1>9, <1>11, <1>14, <1>15, PageStepInv

LEMMA UpdateRecordInv ==
    ASSUME IInv, NEW t \in Threads, NEW rid \in Rids, UpdateRecord(t, rid)
    PROVE  IInv'
<1>1. PICK p \in PageNums, s \in Slots : p = rid[1] /\ s = rid[2]
  BY DEF Rids
<1>2. /\ mode = "run" /\ th[t].pc = "idle" /\ xlatch[p] = Free /\ s \in pages[p].bits
      /\ pages' = [pages EXCEPT ![p] = Stamp(SetRecord(@, s, NewLsn))] /\ LogUpdateRecord(p, s)
      /\ UNCHANGED <<disk, alloc, durable, free_pages, lock, latches, th, mode, redo, redone>>
  BY <1>1 DEF UpdateRecord, At, CanWrite, HasRecord
<1> QED BY <1>2, UpdateInv

LEMMA UpdateCurrentInv ==
    ASSUME IInv, NEW t \in Threads, UpdateCurrent(t)
    PROVE  IInv'
<1>1. mode = "run" /\ th[t].pc = "scan" /\ th[t].write
  BY DEF UpdateCurrent, At
<1>2. PICK p \in PageNums : p = th[t].page
  BY <1>1, ThreadPage DEF IInv
<1>3. PICK s \in {r[2] : r \in {q \in th[t].seen : q[1] = p}} :
             pages' = [pages EXCEPT ![p] = Stamp(SetRecord(@, s, NewLsn))] /\ LogUpdateRecord(p, s)
  BY <1>2 DEF UpdateCurrent
<1>4. PICK r \in th[t].seen : r[1] = p /\ r[2] = s
  BY <1>3
<1>5. s \in pages[p].bits
  BY <1>1, <1>2, <1>4 DEF IInv, ScanInv, ScanOK
<1>6. xlatch[p] = t
  BY <1>1, <1>2 DEF IInv, HolderInv, Holds
<1>7. UNCHANGED <<disk, alloc, durable, free_pages, lock, latches, th, mode, redo, redone>>
  BY DEF UpdateCurrent
<1> QED BY <1>1, <1>3, <1>5, <1>6, <1>7, UpdateInv

LEMMA ForgetIs ==
    ASSUME TypeInv, NEW t \in Threads, NEW p, NEW s, th' = [Forget(p, s) EXCEPT ![t].pc = "del_free"]
    PROVE  /\ th' \in [Threads -> ThreadState] /\ OthersStay(t)
           /\ th'[t].pc = "del_free" /\ th'[t].page = th[t].page
           /\ \A u \in Threads : th'[u].must = th[u].must \ {<<p, s>>}
           /\ \A u \in Threads \ {t} : th'[u].slot = th[u].slot /\ th'[u].seen = th[u].seen
<1>1. ASSUME NEW u \in Threads, NEW x, x = [th[u] EXCEPT !.must = @ \ {<<p, s>>}]
      PROVE  /\ x \in ThreadState /\ x.pc = th[u].pc /\ x.page = th[u].page /\ x.slot = th[u].slot
             /\ x.last = th[u].last /\ x.write = th[u].write /\ x.seen = th[u].seen
             /\ x.must = th[u].must \ {<<p, s>>}
  <2>1. PICK m \in SUBSET Rids : m = th[u].must \ {<<p, s>>}
    <3>1. th[u].must \ {<<p, s>>} \in SUBSET Rids
      BY DEF TypeInv, ThreadState
    <3> QED BY <3>1, Zenon
  <2>2. x = [th[u] EXCEPT !.must = m] /\ th[u] \in ThreadState
    BY <1>1, <2>1 DEF TypeInv
  <2> QED BY <2>1, <2>2 DEF ThreadState
<1>2. PICK f : f = Forget(p, s)
  OBVIOUS
<1>3. /\ f \in [Threads -> ThreadState]
      /\ \A u \in Threads : /\ f[u].pc = th[u].pc /\ f[u].page = th[u].page /\ f[u].slot = th[u].slot
                            /\ f[u].last = th[u].last /\ f[u].write = th[u].write /\ f[u].seen = th[u].seen
                            /\ f[u].must = th[u].must \ {<<p, s>>}
  <2>1. f = [u \in Threads |-> [th[u] EXCEPT !.must = @ \ {<<p, s>>}]]
    BY <1>2 DEF Forget
  <2>2. \A u \in Threads : f[u] = [th[u] EXCEPT !.must = @ \ {<<p, s>>}]
    BY <2>1
  <2>3. \A u \in Threads : /\ f[u] \in ThreadState /\ f[u].pc = th[u].pc /\ f[u].page = th[u].page /\ f[u].slot = th[u].slot
                           /\ f[u].last = th[u].last /\ f[u].write = th[u].write /\ f[u].seen = th[u].seen
                           /\ f[u].must = th[u].must \ {<<p, s>>}
    BY <1>1, <2>2
  <2> QED BY <2>1, <2>3
<1>4. PICK x : x = [f[t] EXCEPT !.pc = "del_free"]
  OBVIOUS
<1>5. x \in ThreadState /\ x.pc = "del_free" /\ x.page = f[t].page /\ x.must = f[t].must
  <2>1. f[t] \in ThreadState /\ "del_free" \in Pcs
    BY <1>3 DEF Pcs
  <2> QED BY <1>4, <2>1 DEF ThreadState
<1>6. th' = [f EXCEPT ![t] = x]
  BY <1>2, <1>3, <1>4
<1>7. th' \in [Threads -> ThreadState] /\ th'[t] = x /\ \A u \in Threads \ {t} : th'[u] = f[u]
  BY <1>3, <1>5, <1>6
<1>8. \A u \in Threads : th'[u].must = th[u].must \ {<<p, s>>}
  <2>1. th'[t].must = th[t].must \ {<<p, s>>}
    BY <1>3, <1>5, <1>7
  <2>2. ASSUME NEW u \in Threads \ {t} PROVE th'[u].must = th[u].must \ {<<p, s>>}
    BY <1>3, <1>7
  <2> QED BY <2>1, <2>2
<1>9. OthersStay(t) /\ \A u \in Threads \ {t} : th'[u].slot = th[u].slot /\ th'[u].seen = th[u].seen
  BY <1>3, <1>7 DEF OthersStay
<1>10. th'[t].pc = "del_free" /\ th'[t].page = th[t].page
  BY <1>3, <1>5, <1>7
<1> QED BY <1>7, <1>8, <1>9, <1>10

LEMMA DeletePageInv ==
    ASSUME IInv, NEW t \in Threads, DeletePage(t)
    PROVE  IInv'
<1> USE DEF Makes, Knows, Gives, Holds, Shares
<1>1. th[t].pc = "del_page" /\ mode = "run"
  BY DEF DeletePage, At
<1>2. PICK p \in PageNums : p = th[t].page /\ p <= alloc
  BY <1>1, ThreadPage DEF IInv
<1>3. PICK s : s = th[t].slot
  OBVIOUS
<1>4. CASE ~HasRecord(pages[p], s)
  <2>1. Go(t, "idle") /\ UNCHANGED <<store, free_pages, lock, latches, mode, redo, redone>>
    BY <1>2, <1>3, <1>4 DEF DeletePage, store
  <2> QED BY <1>1, <2>1, InsertFailsInv
<1>5. CASE HasRecord(pages[p], s)
  <2>1. /\ CanWrite(p) /\ log' = Append(log, Entry("delete", p, s))
        /\ pages' = [pages EXCEPT ![p] = [DropRecord(pages[p], s) EXCEPT !.lsn = Len(log) + 1]]
        /\ th' = [Forget(p, s) EXCEPT ![t].pc = "del_free"]
        /\ UNCHANGED <<disk, alloc, durable, free_pages, lock, latches, mode, redo, redone>>
    BY <1>2, <1>3, <1>5 DEF DeletePage, Stamp, NewLsn, LogDeleteRecord
  <2>2. PICK pg \in Page : pg = pages[p]
    BY DEF IInv, TypeInv
  <2>3. s \in pg.bits /\ s \in Slots /\ Len(log) + 1 \in Nat
    BY <1>5, <2>2 DEF HasRecord, Page, IInv, TypeInv
  <2>4. PICK e \in LogEntry : e = Entry("delete", p, s) /\ e.type = "delete" /\ e.page = p /\ e.slot = s
    BY <2>3, EntryIs DEF Types
  <2>5. PICK q : q = Applied(pg, e, Len(log) + 1)
    OBVIOUS
  <2>6. /\ q = [DropRecord(pg, s) EXCEPT !.lsn = Len(log) + 1]
        /\ q.bits = pg.bits \ {s}
    BY <2>3, <2>4, <2>5, AppliedDelete
  <2>7. pages' = [pages EXCEPT ![p] = q]
    BY <2>1, <2>2, <2>6
  <2>8. EntryOK(log', Len(log) + 1)
    <3>1. pages[p].cap # 0
      BY <1>1, <2>2, <2>3, RecordInited, SlotsFinite DEF IInv
    <3> QED BY <1>1, <2>1, <2>2, <2>3, <2>4, <3>1, NewEntry DEF IInv
  <2>9. /\ th' \in [Threads -> ThreadState] /\ OthersStay(t)
        /\ th'[t].pc = "del_free" /\ th'[t].page = p
        /\ \A u \in Threads : th'[u].must = th[u].must \ {<<p, s>>}
        /\ \A u \in Threads \ {t} : th'[u].slot = th[u].slot /\ th'[u].seen = th[u].seen
    BY <1>2, <2>1, ForgetIs DEF IInv
  <2>10. HolderTypes /\ HolderInv'
    <3>1. HolderTypes /\ OthersHold(t) /\ HoldsOwn(t)
      BY <1>1, <2>1, <2>9, HoldNone DEF IInv
    <3> QED BY <2>9, <3>1, HoldersKept DEF IInv
  <2>11. \A u \in Threads : ~(th[u].page = p /\ Makes(th[u]))
    BY <2>2, <2>3 DEF IInv, FreshInv
  <2>12. xlatch[p] = Free
    BY <2>1 DEF CanWrite
  <2>13. PageOp(t, e, p, q)
    BY <2>1, <2>2, <2>4, <2>5, <2>7, <2>8, <2>11, <2>12 DEF PageOp
  <2>14. PagesOwn(th'[t], alloc)
    BY <1>2, <2>9, Sizes DEF PagesOwn, IInv, TypeInv
  <2>15. PagePlace(t, p, q)
    BY <1>1, <2>9, <2>14 DEF PagePlace
  <2>16. ScanInv'
    <3>1. pages'[p] = q /\ \A o \in PageNums \ {p} : pages'[o] = pages[o]
      BY <2>7 DEF IInv, TypeInv
    <3>2. ASSUME NEW u \in Threads PROVE ScanOK(th'[u], pages')
      <4>1. ScanOK(th[u], pages) /\ th[u] \in ThreadState
        BY DEF IInv, ScanInv, TypeInv
      <4>2. CASE u = t
        <5>1. th'[t].must = {}
          BY <1>1, <2>9, NoMust DEF IInv, Scans
        <5> QED BY <2>9, <4>2, <5>1 DEF ScanOK, Scans
      <4>3. CASE u # t
        <5>1. /\ th'[u].pc = th[u].pc /\ th'[u].page = th[u].page /\ th'[u].write = th[u].write
              /\ th'[u].last = th[u].last /\ th'[u].slot = th[u].slot /\ th'[u].seen = th[u].seen
              /\ th'[u].must = th[u].must \ {<<p, s>>}
          BY <2>9, <4>3 DEF OthersStay
        <5>2. ASSUME NEW r \in th'[u].must, Scans(th[u])
              PROVE  r[1] <= th'[u].last /\ r[2] \in pages'[r[1]].bits /\ Ahead(th'[u], r)
          <6>1. r \in th[u].must /\ r # <<p, s>> /\ r \in Rids
            BY <4>1, <5>1 DEF ThreadState
          <6>2. r[1] <= th[u].last /\ r[2] \in pages[r[1]].bits /\ Ahead(th[u], r)
            BY <4>1, <5>2, <6>1 DEF ScanOK
          <6>3. PICK a \in PageNums, b \in Slots : r = <<a, b>>
            BY <6>1 DEF Rids
          <6>4. r[2] \in pages'[r[1]].bits
            BY <2>2, <2>6, <3>1, <6>1, <6>2, <6>3
          <6> QED BY <5>1, <6>2, <6>4 DEF Ahead
        <5>3. ASSUME th[u].pc = "scan", th[u].write PROVE pages'[th[u].page] = pages[th[u].page]
          <6>1. th[u].page \in PageNums
            BY <5>3, ThreadPage DEF IInv
          <6>2. xlatch[th[u].page] = u
            BY <5>3, <6>1 DEF IInv, HolderInv
          <6> QED BY <2>12, <3>1, <6>1, <6>2, NotFree
        <5>4. ~Scans(th[u]) => th'[u].must = {}
          BY <4>1, <5>1 DEF ScanOK
        <5>5. Scans(th[u]) => \A r \in th'[u].seen : r[1] <= th'[u].page
          BY <4>1, <5>1 DEF ScanOK
        <5>6. th[u].pc = "scan" /\ th[u].write =>
                 /\ th'[u].slot = -1 \/ th'[u].slot \in pages'[th'[u].page].bits
                 /\ \A r \in th'[u].seen : r[1] = th'[u].page => r[2] \in pages'[th'[u].page].bits
          BY <4>1, <5>1, <5>3 DEF ScanOK
        <5>7. Scans(th'[u]) <=> Scans(th[u])
          BY <5>1 DEF Scans
        <5> QED BY <5>1, <5>2, <5>4, <5>5, <5>6, <5>7 DEF ScanOK
      <4> QED BY <4>2, <4>3
    <3> QED BY <3>2 DEF ScanInv
  <2> QED BY <1>1, <2>9, <2>10, <2>13, <2>15, <2>16, PageStepInv
<1> QED BY <1>4, <1>5

\* allocate_page: the new page is behind the pages of the file, and empty.
LEMMA InsertAllocateInv ==
    ASSUME IInv, NEW t \in Threads, InsertAllocate(t)
    PROVE  IInv'
<1> USE DEF Holds, Shares
<1>1. th[t].pc = "ins_alloc" /\ mode = "run"
  BY DEF InsertAllocate, At
<1>2. CASE ~(alloc < MaxPages /\ Room)
  <2>1. Go(t, "idle") /\ UNCHANGED <<store, free_pages, lock, latches, mode, redo, redone>>
    BY <1>2 DEF InsertAllocate, store
  <2> QED BY <1>1, <2>1, InsertFailsInv
<1>3. CASE alloc < MaxPages /\ Room
  <2>1. /\ alloc' = alloc + 1 /\ log' = Append(log, Entry("allocate", alloc + 1, -1)) /\ GoPage(t, "ins_init", alloc + 1)
        /\ UNCHANGED <<pages, disk, durable, free_pages, lock, latches, mode, redo, redone>>
    BY <1>3 DEF InsertAllocate, LogAllocate
  <2>2. PICK p \in PageNums : p = alloc + 1 /\ p \in 0..MaxPages /\ alloc \in Nat /\ alloc + 1 <= MaxPages
    BY <1>3, Sizes DEF IInv, TypeInv
  <2>3. PICK e \in LogEntry : e = Entry("allocate", p, -1) /\ e.type = "allocate" /\ e.page = p
    BY EntryIs DEF Types
  <2>4. /\ log \in Seq(LogEntry) /\ pages \in [PageNums -> Page] /\ Done = Len(log)
        /\ StoreOK(log, pages, disk, durable, Len(log))
    BY <1>1 DEF IInv, TypeInv, StoreInv, Done
  <2>5. /\ log' \in Seq(LogEntry) /\ Len(log') = Len(log) + 1 /\ Len(log) \in Nat /\ log'[Len(log) + 1] = e
        /\ log' = Append(log, e) /\ \A i \in 1..Len(log) : log'[i] = log[i]
    <3>1. log' = Append(log, e)
      BY <2>1, <2>2, <2>3
    <3> QED BY <2>4, <3>1, AppendIs
  <2>6. \A i \in 1..Len(log) : log[i].type = "allocate" => log[i].page <= alloc
    BY <2>4 DEF IInv, AllocInv
  <2>7. \A i \in 1..Len(log) : log[i].page \in Nat
    <3>1. \A i \in 1..Len(log) : log[i] \in LogEntry
      BY <2>4
    <3> QED BY <3>1, Sizes DEF LogEntry
  <2>8. EntryOK(log', Len(log) + 1)
    <3>1. PICK n \in Nat, k \in Seq(LogEntry) : k = log' /\ n = Len(log)
      BY <2>5
    <3>2. k[n + 1] = e /\ \A i \in 1..n : k[i] = log[i]
      BY <2>5, <3>1
    <3>3. \A j \in 1..n : k[j].type = "allocate" => k[j].page < e.page
      BY <2>2, <2>3, <2>6, <2>7, <3>1, <3>2
    <3>4. (n + 1) - 1 = n
      OBVIOUS
    <3>5. EntryOK(k, n + 1)
      BY <2>3, <3>2, <3>3, <3>4 DEF EntryOK
    <3> QED BY <3>1, <3>5
  <2>9. StoreOK(log', pages', disk, durable, Len(log) + 1)
    BY <2>1, <2>3, <2>4, <2>5, <2>8, StoreAppend
  <2>10. pages[p].bits = {}
    <3>1. SUFFICES ASSUME pages[p].bits # {} PROVE FALSE
      OBVIOUS
    <3>2. pages[p].cap = Capacity /\ Capacity # 0
      BY <1>1, <3>1, RecordInited, SlotsFinite DEF IInv
    <3>3. InitedIn(log, p, Len(log))
      BY <1>1, <3>2, PageNow DEF IInv
    <3>4. \E j \in 1..Len(log) : IsAllocate(log, j, p)
      BY <2>4, <2>5, <3>3, InitedAllocated DEF StoreOK
    <3> QED BY <2>2, <2>6, <3>4 DEF IsAllocate
  <2>11. OnlyThread(t) /\ th'[t].pc = "ins_init" /\ th'[t].page = p /\ th'[t].must = th[t].must
    BY <2>1, <2>2, GoPageIs DEF IInv, Pcs
  <2>12. OthersStay(t) /\ th' \in [Threads -> ThreadState]
    BY <2>11 DEF OnlyThread, OthersStay
  <2>13. HolderTypes /\ HolderInv'
    <3>1. HolderTypes /\ OthersHold(t) /\ HoldsOwn(t)
      BY <1>1, <2>1, <2>11, HoldNone DEF IInv
    <3> QED BY <2>12, <3>1, HoldersKept DEF IInv
  <2>14. TypeInv'
    <3>1. alloc' \in 0..MaxPages /\ free_pages \in SUBSET (1..alloc')
      BY <2>1, <2>2 DEF IInv, TypeInv
    <3>2. durable \in 0..Len(log') /\ redo \in 1..(Len(log') + 1)
      BY <2>5 DEF IInv, TypeInv
    <3> QED BY <2>1, <2>5, <2>12, <2>13, <3>1, <3>2 DEF IInv, TypeInv, HolderTypes
  <2>15. Done' = Len(log) + 1 /\ StoreInv'
    <3>1. Done' = Len(log) + 1
      BY <1>1, <2>1, <2>5 DEF Done
    <3> QED BY <2>1, <2>9, <3>1 DEF StoreInv
  <2>16. AllocInv'
    <3>1. ASSUME NEW i \in 1..Done', log'[i].type = "allocate" PROVE log'[i].page <= alloc'
      <4>1. CASE i = Len(log) + 1
        BY <2>1, <2>2, <2>3, <2>5, <4>1
      <4>2. CASE i # Len(log) + 1
        <5>1. i \in 1..Len(log)
          BY <2>5, <2>15, <4>2
        <5> QED BY <2>1, <2>2, <2>5, <2>6, <2>7, <3>1, <5>1
      <4> QED BY <4>1, <4>2
    <3>2. ASSUME NEW u \in Threads PROVE PagesOwn(th'[u], alloc')
      <4>1. CASE u = t
        BY <2>1, <2>2, <2>11, <4>1, Sizes DEF PagesOwn
      <4>2. CASE u # t
        <5>1. th'[u] = th[u] /\ th[u].page \in Int /\ th[u].last \in Int
          BY <2>11, <4>2 DEF OnlyThread, IInv, TypeInv, ThreadState
        <5>2. PagesOwn(th[u], alloc)
          BY DEF PagesOwn, IInv, AllocInv
        <5> QED BY <2>1, <2>2, <5>1, <5>2 DEF PagesOwn
      <4> QED BY <4>1, <4>2
    <3>3. ASSUME NEW u \in Threads, th'[u].pc = "ins_init" PROVE \E i \in 1..Len(log') : IsAllocate(log', i, th'[u].page)
      <4>1. CASE u = t
        <5>1. Len(log) + 1 \in 1..Len(log') /\ IsAllocate(log', Len(log) + 1, p)
          BY <2>3, <2>5 DEF IsAllocate
        <5> QED BY <2>11, <4>1, <5>1
      <4>2. CASE u # t
        <5>1. th'[u] = th[u] /\ th[u].pc = "ins_init"
          BY <2>11, <3>3, <4>2 DEF OnlyThread
        <5>2. PICK i \in 1..Len(log) : IsAllocate(log, i, th[u].page)
          BY <5>1 DEF IInv, AllocInv
        <5> QED BY <2>5, <5>1, <5>2 DEF IsAllocate
      <4> QED BY <4>1, <4>2
    <3> QED BY <3>1, <3>2, <3>3 DEF PagesOwn, AllocInv
  <2>17. FreshInv'
    <3>1. ASSUME NEW u \in Threads \ {t} PROVE th[u].page # p \/ ~Knows(th[u])
      BY <2>2, ThreadPage DEF IInv, Knows
    <3>2. p \notin free_pages
      BY <2>2 DEF IInv, TypeInv
    <3>3. ASSUME NEW u \in Threads, Makes(th'[u])
          PROVE  /\ th'[u].page \notin free_pages' /\ pages'[th'[u].page].bits = {}
                 /\ \A v \in Threads \ {u} : ~(th'[v].page = th'[u].page /\ Knows(th'[v]))
      <4>1. CASE u = t
        BY <2>1, <2>10, <2>11, <3>1, <3>2, <4>1 DEF OnlyThread
      <4>2. CASE u # t
        <5>1. th'[u] = th[u] /\ Makes(th[u]) /\ Knows(th[u]) /\ th[u].page # p
          BY <2>11, <3>1, <3>3, <4>2 DEF OnlyThread, Makes, Knows
        <5>2. /\ th[u].page \notin free_pages /\ pages[th[u].page].bits = {}
              /\ \A v \in Threads \ {u} : ~(th[v].page = th[u].page /\ Knows(th[v]))
          BY <5>1 DEF IInv, FreshInv
        <5>3. \A v \in Threads \ {u} : ~(th'[v].page = th[u].page /\ Knows(th'[v]))
          BY <2>11, <5>1, <5>2 DEF OnlyThread
        <5> QED BY <2>1, <5>1, <5>2, <5>3
      <4> QED BY <4>1, <4>2
    <3>4. ASSUME NEW u \in Threads, th'[u].pc \in {"ins_free", "ins_put"} PROVE ~IsFull(pages'[th'[u].page])
      <4>1. u # t /\ th'[u] = th[u]
        BY <2>11, <3>4 DEF OnlyThread
      <4> QED BY <2>1, <3>4, <4>1 DEF IInv, FreshInv
    <3> QED BY <3>3, <3>4 DEF FreshInv
  <2>18. KnownInv'
    <3>1. SUFFICES ASSUME NEW o \in PageNums, ~IsFull(pages[o]), o \notin redone
                   PROVE  o \in free_pages \/ \E u \in Threads : th'[u].page = o /\ Gives(th'[u])
      BY <2>1 DEF KnownInv
    <3>2. o \in free_pages \/ \E u \in Threads : th[u].page = o /\ Gives(th[u])
      BY <1>1, <3>1 DEF IInv, KnownInv
    <3>3. ASSUME NEW u \in Threads, Gives(th[u]) PROVE th'[u] = th[u]
      BY <1>1, <2>11, <3>3 DEF OnlyThread, Gives
    <3> QED BY <3>2, <3>3
  <2>19. ScanInv'
    <3>1. \A u \in Threads \ {t} : ScanOK(th'[u], pages')
      BY <2>1, <2>11 DEF OnlyThread, IInv, ScanInv
    <3>2. ScanOK(th'[t], pages')
      BY <1>1, <2>11, NoMust DEF ScanOK, Scans, IInv
    <3> QED BY <3>1, <3>2 DEF ScanInv
  <2>20. QuietInv'
    BY <1>1, <2>1 DEF QuietInv
  <2> QED BY <2>13, <2>14, <2>15, <2>16, <2>17, <2>18, <2>19, <2>20 DEF IInv
<1> QED BY <1>2, <1>3

-----------------------------------------------------------------------------
(***************************************************************************)
(* The buffer pool, crashes and the replay.                                *)
(***************************************************************************)
LEMMA MaxIs ==
    ASSUME NEW a \in Int, NEW b \in Int
    PROVE  Max({a, b}) = IF a >= b THEN a ELSE b
<1>1. PICK m \in {a, b} : m = (IF a >= b THEN a ELSE b) /\ \A y \in {a, b} : m >= y
  OBVIOUS
<1>2. \A x \in {a, b} : (\A y \in {a, b} : x >= y) => x = m
  BY <1>1
<1> QED BY <1>1, <1>2 DEF Max

LEMMA CleanIs ==
    ASSUME NEW pg \in Page, NEW q, q = [pg EXCEPT !.dirty = FALSE]
    PROVE  /\ q \in Page /\ q.bits = pg.bits /\ q.num = pg.num /\ q.cap = pg.cap /\ q.lsn = pg.lsn
           /\ Records(q) = Records(pg)
<1>1. q \in Page /\ q.bits = pg.bits /\ q.num = pg.num /\ q.cap = pg.cap /\ q.lsn = pg.lsn /\ q.data = pg.data
  BY DEF Page
<1> QED BY <1>1 DEF Records

LEMMA EvictInv ==
    ASSUME IInv, NEW p \in PageNums, Evict(p)
    PROVE  IInv'
<1>1. PICK pg \in Page : pg = pages[p]
  BY DEF IInv, TypeInv
<1>2. PICK q : q = [pg EXCEPT !.dirty = FALSE]
  OBVIOUS
<1>3. /\ disk' = [disk EXCEPT ![p] = q] /\ pages' = [pages EXCEPT ![p] = q] /\ durable' = Max({durable, pg.lsn})
      /\ UNCHANGED <<alloc, log, free_pages, lock, latches, th, mode, redo, redone>>
  BY <1>1, <1>2 DEF Evict, OnDisk
<1>4. /\ q \in Page /\ q.bits = pg.bits /\ q.num = pg.num /\ q.cap = pg.cap /\ q.lsn = pg.lsn
      /\ Records(q) = Records(pg)
  BY <1>2, CleanIs
<1>5. /\ pages' \in [PageNums -> Page] /\ pages'[p] = q /\ \A o \in PageNums \ {p} : pages'[o] = pages[o]
      /\ disk' \in [PageNums -> Page] /\ disk'[p] = q /\ \A o \in PageNums \ {p} : disk'[o] = disk[o]
  BY <1>3, <1>4 DEF IInv, TypeInv
<1>6. PageOK(log, pg, p) /\ UpTo(log, pg, p, Done) /\ Len(log) \in Nat
  BY <1>1 DEF IInv, StoreInv, StoreOK, TypeInv
<1>7. PageOK(log, q, p) /\ UpTo(log, q, p, Done)
  BY <1>4, <1>6 DEF PageOK, UpTo
<1>8. durable' \in 0..Len(log) /\ durable <= durable' /\ pg.lsn <= durable' /\ durable \in Nat
  <2>1. durable \in 0..Len(log) /\ pg.lsn \in 0..Len(log)
    BY <1>6 DEF IInv, TypeInv, PageOK
  <2> QED BY <1>3, <1>6, <2>1, MaxIs
<1>9. TypeInv'
  BY <1>3, <1>5, <1>8 DEF IInv, TypeInv, latches
<1>10. StoreInv'
  <2>1. Done' = Done /\ log' = log
    BY <1>3 DEF Done
  <2>2. ASSUME NEW o \in PageNums
        PROVE  /\ PageOK(log, pages'[o], o) /\ UpTo(log, pages'[o], o, Done)
               /\ PageOK(log, disk'[o], o) /\ disk'[o].lsn <= durable'
    <3>1. CASE o = p
      BY <1>4, <1>5, <1>7, <1>8, <3>1
    <3>2. CASE o # p
      <4>1. /\ PageOK(log, pages[o], o) /\ UpTo(log, pages[o], o, Done)
            /\ PageOK(log, disk[o], o) /\ disk[o].lsn <= durable
        BY DEF IInv, StoreInv, StoreOK
      <4>2. disk[o].lsn \in Nat
        BY DEF IInv, TypeInv, Page
      <4>3. disk[o].lsn <= durable'
        BY <1>8, <4>1, <4>2
      <4> QED BY <1>5, <3>2, <4>1, <4>3
    <3> QED BY <3>1, <3>2
  <2>3. \A i \in 1..Len(log) : EntryOK(log, i)
    BY DEF IInv, StoreInv, StoreOK
  <2>4. StoreOK(log, pages', disk', durable', Done)
    BY <2>2, <2>3 DEF StoreOK
  <2> QED BY <2>1, <2>4 DEF StoreInv
<1>11. \A o \in PageNums : pages'[o].bits = pages[o].bits /\ (IsFull(pages'[o]) <=> IsFull(pages[o]))
  BY <1>1, <1>4, <1>5 DEF IsFull
<1>12. HolderInv' /\ QuietInv' /\ AllocInv'
  BY <1>3 DEF IInv, HolderInv, QuietInv, AllocInv, Done, latches
<1>13. FreshInv'
  <2>1. ASSUME NEW t \in Threads, Knows(th[t]) PROVE th[t].page \in PageNums
    BY <2>1, ThreadPage DEF IInv, Knows
  <2>2. \A t \in Threads : Makes(th[t]) \/ th[t].pc \in {"ins_free", "ins_put"} => th[t].page \in PageNums
    BY <2>1 DEF Knows, Makes
  <2> QED BY <1>3, <1>11, <2>2 DEF IInv, FreshInv
<1>14. KnownInv'
  BY <1>3, <1>11 DEF IInv, KnownInv
<1>15. ScanInv'
  <2>1. \A o \in PageNums : pages[o].bits \subseteq pages'[o].bits
    BY <1>11
  <2>2. \A u \in Threads : ScanOK(th'[u], pages')
    BY <1>3, <2>1, ScansKept
  <2> QED BY <2>2 DEF ScanInv
<1> QED BY <1>9, <1>10, <1>12, <1>13, <1>14, <1>15 DEF IInv

\* The log allocates every page once.
LEMMA AllocatedBound ==
    ASSUME NEW l \in Seq(LogEntry), \A i \in 1..Len(l) : EntryOK(l, i)
    PROVE  Allocated(l) \in Nat /\ Allocated(l) <= MaxPages
<1> DEFINE S == {i \in 1..Len(l) : l[i].type = "allocate"}
           f == [i \in S |-> l[i].page]
<1>1. IsFiniteSet(S) /\ Cardinality(S) \in Nat /\ Allocated(l) = Cardinality(S)
  <2>1. IsFiniteSet(1..Len(l)) /\ S \in SUBSET (1..Len(l))
    BY FS_Interval
  <2>2. IsFiniteSet(S)
    BY <2>1, FS_Subset
  <2>3. Cardinality(S) \in Nat
    BY <2>2, FS_CardinalityType
  <2> QED BY <2>2, <2>3 DEF Allocated
<1>2. IsFiniteSet(PageNums) /\ Cardinality(PageNums) = MaxPages
  BY FS_Interval, Sizes
<1>3. f \in [S -> PageNums]
  <2>1. \A i \in 1..Len(l) : l[i] \in LogEntry
    OBVIOUS
  <2> QED BY <2>1 DEF LogEntry
<1>4. \A i \in S : f[i] = l[i].page /\ l[i].page \in Nat /\ i \in Nat
  BY <1>3, Sizes
<1> HIDE DEF f
<1>5. ASSUME NEW x \in S, NEW y \in S, x < y PROVE f[x] # f[y]
  <2>1. EntryOK(l, y) /\ l[y].type = "allocate" /\ x \in 1..(y - 1) /\ l[x].type = "allocate"
    BY <1>5
  <2>2. l[x].page < l[y].page
    BY <2>1 DEF EntryOK
  <2> QED BY <1>4, <2>2
<1> HIDE DEF S
<1>6. ~(MaxPages < Cardinality(S))
  <2>1. SUFFICES ASSUME Cardinality(PageNums) < Cardinality(S) PROVE FALSE
    BY <1>2
  <2>2. PICK x \in S, y \in S : x # y /\ f[x] = f[y]
    BY <1>1, <1>2, <1>3, <2>1, FS_PigeonHole
  <2>3. x < y \/ y < x
    BY <1>4, <2>2
  <2> QED BY <1>5, <2>2, <2>3
<1> QED BY <1>1, <1>6, Sizes

\* After a crash the log is a prefix that reaches every page on disk; the threads are gone.
LEMMA CrashInv ==
    ASSUME IInv, Crash
    PROVE  IInv'
<1>1. PICK n \in durable..Len(log) : log' = SubSeq(log, 1, n) /\ durable' = n
              /\ \E k \in 0..Allocated(SubSeq(log, 1, n)) : alloc' = k /\ free_pages' = FreePagesAtOpen(k)
  BY DEF Crash
<1>2. /\ pages' = disk /\ lock' = Free /\ xlatch' = [p \in PageNums |-> Free] /\ slatch' = [p \in PageNums |-> {}]
      /\ th' = [t \in Threads |-> Idle] /\ mode' = "redo" /\ redo' = 1 /\ redone' = {} /\ disk' = disk
  BY DEF Crash
<1>3. log \in Seq(LogEntry) /\ Len(log) \in Nat /\ durable \in 0..Len(log) /\ n \in Nat /\ n <= Len(log) /\ durable <= n
  BY DEF IInv, TypeInv
<1>4. log' \in Seq(LogEntry) /\ Len(log') = n /\ \A i \in 1..n : log'[i] = log[i]
  <2>1. SubSeq(log, 1, n) = [i \in 1..n |-> log[i]]
    <3>1. 1..n \subseteq 1..Len(log)
      BY <1>3
    <3> QED BY <1>3, <3>1
  <2>2. ASSUME NEW i \in 1..n PROVE log[i] \in LogEntry
    BY <1>3
  <2> QED BY <1>1, <1>3, <2>1, <2>2
<1>5. ASSUME NEW i \in 1..n PROVE EntryOK(log', i)
  <2>1. PICK l \in Seq(LogEntry) : l = log'
    BY <1>4
  <2>2. PICK m \in Seq(LogEntry) : m = log
    BY <1>3
  <2>3. i \in Nat \ {0} /\ EntryOK(m, i) /\ \A j \in 1..i : l[j] = m[j]
    BY <1>3, <1>4, <2>1, <2>2 DEF IInv, StoreInv, StoreOK
  <2>4. EntryOK(l, i)
    BY <2>3, EntryPrefix
  <2> QED BY <2>1, <2>4
<1>6. PICK k \in 0..Allocated(log') : alloc' = k /\ free_pages' = FreePagesAtOpen(k)
  BY <1>1
<1>7. k \in 0..MaxPages
  <2>1. PICK l \in Seq(LogEntry) : l = log'
    BY <1>4
  <2>2. Allocated(l) \in Nat /\ Allocated(l) <= MaxPages
    BY <1>4, <1>5, <2>1, AllocatedBound
  <2>3. Allocated(log') = Allocated(l)
    BY <2>1
  <2> QED BY <1>6, <2>2, <2>3, Sizes
<1>8. ASSUME NEW p \in PageNums
      PROVE  PageOK(log', disk[p], p) /\ disk[p].lsn <= n /\ disk[p].lsn \in Nat
  <2>1. PageOK(log, disk[p], p) /\ disk[p].lsn <= durable /\ disk[p].lsn \in Nat
    BY DEF IInv, StoreInv, StoreOK, TypeInv, Page
  <2>2. PICK pg : pg = disk[p]
    OBVIOUS
  <2>3. PICK l \in Seq(LogEntry) : l = log'
    BY <1>4
  <2>4. PICK m \in Seq(LogEntry) : m = log
    BY <1>3
  <2>5. PageOK(m, pg, p) /\ pg.lsn \in 0..Len(l) /\ \A j \in 1..pg.lsn : l[j] = m[j]
    BY <1>3, <1>4, <2>1, <2>2, <2>3, <2>4
  <2>6. PageOK(l, pg, p)
    BY <2>5, PagePrefix
  <2> QED BY <1>3, <2>1, <2>2, <2>3, <2>6
<1>9. Done' = 0
  BY <1>2 DEF Done
<1>10. StoreInv'
  <2>1. \A p \in PageNums : UpTo(log', disk[p], p, 0)
    BY <1>8 DEF UpTo
  <2>2. StoreOK(log', disk, disk, n, 0)
    BY <1>4, <1>5, <1>8, <2>1 DEF StoreOK
  <2> QED BY <1>1, <1>2, <1>9, <2>2 DEF StoreInv
<1>11. \A t \in Threads : th'[t] = Idle
  BY <1>2
<1>12. TypeInv'
  <2>1. free_pages' \in SUBSET (1..alloc')
    BY <1>6 DEF FreePagesAtOpen
  <2>2. th' \in [Threads -> ThreadState]
    BY <1>2, IdleIs
  <2>3. xlatch' \in [PageNums -> Threads \cup {Free}] /\ slatch' \in [PageNums -> SUBSET Threads] /\ lock' \in Threads \cup {Free}
    BY <1>2
  <2>4. durable' \in 0..Len(log') /\ redo' \in 1..(Len(log') + 1)
    BY <1>1, <1>2, <1>3, <1>4
  <2>5. disk \in [PageNums -> Page]
    BY DEF IInv, TypeInv
  <2> QED BY <1>2, <1>4, <1>6, <1>7, <2>1, <2>2, <2>3, <2>4, <2>5 DEF TypeInv
<1>13. HolderInv'
  BY <1>2, <1>11, IdleIs, NotFree DEF HolderInv, Holds, Shares
<1>14. QuietInv'
  BY <1>11 DEF QuietInv
<1>15. AllocInv'
  BY <1>9, <1>11, IdleIs DEF AllocInv
<1>16. FreshInv'
  BY <1>11, IdleIs DEF FreshInv, Makes
<1>17. ScanInv'
  BY <1>11, IdleIs DEF ScanInv, ScanOK, Scans
<1>18. KnownInv'
  <2>1. SUFFICES ASSUME NEW p \in PageNums, ~IsFull(disk[p])
                 PROVE  p \in free_pages' \/ (p > alloc' /\ \E i \in redo'..Len(log') : IsAllocate(log', i, p))
    BY <1>2 DEF KnownInv
  <2>2. CASE p <= k
    <3>1. p \in 1..k
      BY <1>7, <2>2, Sizes
    <3> QED BY <1>6, <2>1, <3>1 DEF FreePagesAtOpen
  <2>3. CASE ~(p <= k)
    <3>1. p > alloc'
      BY <1>6, <1>7, <2>3, Sizes
    <3>2. PICK m \in Nat : m = disk[p].lsn /\ m <= n
      BY <1>8
    <3>3. InitedIn(log', p, m)
      <4>1. disk[p].num \in Nat
        <5>1. disk[p] \in Page /\ disk[p].bits \subseteq Slots
          BY DEF IInv, TypeInv, Page
        <5>2. IsFiniteSet(disk[p].bits)
          BY <5>1, FS_Subset, SlotsFinite
        <5> QED BY <1>8, <5>2, FS_CardinalityType DEF PageOK
      <4>2. disk[p].cap # 0
        BY <2>1, <4>1 DEF IsFull
      <4>3. disk[p].cap = IF InitedIn(log', p, m) THEN Capacity ELSE 0
        BY <1>8, <3>2 DEF PageOK
      <4> QED BY <4>2, <4>3
    <3>4. PICK l \in Seq(LogEntry) : l = log'
      BY <1>4
    <3>5. \A i \in 1..m : EntryOK(l, i)
      BY <1>3, <1>5, <3>2, <3>4
    <3>6. PICK j \in 1..m : IsAllocate(l, j, p)
      BY <3>3, <3>4, <3>5, InitedAllocated
    <3>7. j \in redo'..Len(log')
      BY <1>2, <1>3, <1>4, <3>2
    <3> QED BY <3>1, <3>4, <3>6, <3>7
  <2> QED BY <2>2, <2>3
<1> QED BY <1>10, <1>12, <1>13, <1>14, <1>15, <1>16, <1>17, <1>18 DEF IInv

LEMMA ReplayInv ==
    ASSUME IInv, Replay
    PROVE  IInv'
<1>1. /\ mode = "redo" /\ redo <= Len(log) /\ UNCHANGED <<disk, log, durable, free_pages, lock, latches, th>>
  BY DEF Replay
<1>2. PICK n \in Nat : redo = n + 1 /\ Done = n /\ n < Len(log) /\ Len(log) \in Nat
  BY <1>1 DEF IInv, TypeInv, Done
<1>3. PICK e \in LogEntry : e = log[redo]
  <2>1. log \in Seq(LogEntry) /\ redo \in 1..Len(log)
    BY <1>1 DEF IInv, TypeInv
  <2> QED BY <2>1
<1>4. PICK p \in PageNums : p = e.page
  BY DEF LogEntry
<1>5. redo' = redo + 1 /\ mode' = mode
  BY DEF Replay
<1>6. \A t \in Threads : th'[t] = Idle /\ th[t] = Idle
  BY <1>1 DEF IInv, QuietInv
<1>7. HolderInv' /\ QuietInv'
  BY <1>1, <1>6 DEF IInv, HolderInv, QuietInv, latches
<1>8. FreshInv' /\ ScanInv'
  BY <1>6, IdleIs DEF FreshInv, Makes, ScanInv, ScanOK, Scans
<1>9. Done' = n + 1
  BY <1>1, <1>2, <1>5 DEF Done
<1>10. ASSUME NEW q \in PageNums
       PROVE  /\ PageOK(log, pages[q], q) /\ UpTo(log, pages[q], q, n) /\ PageOK(log, disk[q], q) /\ disk[q].lsn <= durable
              /\ pages[q] \in Page /\ pages[q].lsn \in Nat
  BY <1>2 DEF IInv, StoreInv, StoreOK, TypeInv, Page
<1>11. ASSUME NEW q \in PageNums, e.type = "allocate" \/ q # p \/ pages[q].lsn >= redo
       PROVE  UpTo(log, pages[q], q, n + 1)
  <2>1. PICK m \in Nat : m = pages[q].lsn
    BY <1>10
  <2>2. \A i \in (m + 1)..(n + 1) : i \in (m + 1)..n \/ (i = n + 1 /\ ~(m >= n + 1))
    OBVIOUS
  <2>3. \A i \in (m + 1)..n : log[i].page = q => log[i].type = "allocate"
    BY <1>10, <2>1 DEF UpTo
  <2>4. \A i \in (m + 1)..(n + 1) : log[i].page = q => log[i].type = "allocate"
    BY <1>2, <1>3, <1>4, <1>11, <2>1, <2>2, <2>3
  <2> QED BY <2>1, <2>4 DEF UpTo
<1>12. \A i \in 1..Len(log) : EntryOK(log, i)
  BY DEF IInv, StoreInv, StoreOK
<1>13. ASSUME NEW i \in 1..n, log[i].type = "allocate" PROVE log[i].page <= alloc /\ log[i].page \in Nat
  <2>1. log[i] \in LogEntry
    BY <1>2 DEF IInv, TypeInv
  <2> QED BY <1>2, <1>13, <2>1, Sizes DEF IInv, AllocInv, LogEntry
<1>14. redo' \in 1..(Len(log) + 1) /\ alloc \in Nat
  BY <1>2, <1>5 DEF IInv, TypeInv
<1>15. CASE e.type = "allocate"
  <2>1. /\ alloc' = Max({alloc, p}) /\ redone' = (IF p > alloc THEN redone \cup {p} ELSE redone) /\ pages' = pages
    BY <1>3, <1>4, <1>15 DEF Replay
  <2>2. alloc' = (IF alloc >= p THEN alloc ELSE p) /\ p \in Nat
    BY <1>14, <2>1, MaxIs, Sizes
  <2>3. alloc' \in 0..MaxPages /\ alloc <= alloc' /\ p <= alloc'
    BY <2>2, Sizes DEF IInv, TypeInv
  <2>4. TypeInv'
    <3>1. free_pages \in SUBSET (1..alloc')
      BY <1>14, <2>3 DEF IInv, TypeInv
    <3> QED BY <1>1, <1>5, <1>14, <2>1, <2>3, <3>1 DEF IInv, TypeInv, latches
  <2>5. StoreInv'
    <3>1. StoreOK(log, pages, disk, durable, n + 1)
      BY <1>10, <1>11, <1>12, <1>15 DEF StoreOK
    <3> QED BY <1>1, <1>9, <2>1, <3>1 DEF StoreInv
  <2>6. AllocInv'
    <3>1. ASSUME NEW i \in 1..(n + 1), log[i].type = "allocate" PROVE log[i].page <= alloc'
      <4>1. CASE i = n + 1
        BY <1>2, <1>3, <1>4, <2>3, <4>1
      <4>2. CASE i # n + 1
        <5>1. i \in 1..n
          BY <4>2
        <5> QED BY <1>13, <1>14, <2>2, <3>1, <5>1
      <4> QED BY <4>1, <4>2
    <3> QED BY <1>1, <1>6, <1>9, <3>1, IdleIs DEF AllocInv
  <2>7. KnownInv'
    <3>1. SUFFICES ASSUME NEW q \in PageNums, ~IsFull(pages[q]), q \notin redone'
                   PROVE  q \in free_pages \/ (q > alloc' /\ \E i \in redo'..Len(log) : IsAllocate(log, i, q))
      BY <1>1, <1>5, <2>1 DEF KnownInv
    <3>2. q \notin redone /\ (p > alloc => q # p)
      BY <2>1, <3>1
    <3>3. q \in free_pages \/ (q > alloc /\ \E i \in redo..Len(log) : IsAllocate(log, i, q))
      BY <1>1, <1>6, <3>1, <3>2, IdleIs DEF IInv, KnownInv, Gives
    <3>4. ASSUME q > alloc, NEW i \in redo..Len(log), IsAllocate(log, i, q)
          PROVE  q > alloc' /\ i \in redo'..Len(log)
      <4>1. i # redo
        BY <1>3, <1>4, <1>14, <3>2, <3>4, Sizes DEF IsAllocate
      <4>2. i \in redo'..Len(log) /\ redo \in 1..(i - 1) /\ i \in 1..Len(log)
        BY <1>2, <1>5, <4>1
      <4>3. log[redo].page < log[i].page
        BY <1>3, <1>12, <1>15, <3>4, <4>2 DEF EntryOK, IsAllocate
      <4> QED BY <1>3, <1>4, <2>2, <3>4, <4>2, <4>3 DEF IsAllocate
    <3> QED BY <3>3, <3>4
  <2> QED BY <1>7, <1>8, <2>4, <2>5, <2>6, <2>7 DEF IInv
<1>16. ASSUME e.type # "allocate", alloc' = alloc, pages' \in [PageNums -> Page], redone \subseteq redone',
              \A q \in PageNums : pages'[q] = pages[q] \/ q \in redone',
              \A q \in PageNums : PageOK(log, pages'[q], q) /\ UpTo(log, pages'[q], q, n + 1)
       PROVE  IInv'
  <2>1. TypeInv'
    BY <1>1, <1>5, <1>14, <1>16 DEF IInv, TypeInv, latches
  <2>2. StoreInv'
    <3>1. StoreOK(log, pages', disk, durable, n + 1)
      BY <1>10, <1>12, <1>16 DEF StoreOK
    <3> QED BY <1>1, <1>9, <3>1 DEF StoreInv
  <2>3. AllocInv'
    <3>1. ASSUME NEW i \in 1..(n + 1), log[i].type = "allocate" PROVE log[i].page <= alloc
      <4>1. i # n + 1
        BY <1>2, <1>3, <1>16, <3>1
      <4>2. i \in 1..n
        BY <4>1
      <4> QED BY <1>13, <3>1, <4>2
    <3> QED BY <1>1, <1>6, <1>9, <1>16, <3>1, IdleIs DEF AllocInv
  <2>4. KnownInv'
    <3>1. SUFFICES ASSUME NEW q \in PageNums, ~IsFull(pages'[q]), q \notin redone'
                   PROVE  q \in free_pages \/ (q > alloc /\ \E i \in redo'..Len(log) : IsAllocate(log, i, q))
      BY <1>1, <1>5, <1>16 DEF KnownInv
    <3>2. q \notin redone /\ ~IsFull(pages[q])
      BY <1>16, <3>1
    <3>3. q \in free_pages \/ (q > alloc /\ \E i \in redo..Len(log) : IsAllocate(log, i, q))
      BY <1>1, <1>6, <3>2, IdleIs DEF IInv, KnownInv, Gives
    <3>4. ASSUME NEW i \in redo..Len(log), IsAllocate(log, i, q) PROVE i \in redo'..Len(log)
      <4>1. i # redo
        BY <1>3, <1>16, <3>4 DEF IsAllocate
      <4> QED BY <1>2, <1>5, <4>1
    <3> QED BY <3>3, <3>4
  <2> QED BY <1>7, <1>8, <2>1, <2>2, <2>3, <2>4 DEF IInv
<1>17. CASE e.type # "allocate" /\ Seen(pages[p], redo)
  <2>1. pages' = pages /\ alloc' = alloc /\ redone' = redone
    BY <1>3, <1>4, <1>17 DEF Replay
  <2>2. \A q \in PageNums : UpTo(log, pages[q], q, n + 1)
    BY <1>11, <1>17 DEF Seen
  <2>3. pages' \in [PageNums -> Page]
    BY <2>1 DEF IInv, TypeInv
  <2> QED BY <1>10, <1>16, <1>17, <2>1, <2>2, <2>3
<1>18. CASE e.type # "allocate" /\ ~Seen(pages[p], redo)
  <2>1. /\ pages' = [pages EXCEPT ![p] = [Replayed(pages[p], e, redo) EXCEPT !.lsn = redo]]
        /\ redone' = redone \cup {p} /\ alloc' = alloc
    BY <1>3, <1>4, <1>18 DEF Replay
  <2>2. PICK pg \in Page : pg = pages[p]
    BY <1>10
  <2>3. PICK q : q = Applied(pg, e, n + 1)
    OBVIOUS
  <2>4. pages' = [pages EXCEPT ![p] = q]
    BY <1>2, <2>1, <2>2, <2>3 DEF Applied
  <2>5. q \in Page /\ q.lsn = n + 1 /\ PageOK(log, q, p)
    <3>1. pg.lsn <= n /\ PageOK(log, pg, p) /\ UpTo(log, pg, p, n)
      BY <1>2, <1>10, <1>18, <2>2 DEF Seen
    <3>2. log[n + 1] = e /\ log[n + 1].page = p /\ log[n + 1].type \in Types \ {"allocate"} /\ EntryOK(log, n + 1)
      BY <1>2, <1>3, <1>4, <1>12, <1>18 DEF LogEntry
    <3>3. PICK l \in Seq(LogEntry) : l = log
      BY DEF IInv, TypeInv
    <3>4. q = Applied(pg, l[n + 1], n + 1)
      BY <2>3, <3>2, <3>3
    <3>5. q \in Page /\ q.lsn = n + 1 /\ PageOK(l, q, p)
      BY <1>2, <3>1, <3>2, <3>3, <3>4, PageStep
    <3> QED BY <3>3, <3>5
  <2>6. UpTo(log, q, p, n + 1)
    BY <2>5 DEF UpTo
  <2>7. pages' \in [PageNums -> Page] /\ pages'[p] = q /\ \A o \in PageNums \ {p} : pages'[o] = pages[o]
    BY <2>4, <2>5 DEF IInv, TypeInv
  <2>8. \A o \in PageNums : PageOK(log, pages'[o], o) /\ UpTo(log, pages'[o], o, n + 1)
    <3>1. \A o \in PageNums \ {p} : PageOK(log, pages[o], o) /\ UpTo(log, pages[o], o, n + 1)
      BY <1>10, <1>11
    <3> QED BY <2>5, <2>6, <2>7, <3>1
  <2>9. \A o \in PageNums : pages'[o] = pages[o] \/ o \in redone'
    BY <2>1, <2>7
  <2> QED BY <1>16, <1>18, <2>1, <2>7, <2>8, <2>9
<1> QED BY <1>15, <1>17, <1>18

LEMMA ReplayDoneInv ==
    ASSUME IInv, ReplayDone
    PROVE  IInv'
<1>1. /\ mode = "redo" /\ redo > Len(log) /\ mode' = "run" /\ redo' = 1
      /\ UNCHANGED <<store, free_pages, lock, latches, th, redone>>
  BY DEF ReplayDone
<1>2. Len(log) \in Nat /\ redo = Len(log) + 1
  BY <1>1 DEF IInv, TypeInv
<1>3. Done' = Done
  BY <1>1, <1>2 DEF Done, store
<1>4. TypeInv'
  BY <1>1, <1>2 DEF IInv, TypeInv, store, latches
<1>5. StoreInv'
  BY <1>1, <1>3 DEF IInv, StoreInv, store
<1>6. AllocInv'
  BY <1>1, <1>3 DEF IInv, AllocInv, store
<1>7. HolderInv' /\ QuietInv' /\ FreshInv' /\ ScanInv'
  BY <1>1 DEF IInv, HolderInv, QuietInv, FreshInv, ScanInv, store, latches
<1>8. KnownInv'
  <2>1. \A i \in redo..Len(log) : FALSE
    BY <1>2
  <2> QED BY <1>1, <2>1 DEF IInv, KnownInv, store
<1> QED BY <1>4, <1>5, <1>6, <1>7, <1>8 DEF IInv

-----------------------------------------------------------------------------
(***************************************************************************)
(* The first log: one page, filled slot by slot.                           *)
(***************************************************************************)
FirstLog(l) ==
    /\ l \in Seq(LogEntry) /\ Len(l) = Capacity + 2
    /\ l[1].type = "allocate" /\ l[1].page = 1
    /\ l[2].type = "init_page" /\ l[2].page = 1 /\ l[2].slot = -1
    /\ \A i \in 3..(Capacity + 2) : l[i].type = "insert" /\ l[i].page = 1 /\ l[i].slot = i - 3

LEMMA FirstLogged ==
    ASSUME NEW l, FirstLog(l), NEW n \in 2..(Capacity + 2)
    PROVE  /\ \A x : x \in LoggedIn(l, 1, n) <=> \E i \in 3..n : x = <<i - 3, i>>
           /\ BitsIn(l, 1, n) = 0..(n - 3) /\ InitedIn(l, 1, n)
<1>1. Capacity \in Nat \ {0} /\ n \in Nat
  BY SlotsFinite
<1>2. \A i \in 1..n : i = 1 \/ i = 2 \/ i \in 3..n
  BY <1>1
<1>3. \A i \in 3..n : i \in 3..(Capacity + 2)
  BY <1>1
<1>4. ASSUME NEW j \in 3..n PROVE j \in LiveIn(l, 1, n)
  <2>1. j \in 1..n /\ l[j].page = 1 /\ l[j].type = "insert" /\ l[j].slot = j - 3
    BY <1>1, <1>3 DEF FirstLog
  <2>2. ASSUME NEW i \in j + 1..n PROVE ~OverIn(l, i, j)
    <3>1. i \in 3..(Capacity + 2) /\ i - 3 # j - 3
      BY <1>1
    <3>2. l[i].type = "insert" /\ l[i].slot = i - 3
      BY <3>1 DEF FirstLog
    <3> QED BY <2>1, <3>1, <3>2 DEF OverIn
  <2> QED BY <2>1, <2>2 DEF LiveIn
<1>5. ASSUME NEW j \in LiveIn(l, 1, n) PROVE j \in 3..n
  <2>1. j \in 1..n /\ l[j].type \in {"insert", "update"}
    BY DEF LiveIn
  <2>2. j # 1 /\ j # 2
    BY <2>1 DEF FirstLog
  <2> QED BY <1>2, <2>1, <2>2
<1>6. \A j \in 3..n : l[j].slot = j - 3
  BY <1>3 DEF FirstLog
<1>7. \A x : x \in LoggedIn(l, 1, n) <=> \E i \in 3..n : x = <<i - 3, i>>
  BY <1>4, <1>5, <1>6 DEF LoggedIn
<1>8. BitsIn(l, 1, n) = 0..(n - 3)
  <2>1. ASSUME NEW x \in LoggedIn(l, 1, n) PROVE x[1] \in 0..(n - 3)
    <3>1. PICK i \in 3..n : x = <<i - 3, i>>
      BY <1>7
    <3>2. i - 3 \in 0..(n - 3)
      BY <1>1
    <3> QED BY <3>1, <3>2
  <2>2. ASSUME NEW s \in 0..(n - 3) PROVE s \in BitsIn(l, 1, n)
    <3>1. s + 3 \in 3..n /\ (s + 3) - 3 = s
      BY <1>1
    <3>2. <<s, s + 3>> \in LoggedIn(l, 1, n) /\ <<s, s + 3>>[1] = s
      BY <1>7, <3>1
    <3> QED BY <3>2 DEF BitsIn
  <2> QED BY <2>1, <2>2 DEF BitsIn
<1>9. InitedIn(l, 1, n)
  <2>1. 2 \in 1..n
    BY <1>1
  <2> QED BY <2>1 DEF InitedIn, FirstLog
<1> QED BY <1>7, <1>8, <1>9

LEMMA FirstEntries ==
    ASSUME NEW l, FirstLog(l), NEW i \in 1..Len(l)
    PROVE  EntryOK(l, i)
<1>1. Capacity \in Nat \ {0} /\ Len(l) = Capacity + 2
  BY SlotsFinite DEF FirstLog
<1>2. CASE i = 1
  BY <1>2 DEF EntryOK, FirstLog
<1>3. CASE i = 2
  <2>1. 1 \in 1..(2 - 1) /\ IsAllocate(l, 1, 1)
    BY DEF FirstLog, IsAllocate
  <2> QED BY <1>3, <2>1 DEF EntryOK, FirstLog
<1>4. CASE i \in 3..(Capacity + 2)
  <2>1. PICK n \in 2..(Capacity + 2) : n = i - 1
    BY <1>1, <1>4
  <2>2. l[i].type = "insert" /\ l[i].page = 1 /\ l[i].slot = i - 3
    BY <1>4 DEF FirstLog
  <2>3. BitsIn(l, 1, n) = 0..(n - 3) /\ InitedIn(l, 1, n)
    BY <2>1, FirstLogged
  <2>4. i - 3 \in Slots /\ i - 3 \notin 0..(n - 3) /\ \A s \in 0..((i - 3) - 1) : s \in 0..(n - 3)
    BY <1>1, <1>4, <2>1 DEF Slots
  <2>5. 1 \in 1..n /\ IsAllocate(l, 1, 1)
    BY <1>1, <2>1 DEF FirstLog, IsAllocate
  <2> QED BY <2>1, <2>2, <2>3, <2>4, <2>5 DEF EntryOK
<1> QED BY <1>1, <1>2, <1>3, <1>4

LEMMA ZeroPageIs ==
    ZeroPage \in Page /\ ZeroPage.bits = {} /\ ZeroPage.num = 0 /\ ZeroPage.cap = 0 /\ ZeroPage.lsn = 0
<1>1. [s \in Slots |-> 0] \in [Slots -> Nat] /\ {} \in SUBSET Slots
  OBVIOUS
<1> QED BY <1>1 DEF ZeroPage, Page

LEMMA FullPageIs ==
    /\ FullPage \in Page /\ FullPage.bits = Slots /\ FullPage.num = Capacity /\ FullPage.cap = Capacity
    /\ FullPage.lsn = Capacity + 2 /\ FullPage.data = [s \in Slots |-> s + 3]
<1>1. PICK d \in [Slots -> Nat] : d = [s \in Slots |-> s + 3]
  <2>1. [s \in Slots |-> s + 3] \in [Slots -> Nat]
    BY SlotsFinite
  <2> QED BY <2>1, Zenon
<1>2. PICK b \in SUBSET Slots, c \in Nat, i \in Nat, z \in Page : b = Slots /\ c = Capacity /\ i = Capacity + 2 /\ z = ZeroPage
  <2>1. Slots \in SUBSET Slots /\ Capacity \in Nat /\ Capacity + 2 \in Nat /\ ZeroPage \in Page
    BY SlotsFinite, ZeroPageIs
  <2> QED BY <2>1, Zenon
<1>3. PICK y : y = [z EXCEPT !.cap = c, !.num = c]
  OBVIOUS
<1>4. y \in Page /\ y.num = c /\ y.cap = c
  <2>1. PICK m \in Int : m = c
    OBVIOUS
  <2>2. PICK x : x = [z EXCEPT !.cap = c]
    OBVIOUS
  <2>3. x \in Page /\ x.cap = c
    BY <2>2 DEF Page
  <2>4. PICK w : w = [x EXCEPT !.num = m]
    OBVIOUS
  <2>5. w \in Page /\ w.num = m /\ w.cap = c
    BY <2>3, <2>4 DEF Page
  <2>6. y = w
    BY <1>3, <2>1, <2>2, <2>4 DEF Page
  <2> QED BY <2>1, <2>5, <2>6
<1>5. PICK q : q = [y EXCEPT !.bits = b, !.data = d, !.lsn = i]
  OBVIOUS
<1>6. q \in Page /\ q.bits = b /\ q.num = c /\ q.cap = c /\ q.lsn = i /\ q.data = d
  BY <1>4, <1>5 DEF Page
<1>7. FullPage = q
  BY <1>1, <1>2, <1>3, <1>5 DEF FullPage
<1> QED BY <1>1, <1>2, <1>6, <1>7

LEMMA FirstPage ==
    ASSUME NEW l, FirstLog(l)
    PROVE  PageOK(l, FullPage, 1)
<1>1. PICK n \in 2..(Capacity + 2) : n = Capacity + 2 /\ n \in 0..Len(l)
  BY SlotsFinite DEF FirstLog
<1>2. (\A x : x \in LoggedIn(l, 1, n) <=> \E i \in 3..n : x = <<i - 3, i>>) /\ InitedIn(l, 1, n)
  BY FirstLogged
<1>3. \A x : x \in Records(FullPage) <=> \E s \in Slots : x = <<s, s + 3>>
  BY FullPageIs DEF Records
<1>4. ASSUME NEW s \in Slots PROVE s + 3 \in 3..n /\ <<s, s + 3>> = <<(s + 3) - 3, s + 3>>
  BY <1>1, SlotsFinite DEF Slots
<1>5. ASSUME NEW i \in 3..n PROVE i - 3 \in Slots /\ <<i - 3, i>> = <<i - 3, (i - 3) + 3>>
  BY <1>1, SlotsFinite DEF Slots
<1>6. Records(FullPage) = LoggedIn(l, 1, n)
  <2>1. ASSUME NEW x \in Records(FullPage) PROVE x \in LoggedIn(l, 1, n)
    BY <1>2, <1>3, <1>4
  <2>2. ASSUME NEW x \in LoggedIn(l, 1, n) PROVE x \in Records(FullPage)
    BY <1>2, <1>3, <1>5
  <2> QED BY <2>1, <2>2
<1> QED BY <1>1, <1>2, <1>6, FullPageIs, SlotsFinite DEF PageOK

LEMMA EmptyPage ==
    ASSUME NEW l, Len(l) \in Nat, NEW p
    PROVE  PageOK(l, ZeroPage, p)
<1>1. LoggedIn(l, p, 0) = {} /\ ~InitedIn(l, p, 0)
  BY DEF LoggedIn, LiveIn, InitedIn
<1>2. Records(ZeroPage) = {} /\ Cardinality({}) = 0
  BY ZeroPageIs, FS_EmptySet DEF Records
<1> QED BY <1>1, <1>2, ZeroPageIs DEF PageOK

LEMMA InitFirstLog ==
    ASSUME Init
    PROVE  FirstLog(log)
<1>1. Capacity \in Nat \ {0} /\ 1 \in PageNums
  BY SlotsFinite, Sizes
<1>2. PICK a \in LogEntry, b \in LogEntry : a = Entry("allocate", 1, -1) /\ b = Entry("init_page", 1, -1)
                                            /\ a.type = "allocate" /\ a.page = 1
                                            /\ b.type = "init_page" /\ b.page = 1 /\ b.slot = -1
  BY <1>1, EntryIs DEF Types
<1>3. PICK f : f = [i \in 1..Capacity |-> Entry("insert", 1, i - 1)]
  OBVIOUS
<1>4. ASSUME NEW i \in 1..Capacity
      PROVE  f[i] \in LogEntry /\ f[i].type = "insert" /\ f[i].page = 1 /\ f[i].slot = i - 1
  <2>1. i - 1 \in Slots \cup {-1}
    BY <1>1 DEF Slots
  <2> QED BY <1>1, <1>3, <2>1, EntryIs DEF Types
<1>5. f \in Seq(LogEntry) /\ Len(f) = Capacity
  BY <1>1, <1>3, <1>4
<1>6. PICK g : g = <<a, b>>
  OBVIOUS
<1>7. g \in Seq(LogEntry) /\ Len(g) = 2 /\ g[1] = a /\ g[2] = b
  BY <1>6
<1>8. log = g \o f
  BY <1>2, <1>3, <1>6 DEF Init
<1>9. log \in Seq(LogEntry) /\ Len(log) = Capacity + 2 /\ log[1] = a /\ log[2] = b
      /\ \A i \in 3..(Capacity + 2) : log[i] = f[i - 2]
  <2>1. /\ g \o f \in Seq(LogEntry) /\ Len(g \o f) = 2 + Capacity
        /\ \A i \in 1..(2 + Capacity) : (g \o f)[i] = IF i <= 2 THEN g[i] ELSE f[i - 2]
    <3>1. /\ g \o f \in Seq(LogEntry) /\ Len(g \o f) = Len(g) + Len(f)
          /\ \A i \in 1..(Len(g) + Len(f)) : (g \o f)[i] = IF i <= Len(g) THEN g[i] ELSE f[i - Len(g)]
      BY <1>5, <1>7, ConcatProperties
    <3> QED BY <1>5, <1>7, <3>1, Zenon
  <2>2. PICK h : h = g \o f
    OBVIOUS
  <2>3. /\ h \in Seq(LogEntry) /\ Len(h) = 2 + Capacity
        /\ \A i \in 1..(2 + Capacity) : h[i] = IF i <= 2 THEN g[i] ELSE f[i - 2]
    BY <2>1, <2>2, Zenon
  <2>4. Len(h) = Capacity + 2 /\ h[1] = g[1] /\ h[2] = g[2] /\ \A i \in 3..(Capacity + 2) : h[i] = f[i - 2]
    BY <1>1, <2>3
  <2>5. log = h
    BY <1>8, <2>2, Zenon
  <2> QED BY <1>7, <2>3, <2>4, <2>5
<1>10. ASSUME NEW i \in 3..(Capacity + 2) PROVE log[i].type = "insert" /\ log[i].page = 1 /\ log[i].slot = i - 3
  <2>1. i - 2 \in 1..Capacity /\ (i - 2) - 1 = i - 3 /\ i \in 3..(Capacity + 2)
    BY <1>1
  <2>2. log[i] = f[i - 2]
    BY <1>9, <2>1
  <2> QED BY <1>4, <2>1, <2>2
<1> QED BY <1>2, <1>9, <1>10 DEF FirstLog

LEMMA InitInv == Init => IInv
<1> SUFFICES ASSUME Init PROVE IInv
  OBVIOUS
<1>1. FirstLog(log) /\ Capacity \in Nat \ {0} /\ Len(log) = Capacity + 2 /\ log \in Seq(LogEntry)
  BY InitFirstLog, SlotsFinite DEF FirstLog
<1>2. mode = "run" /\ Done = Len(log) /\ redo = 1 /\ durable = Len(log) /\ alloc = 1 /\ free_pages = {1}
  BY DEF Init, Done
<1>3. 1 \in PageNums /\ MaxPages \in Nat /\ 1 <= MaxPages
  BY Sizes
<1>4. /\ pages \in [PageNums -> Page] /\ disk = pages
      /\ pages[1] = FullPage /\ \A p \in PageNums \ {1} : pages[p] = ZeroPage
  BY <1>3, FullPageIs, ZeroPageIs DEF Init
<1>5. \A t \in Threads : th[t] = Idle
  BY DEF Init
<1>6. TypeInv
  <2>1. th \in [Threads -> ThreadState]
    BY IdleIs DEF Init
  <2>2. /\ xlatch \in [PageNums -> Threads \cup {Free}] /\ slatch \in [PageNums -> SUBSET Threads]
        /\ lock \in Threads \cup {Free}
    BY DEF Init
  <2>3. alloc \in 0..MaxPages /\ durable \in 0..Len(log) /\ redo \in 1..(Len(log) + 1) /\ free_pages \in SUBSET (1..alloc)
    BY <1>1, <1>2, <1>3
  <2> QED BY <1>1, <1>2, <1>4, <2>1, <2>2, <2>3 DEF TypeInv
<1>7. HolderInv
  BY <1>5, IdleIs, NotFree DEF Init, HolderInv, Holds, Shares
<1>8. StoreInv
  <2>1. ASSUME NEW p \in PageNums
        PROVE  PageOK(log, pages[p], p) /\ UpTo(log, pages[p], p, Len(log)) /\ pages[p].lsn <= Len(log)
    <3>1. CASE p = 1
      <4>1. PageOK(log, FullPage, 1)
        BY <1>1, FirstPage
      <4>2. UpTo(log, FullPage, 1, Len(log))
        BY <1>1, FullPageIs DEF UpTo
      <4> QED BY <1>1, <1>4, <3>1, <4>1, <4>2, FullPageIs
    <3>2. CASE p # 1
      <4>1. PageOK(log, ZeroPage, p)
        BY <1>1, EmptyPage
      <4>2. \A i \in 1..Len(log) : log[i].page = 1
        <5>1. \A i \in 1..Len(log) : i = 1 \/ i = 2 \/ i \in 3..(Capacity + 2)
          BY <1>1
        <5> QED BY <1>1, <5>1 DEF FirstLog
      <4>3. UpTo(log, ZeroPage, p, Len(log))
        BY <1>1, <3>2, <4>2, ZeroPageIs DEF UpTo
      <4> QED BY <1>1, <1>4, <3>2, <4>1, <4>3, ZeroPageIs
    <3> QED BY <3>1, <3>2
  <2>2. \A i \in 1..Len(log) : EntryOK(log, i)
    BY <1>1, FirstEntries
  <2>3. StoreOK(log, pages, pages, Len(log), Len(log))
    BY <2>1, <2>2 DEF StoreOK
  <2> QED BY <1>2, <1>4, <2>3 DEF StoreInv
<1>9. AllocInv
  <2>1. ASSUME NEW i \in 1..Len(log), log[i].type = "allocate" PROVE log[i].page <= alloc
    <3>1. i = 1 \/ i = 2 \/ i \in 3..(Capacity + 2)
      BY <1>1
    <3>2. i = 1
      BY <1>1, <2>1, <3>1 DEF FirstLog
    <3> QED BY <1>1, <1>2, <3>2 DEF FirstLog
  <2> QED BY <1>2, <1>5, <2>1, IdleIs DEF AllocInv
<1>10. FreshInv /\ ScanInv
  BY <1>5, IdleIs DEF FreshInv, Makes, ScanInv, ScanOK, Scans
<1>11. KnownInv
  <2>1. \A p \in PageNums : p # 1 => IsFull(pages[p])
    BY <1>4, ZeroPageIs DEF IsFull
  <2> QED BY <1>2, <2>1 DEF KnownInv
<1>12. QuietInv
  BY <1>2 DEF QuietInv
<1> QED BY <1>6, <1>7, <1>8, <1>9, <1>10, <1>11, <1>12 DEF IInv

LEMMA NextInv == IInv /\ [Next]_vars => IInv'
<1> SUFFICES ASSUME IInv, [Next]_vars PROVE IInv'
  OBVIOUS
<1>1. ASSUME NEW t \in Threads, ThreadStep(t) PROVE IInv'
  <2>1. ASSUME NEW rid \in Rids, DeleteStart(t, rid) \/ UpdateRecord(t, rid) PROVE IInv'
    BY <2>1, DeleteStartInv, UpdateRecordInv
  <2>2. ASSUME NEW w \in BOOLEAN, OpenScan(t, w) PROVE IInv'
    BY <2>2, OpenScanInv
  <2> QED BY <1>1, <2>1, <2>2, InsertStartInv, InsertLockInv, InsertFindInv, InsertAllocateInv, InsertInitPageInv,
             InsertNewFreePageInv, InsertPutInv, DeletePageInv, DeleteFreePageInv, ScanPageInv, ScanRecordInv,
             UpdateCurrentInv, ScanCleanupInv, CloseScanInv DEF ThreadStep
<1>2. CASE UNCHANGED vars
  <2>1. UNCHANGED <<pages, disk, alloc, log, durable, free_pages, lock, xlatch, slatch, th, mode, redo, redone>>
    BY <1>2 DEF vars, store, latches
  <2>2. TypeInv' /\ HolderInv' /\ QuietInv' /\ Done' = Done
    BY <2>1 DEF IInv, TypeInv, HolderInv, QuietInv, Done
  <2>3. StoreInv' /\ AllocInv'
    BY <2>1, <2>2 DEF IInv, StoreInv, AllocInv
  <2>4. FreshInv' /\ KnownInv' /\ ScanInv'
    BY <2>1 DEF IInv, FreshInv, KnownInv, ScanInv
  <2> QED BY <2>2, <2>3, <2>4 DEF IInv
<1> QED BY <1>1, <1>2, EvictInv, CrashInv, ReplayInv, ReplayDoneInv DEF Next

-----------------------------------------------------------------------------
(***************************************************************************)
(* The theorems.                                                           *)
(***************************************************************************)
\* In use, and after any crash once the log is replayed, the pages hold exactly the records the
\* entries of the log put there, in the slots the entries name, and their headers count them; the
\* replay never fails.  replay_insert looks for a slot of its own and finds the one that was logged.
THEOREM AlwaysAsLogged == Spec => []RecordsAsLogged
<1>1. IInv => RecordsAsLogged
  BY AsLogged DEF IInv
<1> QED BY <1>1, InitInv, NextInv, PTL DEF Spec

\* insert_record never overlooks a page with room, but for pages the replay has changed: a page that
\* is not full is in free_pages_ or a thread is about to put it there.
THEOREM FreePagesAlwaysKnown == Spec => []FreePagesKnown
<1>1. IInv => FreePagesKnown
  BY FreeKnown DEF IInv
<1> QED BY <1>1, InitInv, NextInv, PTL DEF Spec

\* A scan that has reached the end has returned every record that was there when it was opened and
\* has not been deleted since, whatever the other threads insert, update and delete meanwhile.
THEOREM ScansAlwaysComplete == Spec => []ScanComplete
<1>1. IInv => ScanComplete
  BY ScanAll DEF IInv
<1> QED BY <1>1, InitInv, NextInv, PTL DEF Spec

\* insert_record takes lock_ with a page latched although its loop latches a page with lock_ held:
\* no two threads ever wait for each other.
THEOREM NeverWaitCycle == Spec => []NoWaitCycle
<1>1. IInv => NoWaitCycle
  BY NoCycle DEF IInv
<1> QED BY <1>1, InitInv, NextInv, PTL DEF Spec
=============================================================================
