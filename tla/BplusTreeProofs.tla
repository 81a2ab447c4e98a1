---------------------------- MODULE BplusTreeProofs ----------------------------
(***************************************************************************)
(* Proofs about BplusTreeNode, for nodes of any size and any keys: the     *)
(* searches in a node find the place of a key, and the changes of a node   *)
(* keep its items in order and lose none.                                  *)
(***************************************************************************)
EXTENDS BplusTreeNode, FiniteSetTheorems, SequenceTheorems, WellFoundedInduction, TLAPS

Key     == Int \X Int
ItemRec == [k : Key, v : Int]
Items   == Seq(ItemRec)
IsNode(n) ==
    /\ n = [leaf |-> n.leaf, items |-> n.items, parent |-> n.parent, next |-> n.next]
    /\ n.items \in Items

\* The keys from position "from" on are in order; an internal node has no use for its first key.
Ordered(s, from) == \A i, j \in from..Len(s) : i < j => KeyLess(s[i].k, s[j].k)

-----------------------------------------------------------------------------
(***************************************************************************)
(* KeyLess is a strict total order, and positions are counted by it.       *)
(***************************************************************************)
LEMMA KeyOrder ==
    ASSUME NEW a \in Key, NEW b \in Key, NEW c \in Key
    PROVE  /\ ~KeyLess(a, a)
           /\ KeyLess(a, b) /\ KeyLess(b, c) => KeyLess(a, c)
           /\ KeyLess(a, b) \/ KeyLess(b, a) \/ a = b
           /\ ~(KeyLess(a, b) /\ KeyLess(b, a))
  BY DEF KeyLess, Key

LEMMA LeastIs ==
    ASSUME NEW S \in SUBSET Nat, S # {}
    PROVE  \E m \in S : \A j \in S : m <= j
<1>1. PICK m \in S : \A y \in S : ~(<<y, m>> \in OpToRel(<, Nat))
  BY WFMin, NatLessThanWellFounded
<1>2. ASSUME NEW y \in S PROVE m <= y
  <2>1. ~(y < m)
    BY <1>1 DEF OpToRel
  <2> QED BY <2>1
<1> QED BY <1>2

LEMMA ItemsAre ==
    ASSUME NEW s \in Items
    PROVE  Len(s) \in Nat /\ \A i \in 1..Len(s) : s[i] \in ItemRec /\ s[i].k \in Key
<1>1. Len(s) \in Nat /\ \A i \in 1..Len(s) : s[i] \in ItemRec
  BY DEF Items
<1> QED BY <1>1 DEF ItemRec

\* Neighbours in order make all in order.
LEMMA OrderedIs ==
    ASSUME NEW n, IsNode(n), NEW from \in 1..2
    PROVE  Sorted(n, from) <=> Ordered(n.items, from)
<1>1. PICK s \in Items : s = n.items
  BY DEF IsNode
<1>2. Len(s) \in Nat /\ \A i \in 1..Len(s) : s[i] \in ItemRec /\ s[i].k \in Key
  BY ItemsAre
<1>3. Sorted(n, from) <=> \A i \in from..Len(s) - 1 : KeyLess(s[i].k, s[i + 1].k)
  BY <1>1, <1>2 DEF Sorted, KeyAt, Size
<1>4. ASSUME Ordered(s, from), NEW i \in from..Len(s) - 1 PROVE KeyLess(s[i].k, s[i + 1].k)
  BY <1>2, <1>4 DEF Ordered
<1>5. ASSUME \A i \in from..Len(s) - 1 : KeyLess(s[i].k, s[i + 1].k) PROVE Ordered(s, from)
  <2> SUFFICES ASSUME NEW i \in from..Len(s), NEW j0 \in from..Len(s), i < j0, ~KeyLess(s[i].k, s[j0].k)
               PROVE  FALSE
    BY DEF Ordered
  <2> DEFINE Bad == {j \in from..Len(s) : i < j /\ ~KeyLess(s[i].k, s[j].k)}
  <2>1. Bad \in SUBSET Nat /\ j0 \in Bad
    BY <1>2
  <2>2. PICK m \in Bad : \A j \in Bad : m <= j
    BY <2>1, LeastIs
  <2>3. m - 1 \in from..Len(s) - 1 /\ m \in 1..Len(s) /\ m - 1 \in 1..Len(s) /\ i \in 1..Len(s)
    BY <1>2, <2>2
  <2>4. KeyLess(s[m - 1].k, s[m].k)
    BY <1>2, <1>5, <2>3
  <2>5. CASE m - 1 = i
    BY <2>2, <2>4, <2>5
  <2>6. CASE m - 1 # i
    <3>1. m - 1 \notin Bad
      BY <1>2, <2>2, <2>3
    <3>2. KeyLess(s[i].k, s[m - 1].k)
      BY <2>2, <2>3, <2>6, <3>1
    <3>3. KeyLess(s[i].k, s[m].k)
      BY <1>2, <2>3, <2>4, <3>2, KeyOrder
    <3> QED BY <2>2, <3>3
  <2> QED BY <2>5, <2>6
<1> QED BY <1>1, <1>3, <1>4, <1>5

\* A part of a..b that goes down to a is counted up to its last member.
LEMMA CountPrefix ==
    ASSUME NEW a \in Nat, NEW b \in Nat, NEW S \in SUBSET (a..b),
           \A j \in S : \A i \in a..b : i < j => i \in S,
           a <= b + 1
    PROVE  /\ Cardinality(S) \in 0..(b + 1 - a)
           /\ S = a..(a + Cardinality(S) - 1)
<1> DEFINE Out == (a..(b + 1)) \ S
<1>1. Out \in SUBSET Nat /\ b + 1 \in Out
  OBVIOUS
<1>2. PICK m \in Out : \A j \in Out : m <= j
  BY <1>1, LeastIs
<1>3. m \in a..(b + 1) /\ m \notin S
  BY <1>2
<1>4. S = a..(m - 1)
  <2>1. ASSUME NEW i \in S PROVE i \in a..(m - 1)
    BY <1>3, <2>1
  <2>2. ASSUME NEW i \in a..(m - 1) PROVE i \in S
    BY <1>2, <1>3, <2>2
  <2> QED BY <2>1, <2>2
<1>5. Cardinality(S) = m - a
  <2>1. PICK e : e = m - 1
    OBVIOUS
  <2>2. e \in Int /\ S = a..e /\ a \in Int
    BY <1>3, <1>4, <2>1
  <2>3. Cardinality(a..e) = IF a > e THEN 0 ELSE e - a + 1
    BY <2>2, FS_Interval
  <2> QED BY <1>3, <2>1, <2>2, <2>3
<1> QED BY <1>3, <1>4, <1>5

-----------------------------------------------------------------------------
(***************************************************************************)
(* The searches.                                                           *)
(***************************************************************************)

\* The number of keys below k, from position "from" on, is where they end.
LEMMA CountBelow ==
    ASSUME NEW s \in Items, NEW from \in 1..2, Ordered(s, from), NEW k \in Key, from <= Len(s) + 1
    PROVE  LET c == Cardinality({i \in from..Len(s) : KeyLess(s[i].k, k)})
           IN  /\ c \in 0..(Len(s) + 1 - from)
               /\ \A i \in from..(from + c - 1) : KeyLess(s[i].k, k)
               /\ \A i \in (from + c)..Len(s) : ~KeyLess(s[i].k, k)
<1> DEFINE S == {i \in from..Len(s) : KeyLess(s[i].k, k)}
<1>1. Len(s) \in Nat /\ \A i \in 1..Len(s) : s[i].k \in Key
  BY ItemsAre
<1>2. ASSUME NEW j \in S, NEW i \in from..Len(s), i < j PROVE i \in S
  <2>1. KeyLess(s[i].k, s[j].k) /\ KeyLess(s[j].k, k)
    BY <1>2 DEF Ordered
  <2>2. i \in 1..Len(s) /\ j \in 1..Len(s)
    BY <1>1
  <2> QED BY <1>1, <2>1, <2>2, KeyOrder
<1>3. S \in SUBSET (from..Len(s))
  OBVIOUS
<1>4. PICK c : c = Cardinality(S)
  OBVIOUS
<1>5. c \in 0..(Len(s) + 1 - from) /\ S = from..(from + c - 1)
  <2>1. from \in Nat
    OBVIOUS
  <2> HIDE DEF S
  <2> QED BY <1>1, <1>2, <1>3, <1>4, <2>1, CountPrefix
<1>6. \A i \in from..(from + c - 1) : KeyLess(s[i].k, k)
  BY <1>5
<1>7. ASSUME NEW i \in (from + c)..Len(s) PROVE ~KeyLess(s[i].k, k)
  <2>1. i \in from..Len(s) /\ i \notin S
    BY <1>1, <1>5
  <2> QED BY <2>1
<1> QED BY <1>4, <1>5, <1>6, <1>7

\* lower_bound in a leaf: the keys before the position are smaller, the others are not, and a key
\* that is there is at the position (LeafIndexNodeHandler::lookup, which insert, delete and scan
\* start from).
THEOREM LeafLookupFinds ==
    ASSUME NEW n, IsNode(n), Sorted(n, 1), NEW k \in Key
    PROVE  LET i == LeafLookup(n, k)
           IN  /\ i \in 0..Size(n)
               /\ \A j \in 0..i - 1 : KeyLess(KeyAt(n, j), k)
               /\ \A j \in i..Size(n) - 1 : ~KeyLess(KeyAt(n, j), k)
               /\ Exists(n, k) <=> i < Size(n) /\ KeyAt(n, i) = k
<1>1. PICK s \in Items : s = n.items
  BY DEF IsNode
<1>2. Len(s) \in Nat /\ \A i \in 1..Len(s) : s[i].k \in Key
  BY ItemsAre
<1>3. Ordered(s, 1)
  BY <1>1, OrderedIs
<1>4. PICK c : c = Cardinality({i \in 1..Len(s) : KeyLess(s[i].k, k)})
  OBVIOUS
<1>5. /\ c \in 0..Len(s)
      /\ \A i \in 1..c : KeyLess(s[i].k, k)
      /\ \A i \in c + 1..Len(s) : ~KeyLess(s[i].k, k)
  <2>1. /\ c \in 0..(Len(s) + 1 - 1)
        /\ \A i \in 1..(1 + c - 1) : KeyLess(s[i].k, k)
        /\ \A i \in (1 + c)..Len(s) : ~KeyLess(s[i].k, k)
    BY <1>2, <1>3, <1>4, CountBelow
  <2> QED BY <1>2, <2>1
<1>6. LeafLookup(n, k) = c /\ Size(n) = Len(s)
  BY <1>1, <1>4 DEF LeafLookup, Size
<1>7. ASSUME NEW i \in 1..Len(s), s[i].k = k PROVE c < Len(s) /\ s[c + 1].k = k
  <2>1. ~KeyLess(s[i].k, k)
    BY <1>7, KeyOrder
  <2>2. c < i
    BY <1>2, <1>5, <2>1
  <2>3. c + 1 \in 1..Len(s) /\ c < Len(s)
    BY <1>2, <1>5, <2>2
  <2>4. CASE c + 1 = i
    BY <1>7, <2>3, <2>4
  <2>5. CASE c + 1 # i
    <3>1. KeyLess(s[c + 1].k, s[i].k)
      BY <1>2, <1>3, <1>5, <2>2, <2>3, <2>5 DEF Ordered
    <3>2. ~KeyLess(s[c + 1].k, k)
      BY <1>5, <2>3
    <3> QED BY <1>7, <3>1, <3>2
  <2> QED BY <2>4, <2>5
<1>8. Exists(n, k) <=> c < Len(s) /\ s[c + 1].k = k
  <2>1. Exists(n, k) <=> \E i \in 1..Len(s) : s[i].k = k
    BY <1>1 DEF Exists, Size
  <2>2. c < Len(s) => c + 1 \in 1..Len(s)
    BY <1>2, <1>5
  <2> QED BY <1>7, <2>1, <2>2
<1>9. \A j \in 0..c - 1 : KeyLess(KeyAt(n, j), k)
  BY <1>1, <1>2, <1>5 DEF KeyAt
<1>10. \A j \in c..Size(n) - 1 : ~KeyLess(KeyAt(n, j), k)
  BY <1>1, <1>2, <1>5, <1>6 DEF KeyAt
<1> QED BY <1>1, <1>5, <1>6, <1>8, <1>9, <1>10 DEF KeyAt

IsLeaf(n) == n.leaf

\* The range of keys below entry i of an internal node, as validate_node_recursive checks it.
InRangeOf(n, i, k) == /\ i # 0 => ~KeyLess(k, KeyAt(n, i))
                      /\ i < Size(n) - 1 => KeyLess(k, KeyAt(n, i + 1))

\* A key is in the range of one entry only.
LEMMA RangesApart ==
    ASSUME NEW n, IsNode(n), Sorted(n, 2), NEW k \in Key,
           NEW i \in 0..Size(n) - 1, NEW j \in 0..Size(n) - 1, InRangeOf(n, i, k), InRangeOf(n, j, k), i < j
    PROVE  FALSE
<1>1. PICK s \in Items : s = n.items
  BY DEF IsNode
<1>2. Len(s) \in Nat /\ (\A l \in 1..Len(s) : s[l].k \in Key) /\ Ordered(s, 2)
  BY <1>1, ItemsAre, OrderedIs
<1>3. i + 2 \in 2..Len(s) /\ j + 1 \in 2..Len(s) /\ i + 2 <= j + 1 /\ Size(n) = Len(s)
  BY <1>1, <1>2 DEF Size
<1>4. KeyLess(k, s[i + 2].k) /\ ~KeyLess(k, s[j + 1].k)
  BY <1>1, <1>2, <1>3 DEF InRangeOf, KeyAt
<1>5. CASE i + 2 = j + 1
  BY <1>4, <1>5
<1>6. CASE i + 2 # j + 1
  <2>1. KeyLess(s[i + 2].k, s[j + 1].k)
    BY <1>2, <1>3, <1>6 DEF Ordered
  <2>2. s[i + 2].k \in Key /\ s[j + 1].k \in Key
    BY <1>2, <1>3
  <2> QED BY <1>4, <2>1, <2>2, KeyOrder
<1> QED BY <1>5, <1>6

\* The search in an internal node goes to the one child whose range has the key, although it leaves
\* out the first key and steps back when the lower bound is behind the key
\* (InternalIndexNodeHandler::lookup, find_leaf).
THEOREM InternalLookupFinds ==
    ASSUME NEW n, IsNode(n), Sorted(n, 2), Size(n) >= 1, NEW k \in Key
    PROVE  LET c == InternalLookup(n, k)
           IN  /\ c \in 0..Size(n) - 1
               /\ InRangeOf(n, c, k)
               /\ \A d \in 0..Size(n) - 1 : InRangeOf(n, d, k) => d = c
<1>1. PICK s \in Items : s = n.items
  BY DEF IsNode
<1>2. Len(s) \in Nat /\ (\A l \in 1..Len(s) : s[l].k \in Key) /\ Ordered(s, 2)
  BY <1>1, ItemsAre, OrderedIs
<1>3. Size(n) = Len(s) /\ Len(s) >= 1
  BY <1>1 DEF Size
<1>4. PICK m : m = Cardinality({i \in 2..Len(s) : KeyLess(s[i].k, k)})
  OBVIOUS
<1>5. /\ m \in 0..Len(s) - 1
      /\ \A i \in 2..m + 1 : KeyLess(s[i].k, k)
      /\ \A i \in m + 2..Len(s) : ~KeyLess(s[i].k, k)
  <2>1. /\ m \in 0..(Len(s) + 1 - 2)
        /\ \A i \in 2..(2 + m - 1) : KeyLess(s[i].k, k)
        /\ \A i \in (2 + m)..Len(s) : ~KeyLess(s[i].k, k)
    <3>1. 2 \in 1..2 /\ 2 <= Len(s) + 1
      BY <1>2, <1>3
    <3> QED BY <1>2, <1>4, <3>1, CountBelow
  <2>2. Len(s) + 1 - 2 = Len(s) - 1 /\ 2 + m - 1 = m + 1 /\ 2 + m = m + 2
    BY <1>2, <1>3, <2>1
  <2> QED BY <2>1, <2>2
<1>6. PICK r : r = InsertPosition(n, k)
  OBVIOUS
<1>7. r = m + 1
  <2>1. InsertPosition(n, k) = 1 + Cardinality({i \in 2..Len(s) : KeyLess(s[i].k, k)})
    BY <1>1 DEF InsertPosition, Size
  <2> QED BY <1>4, <1>5, <1>6, <2>1
<1>8. PICK c : c = InternalLookup(n, k)
  OBVIOUS
<1>9. c = IF r >= Len(s) \/ KeyLess(k, s[r + 1].k) THEN r - 1 ELSE r
  BY <1>1, <1>3, <1>6, <1>8 DEF InternalLookup, KeyAt, Size
<1>10. c \in 0..Len(s) - 1 /\ InRangeOf(n, c, k)
  <2>1. CASE r >= Len(s) \/ KeyLess(k, s[r + 1].k)
    <3>1. c = m /\ m \in 0..Len(s) - 1
      BY <1>5, <1>7, <1>9, <2>1
    <3>2. ASSUME c # 0 PROVE ~KeyLess(k, s[c + 1].k)
      <4>1. c + 1 \in 2..m + 1 /\ c + 1 \in 1..Len(s)
        BY <1>2, <3>1, <3>2
      <4>2. KeyLess(s[c + 1].k, k) /\ s[c + 1].k \in Key
        BY <1>2, <1>5, <4>1
      <4> QED BY <4>2, KeyOrder
    <3>3. ASSUME c < Len(s) - 1 PROVE KeyLess(k, s[c + 2].k)
      BY <1>2, <1>7, <2>1, <3>1, <3>3
    <3>4. c + 1 + 1 = c + 2
      BY <3>1
    <3> QED BY <1>1, <1>3, <3>1, <3>2, <3>3, <3>4 DEF InRangeOf, KeyAt
  <2>2. CASE ~(r >= Len(s) \/ KeyLess(k, s[r + 1].k))
    <3>1. c = m + 1 /\ c \in 1..Len(s) - 1
      BY <1>2, <1>5, <1>7, <1>9, <2>2
    <3>2. c + 1 \in m + 2..Len(s) /\ c + 1 \in 2..Len(s)
      BY <1>2, <1>5, <3>1
    <3>3. ~KeyLess(s[c + 1].k, k) /\ ~KeyLess(k, s[c + 1].k) /\ s[c + 1].k \in Key
      BY <1>2, <1>5, <1>7, <2>2, <3>1, <3>2
    <3>4. s[c + 1].k = k
      BY <3>3, KeyOrder
    <3>5. ASSUME c < Len(s) - 1 PROVE KeyLess(k, s[c + 2].k)
      <4>1. c + 2 \in 2..Len(s)
        BY <1>2, <3>1, <3>5
      <4> QED BY <1>2, <3>1, <3>2, <3>4, <4>1 DEF Ordered
    <3>6. c + 1 + 1 = c + 2
      BY <3>1
    <3> QED BY <1>1, <1>3, <3>1, <3>3, <3>5, <3>6 DEF InRangeOf, KeyAt
  <2> QED BY <2>1, <2>2
<1>11. ASSUME NEW d \in 0..Size(n) - 1, InRangeOf(n, d, k) PROVE d = c
  <2>1. c \in 0..Size(n) - 1
    BY <1>3, <1>10
  <2>2. ~(d < c) /\ ~(c < d)
    BY <1>10, <1>11, <2>1, RangesApart
  <2> QED BY <1>2, <1>3, <2>1, <2>2
<1> QED BY <1>3, <1>8, <1>10, <1>11

\* A node is found in its parent by its last key (coalesce_or_redistribute): where validate_node
\* accepts the place of p in its parent, the search there returns that place.  "first" is 0 for a
\* leaf and 1 for an internal node, whose first key does not count.
THEOREM IndexInParentFinds ==
    ASSUME NEW pg, NEW p, NEW first \in 0..1,
           IsNode(pg[p]), Size(pg[p]) >= first + 1, Sorted(pg[p], first + 1),
           IsNode(pg[pg[p].parent]), Sorted(pg[pg[p].parent], 2),
           ValidInParent(pg, p, first)
    PROVE  /\ IndexInParent(pg, p) \in 0..Size(pg[pg[p].parent]) - 1
           /\ ValueAt(pg[pg[p].parent], IndexInParent(pg, p)) = p
<1>1. PICK n : n = pg[p]
  OBVIOUS
<1>2. PICK parent : parent = pg[pg[p].parent]
  OBVIOUS
<1>3. PICK s \in Items : s = n.items
  BY <1>1 DEF IsNode
<1>4. Len(s) \in Nat /\ (\A l \in 1..Len(s) : s[l].k \in Key) /\ Size(n) = Len(s)
  BY <1>3, ItemsAre DEF Size
<1>5. Ordered(s, first + 1)
  <2>1. first + 1 \in 1..2 /\ IsNode(n) /\ Sorted(n, first + 1)
    BY <1>1
  <2> QED BY <1>3, <2>1, OrderedIs
<1>6. Size(parent) \in Nat /\ IsNode(parent) /\ Sorted(parent, 2)
  <2>1. IsNode(parent) /\ Sorted(parent, 2)
    BY <1>2
  <2> QED BY <2>1 DEF IsNode, Size, Items
<1>7. PICK k : k = s[Len(s)].k
  OBVIOUS
<1>8. k \in Key /\ KeyAt(n, Size(n) - 1) = k /\ KeyAt(n, first) = s[first + 1].k
  BY <1>1, <1>3, <1>4, <1>7 DEF KeyAt
<1>9. ~KeyLess(k, s[first + 1].k)
  <2>1. first + 1 \in 1..Len(s) /\ Len(s) \in 1..Len(s)
    BY <1>1, <1>4
  <2>2. CASE first + 1 = Len(s)
    BY <1>7, <1>8, <2>2, KeyOrder
  <2>3. CASE first + 1 # Len(s)
    <3>1. KeyLess(s[first + 1].k, k)
      BY <1>4, <1>5, <1>7, <2>1, <2>3 DEF Ordered
    <3> QED BY <1>4, <1>8, <2>1, <3>1, KeyOrder
  <2> QED BY <2>2, <2>3
<1>10. PICK i \in 0..Size(parent) - 1 :
         /\ ValueAt(parent, i) = p
         /\ i # 0 => ~KeyLess(KeyAt(n, first), KeyAt(parent, i))
         /\ i < Size(parent) - 1 => KeyLess(KeyAt(n, Size(n) - 1), KeyAt(parent, i + 1))
  BY <1>1, <1>2 DEF ValidInParent
<1>11. InRangeOf(parent, i, k)
  <2>1. ASSUME i # 0 PROVE ~KeyLess(k, KeyAt(parent, i))
    <3>1. KeyAt(parent, i) \in Key
      <4>1. PICK t \in Items : t = parent.items
        BY <1>6 DEF IsNode
      <4>2. \A l \in 1..Len(t) : t[l].k \in Key
        BY <4>1, ItemsAre
      <4>3. i + 1 \in 1..Len(t)
        BY <1>6, <4>1 DEF Size
      <4> QED BY <4>1, <4>2, <4>3 DEF KeyAt
    <3>2. s[first + 1].k \in Key /\ ~KeyLess(s[first + 1].k, KeyAt(parent, i))
      BY <1>1, <1>4, <1>8, <1>10, <2>1
    <3> QED BY <1>8, <1>9, <3>1, <3>2, KeyOrder
  <2> QED BY <1>8, <1>10, <2>1 DEF InRangeOf
<1>12. PICK c : c = InternalLookup(parent, k)
  OBVIOUS
<1>13. c \in 0..Size(parent) - 1 /\ c = i
  <2>1. Size(parent) >= 1
    BY <1>6, <1>10
  <2> QED BY <1>6, <1>8, <1>11, <1>12, <2>1, InternalLookupFinds
<1>14. IndexInParent(pg, p) = c
  BY <1>1, <1>2, <1>8, <1>12 DEF IndexInParent
<1> QED BY <1>2, <1>10, <1>13, <1>14

-----------------------------------------------------------------------------
(***************************************************************************)
(* Insertion and removal of items, at any position.                        *)
(***************************************************************************)
LEMMA PartIs ==
    ASSUME NEW s \in Items, NEW a \in 1..Len(s) + 1, NEW b \in 0..Len(s), a <= b + 1
    PROVE  /\ SubSeq(s, a, b) \in Items
           /\ Len(SubSeq(s, a, b)) = b + 1 - a
           /\ \A i \in 1..b + 1 - a : SubSeq(s, a, b)[i] = s[a + i - 1]
<1>1. Len(s) \in Nat /\ \A i \in 1..Len(s) : s[i] \in ItemRec
  BY ItemsAre
<1> QED BY <1>1 DEF Items

LEMMA JoinIs ==
    ASSUME NEW s \in Items, NEW t \in Items
    PROVE  /\ s \o t \in Items
           /\ Len(s \o t) = Len(s) + Len(t)
           /\ \A i \in 1..Len(s) + Len(t) : (s \o t)[i] = IF i <= Len(s) THEN s[i] ELSE t[i - Len(s)]
  BY DEF Items

LEMMA SameItems ==
    ASSUME NEW s \in Items, NEW t \in Items, Len(s) = Len(t), \A i \in 1..Len(s) : s[i] = t[i]
    PROVE  s = t
  BY DEF Items

LEMMA InsertedAre ==
    ASSUME NEW s \in Items, NEW i \in 0..Len(s), NEW w \in Items
    PROVE  /\ InsertItems(s, i, w) \in Items
           /\ Len(InsertItems(s, i, w)) = Len(s) + Len(w)
           /\ \A j \in 1..Len(s) + Len(w) :
                InsertItems(s, i, w)[j] = IF j <= i THEN s[j]
                                          ELSE IF j <= i + Len(w) THEN w[j - i] ELSE s[j - Len(w)]
<1>1. Len(s) \in Nat /\ Len(w) \in Nat
  BY ItemsAre
<1>2. PICK a : a = SubSeq(s, 1, i)
  OBVIOUS
<1>3. a \in Items /\ Len(a) = i /\ \A j \in 1..i : a[j] = s[j]
  <2>1. 1 \in 1..Len(s) + 1 /\ 1 <= i + 1
    BY <1>1
  <2>2. a \in Items /\ Len(a) = i + 1 - 1 /\ \A j \in 1..i + 1 - 1 : a[j] = s[1 + j - 1]
    BY <1>2, <2>1, PartIs
  <2> QED BY <2>2
<1>4. PICK c : c = SubSeq(s, i + 1, Len(s))
  OBVIOUS
<1>5. c \in Items /\ Len(c) = Len(s) - i /\ \A j \in 1..Len(s) - i : c[j] = s[i + j]
  <2>1. i + 1 \in 1..Len(s) + 1 /\ i + 1 <= Len(s) + 1 /\ Len(s) \in 0..Len(s)
    BY <1>1
  <2>2. c \in Items /\ Len(c) = Len(s) + 1 - (i + 1) /\ \A j \in 1..Len(s) + 1 - (i + 1) : c[j] = s[i + 1 + j - 1]
    BY <1>4, <2>1, PartIs
  <2> QED BY <1>1, <2>2
<1>6. PICK b : b = a \o w
  OBVIOUS
<1>7. b \in Items /\ Len(b) = i + Len(w) /\ \A j \in 1..i + Len(w) : b[j] = IF j <= i THEN a[j] ELSE w[j - i]
  BY <1>3, <1>6, JoinIs
<1>8. PICK d : d = b \o c
  OBVIOUS
<1>9. /\ d \in Items
      /\ Len(d) = i + Len(w) + (Len(s) - i)
      /\ \A j \in 1..i + Len(w) + (Len(s) - i) : d[j] = IF j <= i + Len(w) THEN b[j] ELSE c[j - (i + Len(w))]
  <2>1. b \in Items /\ c \in Items /\ Len(b) = i + Len(w) /\ Len(c) = Len(s) - i
    BY <1>5, <1>7
  <2>2. /\ b \o c \in Items
        /\ Len(b \o c) = Len(b) + Len(c)
        /\ \A j \in 1..Len(b) + Len(c) : (b \o c)[j] = IF j <= Len(b) THEN b[j] ELSE c[j - Len(b)]
    BY <2>1, JoinIs
  <2> QED BY <1>8, <2>1, <2>2
<1>10. InsertItems(s, i, w) = d
  BY <1>2, <1>4, <1>6, <1>8 DEF InsertItems
<1>11. ASSUME NEW j \in 1..Len(s) + Len(w)
       PROVE  d[j] = IF j <= i THEN s[j] ELSE IF j <= i + Len(w) THEN w[j - i] ELSE s[j - Len(w)]
  <2>1. CASE j <= i
    BY <1>1, <1>3, <1>7, <1>9, <2>1
  <2>2. CASE i < j /\ j <= i + Len(w)
    <3>1. j \in 1..i + Len(w) /\ j \in 1..i + Len(w) + (Len(s) - i)
      BY <1>1, <2>2
    <3>2. d[j] = b[j]
      BY <1>9, <2>2, <3>1
    <3>3. b[j] = w[j - i]
      BY <1>7, <2>2, <3>1
    <3> QED BY <2>2, <3>2, <3>3
  <2>3. CASE j > i + Len(w)
    <3>1. j - (i + Len(w)) \in 1..Len(s) - i /\ i + (j - (i + Len(w))) = j - Len(w)
      BY <1>1, <2>3
    <3>2. d[j] = c[j - (i + Len(w))]
      BY <1>1, <1>9, <2>3
    <3>3. c[j - (i + Len(w))] = s[j - Len(w)]
      BY <1>5, <3>1
    <3> QED BY <1>1, <2>3, <3>2, <3>3
  <2> QED BY <1>1, <2>1, <2>2, <2>3
<1>12. Len(d) = Len(s) + Len(w)
  BY <1>1, <1>9
<1> QED BY <1>9, <1>10, <1>11, <1>12

LEMMA InsertedLen ==
    ASSUME NEW s \in Items, NEW i \in 0..Len(s), NEW w \in Items
    PROVE  Len(InsertItems(s, i, w)) = Len(s) + Len(w)
  BY InsertedAre

LEMMA RemovedAre ==
    ASSUME NEW s \in Items, NEW i \in 0..Len(s), NEW num \in 0..Len(s) - i
    PROVE  /\ RemoveItems(s, i, num) \in Items
           /\ Len(RemoveItems(s, i, num)) = Len(s) - num
           /\ \A j \in 1..Len(s) - num : RemoveItems(s, i, num)[j] = IF j <= i THEN s[j] ELSE s[j + num]
<1>1. Len(s) \in Nat
  BY ItemsAre
<1>2. PICK a : a = SubSeq(s, 1, i)
  OBVIOUS
<1>3. a \in Items /\ Len(a) = i /\ \A j \in 1..i : a[j] = s[j]
  <2>1. 1 \in 1..Len(s) + 1 /\ 1 <= i + 1
    BY <1>1
  <2>2. a \in Items /\ Len(a) = i + 1 - 1 /\ \A j \in 1..i + 1 - 1 : a[j] = s[1 + j - 1]
    BY <1>2, <2>1, PartIs
  <2> QED BY <2>2
<1>4. PICK c : c = SubSeq(s, i + num + 1, Len(s))
  OBVIOUS
<1>5. c \in Items /\ Len(c) = Len(s) - i - num /\ \A j \in 1..Len(s) - i - num : c[j] = s[i + num + j]
  <2>1. i + num + 1 \in 1..Len(s) + 1 /\ i + num + 1 <= Len(s) + 1 /\ Len(s) \in 0..Len(s)
    BY <1>1
  <2>2. /\ c \in Items
        /\ Len(c) = Len(s) + 1 - (i + num + 1)
        /\ \A j \in 1..Len(s) + 1 - (i + num + 1) : c[j] = s[i + num + 1 + j - 1]
    BY <1>4, <2>1, PartIs
  <2> QED BY <1>1, <2>2
<1>6. PICK d : d = a \o c
  OBVIOUS
<1>7. /\ d \in Items
      /\ Len(d) = i + (Len(s) - i - num)
      /\ \A j \in 1..i + (Len(s) - i - num) : d[j] = IF j <= i THEN a[j] ELSE c[j - i]
  BY <1>3, <1>5, <1>6, JoinIs
<1>8. RemoveItems(s, i, num) = d
  BY <1>2, <1>4, <1>6 DEF RemoveItems
<1>9. ASSUME NEW j \in 1..Len(s) - num PROVE d[j] = IF j <= i THEN s[j] ELSE s[j + num]
  <2>1. CASE j <= i
    BY <1>1, <1>3, <1>7, <2>1
  <2>2. CASE j > i
    <3>1. j - i \in 1..Len(s) - i - num /\ i + num + (j - i) = j + num
      BY <1>1, <2>2
    <3>2. d[j] = c[j - i] /\ c[j - i] = s[i + num + (j - i)]
      BY <1>1, <1>5, <1>7, <2>2, <3>1
    <3> QED BY <2>2, <3>1, <3>2
  <2> QED BY <1>1, <2>1, <2>2
<1> QED BY <1>1, <1>7, <1>8, <1>9

\* r is s with w at the position i, and s without num items at the position i.
IsInserted(r, s, i, w) ==
    /\ r \in Items /\ Len(r) = Len(s) + Len(w)
    /\ \A j \in 1..Len(s) + Len(w) :
         r[j] = IF j <= i THEN s[j] ELSE IF j <= i + Len(w) THEN w[j - i] ELSE s[j - Len(w)]
IsRemoved(r, s, i, num) ==
    /\ r \in Items /\ Len(r) = Len(s) - num
    /\ \A j \in 1..Len(s) - num : r[j] = IF j <= i THEN s[j] ELSE s[j + num]

LEMMA InsertedIs ==
    ASSUME NEW s \in Items, NEW i \in 0..Len(s), NEW w \in Items
    PROVE  IsInserted(InsertItems(s, i, w), s, i, w)
  BY InsertedAre DEF IsInserted

LEMMA RemovedIs ==
    ASSUME NEW s \in Items, NEW i \in 0..Len(s), NEW num \in 0..Len(s) - i
    PROVE  IsRemoved(RemoveItems(s, i, num), s, i, num)
  BY RemovedAre DEF IsRemoved

\* One item put behind smaller keys and before larger ones.
LEMMA OrderedInsert ==
    ASSUME NEW s \in Items, NEW from \in 1..2, Ordered(s, from), NEW item \in ItemRec,
           NEW i \in from - 1..Len(s),
           \A j \in from..i : KeyLess(s[j].k, item.k),
           \A j \in i + 1..Len(s) : KeyLess(item.k, s[j].k)
    PROVE  Ordered(InsertItems(s, i, <<item>>), from)
<1>1. Len(s) \in Nat
  BY ItemsAre
<1>2. PICK r : r = InsertItems(s, i, <<item>>)
  OBVIOUS
<1>3. /\ r \in Items
      /\ Len(r) = Len(s) + 1
      /\ \A j \in 1..Len(s) + 1 : r[j] = IF j <= i THEN s[j] ELSE IF j = i + 1 THEN item ELSE s[j - 1]
  <2>1. i \in 0..Len(s)
    BY <1>1
  <2>2. PICK w : w = <<item>>
    OBVIOUS
  <2>3. w \in Items /\ Len(w) = 1 /\ w[1] = item
    BY <2>2 DEF Items
  <2>4. /\ r \in Items
        /\ Len(r) = Len(s) + Len(w)
        /\ \A j \in 1..Len(s) + Len(w) :
             r[j] = IF j <= i THEN s[j] ELSE IF j <= i + Len(w) THEN w[j - i] ELSE s[j - Len(w)]
    <3>1. IsInserted(r, s, i, w)
      BY <1>2, <2>1, <2>2, <2>3, InsertedIs
    <3> QED BY <3>1 DEF IsInserted
  <2>5. ASSUME NEW j \in 1..Len(s) + 1
        PROVE  r[j] = IF j <= i THEN s[j] ELSE IF j = i + 1 THEN item ELSE s[j - 1]
    <3>1. r[j] = IF j <= i THEN s[j] ELSE IF j <= i + 1 THEN w[j - i] ELSE s[j - 1]
      BY <1>1, <2>3, <2>4
    <3>2. ~(j <= i) /\ j <= i + 1 => j = i + 1 /\ j - i = 1
      BY <1>1
    <3> QED BY <1>1, <2>3, <3>1, <3>2
  <2> QED BY <2>3, <2>4, <2>5
<1>4. ASSUME NEW a \in from..Len(r), NEW b \in from..Len(r), a < b PROVE KeyLess(r[a].k, r[b].k)
  <2>0. from \in 1..2 /\ i \in from - 1..Len(s) /\ a \in from..Len(s) + 1 /\ b \in from..Len(s) + 1
    BY <1>3
  <2>1. CASE b <= i
    <3>1. r[a] = s[a] /\ r[b] = s[b] /\ a \in from..Len(s) /\ b \in from..Len(s)
      BY <1>1, <1>3, <1>4, <2>0, <2>1
    <3> QED BY <1>4, <3>1 DEF Ordered
  <2>2. CASE b = i + 1
    <3>1. r[a] = s[a] /\ r[b] = item /\ a \in from..i
      BY <1>1, <1>3, <1>4, <2>0, <2>2
    <3> QED BY <3>1
  <2>3. CASE b > i + 1 /\ a = i + 1
    <3>1. r[a] = item /\ r[b] = s[b - 1] /\ b - 1 \in i + 1..Len(s)
      BY <1>1, <1>3, <1>4, <2>0, <2>3
    <3> QED BY <3>1
  <2>4. CASE b > i + 1 /\ a <= i
    <3>1. r[a] = s[a] /\ r[b] = s[b - 1] /\ a \in from..Len(s) /\ b - 1 \in from..Len(s) /\ a < b - 1
      BY <1>1, <1>3, <1>4, <2>0, <2>4
    <3> QED BY <3>1 DEF Ordered
  <2>5. CASE a > i + 1
    <3>1. r[a] = s[a - 1] /\ r[b] = s[b - 1] /\ a - 1 \in from..Len(s) /\ b - 1 \in from..Len(s) /\ a - 1 < b - 1
      BY <1>1, <1>3, <1>4, <2>0, <2>5
    <3> QED BY <3>1 DEF Ordered
  <2> QED BY <1>4, <2>0, <2>1, <2>2, <2>3, <2>4, <2>5
<1> QED BY <1>2, <1>4 DEF Ordered

LEMMA OrderedRemove ==
    ASSUME NEW s \in Items, NEW from \in 1..2, Ordered(s, from), NEW i \in 0..Len(s) - 1
    PROVE  Ordered(RemoveItems(s, i, 1), from)
<1>1. Len(s) \in Nat
  BY ItemsAre
<1>2. PICK r : r = RemoveItems(s, i, 1)
  OBVIOUS
<1>3. Len(r) = Len(s) - 1 /\ \A j \in 1..Len(s) - 1 : r[j] = IF j <= i THEN s[j] ELSE s[j + 1]
  <2>1. i \in 0..Len(s) /\ 1 \in 0..Len(s) - i
    BY <1>1
  <2> QED BY <1>2, <2>1, RemovedAre
<1>4. ASSUME NEW a \in from..Len(r), NEW b \in from..Len(r), a < b PROVE KeyLess(r[a].k, r[b].k)
  <2>1. PICK c \in from..Len(s) : r[a] = s[c] /\ c = IF a <= i THEN a ELSE a + 1
    BY <1>1, <1>3
  <2>2. PICK d \in from..Len(s) : r[b] = s[d] /\ d = IF b <= i THEN b ELSE b + 1
    BY <1>1, <1>3
  <2>3. c < d
    BY <1>1, <1>4, <2>1, <2>2
  <2> QED BY <2>1, <2>2, <2>3 DEF Ordered
<1> QED BY <1>2, <1>4 DEF Ordered

LEMMA InsertedSet ==
    ASSUME NEW s \in Items, NEW i \in 0..Len(s), NEW w \in Items
    PROVE  ToSet(InsertItems(s, i, w)) = ToSet(s) \cup ToSet(w)
<1>1. Len(s) \in Nat /\ Len(w) \in Nat /\ DOMAIN s = 1..Len(s) /\ DOMAIN w = 1..Len(w)
  BY ItemsAre DEF Items
<1>2. PICK r : r = InsertItems(s, i, w)
  OBVIOUS
<1>3. /\ r \in Items /\ Len(r) = Len(s) + Len(w)
      /\ \A j \in 1..Len(s) + Len(w) :
           r[j] = IF j <= i THEN s[j] ELSE IF j <= i + Len(w) THEN w[j - i] ELSE s[j - Len(w)]
  BY <1>2, InsertedAre
<1>4. DOMAIN r = 1..Len(s) + Len(w)
  BY <1>3 DEF Items
<1>5. ASSUME NEW j \in 1..Len(s) PROVE s[j] \in ToSet(r)
  <2>1. CASE j <= i
    <3>1. j \in 1..Len(s) + Len(w) /\ r[j] = s[j]
      BY <1>1, <1>3, <2>1
    <3> QED BY <1>4, <3>1 DEF ToSet
  <2>2. CASE j > i
    <3>1. j + Len(w) \in 1..Len(s) + Len(w) /\ ~(j + Len(w) <= i + Len(w)) /\ ~(j + Len(w) <= i)
      BY <1>1, <2>2
    <3>2. r[j + Len(w)] = s[j + Len(w) - Len(w)]
      BY <1>3, <3>1
    <3>3. r[j + Len(w)] = s[j]
      BY <1>1, <3>2
    <3> QED BY <1>4, <3>1, <3>3 DEF ToSet
  <2> QED BY <1>1, <2>1, <2>2
<1>6. ASSUME NEW j \in 1..Len(w) PROVE w[j] \in ToSet(r)
  <2>1. j + i \in 1..Len(s) + Len(w) /\ ~(j + i <= i) /\ j + i <= i + Len(w)
    BY <1>1
  <2>2. r[j + i] = w[j + i - i]
    BY <1>3, <2>1
  <2>3. r[j + i] = w[j]
    BY <1>1, <2>2
  <2> QED BY <1>4, <2>1, <2>3 DEF ToSet
<1>7. ASSUME NEW j \in 1..Len(s) + Len(w) PROVE r[j] \in ToSet(s) \cup ToSet(w)
  <2>1. CASE j <= i
    <3>1. j \in 1..Len(s) /\ r[j] = s[j]
      BY <1>1, <1>3, <2>1
    <3> QED BY <1>1, <3>1 DEF ToSet
  <2>2. CASE i < j /\ j <= i + Len(w)
    <3>1. j - i \in 1..Len(w) /\ r[j] = w[j - i]
      BY <1>1, <1>3, <2>2
    <3> QED BY <1>1, <3>1 DEF ToSet
  <2>3. CASE j > i + Len(w)
    <3>1. j - Len(w) \in 1..Len(s)
      BY <1>1, <2>3
    <3>2. ~(j <= i) /\ ~(j <= i + Len(w))
      BY <1>1, <2>3
    <3>3. r[j] = s[j - Len(w)]
      BY <1>3, <3>2
    <3> QED BY <1>1, <3>1, <3>3 DEF ToSet
  <2> QED BY <1>1, <2>1, <2>2, <2>3
<1>8. \A x \in ToSet(r) : x \in ToSet(s) \cup ToSet(w)
  BY <1>4, <1>7 DEF ToSet
<1>9. \A x \in ToSet(s) \cup ToSet(w) : x \in ToSet(r)
  BY <1>1, <1>5, <1>6 DEF ToSet
<1> QED BY <1>2, <1>8, <1>9

-----------------------------------------------------------------------------
(***************************************************************************)
(* The logged operations, one at a time.                                   *)
(***************************************************************************)
LEMMA InsertDoes ==
    ASSUME NEW n, IsNode(n), NEW p, NEW i \in 0..Size(n), NEW w \in Items
    PROVE  LET m == ApplyTo(n, NodeInsert(p, i, w))
           IN  /\ IsNode(m) /\ m.items = InsertItems(n.items, i, w)
               /\ m.leaf = n.leaf /\ m.parent = n.parent /\ m.next = n.next
<1>1. PICK r : r = InsertItems(n.items, i, w)
  OBVIOUS
<1>2. r \in Items
  BY <1>1, InsertedAre DEF IsNode, Size
<1>3. PICK o : o = NodeInsert(p, i, w)
  OBVIOUS
<1>4. o.t = "insert" /\ o.i = i /\ o.items = w
  BY <1>3 DEF NodeInsert
<1>5. ApplyTo(n, o) = [n EXCEPT !.items = r]
  BY <1>1, <1>4 DEF ApplyTo
<1> QED BY <1>1, <1>2, <1>3, <1>5 DEF IsNode

LEMMA RemoveDoes ==
    ASSUME NEW n, IsNode(n), NEW p, NEW i \in 0..Size(n), NEW w \in Items, Len(w) \in 0..Size(n) - i
    PROVE  LET m == ApplyTo(n, NodeRemove(p, i, w))
           IN  /\ IsNode(m) /\ m.items = RemoveItems(n.items, i, Len(w))
               /\ m.leaf = n.leaf /\ m.parent = n.parent /\ m.next = n.next
<1>1. PICK r : r = RemoveItems(n.items, i, Len(w))
  OBVIOUS
<1>2. r \in Items
  BY <1>1, RemovedAre DEF IsNode, Size
<1>3. PICK o : o = NodeRemove(p, i, w)
  OBVIOUS
<1>4. o.t = "remove" /\ o.i = i /\ o.items = w
  BY <1>3 DEF NodeRemove
<1>5. ApplyTo(n, o) = [n EXCEPT !.items = r]
  BY <1>1, <1>4 DEF ApplyTo
<1> QED BY <1>1, <1>2, <1>3, <1>5 DEF IsNode

\* An entry that is put into a leaf where the search ends keeps the leaf in order, and is all that
\* changes in it (insert_entry_into_leaf_node, with room in the leaf).
THEOREM LeafInsertKeepsOrder ==
    ASSUME NEW n, IsNode(n), Sorted(n, 1), NEW p, NEW item \in ItemRec, ~Exists(n, item.k)
    PROVE  LET m == ApplyTo(n, NodeInsert(p, LeafLookup(n, item.k), <<item>>))
           IN  /\ IsNode(m) /\ Sorted(m, 1) /\ Size(m) = Size(n) + 1
               /\ ToSet(m.items) = ToSet(n.items) \cup {item}
<1>1. PICK s \in Items : s = n.items
  BY DEF IsNode
<1>2. Len(s) \in Nat /\ (\A j \in 1..Len(s) : s[j].k \in Key) /\ Size(n) = Len(s) /\ Ordered(s, 1)
  BY <1>1, ItemsAre, OrderedIs DEF Size
<1>3. item.k \in Key
  BY DEF ItemRec
<1>4. PICK i : i = LeafLookup(n, item.k)
  OBVIOUS
<1>5. /\ i \in 0..Len(s)
      /\ \A j \in 0..i - 1 : KeyLess(KeyAt(n, j), item.k)
      /\ \A j \in i..Size(n) - 1 : ~KeyLess(KeyAt(n, j), item.k)
  BY <1>2, <1>3, <1>4, LeafLookupFinds
<1>6. \A j \in 1..i : KeyLess(s[j].k, item.k)
  <2> TAKE j \in 1..i
  <2>1. j - 1 \in 0..i - 1 /\ j - 1 + 1 = j
    BY <1>5
  <2> QED BY <1>1, <1>5, <2>1 DEF KeyAt
<1>7. \A j \in i + 1..Len(s) : KeyLess(item.k, s[j].k)
  <2> TAKE j \in i + 1..Len(s)
  <2>1. j - 1 \in i..Size(n) - 1 /\ j - 1 + 1 = j /\ j \in 1..Len(s)
    BY <1>2, <1>5
  <2>2. ~KeyLess(s[j].k, item.k)
    BY <1>1, <1>5, <2>1 DEF KeyAt
  <2>3. s[j].k # item.k
    BY <1>1, <2>1 DEF Exists, Size
  <2> QED BY <1>2, <1>3, <2>1, <2>2, <2>3, KeyOrder
<1>8. PICK w : w = <<item>>
  OBVIOUS
<1>9. w \in Items /\ Len(w) = 1 /\ ToSet(w) = {item}
  BY <1>8 DEF Items, ToSet
<1>10. PICK m : m = ApplyTo(n, NodeInsert(p, i, w))
  OBVIOUS
<1>11. IsNode(m) /\ m.items = InsertItems(s, i, w)
  <2>1. i \in 0..Size(n)
    BY <1>2, <1>5
  <2> QED BY <1>1, <1>9, <1>10, <2>1, InsertDoes
<1>12. Ordered(m.items, 1)
  <2>1. 1 \in 1..2 /\ i \in 1 - 1..Len(s)
    BY <1>5
  <2>2. Ordered(InsertItems(s, i, <<item>>), 1)
    BY <1>2, <1>6, <1>7, <2>1, OrderedInsert
  <2> QED BY <1>8, <1>11, <2>2
<1>13. ToSet(m.items) = ToSet(s) \cup {item} /\ Len(m.items) = Len(s) + 1
  <2>1. ToSet(InsertItems(s, i, w)) = ToSet(s) \cup ToSet(w)
    BY <1>5, <1>9, InsertedSet
  <2>2. Len(InsertItems(s, i, w)) = Len(s) + Len(w)
    BY <1>5, <1>9, InsertedAre
  <2> QED BY <1>9, <1>11, <2>1, <2>2
<1>14. Sorted(m, 1) /\ Size(m) = Size(n) + 1
  <2>1. 1 \in 1..2
    OBVIOUS
  <2>2. Sorted(m, 1)
    BY <1>11, <1>12, <2>1, OrderedIs
  <2> QED BY <1>2, <1>13, <2>2 DEF Size
<1> QED BY <1>1, <1>4, <1>8, <1>10, <1>11, <1>13, <1>14

\* Taking out the entry that the search finds keeps the leaf in order and removes that key only
\* (delete_entry_internal on the leaf).
THEOREM LeafRemoveKeepsOrder ==
    ASSUME NEW n, IsNode(n), Sorted(n, 1), NEW p, NEW k \in Key, Exists(n, k)
    PROVE  LET i == LeafLookup(n, k)
               m == ApplyTo(n, NodeRemove(p, i, <<n.items[i + 1]>>))
           IN  /\ IsNode(m) /\ Sorted(m, 1) /\ Size(m) = Size(n) - 1
               /\ ToSet(m.items) = {item \in ToSet(n.items) : item.k # k}
<1>1. PICK s \in Items : s = n.items
  BY DEF IsNode
<1>2. Len(s) \in Nat /\ (\A j \in 1..Len(s) : s[j] \in ItemRec /\ s[j].k \in Key) /\ Size(n) = Len(s) /\ Ordered(s, 1)
  BY <1>1, ItemsAre, OrderedIs DEF Size
<1>3. PICK i : i = LeafLookup(n, k)
  OBVIOUS
<1>4. i \in 0..Len(s) - 1 /\ s[i + 1].k = k
  <2>1. i \in 0..Size(n) /\ i < Size(n) /\ KeyAt(n, i) = k
    BY <1>3, LeafLookupFinds
  <2> QED BY <1>1, <1>2, <2>1 DEF KeyAt
<1>5. PICK w : w = <<s[i + 1]>>
  OBVIOUS
<1>6. w \in Items /\ Len(w) = 1
  BY <1>2, <1>4, <1>5 DEF Items
<1>7. PICK m : m = ApplyTo(n, NodeRemove(p, i, w))
  OBVIOUS
<1>8. IsNode(m) /\ m.items = RemoveItems(s, i, 1)
  <2>1. i \in 0..Size(n) /\ Len(w) \in 0..Size(n) - i
    BY <1>2, <1>4, <1>6
  <2>2. IsNode(m) /\ m.items = RemoveItems(n.items, i, Len(w))
    BY <1>6, <1>7, <2>1, RemoveDoes
  <2> QED BY <1>1, <1>6, <2>2
<1>9. Sorted(m, 1)
  <2>1. 1 \in 1..2 /\ Ordered(m.items, 1)
    BY <1>2, <1>4, <1>8, OrderedRemove
  <2> QED BY <1>8, <2>1, OrderedIs
<1>10. PICK r : r = m.items
  OBVIOUS
<1>11. r \in Items /\ Len(r) = Len(s) - 1 /\ \A j \in 1..Len(s) - 1 : r[j] = IF j <= i THEN s[j] ELSE s[j + 1]
  <2>1. i \in 0..Len(s) /\ 1 \in 0..Len(s) - i
    BY <1>2, <1>4
  <2> QED BY <1>8, <1>10, <2>1, RemovedAre
<1>12. DOMAIN r = 1..Len(s) - 1 /\ DOMAIN s = 1..Len(s)
  BY <1>11 DEF Items
<1>13. \A a, b \in 1..Len(s) : s[a].k = s[b].k => a = b
  <2> TAKE a, b \in 1..Len(s)
  <2>1. ~KeyLess(s[a].k, s[b].k) \/ s[a].k # s[b].k
    BY <1>2, KeyOrder
  <2>2. ~KeyLess(s[b].k, s[a].k) \/ s[a].k # s[b].k
    BY <1>2, KeyOrder
  <2> QED BY <1>2, <2>1, <2>2 DEF Ordered
<1>14. ASSUME NEW j \in 1..Len(s) - 1 PROVE r[j] \in ToSet(s) /\ r[j].k # k
  <2>1. PICK c \in 1..Len(s) : r[j] = s[c] /\ c # i + 1
    BY <1>2, <1>4, <1>11
  <2>2. i + 1 \in 1..Len(s)
    BY <1>2, <1>4
  <2> QED BY <1>4, <1>12, <1>13, <2>1, <2>2 DEF ToSet
<1>15. ASSUME NEW j \in 1..Len(s), s[j].k # k PROVE s[j] \in ToSet(r)
  <2>1. j # i + 1
    BY <1>4, <1>15
  <2>2. PICK c \in 1..Len(s) - 1 : c = IF j <= i THEN j ELSE j - 1
    BY <1>2, <1>4, <2>1
  <2>3. r[c] = s[j]
    BY <1>2, <1>4, <1>11, <2>1, <2>2
  <2> QED BY <1>12, <2>2, <2>3 DEF ToSet
<1>16. ToSet(r) = {item \in ToSet(s) : item.k # k}
  <2>1. \A x \in ToSet(r) : x \in ToSet(s) /\ x.k # k
    BY <1>12, <1>14 DEF ToSet
  <2>2. \A x \in ToSet(s) : x.k # k => x \in ToSet(r)
    BY <1>12, <1>15 DEF ToSet
  <2> QED BY <2>1, <2>2
<1>17. Size(m) = Size(n) - 1
  BY <1>2, <1>10, <1>11 DEF Size
<1> QED BY <1>1, <1>3, <1>5, <1>7, <1>8, <1>9, <1>10, <1>16, <1>17

-----------------------------------------------------------------------------
(***************************************************************************)
(* Lists of operations.  A run of a list gives the tree after each of its  *)
(* operations: there is one, only one, and ApplyAll is its last tree.      *)
(***************************************************************************)
RunUpTo(n, g, pg, os) == g = [i \in 0..n |-> IF i = 0 THEN pg ELSE Apply(g[i - 1], os[i])]

LEMMA RunExists ==
    ASSUME NEW pg, NEW os, NEW n0 \in Nat
    PROVE  \E g : RunUpTo(n0, g, pg, os)
<1> DEFINE Bad == {n \in Nat : ~\E g : RunUpTo(n, g, pg, os)}
<1> SUFFICES ASSUME n0 \in Bad PROVE FALSE
  OBVIOUS
<1>1. Bad \in SUBSET Nat /\ Bad # {}
  OBVIOUS
<1>2. PICK m \in Bad : \A j \in Bad : m <= j
  <2> HIDE DEF Bad
  <2> QED BY <1>1, LeastIs
<1>3. m # 0
  <2>1. RunUpTo(0, [i \in 0..0 |-> pg], pg, os)
    BY DEF RunUpTo
  <2>2. m = 0 => m \notin Bad
    BY <2>1
  <2> QED BY <1>2, <2>2
<1>4. m \in Nat /\ m - 1 \in Nat /\ m - 1 \notin Bad
  BY <1>2, <1>3
<1>5. PICK g : RunUpTo(m - 1, g, pg, os)
  BY <1>4
<1>6. PICK h : h = [i \in 0..m |-> IF i = m THEN Apply(g[m - 1], os[m]) ELSE g[i]]
  OBVIOUS
<1>7. \A i \in 0..m - 1 : h[i] = g[i]
  BY <1>4, <1>6
<1>8. \A i \in 0..m - 1 : g[i] = IF i = 0 THEN pg ELSE Apply(g[i - 1], os[i])
  BY <1>5 DEF RunUpTo
<1>9. \A i \in 0..m : h[i] = IF i = 0 THEN pg ELSE Apply(h[i - 1], os[i])
  <2> TAKE i \in 0..m
  <2>1. CASE i = m
    <3>1. h[i] = Apply(g[m - 1], os[m]) /\ m - 1 \in 0..m - 1
      BY <1>4, <1>6, <2>1
    <3> QED BY <1>3, <1>7, <2>1, <3>1
  <2>2. CASE i # m
    <3>1. i \in 0..m - 1 /\ (i # 0 => i - 1 \in 0..m - 1)
      BY <1>4, <2>2
    <3> QED BY <1>7, <1>8, <3>1
  <2> QED BY <2>1, <2>2
<1>10. h = [i \in 0..m |-> IF i = 0 THEN pg ELSE Apply(h[i - 1], os[i])]
  <2>1. h = [i \in 0..m |-> h[i]]
    BY <1>6
  <2> QED BY <1>9, <2>1
<1> QED BY <1>2, <1>10 DEF RunUpTo

\* g is the run of os on pg.
IsRun(g, pg, os) == g[0] = pg /\ \A i \in 1..Len(os) : g[i] = Apply(g[i - 1], os[i])

LEMMA ApplyAllRuns ==
    ASSUME NEW pg, NEW os, Len(os) \in Nat
    PROVE  \E g : IsRun(g, pg, os) /\ ApplyAll(pg, os) = g[Len(os)]
<1>1. PICK g : g = CHOOSE f : f = [i \in 0..Len(os) |-> IF i = 0 THEN pg ELSE Apply(f[i - 1], os[i])]
  OBVIOUS
<1>2. ApplyAll(pg, os) = g[Len(os)]
  BY <1>1 DEF ApplyAll
<1>3. \E f : f = [i \in 0..Len(os) |-> IF i = 0 THEN pg ELSE Apply(f[i - 1], os[i])]
  <2>1. \E f : RunUpTo(Len(os), f, pg, os)
    BY RunExists
  <2> QED BY <2>1 DEF RunUpTo
<1>4. g = [i \in 0..Len(os) |-> IF i = 0 THEN pg ELSE Apply(g[i - 1], os[i])]
  BY <1>1, <1>3
<1>5. g[0] = pg
  <2>1. 0 \in 0..Len(os)
    OBVIOUS
  <2> QED BY <1>4, <2>1
<1>6. ASSUME NEW i \in 1..Len(os) PROVE g[i] = Apply(g[i - 1], os[i])
  <2>1. i \in 0..Len(os) /\ i # 0
    OBVIOUS
  <2> QED BY <1>4, <2>1
<1> QED BY <1>2, <1>5, <1>6 DEF IsRun

LEMMA RunUnique ==
    ASSUME NEW pg, NEW os, Len(os) \in Nat, NEW g, NEW h, IsRun(g, pg, os), IsRun(h, pg, os)
    PROVE  \A i \in 0..Len(os) : g[i] = h[i]
<1> DEFINE Bad == {i \in 0..Len(os) : g[i] # h[i]}
<1> SUFFICES ASSUME Bad # {} PROVE FALSE
  OBVIOUS
<1>1. Bad \in SUBSET Nat
  OBVIOUS
<1>2. PICK m \in Bad : \A j \in Bad : m <= j
  <2> HIDE DEF Bad
  <2> QED BY <1>1, LeastIs
<1>3. m # 0
  BY <1>2 DEF IsRun
<1>4. m \in 1..Len(os) /\ m - 1 \in 0..Len(os) /\ m - 1 \notin Bad
  BY <1>2, <1>3
<1>5. g[m - 1] = h[m - 1]
  BY <1>4
<1>6. g[m] = Apply(g[m - 1], os[m]) /\ h[m] = Apply(h[m - 1], os[m])
  BY <1>4 DEF IsRun
<1> QED BY <1>2, <1>5, <1>6

LEMMA ApplyAllIs ==
    ASSUME NEW pg, NEW os, Len(os) \in Nat, NEW g, IsRun(g, pg, os)
    PROVE  ApplyAll(pg, os) = g[Len(os)]
<1>1. PICK h : IsRun(h, pg, os) /\ ApplyAll(pg, os) = h[Len(os)]
  BY ApplyAllRuns
<1>2. g[Len(os)] = h[Len(os)]
  <2>1. Len(os) \in 0..Len(os)
    OBVIOUS
  <2> QED BY <1>1, <2>1, RunUnique
<1> QED BY <1>1, <1>2

LEMMA ApplyNone ==
    ASSUME NEW pg
    PROVE  ApplyAll(pg, << >>) = pg
<1>1. PICK os : os = << >>
  OBVIOUS
<1>2. Len(os) \in Nat /\ Len(os) = 0
  BY <1>1
<1>3. PICK h : IsRun(h, pg, os) /\ ApplyAll(pg, os) = h[Len(os)]
  BY <1>2, ApplyAllRuns
<1> QED BY <1>1, <1>2, <1>3 DEF IsRun

LEMMA ApplyOne ==
    ASSUME NEW pg, NEW o
    PROVE  ApplyAll(pg, <<o>>) = Apply(pg, o)
<1>1. PICK os : os = <<o>>
  OBVIOUS
<1>2. Len(os) \in Nat /\ Len(os) = 1 /\ os[1] = o
  BY <1>1
<1>3. PICK h : IsRun(h, pg, os) /\ ApplyAll(pg, os) = h[Len(os)]
  BY <1>2, ApplyAllRuns
<1>4. h[0] = pg /\ h[1] = Apply(h[1 - 1], os[1])
  <2>1. 1 \in 1..Len(os)
    BY <1>2
  <2> QED BY <1>3, <2>1 DEF IsRun
<1> QED BY <1>1, <1>2, <1>3, <1>4

\* The operations of one list and then those of another.
LEMMA ApplyJoin ==
    ASSUME NEW pg, NEW T, NEW a \in Seq(T), NEW b \in Seq(T)
    PROVE  ApplyAll(pg, a \o b) = ApplyAll(ApplyAll(pg, a), b)
<1>1. PICK la \in Nat : la = Len(a)
  OBVIOUS
<1>2. PICK lb \in Nat : lb = Len(b)
  OBVIOUS
<1>3. PICK c : c = a \o b
  OBVIOUS
<1>4. Len(c) = la + lb /\ \A i \in 1..la + lb : c[i] = IF i <= la THEN a[i] ELSE b[i - la]
  BY <1>1, <1>2, <1>3
<1>5. PICK h : IsRun(h, pg, c) /\ ApplyAll(pg, c) = h[Len(c)]
  <2>1. Len(c) \in Nat
    BY <1>4
  <2> QED BY <2>1, ApplyAllRuns
<1>6. h[0] = pg /\ \A i \in 1..la + lb : h[i] = Apply(h[i - 1], c[i])
  BY <1>4, <1>5 DEF IsRun
<1>7. IsRun(h, pg, a)
  <2>1. \A i \in 1..la : h[i] = Apply(h[i - 1], a[i])
    BY <1>4, <1>6
  <2> QED BY <1>1, <1>6, <2>1 DEF IsRun
<1>8. ApplyAll(pg, a) = h[la]
  BY <1>1, <1>7, ApplyAllIs
<1>9. PICK g : g = [i \in 0..lb |-> h[la + i]]
  OBVIOUS
<1>10. IsRun(g, h[la], b)
  <2>1. g[0] = h[la]
    BY <1>9
  <2>2. ASSUME NEW i \in 1..lb PROVE g[i] = Apply(g[i - 1], b[i])
    <3>1. g[i] = h[la + i] /\ g[i - 1] = h[la + i - 1]
      BY <1>9
    <3>2. la + i \in 1..la + lb /\ ~(la + i <= la) /\ la + i - la = i
      OBVIOUS
    <3>3. h[la + i] = Apply(h[la + i - 1], b[i])
      BY <1>4, <1>6, <3>2
    <3> QED BY <3>1, <3>3
  <2> QED BY <1>2, <2>1, <2>2 DEF IsRun
<1>11. ApplyAll(h[la], b) = g[lb]
  BY <1>2, <1>10, ApplyAllIs
<1>12. g[lb] = h[la + lb]
  BY <1>9
<1> QED BY <1>3, <1>4, <1>5, <1>8, <1>11, <1>12

IsSeq(os) == \E T : os \in Seq(T)

LEMMA ApplySeqs ==
    ASSUME NEW pg, NEW a, NEW b, IsSeq(a), IsSeq(b)
    PROVE  IsSeq(a \o b) /\ ApplyAll(pg, a \o b) = ApplyAll(ApplyAll(pg, a), b)
<1>1. PICK T : a \in Seq(T)
  BY DEF IsSeq
<1>2. PICK U : b \in Seq(U)
  BY DEF IsSeq
<1>3. PICK V : V = T \cup U
  OBVIOUS
<1>4. a \in Seq(V) /\ b \in Seq(V)
  BY <1>1, <1>2, <1>3
<1>5. a \o b \in Seq(V)
  BY <1>4
<1>6. IsSeq(a \o b)
  BY <1>5 DEF IsSeq
<1>7. ApplyAll(pg, a \o b) = ApplyAll(ApplyAll(pg, a), b)
  BY <1>4, ApplyJoin
<1> QED BY <1>6, <1>7

LEMMA OneIsSeq ==
    ASSUME NEW o
    PROVE  IsSeq(<<o>>) /\ IsSeq(<< >>)
<1>1. <<o>> \in Seq({o}) /\ << >> \in Seq({o})
  OBVIOUS
<1> QED BY <1>1 DEF IsSeq

-----------------------------------------------------------------------------
(***************************************************************************)
(* What the operations do to a tree.                                       *)
(***************************************************************************)
TreeOf(pg) == \A x \in DOMAIN pg : IsNode(pg[x])

LEMMA ApplyIs ==
    ASSUME NEW pg, NEW o
    PROVE  /\ DOMAIN Apply(pg, o) = DOMAIN pg
           /\ \A x \in DOMAIN pg : Apply(pg, o)[x] = IF x = o.p THEN ApplyTo(pg[x], o) ELSE pg[x]
  BY DEF Apply

LEMMA ParentDoes ==
    ASSUME NEW n, NEW p, NEW q, IsNode(n)
    PROVE  /\ ApplyTo(n, SetParent(p, q)) = [n EXCEPT !.parent = q]
           /\ IsNode([n EXCEPT !.parent = q])
<1>1. PICK o : o = SetParent(p, q)
  OBVIOUS
<1>2. o.t = "parent" /\ o.to = q
  BY <1>1 DEF SetParent
<1>3. ApplyTo(n, o) = [n EXCEPT !.parent = q]
  BY <1>2 DEF ApplyTo
<1>4. IsNode([n EXCEPT !.parent = q])
  BY DEF IsNode
<1> QED BY <1>1, <1>3, <1>4

LEMMA NextDoes ==
    ASSUME NEW n, NEW p, NEW q, IsNode(n)
    PROVE  /\ ApplyTo(n, SetNext(p, q)) = [n EXCEPT !.next = q]
           /\ IsNode([n EXCEPT !.next = q])
<1>1. PICK o : o = SetNext(p, q)
  OBVIOUS
<1>2. o.t = "next" /\ o.to = q
  BY <1>1 DEF SetNext
<1>3. ApplyTo(n, o) = [n EXCEPT !.next = q]
  BY <1>2 DEF ApplyTo
<1>4. IsNode([n EXCEPT !.next = q])
  BY DEF IsNode
<1> QED BY <1>1, <1>3, <1>4

LEMMA InitDoes ==
    ASSUME NEW n, NEW p, NEW b
    PROVE  /\ ApplyTo(n, InitEmpty(p, b)) = [leaf |-> b, items |-> << >>, parent |-> Invalid, next |-> Invalid]
           /\ IsNode([leaf |-> b, items |-> << >>, parent |-> Invalid, next |-> Invalid])
<1>1. PICK o : o = InitEmpty(p, b)
  OBVIOUS
<1>2. o.t = "init" /\ o.leaf = b
  BY <1>1 DEF InitEmpty
<1>3. ApplyTo(n, o) = [Blank EXCEPT !.leaf = b]
  BY <1>2 DEF ApplyTo
<1>4. ApplyTo(n, o) = [leaf |-> b, items |-> << >>, parent |-> Invalid, next |-> Invalid]
  BY <1>3 DEF Blank
<1>5. IsNode([leaf |-> b, items |-> << >>, parent |-> Invalid, next |-> Invalid])
  BY DEF IsNode, Items
<1> QED BY <1>1, <1>4, <1>5

\* The items, the kind and the right neighbour of every node are as they were.
SameContents(a, pg) ==
    /\ DOMAIN a = DOMAIN pg
    /\ \A x \in DOMAIN pg : /\ IsNode(a[x])
                            /\ a[x].items = pg[x].items /\ a[x].leaf = pg[x].leaf /\ a[x].next = pg[x].next

ValuesOf(w)              == {w[j].v : j \in 1..Len(w)}
NewParents(a, pg, S, q) == \A x \in DOMAIN pg : a[x].parent = IF x \in S THEN q ELSE pg[x].parent

\* Setting the parent of the children of some items changes nothing else.
LEMMA SetParentsDo ==
    ASSUME NEW pg, NEW w \in Items, NEW q, NEW os, TreeOf(pg),
           os = [j \in 1..Len(w) |-> SetParent(w[j].v, q)]
    PROVE  LET a == ApplyAll(pg, os)
           IN  /\ SameContents(a, pg)
               /\ NewParents(a, pg, ValuesOf(w), q)
<1>1. PICK lw \in Nat : lw = Len(w)
  BY ItemsAre
<1>2. os = [j \in 1..lw |-> SetParent(w[j].v, q)]
  BY <1>1
<1>3. Len(os) = lw
  BY <1>2
<1>4. PICK g : IsRun(g, pg, os) /\ ApplyAll(pg, os) = g[Len(os)]
  BY <1>3, ApplyAllRuns
<1> DEFINE Good(i) == /\ SameContents(g[i], pg)
                      /\ \A x \in DOMAIN pg :
                           g[i][x].parent = IF \E j \in 1..i : w[j].v = x THEN q ELSE pg[x].parent
<1>5. Good(0)
  <2>1. g[0] = pg
    BY <1>4 DEF IsRun
  <2>2. SameContents(pg, pg)
    BY DEF SameContents, TreeOf
  <2> QED BY <2>1, <2>2
<1>6. ASSUME NEW i \in 1..lw, Good(i - 1) PROVE Good(i)
  <2>1. PICK h : h = g[i - 1]
    OBVIOUS
  <2>2. SameContents(h, pg)
        /\ \A x \in DOMAIN pg : h[x].parent = IF \E j \in 1..i - 1 : w[j].v = x THEN q ELSE pg[x].parent
    BY <1>6, <2>1
  <2>3. PICK v : v = w[i].v
    OBVIOUS
  <2>4. g[i] = Apply(h, SetParent(v, q))
    BY <1>2, <1>3, <1>4, <2>1, <2>3 DEF IsRun
  <2>5. SetParent(v, q).p = v
    BY DEF SetParent
  <2>6. /\ DOMAIN g[i] = DOMAIN pg
        /\ \A x \in DOMAIN pg : g[i][x] = IF x = v THEN ApplyTo(h[x], SetParent(v, q)) ELSE h[x]
    <3>1. DOMAIN h = DOMAIN pg
      BY <2>2 DEF SameContents
    <3> QED BY <2>4, <2>5, <3>1, ApplyIs
  <2>7. ASSUME NEW x \in DOMAIN pg
        PROVE  /\ IsNode(g[i][x])
               /\ g[i][x].items = pg[x].items /\ g[i][x].leaf = pg[x].leaf /\ g[i][x].next = pg[x].next
               /\ g[i][x].parent = IF x = v THEN q ELSE h[x].parent
    <3>1. IsNode(h[x]) /\ h[x].items = pg[x].items /\ h[x].leaf = pg[x].leaf /\ h[x].next = pg[x].next
      BY <2>2 DEF SameContents
    <3>2. PICK n : n = h[x]
      OBVIOUS
    <3>3. IsNode([n EXCEPT !.parent = q]) /\ ApplyTo(n, SetParent(v, q)) = [n EXCEPT !.parent = q]
      BY <3>1, <3>2, ParentDoes
    <3>4. n = [leaf |-> n.leaf, items |-> n.items, parent |-> n.parent, next |-> n.next]
      BY <3>1, <3>2 DEF IsNode
    <3>5. g[i][x] = IF x = v THEN [n EXCEPT !.parent = q] ELSE n
      BY <2>6, <3>2, <3>3
    <3> QED BY <3>1, <3>2, <3>3, <3>4, <3>5
  <2>8. ASSUME NEW x \in DOMAIN pg
        PROVE  g[i][x].parent = IF \E j \in 1..i : w[j].v = x THEN q ELSE pg[x].parent
    <3>1. (\E j \in 1..i : w[j].v = x) <=> x = v \/ \E j \in 1..i - 1 : w[j].v = x
      BY <1>1, <2>3
    <3>2. g[i][x].parent = IF x = v THEN q ELSE h[x].parent
      BY <2>7
    <3>3. h[x].parent = IF \E j \in 1..i - 1 : w[j].v = x THEN q ELSE pg[x].parent
      BY <2>2
    <3> QED BY <3>1, <3>2, <3>3
  <2>9. SameContents(g[i], pg)
    BY <2>6, <2>7 DEF SameContents
  <2> QED BY <2>8, <2>9
<1>7. Good(lw)
  <2> DEFINE Bad == {i \in 0..lw : ~Good(i)}
  <2> SUFFICES ASSUME Bad # {} PROVE FALSE
    <3> HIDE DEF Good
    <3>1. lw \in 0..lw
      OBVIOUS
    <3> QED BY <3>1
  <2> HIDE DEF Good
  <2>1. Bad \in SUBSET Nat
    OBVIOUS
  <2>2. PICK m \in Bad : \A j \in Bad : m <= j
    <3> HIDE DEF Bad
    <3> QED BY <2>1, LeastIs
  <2>3. m # 0 /\ ~Good(m)
    BY <1>5, <2>2
  <2>4. m \in 1..lw /\ m - 1 \in 0..lw /\ m - 1 \notin Bad
    BY <2>2, <2>3
  <2>5. Good(m - 1)
    BY <2>4
  <2> QED BY <1>6, <2>3, <2>4, <2>5
<1>8. \A x : x \in ValuesOf(w) <=> \E j \in 1..lw : w[j].v = x
  BY <1>1 DEF ValuesOf
<1>9. NewParents(g[lw], pg, ValuesOf(w), q)
  BY <1>7, <1>8 DEF NewParents
<1> QED BY <1>3, <1>4, <1>7, <1>9

\* One operation on the page p.
LEMMA TreeInsertDoes ==
    ASSUME NEW pg, NEW p \in DOMAIN pg, NEW i \in 0..Size(pg[p]), NEW w \in Items, TreeOf(pg)
    PROVE  LET a == ApplyAll(pg, <<NodeInsert(p, i, w)>>)
           IN  /\ DOMAIN a = DOMAIN pg /\ TreeOf(a)
               /\ a[p].items = InsertItems(pg[p].items, i, w)
               /\ a[p].leaf = pg[p].leaf /\ a[p].parent = pg[p].parent /\ a[p].next = pg[p].next
               /\ \A x \in DOMAIN pg \ {p} : a[x] = pg[x]
<1>1. PICK o : o = NodeInsert(p, i, w)
  OBVIOUS
<1>2. o.p = p
  BY <1>1 DEF NodeInsert
<1>3. PICK a : a = Apply(pg, o)
  OBVIOUS
<1>4. /\ DOMAIN a = DOMAIN pg
      /\ \A x \in DOMAIN pg : a[x] = IF x = p THEN ApplyTo(pg[x], o) ELSE pg[x]
  BY <1>2, <1>3, ApplyIs
<1>5. IsNode(pg[p])
  BY DEF TreeOf
<1>6. PICK m : m = ApplyTo(pg[p], o)
  OBVIOUS
<1>7. IsNode(m) /\ m.items = InsertItems(pg[p].items, i, w) /\ m.leaf = pg[p].leaf /\ m.parent = pg[p].parent /\ m.next = pg[p].next
  BY <1>1, <1>5, <1>6, InsertDoes
<1>8. a[p] = m
  BY <1>4, <1>6
<1>9. TreeOf(a)
  BY <1>4, <1>7, <1>8 DEF TreeOf
<1>10. ApplyAll(pg, <<o>>) = a
  BY <1>3, ApplyOne
<1> QED BY <1>1, <1>4, <1>7, <1>8, <1>9, <1>10

LEMMA TreeRemoveDoes ==
    ASSUME NEW pg, NEW p \in DOMAIN pg, NEW i \in 0..Size(pg[p]), NEW w \in Items,
           TreeOf(pg), Len(w) \in 0..Size(pg[p]) - i
    PROVE  LET a == ApplyAll(pg, <<NodeRemove(p, i, w)>>)
           IN  /\ DOMAIN a = DOMAIN pg /\ TreeOf(a)
               /\ a[p].items = RemoveItems(pg[p].items, i, Len(w))
               /\ a[p].leaf = pg[p].leaf /\ a[p].parent = pg[p].parent /\ a[p].next = pg[p].next
               /\ \A x \in DOMAIN pg \ {p} : a[x] = pg[x]
<1>1. PICK o : o = NodeRemove(p, i, w)
  OBVIOUS
<1>2. o.p = p
  BY <1>1 DEF NodeRemove
<1>3. PICK a : a = Apply(pg, o)
  OBVIOUS
<1>4. /\ DOMAIN a = DOMAIN pg
      /\ \A x \in DOMAIN pg : a[x] = IF x = p THEN ApplyTo(pg[x], o) ELSE pg[x]
  BY <1>2, <1>3, ApplyIs
<1>5. IsNode(pg[p])
  BY DEF TreeOf
<1>6. PICK m : m = ApplyTo(pg[p], o)
  OBVIOUS
<1>7. IsNode(m) /\ m.items = RemoveItems(pg[p].items, i, Len(w)) /\ m.leaf = pg[p].leaf /\ m.parent = pg[p].parent /\ m.next = pg[p].next
  BY <1>1, <1>5, <1>6, RemoveDoes
<1>8. a[p] = m
  BY <1>4, <1>6
<1>9. TreeOf(a)
  BY <1>4, <1>7, <1>8 DEF TreeOf
<1>10. ApplyAll(pg, <<o>>) = a
  BY <1>3, ApplyOne
<1> QED BY <1>1, <1>4, <1>7, <1>8, <1>9, <1>10

LEMMA TreeParentDoes ==
    ASSUME NEW pg, NEW p \in DOMAIN pg, NEW q, TreeOf(pg)
    PROVE  LET a == ApplyAll(pg, <<SetParent(p, q)>>)
           IN  /\ DOMAIN a = DOMAIN pg /\ TreeOf(a)
               /\ a[p] = [pg[p] EXCEPT !.parent = q]
               /\ \A x \in DOMAIN pg \ {p} : a[x] = pg[x]
<1>1. PICK o : o = SetParent(p, q)
  OBVIOUS
<1>2. o.p = p
  BY <1>1 DEF SetParent
<1>3. PICK a : a = Apply(pg, o)
  OBVIOUS
<1>4. /\ DOMAIN a = DOMAIN pg
      /\ \A x \in DOMAIN pg : a[x] = IF x = p THEN ApplyTo(pg[x], o) ELSE pg[x]
  BY <1>2, <1>3, ApplyIs
<1>5. IsNode(pg[p])
  BY DEF TreeOf
<1>6. a[p] = [pg[p] EXCEPT !.parent = q] /\ IsNode([pg[p] EXCEPT !.parent = q])
  BY <1>1, <1>4, <1>5, ParentDoes
<1>7. TreeOf(a)
  BY <1>4, <1>6 DEF TreeOf
<1>8. ApplyAll(pg, <<o>>) = a
  BY <1>3, ApplyOne
<1> QED BY <1>1, <1>4, <1>6, <1>7, <1>8

LEMMA TreeNextDoes ==
    ASSUME NEW pg, NEW p \in DOMAIN pg, NEW q, TreeOf(pg)
    PROVE  LET a == ApplyAll(pg, <<SetNext(p, q)>>)
           IN  /\ DOMAIN a = DOMAIN pg /\ TreeOf(a)
               /\ a[p] = [pg[p] EXCEPT !.next = q]
               /\ \A x \in DOMAIN pg \ {p} : a[x] = pg[x]
<1>1. PICK o : o = SetNext(p, q)
  OBVIOUS
<1>2. o.p = p
  BY <1>1 DEF SetNext
<1>3. PICK a : a = Apply(pg, o)
  OBVIOUS
<1>4. /\ DOMAIN a = DOMAIN pg
      /\ \A x \in DOMAIN pg : a[x] = IF x = p THEN ApplyTo(pg[x], o) ELSE pg[x]
  BY <1>2, <1>3, ApplyIs
<1>5. IsNode(pg[p])
  BY DEF TreeOf
<1>6. a[p] = [pg[p] EXCEPT !.next = q] /\ IsNode([pg[p] EXCEPT !.next = q])
  BY <1>1, <1>4, <1>5, NextDoes
<1>7. TreeOf(a)
  BY <1>4, <1>6 DEF TreeOf
<1>8. ApplyAll(pg, <<o>>) = a
  BY <1>3, ApplyOne
<1> QED BY <1>1, <1>4, <1>6, <1>7, <1>8

\* The children that insert_items gives a new parent.
Adopted(n, w) == IF n.leaf THEN {} ELSE ValuesOf(w)

LEMMA AdoptDoes ==
    ASSUME NEW pg, NEW n, NEW q \in DOMAIN pg, NEW w \in Items, NEW i \in 0..Size(pg[q]), TreeOf(pg)
    PROVE  LET a == ApplyAll(pg, Adopt(n, q, i, w))
           IN  /\ IsSeq(Adopt(n, q, i, w))
               /\ DOMAIN a = DOMAIN pg /\ TreeOf(a)
               /\ \A x \in DOMAIN pg :
                    /\ a[x].items = IF x = q THEN InsertItems(pg[q].items, i, w) ELSE pg[x].items
                    /\ a[x].leaf = pg[x].leaf /\ a[x].next = pg[x].next
                    /\ a[x].parent = IF x \in Adopted(n, w) THEN q ELSE pg[x].parent
<1>1. PICK b : b = ApplyAll(pg, <<NodeInsert(q, i, w)>>)
  OBVIOUS
<1>2. /\ DOMAIN b = DOMAIN pg /\ TreeOf(b)
      /\ b[q].items = InsertItems(pg[q].items, i, w)
      /\ b[q].leaf = pg[q].leaf /\ b[q].parent = pg[q].parent /\ b[q].next = pg[q].next
      /\ \A x \in DOMAIN pg \ {q} : b[x] = pg[x]
  BY <1>1, TreeInsertDoes
<1>3. PICK rest : rest = IF n.leaf THEN << >> ELSE [j \in 1..Len(w) |-> SetParent(w[j].v, q)]
  OBVIOUS
<1>4. IsSeq(rest)
  <2>1. CASE n.leaf
    BY <1>3, <2>1, OneIsSeq
  <2>2. CASE ~n.leaf
    <3>1. Len(w) \in Nat
      BY ItemsAre
    <3>2. rest = [j \in 1..Len(w) |-> SetParent(w[j].v, q)]
      BY <1>3, <2>2
    <3>3. rest \in Seq({SetParent(w[j].v, q) : j \in 1..Len(w)})
      BY <3>1, <3>2
    <3> QED BY <3>3 DEF IsSeq
  <2> QED BY <2>1, <2>2
<1>5. PICK a : a = ApplyAll(b, rest)
  OBVIOUS
<1>6. IsSeq(Adopt(n, q, i, w)) /\ ApplyAll(pg, Adopt(n, q, i, w)) = a
  <2>1. PICK one : one = <<NodeInsert(q, i, w)>>
    OBVIOUS
  <2>2. IsSeq(one)
    BY <2>1, OneIsSeq
  <2>3. Adopt(n, q, i, w) = one \o rest
    BY <1>3, <2>1 DEF Adopt
  <2>4. IsSeq(one \o rest) /\ ApplyAll(pg, one \o rest) = ApplyAll(ApplyAll(pg, one), rest)
    BY <1>4, <2>2, ApplySeqs
  <2> QED BY <1>1, <1>5, <2>1, <2>3, <2>4
<1>7. /\ SameContents(a, b)
      /\ NewParents(a, b, Adopted(n, w), q)
  <2>1. CASE n.leaf
    <3>1. a = b
      BY <1>3, <1>5, <2>1, ApplyNone
    <3>2. Adopted(n, w) = {}
      BY <2>1 DEF Adopted
    <3> QED BY <1>2, <3>1, <3>2 DEF SameContents, NewParents, TreeOf
  <2>2. CASE ~n.leaf
    <3>1. rest = [j \in 1..Len(w) |-> SetParent(w[j].v, q)]
      BY <1>3, <2>2
    <3>2. SameContents(a, b) /\ NewParents(a, b, ValuesOf(w), q)
      <4>1. TreeOf(b)
        BY <1>2
      <4>2. SameContents(ApplyAll(b, rest), b) /\ NewParents(ApplyAll(b, rest), b, ValuesOf(w), q)
        BY <3>1, <4>1, SetParentsDo
      <4> QED BY <1>5, <4>2
    <3>3. Adopted(n, w) = ValuesOf(w)
      BY <2>2 DEF Adopted
    <3> QED BY <3>2, <3>3
  <2> QED BY <2>1, <2>2
<1>8. DOMAIN a = DOMAIN pg /\ TreeOf(a)
  BY <1>2, <1>7 DEF SameContents, TreeOf
<1>9. ASSUME NEW x \in DOMAIN pg
      PROVE  /\ a[x].items = IF x = q THEN InsertItems(pg[q].items, i, w) ELSE pg[x].items
             /\ a[x].leaf = pg[x].leaf /\ a[x].next = pg[x].next
             /\ a[x].parent = IF x \in Adopted(n, w) THEN q ELSE pg[x].parent
  <2>1. a[x].items = b[x].items /\ a[x].leaf = b[x].leaf /\ a[x].next = b[x].next
    BY <1>2, <1>7 DEF SameContents
  <2>2. a[x].parent = IF x \in Adopted(n, w) THEN q ELSE b[x].parent
    BY <1>2, <1>7 DEF NewParents
  <2>3. CASE x = q
    BY <1>2, <2>1, <2>2, <2>3
  <2>4. CASE x # q
    <3>1. b[x] = pg[x]
      BY <1>2, <2>4
    <3> QED BY <2>1, <2>2, <2>4, <3>1
  <2> QED BY <2>3, <2>4
<1> QED BY <1>6, <1>8, <1>9

\* In a the items w of p have gone to q, to the position i; they were at k in p.
Moved(a, pg, n, p, q, w, i, k) ==
    /\ DOMAIN a = DOMAIN pg /\ TreeOf(a)
    /\ a[q].items = InsertItems(pg[q].items, i, w)
    /\ a[p].items = RemoveItems(pg[p].items, k, Len(w))
    /\ \A x \in DOMAIN pg :
         /\ x \notin {p, q} => a[x].items = pg[x].items
         /\ a[x].leaf = pg[x].leaf /\ a[x].next = pg[x].next
         /\ a[x].parent = IF x \in Adopted(n, w) THEN q ELSE pg[x].parent

LEMMA MoveDoes ==
    ASSUME NEW pg, NEW n, NEW p \in DOMAIN pg, NEW q \in DOMAIN pg, NEW w \in Items,
           NEW i \in 0..Size(pg[q]), NEW k \in 0..Size(pg[p]),
           TreeOf(pg), p # q, Len(w) \in 0..Size(pg[p]) - k
    PROVE  LET os == Adopt(n, q, i, w) \o <<NodeRemove(p, k, w)>>
           IN  IsSeq(os) /\ Moved(ApplyAll(pg, os), pg, n, p, q, w, i, k)
<1>1. PICK o1 : o1 = Adopt(n, q, i, w)
  OBVIOUS
<1>2. PICK o2 : o2 = <<NodeRemove(p, k, w)>>
  OBVIOUS
<1>3. PICK b : b = ApplyAll(pg, o1)
  OBVIOUS
<1>4. /\ IsSeq(o1) /\ DOMAIN b = DOMAIN pg /\ TreeOf(b)
      /\ \A x \in DOMAIN pg :
           /\ b[x].items = IF x = q THEN InsertItems(pg[q].items, i, w) ELSE pg[x].items
           /\ b[x].leaf = pg[x].leaf /\ b[x].next = pg[x].next
           /\ b[x].parent = IF x \in Adopted(n, w) THEN q ELSE pg[x].parent
  BY <1>1, <1>3, AdoptDoes
<1>5. PICK a : a = ApplyAll(b, o2)
  OBVIOUS
<1>6. /\ DOMAIN a = DOMAIN b /\ TreeOf(a)
      /\ a[p].items = RemoveItems(b[p].items, k, Len(w))
      /\ a[p].leaf = b[p].leaf /\ a[p].parent = b[p].parent /\ a[p].next = b[p].next
      /\ \A x \in DOMAIN b \ {p} : a[x] = b[x]
  <2>1. p \in DOMAIN b /\ b[p].items = pg[p].items
    BY <1>4
  <2>2. k \in 0..Size(b[p]) /\ Len(w) \in 0..Size(b[p]) - k
    BY <2>1 DEF Size
  <2> QED BY <1>2, <1>4, <1>5, <2>1, <2>2, TreeRemoveDoes
<1>7. IsSeq(o1 \o o2) /\ ApplyAll(pg, o1 \o o2) = a
  <2>1. IsSeq(o2)
    BY <1>2, OneIsSeq
  <2> QED BY <1>3, <1>4, <1>5, <2>1, ApplySeqs
<1>8. a[q].items = InsertItems(pg[q].items, i, w) /\ a[p].items = RemoveItems(pg[p].items, k, Len(w))
  BY <1>4, <1>6
<1>9. ASSUME NEW x \in DOMAIN pg
      PROVE  /\ x \notin {p, q} => a[x].items = pg[x].items
             /\ a[x].leaf = pg[x].leaf /\ a[x].next = pg[x].next
             /\ a[x].parent = IF x \in Adopted(n, w) THEN q ELSE pg[x].parent
  <2>1. a[x].leaf = b[x].leaf /\ a[x].next = b[x].next /\ a[x].parent = b[x].parent
    BY <1>4, <1>6
  <2>2. x # p => a[x].items = b[x].items
    BY <1>4, <1>6
  <2> QED BY <1>4, <2>1, <2>2
<1>10. Moved(a, pg, n, p, q, w, i, k)
  BY <1>4, <1>6, <1>8, <1>9 DEF Moved
<1> QED BY <1>1, <1>2, <1>7, <1>10

LEMMA ApplyTwo ==
    ASSUME NEW pg, NEW o1, NEW o2
    PROVE  /\ IsSeq(<<o1, o2>>)
           /\ ApplyAll(pg, <<o1, o2>>) = ApplyAll(ApplyAll(pg, <<o1>>), <<o2>>)
<1>1. PICK s : s = <<o1>>
  OBVIOUS
<1>2. PICK t : t = <<o2>>
  OBVIOUS
<1>3. <<o1, o2>> = s \o t
  <2>1. PICK u : u = <<o1, o2>>
    OBVIOUS
  <2>2. PICK T : T = {o1, o2}
    OBVIOUS
  <2>3. s \in Seq(T) /\ t \in Seq(T) /\ u \in Seq(T) /\ Len(u) = 2 /\ u[1] = o1 /\ u[2] = o2
    BY <1>1, <1>2, <2>1, <2>2
  <2>4. Len(s) = 1 /\ s[1] = o1 /\ Len(t) = 1 /\ t[1] = o2
    BY <1>1, <1>2
  <2>5. PICK c : c = s \o t
    OBVIOUS
  <2>6. c \in Seq(T) /\ Len(c) = 2 /\ c[1] = o1 /\ c[2] = o2
    <3>1. /\ c \in Seq(T) /\ Len(c) = Len(s) + Len(t)
          /\ \A i \in 1..Len(s) + Len(t) : c[i] = IF i <= Len(s) THEN s[i] ELSE t[i - Len(s)]
      BY <2>3, <2>5
    <3>2. /\ Len(s) + Len(t) = 2 /\ 1 \in 1..Len(s) + Len(t) /\ 1 <= Len(s)
          /\ 2 \in 1..Len(s) + Len(t) /\ ~(2 <= Len(s)) /\ 2 - Len(s) = 1
      BY <2>4
    <3>3. c[1] = s[1] /\ c[2] = t[2 - Len(s)]
      BY <3>1, <3>2
    <3> QED BY <2>4, <3>1, <3>2, <3>3
  <2>7. u = c
    BY <2>3, <2>6
  <2> QED BY <2>1, <2>5, <2>7
<1>4. IsSeq(s) /\ IsSeq(t)
  BY <1>1, <1>2, OneIsSeq
<1>5. IsSeq(s \o t) /\ ApplyAll(pg, s \o t) = ApplyAll(ApplyAll(pg, s), t)
  BY <1>4, ApplySeqs
<1> QED BY <1>1, <1>2, <1>3, <1>5

LEMMA ApplyThree ==
    ASSUME NEW pg, NEW o1, NEW o2, NEW o3
    PROVE  /\ IsSeq(<<o1, o2, o3>>)
           /\ ApplyAll(pg, <<o1, o2, o3>>) = ApplyAll(ApplyAll(ApplyAll(pg, <<o1>>), <<o2>>), <<o3>>)
<1>1. PICK s : s = <<o1, o2>>
  OBVIOUS
<1>2. PICK t : t = <<o3>>
  OBVIOUS
<1>3. <<o1, o2, o3>> = s \o t
  BY <1>1, <1>2
<1>4. IsSeq(s) /\ IsSeq(t)
  BY <1>1, <1>2, OneIsSeq, ApplyTwo
<1>5. IsSeq(s \o t) /\ ApplyAll(pg, s \o t) = ApplyAll(ApplyAll(pg, s), t)
  BY <1>4, ApplySeqs
<1>6. ApplyAll(pg, s) = ApplyAll(ApplyAll(pg, <<o1>>), <<o2>>)
  BY <1>1, ApplyTwo
<1> QED BY <1>2, <1>3, <1>5, <1>6

LEMMA Halves ==
    ASSUME NEW m \in Nat, m >= 2
    PROVE  m \div 2 \in 1..m - 1
  OBVIOUS

\* A new page of the kind of p, with the parent of p.
LEMMA NewPageDoes ==
    ASSUME NEW pg, NEW q \in DOMAIN pg, NEW leaf, NEW parent, TreeOf(pg)
    PROVE  LET os == <<InitEmpty(q, leaf), SetParent(q, parent)>>
               a  == ApplyAll(pg, os)
           IN  /\ IsSeq(os)
               /\ DOMAIN a = DOMAIN pg /\ TreeOf(a)
               /\ a[q] = [leaf |-> leaf, items |-> << >>, parent |-> parent, next |-> Invalid]
               /\ \A x \in DOMAIN pg \ {q} : a[x] = pg[x]
<1>1. PICK o1 : o1 = InitEmpty(q, leaf)
  OBVIOUS
<1>2. PICK o2 : o2 = SetParent(q, parent)
  OBVIOUS
<1>3. PICK b : b = ApplyAll(pg, <<o1>>)
  OBVIOUS
<1>4. b = Apply(pg, o1)
  BY <1>3, ApplyOne
<1>5. o1.p = q
  BY <1>1 DEF InitEmpty
<1>6. /\ DOMAIN b = DOMAIN pg
      /\ \A x \in DOMAIN pg : b[x] = IF x = q THEN ApplyTo(pg[x], o1) ELSE pg[x]
  BY <1>4, <1>5, ApplyIs
<1>7. PICK e : e = [leaf |-> leaf, items |-> << >>, parent |-> Invalid, next |-> Invalid]
  OBVIOUS
<1>8. b[q] = e /\ IsNode(e)
  <2>1. ApplyTo(pg[q], InitEmpty(q, leaf)) = e /\ IsNode(e)
    BY <1>7, InitDoes
  <2> QED BY <1>1, <1>6, <2>1
<1>9. TreeOf(b)
  BY <1>6, <1>8 DEF TreeOf
<1>10. PICK a : a = ApplyAll(b, <<o2>>)
  OBVIOUS
<1>11. /\ DOMAIN a = DOMAIN b /\ TreeOf(a)
       /\ a[q] = [b[q] EXCEPT !.parent = parent]
       /\ \A x \in DOMAIN b \ {q} : a[x] = b[x]
  <2>1. q \in DOMAIN b
    BY <1>6
  <2> QED BY <1>2, <1>9, <1>10, <2>1, TreeParentDoes
<1>12. a[q] = [leaf |-> leaf, items |-> << >>, parent |-> parent, next |-> Invalid]
  BY <1>7, <1>8, <1>11
<1>13. \A x \in DOMAIN pg \ {q} : a[x] = pg[x]
  BY <1>6, <1>11
<1>14. IsSeq(<<o1, o2>>) /\ ApplyAll(pg, <<o1, o2>>) = a
  BY <1>3, <1>10, ApplyTwo
<1> QED BY <1>1, <1>2, <1>6, <1>11, <1>12, <1>13, <1>14

\* s is the part of t from position a on, of length n.
PartOf(s, t, a, n) == s \in Items /\ Len(s) = n /\ \A j \in 1..n : s[j] = t[a + j - 1]

\* In a the lower half of the items of p is in p and the upper half in the new page q.
SplitInto(a, pg, p, q, n, keep, half) ==
    /\ DOMAIN a = DOMAIN pg /\ TreeOf(a)
    /\ PartOf(a[p].items, n.items, 1, keep)
    /\ PartOf(a[q].items, n.items, keep + 1, Size(n) - keep)
    /\ a[p].leaf = n.leaf /\ a[p].next = n.next /\ a[q].leaf = n.leaf
    /\ a[p].parent = IF p \in Adopted(n, half) THEN q ELSE n.parent
    /\ a[q].parent = IF q \in Adopted(n, half) THEN q ELSE n.parent
    /\ \A x \in DOMAIN pg \ {p, q} :
         /\ a[x].items = pg[x].items /\ a[x].leaf = pg[x].leaf /\ a[x].next = pg[x].next
         /\ a[x].parent = IF x \in Adopted(n, half) THEN q ELSE pg[x].parent

LEMMA SplitDoes ==
    ASSUME NEW pg, NEW p \in DOMAIN pg, NEW q \in DOMAIN pg, p # q, TreeOf(pg), Size(pg[p]) >= 2
    PROVE  LET n    == pg[p]
               keep == Size(n) \div 2
               half == SubSeq(n.items, keep + 1, Size(n))
           IN  /\ IsSeq(SplitOps(pg, p, q))
               /\ SplitInto(ApplyAll(pg, SplitOps(pg, p, q)), pg, p, q, n, keep, half)
<1>1. PICK n : n = pg[p]
  OBVIOUS
<1>2. PICK s \in Items : s = n.items
  BY <1>1 DEF TreeOf, IsNode
<1>3. PICK m \in Nat : m = Len(s) /\ m = Size(n) /\ m >= 2
  BY <1>1, <1>2, ItemsAre DEF Size
<1>4. PICK keep \in 1..m - 1 : keep = Size(n) \div 2
  BY <1>3, Halves
<1>5. PICK half : half = SubSeq(s, keep + 1, m)
  OBVIOUS
<1>6. PartOf(half, s, keep + 1, m - keep)
  <2>1. keep + 1 \in 1..Len(s) + 1 /\ m \in 0..Len(s) /\ keep + 1 <= m + 1
    BY <1>3
  <2>2. half \in Items /\ Len(half) = m + 1 - (keep + 1) /\ \A i \in 1..m + 1 - (keep + 1) : half[i] = s[keep + 1 + i - 1]
    BY <1>5, <2>1, PartIs
  <2>3. m + 1 - (keep + 1) = m - keep
    OBVIOUS
  <2> QED BY <2>2, <2>3 DEF PartOf
<1>7. PICK o1 : o1 = <<InitEmpty(q, n.leaf), SetParent(q, n.parent)>>
  OBVIOUS
<1>8. PICK b : b = ApplyAll(pg, o1)
  OBVIOUS
<1>9. /\ IsSeq(o1) /\ DOMAIN b = DOMAIN pg /\ TreeOf(b)
      /\ b[q] = [leaf |-> n.leaf, items |-> << >>, parent |-> n.parent, next |-> Invalid]
      /\ \A x \in DOMAIN pg \ {q} : b[x] = pg[x]
  BY <1>7, <1>8, NewPageDoes
<1>10. PICK o2 : o2 = Adopt(n, q, 0, half) \o <<NodeRemove(p, keep, half)>>
  OBVIOUS
<1>11. PICK a : a = ApplyAll(b, o2)
  OBVIOUS
<1>12. b[p] = n /\ Size(b[p]) = m /\ Size(b[q]) = 0
  BY <1>1, <1>3, <1>9 DEF Size
<1>13. /\ IsSeq(o2) /\ DOMAIN a = DOMAIN b /\ TreeOf(a)
       /\ a[q].items = InsertItems(b[q].items, 0, half)
       /\ a[p].items = RemoveItems(b[p].items, keep, Len(half))
       /\ \A x \in DOMAIN b :
            /\ x \notin {p, q} => a[x].items = b[x].items
            /\ a[x].leaf = b[x].leaf /\ a[x].next = b[x].next
            /\ a[x].parent = IF x \in Adopted(n, half) THEN q ELSE b[x].parent
  <2>1. TreeOf(b) /\ p \in DOMAIN b /\ q \in DOMAIN b /\ p # q
    BY <1>9
  <2>2. half \in Items /\ 0 \in 0..Size(b[q]) /\ keep \in 0..Size(b[p]) /\ Len(half) \in 0..Size(b[p]) - keep
    BY <1>6, <1>12 DEF PartOf
  <2>3. LET os == Adopt(n, q, 0, half) \o <<NodeRemove(p, keep, half)>>
        IN  IsSeq(os) /\ Moved(ApplyAll(b, os), b, n, p, q, half, 0, keep)
    BY <2>1, <2>2, MoveDoes
  <2> QED BY <1>10, <1>11, <2>3 DEF Moved
<1>14. IsSeq(SplitOps(pg, p, q)) /\ ApplyAll(pg, SplitOps(pg, p, q)) = a
  <2>1. SplitOps(pg, p, q) = o1 \o o2
    BY <1>1, <1>2, <1>3, <1>4, <1>5, <1>7, <1>10 DEF SplitOps, MoveHalf
  <2>2. IsSeq(o1 \o o2) /\ ApplyAll(pg, o1 \o o2) = ApplyAll(ApplyAll(pg, o1), o2)
    BY <1>9, <1>13, ApplySeqs
  <2> QED BY <1>8, <1>11, <2>1, <2>2
<1>15. PartOf(a[q].items, s, keep + 1, m - keep)
  <2>1. PICK e : e = b[q].items
    OBVIOUS
  <2>2. e \in Items /\ Len(e) = 0 /\ 0 \in 0..Len(e) /\ half \in Items /\ Len(half) = m - keep
    BY <1>6, <1>9, <2>1 DEF Items, PartOf
  <2>3. PICK z : z = 0
    OBVIOUS
  <2>4. PICK r : r = InsertItems(e, z, half)
    OBVIOUS
  <2>5. /\ r \in Items /\ Len(r) = Len(e) + Len(half)
        /\ \A j \in 1..Len(e) + Len(half) :
             r[j] = IF j <= z THEN e[j] ELSE IF j <= z + Len(half) THEN half[j - z] ELSE e[j - Len(half)]
    <3>1. z \in 0..Len(e) /\ e \in Items /\ half \in Items
      BY <2>2, <2>3
    <3> QED BY <2>4, <3>1, InsertedAre
  <2>6. r = a[q].items
    BY <1>13, <2>1, <2>3, <2>4
  <2>7. \A j \in 1..m - keep : r[j] = half[j]
    BY <1>4, <2>2, <2>3, <2>5
  <2>8. Len(r) = m - keep
    BY <2>2, <2>5
  <2> QED BY <1>6, <2>5, <2>6, <2>7, <2>8 DEF PartOf
<1>16. PartOf(a[p].items, s, 1, keep)
  <2>1. Len(half) = m - keep
    BY <1>6 DEF PartOf
  <2>2. keep \in 0..Len(s) /\ m - keep \in 0..Len(s) - keep
    BY <1>3
  <2>3. PICK r : r = RemoveItems(s, keep, m - keep)
    OBVIOUS
  <2>4. /\ r \in Items /\ Len(r) = Len(s) - (m - keep)
        /\ \A j \in 1..Len(s) - (m - keep) : r[j] = IF j <= keep THEN s[j] ELSE s[j + (m - keep)]
    BY <2>2, <2>3, RemovedAre
  <2>5. Len(s) - (m - keep) = keep
    BY <1>3
  <2>6. \A j \in 1..keep : r[j] = s[1 + j - 1]
    BY <2>4, <2>5
  <2>7. a[p].items = r
    BY <1>2, <1>12, <1>13, <2>1, <2>3
  <2> QED BY <2>4, <2>5, <2>6, <2>7 DEF PartOf
<1>17. /\ a[p].leaf = n.leaf /\ a[p].next = n.next /\ a[q].leaf = n.leaf
       /\ a[p].parent = IF p \in Adopted(n, half) THEN q ELSE n.parent
       /\ a[q].parent = IF q \in Adopted(n, half) THEN q ELSE n.parent
  BY <1>9, <1>12, <1>13
<1>18. \A x \in DOMAIN pg \ {p, q} :
         /\ a[x].items = pg[x].items /\ a[x].leaf = pg[x].leaf /\ a[x].next = pg[x].next
         /\ a[x].parent = IF x \in Adopted(n, half) THEN q ELSE pg[x].parent
  BY <1>9, <1>13
<1>19. DOMAIN a = DOMAIN pg
  BY <1>9, <1>13
<1>20. half = SubSeq(n.items, keep + 1, Size(n))
  BY <1>2, <1>3, <1>5
<1>21. SplitInto(a, pg, p, q, n, keep, half)
  BY <1>2, <1>3, <1>13, <1>15, <1>16, <1>17, <1>18, <1>19 DEF SplitInto
<1> QED BY <1>1, <1>4, <1>14, <1>20, <1>21

-----------------------------------------------------------------------------
(***************************************************************************)
(* Splits.                                                                 *)
(***************************************************************************)

\* Putting items into one of two halves is putting them into the whole.
LEMMA InsertLeft ==
    ASSUME NEW s \in Items, NEW l \in Items, NEW r \in Items, NEW w \in Items, NEW keep \in 0..Len(s), NEW pos \in 0..keep,
           PartOf(l, s, 1, keep), PartOf(r, s, keep + 1, Len(s) - keep)
    PROVE  InsertItems(l, pos, w) \o r = InsertItems(s, pos, w)
<1>1. Len(s) \in Nat /\ Len(w) \in Nat
  BY ItemsAre
<1>2. l \in Items /\ Len(l) = keep /\ \A j \in 1..keep : l[j] = s[1 + j - 1]
  BY DEF PartOf
<1>3. r \in Items /\ Len(r) = Len(s) - keep /\ \A j \in 1..Len(s) - keep : r[j] = s[keep + 1 + j - 1]
  BY DEF PartOf
<1>4. PICK c : c = InsertItems(l, pos, w)
  OBVIOUS
<1>5. /\ c \in Items /\ Len(c) = Len(l) + Len(w)
      /\ \A j \in 1..Len(l) + Len(w) :
           c[j] = IF j <= pos THEN l[j] ELSE IF j <= pos + Len(w) THEN w[j - pos] ELSE l[j - Len(w)]
  <2>1. pos \in 0..Len(l)
    BY <1>2
  <2> QED BY <1>2, <1>4, <2>1, InsertedAre
<1>6. PICK d : d = c \o r
  OBVIOUS
<1>7. /\ d \in Items /\ Len(d) = Len(c) + Len(r)
      /\ \A j \in 1..Len(c) + Len(r) : d[j] = IF j <= Len(c) THEN c[j] ELSE r[j - Len(c)]
  BY <1>3, <1>5, <1>6, JoinIs
<1>8. PICK e : e = InsertItems(s, pos, w)
  OBVIOUS
<1>9. /\ e \in Items /\ Len(e) = Len(s) + Len(w)
      /\ \A j \in 1..Len(s) + Len(w) :
           e[j] = IF j <= pos THEN s[j] ELSE IF j <= pos + Len(w) THEN w[j - pos] ELSE s[j - Len(w)]
  <2>1. pos \in 0..Len(s)
    BY <1>1
  <2> QED BY <1>8, <2>1, InsertedAre
<1>10. Len(d) = Len(e)
  BY <1>1, <1>2, <1>3, <1>5, <1>7, <1>9
<1>11. ASSUME NEW j \in 1..Len(d) PROVE d[j] = e[j]
  <2>1. j \in 1..Len(s) + Len(w) /\ j \in 1..Len(c) + Len(r)
    BY <1>7, <1>9, <1>10
  <2>2. CASE j <= Len(c)
    <3>1. d[j] = c[j] /\ j \in 1..Len(l) + Len(w)
      BY <1>1, <1>2, <1>5, <1>7, <2>1, <2>2
    <3>2. CASE j <= pos
      <4>1. c[j] = l[j] /\ j \in 1..keep /\ 1 + j - 1 = j
        BY <1>5, <2>1, <3>1, <3>2
      <4> QED BY <1>2, <1>9, <2>1, <3>1, <3>2, <4>1
    <3>3. CASE ~(j <= pos) /\ j <= pos + Len(w)
      BY <1>5, <1>9, <2>1, <3>1, <3>3
    <3>4. CASE ~(j <= pos) /\ ~(j <= pos + Len(w))
      <4>1. c[j] = l[j - Len(w)] /\ e[j] = s[j - Len(w)]
        BY <1>5, <1>9, <2>1, <3>1, <3>4
      <4>2. j - Len(w) \in 1..keep /\ 1 + (j - Len(w)) - 1 = j - Len(w)
        BY <1>1, <1>2, <3>1, <3>4
      <4>3. l[j - Len(w)] = s[j - Len(w)]
        BY <1>2, <4>2
      <4> QED BY <3>1, <4>1, <4>3
    <3> QED BY <3>2, <3>3, <3>4
  <2>3. CASE ~(j <= Len(c))
    <3>1. d[j] = r[j - Len(c)]
      BY <1>7, <2>1, <2>3
    <3>2. j - Len(c) \in 1..Len(s) - keep /\ keep + 1 + (j - Len(c)) - 1 = j - Len(w)
      BY <1>1, <1>2, <1>3, <1>5, <2>1, <2>3
    <3>3. r[j - Len(c)] = s[keep + 1 + (j - Len(c)) - 1]
      BY <1>3, <3>2
    <3>4. ~(j <= pos) /\ ~(j <= pos + Len(w))
      BY <1>1, <1>2, <1>5, <2>3
    <3>5. e[j] = s[j - Len(w)]
      BY <1>9, <2>1, <3>4
    <3> QED BY <3>1, <3>2, <3>3, <3>5
  <2> QED BY <2>2, <2>3
<1>12. d = e
  BY <1>7, <1>9, <1>10, <1>11, SameItems
<1> QED BY <1>4, <1>6, <1>8, <1>12

LEMMA InsertRight ==
    ASSUME NEW s \in Items, NEW l \in Items, NEW r \in Items, NEW w \in Items, NEW keep \in 0..Len(s),
           NEW at \in 0..Len(s) - keep,
           PartOf(l, s, 1, keep), PartOf(r, s, keep + 1, Len(s) - keep)
    PROVE  l \o InsertItems(r, at, w) = InsertItems(s, keep + at, w)
<1>1. Len(s) \in Nat /\ Len(w) \in Nat
  BY ItemsAre
<1>2. l \in Items /\ Len(l) = keep /\ \A j \in 1..keep : l[j] = s[1 + j - 1]
  BY DEF PartOf
<1>3. r \in Items /\ Len(r) = Len(s) - keep /\ \A j \in 1..Len(s) - keep : r[j] = s[keep + 1 + j - 1]
  BY DEF PartOf
<1>4. PICK pos \in keep..Len(s) : pos = keep + at /\ at \in 0..Len(r)
  BY <1>1, <1>3
<1>5. PICK c : c = InsertItems(r, at, w)
  OBVIOUS
<1>6. /\ c \in Items /\ Len(c) = Len(r) + Len(w)
      /\ \A j \in 1..Len(r) + Len(w) :
           c[j] = IF j <= at THEN r[j] ELSE IF j <= at + Len(w) THEN w[j - at] ELSE r[j - Len(w)]
  BY <1>3, <1>4, <1>5, InsertedAre
<1>7. PICK d : d = l \o c
  OBVIOUS
<1>8. /\ d \in Items /\ Len(d) = Len(l) + Len(c)
      /\ \A j \in 1..Len(l) + Len(c) : d[j] = IF j <= Len(l) THEN l[j] ELSE c[j - Len(l)]
  BY <1>2, <1>6, <1>7, JoinIs
<1>9. PICK e : e = InsertItems(s, pos, w)
  OBVIOUS
<1>10. /\ e \in Items /\ Len(e) = Len(s) + Len(w)
       /\ \A j \in 1..Len(s) + Len(w) :
            e[j] = IF j <= pos THEN s[j] ELSE IF j <= pos + Len(w) THEN w[j - pos] ELSE s[j - Len(w)]
  <2>1. pos \in 0..Len(s)
    BY <1>1, <1>4
  <2> QED BY <1>9, <2>1, InsertedAre
<1>11. Len(d) = Len(e)
  BY <1>1, <1>2, <1>3, <1>6, <1>8, <1>10
<1>12. ASSUME NEW j \in 1..Len(d) PROVE d[j] = e[j]
  <2>1. j \in 1..Len(s) + Len(w) /\ j \in 1..Len(l) + Len(c)
    BY <1>8, <1>10, <1>11
  <2>2. CASE j <= keep
    <3>1. d[j] = l[j] /\ j \in 1..keep /\ 1 + j - 1 = j /\ j <= pos
      BY <1>2, <1>4, <1>8, <2>1, <2>2
    <3> QED BY <1>2, <1>10, <2>1, <3>1
  <2>3. CASE ~(j <= keep)
    <3>1. PICK i \in 1..Len(r) + Len(w) : i = j - keep
      BY <1>1, <1>2, <1>3, <1>6, <2>1, <2>3
    <3>2. d[j] = c[i]
      BY <1>2, <1>8, <2>1, <2>3, <3>1
    <3>3. CASE i <= at
      <4>1. c[i] = r[i] /\ i \in 1..Len(s) - keep /\ keep + 1 + i - 1 = j /\ j <= pos
        BY <1>3, <1>4, <1>6, <2>1, <3>1, <3>3
      <4>2. r[i] = s[keep + 1 + i - 1]
        BY <1>3, <4>1
      <4> QED BY <1>10, <2>1, <3>2, <4>1, <4>2
    <3>4. CASE ~(i <= at) /\ i <= at + Len(w)
      <4>1. c[i] = w[i - at] /\ i - at = j - pos /\ ~(j <= pos) /\ j <= pos + Len(w)
        <5>1. c[i] = w[i - at]
          BY <1>6, <3>1, <3>4
        <5>2. i - at = j - pos /\ ~(j <= pos) /\ j <= pos + Len(w)
          BY <1>1, <1>4, <3>1, <3>4
        <5> QED BY <5>1, <5>2
      <4> QED BY <1>10, <2>1, <3>2, <4>1
    <3>5. CASE ~(i <= at) /\ ~(i <= at + Len(w))
      <4>1. c[i] = r[i - Len(w)] /\ ~(j <= pos) /\ ~(j <= pos + Len(w))
        <5>1. c[i] = r[i - Len(w)]
          BY <1>6, <3>1, <3>5
        <5>2. i - at = j - pos
          BY <1>4, <3>1
        <5>3. j > pos /\ j > pos + Len(w)
          BY <1>1, <1>4, <3>1, <3>5
        <5> QED BY <1>1, <1>4, <5>1, <5>3
      <4>2. i - Len(w) \in 1..Len(s) - keep /\ keep + 1 + (i - Len(w)) - 1 = j - Len(w)
        BY <1>1, <1>3, <1>4, <2>1, <3>1, <3>5
      <4>3. r[i - Len(w)] = s[keep + 1 + (i - Len(w)) - 1]
        BY <1>3, <4>2
      <4> QED BY <1>10, <2>1, <3>2, <4>1, <4>2, <4>3
    <3> QED BY <3>3, <3>4, <3>5
  <2> QED BY <2>2, <2>3
<1>13. d = e
  BY <1>8, <1>10, <1>11, <1>12, SameItems
<1> QED BY <1>4, <1>5, <1>7, <1>9, <1>13

\* s is cut into l and r after "keep" items: w put into one of them is put into s.
LeftCut(l, r, s, keep, at, w)  == InsertItems(l, at, w) \o r = InsertItems(s, at, w)
RightCut(l, r, s, keep, at, w) == l \o InsertItems(r, at, w) = InsertItems(s, keep + at, w)

LEMMA InsertLeftCut ==
    ASSUME NEW s \in Items, NEW l \in Items, NEW r \in Items, NEW w \in Items, NEW keep \in 0..Len(s), NEW at \in 0..keep,
           PartOf(l, s, 1, keep), PartOf(r, s, keep + 1, Len(s) - keep)
    PROVE  LeftCut(l, r, s, keep, at, w)
  BY InsertLeft DEF LeftCut

LEMMA InsertRightCut ==
    ASSUME NEW s \in Items, NEW l \in Items, NEW r \in Items, NEW w \in Items, NEW keep \in 0..Len(s),
           NEW at \in 0..Len(s) - keep, PartOf(l, s, 1, keep), PartOf(r, s, keep + 1, Len(s) - keep)
    PROVE  RightCut(l, r, s, keep, at, w)
  BY InsertRight DEF RightCut

\* The parts of what is in order are in order, and all of the left part is below the right one.
LEMMA OrderedParts ==
    ASSUME NEW l \in Items, NEW r \in Items, NEW from \in 1..2, from <= Len(l) + 1, Ordered(l \o r, from)
    PROVE  /\ Ordered(l, from) /\ Ordered(r, 1)
           /\ \A i \in from..Len(l) : \A j \in 1..Len(r) : KeyLess(l[i].k, r[j].k)
<1>1. Len(l) \in Nat /\ Len(r) \in Nat
  BY ItemsAre
<1>2. PICK d : d = l \o r
  OBVIOUS
<1>3. /\ Len(d) = Len(l) + Len(r)
      /\ \A i \in 1..Len(l) + Len(r) : d[i] = IF i <= Len(l) THEN l[i] ELSE r[i - Len(l)]
  BY <1>2, JoinIs
<1>4. \A i, j \in from..Len(l) + Len(r) : i < j => KeyLess(d[i].k, d[j].k)
  BY <1>2, <1>3 DEF Ordered
<1>5. \A i \in from..Len(l) : i \in from..Len(l) + Len(r) /\ d[i] = l[i]
  BY <1>1, <1>3
<1>6. \A j \in 1..Len(r) : Len(l) + j \in from..Len(l) + Len(r) /\ d[Len(l) + j] = r[j]
  <2> TAKE j \in 1..Len(r)
  <2>1. Len(l) + j \in from..Len(l) + Len(r) /\ Len(l) + j \in 1..Len(l) + Len(r) /\ ~(Len(l) + j <= Len(l))
    BY <1>1
  <2>2. d[Len(l) + j] = r[Len(l) + j - Len(l)] /\ Len(l) + j - Len(l) = j
    BY <1>1, <1>3, <2>1
  <2> QED BY <2>1, <2>2
<1>7. Ordered(l, from)
  BY <1>4, <1>5 DEF Ordered
<1>8. Ordered(r, 1)
  <2> SUFFICES ASSUME NEW i \in 1..Len(r), NEW j \in 1..Len(r), i < j PROVE KeyLess(r[i].k, r[j].k)
    BY DEF Ordered
  <2>1. Len(l) + i < Len(l) + j
    BY <1>1
  <2> QED BY <1>4, <1>6, <2>1
<1>9. ASSUME NEW i \in from..Len(l), NEW j \in 1..Len(r) PROVE KeyLess(l[i].k, r[j].k)
  <2>1. i < Len(l) + j
    BY <1>1
  <2> QED BY <1>4, <1>5, <1>6, <2>1
<1> QED BY <1>7, <1>8, <1>9

\* A full leaf is split and the new entry goes to one of the halves: the two leaves hold the old
\* entries and the new one, in order, the left all below the right, in the chain where the old leaf
\* was, and no other page is changed (insert_entry_into_leaf_node and split).
THEOREM LeafSplitKeepsItems ==
    ASSUME NEW pg, NEW p \in DOMAIN pg, NEW q \in DOMAIN pg, NEW item \in ItemRec,
           TreeOf(pg), p # q, IsLeaf(pg[p]), Size(pg[p]) >= 2, Sorted(pg[p], 1), ~Exists(pg[p], item.k)
    PROVE  LET n == pg[p]
               a == ApplyAll(pg, LeafSplitOps(pg, p, q, item))
           IN  /\ a[p].items \o a[q].items = InsertItems(n.items, LeafLookup(n, item.k), <<item>>)
               /\ Sorted(a[p], 1) /\ Sorted(a[q], 1)
               /\ Size(a[p]) \in 1..Size(n) /\ Size(a[q]) \in 1..Size(n)
               /\ KeyLess(KeyAt(a[p], Size(a[p]) - 1), KeyAt(a[q], 0))
               /\ a[p].leaf /\ a[p].parent = n.parent /\ a[p].next = q
               /\ a[q].leaf /\ a[q].parent = n.parent /\ a[q].next = n.next
               /\ \A x \in DOMAIN pg \ {p, q} : a[x] = pg[x]
<1>1. PICK n : n = pg[p]
  OBVIOUS
<1>2. PICK s \in Items : s = n.items
  BY <1>1 DEF TreeOf, IsNode
<1>3. PICK m \in Nat : m = Len(s) /\ m = Size(n) /\ m >= 2
  BY <1>1, <1>2, ItemsAre DEF Size
<1>4. PICK keep \in 1..m - 1 : keep = Size(n) \div 2
  BY <1>3, Halves
<1>5. PICK half : half = SubSeq(n.items, keep + 1, Size(n))
  OBVIOUS
<1>6. PICK b : b = ApplyAll(pg, SplitOps(pg, p, q))
  OBVIOUS
<1>7. Adopted(n, half) = {}
  BY <1>1 DEF Adopted, IsLeaf
<1>8. /\ IsSeq(SplitOps(pg, p, q))
      /\ DOMAIN b = DOMAIN pg /\ TreeOf(b)
      /\ PartOf(b[p].items, s, 1, keep)
      /\ PartOf(b[q].items, s, keep + 1, m - keep)
      /\ b[p].leaf = n.leaf /\ b[p].next = n.next /\ b[q].leaf = n.leaf
      /\ b[p].parent = n.parent /\ b[q].parent = n.parent
      /\ \A x \in DOMAIN pg \ {p, q} :
           /\ b[x].items = pg[x].items /\ b[x].leaf = pg[x].leaf /\ b[x].next = pg[x].next
           /\ b[x].parent = pg[x].parent
  <2>1. Size(pg[p]) >= 2
    BY <1>1, <1>3
  <2>2. IsSeq(SplitOps(pg, p, q)) /\ SplitInto(b, pg, p, q, n, keep, half)
    BY <1>1, <1>4, <1>5, <1>6, <2>1, SplitDoes
  <2> QED BY <1>2, <1>3, <1>7, <2>2 DEF SplitInto
<1>9. \A x \in DOMAIN pg \ {p, q} : b[x] = pg[x]
  BY <1>8 DEF TreeOf, IsNode
<1>10. PICK three : three = <<SetNext(q, n.next), SetParent(q, n.parent), SetNext(p, q)>>
  OBVIOUS
<1>11. PICK c1 : c1 = ApplyAll(b, <<SetNext(q, n.next)>>)
  OBVIOUS
<1>12. /\ DOMAIN c1 = DOMAIN pg /\ TreeOf(c1)
       /\ c1[q] = [b[q] EXCEPT !.next = n.next]
       /\ \A x \in DOMAIN pg \ {q} : c1[x] = b[x]
  BY <1>8, <1>11, TreeNextDoes
<1>13. PICK c2 : c2 = ApplyAll(c1, <<SetParent(q, n.parent)>>)
  OBVIOUS
<1>14. /\ DOMAIN c2 = DOMAIN pg /\ TreeOf(c2)
       /\ c2[q] = [c1[q] EXCEPT !.parent = n.parent]
       /\ \A x \in DOMAIN pg \ {q} : c2[x] = c1[x]
  <2>1. q \in DOMAIN c1 /\ TreeOf(c1)
    BY <1>12
  <2>2. /\ DOMAIN c2 = DOMAIN c1 /\ TreeOf(c2)
        /\ c2[q] = [c1[q] EXCEPT !.parent = n.parent]
        /\ \A x \in DOMAIN c1 \ {q} : c2[x] = c1[x]
    <3>1. PICK to : to = n.parent
      OBVIOUS
    <3>2. c2 = ApplyAll(c1, <<SetParent(q, to)>>)
      BY <1>13, <3>1
    <3> QED BY <2>1, <3>1, <3>2, TreeParentDoes
  <2> QED BY <1>12, <2>2
<1>15. PICK c : c = ApplyAll(c2, <<SetNext(p, q)>>)
  OBVIOUS
<1>16. /\ DOMAIN c = DOMAIN pg /\ TreeOf(c)
       /\ c[p] = [c2[p] EXCEPT !.next = q]
       /\ \A x \in DOMAIN pg \ {p} : c[x] = c2[x]
  BY <1>14, <1>15, TreeNextDoes
<1>17. /\ c[p].items = b[p].items /\ c[p].leaf = n.leaf /\ c[p].parent = n.parent /\ c[p].next = q
       /\ c[q].items = b[q].items /\ c[q].leaf = n.leaf /\ c[q].parent = n.parent /\ c[q].next = n.next
       /\ \A x \in DOMAIN pg \ {p, q} : c[x] = pg[x]
  <2>1. /\ b[p] = [leaf |-> b[p].leaf, items |-> b[p].items, parent |-> b[p].parent, next |-> b[p].next]
        /\ b[q] = [leaf |-> b[q].leaf, items |-> b[q].items, parent |-> b[q].parent, next |-> b[q].next]
    BY <1>8 DEF TreeOf, IsNode
  <2>2. c2[p] = b[p] /\ c[p] = [b[p] EXCEPT !.next = q]
    BY <1>12, <1>14, <1>16
  <2>3. c[q] = [[b[q] EXCEPT !.next = n.next] EXCEPT !.parent = n.parent]
    BY <1>12, <1>14, <1>16
  <2>4. \A x \in DOMAIN pg \ {p, q} : c[x] = b[x]
    BY <1>12, <1>14, <1>16
  <2> QED BY <1>8, <1>9, <2>1, <2>2, <2>3, <2>4
<1>18. IsSeq(three) /\ ApplyAll(b, three) = c
  BY <1>10, <1>11, <1>13, <1>15, ApplyThree
<1>19. PICK pos : pos = LeafLookup(n, item.k)
  OBVIOUS
<1>20. pos \in 0..m
  <2>1. IsNode(n) /\ Sorted(n, 1) /\ item.k \in Key
    BY <1>1 DEF TreeOf, ItemRec
  <2> QED BY <1>3, <1>19, <2>1, LeafLookupFinds
<1>21. PICK w : w = <<item>>
  OBVIOUS
<1>22. w \in Items /\ Len(w) = 1
  BY <1>21 DEF Items
<1>23. PICK last : last = IF pos < keep THEN NodeInsert(p, pos, w) ELSE NodeInsert(q, pos - keep, w)
  OBVIOUS
<1>24. PICK a : a = ApplyAll(c, <<last>>)
  OBVIOUS
<1>25. ApplyAll(pg, LeafSplitOps(pg, p, q, item)) = a
  <2>1. PICK sp : sp = SplitOps(pg, p, q)
    OBVIOUS
  <2>2. PICK one : one = <<last>>
    OBVIOUS
  <2>3. LeafSplitOps(pg, p, q, item) = (sp \o three) \o one
    BY <1>1, <1>4, <1>10, <1>19, <1>21, <1>23, <2>1, <2>2 DEF LeafSplitOps
  <2>4. IsSeq(sp \o three) /\ ApplyAll(pg, sp \o three) = c
    BY <1>6, <1>8, <1>18, <2>1, ApplySeqs
  <2>5. IsSeq(one)
    BY <2>2, OneIsSeq
  <2>6. ApplyAll(pg, (sp \o three) \o one) = ApplyAll(ApplyAll(pg, sp \o three), one)
    BY <2>4, <2>5, ApplySeqs
  <2> QED BY <1>24, <2>2, <2>3, <2>4, <2>6
<1>26. Size(c[p]) = keep /\ Size(c[q]) = m - keep
  BY <1>8, <1>17 DEF Size, PartOf
<1>27. /\ DOMAIN a = DOMAIN pg /\ TreeOf(a)
       /\ a[p].leaf = n.leaf /\ a[p].parent = n.parent /\ a[p].next = q
       /\ a[q].leaf = n.leaf /\ a[q].parent = n.parent /\ a[q].next = n.next
       /\ \A x \in DOMAIN pg \ {p, q} : a[x] = pg[x]
       /\ a[p].items \o a[q].items = InsertItems(s, pos, w)
       /\ Len(a[p].items) \in 1..m /\ Len(a[q].items) \in 1..m
  <2>1. CASE pos < keep
    <3>1. last = NodeInsert(p, pos, w) /\ pos \in 0..Size(c[p]) /\ p \in DOMAIN c
      BY <1>16, <1>20, <1>23, <1>26, <2>1
    <3>2. /\ DOMAIN a = DOMAIN c /\ TreeOf(a)
          /\ a[p].items = InsertItems(c[p].items, pos, w)
          /\ a[p].leaf = c[p].leaf /\ a[p].parent = c[p].parent /\ a[p].next = c[p].next
          /\ \A x \in DOMAIN c \ {p} : a[x] = c[x]
      <4>1. a = ApplyAll(c, <<NodeInsert(p, pos, w)>>)
        BY <1>24, <3>1
      <4>2. TreeOf(c) /\ p \in DOMAIN c /\ pos \in 0..Size(c[p]) /\ w \in Items
        BY <1>16, <1>22, <3>1
      <4> QED BY <4>1, <4>2, TreeInsertDoes
    <3>3. a[q] = c[q]
      BY <1>16, <3>2
    <3>4. InsertItems(b[p].items, pos, w) \o b[q].items = InsertItems(s, pos, w)
      <4>1. keep \in 0..Len(s) /\ pos \in 0..keep /\ PartOf(b[q].items, s, keep + 1, Len(s) - keep)
        BY <1>3, <1>8, <1>20, <2>1
      <4>2. keep + 1 >= 1 /\ PartOf(b[p].items, s, 1, keep) /\ w \in Items
        BY <1>8, <1>22
      <4>3. PICK bl : bl = b[p].items
        OBVIOUS
      <4>4. PICK br : br = b[q].items
        OBVIOUS
      <4>5. PartOf(bl, s, 1, keep) /\ PartOf(br, s, keep + 1, Len(s) - keep)
        BY <4>1, <4>2, <4>3, <4>4
      <4>6. InsertItems(bl, pos, w) \o br = InsertItems(s, pos, w)
        <5>1. /\ s \in Items /\ w \in Items /\ keep \in 0..Len(s)
              /\ PartOf(bl, s, 1, keep) /\ PartOf(br, s, keep + 1, Len(s) - keep)
          BY <1>2, <4>1, <4>2, <4>5
        <5>2. pos \in 0..keep
          BY <4>1
        <5>3. bl \in Items /\ br \in Items
          BY <5>1 DEF PartOf
        <5> QED BY <5>1, <5>2, <5>3, InsertLeft
      <4> QED BY <4>3, <4>4, <4>6
    <3>5. Len(a[p].items) = keep + 1 /\ Len(a[q].items) = m - keep
      <4>1. b[p].items \in Items /\ Len(b[p].items) = keep /\ Len(b[q].items) = m - keep
        BY <1>8 DEF PartOf
      <4>2. pos \in 0..Len(b[p].items)
        BY <1>20, <2>1, <4>1
      <4>3. Len(InsertItems(b[p].items, pos, w)) = Len(b[p].items) + Len(w)
        <5>1. PICK e \in Items : e = b[p].items
          BY <4>1
        <5>2. PICK at \in 0..Len(e) : at = pos
          BY <4>2, <5>1
        <5>3. Len(InsertItems(e, at, w)) = Len(e) + Len(w)
          <6>1. PICK c3 : c3 = InsertItems(e, at, w)
            OBVIOUS
          <6>2. c3 \in Items /\ Len(c3) = Len(e) + Len(w)
            <7>1. e \in Items /\ at \in 0..Len(e) /\ w \in Items
              BY <1>22, <5>1, <5>2
            <7> QED BY <6>1, <7>1, InsertedAre
          <6> QED BY <6>1, <6>2
        <5> QED BY <5>1, <5>2, <5>3
      <4> QED BY <1>17, <1>22, <3>2, <3>3, <4>1, <4>3
    <3>6. keep + 1 \in 1..m /\ m - keep \in 1..m
      BY <1>3
    <3>7. Len(a[p].items) \in 1..m /\ Len(a[q].items) \in 1..m
      BY <3>5, <3>6
    <3>8. a[p].items \o a[q].items = InsertItems(s, pos, w)
      BY <1>17, <3>2, <3>3, <3>4
    <3>9. \A x \in DOMAIN pg \ {p, q} : a[x] = pg[x]
      BY <1>16, <1>17, <3>2
    <3> QED BY <1>16, <1>17, <3>2, <3>3, <3>7, <3>8, <3>9
  <2>2. CASE ~(pos < keep)
    <3>1. last = NodeInsert(q, pos - keep, w) /\ pos - keep \in 0..Size(c[q]) /\ q \in DOMAIN c
      BY <1>16, <1>20, <1>23, <1>26, <2>2
    <3>2. /\ DOMAIN a = DOMAIN c /\ TreeOf(a)
          /\ a[q].items = InsertItems(c[q].items, pos - keep, w)
          /\ a[q].leaf = c[q].leaf /\ a[q].parent = c[q].parent /\ a[q].next = c[q].next
          /\ \A x \in DOMAIN c \ {q} : a[x] = c[x]
      <4>1. PICK at : at = pos - keep
        OBVIOUS
      <4>2. a = ApplyAll(c, <<NodeInsert(q, at, w)>>) /\ at \in 0..Size(c[q])
        BY <1>24, <3>1, <4>1
      <4> QED BY <1>16, <1>22, <3>1, <4>1, <4>2, TreeInsertDoes
    <3>3. a[p] = c[p]
      BY <1>16, <3>2
    <3>4. b[p].items \o InsertItems(b[q].items, pos - keep, w) = InsertItems(s, pos, w)
      <4>1. keep \in 0..Len(s) /\ pos \in keep..Len(s) /\ PartOf(b[q].items, s, keep + 1, Len(s) - keep)
        BY <1>3, <1>8, <1>20, <2>2
      <4>2. PartOf(b[p].items, s, 1, keep) /\ w \in Items
        BY <1>8, <1>22
      <4>3. PICK bl : bl = b[p].items
        OBVIOUS
      <4>4. PICK br : br = b[q].items
        OBVIOUS
      <4>5. PartOf(bl, s, 1, keep) /\ PartOf(br, s, keep + 1, Len(s) - keep)
        BY <4>1, <4>2, <4>3, <4>4
      <4>6. PICK at : at = pos - keep
        OBVIOUS
      <4>7. at \in 0..Len(s) - keep /\ keep + at = pos
        BY <1>3, <4>1, <4>6
      <4>8. bl \o InsertItems(br, at, w) = InsertItems(s, keep + at, w)
        <5>1. /\ s \in Items /\ w \in Items /\ keep \in 0..Len(s)
              /\ PartOf(bl, s, 1, keep) /\ PartOf(br, s, keep + 1, Len(s) - keep)
          BY <1>2, <4>1, <4>2, <4>5
        <5>2. bl \in Items /\ br \in Items /\ at \in 0..Len(s) - keep
          BY <4>7, <5>1 DEF PartOf
        <5>3. RightCut(bl, br, s, keep, at, w)
          BY <5>1, <5>2, InsertRightCut
        <5> QED BY <5>3 DEF RightCut
      <4> QED BY <4>3, <4>4, <4>6, <4>7, <4>8
    <3>5. Len(a[p].items) = keep /\ Len(a[q].items) = m - keep + 1
      <4>1. b[q].items \in Items /\ Len(b[p].items) = keep /\ Len(b[q].items) = m - keep
        BY <1>8 DEF PartOf
      <4>2. pos - keep \in 0..Len(b[q].items)
        BY <1>20, <2>2, <4>1
      <4>3. Len(InsertItems(b[q].items, pos - keep, w)) = Len(b[q].items) + Len(w)
        <5>1. PICK e \in Items : e = b[q].items
          BY <4>1
        <5>2. PICK at \in 0..Len(e) : at = pos - keep
          BY <4>2, <5>1
        <5>3. Len(InsertItems(e, at, w)) = Len(e) + Len(w)
          <6>1. PICK c3 : c3 = InsertItems(e, at, w)
            OBVIOUS
          <6>2. c3 \in Items /\ Len(c3) = Len(e) + Len(w)
            <7>1. e \in Items /\ at \in 0..Len(e) /\ w \in Items
              BY <1>22, <5>1, <5>2
            <7> QED BY <6>1, <7>1, InsertedAre
          <6> QED BY <6>1, <6>2
        <5> QED BY <5>1, <5>2, <5>3
      <4> QED BY <1>17, <1>22, <3>2, <3>3, <4>1, <4>3
    <3>6. keep \in 1..m /\ m - keep + 1 \in 1..m
      BY <1>3
    <3>7. Len(a[p].items) \in 1..m /\ Len(a[q].items) \in 1..m
      BY <3>5, <3>6
    <3>8. a[p].items \o a[q].items = InsertItems(s, pos, w)
      BY <1>17, <3>2, <3>3, <3>4
    <3>9. \A x \in DOMAIN pg \ {p, q} : a[x] = pg[x]
      BY <1>16, <1>17, <3>2
    <3> QED BY <1>16, <1>17, <3>2, <3>3, <3>7, <3>8, <3>9
  <2> QED BY <2>1, <2>2
<1>28. Ordered(InsertItems(s, pos, w), 1)
  <2>1. PICK o : o = ApplyTo(n, NodeInsert(p, pos, w))
    OBVIOUS
  <2>2. IsNode(n) /\ Sorted(n, 1) /\ ~Exists(n, item.k)
    BY <1>1 DEF TreeOf
  <2>3. IsNode(o) /\ Sorted(o, 1)
    BY <1>19, <1>21, <2>1, <2>2, LeafInsertKeepsOrder
  <2>4. o.items = InsertItems(s, pos, w)
    <3>1. pos \in 0..Size(n)
      BY <1>3, <1>20
    <3>2. o.items = InsertItems(n.items, pos, w)
      BY <1>22, <2>1, <2>2, <3>1, InsertDoes
    <3> QED BY <1>2, <3>2
  <2>5. 1 \in 1..2
    OBVIOUS
  <2> QED BY <2>3, <2>4, <2>5, OrderedIs
<1>29. PICK l \in Items : l = a[p].items
  BY <1>27 DEF TreeOf, IsNode
<1>30. PICK r \in Items : r = a[q].items
  BY <1>27 DEF TreeOf, IsNode
<1>31. Ordered(l, 1) /\ Ordered(r, 1) /\ \A i \in 1..Len(l) : \A j \in 1..Len(r) : KeyLess(l[i].k, r[j].k)
  <2>1. 1 \in 1..2 /\ 1 <= Len(l) + 1 /\ Ordered(l \o r, 1)
    <3>1. Len(l) \in Nat
      BY ItemsAre
    <3>2. l \o r = InsertItems(s, pos, w)
      BY <1>27, <1>29, <1>30
    <3> QED BY <1>28, <3>1, <3>2
  <2> QED BY <2>1, OrderedParts
<1>32. Sorted(a[p], 1) /\ Sorted(a[q], 1)
  <2>1. IsNode(a[p]) /\ IsNode(a[q]) /\ 1 \in 1..2
    BY <1>27 DEF TreeOf
  <2> QED BY <1>29, <1>30, <1>31, <2>1, OrderedIs
<1>33. Size(a[p]) = Len(l) /\ Size(a[q]) = Len(r) /\ Len(l) \in 1..m /\ Len(r) \in 1..m
  BY <1>27, <1>29, <1>30 DEF Size
<1>34. KeyLess(KeyAt(a[p], Size(a[p]) - 1), KeyAt(a[q], 0))
  <2>1. KeyAt(a[p], Size(a[p]) - 1) = l[Len(l)].k /\ KeyAt(a[q], 0) = r[1].k
    BY <1>29, <1>30, <1>33 DEF KeyAt
  <2>2. Len(l) \in 1..Len(l) /\ 1 \in 1..Len(r)
    BY <1>33
  <2> QED BY <1>31, <2>1, <2>2
<1>35. n.leaf
  BY <1>1 DEF IsLeaf
<1> QED BY <1>1, <1>2, <1>3, <1>19, <1>21, <1>25, <1>27, <1>32, <1>33, <1>34, <1>35

-----------------------------------------------------------------------------
(***************************************************************************)
(* A new child in its parent.                                              *)
(***************************************************************************)

\* The position of a key behind the first one is where the smaller keys end.
LEMMA PositionIs ==
    ASSUME NEW s \in Items, NEW k \in Key, NEW c \in 0..Len(s) - 1, Ordered(s, 2),
           \A i \in 2..c + 1 : KeyLess(s[i].k, k),
           \A i \in c + 2..Len(s) : ~KeyLess(s[i].k, k)
    PROVE  Cardinality({i \in 2..Len(s) : KeyLess(s[i].k, k)}) = c
<1>1. Len(s) \in Nat
  BY ItemsAre
<1>2. PICK S : S = {i \in 2..Len(s) : KeyLess(s[i].k, k)}
  OBVIOUS
<1>3. S = 2..c + 1
  <2>1. ASSUME NEW i \in S PROVE i \in 2..c + 1
    BY <1>1, <1>2, <2>1
  <2>2. ASSUME NEW i \in 2..c + 1 PROVE i \in S
    <3>1. i \in 2..Len(s) /\ KeyLess(s[i].k, k)
      BY <1>1, <2>2
    <3> QED BY <1>2, <3>1
  <2> QED BY <2>1, <2>2
<1>4. PICK e \in Int : e = c + 1
  BY <1>1
<1>5. Cardinality(2..e) = IF 2 > e THEN 0 ELSE e - 2 + 1
  <2>1. 2 \in Int
    OBVIOUS
  <2> QED BY <1>4, <2>1, FS_Interval
<1>6. Cardinality(S) = c
  BY <1>1, <1>3, <1>4, <1>5
<1> QED BY <1>2, <1>6

\* An entry whose key lies inside the range of entry c goes directly behind c.
LEMMA BehindRange ==
    ASSUME NEW n, NEW k \in Key, NEW c \in 0..Size(n) - 1, IsNode(n), Sorted(n, 2),
           c # 0 => KeyLess(KeyAt(n, c), k),
           c < Size(n) - 1 => KeyLess(k, KeyAt(n, c + 1))
    PROVE  /\ InsertPosition(n, k) = c + 1
           /\ \A i \in 2..c + 1 : KeyLess(n.items[i].k, k)
           /\ \A i \in c + 2..Size(n) : KeyLess(k, n.items[i].k)
<1>1. PICK s \in Items : s = n.items
  BY DEF IsNode
<1>2. Len(s) \in Nat /\ (\A l \in 1..Len(s) : s[l].k \in Key) /\ Ordered(s, 2) /\ Size(n) = Len(s)
  BY <1>1, ItemsAre, OrderedIs DEF Size
<1>3. c \in 0..Len(s) - 1
  BY <1>2
<1>4. ASSUME NEW i \in 2..c + 1 PROVE KeyLess(s[i].k, k)
  <2>1. c # 0 /\ KeyLess(s[c + 1].k, k) /\ c + 1 \in 2..Len(s) /\ i \in 2..Len(s)
    BY <1>1, <1>2, <1>3 DEF KeyAt
  <2>2. CASE i = c + 1
    BY <2>1, <2>2
  <2>3. CASE i # c + 1
    <3>1. KeyLess(s[i].k, s[c + 1].k)
      BY <1>2, <1>3, <2>1, <2>3 DEF Ordered
    <3>2. i \in 1..Len(s) /\ c + 1 \in 1..Len(s)
      BY <1>2, <2>1
    <3> QED BY <1>2, <2>1, <3>1, <3>2, KeyOrder
  <2> QED BY <2>2, <2>3
<1>5. ASSUME NEW i \in c + 2..Len(s) PROVE KeyLess(k, s[i].k)
  <2>1. KeyLess(k, s[c + 2].k) /\ c + 2 \in 2..Len(s) /\ i \in 2..Len(s)
    <3>1. c < Size(n) - 1 /\ c + 1 + 1 = c + 2
      BY <1>2, <1>3
    <3> QED BY <1>1, <1>2, <1>3, <3>1 DEF KeyAt
  <2>2. CASE i = c + 2
    BY <2>1, <2>2
  <2>3. CASE i # c + 2
    <3>1. KeyLess(s[c + 2].k, s[i].k)
      BY <1>2, <1>3, <2>1, <2>3 DEF Ordered
    <3>2. i \in 1..Len(s) /\ c + 2 \in 1..Len(s)
      BY <1>2, <2>1
    <3> QED BY <1>2, <2>1, <3>1, <3>2, KeyOrder
  <2> QED BY <2>2, <2>3
<1>6. \A i \in c + 2..Len(s) : ~KeyLess(s[i].k, k)
  <2> TAKE i \in c + 2..Len(s)
  <2>1. s[i].k \in Key
    BY <1>2, <1>3
  <2> QED BY <1>5, <2>1, KeyOrder
<1>7. Cardinality({i \in 2..Len(s) : KeyLess(s[i].k, k)}) = c
  BY <1>2, <1>3, <1>4, <1>6, PositionIs
<1>8. InsertPosition(n, k) = 1 + Cardinality({i \in 2..Len(s) : KeyLess(s[i].k, k)})
  BY <1>1 DEF InsertPosition, Size
<1>9. InsertPosition(n, k) = c + 1
  BY <1>3, <1>7, <1>8
<1> QED BY <1>1, <1>2, <1>4, <1>5, <1>9

\* The new half of a split node becomes a child directly behind the old one: c is the entry of the
\* node that was split, and the first key sep of the new half lies inside the range of c
\* (insert_entry_into_parent, with room in the parent).
THEOREM ParentInsertBehind ==
    ASSUME NEW pg, NEW pp \in DOMAIN pg, NEW q \in DOMAIN pg, NEW sep \in Key, NEW c \in 0..Size(pg[pp]) - 1,
           TreeOf(pg), pp # q, q \in Int, Sorted(pg[pp], 2),
           c # 0 => KeyLess(KeyAt(pg[pp], c), sep),
           c < Size(pg[pp]) - 1 => KeyLess(sep, KeyAt(pg[pp], c + 1))
    PROVE  LET a == ApplyAll(pg, ParentInsertOps(pg, pp, q, sep))
           IN  /\ a[pp].items = InsertItems(pg[pp].items, c + 1, <<Item(sep, q)>>)
               /\ Sorted(a[pp], 2)
               /\ a[pp].leaf = pg[pp].leaf /\ a[pp].parent = pg[pp].parent /\ a[pp].next = pg[pp].next
               /\ a[q] = [pg[q] EXCEPT !.parent = pp]
               /\ \A x \in DOMAIN pg \ {pp, q} : a[x] = pg[x]
<1>1. PICK n : n = pg[pp]
  OBVIOUS
<1>2. IsNode(n) /\ Sorted(n, 2) /\ c \in 0..Size(n) - 1
  BY <1>1 DEF TreeOf
<1>3. PICK s \in Items : s = n.items
  BY <1>2 DEF IsNode
<1>4. Size(n) = Len(s) /\ Len(s) \in Nat /\ Ordered(s, 2)
  BY <1>2, <1>3, ItemsAre, OrderedIs DEF Size
<1>5. /\ InsertPosition(n, sep) = c + 1
      /\ \A i \in 2..c + 1 : KeyLess(s[i].k, sep)
      /\ \A i \in c + 2..Len(s) : KeyLess(sep, s[i].k)
  <2>1. c # 0 => KeyLess(KeyAt(n, c), sep)
    BY <1>1
  <2>2. c < Size(n) - 1 => KeyLess(sep, KeyAt(n, c + 1))
    BY <1>1
  <2>3. /\ InsertPosition(n, sep) = c + 1
        /\ \A i \in 2..c + 1 : KeyLess(n.items[i].k, sep)
        /\ \A i \in c + 2..Size(n) : KeyLess(sep, n.items[i].k)
    BY <1>2, <2>1, <2>2, BehindRange
  <2> QED BY <1>3, <1>4, <2>3
<1>6. PICK item : item = Item(sep, q)
  OBVIOUS
<1>7. item \in ItemRec /\ item.k = sep
  BY <1>6 DEF Item, ItemRec
<1>8. PICK w : w = <<item>>
  OBVIOUS
<1>9. w \in Items
  BY <1>7, <1>8 DEF Items
<1>10. PICK at : at = c + 1
  OBVIOUS
<1>11. at \in 0..Len(s) /\ at \in 0..Size(pg[pp]) /\ at \in 2 - 1..Len(s)
  BY <1>1, <1>2, <1>4, <1>10
<1>12. PICK b : b = ApplyAll(pg, <<NodeInsert(pp, at, w)>>)
  OBVIOUS
<1>13. /\ DOMAIN b = DOMAIN pg /\ TreeOf(b)
       /\ b[pp].items = InsertItems(pg[pp].items, at, w)
       /\ b[pp].leaf = pg[pp].leaf /\ b[pp].parent = pg[pp].parent /\ b[pp].next = pg[pp].next
       /\ \A x \in DOMAIN pg \ {pp} : b[x] = pg[x]
  BY <1>9, <1>11, <1>12, TreeInsertDoes
<1>14. PICK a : a = ApplyAll(b, <<SetParent(q, pp)>>)
  OBVIOUS
<1>15. /\ DOMAIN a = DOMAIN b /\ TreeOf(a)
       /\ a[q] = [b[q] EXCEPT !.parent = pp]
       /\ \A x \in DOMAIN b \ {q} : a[x] = b[x]
  <2>1. TreeOf(b) /\ q \in DOMAIN b
    BY <1>13
  <2> QED BY <1>14, <2>1, TreeParentDoes
<1>16. ApplyAll(pg, ParentInsertOps(pg, pp, q, sep)) = a
  <2>1. ParentInsertOps(pg, pp, q, sep) = <<NodeInsert(pp, at, w), SetParent(q, pp)>>
    BY <1>1, <1>5, <1>6, <1>8, <1>10 DEF ParentInsertOps
  <2> QED BY <1>12, <1>14, <2>1, ApplyTwo
<1>17. a[pp] = b[pp]
  BY <1>13, <1>15
<1>18. Ordered(InsertItems(s, at, <<item>>), 2)
  <2>1. /\ \A j \in 2..at : KeyLess(s[j].k, item.k)
        /\ \A j \in at + 1..Len(s) : KeyLess(item.k, s[j].k)
    BY <1>2, <1>5, <1>7, <1>10
  <2>2. 2 \in 1..2
    OBVIOUS
  <2> QED BY <1>4, <1>7, <1>11, <2>1, <2>2, OrderedInsert
<1>19. Sorted(a[pp], 2)
  <2>1. IsNode(a[pp]) /\ 2 \in 1..2
    BY <1>13, <1>15 DEF TreeOf
  <2>2. Ordered(a[pp].items, 2)
    BY <1>1, <1>3, <1>8, <1>13, <1>17, <1>18
  <2> QED BY <2>1, <2>2, OrderedIs
<1>20. a[q] = [pg[q] EXCEPT !.parent = pp] /\ \A x \in DOMAIN pg \ {pp, q} : a[x] = pg[x]
  BY <1>13, <1>15
<1>21. a[pp].items = InsertItems(pg[pp].items, c + 1, <<Item(sep, q)>>)
  BY <1>6, <1>8, <1>10, <1>13, <1>17
<1> QED BY <1>13, <1>16, <1>17, <1>19, <1>20, <1>21

\* The place of a key that the node does not have.
PlaceIn(s, k, at) == /\ at \in 1..Len(s)
                     /\ \A i \in 2..at : KeyLess(s[i].k, k)
                     /\ \A i \in at + 1..Len(s) : KeyLess(k, s[i].k)

LEMMA PlaceIs ==
    ASSUME NEW n, NEW k \in Key, NEW at, IsNode(n), Sorted(n, 2), PlaceIn(n.items, k, at)
    PROVE  InsertPosition(n, k) = at
<1>1. PICK s \in Items : s = n.items
  BY DEF IsNode
<1>2. Len(s) \in Nat /\ Ordered(s, 2) /\ Size(n) = Len(s) /\ \A l \in 1..Len(s) : s[l].k \in Key
  BY <1>1, ItemsAre, OrderedIs DEF Size
<1>3. /\ at \in 1..Len(s)
      /\ \A i \in 2..at : KeyLess(s[i].k, k)
      /\ \A i \in at + 1..Len(s) : KeyLess(k, s[i].k)
  BY <1>1 DEF PlaceIn
<1>4. PICK c \in 0..Len(s) - 1 : c = at - 1 /\ c + 1 = at /\ c + 2 = at + 1
  BY <1>2, <1>3
<1>5. \A i \in c + 2..Len(s) : ~KeyLess(s[i].k, k)
  <2> TAKE i \in c + 2..Len(s)
  <2>1. s[i].k \in Key /\ KeyLess(k, s[i].k)
    BY <1>2, <1>3, <1>4
  <2> QED BY <2>1, KeyOrder
<1>6. \A i \in 2..c + 1 : KeyLess(s[i].k, k)
  BY <1>3, <1>4
<1>7. Cardinality({i \in 2..Len(s) : KeyLess(s[i].k, k)}) = c
  BY <1>2, <1>5, <1>6, PositionIs
<1>8. InsertPosition(n, k) = 1 + Cardinality({i \in 2..Len(s) : KeyLess(s[i].k, k)})
  BY <1>1 DEF InsertPosition, Size
<1> QED BY <1>4, <1>7, <1>8

LEMMA PlaceFound ==
    ASSUME NEW n, NEW k \in Key, IsNode(n), Sorted(n, 2), Size(n) >= 1,
           \A i \in 2..Size(n) : n.items[i].k # k
    PROVE  PlaceIn(n.items, k, InsertPosition(n, k))
<1>1. PICK s \in Items : s = n.items
  BY DEF IsNode
<1>2. Len(s) \in Nat /\ Ordered(s, 2) /\ Size(n) = Len(s) /\ Len(s) >= 1 /\ \A l \in 1..Len(s) : s[l].k \in Key
  BY <1>1, ItemsAre, OrderedIs DEF Size
<1>3. PICK m : m = Cardinality({i \in 2..Len(s) : KeyLess(s[i].k, k)})
  OBVIOUS
<1>4. /\ m \in 0..(Len(s) + 1 - 2)
      /\ \A i \in 2..(2 + m - 1) : KeyLess(s[i].k, k)
      /\ \A i \in (2 + m)..Len(s) : ~KeyLess(s[i].k, k)
  <2>1. 2 \in 1..2 /\ 2 <= Len(s) + 1
    BY <1>2
  <2> QED BY <1>2, <1>3, <2>1, CountBelow
<1>5. PICK at \in 1..Len(s) : at = 1 + m /\ 2 + m - 1 = at /\ 2 + m = at + 1
  BY <1>2, <1>4
<1>6. ASSUME NEW i \in at + 1..Len(s) PROVE KeyLess(k, s[i].k)
  <2>1. i \in 2..Len(s) /\ s[i].k \in Key /\ ~KeyLess(s[i].k, k)
    BY <1>2, <1>4, <1>5
  <2>2. s[i].k # k
    BY <1>1, <1>2, <2>1
  <2> QED BY <2>1, <2>2, KeyOrder
<1>7. InsertPosition(n, k) = at
  <2>1. InsertPosition(n, k) = 1 + Cardinality({i \in 2..Len(s) : KeyLess(s[i].k, k)})
    BY <1>1 DEF InsertPosition, Size
  <2> QED BY <1>3, <1>5, <2>1
<1>8. PlaceIn(s, k, at)
  BY <1>4, <1>5, <1>6 DEF PlaceIn
<1> QED BY <1>1, <1>7, <1>8

\* The place in the whole is the place in the half where the key belongs.
LEMMA PlaceInHalf ==
    ASSUME NEW s \in Items, NEW l \in Items, NEW r \in Items, NEW k \in Key, NEW at,
           NEW keep \in 1..Len(s) - 1,
           PartOf(l, s, 1, keep), PartOf(r, s, keep + 1, Len(s) - keep), Ordered(s, 2), PlaceIn(s, k, at)
    PROVE  /\ Ordered(l, 2) /\ Ordered(r, 1)
           /\ KeyLess(r[1].k, k) => at \in keep + 1..Len(s) /\ PlaceIn(r, k, at - keep)
           /\ ~KeyLess(r[1].k, k) => at \in 1..keep /\ PlaceIn(l, k, at)
<1>1. Len(s) \in Nat /\ \A i \in 1..Len(s) : s[i].k \in Key
  BY ItemsAre
<1>2. Len(l) = keep /\ \A j \in 1..keep : l[j] = s[j]
  BY DEF PartOf
<1>3. Len(r) = Len(s) - keep /\ \A j \in 1..Len(s) - keep : r[j] = s[keep + j]
  <2>1. \A j \in 1..Len(s) - keep : keep + 1 + j - 1 = keep + j
    BY <1>1
  <2> QED BY <2>1 DEF PartOf
<1>4. /\ at \in 1..Len(s)
      /\ \A i \in 2..at : KeyLess(s[i].k, k)
      /\ \A i \in at + 1..Len(s) : KeyLess(k, s[i].k)
  BY DEF PlaceIn
<1>5. Ordered(l, 2)
  <2> SUFFICES ASSUME NEW i \in 2..Len(l), NEW j \in 2..Len(l), i < j PROVE KeyLess(l[i].k, l[j].k)
    BY DEF Ordered
  <2>1. i \in 2..Len(s) /\ j \in 2..Len(s) /\ l[i] = s[i] /\ l[j] = s[j]
    BY <1>1, <1>2
  <2> QED BY <2>1 DEF Ordered
<1>6. Ordered(r, 1)
  <2> SUFFICES ASSUME NEW i \in 1..Len(r), NEW j \in 1..Len(r), i < j PROVE KeyLess(r[i].k, r[j].k)
    BY DEF Ordered
  <2>1. keep + i \in 2..Len(s) /\ keep + j \in 2..Len(s) /\ keep + i < keep + j
    BY <1>1, <1>3
  <2>2. r[i] = s[keep + i] /\ r[j] = s[keep + j]
    BY <1>3
  <2> QED BY <2>1, <2>2 DEF Ordered
<1>7. r[1] = s[keep + 1] /\ keep + 1 \in 2..Len(s) /\ s[keep + 1].k \in Key
  BY <1>1, <1>3
<1>8. ASSUME KeyLess(r[1].k, k) PROVE at \in keep + 1..Len(s) /\ PlaceIn(r, k, at - keep)
  <2>1. ~(at <= keep)
    <3>1. ~KeyLess(k, s[keep + 1].k)
      BY <1>7, <1>8, KeyOrder
    <3> QED BY <1>4, <1>7, <3>1
  <2>2. PICK c \in 1..Len(r) : c = at - keep
    BY <1>1, <1>3, <1>4, <2>1
  <2>3. ASSUME NEW i \in 2..c PROVE KeyLess(r[i].k, k)
    <3>1. keep + i \in 2..at /\ i \in 1..Len(s) - keep
      BY <1>1, <1>3, <1>4, <2>2
    <3> QED BY <1>3, <1>4, <3>1
  <2>4. ASSUME NEW i \in c + 1..Len(r) PROVE KeyLess(k, r[i].k)
    <3>1. keep + i \in at + 1..Len(s) /\ i \in 1..Len(s) - keep
      BY <1>1, <1>3, <1>4, <2>2
    <3> QED BY <1>3, <1>4, <3>1
  <2>5. PlaceIn(r, k, c)
    BY <2>3, <2>4 DEF PlaceIn
  <2> QED BY <1>1, <1>4, <2>1, <2>2, <2>5
<1>9. ASSUME ~KeyLess(r[1].k, k) PROVE at \in 1..keep /\ PlaceIn(l, k, at)
  <2>1. at <= keep
    <3>1. ~(keep + 1 \in 2..at)
      BY <1>4, <1>7, <1>9
    <3> QED BY <1>1, <1>4, <1>7, <3>1
  <2>2. \A i \in 2..at : KeyLess(l[i].k, k)
    BY <1>2, <1>4, <2>1
  <2>3. \A i \in at + 1..Len(l) : KeyLess(k, l[i].k)
    BY <1>1, <1>2, <1>4
  <2> QED BY <1>2, <1>4, <2>1, <2>2, <2>3 DEF PlaceIn
<1> QED BY <1>5, <1>6, <1>8, <1>9

\* In a the node x of b has the new child q.
HasChild(a, b, x, q, pos, w) ==
    /\ DOMAIN a = DOMAIN b /\ TreeOf(a)
    /\ a[x].items = InsertItems(b[x].items, pos, w)
    /\ a[x].leaf = b[x].leaf /\ a[x].parent = b[x].parent /\ a[x].next = b[x].next
    /\ a[q] = [b[q] EXCEPT !.parent = x]
    /\ \A y \in DOMAIN b \ {x, q} : a[y] = b[y]

LEMMA ParentInsertDoes ==
    ASSUME NEW b, NEW x \in DOMAIN b, NEW q \in DOMAIN b, NEW sep, NEW pos \in 0..Size(b[x]), NEW w \in Items,
           TreeOf(b), x # q, pos = InsertPosition(b[x], sep), w = <<Item(sep, q)>>
    PROVE  /\ IsSeq(ParentInsertOps(b, x, q, sep))
           /\ HasChild(ApplyAll(b, ParentInsertOps(b, x, q, sep)), b, x, q, pos, w)
<1>1. PICK c : c = ApplyAll(b, <<NodeInsert(x, pos, w)>>)
  OBVIOUS
<1>2. /\ DOMAIN c = DOMAIN b /\ TreeOf(c)
      /\ c[x].items = InsertItems(b[x].items, pos, w)
      /\ c[x].leaf = b[x].leaf /\ c[x].parent = b[x].parent /\ c[x].next = b[x].next
      /\ \A y \in DOMAIN b \ {x} : c[y] = b[y]
  BY <1>1, TreeInsertDoes
<1>3. PICK a : a = ApplyAll(c, <<SetParent(q, x)>>)
  OBVIOUS
<1>4. /\ DOMAIN a = DOMAIN c /\ TreeOf(a)
      /\ a[q] = [c[q] EXCEPT !.parent = x]
      /\ \A y \in DOMAIN c \ {q} : a[y] = c[y]
  <2>1. TreeOf(c) /\ q \in DOMAIN c
    BY <1>2
  <2> QED BY <1>3, <2>1, TreeParentDoes
<1>5. PICK os : os = ParentInsertOps(b, x, q, sep)
  OBVIOUS
<1>6. os = <<NodeInsert(x, pos, w), SetParent(q, x)>>
  BY <1>5 DEF ParentInsertOps
<1>7. IsSeq(os) /\ ApplyAll(b, os) = a
  BY <1>1, <1>3, <1>6, ApplyTwo
<1>8. a[x] = c[x] /\ c[q] = b[q]
  BY <1>2, <1>4
<1>9. HasChild(a, b, x, q, pos, w)
  BY <1>2, <1>4, <1>8 DEF HasChild
<1> QED BY <1>5, <1>7, <1>9

\* The children of p name p as their parent, and each is a child only once.
OwnChildren(pg, p) ==
    \A i \in 1..Size(pg[p]) :
      /\ pg[p].items[i].v \in DOMAIN pg
      /\ pg[pg[p].items[i].v].parent = p
      /\ \A j \in 1..Size(pg[p]) : pg[p].items[j].v = pg[p].items[i].v => j = i

\* A full parent is split and the new child goes to one of the halves: the two nodes hold the old
\* entries and the new one, in order, the first key of the right one separates them, and every
\* child knows in which of them it is now (insert_entry_into_parent, with a full parent).
THEOREM ParentSplitKeepsItems ==
    ASSUME NEW pg, NEW pp \in DOMAIN pg, NEW q \in DOMAIN pg, NEW pq \in DOMAIN pg, NEW sep \in Key,
           TreeOf(pg), pp # q, pp # pq, pq # q, q \in Int,
           ~IsLeaf(pg[pp]), Size(pg[pp]) >= 2, Sorted(pg[pp], 2),
           \A i \in 2..Size(pg[pp]) : pg[pp].items[i].k # sep,
           OwnChildren(pg, pp), {pp, pq, q} \cap ValuesOf(pg[pp].items) = {}
    PROVE  LET a == ApplyAll(pg, ParentSplitOps(pg, pp, q, sep, pq))
           IN  /\ a[pp].items \o a[pq].items
                    = InsertItems(pg[pp].items, InsertPosition(pg[pp], sep), <<Item(sep, q)>>)
               /\ Sorted(a[pp], 2) /\ Sorted(a[pq], 1)
               /\ Size(a[pp]) \in 1..Size(pg[pp]) /\ Size(a[pq]) \in 1..Size(pg[pp])
               /\ \A i \in 2..Size(a[pp]) : KeyLess(a[pp].items[i].k, KeyAt(a[pq], 0))
               /\ \A x \in {pp, pq} : \A i \in 1..Size(a[x]) : a[a[x].items[i].v].parent = x
<1>1. PICK n : n = pg[pp]
  OBVIOUS
<1>2. IsNode(n) /\ Sorted(n, 2) /\ Size(n) >= 2
  BY <1>1 DEF TreeOf
<1>3. PICK s \in Items : s = n.items
  BY <1>2 DEF IsNode
<1>4. PICK m \in Nat : m = Len(s) /\ m = Size(n) /\ m >= 2
  BY <1>2, <1>3, ItemsAre DEF Size
<1>5. Ordered(s, 2) /\ s \in Items
  <2>1. 2 \in 1..2
    OBVIOUS
  <2> QED BY <1>2, <1>3, <2>1, OrderedIs
<1>6. PICK keep \in 1..m - 1 : keep = Size(n) \div 2
  BY <1>4, Halves
<1>7. PICK half : half = SubSeq(n.items, keep + 1, Size(n))
  OBVIOUS
<1>8. PICK b : b = ApplyAll(pg, SplitOps(pg, pp, pq))
  OBVIOUS
<1>9. IsSeq(SplitOps(pg, pp, pq)) /\ SplitInto(b, pg, pp, pq, n, keep, half)
  BY <1>1, <1>6, <1>7, <1>8, SplitDoes
<1>10. PICK l : l = b[pp].items
  OBVIOUS
<1>11. PICK r : r = b[pq].items
  OBVIOUS
<1>12. /\ l \in Items /\ r \in Items /\ keep \in 1..Len(s) - 1
       /\ PartOf(l, s, 1, keep) /\ PartOf(r, s, keep + 1, Len(s) - keep)
  <2>1. PartOf(l, s, 1, keep) /\ PartOf(r, s, keep + 1, Len(s) - keep)
    BY <1>3, <1>4, <1>9, <1>10, <1>11 DEF SplitInto
  <2> QED BY <1>4, <1>6, <2>1 DEF PartOf
<1>13. PICK at : at = InsertPosition(n, sep)
  OBVIOUS
<1>14. PlaceIn(s, sep, at) /\ at \in 1..Len(s)
  <2>1. \A i \in 2..Size(n) : n.items[i].k # sep
    BY <1>1
  <2>2. Size(n) >= 1
    BY <1>2, <1>4
  <2>3. PlaceIn(n.items, sep, InsertPosition(n, sep))
    BY <1>2, <2>1, <2>2, PlaceFound
  <2> QED BY <1>3, <1>13, <2>3 DEF PlaceIn
<1>15. /\ Ordered(l, 2) /\ Ordered(r, 1)
       /\ KeyLess(r[1].k, sep) => at \in keep + 1..Len(s) /\ PlaceIn(r, sep, at - keep)
       /\ ~KeyLess(r[1].k, sep) => at \in 1..keep /\ PlaceIn(l, sep, at)
  BY <1>5, <1>12, <1>14, PlaceInHalf
<1>16. /\ DOMAIN b = DOMAIN pg /\ TreeOf(b)
       /\ Len(l) = keep /\ Len(r) = m - keep /\ Size(b[pp]) = keep /\ Size(b[pq]) = m - keep
  BY <1>4, <1>9, <1>10, <1>11, <1>12 DEF SplitInto, PartOf, Size
<1>17. IsNode(b[pp]) /\ IsNode(b[pq]) /\ Sorted(b[pp], 2) /\ Sorted(b[pq], 2)
  <2>1. IsNode(b[pp]) /\ IsNode(b[pq])
    BY <1>16 DEF TreeOf
  <2>2. Ordered(r, 2)
    BY <1>15, <1>16 DEF Ordered
  <2>3. 2 \in 1..2
    OBVIOUS
  <2> QED BY <1>10, <1>11, <1>15, <2>1, <2>2, <2>3, OrderedIs
<1>18. PICK item : item = Item(sep, q)
  OBVIOUS
<1>19. item \in ItemRec /\ item.k = sep /\ item.v = q
  BY <1>18 DEF Item, ItemRec
<1>20. PICK w : w = <<item>>
  OBVIOUS
<1>21. w \in Items /\ Len(w) = 1 /\ w[1] = item
  BY <1>19, <1>20 DEF Items
<1>22. PICK side : side = IF KeyLess(KeyAt(b[pq], 0), sep) THEN pq ELSE pp
  OBVIOUS
<1>23. KeyAt(b[pq], 0) = r[1].k
  BY <1>11 DEF KeyAt
<1>24. PICK pos : pos = InsertPosition(b[side], sep)
  OBVIOUS
<1>25. \/ side = pq /\ KeyLess(r[1].k, sep) /\ pos = at - keep /\ pos \in 1..m - keep /\ at \in keep + 1..m
       \/ side = pp /\ ~KeyLess(r[1].k, sep) /\ pos = at /\ pos \in 1..keep
  <2>1. CASE KeyLess(r[1].k, sep)
    <3>1. side = pq /\ PlaceIn(r, sep, at - keep) /\ at \in keep + 1..Len(s)
      BY <1>15, <1>22, <1>23, <2>1
    <3>2. InsertPosition(b[pq], sep) = at - keep
      BY <1>11, <1>17, <3>1, PlaceIs
    <3>3. pos = at - keep
      BY <1>24, <3>1, <3>2
    <3> QED BY <1>4, <2>1, <3>1, <3>3
  <2>2. CASE ~KeyLess(r[1].k, sep)
    <3>1. side = pp /\ PlaceIn(l, sep, at) /\ at \in 1..keep
      BY <1>15, <1>22, <1>23, <2>2
    <3>2. InsertPosition(b[pp], sep) = at
      BY <1>10, <1>17, <3>1, PlaceIs
    <3> QED BY <1>24, <2>2, <3>1, <3>2
  <2> QED BY <2>1, <2>2
<1>26. PICK a : a = ApplyAll(b, ParentInsertOps(b, side, q, sep))
  OBVIOUS
<1>27. IsSeq(ParentInsertOps(b, side, q, sep)) /\ HasChild(a, b, side, q, pos, w)
  <2>1. side \in DOMAIN b /\ q \in DOMAIN b /\ side # q
    BY <1>16, <1>25
  <2>2. pos \in 0..Size(b[side])
    BY <1>16, <1>25
  <2>3. w = <<Item(sep, q)>>
    BY <1>18, <1>20
  <2> QED BY <1>16, <1>21, <1>24, <1>26, <2>1, <2>2, <2>3, ParentInsertDoes
<1>28. ApplyAll(pg, ParentSplitOps(pg, pp, q, sep, pq)) = a
  <2>1. PICK sp : sp = SplitOps(pg, pp, pq)
    OBVIOUS
  <2>2. PICK ins : ins = ParentInsertOps(b, side, q, sep)
    OBVIOUS
  <2>3. ParentSplitOps(pg, pp, q, sep, pq) = sp \o ins
    BY <1>8, <1>22, <2>1, <2>2 DEF ParentSplitOps
  <2>4. ApplyAll(pg, sp \o ins) = ApplyAll(ApplyAll(pg, sp), ins)
    BY <1>9, <1>27, <2>1, <2>2, ApplySeqs
  <2> QED BY <1>8, <1>26, <2>1, <2>2, <2>3, <2>4
<1> DEFINE Kept == InsertItems(s, at, w)
<1>29. /\ a[pp].items \o a[pq].items = Kept
       /\ Len(a[pp].items) \in keep..m /\ Len(a[pq].items) \in 1..m
       /\ ToSet(a[pp].items) = IF side = pp THEN ToSet(l) \cup {item} ELSE ToSet(l)
       /\ ToSet(a[pq].items) = IF side = pq THEN ToSet(r) \cup {item} ELSE ToSet(r)
  <2>0. ToSet(w) = {item}
    BY <1>20 DEF ToSet
  <2>1. CASE side = pp
    <3>1. a[pp].items = InsertItems(l, at, w) /\ a[pq].items = r /\ at \in 0..Len(l) /\ at \in 0..keep
      BY <1>10, <1>11, <1>16, <1>25, <1>27, <2>1 DEF HasChild
    <3>2. InsertItems(l, at, w) \o r = Kept
      <4>1. keep \in 0..Len(s) /\ at \in 0..keep
        BY <1>12, <3>1
      <4>2. /\ s \in Items /\ l \in Items /\ r \in Items /\ w \in Items
            /\ PartOf(l, s, 1, keep) /\ PartOf(r, s, keep + 1, Len(s) - keep)
        BY <1>5, <1>12, <1>21
      <4>3. LeftCut(l, r, s, keep, at, w)
        BY <4>1, <4>2, InsertLeftCut
      <4> QED BY <4>3 DEF LeftCut
    <3>3. ToSet(InsertItems(l, at, w)) = ToSet(l) \cup ToSet(w)
      BY <1>12, <1>21, <3>1, InsertedSet
    <3>4. Len(InsertItems(l, at, w)) = Len(l) + Len(w)
      BY <1>12, <1>21, <3>1, InsertedLen
    <3> QED BY <1>4, <1>16, <1>21, <2>0, <2>1, <3>1, <3>2, <3>3, <3>4
  <2>2. CASE side = pq
    <3>1. a[pq].items = InsertItems(r, pos, w) /\ a[pp].items = l /\ pos \in 0..Len(r) /\ pos \in 0..Len(s) - keep
      BY <1>4, <1>10, <1>11, <1>16, <1>25, <1>27, <2>2 DEF HasChild
    <3>2. l \o InsertItems(r, pos, w) = Kept
      <4>1. keep \in 0..Len(s) /\ keep + pos = at
        BY <1>12, <1>25, <2>2
      <4>2. /\ s \in Items /\ l \in Items /\ r \in Items /\ w \in Items /\ pos \in 0..Len(s) - keep
            /\ PartOf(l, s, 1, keep) /\ PartOf(r, s, keep + 1, Len(s) - keep)
        BY <1>5, <1>12, <1>21, <3>1
      <4>3. RightCut(l, r, s, keep, pos, w)
        BY <4>1, <4>2, InsertRightCut
      <4> QED BY <4>1, <4>3 DEF RightCut
    <3>3. ToSet(InsertItems(r, pos, w)) = ToSet(r) \cup ToSet(w)
      BY <1>12, <1>21, <3>1, InsertedSet
    <3>4. Len(InsertItems(r, pos, w)) = Len(r) + Len(w)
      BY <1>12, <1>21, <3>1, InsertedLen
    <3>5. Len(a[pp].items) = keep /\ Len(a[pq].items) = m - keep + 1 /\ a[pp].items \o a[pq].items = Kept
      BY <1>16, <1>21, <3>1, <3>2, <3>4
    <3>6. ToSet(a[pp].items) = ToSet(l) /\ ToSet(a[pq].items) = ToSet(r) \cup {item}
      BY <2>0, <3>1, <3>3
    <3>7. Len(a[pp].items) \in keep..m /\ Len(a[pq].items) \in 1..m
      BY <1>4, <3>5
    <3>8. side # pp
      BY <2>2
    <3> QED BY <2>2, <3>5, <3>6, <3>7, <3>8
  <2> QED BY <1>25, <2>1, <2>2
<1> HIDE DEF Kept
<1>30. Ordered(Kept, 2)
  <2>1. /\ \A j \in 2..at : KeyLess(s[j].k, item.k)
        /\ \A j \in at + 1..Len(s) : KeyLess(item.k, s[j].k)
    BY <1>14, <1>19 DEF PlaceIn
  <2>2. 2 \in 1..2 /\ at \in 2 - 1..Len(s)
    BY <1>14
  <2> QED BY <1>5, <1>19, <1>20, <2>1, <2>2, OrderedInsert DEF Kept
<1>31. DOMAIN a = DOMAIN pg /\ TreeOf(a)
  BY <1>16, <1>27 DEF HasChild
<1>32. PICK al \in Items : al = a[pp].items
  BY <1>31 DEF TreeOf, IsNode
<1>33. PICK ar \in Items : ar = a[pq].items
  BY <1>31 DEF TreeOf, IsNode
<1>34. /\ Ordered(al, 2) /\ Ordered(ar, 1)
       /\ \A i \in 2..Len(al) : \A j \in 1..Len(ar) : KeyLess(al[i].k, ar[j].k)
  <2>1. Ordered(al \o ar, 2)
    BY <1>29, <1>30, <1>32, <1>33
  <2>2. 2 \in 1..2 /\ 2 <= Len(al) + 1 /\ al \in Items /\ ar \in Items
    BY <1>29, <1>32, <1>33
  <2> QED BY <2>1, <2>2, OrderedParts
<1>35. Sorted(a[pp], 2) /\ Sorted(a[pq], 1)
  <2>1. IsNode(a[pp]) /\ IsNode(a[pq])
    BY <1>31 DEF TreeOf
  <2>2. 2 \in 1..2 /\ 1 \in 1..2
    OBVIOUS
  <2>3. Sorted(a[pp], 2)
    BY <1>32, <1>34, <2>1, <2>2, OrderedIs
  <2>4. Sorted(a[pq], 1)
    BY <1>33, <1>34, <2>1, <2>2, OrderedIs
  <2> QED BY <2>3, <2>4
<1>36. Size(a[pp]) = Len(al) /\ Size(a[pq]) = Len(ar) /\ Len(al) \in 1..m /\ Len(ar) \in 1..m
  BY <1>29, <1>32, <1>33 DEF Size
<1>37. \A i \in 2..Size(a[pp]) : KeyLess(a[pp].items[i].k, KeyAt(a[pq], 0))
  <2>1. KeyAt(a[pq], 0) = ar[1].k /\ 1 \in 1..Len(ar)
    BY <1>33, <1>36 DEF KeyAt
  <2> QED BY <1>32, <1>34, <1>36, <2>1
<1>38. \A x : x \in Adopted(n, half) <=> \E j \in keep + 1..m : x = s[j].v
  <2>1. Adopted(n, half) = ValuesOf(half)
    BY <1>1 DEF Adopted, IsLeaf
  <2>2. /\ Len(half) = m + 1 - (keep + 1)
        /\ \A j \in 1..m + 1 - (keep + 1) : half[j] = s[keep + 1 + j - 1]
    <3>1. PICK e : e = keep + 1
      OBVIOUS
    <3>2. e \in 1..Len(s) + 1 /\ m \in 0..Len(s) /\ e <= m + 1
      BY <1>4, <1>6, <3>1
    <3>3. half = SubSeq(s, e, m)
      BY <1>3, <1>4, <1>7, <3>1
    <3>4. Len(half) = m + 1 - e /\ \A j \in 1..m + 1 - e : half[j] = s[e + j - 1]
      BY <1>5, <3>2, <3>3, PartIs
    <3> QED BY <3>1, <3>4
  <2>3. m + 1 - (keep + 1) = m - keep /\ Len(half) = m - keep
    BY <1>4, <1>6, <2>2
  <2>4. \A j \in 1..m - keep : keep + j \in keep + 1..m /\ half[j] = s[keep + j]
    <3> TAKE j \in 1..m - keep
    <3>1. keep + 1 + j - 1 = keep + j /\ keep + j \in keep + 1..m
      BY <1>4, <1>6
    <3> QED BY <2>2, <2>3, <3>1
  <2>5. \A j \in keep + 1..m : j - keep \in 1..m - keep /\ half[j - keep] = s[j]
    <3> TAKE j \in keep + 1..m
    <3>1. j - keep \in 1..m - keep /\ keep + (j - keep) = j
      BY <1>4, <1>6
    <3> QED BY <2>4, <3>1
  <2> DEFINE Upper == {s[j].v : j \in keep + 1..m}
  <2>6. ValuesOf(half) = {half[j].v : j \in 1..m - keep}
    BY <2>3 DEF ValuesOf
  <2>7. \A x \in ValuesOf(half) : x \in Upper
    BY <2>4, <2>6
  <2>8. \A x \in Upper : x \in ValuesOf(half)
    BY <2>5, <2>6
  <2>9. ValuesOf(half) = Upper
    BY <2>7, <2>8
  <2> QED BY <2>1, <2>9
<1>39. \A j \in 1..m : /\ s[j].v \in DOMAIN pg \ {pp, pq, q}
                       /\ pg[s[j].v].parent = pp
                       /\ \A i \in 1..m : s[i].v = s[j].v => i = j
  BY <1>1, <1>3, <1>4 DEF OwnChildren, ValuesOf
<1>40. \A v \in DOMAIN pg \ {pp, pq, q} : a[v].parent = IF v \in Adopted(n, half) THEN pq ELSE pg[v].parent
  <2>1. \A v \in DOMAIN pg \ {pp, pq} : b[v].parent = IF v \in Adopted(n, half) THEN pq ELSE pg[v].parent
    BY <1>9 DEF SplitInto
  <2>2. \A v \in DOMAIN pg \ {pp, pq, q} : a[v] = b[v]
    BY <1>16, <1>25, <1>27 DEF HasChild
  <2> QED BY <2>1, <2>2
<1>41. a[q].parent = side
  <2>1. a[q] = [b[q] EXCEPT !.parent = side]
    BY <1>27 DEF HasChild
  <2>2. IsNode(b[q])
    BY <1>16 DEF TreeOf
  <2> QED BY <2>1, <2>2 DEF IsNode
<1>42. \A it \in ToSet(l) : a[it.v].parent = pp
  <2> TAKE it \in ToSet(l)
  <2>1. PICK j \in 1..keep : it = s[j]
    <3>1. DOMAIN l = 1..keep /\ \A j \in 1..keep : l[j] = s[1 + j - 1] /\ 1 + j - 1 = j
      BY <1>12, <1>16 DEF PartOf, Items
    <3> QED BY <3>1 DEF ToSet
  <2>2. j \in 1..m
    BY <1>6
  <2>3. it.v \notin Adopted(n, half)
    BY <1>4, <1>6, <1>38, <1>39, <2>1, <2>2
  <2> QED BY <1>39, <1>40, <2>1, <2>2, <2>3
<1>43. \A it \in ToSet(r) : a[it.v].parent = pq
  <2> TAKE it \in ToSet(r)
  <2>1. PICK j \in keep + 1..m : it = s[j]
    <3>1. DOMAIN r = 1..m - keep /\ \A j \in 1..m - keep : r[j] = s[keep + 1 + j - 1]
      BY <1>4, <1>12, <1>16 DEF PartOf, Items
    <3>2. \A j \in 1..m - keep : keep + 1 + j - 1 \in keep + 1..m
      BY <1>4, <1>6
    <3> QED BY <3>1, <3>2 DEF ToSet
  <2>2. j \in 1..m /\ it.v \in Adopted(n, half)
    BY <1>6, <1>38, <2>1
  <2> QED BY <1>39, <1>40, <2>1, <2>2
<1>44. \A x \in {pp, pq} : \A i \in 1..Size(a[x]) : a[a[x].items[i].v].parent = x
  <2> TAKE x \in {pp, pq}
  <2> TAKE i \in 1..Size(a[x])
  <2>1. PICK it : it = a[x].items[i]
    OBVIOUS
  <2>2. it \in ToSet(a[x].items)
    <3>1. x \in DOMAIN a /\ a[x].items \in Items
      BY <1>31 DEF TreeOf, IsNode
    <3> QED BY <2>1, <3>1 DEF ToSet, Items, Size
  <2>3. CASE it = item /\ x = side
    BY <1>19, <1>41, <2>1, <2>3
  <2>4. CASE x = pp /\ it \in ToSet(l)
    BY <1>42, <2>1, <2>4
  <2>5. CASE x = pq /\ it \in ToSet(r)
    BY <1>43, <2>1, <2>5
  <2>6. \/ it = item /\ x = side
        \/ x = pp /\ it \in ToSet(l)
        \/ x = pq /\ it \in ToSet(r)
    BY <1>25, <1>29, <2>2
  <2> QED BY <2>3, <2>4, <2>5, <2>6
<1> QED BY <1>1, <1>3, <1>4, <1>13, <1>18, <1>20, <1>28, <1>29, <1>35, <1>36, <1>37, <1>44 DEF Kept

-----------------------------------------------------------------------------
(***************************************************************************)
(* Neighbours.                                                             *)
(***************************************************************************)
LEMMA FirstToEnd ==
    ASSUME NEW l \in Items, NEW r \in Items, NEW w \in Items, Len(r) >= 1, Len(w) = 1, w[1] = r[1]
    PROVE  InsertItems(l, Len(l), w) \o RemoveItems(r, 0, 1) = l \o r
<1>1. Len(l) \in Nat /\ Len(r) \in Nat /\ Len(w) = 1 /\ w[1] = r[1]
  BY ItemsAre
<1>2. PICK c : c = InsertItems(l, Len(l), w)
  OBVIOUS
<1>3. /\ c \in Items /\ Len(c) = Len(l) + Len(w)
      /\ \A j \in 1..Len(l) + Len(w) :
           c[j] = IF j <= Len(l) THEN l[j] ELSE IF j <= Len(l) + Len(w) THEN w[j - Len(l)] ELSE l[j - Len(w)]
  <2>1. PICK i \in 0..Len(l) : i = Len(l)
    BY <1>1
  <2>2. c = InsertItems(l, i, w)
    BY <1>2, <2>1
  <2>3. /\ c \in Items /\ Len(c) = Len(l) + Len(w)
        /\ \A j \in 1..Len(l) + Len(w) :
             c[j] = IF j <= i THEN l[j] ELSE IF j <= i + Len(w) THEN w[j - i] ELSE l[j - Len(w)]
    <3>1. i \in 0..Len(l)
      BY <2>1
    <3>2. IsInserted(c, l, i, w)
      BY <2>2, <3>1, InsertedIs
    <3> QED BY <3>2 DEF IsInserted
  <2> QED BY <2>1, <2>3
<1>4. PICK zero : zero = 0
  OBVIOUS
<1>5. PICK d : d = RemoveItems(r, zero, 1)
  OBVIOUS
<1>6. d \in Items /\ Len(d) = Len(r) - 1 /\ \A j \in 1..Len(r) - 1 : d[j] = IF j <= zero THEN r[j] ELSE r[j + 1]
  <2>1. zero \in 0..Len(r) /\ 1 \in 0..Len(r) - zero
    BY <1>1, <1>4
  <2>2. IsRemoved(d, r, zero, 1)
    BY <1>5, <2>1, RemovedIs
  <2> QED BY <2>2 DEF IsRemoved
<1>7. PICK e : e = c \o d
  OBVIOUS
<1>8. /\ e \in Items /\ Len(e) = Len(c) + Len(d)
      /\ \A j \in 1..Len(c) + Len(d) : e[j] = IF j <= Len(c) THEN c[j] ELSE d[j - Len(c)]
  <2>1. c \in Items /\ d \in Items
    BY <1>3, <1>6
  <2> QED BY <1>7, <2>1, JoinIs
<1>9. PICK f : f = l \o r
  OBVIOUS
<1>10. /\ f \in Items /\ Len(f) = Len(l) + Len(r)
       /\ \A j \in 1..Len(l) + Len(r) : f[j] = IF j <= Len(l) THEN l[j] ELSE r[j - Len(l)]
  BY <1>9, JoinIs
<1>11. Len(c) = Len(l) + 1 /\ Len(e) = Len(f) /\ Len(c) + Len(d) = Len(l) + Len(r)
  BY <1>1, <1>3, <1>6, <1>8, <1>10
<1>12. ASSUME NEW j \in 1..Len(e) PROVE e[j] = f[j]
  <2>1. j \in 1..Len(l) + Len(r) /\ j \in 1..Len(c) + Len(d)
    BY <1>8, <1>11
  <2>2. CASE j <= Len(l)
    BY <1>1, <1>3, <1>8, <1>10, <1>11, <2>1, <2>2
  <2>3. CASE j = Len(l) + 1
    <3>1. e[j] = c[j] /\ f[j] = r[j - Len(l)] /\ ~(j <= Len(l)) /\ j <= Len(l) + Len(w) /\ j \in 1..Len(l) + Len(w)
      BY <1>1, <1>8, <1>10, <1>11, <2>1, <2>3
    <3>2. c[j] = w[j - Len(l)]
      BY <1>3, <3>1
    <3>3. j - Len(l) = 1
      BY <1>1, <2>3
    <3> QED BY <1>1, <3>1, <3>2, <3>3
  <2>4. CASE j > Len(l) + 1
    <3>1. e[j] = d[j - Len(c)] /\ f[j] = r[j - Len(l)]
      BY <1>1, <1>8, <1>10, <1>11, <2>1, <2>4
    <3>2. j - Len(c) \in 1..Len(r) - 1 /\ ~(j - Len(c) <= zero) /\ j - Len(c) + 1 = j - Len(l)
      BY <1>1, <1>4, <1>11, <2>1, <2>4
    <3>3. d[j - Len(c)] = r[j - Len(c) + 1]
      BY <1>6, <3>2
    <3> QED BY <3>1, <3>2, <3>3
  <2> QED BY <1>1, <2>1, <2>2, <2>3, <2>4
<1>13. e = f
  BY <1>8, <1>10, <1>11, <1>12, SameItems
<1> QED BY <1>2, <1>4, <1>5, <1>7, <1>9, <1>13

LEMMA LastToFront ==
    ASSUME NEW l \in Items, NEW r \in Items, NEW w \in Items, Len(l) >= 1, Len(w) = 1, w[1] = l[Len(l)]
    PROVE  RemoveItems(l, Len(l) - 1, 1) \o InsertItems(r, 0, w) = l \o r
<1>1. Len(l) \in Nat /\ Len(r) \in Nat /\ Len(w) = 1 /\ w[1] = l[Len(l)]
  BY ItemsAre
<1>2. PICK zero : zero = 0
  OBVIOUS
<1>3. PICK c : c = InsertItems(r, zero, w)
  OBVIOUS
<1>4. /\ c \in Items /\ Len(c) = Len(r) + Len(w)
      /\ \A j \in 1..Len(r) + Len(w) :
           c[j] = IF j <= zero THEN r[j] ELSE IF j <= zero + Len(w) THEN w[j - zero] ELSE r[j - Len(w)]
  <2>1. zero \in 0..Len(r)
    BY <1>1, <1>2
  <2>2. IsInserted(c, r, zero, w)
    BY <1>3, <2>1, InsertedIs
  <2> QED BY <2>2 DEF IsInserted
<1>5. PICK k : k = Len(l) - 1
  OBVIOUS
<1>6. PICK d : d = RemoveItems(l, k, 1)
  OBVIOUS
<1>7. d \in Items /\ Len(d) = Len(l) - 1 /\ \A j \in 1..Len(l) - 1 : d[j] = IF j <= k THEN l[j] ELSE l[j + 1]
  <2>1. k \in 0..Len(l) /\ 1 \in 0..Len(l) - k
    BY <1>1, <1>5
  <2>2. IsRemoved(d, l, k, 1)
    BY <1>6, <2>1, RemovedIs
  <2> QED BY <2>2 DEF IsRemoved
<1>8. PICK e : e = d \o c
  OBVIOUS
<1>9. /\ e \in Items /\ Len(e) = Len(d) + Len(c)
      /\ \A j \in 1..Len(d) + Len(c) : e[j] = IF j <= Len(d) THEN d[j] ELSE c[j - Len(d)]
  BY <1>4, <1>7, <1>8, JoinIs
<1>10. PICK f : f = l \o r
  OBVIOUS
<1>11. /\ f \in Items /\ Len(f) = Len(l) + Len(r)
       /\ \A j \in 1..Len(l) + Len(r) : f[j] = IF j <= Len(l) THEN l[j] ELSE r[j - Len(l)]
  BY <1>10, JoinIs
<1>12. Len(d) = k /\ k + 1 = Len(l) /\ k \in Nat /\ Len(e) = Len(f) /\ Len(d) + Len(c) = Len(l) + Len(r)
  BY <1>1, <1>4, <1>5, <1>7, <1>9, <1>11
<1>13. ASSUME NEW j \in 1..Len(e) PROVE e[j] = f[j]
  <2>1. j \in 1..Len(l) + Len(r) /\ j \in 1..Len(d) + Len(c)
    BY <1>9, <1>12
  <2>2. CASE j <= k
    <3>1. e[j] = d[j] /\ f[j] = l[j] /\ j \in 1..Len(l) - 1
      BY <1>1, <1>9, <1>11, <1>12, <2>1, <2>2
    <3> QED BY <1>7, <2>2, <3>1
  <2>3. CASE j = Len(l)
    <3>1. e[j] = c[j - Len(d)] /\ f[j] = l[j] /\ j - Len(d) = 1
      BY <1>1, <1>9, <1>11, <1>12, <2>1, <2>3
    <3>2. 1 \in 1..Len(r) + Len(w) /\ ~(1 <= zero) /\ 1 <= zero + Len(w) /\ 1 - zero = 1
      BY <1>1, <1>2
    <3>3. c[1] = w[1]
      BY <1>4, <3>2
    <3> QED BY <1>1, <2>3, <3>1, <3>3
  <2>4. CASE j > Len(l)
    <3>1. PICK i : i = j - Len(d)
      OBVIOUS
    <3>2. e[j] = c[i] /\ f[j] = r[j - Len(l)]
      BY <1>1, <1>9, <1>11, <1>12, <2>1, <2>4, <3>1
    <3>3. i \in 1..Len(r) + Len(w) /\ ~(i <= zero) /\ ~(i <= zero + Len(w)) /\ i - Len(w) = j - Len(l)
      BY <1>1, <1>2, <1>12, <2>1, <2>4, <3>1
    <3>4. c[i] = r[i - Len(w)]
      BY <1>4, <3>3
    <3> QED BY <3>2, <3>3, <3>4
  <2> QED BY <1>1, <1>12, <2>1, <2>2, <2>3, <2>4
<1>14. e = f
  BY <1>9, <1>11, <1>12, <1>13, SameItems
<1> QED BY <1>2, <1>3, <1>5, <1>6, <1>8, <1>10, <1>14

LEMMA AllToEnd ==
    ASSUME NEW l \in Items, NEW r \in Items
    PROVE  InsertItems(l, Len(l), r) = l \o r /\ RemoveItems(r, 0, Len(r)) = << >>
<1>1. Len(l) \in Nat /\ Len(r) \in Nat
  BY ItemsAre
<1>2. PICK c : c = InsertItems(l, Len(l), r)
  OBVIOUS
<1>3. /\ c \in Items /\ Len(c) = Len(l) + Len(r)
      /\ \A j \in 1..Len(l) + Len(r) :
           c[j] = IF j <= Len(l) THEN l[j] ELSE IF j <= Len(l) + Len(r) THEN r[j - Len(l)] ELSE l[j - Len(r)]
  <2>1. Len(l) \in 0..Len(l)
    BY <1>1
  <2> QED BY <1>2, <2>1, InsertedAre
<1>4. PICK f : f = l \o r
  OBVIOUS
<1>5. /\ f \in Items /\ Len(f) = Len(l) + Len(r)
      /\ \A j \in 1..Len(l) + Len(r) : f[j] = IF j <= Len(l) THEN l[j] ELSE r[j - Len(l)]
  BY <1>4, JoinIs
<1>6. \A j \in 1..Len(c) : c[j] = f[j]
  BY <1>1, <1>3, <1>5
<1>7. c = f
  BY <1>3, <1>5, <1>6, SameItems
<1>8. PICK d : d = RemoveItems(r, 0, Len(r))
  OBVIOUS
<1>9. d \in Items /\ Len(d) = 0
  <2>1. 0 \in 0..Len(r) /\ Len(r) \in 0..Len(r) - 0
    BY <1>1
  <2>2. d \in Items /\ Len(d) = Len(r) - Len(r)
    BY <1>8, <2>1, RemovedAre
  <2> QED BY <1>1, <2>2
<1>10. d = << >>
  BY <1>9 DEF Items
<1> QED BY <1>2, <1>4, <1>7, <1>8, <1>10

LEMMA TreeKeyDoes ==
    ASSUME NEW pg, NEW p \in DOMAIN pg, NEW i \in 0..Size(pg[p]) - 1, NEW k \in Key, TreeOf(pg)
    PROVE  LET a == ApplyAll(pg, <<UpdateKey(p, i, k)>>)
           IN  /\ DOMAIN a = DOMAIN pg /\ TreeOf(a)
               /\ a[p].items = [pg[p].items EXCEPT ![i + 1].k = k]
               /\ a[p].leaf = pg[p].leaf /\ a[p].parent = pg[p].parent /\ a[p].next = pg[p].next
               /\ \A x \in DOMAIN pg \ {p} : a[x] = pg[x]
<1>1. PICK o : o = UpdateKey(p, i, k)
  OBVIOUS
<1>2. o.p = p /\ o.t = "key" /\ o.i = i /\ o.k = k
  BY <1>1 DEF UpdateKey
<1>3. PICK a : a = Apply(pg, o)
  OBVIOUS
<1>4. /\ DOMAIN a = DOMAIN pg
      /\ \A x \in DOMAIN pg : a[x] = IF x = p THEN ApplyTo(pg[x], o) ELSE pg[x]
  BY <1>2, <1>3, ApplyIs
<1>5. PICK n : n = pg[p]
  OBVIOUS
<1>6. IsNode(n) /\ i \in 0..Size(n) - 1
  BY <1>5 DEF TreeOf
<1>7. PICK s \in Items : s = n.items
  BY <1>6 DEF IsNode
<1>8. Len(s) \in Nat /\ (\A j \in 1..Len(s) : s[j] \in ItemRec) /\ i + 1 \in 1..Len(s)
  BY <1>6, <1>7, ItemsAre DEF Size
<1>9. PICK t : t = [s EXCEPT ![i + 1].k = k]
  OBVIOUS
<1>10. t \in Items
  <2>1. [s[i + 1] EXCEPT !.k = k] \in ItemRec
    BY <1>8 DEF ItemRec
  <2>2. t = [s EXCEPT ![i + 1] = [s[i + 1] EXCEPT !.k = k]]
    BY <1>9
  <2> QED BY <1>7, <1>8, <2>1, <2>2 DEF Items
<1>11. a[p] = [n EXCEPT !.items = t]
  <2>1. a[p] = ApplyTo(n, o)
    BY <1>4, <1>5
  <2>2. ApplyTo(n, o) = [n EXCEPT !.items[o.i + 1].k = o.k]
    BY <1>2 DEF ApplyTo
  <2>3. ApplyTo(n, o) = [n EXCEPT !.items = t]
    BY <1>2, <1>7, <1>9, <2>2
  <2> QED BY <2>1, <2>3
<1>12. IsNode(a[p]) /\ a[p].items = t /\ a[p].leaf = n.leaf /\ a[p].parent = n.parent /\ a[p].next = n.next
  BY <1>6, <1>10, <1>11 DEF IsNode
<1>13. TreeOf(a)
  BY <1>4, <1>12 DEF TreeOf
<1>14. ApplyAll(pg, <<o>>) = a
  BY <1>3, ApplyOne
<1> QED BY <1>1, <1>4, <1>5, <1>7, <1>9, <1>12, <1>13, <1>14

\* In a the node p of pg has another key at position i.
KeyChanged(a, pg, p, i, k) ==
    /\ DOMAIN a = DOMAIN pg /\ TreeOf(a)
    /\ a[p].items = [pg[p].items EXCEPT ![i + 1].k = k]
    /\ a[p].leaf = pg[p].leaf /\ a[p].parent = pg[p].parent /\ a[p].next = pg[p].next
    /\ \A x \in DOMAIN pg \ {p} : a[x] = pg[x]

LEMMA TreeKeyIs ==
    ASSUME NEW pg, NEW p \in DOMAIN pg, NEW i \in 0..Size(pg[p]) - 1, NEW k \in Key, TreeOf(pg)
    PROVE  KeyChanged(ApplyAll(pg, <<UpdateKey(p, i, k)>>), pg, p, i, k)
  BY TreeKeyDoes DEF KeyChanged

\* An entry borrowed from a neighbour: l and r are the two nodes from left to right, at the entry of
\* r in the parent.  The two nodes hold the same entries in the same order, p has one more and its
\* neighbour one less, the parent's key for r is r's new first key, and the child that has moved
\* knows its new parent (coalesce_or_redistribute and redistribute).
THEOREM RedistributeKeepsItems ==
    ASSUME NEW pg, NEW p \in DOMAIN pg, NEW b \in DOMAIN pg, NEW pp \in DOMAIN pg,
           NEW i \in 0..Size(pg[pp]) - 1,
           TreeOf(pg), pp = pg[p].parent, b = Neighbor(pg, p), i = IndexInParent(pg, p),
           ValueAt(pg[pp], i) = p, Size(pg[pp]) >= 2, Size(pg[b]) >= 2,
           p # b, pp # p, pp # b
    PROVE  LET a  == ApplyAll(pg, RedistributeOps(pg, p))
               l  == IF i = 0 THEN p ELSE b
               r  == IF i = 0 THEN b ELSE p
               at == IF i = 0 THEN 1 ELSE i
               moved == IF i = 0 THEN Head(pg[b].items) ELSE Last(pg[b].items)
           IN  /\ ValueAt(pg[pp], at - 1) = l /\ ValueAt(pg[pp], at) = r
               /\ a[l].items \o a[r].items = pg[l].items \o pg[r].items
               /\ Size(a[p]) = Size(pg[p]) + 1 /\ Size(a[b]) = Size(pg[b]) - 1
               /\ a[pp].items = [pg[pp].items EXCEPT ![at + 1].k = KeyAt(a[r], 0)]
               /\ \A x \in DOMAIN pg :
                    /\ x \notin {p, b, pp} => a[x].items = pg[x].items
                    /\ a[x].leaf = pg[x].leaf /\ a[x].next = pg[x].next
                    /\ a[x].parent = IF x \in Adopted(pg[p], <<moved>>) THEN p ELSE pg[x].parent
<1>1. PICK s \in Items : s = pg[p].items
  BY DEF TreeOf, IsNode
<1>2. PICK t \in Items : t = pg[b].items
  BY DEF TreeOf, IsNode
<1>3. /\ s \in Items /\ t \in Items /\ Len(s) \in Nat /\ Len(t) \in Nat /\ Len(t) >= 2
      /\ Size(pg[p]) = Len(s) /\ Size(pg[b]) = Len(t)
  BY <1>1, <1>2, ItemsAre DEF Size
<1>4. PICK moved : moved = IF i = 0 THEN Head(pg[b].items) ELSE Last(pg[b].items)
  OBVIOUS
<1>5. moved = IF i = 0 THEN t[1] ELSE t[Len(t)]
  BY <1>2, <1>3, <1>4 DEF Last, Items
<1>6. moved \in ItemRec /\ moved.k \in Key
  <2>1. 1 \in 1..Len(t) /\ Len(t) \in 1..Len(t)
    BY <1>3
  <2> QED BY <1>3, <1>5, <2>1, ItemsAre
<1>7. PICK w : w = <<moved>>
  OBVIOUS
<1>8. w \in Items /\ Len(w) = 1 /\ w[1] = moved
  BY <1>6, <1>7 DEF Items
<1>9. PICK j : j = IF i = 0 THEN Len(s) ELSE 0
  OBVIOUS
<1>10. PICK k : k = IF i = 0 THEN 0 ELSE Len(t) - 1
  OBVIOUS
<1>11. PICK o1 : o1 = Adopt(pg[p], p, j, w) \o <<NodeRemove(b, k, w)>>
  OBVIOUS
<1>12. PICK c : c = ApplyAll(pg, o1)
  OBVIOUS
<1>13. IsSeq(o1) /\ Moved(c, pg, pg[p], b, p, w, j, k)
  <2>1. j \in 0..Size(pg[p]) /\ k \in 0..Size(pg[b]) /\ Len(w) \in 0..Size(pg[b]) - k
    BY <1>3, <1>8, <1>9, <1>10
  <2> QED BY <1>8, <1>11, <1>12, <2>1, MoveDoes
<1>14. c[p].items = InsertItems(s, j, w) /\ c[b].items = RemoveItems(t, k, 1)
  BY <1>1, <1>2, <1>8, <1>13 DEF Moved
<1>15. PICK key : key = IF i = 0 THEN KeyAt(pg[b], 1) ELSE moved.k
  OBVIOUS
<1>16. PICK at : at = IF i = 0 THEN 1 ELSE i
  OBVIOUS
<1>17. PICK o2 : o2 = <<UpdateKey(pp, at, key)>>
  OBVIOUS
<1>18. RedistributeOps(pg, p) = o1 \o o2
  <2>1. CASE i = 0
    <3>1. RedistributeOps(pg, p) = MoveFirstToEnd(pg, b, p) \o <<UpdateKey(pp, 1, KeyAt(pg[b], 1))>>
      BY <2>1 DEF RedistributeOps
    <3>2. MoveFirstToEnd(pg, b, p) = o1
      BY <1>3, <1>4, <1>7, <1>9, <1>10, <1>11, <2>1 DEF MoveFirstToEnd
    <3> QED BY <1>15, <1>16, <1>17, <2>1, <3>1, <3>2
  <2>2. CASE i # 0
    <3>1. RedistributeOps(pg, p) = MoveLastToFront(pg, b, p) \o <<UpdateKey(pp, i, Last(pg[b].items).k)>>
      BY <2>2 DEF RedistributeOps
    <3>2. MoveLastToFront(pg, b, p) = o1
      BY <1>3, <1>4, <1>7, <1>9, <1>10, <1>11, <2>2 DEF MoveLastToFront
    <3> QED BY <1>4, <1>15, <1>16, <1>17, <2>2, <3>1, <3>2
  <2> QED BY <2>1, <2>2
<1>19. PICK a : a = ApplyAll(c, o2)
  OBVIOUS
<1>20. ApplyAll(pg, RedistributeOps(pg, p)) = a
  <2>1. IsSeq(o2)
    BY <1>17, OneIsSeq
  <2> QED BY <1>12, <1>13, <1>18, <1>19, <2>1, ApplySeqs
<1>21. key \in Key /\ key = IF i = 0 THEN t[2].k ELSE t[Len(t)].k
  <2>1. 2 \in 1..Len(t) /\ t[2].k \in Key
    BY <1>3, ItemsAre
  <2>2. KeyAt(pg[b], 1) = t[2].k
    BY <1>2 DEF KeyAt
  <2> QED BY <1>5, <1>6, <1>15, <2>1, <2>2
<1>22. /\ DOMAIN c = DOMAIN pg /\ TreeOf(c) /\ c[pp].items = pg[pp].items /\ Size(c[pp]) = Size(pg[pp])
       /\ at \in 0..Size(c[pp]) - 1
  <2>1. DOMAIN c = DOMAIN pg /\ TreeOf(c) /\ c[pp].items = pg[pp].items
    BY <1>13 DEF Moved
  <2> QED BY <1>16, <2>1 DEF Size
<1>23. /\ DOMAIN a = DOMAIN c /\ TreeOf(a)
       /\ a[pp].items = [c[pp].items EXCEPT ![at + 1].k = key]
       /\ a[pp].leaf = c[pp].leaf /\ a[pp].parent = c[pp].parent /\ a[pp].next = c[pp].next
       /\ \A x \in DOMAIN c \ {pp} : a[x] = c[x]
  <2>1. pp \in DOMAIN c
    BY <1>22
  <2>2. a = ApplyAll(c, <<UpdateKey(pp, at, key)>>)
    BY <1>17, <1>19
  <2>3. KeyChanged(a, c, pp, at, key)
    BY <1>21, <1>22, <2>1, <2>2, TreeKeyIs
  <2> QED BY <2>3 DEF KeyChanged
<1>24. a[p].items = InsertItems(s, j, w) /\ a[b].items = RemoveItems(t, k, 1)
  BY <1>14, <1>22, <1>23
<1>25. IsInserted(a[p].items, s, j, w)
  <2>1. j \in 0..Len(s)
    BY <1>3, <1>9
  <2> QED BY <1>3, <1>8, <1>24, <2>1, InsertedIs
<1>26. IsRemoved(a[b].items, t, k, 1)
  <2>1. k \in 0..Len(t) /\ 1 \in 0..Len(t) - k
    BY <1>3, <1>10
  <2> QED BY <1>3, <1>24, <2>1, RemovedIs
<1>27. Size(a[p]) = Size(pg[p]) + 1 /\ Size(a[b]) = Size(pg[b]) - 1
  BY <1>3, <1>8, <1>25, <1>26 DEF IsInserted, IsRemoved, Size
<1>28. i = 0 => a[p].items \o a[b].items = s \o t /\ KeyAt(a[b], 0) = key
  <2> SUFFICES ASSUME i = 0 PROVE a[p].items \o a[b].items = s \o t /\ KeyAt(a[b], 0) = key
    OBVIOUS
  <2>1. w[1] = t[1] /\ Len(t) >= 1 /\ j = Len(s) /\ k = 0
    BY <1>3, <1>5, <1>8, <1>9, <1>10
  <2>2. InsertItems(s, Len(s), w) \o RemoveItems(t, 0, 1) = s \o t
    <3>1. s \in Items /\ t \in Items /\ w \in Items /\ Len(t) >= 1 /\ Len(w) = 1 /\ w[1] = t[1]
      BY <1>3, <1>8, <2>1
    <3> QED BY <3>1, FirstToEnd
  <2>3. a[b].items[1] = t[2]
    <3>1. 1 \in 1..Len(t) - 1 /\ ~(1 <= k) /\ 1 + 1 = 2
      BY <1>3, <2>1
    <3> QED BY <1>26, <3>1 DEF IsRemoved
  <2>4. a[p].items \o a[b].items = InsertItems(s, Len(s), w) \o RemoveItems(t, 0, 1)
    BY <1>24, <2>1
  <2>5. key = t[2].k
    BY <1>21
  <2>6. KeyAt(a[b], 0) = a[b].items[1].k
    BY DEF KeyAt
  <2> QED BY <2>2, <2>3, <2>4, <2>5, <2>6
<1>29. i # 0 => a[b].items \o a[p].items = t \o s /\ KeyAt(a[p], 0) = key
  <2> SUFFICES ASSUME i # 0 PROVE a[b].items \o a[p].items = t \o s /\ KeyAt(a[p], 0) = key
    OBVIOUS
  <2>1. w[1] = t[Len(t)] /\ Len(t) >= 1 /\ j = 0 /\ k = Len(t) - 1
    BY <1>3, <1>5, <1>8, <1>9, <1>10
  <2>2. RemoveItems(t, Len(t) - 1, 1) \o InsertItems(s, 0, w) = t \o s
    <3>1. s \in Items /\ t \in Items /\ w \in Items /\ Len(t) >= 1 /\ Len(w) = 1 /\ w[1] = t[Len(t)]
      BY <1>3, <1>8, <2>1
    <3> QED BY <3>1, LastToFront
  <2>3. a[p].items[1] = t[Len(t)]
    <3>1. 1 \in 1..Len(s) + Len(w) /\ ~(1 <= j) /\ 1 <= j + Len(w) /\ 1 - j = 1
      BY <1>3, <1>8, <2>1
    <3> QED BY <1>25, <2>1, <3>1 DEF IsInserted
  <2>4. a[b].items \o a[p].items = RemoveItems(t, Len(t) - 1, 1) \o InsertItems(s, 0, w)
    BY <1>24, <2>1
  <2>5. key = t[Len(t)].k
    BY <1>21
  <2>6. KeyAt(a[p], 0) = a[p].items[1].k
    BY DEF KeyAt
  <2> QED BY <2>2, <2>3, <2>4, <2>5, <2>6
<1>30. \A x \in DOMAIN pg :
         /\ x \notin {p, b, pp} => a[x].items = pg[x].items
         /\ a[x].leaf = pg[x].leaf /\ a[x].next = pg[x].next
         /\ a[x].parent = IF x \in Adopted(pg[p], w) THEN p ELSE pg[x].parent
  <2> TAKE x \in DOMAIN pg
  <2>1. /\ x \notin {p, b} => c[x].items = pg[x].items
        /\ c[x].leaf = pg[x].leaf /\ c[x].next = pg[x].next
        /\ c[x].parent = IF x \in Adopted(pg[p], w) THEN p ELSE pg[x].parent
    BY <1>13 DEF Moved
  <2>2. a[x].leaf = c[x].leaf /\ a[x].next = c[x].next /\ a[x].parent = c[x].parent
    BY <1>22, <1>23
  <2>3. x # pp => a[x].items = c[x].items
    BY <1>22, <1>23
  <2> QED BY <2>1, <2>2, <2>3
<1>31. /\ ValueAt(pg[pp], at - 1) = IF i = 0 THEN p ELSE b
       /\ ValueAt(pg[pp], at) = IF i = 0 THEN b ELSE p
  <2>1. b = ValueAt(pg[pp], IF i = 0 THEN 1 ELSE i - 1)
    BY DEF Neighbor
  <2> QED BY <1>16, <2>1
<1> QED BY <1>1, <1>2, <1>4, <1>7, <1>16, <1>20, <1>22, <1>23, <1>27, <1>28, <1>29, <1>30, <1>31

Adopting(a, pg, n, q, w, i) ==
    /\ DOMAIN a = DOMAIN pg /\ TreeOf(a)
    /\ \A x \in DOMAIN pg :
         /\ a[x].items = IF x = q THEN InsertItems(pg[q].items, i, w) ELSE pg[x].items
         /\ a[x].leaf = pg[x].leaf /\ a[x].next = pg[x].next
         /\ a[x].parent = IF x \in Adopted(n, w) THEN q ELSE pg[x].parent

LEMMA AdoptIs ==
    ASSUME NEW pg, NEW n, NEW q \in DOMAIN pg, NEW w \in Items, NEW i \in 0..Size(pg[q]), TreeOf(pg)
    PROVE  /\ IsSeq(Adopt(n, q, i, w))
           /\ Adopting(ApplyAll(pg, Adopt(n, q, i, w)), pg, n, q, w, i)
  BY AdoptDoes DEF Adopting

\* Two neighbours made one: l and r are the two nodes from left to right, at the entry of r in the
\* parent.  The left one ends up with the entries of both in order, the right one with none, the
\* parent loses exactly the entry of the right one, a left leaf is linked to the leaf behind the
\* right one, and every child that has moved knows its new parent (coalesce and move_to).
THEOREM CoalesceKeepsItems ==
    ASSUME NEW pg, NEW p \in DOMAIN pg, NEW b \in DOMAIN pg, NEW pp \in DOMAIN pg,
           NEW i \in 0..Size(pg[pp]) - 1,
           TreeOf(pg), pp = pg[p].parent, b = Neighbor(pg, p), i = IndexInParent(pg, p),
           ValueAt(pg[pp], i) = p, Size(pg[pp]) >= 2,
           p # b, pp # p, pp # b
    PROVE  LET a  == ApplyAll(pg, CoalesceOps(pg, p))
               l  == CoalesceLeft(pg, p)
               r  == CoalesceRight(pg, p)
               at == IF i = 0 THEN 1 ELSE i
           IN  /\ ValueAt(pg[pp], at - 1) = l /\ ValueAt(pg[pp], at) = r
               /\ a[l].items = pg[l].items \o pg[r].items /\ a[r].items = << >>
               /\ a[pp].items = RemoveItems(pg[pp].items, at, 1)
               /\ a[l].next = IF pg[l].leaf THEN pg[r].next ELSE pg[l].next
               /\ \A x \in DOMAIN pg :
                    /\ x \notin {l, r, pp} => a[x].items = pg[x].items
                    /\ x # l => a[x].next = pg[x].next
                    /\ a[x].leaf = pg[x].leaf
                    /\ a[x].parent = IF x \in Adopted(pg[l], pg[r].items) THEN l ELSE pg[x].parent
<1>1. PICK l : l = CoalesceLeft(pg, p)
  OBVIOUS
<1>2. PICK r : r = CoalesceRight(pg, p)
  OBVIOUS
<1>3. l = (IF i = 0 THEN p ELSE b) /\ r = (IF i = 0 THEN b ELSE p)
  BY <1>1, <1>2 DEF CoalesceLeft, CoalesceRight
<1>4. l \in DOMAIN pg /\ r \in DOMAIN pg /\ l # r /\ pp # l /\ pp # r
  BY <1>3
<1>5. PICK at : at = IF i = 0 THEN 1 ELSE i
  OBVIOUS
<1>6. ValueAt(pg[pp], at - 1) = l /\ ValueAt(pg[pp], at) = r
  <2>1. b = ValueAt(pg[pp], IF i = 0 THEN 1 ELSE i - 1)
    BY DEF Neighbor
  <2> QED BY <1>3, <1>5, <2>1
<1>7. PICK s \in Items : s = pg[l].items
  BY <1>4 DEF TreeOf, IsNode
<1>8. PICK t \in Items : t = pg[r].items
  BY <1>4 DEF TreeOf, IsNode
<1>9. PICK u \in Items : u = pg[pp].items
  BY DEF TreeOf, IsNode
<1>10. /\ s \in Items /\ t \in Items /\ Len(s) \in Nat /\ Len(t) \in Nat /\ Len(u) \in Nat
       /\ Size(pg[l]) = Len(s) /\ Size(pg[r]) = Len(t) /\ Size(pg[pp]) = Len(u)
  BY <1>7, <1>8, <1>9, ItemsAre DEF Size
<1>11. PICK e : e = <<u[at + 1]>>
  OBVIOUS
<1>12. e \in Items /\ Len(e) = 1
  <2>1. at + 1 \in 1..Len(u)
    BY <1>5, <1>10
  <2>2. u[at + 1] \in ItemRec
    BY <1>9, <2>1, ItemsAre
  <2> QED BY <1>11, <2>2 DEF Items
<1>13. PICK o1 : o1 = <<NodeRemove(pp, at, e)>>
  OBVIOUS
<1>14. PICK o2 : o2 = Adopt(pg[l], l, Len(s), t)
  OBVIOUS
<1>15. PICK o3 : o3 = IF pg[l].leaf THEN <<SetNext(l, pg[r].next)>> ELSE << >>
  OBVIOUS
<1>16. PICK o4 : o4 = <<NodeRemove(r, 0, t)>>
  OBVIOUS
<1>17. CoalesceOps(pg, p) = o1 \o ((o2 \o o3) \o o4)
  <2>1. CoalesceOps(pg, p) = o1 \o MoveTo(pg, r, l)
    BY <1>1, <1>2, <1>5, <1>9, <1>11, <1>13 DEF CoalesceOps
  <2>2. MoveTo(pg, r, l) = (o2 \o o3) \o o4
    BY <1>8, <1>10, <1>14, <1>15, <1>16 DEF MoveTo
  <2> QED BY <2>1, <2>2
<1>18. PICK c1 : c1 = ApplyAll(pg, o1)
  OBVIOUS
<1>19. PICK c2 : c2 = ApplyAll(c1, o2)
  OBVIOUS
<1>20. PICK c3 : c3 = ApplyAll(c2, o3)
  OBVIOUS
<1>21. PICK a : a = ApplyAll(c3, o4)
  OBVIOUS
<1>22. /\ DOMAIN c1 = DOMAIN pg /\ TreeOf(c1)
       /\ c1[pp].items = RemoveItems(u, at, 1)
       /\ c1[pp].leaf = pg[pp].leaf /\ c1[pp].parent = pg[pp].parent /\ c1[pp].next = pg[pp].next
       /\ \A x \in DOMAIN pg \ {pp} : c1[x] = pg[x]
  <2>1. PICK k \in 0..Size(pg[pp]) : k = at
    BY <1>5, <1>10
  <2>2. o1 = <<NodeRemove(pp, k, e)>>
    BY <1>13, <2>1
  <2>3. k \in 0..Size(pg[pp]) /\ e \in Items /\ Len(e) \in 0..Size(pg[pp]) - k
    BY <1>5, <1>10, <1>12, <2>1
  <2>4. /\ DOMAIN c1 = DOMAIN pg /\ TreeOf(c1)
        /\ c1[pp].items = RemoveItems(pg[pp].items, k, Len(e))
        /\ c1[pp].leaf = pg[pp].leaf /\ c1[pp].parent = pg[pp].parent /\ c1[pp].next = pg[pp].next
        /\ \A x \in DOMAIN pg \ {pp} : c1[x] = pg[x]
    BY <1>18, <2>2, <2>3, TreeRemoveDoes
  <2> QED BY <1>9, <1>12, <2>1, <2>4
<1>23. /\ IsSeq(o2) /\ DOMAIN c2 = DOMAIN c1 /\ TreeOf(c2)
       /\ \A x \in DOMAIN c1 :
            /\ c2[x].items = IF x = l THEN InsertItems(c1[l].items, Len(s), t) ELSE c1[x].items
            /\ c2[x].leaf = c1[x].leaf /\ c2[x].next = c1[x].next
            /\ c2[x].parent = IF x \in Adopted(pg[l], t) THEN l ELSE c1[x].parent
  <2>1. l \in DOMAIN c1 /\ c1[l] = pg[l] /\ TreeOf(c1)
    BY <1>4, <1>22
  <2>2. Len(s) \in 0..Size(c1[l])
    BY <1>10, <2>1
  <2>3. PICK k \in 0..Size(c1[l]) : k = Len(s)
    BY <2>2
  <2>4. PICK n : n = pg[l]
    OBVIOUS
  <2>5. o2 = Adopt(n, l, k, t)
    BY <1>14, <2>3, <2>4
  <2>6. /\ IsSeq(o2) /\ DOMAIN c2 = DOMAIN c1 /\ TreeOf(c2)
        /\ \A x \in DOMAIN c1 :
             /\ c2[x].items = IF x = l THEN InsertItems(c1[l].items, k, t) ELSE c1[x].items
             /\ c2[x].leaf = c1[x].leaf /\ c2[x].next = c1[x].next
             /\ c2[x].parent = IF x \in Adopted(n, t) THEN l ELSE c1[x].parent
    <3>1. k \in 0..Size(c1[l]) /\ t \in Items /\ l \in DOMAIN c1 /\ TreeOf(c1)
      BY <1>8, <2>1, <2>3
    <3>2. c2 = ApplyAll(c1, Adopt(n, l, k, t))
      BY <1>19, <2>5
    <3>3. Adopting(c2, c1, n, l, t, k) /\ IsSeq(Adopt(n, l, k, t))
      BY <3>1, <3>2, AdoptIs
    <3> QED BY <2>5, <3>3 DEF Adopting
  <2> QED BY <2>3, <2>4, <2>6
<1>24. /\ IsSeq(o3) /\ DOMAIN c3 = DOMAIN c2 /\ TreeOf(c3)
       /\ c3[l].next = IF pg[l].leaf THEN pg[r].next ELSE c2[l].next
       /\ c3[l].items = c2[l].items /\ c3[l].leaf = c2[l].leaf /\ c3[l].parent = c2[l].parent
       /\ \A x \in DOMAIN c2 \ {l} : c3[x] = c2[x]
  <2>1. l \in DOMAIN c2 /\ TreeOf(c2)
    BY <1>4, <1>22, <1>23
  <2>2. CASE pg[l].leaf
    <3>1. PICK q : q = pg[r].next
      OBVIOUS
    <3>2. o3 = <<SetNext(l, q)>>
      BY <1>15, <2>2, <3>1
    <3>3. IsSeq(o3)
      BY <3>2, OneIsSeq
    <3>4. /\ DOMAIN c3 = DOMAIN c2 /\ TreeOf(c3)
          /\ c3[l] = [c2[l] EXCEPT !.next = q]
          /\ \A x \in DOMAIN c2 \ {l} : c3[x] = c2[x]
      BY <1>20, <2>1, <3>2, TreeNextDoes
    <3>5. IsNode(c2[l])
      BY <2>1 DEF TreeOf
    <3>6. c3[l].next = q /\ c3[l].items = c2[l].items /\ c3[l].leaf = c2[l].leaf /\ c3[l].parent = c2[l].parent
      BY <3>4, <3>5 DEF IsNode
    <3> QED BY <2>2, <3>1, <3>3, <3>4, <3>6
  <2>3. CASE ~pg[l].leaf
    <3>1. o3 = << >>
      BY <1>15, <2>3
    <3>2. c3 = c2 /\ IsSeq(o3)
      BY <1>20, <3>1, ApplyNone, OneIsSeq
    <3> QED BY <1>23, <2>3, <3>2
  <2> QED BY <2>2, <2>3
<1>25. c3[r].items = t /\ Size(c3[r]) = Len(t) /\ r \in DOMAIN c3
  BY <1>4, <1>8, <1>22, <1>23, <1>24 DEF Size
<1>26. /\ IsSeq(o4) /\ DOMAIN a = DOMAIN c3 /\ TreeOf(a)
       /\ a[r].items = RemoveItems(t, 0, Len(t))
       /\ a[r].leaf = c3[r].leaf /\ a[r].parent = c3[r].parent /\ a[r].next = c3[r].next
       /\ \A x \in DOMAIN c3 \ {r} : a[x] = c3[x]
  <2>1. PICK k : k = 0
    OBVIOUS
  <2>2. k \in 0..Size(c3[r]) /\ Len(t) \in 0..Size(c3[r]) - k
    BY <1>10, <1>25, <2>1
  <2>3. o4 = <<NodeRemove(r, k, t)>>
    BY <1>16, <2>1
  <2>4. IsSeq(o4)
    BY <2>3, OneIsSeq
  <2>5. /\ DOMAIN a = DOMAIN c3 /\ TreeOf(a)
        /\ a[r].items = RemoveItems(c3[r].items, k, Len(t))
        /\ a[r].leaf = c3[r].leaf /\ a[r].parent = c3[r].parent /\ a[r].next = c3[r].next
        /\ \A x \in DOMAIN c3 \ {r} : a[x] = c3[x]
    BY <1>8, <1>21, <1>24, <1>25, <2>2, <2>3, TreeRemoveDoes
  <2> QED BY <1>25, <2>1, <2>4, <2>5
<1>27. ApplyAll(pg, CoalesceOps(pg, p)) = a
  <2>1. IsSeq(o1)
    BY <1>13, OneIsSeq
  <2>2. PICK o23 : o23 = o2 \o o3
    OBVIOUS
  <2>3. IsSeq(o23) /\ ApplyAll(c1, o23) = c3
    BY <1>19, <1>20, <1>23, <1>24, <2>2, ApplySeqs
  <2>4. PICK o234 : o234 = o23 \o o4
    OBVIOUS
  <2>5. IsSeq(o234) /\ ApplyAll(c1, o234) = a
    BY <1>21, <1>26, <2>3, <2>4, ApplySeqs
  <2>6. ApplyAll(pg, o1 \o o234) = a
    BY <1>18, <2>1, <2>5, ApplySeqs
  <2> QED BY <1>17, <2>2, <2>4, <2>6
<1>28. a[l].items = s \o t /\ a[r].items = << >>
  <2>1. a[l].items = InsertItems(s, Len(s), t)
    BY <1>4, <1>7, <1>22, <1>23, <1>24, <1>26
  <2>2. InsertItems(s, Len(s), t) = s \o t /\ RemoveItems(t, 0, Len(t)) = << >>
    BY <1>10, AllToEnd
  <2> QED BY <1>26, <2>1, <2>2
<1>29. a[pp].items = RemoveItems(u, at, 1)
  BY <1>4, <1>22, <1>23, <1>24, <1>26
<1>30. a[l].next = IF pg[l].leaf THEN pg[r].next ELSE pg[l].next
  BY <1>4, <1>22, <1>23, <1>24, <1>26
<1>31. \A x \in DOMAIN pg :
         /\ x \notin {l, r, pp} => a[x].items = pg[x].items
         /\ x # l => a[x].next = pg[x].next
         /\ a[x].leaf = pg[x].leaf
         /\ a[x].parent = IF x \in Adopted(pg[l], t) THEN l ELSE pg[x].parent
  <2> TAKE x \in DOMAIN pg
  <2>1. /\ x # pp => c1[x].items = pg[x].items
        /\ c1[x].next = pg[x].next /\ c1[x].leaf = pg[x].leaf /\ c1[x].parent = pg[x].parent
    BY <1>22
  <2>2. /\ x # l => c2[x].items = c1[x].items
        /\ c2[x].next = c1[x].next /\ c2[x].leaf = c1[x].leaf
        /\ c2[x].parent = IF x \in Adopted(pg[l], t) THEN l ELSE c1[x].parent
    BY <1>22, <1>23
  <2>3. /\ x # l => c3[x].items = c2[x].items /\ c3[x].next = c2[x].next
        /\ c3[x].leaf = c2[x].leaf /\ c3[x].parent = c2[x].parent
    BY <1>22, <1>23, <1>24
  <2>4. /\ x # r => a[x].items = c3[x].items
        /\ a[x].next = c3[x].next /\ a[x].leaf = c3[x].leaf /\ a[x].parent = c3[x].parent
    BY <1>22, <1>23, <1>24, <1>26
  <2> QED BY <2>1, <2>2, <2>3, <2>4
<1> QED BY <1>1, <1>2, <1>5, <1>6, <1>7, <1>8, <1>9, <1>27, <1>28, <1>29, <1>30, <1>31
=============================================================================
