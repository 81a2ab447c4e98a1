---------------------------- MODULE BplusTreeNode ----------------------------
(***************************************************************************)
(* The nodes of the B+ tree of observer/storage/index/bplus_tree.cpp: the  *)
(* searches in a node and the changes of nodes, as the operations that the *)
(* mini-transaction logs (bplus_tree_log_entry.cpp) and that redo applies. *)
(*                                                                         *)
(* A key is the pair of the user key and the RID.  Positions in a node are *)
(* counted from 0 as in the code; the items are a sequence.  A tree "pg"   *)
(* maps page numbers to nodes, and Hdr to the page of the index header,    *)
(* whose "next" is the root page.                                          *)
(***************************************************************************)
EXTENDS Integers, Sequences, FiniteSets, SequencesExt

CONSTANTS
    LeafMax,        \* IndexFileHeader::leaf_max_size
    InternalMax     \* IndexFileHeader::internal_max_size

Invalid  == -1      \* BP_INVALID_PAGE_NUM
Hdr      == 0       \* FIRST_INDEX_PAGE
NoKey    == <<0, 0>>

Blank   == [leaf |-> FALSE, items |-> <<>>, parent |-> Invalid, next |-> Invalid]
Item(k, v) == [k |-> k, v |-> v]
Root(pg)   == pg[Hdr].next
Size(n)    == Len(n.items)
KeyAt(n, i)   == n.items[i + 1].k
ValueAt(n, i) == n.items[i + 1].v

-----------------------------------------------------------------------------
(***************************************************************************)
(* Keys and node searches.                                                 *)
(***************************************************************************)

\* KeyComparator: the attributes first, then the RID.
KeyLess(a, b) == a[1] < b[1] \/ (a[1] = b[1] /\ a[2] < b[2])

MaxSize(n) == IF n.leaf THEN LeafMax ELSE InternalMax
MinSize(n) == MaxSize(n) - MaxSize(n) \div 2

\* LeafIndexNodeHandler::lookup, common::lower_bound
LeafLookup(n, k) == Cardinality({i \in 1..Size(n) : KeyLess(n.items[i].k, k)})
Exists(n, k)     == \E i \in 1..Size(n) : n.items[i].k = k

\* InternalIndexNodeHandler::lookup: the first key of an internal node is not looked at.
InsertPosition(n, k) == 1 + Cardinality({i \in 2..Size(n) : KeyLess(n.items[i].k, k)})
InternalLookup(n, k) ==
    LET ret == InsertPosition(n, k)
    IN  IF ret >= Size(n) \/ KeyLess(k, KeyAt(n, ret)) THEN ret - 1 ELSE ret

\* Mutant: a node that is exactly full is taken for safe.
MutIsSafe(n, op, is_root) == op # "insert" \/ Size(n) <= MaxSize(n)

IsSafe(n, op, is_root) ==
    CASE op = "scan"   -> TRUE
      [] op = "insert" -> Size(n) < MaxSize(n)
      [] op = "delete" -> IF is_root THEN Size(n) > (IF n.leaf THEN 1 ELSE 2)
                          ELSE Size(n) > MinSize(n)

-----------------------------------------------------------------------------
(***************************************************************************)
(* The logged operations on a page.                                        *)
(***************************************************************************)
NodeInsert(p, i, items) == [t |-> "insert", p |-> p, i |-> i, items |-> items]
NodeRemove(p, i, items) == [t |-> "remove", p |-> p, i |-> i, items |-> items]
SetParent(p, q)         == [t |-> "parent", p |-> p, to |-> q]
SetNext(p, q)           == [t |-> "next", p |-> p, to |-> q]
InitEmpty(p, leaf)      == [t |-> "init", p |-> p, leaf |-> leaf]
NewRoot(p, items)       == [t |-> "newroot", p |-> p, items |-> items]
UpdateKey(p, i, k)      == [t |-> "key", p |-> p, i |-> i, k |-> k]
UpdateRoot(q)           == [t |-> "next", p |-> Hdr, to |-> q]

\* recover_insert_items and recover_remove_items
InsertItems(s, i, items) == SubSeq(s, 1, i) \o items \o SubSeq(s, i + 1, Len(s))
RemoveItems(s, i, num)   == SubSeq(s, 1, i) \o SubSeq(s, i + num + 1, Len(s))

\* What an operation makes of the page: the handlers' methods and their redo.
ApplyTo(n, o) ==
    CASE o.t = "insert"  -> [n EXCEPT !.items = InsertItems(@, o.i, o.items)]
      [] o.t = "remove"  -> [n EXCEPT !.items = RemoveItems(@, o.i, Len(o.items))]
      [] o.t = "parent"  -> [n EXCEPT !.parent = o.to]
      [] o.t = "next"    -> [n EXCEPT !.next = o.to]
      [] o.t = "init"    -> [Blank EXCEPT !.leaf = o.leaf]
      [] o.t = "newroot" -> [n EXCEPT !.items = o.items]
      [] o.t = "key"     -> [n EXCEPT !.items[o.i + 1].k = o.k]

Apply(pg, o)     == [pg EXCEPT ![o.p] = ApplyTo(@, o)]
ApplyAll(pg, os) ==
    LET after[i \in 0..Len(os)] == IF i = 0 THEN pg ELSE Apply(after[i - 1], os[i])
    IN  after[Len(os)]

\* NormalOperationLogEntryHandler::rollback calls the item methods of the base class, whose
\* __item_at is null: it survives only where nothing has to be moved or copied.
RollbackSurvives(os) ==
    \A o \in ToSet(os) : o.t # "remove"

-----------------------------------------------------------------------------
(***************************************************************************)
(* Structure changes, as the operations they log.                          *)
(***************************************************************************)

\* insert_items: an internal node also becomes the parent of the children it receives.
Adopt(n, p, i, items) ==
    <<NodeInsert(p, i, items)>> \o
    (IF n.leaf THEN <<>> ELSE [j \in 1..Len(items) |-> SetParent(items[j].v, p)])

\* The moves of items between neighbours: both are leaves or both are internal nodes.
MoveHalf(n, p, q) ==
    LET keep == Size(n) \div 2
        half == SubSeq(n.items, keep + 1, Size(n))
    IN  Adopt(n, q, 0, half) \o <<NodeRemove(p, keep, half)>>
MoveFirstToEnd(pg, p, q) ==
    Adopt(pg[q], q, Size(pg[q]), <<Head(pg[p].items)>>) \o <<NodeRemove(p, 0, <<Head(pg[p].items)>>)>>
MoveLastToFront(pg, p, q) ==
    Adopt(pg[q], q, 0, <<Last(pg[p].items)>>)
    \o <<NodeRemove(p, Size(pg[p]) - 1, <<Last(pg[p].items)>>)>>
MoveTo(pg, p, q) ==
    Adopt(pg[q], q, Size(pg[q]), pg[p].items)
    \o (IF pg[q].leaf THEN <<SetNext(q, pg[p].next)>> ELSE <<>>)
    \o <<NodeRemove(p, 0, pg[p].items)>>

\* split: q is the new page, the upper half of p moves there.
SplitOps(pg, p, q) ==
    <<InitEmpty(q, pg[p].leaf), SetParent(q, pg[p].parent)>> \o MoveHalf(pg[p], p, q)

\* insert_entry_into_leaf_node, when the leaf is full.  Mutant: an item for the new leaf always
\* becomes its first.
MutLeafSplitOps(pg, p, q, item) ==
    LET n == pg[p] pos == LeafLookup(n, item.k) keep == Size(n) \div 2
    IN  SplitOps(pg, p, q) \o <<SetNext(q, n.next), SetParent(q, n.parent), SetNext(p, q)>>
        \o <<IF pos < keep THEN NodeInsert(p, pos, <<item>>) ELSE NodeInsert(q, 0, <<item>>)>>

LeafSplitOps(pg, p, q, item) ==
    LET n    == pg[p]
        pos  == LeafLookup(n, item.k)
        keep == Size(n) \div 2
    IN  SplitOps(pg, p, q)
        \o <<SetNext(q, n.next), SetParent(q, n.parent), SetNext(p, q)>>
        \o <<IF pos < keep THEN NodeInsert(p, pos, <<item>>)
                           ELSE NodeInsert(q, pos - keep, <<item>>)>>

\* insert_entry_into_parent, when p was the root: r is the new one.
NewRootOps(p, q, sep, r) ==
    <<InitEmpty(r, FALSE), NewRoot(r, <<Item(NoKey, p), Item(sep, q)>>),
      SetParent(p, r), SetParent(q, r), UpdateRoot(r)>>

ParentInsertOps(pg, pp, q, sep) ==
    <<NodeInsert(pp, InsertPosition(pg[pp], sep), <<Item(sep, q)>>), SetParent(q, pp)>>

\* The parent is full: it is split into pp and pq first.
ParentSplitOps(pg, pp, q, sep, pq) ==
    LET split == SplitOps(pg, pp, pq)
        pg2   == ApplyAll(pg, split)
        side  == IF KeyLess(KeyAt(pg2[pq], 0), sep) THEN pq ELSE pp
    IN  split \o ParentInsertOps(pg2, side, q, sep)

\* Where coalesce_or_redistribute finds p in its parent, and the neighbour it takes.
IndexInParent(pg, p) == InternalLookup(pg[pg[p].parent], KeyAt(pg[p], Size(pg[p]) - 1))
Neighbor(pg, p) ==
    LET i == IndexInParent(pg, p)
    IN  ValueAt(pg[pg[p].parent], IF i = 0 THEN 1 ELSE i - 1)

RedistributeOps(pg, p) ==
    LET i  == IndexInParent(pg, p)
        pp == pg[p].parent
        b  == Neighbor(pg, p)
    IN  IF i = 0
        THEN MoveFirstToEnd(pg, b, p) \o <<UpdateKey(pp, 1, KeyAt(pg[b], 1))>>
        ELSE MoveLastToFront(pg, b, p) \o <<UpdateKey(pp, i, Last(pg[b].items).k)>>

\* coalesce: the right node's items go to the left one, and the right page will be disposed of.
CoalesceLeft(pg, p)  == IF IndexInParent(pg, p) = 0 THEN p ELSE Neighbor(pg, p)
CoalesceRight(pg, p) == IF IndexInParent(pg, p) = 0 THEN Neighbor(pg, p) ELSE p

CoalesceOps(pg, p) ==
    LET i  == IndexInParent(pg, p)
        pp == pg[p].parent
        l  == CoalesceLeft(pg, p)
        r  == CoalesceRight(pg, p)
        at == IF i = 0 THEN 1 ELSE i
    IN  <<NodeRemove(pp, at, <<pg[pp].items[at + 1]>>)>>
        \o MoveTo(pg, r, l)

\* adjust_root: the last entry has gone, or the only child becomes the root.
AdjustRootOps(pg, p) ==
    IF pg[p].leaf THEN <<UpdateRoot(Invalid)>>
    ELSE <<SetParent(ValueAt(pg[p], 0), Invalid), UpdateRoot(ValueAt(pg[p], 0))>>

-----------------------------------------------------------------------------
(***************************************************************************)
(* validate_tree, and what the tree holds.                                 *)
(***************************************************************************)
Sorted(n, from) == \A i \in from..Size(n) - 1 : KeyLess(KeyAt(n, i - 1), KeyAt(n, i))

\* The place of the node in its parent: "first" is the first key that counts.
ValidInParent(pg, p, first) ==
    LET n == pg[p] parent == pg[pg[p].parent]
    IN  \E i \in 0..Size(parent) - 1 :
          /\ ValueAt(parent, i) = p
          /\ i # 0 => ~KeyLess(KeyAt(n, first), KeyAt(parent, i))
          /\ i < Size(parent) - 1 => KeyLess(KeyAt(n, Size(n) - 1), KeyAt(parent, i + 1))

ValidLeaf(pg, p) ==
    /\ Size(pg[p]) >= 1
    /\ Sorted(pg[p], 1)
    /\ pg[p].parent = Invalid \/ ValidInParent(pg, p, 0)

ValidInternal(pg, p) ==
    /\ Size(pg[p]) >= 2
    /\ Sorted(pg[p], 2)
    /\ \A i \in 0..Size(pg[p]) - 1 :
         ValueAt(pg[p], i) \in DOMAIN pg /\ pg[ValueAt(pg[p], i)].parent = p
    /\ pg[p].parent = Invalid \/ ValidInParent(pg, p, 1)

Children(pg, S) == UNION {{n.v : n \in ToSet(pg[p].items)} : p \in {q \in S : ~pg[q].leaf}}

\* The nodes validate_node_recursive visits.
Steps(pg)     == [i \in 1..Cardinality(DOMAIN pg) |-> i]
Reachable(pg) == FoldLeft(LAMBDA S, i : S \cup Children(pg, S), {Root(pg)} \ {Invalid}, Steps(pg))

\* left_most_page
LeftMost(pg) == FoldLeft(LAMBDA p, i : IF pg[p].leaf THEN p ELSE ValueAt(pg[p], 0), Root(pg), Steps(pg))

\* The pages of the leaf chain.
Chain(pg) == FoldLeft(LAMBDA c, i : IF pg[Last(c)].next = Invalid THEN c ELSE Append(c, pg[Last(c)].next),
                      <<LeftMost(pg)>>, Steps(pg))

ChainKeys(pg) == FoldLeft(LAMBDA ks, p : ks \o [j \in 1..Size(pg[p]) |-> KeyAt(pg[p], j - 1)],
                          <<>>, Chain(pg))

\* validate_leaf_link
ValidLinks(pg) == LET ks == ChainKeys(pg) IN \A i \in 2..Len(ks) : KeyLess(ks[i - 1], ks[i])

ValidTree(pg) ==
    Root(pg) # Invalid =>
      /\ \A p \in Reachable(pg) : IF pg[p].leaf THEN ValidLeaf(pg, p) ELSE ValidInternal(pg, p)
      /\ ValidLinks(pg)

Entries(pg) == IF Root(pg) = Invalid THEN {} ELSE ToSet(ChainKeys(pg))
=============================================================================
