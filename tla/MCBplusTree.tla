----------------------------- MODULE MCBplusTree -----------------------------
(***************************************************************************)
(* Model checking BplusTree.  A node holds up to 4 items (the order        *)
(* bplus_tree_test.cpp uses).                                              *)
(***************************************************************************)
EXTENDS BplusTree, TLC

Leaf(parent, next, ks) ==
    [leaf |-> TRUE, items |-> [i \in 1..Len(ks) |-> Item(<<ks[i], 1>>, 1)], parent |-> parent, next |-> next]

\* The tree that inserting 1, 2, ..., 10 into an empty one builds: a root with four leaves,
\* so that one more split makes the tree higher.
FullRoot == (1 :> Leaf(3, 2, <<1, 2>>) @@ 2 :> Leaf(3, 4, <<3, 4>>)
             @@ 3 :> [leaf |-> FALSE, parent |-> Invalid, next |-> Invalid,
                      items |-> <<Item(NoKey, 1), Item(<<3, 1>>, 2), Item(<<5, 1>>, 4), Item(<<7, 1>>, 5)>>]
             @@ 4 :> Leaf(3, 5, <<5, 6>>) @@ 5 :> Leaf(3, Invalid, <<7, 8, 9, 10>>))

\* The tree of the keys 1 to 5.
TwoLeaves == (1 :> Leaf(3, 2, <<1, 2>>) @@ 2 :> Leaf(3, Invalid, <<3, 4, 5>>)
              @@ 3 :> [leaf |-> FALSE, parent |-> Invalid, next |-> Invalid,
                       items |-> <<Item(NoKey, 1), Item(<<3, 1>>, 2)>>])

Ins(k) == InsertReq(<<k, 1>>)
Del(k) == DeleteReq(<<k, 1>>)

Symmetry == Permutations(Threads)

\* Two threads, a request or two each; the scan has no bounds.
Writes == {Ins(11), Del(1), Del(4), Del(5), Del(10), UpdateReq(<<12, 1>>, <<3, 1>>)}
ScriptsLatch == {<<w>> : w \in Writes \cup {ScanReq(0, 0)}}
                \cup {<<v, w>> : v \in {Ins(11), Del(3)}, w \in {Ins(12), Del(6), Del(7), ScanReq(0, 0)}}

\* One thread takes the tree down and builds it again, or fills a file of few pages; the index
\* is unique, and a key is inserted with a second RID.
ScriptsRecover ==
    {<<Del(5), Del(2), Del(1), Del(3), Del(4), Ins(7), Ins(8)>>,
     <<InsertReq(<<5, 2>>), ScanReq(3, 4), Ins(6), Ins(7), Ins(8), Ins(9)>>,
     <<Del(1), Del(2), UpdateReq(<<6, 1>>, <<4, 1>>), ScanReq(4, 0)>>,
     <<Ins(6), Del(1), ScanReq(2, 0), Ins(7), Ins(8)>>}

\* A scan with a left bound that starts on the leaf after the one it finds.
ScriptsHop == {<<Del(4), ScanReq(4, 0)>>, <<Del(5)>>}
ScriptsUnique == {<<InsertReq(<<k, 2>>)>> : k \in 1..5}
=============================================================================
