------------------------------ MODULE MvccProofs ------------------------------
(***************************************************************************)
(* Proofs about the transactions: for any number of sessions, rows and     *)
(* operations the marks on the rows belong to running transactions, the    *)
(* ASSERTs of commit and rollback hold, and a transaction keeps seeing     *)
(* what it has to see and nothing else, as long as the server runs (Spec,  *)
(* without crashes).                                                       *)
(***************************************************************************)
EXTENDS MvccTrx, FiniteSetTheorems, SequenceTheorems, TLAPS

Ops       == [type : {"INSERT", "DELETE"}, rid : Rids]
InOps(s)  == 1..Len(operations[s])
Statement == {"insert", "scan", "delete", "close"}

\* Types of the variables the proof speaks of.
TypeInv ==
    /\ current_trx_id \in Nat
    /\ records \in [Rids -> [begin : Int, end : Int]]
    /\ started \in [Sessions -> BOOLEAN]
    /\ trx_id \in [Sessions -> Nat] /\ commit_id \in [Sessions -> Nat]
    /\ operations \in [Sessions -> Seq(Ops)]
    /\ pc \in [Sessions -> {"idle", "commit", "rollback"} \cup Statement]
    /\ found \in [Sessions -> Seq(Rids)]
    /\ must_see \in [Sessions -> SUBSET Rids] /\ must_not \in [Sessions -> SUBSET Rids]

\* The ids drawn and the ones still to draw are below the "infinite" end_xid.
BoundInv == Reserved \in Nat /\ Reserved <= MaxId

\* Every id is drawn once.
IdInv ==
    /\ \A s \in Sessions : trx_id[s] <= current_trx_id /\ commit_id[s] <= current_trx_id
    /\ \A s, u \in Sessions : s # u => /\ trx_id[s] # 0 => trx_id[s] # trx_id[u]
                                       /\ commit_id[s] # 0 => commit_id[s] # commit_id[u]
    /\ \A s, u \in Sessions : commit_id[s] # 0 => commit_id[s] # trx_id[u]
    /\ orphans \subseteq 1..current_trx_id
    /\ \A s \in Sessions : trx_id[s] \notin orphans

\* What a row can look like.  An insert that is not committed can only be deleted by its own
\* transaction.
RowInv ==
    \A r \in Rids :
        /\ records[r].begin \in -current_trx_id..current_trx_id
        /\ records[r].end \in (-current_trx_id..current_trx_id) \cup {Inf}
        /\ records[r].begin = 0 \/ records[r].end = 0 => records[r] = Absent
        /\ records[r].begin < 0 => records[r].end \in {Inf, records[r].begin}

\* Where a session's transaction is.
PcInv ==
    \A s \in Sessions :
        /\ pc[s] = "commit" <=> commit_id[s] # 0
        /\ pc[s] \in {"commit", "rollback"} => ~started[s] /\ trx_id[s] # 0
        /\ pc[s] \in Statement => started[s]
        /\ started[s] => trx_id[s] # 0
        /\ operations[s] # <<>> => started[s] \/ pc[s] \in {"commit", "rollback"}
        /\ pc[s] \notin {"scan", "delete"} => found[s] = <<>>

\* A row a delete has found is committed or its transaction's own.
FoundInv ==
    \A s \in Sessions : \A i \in 1..Len(found[s]) :
        records[found[s][i]].begin > 0 \/ records[found[s][i]].begin = -trx_id[s]

\* The operations of a transaction, and the marks it has on the rows.  Only a row it has inserted
\* itself can it delete more than once; then commit and rollback leave the mark before they have
\* done the last of the deletes.
OpOK(s, i) ==
    LET op == operations[s][i]
        r  == op.rid
    IN  /\ records[r] # Absent
        /\ op.type = "INSERT" =>
             /\ records[r].begin = -trx_id[s]
             /\ \A j \in InOps(s) : operations[s][j].rid = r /\ j # i => operations[s][j].type = "DELETE" /\ i < j
        /\ op.type = "DELETE" =>
             /\ \/ records[r].end = -trx_id[s]
                \/ records[r].begin = -trx_id[s] /\ pc[s] = "rollback"
                \/ records[r].begin = commit_id[s] /\ records[r].end = commit_id[s] /\ pc[s] = "commit"
             /\ \A j \in InOps(s) : operations[s][j] = op /\ j # i => records[r].begin \in {-trx_id[s], commit_id[s]}

OpsInv == \A s \in Sessions : \A i \in InOps(s) : OpOK(s, i)

\* What a transaction has to see was committed before it started and is deleted by no commit whose
\* id is older.
SeeInv ==
    \A s \in Sessions : started[s] => \A r \in must_see[s] :
        /\ records[r].begin > 0 /\ records[r].begin <= trx_id[s]
        /\ records[r].end > trx_id[s] \/ records[r].end < 0
        /\ \A u \in Sessions : pc[u] = "commit" /\ Pending(u, "DELETE", r) => commit_id[u] > trx_id[s]

\* What it may not see is not committed or has a later commit id.
NotInv ==
    \A s \in Sessions : started[s] => \A r \in must_not[s] :
        /\ records[r].begin > trx_id[s] \/ records[r].begin <= 0
        /\ \A u \in Sessions : pc[u] = "commit" /\ Pending(u, "INSERT", r) => commit_id[u] > trx_id[s]

IInv == /\ TypeInv /\ BoundInv /\ IdInv /\ RowInv /\ PcInv /\ FoundInv
        /\ OpsInv /\ OwnedMarks /\ SeeInv /\ NotInv

-----------------------------------------------------------------------------
(***************************************************************************)
(* Operations as sequences and as pending operations.                      *)
(***************************************************************************)
LEMMA OpTyped ==
    ASSUME TypeInv, NEW s \in Sessions
    PROVE  /\ Len(operations[s]) \in Nat /\ DOMAIN operations[s] = InOps(s)
           /\ operations[s] = <<>> <=> Len(operations[s]) = 0
           /\ \A i \in InOps(s) : /\ operations[s][i] \in Ops /\ operations[s][i].rid \in Rids
                                  /\ operations[s][i].type \in {"INSERT", "DELETE"}
                                  /\ operations[s][i] = Op(operations[s][i].type, operations[s][i].rid)
<1>1. operations[s] \in Seq(Ops)
  BY DEF TypeInv
<1>2. Len(operations[s]) \in Nat /\ DOMAIN operations[s] = InOps(s)
  BY <1>1, LenProperties DEF InOps
<1>3. operations[s] = <<>> <=> Len(operations[s]) = 0
  BY <1>1, EmptySeq
<1>4. \A i \in InOps(s) : operations[s][i] \in Ops
  BY <1>1, ElementOfSeq DEF InOps
<1> QED BY <1>2, <1>3, <1>4 DEF Ops, Op

LEMMA PendingOp ==
    ASSUME TypeInv, NEW s \in Sessions, NEW type, NEW r
    PROVE  /\ Pending(s, type, r) <=> \E i \in InOps(s) : operations[s][i] = Op(type, r)
           /\ Pending(s, type, r) <=> \E i \in InOps(s) : operations[s][i].type = type /\ operations[s][i].rid = r
<1>1. Pending(s, type, r) <=> \E i \in InOps(s) : operations[s][i] = Op(type, r)
  BY OpTyped DEF Pending
<1>2. \A i \in InOps(s) : operations[s][i] = Op(type, r) <=> operations[s][i].type = type /\ operations[s][i].rid = r
  BY OpTyped DEF Op
<1> QED BY <1>1, <1>2

\* A row has the operations of one session only.
LEMMA OneWriter ==
    ASSUME IInv, NEW s \in Sessions, NEW u \in Sessions, NEW i \in InOps(s), NEW j \in InOps(u),
           operations[s][i].rid = operations[u][j].rid
    PROVE  s = u
<1> DEFINE r == operations[s][i].rid
<1>1. OpOK(s, i) /\ OpOK(u, j)
  BY DEF IInv, OpsInv
<1>2. /\ r \in Rids /\ operations[s][i].type \in {"INSERT", "DELETE"}
      /\ operations[u][j].type \in {"INSERT", "DELETE"}
  BY OpTyped DEF IInv
<1>3. /\ records[r].begin \in Int /\ records[r].end \in Int /\ records[r] # Absent
      /\ trx_id[s] \in Nat /\ trx_id[u] \in Nat /\ commit_id[s] \in Nat /\ commit_id[u] \in Nat
  BY <1>1, <1>2 DEF IInv, TypeInv, OpOK
<1>4. /\ records[r].begin # 0 /\ records[r].end # 0
      /\ records[r].begin < 0 => records[r].end = Inf \/ records[r].end = records[r].begin
  BY <1>2, <1>3 DEF IInv, RowInv
<1>5. Inf \in Nat
  BY MvccAssumption DEF Inf
<1>6. s # u => /\ trx_id[s] # 0 => trx_id[s] # trx_id[u]
               /\ trx_id[u] # 0 => trx_id[s] # trx_id[u]
               /\ commit_id[s] # 0 => commit_id[s] # commit_id[u]
  BY DEF IInv, IdInv
<1>7. /\ operations[s][i].type = "INSERT" => records[r].begin = -trx_id[s]
      /\ operations[s][i].type = "DELETE" => \/ records[r].end = -trx_id[s]
                                             \/ records[r].begin = -trx_id[s]
                                             \/ records[r].begin = commit_id[s] /\ records[r].end = commit_id[s]
  BY <1>1 DEF OpOK
<1>8. /\ operations[u][j].type = "INSERT" => records[r].begin = -trx_id[u]
      /\ operations[u][j].type = "DELETE" => \/ records[r].end = -trx_id[u]
                                             \/ records[r].begin = -trx_id[u]
                                             \/ records[r].begin = commit_id[u] /\ records[r].end = commit_id[u]
  BY <1>1 DEF OpOK
<1> HIDE DEF r
<1> QED BY <1>2, <1>3, <1>4, <1>5, <1>6, <1>7, <1>8

\* An operation is appended.
LEMMA AppendOp ==
    ASSUME TypeInv, NEW s \in Sessions, NEW op \in Ops, operations' = [operations EXCEPT ![s] = Append(@, op)]
    PROVE  /\ operations' \in [Sessions -> Seq(Ops)]
           /\ \A u \in Sessions \ {s} : operations'[u] = operations[u]
           /\ Len(operations'[s]) = Len(operations[s]) + 1 /\ operations'[s][Len(operations[s]) + 1] = op
           /\ \A i \in InOps(s) : operations'[s][i] = operations[s][i]
           /\ operations'[s] # <<>>
           /\ \A u \in Sessions : \A type, r : Pending(u, type, r)' <=> Pending(u, type, r) \/ (u = s /\ op = Op(type, r))
<1>1. operations[s] \in Seq(Ops) /\ operations'[s] = Append(operations[s], op)
  BY DEF TypeInv
<1>2. /\ operations'[s] \in Seq(Ops) /\ operations'[s] # <<>> /\ Len(operations'[s]) = Len(operations[s]) + 1
      /\ \A i \in InOps(s) : operations'[s][i] = operations[s][i]
      /\ operations'[s][Len(operations[s]) + 1] = op
  BY <1>1, AppendProperties DEF InOps
<1>3. operations' \in [Sessions -> Seq(Ops)] /\ \A u \in Sessions \ {s} : operations'[u] = operations[u]
  BY <1>2 DEF TypeInv
<1>4. Len(operations[s]) \in Nat /\ InOps(s)' = InOps(s) \cup {Len(operations[s]) + 1}
  BY <1>2, OpTyped DEF InOps
<1>5. ASSUME NEW u \in Sessions, NEW type, NEW r
      PROVE  Pending(u, type, r)' <=> Pending(u, type, r) \/ (u = s /\ op = Op(type, r))
  <2>1. CASE u = s
    <3>1. DOMAIN operations[s] = InOps(s) /\ DOMAIN operations'[s] = InOps(s)'
      BY <1>3, OpTyped, LenProperties DEF InOps
    <3> QED BY <1>2, <1>4, <2>1, <3>1 DEF Pending
  <2>2. CASE u # s
    BY <1>3, <2>2 DEF Pending
  <2> QED BY <2>1, <2>2
<1> QED BY <1>2, <1>3, <1>5

\* The first or the last operation is taken away.
LEMMA TailOp ==
    ASSUME TypeInv, NEW s \in Sessions, operations[s] # <<>>, operations' = [operations EXCEPT ![s] = Tail(@)]
    PROVE  /\ operations' \in [Sessions -> Seq(Ops)]
           /\ \A u \in Sessions \ {s} : operations'[u] = operations[u]
           /\ Len(operations'[s]) = Len(operations[s]) - 1 /\ 1 \in InOps(s) /\ Head(operations[s]) = operations[s][1]
           /\ \A i \in InOps(s)' : i + 1 \in InOps(s) /\ operations'[s][i] = operations[s][i + 1]
           /\ \A u \in Sessions : \A type, r :
                /\ Pending(u, type, r)' => Pending(u, type, r)
                /\ Pending(u, type, r) => Pending(u, type, r)' \/ (u = s /\ operations[s][1] = Op(type, r))
<1>1. operations[s] \in Seq(Ops) /\ operations'[s] = Tail(operations[s])
  BY DEF TypeInv
<1>2. /\ operations'[s] \in Seq(Ops) /\ Len(operations'[s]) = Len(operations[s]) - 1 /\ Len(operations[s]) \in Nat \ {0}
      /\ \A i \in InOps(s)' : operations'[s][i] = operations[s][i + 1]
      /\ Head(operations[s]) = operations[s][1]
  <2>1. Len(operations[s]) \in Nat \ {0} /\ Head(operations[s]) = operations[s][1]
    BY <1>1, LenProperties, EmptySeq
  <2> QED BY ZenonT(40), <1>1, <2>1, HeadTailProperties DEF InOps
<1>3. operations' \in [Sessions -> Seq(Ops)] /\ \A u \in Sessions \ {s} : operations'[u] = operations[u]
  BY <1>2 DEF TypeInv
<1>4. /\ 1 \in InOps(s) /\ \A i \in InOps(s)' : i + 1 \in InOps(s)
      /\ \A i \in InOps(s) : i = 1 \/ (i - 1 \in InOps(s)' /\ (i - 1) + 1 = i)
  BY <1>2 DEF InOps
<1>5. ASSUME NEW u \in Sessions, NEW type, NEW r
      PROVE  /\ Pending(u, type, r)' => Pending(u, type, r)
             /\ Pending(u, type, r) => Pending(u, type, r)' \/ (u = s /\ operations[s][1] = Op(type, r))
  <2>1. CASE u = s
    <3>1. DOMAIN operations[s] = InOps(s) /\ DOMAIN operations'[s] = InOps(s)'
      BY <1>3, OpTyped, LenProperties DEF InOps
    <3>2. \A i \in InOps(s) : i = 1 \/ (i - 1 \in InOps(s)' /\ operations'[s][i - 1] = operations[s][i])
      BY <1>2, <1>4
    <3>3. ASSUME Pending(s, type, r)' PROVE Pending(s, type, r)
      <4>1. PICK i \in InOps(s)' : operations'[s][i] = Op(type, r)
        BY <3>1, <3>3 DEF Pending
      <4>2. i + 1 \in InOps(s) /\ operations[s][i + 1] = Op(type, r)
        BY <1>2, <1>4, <4>1
      <4> QED BY <3>1, <4>2 DEF Pending
    <3>4. ASSUME Pending(s, type, r), operations[s][1] # Op(type, r) PROVE Pending(s, type, r)'
      <4>1. PICK i \in InOps(s) : operations[s][i] = Op(type, r)
        BY <3>1, <3>4 DEF Pending
      <4>2. i - 1 \in InOps(s)' /\ operations'[s][i - 1] = Op(type, r)
        BY <3>2, <3>4, <4>1
      <4> QED BY <3>1, <4>2 DEF Pending
    <3> QED BY <2>1, <3>3, <3>4
  <2>2. CASE u # s
    BY <1>3, <2>2 DEF Pending
  <2> QED BY <2>1, <2>2
<1> QED BY <1>2, <1>3, <1>4, <1>5

LEMMA FrontOp ==
    ASSUME TypeInv, NEW s \in Sessions, operations[s] # <<>>,
           operations' = [operations EXCEPT ![s] = SubSeq(@, 1, Len(@) - 1)]
    PROVE  /\ operations' \in [Sessions -> Seq(Ops)]
           /\ \A u \in Sessions \ {s} : operations'[u] = operations[u]
           /\ Len(operations'[s]) = Len(operations[s]) - 1 /\ Len(operations[s]) \in InOps(s)
           /\ \A i \in InOps(s)' : i \in InOps(s) /\ i < Len(operations[s]) /\ operations'[s][i] = operations[s][i]
           /\ \A u \in Sessions : \A type, r :
                /\ Pending(u, type, r)' => Pending(u, type, r)
                /\ Pending(u, type, r) =>
                     Pending(u, type, r)' \/ (u = s /\ operations[s][Len(operations[s])] = Op(type, r))
<1>1. operations[s] \in Seq(Ops) /\ operations'[s] = SubSeq(operations[s], 1, Len(operations[s]) - 1)
  BY DEF TypeInv
<1>2. Len(operations[s]) \in Nat \ {0}
  BY <1>1, LenProperties, EmptySeq
<1>3. /\ operations'[s] \in Seq(Ops) /\ Len(operations'[s]) = Len(operations[s]) - 1
      /\ \A i \in 1..(Len(operations[s]) - 1) : operations'[s][i] = operations[s][i]
  BY <1>1, <1>2, SubSeqProperties
<1>4. operations' \in [Sessions -> Seq(Ops)] /\ \A u \in Sessions \ {s} : operations'[u] = operations[u]
  BY <1>3 DEF TypeInv
<1>5. /\ Len(operations[s]) \in InOps(s)
      /\ \A i \in InOps(s)' : i \in InOps(s) /\ i < Len(operations[s]) /\ operations'[s][i] = operations[s][i]
      /\ \A i \in InOps(s) : i = Len(operations[s]) \/ (i \in InOps(s)' /\ operations'[s][i] = operations[s][i])
  BY <1>2, <1>3 DEF InOps
<1>6. ASSUME NEW u \in Sessions, NEW type, NEW r
      PROVE  /\ Pending(u, type, r)' => Pending(u, type, r)
             /\ Pending(u, type, r) =>
                  Pending(u, type, r)' \/ (u = s /\ operations[s][Len(operations[s])] = Op(type, r))
  <2>1. CASE u = s
    <3>1. DOMAIN operations[s] = InOps(s) /\ DOMAIN operations'[s] = InOps(s)'
      BY <1>4, OpTyped, LenProperties DEF InOps
    <3> QED BY <1>5, <2>1, <3>1 DEF Pending
  <2>2. CASE u # s
    BY <1>4, <2>2 DEF Pending
  <2> QED BY <2>1, <2>2
<1> QED BY <1>3, <1>4, <1>5, <1>6

-----------------------------------------------------------------------------
(***************************************************************************)
(* The ids that are left.                                                  *)
(***************************************************************************)
LEMMA ReservedBound ==
    ASSUME IInv
    PROVE  /\ current_trx_id <= Reserved /\ Reserved \in Nat /\ current_trx_id < Inf
           /\ Cardinality({s \in Sessions : started[s]}) \in Nat /\ IsFiniteSet({s \in Sessions : started[s]})
<1>1. IsFiniteSet({s \in Sessions : started[s]})
  BY MvccAssumption, FS_Subset
<1>2. Cardinality({s \in Sessions : started[s]}) \in Nat
  BY <1>1, FS_CardinalityType
<1> QED BY <1>1, <1>2, MvccAssumption DEF IInv, TypeInv, BoundInv, Reserved, Inf

\* A session's transaction starts or ends.
LEMMA StartedCount ==
    ASSUME IInv, NEW s \in Sessions,
           started' = [started EXCEPT ![s] = TRUE] \/ started' = [started EXCEPT ![s] = FALSE]
    PROVE  LET n == Cardinality({u \in Sessions : started[u]})
               m == Cardinality({u \in Sessions : started'[u]})
           IN  /\ started'[s] /\ ~started[s] => m = n + 1
               /\ ~started'[s] /\ started[s] => m = n - 1
               /\ started'[s] = started[s] => m = n
<1> DEFINE S == {u \in Sessions : started[u]}
           T == {u \in Sessions : started'[u]}
<1>1. IsFiniteSet(S) /\ Cardinality(S) \in Nat
  BY ReservedBound
<1>2. \A u \in Sessions \ {s} : started'[u] = started[u]
  BY DEF IInv, TypeInv
<1>3. ASSUME started'[s] /\ ~started[s] PROVE Cardinality(T) = Cardinality(S) + 1
  <2>1. T = S \cup {s} /\ s \notin S
    BY <1>2, <1>3
  <2> QED BY <1>1, <2>1, FS_AddElement
<1>4. ASSUME ~started'[s] /\ started[s] PROVE Cardinality(T) = Cardinality(S) - 1
  <2>1. T = S \ {s} /\ s \in S
    BY <1>2, <1>4
  <2> QED BY <1>1, <2>1, FS_RemoveElement
<1>5. ASSUME started'[s] = started[s] PROVE Cardinality(T) = Cardinality(S)
  <2>1. T = S
    BY <1>2, <1>5
  <2> QED BY <2>1
<1> QED BY <1>3, <1>4, <1>5

-----------------------------------------------------------------------------
(***************************************************************************)
(* Statements.                                                             *)
(***************************************************************************)
\* The request goes on and the rows do not change.
LEMMA StatementStep ==
    ASSUME IInv, NEW s \in Sessions, NEW x \in Statement \cup {"idle"}, NEW f \in Seq(Rids),
           pc[s] \in Statement \cup {"idle"}, x \in Statement => started[s],
           x \notin {"scan", "delete"} => f = <<>>,
           \A i \in 1..Len(f) : records[f[i]].begin > 0 \/ records[f[i]].begin = -trx_id[s],
           pc' = [pc EXCEPT ![s] = x], found' = [found EXCEPT ![s] = f],
           UNCHANGED <<current_trx_id, records, trx_id, started, operations, commit_id, must_see, must_not, orphans>>
    PROVE  IInv'
<1>1. TypeInv' /\ BoundInv' /\ IdInv' /\ RowInv'
  BY DEF IInv, TypeInv, BoundInv, Reserved, IdInv, RowInv
<1>2. /\ pc'[s] = x /\ found'[s] = f /\ \A u \in Sessions \ {s} : pc'[u] = pc[u] /\ found'[u] = found[u]
      /\ \A u \in Sessions : /\ pc'[u] = "commit" <=> pc[u] = "commit"
                             /\ pc'[u] = "rollback" <=> pc[u] = "rollback"
  BY DEF IInv, TypeInv, Statement
<1>3. PcInv'
  <2> SUFFICES ASSUME NEW u \in Sessions
               PROVE  /\ pc'[u] = "commit" <=> commit_id[u] # 0
                      /\ pc'[u] \in {"commit", "rollback"} => ~started[u] /\ trx_id[u] # 0
                      /\ pc'[u] \in Statement => started[u]
                      /\ started[u] => trx_id[u] # 0
                      /\ operations[u] # <<>> => started[u] \/ pc'[u] \in {"commit", "rollback"}
                      /\ pc'[u] \notin {"scan", "delete"} => found'[u] = <<>>
    BY DEF PcInv
  <2>1. CASE u = s
    BY <1>2, <2>1 DEF IInv, PcInv, Statement
  <2>2. CASE u # s
    BY <1>2, <2>2 DEF IInv, PcInv
  <2> QED BY <2>1, <2>2
<1>4. FoundInv'
  BY <1>2 DEF IInv, FoundInv
<1>5. OpsInv'
  BY <1>2 DEF IInv, OpsInv, OpOK, InOps
<1>6. OwnedMarks'
  BY DEF IInv, OwnedMarks, Pending
<1>7. SeeInv' /\ NotInv'
  BY <1>2 DEF IInv, SeeInv, NotInv, Pending
<1> QED BY <1>1, <1>3, <1>4, <1>5, <1>6, <1>7 DEF IInv

\* start_if_need draws an id and takes the rows as they are.
LEMMA StartStep ==
    ASSUME IInv, NEW s \in Sessions, NEW x \in Statement \cup {"idle"}, ~started[s], pc[s] = "idle",
           x \notin {"delete"}, StartIfNeed(s), pc' = [pc EXCEPT ![s] = x],
           UNCHANGED <<records, operations, commit_id, found, orphans>>
    PROVE  IInv'
<1> DEFINE id == current_trx_id + 1
<1>0. /\ Reserved + 1 < MaxId /\ current_trx_id' = id /\ trx_id' = [trx_id EXCEPT ![s] = id]
      /\ started' = [started EXCEPT ![s] = TRUE]
      /\ must_see' = [must_see EXCEPT ![s] = Settled] /\ must_not' = [must_not EXCEPT ![s] = Unsettled]
  BY DEF StartIfNeed
<1>1. /\ trx_id'[s] = id /\ started'[s] /\ pc'[s] = x /\ must_see'[s] = Settled /\ must_not'[s] = Unsettled
      /\ \A u \in Sessions \ {s} : /\ trx_id'[u] = trx_id[u] /\ started'[u] = started[u] /\ pc'[u] = pc[u]
                                   /\ must_see'[u] = must_see[u] /\ must_not'[u] = must_not[u]
  BY <1>0 DEF IInv, TypeInv
<1>2. operations[s] = <<>> /\ InOps(s) = {} /\ commit_id[s] = 0 /\ found[s] = <<>> /\ Len(found[s]) = 0
  <2>1. operations[s] = <<>> /\ commit_id[s] = 0 /\ found[s] = <<>>
    BY DEF IInv, PcInv
  <2> QED BY <2>1, EmptySeq DEF InOps
<1>3. current_trx_id \in Nat /\ id \in Nat /\ id < Inf /\ current_trx_id < id
  BY <1>0, ReservedBound, MvccAssumption DEF IInv, TypeInv, Inf
<1>4. TypeInv'
  BY <1>0, <1>3 DEF IInv, TypeInv, Settled, Unsettled
<1>5. BoundInv'
  <2>1. Cardinality({u \in Sessions : started'[u]}) = Cardinality({u \in Sessions : started[u]}) + 1
    BY <1>0, <1>1, StartedCount
  <2> QED BY <1>0, <1>3, <2>1, ReservedBound, MvccAssumption DEF BoundInv, Reserved
<1>6. \A u \in Sessions : trx_id[u] \in Nat /\ commit_id[u] \in Nat /\ trx_id[u] <= current_trx_id /\ commit_id[u] <= current_trx_id
  BY DEF IInv, TypeInv, IdInv
<1>7. IdInv'
  <2>1. \A u \in Sessions : trx_id'[u] <= id /\ commit_id'[u] <= id
    BY <1>1, <1>3, <1>6
  <2>2. \A u, v \in Sessions : u # v => /\ trx_id'[u] # 0 => trx_id'[u] # trx_id'[v]
                                        /\ commit_id[u] # 0 => commit_id[u] # commit_id[v]
    BY <1>1, <1>3, <1>6 DEF IInv, IdInv
  <2>3. \A u, v \in Sessions : commit_id[u] # 0 => commit_id[u] # trx_id'[v]
    BY <1>1, <1>3, <1>6 DEF IInv, IdInv
  <2>4. orphans \subseteq 1..id /\ \A u \in Sessions : trx_id'[u] \notin orphans
    BY <1>1, <1>3 DEF IInv, IdInv
  <2> QED BY <1>0, <2>1, <2>2, <2>3, <2>4 DEF IdInv
<1>8. RowInv'
  BY <1>0, <1>3 DEF IInv, RowInv, TypeInv
<1>9. PcInv'
  BY <1>1, <1>2, <1>3 DEF IInv, PcInv, Statement
<1>10. FoundInv'
  BY <1>1, <1>2, <1>3 DEF IInv, FoundInv
<1>11. OpsInv'
  BY <1>1, <1>2 DEF IInv, OpsInv, OpOK, InOps
<1>12. \A u \in Sessions : \A type, r : Pending(u, type, r)' <=> Pending(u, type, r) /\ u # s
  BY <1>2, OpTyped DEF Pending, IInv
<1>13. OwnedMarks'
  BY <1>1, <1>12 DEF IInv, OwnedMarks, Pending
<1>14. SeeInv'
  <2> SUFFICES ASSUME NEW v \in Sessions, started'[v], NEW r \in must_see'[v]
               PROVE  /\ records[r].begin > 0 /\ records[r].begin <= trx_id'[v]
                      /\ records[r].end > trx_id'[v] \/ records[r].end < 0
                      /\ \A u \in Sessions : pc'[u] = "commit" /\ Pending(u, "DELETE", r)' => commit_id[u] > trx_id'[v]
    BY DEF SeeInv
  <2>1. CASE v # s
    BY <1>1, <1>12, <2>1 DEF IInv, SeeInv
  <2>2. CASE v = s
    <3>1. r \in Rids /\ records[r].begin > 0 /\ (records[r].end = Inf \/ (records[r].end < 0 /\ ~Committing(-records[r].end)))
      BY <1>1, <2>2 DEF Settled
    <3>2. records[r].begin <= current_trx_id /\ records[r].begin \in Int /\ records[r].end \in Int
      BY <3>1 DEF IInv, TypeInv, RowInv
    <3>3. ASSUME NEW u \in Sessions, pc[u] = "commit", Pending(u, "DELETE", r) PROVE FALSE
      <4>1. PICK i \in InOps(u) : operations[u][i].type = "DELETE" /\ operations[u][i].rid = r
        BY <3>3, PendingOp DEF IInv
      <4>2. OpOK(u, i)
        BY DEF IInv, OpsInv
      <4>3. records[r].end = -trx_id[u] \/ records[r].end = commit_id[u]
        BY <3>3, <4>1, <4>2 DEF OpOK
      <4>4. commit_id[u] \in Nat \ {0} /\ commit_id[u] < Inf /\ trx_id[u] \in Nat /\ Inf \in Nat
        BY <1>3, <1>6, <3>3, MvccAssumption DEF IInv, PcInv, Inf
      <4>5. records[r].end = -trx_id[u] /\ records[r].end < 0
        BY <3>1, <3>2, <4>3, <4>4
      <4>6. Committing(-records[r].end)
        BY <3>3, <4>4, <4>5 DEF Committing
      <4> QED BY <3>1, <3>2, <4>4, <4>5, <4>6, MvccAssumption DEF Inf
    <3> QED BY <1>1, <1>3, <1>12, <2>2, <3>1, <3>2, <3>3
  <2> QED BY <2>1, <2>2
<1>15. NotInv'
  <2> SUFFICES ASSUME NEW v \in Sessions, started'[v], NEW r \in must_not'[v]
               PROVE  /\ records[r].begin > trx_id'[v] \/ records[r].begin <= 0
                      /\ \A u \in Sessions : pc'[u] = "commit" /\ Pending(u, "INSERT", r)' => commit_id[u] > trx_id'[v]
    BY DEF NotInv
  <2>1. CASE v # s
    BY <1>1, <1>12, <2>1 DEF IInv, NotInv
  <2>2. CASE v = s
    <3>1. r \in Rids /\ (records[r] = Absent \/ (records[r].begin < 0 /\ ~Committing(-records[r].begin)))
      BY <1>1, <2>2 DEF Unsettled
    <3>2. records[r].begin <= 0
      BY <3>1 DEF Absent, IInv, TypeInv
    <3>3. ASSUME NEW u \in Sessions, pc[u] = "commit", Pending(u, "INSERT", r) PROVE FALSE
      <4>1. PICK i \in InOps(u) : operations[u][i].type = "INSERT" /\ operations[u][i].rid = r
        BY <3>3, PendingOp DEF IInv
      <4>2. OpOK(u, i)
        BY DEF IInv, OpsInv
      <4>3. records[r] # Absent /\ records[r].begin = -trx_id[u] /\ trx_id[u] \in Nat
        BY <1>6, <4>1, <4>2 DEF OpOK
      <4>4. -records[r].begin = trx_id[u]
        BY <4>3
      <4> QED BY <3>1, <3>3, <4>3, <4>4 DEF Committing
    <3> QED BY <1>1, <1>12, <2>2, <3>2, <3>3
  <2> QED BY <2>1, <2>2
<1> QED BY <1>4, <1>5, <1>7, <1>8, <1>9, <1>10, <1>11, <1>13, <1>14, <1>15 DEF IInv

\* One of a row's xids is written.
LEMMA SetXid ==
    ASSUME TypeInv, NEW w \in Rids, NEW x \in Int
    PROVE  /\ [records EXCEPT ![w].begin = x] = [records EXCEPT ![w] = [begin |-> x, end |-> records[w].end]]
           /\ [records EXCEPT ![w].end = x] = [records EXCEPT ![w] = [begin |-> records[w].begin, end |-> x]]
<1>1. records[w] = [begin |-> records[w].begin, end |-> records[w].end]
  BY DEF TypeInv
<1>2. [records[w] EXCEPT !.begin = x] = [begin |-> x, end |-> records[w].end]
  BY <1>1
<1>3. [records[w] EXCEPT !.end = x] = [begin |-> records[w].begin, end |-> x]
  BY <1>1
<1> QED BY <1>2, <1>3

\* Session s writes row w: the operations of the others stay as they are.
LEMMA OthersKeepOps ==
    ASSUME IInv, NEW s \in Sessions, NEW w \in Rids,
           \A r \in Rids \ {w} : records'[r] = records[r],
           \A u \in Sessions \ {s} : /\ operations'[u] = operations[u] /\ pc'[u] = pc[u]
                                     /\ \A i \in InOps(u) : operations[u][i].rid # w,
           UNCHANGED <<trx_id, commit_id>>
    PROVE  \A u \in Sessions \ {s} : \A i \in InOps(u)' : OpOK(u, i)'
<1> SUFFICES ASSUME NEW u \in Sessions \ {s}, NEW i \in InOps(u) PROVE OpOK(u, i)'
  BY DEF InOps
<1>1. OpOK(u, i) /\ operations[u][i].rid \in Rids \ {w}
  BY OpTyped DEF IInv, OpsInv
<1>2. records'[operations[u][i].rid] = records[operations[u][i].rid]
  BY <1>1
<1> QED BY <1>1, <1>2 DEF OpOK, InOps

LEMMA InsertRecordInv == ASSUME IInv, NEW s \in Sessions, InsertRecord(s) PROVE IInv'
<1> DEFINE n == Len(operations[s])
<1>0. PICK w \in Rids :
         /\ records[w] = Absent
         /\ records' = [records EXCEPT ![w] = [begin |-> -trx_id[s], end |-> Inf]]
         /\ operations' = [operations EXCEPT ![s] = Append(@, Op("INSERT", w))]
  BY DEF InsertRecord
<1>1. /\ pc[s] = "insert" /\ pc' = [pc EXCEPT ![s] = "close"]
      /\ UNCHANGED <<current_trx_id, trx_id, started, commit_id, found, must_see, must_not, orphans>>
  BY DEF InsertRecord, kit, history
<1>2. Op("INSERT", w) \in Ops
  BY DEF Ops, Op
<1>3. /\ operations' \in [Sessions -> Seq(Ops)] /\ \A u \in Sessions \ {s} : operations'[u] = operations[u]
      /\ Len(operations'[s]) = n + 1 /\ operations'[s][n + 1] = Op("INSERT", w)
      /\ \A i \in InOps(s) : operations'[s][i] = operations[s][i]
      /\ operations'[s] # <<>>
  BY <1>0, <1>2, AppendOp DEF IInv
<1>4. /\ records'[w].begin = -trx_id[s] /\ records'[w].end = Inf
      /\ \A r \in Rids \ {w} : records'[r] = records[r]
      /\ pc'[s] = "close" /\ \A u \in Sessions \ {s} : pc'[u] = pc[u]
  BY <1>0, <1>1 DEF IInv, TypeInv
<1>5. /\ trx_id[s] \in Nat \ {0} /\ trx_id[s] <= current_trx_id /\ started[s] /\ commit_id[s] = 0 /\ n \in Nat
      /\ current_trx_id \in Nat /\ Inf \in Nat \ {0}
  BY <1>1, OpTyped, MvccAssumption DEF IInv, TypeInv, PcInv, IdInv, Statement, Inf
<1>6. \A u \in Sessions : \A i \in InOps(u) : operations[u][i].rid # w
  BY <1>0 DEF IInv, OpsInv, OpOK
<1>7. TypeInv'
  BY <1>0, <1>1, <1>3, <1>5 DEF IInv, TypeInv, Statement
<1>8. BoundInv' /\ IdInv'
  BY <1>1 DEF IInv, BoundInv, Reserved, IdInv
<1>9. RowInv'
  <2>1. records'[w] # Absent
    BY <1>4, <1>5 DEF Absent
  <2> QED BY <1>1, <1>4, <1>5, <2>1 DEF IInv, RowInv
<1>10. PcInv'
  BY <1>1, <1>3, <1>4, <1>5 DEF IInv, PcInv, Statement
<1>11. FoundInv'
  <2> SUFFICES ASSUME NEW u \in Sessions, NEW i \in 1..Len(found[u])
               PROVE  records'[found[u][i]].begin > 0 \/ records'[found[u][i]].begin = -trx_id[u]
    BY <1>1 DEF FoundInv
  <2>1. found[u][i] \in Rids /\ found[u] # <<>> /\ trx_id[u] \in Nat
    BY ElementOfSeq, EmptySeq DEF IInv, TypeInv
  <2>2. trx_id[u] # 0
    BY <2>1 DEF IInv, PcInv, Statement
  <2>3. records[found[u][i]].begin > 0 \/ records[found[u][i]].begin = -trx_id[u]
    BY DEF IInv, FoundInv
  <2>4. found[u][i] # w
    BY <1>0, <2>1, <2>2, <2>3 DEF Absent
  <2> QED BY <1>4, <2>1, <2>3, <2>4
<1>12. InOps(s)' = InOps(s) \cup {n + 1} /\ n + 1 \notin InOps(s)
  BY <1>3, <1>5 DEF InOps
<1>13. ASSUME NEW i \in InOps(s)' PROVE OpOK(s, i)'
  <2>1. CASE i \in InOps(s)
    <3>1. OpOK(s, i) /\ operations[s][i].rid \in Rids \ {w}
      BY <1>6, <2>1, OpTyped DEF IInv, OpsInv
    <3>2. \A j \in InOps(s)' : j \in InOps(s) \/ operations'[s][j].rid # operations[s][i].rid
      BY <1>3, <1>12, <3>1 DEF Op
    <3>3. \A j \in InOps(s)' : operations'[s][j] = operations[s][i] => j \in InOps(s)
      BY <3>2
    <3>4. operations'[s][i] = operations[s][i] /\ records'[operations[s][i].rid] = records[operations[s][i].rid]
      BY <1>3, <1>4, <2>1, <3>1
    <3> QED BY <1>1, <1>3, <1>4, <2>1, <3>1, <3>2, <3>3, <3>4 DEF OpOK
  <2>2. CASE i = n + 1
    <3>1. operations'[s][i].type = "INSERT" /\ operations'[s][i].rid = w
      BY <1>3, <2>2 DEF Op
    <3>2. \A j \in InOps(s)' : j = i \/ operations'[s][j].rid # w
      BY <1>3, <1>6, <1>12, <2>2
    <3>3. records'[w] # Absent
      BY <1>4, <1>5 DEF Absent
    <3> QED BY <1>1, <1>4, <3>1, <3>2, <3>3 DEF OpOK
  <2> QED BY <1>12, <2>1, <2>2
<1>14. OpsInv'
  BY <1>1, <1>3, <1>4, <1>6, <1>13, OthersKeepOps DEF OpsInv
<1>15. \A u \in Sessions : \A type, r : Pending(u, type, r)' <=> Pending(u, type, r) \/ (u = s /\ Op("INSERT", w) = Op(type, r))
  BY <1>0, <1>2, AppendOp DEF IInv
<1>16. OwnedMarks'
  BY <1>1, <1>4, <1>5, <1>15 DEF IInv, OwnedMarks
<1>17. SeeInv'
  BY <1>1, <1>0, <1>4, <1>15 DEF IInv, TypeInv, SeeInv, Absent
<1>18. NotInv'
  <2> SUFFICES ASSUME NEW v \in Sessions, started[v], NEW r \in must_not[v]
               PROVE  /\ records'[r].begin > trx_id[v] \/ records'[r].begin <= 0
                      /\ \A u \in Sessions : pc'[u] = "commit" /\ Pending(u, "INSERT", r)' => commit_id[u] > trx_id[v]
    BY <1>1 DEF NotInv
  <2>1. records'[r].begin > trx_id[v] \/ records'[r].begin <= 0
    <3>1. CASE r = w
      BY <1>4, <1>5, <3>1
    <3>2. CASE r # w
      BY <1>4, <3>2 DEF IInv, TypeInv, NotInv
    <3> QED BY <3>1, <3>2
  <2>2. \A u \in Sessions : pc'[u] = "commit" => u # s /\ pc[u] = "commit"
    BY <1>4
  <2> QED BY <1>15, <2>1, <2>2 DEF IInv, NotInv
<1> QED BY <1>7, <1>8, <1>9, <1>10, <1>11, <1>14, <1>16, <1>17, <1>18 DEF IInv

\* The row is marked only if nobody else has an operation on it.
LEMMA DeleteRecordInv == ASSUME IInv, NEW s \in Sessions, DeleteRecord(s) PROVE IInv'
<1> DEFINE n == Len(operations[s])
<1>1. /\ pc[s] = "delete" /\ found[s] # <<>> /\ found[s] \in Seq(Rids)
      /\ UNCHANGED <<current_trx_id, trx_id, started, commit_id, must_see, must_not, orphans>>
  BY DEF DeleteRecord, kit, IInv, TypeInv
<1>w. PICK w \in Rids : w = Head(found[s])
  BY <1>1, HeadTailProperties
<1> DEFINE rc == Visit(trx_id[s], records[w], "READ_WRITE")
<1>2. /\ Tail(found[s]) \in Seq(Rids) /\ Len(found[s]) \in Nat \ {0} /\ w = found[s][1]
      /\ Len(Tail(found[s])) = Len(found[s]) - 1
      /\ \A i \in 1..Len(Tail(found[s])) : i + 1 \in 1..Len(found[s]) /\ Tail(found[s])[i] = found[s][i + 1]
  <2>1. Len(found[s]) \in Nat \ {0} /\ w = found[s][1]
    BY <1>1, <1>w, LenProperties, EmptySeq
  <2>2. /\ Tail(found[s]) \in Seq(Rids) /\ Len(Tail(found[s])) = Len(found[s]) - 1
        /\ \A i \in 1..Len(Tail(found[s])) : Tail(found[s])[i] = found[s][i + 1]
    BY <1>1, HeadTailProperties
  <2> QED BY <2>1, <2>2
<1>3. /\ trx_id[s] \in Nat \ {0} /\ trx_id[s] <= current_trx_id /\ started[s] /\ commit_id[s] = 0 /\ n \in Nat
      /\ current_trx_id \in Nat /\ Inf \in Nat \ {0}
      /\ records[w].begin \in Int /\ records[w].end \in Int
  BY <1>1, <1>2, OpTyped, MvccAssumption DEF IInv, TypeInv, PcInv, IdInv, Statement, Inf
<1>4. records[w].begin > 0 \/ records[w].begin = -trx_id[s]
  BY <1>2 DEF IInv, FoundInv
<1>5. \A i \in 1..Len(Tail(found[s])) : LET q == Tail(found[s])[i]
                                        IN  records[q].begin > 0 \/ records[q].begin = -trx_id[s]
  BY <1>2 DEF IInv, FoundInv
<1>6. CASE rc # "SUCCESS"
  <2>1. /\ found' = [found EXCEPT ![s] = <<>>] /\ pc' = [pc EXCEPT ![s] = "close"]
        /\ UNCHANGED <<records, operations>>
    BY <1>6, <1>w DEF DeleteRecord
  <2>2. PICK f \in Seq(Rids) : f = <<>>
    <3>1. <<>> \in Seq(Rids)
      BY EmptySeq
    <3> QED BY <3>1, Zenon
  <2>5. \A i \in 1..Len(f) : FALSE
    BY <2>2
  <2>3. PICK x \in Statement \cup {"idle"} : x = "close"
    BY DEF Statement
  <2>4. pc[s] \in Statement \cup {"idle"}
    BY <1>1 DEF Statement
  <2> QED BY <1>1, <1>3, <2>1, <2>2, <2>3, <2>4, <2>5, StatementStep
<1>7. CASE rc = "SUCCESS"
  <2>1. /\ records' = [records EXCEPT ![w].end = -trx_id[s]]
        /\ operations' = [operations EXCEPT ![s] = Append(@, Op("DELETE", w))]
        /\ found' = [found EXCEPT ![s] = Tail(@)] /\ UNCHANGED pc
    BY <1>7, <1>w DEF DeleteRecord
  <2>2. records[w].end # 0 /\ records[w].begin # 0 /\ (records[w].begin < 0 => records[w].end \in {Inf, records[w].begin})
    BY <1>2, <1>3, <1>4 DEF IInv, RowInv, Absent
  <2>3. \/ records[w].begin > 0 /\ records[w].end > 0 /\ records[w].begin <= trx_id[s] /\ trx_id[s] <= records[w].end
        \/ records[w].begin = -trx_id[s] /\ records[w].end \in {Inf, -trx_id[s]}
    <3>1. CASE records[w].begin > 0 /\ records[w].end > 0
      BY <1>3, <1>7, <3>1 DEF Visit
    <3>2. CASE records[w].begin > 0 /\ records[w].end < 0
      BY <1>3, <1>7, <3>2 DEF Visit
    <3> QED BY <1>3, <1>4, <2>2, <3>1, <3>2
  <2>4. ASSUME NEW u \in Sessions \ {s}, NEW i \in InOps(u) PROVE operations[u][i].rid # w
    <3> SUFFICES ASSUME operations[u][i].rid = w PROVE FALSE
      OBVIOUS
    <3>1. OpOK(u, i) /\ operations[u][i].type \in {"INSERT", "DELETE"}
      BY OpTyped DEF IInv, OpsInv
    <3>2. \/ records[w].begin = -trx_id[u] \/ records[w].end = -trx_id[u]
          \/ records[w].begin = commit_id[u] /\ records[w].end = commit_id[u]
      BY <3>1 DEF OpOK
    <3>3. /\ trx_id[u] \in Nat /\ commit_id[u] \in Nat /\ trx_id[u] # trx_id[s]
          /\ commit_id[u] # 0 => commit_id[u] # trx_id[s]
      BY <1>3 DEF IInv, TypeInv, IdInv
    <3> QED BY <1>3, <2>2, <2>3, <3>2, <3>3
  <2>5. Op("DELETE", w) \in Ops
    BY <1>2 DEF Ops, Op
  <2>6. /\ operations' \in [Sessions -> Seq(Ops)] /\ \A u \in Sessions \ {s} : operations'[u] = operations[u]
        /\ Len(operations'[s]) = n + 1 /\ operations'[s][n + 1] = Op("DELETE", w)
        /\ \A i \in InOps(s) : operations'[s][i] = operations[s][i]
        /\ operations'[s] # <<>>
        /\ \A u \in Sessions : \A type, r : Pending(u, type, r)' <=> Pending(u, type, r) \/ (u = s /\ Op("DELETE", w) = Op(type, r))
    BY <2>1, <2>5, AppendOp DEF IInv
  <2>7. /\ records'[w].begin = records[w].begin /\ records'[w].end = -trx_id[s]
        /\ \A r \in Rids \ {w} : records'[r] = records[r]
        /\ records' \in [Rids -> [begin : Int, end : Int]]
    <3>1. -trx_id[s] \in Int
      BY <1>3
    <3>2. records' = [records EXCEPT ![w] = [begin |-> records[w].begin, end |-> -trx_id[s]]]
      BY <1>2, <2>1, <3>1, SetXid DEF IInv
    <3> QED BY <1>2, <1>3, <3>1, <3>2 DEF IInv, TypeInv
  <2>8. found'[s] = Tail(found[s]) /\ \A u \in Sessions \ {s} : found'[u] = found[u]
    BY <2>1 DEF IInv, TypeInv
  <2>9. TypeInv'
    BY <1>1, <1>2, <2>1, <2>6, <2>7 DEF IInv, TypeInv
  <2>10. BoundInv' /\ IdInv'
    BY <1>1 DEF IInv, BoundInv, Reserved, IdInv
  <2> HIDE DEF rc, n
  <2>11. RowInv'
    <3>1. /\ records'[w] # Absent /\ -trx_id[s] \in -current_trx_id..current_trx_id
          /\ records'[w].begin < 0 => records'[w].end = records'[w].begin
      BY <1>3, <2>3, <2>7 DEF Absent
    <3> SUFFICES ASSUME NEW r \in Rids
                 PROVE  /\ records'[r].begin \in -current_trx_id..current_trx_id
                        /\ records'[r].end \in (-current_trx_id..current_trx_id) \cup {Inf}
                        /\ records'[r].begin = 0 \/ records'[r].end = 0 => records'[r] = Absent
                        /\ records'[r].begin < 0 => records'[r].end \in {Inf, records'[r].begin}
      BY <1>1 DEF RowInv
    <3>0. records[w].begin \in -current_trx_id..current_trx_id
      BY <1>2 DEF IInv, RowInv
    <3>2. CASE r = w
      <4>1. records'[w].begin # 0 /\ records'[w].end # 0
        BY <1>3, <2>2, <2>7
      <4> QED BY <2>7, <3>0, <3>1, <3>2, <4>1
    <3>3. CASE r # w
      BY <2>7, <3>3 DEF IInv, RowInv
    <3> QED BY <3>2, <3>3
  <2>12. PcInv'
    BY <1>1, <1>3, <2>1, <2>6, <2>8 DEF IInv, PcInv
  <2>13. \A r \in Rids : records'[r].begin = records[r].begin
    BY <2>7
  <2>14. FoundInv'
    <3> SUFFICES ASSUME NEW u \in Sessions, NEW i \in 1..Len(found'[u])
                 PROVE  records'[found'[u][i]].begin > 0 \/ records'[found'[u][i]].begin = -trx_id[u]
      BY <1>1 DEF FoundInv
    <3>1. found'[u][i] \in Rids
      BY <2>9, ElementOfSeq DEF TypeInv
    <3>2. CASE u = s
      BY <1>5, <2>8, <2>13, <3>1, <3>2
    <3>3. CASE u # s
      BY <2>8, <2>13, <3>1, <3>3 DEF IInv, FoundInv
    <3> QED BY <3>2, <3>3
  <2>15. InOps(s)' = InOps(s) \cup {n + 1} /\ n + 1 \notin InOps(s) /\ \A i \in InOps(s) : i < n + 1
    BY <1>3, <2>6 DEF InOps, n
  <2>16. ASSUME NEW i \in InOps(s)' PROVE OpOK(s, i)'
    <3>0. records'[w] # Absent
      BY <1>3, <2>7 DEF Absent
    <3>1. ASSUME NEW j \in InOps(s), operations[s][j] = Op("DELETE", w) PROVE records[w].begin = -trx_id[s]
      <4>1. OpOK(s, j) /\ operations[s][j].type = "DELETE" /\ operations[s][j].rid = w
        BY <3>1 DEF IInv, OpsInv, Op
      <4>2. records[w].end = -trx_id[s]
        BY <1>1, <4>1 DEF OpOK
      <4> QED BY <1>3, <2>3, <4>2
    <3>2. CASE i \in InOps(s)
      <4>1. /\ OpOK(s, i) /\ operations[s][i].rid \in Rids /\ operations'[s][i] = operations[s][i]
            /\ operations[s][i] = Op(operations[s][i].type, operations[s][i].rid)
        BY <2>6, <3>2, OpTyped DEF IInv, OpsInv
      <4>2. records'[operations[s][i].rid].begin = records[operations[s][i].rid].begin
        BY <2>13, <4>1
      <4>3. records'[operations[s][i].rid] # Absent
        BY <2>7, <3>0, <4>1 DEF OpOK
      <4>4. CASE operations[s][i].type = "INSERT"
        <5>1. records[operations[s][i].rid].begin = -trx_id[s]
          BY <4>1, <4>4 DEF OpOK
        <5>2. \A j \in InOps(s)' : operations'[s][j].rid = operations[s][i].rid /\ j # i =>
                operations'[s][j].type = "DELETE" /\ i < j
          <6>1. operations'[s][n + 1].type = "DELETE" /\ i < n + 1
            BY <2>6, <2>15, <3>2 DEF Op
          <6> QED BY <2>6, <2>15, <4>1, <4>4, <6>1 DEF OpOK
        <5> QED BY <1>1, <4>1, <4>2, <4>3, <4>4, <5>1, <5>2 DEF OpOK
      <4>5. CASE operations[s][i].type = "DELETE"
        <5>1. records[operations[s][i].rid].end = -trx_id[s]
          BY <1>1, <4>1, <4>5 DEF OpOK
        <5>2. records'[operations[s][i].rid].end = -trx_id[s]
          BY <2>7, <4>1, <5>1
        <5>3. \A j \in InOps(s)' : operations'[s][j] = operations[s][i] /\ j # i =>
                records[operations[s][i].rid].begin \in {-trx_id[s], commit_id[s]}
          <6> SUFFICES ASSUME NEW j \in InOps(s)', operations'[s][j] = operations[s][i], j # i
                       PROVE  records[operations[s][i].rid].begin \in {-trx_id[s], commit_id[s]}
            OBVIOUS
          <6>1. CASE j \in InOps(s)
            BY <2>6, <4>1, <4>5, <6>1 DEF OpOK
          <6>2. CASE j = n + 1
            <7>1. operations[s][i] = Op("DELETE", w) /\ operations[s][i].rid = w
              BY <2>6, <6>2 DEF Op
            <7> QED BY <3>1, <3>2, <7>1
          <6> QED BY <2>15, <6>1, <6>2
        <5> QED BY <1>1, <4>1, <4>2, <4>3, <4>5, <5>2, <5>3 DEF OpOK
      <4> QED BY <3>2, <4>4, <4>5, OpTyped DEF IInv
    <3>3. CASE i = n + 1
      <4>1. operations'[s][i].type = "DELETE" /\ operations'[s][i].rid = w
        BY <2>6, <3>3 DEF Op
      <4>2. \A j \in InOps(s)' : operations'[s][j] = operations'[s][i] /\ j # i => records'[w].begin = -trx_id[s]
        BY <2>6, <2>7, <2>15, <3>1, <3>3
      <4> QED BY <1>1, <2>7, <3>0, <4>1, <4>2 DEF OpOK
    <3> QED BY <2>15, <3>2, <3>3
  <2>17. OpsInv'
    <3>1. \A u \in Sessions \ {s} : /\ operations'[u] = operations[u] /\ pc'[u] = pc[u]
                                    /\ \A i \in InOps(u) : operations[u][i].rid # w
      BY <2>1, <2>4, <2>6
    <3>2. UNCHANGED <<trx_id, commit_id>>
      BY <1>1
    <3>3. \A u \in Sessions \ {s} : \A i \in InOps(u)' : OpOK(u, i)'
      BY <1>2, <2>7, <3>1, <3>2, OthersKeepOps
    <3> QED BY <2>16, <3>3 DEF OpsInv
  <2>18. OwnedMarks'
    <3> SUFFICES ASSUME NEW r \in Rids
                 PROVE  /\ records'[r].begin < 0 => -records'[r].begin \in orphans
                             \/ \E u \in Sessions : trx_id[u] = -records'[r].begin /\ Pending(u, "INSERT", r)'
                        /\ records'[r].end < 0 => -records'[r].end \in orphans
                             \/ \E u \in Sessions : trx_id[u] = -records'[r].end /\ Pending(u, "DELETE", r)'
      BY <1>1 DEF OwnedMarks
    <3>1. records'[r].begin < 0 => -records'[r].begin \in orphans
             \/ \E u \in Sessions : trx_id[u] = -records'[r].begin /\ Pending(u, "INSERT", r)'
      BY <2>6, <2>13 DEF IInv, OwnedMarks
    <3>2. CASE r = w
      <4>1. Pending(s, "DELETE", w)'
        BY <2>6
      <4>2. trx_id[s] = -(-trx_id[s])
        BY <1>3
      <4>3. trx_id[s] = -records'[w].end
        BY <2>7, <4>2
      <4>4. \E u \in Sessions : trx_id[u] = -records'[w].end /\ Pending(u, "DELETE", w)'
        BY <4>1, <4>3
      <4> QED BY <3>1, <3>2, <4>4
    <3>3. CASE r # w
      BY <2>6, <2>7, <3>1, <3>3 DEF IInv, OwnedMarks
    <3> QED BY <3>2, <3>3
  <2>19. \A u \in Sessions : pc'[u] = "commit" => u # s /\ pc[u] = "commit"
    BY <1>1, <2>1
  <2>20. SeeInv'
    <3> SUFFICES ASSUME NEW v \in Sessions, started[v], NEW r \in must_see[v]
                 PROVE  /\ records'[r].begin > 0 /\ records'[r].begin <= trx_id[v]
                        /\ records'[r].end > trx_id[v] \/ records'[r].end < 0
                        /\ \A u \in Sessions : pc'[u] = "commit" /\ Pending(u, "DELETE", r)' => commit_id[u] > trx_id[v]
      BY <1>1 DEF SeeInv
    <3>1. r \in Rids
      BY DEF IInv, TypeInv
    <3>2. records'[r].end = records[r].end \/ records'[r].end < 0
      BY <1>3, <2>7, <3>1
    <3> QED BY <2>6, <2>13, <2>19, <3>1, <3>2 DEF IInv, SeeInv
  <2>21. NotInv'
    BY <1>1, <2>6, <2>13, <2>19 DEF IInv, TypeInv, NotInv
  <2> QED BY <2>9, <2>10, <2>11, <2>12, <2>14, <2>17, <2>18, <2>20, <2>21 DEF IInv
<1> QED BY <1>6, <1>7

\* The steps of a statement that write no row.
LEMMA ScanInv == ASSUME IInv, NEW s \in Sessions, Scan(s) PROVE IInv'
<1>1. /\ pc[s] = "scan" /\ cursor[s] \in Rids /\ UNCHANGED pc
      /\ UNCHANGED <<current_trx_id, records, trx_id, started, operations, commit_id, must_see, must_not, orphans>>
  BY DEF Scan, kit, trx
<1>2. found[s] \in Seq(Rids) /\ pc' = [pc EXCEPT ![s] = "scan"] /\ started[s] /\ trx_id[s] \in Nat
  BY <1>1 DEF IInv, TypeInv, PcInv, Statement
<1>w. PICK w \in Rids : w = cursor[s]
  BY <1>1
<1>3. \/ found' = [found EXCEPT ![s] = found[s]]
      \/ /\ found' = [found EXCEPT ![s] = Append(found[s], w)]
         /\ records[w] # Absent /\ Visit(trx_id[s], records[w], "READ_WRITE") = "SUCCESS"
  BY <1>w DEF Scan
<1>4. PICK x \in Statement \cup {"idle"} : x = "scan"
  BY DEF Statement
<1>5. \A i \in 1..Len(found[s]) : records[found[s][i]].begin > 0 \/ records[found[s][i]].begin = -trx_id[s]
  BY DEF IInv, FoundInv
<1>6. CASE found' = [found EXCEPT ![s] = found[s]]
  BY <1>1, <1>2, <1>4, <1>5, <1>6, StatementStep
<1>7. CASE /\ found' = [found EXCEPT ![s] = Append(found[s], w)]
           /\ records[w] # Absent /\ Visit(trx_id[s], records[w], "READ_WRITE") = "SUCCESS"
  <2>1. records[w].begin \in Int /\ records[w].end \in Int /\ records[w].begin # 0 /\ records[w].end # 0
    BY <1>7 DEF IInv, TypeInv, RowInv
  <2>2. records[w].begin > 0 \/ records[w].begin = -trx_id[s]
    <3>1. CASE records[w].begin < 0
      BY <1>2, <1>7, <2>1, <3>1 DEF Visit
    <3> QED BY <2>1, <3>1
  <2>3. PICK f \in Seq(Rids) : f = Append(found[s], w)
    BY <1>2, AppendProperties, Zenon
  <2>4. \A i \in 1..Len(f) : records[f[i]].begin > 0 \/ records[f[i]].begin = -trx_id[s]
    <3>1. Len(found[s]) \in Nat
      BY <1>2, LenProperties
    <3>2. /\ Len(f) = Len(found[s]) + 1 /\ f[Len(found[s]) + 1] = w
          /\ \A i \in 1..Len(found[s]) : f[i] = found[s][i]
      BY <1>2, <2>3, AppendProperties
    <3>3. \A i \in 1..Len(f) : i \in 1..Len(found[s]) \/ i = Len(found[s]) + 1
      BY <3>1, <3>2
    <3> QED BY <1>5, <2>2, <3>2, <3>3
  <2> QED BY <1>1, <1>2, <1>4, <1>7, <2>3, <2>4, StatementStep
<1> QED BY <1>3, <1>6, <1>7

LEMMA QuietStatementInv ==
    ASSUME IInv, NEW s \in Sessions, InsertFails(s) \/ ScanEnd(s) \/ DeleteEnd(s) \/ (multi[s] /\ Close(s))
    PROVE  IInv'
<1>1. /\ UNCHANGED <<current_trx_id, records, trx_id, started, operations, commit_id, must_see, must_not, orphans, found>>
      /\ pc[s] \in Statement
      /\ \/ pc' = [pc EXCEPT ![s] = "close"] /\ (pc[s] = "delete" => found[s] = <<>>) /\ pc[s] # "scan"
         \/ pc' = [pc EXCEPT ![s] = "delete"]
         \/ pc' = [pc EXCEPT ![s] = "idle"] /\ pc[s] = "close"
  BY DEF InsertFails, ScanEnd, DeleteEnd, Close, kit, trx, history, Statement
<1>2. PICK x \in Statement \cup {"idle"} : /\ pc' = [pc EXCEPT ![s] = x] /\ (x \notin {"scan", "delete"} => found[s] = <<>>)
  BY <1>1 DEF IInv, PcInv, Statement
<1>3. found[s] \in Seq(Rids) /\ found' = [found EXCEPT ![s] = found[s]] /\ started[s]
  BY <1>1 DEF IInv, TypeInv, PcInv
<1>4. \A i \in 1..Len(found[s]) : records[found[s][i]].begin > 0 \/ records[found[s][i]].begin = -trx_id[s]
  BY DEF IInv, FoundInv
<1> QED BY <1>1, <1>2, <1>3, <1>4, StatementStep

LEMMA OpenInv ==
    ASSUME IInv, NEW s \in Sessions, Begin(s) \/ \E stmt \in {"insert", "delete", "select"} : Open(s, stmt)
    PROVE  IInv'
<1>1. /\ pc[s] = "idle" /\ StartIfNeed(s) /\ UNCHANGED <<records, operations, commit_id, found, orphans>>
      /\ \/ pc' = [pc EXCEPT ![s] = "insert"] \/ pc' = [pc EXCEPT ![s] = "scan"] \/ pc' = [pc EXCEPT ![s] = "close"]
         \/ pc' = [pc EXCEPT ![s] = "idle"]
  BY DEF Begin, Open, IInv, TypeInv
<1>2. PICK x \in Statement \cup {"idle"} : pc' = [pc EXCEPT ![s] = x] /\ x # "delete"
  BY <1>1 DEF Statement
<1>3. found[s] = <<>> /\ found[s] \in Seq(Rids) /\ found' = [found EXCEPT ![s] = found[s]] /\ Len(found[s]) = 0
  BY <1>1, EmptySeq DEF IInv, TypeInv, PcInv
<1>4. CASE started[s]
  <2>1. UNCHANGED <<current_trx_id, trx_id, started, must_see, must_not>>
    BY <1>1, <1>4 DEF StartIfNeed
  <2>2. \A i \in 1..Len(found[s]) : FALSE
    BY <1>3
  <2> QED BY <1>1, <1>2, <1>3, <1>4, <2>1, <2>2, StatementStep
<1>5. CASE ~started[s]
  BY <1>1, <1>2, <1>5, StartStep
<1> QED BY <1>4, <1>5

-----------------------------------------------------------------------------
(***************************************************************************)
(* The end of a transaction.                                               *)
(***************************************************************************)
\* The commit id is younger than every running transaction.
LEMMA BeginCommitInv ==
    ASSUME IInv, NEW s \in Sessions, BeginCommit(s), trx_id[s] # 0, pc[s] \in {"idle", "close"},
           started[s] \/ Reserved < MaxId,
           UNCHANGED <<records, trx_id, operations, found, orphans>>
    PROVE  IInv'
<1> DEFINE id == current_trx_id + 1
<1>0. /\ current_trx_id' = id /\ commit_id' = [commit_id EXCEPT ![s] = id]
      /\ started' = [started EXCEPT ![s] = FALSE] /\ pc' = [pc EXCEPT ![s] = "commit"]
      /\ must_see' = [must_see EXCEPT ![s] = {}] /\ must_not' = [must_not EXCEPT ![s] = {}]
  BY DEF BeginCommit, Forget
<1>1. /\ commit_id'[s] = id /\ ~started'[s] /\ pc'[s] = "commit"
      /\ \A u \in Sessions \ {s} : /\ commit_id'[u] = commit_id[u] /\ started'[u] = started[u] /\ pc'[u] = pc[u]
                                   /\ must_see'[u] = must_see[u] /\ must_not'[u] = must_not[u]
  BY <1>0 DEF IInv, TypeInv
<1>2. commit_id[s] = 0 /\ found[s] = <<>> /\ started[s] \in BOOLEAN
  BY DEF IInv, PcInv, TypeInv
<1>3. current_trx_id \in Nat /\ id \in Nat \ {0} /\ current_trx_id < id
  BY DEF IInv, TypeInv
<1>4. TypeInv'
  BY <1>0, <1>3 DEF IInv, TypeInv
<1>5. BoundInv'
  <2>1. /\ started[s] => Cardinality({u \in Sessions : started'[u]}) = Cardinality({u \in Sessions : started[u]}) - 1
        /\ ~started[s] => Cardinality({u \in Sessions : started'[u]}) = Cardinality({u \in Sessions : started[u]})
    BY ZenonT(40), <1>0, <1>1, <1>2, StartedCount
  <2>2. IInv /\ Cardinality({u \in Sessions : started[u]}) \in Nat /\ Reserved \in Nat /\ Reserved <= MaxId
    BY ReservedBound DEF IInv, BoundInv
  <2>3. Reserved' = current_trx_id' + Cardinality({u \in Sessions : started'[u]})
    BY DEF Reserved
  <2>4. Reserved = current_trx_id + Cardinality({u \in Sessions : started[u]})
    BY DEF Reserved
  <2>5. CASE started[s]
    BY <1>0, <1>3, <2>1, <2>2, <2>3, <2>4, <2>5 DEF BoundInv
  <2>6. CASE ~started[s]
    BY <1>0, <1>3, <2>1, <2>2, <2>3, <2>4, <2>6, MvccAssumption DEF BoundInv
  <2> QED BY <2>5, <2>6
<1>6. \A u \in Sessions : trx_id[u] \in Nat /\ commit_id[u] \in Nat /\ trx_id[u] <= current_trx_id /\ commit_id[u] <= current_trx_id
  BY DEF IInv, TypeInv, IdInv
<1>7. IdInv'
  <2>1. \A u \in Sessions : trx_id[u] <= id /\ commit_id'[u] <= id
    BY <1>1, <1>3, <1>6
  <2>2. \A u, v \in Sessions : u # v => /\ trx_id[u] # 0 => trx_id[u] # trx_id[v]
                                        /\ commit_id'[u] # 0 => commit_id'[u] # commit_id'[v]
    BY <1>1, <1>3, <1>6 DEF IInv, IdInv
  <2>3. \A u, v \in Sessions : commit_id'[u] # 0 => commit_id'[u] # trx_id[v]
    BY <1>1, <1>3, <1>6 DEF IInv, IdInv
  <2>4. orphans \subseteq 1..id /\ \A u \in Sessions : trx_id[u] \notin orphans
    BY <1>3 DEF IInv, IdInv
  <2> QED BY <1>0, <2>1, <2>2, <2>3, <2>4 DEF IdInv
<1>8. RowInv'
  BY <1>0, <1>3 DEF IInv, RowInv, TypeInv
<1>9. PcInv'
  <2> SUFFICES ASSUME NEW u \in Sessions
               PROVE  /\ pc'[u] = "commit" <=> commit_id'[u] # 0
                      /\ pc'[u] \in {"commit", "rollback"} => ~started'[u] /\ trx_id[u] # 0
                      /\ pc'[u] \in Statement => started'[u]
                      /\ started'[u] => trx_id[u] # 0
                      /\ operations[u] # <<>> => started'[u] \/ pc'[u] \in {"commit", "rollback"}
                      /\ pc'[u] \notin {"scan", "delete"} => found[u] = <<>>
    BY DEF PcInv
  <2>1. CASE u = s
    BY <1>1, <1>2, <1>3, <2>1 DEF Statement
  <2>2. CASE u # s
    BY <1>1, <2>2 DEF IInv, PcInv
  <2> QED BY <2>1, <2>2
<1>10. FoundInv'
  BY DEF IInv, FoundInv
<1>11. OpsInv'
  <2> SUFFICES ASSUME NEW u \in Sessions, NEW i \in InOps(u) PROVE OpOK(u, i)'
    BY DEF OpsInv, InOps
  <2>0. OpOK(u, i) /\ operations[u][i].rid \in Rids
    BY OpTyped DEF IInv, OpsInv
  <2>1. CASE u # s
    BY <1>1, <2>0, <2>1 DEF OpOK, InOps
  <2>2. CASE u = s
    <3>1. records[operations[u][i].rid].begin # 0
      BY <2>0 DEF OpOK, IInv, RowInv
    <3>2. operations[u][i].type = "DELETE" => records[operations[u][i].rid].end = -trx_id[u]
      BY <2>0, <2>2 DEF OpOK
    <3> QED BY <1>1, <1>2, <2>0, <2>2, <3>1, <3>2 DEF OpOK, InOps
  <2> QED BY <2>1, <2>2
<1>12. \A u \in Sessions : \A type, r : Pending(u, type, r)' <=> Pending(u, type, r)
  BY DEF Pending
<1>13. OwnedMarks'
  BY DEF IInv, OwnedMarks, Pending
<1>14. \A v \in Sessions : started'[v] => v # s /\ started[v]
  BY <1>1
<1>15. SeeInv'
  BY <1>1, <1>3, <1>6, <1>12, <1>14 DEF IInv, SeeInv
<1>16. NotInv'
  BY <1>1, <1>3, <1>6, <1>12, <1>14 DEF IInv, NotInv
<1> QED BY <1>4, <1>5, <1>7, <1>8, <1>9, <1>10, <1>11, <1>13, <1>15, <1>16 DEF IInv

LEMMA RollbackInv == ASSUME IInv, NEW s \in Sessions, Rollback(s) PROVE IInv'
<1>0. /\ pc[s] = "idle" /\ trx_id[s] # 0 /\ started' = [started EXCEPT ![s] = FALSE] /\ pc' = [pc EXCEPT ![s] = "rollback"]
      /\ must_see' = [must_see EXCEPT ![s] = {}] /\ must_not' = [must_not EXCEPT ![s] = {}]
      /\ UNCHANGED <<current_trx_id, records, trx_id, operations, commit_id, found, orphans>>
  BY DEF Rollback, Forget, kit, IInv, TypeInv
<1>1. /\ ~started'[s] /\ pc'[s] = "rollback"
      /\ \A u \in Sessions \ {s} : /\ started'[u] = started[u] /\ pc'[u] = pc[u]
                                   /\ must_see'[u] = must_see[u] /\ must_not'[u] = must_not[u]
  BY <1>0 DEF IInv, TypeInv
<1>2. commit_id[s] = 0 /\ found[s] = <<>> /\ started[s] \in BOOLEAN
  BY <1>0 DEF IInv, PcInv, TypeInv
<1>3. TypeInv' /\ IdInv' /\ RowInv' /\ FoundInv'
  BY <1>0 DEF IInv, TypeInv, IdInv, RowInv, FoundInv
<1>4. BoundInv'
  <2>1. /\ started[s] => Cardinality({u \in Sessions : started'[u]}) = Cardinality({u \in Sessions : started[u]}) - 1
        /\ ~started[s] => Cardinality({u \in Sessions : started'[u]}) = Cardinality({u \in Sessions : started[u]})
    BY <1>0, <1>1, <1>2, StartedCount
  <2>2. Cardinality({u \in Sessions : started'[u]}) \in Nat
    <3>1. IsFiniteSet({u \in Sessions : started'[u]})
      BY MvccAssumption, FS_Subset
    <3> QED BY <3>1, FS_CardinalityType
  <2>3. current_trx_id \in Nat /\ Cardinality({u \in Sessions : started[u]}) \in Nat /\ Reserved <= MaxId
    BY ReservedBound DEF IInv, TypeInv, BoundInv
  <2> QED BY <1>0, <1>2, <2>1, <2>2, <2>3, MvccAssumption DEF BoundInv, Reserved
<1>5. PcInv'
  <2> SUFFICES ASSUME NEW u \in Sessions
               PROVE  /\ pc'[u] = "commit" <=> commit_id[u] # 0
                      /\ pc'[u] \in {"commit", "rollback"} => ~started'[u] /\ trx_id[u] # 0
                      /\ pc'[u] \in Statement => started'[u]
                      /\ started'[u] => trx_id[u] # 0
                      /\ operations[u] # <<>> => started'[u] \/ pc'[u] \in {"commit", "rollback"}
                      /\ pc'[u] \notin {"scan", "delete"} => found[u] = <<>>
    BY <1>0 DEF PcInv
  <2>1. CASE u = s
    BY <1>0, <1>1, <1>2, <2>1 DEF Statement
  <2>2. CASE u # s
    BY <1>1, <2>2 DEF IInv, PcInv
  <2> QED BY <2>1, <2>2
<1>6. \A u \in Sessions : pc'[u] = "commit" <=> pc[u] = "commit"
  BY <1>0, <1>1
<1>7. \A u \in Sessions : pc[u] = "rollback" => pc'[u] = "rollback"
  BY <1>0, <1>1
<1>8. OpsInv'
  BY <1>0, <1>6, <1>7 DEF IInv, OpsInv, OpOK, InOps
<1>9. \A u \in Sessions : \A type, r : Pending(u, type, r)' <=> Pending(u, type, r)
  BY <1>0 DEF Pending
<1>10. OwnedMarks'
  BY <1>0 DEF IInv, OwnedMarks, Pending
<1>11. \A v \in Sessions : started'[v] => v # s /\ started[v]
  BY <1>1
<1>12. SeeInv'
  BY <1>0, <1>1, <1>6, <1>9, <1>11 DEF IInv, SeeInv
<1>13. NotInv'
  BY <1>0, <1>1, <1>6, <1>9, <1>11 DEF IInv, NotInv
<1> QED BY <1>3, <1>4, <1>5, <1>8, <1>10, <1>12, <1>13 DEF IInv

\* All the operations are done or undone.
LEMMA EndInv == ASSUME IInv, NEW s \in Sessions, CommitEnd(s) \/ RollbackEnd(s) PROVE IInv'
<1>0. /\ pc[s] \in {"commit", "rollback"} /\ operations[s] = <<>> /\ pc' = [pc EXCEPT ![s] = "idle"]
      /\ UNCHANGED <<current_trx_id, records, trx_id, started, operations, found, must_see, must_not, orphans>>
  BY DEF CommitEnd, RollbackEnd, kit, trx
<1>1. commit_id' = [commit_id EXCEPT ![s] = 0]
  <2>1. CASE CommitEnd(s)
    BY <2>1 DEF CommitEnd
  <2>2. CASE RollbackEnd(s)
    BY <2>2 DEF RollbackEnd, trx, IInv, TypeInv, PcInv
  <2> QED BY <2>1, <2>2
<1>2. /\ pc'[s] = "idle" /\ commit_id'[s] = 0
      /\ \A u \in Sessions \ {s} : pc'[u] = pc[u] /\ commit_id'[u] = commit_id[u]
  BY <1>0, <1>1 DEF IInv, TypeInv
<1>3. InOps(s) = {} /\ found[s] = <<>> /\ ~started[s]
  BY <1>0, OpTyped DEF IInv, PcInv, InOps
<1>4. TypeInv' /\ BoundInv' /\ RowInv' /\ FoundInv'
  BY <1>0, <1>1 DEF IInv, TypeInv, BoundInv, Reserved, RowInv, FoundInv
<1>5. IdInv'
  <2>0. \A u \in Sessions : commit_id'[u] = 0 \/ commit_id'[u] = commit_id[u]
    BY <1>2
  <2>1. \A u \in Sessions : trx_id[u] <= current_trx_id /\ commit_id'[u] <= current_trx_id
    <3>1. current_trx_id \in Nat
      BY DEF IInv, TypeInv
    <3> QED BY <2>0, <3>1 DEF IInv, IdInv
  <2>2. \A u, v \in Sessions : u # v => /\ trx_id[u] # 0 => trx_id[u] # trx_id[v]
                                        /\ commit_id'[u] # 0 => commit_id'[u] # commit_id'[v]
    BY <1>2 DEF IInv, IdInv
  <2>3. \A u, v \in Sessions : commit_id'[u] # 0 => commit_id'[u] # trx_id[v]
    BY <2>0 DEF IInv, IdInv
  <2> QED BY <1>0, <2>1, <2>2, <2>3 DEF IInv, IdInv
<1>6. PcInv'
  <2> SUFFICES ASSUME NEW u \in Sessions
               PROVE  /\ pc'[u] = "commit" <=> commit_id'[u] # 0
                      /\ pc'[u] \in {"commit", "rollback"} => ~started[u] /\ trx_id[u] # 0
                      /\ pc'[u] \in Statement => started[u]
                      /\ started[u] => trx_id[u] # 0
                      /\ operations[u] # <<>> => started[u] \/ pc'[u] \in {"commit", "rollback"}
                      /\ pc'[u] \notin {"scan", "delete"} => found[u] = <<>>
    BY <1>0 DEF PcInv
  <2>1. CASE u = s
    BY <1>0, <1>2, <1>3, <2>1 DEF Statement
  <2>2. CASE u # s
    BY <1>2, <2>2 DEF IInv, PcInv
  <2> QED BY <2>1, <2>2
<1>7. OpsInv'
  BY <1>0, <1>2, <1>3 DEF IInv, OpsInv, OpOK, InOps
<1>8. \A u \in Sessions : \A type, r : Pending(u, type, r)' <=> Pending(u, type, r)
  BY <1>0 DEF Pending
<1>9. OwnedMarks'
  BY <1>0 DEF IInv, OwnedMarks, Pending
<1>10. SeeInv'
  BY <1>0, <1>2, <1>8 DEF IInv, SeeInv
<1>11. NotInv'
  BY <1>0, <1>2, <1>8 DEF IInv, NotInv
<1> QED BY <1>4, <1>5, <1>6, <1>7, <1>9, <1>10, <1>11 DEF IInv

\* A session ends and leaves its marks to nobody.
LEMMA DisconnectInv == ASSUME IInv, NEW s \in Sessions, Disconnect(s) PROVE IInv'
<1>0. /\ pc[s] = "idle" /\ trx_id' = [trx_id EXCEPT ![s] = 0] /\ started' = [started EXCEPT ![s] = FALSE]
      /\ operations' = [operations EXCEPT ![s] = <<>>]
      /\ orphans' = IF operations[s] = <<>> THEN orphans ELSE orphans \cup {trx_id[s]}
      /\ must_see' = [must_see EXCEPT ![s] = {}] /\ must_not' = [must_not EXCEPT ![s] = {}]
      /\ UNCHANGED <<current_trx_id, records, commit_id, pc, found>>
  BY DEF Disconnect, Forget, kit
<1>1. /\ trx_id'[s] = 0 /\ ~started'[s] /\ operations'[s] = <<>>
      /\ \A u \in Sessions \ {s} : /\ trx_id'[u] = trx_id[u] /\ started'[u] = started[u] /\ operations'[u] = operations[u]
                                   /\ must_see'[u] = must_see[u] /\ must_not'[u] = must_not[u]
  BY <1>0 DEF IInv, TypeInv
<1>2. commit_id[s] = 0 /\ found[s] = <<>> /\ Len(found[s]) = 0 /\ started[s] \in BOOLEAN
  BY <1>0, EmptySeq DEF IInv, PcInv, TypeInv
<1>3. trx_id[s] \in Nat /\ trx_id[s] <= current_trx_id /\ current_trx_id \in Nat /\ (operations[s] # <<>> => trx_id[s] # 0)
  BY <1>0 DEF IInv, TypeInv, IdInv, PcInv
<1>4. TypeInv'
  <2>1. <<>> \in Seq(Ops)
    BY EmptySeq
  <2> QED BY <1>0, <2>1 DEF IInv, TypeInv
<1>5. BoundInv'
  <2>1. /\ started[s] => Cardinality({u \in Sessions : started'[u]}) = Cardinality({u \in Sessions : started[u]}) - 1
        /\ ~started[s] => Cardinality({u \in Sessions : started'[u]}) = Cardinality({u \in Sessions : started[u]})
    BY <1>0, <1>1, <1>2, StartedCount
  <2>2. Cardinality({u \in Sessions : started'[u]}) \in Nat
    <3>1. IsFiniteSet({u \in Sessions : started'[u]})
      BY MvccAssumption, FS_Subset
    <3> QED BY <3>1, FS_CardinalityType
  <2>3. Cardinality({u \in Sessions : started[u]}) \in Nat /\ Reserved <= MaxId
    BY ReservedBound DEF IInv, BoundInv
  <2> QED BY <1>0, <1>2, <1>3, <2>1, <2>2, <2>3, MvccAssumption DEF BoundInv, Reserved
<1>6. IdInv'
  <2>1. \A u \in Sessions : trx_id'[u] <= current_trx_id /\ commit_id[u] <= current_trx_id
    BY <1>1, <1>3 DEF IInv, IdInv
  <2>2. \A u, v \in Sessions : u # v => /\ trx_id'[u] # 0 => trx_id'[u] # trx_id'[v]
                                        /\ commit_id[u] # 0 => commit_id[u] # commit_id[v]
    BY <1>1 DEF IInv, IdInv
  <2>3. \A u, v \in Sessions : commit_id[u] # 0 => commit_id[u] # trx_id'[v]
    BY <1>1 DEF IInv, IdInv
  <2>4. orphans' \subseteq 1..current_trx_id
    <3>1. operations[s] # <<>> => trx_id[s] \in 1..current_trx_id
      BY <1>3
    <3> QED BY <1>0, <3>1 DEF IInv, IdInv
  <2>5. \A u \in Sessions : trx_id'[u] \notin orphans'
    <3>1. 0 \notin orphans'
      BY <2>4, <1>3
    <3>2. \A u \in Sessions \ {s} : trx_id[u] # trx_id[s] \/ operations[s] = <<>>
      BY <1>3 DEF IInv, IdInv
    <3> QED BY <1>0, <1>1, <3>1, <3>2 DEF IInv, IdInv
  <2> QED BY <1>0, <2>1, <2>2, <2>3, <2>4, <2>5 DEF IdInv
<1>7. RowInv' /\ FoundInv'
  BY <1>0, <1>1, <1>2 DEF IInv, RowInv, FoundInv
<1>8. PcInv'
  <2> SUFFICES ASSUME NEW u \in Sessions
               PROVE  /\ pc[u] = "commit" <=> commit_id[u] # 0
                      /\ pc[u] \in {"commit", "rollback"} => ~started'[u] /\ trx_id'[u] # 0
                      /\ pc[u] \in Statement => started'[u]
                      /\ started'[u] => trx_id'[u] # 0
                      /\ operations'[u] # <<>> => started'[u] \/ pc[u] \in {"commit", "rollback"}
                      /\ pc[u] \notin {"scan", "delete"} => found[u] = <<>>
    BY <1>0 DEF PcInv
  <2>1. CASE u = s
    BY <1>0, <1>1, <1>2, <2>1 DEF Statement
  <2>2. CASE u # s
    BY <1>1, <2>2 DEF IInv, PcInv
  <2> QED BY <2>1, <2>2
<1>9. InOps(s)' = {}
  BY <1>1 DEF InOps
<1>10. OpsInv'
  BY <1>0, <1>1, <1>9 DEF IInv, OpsInv, OpOK, InOps
<1>11. \A u \in Sessions : \A type, r : /\ Pending(u, type, r)' => Pending(u, type, r)
                                        /\ Pending(u, type, r) => Pending(u, type, r)' \/ (u = s /\ operations[s] # <<>>)
  BY <1>1 DEF Pending
<1>12. OwnedMarks'
  <2> SUFFICES ASSUME NEW r \in Rids
               PROVE  /\ records[r].begin < 0 => -records[r].begin \in orphans'
                           \/ \E u \in Sessions : trx_id'[u] = -records[r].begin /\ Pending(u, "INSERT", r)'
                      /\ records[r].end < 0 => -records[r].end \in orphans'
                           \/ \E u \in Sessions : trx_id'[u] = -records[r].end /\ Pending(u, "DELETE", r)'
    BY <1>0 DEF OwnedMarks
  <2>1. orphans \subseteq orphans' /\ (operations[s] # <<>> => trx_id[s] \in orphans')
    BY <1>0
  <2>2. ASSUME records[r].begin < 0, -records[r].begin \notin orphans'
        PROVE  \E u \in Sessions : trx_id'[u] = -records[r].begin /\ Pending(u, "INSERT", r)'
    <3>1. PICK u \in Sessions : trx_id[u] = -records[r].begin /\ Pending(u, "INSERT", r)
      BY <2>1, <2>2 DEF IInv, OwnedMarks
    <3>2. u # s /\ Pending(u, "INSERT", r)'
      BY <1>11, <2>1, <2>2, <3>1, OpTyped DEF Pending, IInv, InOps
    <3> QED BY <1>1, <3>1, <3>2
  <2>3. ASSUME records[r].end < 0, -records[r].end \notin orphans'
        PROVE  \E u \in Sessions : trx_id'[u] = -records[r].end /\ Pending(u, "DELETE", r)'
    <3>1. PICK u \in Sessions : trx_id[u] = -records[r].end /\ Pending(u, "DELETE", r)
      BY <2>1, <2>3 DEF IInv, OwnedMarks
    <3>2. u # s /\ Pending(u, "DELETE", r)'
      BY <1>11, <2>1, <2>3, <3>1, OpTyped DEF Pending, IInv, InOps
    <3> QED BY <1>1, <3>1, <3>2
  <2> QED BY <2>2, <2>3
<1>13. \A v \in Sessions : started'[v] => v # s /\ started[v]
  BY <1>1
<1>14. SeeInv'
  BY <1>0, <1>1, <1>11, <1>13 DEF IInv, SeeInv
<1>15. NotInv'
  BY <1>0, <1>1, <1>11, <1>13 DEF IInv, NotInv
<1> QED BY <1>4, <1>5, <1>6, <1>7, <1>8, <1>10, <1>12, <1>14, <1>15 DEF IInv

-----------------------------------------------------------------------------
\* Stamping a row with the commit id.
LEMMA CommitOpInv == ASSUME IInv, NEW s \in Sessions, CommitOp(s) PROVE IInv'
<1>1. /\ pc[s] = "commit" /\ operations[s] # <<>> /\ operations' = [operations EXCEPT ![s] = Tail(@)]
      /\ UNCHANGED <<current_trx_id, trx_id, started, commit_id, pc, found, must_see, must_not, orphans>>
  BY DEF CommitOp, kit, request
<1>2. /\ operations' \in [Sessions -> Seq(Ops)] /\ \A u \in Sessions \ {s} : operations'[u] = operations[u]
      /\ 1 \in InOps(s) /\ Head(operations[s]) = operations[s][1]
      /\ \A i \in InOps(s)' : i + 1 \in InOps(s) /\ operations'[s][i] = operations[s][i + 1]
      /\ \A u \in Sessions : \A type, r :
           /\ Pending(u, type, r)' => Pending(u, type, r)
           /\ Pending(u, type, r) => Pending(u, type, r)' \/ (u = s /\ operations[s][1] = Op(type, r))
  BY <1>1, TailOp DEF IInv
<1>w. PICK w \in Rids : w = operations[s][1].rid
  BY <1>2, OpTyped DEF IInv
<1>k. \A i \in InOps(s)' : i \in Nat /\ i + 1 # 1
  BY DEF InOps
<1>3. /\ OpOK(s, 1) /\ operations[s][1].type \in {"INSERT", "DELETE"}
      /\ operations[s][1] = Op(operations[s][1].type, w)
  BY <1>2, <1>w, OpTyped DEF IInv, OpsInv
<1>4. /\ commit_id[s] \in Nat \ {0} /\ commit_id[s] <= current_trx_id /\ trx_id[s] \in Nat \ {0} /\ commit_id[s] \in Int
      /\ records[w].begin \in Int /\ records[w].end \in Int /\ current_trx_id \in Nat
      /\ Inf \in Nat /\ commit_id[s] < Inf
  <2>1. /\ commit_id[s] \in Nat \ {0} /\ commit_id[s] <= current_trx_id /\ trx_id[s] \in Nat \ {0}
        /\ records[w].begin \in Int /\ records[w].end \in Int /\ current_trx_id \in Nat
    BY <1>1 DEF IInv, TypeInv, IdInv, PcInv
  <2>2. Inf \in Nat /\ current_trx_id < Inf
    BY ReservedBound, MvccAssumption DEF Inf
  <2> QED BY <2>1, <2>2
<1>o. \A type, r : operations[s][1] = Op(type, r) => type = operations[s][1].type /\ r = w
  BY <1>w DEF Op
<1>5. ASSUME NEW u \in Sessions \ {s}, NEW i \in InOps(u) PROVE operations[u][i].rid # w
  BY <1>2, <1>w, OneWriter
<1>6. /\ records[w].begin # 0 /\ records[w].end # 0
      /\ records[w].begin < 0 => records[w].end \in {Inf, records[w].begin}
      /\ records[w].begin \in -current_trx_id..current_trx_id
      /\ records[w].end \in (-current_trx_id..current_trx_id) \cup {Inf}
  BY <1>3, <1>w DEF IInv, RowInv, OpOK
<1>7. BoundInv' /\ IdInv'
  BY <1>1 DEF IInv, BoundInv, Reserved, IdInv
<1>8. PcInv'
  BY <1>1, <1>2 DEF IInv, PcInv
<1>9. CASE operations[s][1].type = "INSERT"
  <2>1. records' = [records EXCEPT ![w].begin = commit_id[s]]
    BY <1>2, <1>9, <1>w DEF CommitOp
  <2>2. records' = [records EXCEPT ![w] = [begin |-> commit_id[s], end |-> records[w].end]]
    BY <1>4, <2>1, SetXid DEF IInv
  <2>3. /\ records'[w].begin = commit_id[s] /\ records'[w].end = records[w].end
        /\ \A r \in Rids \ {w} : records'[r] = records[r]
        /\ records' \in [Rids -> [begin : Int, end : Int]]
    BY <1>4, <2>2 DEF IInv, TypeInv
  <2>4. records[w].begin = -trx_id[s]
    BY <1>3, <1>9, <1>w DEF OpOK
  <2>5. TypeInv'
    BY <1>1, <1>2, <2>3 DEF IInv, TypeInv
  <2>6. records'[w] # Absent
    BY <1>4, <2>3 DEF Absent
  <2>7. RowInv'
    <3>1. commit_id[s] \in -current_trx_id..current_trx_id
      BY <1>4
    <3> SUFFICES ASSUME NEW r \in Rids
                 PROVE  /\ records'[r].begin \in -current_trx_id..current_trx_id
                        /\ records'[r].end \in (-current_trx_id..current_trx_id) \cup {Inf}
                        /\ records'[r].begin = 0 \/ records'[r].end = 0 => records'[r] = Absent
                        /\ records'[r].begin < 0 => records'[r].end \in {Inf, records'[r].begin}
      BY <1>1 DEF RowInv
    <3>2. CASE r = w
      BY <1>4, <1>6, <2>3, <3>1, <3>2
    <3>3. CASE r # w
      BY <2>3, <3>3 DEF IInv, RowInv
    <3> QED BY <3>2, <3>3
  <2>8. FoundInv'
    <3> SUFFICES ASSUME NEW u \in Sessions, NEW i \in 1..Len(found[u])
                 PROVE  records'[found[u][i]].begin > 0 \/ records'[found[u][i]].begin = -trx_id[u]
      BY <1>1 DEF FoundInv
    <3>1. found[u][i] \in Rids
      BY ElementOfSeq DEF IInv, TypeInv
    <3>2. CASE found[u][i] = w
      BY <1>4, <2>3, <3>2
    <3>3. CASE found[u][i] # w
      BY <2>3, <3>1, <3>3 DEF IInv, FoundInv
    <3> QED BY <3>2, <3>3
  <2>9. ASSUME NEW i \in InOps(s)' PROVE OpOK(s, i)'
    <3>1. /\ OpOK(s, i + 1) /\ i + 1 \in InOps(s) /\ i + 1 # 1 /\ operations'[s][i] = operations[s][i + 1]
          /\ operations[s][i + 1].rid \in Rids /\ operations[s][i + 1].type \in {"INSERT", "DELETE"}
      BY <1>2, <1>k, OpTyped DEF IInv, OpsInv
    <3>2. \A j \in InOps(s)' : /\ j + 1 \in InOps(s) /\ operations'[s][j] = operations[s][j + 1]
                               /\ (j + 1 # i + 1 <=> j # i) /\ (i + 1 < j + 1 <=> i < j)
      BY <1>2, <1>k
    <3>3. CASE operations[s][i + 1].rid # w
      <4>1. records'[operations[s][i + 1].rid] = records[operations[s][i + 1].rid]
        BY <2>3, <3>1, <3>3
      <4> QED BY <1>1, <3>1, <3>2, <4>1 DEF OpOK
    <3>4. CASE operations[s][i + 1].rid = w
      <4>1. operations[s][i + 1].type = "DELETE"
        BY <1>3, <1>9, <1>w, <3>1, <3>4 DEF OpOK
      <4>2. records[w].end = -trx_id[s]
        BY <1>1, <1>4, <2>4, <3>1, <3>4, <4>1 DEF OpOK
      <4> QED BY <1>1, <2>3, <2>6, <3>1, <3>4, <4>1, <4>2 DEF OpOK
    <3> QED BY <3>3, <3>4
  <2>10. OpsInv'
    <3>1. \A u \in Sessions \ {s} : /\ operations'[u] = operations[u] /\ pc'[u] = pc[u]
                                    /\ \A i \in InOps(u) : operations[u][i].rid # w
      BY <1>1, <1>2, <1>5
    <3>2. UNCHANGED <<trx_id, commit_id>>
      BY <1>1
    <3>3. \A u \in Sessions \ {s} : \A i \in InOps(u)' : OpOK(u, i)'
      BY <2>3, <3>1, <3>2, OthersKeepOps
    <3> QED BY <2>9, <3>3 DEF OpsInv
  <2>11. \A u \in Sessions : \A r : Pending(u, "DELETE", r) => Pending(u, "DELETE", r)'
    BY <1>2, <1>9, <1>o
  <2>12. \A u \in Sessions, r \in Rids \ {w} : Pending(u, "INSERT", r) => Pending(u, "INSERT", r)'
    BY <1>2, <1>o
  <2>13. OwnedMarks'
    <3> SUFFICES ASSUME NEW r \in Rids
                 PROVE  /\ records'[r].begin < 0 => -records'[r].begin \in orphans
                             \/ \E u \in Sessions : trx_id[u] = -records'[r].begin /\ Pending(u, "INSERT", r)'
                        /\ records'[r].end < 0 => -records'[r].end \in orphans
                             \/ \E u \in Sessions : trx_id[u] = -records'[r].end /\ Pending(u, "DELETE", r)'
      BY <1>1 DEF OwnedMarks
    <3>1. records'[r].end = records[r].end
      BY <2>3
    <3>2. records'[r].end < 0 => -records'[r].end \in orphans
            \/ \E u \in Sessions : trx_id[u] = -records'[r].end /\ Pending(u, "DELETE", r)'
      BY <2>11, <3>1 DEF IInv, OwnedMarks
    <3>3. CASE r = w
      BY <1>4, <2>3, <3>2, <3>3
    <3>4. CASE r # w
      BY <2>3, <2>12, <3>2, <3>4 DEF IInv, OwnedMarks
    <3> QED BY <3>3, <3>4
  <2>14. SeeInv'
    <3> SUFFICES ASSUME NEW v \in Sessions, started[v], NEW r \in must_see[v]
                 PROVE  /\ records'[r].begin > 0 /\ records'[r].begin <= trx_id[v]
                        /\ records'[r].end > trx_id[v] \/ records'[r].end < 0
                        /\ \A u \in Sessions : pc[u] = "commit" /\ Pending(u, "DELETE", r)' => commit_id[u] > trx_id[v]
      BY <1>1 DEF SeeInv
    <3>1. r \in Rids /\ records[r].begin > 0
      BY DEF IInv, TypeInv, SeeInv
    <3>2. r # w
      BY <1>4, <2>4, <3>1
    <3> QED BY <1>2, <2>3, <3>1, <3>2 DEF IInv, SeeInv
  <2>15. NotInv'
    <3> SUFFICES ASSUME NEW v \in Sessions, started[v], NEW r \in must_not[v]
                 PROVE  /\ records'[r].begin > trx_id[v] \/ records'[r].begin <= 0
                        /\ \A u \in Sessions : pc[u] = "commit" /\ Pending(u, "INSERT", r)' => commit_id[u] > trx_id[v]
      BY <1>1 DEF NotInv
    <3>1. r \in Rids
      BY DEF IInv, TypeInv
    <3>2. CASE r = w
      <4>1. Pending(s, "INSERT", w)
        BY <1>2, <1>9, <1>w, PendingOp DEF IInv
      <4>2. commit_id[s] > trx_id[v]
        BY <1>1, <3>2, <4>1 DEF IInv, NotInv
      <4> QED BY <1>2, <2>3, <3>2, <4>2 DEF IInv, NotInv
    <3>3. CASE r # w
      BY <1>2, <2>3, <3>1, <3>3 DEF IInv, NotInv
    <3> QED BY <3>2, <3>3
  <2> QED BY <1>7, <1>8, <2>5, <2>7, <2>8, <2>10, <2>13, <2>14, <2>15 DEF IInv
<1>10. CASE operations[s][1].type = "DELETE"
  <2>1. records' = [records EXCEPT ![w].end = commit_id[s]]
    BY <1>2, <1>10, <1>w DEF CommitOp
  <2>2. records' = [records EXCEPT ![w] = [begin |-> records[w].begin, end |-> commit_id[s]]]
    BY <1>4, <2>1, SetXid DEF IInv
  <2>3. /\ records'[w].begin = records[w].begin /\ records'[w].end = commit_id[s]
        /\ \A r \in Rids \ {w} : records'[r] = records[r]
        /\ records' \in [Rids -> [begin : Int, end : Int]]
    BY <1>4, <2>2 DEF IInv, TypeInv
  <2>4. \A i \in InOps(s) : i # 1 /\ operations[s][i].rid = w => operations[s][i].type = "DELETE"
    <3> SUFFICES ASSUME NEW i \in InOps(s), i # 1, operations[s][i].rid = w, operations[s][i].type # "DELETE" PROVE FALSE
      OBVIOUS
    <3>1. OpOK(s, i) /\ operations[s][i].type = "INSERT"
      BY OpTyped DEF IInv, OpsInv
    <3>2. i < 1
      BY <1>2, <1>w, <3>1 DEF OpOK
    <3> QED BY <3>2 DEF InOps
  <2>5. records[w].begin > 0
    <3> SUFFICES ASSUME records[w].begin < 0 PROVE FALSE
      BY <1>4, <1>6
    <3>1. records[w].end = -trx_id[s]
      BY <1>1, <1>3, <1>4, <1>6, <1>10, <1>w DEF OpOK
    <3>2. records[w].begin = -trx_id[s] /\ -records[w].begin = trx_id[s]
      BY <1>4, <1>6, <3>1
    <3>3. PICK u \in Sessions : trx_id[u] = trx_id[s] /\ Pending(u, "INSERT", w)
      BY <3>2 DEF IInv, OwnedMarks, IdInv
    <3>4. u = s
      BY <1>4, <3>3 DEF IInv, IdInv
    <3>5. PICK i \in InOps(s) : operations[s][i].type = "INSERT" /\ operations[s][i].rid = w
      BY <3>3, <3>4, PendingOp DEF IInv
    <3> QED BY <1>10, <2>4, <3>5
  <2>6. records'[w] # Absent
    BY <1>4, <2>3 DEF Absent
  <2>7. TypeInv'
    BY <1>1, <1>2, <2>3 DEF IInv, TypeInv
  <2>8. RowInv'
    <3>1. commit_id[s] \in -current_trx_id..current_trx_id
      BY <1>4
    <3> SUFFICES ASSUME NEW r \in Rids
                 PROVE  /\ records'[r].begin \in -current_trx_id..current_trx_id
                        /\ records'[r].end \in (-current_trx_id..current_trx_id) \cup {Inf}
                        /\ records'[r].begin = 0 \/ records'[r].end = 0 => records'[r] = Absent
                        /\ records'[r].begin < 0 => records'[r].end \in {Inf, records'[r].begin}
      BY <1>1 DEF RowInv
    <3>2. CASE r = w
      BY <1>4, <1>6, <2>3, <2>5, <3>1, <3>2
    <3>3. CASE r # w
      BY <2>3, <3>3 DEF IInv, RowInv
    <3> QED BY <3>2, <3>3
  <2>9. \A r \in Rids : records'[r].begin = records[r].begin
    BY <2>3
  <2>10. FoundInv'
    <3> SUFFICES ASSUME NEW u \in Sessions, NEW i \in 1..Len(found[u])
                 PROVE  records'[found[u][i]].begin > 0 \/ records'[found[u][i]].begin = -trx_id[u]
      BY <1>1 DEF FoundInv
    <3>1. found[u][i] \in Rids
      BY ElementOfSeq DEF IInv, TypeInv
    <3> QED BY <2>9, <3>1 DEF IInv, FoundInv
  <2>11. ASSUME NEW i \in InOps(s)' PROVE OpOK(s, i)'
    <3>1. /\ OpOK(s, i + 1) /\ i + 1 \in InOps(s) /\ i + 1 # 1 /\ operations'[s][i] = operations[s][i + 1]
          /\ operations[s][i + 1].rid \in Rids /\ operations[s][i + 1].type \in {"INSERT", "DELETE"}
          /\ operations[s][i + 1] = Op(operations[s][i + 1].type, operations[s][i + 1].rid)
      BY <1>2, <1>k, OpTyped DEF IInv, OpsInv
    <3>2. \A j \in InOps(s)' : /\ j + 1 \in InOps(s) /\ operations'[s][j] = operations[s][j + 1]
                               /\ (j + 1 # i + 1 <=> j # i) /\ (i + 1 < j + 1 <=> i < j)
      BY <1>2, <1>k
    <3>3. CASE operations[s][i + 1].rid # w
      <4>1. records'[operations[s][i + 1].rid] = records[operations[s][i + 1].rid]
        BY <2>3, <3>1, <3>3
      <4> QED BY <1>1, <3>1, <3>2, <4>1 DEF OpOK
    <3>4. CASE operations[s][i + 1].rid = w
      <4>1. operations[s][i + 1].type = "DELETE"
        BY <2>4, <3>1, <3>4
      <4>2. operations[s][i + 1] = operations[s][1]
        BY <1>3, <1>10, <3>1, <3>4, <4>1
      <4>3. records[w].begin \in {-trx_id[s], commit_id[s]}
        BY <1>3, <1>10, <1>w, <3>1, <4>2 DEF OpOK
      <4>4. records[w].begin = commit_id[s]
        BY <1>4, <2>5, <4>3
      <4> QED BY <1>1, <2>3, <2>6, <3>1, <3>4, <4>1, <4>4 DEF OpOK
    <3> QED BY <3>3, <3>4
  <2>12. OpsInv'
    <3>1. \A u \in Sessions \ {s} : /\ operations'[u] = operations[u] /\ pc'[u] = pc[u]
                                    /\ \A i \in InOps(u) : operations[u][i].rid # w
      BY <1>1, <1>2, <1>5
    <3>2. UNCHANGED <<trx_id, commit_id>>
      BY <1>1
    <3>3. \A u \in Sessions \ {s} : \A i \in InOps(u)' : OpOK(u, i)'
      BY <2>3, <3>1, <3>2, OthersKeepOps
    <3> QED BY <2>11, <3>3 DEF OpsInv
  <2>13. \A u \in Sessions : \A r : Pending(u, "INSERT", r) => Pending(u, "INSERT", r)'
    BY <1>2, <1>10, <1>o
  <2>14. \A u \in Sessions, r \in Rids \ {w} : Pending(u, "DELETE", r) => Pending(u, "DELETE", r)'
    BY <1>2, <1>o
  <2>15. OwnedMarks'
    BY <1>1, <1>4, <2>3, <2>13, <2>14 DEF IInv, OwnedMarks
  <2>16. SeeInv'
    <3> SUFFICES ASSUME NEW v \in Sessions, started[v], NEW r \in must_see[v]
                 PROVE  /\ records'[r].begin > 0 /\ records'[r].begin <= trx_id[v]
                        /\ records'[r].end > trx_id[v] \/ records'[r].end < 0
                        /\ \A u \in Sessions : pc[u] = "commit" /\ Pending(u, "DELETE", r)' => commit_id[u] > trx_id[v]
      BY <1>1 DEF SeeInv
    <3>1. r \in Rids
      BY DEF IInv, TypeInv
    <3>2. CASE r = w
      <4>1. Pending(s, "DELETE", w)
        BY <1>2, <1>10, <1>w, PendingOp DEF IInv
      <4>2. commit_id[s] > trx_id[v]
        BY <1>1, <3>2, <4>1 DEF IInv, SeeInv
      <4> QED BY <1>2, <2>3, <3>2, <4>2 DEF IInv, SeeInv
    <3>3. CASE r # w
      BY <1>2, <2>3, <3>1, <3>3 DEF IInv, SeeInv
    <3> QED BY <3>2, <3>3
  <2>17. NotInv'
    BY <1>1, <1>2, <2>9 DEF IInv, TypeInv, NotInv
  <2> QED BY <1>7, <1>8, <2>7, <2>8, <2>10, <2>12, <2>15, <2>16, <2>17 DEF IInv
<1> QED BY <1>3, <1>9, <1>10

\* Undoing the last operation.
LEMMA RollbackOpInv == ASSUME IInv, NEW s \in Sessions, RollbackOp(s) PROVE IInv'
<1>1. /\ pc[s] = "rollback" /\ operations[s] # <<>> /\ operations' = [operations EXCEPT ![s] = SubSeq(@, 1, Len(@) - 1)]
      /\ UNCHANGED <<current_trx_id, trx_id, started, commit_id, pc, found, must_see, must_not, orphans>>
  BY DEF RollbackOp, kit, request, history
<1>n. PICK n \in InOps(s) : n = Len(operations[s])
  BY <1>1, FrontOp DEF IInv
<1>2. /\ operations' \in [Sessions -> Seq(Ops)] /\ \A u \in Sessions \ {s} : operations'[u] = operations[u]
      /\ \A i \in InOps(s)' : i \in InOps(s) /\ i < n /\ operations'[s][i] = operations[s][i]
      /\ \A u \in Sessions : \A type, r :
           /\ Pending(u, type, r)' => Pending(u, type, r)
           /\ Pending(u, type, r) => Pending(u, type, r)' \/ (u = s /\ operations[s][n] = Op(type, r))
  <2>1. /\ operations' \in [Sessions -> Seq(Ops)] /\ \A u \in Sessions \ {s} : operations'[u] = operations[u]
        /\ \A i \in InOps(s)' : i \in InOps(s) /\ i < Len(operations[s]) /\ operations'[s][i] = operations[s][i]
        /\ \A u \in Sessions : \A type, r :
             /\ Pending(u, type, r)' => Pending(u, type, r)
             /\ Pending(u, type, r) =>
                  Pending(u, type, r)' \/ (u = s /\ operations[s][Len(operations[s])] = Op(type, r))
    <3>1. TypeInv /\ operations[s] # <<>> /\ operations' = [operations EXCEPT ![s] = SubSeq(@, 1, Len(@) - 1)]
      BY <1>1 DEF IInv
    <3> QED BY <3>1, FrontOp
  <2> QED BY <1>n, <2>1
<1>w. PICK w \in Rids : w = operations[s][n].rid
  BY OpTyped DEF IInv
<1>3. /\ OpOK(s, n) /\ operations[s][n].type \in {"INSERT", "DELETE"}
      /\ operations[s][n] = Op(operations[s][n].type, w)
  BY <1>w, OpTyped DEF IInv, OpsInv
<1>4. /\ commit_id[s] = 0 /\ trx_id[s] \in Nat \ {0} /\ found[s] = <<>> /\ n \in Nat
      /\ records[w].begin \in Int /\ records[w].end \in Int /\ current_trx_id \in Nat
  <2>1. commit_id[s] = 0 /\ trx_id[s] \in Nat \ {0} /\ found[s] = <<>>
    BY <1>1 DEF IInv, TypeInv, PcInv
  <2>2. records[w].begin \in Int /\ records[w].end \in Int /\ current_trx_id \in Nat
    BY DEF IInv, TypeInv
  <2>3. n \in Nat
    BY DEF InOps
  <2> QED BY <2>1, <2>2, <2>3
<1>i. Inf \in Nat \ {0} /\ Inf \in Int /\ current_trx_id < Inf
  BY ReservedBound, MvccAssumption DEF Inf
<1>o. \A type, r : operations[s][n] = Op(type, r) => type = operations[s][n].type /\ r = w
  BY <1>w DEF Op
<1>5. ASSUME NEW u \in Sessions \ {s}, NEW i \in InOps(u) PROVE operations[u][i].rid # w
  BY <1>w, OneWriter
<1>6. /\ records[w].begin # 0 /\ records[w].end # 0
      /\ records[w].begin \in -current_trx_id..current_trx_id
  BY <1>3, <1>w DEF IInv, RowInv, OpOK
<1>7. BoundInv' /\ IdInv'
  BY <1>1 DEF IInv, BoundInv, Reserved, IdInv
<1>8. PcInv'
  BY <1>1, <1>2 DEF IInv, PcInv
<1>9. ASSUME \A r \in Rids \ {w} : records'[r] = records[r], \A i \in InOps(s)' : OpOK(s, i)' PROVE OpsInv'
  <2>1. \A u \in Sessions \ {s} : /\ operations'[u] = operations[u] /\ pc'[u] = pc[u]
                                  /\ \A i \in InOps(u) : operations[u][i].rid # w
    BY <1>1, <1>2, <1>5
  <2>2. UNCHANGED <<trx_id, commit_id>>
    BY <1>1
  <2>3. \A u \in Sessions \ {s} : \A i \in InOps(u)' : OpOK(u, i)'
    BY <1>9, <2>1, <2>2, OthersKeepOps
  <2> QED BY <1>9, <2>3 DEF OpsInv
<1>10. CASE operations[s][n].type = "INSERT"
  <2>1. records' = [records EXCEPT ![w] = Absent]
    BY <1>10, <1>n, <1>w DEF RollbackOp
  <2>2. /\ records'[w] = Absent /\ \A r \in Rids \ {w} : records'[r] = records[r]
        /\ records' \in [Rids -> [begin : Int, end : Int]]
    BY <2>1 DEF IInv, TypeInv, Absent
  <2>3. /\ records[w].begin = -trx_id[s]
        /\ \A j \in InOps(s) : operations[s][j].rid = w /\ j # n => n < j
    BY <1>3, <1>10, <1>w DEF OpOK
  <2>4. TypeInv'
    BY <1>1, <1>2, <2>2 DEF IInv, TypeInv
  <2>5. RowInv'
    <3>1. Absent.begin = 0 /\ Absent.end = 0 /\ 0 \in -current_trx_id..current_trx_id
      BY <1>4 DEF Absent
    <3> QED BY <1>1, <2>2, <3>1 DEF IInv, RowInv
  <2>6. FoundInv'
    <3> SUFFICES ASSUME NEW u \in Sessions, NEW i \in 1..Len(found[u])
                 PROVE  records'[found[u][i]].begin > 0 \/ records'[found[u][i]].begin = -trx_id[u]
      BY <1>1 DEF FoundInv
    <3>1. found[u][i] \in Rids /\ found[u] # <<>> /\ trx_id[u] \in Nat
      BY ElementOfSeq, EmptySeq DEF IInv, TypeInv
    <3>2. records[found[u][i]].begin > 0 \/ records[found[u][i]].begin = -trx_id[u]
      BY DEF IInv, FoundInv
    <3>3. u # s /\ trx_id[u] # trx_id[s]
      BY <1>4, <3>1 DEF IInv, IdInv
    <3>4. found[u][i] # w
      BY SMTT(20), <1>4, <2>3, <3>1, <3>2, <3>3
    <3> QED BY <2>2, <3>1, <3>2, <3>4
  <2>7. \A i \in InOps(s)' : operations[s][i].rid # w
    BY <1>2, <1>4, <2>3 DEF InOps
  <2>8. ASSUME NEW i \in InOps(s)' PROVE OpOK(s, i)'
    <3>1. OpOK(s, i) /\ i \in InOps(s) /\ operations'[s][i] = operations[s][i] /\ operations[s][i].rid \in Rids \ {w}
      BY <1>2, <2>7, OpTyped DEF IInv, OpsInv
    <3>2. records'[operations[s][i].rid] = records[operations[s][i].rid]
      BY <2>2, <3>1
    <3> QED BY ZenonT(40), <1>1, <1>2, <3>1, <3>2 DEF OpOK
  <2>9. OpsInv'
    BY <1>9, <2>2, <2>8
  <2>10. \A u \in Sessions, r \in Rids \ {w} : /\ Pending(u, "DELETE", r) => Pending(u, "DELETE", r)'
                                               /\ Pending(u, "INSERT", r) => Pending(u, "INSERT", r)'
    BY <1>2, <1>o
  <2>11. OwnedMarks'
    <3> SUFFICES ASSUME NEW r \in Rids
                 PROVE  /\ records'[r].begin < 0 => -records'[r].begin \in orphans
                             \/ \E u \in Sessions : trx_id[u] = -records'[r].begin /\ Pending(u, "INSERT", r)'
                        /\ records'[r].end < 0 => -records'[r].end \in orphans
                             \/ \E u \in Sessions : trx_id[u] = -records'[r].end /\ Pending(u, "DELETE", r)'
      BY <1>1 DEF OwnedMarks
    <3>1. CASE r = w
      BY <2>2, <3>1 DEF Absent
    <3>2. CASE r # w
      BY <2>2, <2>10, <3>2 DEF IInv, OwnedMarks
    <3> QED BY <3>1, <3>2
  <2>12. SeeInv'
    <3> SUFFICES ASSUME NEW v \in Sessions, started[v], NEW r \in must_see[v]
                 PROVE  /\ records'[r].begin > 0 /\ records'[r].begin <= trx_id[v]
                        /\ records'[r].end > trx_id[v] \/ records'[r].end < 0
                        /\ \A u \in Sessions : pc[u] = "commit" /\ Pending(u, "DELETE", r)' => commit_id[u] > trx_id[v]
      BY <1>1 DEF SeeInv
    <3>1. r \in Rids /\ records[r].begin > 0
      BY DEF IInv, TypeInv, SeeInv
    <3>2. r # w
      BY <1>4, <2>3, <3>1
    <3> QED BY <1>2, <2>2, <3>1, <3>2 DEF IInv, SeeInv
  <2>13. NotInv'
    <3> SUFFICES ASSUME NEW v \in Sessions, started[v], NEW r \in must_not[v]
                 PROVE  /\ records'[r].begin > trx_id[v] \/ records'[r].begin <= 0
                        /\ \A u \in Sessions : pc[u] = "commit" /\ Pending(u, "INSERT", r)' => commit_id[u] > trx_id[v]
      BY <1>1 DEF NotInv
    <3>1. r \in Rids
      BY DEF IInv, TypeInv
    <3>2. CASE r = w
      BY <1>2, <2>2, <3>2 DEF IInv, NotInv, Absent
    <3>3. CASE r # w
      BY <1>2, <2>2, <3>1, <3>3 DEF IInv, NotInv
    <3> QED BY <3>2, <3>3
  <2> QED BY <1>7, <1>8, <2>4, <2>5, <2>6, <2>9, <2>11, <2>12, <2>13 DEF IInv
<1>11. CASE operations[s][n].type = "DELETE"
  <2>1. records' = [records EXCEPT ![w].end = Inf]
    BY <1>11, <1>n, <1>w DEF RollbackOp
  <2>2. records' = [records EXCEPT ![w] = [begin |-> records[w].begin, end |-> Inf]]
    BY <1>i, <2>1, SetXid DEF IInv
  <2>3. /\ records'[w].begin = records[w].begin /\ records'[w].end = Inf
        /\ \A r \in Rids \ {w} : records'[r] = records[r]
        /\ records' \in [Rids -> [begin : Int, end : Int]]
    BY <1>4, <1>i, <2>2 DEF IInv, TypeInv
  <2>4. TypeInv'
    BY <1>1, <1>2, <2>3 DEF IInv, TypeInv
  <2>5. records'[w] # Absent
    BY <1>i, <2>3 DEF Absent
  <2>6. RowInv'
    <3> SUFFICES ASSUME NEW r \in Rids
                 PROVE  /\ records'[r].begin \in -current_trx_id..current_trx_id
                        /\ records'[r].end \in (-current_trx_id..current_trx_id) \cup {Inf}
                        /\ records'[r].begin = 0 \/ records'[r].end = 0 => records'[r] = Absent
                        /\ records'[r].begin < 0 => records'[r].end \in {Inf, records'[r].begin}
      BY <1>1 DEF RowInv
    <3>1. CASE r = w
      BY <1>6, <1>i, <2>3, <3>1
    <3>2. CASE r # w
      BY <2>3, <3>2 DEF IInv, RowInv
    <3> QED BY <3>1, <3>2
  <2>7. \A r \in Rids : records'[r].begin = records[r].begin
    BY <2>3
  <2>8. FoundInv'
    <3> SUFFICES ASSUME NEW u \in Sessions, NEW i \in 1..Len(found[u])
                 PROVE  records'[found[u][i]].begin > 0 \/ records'[found[u][i]].begin = -trx_id[u]
      BY <1>1 DEF FoundInv
    <3>1. found[u][i] \in Rids
      BY ElementOfSeq DEF IInv, TypeInv
    <3> QED BY <2>7, <3>1 DEF IInv, FoundInv
  <2>9. ASSUME NEW i \in InOps(s)' PROVE OpOK(s, i)'
    <3>1. /\ OpOK(s, i) /\ i \in InOps(s) /\ i # n /\ operations'[s][i] = operations[s][i]
          /\ operations[s][i].rid \in Rids /\ operations[s][i].type \in {"INSERT", "DELETE"}
          /\ operations[s][i] = Op(operations[s][i].type, operations[s][i].rid)
      BY <1>2, <1>4, OpTyped DEF IInv, OpsInv, InOps
    <3>2. CASE operations[s][i].rid # w
      <4>1. records'[operations[s][i].rid] = records[operations[s][i].rid]
        BY <2>3, <3>1, <3>2
      <4> QED BY ZenonT(40), <1>1, <1>2, <3>1, <4>1 DEF OpOK
    <3>3. CASE operations[s][i].rid = w /\ operations[s][i].type = "INSERT"
      BY ZenonT(40), <1>1, <1>2, <2>3, <2>5, <3>1, <3>3 DEF OpOK
    <3>4. CASE operations[s][i].rid = w /\ operations[s][i].type = "DELETE"
      <4>1. operations[s][i] = operations[s][n]
        BY <1>3, <1>11, <3>1, <3>4
      <4>2. records[w].begin \in {-trx_id[s], commit_id[s]}
        BY <1>3, <1>11, <1>w, <3>1, <4>1 DEF OpOK
      <4>3. records[w].begin = -trx_id[s]
        BY <1>4, <1>6, <4>2
      <4> QED BY <1>1, <2>3, <2>5, <3>1, <3>4, <4>3 DEF OpOK
    <3> QED BY <3>1, <3>2, <3>3, <3>4
  <2>10. OpsInv'
    BY <1>9, <2>3, <2>9
  <2>11. \A u \in Sessions : \A r : Pending(u, "INSERT", r) => Pending(u, "INSERT", r)'
    BY <1>2, <1>11, <1>o
  <2>12. \A u \in Sessions, r \in Rids \ {w} : Pending(u, "DELETE", r) => Pending(u, "DELETE", r)'
    BY <1>2, <1>o
  <2>13. OwnedMarks'
    <3> SUFFICES ASSUME NEW r \in Rids
                 PROVE  /\ records'[r].begin < 0 => -records'[r].begin \in orphans
                             \/ \E u \in Sessions : trx_id[u] = -records'[r].begin /\ Pending(u, "INSERT", r)'
                        /\ records'[r].end < 0 => -records'[r].end \in orphans
                             \/ \E u \in Sessions : trx_id[u] = -records'[r].end /\ Pending(u, "DELETE", r)'
      BY <1>1 DEF OwnedMarks
    <3>1. records'[r].begin < 0 => -records'[r].begin \in orphans
            \/ \E u \in Sessions : trx_id[u] = -records'[r].begin /\ Pending(u, "INSERT", r)'
      BY <2>7, <2>11 DEF IInv, OwnedMarks
    <3>2. CASE r = w
      BY <1>i, <2>3, <3>1, <3>2
    <3>3. CASE r # w
      BY <2>3, <2>12, <3>1, <3>3 DEF IInv, OwnedMarks
    <3> QED BY <3>2, <3>3
  <2>14. SeeInv'
    <3> SUFFICES ASSUME NEW v \in Sessions, started[v], NEW r \in must_see[v]
                 PROVE  /\ records'[r].begin > 0 /\ records'[r].begin <= trx_id[v]
                        /\ records'[r].end > trx_id[v] \/ records'[r].end < 0
                        /\ \A u \in Sessions : pc[u] = "commit" /\ Pending(u, "DELETE", r)' => commit_id[u] > trx_id[v]
      BY <1>1 DEF SeeInv
    <3>1. r \in Rids /\ trx_id[v] \in Nat /\ trx_id[v] <= current_trx_id
      BY DEF IInv, TypeInv, IdInv
    <3>2. records'[r].end > trx_id[v] \/ records'[r].end < 0
      <4>1. CASE r = w
        BY <1>4, <1>i, <2>3, <3>1, <4>1
      <4>2. CASE r # w
        BY <2>3, <3>1, <4>2 DEF IInv, SeeInv
      <4> QED BY <4>1, <4>2
    <3> QED BY <1>2, <2>7, <3>1, <3>2 DEF IInv, SeeInv
  <2>15. NotInv'
    BY <1>1, <1>2, <2>7 DEF IInv, TypeInv, NotInv
  <2> QED BY <1>7, <1>8, <2>4, <2>6, <2>8, <2>10, <2>13, <2>14, <2>15 DEF IInv
<1> QED BY <1>3, <1>10, <1>11

-----------------------------------------------------------------------------
LEMMA InitInv == ASSUME Init PROVE IInv
<1>1. \A s \in Sessions : /\ ~started[s] /\ operations[s] = <<>> /\ found[s] = <<>> /\ pc[s] = "idle"
                          /\ trx_id[s] = 0 /\ commit_id[s] = 0 /\ InOps(s) = {} /\ Len(found[s]) = 0
  BY EmptySeq DEF Init, InOps
<1>2. \A r \in Rids : records[r] = Absent /\ records[r].begin = 0 /\ records[r].end = 0
  BY DEF Init, Absent
<1>3. TypeInv
  <2>1. <<>> \in Seq(Ops) /\ <<>> \in Seq(Rids)
    BY EmptySeq
  <2> QED BY <2>1 DEF Init, TypeInv, Absent
<1>4. BoundInv
  <2>1. {s \in Sessions : started[s]} = {}
    BY <1>1
  <2>2. Cardinality({s \in Sessions : started[s]}) = 0
    BY <2>1, FS_EmptySet
  <2>3. current_trx_id = 0
    BY DEF Init
  <2> QED BY <2>2, <2>3, MvccAssumption DEF BoundInv, Reserved
<1>5. IdInv /\ PcInv /\ FoundInv
  BY <1>1 DEF Init, IdInv, PcInv, FoundInv, Statement
<1>6. RowInv /\ OwnedMarks
  BY <1>2 DEF Init, RowInv, OwnedMarks
<1>7. OpsInv /\ SeeInv /\ NotInv
  BY <1>1 DEF OpsInv, SeeInv, NotInv
<1> QED BY <1>3, <1>4, <1>5, <1>6, <1>7 DEF IInv

LEMMA NextInv == ASSUME IInv, [Next]_vars PROVE IInv'
<1>1. CASE UNCHANGED vars
  <2>1. UNCHANGED <<current_trx_id, records, trx_id, started, operations, commit_id, pc, found, must_see, must_not, orphans>>
    BY <1>1 DEF vars, kit, trx, request, history
  <2>2. TypeInv' /\ BoundInv' /\ IdInv' /\ RowInv' /\ PcInv' /\ FoundInv'
    BY <2>1 DEF IInv, TypeInv, BoundInv, Reserved, IdInv, RowInv, PcInv, FoundInv
  <2>3. OpsInv' /\ OwnedMarks' /\ SeeInv' /\ NotInv'
    BY <2>1 DEF IInv, OpsInv, OpOK, InOps, OwnedMarks, SeeInv, NotInv, Pending
  <2> QED BY <2>2, <2>3 DEF IInv
<1>2. ASSUME NEW s \in Sessions, Session(s) PROVE IInv'
  <2>1. CASE Begin(s) \/ \E stmt \in {"insert", "delete", "select"} : Open(s, stmt)
    BY <2>1, OpenInv
  <2>2. CASE InsertRecord(s) \/ Scan(s) \/ DeleteRecord(s)
    BY <2>2, InsertRecordInv, ScanInv, DeleteRecordInv
  <2>3. CASE InsertFails(s) \/ ScanEnd(s) \/ DeleteEnd(s) \/ (multi[s] /\ Close(s))
    BY <2>3, QuietStatementInv
  <2>4. CASE (~multi[s] /\ Close(s)) \/ Commit(s)
    <3>1. /\ BeginCommit(s) /\ pc[s] \in {"idle", "close"}
          /\ UNCHANGED <<records, trx_id, operations, found, orphans>>
      BY <2>4 DEF Close, Commit
    <3>2. trx_id[s] # 0 /\ (started[s] \/ Reserved < MaxId)
      <4>1. CASE pc[s] = "close" /\ Close(s)
        BY <4>1 DEF IInv, PcInv, Statement
      <4>2. CASE Commit(s)
        BY <4>2 DEF Commit, IInv, TypeInv
      <4> QED BY <2>4, <4>1, <4>2 DEF Close
    <3> QED BY <3>1, <3>2, BeginCommitInv
  <2>5. CASE Rollback(s) \/ CommitOp(s) \/ CommitEnd(s) \/ RollbackOp(s) \/ RollbackEnd(s) \/ Disconnect(s)
    BY <2>5, RollbackInv, CommitOpInv, RollbackOpInv, EndInv, DisconnectInv
  <2> QED BY <1>2, <2>1, <2>2, <2>3, <2>4, <2>5 DEF Session
<1> QED BY <1>1, <1>2 DEF Next

-----------------------------------------------------------------------------
\* The inductive invariant holds of every state.
LEMMA Invariance == Spec => []IInv
<1>1. Init => IInv
  BY InitInv
<1>2. IInv /\ [Next]_vars => IInv'
  BY NextInv
<1> QED BY <1>1, <1>2, PTL DEF Spec

LEMMA IInvWriters == ASSUME IInv PROVE WritersKeepRows
<1> SUFFICES ASSUME NEW s \in Sessions, NEW r \in Rids
             PROVE  /\ Pending(s, "INSERT", r) => records[r].begin = -trx_id[s]
                    /\ Pending(s, "DELETE", r) /\ records[r].begin \notin {-trx_id[s], commit_id[s]} =>
                         records[r].end = -trx_id[s]
  BY DEF WritersKeepRows
<1>1. ASSUME Pending(s, "INSERT", r) PROVE records[r].begin = -trx_id[s]
  <2>1. PICK i \in InOps(s) : operations[s][i].type = "INSERT" /\ operations[s][i].rid = r
    BY <1>1, PendingOp DEF IInv
  <2> QED BY <2>1 DEF IInv, OpsInv, OpOK
<1>2. ASSUME Pending(s, "DELETE", r), records[r].begin \notin {-trx_id[s], commit_id[s]} PROVE records[r].end = -trx_id[s]
  <2>1. PICK i \in InOps(s) : operations[s][i].type = "DELETE" /\ operations[s][i].rid = r
    BY <1>2, PendingOp DEF IInv
  <2>2. OpOK(s, i)
    BY DEF IInv, OpsInv
  <2> QED BY <1>2, <2>1, <2>2 DEF OpOK
<1> QED BY <1>1, <1>2

\* A mark of the transaction itself is one of its operations.
LEMMA OwnMark ==
    ASSUME IInv, NEW s \in Sessions, trx_id[s] # 0, NEW r \in Rids
    PROVE  /\ records[r].begin = -trx_id[s] => Pending(s, "INSERT", r)
           /\ records[r].end = -trx_id[s] => Pending(s, "DELETE", r)
<1>1. trx_id[s] \in Nat \ {0} /\ -(-trx_id[s]) = trx_id[s] /\ -trx_id[s] < 0 /\ trx_id[s] \notin orphans
  BY DEF IInv, TypeInv, IdInv
<1>2. \A u \in Sessions : trx_id[u] = trx_id[s] => u = s
  BY DEF IInv, IdInv
<1> QED BY <1>1, <1>2 DEF IInv, OwnedMarks

LEMMA IInvSees == ASSUME IInv PROVE SeesCommitted
<1> SUFFICES ASSUME NEW s \in Sessions, started[s], NEW r \in must_see[s], ~Pending(s, "DELETE", r)
             PROVE  Sees(s, r)
  BY DEF SeesCommitted
<1>1. /\ r \in Rids /\ records[r].begin \in Int /\ records[r].end \in Int /\ trx_id[s] \in Nat
      /\ records[r].begin > 0 /\ records[r].begin <= trx_id[s]
      /\ records[r].end > trx_id[s] \/ records[r].end < 0
  BY DEF IInv, TypeInv, SeeInv
<1>2. trx_id[s] # 0
  BY DEF IInv, PcInv
<1>3. records[r].end # -trx_id[s] /\ -records[r].end # trx_id[s]
  BY <1>1, <1>2, OwnMark
<1>4. records[r] # Absent
  BY <1>1 DEF Absent
<1>5. CASE records[r].end > trx_id[s]
  BY <1>1, <1>4, <1>5 DEF Sees, Visit
<1>6. CASE records[r].end < 0
  BY <1>1, <1>3, <1>4, <1>6 DEF Sees, Visit
<1> QED BY <1>1, <1>5, <1>6

LEMMA IInvPhantoms == ASSUME IInv PROVE NoPhantoms
<1> SUFFICES ASSUME NEW s \in Sessions, started[s], NEW r \in must_not[s], Sees(s, r), ~(records[r].end < 0)
             PROVE  Pending(s, "INSERT", r)
  BY DEF NoPhantoms
<1>1. /\ r \in Rids /\ records[r].begin \in Int /\ records[r].end \in Int /\ trx_id[s] \in Nat
      /\ records[r].begin > trx_id[s] \/ records[r].begin <= 0
  BY DEF IInv, TypeInv, NotInv
<1>2. trx_id[s] # 0
  BY DEF IInv, PcInv
<1>3. records[r].begin # 0 /\ records[r].end # 0 /\ Visit(trx_id[s], records[r], "READ_ONLY") = "SUCCESS"
  BY <1>1 DEF Sees, IInv, RowInv
<1>4. CASE records[r].begin > trx_id[s]
  BY <1>1, <1>3, <1>4 DEF Visit
<1>5. CASE records[r].begin < 0
  <2>1. -records[r].begin = trx_id[s]
    BY <1>1, <1>3, <1>5 DEF Visit
  <2>2. records[r].begin = -trx_id[s]
    BY <1>1, <2>1
  <2> QED BY <1>1, <1>2, <2>2, OwnMark
<1> QED BY <1>1, <1>3, <1>4, <1>5

\* For any sessions, rows and operations: a mark on a row belongs to a transaction that still has
\* the operation, or to one whose session ended.
THEOREM MarksOwned == Spec => []OwnedMarks
<1>1. IInv => OwnedMarks
  BY DEF IInv
<1> QED BY <1>1, Invariance, PTL

\* For any sessions, rows and operations: the ASSERTs of commit_with_trx_id and rollback hold.
THEOREM WritersKeepRowsAlways == Spec => []WritersKeepRows
<1>1. IInv => WritersKeepRows
  BY IInvWriters
<1> QED BY <1>1, Invariance, PTL

\* For any sessions, rows and operations: a transaction keeps seeing what was committed before it
\* started, however the others delete and commit.
THEOREM CommittedStaysVisible == Spec => []SeesCommitted
<1>1. IInv => SeesCommitted
  BY IInvSees
<1> QED BY <1>1, Invariance, PTL

\* For any sessions, rows and operations: a transaction never comes to see a row that was not
\* committed when it started, unless the row carries a delete mark.
THEOREM NoPhantomsAlways == Spec => []NoPhantoms
<1>1. IInv => NoPhantoms
  BY IInvPhantoms
<1> QED BY <1>1, Invariance, PTL
=============================================================================
