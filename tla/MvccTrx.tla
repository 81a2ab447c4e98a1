------------------------------- MODULE MvccTrx -------------------------------
(***************************************************************************)
(* Multi-version transactions: MvccTrx and MvccTrxKit of                   *)
(* observer/storage/trx, driven by the sessions the way SqlResult, the     *)
(* begin and end executors and the insert, delete and select operators     *)
(* drive them, with the recovery of MvccTrxLogReplayer.                    *)
(*                                                                         *)
(* A row is the pair of its hidden columns __trx_xid_begin and             *)
(* __trx_xid_end; a negative value is the mark of a transaction that has   *)
(* not committed.  Table is represented by what MvccTrx uses of it: a row  *)
(* is visited under the latch of its page, so a visit is one step, and     *)
(* every row is on a page of its own, so anything may happen between two.  *)
(*                                                                         *)
(* The log.  Rows and transaction records go to one redo log, so a restart *)
(* finds the state after some prefix of it.  "images" holds the states a   *)
(* restart may find; commit waits for its log record and leaves one.       *)
(***************************************************************************)
EXTENDS Integers, Sequences, FiniteSets

CONSTANTS
    Sessions,
    MaxRid,         \* rows are numbered 1..MaxRid in the order of a scan
    MaxId,          \* bound on current_trx_id
    MaxOps,         \* bound on the operations of a transaction
    MaxCrashes      \* bound on the crashes

ASSUME MvccAssumption ==
    /\ IsFiniteSet(Sessions)
    /\ MaxRid \in Nat \ {0}
    /\ MaxId \in Nat \ {0}
    /\ MaxOps \in Nat
    /\ MaxCrashes \in Nat

VARIABLES
    current_trx_id, \* MvccTrxKit::current_trx_id_
    records,        \* the rows of the table
    multi,          \* Session::trx_multi_operation_mode_
    trx_id,         \* MvccTrx::trx_id_, 0 when the session has no transaction object
    started,        \* MvccTrx::started_
    operations,     \* MvccTrx::operations_, the ones commit or rollback has not done
    commit_id,      \* the argument of commit_with_trx_id
    pc,             \* where the session's request is
    where,          \* the rows the delete statement's condition selects
    cursor,         \* the scan's next row
    found,          \* DeletePhysicalOperator::records_
    logged,         \* largest trx_id in the transaction records of the log
    images,         \* what a restart may find
    must_see,       \* history: rows a transaction has to see as long as it runs
    must_not,       \* history: rows of others it may not see as long as it runs
    dead,           \* history: commit id of the delete of each row, 0 for none
    conflict,       \* history: a statement of the transaction met a conflict
    orphans,        \* history: transactions that were neither committed nor rolled back
    crashes

kit     == <<current_trx_id>>
trx     == <<trx_id, started, operations, commit_id>>
request == <<multi, pc, where, cursor, found>>
log     == <<logged, images>>
history == <<must_see, must_not, dead, conflict, orphans>>
vars    == <<kit, records, trx, request, log, history, crashes>>

Rids   == 1..MaxRid
Inf    == MaxId + 1
Absent == [begin |-> 0, end |-> 0]
Row    == [begin : {i \in -MaxId..MaxId : i # 0}, end : {i \in -MaxId..Inf : i # 0}]
Op(type, r) == [type |-> type, rid |-> r]

-----------------------------------------------------------------------------
(***************************************************************************)
(* Logging.                                                                *)
(***************************************************************************)
Image(recs, id) == [records |-> recs, logged |-> id]
MaxOf(a, b)     == IF a >= b THEN a ELSE b

\* The row's own log record is appended (RecordLogHandler).
LogRow == /\ images' = IF crashes < MaxCrashes THEN images \cup {Image(records', logged)} ELSE images
          /\ UNCHANGED logged

\* A record of transaction s is appended, after the row's when there is one.
LogTrx(s) ==
    /\ logged' = MaxOf(logged, trx_id[s])
    /\ images' = IF crashes < MaxCrashes
                   THEN images \cup {Image(records', logged), Image(records', logged')}
                   ELSE images

-----------------------------------------------------------------------------
(***************************************************************************)
(* MvccTrx::visit_record and start_if_need.                                *)
(***************************************************************************)

\* Where both xids are positive the row is a version; a negative begin is an
\* insert, a negative end a delete that has not been committed.
Visit(id, row, mode) ==
    CASE row.begin > 0 /\ row.end > 0 ->
           IF id >= row.begin /\ id <= row.end THEN "SUCCESS" ELSE "INVISIBLE"
      [] row.begin < 0 -> IF -row.begin = id THEN "SUCCESS" ELSE "INVISIBLE"
      [] row.begin > 0 /\ row.end < 0 ->
           IF -row.end = id THEN "INVISIBLE"
           ELSE IF mode = "READ_ONLY" THEN "SUCCESS" ELSE "CONFLICT"

\* A select of session s returns the row.
Sees(s, r) == records[r] # Absent /\ Visit(trx_id[s], records[r], "READ_ONLY") = "SUCCESS"

Committing(id) == \E s \in Sessions : pc[s] = "commit" /\ trx_id[s] = id

\* Rows that are committed and that nobody is about to delete with a commit id
\* which has already been drawn, and rows whose insert has not got one.
Settled   == {r \in Rids : /\ records[r].begin > 0
                           /\ \/ records[r].end = Inf
                              \/ records[r].end < 0 /\ ~Committing(-records[r].end)}
Unsettled == {r \in Rids : \/ records[r] = Absent
                           \/ records[r].begin < 0 /\ ~Committing(-records[r].begin)}

\* The ids drawn and the ones the running transactions will draw to commit.
Reserved == current_trx_id + Cardinality({s \in Sessions : started[s]})

StartIfNeed(s) ==
    IF started[s] THEN UNCHANGED <<current_trx_id, trx_id, started, must_see, must_not, conflict>>
    ELSE /\ Reserved + 1 < MaxId
         /\ current_trx_id' = current_trx_id + 1
         /\ trx_id' = [trx_id EXCEPT ![s] = current_trx_id + 1]
         /\ started' = [started EXCEPT ![s] = TRUE]
         /\ must_see' = [must_see EXCEPT ![s] = Settled]
         /\ must_not' = [must_not EXCEPT ![s] = Unsettled]
         /\ conflict' = [conflict EXCEPT ![s] = FALSE]

-----------------------------------------------------------------------------
(***************************************************************************)
(* Statements.                                                             *)
(***************************************************************************)

\* TrxBeginExecutor
Begin(s) ==
    /\ pc[s] = "idle"
    /\ multi' = [multi EXCEPT ![s] = TRUE]
    /\ StartIfNeed(s)
    /\ UNCHANGED <<records, operations, commit_id, pc, where, cursor, found, log, dead, orphans, crashes>>

\* SqlResult::open: a statement starts; a select changes nothing.
Open(s, stmt) ==
    /\ pc[s] = "idle" /\ Len(operations[s]) < MaxOps
    /\ StartIfNeed(s)
    /\ pc' = [pc EXCEPT ![s] = CASE stmt = "insert" -> "insert"
                                 [] stmt = "delete" -> "scan"
                                 [] stmt = "select" -> "close"]
    /\ IF stmt = "delete" THEN \E w \in SUBSET Rids : where' = [where EXCEPT ![s] = w]
                          ELSE UNCHANGED where
    /\ UNCHANGED <<records, operations, commit_id, multi, cursor, found, log, dead, orphans, crashes>>

\* MvccTrx::insert_record into a free slot.
InsertRecord(s) ==
    /\ pc[s] = "insert"
    /\ \E r \in Rids :
         /\ records[r] = Absent
         /\ records' = [records EXCEPT ![r] = [begin |-> -trx_id[s], end |-> Inf]]
         /\ operations' = [operations EXCEPT ![s] = Append(@, Op("INSERT", r))]
    /\ LogTrx(s)
    /\ pc' = [pc EXCEPT ![s] = "close"]
    /\ UNCHANGED <<kit, trx_id, started, commit_id, multi, where, cursor, found, history, crashes>>

\* No slot is free: the table is full and the statement fails.
InsertFails(s) ==
    /\ pc[s] = "insert" /\ \A r \in Rids : records[r] # Absent
    /\ pc' = [pc EXCEPT ![s] = "close"]
    /\ UNCHANGED <<kit, records, trx, multi, where, cursor, found, log, history, crashes>>

\* RecordFileScanner visits the next row of a delete in mode READ_WRITE.  A
\* conflict ends the loop of DeletePhysicalOperator::open like the last row does.
Scan(s) ==
    /\ pc[s] = "scan" /\ cursor[s] \in Rids
    /\ LET r  == cursor[s]
           rc == IF records[r] = Absent THEN "INVISIBLE"
                 ELSE Visit(trx_id[s], records[r], "READ_WRITE")
       IN  /\ cursor' = [cursor EXCEPT ![s] = IF rc = "CONFLICT" THEN MaxRid + 1 ELSE r + 1]
           /\ found' = [found EXCEPT ![s] = IF rc = "SUCCESS" /\ r \in where[s] THEN Append(@, r) ELSE @]
           /\ conflict' = [conflict EXCEPT ![s] = @ \/ rc = "CONFLICT"]
    /\ UNCHANGED <<kit, records, trx, multi, pc, where, log, must_see, must_not, dead, orphans, crashes>>

ScanEnd(s) ==
    /\ pc[s] = "scan" /\ cursor[s] \notin Rids
    /\ pc' = [pc EXCEPT ![s] = "delete"]
    /\ cursor' = [cursor EXCEPT ![s] = 1] /\ where' = [where EXCEPT ![s] = {}]
    /\ UNCHANGED <<kit, records, trx, multi, found, log, history, crashes>>

\* Mutant: what the scan saw is not checked again.
MutDeleteRecord(s) ==
    /\ pc[s] = "delete" /\ found[s] # <<>>
    /\ LET r == Head(found[s])
       IN  /\ records' = [records EXCEPT ![r].end = -trx_id[s]]
           /\ operations' = [operations EXCEPT ![s] = Append(@, Op("DELETE", r))]
    /\ LogTrx(s)
    /\ found' = [found EXCEPT ![s] = Tail(@)]
    /\ UNCHANGED <<kit, trx_id, started, commit_id, multi, pc, where, cursor, history, crashes>>

\* MvccTrx::delete_record: the row is visited again and marked in one step; any
\* answer but SUCCESS ends the statement.
DeleteRecord(s) ==
    /\ pc[s] = "delete" /\ found[s] # <<>>
    /\ LET r  == Head(found[s])
           rc == Visit(trx_id[s], records[r], "READ_WRITE")
       IN  IF rc = "SUCCESS"
             THEN /\ records' = [records EXCEPT ![r].end = -trx_id[s]]
                  /\ operations' = [operations EXCEPT ![s] = Append(@, Op("DELETE", r))]
                  /\ LogTrx(s)
                  /\ found' = [found EXCEPT ![s] = Tail(@)]
                  /\ UNCHANGED <<pc, conflict>>
             ELSE /\ found' = [found EXCEPT ![s] = <<>>]
                  /\ pc' = [pc EXCEPT ![s] = "close"]
                  /\ conflict' = [conflict EXCEPT ![s] = @ \/ rc = "CONFLICT"]
                  /\ UNCHANGED <<records, operations, log>>
    /\ UNCHANGED <<kit, trx_id, started, commit_id, multi, where, cursor, must_see, must_not, dead, orphans, crashes>>

DeleteEnd(s) ==
    /\ pc[s] = "delete" /\ found[s] = <<>>
    /\ pc' = [pc EXCEPT ![s] = "close"]
    /\ UNCHANGED <<kit, records, trx, multi, where, cursor, found, log, history, crashes>>

-----------------------------------------------------------------------------
(***************************************************************************)
(* The end of a transaction.                                               *)
(***************************************************************************)

\* What the transaction had to see does not matter any more.
Forget(s) == /\ must_see' = [must_see EXCEPT ![s] = {}]
             /\ must_not' = [must_not EXCEPT ![s] = {}]

\* Mutant: the rows get the id of the start.
MutBeginCommit(s) ==
    /\ commit_id' = [commit_id EXCEPT ![s] = trx_id[s]]
    /\ started' = [started EXCEPT ![s] = FALSE]
    /\ pc' = [pc EXCEPT ![s] = "commit"]
    /\ Forget(s)
    /\ UNCHANGED current_trx_id

\* commit draws the commit id.
BeginCommit(s) ==
    /\ current_trx_id' = current_trx_id + 1
    /\ commit_id' = [commit_id EXCEPT ![s] = current_trx_id + 1]
    /\ started' = [started EXCEPT ![s] = FALSE]
    /\ pc' = [pc EXCEPT ![s] = "commit"]
    /\ Forget(s)

\* SqlResult::close: outside begin ... commit the statement is committed, also
\* one that failed, because the operators' close returns SUCCESS.
Close(s) ==
    /\ pc[s] = "close"
    /\ IF multi[s] THEN /\ pc' = [pc EXCEPT ![s] = "idle"]
                        /\ UNCHANGED <<current_trx_id, commit_id, started, must_see, must_not>>
                   ELSE BeginCommit(s)
    /\ UNCHANGED <<records, trx_id, operations, multi, where, cursor, found, log, dead, conflict, orphans, crashes>>

\* TrxEndExecutor: the log asserts that there is a transaction id.
Commit(s) ==
    /\ pc[s] = "idle" /\ trx_id[s] > 0
    /\ started[s] \/ Reserved < MaxId
    /\ multi' = [multi EXCEPT ![s] = FALSE]
    /\ BeginCommit(s)
    /\ UNCHANGED <<records, trx_id, operations, where, cursor, found, log, dead, conflict, orphans, crashes>>

Rollback(s) ==
    /\ pc[s] = "idle" /\ trx_id[s] > 0
    /\ multi' = [multi EXCEPT ![s] = FALSE]
    /\ started' = [started EXCEPT ![s] = FALSE]
    /\ pc' = [pc EXCEPT ![s] = "rollback"]
    /\ Forget(s)
    /\ UNCHANGED <<kit, records, trx_id, operations, commit_id, where, cursor, found, log, dead, conflict, orphans, crashes>>

\* commit_with_trx_id stamps one row after the other with the commit id.
CommitOp(s) ==
    /\ pc[s] = "commit" /\ operations[s] # <<>>
    /\ LET op == Head(operations[s])
       IN  IF op.type = "INSERT"
             THEN /\ records' = [records EXCEPT ![op.rid].begin = commit_id[s]]
                  /\ UNCHANGED dead
             ELSE /\ records' = [records EXCEPT ![op.rid].end = commit_id[s]]
                  /\ dead' = [dead EXCEPT ![op.rid] = commit_id[s]]
    /\ operations' = [operations EXCEPT ![s] = Tail(@)]
    /\ LogRow
    /\ UNCHANGED <<kit, trx_id, started, commit_id, request, must_see, must_not, conflict, orphans, crashes>>

\* The commit record is appended and waited for: all that was logged is on disk.
CommitEnd(s) ==
    /\ pc[s] = "commit" /\ operations[s] = <<>>
    /\ logged' = MaxOf(logged, trx_id[s])
    /\ images' = {Image(records, logged')}
    /\ pc' = [pc EXCEPT ![s] = "idle"]
    /\ commit_id' = [commit_id EXCEPT ![s] = 0]
    /\ conflict' = [conflict EXCEPT ![s] = FALSE]
    /\ UNCHANGED <<kit, records, trx_id, started, operations, multi, where, cursor, found, must_see, must_not, dead, orphans, crashes>>

\* Mutant: a delete mark is left on the row.
MutRollbackOp(s) ==
    /\ pc[s] = "rollback" /\ operations[s] # <<>>
    /\ LET op == operations[s][Len(operations[s])]
       IN  records' = IF op.type = "INSERT" THEN [records EXCEPT ![op.rid] = Absent] ELSE records
    /\ operations' = [operations EXCEPT ![s] = SubSeq(@, 1, Len(@) - 1)]
    /\ LogRow
    /\ UNCHANGED <<kit, trx_id, started, commit_id, request, history, crashes>>

\* rollback undoes the last operation first.
RollbackOp(s) ==
    /\ pc[s] = "rollback" /\ operations[s] # <<>>
    /\ LET op == operations[s][Len(operations[s])]
       IN  records' = IF op.type = "INSERT" THEN [records EXCEPT ![op.rid] = Absent]
                                            ELSE [records EXCEPT ![op.rid].end = Inf]
    /\ operations' = [operations EXCEPT ![s] = SubSeq(@, 1, Len(@) - 1)]
    /\ LogRow
    /\ UNCHANGED <<kit, trx_id, started, commit_id, request, history, crashes>>

RollbackEnd(s) ==
    /\ pc[s] = "rollback" /\ operations[s] = <<>>
    /\ pc' = [pc EXCEPT ![s] = "idle"]
    /\ UNCHANGED records /\ LogTrx(s)
    /\ conflict' = [conflict EXCEPT ![s] = FALSE]
    /\ UNCHANGED <<kit, trx, multi, where, cursor, found, must_see, must_not, dead, orphans, crashes>>

\* The client goes: Session's destructor drops the transaction as it is.
Disconnect(s) ==
    /\ pc[s] = "idle"
    /\ orphans' = IF operations[s] = <<>> THEN orphans ELSE orphans \cup {trx_id[s]}
    /\ multi' = [multi EXCEPT ![s] = FALSE]
    /\ trx_id' = [trx_id EXCEPT ![s] = 0]
    /\ started' = [started EXCEPT ![s] = FALSE]
    /\ operations' = [operations EXCEPT ![s] = <<>>]
    /\ conflict' = [conflict EXCEPT ![s] = FALSE]
    /\ Forget(s)
    /\ UNCHANGED <<kit, records, commit_id, pc, where, cursor, found, log, dead, crashes>>

-----------------------------------------------------------------------------
NoRequest ==
    /\ multi' = [s \in Sessions |-> FALSE] /\ pc' = [s \in Sessions |-> "idle"]
    /\ where' = [s \in Sessions |-> {}] /\ cursor' = [s \in Sessions |-> 1]
    /\ found' = [s \in Sessions |-> <<>>]
    /\ trx_id' = [s \in Sessions |-> 0] /\ started' = [s \in Sessions |-> FALSE]
    /\ operations' = [s \in Sessions |-> <<>>] /\ commit_id' = [s \in Sessions |-> 0]
    /\ must_see' = [s \in Sessions |-> {}] /\ must_not' = [s \in Sessions |-> {}]
    /\ conflict' = [s \in Sessions |-> FALSE]

\* kill -9 and a restart.  MvccTrxLogReplayer sets current_trx_id_ to the largest
\* trx_id it reads; trx_map_ stays empty, so on_done rolls nothing back.
CrashAndRecover ==
    /\ crashes < MaxCrashes
    /\ crashes' = crashes + 1
    /\ \E i \in images :
         /\ records' = i.records
         /\ current_trx_id' = i.logged /\ logged' = i.logged
         /\ images' = {i}
    /\ NoRequest
    /\ dead' = [r \in Rids |-> 0]
    /\ orphans' = {-records'[r].begin : r \in {q \in Rids : records'[q].begin < 0}}
                    \cup {-records'[r].end : r \in {q \in Rids : records'[q].end < 0}}

Init ==
    /\ current_trx_id = 0 /\ records = [r \in Rids |-> Absent]
    /\ multi = [s \in Sessions |-> FALSE] /\ pc = [s \in Sessions |-> "idle"]
    /\ where = [s \in Sessions |-> {}] /\ cursor = [s \in Sessions |-> 1]
    /\ found = [s \in Sessions |-> <<>>]
    /\ trx_id = [s \in Sessions |-> 0] /\ started = [s \in Sessions |-> FALSE]
    /\ operations = [s \in Sessions |-> <<>>] /\ commit_id = [s \in Sessions |-> 0]
    /\ logged = 0 /\ images = {Image(records, 0)}
    /\ must_see = [s \in Sessions |-> {}] /\ must_not = [s \in Sessions |-> {}]
    /\ dead = [r \in Rids |-> 0] /\ conflict = [s \in Sessions |-> FALSE]
    /\ orphans = {} /\ crashes = 0

Session(s) == \/ Begin(s) \/ (\E stmt \in {"insert", "delete", "select"} : Open(s, stmt))
              \/ InsertRecord(s) \/ InsertFails(s)
              \/ Scan(s) \/ ScanEnd(s) \/ DeleteRecord(s) \/ DeleteEnd(s)
              \/ Close(s) \/ Commit(s) \/ Rollback(s)
              \/ CommitOp(s) \/ CommitEnd(s) \/ RollbackOp(s) \/ RollbackEnd(s)
              \/ Disconnect(s)

Next == \E s \in Sessions : Session(s)

Spec == Init /\ [][Next]_vars

SpecCrash == Init /\ [][Next \/ CrashAndRecover]_vars

-----------------------------------------------------------------------------
(***************************************************************************)
(* Properties.                                                             *)
(***************************************************************************)

\* Types of the variables; no row ever has 0 for one of its xids.
TypeOK ==
    /\ current_trx_id \in 0..MaxId
    /\ records \in [Rids -> Row \cup {Absent}]
    /\ multi \in [Sessions -> BOOLEAN] /\ started \in [Sessions -> BOOLEAN]
    /\ trx_id \in [Sessions -> 0..MaxId] /\ commit_id \in [Sessions -> 0..MaxId]
    /\ operations \in [Sessions -> Seq([type : {"INSERT", "DELETE"}, rid : Rids])]
    /\ pc \in [Sessions -> {"idle", "insert", "scan", "delete", "close", "commit", "rollback"}]
    /\ where \in [Sessions -> SUBSET Rids] /\ cursor \in [Sessions -> 1..(MaxRid + 1)]
    /\ found \in [Sessions -> Seq(Rids)]
    /\ logged \in 0..MaxId
    /\ images \subseteq [records : [Rids -> Row \cup {Absent}], logged : 0..MaxId]
    /\ must_see \in [Sessions -> SUBSET Rids] /\ must_not \in [Sessions -> SUBSET Rids]
    /\ dead \in [Rids -> 0..MaxId] /\ conflict \in [Sessions -> BOOLEAN]
    /\ orphans \subseteq 1..MaxId /\ crashes \in 0..MaxCrashes

Pending(s, type, r) == \E i \in DOMAIN operations[s] : operations[s][i] = Op(type, r)

\* A mark never outlives its transaction: whoever left -id on a row still has the
\* operation to commit or to undo, unless its session ended under it.
OwnedMarks ==
    \A r \in Rids :
      /\ records[r].begin < 0 =>
           -records[r].begin \in orphans \/ \E s \in Sessions : trx_id[s] = -records[r].begin /\ Pending(s, "INSERT", r)
      /\ records[r].end < 0 =>
           -records[r].end \in orphans \/ \E s \in Sessions : trx_id[s] = -records[r].end /\ Pending(s, "DELETE", r)

\* Nobody overwrites the mark of a running transaction, between its scan, its
\* delete and its commit: the ASSERTs of commit_with_trx_id and rollback hold
\* (for deletes, of the rows that the transaction has not inserted itself).
WritersKeepRows ==
    \A s \in Sessions, r \in Rids :
      /\ Pending(s, "INSERT", r) => records[r].begin = -trx_id[s]
      /\ Pending(s, "DELETE", r) /\ records[r].begin \notin {-trx_id[s], commit_id[s]} =>
           records[r].end = -trx_id[s]

\* A transaction sees, as long as it runs, every row that was committed when it
\* started, except the ones it deletes, whatever other transactions delete and
\* commit (docs/design/miniob-transaction.md: a committed row is visible to all
\* the new transactions).
SeesCommitted ==
    \A s \in Sessions : started[s] =>
      \A r \in must_see[s] : Sees(s, r) \/ Pending(s, "DELETE", r)

\* It sees none of the rows of others that were not committed when it started,
\* unless one of them carries a delete mark (visit_record then ignores begin_xid).
NoPhantoms ==
    \A s \in Sessions : started[s] =>
      \A r \in must_not[s] : Sees(s, r) => Pending(s, "INSERT", r) \/ records[r].end < 0

\* A row whose delete has been committed is not visible to the transactions that
\* start after that (docs/design/miniob-transaction.md).
DeletedStaysDeleted ==
    \A s \in Sessions, r \in Rids :
      /\ started[s] /\ dead[r] > 0 /\ trx_id[s] > dead[r]
      /\ \A u \in Sessions : commit_id[u] # dead[r]
      => ~Sees(s, r)

\* A transaction that meets another writer on a row is rolled back
\* (docs/design/miniob-transaction.md): its commit never begins.
ConflictRollsBack == \A s \in Sessions : pc[s] = "commit" => ~conflict[s]
=============================================================================
