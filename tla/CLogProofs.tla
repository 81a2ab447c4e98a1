------------------------------ MODULE CLogProofs ------------------------------
(***************************************************************************)
(* Proofs about the commit log, for every number of appenders, every file  *)
(* size, every buffer size and every bound.                                *)
(***************************************************************************)
EXTENDS CLog, SequenceTheorems, WellFoundedInduction, TLAPS

-----------------------------------------------------------------------------
(***************************************************************************)
(* Type correctness, with all kinds of faults.                             *)
(***************************************************************************)

\* The file next_file or last_file opens is named by a natural number, as long as
\* the names in log_files_ have a largest one.
HasLast(S) == \E f \in S : \A g \in S : g <= f

\* A set of file names that grows by one name keeps a largest one.
LEMMA AddKeepsLast ==
    ASSUME NEW S \in SUBSET Nat, NEW f \in Nat, S = {} \/ HasLast(S)
    PROVE  HasLast(S \cup {f})
<1>1. CASE S = {}
  BY <1>1 DEF HasLast
<1>2. CASE HasLast(S)
  <2>1. PICK m \in S : \A g \in S : g <= m
    BY <1>2 DEF HasLast
  <2>2. CASE f <= m
    BY <2>1, <2>2 DEF HasLast
  <2>3. CASE m < f
    <3>1. \A g \in S \cup {f} : g <= f
      BY <2>1, <2>3
    <3> QED BY <3>1 DEF HasLast
  <2> QED BY <2>1, <2>2, <2>3
<1> QED BY <1>1, <1>2

\* A non-empty bounded set of natural numbers has a largest element.
LEMMA BoundedHasLast ==
    ASSUME NEW S \in SUBSET Nat, S # {}, NEW b \in Nat, \A n \in S : n <= b
    PROVE  HasLast(S)
<1> DEFINE T == {b - n : n \in S}
<1>1. T \subseteq Nat /\ T # {}
  <2>1. PICK n \in S : TRUE
    OBVIOUS
  <2>2. b - n \in T
    OBVIOUS
  <2>3. \A k \in S : b - k \in Nat
    OBVIOUS
  <2> QED BY <2>2, <2>3
<1>2. PICK x \in T : \A y \in T : ~(<<y, x>> \in OpToRel(<, Nat))
  BY <1>1, WFMin, NatLessThanWellFounded
<1>3. PICK m \in S : x = b - m
  OBVIOUS
<1>4. ASSUME NEW n \in S PROVE n <= m
  <2>1. b - n \in Nat /\ x \in Nat /\ b - n \in T
    OBVIOUS
  <2>2. ~(b - n < x)
    BY <1>2, <2>1 DEF OpToRel
  <2> QED BY <1>3, <2>2
<1> QED BY <1>4 DEF HasLast

\* TypeOK with what its preservation needs: the sets of file names have a largest
\* name or are empty, the LSNs in the files are bounded.
TypeInv == /\ TypeOK
           /\ log_files = {} \/ HasLast(log_files)
           /\ disk_files = {} \/ HasLast(disk_files)
           /\ \E b \in Nat : \A i \in 1..Len(disk) : disk[i].lsn <= b
           /\ tpc = "payload" => disk # <<>>

\* FileToOpen is a file name (LogFileManager::last_file and next_file).
LEMMA FileToOpenType ==
    ASSUME TypeInv PROVE FileToOpen \in Nat
<1> USE ConstantsAssumption DEF TypeInv, TypeOK
<1>1. CASE log_files = {}
  BY <1>1 DEF FileToOpen, NextFile
<1>2. CASE log_files # {}
  <2>1. LastFile \in log_files
    BY <1>2 DEF LastFile, HasLast
  <2> QED BY <1>2, <2>1 DEF FileToOpen, NextFile
<1> QED BY <1>1, <1>2

\* replay finds a largest LSN: ReplayedLsn is one of the LSNs it read, or 0, and
\* none of them is larger.
LEMMA ReplayedLsnProperty ==
    ASSUME TypeInv
    PROVE  /\ ReplayedLsn \in RecoverableLsns \cup {0}
           /\ ReplayedLsn \in Nat
           /\ \A n \in RecoverableLsns : n <= ReplayedLsn
<1> DEFINE R == RecoverableLsns \cup {0}
<1>1. RecoverableLsns \subseteq Nat
  <2>1. \A i \in 1..Len(disk) : disk[i] \in Fragment
    BY ElementOfSeq DEF TypeInv, TypeOK
  <2> QED BY <2>1 DEF RecoverableLsns, Delivered, Fragment
<1>2. PICK b \in Nat : \A i \in 1..Len(disk) : disk[i].lsn <= b
  BY DEF TypeInv
<1>3. \A n \in R : n <= b
  BY <1>2 DEF RecoverableLsns, Delivered
<1>4. HasLast(R)
  BY <1>1, <1>3, BoundedHasLast
<1>5. \E m \in R : \A n \in RecoverableLsns : n <= m
  BY <1>4 DEF HasLast
<1>6. ReplayedLsn \in R /\ \A n \in RecoverableLsns : n <= ReplayedLsn
  BY <1>5 DEF ReplayedLsn
<1> QED BY <1>1, <1>6

\* An appended fragment keeps the types and the bound of the LSNs.
LEMMA DiskAppend ==
    ASSUME TypeInv, NEW part \in {"full", "header", "torn"},
           disk' = Append(disk, NewFragment(part))
    PROVE  /\ disk' \in Seq(Fragment) /\ disk' # <<>>
           /\ \E b \in Nat : \A i \in 1..Len(disk') : disk'[i].lsn <= b
<1>1. NewFragment(part) \in Fragment
  BY DEF TypeInv, TypeOK, NewFragment, Fragment, Entry, Writer
<1>2. /\ disk' \in Seq(Fragment) /\ disk' # <<>> /\ Len(disk') = Len(disk) + 1
      /\ \A i \in 1..Len(disk) : disk'[i] = disk[i]
      /\ disk'[Len(disk) + 1] = NewFragment(part)
  BY <1>1, AppendProperties, LenProperties DEF TypeInv, TypeOK
<1>3. PICK b \in Nat : \A i \in 1..Len(disk) : disk[i].lsn <= b
  BY DEF TypeInv
<1>4. inflight.lsn \in Nat /\ Len(disk) \in Nat
  BY LenProperties DEF TypeInv, TypeOK, Entry
<1>5. \A i \in 1..Len(disk') : disk'[i].lsn <= b + inflight.lsn
  <2> SUFFICES ASSUME NEW i \in 1..Len(disk') PROVE disk'[i].lsn <= b + inflight.lsn
    OBVIOUS
  <2>1. CASE i \in 1..Len(disk)
    <3>1. disk[i] \in Fragment
      BY <2>1, ElementOfSeq DEF TypeInv, TypeOK
    <3>2. disk'[i] = disk[i] /\ disk[i].lsn <= b /\ disk[i].lsn \in Nat
      BY <2>1, <3>1, <1>2, <1>3 DEF Fragment
    <3> QED BY <3>2, <1>4
  <2>2. CASE i = Len(disk) + 1
    BY <2>2, <1>2, <1>4 DEF NewFragment
  <2> QED BY <2>1, <2>2, <1>2, <1>4
<1>6. b + inflight.lsn \in Nat
  BY <1>4
<1> QED BY <1>2, <1>5, <1>6

\* Completing the last fragment keeps them too.
LEMMA DiskComplete ==
    ASSUME TypeInv, disk # <<>>, disk' = [disk EXCEPT ![Len(disk)].part = "full"]
    PROVE  /\ disk' \in Seq(Fragment) /\ Len(disk') = Len(disk)
           /\ \A i \in 1..Len(disk) :
                 disk'[i] = IF i = Len(disk) THEN [disk[i] EXCEPT !.part = "full"] ELSE disk[i]
<1>1. disk \in Seq(Fragment) /\ Len(disk) \in 1..Len(disk)
  BY EmptySeq, LenProperties DEF TypeInv, TypeOK
<1>2. disk[Len(disk)] \in Fragment
  BY <1>1, ElementOfSeq
<1>3. [disk[Len(disk)] EXCEPT !.part = "full"] \in Fragment
  BY <1>2 DEF Fragment
<1> QED BY <1>1, <1>3, ExceptSeq

\* The rest of TypeInv stays when the files do not change.
LEMMA TypeInvFrame ==
    ASSUME TypeInv, TypeOK', UNCHANGED <<log_files, stable>>, tpc' # "payload" \/ UNCHANGED tpc
    PROVE  TypeInv'
BY DEF TypeInv, HasLast, stable

\* Every step keeps TypeInv, one step of the proof per action.
LEMMA TypeStep ==
    ASSUME TypeInv, [Next]_vars PROVE TypeInv'
<1> USE ConstantsAssumption
<1>1. ASSUME NEW a \in Appenders, Appender(a) PROVE TypeInv'
  <2>1. CASE Push(a)
    <3>1. PICK s \in PayloadSizes : entries' = Append(entries, [lsn |-> current_lsn + 1, size |-> s])
      BY <2>1 DEF Push
    <3>2. [lsn |-> current_lsn + 1, size |-> s] \in Entry
      BY DEF TypeInv, TypeOK, Entry
    <3>3. entries' \in Seq(Entry)
      BY <3>1, <3>2, AppendProperties DEF TypeInv, TypeOK
    <3>4. TypeOK'
      BY <2>1, <3>3 DEF Push, TypeInv, TypeOK, thread, stable, counts
    <3> QED BY <2>1, <3>4, TypeInvFrame DEF Push, thread
  <2>2. CASE BeginAppend(a) \/ LeaveSpin(a) \/ Return(a) \/ BeginWait(a) \/ LeaveWait(a)
    <3>1. PICK p \in {"idle", "spin", "push", "wait", "check"} : apc' = [apc EXCEPT ![a] = p]
      BY <2>2 DEF BeginAppend, LeaveSpin, Return, BeginWait, LeaveWait
    <3>2. UNCHANGED <<phase, running, promised, buffer, thread, alsn, acked, stable, counts>>
      BY <2>2 DEF BeginAppend, LeaveSpin, Return, BeginWait, LeaveWait
    <3>3. TypeOK'
      BY <3>1, <3>2 DEF TypeInv, TypeOK, buffer, thread, stable, counts
    <3> QED BY <3>2, <3>3, TypeInvFrame DEF thread
  <2>3. CASE EndWait(a)
    <3>1. TypeOK'
      BY <2>3 DEF EndWait, TypeInv, TypeOK, buffer, thread, stable, counts
    <3> QED BY <2>3, <3>1, TypeInvFrame DEF EndWait, thread, stable
  <2> QED BY <1>1, <2>1, <2>2, <2>3 DEF Appender
<1>2. ASSUME LogThread PROVE TypeInv'
  <2>1. CASE ThreadLoop \/ ThreadExit \/ FlushDone
    <3>1. /\ rc' \in {"SUCCESS", "LOG_FILE_FULL", "FILE_OPEN", "IOERR_WRITE", "INVALID_ARGUMENT"}
          /\ tpc' \in {"loop", "open", "flush", "exited"}
          /\ UNCHANGED <<phase, running, promised, buffer, writer, log_files, client, stable, counts>>
      BY <2>1 DEF ThreadLoop, ThreadExit, FlushDone, TypeInv, TypeOK
    <3>2. TypeOK'
      BY <3>1 DEF TypeInv, TypeOK, buffer, client, stable, counts
    <3> QED BY <3>1, <3>2, TypeInvFrame DEF stable
  <2>2. CASE OpenFile \/ OpenFileFails
    <3>1. FileToOpen \in Nat
      BY FileToOpenType
    <3>2. FileToOpen + MaxEntries - 1 \in Nat
      BY <3>1
    <3>3. log_files' = log_files \cup {FileToOpen} /\ writer' \in Writer
      <4>1. PICK ok \in BOOLEAN : OpenWriter(ok)
        BY <2>2 DEF OpenFile, OpenFileFails
      <4>2. writer.last \in Nat
        BY DEF TypeInv, TypeOK, Writer
      <4> QED BY <3>1, <3>2, <4>1, <4>2 DEF OpenWriter, Writer
    <3>4. log_files' \subseteq Nat /\ HasLast(log_files')
      BY <3>1, <3>3, AddKeepsLast DEF TypeInv, TypeOK
    <3>5. disk_files' \subseteq Nat /\ (disk_files' = {} \/ HasLast(disk_files'))
      <4>1. CASE OpenFile
        <5>1. disk_files' = disk_files \cup {FileToOpen}
          BY <4>1 DEF OpenFile
        <5> QED BY <5>1, <3>1, AddKeepsLast DEF TypeInv, TypeOK
      <4>2. CASE OpenFileFails
        BY <4>2 DEF OpenFileFails, stable, TypeInv, TypeOK
      <4> QED BY <2>2, <4>1, <4>2
    <3>6. TypeOK'
      <4>1. CASE OpenFile
        BY <4>1, <3>3, <3>4, <3>5 DEF OpenFile, TypeInv, TypeOK, buffer, client, counts
      <4>2. CASE OpenFileFails
        BY <4>2, <3>3, <3>4, <3>5 DEF OpenFileFails, TypeInv, TypeOK, buffer, client, stable
      <4> QED BY <2>2, <4>1, <4>2
    <3>7. disk' = disk /\ tpc' # "payload"
      BY <2>2 DEF OpenFile, OpenFileFails, stable
    <3> QED BY <3>4, <3>5, <3>6, <3>7 DEF TypeInv, HasLast
  <2>3. CASE PopEntry
    <3>1. Head(entries) \in Entry /\ Tail(entries) \in Seq(Entry)
      BY <2>3, HeadTailProperties DEF PopEntry, TypeInv, TypeOK
    <3>2. Head(entries).size \in Nat
      BY <3>1 DEF Entry
    <3>3. TypeOK'
      BY SMTT(20), <2>3, <3>1, <3>2 DEF PopEntry, TypeInv, TypeOK, client, stable, counts
    <3> QED BY <2>3, <3>3, TypeInvFrame DEF PopEntry
  <2>4. ASSUME NEW r \in {"LOG_FILE_FULL", "IOERR_WRITE", "INVALID_ARGUMENT"}, Requeue(r)
        PROVE  /\ entries' \in Seq(Entry) /\ inflight' \in Entry /\ tpc' = "loop"
               /\ rc' \in {"LOG_FILE_FULL", "IOERR_WRITE", "INVALID_ARGUMENT"}
    <3>1. <<inflight>> \in Seq(Entry)
      BY DEF TypeInv, TypeOK
    <3>2. <<inflight>> \o entries \in Seq(Entry)
      BY <3>1, ConcatProperties DEF TypeInv, TypeOK
    <3>3. NoEntry \in Entry
      BY DEF NoEntry, Entry
    <3> QED BY <2>4, <3>2, <3>3 DEF Requeue
  <2>5. CASE WriteRefused
    <3>1. PICK r \in {"LOG_FILE_FULL", "INVALID_ARGUMENT"} : Requeue(r)
      BY <2>5 DEF WriteRefused
    <3> QED BY <2>5, <2>4, <3>1 DEF WriteRefused, TypeInv, TypeOK, client, stable, counts
  <2>6. CASE WriteHeader
    <3>1. /\ disk' \in Seq(Fragment) /\ disk' # <<>>
          /\ \E b \in Nat : \A i \in 1..Len(disk') : disk'[i].lsn <= b
      BY <2>6, DiskAppend DEF WriteHeader
    <3> QED BY <2>6, <3>1 DEF WriteHeader, TypeInv, TypeOK, buffer, client, counts
  <2>7. CASE WriteHeaderFails
    <3>1. /\ disk' \in Seq(Fragment)
          /\ \E b \in Nat : \A i \in 1..Len(disk') : disk'[i].lsn <= b
      <4>1. CASE UNCHANGED disk
        BY <4>1 DEF TypeInv, TypeOK
      <4>2. CASE disk' = Append(disk, NewFragment("torn"))
        BY <4>2, DiskAppend
      <4> QED BY <2>7, <4>1, <4>2 DEF WriteHeaderFails
    <3>2. Requeue("IOERR_WRITE")
      BY <2>7 DEF WriteHeaderFails
    <3>3. TypeOK' /\ tpc' = "loop"
      BY <2>7, <2>4, <3>1, <3>2 DEF WriteHeaderFails, TypeInv, TypeOK, client, counts
    <3> QED BY <2>7, <3>1, <3>3 DEF WriteHeaderFails, TypeInv, HasLast
  <2>8. CASE WritePayload
    <3>1. /\ disk' \in Seq(Fragment) /\ Len(disk') = Len(disk)
          /\ \A i \in 1..Len(disk) :
                disk'[i] = IF i = Len(disk) THEN [disk[i] EXCEPT !.part = "full"] ELSE disk[i]
      BY <2>8, DiskComplete DEF WritePayload, TypeInv
    <3>2. \A i \in 1..Len(disk) : disk[i] \in Fragment
      BY ElementOfSeq DEF TypeInv, TypeOK
    <3>3. \A i \in 1..Len(disk) : disk'[i].lsn = disk[i].lsn
      BY <3>1, <3>2 DEF Fragment
    <3>4. \E b \in Nat : \A i \in 1..Len(disk') : disk'[i].lsn <= b
      BY <3>1, <3>3 DEF TypeInv
    <3>5. writer' \in Writer
      BY <2>8 DEF WritePayload, TypeInv, TypeOK, Writer, Entry
    <3> QED BY <2>8, <3>1, <3>4, <3>5 DEF WritePayload, TypeInv, TypeOK, buffer, client, counts
  <2>9. CASE WritePayloadFails
    <3>1. Requeue("IOERR_WRITE")
      BY <2>9 DEF WritePayloadFails
    <3>2. TypeOK' /\ tpc' = "loop"
      BY <2>9, <2>4, <3>1 DEF WritePayloadFails, TypeInv, TypeOK, client, stable, counts
    <3> QED BY <2>9, <3>2, TypeInvFrame DEF WritePayloadFails
  <2>10. CASE Publish
    BY <2>10 DEF Publish, TypeInv, TypeOK, NoEntry, Entry, client, stable, counts
  <2> QED BY <1>2, <2>1, <2>2, <2>3, <2>5, <2>6, <2>7, <2>8, <2>9, <2>10 DEF LogThread
<1>3. ASSUME LoseMemory, acked' = acked, faults' = faults, crashes' \in Nat,
             disk_files' = disk_files, disk' \in Seq(Fragment),
             \E b \in Nat : \A i \in 1..Len(disk') : disk'[i].lsn <= b
      PROVE  TypeInv'
  <2>1. NewWriter \in Writer /\ NoEntry \in Entry
    BY DEF NewWriter, Writer, NoEntry, Entry
  <2>2. <<>> \in Seq(Entry)
    OBVIOUS
  <2>3. TypeOK'
    <3>1. /\ apc' \in [Appenders -> {"idle", "spin", "push", "appended", "wait", "check"}]
          /\ alsn' \in [Appenders -> Nat]
      BY <1>3 DEF LoseMemory
    <3>2. writer' \in Writer /\ entries' \in Seq(Entry) /\ inflight' \in Entry
      BY <1>3, <2>1, <2>2 DEF LoseMemory
    <3>3. /\ phase' \in {"down", "refused", "garbage", "up"} /\ running' \in BOOLEAN
          /\ tpc' \in {"none", "loop", "open", "flush", "header", "payload", "publish", "exited"}
          /\ rc' \in {"SUCCESS", "LOG_FILE_FULL", "FILE_OPEN", "IOERR_WRITE", "INVALID_ARGUMENT"}
          /\ log_files' \subseteq Nat
      BY <1>3 DEF LoseMemory
    <3>4. bytes' \in Int /\ current_lsn' \in Nat /\ flushed_lsn' \in Nat /\ promised' \in Nat
      BY <1>3 DEF LoseMemory
    <3> QED BY <1>3, <3>1, <3>2, <3>3, <3>4 DEF TypeInv, TypeOK
  <2> QED BY <1>3, <2>3 DEF LoseMemory, TypeInv, HasLast
<1>4. ASSUME Owner PROVE TypeInv'
  <2>1. CASE Recover
    <3>1. ReplayedLsn \in Nat
      BY ReplayedLsnProperty
    <3> QED BY <2>1, <3>1 DEF Recover, TypeInv, TypeOK, client, stable, counts
  <2>2. CASE RecoverFails \/ RecoverGarbage
    <3>1. /\ phase' \in {"down", "refused", "garbage", "up"}
          /\ UNCHANGED <<running, promised, buffer, thread, client, stable, counts>>
      BY <2>2 DEF RecoverFails, RecoverGarbage
    <3>2. TypeOK'
      BY <3>1 DEF TypeInv, TypeOK, buffer, thread, client, stable, counts
    <3> QED BY <3>1, <3>2, TypeInvFrame DEF thread, stable
  <2>3. CASE Stop
    BY <2>3 DEF Stop, TypeInv, TypeOK, buffer, thread, client, stable, counts
  <2>4. CASE AwaitTermination
    BY <2>4, <1>3 DEF AwaitTermination, TypeInv, TypeOK, stable, counts
  <2> QED BY <1>4, <2>1, <2>2, <2>3, <2>4 DEF Owner
<1>5. ASSUME Crash PROVE TypeInv'
  <2>1. /\ disk' \in Seq(Fragment)
        /\ \E b \in Nat : \A i \in 1..Len(disk') : disk'[i].lsn <= b
    <3>1. CASE UNCHANGED disk
      BY <3>1 DEF TypeInv, TypeOK
    <3>2. CASE disk' = Append(disk, NewFragment("torn"))
      BY <3>2, DiskAppend
    <3> QED BY <1>5, <3>1, <3>2 DEF Crash
  <2>2. crashes' \in Nat
    BY <1>5 DEF Crash, TypeInv, TypeOK
  <2> QED BY <1>5, <1>3, <2>1, <2>2 DEF Crash
<1>6. ASSUME UNCHANGED vars PROVE TypeInv'
  <2>1. TypeOK' = TypeOK
    BY <1>6, Zenon DEF vars, buffer, thread, client, stable, counts, TypeOK
  <2>2. log_files' = log_files /\ disk_files' = disk_files /\ disk' = disk /\ tpc' = tpc
    BY <1>6, Zenon DEF vars, thread, stable
  <2> QED BY <2>1, <2>2, Zenon DEF TypeInv, HasLast
<1> QED BY <1>1, <1>2, <1>4, <1>5, <1>6 DEF Next

\* The initial state has the right types.
LEMMA TypeInvInit ==
    ASSUME Init PROVE TypeInv
<1>1. NewWriter \in Writer /\ NoEntry \in Entry
  BY DEF NewWriter, Writer, NoEntry, Entry
<1>2. <<>> \in Seq(Entry) /\ <<>> \in Seq(Fragment) /\ Len(<<>>) = 0
  OBVIOUS
<1>3. TypeOK
  <2>1. /\ apc \in [Appenders -> {"idle", "spin", "push", "appended", "wait", "check"}]
        /\ alsn \in [Appenders -> Nat]
    BY DEF Init
  <2>2. writer \in Writer /\ entries \in Seq(Entry) /\ inflight \in Entry /\ disk \in Seq(Fragment)
    BY <1>1, <1>2 DEF Init
  <2>3. /\ phase \in {"down", "refused", "garbage", "up"} /\ running \in BOOLEAN
        /\ tpc \in {"none", "loop", "open", "flush", "header", "payload", "publish", "exited"}
        /\ rc \in {"SUCCESS", "LOG_FILE_FULL", "FILE_OPEN", "IOERR_WRITE", "INVALID_ARGUMENT"}
        /\ log_files \subseteq Nat /\ disk_files \subseteq Nat
    BY DEF Init
  <2>4. /\ bytes \in Int /\ current_lsn \in Nat /\ flushed_lsn \in Nat
        /\ acked \subseteq Nat /\ promised \in Nat /\ faults \in Nat /\ crashes \in Nat
    BY DEF Init
  <2> QED BY <2>1, <2>2, <2>3, <2>4 DEF TypeOK
<1>4. \E b \in Nat : \A i \in 1..Len(disk) : disk[i].lsn <= b
  BY <1>2 DEF Init
<1> QED BY <1>3, <1>4 DEF Init, TypeInv

\* Every variable keeps its type in every behaviour, whatever faults the disk has.
THEOREM TypeCorrect == Spec => []TypeOK
<1>1. Init => TypeInv
  BY TypeInvInit
<1>2. TypeInv /\ [Next]_vars => TypeInv'
  BY TypeStep
<1>3. TypeInv => TypeOK
  BY DEF TypeInv
<1> QED BY <1>1, <1>2, <1>3, PTL DEF Spec

-----------------------------------------------------------------------------
(***************************************************************************)
(* Safety on a disk that does not leave parts of entries behind when it    *)
(* reports an error.  The process may still be killed anywhere, between    *)
(* the two writes of an entry too, files may fail to open and writes may   *)
(* fail cleanly.                                                           *)
(***************************************************************************)
NoTornWrites == Faults \cap {"tear", "payload"} = {}

\* The number of complete entries in the files: all fragments but, perhaps, the
\* last one.
Complete == IF disk # <<>> /\ disk[Len(disk)].part # "full" THEN Len(disk) - 1 ELSE Len(disk)

\* 1 while an entry is out of the buffer and not completely written.
Taken == IF tpc \in {"header", "payload"} THEN 1 ELSE 0

\* The i-th fragment is the entry with LSN i, in a file whose range reaches i; only
\* the last fragment can be incomplete.
DiskInv ==
    \A i \in 1..Len(disk) :
       /\ disk[i].lsn = i
       /\ disk[i].part # "torn"
       /\ i < Len(disk) => disk[i].part = "full"
       /\ disk[i].file \in disk_files
       /\ disk[i].file + MaxEntries - 1 >= i

\* What the log thread holds fits what is in the files.
ThreadInv ==
    /\ phase # "garbage"
    /\ phase = "up" <=> tpc # "none"
    /\ phase = "up" => (tpc = "payload" <=> Complete # Len(disk))
    /\ tpc \in {"header", "payload"} => inflight.lsn = Complete + 1
    /\ tpc = "publish" => inflight.lsn = Complete
    /\ tpc \in {"flush", "header", "payload", "publish"} => writer.valid
    /\ writer.valid => /\ writer.first \in disk_files
                       /\ writer.end = writer.first + MaxEntries - 1
    /\ writer.last <= Complete
    /\ rc # "INVALID_ARGUMENT"
    /\ tpc = "exited" => ~running

\* The buffer continues the files: LSNs follow one another without a gap, and
\* flushed_lsn_ is the last complete entry, or the one before it for a moment.
BufferInv ==
    IF phase = "up"
    THEN /\ current_lsn = Complete + Taken + Len(entries)
         /\ \A j \in 1..Len(entries) : entries[j].lsn = Complete + Taken + j
         /\ flushed_lsn = IF tpc = "publish" THEN Complete - 1 ELSE Complete
    ELSE entries = <<>>

\* Only complete entries are acknowledged; once stop has found no append in
\* progress no further entry comes.
ClientInv ==
    /\ \A n \in acked : 1 <= n /\ n <= Complete
    /\ \A a \in Appenders : apc[a] \in {"appended", "wait", "check"} => alsn[a] >= 1
    /\ promised # 0 => /\ phase = "up" /\ ~running /\ current_lsn = promised
                       /\ \A a \in Appenders : apc[a] \notin {"spin", "push"}
    /\ tpc = "exited" /\ promised # 0 => entries = <<>>

\* The inductive invariant.
CLogInv == TypeInv /\ DiskInv /\ ThreadInv /\ BufferInv /\ ClientInv

\* Facts about the numbers the invariant is made of.
LEMMA CompleteFacts ==
    ASSUME TypeInv
    PROVE  /\ Complete \in Nat /\ Len(disk) \in Nat /\ Len(entries) \in Nat /\ Taken \in {0, 1}
           /\ Complete <= Len(disk) /\ Len(disk) <= Complete + 1
           /\ inflight.lsn \in Nat /\ writer.last \in Nat /\ writer.end \in Nat /\ writer.first \in Nat
           /\ \A i \in 1..Len(disk) : disk[i] \in Fragment
           /\ \A i \in 1..Len(entries) : entries[i] \in Entry
           /\ current_lsn \in Nat /\ flushed_lsn \in Nat
<1>1. Len(disk) \in Nat /\ Len(entries) \in Nat /\ (disk # <<>> => Len(disk) >= 1)
  BY EmptySeq, LenProperties DEF TypeInv, TypeOK
<1>2. \A i \in 1..Len(disk) : disk[i] \in Fragment
  BY ElementOfSeq DEF TypeInv, TypeOK
<1>3. \A i \in 1..Len(entries) : entries[i] \in Entry
  BY ElementOfSeq DEF TypeInv, TypeOK
<1>4. inflight.lsn \in Nat /\ writer.last \in Nat /\ writer.end \in Nat /\ writer.first \in Nat
  BY DEF TypeInv, TypeOK, Entry, Writer
<1>5. Complete \in Nat /\ Complete <= Len(disk) /\ Len(disk) <= Complete + 1
  BY <1>1 DEF Complete
<1>6. Taken \in {0, 1}
  BY DEF Taken
<1> QED BY <1>1, <1>2, <1>3, <1>4, <1>5, <1>6 DEF TypeInv, TypeOK

\* Every fragment before Complete is a whole entry, in all reachable states.
LEMMA CompleteAreFull ==
    ASSUME TypeInv, DiskInv
    PROVE  \A i \in 1..Complete : i \in 1..Len(disk) /\ disk[i].part = "full" /\ disk[i].lsn = i
<1> SUFFICES ASSUME NEW i \in 1..Complete
             PROVE  i \in 1..Len(disk) /\ disk[i].part = "full" /\ disk[i].lsn = i
  OBVIOUS
<1>1. i \in 1..Len(disk)
  BY CompleteFacts
<1>2. CASE i < Len(disk)
  BY <1>1, <1>2 DEF DiskInv
<1>3. CASE i = Len(disk)
  <2>1. disk # <<>> /\ Complete = Len(disk)
    BY <1>1, <1>3, CompleteFacts
  <2>2. disk[Len(disk)].part = "full"
    BY <2>1, CompleteFacts DEF Complete
  <2> QED BY <1>1, <1>3, <2>2 DEF DiskInv
<1> QED BY <1>1, <1>2, <1>3, CompleteFacts

\* A fragment of the last entry that is not whole: the log cannot be read.
LEMMA ReadableIsComplete ==
    ASSUME TypeInv, DiskInv, LogReadable PROVE Complete = Len(disk)
<1>1. CASE disk = <<>>
  BY <1>1 DEF Complete
<1>2. CASE disk # <<>>
  <2>1. Len(disk) \in 1..Len(disk)
    BY <1>2, EmptySeq, LenProperties DEF TypeInv, TypeOK
  <2>2. disk[Len(disk)].part = "full"
    BY <2>1 DEF LogReadable, Reads, SilentEnd, DiskInv
  <2> QED BY <1>2, <2>2 DEF Complete
<1> QED BY <1>1, <1>2

\* What a restart reads back: exactly the complete entries.
LEMMA RecoverableIsComplete ==
    ASSUME TypeInv, DiskInv PROVE RecoverableLsns = 1..Complete
<1>1. ASSUME NEW n \in 1..Complete PROVE n \in RecoverableLsns
  <2>1. \A j \in 1..n : j \in 1..Complete
    BY CompleteFacts
  <2>2. n \in Delivered
    BY <2>1, CompleteAreFull DEF Delivered, Reads
  <2> QED BY <2>2, CompleteAreFull DEF RecoverableLsns
<1>2. ASSUME NEW n \in RecoverableLsns PROVE n \in 1..Complete
  <2>1. PICK i \in Delivered : n = disk[i].lsn
    BY DEF RecoverableLsns
  <2>2. i \in 1..Len(disk) /\ disk[i].part = "full" /\ n = i
    BY <2>1 DEF Delivered, DiskInv
  <2>3. CASE i = Len(disk)
    BY <2>2, <2>3, CompleteFacts DEF Complete
  <2>4. CASE i < Len(disk)
    BY <2>2, <2>4, CompleteFacts
  <2> QED BY <2>2, <2>3, <2>4, CompleteFacts
<1> QED BY <1>1, <1>2

\* replay sets the LSNs to the number of complete entries.
LEMMA ReplayedIsComplete ==
    ASSUME TypeInv, DiskInv PROVE ReplayedLsn = Complete
<1>1. RecoverableLsns = 1..Complete /\ Complete \in Nat
  BY RecoverableIsComplete, CompleteFacts
<1>2. /\ ReplayedLsn \in (1..Complete) \cup {0} /\ ReplayedLsn \in Nat
      /\ \A n \in 1..Complete : n <= ReplayedLsn
  BY <1>1, ReplayedLsnProperty
<1>3. CASE Complete = 0
  BY <1>2, <1>3
<1>4. CASE Complete # 0
  BY <1>1, <1>2, <1>4
<1> QED BY <1>3, <1>4

\* The steps of an appender keep the invariant.
LEMMA AppenderStep ==
    ASSUME CLogInv, TypeInv', NEW a \in Appenders, Appender(a)
    PROVE  DiskInv' /\ ThreadInv' /\ BufferInv' /\ ClientInv'
<1> USE DEF CLogInv
<1>1. UNCHANGED <<disk, disk_files, phase, running, promised, tpc, rc, writer, inflight, flushed_lsn>>
  BY DEF Appender, BeginAppend, LeaveSpin, Push, Return, BeginWait, LeaveWait, EndWait,
         buffer, thread, stable
<1>2. Complete' = Complete /\ Taken' = Taken
  BY <1>1 DEF Complete, Taken
<1>3. DiskInv' /\ ThreadInv'
  BY <1>1, <1>2 DEF DiskInv, ThreadInv
<1>4. CASE Push(a)
  <2>1. PICK s \in PayloadSizes : entries' = Append(entries, [lsn |-> current_lsn + 1, size |-> s])
    BY <1>4 DEF Push
  <2>2. /\ Len(entries') = Len(entries) + 1
        /\ \A j \in 1..Len(entries) : entries'[j] = entries[j]
        /\ entries'[Len(entries) + 1].lsn = current_lsn + 1
    <3>2. [lsn |-> current_lsn + 1, size |-> s] \in Entry
      BY ConstantsAssumption DEF TypeInv, TypeOK, Entry
    <3> QED BY <2>1, <3>2, AppendProperties DEF TypeInv, TypeOK
  <2>3. phase = "up" /\ current_lsn' = current_lsn + 1 /\ acked' = acked
    BY <1>4 DEF Push
  <2>4. BufferInv'
    <3>1. \A j \in 1..Len(entries') : entries'[j].lsn = Complete + Taken + j
      <4> SUFFICES ASSUME NEW j \in 1..Len(entries') PROVE entries'[j].lsn = Complete + Taken + j
        OBVIOUS
      <4>1. current_lsn = Complete + Taken + Len(entries)
        BY <2>3 DEF BufferInv
      <4>2. CASE j \in 1..Len(entries)
        BY <2>2, <2>3, <4>2 DEF BufferInv
      <4>3. CASE j = Len(entries) + 1
        <5>1. entries'[j].lsn = current_lsn + 1
          BY <2>2, <4>3
        <5>2. current_lsn + 1 = Complete + Taken + j
          <6>1. Complete \in Nat /\ Taken \in Nat /\ Len(entries) \in Nat
            BY CompleteFacts
          <6> QED BY <4>1, <4>3, <6>1
        <5> QED BY <5>1, <5>2
      <4> QED BY <2>2, <4>2, <4>3, CompleteFacts
    <3> QED BY <1>1, <1>2, <2>2, <2>3, <3>1, CompleteFacts DEF BufferInv
  <2>5. promised = 0
    BY <1>4 DEF ClientInv, Push
  <2>6. \A b \in Appenders : apc'[b] \in {"appended", "wait", "check"} => alsn'[b] >= 1
    <3> SUFFICES ASSUME NEW b \in Appenders, apc'[b] \in {"appended", "wait", "check"}
                 PROVE  alsn'[b] >= 1
      OBVIOUS
    <3>1. CASE b = a
      BY <3>1, <1>4, CompleteFacts DEF Push, TypeInv, TypeOK
    <3>2. CASE b # a
      <4>1. apc'[b] = apc[b] /\ alsn'[b] = alsn[b]
        BY <3>2, <1>4 DEF Push, TypeInv, TypeOK
      <4> QED BY <4>1 DEF ClientInv
    <3> QED BY <3>1, <3>2
  <2> QED BY <1>1, <1>2, <1>3, <2>3, <2>4, <2>5, <2>6 DEF ClientInv
<1>5. CASE BeginAppend(a) \/ LeaveSpin(a) \/ Return(a) \/ BeginWait(a) \/ LeaveWait(a)
  <2>1. UNCHANGED <<entries, current_lsn, alsn, acked>>
    BY <1>5 DEF BeginAppend, LeaveSpin, Return, BeginWait, LeaveWait, buffer
  <2>2. BufferInv'
    BY <1>1, <1>2, <2>1 DEF BufferInv
  <2>3. \A b \in Appenders : apc'[b] \in {"appended", "wait", "check"} => apc[b] \in {"appended", "wait", "check"}
    BY <1>5 DEF BeginAppend, LeaveSpin, Return, BeginWait, LeaveWait, TypeInv, TypeOK
  <2>4. promised # 0 => \A b \in Appenders : apc'[b] \notin {"spin", "push"}
    BY <1>5 DEF BeginAppend, LeaveSpin, Return, BeginWait, LeaveWait, ClientInv, TypeInv, TypeOK
  <2> QED BY <1>1, <1>2, <1>3, <2>1, <2>2, <2>3, <2>4 DEF ClientInv
<1>6. CASE EndWait(a)
  <2>1. UNCHANGED <<entries, current_lsn, alsn>> /\ phase = "up" /\ apc[a] = "check"
    BY <1>6 DEF EndWait, buffer
  <2>2. BufferInv'
    BY <1>1, <1>2, <2>1 DEF BufferInv
  <2>3. \A b \in Appenders : apc'[b] \in {"appended", "wait", "check"} => apc[b] \in {"appended", "wait", "check"}
    BY <1>6 DEF EndWait, TypeInv, TypeOK
  <2>4. promised # 0 => \A b \in Appenders : apc'[b] \notin {"spin", "push"}
    BY <1>6 DEF EndWait, ClientInv, TypeInv, TypeOK
  <2>5. flushed_lsn <= Complete /\ alsn[a] >= 1 /\ alsn[a] \in Nat
    <3>1. alsn[a] \in Nat
      BY DEF TypeInv, TypeOK
    <3>2. alsn[a] >= 1
      BY <2>1 DEF ClientInv
    <3>3. flushed_lsn <= Complete
      BY <2>1, CompleteFacts DEF BufferInv
    <3> QED BY <3>1, <3>2, <3>3
  <2>6. \A n \in acked' : 1 <= n /\ n <= Complete
    <3>1. acked' = acked \/ (acked' = acked \cup {alsn[a]} /\ alsn[a] <= flushed_lsn)
      BY <1>6, <2>5, CompleteFacts DEF EndWait
    <3> QED BY <2>5, <3>1, CompleteFacts DEF ClientInv
  <2> QED BY <1>1, <1>2, <1>3, <2>1, <2>2, <2>3, <2>4, <2>6 DEF ClientInv
<1> QED BY <1>4, <1>5, <1>6 DEF Appender

\* Completing, or starting, the last fragment.
LEMMA WriteHeaderDisk ==
    ASSUME CLogInv, WriteHeader
    PROVE  DiskInv' /\ Complete' = Complete /\ Len(disk') = Complete + 1
<1> USE DEF CLogInv
<1>1. Complete = Len(disk) /\ inflight.lsn = Complete + 1 /\ writer.valid
  BY DEF WriteHeader, ThreadInv
<1>2. NewFragment("header") \in Fragment
  BY DEF TypeInv, TypeOK, NewFragment, Fragment, Entry, Writer
<1>3. /\ Len(disk') = Len(disk) + 1 /\ disk' \in Seq(Fragment)
      /\ \A i \in 1..Len(disk) : disk'[i] = disk[i]
      /\ disk'[Len(disk) + 1] = NewFragment("header")
  BY <1>2, AppendProperties DEF WriteHeader, TypeInv, TypeOK
<1>4. disk_files' = disk_files
  BY DEF WriteHeader
<1>5. writer.first + MaxEntries - 1 >= inflight.lsn /\ writer.first \in disk_files
  BY <1>1, CompleteFacts DEF WriteHeader, Writable, ThreadInv
<1>6. DiskInv'
  <2> SUFFICES ASSUME NEW i \in 1..Len(disk')
               PROVE  /\ disk'[i].lsn = i /\ disk'[i].part # "torn"
                      /\ i < Len(disk') => disk'[i].part = "full"
                      /\ disk'[i].file \in disk_files'
                      /\ disk'[i].file + MaxEntries - 1 >= i
    BY DEF DiskInv
  <2>1. CASE i \in 1..Len(disk)
    BY <2>1, <1>1, <1>3, <1>4, CompleteAreFull DEF DiskInv
  <2>2. CASE i = Len(disk) + 1
    BY <2>2, <1>1, <1>3, <1>4, <1>5, CompleteFacts DEF NewFragment
  <2> QED BY <2>1, <2>2, <1>3, CompleteFacts
<1>7. Complete' = Complete
  <2>1. disk'[Len(disk')].part = "header"
    BY <1>3 DEF NewFragment
  <2>2. disk' # <<>>
    BY <1>3, CompleteFacts
  <2> QED BY <1>1, <1>3, <2>1, <2>2, CompleteFacts DEF Complete
<1> QED BY <1>1, <1>3, <1>6, <1>7

LEMMA WritePayloadDisk ==
    ASSUME CLogInv, WritePayload
    PROVE  DiskInv' /\ Complete' = Complete + 1 /\ Len(disk') = Complete + 1
<1> USE DEF CLogInv
<1>1. disk # <<>> /\ Complete # Len(disk)
  BY DEF WritePayload, ThreadInv, TypeInv
<1>2. /\ disk' \in Seq(Fragment) /\ Len(disk') = Len(disk)
      /\ \A i \in 1..Len(disk) :
            disk'[i] = IF i = Len(disk) THEN [disk[i] EXCEPT !.part = "full"] ELSE disk[i]
  BY <1>1, DiskComplete DEF WritePayload
<1>3. Len(disk) = Complete + 1
  BY <1>1, CompleteFacts
<1>4. \A i \in 1..Len(disk) : /\ disk'[i].lsn = disk[i].lsn /\ disk'[i].file = disk[i].file
                              /\ i = Len(disk) => disk'[i].part = "full"
                              /\ i # Len(disk) => disk'[i].part = disk[i].part
  BY <1>2, CompleteFacts DEF Fragment
<1>5. disk_files' = disk_files
  BY DEF WritePayload
<1>6. DiskInv'
  BY <1>2, <1>4, <1>5, CompleteFacts DEF DiskInv
<1>7. disk'[Len(disk')].part = "full"
  BY <1>2, <1>3, <1>4, CompleteFacts
<1>8. Complete' = Len(disk')
  BY <1>7 DEF Complete
<1> QED BY <1>2, <1>3, <1>6, <1>8

\* The steps of the log thread keep the invariant.
LEMMA LogThreadStep ==
    ASSUME CLogInv, TypeInv', NoTornWrites, LogThread
    PROVE  DiskInv' /\ ThreadInv' /\ BufferInv' /\ ClientInv'
<1> USE DEF CLogInv
<1>1. tpc # "none" /\ phase = "up" /\ UNCHANGED <<phase, running, promised, current_lsn, client>>
  <2>1. tpc # "none" /\ UNCHANGED <<phase, running, promised, current_lsn, client>>
    BY DEF LogThread, ThreadLoop, ThreadExit, OpenFile, OpenFileFails, PopEntry, FlushDone,
           WriteRefused, WriteHeader, WriteHeaderFails, WritePayload, WritePayloadFails, Publish, buffer
  <2> QED BY <2>1 DEF ThreadInv
<1>2. UNCHANGED <<apc, alsn, acked>>
  BY <1>1 DEF client
\* The clients see no difference as long as no complete entry is lost.
<1>3. ASSUME Complete' >= Complete, tpc' # "exited" PROVE ClientInv'
  <2>1. Len(disk') \in Nat /\ (disk' # <<>> => Len(disk') >= 1)
    BY EmptySeq, LenProperties DEF TypeInv, TypeOK
  <2>2. Complete' \in Nat
    BY <2>1 DEF Complete
  <2>3. \A n \in acked' : 1 <= n /\ n <= Complete'
    <3> SUFFICES ASSUME NEW n \in acked PROVE 1 <= n /\ n <= Complete'
      BY <1>2
    <3>1. n \in Nat /\ 1 <= n /\ n <= Complete
      BY DEF ClientInv, TypeInv, TypeOK
    <3> QED BY <1>3, <2>2, <3>1, CompleteFacts
  <2> QED BY <1>1, <1>2, <1>3, <2>3 DEF ClientInv
<1>4. ASSUME UNCHANGED disk PROVE Complete' = Complete
  BY <1>4 DEF Complete
\* Taking an entry back into the buffer.
<1>5. ASSUME UNCHANGED <<disk, disk_files, flushed_lsn, writer>>, tpc \in {"header", "payload"},
             NEW r \in {"LOG_FILE_FULL", "IOERR_WRITE"}, Requeue(r), Complete = Len(disk)
      PROVE  DiskInv' /\ ThreadInv' /\ BufferInv' /\ ClientInv'
  <2>1. Complete' = Complete /\ Len(disk') = Len(disk)
    BY <1>4, <1>5
  <2>2. Taken = 1 /\ Taken' = 0 /\ tpc' = "loop" /\ rc' = r
    BY <1>5 DEF Taken, Requeue
  <2>3. DiskInv' /\ ThreadInv'
    BY <1>1, <1>5, <2>1, <2>2 DEF DiskInv, ThreadInv
  <2>4. /\ Len(entries') = Len(entries) + 1
        /\ entries'[1] = inflight
        /\ \A j \in 1..Len(entries) : entries'[j + 1] = entries[j]
    <3>1. <<inflight>> \in Seq(Entry) /\ Len(<<inflight>>) = 1 /\ <<inflight>>[1] = inflight
      BY DEF TypeInv, TypeOK
    <3>2. entries' = <<inflight>> \o entries /\ entries \in Seq(Entry)
      BY <1>5 DEF Requeue, TypeInv, TypeOK
    <3>3. /\ Len(entries') = 1 + Len(entries)
          /\ \A i \in 1..(1 + Len(entries)) :
                entries'[i] = IF i <= 1 THEN <<inflight>>[i] ELSE entries[i - 1]
      BY <3>1, <3>2, ConcatProperties
    <3>4. \A j \in 1..Len(entries) : entries'[j + 1] = entries[j]
      <4> SUFFICES ASSUME NEW j \in 1..Len(entries) PROVE entries'[j + 1] = entries[j]
        OBVIOUS
      <4>1. j + 1 \in 1..(1 + Len(entries)) /\ ~(j + 1 <= 1) /\ j + 1 - 1 = j
        BY CompleteFacts
      <4> QED BY <3>3, <4>1
    <3> QED BY <3>1, <3>3, <3>4, CompleteFacts
  <2>5. inflight.lsn = Complete + 1
    BY <1>5 DEF ThreadInv
  <2>6. \A j \in 1..Len(entries') : entries'[j].lsn = Complete + j
    <3> SUFFICES ASSUME NEW j \in 1..Len(entries') PROVE entries'[j].lsn = Complete + j
      OBVIOUS
    <3>1. CASE j = 1
      BY <3>1, <2>4, <2>5
    <3>2. CASE j # 1
      <4>1. j - 1 \in 1..Len(entries)
        BY <3>2, <2>4, CompleteFacts
      <4>2. entries'[j] = entries[j - 1]
        <5>1. entries'[(j - 1) + 1] = entries[j - 1]
          BY <4>1, <2>4
        <5> QED BY <5>1
      <4>3. entries[j - 1].lsn = Complete + Taken + (j - 1)
        BY <1>1, <4>1 DEF BufferInv
      <4> QED BY <4>2, <4>3, <2>2, CompleteFacts
    <3> QED BY <3>1, <3>2
  <2>7. BufferInv'
    BY <1>1, <1>5, <2>1, <2>2, <2>4, <2>6, CompleteFacts DEF BufferInv
  <2>8. ClientInv'
    BY <1>3, <2>1, <2>2, CompleteFacts
  <2> QED BY <2>3, <2>7, <2>8
<1>6. CASE ThreadLoop \/ FlushDone
  <2>1. /\ UNCHANGED <<disk, disk_files, writer, entries, inflight, flushed_lsn>>
        /\ tpc \in {"loop", "flush"} /\ tpc' \in {"loop", "open", "flush"}
        /\ rc' \in {rc, "SUCCESS"} /\ (tpc' = "flush" => writer.valid)
    BY <1>6 DEF ThreadLoop, FlushDone, buffer, stable
  <2>2. Complete' = Complete /\ Taken' = 0 /\ Taken = 0
    BY <1>4, <2>1 DEF Taken
  <2>3. DiskInv' /\ ThreadInv'
    BY <1>1, <2>1, <2>2 DEF DiskInv, ThreadInv
  <2>4. BufferInv'
    BY <1>1, <2>1, <2>2 DEF BufferInv
  <2> QED BY <1>3, <2>1, <2>2, <2>3, <2>4, CompleteFacts
<1>7. CASE ThreadExit
  <2>1. /\ UNCHANGED <<disk, disk_files, writer, entries, inflight, flushed_lsn, rc>>
        /\ tpc = "loop" /\ tpc' = "exited" /\ SeesNoEntries /\ ~running
    BY <1>7 DEF ThreadExit, buffer, stable
  <2>2. Complete' = Complete /\ Taken' = 0 /\ Taken = 0
    BY <1>4, <2>1 DEF Taken
  <2>3. DiskInv' /\ ThreadInv'
    BY <1>1, <2>1, <2>2 DEF DiskInv, ThreadInv
  <2>4. BufferInv'
    BY <1>1, <2>1, <2>2 DEF BufferInv
  <2>5. promised # 0 => entries = <<>>
    BY <2>1 DEF SeesNoEntries, TornRead, ClientInv
  <2> QED BY <1>1, <1>2, <2>1, <2>2, <2>3, <2>4, <2>5 DEF ClientInv
<1>8. CASE OpenFile \/ OpenFileFails
  <2>1. /\ UNCHANGED <<disk, entries, inflight, flushed_lsn>> /\ tpc = "open"
        /\ tpc' \in {"flush", "loop"} /\ rc' \in {"SUCCESS", "FILE_OPEN"}
        /\ disk_files \subseteq disk_files'
        /\ tpc' = "flush" => writer'.valid
    BY <1>8 DEF OpenFile, OpenFileFails, OpenWriter, buffer, stable
  <2>2. /\ writer'.last = writer.last
        /\ writer'.valid => /\ writer'.first \in disk_files'
                            /\ writer'.end = writer'.first + MaxEntries - 1
    BY <1>8 DEF OpenFile, OpenFileFails, OpenWriter
  <2>3. Complete' = Complete /\ Taken' = 0 /\ Taken = 0
    BY <1>4, <2>1 DEF Taken
  <2>4. DiskInv'
    BY <2>1 DEF DiskInv
  <2>5. ThreadInv'
    BY <1>1, <2>1, <2>2, <2>3 DEF ThreadInv
  <2>6. BufferInv'
    BY <1>1, <2>1, <2>3 DEF BufferInv
  <2> QED BY <1>3, <2>1, <2>3, <2>4, <2>5, <2>6, CompleteFacts
<1>9. CASE PopEntry
  <2>1. /\ UNCHANGED <<disk, disk_files, writer, flushed_lsn, rc>> /\ tpc = "flush" /\ tpc' = "header"
        /\ entries # <<>> /\ inflight' = Head(entries) /\ entries' = Tail(entries)
    BY <1>9 DEF PopEntry, stable
  <2>2. Complete' = Complete /\ Taken' = 1 /\ Taken = 0
    BY <1>4, <2>1 DEF Taken
  <2>3. /\ Len(entries') = Len(entries) - 1 /\ Len(entries) >= 1
        /\ \A i \in 1..Len(entries') : entries'[i] = entries[i + 1]
        /\ inflight' = entries[1]
    BY <2>1, HeadTailProperties, EmptySeq DEF TypeInv, TypeOK
  <2>4. inflight'.lsn = Complete + 1
    BY <1>1, <2>2, <2>3, CompleteFacts DEF BufferInv
  <2>5. \A i \in 1..Len(entries') : entries'[i].lsn = Complete + 1 + i
    <3> SUFFICES ASSUME NEW i \in 1..Len(entries') PROVE entries'[i].lsn = Complete + 1 + i
      OBVIOUS
    <3>1. i + 1 \in 1..Len(entries)
      BY SMTT(20), <2>3, CompleteFacts
    <3>2. entries[i + 1].lsn = Complete + Taken + (i + 1)
      BY <1>1, <3>1 DEF BufferInv
    <3>3. entries'[i] = entries[i + 1]
      BY <2>3
    <3>4. Complete + Taken + (i + 1) = Complete + 1 + i
      BY <2>2, CompleteFacts
    <3> QED BY <3>2, <3>3, <3>4
  <2>6. BufferInv'
    BY <1>1, <2>1, <2>2, <2>3, <2>5, CompleteFacts DEF BufferInv
  <2>7. DiskInv' /\ ThreadInv'
    BY <1>1, <2>1, <2>2, <2>4 DEF DiskInv, ThreadInv
  <2> QED BY <1>3, <2>1, <2>2, <2>6, <2>7, CompleteFacts
<1>10. CASE WriteRefused
  <2>1. /\ UNCHANGED <<disk, disk_files, flushed_lsn, writer>> /\ tpc = "header"
        /\ ~Writable
        /\ Requeue(IF inflight.lsn > writer.end THEN "LOG_FILE_FULL" ELSE "INVALID_ARGUMENT")
    BY <1>10 DEF WriteRefused, stable
  <2>2. inflight.lsn > writer.end /\ Complete = Len(disk)
    BY <1>1, <2>1, CompleteFacts DEF Writable, ThreadInv
  <2>3. Requeue("LOG_FILE_FULL")
    BY <2>1, <2>2
  <2> QED BY <1>5, <2>1, <2>2, <2>3
<1>11. CASE WriteHeaderFails
  <2>1. /\ UNCHANGED <<disk, disk_files, flushed_lsn, writer>> /\ tpc = "header"
        /\ Requeue("IOERR_WRITE")
    BY <1>11 DEF WriteHeaderFails, NoTornWrites
  <2>2. Complete = Len(disk)
    BY <1>1, <2>1 DEF ThreadInv
  <2> QED BY <1>5, <2>1, <2>2
<1>12. CASE WriteHeader
  <2>1. /\ UNCHANGED <<disk_files, writer, entries, inflight, flushed_lsn, rc>>
        /\ tpc = "header" /\ tpc' = "payload"
    BY <1>12 DEF WriteHeader, buffer
  <2>2. DiskInv' /\ Complete' = Complete /\ Len(disk') = Complete + 1
    BY <1>12, WriteHeaderDisk
  <2>3. Taken' = 1 /\ Taken = 1
    BY <2>1 DEF Taken
  <2>4. ThreadInv'
    BY <1>1, <2>1, <2>2, CompleteFacts DEF ThreadInv
  <2>5. BufferInv'
    BY <1>1, <2>1, <2>2, <2>3 DEF BufferInv
  <2> QED BY <1>3, <2>1, <2>2, <2>4, <2>5, CompleteFacts
<1>13. CASE WritePayload
  <2>1. /\ UNCHANGED <<disk_files, entries, inflight, flushed_lsn, rc>>
        /\ tpc = "payload" /\ tpc' = "publish" /\ writer' = [writer EXCEPT !.last = inflight.lsn]
    BY <1>13 DEF WritePayload, buffer
  <2>2. DiskInv' /\ Complete' = Complete + 1 /\ Len(disk') = Complete + 1
    BY <1>13, WritePayloadDisk
  <2>3. Taken' = 0 /\ Taken = 1
    BY <2>1 DEF Taken
  <2>4. /\ writer'.last = inflight.lsn /\ writer'.first = writer.first
        /\ writer'.end = writer.end /\ writer'.valid = writer.valid
    BY <2>1 DEF TypeInv, TypeOK, Writer
  <2>5. ThreadInv'
    BY <1>1, <2>1, <2>2, <2>4, CompleteFacts DEF ThreadInv
  <2>6. BufferInv'
    BY <1>1, <2>1, <2>2, <2>3, CompleteFacts DEF BufferInv
  <2> QED BY <1>3, <2>1, <2>2, <2>5, <2>6, CompleteFacts
<1>14. CASE WritePayloadFails
  BY <1>14 DEF WritePayloadFails, NoTornWrites
<1>15. CASE Publish
  <2>1. /\ UNCHANGED <<disk, disk_files, writer, entries, rc>>
        /\ tpc = "publish" /\ tpc' = "flush" /\ flushed_lsn' = inflight.lsn
    BY <1>15 DEF Publish, stable
  <2>2. Complete' = Complete /\ Taken' = 0 /\ Taken = 0
    BY <1>4, <2>1 DEF Taken
  <2>3. DiskInv' /\ ThreadInv'
    BY <1>1, <2>1, <2>2 DEF DiskInv, ThreadInv
  <2>4. BufferInv'
    BY <1>1, <2>1, <2>2 DEF BufferInv, ThreadInv
  <2> QED BY <1>3, <2>1, <2>2, <2>3, <2>4, CompleteFacts
<1> QED BY <1>6, <1>7, <1>8, <1>9, <1>10, <1>11, <1>12, <1>13, <1>14, <1>15 DEF LogThread

\* The steps of the owner and a crash keep the invariant.
LEMMA OwnerStep ==
    ASSUME CLogInv, TypeInv', NoTornWrites, Owner \/ Crash
    PROVE  DiskInv' /\ ThreadInv' /\ BufferInv' /\ ClientInv'
<1> USE DEF CLogInv
<1>1. UNCHANGED <<disk, disk_files, acked>>
  BY DEF Owner, Recover, RecoverFails, RecoverGarbage, Stop, AwaitTermination, Crash,
         NoTornWrites, stable, client
<1>2. Complete' = Complete /\ DiskInv'
  BY <1>1 DEF Complete, DiskInv
<1>3. CASE Recover
  <2>1. /\ phase # "up" /\ phase' = "up" /\ tpc' = "loop" /\ LogReadable
        /\ current_lsn' = ReplayedLsn /\ flushed_lsn' = ReplayedLsn
        /\ UNCHANGED <<promised, rc, writer, entries, inflight, apc, alsn>>
    BY <1>3 DEF Recover, client
  <2>2. ReplayedLsn = Complete /\ Complete = Len(disk)
    BY <2>1, ReplayedIsComplete, ReadableIsComplete
  <2>3. entries = <<>> /\ Len(entries) = 0 /\ promised = 0 /\ Taken' = 0
    BY <2>1 DEF BufferInv, ClientInv, Taken
  <2>4. ThreadInv'
    BY <1>1, <1>2, <2>1, <2>2, <2>3 DEF ThreadInv
  <2>5. BufferInv'
    BY <1>2, <2>1, <2>2, <2>3, CompleteFacts DEF BufferInv
  <2>6. ClientInv'
    BY <1>1, <1>2, <2>1, <2>3 DEF ClientInv
  <2> QED BY <1>2, <2>4, <2>5, <2>6
<1>4. CASE RecoverFails
  <2>1. /\ phase # "up" /\ phase' = "refused"
        /\ UNCHANGED <<promised, tpc, rc, writer, entries, inflight, apc, alsn, current_lsn, running>>
    BY <1>4 DEF RecoverFails, client, thread, buffer
  <2> QED BY <1>1, <1>2, <2>1 DEF ThreadInv, BufferInv, ClientInv
<1>5. ~RecoverGarbage
  <2> SUFFICES ASSUME RecoverGarbage PROVE FALSE
    OBVIOUS
  <2>1. ~LogReadable /\ ~CutOff
    BY DEF RecoverGarbage
  <2>2. PICK i \in 1..Len(disk) : ~Reads(i)
    BY <2>1 DEF LogReadable
  <2>3. i = Len(disk) /\ disk[i].part = "header"
    BY <2>2, CompleteFacts DEF Reads, DiskInv, Fragment
  <2>4. AtFileEnd(i)
    BY <2>3, CompleteFacts DEF AtFileEnd
  <2>5. \A j \in 1..(i - 1) : Reads(j)
    BY <2>3, CompleteFacts DEF Reads, DiskInv
  <2> QED BY <2>1, <2>3, <2>4, <2>5 DEF CutOff
<1>6. CASE Stop
  <2>1. /\ phase = "up" /\ running' = FALSE /\ running
        /\ promised' \in {0, current_lsn} /\ (promised' # 0 => InAppend = {})
        /\ UNCHANGED <<phase, tpc, rc, writer, entries, inflight, apc, alsn, current_lsn, flushed_lsn>>
    BY <1>6 DEF Stop, client, thread, buffer
  <2>2. ThreadInv'
    BY <1>1, <1>2, <2>1 DEF ThreadInv
  <2>3. BufferInv'
    BY <1>1, <1>2, <2>1 DEF BufferInv, Taken
  <2>4. promised' # 0 => \A a \in Appenders : apc[a] \notin {"spin", "push"}
    BY <2>1 DEF InAppend
  <2>5. tpc # "exited"
    BY <2>1 DEF ThreadInv
  <2> QED BY <1>1, <1>2, <2>1, <2>2, <2>3, <2>4, <2>5 DEF ClientInv
<1>7. CASE AwaitTermination \/ Crash
  <2>1. LoseMemory
    BY <1>7 DEF AwaitTermination, Crash
  <2>2. ThreadInv'
    BY <1>2, <2>1, CompleteFacts DEF LoseMemory, ThreadInv, NewWriter
  <2>3. BufferInv'
    BY <2>1 DEF LoseMemory, BufferInv
  <2>4. ClientInv'
    BY <1>1, <1>2, <2>1 DEF LoseMemory, ClientInv
  <2> QED BY <1>2, <2>2, <2>3, <2>4
<1> QED BY <1>3, <1>4, <1>5, <1>6, <1>7 DEF Owner

\* The invariant holds in every state of every behaviour.
THEOREM CLogInvariant ==
    ASSUME NoTornWrites PROVE Spec => []CLogInv
<1>1. Init => CLogInv
  <2> SUFFICES ASSUME Init PROVE CLogInv
    OBVIOUS
  <2>1. TypeInv
    BY TypeInvInit
  <2>2. Len(disk) = 0 /\ Len(entries) = 0 /\ Complete = 0
    BY DEF Init, Complete
  <2>3. DiskInv
    BY <2>2 DEF DiskInv
  <2>4. ThreadInv
    BY <2>2 DEF Init, ThreadInv, NewWriter
  <2>5. BufferInv
    BY DEF Init, BufferInv
  <2>6. ClientInv
    BY DEF Init, ClientInv
  <2> QED BY <2>1, <2>3, <2>4, <2>5, <2>6 DEF CLogInv
<1>2. CLogInv /\ [Next]_vars => CLogInv'
  <2> SUFFICES ASSUME CLogInv, [Next]_vars PROVE CLogInv'
    OBVIOUS
  <2>1. TypeInv'
    BY TypeStep DEF CLogInv
  <2>2. ASSUME NEW a \in Appenders, Appender(a) PROVE CLogInv'
    BY <2>1, <2>2, AppenderStep DEF CLogInv
  <2>3. CASE LogThread
    BY <2>1, <2>3, LogThreadStep DEF CLogInv
  <2>4. CASE Owner \/ Crash
    BY <2>1, <2>4, OwnerStep DEF CLogInv
  <2>5. CASE UNCHANGED vars
    <3>1. Complete' = Complete /\ Taken' = Taken
      BY <2>5 DEF vars, thread, stable, Complete, Taken
    <3>2. DiskInv' /\ ThreadInv'
      BY <2>5, <3>1 DEF CLogInv, vars, buffer, thread, stable, DiskInv, ThreadInv
    <3>3. BufferInv' /\ ClientInv'
      BY <2>5, <3>1 DEF CLogInv, vars, buffer, thread, client, BufferInv, ClientInv
    <3> QED BY <2>1, <3>2, <3>3 DEF CLogInv
  <2> QED BY <2>2, <2>3, <2>4, <2>5 DEF Next
<1> QED BY <1>1, <1>2, PTL DEF Spec

\* An acknowledged entry can be read back by a restart, in every state from then on.
THEOREM AckedEntriesSurvive ==
    ASSUME NoTornWrites PROVE Spec => []AckedRecoverable
<1>1. CLogInv => AckedRecoverable
  <2> SUFFICES ASSUME CLogInv PROVE AckedRecoverable
    OBVIOUS
  <2>1. RecoverableLsns = 1..Complete /\ Complete \in Nat
    BY RecoverableIsComplete, CompleteFacts DEF CLogInv
  <2>2. \A n \in acked : n \in Nat /\ 1 <= n /\ n <= Complete
    BY DEF CLogInv, ClientInv, TypeInv, TypeOK
  <2> QED BY <2>1, <2>2 DEF AckedRecoverable
<1> QED BY <1>1, CLogInvariant, PTL

\* No entry is lost, reordered or skipped between append and the files.
THEOREM EntriesStayInOrder ==
    ASSUME NoTornWrites PROVE Spec => []LogContiguous
<1>1. CLogInv => LogContiguous
  <2> SUFFICES ASSUME CLogInv, phase = "up" PROVE LogContiguous!2
    BY DEF LogContiguous
  <2> USE DEF CLogInv
  <2> DEFINE d == current_lsn - Len(Pending)
  <2>1. entries \in Seq(Entry) /\ <<inflight>> \in Seq(Entry) /\ Len(entries) \in Nat
    BY CompleteFacts DEF TypeInv, TypeOK
  <2>2. Complete \in Nat /\ Taken \in Nat /\ current_lsn = Complete + Taken + Len(entries)
    BY CompleteFacts DEF BufferInv
  <2>3. /\ Len(Pending) = Taken + Len(entries)
        /\ \A i \in 1..Len(Pending) : Pending[i].lsn = Complete + i
    <3>1. CASE tpc \in {"header", "payload"}
      <4>1. Pending = <<inflight>> \o entries /\ Taken = 1
        BY <3>1 DEF Pending, Taken
      <4>2. Len(<<inflight>>) = 1 /\ <<inflight>>[1] = inflight
        OBVIOUS
      <4>3. /\ Len(Pending) = 1 + Len(entries)
            /\ \A i \in 1..(1 + Len(entries)) :
                  Pending[i] = IF i <= 1 THEN <<inflight>>[i] ELSE entries[i - 1]
        BY <2>1, <4>1, <4>2, ConcatProperties
      <4>4. inflight.lsn = Complete + 1
        BY <3>1 DEF ThreadInv
      <4>5. ASSUME NEW i \in 1..(1 + Len(entries)) PROVE Pending[i].lsn = Complete + i
        <5>1. CASE i = 1
          BY <5>1, <4>2, <4>3, <4>4
        <5>2. CASE i # 1
          <6>1. i - 1 \in 1..Len(entries) /\ ~(i <= 1)
            BY <5>2, <2>1
          <6>2. Pending[i] = entries[i - 1]
            BY <6>1, <4>3
          <6>3. entries[i - 1].lsn = Complete + Taken + (i - 1)
            BY <6>1 DEF BufferInv
          <6> QED BY <6>2, <6>3, <4>1, <2>2
        <5> QED BY <5>1, <5>2
      <4> QED BY <4>1, <4>3, <4>5
    <3>2. CASE tpc \notin {"header", "payload"}
      <4>1. Pending = entries /\ Taken = 0
        BY <3>2, <2>1, ConcatEmptySeq DEF Pending, Taken
      <4>2. \A i \in 1..Len(entries) : entries[i].lsn = Complete + i
        BY <4>1, <2>2 DEF BufferInv
      <4> QED BY <4>1, <4>2, <2>1
    <3> QED BY <3>1, <3>2
  <2>4. d = Complete
    BY <2>1, <2>2, <2>3
  <2>5. Written = 1..Complete
    <3>1. ASSUME NEW n \in 1..Complete PROVE n \in Written
      BY CompleteAreFull DEF Written
    <3>2. ASSUME NEW n \in Written PROVE n \in 1..Complete
      <4>1. PICK i \in 1..Len(disk) : disk[i].part = "full" /\ n = disk[i].lsn
        BY DEF Written
      <4>2. n = i
        BY <4>1 DEF DiskInv
      <4> QED BY <4>1, <4>2, CompleteFacts DEF Complete
    <3> QED BY <3>1, <3>2
  <2> QED BY <2>3, <2>4, <2>5
<1> QED BY <1>1, CLogInvariant, PTL

\* The log thread ends only when everything appended before stop is flushed.
THEOREM StopDrainsTheLog ==
    ASSUME NoTornWrites PROVE Spec => []StopDrains
<1>1. CLogInv => StopDrains
  <2> SUFFICES ASSUME CLogInv, tpc = "exited" PROVE promised <= flushed_lsn
    BY DEF StopDrains
  <2>1. CASE promised = 0
    BY <2>1, CompleteFacts DEF CLogInv
  <2>2. CASE promised # 0
    <3>1. phase = "up" /\ current_lsn = promised /\ entries = <<>>
      BY <2>2 DEF CLogInv, ClientInv
    <3>2. Taken = 0 /\ Len(entries) = 0
      BY <3>1 DEF Taken
    <3>3. current_lsn = Complete /\ flushed_lsn = Complete
      BY <3>1, <3>2, CompleteFacts DEF CLogInv, BufferInv
    <3> QED BY <3>1, <3>3, CompleteFacts DEF CLogInv
  <2> QED BY <2>1, <2>2
<1> QED BY <1>1, CLogInvariant, PTL

\* LogFileWriter::write is never given an LSN that it refuses for ever.
THEOREM WriterNeverStuck ==
    ASSUME NoTornWrites PROVE Spec => []NeverInvalidArgument
<1>1. CLogInv => NeverInvalidArgument
  BY DEF CLogInv, ThreadInv, NeverInvalidArgument
<1> QED BY <1>1, CLogInvariant, PTL

\* iterate(start) delivers every readable entry from start on: list_files never
\* drops a file that is needed.
THEOREM IterateMissesNothing ==
    ASSUME NoTornWrites PROVE Spec => []IterateComplete
<1>1. CLogInv => IterateComplete
  <2> SUFFICES ASSUME CLogInv, NEW start \in 0..(MaxLsn + 1)
               PROVE  Iterated(start) = {n \in RecoverableLsns : n >= start}
    BY DEF IterateComplete
  <2>1. ASSUME NEW i \in Delivered, disk[i].lsn >= start
        PROVE  disk[i].file \in ListFiles(start)
    <3>1. /\ i \in 1..Len(disk) /\ disk[i].lsn = i
          /\ disk[i].file \in disk_files /\ disk[i].file + MaxEntries - 1 >= i
      BY DEF CLogInv, DiskInv, Delivered
    <3>2. disk[i].file \in Nat
      BY <3>1, CompleteFacts DEF CLogInv, Fragment
    <3> QED BY <2>1, <3>1, <3>2, ConstantsAssumption DEF ListFiles
  <2>2. ASSUME NEW n \in Iterated(start) PROVE n \in {m \in RecoverableLsns : m >= start}
    BY DEF Iterated, RecoverableLsns
  <2>3. ASSUME NEW n \in RecoverableLsns, n >= start PROVE n \in Iterated(start)
    BY <2>1, <2>3 DEF Iterated, RecoverableLsns
  <2> QED BY <2>2, <2>3
<1> QED BY <1>1, CLogInvariant, PTL

\* An LSN that append gives is above every LSN in the files, also the first one after replay.
THEOREM LsnsAlwaysFresh ==
    ASSUME NoTornWrites PROVE Spec => FreshLsns
<1>1. CLogInv /\ CLogInv' /\ [Next]_vars =>
        [current_lsn' > current_lsn /\ phase = "up" => \A n \in Written : n < current_lsn']_vars
  <2> SUFFICES ASSUME CLogInv, CLogInv', current_lsn' > current_lsn, phase = "up", NEW n \in Written
               PROVE  n < current_lsn'
    OBVIOUS
  <2>1. n \in RecoverableLsns
    <3>1. PICK i \in 1..Len(disk) : disk[i].part = "full" /\ n = disk[i].lsn
      BY DEF Written
    <3>2. ASSUME NEW j \in 1..i PROVE disk[j].part = "full"
      <4>1. Len(disk) \in Nat
        BY CompleteFacts DEF CLogInv
      <4>2. CASE j = i
        BY <3>1, <4>2
      <4>3. CASE j # i
        BY <4>1, <4>3 DEF CLogInv, DiskInv
      <4> QED BY <4>2, <4>3
    <3> QED BY <3>1, <3>2 DEF RecoverableLsns, Delivered, Reads
  <2>2. n \in 1..Complete /\ Complete \in Nat
    BY <2>1, RecoverableIsComplete, CompleteFacts DEF CLogInv
  <2>3. Complete <= current_lsn /\ current_lsn \in Nat
    BY CompleteFacts DEF CLogInv, BufferInv
  <2>4. current_lsn' \in Nat
    BY DEF CLogInv, TypeInv, TypeOK
  <2> QED BY <2>2, <2>3, <2>4
<1> QED BY <1>1, CLogInvariant, PTL DEF Spec, FreshLsns

-----------------------------------------------------------------------------
(***************************************************************************)
(* DiskLogHandler implements the abstract log.                             *)
(***************************************************************************)

\* The last LSN replay would find is the number of complete entries.
Mapped == ReplayedLsn = Complete

\* A step of the log is a step of the abstract log, or changes nothing there.
LEMMA RefinementStep ==
    ASSUME CLogInv, CLogInv', Mapped, Mapped', NoTornWrites, [Next]_vars
    PROVE  [Wal!Next]_(Wal!walVars)
<1> USE DEF CLogInv, Mapped
<1>1. Complete \in Nat /\ Taken \in Nat /\ Len(entries) \in Nat /\ Len(disk) \in Nat
  BY CompleteFacts
<1>2. ASSUME UNCHANGED <<disk, phase, acked>>, phase = "up" => UNCHANGED current_lsn
      PROVE  UNCHANGED Wal!walVars
  <2>1. Complete' = Complete
    BY <1>2 DEF Complete
  <2> QED BY <1>2, <2>1 DEF Wal!walVars
<1>3. ASSUME NEW a \in Appenders, Appender(a) PROVE [Wal!Next]_(Wal!walVars)
  <2>1. CASE Push(a)
    <3>1. Complete' = Complete
      BY <2>1 DEF Push, stable, Complete
    <3>2. Wal!AppendEntry
      BY <2>1, <3>1 DEF Push, Wal!AppendEntry
    <3> QED BY <3>2 DEF Wal!Next
  <2>2. CASE EndWait(a)
    <3>1. Complete' = Complete
      BY <2>2 DEF EndWait, stable, Complete
    <3>2. UNCHANGED <<phase, current_lsn, disk>> /\ phase = "up"
      BY <2>2 DEF EndWait, buffer, stable
    <3>3. CASE acked' = acked
      BY <1>2, <3>2, <3>3
    <3>4. CASE acked' # acked
      <4>1. alsn[a] \in acked' /\ acked' = acked \cup {alsn[a]}
        BY <2>2, <3>4 DEF EndWait
      <4>2. alsn[a] \in 1..Complete
        <5>1. alsn[a] \in Nat /\ 1 <= alsn[a] /\ alsn[a] <= Complete'
          BY <4>1 DEF ClientInv, TypeInv, TypeOK
        <5> QED BY <5>1, <3>1, <1>1
      <4>3. Wal!Tell
        BY <3>1, <3>2, <4>1, <4>2 DEF Wal!Tell
      <4> QED BY <4>3 DEF Wal!Next
    <3> QED BY <3>3, <3>4
  <2>3. CASE BeginAppend(a) \/ LeaveSpin(a) \/ Return(a) \/ BeginWait(a) \/ LeaveWait(a)
    BY <1>2, <2>3 DEF BeginAppend, LeaveSpin, Return, BeginWait, LeaveWait, buffer, stable
  <2> QED BY <1>3, <2>1, <2>2, <2>3 DEF Appender
<1>4. ASSUME LogThread PROVE [Wal!Next]_(Wal!walVars)
  <2>1. UNCHANGED <<phase, current_lsn, acked>>
    BY <1>4 DEF LogThread, ThreadLoop, ThreadExit, OpenFile, OpenFileFails, PopEntry, FlushDone,
           WriteRefused, WriteHeader, WriteHeaderFails, WritePayload, WritePayloadFails, Publish,
           buffer, client
  <2>2. CASE WritePayload
    <3>1. Complete' = Complete + 1
      BY <2>2, WritePayloadDisk
    <3>2. phase = "up" /\ Taken = 1
      BY <2>2 DEF WritePayload, ThreadInv, Taken
    <3>3. Complete < current_lsn
      BY <1>1, <3>2 DEF BufferInv
    <3>4. Wal!Persist
      BY <2>1, <3>1, <3>2, <3>3 DEF Wal!Persist
    <3> QED BY <3>4 DEF Wal!Next
  <2>3. CASE WriteHeader
    <3>1. Complete' = Complete
      BY <2>3, WriteHeaderDisk
    <3> QED BY <2>1, <3>1 DEF Wal!walVars
  <2>4. CASE UNCHANGED disk
    BY <1>2, <2>1, <2>4
  <2>5. WritePayload \/ WriteHeader \/ UNCHANGED disk
    BY <1>4 DEF LogThread, ThreadLoop, ThreadExit, OpenFile, OpenFileFails, PopEntry, FlushDone,
           WriteRefused, WriteHeaderFails, WritePayloadFails, Publish, stable, NoTornWrites
  <2> QED BY <2>2, <2>3, <2>4, <2>5
<1>5. ASSUME Owner \/ Crash PROVE [Wal!Next]_(Wal!walVars)
  <2>1. UNCHANGED <<disk, acked>>
    BY <1>5 DEF Owner, Recover, RecoverFails, RecoverGarbage, Stop, AwaitTermination, Crash,
           NoTornWrites, stable, client
  <2>2. Complete' = Complete
    BY <2>1 DEF Complete
  <2>3. CASE Recover
    <3>1. Wal!Restart
      BY <2>1, <2>2, <2>3 DEF Recover, Wal!Restart
    <3> QED BY <3>1 DEF Wal!Next
  <2>4. CASE RecoverFails \/ RecoverGarbage
    BY <2>1, <2>2, <2>4 DEF RecoverFails, RecoverGarbage, Wal!walVars
  <2>5. CASE Stop
    BY <1>2, <2>1, <2>5 DEF Stop, buffer
  <2>6. CASE AwaitTermination \/ Crash
    <3>1. phase = "up" /\ phase' = "down"
      BY <2>6 DEF AwaitTermination, Crash, LoseMemory
    <3>2. Wal!Halt
      BY <2>1, <2>2, <3>1 DEF Wal!Halt
    <3> QED BY <3>2 DEF Wal!Next
  <2> QED BY <1>5, <2>3, <2>4, <2>5, <2>6 DEF Owner
<1>6. ASSUME UNCHANGED vars PROVE UNCHANGED Wal!walVars
  BY <1>2, <1>6 DEF vars, buffer, stable, client
<1> QED BY <1>3, <1>4, <1>5, <1>6 DEF Next

\* The commit log keeps the promises of the abstract log, for every value of the
\* constants: LSNs without gaps, durable in order, SUCCESS only for durable entries,
\* and a crash that loses nothing durable.
THEOREM ImplementsAbstractLog ==
    ASSUME NoTornWrites PROVE Spec => ImplementsWal
<1>1. CLogInv => Mapped
  BY ReplayedIsComplete DEF CLogInv, Mapped
<1>2. Init => Wal!Init
  <2> SUFFICES ASSUME Init PROVE Wal!Init
    OBVIOUS
  <2>1. RecoverableLsns = {}
    BY DEF Init, RecoverableLsns, Delivered
  <2>2. ReplayedLsn = 0
    BY <2>1 DEF ReplayedLsn
  <2> QED BY <2>2 DEF Init, Wal!Init
<1>3. CLogInv /\ CLogInv' /\ Mapped /\ Mapped' /\ [Next]_vars => [Wal!Next]_(Wal!walVars)
  BY RefinementStep
<1> QED BY <1>1, <1>2, <1>3, CLogInvariant, PTL DEF Spec, ImplementsWal, Wal!Spec
=============================================================================
