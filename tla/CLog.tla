-------------------------------- MODULE CLog --------------------------------
(***************************************************************************)
(* The commit log (redo log) of observer/storage/clog: DiskLogHandler with *)
(* its background thread, the LogEntryBuffer it drains and the             *)
(* LogFileManager, LogFileWriter and LogFileReader that keep the entries   *)
(* in files of a fixed number of entries.                                  *)
(*                                                                         *)
(* Threads.  Appenders call append (and some of them wait_lsn); one log    *)
(* thread runs thread_func; the owner calls stop and await_termination.    *)
(* A step of a thread ends where another thread can see its effect: at an  *)
(* atomic variable, at the buffer's mutex, or at a system call.            *)
(*                                                                         *)
(* Disk.  The files are one sequence of fragments, each tagged with the    *)
(* first LSN of its file (its name).  A fragment is what the two writen    *)
(* calls of LogFileWriter::write left behind: "full" is a header with its  *)
(* payload, "header" a header without its whole payload, "torn" a part of  *)
(* a header.  Files are opened with O_APPEND, so nothing is overwritten.   *)
(***************************************************************************)
EXTENDS Integers, Sequences, FiniteSets

CONSTANTS
    Appenders,      \* threads that append entries
    MaxEntries,     \* max_entry_number_per_file_ of LogFileManager
    MaxBytes,       \* max_bytes_ of LogEntryBuffer
    HeaderSize,     \* LogHeader::SIZE
    PayloadSizes,   \* the payload sizes the appenders use
    Faults,         \* which of AllFaults the environment may inject
    MaxLsn,         \* bound: no append once current_lsn is MaxLsn
    MaxFaults,      \* bound on the injected faults other than crashes
    MaxCrashes      \* bound on the crashes

(***************************************************************************)
(* "open": open(2) fails.  "write": a writen call fails and leaves nothing *)
(* behind.  "tear": a writen call fails, or the power goes, in the middle  *)
(* of a header.  "payload": the header is written and the payload fails.   *)
(***************************************************************************)
AllFaults == {"open", "write", "tear", "payload"}

ASSUME ConstantsAssumption ==
    /\ MaxEntries \in Nat \ {0}
    /\ MaxBytes \in Nat \ {0}
    /\ HeaderSize \in Nat \ {0}
    /\ PayloadSizes \subseteq Nat \ {0}
    /\ Faults \subseteq AllFaults
    /\ MaxLsn \in Nat
    /\ MaxFaults \in Nat
    /\ MaxCrashes \in Nat

VARIABLES
    phase,          \* the process: "down", "refused", "garbage", "up"
    running,        \* running_
    tpc,            \* where the log thread is in thread_func
    rc,             \* thread_func's rc
    writer,         \* thread_func's file_writer
    log_files,      \* keys of LogFileManager::log_files_
    entries,        \* LogEntryBuffer::entries_
    inflight,       \* the entry flush has taken out of entries_, or NoEntry
    bytes,          \* LogEntryBuffer::bytes_
    current_lsn,
    flushed_lsn,
    apc,            \* where each appender is
    alsn,           \* the LSN append gave each appender
    disk,           \* the fragments in the log files
    disk_files,     \* the log files that exist
    acked,          \* history: LSNs wait_lsn returned SUCCESS for
    promised,       \* history: current_lsn when stop found no append in progress
    faults,
    crashes

buffer == <<entries, inflight, bytes, current_lsn, flushed_lsn>>
thread == <<tpc, rc, writer, log_files>>
client == <<apc, alsn, acked>>
stable == <<disk, disk_files>>
counts == <<faults, crashes>>
vars   == <<phase, running, promised, buffer, thread, client, stable, counts>>

NoEntry   == [lsn |-> 0, size |-> 0]
NewWriter == [first |-> 0, end |-> 0, last |-> 0, valid |-> FALSE]

Entry     == [lsn : Nat, size : Nat]
Fragment  == [lsn : Nat, file : Nat, part : {"full", "header", "torn"}]
Writer    == [first : Nat, end : Nat, last : Nat, valid : BOOLEAN]

-----------------------------------------------------------------------------
(***************************************************************************)
(* Reading the log: LogFileReader, LogFileManager::list_files, iterate.    *)
(***************************************************************************)

\* The fragment is the last of its file.
AtFileEnd(i) == i < Len(disk) => disk[i + 1].file # disk[i].file

\* readn of a header meets the end of the file in its middle: taken as EOF.
SilentEnd(i) == disk[i].part = "torn" /\ AtFileEnd(i)

\* The reader gets past fragment i: an entry, or an end of file without error.
Reads(i) == disk[i].part # "full" => SilentEnd(i)

\* iterate from LSN 0 over all the files ends with SUCCESS.
LogReadable == \A i \in 1..Len(disk) : Reads(i)

\* Indices of the fragments the reader delivers before it meets damage.
Delivered == {i \in 1..Len(disk) : /\ disk[i].part = "full"
                                   /\ \A j \in 1..i : Reads(j)}

RecoverableLsns == {disk[i].lsn : i \in Delivered}

\* A header with nothing after it: readn of the payload fails with IOERR_READ.
\* Anything else that is damaged is read out of step with the entries.
CutOff == \E i \in 1..Len(disk) :
             /\ disk[i].part = "header" /\ AtFileEnd(i)
             /\ \A j \in 1..(i - 1) : Reads(j)

\* Mutant: > for >=.
MutListFiles(start) == {f \in disk_files : f + MaxEntries - 1 > start}

\* LogFileManager::list_files: the files that may hold an LSN from start on.
ListFiles(start) == {f \in disk_files : f + MaxEntries - 1 >= start}

\* What iterate(start) delivers: skip_to passes over the entries below start.
Iterated(start) == {disk[i].lsn : i \in {j \in Delivered :
                      disk[j].file \in ListFiles(start) /\ disk[j].lsn >= start}}

\* Mutant: replay does not set the LSNs.
MutReplayedLsnZero == 0

\* The largest LSN replay sees, 0 when there is none.
ReplayedLsn == CHOOSE m \in RecoverableLsns \cup {0} : \A n \in RecoverableLsns : n <= m

-----------------------------------------------------------------------------
(***************************************************************************)
(* Appender threads: LogHandler::append and DiskLogHandler::wait_lsn.      *)
(***************************************************************************)

\* The threads inside append, which do not have their LSN yet.
InAppend == {a \in Appenders : apc[a] \in {"spin", "push"}}

\* _append: ASSERT(running_), then entry_buffer_.append.
BeginAppend(a) ==
    /\ phase = "up" /\ apc[a] = "idle" /\ running
    /\ current_lsn + Cardinality(InAppend) < MaxLsn
    /\ apc' = [apc EXCEPT ![a] = "spin"]
    /\ UNCHANGED <<phase, running, promised, buffer, thread, alsn, acked, stable, counts>>

\* while (bytes_.load() >= max_bytes_) sleep
LeaveSpin(a) ==
    /\ phase = "up" /\ apc[a] = "spin" /\ bytes < MaxBytes
    /\ apc' = [apc EXCEPT ![a] = "push"]
    /\ UNCHANGED <<phase, running, promised, buffer, thread, alsn, acked, stable, counts>>

\* Under the mutex: take the next LSN, push the entry, add its size to bytes_.
\* The size is read from the entry that has been moved from: only the header.
Push(a) ==
    /\ phase = "up" /\ apc[a] = "push"
    /\ \E s \in PayloadSizes :
         entries' = Append(entries, [lsn |-> current_lsn + 1, size |-> s])
    /\ current_lsn' = current_lsn + 1
    /\ bytes' = bytes + HeaderSize
    /\ alsn' = [alsn EXCEPT ![a] = current_lsn + 1]
    /\ apc' = [apc EXCEPT ![a] = "appended"]
    /\ UNCHANGED <<phase, running, promised, inflight, flushed_lsn, thread, acked, stable, counts>>

\* append returns SUCCESS and its caller does not wait (most log records).
Return(a) ==
    /\ phase = "up" /\ apc[a] = "appended"
    /\ apc' = [apc EXCEPT ![a] = "idle"]
    /\ UNCHANGED <<phase, running, promised, buffer, thread, alsn, acked, stable, counts>>

\* The caller waits for its entry (commit, a page flush): wait_lsn.
BeginWait(a) ==
    /\ phase = "up" /\ apc[a] = "appended"
    /\ apc' = [apc EXCEPT ![a] = "wait"]
    /\ UNCHANGED <<phase, running, promised, buffer, thread, alsn, acked, stable, counts>>

\* Mutant: the loop of wait_lsn does not look at running_.
MutLeaveWait(a) ==
    /\ phase = "up" /\ apc[a] = "wait"
    /\ flushed_lsn >= alsn[a]
    /\ apc' = [apc EXCEPT ![a] = "check"]
    /\ UNCHANGED <<phase, running, promised, buffer, thread, alsn, acked, stable, counts>>

\* The loop of wait_lsn ends when the log stops or the LSN is flushed.
LeaveWait(a) ==
    /\ phase = "up" /\ apc[a] = "wait"
    /\ ~running \/ flushed_lsn >= alsn[a]
    /\ apc' = [apc EXCEPT ![a] = "check"]
    /\ UNCHANGED <<phase, running, promised, buffer, thread, alsn, acked, stable, counts>>

\* Mutant: SUCCESS as soon as the loop has ended.
MutEndWait(a) ==
    /\ phase = "up" /\ apc[a] = "check"
    /\ acked' = acked \cup {alsn[a]}
    /\ apc' = [apc EXCEPT ![a] = "idle"]
    /\ UNCHANGED <<phase, running, promised, buffer, thread, alsn, stable, counts>>

\* It reads flushed_lsn_ once more: SUCCESS or INTERNAL.
EndWait(a) ==
    /\ phase = "up" /\ apc[a] = "check"
    /\ acked' = IF flushed_lsn >= alsn[a] THEN acked \cup {alsn[a]} ELSE acked
    /\ apc' = [apc EXCEPT ![a] = "idle"]
    /\ UNCHANGED <<phase, running, promised, buffer, thread, alsn, stable, counts>>

Appender(a) == \/ BeginAppend(a) \/ LeaveSpin(a) \/ Push(a) \/ Return(a)
               \/ BeginWait(a) \/ LeaveWait(a) \/ EndWait(a)

-----------------------------------------------------------------------------
(***************************************************************************)
(* The log thread: DiskLogHandler::thread_func.                            *)
(***************************************************************************)

\* entry_number() reads the deque without the mutex: while a push_back runs
\* the value it returns is undefined, so it may miss what is in the buffer.
TornRead      == \E a \in Appenders : apc[a] = "push"
SeesEntries   == entries # <<>> \/ TornRead
SeesNoEntries == entries = <<>> \/ TornRead

\* Mutant: >= for > in the loop's condition.
MutThreadLoop ==
    /\ tpc = "loop"
    /\ tpc' = IF ~writer.valid \/ rc = "LOG_FILE_FULL" THEN "open" ELSE "flush"
    /\ UNCHANGED <<phase, running, promised, buffer, rc, writer, log_files, client, stable, counts>>

\* while (running_ || entry_number() > 0), and which branch its body takes.
ThreadLoop ==
    /\ tpc = "loop"
    /\ running \/ SeesEntries
    /\ tpc' = IF ~writer.valid \/ rc = "LOG_FILE_FULL" THEN "open" ELSE "flush"
    /\ UNCHANGED <<phase, running, promised, buffer, rc, writer, log_files, client, stable, counts>>

\* Mutant: the thread ends as soon as it is told to stop.
MutThreadExit ==
    /\ tpc = "loop"
    /\ ~running
    /\ tpc' = "exited"
    /\ UNCHANGED <<phase, running, promised, buffer, rc, writer, log_files, client, stable, counts>>

ThreadExit ==
    /\ tpc = "loop"
    /\ ~running /\ SeesNoEntries
    /\ tpc' = "exited"
    /\ UNCHANGED <<phase, running, promised, buffer, rc, writer, log_files, client, stable, counts>>

\* The file thread_func opens: next_file when the last one is full (and when
\* there is none), last_file otherwise.
LastFile   == CHOOSE f \in log_files : \A g \in log_files : g <= f
NextFile   == IF log_files = {} THEN 0 ELSE LastFile + MaxEntries
FileToOpen == IF rc = "LOG_FILE_FULL" \/ log_files = {} THEN NextFile ELSE LastFile

\* next_file and last_file: the name enters log_files_, the old file is closed
\* and open sets end_lsn_ (last_lsn_ stays).
OpenWriter(ok) ==
    /\ log_files' = log_files \cup {FileToOpen}
    /\ writer' = [first |-> FileToOpen, end |-> FileToOpen + MaxEntries - 1,
                  last |-> writer.last, valid |-> ok]

\* open(2) succeeds: O_CREAT creates the file.
OpenFile ==
    /\ tpc = "open"
    /\ OpenWriter(TRUE)
    /\ disk_files' = disk_files \cup {FileToOpen}
    /\ rc' = "SUCCESS" /\ tpc' = "flush"
    /\ UNCHANGED <<phase, running, promised, buffer, client, disk, counts>>

\* open(2) fails: the loop goes round again and takes last_file.
OpenFileFails ==
    /\ tpc = "open" /\ "open" \in Faults /\ faults < MaxFaults
    /\ OpenWriter(FALSE)
    /\ rc' = "FILE_OPEN" /\ tpc' = "loop"
    /\ faults' = faults + 1
    /\ UNCHANGED <<phase, running, promised, buffer, client, stable, crashes>>

\* LogEntryBuffer::flush takes the first entry out, under the mutex.
PopEntry ==
    /\ tpc = "flush" /\ entries # <<>>
    /\ inflight' = Head(entries)
    /\ entries' = Tail(entries)
    /\ bytes' = bytes - (HeaderSize + Head(entries).size)
    /\ tpc' = "header"
    /\ UNCHANGED <<phase, running, promised, current_lsn, flushed_lsn, rc, writer, log_files, client, stable, counts>>

\* The buffer is, or looks, empty: flush returns SUCCESS.
FlushDone ==
    /\ tpc = "flush" /\ SeesNoEntries
    /\ rc' = "SUCCESS" /\ tpc' = "loop"
    /\ UNCHANGED <<phase, running, promised, buffer, writer, log_files, client, stable, counts>>

\* Mutant: the entry goes to the back of the buffer.
MutRequeue(result) ==
    /\ entries' = Append(entries, inflight)
    /\ inflight' = NoEntry
    /\ rc' = result /\ tpc' = "loop"

\* flush puts the entry back at the front (bytes_ is not corrected).
Requeue(result) ==
    /\ entries' = <<inflight>> \o entries
    /\ inflight' = NoEntry
    /\ rc' = result /\ tpc' = "loop"

\* LogFileWriter::write takes the entry: its LSN is at most end_lsn_ and above
\* last_lsn_ (the file is open whenever flush is called).
Writable == inflight.lsn <= writer.end /\ inflight.lsn > writer.last

\* LogFileWriter::write refuses the entry before it writes anything.
WriteRefused ==
    /\ tpc = "header" /\ ~Writable
    /\ Requeue(IF inflight.lsn > writer.end THEN "LOG_FILE_FULL" ELSE "INVALID_ARGUMENT")
    /\ UNCHANGED <<phase, running, promised, bytes, current_lsn, flushed_lsn, writer, log_files, client, stable, counts>>

NewFragment(part) == [lsn |-> inflight.lsn, file |-> writer.first, part |-> part]

\* writen of the header succeeds.
WriteHeader ==
    /\ tpc = "header" /\ Writable
    /\ disk' = Append(disk, NewFragment("header"))
    /\ tpc' = "payload"
    /\ UNCHANGED <<phase, running, promised, buffer, rc, writer, log_files, client, disk_files, counts>>

\* writen of the header fails: nothing, or a part of the header, is written.
WriteHeaderFails ==
    /\ tpc = "header" /\ Writable /\ faults < MaxFaults
    /\ \/ "write" \in Faults /\ UNCHANGED disk
       \/ "tear" \in Faults /\ disk' = Append(disk, NewFragment("torn"))
    /\ Requeue("IOERR_WRITE")
    /\ faults' = faults + 1
    /\ UNCHANGED <<phase, running, promised, bytes, current_lsn, flushed_lsn, writer, log_files, client, disk_files, crashes>>

\* writen of the payload succeeds: the entry is complete.
WritePayload ==
    /\ tpc = "payload"
    /\ disk' = [disk EXCEPT ![Len(disk)].part = "full"]
    /\ writer' = [writer EXCEPT !.last = inflight.lsn]
    /\ tpc' = "publish"
    /\ UNCHANGED <<phase, running, promised, buffer, rc, log_files, client, disk_files, counts>>

\* Mutant: the entry is not put back.
MutWritePayloadFails ==
    /\ tpc = "payload" /\ "payload" \in Faults /\ faults < MaxFaults
    /\ inflight' = NoEntry
    /\ rc' = "IOERR_WRITE" /\ tpc' = "loop"
    /\ faults' = faults + 1
    /\ UNCHANGED <<phase, running, promised, entries, bytes, current_lsn, flushed_lsn, writer, log_files, client, stable, crashes>>

\* writen of the payload fails: the header stays in the file.
WritePayloadFails ==
    /\ tpc = "payload" /\ "payload" \in Faults /\ faults < MaxFaults
    /\ Requeue("IOERR_WRITE")
    /\ faults' = faults + 1
    /\ UNCHANGED <<phase, running, promised, bytes, current_lsn, flushed_lsn, writer, log_files, client, stable, crashes>>

\* Mutant: flushed_lsn_ is not stored.
MutPublishNothing ==
    /\ tpc = "publish"
    /\ inflight' = NoEntry
    /\ tpc' = "flush"
    /\ UNCHANGED <<phase, running, promised, entries, bytes, current_lsn, flushed_lsn, rc, writer, log_files, client, stable, counts>>

\* Mutant: everything appended is taken for flushed.
MutPublish ==
    /\ tpc = "publish"
    /\ flushed_lsn' = current_lsn
    /\ inflight' = NoEntry
    /\ tpc' = "flush"
    /\ UNCHANGED <<phase, running, promised, entries, bytes, current_lsn, rc, writer, log_files, client, stable, counts>>

\* flushed_lsn_ = entry.lsn(), and flush takes the next entry.
Publish ==
    /\ tpc = "publish"
    /\ flushed_lsn' = inflight.lsn
    /\ inflight' = NoEntry
    /\ tpc' = "flush"
    /\ UNCHANGED <<phase, running, promised, entries, bytes, current_lsn, rc, writer, log_files, client, stable, counts>>

LogThread == \/ ThreadLoop \/ ThreadExit \/ OpenFile \/ OpenFileFails
             \/ PopEntry \/ FlushDone \/ WriteRefused
             \/ WriteHeader \/ WriteHeaderFails
             \/ WritePayload \/ WritePayloadFails \/ Publish

-----------------------------------------------------------------------------
(***************************************************************************)
(* The owner (Db): recover, the destructor's stop and await_termination,   *)
(* and the end of the process.                                             *)
(***************************************************************************)

\* Db::init and Db::recover: LogFileManager::init lists the directory, replay
\* reads every entry and sets the LSNs, start creates the thread.
Recover ==
    /\ phase \in {"down", "refused"} /\ LogReadable
    /\ log_files' = disk_files
    /\ current_lsn' = ReplayedLsn /\ flushed_lsn' = ReplayedLsn
    /\ phase' = "up" /\ running' = TRUE /\ tpc' = "loop"
    /\ UNCHANGED <<promised, rc, writer, entries, inflight, bytes, client, stable, counts>>

\* replay fails and so does Db::init.
RecoverFails ==
    /\ phase \in {"down", "refused"} /\ ~LogReadable
    /\ phase' = "refused"
    /\ UNCHANGED <<running, promised, buffer, thread, client, stable, counts>>

\* Headers read out of step may also look valid: garbage is replayed, and what
\* the process does after that is not described here.
RecoverGarbage ==
    /\ phase \in {"down", "refused", "garbage"} /\ ~LogReadable /\ ~CutOff
    /\ phase' = "garbage"
    /\ UNCHANGED <<running, promised, buffer, thread, client, stable, counts>>

\* stop: running_ = false.
Stop ==
    /\ phase = "up" /\ running
    /\ running' = FALSE
    /\ promised' = IF InAppend = {} THEN current_lsn ELSE 0
    /\ UNCHANGED <<phase, buffer, thread, client, stable, counts>>

\* All memory of the process is gone.
LoseMemory ==
    /\ phase' = "down" /\ running' = FALSE /\ tpc' = "none"
    /\ rc' = "SUCCESS" /\ writer' = NewWriter /\ log_files' = {}
    /\ entries' = <<>> /\ inflight' = NoEntry /\ bytes' = 0
    /\ current_lsn' = 0 /\ flushed_lsn' = 0
    /\ apc' = [a \in Appenders |-> "idle"] /\ alsn' = [a \in Appenders |-> 0]
    /\ promised' = 0

\* await_termination joins the thread and the process ends.
AwaitTermination ==
    /\ phase = "up" /\ ~running /\ tpc = "exited"
    /\ LoseMemory
    /\ UNCHANGED <<acked, stable, counts>>

\* kill -9 or a power failure, which may also tear the header being written.
Crash ==
    /\ phase = "up" /\ crashes < MaxCrashes
    /\ crashes' = crashes + 1
    /\ LoseMemory
    /\ \/ UNCHANGED disk
       \/ /\ "tear" \in Faults /\ tpc = "header" /\ Writable
          /\ disk' = Append(disk, NewFragment("torn"))
    /\ UNCHANGED <<acked, disk_files, faults>>

-----------------------------------------------------------------------------
Init ==
    /\ phase = "down" /\ running = FALSE /\ tpc = "none"
    /\ rc = "SUCCESS" /\ writer = NewWriter /\ log_files = {}
    /\ entries = <<>> /\ inflight = NoEntry /\ bytes = 0
    /\ current_lsn = 0 /\ flushed_lsn = 0
    /\ apc = [a \in Appenders |-> "idle"] /\ alsn = [a \in Appenders |-> 0]
    /\ disk = <<>> /\ disk_files = {}
    /\ acked = {} /\ promised = 0
    /\ faults = 0 /\ crashes = 0

Owner == Recover \/ RecoverFails \/ RecoverGarbage \/ Stop \/ AwaitTermination

Next == (\E a \in Appenders : Appender(a)) \/ LogThread \/ Owner \/ Crash

Spec == Init /\ [][Next]_vars

\* The scheduler runs the log thread and every appender that has begun a call;
\* nobody is obliged to append, to stop the log or to restart the process.
Fairness == /\ WF_vars(LogThread)
            /\ \A a \in Appenders : WF_vars(LeaveSpin(a) \/ Push(a) \/ LeaveWait(a) \/ EndWait(a))

FairSpec == Spec /\ Fairness

-----------------------------------------------------------------------------
(***************************************************************************)
(* Properties.                                                             *)
(***************************************************************************)

\* Types of the variables.
TypeOK ==
    /\ phase \in {"down", "refused", "garbage", "up"}
    /\ running \in BOOLEAN
    /\ tpc \in {"none", "loop", "open", "flush", "header", "payload", "publish", "exited"}
    /\ rc \in {"SUCCESS", "LOG_FILE_FULL", "FILE_OPEN", "IOERR_WRITE", "INVALID_ARGUMENT"}
    /\ writer \in Writer
    /\ log_files \subseteq Nat /\ disk_files \subseteq Nat
    /\ entries \in Seq(Entry) /\ inflight \in Entry
    /\ bytes \in Int /\ current_lsn \in Nat /\ flushed_lsn \in Nat
    /\ apc \in [Appenders -> {"idle", "spin", "push", "appended", "wait", "check"}]
    /\ alsn \in [Appenders -> Nat]
    /\ disk \in Seq(Fragment)
    /\ acked \subseteq Nat /\ promised \in Nat
    /\ faults \in Nat /\ crashes \in Nat

\* The entries that are not completely written, in the order of the log.
Pending == (IF tpc \in {"header", "payload"} THEN <<inflight>> ELSE <<>>) \o entries

\* The LSNs whose entry is completely written.
Written == {disk[i].lsn : i \in {j \in 1..Len(disk) : disk[j].part = "full"}}

\* No entry is lost, reordered or skipped on its way from append to the files,
\* through requeues, new files and restarts: the pending entries are the last
\* LSNs in order and the files have exactly the ones before them.
LogContiguous ==
    phase = "up" =>
      LET d == current_lsn - Len(Pending)
      IN  /\ Written = 1..d
          /\ \A i \in 1..Len(Pending) : Pending[i].lsn = d + i

\* wait_lsn returns SUCCESS only for an entry that a restart can read back,
\* now and after any later crash (LogHandler::wait_lsn; commit relies on it).
AckedRecoverable == acked \subseteq RecoverableLsns

\* await_termination returns with every entry on disk that was appended before
\* stop, provided that no append was in progress then (thread_func's loop).
StopDrains == tpc = "exited" => promised <= flushed_lsn

\* LogFileManager::list_files may skip a file and LogFileReader::skip_to may
\* skip entries without iterate(start) missing an entry from start on.
IterateComplete ==
    LogReadable => \A start \in 0..(MaxLsn + 1) :
                     Iterated(start) = {n \in RecoverableLsns : n >= start}

\* LogFileWriter::write never meets an LSN that is not above last_lsn_: that
\* error would be retried for ever with the same entry.
NeverInvalidArgument == rc # "INVALID_ARGUMENT"

\* An LSN given to an appender is above every LSN in the files, also after
\* replay has set the counter again.
FreshLsns == [][current_lsn' > current_lsn /\ phase = "up" =>
                  \A n \in Written : n < current_lsn']_vars

\* DiskLogHandler implements the abstract log: the last LSN that a restart would
\* read back plays the part of durable.
Wal == INSTANCE WriteAheadLog WITH
          up       <- phase = "up",
          appended <- IF phase = "up" THEN current_lsn ELSE ReplayedLsn,
          durable  <- ReplayedLsn,
          told     <- acked

ImplementsWal == Wal!Spec

\* Every entry in the buffer is written and published in the end, unless the
\* process crashes or the log thread has ended before the entry came.
EventuallyFlushed ==
    \A n \in 1..MaxLsn :
      (phase = "up" /\ current_lsn >= n) ~> (flushed_lsn >= n \/ phase # "up" \/ tpc = "exited")

\* wait_lsn returns, whatever stop, the disk and other appenders do.
WaitReturns == \A a \in Appenders : apc[a] = "wait" ~> apc[a] # "wait"

\* The log thread ends after stop.
StopTerminates == (phase = "up" /\ ~running) ~> (phase # "up" \/ tpc = "exited")

\* A restart after a crash reads the log and comes up (docs/design/miniob-durability.md).
RestartSucceeds == phase # "refused"
=============================================================================
