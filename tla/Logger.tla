------------------------------ MODULE Logger ------------------------------
(***************************************************************************)
(* source/utils/logger.c: the log file behind its buffer in memory.        *)
(* _log_print and port_trace hold the log mutex from formatting a line to  *)
(* handing it to the buffer; logger_flush itself takes no lock, and        *)
(* fatal_error and System.exit call it without one.  The program may die   *)
(* in any state: what a crash leaves behind is disk.                       *)
(*                                                                         *)
(* A line is n cells <<t, k, i>>: cell i of the k-th line of thread t.     *)
(* The mutex exists before there is a second thread, because main logs     *)
(* first; a line is always shorter than the buffer (2048 and 4096 bytes).  *)
(***************************************************************************)
EXTENDS Integers, Sequences, FiniteSets

CONSTANTS Threads, NoOne,  \* the threads that log; no thread
          Leavers,         \* those that may call fatal_error or System.exit
          Cap,             \* LOG_FILE_BUFFER_SIZE
          Every,           \* LOG_FILE_FLUSH_EVERY
          Sizes,           \* the lengths of lines
          MaxLines         \* bound of the model: lines per thread

ASSUME LoggerAssumption ==
  /\ NoOne \notin Threads /\ Leavers \subseteq Threads
  /\ Cap \in Nat \ {0} /\ Every \in Nat \ {0} /\ MaxLines \in Nat
  /\ Sizes \subseteq 1..Cap - 1

VARIABLES
  fileOpen,        \* _log_file_fd >= 0
  buffer, len,     \* _log_file_buffer, _log_file_buffer_len
  pending,         \* _log_file_pending_lines
  mutex,           \* the owner of _log_mutex
  disk,            \* what sceIoWrite has put into the file
  pc, after,       \* a thread: where it is; where its logger_flush returns to
  size, important, \* the line a thread is printing
  at,              \* the buffer length it has read
  count,           \* lines the thread has started
  log, urgent      \* history: all cells handed over, in order; lines that must be out

file   == <<fileOpen, buffer, len, pending, disk>>
thread == <<pc, after, size, important, at, count>>
vars   == <<file, mutex, thread, log, urgent>>

Cell == Threads \X (1..MaxLines) \X (1..Cap)
Blank == <<NoOne, 0, 0>>

\* Slips the checks below must notice; nothing uses them.
MutFits(n) == len + n <= Cap + 1
MutOnlyWhenFull(t) == important[t]
MutNotUrgent(t) == pending + 1 >= Every
MutUnlocked == TRUE

Unlocked == mutex = NoOne
Fits(n) == len + n <= Cap
MustFlush(t) == important[t] \/ pending + 1 >= Every
Cells(t) == [i \in 1..size[t] |-> <<t, count[t], i>>]
Stored(n) == [i \in 1..n |-> buffer[i - 1]]
Goto(t, where) == pc' = [pc EXCEPT ![t] = where]
-----------------------------------------------------------------------------
\* logger_init: the file may fail to open, and then only the console has the log.
Init ==
  /\ fileOpen \in BOOLEAN
  /\ buffer = [i \in 0..Cap - 1 |-> Blank] /\ len = 0 /\ pending = 0 /\ disk = << >>
  /\ mutex = NoOne
  /\ pc = [t \in Threads |-> "idle"] /\ after = [t \in Threads |-> "idle"]
  /\ size = [t \in Threads |-> 0] /\ important = [t \in Threads |-> FALSE]
  /\ at = [t \in Threads |-> 0] /\ count = [t \in Threads |-> 0]
  /\ log = << >> /\ urgent = {}
-----------------------------------------------------------------------------
\* _log_print or port_trace: lock and format.
LogLine(t, n, imp) ==
  /\ pc[t] = "idle" /\ Unlocked /\ count[t] < MaxLines
  /\ mutex' = t
  /\ size' = [size EXCEPT ![t] = n] /\ important' = [important EXCEPT ![t] = imp]
  /\ count' = [count EXCEPT ![t] = @ + 1]
  /\ Goto(t, "fit")
  /\ UNCHANGED <<file, after, at, log, urgent>>

\* _log_write_sinks: make room if the line does not fit.
Fit(t) ==
  /\ pc[t] = "fit"
  /\ IF ~fileOpen THEN Goto(t, "unlock") /\ after' = after
     ELSE IF Fits(size[t]) THEN Goto(t, "copy") /\ after' = after
     ELSE Goto(t, "flush") /\ after' = [after EXCEPT ![t] = "copy"]
  /\ UNCHANGED <<file, mutex, size, important, at, count, log, urgent>>

Copy(t) ==
  /\ pc[t] = "copy"
  /\ at' = [at EXCEPT ![t] = len]
  /\ buffer' = [i \in 0..Cap - 1 |-> IF i \in len..len + size[t] - 1
                                      THEN <<t, count[t], i - len + 1>> ELSE buffer[i]]
  /\ log' = log \o Cells(t)
  /\ Goto(t, "count")
  /\ UNCHANGED <<fileOpen, len, pending, disk, mutex, after, size, important, count, urgent>>

\* len += n, from the value read for the copy or from memory: the build may do either.
Count(t) ==
  /\ pc[t] = "count"
  /\ len' \in {at[t] + size[t], len + size[t]}
  /\ pending' = pending + 1
  /\ IF MustFlush(t) THEN Goto(t, "flush") /\ after' = [after EXCEPT ![t] = "unlock"]
     ELSE Goto(t, "unlock") /\ after' = after
  /\ UNCHANGED <<fileOpen, buffer, disk, mutex, size, important, at, count, log, urgent>>

Unlock(t) ==
  /\ pc[t] = "unlock"
  /\ mutex' = NoOne
  /\ urgent' = IF important[t] THEN urgent \cup {<<t, count[t]>>} ELSE urgent
  /\ Goto(t, "idle")
  /\ UNCHANGED <<file, after, size, important, at, count, log>>
-----------------------------------------------------------------------------
\* logger_flush: write what there is and reset the length, then the count of lines.
FlushWrite(t) ==
  /\ pc[t] = "flush"
  /\ IF fileOpen /\ len > 0 THEN disk' = disk \o Stored(len) /\ Goto(t, "reset")
     ELSE disk' = disk /\ Goto(t, "clear")
  /\ UNCHANGED <<fileOpen, buffer, len, pending, mutex, after, size, important, at,
                 count, log, urgent>>

FlushReset(t) ==
  /\ pc[t] = "reset"
  /\ len' = 0
  /\ Goto(t, "clear")
  /\ UNCHANGED <<fileOpen, buffer, pending, disk, mutex, after, size, important, at, count,
                 log, urgent>>

FlushClear(t) ==
  /\ pc[t] = "clear"
  /\ pending' = 0
  /\ Goto(t, after[t])
  /\ UNCHANGED <<fileOpen, buffer, len, disk, mutex, after, size, important, at, count,
                 log, urgent>>

\* fatal_error and method_exit flush without the mutex; the process ends at once, or when
\* the player has closed the dialog, and the other threads run until then.
Leave(t) ==
  /\ pc[t] = "idle"
  /\ Goto(t, "flush") /\ after' = [after EXCEPT ![t] = "leaving"]
  /\ UNCHANGED <<file, mutex, size, important, at, count, log, urgent>>
-----------------------------------------------------------------------------
Logging(t) ==
  \/ \E n \in Sizes, imp \in BOOLEAN : LogLine(t, n, imp)
  \/ Fit(t) \/ Copy(t) \/ Count(t) \/ Unlock(t)
  \/ FlushWrite(t) \/ FlushReset(t) \/ FlushClear(t)

Next == (\E t \in Threads : Logging(t)) \/ (\E t \in Leavers : Leave(t))

Spec == Init /\ [][Next]_vars
-----------------------------------------------------------------------------
OnDisk(line) == \E i \in DOMAIN disk : <<disk[i][1], disk[i][2]>> = line
\* Inside logger_flush.
Flushing == {"flush", "reset", "clear"}

\* The thread is between lock and unlock of the mutex.
Holding(t) == \/ pc[t] \in {"fit", "copy", "count", "unlock"}
              \/ pc[t] \in Flushing /\ after[t] # "leaving"

FileType ==
  /\ fileOpen \in BOOLEAN
  /\ buffer \in [0..Cap - 1 -> Cell \cup {Blank}] /\ len \in 0..Cap /\ pending \in 0..Every
  /\ mutex \in Threads \cup {NoOne}
ThreadType ==
  /\ pc \in [Threads -> {"idle", "fit", "copy", "count", "unlock", "flush", "reset",
                         "clear", "leaving"}]
  /\ after \in [Threads -> {"idle", "copy", "unlock", "leaving"}]
  /\ size \in [Threads -> {0} \cup Sizes] /\ important \in [Threads -> BOOLEAN]
  /\ at \in [Threads -> 0..Cap] /\ count \in [Threads -> 0..MaxLines]
HistoryType ==
  /\ disk \in Seq(Cell) /\ log \in Seq(Cell)
  /\ urgent \subseteq Threads \X (1..MaxLines)

(* Every variable keeps its type: no length or count runs away.            *)
TypeOK == FileType /\ ThreadType /\ HistoryType

(* A line is never copied past the end of the buffer, even while a thread  *)
(* that leaves the program resets the length without the mutex.            *)
CopyFits == \A t \in Threads : pc[t] = "copy" => len + size[t] <= Cap

\* Nobody has called logger_flush without the mutex.
AllStay == \A t \in Threads : after[t] # "leaving"

(* Whole lines reach the file, each once, in the order in which they were  *)
(* printed: until a thread leaves the program the file and the buffer      *)
(* together are the log.                                                   *)
NothingLost ==
  LET counting == {t \in Threads : pc[t] = "count"}
      resetting == \E t \in Threads : pc[t] = "reset"
      buffered == IF resetting THEN << >>
                  ELSE IF counting = {} THEN Stored(len)
                  ELSE LET t == CHOOSE t \in counting : TRUE IN Stored(at[t] + size[t])
  IN fileOpen /\ AllStay => log = disk \o buffered

(* What a crash can lose is bounded: whenever nobody is printing or        *)
(* leaving, fewer than LOG_FILE_FLUSH_EVERY lines are in memory only.      *)
BoundedLoss ==
  fileOpen /\ AllStay /\ mutex = NoOne =>
    Cardinality({<<log[i][1], log[i][2]>> : i \in DOMAIN log}
                \ {<<disk[i][1], disk[i][2]>> : i \in DOMAIN disk}) < Every

(* "WARN/ERROR/FATAL lines and port_trace() always flush immediately": when *)
(* the call that printed such a line has returned, the line is in the file. *)
UrgentOnDisk == fileOpen => \A line \in urgent : OnDisk(line)

(* The same, until a thread leaves the program.                            *)
UrgentWhileAllStay == AllStay => UrgentOnDisk

(* What makes CopyFits inductive: who prints holds the mutex; a line that  *)
(* fitted still fits, since others can only empty the buffer; the flush    *)
(* that the counter demands comes before the next line; and every cell     *)
(* below the length has been written.                                      *)
Exclusive ==
  /\ \A t \in Threads : Holding(t) <=> mutex = t
  /\ \A t \in Threads :
       pc[t] \in Flushing => after[t] \in {"copy", "unlock", "leaving"}
  /\ \A t \in Threads : pc[t] = "leaving" => after[t] = "leaving"
Room ==
  /\ CopyFits
  /\ \A t \in Threads : pc[t] = "count" => at[t] + size[t] <= Cap /\ len + size[t] <= Cap
  /\ \A t \in Threads : Holding(t) => size[t] \in Sizes /\ count[t] > 0
  /\ \A t \in Threads : pc[t] \in Flushing /\ after[t] = "copy" =>
       fileOpen /\ (pc[t] = "clear" => len = 0)
Due ==
  pending = Every => \E t \in Threads : pc[t] \in Flushing /\ after[t] = "unlock"
Written ==
  /\ \A i \in 0..len - 1 : buffer[i] \in Cell
  /\ \A t \in Threads : pc[t] = "count" => \A i \in 0..at[t] + size[t] - 1 : buffer[i] \in Cell
  /\ \A t \in Threads : pc[t] = "count" => \A i \in 0..len + size[t] - 1 : buffer[i] \in Cell
IInv == TypeOK /\ Exclusive /\ Room /\ Due /\ Written

(* Nothing is invented, whoever leaves: every cell of the file was         *)
(* printed, although logger_flush without the mutex may run while a line   *)
(* is being copied or counted, and two of them at once.                    *)
Printed == {log[i] : i \in DOMAIN log}
NothingInvented == \A i \in DOMAIN disk : disk[i] \in Printed

\* What makes it inductive: a cell of the buffer was printed, or was never written.
BufferPrinted == \A i \in 0..Cap - 1 : buffer[i] \in Printed \cup {Blank}
PInv == NothingInvented /\ BufferPrinted
=============================================================================
