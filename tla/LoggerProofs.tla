---------------------------- MODULE LoggerProofs ----------------------------
(***************************************************************************)
(* Theorems about Logger, for any number of threads, any lines and any     *)
(* buffer, whoever leaves the program meanwhile.                           *)
(***************************************************************************)
EXTENDS Logger, SequenceTheorems, FiniteSetTheorems, TLAPS

USE LoggerAssumption
USE DEF Unlocked, Fits, MustFlush, Goto, Flushing, file, thread

LEMMA SizeFacts ==
  ASSUME TypeOK PROVE \A u \in Threads : size[u] \in Nat /\ size[u] < Cap
<1> SUFFICES ASSUME NEW u \in Threads PROVE size[u] \in Nat /\ size[u] < Cap
  OBVIOUS
<1>1. size[u] \in {0} \cup Sizes
  BY DEF TypeOK, ThreadType
<1>2. CASE size[u] \in Sizes
  <2>1. size[u] \in 1..Cap - 1
    BY <1>2
  <2> QED
    BY <2>1
<1> QED
  BY <1>1, <1>2

LEMMA InitInvariant == Init => IInv
<1> SUFFICES ASSUME Init PROVE IInv
  OBVIOUS
<1>1. FileType
  BY DEF Init, FileType, Blank
<1>2. ThreadType
  BY DEF Init, ThreadType
<1>3. HistoryType
  BY DEF Init, HistoryType
<1>4. Exclusive /\ Room /\ Due
  BY DEF Init, Exclusive, Room, Due, CopyFits, Holding
<1>5. Written
  BY DEF Init, Written
<1> QED
  BY <1>1, <1>2, <1>3, <1>4, <1>5 DEF IInv, TypeOK

LEMMA LogLineStep ==
  ASSUME IInv, NEW t \in Threads, NEW n \in Sizes, NEW imp \in BOOLEAN, LogLine(t, n, imp) PROVE IInv'
<1> USE DEF IInv, TypeOK, LogLine
<1>1. FileType'
  BY DEF FileType, ThreadType, Room, CopyFits, Due, Exclusive, Holding
<1>2. ThreadType'
  BY DEF FileType, ThreadType
<1>3. HistoryType'
  BY DEF FileType, ThreadType, HistoryType, Room, Exclusive, Holding
<1>4. Exclusive'
  BY DEF FileType, ThreadType, Exclusive, Holding
<1>5. Room'
  BY DEF FileType, ThreadType, Exclusive, Room, CopyFits, Holding
<1>6. Due'
  BY DEF FileType, ThreadType, Exclusive, Room, Due, Holding
<1>7. Written'
  <2>1. \A u \in Threads : pc'[u] = "count" => pc[u] = "count" /\ at'[u] = at[u] /\ size'[u] = size[u]
    BY DEF ThreadType
  <2>2. buffer' = buffer /\ len' = len
    OBVIOUS
  <2> QED
    BY <2>1, <2>2 DEF Written
<1> QED
  BY <1>1, <1>2, <1>3, <1>4, <1>5, <1>6, <1>7

LEMMA FitStep ==
  ASSUME IInv, NEW t \in Threads, Fit(t) PROVE IInv'
<1> USE DEF IInv, TypeOK, Fit
<1>1. FileType'
  BY DEF FileType, ThreadType, Room, CopyFits, Due, Exclusive, Holding
<1>2. ThreadType'
  BY DEF FileType, ThreadType
<1>3. HistoryType'
  BY DEF FileType, ThreadType, HistoryType, Room, Exclusive, Holding
<1>4. Exclusive'
  BY DEF FileType, ThreadType, Exclusive, Holding
<1>5. Room'
  BY DEF FileType, ThreadType, Exclusive, Room, CopyFits, Holding
<1>6. Due'
  BY DEF FileType, ThreadType, Exclusive, Room, Due, Holding
<1>7. Written'
  <2>1. \A u \in Threads : pc'[u] = "count" => pc[u] = "count" /\ at'[u] = at[u] /\ size'[u] = size[u]
    BY DEF ThreadType
  <2>2. buffer' = buffer /\ len' = len
    OBVIOUS
  <2> QED
    BY <2>1, <2>2 DEF Written
<1> QED
  BY <1>1, <1>2, <1>3, <1>4, <1>5, <1>6, <1>7

LEMMA CopyStep ==
  ASSUME IInv, NEW t \in Threads, Copy(t) PROVE IInv'
<1> USE DEF IInv, TypeOK, Copy
<1>0. /\ size[t] \in Sizes /\ size[t] \in Nat /\ len \in Nat /\ len + size[t] <= Cap
      /\ count[t] \in 1..MaxLines
  <2>1. Holding(t) /\ len \in Nat
    BY DEF FileType, Holding
  <2>2. size[t] \in Sizes /\ count[t] > 0 /\ len + size[t] <= Cap
    BY <2>1 DEF Room, CopyFits
  <2>3. count[t] \in 0..MaxLines /\ size[t] \in Nat
    BY SizeFacts DEF ThreadType
  <2> QED
    BY <2>1, <2>2, <2>3
<1>8. \A i \in 0..Cap - 1 : i \in len..len + size[t] - 1 => <<t, count[t], i - len + 1>> \in Cell
  <2> SUFFICES ASSUME NEW i \in 0..Cap - 1, i \in len..len + size[t] - 1
               PROVE  <<t, count[t], i - len + 1>> \in Cell
    OBVIOUS
  <2>1. i - len + 1 \in 1..Cap
    BY <1>0
  <2> QED
    BY <2>1, <1>0 DEF Cell
<1>9. /\ buffer' \in [0..Cap - 1 -> Cell \cup {Blank}]
      /\ \A i \in 0..Cap - 1 : buffer'[i] = IF i \in len..len + size[t] - 1
                                            THEN <<t, count[t], i - len + 1>> ELSE buffer[i]
  BY <1>8 DEF FileType
<1>1. FileType'
  BY <1>9 DEF FileType
<1>2. ThreadType'
  BY DEF FileType, ThreadType
<1>3. HistoryType'
  <2>1. \A i \in 1..size[t] : <<t, count[t], i>> \in Cell
    <3> SUFFICES ASSUME NEW i \in 1..size[t] PROVE <<t, count[t], i>> \in Cell
      OBVIOUS
    <3>1. i \in 1..Cap
      BY <1>0
    <3> QED
      BY <3>1, <1>0 DEF Cell
  <2>2. Cells(t) \in Seq(Cell)
    <3> DEFINE n == size[t]
    <3>1. n \in Nat /\ Cells(t) = [i \in 1..n |-> <<t, count[t], i>>]
      BY <1>0 DEF Cells
    <3>2. Cells(t) \in [1..n -> Cell]
      BY <2>1, <3>1
    <3> HIDE DEF n
    <3> QED
      BY <3>1, <3>2
  <2> QED
    BY <2>2 DEF HistoryType
<1>4. Exclusive'
  BY DEF FileType, ThreadType, Exclusive, Holding
<1>5. Room'
  BY DEF FileType, ThreadType, Exclusive, Room, CopyFits, Holding
<1>6. Due'
  BY DEF FileType, ThreadType, Exclusive, Room, Due, Holding
<1>7. Written'
  <2>1. \A i \in 0..len + size[t] - 1 : buffer'[i] \in Cell
    <3> SUFFICES ASSUME NEW i \in 0..len + size[t] - 1 PROVE buffer'[i] \in Cell
      OBVIOUS
    <3>1. i \in 0..Cap - 1
      BY <1>0
    <3>2. CASE i \in len..len + size[t] - 1
      BY <3>1, <3>2, <1>8, <1>9
    <3>3. CASE i \in 0..len - 1
      <4>1. i \notin len..len + size[t] - 1 /\ buffer[i] \in Cell
        BY <3>3, <1>0 DEF Written
      <4> QED
        BY <3>1, <4>1, <1>9
    <3> QED
      BY <3>2, <3>3, <1>0
  <2>2. \A u \in Threads : pc'[u] = "count" => u = t
    BY DEF ThreadType, Exclusive, Holding
  <2>3. len' = len /\ at'[t] = len /\ size' = size
    BY DEF ThreadType
  <2>4. \A i \in 0..len' - 1 : buffer'[i] \in Cell
    <3>1. \A i \in 0..len - 1 : i \in 0..len + size[t] - 1
      BY <1>0
    <3> QED
      BY <2>1, <2>3, <3>1
  <2> QED
    BY <2>1, <2>2, <2>3, <2>4 DEF Written
<1> QED
  BY <1>1, <1>2, <1>3, <1>4, <1>5, <1>6, <1>7

LEMMA CountStep ==
  ASSUME IInv, NEW t \in Threads, Count(t) PROVE IInv'
<1> USE DEF IInv, TypeOK, Count
<1>0. /\ len \in Nat /\ at[t] \in Nat /\ size[t] \in Nat /\ pending \in Nat
      /\ at[t] + size[t] <= Cap /\ len + size[t] <= Cap
      /\ len' = at[t] + size[t] \/ len' = len + size[t]
  BY SizeFacts DEF FileType, ThreadType, Room
<1>1. FileType'
  <2>1. mutex = t /\ \A u \in Threads \ {t} : ~Holding(u)
    BY DEF Exclusive, Holding
  <2>2. \A u \in Threads : ~(pc[u] \in Flushing /\ after[u] = "unlock")
    BY <2>1 DEF Holding
  <2>3. pending # Every /\ pending \in 0..Every
    BY <2>2 DEF Due, FileType
  <2>4. pending' \in 0..Every
    BY <2>3
  <2>5. len' \in 0..Cap
    BY <1>0
  <2> QED
    BY <2>4, <2>5 DEF FileType
<1>2. ThreadType'
  BY DEF FileType, ThreadType
<1>3. HistoryType'
  BY DEF FileType, ThreadType, HistoryType, Room, Exclusive, Holding
<1>4. Exclusive'
  BY DEF FileType, ThreadType, Exclusive, Holding
<1>5. Room'
  BY DEF FileType, ThreadType, Exclusive, Room, CopyFits, Holding
<1>6. Due'
  BY DEF FileType, ThreadType, Exclusive, Room, Due, Holding
<1>7. Written'
  <2>1. pc[t] = "count" /\ buffer' = buffer
    OBVIOUS
  <2>2. \A u \in Threads : pc'[u] # "count"
    BY DEF ThreadType, Exclusive, Holding
  <2>3. \A i \in 0..len' - 1 : buffer[i] \in Cell
    <3>0. /\ \A i \in 0..at[t] + size[t] - 1 : buffer[i] \in Cell
          /\ \A i \in 0..len + size[t] - 1 : buffer[i] \in Cell
      BY <2>1 DEF Written
    <3>a. SUFFICES ASSUME NEW i \in 0..len' - 1 PROVE buffer[i] \in Cell
      OBVIOUS
    <3>1. CASE len' = at[t] + size[t]
      <4>1. i \in 0..at[t] + size[t] - 1
        BY <1>0, <3>1
      <4> QED
        BY ONLY <3>0, <4>1
    <3>2. CASE len' = len + size[t]
      <4>1. i \in 0..len + size[t] - 1
        BY <1>0, <3>2
      <4> QED
        BY ONLY <3>0, <4>1
    <3> QED
      BY <3>1, <3>2
  <2> QED
    BY <2>1, <2>2, <2>3 DEF Written
<1> QED
  BY <1>1, <1>2, <1>3, <1>4, <1>5, <1>6, <1>7

LEMMA FlushWriteStep ==
  ASSUME IInv, NEW t \in Threads, FlushWrite(t) PROVE IInv'
<1> USE DEF IInv, TypeOK, FlushWrite
<1>1. FileType'
  BY DEF FileType, ThreadType, Room, CopyFits, Due, Exclusive, Holding
<1>2. ThreadType'
  BY DEF FileType, ThreadType
<1>3. HistoryType'
  <2>1. len \in Nat /\ \A i \in 1..len : buffer[i - 1] \in Cell
    BY DEF FileType, Written
  <2>2. Stored(len) \in Seq(Cell)
    BY <2>1 DEF Stored
  <2>3. disk \o Stored(len) \in Seq(Cell)
    BY <2>2 DEF HistoryType
  <2>4. disk' \in Seq(Cell)
    BY <2>3 DEF HistoryType
  <2> QED
    BY <2>4 DEF HistoryType
<1>4. Exclusive'
  <2>1. /\ UNCHANGED <<mutex, after>> /\ pc[t] = "flush" /\ pc'[t] \in {"reset", "clear"}
        /\ \A u \in Threads \ {t} : pc'[u] = pc[u]
    BY DEF ThreadType
  <2>2. \A u \in Threads : Holding(u)' <=> Holding(u)
    <3>1. \A u \in Threads : (pc'[u] \in Flushing <=> pc[u] \in Flushing)
            /\ (pc'[u] \in {"fit", "copy", "count", "unlock"} <=> pc[u] \in {"fit", "copy", "count", "unlock"})
      BY <2>1
    <3> QED
      BY <2>1, <3>1 DEF Holding
  <2>3. \A u \in Threads : pc'[u] \in Flushing => after'[u] \in {"copy", "unlock", "leaving"}
    BY <2>1 DEF Exclusive
  <2>4. \A u \in Threads : pc'[u] = "leaving" => after'[u] = "leaving"
    BY <2>1 DEF Exclusive
  <2>5. \A u \in Threads : Holding(u)' <=> mutex' = u
    BY <2>1, <2>2 DEF Exclusive
  <2> QED
    BY <2>3, <2>4, <2>5 DEF Exclusive
<1>5. Room'
  <2>1. /\ UNCHANGED <<fileOpen, len, size, at, count, after>> /\ pc[t] = "flush"
        /\ pc'[t] \in {"reset", "clear"} /\ \A u \in Threads \ {t} : pc'[u] = pc[u]
        /\ pc'[t] = "clear" => ~(fileOpen /\ len > 0)
    BY DEF ThreadType
  <2>2. \A u \in Threads : (pc'[u] = "count" => pc[u] = "count") /\ (pc'[u] = "copy" => pc[u] = "copy")
    BY <2>1
  <2>3. \A u \in Threads : Holding(u)' => Holding(u)
    BY <2>1 DEF Holding
  <2>4. CopyFits'
    BY <2>1, <2>2 DEF Room, CopyFits
  <2>5. \A u \in Threads : pc'[u] = "count" => at'[u] + size'[u] <= Cap /\ len' + size'[u] <= Cap
    BY <2>1, <2>2 DEF Room
  <2>6. \A u \in Threads : Holding(u)' => size'[u] \in Sizes /\ count'[u] > 0
    BY <2>1, <2>3 DEF Room
  <2>7. ASSUME NEW u \in Threads, pc'[u] \in Flushing, after'[u] = "copy"
        PROVE  fileOpen' /\ (pc'[u] = "clear" => len' = 0)
    <3>1. pc[u] \in Flushing /\ after[u] = "copy"
      BY <2>1, <2>7
    <3>2. fileOpen /\ (pc[u] = "clear" => len = 0) /\ len \in 0..Cap
      BY <3>1 DEF Room, FileType
    <3>3. u = t => (pc'[u] = "clear" => len = 0)
      BY <2>1, <3>2
    <3> QED
      BY <2>1, <3>2, <3>3
  <2> QED
    BY <2>4, <2>5, <2>6, <2>7 DEF Room
<1>6. Due'
  BY DEF FileType, ThreadType, Exclusive, Room, Due, Holding
<1>7. Written'
  <2>1. \A u \in Threads : pc'[u] = "count" => pc[u] = "count" /\ at'[u] = at[u] /\ size'[u] = size[u]
    BY DEF ThreadType
  <2>2. buffer' = buffer /\ len' = len
    OBVIOUS
  <2> QED
    BY <2>1, <2>2 DEF Written
<1> QED
  BY <1>1, <1>2, <1>3, <1>4, <1>5, <1>6, <1>7

LEMMA FlushResetStep ==
  ASSUME IInv, NEW t \in Threads, FlushReset(t) PROVE IInv'
<1> USE DEF IInv, TypeOK, FlushReset
<1>1. FileType'
  BY DEF FileType, ThreadType, Room, CopyFits, Due, Exclusive, Holding
<1>2. ThreadType'
  BY DEF FileType, ThreadType
<1>3. HistoryType'
  BY DEF FileType, ThreadType, HistoryType, Room, Exclusive, Holding
<1>4. Exclusive'
  BY DEF FileType, ThreadType, Exclusive, Holding
<1>5. Room'
  <2>0. \A u \in Threads : size[u] \in Nat /\ size[u] < Cap
    BY SizeFacts
  <2>1. len' = 0 /\ len \in Nat /\ size' = size /\ at' = at /\ count' = count
    BY DEF FileType
  <2>2. \A u \in Threads : pc'[u] = "count" => pc[u] = "count"
    BY DEF ThreadType, Exclusive
  <2>3. \A u \in Threads : Holding(u)' => Holding(u)
    BY DEF ThreadType, Exclusive, Holding
  <2>4. CopyFits'
    BY <2>0, <2>1 DEF CopyFits
  <2>5. \A u \in Threads : pc'[u] = "count" => at'[u] + size'[u] <= Cap /\ len' + size'[u] <= Cap
    BY <2>0, <2>1, <2>2 DEF Room
  <2> QED
    BY <2>1, <2>3, <2>4, <2>5 DEF Room
<1>6. Due'
  BY DEF FileType, ThreadType, Exclusive, Room, Due, Holding
<1>7. Written'
  <2>1. \A u \in Threads : pc'[u] = "count" => pc[u] = "count" /\ at'[u] = at[u] /\ size'[u] = size[u]
    BY DEF ThreadType, Exclusive
  <2>2. buffer' = buffer /\ len' = 0 /\ len \in Nat
    BY DEF FileType
  <2>3. \A u \in Threads : size[u] \in Nat
    BY SizeFacts
  <2>4. ASSUME NEW u \in Threads, pc'[u] = "count", NEW i \in 0..len' + size'[u] - 1
        PROVE  buffer'[i] \in Cell
    <3>1. i \in 0..len + size[u] - 1
      BY <2>1, <2>2, <2>3, <2>4
    <3> QED
      BY <2>1, <2>2, <2>4, <3>1 DEF Written
  <2> QED
    BY <2>1, <2>2, <2>4 DEF Written
<1> QED
  BY <1>1, <1>2, <1>3, <1>4, <1>5, <1>6, <1>7

LEMMA FlushClearStep ==
  ASSUME IInv, NEW t \in Threads, FlushClear(t) PROVE IInv'
<1> USE DEF IInv, TypeOK, FlushClear
<1>1. FileType'
  BY DEF FileType, ThreadType, Room, CopyFits, Due, Exclusive, Holding
<1>2. ThreadType'
  BY DEF FileType, ThreadType
<1>3. HistoryType'
  BY DEF FileType, ThreadType, HistoryType, Room, Exclusive, Holding
<1>4. Exclusive'
  BY DEF FileType, ThreadType, Exclusive, Holding
<1>5. Room'
  <2>1. UNCHANGED <<len, size, at, count>>
    OBVIOUS
  <2>2. \A u \in Threads : (pc'[u] = "count" => pc[u] = "count") /\ (Holding(u)' => Holding(u))
    BY DEF ThreadType, Exclusive, Holding
  <2>3. ASSUME NEW u \in Threads, pc'[u] = "copy" PROVE len + size[u] <= Cap
    <3>1. CASE pc[u] = "copy"
      BY <3>1 DEF Room, CopyFits
    <3>2. CASE pc[u] # "copy"
      <4>1. u = t /\ after[t] = "copy"
        BY <2>3, <3>2 DEF ThreadType
      <4>2. len = 0 /\ size[u] \in Nat /\ size[u] < Cap
        BY <4>1, SizeFacts DEF Room
      <4> QED
        BY <4>2
    <3> QED
      BY <3>1, <3>2
  <2>4. UNCHANGED fileOpen /\ \A u \in Threads :
          pc'[u] \in Flushing => pc'[u] = pc[u] /\ after'[u] = after[u]
    BY DEF ThreadType, Exclusive
  <2>5. \A u \in Threads : pc'[u] = "count" =>
          at'[u] + size'[u] <= Cap /\ len' + size'[u] <= Cap
    BY <2>1, <2>2 DEF Room
  <2>6. \A u \in Threads : Holding(u)' => size'[u] \in Sizes /\ count'[u] > 0
    BY <2>1, <2>2 DEF Room
  <2>7. \A u \in Threads : pc'[u] \in Flushing /\ after'[u] = "copy" =>
          fileOpen' /\ (pc'[u] = "clear" => len' = 0)
    BY <2>1, <2>4 DEF Room
  <2>8. CopyFits'
    BY <2>1, <2>3 DEF CopyFits
  <2> QED
    BY <2>5, <2>6, <2>7, <2>8 DEF Room
<1>6. Due'
  BY DEF FileType, ThreadType, Exclusive, Room, Due, Holding
<1>7. Written'
  <2>1. \A u \in Threads : pc'[u] = "count" => pc[u] = "count" /\ at'[u] = at[u] /\ size'[u] = size[u]
    BY DEF ThreadType, Exclusive
  <2>2. buffer' = buffer /\ len' = len
    OBVIOUS
  <2> QED
    BY <2>1, <2>2 DEF Written
<1> QED
  BY <1>1, <1>2, <1>3, <1>4, <1>5, <1>6, <1>7

LEMMA UnlockStep ==
  ASSUME IInv, NEW t \in Threads, Unlock(t) PROVE IInv'
<1> USE DEF IInv, TypeOK, Unlock
<1>1. FileType'
  BY DEF FileType, ThreadType, Room, CopyFits, Due, Exclusive, Holding
<1>2. ThreadType'
  BY DEF FileType, ThreadType
<1>3. HistoryType'
  BY DEF FileType, ThreadType, HistoryType, Room, Exclusive, Holding
<1>4. Exclusive'
  BY DEF FileType, ThreadType, Exclusive, Holding
<1>5. Room'
  BY DEF FileType, ThreadType, Exclusive, Room, CopyFits, Holding
<1>6. Due'
  BY DEF FileType, ThreadType, Exclusive, Room, Due, Holding
<1>7. Written'
  <2>1. \A u \in Threads : pc'[u] = "count" => pc[u] = "count" /\ at'[u] = at[u] /\ size'[u] = size[u]
    BY DEF ThreadType
  <2>2. buffer' = buffer /\ len' = len
    OBVIOUS
  <2> QED
    BY <2>1, <2>2 DEF Written
<1> QED
  BY <1>1, <1>2, <1>3, <1>4, <1>5, <1>6, <1>7

LEMMA LeaveStep ==
  ASSUME IInv, NEW t \in Threads, Leave(t) PROVE IInv'
<1> USE DEF IInv, TypeOK, Leave
<1>1. FileType'
  BY DEF FileType, ThreadType, Room, CopyFits, Due, Exclusive, Holding
<1>2. ThreadType'
  BY DEF FileType, ThreadType
<1>3. HistoryType'
  BY DEF FileType, ThreadType, HistoryType, Room, Exclusive, Holding
<1>4. Exclusive'
  BY DEF FileType, ThreadType, Exclusive, Holding
<1>5. Room'
  BY DEF FileType, ThreadType, Exclusive, Room, CopyFits, Holding
<1>6. Due'
  BY DEF FileType, ThreadType, Exclusive, Room, Due, Holding
<1>7. Written'
  <2>1. \A u \in Threads : pc'[u] = "count" => pc[u] = "count" /\ at'[u] = at[u] /\ size'[u] = size[u]
    BY DEF ThreadType
  <2>2. buffer' = buffer /\ len' = len
    OBVIOUS
  <2> QED
    BY <2>1, <2>2 DEF Written
<1> QED
  BY <1>1, <1>2, <1>3, <1>4, <1>5, <1>6, <1>7

LEMMA NextInvariant == IInv /\ [Next]_vars => IInv'
<1> SUFFICES ASSUME IInv, [Next]_vars PROVE IInv'
  OBVIOUS
<1>1. CASE \E t \in Threads : Logging(t)
  BY <1>1, LogLineStep, FitStep, CopyStep, CountStep, FlushWriteStep, FlushResetStep,
     FlushClearStep, UnlockStep
  DEF Logging
<1>2. CASE \E t \in Leavers : Leave(t)
  BY <1>2, LeaveStep
<1>3. CASE UNCHANGED vars
  BY <1>3 DEF vars, IInv, TypeOK, FileType, ThreadType, HistoryType, Exclusive, Room, CopyFits,
     Due, Written, Holding
<1> QED
  BY <1>1, <1>2, <1>3 DEF Next

(* The invariant of logger.c holds in every state.                         *)
THEOREM Invariant == Spec => []IInv
  BY InitInvariant, NextInvariant, PTL DEF Spec

(* Every variable keeps its type: the length stays within the buffer and   *)
(* the count of pending lines within LOG_FILE_FLUSH_EVERY.                 *)
THEOREM TypeCorrect == Spec => []TypeOK
  BY Invariant, PTL DEF IInv

(* _log_write_sinks never copies a line past the end of the buffer.        *)
THEOREM NoOverrun == Spec => []CopyFits
<1>1. IInv => CopyFits
  BY DEF IInv, Room
<1> QED
  BY <1>1, Invariant, PTL
-----------------------------------------------------------------------------
(* What is in the file and in the buffer while nobody leaves the program.  *)
LineOf(c) == <<c[1], c[2]>>
Lines(n) == {LineOf(buffer[i]) : i \in 0..n - 1}
Mine(t) == <<t, count[t]>>

\* File and buffer are the log; the buffer holds at most one line per pending count.
Order ==
  /\ (\A t \in Threads : pc[t] \notin {"count", "reset"}) => log = disk \o Stored(len)
  /\ \A t \in Threads : pc[t] = "reset" => log = disk
  /\ \A t \in Threads : pc[t] = "count" =>
       /\ at[t] = len /\ log = disk \o Stored(len + size[t])
       /\ \A i \in len..len + size[t] - 1 : LineOf(buffer[i]) = Mine(t)
Few ==
  (\A t \in Threads : pc[t] # "reset") =>
    /\ IsFiniteSet(Lines(len)) /\ Cardinality(Lines(len)) <= pending
    /\ \A t \in Threads : pc[t] = "clear" => len = 0
\* An urgent line is at the end of the buffer when its flush begins, then in the file.
Soon ==
  /\ \A t \in Threads :
       /\ pc[t] = "flush" /\ after[t] = "unlock" => len > 0 /\ LineOf(buffer[len - 1]) = Mine(t)
       /\ pc[t] \in {"reset", "clear"} /\ after[t] = "unlock" => OnDisk(Mine(t))
       /\ pc[t] = "unlock" /\ important[t] => OnDisk(Mine(t))
  /\ UrgentOnDisk
Leaving == \A t \in Threads : after[t] = "leaving" => pc[t] \in Flushing \cup {"leaving"}
OInv == Leaving /\ (fileOpen /\ AllStay => Order /\ Few /\ Soon)

\* What the steps below start from.
Calm == IInv /\ Leaving /\ fileOpen /\ AllStay /\ Order /\ Few /\ Soon

LEMMA CalmFacts ==
  ASSUME Calm
  PROVE  /\ len \in Nat /\ pending \in Nat /\ disk \in Seq(Cell) /\ log \in Seq(Cell)
         /\ \A t \in Threads : size[t] \in Nat /\ count[t] \in Nat
         /\ \A t, u \in Threads : Holding(t) /\ Holding(u) => t = u
         /\ \A t \in Threads : pc[t] \notin {"idle", "leaving"} => Holding(t)
         /\ \A i \in 0..len - 1 : buffer[i] \in Cell
BY SizeFacts DEF Calm, IInv, TypeOK, FileType, ThreadType, HistoryType, Exclusive, Holding, AllStay, Written

LEMMA StoredSeq ==
  ASSUME NEW n \in Nat, \A i \in 0..n - 1 : buffer[i] \in Cell
  PROVE  Stored(n) \in Seq(Cell) /\ Len(Stored(n)) = n /\ \A i \in 1..n : Stored(n)[i] = buffer[i - 1]
<1>1. \A i \in 1..n : i - 1 \in 0..n - 1
  OBVIOUS
<1> QED BY <1>1 DEF Stored

LEMMA GrowDisk ==
  ASSUME disk \in Seq(Cell), NEW s \in Seq(Cell), disk' = disk \o s
  PROVE  /\ \A line : OnDisk(line) => OnDisk(line)'
         /\ \A i \in 1..Len(s) : OnDisk(LineOf(s[i]))'
<1>1. /\ Len(disk) \in Nat /\ Len(s) \in Nat /\ DOMAIN disk = 1..Len(disk)
      /\ DOMAIN disk' = 1..Len(disk) + Len(s)
      /\ \A i \in 1..Len(disk) : disk'[i] = disk[i]
      /\ \A i \in 1..Len(s) : disk'[Len(disk) + i] = s[i]
  <2>1. /\ disk \o s \in Seq(Cell) /\ Len(disk \o s) = Len(disk) + Len(s)
        /\ \A i \in 1..Len(disk) + Len(s) :
             (disk \o s)[i] = IF i <= Len(disk) THEN disk[i] ELSE s[i - Len(disk)]
    BY ConcatProperties
  <2>2. Len(disk) \in Nat /\ Len(s) \in Nat /\ DOMAIN disk = 1..Len(disk)
    BY LenProperties
  <2>3. \A i \in 1..Len(s) : Len(disk) + i \in 1..Len(disk) + Len(s) /\ ~(Len(disk) + i <= Len(disk))
                              /\ (Len(disk) + i) - Len(disk) = i
    BY <2>2
  <2>4. \A i \in 1..Len(disk) : i \in 1..Len(disk) + Len(s) /\ i <= Len(disk)
    BY <2>2
  <2>5. DOMAIN (disk \o s) = 1..Len(disk) + Len(s)
    BY <2>1, LenProperties
  <2> QED BY <2>1, <2>2, <2>3, <2>4, <2>5
<1>2. /\ \A i \in 1..Len(disk) : i \in DOMAIN disk'
      /\ \A i \in 1..Len(s) : Len(disk) + i \in DOMAIN disk'
  BY <1>1
<1> QED BY <1>1, <1>2 DEF OnDisk, LineOf

\* Only the holder of the mutex is anywhere in the middle of a line.
LEMMA OthersIdle ==
  ASSUME Calm, NEW t \in Threads, Holding(t)
  PROVE  \A u \in Threads \ {t} : pc[u] = "idle"
<1>1. \A u \in Threads \ {t} : pc[u] # "leaving"
  BY DEF Calm, IInv, Exclusive, AllStay
<1> QED BY <1>1, CalmFacts

\* A step that moves only its thread, between places where nothing is copied or flushed.
LEMMA QuietKeeps ==
  ASSUME Calm, NEW t \in Threads, \A u \in Threads \ {t} : pc[u] = "idle",
         UNCHANGED <<buffer, len, pending, disk, log>>,
         pc \in [Threads -> {"idle", "fit", "copy", "count", "unlock", "flush", "reset", "clear", "leaving"}],
         pc[t] \notin {"count", "reset"},
         NEW where \in {"idle", "fit", "copy", "flush"}, pc' = [pc EXCEPT ![t] = where],
         where = "flush" => after'[t] # "unlock",
         \A line \in urgent' \ urgent : OnDisk(line)
  PROVE  Order' /\ Few' /\ Soon'
<1>1. \A u \in Threads : pc[u] \notin {"count", "reset"} /\ pc'[u] \in {"idle", "fit", "copy", "flush"}
  OBVIOUS
<1>2. Order'
  BY <1>1 DEF Calm, Order, Stored
<1>3. Few'
  BY <1>1 DEF Calm, Few, Lines
<1>4. Soon'
  <2>1. \A u \in Threads : ~(pc'[u] = "flush" /\ after'[u] = "unlock")
    OBVIOUS
  <2>2. \A line : OnDisk(line)' = OnDisk(line)
    BY DEF OnDisk
  <2>3. UrgentOnDisk'
    BY <2>2 DEF Calm, Soon, UrgentOnDisk
  <2> QED BY <1>1, <2>1, <2>3 DEF Soon
<1> QED BY <1>2, <1>3, <1>4

LEMMA LogLineOrder ==
  ASSUME Calm, NEW t \in Threads, NEW n \in Sizes, NEW imp \in BOOLEAN, LogLine(t, n, imp)
  PROVE  Order' /\ Few' /\ Soon'
<1>1. /\ pc[t] = "idle" /\ mutex = NoOne /\ pc' = [pc EXCEPT ![t] = "fit"]
      /\ UNCHANGED <<buffer, len, pending, disk, log, urgent>>
      /\ pc \in [Threads -> {"idle", "fit", "copy", "count", "unlock", "flush", "reset", "clear", "leaving"}]
  BY DEF LogLine, Calm, IInv, TypeOK, ThreadType
<1>2. \A u \in Threads : ~Holding(u) /\ pc[u] # "leaving"
  BY <1>1 DEF Calm, IInv, Exclusive, AllStay
<1>3. \A u \in Threads : pc[u] = "idle"
  BY <1>2, CalmFacts
<1> QED BY <1>1, <1>3, QuietKeeps

LEMMA FitOrder ==
  ASSUME Calm, NEW t \in Threads, Fit(t)
  PROVE  Order' /\ Few' /\ Soon'
<1>1. /\ pc[t] = "fit" /\ fileOpen
      /\ UNCHANGED <<buffer, len, pending, disk, log, urgent>>
      /\ pc \in [Threads -> {"idle", "fit", "copy", "count", "unlock", "flush", "reset", "clear", "leaving"}]
      /\ after \in [Threads -> {"idle", "copy", "unlock", "leaving"}]
  BY DEF Fit, Calm, IInv, TypeOK, ThreadType
<1>2. \A u \in Threads \ {t} : pc[u] = "idle"
  BY <1>1, OthersIdle DEF Holding
<1>3. CASE pc' = [pc EXCEPT ![t] = "copy"]
  BY <1>1, <1>2, <1>3, QuietKeeps
<1>4. CASE pc' = [pc EXCEPT ![t] = "flush"] /\ after' = [after EXCEPT ![t] = "copy"]
  <2>1. after'[t] # "unlock"
    BY <1>1, <1>4
  <2> QED BY <1>1, <1>2, <1>4, <2>1, QuietKeeps
<1> QED BY <1>1, <1>3, <1>4 DEF Fit

LEMMA UnlockOrder ==
  ASSUME Calm, NEW t \in Threads, Unlock(t)
  PROVE  Order' /\ Few' /\ Soon'
<1>1. /\ pc[t] = "unlock" /\ pc' = [pc EXCEPT ![t] = "idle"]
      /\ UNCHANGED <<buffer, len, pending, disk, log>>
      /\ urgent' = IF important[t] THEN urgent \cup {Mine(t)} ELSE urgent
      /\ pc \in [Threads -> {"idle", "fit", "copy", "count", "unlock", "flush", "reset", "clear", "leaving"}]
  BY DEF Unlock, Calm, IInv, TypeOK, ThreadType, Mine
<1>2. \A u \in Threads \ {t} : pc[u] = "idle"
  BY <1>1, OthersIdle DEF Holding
<1>3. important[t] => OnDisk(Mine(t))
  BY <1>1 DEF Calm, Soon
<1> QED BY <1>1, <1>2, <1>3, QuietKeeps

LEMMA CopyOrder ==
  ASSUME Calm, NEW t \in Threads, Copy(t)
  PROVE  Order' /\ Few' /\ Soon'
<1> DEFINE n == size[t]
<1>1. /\ pc[t] = "copy" /\ pc' = [pc EXCEPT ![t] = "count"] /\ at' = [at EXCEPT ![t] = len]
      /\ UNCHANGED <<len, pending, disk, size, count, urgent>>
      /\ buffer' = [i \in 0..Cap - 1 |-> IF i \in len..len + n - 1
                                          THEN <<t, count[t], i - len + 1>> ELSE buffer[i]]
      /\ log' = log \o Cells(t)
      /\ pc \in [Threads -> {"idle", "fit", "copy", "count", "unlock", "flush", "reset", "clear", "leaving"}]
      /\ at \in [Threads -> 0..Cap]
  BY DEF Copy, Calm, IInv, TypeOK, ThreadType
<1>2. \A u \in Threads \ {t} : pc[u] = "idle"
  BY <1>1, OthersIdle DEF Holding
<1>3. pc'[t] = "count" /\ at'[t] = len /\ \A u \in Threads \ {t} : pc'[u] = "idle"
  BY <1>1, <1>2
<1>4. log = disk \o Stored(len)
  BY <1>1, <1>2 DEF Calm, Order
<1>5. /\ len \in Nat /\ n \in Nat /\ disk \in Seq(Cell) /\ len + n <= Cap
      /\ n \in Sizes /\ count[t] \in 1..MaxLines
      /\ \A i \in 0..len - 1 : buffer[i] \in Cell
  <2>1. Holding(t)
    BY <1>1 DEF Holding
  <2>2. n \in Sizes /\ count[t] > 0 /\ len + n <= Cap /\ count[t] \in 0..MaxLines
    BY <1>1, <2>1 DEF Calm, IInv, Room, CopyFits, TypeOK, ThreadType
  <2> QED BY <2>2, CalmFacts
<1> HIDE DEF n
<1>6. /\ \A i \in 0..len - 1 : buffer'[i] = buffer[i]
      /\ \A i \in 1..n : buffer'[len + i - 1] = <<t, count[t], i>>
      /\ \A i \in len..len + n - 1 : LineOf(buffer'[i]) = Mine(t)
  <2>1. \A i \in 0..len - 1 : i \in 0..Cap - 1 /\ i \notin len..len + n - 1
    BY <1>5
  <2>2. \A i \in 1..n : /\ len + i - 1 \in 0..Cap - 1 /\ len + i - 1 \in len..len + n - 1
                         /\ (len + i - 1) - len + 1 = i
    BY <1>5
  <2>3. \A i \in len..len + n - 1 : i \in 0..Cap - 1
    BY <1>5
  <2> QED BY <1>1, <2>1, <2>2, <2>3 DEF LineOf, Mine
<1>7. Cells(t) \in Seq(Cell) /\ Len(Cells(t)) = n /\ \A i \in 1..n : Cells(t)[i] = <<t, count[t], i>>
  <2>1. \A i \in 1..n : <<t, count[t], i>> \in Cell
    <3>1. \A i \in 1..n : i \in 1..Cap
      BY <1>5
    <3> QED BY <1>5, <3>1 DEF Cell
  <2>2. Cells(t) = [i \in 1..n |-> <<t, count[t], i>>]
    BY DEF Cells, n
  <2>3. Cells(t) \in [1..n -> Cell]
    BY <2>1, <2>2
  <2> QED BY <1>5, <2>2, <2>3
<1>8. Stored(len) \in Seq(Cell) /\ Len(Stored(len)) = len /\ \A i \in 1..len : Stored(len)[i] = buffer[i - 1]
  BY <1>5, StoredSeq
<1>9. Stored(len + n)' = Stored(len) \o Cells(t)
  <2> DEFINE new == [i \in 1..len + n |-> buffer'[i - 1]]  joined == Stored(len) \o Cells(t)
  <2>1. /\ joined \in Seq(Cell) /\ Len(joined) = len + n
        /\ \A i \in 1..len + n : joined[i] = IF i <= len THEN Stored(len)[i] ELSE Cells(t)[i - len]
    <3>1. /\ joined \in Seq(Cell) /\ Len(joined) = Len(Stored(len)) + Len(Cells(t))
          /\ \A i \in 1..Len(Stored(len)) + Len(Cells(t)) :
               joined[i] = IF i <= Len(Stored(len)) THEN Stored(len)[i]
                           ELSE Cells(t)[i - Len(Stored(len))]
      BY <1>7, <1>8, ConcatProperties
    <3>2. Len(Stored(len)) = len /\ Len(Cells(t)) = n
      BY <1>7, <1>8
    <3> QED BY <3>1, <3>2
  <2>2. \A i \in 1..len + n : joined[i] = buffer'[i - 1]
    <3> SUFFICES ASSUME NEW i \in 1..len + n PROVE joined[i] = buffer'[i - 1]
      OBVIOUS
    <3>1. CASE i <= len
      <4>1. i \in 1..len /\ i - 1 \in 0..len - 1
        BY <1>5, <3>1
      <4>2. joined[i] = buffer[i - 1]
        BY <1>8, <2>1, <3>1, <4>1
      <4> QED BY <1>6, <4>1, <4>2
    <3>2. CASE i > len
      <4>1. i - len \in 1..n /\ len + (i - len) - 1 = i - 1 /\ ~(i <= len)
        BY <1>5, <3>2
      <4>2. joined[i] = <<t, count[t], i - len>>
        BY <1>7, <2>1, <4>1
      <4>3. buffer'[len + (i - len) - 1] = <<t, count[t], i - len>>
        BY <1>6, <4>1
      <4> QED BY <4>1, <4>2, <4>3
    <3>3. i <= len \/ i > len
      BY <1>5
    <3> QED BY <3>1, <3>2, <3>3
  <2>3. new \in Seq(Cell) /\ Len(new) = len + n /\ \A i \in 1..len + n : new[i] = buffer'[i - 1]
    <3>1. \A i \in 1..len + n : buffer'[i - 1] \in Cell
      BY <2>1, <2>2, ElementOfSeq
    <3> QED BY <1>5, <3>1
  <2> HIDE DEF new, joined
  <2>4. new = joined
    BY <2>1, <2>2, <2>3, SeqEqual
  <2>5. Stored(len + n)' = new
    BY <1>1 DEF Stored, new, n
  <2> QED BY <2>4, <2>5 DEF joined
<1>10. log' = disk \o (Stored(len) \o Cells(t))
  <2>1. (disk \o Stored(len)) \o Cells(t) = disk \o (Stored(len) \o Cells(t))
    BY <1>5, <1>7, <1>8, ConcatAssociative
  <2> QED BY <1>1, <1>4, <2>1
<1>11. Order'
  <2>1. \A u \in Threads : pc'[u] = "count" => u = t
    BY <1>3
  <2>2. log' = disk' \o Stored(len + n)'
    BY <1>1, <1>9, <1>10
  <2> QED BY <1>1, <1>3, <1>6, <2>1, <2>2 DEF Order, n, Mine
<1>12. Few'
  <2>1. Lines(len)' = Lines(len)
    BY <1>1, <1>6 DEF Lines
  <2> QED BY <1>1, <1>2, <2>1 DEF Calm, Few
<1>13. Soon'
  <2>1. \A line : OnDisk(line)' = OnDisk(line)
    BY <1>1 DEF OnDisk
  <2>2. UrgentOnDisk'
    BY <1>1, <2>1 DEF Calm, Soon, UrgentOnDisk
  <2> QED BY <1>3, <2>2 DEF Soon
<1> QED BY <1>11, <1>12, <1>13

LEMMA CountOrder ==
  ASSUME Calm, NEW t \in Threads, Count(t)
  PROVE  Order' /\ Few' /\ Soon'
<1> DEFINE n == size[t]
<1>1. /\ pc[t] = "count" /\ UNCHANGED <<buffer, disk, important, count, log, urgent>>
      /\ len' \in {at[t] + n, len + n} /\ pending' = pending + 1
      /\ pc \in [Threads -> {"idle", "fit", "copy", "count", "unlock", "flush", "reset", "clear", "leaving"}]
      /\ \/ pc' = [pc EXCEPT ![t] = "flush"]
         \/ pc' = [pc EXCEPT ![t] = "unlock"] /\ ~important[t]
  BY DEF Count, Calm, IInv, TypeOK, ThreadType
<1>2. \A u \in Threads \ {t} : pc[u] = "idle"
  BY <1>1, OthersIdle DEF Holding
<1>3. /\ pc'[t] = "flush" \/ (pc'[t] = "unlock" /\ ~important[t])
      /\ \A u \in Threads \ {t} : pc'[u] = "idle"
  <2>1. CASE pc' = [pc EXCEPT ![t] = "flush"]
    BY <1>1, <1>2, <2>1
  <2>2. CASE pc' = [pc EXCEPT ![t] = "unlock"] /\ ~important[t]
    BY <1>1, <1>2, <2>2
  <2> QED BY <1>1, <2>1, <2>2
<1>4. /\ at[t] = len /\ log = disk \o Stored(len + n)
      /\ \A i \in len..len + n - 1 : LineOf(buffer[i]) = Mine(t)
  <2>1. Order /\ pc[t] = "count"
    BY <1>1 DEF Calm
  <2> QED BY <2>1 DEF Order
<1>5. len \in Nat /\ n \in Nat /\ n > 0 /\ pending \in Nat
  <2>1. Holding(t)
    BY <1>1 DEF Holding
  <2>2. n \in Sizes
    BY <2>1 DEF Calm, IInv, Room
  <2> QED BY <2>2, CalmFacts
<1>6. len' = len + n
  BY <1>1, <1>4
<1> HIDE DEF n
<1>7. Order'
  <2>1. Stored(len)' = Stored(len + n)
    BY <1>1, <1>6 DEF Stored
  <2> QED BY <1>1, <1>3, <1>4, <2>1 DEF Order
<1>8. Few'
  <2>1. IsFiniteSet(Lines(len)) /\ Cardinality(Lines(len)) <= pending
    BY <1>1, <1>2 DEF Calm, Few
  <2>2. Lines(len)' \subseteq Lines(len) \cup {Mine(t)}
    <3>1. \A i \in 0..len + n - 1 : i \in 0..len - 1 \/ i \in len..len + n - 1
      BY <1>5
    <3>2. ASSUME NEW line \in Lines(len)' PROVE \E i \in 0..len + n - 1 : line = LineOf(buffer[i])
      <4>1. PICK i \in 0..len' - 1 : line = LineOf(buffer'[i])
        BY DEF Lines
      <4>2. i \in 0..len + n - 1
        BY <1>5, <1>6, <4>1
      <4>3. line = LineOf(buffer[i])
        BY <1>1, <4>1
      <4> QED BY <4>2, <4>3
    <3>3. \A i \in 0..len - 1 : LineOf(buffer[i]) \in Lines(len)
      BY DEF Lines
    <3>4. \A i \in 0..len + n - 1 : LineOf(buffer[i]) \in Lines(len) \cup {Mine(t)}
      BY <1>4, <3>1, <3>3
    <3> QED BY <3>2, <3>4
  <2>3. /\ IsFiniteSet(Lines(len) \cup {Mine(t)})
        /\ Cardinality(Lines(len) \cup {Mine(t)}) <= pending + 1
    <3>1. Cardinality(Lines(len)) \in Nat
      BY <2>1, FS_CardinalityType
    <3>2. Cardinality(Lines(len) \cup {Mine(t)}) \in {Cardinality(Lines(len)), Cardinality(Lines(len)) + 1}
      BY <2>1, FS_AddElement
    <3>3. IsFiniteSet(Lines(len) \cup {Mine(t)})
      BY <2>1, FS_AddElement
    <3> QED BY <1>5, <2>1, <3>1, <3>2, <3>3
  <2>4. IsFiniteSet(Lines(len)') /\ Cardinality(Lines(len)') <= Cardinality(Lines(len) \cup {Mine(t)})
    BY <2>2, <2>3, FS_Subset
  <2>5. Cardinality(Lines(len)') \in Nat /\ Cardinality(Lines(len) \cup {Mine(t)}) \in Nat
    BY <2>3, <2>4, FS_CardinalityType
  <2>6. Cardinality(Lines(len)') <= pending'
    BY <1>1, <1>5, <2>3, <2>4, <2>5
  <2> QED BY <1>3, <2>4, <2>6 DEF Few
<1>9. Soon'
  <2>1. \A line : OnDisk(line)' = OnDisk(line)
    BY <1>1 DEF OnDisk
  <2>2. UrgentOnDisk'
    BY <1>1, <2>1 DEF Calm, Soon, UrgentOnDisk
  <2>3. len' > 0 /\ LineOf(buffer[len' - 1]) = Mine(t)
    <3>1. len + n - 1 \in len..len + n - 1 /\ len + n > 0
      BY <1>5
    <3>2. LineOf(buffer[len + n - 1]) = Mine(t)
      BY <1>4, <3>1
    <3>3. len' > 0 /\ len' - 1 = len + n - 1
      BY <1>5, <1>6, <3>1
    <3> QED BY <3>2, <3>3
  <2>4. Mine(t)' = Mine(t) /\ buffer' = buffer
    BY <1>1 DEF Mine
  <2>5. len' > 0 /\ LineOf(buffer'[len' - 1]) = Mine(t)'
    BY <2>3, <2>4
  <2> QED BY <1>1, <1>3, <2>2, <2>5 DEF Soon
<1> QED BY <1>7, <1>8, <1>9

LEMMA FlushWriteOrder ==
  ASSUME Calm, NEW t \in Threads, FlushWrite(t)
  PROVE  Order' /\ Few' /\ Soon'
<1>1. /\ pc[t] = "flush"
      /\ UNCHANGED <<buffer, len, pending, after, important, count, log, urgent>>
      /\ pc \in [Threads -> {"idle", "fit", "copy", "count", "unlock", "flush", "reset", "clear", "leaving"}]
  BY DEF FlushWrite, Calm, IInv, TypeOK, ThreadType
<1>2. \A u \in Threads \ {t} : pc[u] = "idle"
  BY <1>1, CalmFacts, OthersIdle
<1>3. fileOpen /\ len \in Nat /\ pending \in Nat /\ log = disk \o Stored(len)
  BY <1>1, <1>2, CalmFacts DEF Calm, Order
<1>4. Mine(t)' = Mine(t)
  BY <1>1 DEF Mine
<1>5. CASE len > 0
  <2>1. /\ disk' = disk \o Stored(len)
        /\ pc'[t] = "reset" /\ \A u \in Threads \ {t} : pc'[u] = "idle"
    BY <1>1, <1>2, <1>3, <1>5 DEF FlushWrite
  <2>2. Stored(len) \in Seq(Cell) /\ Len(Stored(len)) = len /\ \A i \in 1..len : Stored(len)[i] = buffer[i - 1]
    BY CalmFacts, StoredSeq
  <2>3. Order'
    BY <1>1, <1>3, <2>1 DEF Order
  <2>4. Few'
    BY <2>1 DEF Few
  <2>5. Soon'
    <3> PICK s : s = Stored(len)
      OBVIOUS
    <3>1. /\ \A line : OnDisk(line) => OnDisk(line)'
          /\ \A i \in 1..Len(s) : OnDisk(LineOf(s[i]))'
      BY <2>1, <2>2, CalmFacts, GrowDisk
    <3>2. UrgentOnDisk'
      BY <1>1, <3>1 DEF Calm, Soon, UrgentOnDisk
    <3>3. ASSUME after[t] = "unlock" PROVE OnDisk(Mine(t))'
      <4>1. LineOf(buffer[len - 1]) = Mine(t) /\ len \in 1..len
        BY <1>1, <1>3, <1>5, <3>3 DEF Calm, Soon
      <4>2. Len(s) = len /\ LineOf(s[len]) = Mine(t)
        BY <2>2, <4>1
      <4>3. PICK i \in 1..Len(s) : LineOf(s[i]) = Mine(t)
        BY <4>1, <4>2
      <4>4. OnDisk(LineOf(s[i]))'
        BY <3>1
      <4> QED BY <1>4, <4>3, <4>4 DEF OnDisk
    <3> QED BY <1>1, <2>1, <3>2, <3>3 DEF Soon
  <2> QED BY <2>3, <2>4, <2>5
<1>6. CASE ~(len > 0)
  <2>1. /\ len = 0 /\ disk' = disk
        /\ pc'[t] = "clear" /\ \A u \in Threads \ {t} : pc'[u] = "idle"
    BY <1>1, <1>2, <1>3, <1>6 DEF FlushWrite
  <2>2. Order'
    <3>1. Stored(len)' = Stored(len)
      BY <1>1 DEF Stored
    <3> QED BY <1>1, <1>3, <2>1, <3>1 DEF Order
  <2>3. Few'
    <3>1. IsFiniteSet(Lines(len)') /\ Cardinality(Lines(len)') <= pending'
      <4>1. Lines(len)' = {}
        BY <1>1, <2>1 DEF Lines
      <4>2. IsFiniteSet({}) /\ Cardinality({}) = 0
        BY FS_EmptySet
      <4> QED BY <1>1, <1>3, <4>1, <4>2
    <3> QED BY <1>1, <2>1, <3>1 DEF Few
  <2>4. Soon'
    <3>1. \A line : OnDisk(line)' = OnDisk(line)
      BY <2>1 DEF OnDisk
    <3>2. UrgentOnDisk'
      BY <1>1, <3>1 DEF Calm, Soon, UrgentOnDisk
    <3>3. after[t] # "unlock"
      BY <1>1, <1>6 DEF Calm, Soon
    <3> QED BY <1>1, <2>1, <3>2, <3>3 DEF Soon
  <2> QED BY <2>2, <2>3, <2>4
<1> QED BY <1>5, <1>6

LEMMA FlushResetOrder ==
  ASSUME Calm, NEW t \in Threads, FlushReset(t)
  PROVE  Order' /\ Few' /\ Soon'
<1>1. /\ pc[t] = "reset"
      /\ UNCHANGED <<buffer, disk, pending, after, important, count, log, urgent>>
      /\ len' = 0 /\ pc' = [pc EXCEPT ![t] = "clear"]
      /\ pc \in [Threads -> {"idle", "fit", "copy", "count", "unlock", "flush", "reset", "clear", "leaving"}]
  BY DEF FlushReset, Calm, IInv, TypeOK, ThreadType
<1>2. \A u \in Threads \ {t} : pc[u] = "idle"
  BY <1>1, CalmFacts, OthersIdle
<1>3. pc'[t] = "clear" /\ \A u \in Threads \ {t} : pc'[u] = "idle"
  BY <1>1, <1>2
<1>4. Order'
  <2>1. log = disk
    BY <1>1 DEF Calm, Order
  <2>2. Stored(len)' = << >>
    BY <1>1 DEF Stored
  <2>3. disk \o << >> = disk
    BY CalmFacts, ConcatEmptySeq
  <2> QED BY <1>1, <1>3, <2>1, <2>2, <2>3 DEF Order
<1>5. Few'
  <2>1. Lines(len)' = {} /\ pending' \in Nat
    BY <1>1, CalmFacts DEF Lines
  <2>2. IsFiniteSet({}) /\ Cardinality({}) = 0
    BY FS_EmptySet
  <2>3. IsFiniteSet(Lines(len)') /\ Cardinality(Lines(len)') <= pending'
    BY <2>1, <2>2
  <2> QED BY <1>1, <2>3 DEF Few
<1>6. Soon'
  <2>1. \A line : OnDisk(line)' = OnDisk(line)
    BY <1>1 DEF OnDisk
  <2>2. UrgentOnDisk'
    BY <1>1, <2>1 DEF Calm, Soon, UrgentOnDisk
  <2>3. after[t] = "unlock" => OnDisk(Mine(t))'
    <3>1. after[t] = "unlock" => OnDisk(Mine(t))
      BY <1>1 DEF Calm, Soon
    <3>2. Mine(t)' = Mine(t)
      BY <1>1 DEF Mine
    <3> QED BY <2>1, <3>1, <3>2
  <2> QED BY <1>1, <1>3, <2>2, <2>3 DEF Soon
<1> QED BY <1>4, <1>5, <1>6

LEMMA FlushClearOrder ==
  ASSUME Calm, NEW t \in Threads, FlushClear(t)
  PROVE  Order' /\ Few' /\ Soon'
<1>1. /\ pc[t] = "clear" /\ UNCHANGED <<buffer, len, disk, after, important, count, log, urgent>>
      /\ pending' = 0 /\ pc' = [pc EXCEPT ![t] = after[t]]
      /\ pc \in [Threads -> {"idle", "fit", "copy", "count", "unlock", "flush", "reset", "clear", "leaving"}]
  BY DEF FlushClear, Calm, IInv, TypeOK, ThreadType
<1>2. \A u \in Threads \ {t} : pc[u] = "idle"
  BY <1>1, CalmFacts, OthersIdle
<1>3. after[t] \in {"copy", "unlock"}
  BY <1>1 DEF Calm, IInv, Exclusive, AllStay
<1>4. pc'[t] = after[t] /\ \A u \in Threads \ {t} : pc'[u] = "idle"
  BY <1>1, <1>2
<1>5. len = 0
  BY <1>1, <1>2 DEF Calm, Few
<1>6. Order'
  <2>1. log = disk \o Stored(len) /\ Stored(len)' = Stored(len)
    BY <1>1, <1>2 DEF Calm, Order, Stored
  <2> QED BY <1>1, <1>3, <1>4, <2>1 DEF Order
<1>7. Few'
  <2>1. Lines(len)' = {}
    BY <1>1, <1>5 DEF Lines
  <2>2. IsFiniteSet({}) /\ Cardinality({}) = 0
    BY FS_EmptySet
  <2>3. IsFiniteSet(Lines(len)') /\ Cardinality(Lines(len)') <= pending'
    BY <1>1, <2>1, <2>2
  <2> QED BY <1>3, <1>4, <2>3 DEF Few
<1>8. Soon'
  <2>1. \A line : OnDisk(line)' = OnDisk(line)
    BY <1>1 DEF OnDisk
  <2>2. UrgentOnDisk'
    BY <1>1, <2>1 DEF Calm, Soon, UrgentOnDisk
  <2>3. after[t] = "unlock" => OnDisk(Mine(t))'
    <3>1. after[t] = "unlock" => OnDisk(Mine(t))
      BY <1>1 DEF Calm, Soon
    <3>2. Mine(t)' = Mine(t)
      BY <1>1 DEF Mine
    <3> QED BY <2>1, <3>1, <3>2
  <2> QED BY <1>1, <1>3, <1>4, <2>2, <2>3 DEF Soon
<1> QED BY <1>6, <1>7, <1>8

LEMMA InitOrder == Init => OInv
<1> SUFFICES ASSUME Init PROVE OInv
  OBVIOUS
<1>1. /\ \A t \in Threads : pc[t] = "idle" /\ after[t] = "idle"
      /\ len = 0 /\ pending = 0 /\ disk = << >> /\ log = << >> /\ urgent = {}
  BY DEF Init
<1>2. Order
  <2>1. Stored(len) = << >> /\ << >> \o << >> = << >>
    BY <1>1 DEF Stored
  <2> QED BY <1>1, <2>1 DEF Order
<1>3. Few
  <2>1. Lines(len) = {}
    BY <1>1 DEF Lines
  <2>2. IsFiniteSet({}) /\ Cardinality({}) = 0
    BY FS_EmptySet
  <2>3. IsFiniteSet(Lines(len)) /\ Cardinality(Lines(len)) = 0
    BY <2>1, <2>2
  <2>4. Cardinality(Lines(len)) <= pending
    BY <1>1, <2>3
  <2> QED BY <1>1, <2>3, <2>4 DEF Few
<1>4. Leaving /\ Soon
  BY <1>1 DEF Leaving, Soon, UrgentOnDisk
<1> QED BY <1>2, <1>3, <1>4 DEF OInv

\* Once a thread has left without the mutex it never prints again.
LEMMA LeavingStep == IInv /\ Leaving /\ [Next]_vars => Leaving' /\ (AllStay' => AllStay)
<1> SUFFICES ASSUME IInv, Leaving, [Next]_vars PROVE Leaving' /\ (AllStay' => AllStay)
  OBVIOUS
<1>1. /\ pc \in [Threads -> {"idle", "fit", "copy", "count", "unlock", "flush", "reset", "clear", "leaving"}]
      /\ after \in [Threads -> {"idle", "copy", "unlock", "leaving"}]
  BY DEF IInv, TypeOK, ThreadType
<1>2. CASE \E t \in Threads : Logging(t)
  <2> PICK t \in Threads : Logging(t)
    BY <1>2
  <2>1. /\ \A u \in Threads \ {t} : pc'[u] = pc[u] /\ after'[u] = after[u]
        /\ pc[t] # "leaving"
        /\ after'[t] = after[t] \/ pc[t] \in {"fit", "count"}
        /\ after[t] = "leaving" /\ pc[t] \in Flushing => pc'[t] \in {"reset", "clear", "leaving"}
    BY <1>1 DEF Logging, LogLine, Fit, Copy, Count, FlushWrite, FlushReset, FlushClear, Unlock
  <2>2. after[t] = "leaving" => pc[t] \in Flushing
    BY <2>1 DEF Leaving
  <2>3. after'[t] = "leaving" => after[t] = "leaving"
    BY <1>1 DEF Logging, LogLine, Fit, Copy, Count, FlushWrite, FlushReset, FlushClear, Unlock
  <2> QED BY <2>1, <2>2, <2>3 DEF Leaving, AllStay
<1>3. CASE \E t \in Leavers : Leave(t)
  <2> PICK t \in Leavers : Leave(t)
    BY <1>3
  <2>1. t \in Threads /\ pc'[t] = "flush" /\ after'[t] = "leaving"
    BY <1>1 DEF Leave
  <2>2. \A u \in Threads \ {t} : pc'[u] = pc[u] /\ after'[u] = after[u]
    BY <1>1 DEF Leave
  <2> QED BY <2>1, <2>2 DEF Leaving, AllStay
<1>4. CASE UNCHANGED vars
  BY <1>4 DEF vars, Leaving, AllStay
<1> QED BY <1>2, <1>3, <1>4 DEF Next

LEMMA NextOrder == IInv /\ OInv /\ [Next]_vars => OInv'
<1> SUFFICES ASSUME IInv, OInv, [Next]_vars PROVE OInv'
  OBVIOUS
<1>1. Leaving' /\ (AllStay' => AllStay)
  BY LeavingStep DEF OInv
<1>2. ASSUME fileOpen', AllStay' PROVE Order' /\ Few' /\ Soon'
  <2>1. fileOpen' = fileOpen
    BY DEF Next, vars, Logging, LogLine, Fit, Copy, Count, FlushWrite, FlushReset, FlushClear, Unlock, Leave
  <2>2. Calm
    BY <1>1, <1>2, <2>1 DEF Calm, OInv
  <2>3. CASE \E t \in Threads : Logging(t)
    BY <2>2, <2>3, LogLineOrder, FitOrder, CopyOrder, CountOrder, FlushWriteOrder,
       FlushResetOrder, FlushClearOrder, UnlockOrder DEF Logging
  <2>4. CASE \E t \in Leavers : Leave(t)
    <3> PICK t \in Leavers : Leave(t)
      BY <2>4
    <3>1. t \in Threads /\ after'[t] = "leaving"
      BY DEF Leave, IInv, TypeOK, ThreadType
    <3> QED BY <1>2, <3>1 DEF AllStay
  <2>5. CASE UNCHANGED vars
    <3>1. Order'
      BY <2>2, <2>5 DEF Calm, vars, Order, Stored, Mine
    <3>2. Few'
      BY <2>2, <2>5 DEF Calm, vars, Few, Lines
    <3>3. Soon'
      BY <2>2, <2>5 DEF Calm, vars, Soon, Mine, OnDisk, UrgentOnDisk
    <3> QED BY <3>1, <3>2, <3>3
  <2> QED BY <2>3, <2>4, <2>5 DEF Next
<1> QED BY <1>1, <1>2 DEF OInv

(* Until a thread leaves the program, logger.c keeps the lines in order    *)
(* and no more of them in the buffer than _log_file_pending_lines says.    *)
THEOREM OrderKept == Spec => []OInv
  BY InitOrder, NextOrder, Invariant, PTL DEF Spec

LEMMA KeepsAll == IInv /\ OInv => NothingLost
<1> SUFFICES ASSUME IInv, OInv, fileOpen, AllStay
             PROVE  log = disk \o (IF \E t \in Threads : pc[t] = "reset" THEN << >>
                      ELSE IF {t \in Threads : pc[t] = "count"} = {} THEN Stored(len)
                      ELSE LET t == CHOOSE t \in {u \in Threads : pc[u] = "count"} : TRUE
                           IN Stored(at[t] + size[t]))
  BY DEF NothingLost
<1>1. Calm
  BY DEF Calm, OInv
<1>2. Order
  BY DEF OInv
<1>3. CASE \E t \in Threads : pc[t] = "reset"
  <2>1. log = disk /\ disk \o << >> = disk
    BY <1>1, <1>2, <1>3, CalmFacts, ConcatEmptySeq DEF Order
  <2> QED BY <1>3, <2>1
<1>4. CASE ~(\E t \in Threads : pc[t] = "reset") /\ {t \in Threads : pc[t] = "count"} = {}
  <2>1. \A t \in Threads : pc[t] \notin {"count", "reset"}
    BY <1>4
  <2>2. log = disk \o Stored(len)
    BY <1>2, <2>1 DEF Order
  <2> QED BY <1>4, <2>2
<1>5. CASE ~(\E t \in Threads : pc[t] = "reset") /\ {t \in Threads : pc[t] = "count"} # {}
  <2> DEFINE w == CHOOSE t \in {u \in Threads : pc[u] = "count"} : TRUE
  <2>1. w \in Threads /\ pc[w] = "count"
    BY <1>5
  <2> HIDE DEF w
  <2>2. at[w] = len /\ log = disk \o Stored(len + size[w])
    BY <1>2, <2>1 DEF Order
  <2>3. log = disk \o Stored(at[w] + size[w])
    BY <2>2
  <2> QED BY <1>5, <2>3 DEF w
<1> QED BY <1>3, <1>4, <1>5

LEMMA LosesFew == IInv /\ OInv => BoundedLoss
<1> DEFINE lost == {<<log[i][1], log[i][2]>> : i \in DOMAIN log}
                   \ {<<disk[i][1], disk[i][2]>> : i \in DOMAIN disk}
<1> SUFFICES ASSUME IInv, OInv, fileOpen, AllStay, mutex = NoOne
             PROVE  Cardinality(lost) < Every
  BY DEF BoundedLoss
<1>1. Calm
  BY DEF Calm, OInv
<1>2. \A t \in Threads : pc[t] = "idle"
  <2>1. \A t \in Threads : ~Holding(t) /\ pc[t] # "leaving"
    BY DEF IInv, Exclusive, AllStay
  <2> QED BY <1>1, <2>1, CalmFacts
<1>3. /\ log = disk \o Stored(len)
      /\ IsFiniteSet(Lines(len)) /\ Cardinality(Lines(len)) <= pending
  BY <1>1, <1>2 DEF Calm, Order, Few
<1>4. pending \in Nat /\ Every \in Nat /\ pending < Every
  <2>1. pending \in 0..Every /\ pending # Every
    BY <1>2 DEF IInv, TypeOK, FileType, Due
  <2> QED BY <2>1
<1>5. /\ len \in Nat /\ disk \in Seq(Cell)
      /\ Stored(len) \in Seq(Cell) /\ Len(Stored(len)) = len
      /\ \A i \in 1..len : Stored(len)[i] = buffer[i - 1]
  BY <1>1, CalmFacts, StoredSeq
<1>6. lost \subseteq Lines(len)
  <2> SUFFICES ASSUME NEW i \in DOMAIN log, LineOf(log[i]) \in lost
               PROVE  LineOf(log[i]) \in Lines(len)
    BY DEF LineOf
  <2>1. /\ Len(disk) \in Nat /\ i \in 1..Len(disk) + len /\ DOMAIN disk = 1..Len(disk)
        /\ log[i] = IF i <= Len(disk) THEN disk[i] ELSE Stored(len)[i - Len(disk)]
    <3>1. /\ log \in Seq(Cell) /\ Len(log) = Len(disk) + Len(Stored(len))
          /\ \A j \in 1..Len(disk) + Len(Stored(len)) :
               log[j] = IF j <= Len(disk) THEN disk[j] ELSE Stored(len)[j - Len(disk)]
      BY <1>3, <1>5, ConcatProperties
    <3>2. DOMAIN log = 1..Len(log) /\ Len(disk) \in Nat /\ DOMAIN disk = 1..Len(disk)
      BY <1>5, <3>1, LenProperties
    <3> QED BY <1>5, <3>1, <3>2
  <2>2. CASE i <= Len(disk)
    <3>1. i \in DOMAIN disk /\ log[i] = disk[i]
      BY <2>1, <2>2
    <3>2. LineOf(log[i]) \in {<<disk[j][1], disk[j][2]>> : j \in DOMAIN disk}
      BY <3>1 DEF LineOf
    <3> QED BY <3>2
  <2>3. CASE ~(i <= Len(disk))
    <3>1. i - Len(disk) \in 1..len /\ i - Len(disk) - 1 \in 0..len - 1
      BY <1>5, <2>1, <2>3
    <3>2. log[i] = buffer[i - Len(disk) - 1]
      BY <1>5, <2>1, <2>3, <3>1
    <3> QED BY <3>1, <3>2 DEF Lines
  <2> QED BY <2>2, <2>3
<1> HIDE DEF lost
<1>7. IsFiniteSet(lost) /\ Cardinality(lost) <= Cardinality(Lines(len))
  BY <1>3, <1>6, FS_Subset
<1>8. Cardinality(lost) \in Nat /\ Cardinality(Lines(len)) \in Nat
  BY <1>3, <1>7, FS_CardinalityType
<1> QED BY <1>3, <1>4, <1>7, <1>8

(* _log_write_sinks and logger_flush lose, repeat and reorder nothing:     *)
(* file and buffer together are the log until a thread leaves the program. *)
THEOREM KeepsOrder == Spec => []NothingLost
  BY KeepsAll, OrderKept, Invariant, PTL

(* While the mutex is free, fewer than LOG_FILE_FLUSH_EVERY lines are in   *)
(* memory only, until a thread leaves the program.                         *)
THEOREM LossBounded == Spec => []BoundedLoss
  BY LosesFew, OrderKept, Invariant, PTL

(* An important line is in the file when its call has returned, as         *)
(* logger.h promises, until a thread leaves the program.                   *)
THEOREM UrgentKept == Spec => []UrgentWhileAllStay
<1>1. OInv => UrgentWhileAllStay
  BY DEF OInv, Soon, UrgentWhileAllStay, UrgentOnDisk
<1> QED BY <1>1, OrderKept, PTL
-----------------------------------------------------------------------------
\* A copy hands the same cells to the buffer and to the history; a flush writes what the
\* buffer holds below the length, where no cell is blank.
LEMMA CopyPrinted ==
  ASSUME IInv, PInv, NEW t \in Threads, Copy(t) PROVE PInv'
<1>1. /\ Holding(t) /\ len \in Nat /\ count[t] \in 1..MaxLines
  <2>1. Holding(t) /\ len \in Nat /\ count[t] \in 0..MaxLines
    BY DEF IInv, TypeOK, FileType, ThreadType, Copy, Holding
  <2>2. count[t] > 0
    BY <2>1 DEF IInv, Room
  <2> QED
    BY <2>1, <2>2
<1>2. size[t] \in Nat /\ len + size[t] <= Cap
  BY SizeFacts DEF IInv, Room, CopyFits, Copy
<1>3. log \in Seq(Cell) /\ disk \in Seq(Cell)
  BY DEF IInv, TypeOK, HistoryType
<1> DEFINE n == size[t]
           line == [i \in 1..n |-> <<t, count[t], i>>]
<1>4. n \in Nat /\ Cells(t) = line
  BY <1>2 DEF Cells
<1>5. line \in Seq(Cell) /\ Len(line) = n
  <2>1. \A i \in 1..n : i \in 1..Cap
    BY <1>1, <1>2
  <2>2. \A i \in 1..n : <<t, count[t], i>> \in Cell
    BY <2>1, <1>1 DEF Cell
  <2>3. line \in [1..n -> Cell]
    BY <2>2
  <2> HIDE DEF line, n
  <2> QED
    BY <2>3, <1>4
<1>6. \A i \in 1..n : line[i] = <<t, count[t], i>>
  OBVIOUS
<1>7. log' = log \o line /\ disk' = disk
  BY <1>4 DEF Copy
<1> HIDE DEF line, n
<1>8. /\ DOMAIN log = 1..Len(log) /\ Len(log) \in Nat
      /\ DOMAIN log' = 1..Len(log) + n
      /\ \A i \in 1..Len(log) : log'[i] = log[i]
      /\ \A i \in 1..n : log'[Len(log) + i] = line[i]
  <2>1. /\ Len(log \o line) = Len(log) + n
        /\ \A i \in 1..Len(log) + n : (log \o line)[i] =
             IF i <= Len(log) THEN log[i] ELSE line[i - Len(log)]
    BY <1>3, <1>5
  <2>2. Len(log) \in Nat /\ DOMAIN log = 1..Len(log)
    BY <1>3
  <2>3. DOMAIN (log \o line) = 1..Len(log) + n
    BY <1>3, <1>5, <2>1
  <2>4. \A i \in 1..n : Len(log) + i \in 1..Len(log) + n /\ ~(Len(log) + i <= Len(log))
                        /\ Len(log) + i - Len(log) = i
    BY <2>2, <1>4
  <2>5. \A i \in 1..Len(log) : i \in 1..Len(log) + n /\ i <= Len(log)
    BY <2>2, <1>4
  <2> QED
    BY <1>7, <2>1, <2>2, <2>3, <2>4, <2>5
<1>9. Printed \subseteq Printed'
  <2> SUFFICES ASSUME NEW i \in DOMAIN log PROVE \E j \in DOMAIN log' : log'[j] = log[i]
    BY DEF Printed
  <2>1. i \in 1..Len(log) + n /\ i \in 1..Len(log)
    BY <1>8, <1>4
  <2> QED
    BY <2>1, <1>8
<1>10. \A i \in 1..n : <<t, count[t], i>> \in Printed'
  <2> SUFFICES ASSUME NEW i \in 1..n PROVE <<t, count[t], i>> \in Printed'
    OBVIOUS
  <2>1. Len(log) + i \in 1..Len(log) + n
    BY <1>8, <1>4
  <2>2. log'[Len(log) + i] = <<t, count[t], i>>
    BY <1>6, <1>8
  <2> QED
    BY <2>1, <2>2, <1>8 DEF Printed
<1>11. BufferPrinted'
  <2> SUFFICES ASSUME NEW i \in 0..Cap - 1 PROVE buffer'[i] \in Printed' \cup {Blank}
    BY DEF BufferPrinted, Blank
  <2>1. buffer'[i] = IF i \in len..len + n - 1 THEN <<t, count[t], i - len + 1>>
                                               ELSE buffer[i]
    BY DEF Copy, n
  <2>2. CASE i \in len..len + n - 1
    <3>1. i - len + 1 \in 1..n
      BY <2>2, <1>1, <1>4
    <3> QED
      BY <3>1, <2>1, <2>2, <1>10
  <2>3. CASE i \notin len..len + n - 1
    <3>1. buffer[i] \in Printed \cup {Blank}
      BY DEF PInv, BufferPrinted
    <3> QED
      BY <3>1, <2>1, <2>3, <1>9
  <2> QED
    BY <2>2, <2>3
<1>12. NothingInvented'
  BY <1>7, <1>9 DEF PInv, NothingInvented
<1> QED
  BY <1>11, <1>12 DEF PInv

LEMMA FlushPrinted ==
  ASSUME IInv, PInv, NEW t \in Threads, FlushWrite(t) PROVE PInv'
<1>1. buffer' = buffer /\ Printed' = Printed
  BY DEF FlushWrite, Printed
<1>2. BufferPrinted'
  BY <1>1 DEF PInv, BufferPrinted, Blank
<1>3. NothingInvented'
  <2>1. CASE ~(fileOpen /\ len > 0)
    <3>1. disk' = disk
      BY <2>1 DEF FlushWrite
    <3> QED
      BY <1>1, <3>1 DEF PInv, NothingInvented
  <2>2. CASE fileOpen /\ len > 0
    <3> DEFINE s == Stored(len)
    <3>1. len \in Nat /\ len <= Cap /\ Cap \in Nat /\ disk \in Seq(Cell)
      BY DEF IInv, TypeOK, FileType, HistoryType
    <3>2. \A i \in 1..len : buffer[i - 1] \in Cell /\ buffer[i - 1] \in Printed
      <4> SUFFICES ASSUME NEW i \in 1..len
                   PROVE  buffer[i - 1] \in Cell /\ buffer[i - 1] \in Printed
        OBVIOUS
      <4>1. i - 1 \in 0..len - 1 /\ i - 1 \in 0..Cap - 1
        BY <3>1
      <4>2. buffer[i - 1] \in Cell /\ buffer[i - 1] \in Printed \cup {Blank}
        BY <4>1 DEF IInv, Written, PInv, BufferPrinted
      <4>3. Blank \notin Cell
        BY DEF Blank, Cell
      <4> QED
        BY <4>2, <4>3
    <3>3. s \in Seq(Cell) /\ Len(s) = len /\ \A i \in 1..len : s[i] = buffer[i - 1]
      BY <3>1, <3>2 DEF Stored
    <3>4. disk' = disk \o s
      BY <2>2 DEF FlushWrite
    <3> HIDE DEF s
    <3>5. /\ Len(disk \o s) = Len(disk) + len
          /\ \A i \in 1..Len(disk) + len : (disk \o s)[i] =
               IF i <= Len(disk) THEN disk[i] ELSE s[i - Len(disk)]
      BY <3>1, <3>3
    <3>6. DOMAIN (disk \o s) = 1..Len(disk) + len /\ Len(disk) \in Nat
          /\ DOMAIN disk = 1..Len(disk)
      BY <3>1, <3>3, <3>5
    <3>7. ASSUME NEW i \in DOMAIN disk' PROVE disk'[i] \in Printed'
      <4>1. i \in 1..Len(disk) + len
        BY <3>4, <3>6
      <4>2. CASE i <= Len(disk)
        <5>1. i \in DOMAIN disk /\ disk'[i] = disk[i]
          BY <4>1, <4>2, <3>4, <3>5, <3>6
        <5> QED
          BY <5>1, <1>1 DEF PInv, NothingInvented
      <4>3. CASE ~(i <= Len(disk))
        <5>1. i - Len(disk) \in 1..len /\ disk'[i] = s[i - Len(disk)]
          BY <4>1, <4>3, <3>1, <3>4, <3>5, <3>6
        <5> QED
          BY <5>1, <3>2, <3>3, <1>1
      <4> QED
        BY <4>2, <4>3
    <3> QED
      BY <3>7 DEF NothingInvented
  <2> QED
    BY <2>1, <2>2
<1> QED
  BY <1>2, <1>3 DEF PInv

LEMMA NextPrinted == IInv /\ PInv /\ [Next]_vars => PInv'
<1> SUFFICES ASSUME IInv, PInv, [Next]_vars PROVE PInv'
  OBVIOUS
<1>1. ASSUME UNCHANGED <<buffer, disk, log>> PROVE PInv'
  BY <1>1 DEF PInv, NothingInvented, BufferPrinted, Printed, Blank
<1>2. CASE UNCHANGED vars
  BY <1>1, <1>2 DEF vars
<1>3. ASSUME NEW t \in Threads, Logging(t) PROVE PInv'
  <2>1. CASE \E n \in Sizes, imp \in BOOLEAN : LogLine(t, n, imp)
    BY <1>1, <2>1 DEF LogLine
  <2>2. CASE Fit(t)
    BY <1>1, <2>2 DEF Fit
  <2>3. CASE Copy(t)
    BY <2>3, CopyPrinted
  <2>4. CASE Count(t)
    BY <1>1, <2>4 DEF Count
  <2>5. CASE FlushWrite(t)
    BY <2>5, FlushPrinted
  <2>6. CASE FlushReset(t) \/ FlushClear(t)
    BY <1>1, <2>6 DEF FlushReset, FlushClear
  <2>7. CASE Unlock(t)
    BY <1>1, <2>7 DEF Unlock
  <2> QED
    BY <1>3, <2>1, <2>2, <2>3, <2>4, <2>5, <2>6, <2>7 DEF Logging
<1>4. ASSUME NEW t \in Leavers, Leave(t) PROVE PInv'
  BY <1>1, <1>4 DEF Leave
<1> QED
  BY <1>2, <1>3, <1>4 DEF Next

LEMMA InitPrinted == Init => PInv
<1> SUFFICES ASSUME Init PROVE PInv
  OBVIOUS
<1>1. DOMAIN disk = {}
  BY DEF Init
<1>2. \A i \in 0..Cap - 1 : buffer[i] = Blank
  BY DEF Init
<1> QED
  BY <1>1, <1>2 DEF PInv, NothingInvented, BufferPrinted

\* Whoever leaves the program and flushes without the mutex, every cell of the file was
\* printed by some thread (logger.c 71 to 131).
THEOREM InventsNothing == Spec => []NothingInvented
<1>1. IInv /\ PInv /\ [Next]_vars => PInv'
  BY NextPrinted
<1>2. PInv => NothingInvented
  BY DEF PInv
<1> QED
  BY InitPrinted, Invariant, <1>1, <1>2, PTL DEF Spec
=============================================================================
