-------------------------- MODULE AudioFifoProofs --------------------------
(***************************************************************************)
(* Theorems about AudioFifo, for every capacity, grain, set of writers and *)
(* write sizes.                                                            *)
(***************************************************************************)
EXTENDS AudioFifo, SequenceTheorems, TLAPS

USE ThreadAssumption, SizeAssumption
USE DEF Unlocked, Free, GrainTake, Advance, Frames, OtherBuffer, Retried, Joined, KeepRunning

(* An index that ran past the end of the ring by less than one lap wraps.  *)
LEMMA WrapOnce ==
  ASSUME NEW x \in Nat, x < 2 * Cap
  PROVE  x % Cap = IF x < Cap THEN x ELSE x - Cap
OBVIOUS

(* Indices of the ring are indices of the ring.                            *)
LEMMA WrapInRing == \A x \in Nat : x % Cap \in Index
BY DEF Index

(* Two steps along the ring are one.                                       *)
LEMMA WrapTwice ==
  ASSUME NEW x \in Index, NEW a \in 0..Cap, NEW b \in Nat, a + b <= Cap
  PROVE  (((x + a) % Cap) + b) % Cap = (x + a + b) % Cap
<1>1. (x + a) % Cap = IF x + a < Cap THEN x + a ELSE x + a - Cap
  BY WrapOnce DEF Index
<1>2. (x + a + b) % Cap = IF x + a + b < Cap THEN x + a + b ELSE x + a + b - Cap
  BY WrapOnce DEF Index
<1>3. CASE x + a < Cap
  BY <1>1, <1>3 DEF Index
<1>4. CASE ~(x + a < Cap)
  <2>1. (x + a - Cap + b) % Cap = x + a - Cap + b
    BY <1>4, WrapOnce DEF Index
  <2> QED
    BY <1>1, <1>2, <1>4, <2>1 DEF Index
<1> QED
  BY <1>3, <1>4

(* A window of the ring is a sequence of ring cells.                       *)
LEMMA WindowType ==
  ASSUME RingType, NEW i \in Index, NEW n \in 0..Cap
  PROVE  Window(i, n) \in Seq(Byte \cup {Silence})
<1>1. \A k \in 1..n : i + k - 1 \in Nat
  BY DEF Index
<1>2. Window(i, n) \in [1..n -> Byte \cup {Silence}]
  BY <1>1, WrapInRing DEF Window, RingType
<1> QED
  BY <1>2
-----------------------------------------------------------------------------
LEMMA InitInvariant == Init => IInv
<1> SUFFICES ASSUME Init PROVE IInv
  OBVIOUS
<1>1. RingType /\ ControlType /\ WriterType
  <2>1. RingType
    BY DEF Init, RingType, Index
  <2>2. ControlType
    BY DEF Init, ControlType
  <2>3. WriterType
    BY DEF Init, WriterType
  <2> QED
    BY <2>1, <2>2, <2>3
<1>2. MixerType /\ HistoryType
  <2>1. << >> \in Seq(Byte \cup {Silence})
    OBVIOUS
  <2> QED
    BY <2>1 DEF Init, MixerType, HistoryType, Quiet
<1>3. RingConsistent
  BY WrapOnce DEF Init, RingConsistent
<1>4. Ownership /\ Lifecycle /\ Pending /\ Sound
  BY DEF Init, Ownership, Lifecycle, Pending, Sound, Quiet
<1> QED
  BY <1>1, <1>2, <1>3, <1>4 DEF IInv, TypeOK
-----------------------------------------------------------------------------
(* Steps that touch flags and program counters only.                       *)
LEMMA InitThreadStep == IInv /\ InitThread => IInv'
<1> SUFFICES ASSUME IInv, InitThread PROVE IInv'
  OBVIOUS
<1> USE DEF IInv, InitThread, ring, ctl, mixer, writer, stats
<1>1. TypeOK'
  BY DEF TypeOK, RingType, ControlType, MixerType, WriterType, HistoryType
<1>2. (RingConsistent /\ Ownership /\ Lifecycle)'
  BY DEF TypeOK, ControlType, RingConsistent, Ownership, Lifecycle
<1>3. (Pending /\ Sound)'
  BY DEF Pending, Sound, Window
<1> QED
  BY <1>1, <1>2, <1>3

LEMMA InitDoneStep == IInv /\ InitDone => IInv'
<1> SUFFICES ASSUME IInv, InitDone PROVE IInv'
  OBVIOUS
<1> USE DEF IInv, InitDone, ring, ctl, mixer, writer, stats
<1>1. TypeOK'
  BY DEF TypeOK, RingType, ControlType, MixerType, WriterType, HistoryType
<1>2. (RingConsistent /\ Ownership /\ Lifecycle)'
  BY DEF TypeOK, ControlType, RingConsistent, Ownership, Lifecycle
<1>3. (Pending /\ Sound)'
  BY DEF Pending, Sound, Window
<1> QED
  BY <1>1, <1>2, <1>3

LEMMA ShutdownBeginStep == IInv /\ ShutdownBegin => IInv'
<1> SUFFICES ASSUME IInv, ShutdownBegin PROVE IInv'
  OBVIOUS
<1> USE DEF IInv, ShutdownBegin, ring, ctl, mixer, writer, stats
<1>1. TypeOK'
  BY DEF TypeOK, RingType, ControlType, MixerType, WriterType, HistoryType
<1>2. (RingConsistent /\ Ownership /\ Lifecycle)'
  BY DEF TypeOK, ControlType, RingConsistent, Ownership, Lifecycle
<1>3. (Pending /\ Sound)'
  BY DEF Pending, Sound, Window
<1> QED
  BY <1>1, <1>2, <1>3

LEMMA ShutdownReleaseStep == IInv /\ ShutdownRelease => IInv'
<1> SUFFICES ASSUME IInv, ShutdownRelease PROVE IInv'
  OBVIOUS
<1> USE DEF IInv, ShutdownRelease, ring, ctl, mixer, writer, stats
<1>1. TypeOK'
  BY DEF TypeOK, RingType, ControlType, MixerType, WriterType, HistoryType
<1>2. (RingConsistent /\ Ownership /\ Lifecycle)'
  BY DEF TypeOK, ControlType, RingConsistent, Ownership, Lifecycle
<1>3. (Pending /\ Sound)'
  BY DEF Pending, Sound, Window
<1> QED
  BY <1>1, <1>2, <1>3

LEMMA MixerLoopStep == IInv /\ MixerLoop => IInv'
<1> SUFFICES ASSUME IInv, MixerLoop PROVE IInv'
  OBVIOUS
<1> USE DEF IInv, MixerLoop, ring, ctl, mixer, writer, stats
<1>1. TypeOK'
  BY DEF TypeOK, RingType, ControlType, MixerType, WriterType, HistoryType
<1>2. (RingConsistent /\ Ownership /\ Lifecycle)'
  BY DEF TypeOK, ControlType, RingConsistent, Ownership, Lifecycle
<1>3. (Pending /\ Sound)'
  BY DEF Pending, Sound, Window
<1> QED
  BY <1>1, <1>2, <1>3

LEMMA InitRingStep ==
  ASSUME IInv, InitRing PROVE IInv'
<1> USE DEF IInv, TypeOK, InitRing, ring, ctl, mixer, writer, stats
<1>1. RingType'
  BY DEF RingType, Index
<1>2. (ControlType /\ MixerType /\ WriterType)'
  BY DEF ControlType, MixerType, WriterType
<1>3. HistoryType'
  BY DEF HistoryType
<1>4. RingConsistent'
  BY WrapOnce DEF RingConsistent, Lifecycle
<1>5. (Ownership /\ Lifecycle)'
  BY DEF Ownership, Lifecycle
<1>6. (Pending /\ Sound)'
  BY DEF Pending, Lifecycle, Sound
<1> QED
  BY <1>1, <1>2, <1>3, <1>4, <1>5, <1>6

LEMMA MixerTakeStep ==
  ASSUME IInv, MixerTake PROVE IInv'
<1> USE DEF IInv, TypeOK, MixerTake, ring, ctl, mixer, writer, stats
<1>1. Smaller(used, Grain) \in 0..Cap /\ Smaller(used, Grain) <= used
  BY DEF Smaller, RingType
<1>2. Window(tail, Smaller(used, Grain)) \in Seq(Byte \cup {Silence})
  BY <1>1, WindowType DEF RingType
<1>3. (RingType /\ ControlType /\ WriterType /\ HistoryType)'
  BY DEF RingType, ControlType, WriterType, HistoryType
<1>4. MixerType'
  BY <1>1, <1>2 DEF MixerType
<1>5. (RingConsistent /\ Ownership /\ Lifecycle)'
  BY <1>1 DEF RingConsistent, Ownership, Lifecycle
<1>6. (Pending /\ Sound)'
  BY DEF Pending, Sound, Window, MixerType
<1> QED
  BY <1>1, <1>2, <1>3, <1>4, <1>5, <1>6

LEMMA MixerCommitStep ==
  ASSUME IInv, MixerCommit PROVE IInv'
<1> USE DEF IInv, TypeOK, MixerCommit, ring, ctl, mixer, writer, stats
<1>1. take \in Nat /\ take <= used /\ used - take \in 0..Cap
  BY DEF RingConsistent, MixerType, RingType
<1>2. tail' \in Index
  <2>1. tail + take \in Nat
    BY <1>1 DEF RingType, Index
  <2> QED
    BY <2>1, WrapInRing
<1>3. take \div Frame \in Nat
  BY <1>1
<1>4. RingType' /\ ControlType' /\ MixerType' /\ WriterType'
  BY <1>1, <1>2 DEF RingType, ControlType, MixerType, WriterType
<1>5. HistoryType'
  BY <1>3 DEF HistoryType
<1>6. RingConsistent'
  <2>1. head = (tail + take + (used - take)) % Cap
    <3>1. tail + take + (used - take) = tail + used
      BY <1>1 DEF RingType, Index
    <3> QED
      BY <3>1 DEF RingConsistent
  <2>2. head = (((tail + take) % Cap) + (used - take)) % Cap
    <3>1. take \in 0..Cap /\ used - take \in Nat /\ take + (used - take) <= Cap /\ tail \in Index
      BY <1>1 DEF RingType
    <3> QED
      BY <3>1, <2>1, WrapTwice
  <2> QED
    BY <1>1, <2>2 DEF RingConsistent, Ownership, ControlType, RingType, WriterType
<1>7. (Ownership /\ Lifecycle /\ Pending)'
  BY DEF Ownership, Lifecycle, Pending
<1>8. Sound'
  <2>1. ASSUME NEW k \in 1..used - take PROVE fifo[(tail' + k - 1) % Cap] \in Byte
    <3>1. (tail' + (k - 1)) % Cap = (tail + take + (k - 1)) % Cap
      BY <1>1, WrapTwice DEF RingType
    <3>2. k + take \in 1..used
      BY <1>1 DEF RingType
    <3>3. fifo[(tail + (k + take) - 1) % Cap] \in Byte
      BY <3>2 DEF Sound
    <3>4. tail + (k + take) - 1 = tail + take + (k - 1) /\ tail' + k - 1 = tail' + (k - 1)
      BY <1>1, <1>2 DEF RingType, Index
    <3> QED
      BY <3>1, <3>3, <3>4
  <2> QED
    BY <2>1 DEF Sound
<1> QED
  BY <1>1, <1>2, <1>3, <1>4, <1>5, <1>6, <1>7, <1>8

LEMMA MixerOutputStep ==
  ASSUME IInv, MixerOutput PROVE IInv'
<1> USE DEF IInv, TypeOK, MixerOutput, ring, ctl, mixer, writer, stats
<1>1. (RingType /\ ControlType /\ MixerType /\ WriterType /\ HistoryType)'
  BY DEF RingType, ControlType, MixerType, WriterType, HistoryType
<1>2. (RingConsistent /\ Ownership /\ Lifecycle)'
  BY DEF RingConsistent, Ownership, Lifecycle
<1>3. (Pending /\ Sound)'
  BY DEF Pending, Sound, MixerType, Quiet
<1> QED
  BY <1>1, <1>2, <1>3

LEMMA DeviceDoneStep ==
  ASSUME IInv, DeviceDone PROVE IInv'
<1> USE DEF IInv, TypeOK, DeviceDone, ring, ctl, mixer, writer, stats
<1>1. heard' \in Seq(Byte \cup {Silence})
  <2>1. outBuf[device] \in Seq(Byte \cup {Silence})
    BY DEF MixerType, Quiet
  <2> QED
    BY <2>1 DEF HistoryType
<1>2. (RingType /\ ControlType /\ MixerType /\ WriterType /\ HistoryType)'
  BY <1>1 DEF RingType, ControlType, MixerType, WriterType, HistoryType
<1>3. (RingConsistent /\ Ownership /\ Lifecycle)'
  BY DEF RingConsistent, Ownership, Lifecycle
<1>4. (Pending /\ Sound)'
  BY DEF Pending, Sound, Window, MixerType, Quiet
<1> QED
  BY <1>1, <1>2, <1>3, <1>4

LEMMA ResetBufferStep ==
  ASSUME IInv, ResetBuffer PROVE IInv'
<1> USE DEF IInv, TypeOK, ResetBuffer, ring, ctl, mixer, writer, stats
<1>1. \A k \in 1..used : fifo[(tail + k - 1) % Cap] \in Byte
  BY DEF Sound
<1>2. (RingType /\ ControlType /\ MixerType /\ WriterType)'
  BY DEF RingType, ControlType, MixerType, WriterType, Index
<1>3. HistoryType'
  BY <1>1 DEF HistoryType
<1>4. (RingConsistent /\ Ownership /\ Lifecycle)'
  BY WrapOnce DEF RingConsistent, Ownership, Lifecycle, ControlType
<1>5. (Pending /\ Sound)'
  BY DEF Pending, Sound, Ownership, ControlType
<1> QED
  BY <1>1, <1>2, <1>3, <1>4, <1>5

LEMMA WriteCallStep ==
  ASSUME IInv, NEW w \in Writers, NEW size \in Sizes, WriteCall(w, size) PROVE IInv'
<1> USE DEF IInv, TypeOK, WriteCall, ring, ctl, mixer, writer, stats
<1>1. last[w] + size \in 0..MaxBytes /\ last[w] + 1 \in 1..MaxBytes + 1
  BY DEF WriterType
<1>2. (RingType /\ ControlType /\ MixerType /\ HistoryType)'
  BY DEF RingType, ControlType, MixerType, HistoryType
<1>3. WriterType'
  BY <1>1 DEF WriterType
<1>4. (RingConsistent /\ Ownership /\ Lifecycle)'
  BY DEF RingConsistent, Ownership, Lifecycle, WriterType
<1>5. (Pending /\ Sound)'
  BY <1>1 DEF Pending, Sound, WriterType, Window
<1> QED
  BY <1>1, <1>2, <1>3, <1>4, <1>5

LEMMA WriteRetryStep ==
  ASSUME IInv, NEW w \in Writers, WriteRetry(w) PROVE IInv'
<1> USE DEF IInv, TypeOK, WriteRetry, ring, ctl, mixer, writer, stats
<1>1. guard[w] + 1 \in 0..MaxGuard
  BY DEF Pending, WriterType
<1>2. (RingType /\ ControlType /\ MixerType /\ HistoryType)'
  BY DEF RingType, ControlType, MixerType, HistoryType
<1>3. WriterType'
  BY <1>1 DEF WriterType
<1>4. (RingConsistent /\ Ownership /\ Lifecycle)'
  BY DEF RingConsistent, Ownership, Lifecycle, WriterType
<1>5. (Pending /\ Sound)'
  BY <1>1 DEF Pending, Sound, WriterType, Window
<1> QED
  BY <1>1, <1>2, <1>3, <1>4, <1>5

LEMMA WriteCopyStep ==
  ASSUME IInv, NEW w \in Writers, WriteCopy(w) PROVE IInv'
<1> USE DEF IInv, TypeOK, ring, ctl, mixer, writer, stats
<1> DEFINE n == Smaller(last[w] - next[w] + 1, Cap - used)
           off(i) == IF i >= head THEN i - head ELSE i - head + Cap
<1>1. /\ n \in 0..Cap /\ n <= Cap - used /\ n <= last[w] - next[w] + 1
      /\ chunk' = [chunk EXCEPT ![w] = n]
  BY DEF Pending, RingType, WriterType, Smaller, WriteCopy
<1>2. \A v \in Writers : wpc[v] # "copied"
  BY DEF WriteCopy, Ownership
<1>3. mix # "copied"
  BY DEF WriteCopy, Ownership
<1>4. \A i \in Index : fifo'[i] = IF off(i) < n THEN <<w, next[w] + off(i)>> ELSE fifo[i]
  BY DEF WriteCopy, Smaller
<1>5. \A i \in Index : off(i) < n => fifo'[i] \in Byte
  <2> SUFFICES ASSUME NEW i \in Index, off(i) < n PROVE fifo'[i] \in Byte
    OBVIOUS
  <2>1. next[w] + off(i) \in 1..MaxBytes
    BY <1>1 DEF RingType, WriterType, Index
  <2>2. fifo'[i] = <<w, next[w] + off(i)>>
    BY <1>4
  <2> HIDE DEF off
  <2> QED
    BY <2>1, <2>2 DEF Byte
<1>6. RingType'
  <2>1. fifo' = [i \in Index |-> fifo'[i]]
    BY DEF WriteCopy
  <2>2. \A i \in Index : fifo'[i] \in Byte \cup {Silence}
    BY <1>4, <1>5 DEF RingType
  <2>3. fifo' \in [Index -> Byte \cup {Silence}]
    BY <2>1, <2>2
  <2> QED
    BY <2>3 DEF RingType, WriteCopy
<1>7. (ControlType /\ MixerType /\ WriterType /\ HistoryType)'
  BY <1>1 DEF WriteCopy, ControlType, MixerType, WriterType, HistoryType
<1>8. (RingConsistent /\ Ownership /\ Lifecycle)'
  BY <1>1, <1>2, <1>3 DEF WriteCopy, RingConsistent, Ownership, Lifecycle, WriterType
<1>9. Pending'
  BY <1>1, <1>2, <1>3 DEF WriteCopy, Pending, WriterType
<1>10. Sound'
  <2>1. ASSUME NEW k \in 1..used PROVE fifo'[(tail + k - 1) % Cap] \in Byte
    <3>1. (tail + k - 1) % Cap \in Index
      <4>1. tail + k - 1 \in Nat
        BY DEF RingType, Index
      <4> QED
        BY <4>1, WrapInRing
    <3>2. fifo[(tail + k - 1) % Cap] \in Byte
      BY DEF Sound
    <3> QED
      BY <1>4, <1>5, <3>1, <3>2
  <2>2. ASSUME NEW k \in 1..n PROVE fifo'[(head + k - 1) % Cap] \in Byte
    <3>1. n \in 0..Cap
      BY <1>1
    <3>2. k \in 1..n
      OBVIOUS
    <3> HIDE DEF n
    <3>3. PICK x \in Nat : x = head + k - 1 /\ x < 2 * Cap
      BY <3>1, <3>2 DEF RingType, Index
    <3>4. x % Cap \in Index /\ off(x % Cap) = k - 1
      <4>1. x \in Nat /\ x < 2 * Cap /\ x = head + (k - 1) /\ k - 1 \in 0..Cap - 1 /\ head \in 0..Cap - 1
        BY <3>1, <3>2, <3>3 DEF RingType, Index
      <4>2. x % Cap = IF x < Cap THEN x ELSE x - Cap
        BY <4>1, WrapOnce
      <4>3. CASE x < Cap
        BY <4>1, <4>2, <4>3 DEF Index
      <4>4. CASE ~(x < Cap)
        <5>1. x % Cap = x - Cap
          BY <4>2, <4>4
        <5>2. x - Cap = head + (k - 1) - Cap /\ x - Cap < head /\ x - Cap \in Index
          BY <4>1, <4>4 DEF Index
        <5> QED
          BY <4>1, <5>1, <5>2
      <4> QED
        BY <4>3, <4>4
    <3>5. fifo'[x % Cap] \in Byte
      BY <1>5, <3>1, <3>2, <3>4
    <3> QED
      BY <3>3, <3>5
  <2>3. \A v \in Writers : wpc'[v] = "copied" => v = w /\ chunk'[v] = n
    BY <1>1, <1>2 DEF WriteCopy, WriterType
  <2> QED
    BY <2>1, <2>2, <2>3 DEF Sound, WriteCopy
<1> QED
  BY <1>6, <1>7, <1>8, <1>9, <1>10

LEMMA WritePublishStep ==
  ASSUME IInv, NEW w \in Writers, WritePublish(w) PROVE IInv'
<1> USE DEF IInv, TypeOK, ring, ctl, mixer, writer, stats
<1> DEFINE c == chunk[w]
<1>1. /\ c \in 0..Cap /\ used + c \in 0..Cap /\ next[w] + c \in 1..MaxBytes + 1
      /\ next[w] + c <= last[w] + 1
  BY DEF WritePublish, Pending, RingConsistent, RingType, WriterType
<1>2. head' \in Index
  <2>1. head + c \in Nat
    BY <1>1 DEF RingType, Index
  <2> QED
    BY <2>1, WrapInRing DEF WritePublish
<1>3. \A v \in Writers : wpc[v] = "copied" => v = w
  BY DEF WritePublish, Ownership
<1>4. mix # "copied"
  BY DEF WritePublish, Ownership, WriterType
<1>5. (RingType /\ ControlType /\ MixerType /\ HistoryType)'
  <2>1. bytesWritten + c \in Nat
    BY <1>1 DEF HistoryType
  <2>2. RingType'
    BY <1>1, <1>2 DEF WritePublish, RingType
  <2> QED
    BY <2>1, <2>2 DEF WritePublish, ControlType, MixerType, HistoryType
<1>6. WriterType'
  BY <1>1 DEF WritePublish, WriterType
<1>7. RingConsistent'
  <2>1. (head + c) % Cap = (tail + used + c) % Cap
    <3>1. used \in 0..Cap /\ c \in Nat /\ used + c <= Cap /\ tail \in Index
      BY <1>1 DEF RingType
    <3> QED
      BY <3>1, WrapTwice DEF RingConsistent
  <2>2. tail + (used + c) = tail + used + c
    BY <1>1 DEF RingType, Index
  <2> QED
    BY <1>1, <1>3, <1>4, <2>1, <2>2 DEF WritePublish, RingConsistent, WriterType
<1>8. (Ownership /\ Lifecycle)'
  BY <1>3, <1>4 DEF WritePublish, Ownership, Lifecycle, WriterType
<1>9. Pending'
  BY <1>1, <1>3, <1>4 DEF WritePublish, Pending, WriterType
<1>10. Sound'
  <2>1. ASSUME NEW k \in 1..used + c PROVE fifo[(tail + k - 1) % Cap] \in Byte
    <3>1. CASE k <= used
      BY <3>1 DEF Sound, RingType
    <3>2. CASE k > used
      <4>1. k - used \in 1..c
        BY <1>1, <3>2 DEF RingType
      <4>2. fifo[(head + (k - used) - 1) % Cap] \in Byte
        BY <4>1 DEF Sound, WritePublish
      <4>3. (head + (k - used - 1)) % Cap = (tail + used + (k - used - 1)) % Cap
        <5>1. /\ used \in 0..Cap /\ k - used - 1 \in Nat /\ used + (k - used - 1) <= Cap
              /\ tail \in Index
          BY <1>1, <4>1 DEF RingType
        <5> QED
          BY <5>1, WrapTwice DEF RingConsistent
      <4>4. /\ head + (k - used) - 1 = head + (k - used - 1)
            /\ tail + used + (k - used - 1) = tail + k - 1
        BY DEF RingType, Index
      <4> QED
        BY <4>2, <4>3, <4>4
    <3> QED
      BY <3>1, <3>2 DEF RingType
  <2>2. \A v \in Writers : wpc'[v] # "copied"
    BY <1>3 DEF WritePublish, WriterType
  <2> QED
    BY <2>1, <2>2 DEF Sound, WritePublish
<1> QED
  BY <1>5, <1>6, <1>7, <1>8, <1>9, <1>10
-----------------------------------------------------------------------------
LEMMA NextInvariant == IInv /\ [Next]_vars => IInv'
<1> SUFFICES ASSUME IInv, [Next]_vars PROVE IInv'
  OBVIOUS
<1>1. CASE BootNext
  BY <1>1, InitRingStep, InitThreadStep, InitDoneStep, ShutdownBeginStep, ShutdownReleaseStep
     DEF BootNext
<1>2. CASE MixerNext
  BY <1>2, MixerLoopStep, MixerTakeStep, MixerCommitStep, MixerOutputStep DEF MixerNext
<1>3. CASE DeviceDone
  BY <1>3, DeviceDoneStep
<1>4. CASE ResetBuffer
  BY <1>4, ResetBufferStep
<1>5. ASSUME NEW w \in Writers, WriterNext(w) PROVE IInv'
  BY <1>5, WriteCallStep, WriteCopyStep, WritePublishStep, WriteRetryStep DEF WriterNext
<1>6. CASE UNCHANGED vars
  BY <1>6 DEF vars, ring, ctl, mixer, writer, stats, IInv, TypeOK, RingType, ControlType,
     MixerType, WriterType, HistoryType, RingConsistent, Ownership, Lifecycle, Pending, Sound,
     Window
<1> QED
  BY <1>1, <1>2, <1>3, <1>4, <1>5, <1>6 DEF Next

(* The inductive invariant of the sound path.                              *)
THEOREM Invariant == Spec => []IInv
BY InitInvariant, NextInvariant, PTL DEF Spec

(* The types of all variables; in particular head and tail stay inside     *)
(* g_fifo and g_fifo_used inside 0..AUDIO_FIFO_CAPACITY.                   *)
THEOREM TypeCorrect == Spec => []TypeOK
<1>1. IInv => TypeOK
  BY DEF IInv
<1> QED
  BY <1>1, Invariant, PTL

(* The three indices never disagree, whoever ran between lock and unlock.  *)
THEOREM RingStaysConsistent == Spec => []RingConsistent
<1>1. IInv => RingConsistent
  BY DEF IInv
<1> QED
  BY <1>1, Invariant, PTL

(* g_fifo_mutex excludes: no writer and no mixer are in the ring together. *)
THEOREM Exclusion == Spec => []MutualExclusion
<1>1. IInv => MutualExclusion
  BY DEF IInv, Ownership, MutualExclusion
<1> QED
  BY <1>1, Invariant, PTL

(* The mixer never calls sceAudioOutOutput on a port that is not open.     *)
THEOREM OutputPortOpen == Spec => []OutputOnOpenPort
<1>1. IInv => OutputOnOpenPort
  BY DEF IInv, Lifecycle, OutputOnOpenPort
<1> QED
  BY <1>1, Invariant, PTL
-----------------------------------------------------------------------------
(* The refinement: every step of the sound path is a Put, a Get or a Clear *)
(* of the queue, or leaves both its variables alone.                       *)
LEMMA InitRefines == Init => Queue!Init
BY DEF Init, Queue!Init, Queued, Window, Out, InDevice, Ready, Quiet

LEMMA QueuedType == IInv => Queued \in Seq(Byte) /\ Len(Queued) = used
<1> SUFFICES ASSUME IInv PROVE Queued \in Seq(Byte) /\ Len(Queued) = used
  OBVIOUS
<1>1. used \in Nat
  BY DEF IInv, TypeOK, RingType
<1>2. Queued \in [1..used -> Byte]
  BY DEF IInv, Sound, Queued, Window
<1> QED
  BY <1>1, <1>2

LEMMA OutputParts ==
  IInv => InDevice \in Seq(Byte \cup {Silence}) /\ Ready \in Seq(Byte \cup {Silence})
BY DEF IInv, TypeOK, MixerType, InDevice, Ready, Quiet

LEMMA ResetRefines == IInv /\ ResetBuffer => Queue!Clear
BY DEF IInv, ResetBuffer, Queue!Clear, ctl, mixer, writer, stats, Queued, Window, Out, InDevice, Ready

LEMMA OutputRefines == IInv /\ MixerOutput => UNCHANGED <<Queued, Out>>
<1> SUFFICES ASSUME IInv, MixerOutput PROVE UNCHANGED <<Queued, Out>>
  OBVIOUS
<1>1. Queued' = Queued
  BY DEF MixerOutput, ring, Queued, Window
<1>2. InDevice = << >> /\ Ready = outBuf[bufIdx] /\ InDevice' = outBuf[bufIdx] /\ Ready' = << >>
  BY DEF MixerOutput, InDevice, Ready, Quiet, IInv, TypeOK, MixerType
<1>3. Out' = Out
  BY <1>2, OutputParts DEF MixerOutput, Out, IInv, TypeOK, HistoryType
<1> QED
  BY <1>1, <1>3

LEMMA DeviceDoneRefines == IInv /\ DeviceDone => UNCHANGED <<Queued, Out>>
<1> SUFFICES ASSUME IInv, DeviceDone PROVE UNCHANGED <<Queued, Out>>
  OBVIOUS
<1>1. Queued' = Queued
  BY DEF DeviceDone, ring, Queued, Window
<1>2. /\ InDevice = outBuf[device] /\ InDevice' = << >> /\ Ready' = Ready
      /\ heard' = heard \o outBuf[device]
  BY DEF DeviceDone, mixer, InDevice, Ready, Quiet
<1>3. Out' = Out
  BY <1>2, OutputParts DEF Out, IInv, TypeOK, HistoryType
<1> QED
  BY <1>1, <1>3

\* The grain that the mixer has copied leaves the queue at its end.
LEMMA CommitTakes ==
  ASSUME IInv, MixerCommit
  PROVE  /\ take \in 0..used /\ Out' = Out \o SubSeq(Queued, 1, take)
         /\ Queued' = SubSeq(Queued, take + 1, Len(Queued))
<1> USE DEF IInv, TypeOK
<1>1. take \in 0..used /\ used \in 0..Cap /\ tail \in Index
  BY DEF MixerCommit, RingConsistent, MixerType, RingType
<1>2. Ready' = Window(tail, take) /\ Ready = << >> /\ InDevice' = InDevice /\ heard' = heard
  BY DEF MixerCommit, Pending, Ready, InDevice
<1>3. Window(tail, take) = SubSeq(Queued, 1, take)
  BY <1>1, QueuedType DEF Queued, Window
<1>4. Out' = Out \o SubSeq(Queued, 1, take)
  BY <1>1, <1>2, <1>3, QueuedType, OutputParts DEF Out, HistoryType
<1>5. Queued' = SubSeq(Queued, take + 1, Len(Queued))
  <2>1. Queued' = [k \in 1..used - take |-> fifo[(tail' + k - 1) % Cap]]
    BY DEF MixerCommit, Queued, Window
  <2>2. SubSeq(Queued, take + 1, Len(Queued))
          = [k \in 1..used - take |-> fifo[(tail + (k + take) - 1) % Cap]]
    BY <1>1, QueuedType DEF Queued, Window
  <2>3. ASSUME NEW k \in 1..used - take
        PROVE (tail' + k - 1) % Cap = (tail + (k + take) - 1) % Cap
    <3>1. (((tail + take) % Cap) + (k - 1)) % Cap = (tail + take + (k - 1)) % Cap
      BY <1>1, WrapTwice
    <3>2. tail' = (tail + take) % Cap /\ tail' \in Index
      BY <1>1, MixerCommitStep DEF MixerCommit, RingType
    <3>3. tail' + k - 1 = tail' + (k - 1) /\ tail + (k + take) - 1 = tail + take + (k - 1)
      BY <1>1, <3>2 DEF Index
    <3> QED
      BY <3>1, <3>2, <3>3
  <2> QED
    BY <2>1, <2>2, <2>3
<1> QED
  BY <1>1, <1>4, <1>5

LEMMA CommitRefines == IInv /\ MixerCommit => [Queue!Get]_<<Queued, Out>>
<1> SUFFICES ASSUME IInv, MixerCommit PROVE [Queue!Get]_<<Queued, Out>>
  OBVIOUS
<1>1. /\ take \in 0..used /\ Out' = Out \o SubSeq(Queued, 1, take)
      /\ Queued' = SubSeq(Queued, take + 1, Len(Queued))
  BY CommitTakes
<1>2. Queued \in Seq(Byte) /\ Len(Queued) = used /\ used \in Nat /\ Out \in Seq(Byte \cup {Silence})
  BY QueuedType, OutputParts DEF IInv, TypeOK, RingType, HistoryType, Out
<1>3. CASE take = 0
  <2>1. Queued' = Queued
    BY <1>1, <1>2, <1>3
  <2>2. SubSeq(Queued, 1, take) = << >>
    BY <1>2, <1>3
  <2>3. Out' = Out
    BY <1>1, <1>2, <2>2, ConcatEmptySeq
  <2> QED
    BY <2>1, <2>3
<1>4. CASE take # 0
  <2>1. take \in 1..Len(Queued)
    BY <1>1, <1>2, <1>4
  <2> QED
    BY <1>1, <2>1 DEF Queue!Get
<1> QED
  BY <1>3, <1>4

LEMMA CopyRefines == ASSUME IInv, NEW w \in Writers, WriteCopy(w) PROVE UNCHANGED <<Queued, Out>>
<1> USE DEF IInv, TypeOK
<1> DEFINE n == Smaller(last[w] - next[w] + 1, Cap - used)
           off(i) == IF i >= head THEN i - head ELSE i - head + Cap
<1>1. n <= Cap - used /\ n \in Int
  BY DEF Smaller, RingType, WriterType
<1>2. \A i \in Index : off(i) >= Cap - used => fifo'[i] = fifo[i]
  <2>1. \A i \in Index : fifo'[i] = IF off(i) < n THEN <<w, next[w] + off(i)>> ELSE fifo[i]
    BY DEF WriteCopy, Smaller
  <2>2. ASSUME NEW i \in Index, off(i) >= Cap - used PROVE ~(off(i) < n)
    <3>1. off(i) \in Int /\ Cap - used \in Int
      BY DEF RingType, Index
    <3> HIDE DEF n, off
    <3> QED
      BY <1>1, <2>2, <3>1
  <2> HIDE DEF n, off
  <2> QED
    BY <2>1, <2>2
<1>3. ASSUME NEW k \in 1..used PROVE fifo'[(tail + k - 1) % Cap] = fifo[(tail + k - 1) % Cap]
  <2>1. PICK x \in Nat : x = tail + k - 1 /\ x < 2 * Cap
    BY DEF RingType, Index
  <2>2. x % Cap = IF x < Cap THEN x ELSE x - Cap
    BY <2>1, WrapOnce
  <2>3. PICK y \in Nat : y = tail + used /\ y < 2 * Cap
    BY DEF RingType, Index
  <2>4. head = IF y < Cap THEN y ELSE y - Cap
    BY <2>3, WrapOnce DEF RingConsistent
  <2>5. x % Cap \in Index
    BY WrapInRing
  <2>6. /\ k \in 1..used /\ used \in 0..Cap /\ tail \in 0..Cap - 1 /\ head \in 0..Cap - 1
        /\ x % Cap \in 0..Cap - 1
    BY <2>5 DEF RingType, Index
  <2>7. off(x % Cap) >= Cap - used
    BY <2>1, <2>2, <2>3, <2>4, <2>6
  <2>8. fifo'[x % Cap] = fifo[x % Cap]
    BY <1>2, <2>5, <2>7
  <2> QED
    BY <2>1, <2>8
<1>4. Queued' = Queued
  BY <1>3 DEF WriteCopy, Queued, Window
<1>5. Out' = Out
  BY DEF WriteCopy, mixer, Out, InDevice, Ready
<1> QED
  BY <1>4, <1>5

LEMMA PublishRefines ==
  ASSUME IInv, NEW w \in Writers, WritePublish(w) PROVE [Queue!Put]_<<Queued, Out>>
<1> USE DEF IInv, TypeOK
<1>1. /\ chunk[w] \in Nat /\ used \in Nat /\ used + chunk[w] <= Cap
      /\ used' = used + chunk[w] /\ fifo' = fifo /\ tail' = tail
  BY DEF WritePublish, RingConsistent, RingType, WriterType
<1>2. Queued' = [k \in 1..used + chunk[w] |-> fifo[(tail + k - 1) % Cap]]
  BY <1>1 DEF Queued, Window
<1>3. Queued = [k \in 1..used |-> fifo[(tail + k - 1) % Cap]]
  BY DEF Queued, Window
<1>4. Queued' \in Seq(Byte) /\ Len(Queued') = used'
  <2>1. IInv'
    BY WritePublishStep
  <2>2. used' \in Nat
    BY <1>1
  <2>3. Queued' \in [1..used' -> Byte]
    BY <2>1 DEF Sound, Queued, Window
  <2> QED
    BY <2>2, <2>3
<1>5. Out' = Out
  BY DEF WritePublish, mixer, Out, InDevice, Ready
<1>6. CASE chunk[w] = 0
  BY <1>1, <1>2, <1>3, <1>5, <1>6
<1>7. CASE chunk[w] # 0
  <2>1. Len(Queued) = used /\ Queued \in Seq(Byte)
    BY QueuedType
  <2>2. SubSeq(Queued', 1, used) = Queued
    BY <1>1, <1>2, <1>3, <1>4
  <2>3. Len(Queued) < Len(Queued') /\ Len(Queued') <= Cap
    BY <1>1, <1>4, <1>7, <2>1
  <2> QED
    BY <1>4, <1>5, <2>1, <2>2, <2>3 DEF Queue!Put
<1> QED
  BY <1>6, <1>7

LEMMA OthersRefine ==
  ASSUME IInv,
         \/ BootNext \/ MixerLoop \/ MixerTake \/ UNCHANGED vars
         \/ \E w \in Writers : WriteRetry(w) \/ \E size \in Sizes : WriteCall(w, size)
  PROVE  UNCHANGED <<Queued, Out>>
<1> USE DEF IInv, TypeOK, ring, ctl, mixer, writer, stats, Queued, Window, Out, InDevice, Ready
<1>1. CASE BootNext
  <2>1. CASE InitRing
    BY <2>1 DEF InitRing, Lifecycle
  <2>2. CASE InitThread
    BY <2>2 DEF InitThread, Lifecycle
  <2>3. CASE InitDone \/ ShutdownBegin \/ ShutdownRelease
    BY <2>3 DEF InitDone, ShutdownBegin, ShutdownRelease
  <2> QED
    BY <1>1, <2>1, <2>2, <2>3 DEF BootNext
<1>2. CASE MixerLoop
  BY <1>2 DEF MixerLoop
<1>3. CASE MixerTake
  BY <1>3 DEF MixerTake, Pending, MixerType, Quiet
<1>4. CASE UNCHANGED vars
  BY <1>4 DEF vars
<1>5. ASSUME NEW w \in Writers, WriteRetry(w) \/ \E size \in Sizes : WriteCall(w, size)
      PROVE  UNCHANGED <<Queued, Out>>
  BY <1>5 DEF WriteRetry, WriteCall
<1> QED
  BY <1>1, <1>2, <1>3, <1>4, <1>5

(* The ring with its mutex, its mixer thread and its double buffer is a    *)
(* queue: PCM leaves in the order in which it was accepted and is lost by  *)
(* a reset only, for every interleaving of the threads.                    *)
THEOREM ImplementsQueue == Spec => QueueSpec
<1>1. IInv /\ [Next]_vars => [Queue!Next]_<<Queued, Out>>
  <2> SUFFICES ASSUME IInv, [Next]_vars PROVE [Queue!Next]_<<Queued, Out>>
    OBVIOUS
  <2>1. CASE MixerOutput
    BY <2>1, OutputRefines
  <2>2. CASE MixerCommit
    BY <2>2, CommitRefines DEF Queue!Next
  <2>3. CASE DeviceDone
    BY <2>3, DeviceDoneRefines
  <2>4. CASE ResetBuffer
    BY <2>4, ResetRefines DEF Queue!Next
  <2>5. ASSUME NEW w \in Writers, WriteCopy(w) PROVE [Queue!Next]_<<Queued, Out>>
    BY <2>5, CopyRefines
  <2>6. ASSUME NEW w \in Writers, WritePublish(w) PROVE [Queue!Next]_<<Queued, Out>>
    BY <2>6, PublishRefines DEF Queue!Next
  <2>7. CASE \/ BootNext \/ MixerLoop \/ MixerTake \/ UNCHANGED vars
             \/ \E w \in Writers : WriteRetry(w) \/ \E size \in Sizes : WriteCall(w, size)
    BY <2>7, OthersRefine
  <2> QED
    BY <2>1, <2>2, <2>3, <2>4, <2>5, <2>6, <2>7 DEF Next, MixerNext, WriterNext
<1> QED
  BY <1>1, InitRefines, Invariant, PTL DEF Spec, QueueSpec, Queue!Spec
-----------------------------------------------------------------------------
(* Whole frames: what the engine writes, what fits and what the mixer      *)
(* takes are multiples of AUDIO_BYTES_PER_FRAME.                           *)
Whole == {k * Frame : k \in Nat}
WholeFrames == Cap \in Whole /\ Grain \in Whole /\ Sizes \subseteq Whole
\* What writer w still has to put into the ring.
Left(w) == last[w] + 1 - next[w]
Framed ==
  /\ used \in Whole
  /\ \A w \in Writers : Left(w) \in Whole /\ (wpc[w] = "copied" => chunk[w] \in Whole)
  /\ mix = "copied" => take \in Whole
  /\ FramesExact
  /\ boot = "start" => framesPlayed = 0 /\ Out = << >>

LEMMA WholeZero == 0 \in Whole
<1>1. 0 = 0 * Frame
  OBVIOUS
<1> QED BY <1>1 DEF Whole

LEMMA WholeSum == ASSUME NEW x \in Whole, NEW y \in Whole PROVE x + y \in Whole
<1>1. PICK k \in Nat, m \in Nat : x = k * Frame /\ y = m * Frame
  BY DEF Whole
<1>2. x + y = (k + m) * Frame /\ k + m \in Nat
  BY <1>1
<1> QED BY <1>2 DEF Whole

LEMMA WholeDifference == ASSUME NEW x \in Whole, NEW y \in Whole, y <= x PROVE x - y \in Whole
<1>1. PICK k \in Nat, m \in Nat : x = k * Frame /\ y = m * Frame
  BY DEF Whole
<1>2. x - y = (k - m) * Frame
  BY <1>1
<1>3. k - m \in Nat
  BY <1>1
<1> QED BY <1>2, <1>3 DEF Whole

LEMMA WholeSmaller == ASSUME NEW x \in Whole, NEW y \in Whole PROVE Smaller(x, y) \in Whole
BY DEF Smaller

LEMMA WholeDivides == ASSUME NEW x \in Whole PROVE x \in Nat /\ (x \div Frame) \in Nat /\ (x \div Frame) * Frame = x
<1>1. PICK k \in Nat : x = k * Frame
  BY DEF Whole
<1>2. (k * Frame) \div Frame = k
  OBVIOUS
<1> QED BY <1>1, <1>2

\* Neither a reset nor a writer touches what has left the queue.
LEMMA OutKept ==
  /\ IInv /\ ResetBuffer => Out' = Out
  /\ \A w \in Writers : IInv /\ WritePublish(w) => Out' = Out
BY DEF ResetBuffer, WritePublish, mixer, Out, InDevice, Ready

LEMMA InitFramed == Init => Framed
<1> SUFFICES ASSUME Init PROVE Framed
  OBVIOUS
<1>1. Out = << >> /\ Len(Out) = 0
  BY DEF Init, Out, InDevice, Ready
<1>2. \A w \in Writers : Left(w) = 0 /\ wpc[w] # "copied"
  BY DEF Init, Left
<1> QED BY <1>1, <1>2, WholeZero DEF Init, Framed, FramesExact

LEMMA NextFramed == ASSUME WholeFrames PROVE IInv /\ Framed /\ [Next]_vars => Framed'
<1> SUFFICES ASSUME IInv, Framed, [Next]_vars PROVE Framed'
  OBVIOUS
<1> USE DEF IInv, TypeOK
<1>1. CASE MixerCommit
  <2>1. take \in Whole /\ used \in Whole
    BY <1>1 DEF Framed, MixerCommit
  <2>2. /\ take \in 0..used /\ Out' = Out \o SubSeq(Queued, 1, take)
        /\ Queued \in Seq(Byte) /\ Len(Queued) = used /\ used \in Nat
        /\ Out \in Seq(Byte \cup {Silence})
    <3>1. /\ take \in 0..used /\ Out' = Out \o SubSeq(Queued, 1, take)
          /\ Queued \in Seq(Byte) /\ Len(Queued) = used
      BY <1>1, CommitTakes, QueuedType
    <3>2. used \in Nat /\ Out \in Seq(Byte \cup {Silence})
      BY OutputParts DEF RingType, HistoryType, Out
    <3> QED BY <3>1, <3>2
  <2>3. used' \in Whole
    <3>1. take <= used /\ used' = used - take
      BY <1>1, <2>2 DEF MixerCommit
    <3> QED BY <2>1, <3>1, WholeDifference
  <2>4. Len(Out') = Len(Out) + take
    <3>1. SubSeq(Queued, 1, take) \in Seq(Byte \cup {Silence}) /\ Len(SubSeq(Queued, 1, take)) = take
      BY <2>2
    <3> QED BY <2>2, <3>1
  <2>5. FramesExact'
    <3>1. /\ framesPlayed \in Nat /\ framesPlayed' = framesPlayed + take \div Frame
          /\ framesPlayed * Frame = Len(Out) /\ Len(Out) \in Nat
      BY <1>1, <2>2, LenProperties DEF MixerCommit, HistoryType, Framed, FramesExact
    <3>2. PICK q \in Nat : q = take \div Frame /\ q * Frame = take
      BY <2>1, WholeDivides
    <3>3. framesPlayed' * Frame = framesPlayed * Frame + take
      BY <3>1, <3>2
    <3> QED BY <2>4, <3>1, <3>3 DEF FramesExact
  <2>6. boot' # "start" /\ mix' # "copied"
    BY <1>1 DEF MixerCommit, ctl, Lifecycle
  <2>7. \A w \in Writers : Left(w)' = Left(w) /\ wpc'[w] = wpc[w] /\ chunk'[w] = chunk[w]
    BY <1>1 DEF MixerCommit, writer, Left
  <2> QED BY <2>3, <2>5, <2>6, <2>7 DEF Framed
<1>2. ASSUME ~MixerCommit PROVE FramesExact' /\ (boot' = "start" => framesPlayed' = 0 /\ Out' = << >>)
  <2>1. Out' = Out
    BY <1>2, OthersRefine, OutputRefines, DeviceDoneRefines, CopyRefines, OutKept
       DEF Next, MixerNext, WriterNext
  <2>2. \/ framesPlayed' = framesPlayed /\ (boot' = "start" => boot = "start")
        \/ boot = "start" /\ framesPlayed' = 0
    BY <1>2 DEF Next, vars, BootNext, MixerNext, WriterNext, InitRing, InitThread, InitDone, ShutdownBegin,
       ShutdownRelease, MixerLoop, MixerTake, MixerOutput, DeviceDone, ResetBuffer, WriteCall,
       WriteCopy, WritePublish, WriteRetry, stats, ctl
  <2> QED BY <2>1, <2>2 DEF Framed, FramesExact
<1>3. CASE MixerTake
  <2>1. take' \in Whole
    BY <1>3, WholeSmaller DEF MixerTake, Framed, WholeFrames
  <2>2. used' = used /\ \A w \in Writers : Left(w)' = Left(w) /\ wpc'[w] = wpc[w] /\ chunk'[w] = chunk[w]
    BY <1>3 DEF MixerTake, ring, writer, Left
  <2>3. ~MixerCommit
    BY <1>3 DEF MixerTake, MixerCommit
  <2> QED BY <1>2, <2>1, <2>2, <2>3 DEF Framed
<1>4. ASSUME NEW w \in Writers, NEW n \in Sizes, WriteCall(w, n) PROVE Framed'
  <2>1. Left(w)' = n
    BY <1>4 DEF WriteCall, Left, WriterType
  <2>2. /\ used' = used /\ mix' = mix /\ take' = take
        /\ \A v \in Writers : wpc'[v] = "copied" => wpc[v] = "copied" /\ chunk'[v] = chunk[v]
    BY <1>4 DEF WriteCall, ring, mixer, WriterType
  <2>3. \A v \in Writers \ {w} : Left(v)' = Left(v)
    BY <1>4 DEF WriteCall, Left, WriterType
  <2>4. ~MixerCommit
    BY <1>4 DEF WriteCall, MixerCommit, mixer, MixerType, ControlType
  <2> QED BY <1>2, <1>4, <2>1, <2>2, <2>3, <2>4 DEF Framed, WholeFrames
<1>5. ASSUME NEW w \in Writers, WriteCopy(w) PROVE Framed'
  <2>1. Cap - used \in Whole
    BY WholeDifference DEF Framed, WholeFrames, RingType
  <2>2. last[w] - next[w] + 1 \in Whole
    <3>1. last[w] - next[w] + 1 = Left(w)
      BY DEF Left, WriterType
    <3> QED BY <3>1 DEF Framed
  <2>3. chunk'[w] \in Whole
    BY <1>5, <2>1, <2>2, WholeSmaller DEF WriteCopy, WriterType
  <2>4. /\ used' = used /\ mix' = mix /\ take' = take
        /\ \A v \in Writers \ {w} : wpc'[v] = wpc[v] /\ chunk'[v] = chunk[v]
        /\ \A v \in Writers : Left(v)' = Left(v)
    BY <1>5 DEF WriteCopy, mixer, WriterType, Left
  <2>5. ~MixerCommit
    BY <1>5 DEF WriteCopy, MixerCommit, ControlType, Ownership
  <2> QED BY <1>2, <2>3, <2>4, <2>5 DEF Framed
<1>6. ASSUME NEW w \in Writers, WritePublish(w) PROVE Framed'
  <2>1. chunk[w] \in Whole /\ used' = used + chunk[w]
    BY <1>6 DEF WritePublish, Framed
  <2>2. used' \in Whole
    BY <2>1, WholeSum DEF Framed
  <2>3. Left(w)' = Left(w) - chunk[w] /\ chunk[w] <= Left(w)
    BY <1>6 DEF WritePublish, Left, WriterType, Pending
  <2>4. Left(w)' \in Whole
    BY <2>1, <2>3, WholeDifference DEF Framed
  <2>5. /\ mix' = mix /\ take' = take /\ wpc'[w] # "copied"
        /\ \A v \in Writers \ {w} : wpc'[v] = wpc[v] /\ chunk'[v] = chunk[v] /\ Left(v)' = Left(v)
    BY <1>6 DEF WritePublish, mixer, WriterType, Left
  <2>6. ~MixerCommit
    BY <1>6 DEF WritePublish, MixerCommit, ControlType, Ownership
  <2> QED BY <1>2, <2>2, <2>4, <2>5, <2>6 DEF Framed
<1>7. CASE BootNext \/ MixerLoop \/ MixerOutput \/ DeviceDone \/ ResetBuffer \/ UNCHANGED vars
           \/ \E w \in Writers : WriteRetry(w)
  <2>1. /\ used' \in {0, used} /\ take' = take
        /\ mix' = "copied" => mix = "copied"
        /\ UNCHANGED <<next, last, chunk>>
        /\ \A v \in Writers : wpc'[v] = "copied" => wpc[v] = "copied"
    BY <1>7 DEF BootNext, InitRing, InitThread, InitDone, ShutdownBegin, ShutdownRelease, MixerLoop, MixerOutput,
       DeviceDone, ResetBuffer, WriteRetry, WriterType, vars, ring, mixer, writer
  <2>2. \A v \in Writers : Left(v)' = Left(v)
    BY <2>1 DEF Left
  <2>3. ~MixerCommit
    BY <1>7 DEF BootNext, InitRing, InitThread, InitDone, ShutdownBegin, ShutdownRelease, MixerLoop, MixerOutput,
       DeviceDone, ResetBuffer, WriteRetry, vars, mixer, MixerCommit
  <2> QED BY <1>2, <2>1, <2>2, <2>3, WholeZero DEF Framed
<1> QED
  BY <1>1, <1>3, <1>4, <1>5, <1>6, <1>7 DEF Next, MixerNext, WriterNext

(* If the engine writes whole frames the frames counter is exact: no grain *)
(* of audio_mixer_thread ends inside a frame.                              *)
THEOREM CountsWholeFrames == ASSUME WholeFrames PROVE Spec => []FramesExact
<1>1. Framed => FramesExact
  BY DEF Framed
<1> QED
  BY <1>1, InitFramed, NextFramed, Invariant, PTL DEF Spec
-----------------------------------------------------------------------------
(* A byte is in one place: waiting, out, or cut.                           *)
Members(s) == {s[i] : i \in DOMAIN s}
Distinct(s) == \A i, j \in DOMAIN s : s[i] = s[j] => i = j
\* Byte b has been put into the ring by its writer.
Given(b) == b \in Byte /\ b[2] < next[b[1]]
Apart ==
  /\ \A b \in Members(Queued) \cup Members(Out) \cup cut : Given(b)
  /\ Distinct(Queued)
  /\ \A b \in Members(Out) : b \notin Members(Queued) /\ b \notin cut
  /\ \A b \in cut : b \notin Members(Queued)
  /\ \A w \in Writers : wpc[w] = "copied" =>
       \A k \in 1..chunk[w] : fifo[(head + k - 1) % Cap] = <<w, next[w] + k - 1>>

LEMMA SeqFacts ==
  ASSUME IInv
  PROVE  /\ Queued \in Seq(Byte) /\ Len(Queued) = used /\ used \in Nat /\ DOMAIN Queued = 1..used
         /\ Out \in Seq(Byte \cup {Silence}) /\ heard \in Seq(Byte \cup {Silence})
<1>1. Queued \in Seq(Byte) /\ Len(Queued) = used
  BY QueuedType
<1>2. used \in Nat /\ heard \in Seq(Byte \cup {Silence}) /\ Out \in Seq(Byte \cup {Silence})
  BY OutputParts DEF IInv, TypeOK, RingType, HistoryType, Out
<1> QED BY <1>1, <1>2, LenProperties

LEMMA MembersConcat ==
  ASSUME NEW S, NEW s \in Seq(S), NEW t \in Seq(S)
  PROVE  Members(s \o t) = Members(s) \cup Members(t)
<1>1. /\ s \o t \in Seq(S) /\ Len(s \o t) = Len(s) + Len(t)
      /\ \A i \in 1..Len(s) + Len(t) : (s \o t)[i] = IF i <= Len(s) THEN s[i] ELSE t[i - Len(s)]
  BY ConcatProperties
<1>2. /\ Len(s) \in Nat /\ Len(t) \in Nat /\ DOMAIN s = 1..Len(s) /\ DOMAIN t = 1..Len(t)
      /\ DOMAIN (s \o t) = 1..Len(s) + Len(t)
  BY <1>1, LenProperties
<1>3. ASSUME NEW i \in DOMAIN (s \o t) PROVE (s \o t)[i] \in Members(s) \cup Members(t)
  <2>1. CASE i <= Len(s)
    <3>1. i \in DOMAIN s /\ (s \o t)[i] = s[i]
      BY <1>1, <1>2, <2>1
    <3> QED BY <3>1 DEF Members
  <2>2. CASE ~(i <= Len(s))
    <3>1. i - Len(s) \in DOMAIN t /\ (s \o t)[i] = t[i - Len(s)]
      BY <1>1, <1>2, <2>2
    <3> QED BY <3>1 DEF Members
  <2> QED BY <2>1, <2>2
<1>4. ASSUME NEW i \in DOMAIN s PROVE s[i] \in Members(s \o t)
  <2>1. i \in DOMAIN (s \o t) /\ (s \o t)[i] = s[i]
    BY <1>1, <1>2
  <2> QED BY <2>1 DEF Members
<1>5. ASSUME NEW i \in DOMAIN t PROVE t[i] \in Members(s \o t)
  <2>1. /\ Len(s) + i \in 1..Len(s) + Len(t) /\ ~(Len(s) + i <= Len(s))
        /\ (Len(s) + i) - Len(s) = i
    BY <1>2
  <2>2. Len(s) + i \in DOMAIN (s \o t) /\ (s \o t)[Len(s) + i] = t[i]
    BY <1>1, <1>2, <2>1
  <2> QED BY <2>2 DEF Members
<1> QED BY <1>3, <1>4, <1>5 DEF Members

LEMMA Halves ==
  ASSUME NEW S, NEW q \in Seq(S), NEW n \in 0..Len(q)
  PROVE  /\ SubSeq(q, 1, n) \in Seq(S) /\ DOMAIN SubSeq(q, 1, n) = 1..n
         /\ \A i \in 1..n : SubSeq(q, 1, n)[i] = q[i]
         /\ SubSeq(q, n + 1, Len(q)) \in Seq(S) /\ DOMAIN SubSeq(q, n + 1, Len(q)) = 1..Len(q) - n
         /\ \A i \in 1..Len(q) - n : SubSeq(q, n + 1, Len(q))[i] = q[n + i]
<1>1. \A i \in 1..Len(q) : q[i] \in S
  BY ElementOfSeq
<1> QED BY <1>1

\* Bytes only ever get given.
LEMMA ApartKept ==
  ASSUME IInv, Apart, Queued' = Queued, Out' = Out, cut' = cut,
         \A w \in Writers : next[w] \in Int /\ next'[w] \in Int /\ next[w] <= next'[w],
         \A w \in Writers : wpc'[w] = "copied" =>
           \A k \in 1..chunk'[w] : fifo'[(head' + k - 1) % Cap] = <<w, next'[w] + k - 1>>
  PROVE  Apart'
<1>1. \A b : Given(b) => Given(b)'
  BY DEF Given, Byte
<1>2. Members(Queued)' = Members(Queued) /\ Members(Out)' = Members(Out)
  BY DEF Members
<1>3. Distinct(Queued)'
  BY DEF Distinct, Apart
<1> QED BY <1>1, <1>2, <1>3 DEF Apart

LEMMA CommitApart == ASSUME IInv, Apart, MixerCommit PROVE Apart'
<1>1. /\ take \in 0..used /\ Out' = Out \o SubSeq(Queued, 1, take)
      /\ Queued' = SubSeq(Queued, take + 1, Len(Queued))
  BY CommitTakes
<1> PICK q, n, o : q = Queued /\ n = take /\ o = Out
  OBVIOUS
<1>2. /\ q \in Seq(Byte) /\ Len(q) \in Nat /\ DOMAIN q = 1..Len(q) /\ n \in 0..Len(q)
      /\ o \in Seq(Byte \cup {Silence})
  BY <1>1, SeqFacts
<1> DEFINE old == SubSeq(q, 1, n)  new == SubSeq(q, n + 1, Len(q))
<1>4. /\ old \in Seq(Byte) /\ DOMAIN old = 1..n /\ \A i \in 1..n : old[i] = q[i]
  BY <1>2, Halves
<1>5. /\ new \in Seq(Byte) /\ DOMAIN new = 1..Len(q) - n /\ \A i \in 1..Len(q) - n : new[i] = q[n + i]
  BY <1>2, Halves
<1> HIDE DEF old, new
<1>6. Members(old) \subseteq Members(q) /\ Members(new) \subseteq Members(q)
  <2>1. \A i \in 1..n : i \in DOMAIN q
    BY <1>2
  <2>2. \A i \in 1..Len(q) - n : n + i \in DOMAIN q
    BY <1>2
  <2> QED BY <1>4, <1>5, <2>1, <2>2 DEF Members
<1>7. Distinct(q)
  BY DEF Apart
<1>8. \A b \in Members(old) : b \notin Members(new)
  <2> SUFFICES ASSUME NEW i \in 1..n, NEW j \in 1..Len(q) - n, q[i] = q[n + j] PROVE FALSE
    BY <1>4, <1>5 DEF Members
  <2>1. i \in DOMAIN q /\ n + j \in DOMAIN q /\ i # n + j
    BY <1>2
  <2> QED BY <1>7, <2>1 DEF Distinct
<1>9. Distinct(new)
  <2> SUFFICES ASSUME NEW i \in 1..Len(q) - n, NEW j \in 1..Len(q) - n, q[n + i] = q[n + j] PROVE i = j
    BY <1>5 DEF Distinct
  <2>1. n + i \in DOMAIN q /\ n + j \in DOMAIN q
    BY <1>2
  <2>2. n + i = n + j
    BY <1>7, <2>1 DEF Distinct
  <2> QED BY <1>2, <2>2
<1>10. Members(o \o old) = Members(o) \cup Members(old)
  <2>1. old \in Seq(Byte \cup {Silence})
    BY <1>2, <1>4
  <2> QED BY <1>2, <2>1, MembersConcat
<1>11. Queued' = new /\ Out' = o \o old
  BY <1>1 DEF old, new
<1>12. Members(Queued)' = Members(new) /\ Members(Out)' = Members(o) \cup Members(old) /\ Distinct(Queued)'
  BY <1>9, <1>10, <1>11 DEF Members, Distinct
<1>13. /\ cut' = cut /\ next' = next
       /\ \A b : Given(b)' <=> Given(b)
       /\ \A w \in Writers : wpc'[w] # "copied"
  BY DEF MixerCommit, writer, Given, IInv, Ownership, ThreadAssumption
<1>14. /\ \A b \in Members(q) \cup Members(o) \cup cut : Given(b)
       /\ \A b \in Members(o) : b \notin Members(q) /\ b \notin cut
       /\ \A b \in cut : b \notin Members(q)
  BY DEF Apart
<1> QED BY <1>6, <1>8, <1>12, <1>13, <1>14 DEF Apart

LEMMA ResetApart == ASSUME IInv, Apart, ResetBuffer PROVE Apart'
<1>1. Queued' = << >> /\ Out' = Out
  BY ResetRefines DEF Queue!Clear
<1>2. Members(Queued)' = {} /\ Distinct(Queued)' /\ Members(Out)' = Members(Out)
  BY <1>1 DEF Members, Distinct
<1>3. cut' = cut \cup Members(Queued)
  <2>1. Members(Queued) = {fifo[(tail + k - 1) % Cap] : k \in 1..used}
    <3>1. DOMAIN Queued = 1..used /\ \A k \in 1..used : Queued[k] = fifo[(tail + k - 1) % Cap]
      BY DEF Queued, Window
    <3> QED BY <3>1 DEF Members
  <2> QED BY <2>1 DEF ResetBuffer
<1>4. \A b : Given(b)' <=> Given(b)
  BY DEF ResetBuffer, writer, Given
<1>5. \A w \in Writers : wpc'[w] # "copied"
  BY DEF ResetBuffer, writer, IInv, Ownership
<1> QED BY <1>2, <1>3, <1>4, <1>5 DEF Apart

\* What w publishes comes after all that was queued, byte for byte.
LEMMA PublishAppends ==
  ASSUME IInv, Apart, NEW w \in Writers, WritePublish(w), NEW q, NEW c, NEW x,
         q = Queued, c = chunk[w], x = next[w]
  PROVE  /\ q \in Seq(Byte) /\ DOMAIN q = 1..used /\ used \in Nat /\ c \in Nat /\ x \in Nat
         /\ next' = [next EXCEPT ![w] = @ + c] /\ next \in [Writers -> 1..MaxBytes + 1]
         /\ cut' = cut /\ Out' = Out
         /\ DOMAIN Queued' = 1..used + c
         /\ \A k \in 1..used : Queued'[k] = q[k]
         /\ \A k \in 1..c : Queued'[used + k] = <<w, x + k - 1>>
<1>1. /\ q \in Seq(Byte) /\ DOMAIN q = 1..used /\ used \in Nat /\ c \in Nat /\ used' = used + c
      /\ fifo' = fifo /\ tail' = tail /\ tail \in Index /\ used + c <= Cap
      /\ x \in Nat /\ next' = [next EXCEPT ![w] = @ + c] /\ cut' = cut /\ Out' = Out
      /\ next \in [Writers -> 1..MaxBytes + 1]
  <2>1. q \in Seq(Byte) /\ DOMAIN q = 1..used /\ used \in Nat
    BY SeqFacts
  <2>2. Out' = Out
    BY OutKept
  <2>3. c \in Nat /\ used' = used + c /\ used + c <= Cap /\ tail \in Index
    BY DEF WritePublish, IInv, TypeOK, RingType, WriterType, RingConsistent
  <2>4. next \in [Writers -> 1..MaxBytes + 1] /\ x \in Nat
    BY DEF IInv, TypeOK, WriterType
  <2>5. fifo' = fifo /\ tail' = tail /\ next' = [next EXCEPT ![w] = @ + c] /\ cut' = cut
    BY DEF WritePublish
  <2> QED BY <2>1, <2>2, <2>3, <2>4, <2>5
<1>2. /\ DOMAIN Queued' = 1..used + c
      /\ \A k \in 1..used + c : Queued'[k] = fifo[(tail + k - 1) % Cap]
  BY <1>1 DEF Queued, Window
<1>3. \A k \in 1..used : Queued'[k] = q[k]
  BY <1>1, <1>2 DEF Queued, Window
<1>4. \A k \in 1..c : Queued'[used + k] = <<w, x + k - 1>>
  <2> SUFFICES ASSUME NEW k \in 1..c PROVE Queued'[used + k] = <<w, x + k - 1>>
    OBVIOUS
  <2>1. fifo[(head + k - 1) % Cap] = <<w, x + k - 1>>
    BY DEF Apart, WritePublish
  <2>2. (head + (k - 1)) % Cap = (tail + used + (k - 1)) % Cap
    <3>1. used \in 0..Cap /\ k - 1 \in Nat /\ used + (k - 1) <= Cap
      BY <1>1
    <3> QED BY <1>1, <3>1, WrapTwice DEF IInv, RingConsistent
  <2>3. /\ head + k - 1 = head + (k - 1) /\ tail + (used + k) - 1 = tail + used + (k - 1)
        /\ used + k \in 1..used + c
    BY <1>1 DEF IInv, TypeOK, RingType, Index
  <2> QED BY <1>2, <2>1, <2>2, <2>3
<1> QED BY <1>1, <1>2, <1>3, <1>4

LEMMA PublishApart == ASSUME IInv, Apart, NEW w \in Writers, WritePublish(w) PROVE Apart'
<1> PICK q, c, x : q = Queued /\ c = chunk[w] /\ x = next[w]
  OBVIOUS
<1>1. /\ q \in Seq(Byte) /\ DOMAIN q = 1..used /\ used \in Nat /\ c \in Nat /\ x \in Nat
      /\ next' = [next EXCEPT ![w] = @ + c] /\ next \in [Writers -> 1..MaxBytes + 1]
      /\ cut' = cut /\ Out' = Out
  BY PublishAppends
<1>2. DOMAIN Queued' = 1..used + c
  BY PublishAppends
<1>3. \A k \in 1..used : Queued'[k] = q[k]
  BY PublishAppends
<1>4. \A k \in 1..c : Queued'[used + k] = <<w, x + k - 1>>
  BY PublishAppends
<1>5. /\ \A b : Given(b) => Given(b)'
      /\ \A k \in 1..c : ~Given(<<w, x + k - 1>>)
      /\ \A k \in 1..c : Given(<<w, x + k - 1>>)'
  <2>1. ASSUME NEW b, Given(b) PROVE Given(b)'
    BY <1>1, <2>1 DEF Given, Byte
  <2>2. ASSUME NEW k \in 1..c PROVE ~Given(<<w, x + k - 1>>)
    <3>1. ~(x + k - 1 < next[w])
      BY <1>1
    <3> QED BY <3>1 DEF Given
  <2>3. ASSUME NEW k \in 1..c PROVE Given(<<w, x + k - 1>>)'
    <3>1. x + k - 1 \in 1..MaxBytes
      <4>1. x + c <= last[w] + 1 /\ last[w] \in 0..MaxBytes /\ x \in 1..MaxBytes + 1
        BY DEF WritePublish, IInv, Pending, TypeOK, WriterType
      <4> QED BY <1>1, <4>1
    <3>2. next'[w] = x + c
      BY <1>1
    <3>3. x + k - 1 < next'[w]
      BY <1>1, <3>2
    <3> QED BY <3>1, <3>3 DEF Given, Byte
  <2> QED BY <2>1, <2>2, <2>3
<1>6. \A i \in 1..used + c : i \in 1..used \/ (i - used \in 1..c /\ used + (i - used) = i)
  BY <1>1
<1>7. \A i \in 1..used : Given(q[i])
  BY <1>1 DEF Apart, Members
<1>8. Distinct(Queued)'
  <2> SUFFICES ASSUME NEW i \in 1..used + c, NEW j \in 1..used + c, Queued'[i] = Queued'[j] PROVE i = j
    BY <1>2 DEF Distinct
  <2>1. CASE i \in 1..used /\ j \in 1..used
    BY <1>1, <1>3, <2>1 DEF Apart, Distinct
  <2>2. CASE i \in 1..used /\ j \notin 1..used
    <3>1. Given(Queued'[i])
      BY <1>3, <1>7, <2>2
    <3>2. PICK k \in 1..c : Queued'[j] = <<w, x + k - 1>>
      BY <1>4, <1>6, <2>2
    <3> QED BY <1>5, <3>1, <3>2
  <2>3. CASE i \notin 1..used /\ j \in 1..used
    <3>1. Given(Queued'[j])
      BY <1>3, <1>7, <2>3
    <3>2. PICK k \in 1..c : Queued'[i] = <<w, x + k - 1>>
      BY <1>4, <1>6, <2>3
    <3> QED BY <1>5, <3>1, <3>2
  <2>4. CASE i \notin 1..used /\ j \notin 1..used
    <3>1. i - used \in 1..c /\ j - used \in 1..c
      BY <1>6, <2>4
    <3>2. <<w, x + (i - used) - 1>> = <<w, x + (j - used) - 1>>
      BY <1>4, <1>6, <2>4
    <3>3. x + (i - used) - 1 = x + (j - used) - 1
      BY <3>2
    <3> QED BY <1>1, <3>1, <3>3
  <2> QED BY <2>1, <2>2, <2>3, <2>4
<1>9. \A b \in Members(Queued)' : b \in Members(q) \/ (~Given(b) /\ Given(b)')
  <2> SUFFICES ASSUME NEW b \in Members(Queued)' PROVE b \in Members(q) \/ (~Given(b) /\ Given(b)')
    OBVIOUS
  <2>1. PICK i \in 1..used + c : b = Queued'[i]
    BY <1>2 DEF Members
  <2>2. CASE i \in 1..used
    BY <1>1, <1>3, <2>1, <2>2 DEF Members
  <2>3. CASE i \notin 1..used
    <3>1. PICK k \in 1..c : b = <<w, x + k - 1>>
      BY <1>4, <1>6, <2>1, <2>3
    <3> QED BY <1>5, <3>1
  <2> QED BY <2>2, <2>3
<1>10. /\ \A b \in Members(q) \cup Members(Out) \cup cut : Given(b)
       /\ \A b \in Members(Out) : b \notin Members(q) /\ b \notin cut
       /\ \A b \in cut : b \notin Members(q)
  BY DEF Apart
<1>11. Members(Out)' = Members(Out)
  BY <1>1 DEF Members
<1>12. \A v \in Writers : wpc'[v] # "copied"
  BY DEF WritePublish, IInv, Ownership, TypeOK, WriterType
<1> QED BY <1>1, <1>5, <1>8, <1>9, <1>10, <1>11, <1>12 DEF Apart

LEMMA CopyApart == ASSUME IInv, Apart, NEW w \in Writers, WriteCopy(w) PROVE Apart'
<1> DEFINE off(i) == IF i >= head THEN i - head ELSE i - head + Cap
<1> PICK n : n = Smaller(last[w] - next[w] + 1, Free)
  OBVIOUS
<1>1. /\ n \in 0..Cap /\ next' = next /\ head' = head /\ cut' = cut
      /\ chunk' = [chunk EXCEPT ![w] = n] /\ wpc' = [wpc EXCEPT ![w] = "copied"]
      /\ \A i \in Index : fifo'[i] = IF off(i) < n THEN <<w, next[w] + off(i)>> ELSE fifo[i]
  BY DEF WriteCopy, Smaller, IInv, TypeOK, RingType, WriterType, Pending
<1>2. \A v \in Writers : wpc'[v] = "copied" => v = w /\ chunk'[v] = n
  BY <1>1 DEF WriteCopy, IInv, Ownership, TypeOK, WriterType
<1>3. ASSUME NEW k \in 1..n PROVE fifo'[(head + k - 1) % Cap] = <<w, next[w] + k - 1>>
  <2>1. PICK x \in Nat : /\ x = head + k - 1 /\ x < 2 * Cap /\ head \in 0..Cap - 1
                         /\ k - 1 \in 0..Cap - 1 /\ x = head + (k - 1)
    BY <1>1 DEF IInv, TypeOK, RingType, Index
  <2>2. x % Cap = IF x < Cap THEN x ELSE x - Cap
    BY <2>1, WrapOnce
  <2>3. x % Cap \in Index
    BY WrapInRing
  <2>4. off(x % Cap) = k - 1
    <3>1. CASE x < Cap
      BY <2>1, <2>2, <3>1
    <3>2. CASE ~(x < Cap)
      <4>1. x % Cap = x - Cap /\ x - Cap = head + (k - 1) - Cap /\ x - Cap < head /\ x - Cap \in Nat
        BY <2>1, <2>2, <3>2
      <4> QED BY <2>1, <4>1
    <3> QED BY <3>1, <3>2
  <2> HIDE DEF off
  <2>5. k - 1 < n /\ next[w] + (k - 1) = next[w] + k - 1
    BY <1>1 DEF IInv, TypeOK, WriterType
  <2> QED BY <1>1, <2>1, <2>3, <2>4, <2>5
<1>4. \A v \in Writers : next[v] \in Int
  BY DEF IInv, TypeOK, WriterType
<1>5. Queued' = Queued /\ Out' = Out
  BY CopyRefines
<1> QED BY <1>1, <1>2, <1>3, <1>4, <1>5, ApartKept

LEMMA InitApart == Init => Apart
<1> SUFFICES ASSUME Init PROVE Apart
  OBVIOUS
<1>1. Queued = << >> /\ Out = << >> /\ cut = {} /\ \A w \in Writers : wpc[w] = "idle"
  BY InitRefines DEF Init, Queue!Init
<1>2. Members(Queued) = {} /\ Members(Out) = {} /\ Distinct(Queued)
  BY <1>1 DEF Members, Distinct
<1> QED BY <1>1, <1>2 DEF Apart

LEMMA NextApart == IInv /\ Apart /\ [Next]_vars => Apart'
<1> SUFFICES ASSUME IInv, Apart, [Next]_vars PROVE Apart'
  OBVIOUS
<1>1. CASE BootNext \/ MixerLoop \/ MixerTake \/ MixerOutput \/ DeviceDone \/ UNCHANGED vars
           \/ \E w \in Writers : WriteRetry(w) \/ \E n \in Sizes : WriteCall(w, n)
  <2>1. Queued' = Queued /\ Out' = Out
    BY <1>1, OthersRefine, OutputRefines, DeviceDoneRefines
  <2>2. cut' = cut
    BY <1>1 DEF BootNext, InitRing, InitThread, InitDone, ShutdownBegin, ShutdownRelease, MixerLoop, MixerTake,
       MixerOutput, DeviceDone, WriteRetry, WriteCall, vars
  <2>3. \A w \in Writers : next[w] \in Int /\ next'[w] \in Int /\ next[w] <= next'[w]
    BY <1>1 DEF BootNext, InitRing, InitThread, InitDone, ShutdownBegin, ShutdownRelease, MixerLoop, MixerTake,
       MixerOutput, DeviceDone, WriteRetry, WriteCall, vars, writer, IInv, TypeOK, WriterType, Pending
  <2>4. ASSUME NEW w \in Writers, wpc'[w] = "copied"
        PROVE  wpc[w] = "copied" /\ chunk'[w] = chunk[w] /\ next'[w] = next[w] /\ fifo' = fifo /\ head' = head
    BY <1>1, <2>4 DEF BootNext, InitRing, InitThread, InitDone, ShutdownBegin, ShutdownRelease, MixerLoop,
       MixerTake, MixerOutput, DeviceDone, WriteRetry, WriteCall, vars, ring, writer, IInv, TypeOK, WriterType,
       Lifecycle
  <2>5. \A w \in Writers : wpc'[w] = "copied" =>
          \A k \in 1..chunk'[w] : fifo'[(head' + k - 1) % Cap] = <<w, next'[w] + k - 1>>
    BY <2>4 DEF Apart
  <2> QED BY <2>1, <2>2, <2>3, <2>5, ApartKept
<1> QED BY <1>1, CommitApart, ResetApart, CopyApart, PublishApart DEF Next, MixerNext, WriterNext

(* What audio_reset_buffer has dropped is never heard, although a write    *)
(* may be half done and a grain on its way to the device when it runs.     *)
THEOREM CutStaysSilent == Spec => []CutIsSilent
<1>1. IInv /\ Apart => CutIsSilent
  <2> SUFFICES ASSUME IInv, Apart, NEW i \in DOMAIN heard PROVE heard[i] \notin cut
    BY DEF CutIsSilent
  <2>1. Members(Out) = Members(heard \o InDevice) \cup Members(Ready)
    <3>1. \A x, y \in Seq(Byte \cup {Silence}) : Members(x \o y) = Members(x) \cup Members(y)
      BY MembersConcat
    <3>2. heard \o InDevice \in Seq(Byte \cup {Silence}) /\ Ready \in Seq(Byte \cup {Silence})
      BY SeqFacts, OutputParts
    <3> QED BY <3>1, <3>2 DEF Out
  <2>2. Members(heard \o InDevice) = Members(heard) \cup Members(InDevice)
    BY SeqFacts, OutputParts, MembersConcat
  <2>3. heard[i] \in Members(heard)
    BY DEF Members
  <2> QED BY <2>1, <2>2, <2>3 DEF Apart
<1> QED
  BY <1>1, InitApart, NextApart, Invariant, PTL DEF Spec
-----------------------------------------------------------------------------
(* The bytes of one writer leave the ring in the order of their numbers.   *)
Before(b, c) == b[1] = c[1] => b[2] < c[2]
Rising(s) == \A i, j \in DOMAIN s : i < j => Before(s[i], s[j])
InOrder ==
  /\ Rising(Queued) /\ Rising(Out)
  /\ \A b \in Members(Out), c \in Members(Queued) : Before(b, c)

LEMMA RisingConcat ==
  ASSUME NEW S, NEW s \in Seq(S), NEW t \in Seq(S), Rising(s), Rising(t),
         \A b \in Members(s), c \in Members(t) : Before(b, c)
  PROVE  Rising(s \o t)
<1>1. /\ Len(s) \in Nat /\ Len(t) \in Nat /\ DOMAIN s = 1..Len(s) /\ DOMAIN t = 1..Len(t)
      /\ DOMAIN (s \o t) = 1..Len(s) + Len(t)
      /\ \A i \in 1..Len(s) + Len(t) : (s \o t)[i] = IF i <= Len(s) THEN s[i] ELSE t[i - Len(s)]
  BY ConcatProperties, LenProperties
<1> SUFFICES ASSUME NEW i \in 1..Len(s) + Len(t), NEW j \in 1..Len(s) + Len(t), i < j
             PROVE  Before((s \o t)[i], (s \o t)[j])
  BY <1>1 DEF Rising
<1>2. CASE j <= Len(s)
  <2>1. i \in DOMAIN s /\ j \in DOMAIN s /\ (s \o t)[i] = s[i] /\ (s \o t)[j] = s[j]
    BY <1>1, <1>2
  <2> QED BY <2>1 DEF Rising
<1>3. CASE i <= Len(s) /\ ~(j <= Len(s))
  <2>1. i \in DOMAIN s /\ j - Len(s) \in DOMAIN t /\ (s \o t)[i] = s[i] /\ (s \o t)[j] = t[j - Len(s)]
    BY <1>1, <1>3
  <2> QED BY <2>1 DEF Members
<1>4. CASE ~(i <= Len(s))
  <2>1. /\ i - Len(s) \in DOMAIN t /\ j - Len(s) \in DOMAIN t /\ i - Len(s) < j - Len(s)
        /\ (s \o t)[i] = t[i - Len(s)] /\ (s \o t)[j] = t[j - Len(s)]
    BY <1>1, <1>4
  <2> QED BY <2>1 DEF Rising
<1> QED BY <1>1, <1>2, <1>3, <1>4

LEMMA RisingPrefix ==
  ASSUME NEW S, NEW s \in Seq(S), NEW t \in Seq(S), Rising(s \o t)
  PROVE  Rising(s)
<1>1. /\ Len(s) \in Nat /\ Len(t) \in Nat /\ DOMAIN s = 1..Len(s)
      /\ DOMAIN (s \o t) = 1..Len(s) + Len(t)
      /\ \A i \in 1..Len(s) + Len(t) : (s \o t)[i] = IF i <= Len(s) THEN s[i] ELSE t[i - Len(s)]
  BY ConcatProperties, LenProperties
<1> SUFFICES ASSUME NEW i \in 1..Len(s), NEW j \in 1..Len(s), i < j PROVE Before(s[i], s[j])
  BY <1>1 DEF Rising
<1>2. i \in DOMAIN (s \o t) /\ j \in DOMAIN (s \o t) /\ (s \o t)[i] = s[i] /\ (s \o t)[j] = s[j]
  BY <1>1
<1> QED BY <1>2 DEF Rising

LEMMA CommitInOrder == ASSUME IInv, InOrder, MixerCommit PROVE InOrder'
<1> PICK q, n, o : q = Queued /\ n = take /\ o = Out
  OBVIOUS
<1>1. /\ q \in Seq(Byte) /\ Len(q) \in Nat /\ DOMAIN q = 1..Len(q) /\ n \in 0..Len(q)
      /\ o \in Seq(Byte \cup {Silence})
  BY CommitTakes, SeqFacts
<1> DEFINE old == SubSeq(q, 1, n)  new == SubSeq(q, n + 1, Len(q))
<1>2. Queued' = new /\ Out' = o \o old
  BY CommitTakes
<1>3. /\ old \in Seq(Byte) /\ DOMAIN old = 1..n /\ \A i \in 1..n : old[i] = q[i]
  BY <1>1, Halves
<1>4. /\ new \in Seq(Byte) /\ DOMAIN new = 1..Len(q) - n /\ \A i \in 1..Len(q) - n : new[i] = q[n + i]
  BY <1>1, Halves
<1> HIDE DEF old, new
<1>5. /\ Rising(q) /\ Rising(o) /\ \A b \in Members(o), c \in Members(q) : Before(b, c)
  BY DEF InOrder
<1>6. /\ \A i \in 1..n : i \in DOMAIN q
      /\ \A i \in 1..Len(q) - n : n + i \in DOMAIN q
      /\ \A i \in 1..n, j \in 1..Len(q) - n : i < n + j
      /\ \A i, j \in 1..Len(q) - n : i < j => n + i < n + j
  BY <1>1
<1>7. Rising(old) /\ Rising(new)
  BY <1>3, <1>4, <1>5, <1>6 DEF Rising
<1>8. \A b \in Members(old), c \in Members(new) : Before(b, c)
  <2> SUFFICES ASSUME NEW i \in 1..n, NEW j \in 1..Len(q) - n PROVE Before(q[i], q[n + j])
    BY <1>3, <1>4 DEF Members
  <2> QED BY <1>5, <1>6 DEF Rising
<1>9. Members(old) \subseteq Members(q) /\ Members(new) \subseteq Members(q)
  BY <1>3, <1>4, <1>6 DEF Members
<1>10. old \in Seq(Byte \cup {Silence})
  BY <1>1, <1>3
<1>11. Rising(o \o old)
  BY <1>1, <1>5, <1>7, <1>9, <1>10, RisingConcat
<1>12. Members(o \o old) = Members(o) \cup Members(old)
  BY <1>1, <1>10, MembersConcat
<1>13. \A b \in Members(o \o old), c \in Members(new) : Before(b, c)
  BY <1>5, <1>8, <1>9, <1>12
<1>14. Rising(Queued)' /\ Rising(Out)' /\ Members(Queued)' = Members(new) /\ Members(Out)' = Members(o \o old)
  BY <1>2, <1>7, <1>11 DEF Rising, Members
<1> QED BY <1>13, <1>14 DEF InOrder

LEMMA PublishInOrder == ASSUME IInv, Apart, InOrder, NEW w \in Writers, WritePublish(w) PROVE InOrder'
<1> PICK q, c, x : q = Queued /\ c = chunk[w] /\ x = next[w]
  OBVIOUS
<1>1. /\ DOMAIN q = 1..used /\ used \in Nat /\ c \in Nat /\ x \in Nat /\ Out' = Out
      /\ DOMAIN Queued' = 1..used + c
  BY PublishAppends
<1>2. \A k \in 1..used : Queued'[k] = q[k]
  BY PublishAppends
<1>3. \A k \in 1..c : Queued'[used + k] = <<w, x + k - 1>>
  BY PublishAppends
<1>4. \A i \in 1..used + c : i \in 1..used \/ (i - used \in 1..c /\ used + (i - used) = i)
  BY <1>1
<1>5. ASSUME NEW b, Given(b), NEW k \in 1..c PROVE Before(b, <<w, x + k - 1>>)
  <2>1. b \in Byte /\ b[2] < next[b[1]] /\ (b[1] = w => b[2] < x)
    BY <1>5 DEF Given
  <2>2. x <= x + k - 1
    BY <1>1
  <2> QED BY <1>1, <2>1, <2>2 DEF Before, Byte
<1>6. \A b \in Members(q) \cup Members(Out) : Given(b)
  BY DEF Apart
<1>7. Rising(q) /\ Rising(Out) /\ \A b \in Members(Out), d \in Members(q) : Before(b, d)
  BY DEF InOrder
<1>8. Rising(Queued)'
  <2> SUFFICES ASSUME NEW i \in 1..used + c, NEW j \in 1..used + c, i < j
               PROVE  Before(Queued'[i], Queued'[j])
    BY <1>1 DEF Rising
  <2>1. CASE j \in 1..used
    <3>1. i \in 1..used
      BY <1>1, <2>1
    <3> QED BY <1>1, <1>2, <1>7, <2>1, <3>1 DEF Rising
  <2>2. CASE i \in 1..used /\ j \notin 1..used
    <3>1. Given(Queued'[i])
      BY <1>1, <1>2, <1>6, <2>2 DEF Members
    <3>2. PICK k \in 1..c : Queued'[j] = <<w, x + k - 1>>
      BY <1>3, <1>4, <2>2
    <3> QED BY <1>5, <3>1, <3>2
  <2>3. CASE i \notin 1..used /\ j \notin 1..used
    <3>1. i - used \in 1..c /\ j - used \in 1..c
      BY <1>4, <2>3
    <3>2. Queued'[i] = <<w, x + (i - used) - 1>> /\ Queued'[j] = <<w, x + (j - used) - 1>>
      BY <1>3, <1>4, <2>3
    <3>3. x + (i - used) - 1 < x + (j - used) - 1
      BY <1>1, <3>1
    <3> QED BY <3>2, <3>3 DEF Before
  <2>4. i \in 1..used \/ j \notin 1..used
    BY <1>1
  <2> QED BY <2>1, <2>2, <2>3, <2>4
<1>9. ASSUME NEW b \in Members(Out), NEW d \in Members(Queued)' PROVE Before(b, d)
  <2>1. PICK i \in 1..used + c : d = Queued'[i]
    BY <1>1 DEF Members
  <2>2. CASE i \in 1..used
    BY <1>1, <1>2, <1>7, <2>1, <2>2 DEF Members
  <2>3. CASE i \notin 1..used
    <3>1. PICK k \in 1..c : d = <<w, x + k - 1>>
      BY <1>3, <1>4, <2>1, <2>3
    <3> QED BY <1>5, <1>6, <3>1
  <2> QED BY <2>2, <2>3
<1>10. Members(Out)' = Members(Out) /\ Rising(Out)'
  BY <1>1, <1>7 DEF Members, Rising
<1> QED BY <1>8, <1>9, <1>10 DEF InOrder

LEMMA InitInOrder == Init => InOrder
<1> SUFFICES ASSUME Init PROVE InOrder
  OBVIOUS
<1>1. Queued = << >> /\ Out = << >>
  BY InitRefines DEF Init, Queue!Init
<1>2. Members(Queued) = {} /\ Rising(Queued) /\ Rising(Out)
  BY <1>1 DEF Members, Rising
<1> QED BY <1>2 DEF InOrder

LEMMA NextInOrder == IInv /\ Apart /\ InOrder /\ [Next]_vars => InOrder'
<1> SUFFICES ASSUME IInv, Apart, InOrder, [Next]_vars PROVE InOrder'
  OBVIOUS
<1>1. CASE Queued' = Queued /\ Out' = Out
  BY <1>1 DEF InOrder, Members, Rising
<1>2. CASE ResetBuffer
  <2>1. Queued' = << >> /\ Out' = Out
    BY <1>2, ResetRefines DEF Queue!Clear
  <2>2. Members(Queued)' = {} /\ Rising(Queued)' /\ Rising(Out)'
    BY <2>1 DEF Members, Rising, InOrder
  <2> QED BY <2>2 DEF InOrder
<1>3. ASSUME NEW w \in Writers, WriteCopy(w) PROVE Queued' = Queued /\ Out' = Out
  BY <1>3, CopyRefines
<1> QED
  BY <1>1, <1>2, <1>3, OthersRefine, OutputRefines, DeviceDoneRefines, CommitInOrder, PublishInOrder
  DEF Next, MixerNext, WriterNext

(* Every thread's sound is heard in the order of its writes and nothing    *)
(* of it twice: a byte that is put into the ring is later than all of its  *)
(* writer's that are waiting, on their way or heard, because the writer    *)
(* moves on by exactly what it has published.                              *)
THEOREM OrderIsKept == Spec => []HeardInOrder
<1>1. IInv /\ InOrder => HeardInOrder
  <2> SUFFICES ASSUME IInv, InOrder PROVE HeardInOrder
    OBVIOUS
  <2>1. /\ heard \in Seq(Byte \cup {Silence}) /\ InDevice \in Seq(Byte \cup {Silence})
        /\ Ready \in Seq(Byte \cup {Silence})
    BY SeqFacts, OutputParts
  <2>2. heard \o InDevice \in Seq(Byte \cup {Silence})
    BY <2>1, ConcatProperties
  <2>3. Rising(heard \o InDevice)
    BY <2>1, <2>2, RisingPrefix DEF InOrder, Out
  <2>4. Rising(heard)
    BY <2>1, <2>3, RisingPrefix
  <2> QED BY <2>4 DEF Rising, Before, HeardInOrder
<1> QED
  BY <1>1, InitApart, NextApart, InitInOrder, NextInOrder, Invariant, PTL DEF Spec
-----------------------------------------------------------------------------
(* How long a call and a shutdown can last, in steps of their own thread.  *)
THEOREM CallsEnd == Spec => CallsBounded
<1> DEFINE Bounded == \A w \in Writers : wpc[w] # "idle" =>
                        /\ StepsLeft(w) \in 1..3 * MaxGuard
                        /\ StepsLeft(w)' <= StepsLeft(w)
                        /\ (wpc'[w] # wpc[w] => StepsLeft(w)' < StepsLeft(w))
<1>1. IInv /\ IInv' /\ [Next]_vars => Bounded
  <2> SUFFICES ASSUME IInv, IInv', [Next]_vars, NEW w \in Writers, wpc[w] # "idle"
               PROVE  /\ StepsLeft(w) \in 1..3 * MaxGuard
                      /\ StepsLeft(w)' <= StepsLeft(w)
                      /\ (wpc'[w] # wpc[w] => StepsLeft(w)' < StepsLeft(w))
    OBVIOUS
  <2>1. /\ wpc[w] \in {"lock", "copied", "delay"} /\ wpc'[w] \in {"idle", "lock", "copied", "delay"}
        /\ guard[w] \in 0..MaxGuard /\ guard'[w] \in 0..MaxGuard /\ guard[w] < MaxGuard
        /\ MaxGuard \in Nat
    BY SizeAssumption DEF IInv, TypeOK, WriterType, Pending
  <2>2. StepsLeft(w) \in 1..3 * MaxGuard
    BY <2>1 DEF StepsLeft
  <2>3. \/ wpc'[w] = wpc[w] /\ guard'[w] = guard[w]
        \/ wpc[w] = "lock" /\ wpc'[w] = "copied" /\ guard'[w] = guard[w]
        \/ wpc[w] = "copied" /\ wpc'[w] \in {"idle", "delay"} /\ guard'[w] = guard[w]
        \/ wpc[w] = "delay" /\ wpc'[w] = "lock" /\ guard'[w] = guard[w] + 1
        \/ wpc[w] = "delay" /\ wpc'[w] = "idle"
    <3>1. CASE BootNext \/ MixerNext \/ DeviceDone \/ ResetBuffer \/ UNCHANGED vars
      BY <3>1 DEF BootNext, InitRing, InitThread, InitDone, ShutdownBegin, ShutdownRelease, MixerNext,
         MixerLoop, MixerTake, MixerCommit, MixerOutput, DeviceDone, ResetBuffer, vars, writer
    <3>2. ASSUME NEW v \in Writers, WriterNext(v)
          PROVE  \/ wpc'[w] = wpc[w] /\ guard'[w] = guard[w]
                 \/ v = w
      BY <3>2 DEF WriterNext, WriteCall, WriteCopy, WritePublish, WriteRetry, IInv, TypeOK, WriterType
    <3>3. CASE WriteCopy(w)
      BY <3>3 DEF WriteCopy, IInv, TypeOK, WriterType
    <3>4. CASE WritePublish(w)
      BY <3>4 DEF WritePublish, IInv, TypeOK, WriterType
    <3>5. CASE WriteRetry(w)
      BY <3>5 DEF WriteRetry, Retried, IInv, TypeOK, WriterType
    <3>6. ~\E size \in Sizes : WriteCall(w, size)
      BY DEF WriteCall
    <3> QED BY <3>1, <3>2, <3>3, <3>4, <3>5, <3>6 DEF Next, WriterNext
  <2>4. StepsLeft(w)' <= StepsLeft(w) /\ (wpc'[w] # wpc[w] => StepsLeft(w)' < StepsLeft(w))
    BY <2>1, <2>3 DEF StepsLeft
  <2> QED BY <2>2, <2>4
<1> QED BY <1>1, Invariant, PTL DEF Spec, CallsBounded

THEOREM ShutdownIsShort == Spec => MixerWindsDown
<1> DEFINE Winding == ~running /\ mix # "none" =>
                        MixerLeft' <= MixerLeft /\ (mix' # mix => MixerLeft' < MixerLeft)
<1>1. IInv /\ [Next]_vars => Winding
  <2> SUFFICES ASSUME IInv, [Next]_vars, ~running, mix # "none"
               PROVE  MixerLeft' <= MixerLeft /\ (mix' # mix => MixerLeft' < MixerLeft)
    OBVIOUS
  <2>1. \/ mix' = mix
        \/ mix = "lock" /\ mix' = "copied"
        \/ mix = "copied" /\ mix' = "output"
        \/ mix = "output" /\ mix' = "loop"
        \/ mix = "loop" /\ mix' = "ended"
    <3>1. CASE BootNext
      <4>1. CASE InitThread
        BY <4>1 DEF InitThread, IInv, Lifecycle
      <4>2. CASE InitRing \/ InitDone \/ ShutdownBegin \/ ShutdownRelease
        BY <4>2 DEF InitRing, InitDone, ShutdownBegin, ShutdownRelease, mixer
      <4> QED BY <3>1, <4>1, <4>2 DEF BootNext
    <3>2. CASE MixerNext
      <4>1. CASE MixerLoop
        BY <4>1 DEF MixerLoop, KeepRunning
      <4>2. CASE MixerTake
        BY <4>2 DEF MixerTake
      <4>3. CASE MixerCommit
        BY <4>3 DEF MixerCommit
      <4>4. CASE MixerOutput
        BY <4>4 DEF MixerOutput
      <4> QED BY <3>2, <4>1, <4>2, <4>3, <4>4 DEF MixerNext
    <3>3. CASE DeviceDone \/ ResetBuffer \/ UNCHANGED vars
      BY <3>3 DEF DeviceDone, ResetBuffer, vars, mixer
    <3>4. ASSUME NEW w \in Writers, WriterNext(w) PROVE mix' = mix
      BY <3>4 DEF WriterNext, WriteCall, WriteCopy, WritePublish, WriteRetry, mixer
    <3> QED BY <3>1, <3>2, <3>3, <3>4 DEF Next
  <2> QED BY <2>1 DEF MixerLeft, IInv, TypeOK, ControlType
<1> QED BY <1>1, Invariant, PTL DEF Spec, MixerWindsDown
=============================================================================
