------------------------ MODULE CutsceneAudioProofs ------------------------
(***************************************************************************)
(* Theorems about CutsceneAudio, for any number of cutscenes and frames of *)
(* any sizes.                                                              *)
(***************************************************************************)
EXTENDS CutsceneAudio, SequenceTheorems, TLAPS

USE CutsceneAssumption
USE DEF Other, FirstWriteSlot, FirstQuit, MustGrow, SlotFree, MayLeave, Joined, Garbage, Quiet, TypeOK, hist

LEMMA InitInvariant == Init => IInv
<1> SUFFICES ASSUME Init PROVE IInv
  OBVIOUS
<1>1. TypeOK
  <2>1. BufferType
    <3>1. buf \in [{0, 1} -> 0..MaxFrames] /\ len \in [{0, 1} -> Sizes \cup {0}]
      BY DEF Init
    <3> QED
      BY <3>1 DEF Init, BufferType
  <2>2. ThreadType
    BY DEF Init, ThreadType
  <2>3. HistoryType
    <3>1. << >> \in Seq(0..MaxFrames)
      BY EmptySeq
    <3>2. device = Quiet /\ played = << >> /\ dropped = {} /\ spoilt = {} /\ strained = FALSE
      BY DEF Init
    <3> QED
      BY <3>1, <3>2 DEF HistoryType
  <2> QED
    BY <2>1, <2>2, <2>3
<1>2. SlotsInTurn /\ OutputIsSafe /\ Lifecycle
  BY DEF Init, SlotsInTurn, OutputIsSafe, Lifecycle, Sounding
<1> QED
  BY <1>1, <1>2 DEF IInv

LEMMA HearType ==
  ASSUME TypeOK, NEW s \in {0, 1} PROVE Hear(s) \in Seq(0..MaxFrames)
<1>1. buf[s] \in 0..MaxFrames /\ played \in Seq(0..MaxFrames)
  BY DEF BufferType, HistoryType
<1>2. Append(played, buf[s]) \in Seq(0..MaxFrames)
  BY <1>1
<1> QED
  BY <1>1, <1>2 DEF Hear

LEMMA WaitingType == ASSUME TypeOK PROVE WaitingFrames \subseteq 1..MaxFrames
<1>1. \A s \in {0, 1} : buf[s] \in 0..MaxFrames
  BY DEF BufferType
<1>2. \A s \in {0, 1} : Waits(s) => buf[s] # 0
  BY DEF Waits
<1> QED
  BY <1>1, <1>2 DEF WaitingFrames

LEMMA NextInvariant == IInv /\ [Next]_vars => IInv'
<1> SUFFICES ASSUME IInv, [Next]_vars PROVE IInv'
  OBVIOUS
<1> USE DEF IInv, glob, main
<1>1. CASE Begin
  <2>1. TypeOK'
    BY <1>1 DEF Begin, BufferType, ThreadType, HistoryType
  <2>2. SlotsInTurn'
    BY <1>1 DEF Begin, BufferType, ThreadType, HistoryType, SlotsInTurn, Lifecycle, Sounding
  <2>3. (OutputIsSafe /\ Lifecycle)'
    BY <1>1 DEF Begin, BufferType, ThreadType, HistoryType, SlotsInTurn, OutputIsSafe, Lifecycle, Sounding
  <2> QED
    BY <2>1, <2>2, <2>3
<1>2. CASE OpenPort
  <2>1. TypeOK'
    BY <1>2 DEF OpenPort, BufferType, ThreadType, HistoryType
  <2>2. SlotsInTurn'
    BY <1>2 DEF OpenPort, BufferType, ThreadType, HistoryType, SlotsInTurn, Lifecycle, Sounding
  <2>3. (OutputIsSafe /\ Lifecycle)'
    BY <1>2 DEF OpenPort, BufferType, ThreadType, HistoryType, SlotsInTurn, OutputIsSafe, Lifecycle, Sounding
  <2> QED
    BY <2>1, <2>2, <2>3
<1>3. CASE OpenFails
  <2>1. TypeOK'
    BY <1>3 DEF OpenFails, BufferType, ThreadType, HistoryType
  <2>2. SlotsInTurn'
    BY <1>3 DEF OpenFails, BufferType, ThreadType, HistoryType, SlotsInTurn, Lifecycle, Sounding
  <2>3. (OutputIsSafe /\ Lifecycle)'
    BY <1>3 DEF OpenFails, BufferType, ThreadType, HistoryType, SlotsInTurn, OutputIsSafe, Lifecycle, Sounding
  <2> QED
    BY <2>1, <2>2, <2>3
<1>4. CASE Submit
  <2> PICK n \in Sizes :
        /\ scene = "first" => n = portSize
        /\ size' = n
        /\ IF MustGrow(n) THEN Grow(n)
           ELSE scene' = "wait" /\ UNCHANGED <<buf, bufCap, dropped, spoilt>>
        /\ strained' = (strained \/ n > portSize \/ bufCap' = 0)
    BY <1>4 DEF Submit
  <2>1. /\ scene \in {"first", "frame"} /\ submitted < MaxFrames /\ submitted' = submitted + 1
        /\ UNCHANGED <<len, writeSlot, quit, portOpen, scenes, portSize, thread, slot, device,
                       played>>
        /\ n \in Nat /\ n # 0 /\ submitted \in Nat /\ submitted' \in 1..MaxFrames
        /\ bufCap \in Nat /\ portSize \in Nat
    BY <1>4 DEF Submit, BufferType, ThreadType
  <2>2. /\ scene' \in {"wait", "frame"} /\ bufCap' \in Sizes \cup {0}
        /\ scene' = "wait" => n <= bufCap'
        /\ scene' = "frame" => bufCap' = 0
        /\ buf' \in [{0, 1} -> 0..MaxFrames]
        /\ dropped' \subseteq 1..MaxFrames /\ spoilt' \subseteq 1..MaxFrames
        /\ (buf' = buf /\ bufCap' = bufCap) \/ n > bufCap
    <3>1. CASE MustGrow(n)
      <4>1. Grow(n)
        BY <3>1
      <4>2. /\ buf' = [s \in {0, 1} |-> 0] /\ spoilt' = spoilt \cup WaitingFrames /\ n > bufCap
            /\ \/ bufCap' = n /\ scene' = "wait" /\ dropped' = dropped
               \/ bufCap' = 0 /\ scene' = "frame" /\ dropped' = dropped \cup {submitted + 1}
        BY <3>1, <4>1 DEF Grow
      <4>3. dropped' \subseteq 1..MaxFrames /\ spoilt' \subseteq 1..MaxFrames
        BY <2>1, <4>2, WaitingType DEF HistoryType
      <4>4. buf' \in [{0, 1} -> 0..MaxFrames]
        BY <4>2
      <4> QED
        BY <2>1, <4>2, <4>3, <4>4
    <3>2. CASE ~MustGrow(n)
      <4>1. scene' = "wait" /\ UNCHANGED <<buf, bufCap, dropped, spoilt>> /\ n <= bufCap
        BY <2>1, <3>2
      <4> QED
        BY <2>1, <4>1 DEF BufferType, HistoryType
    <3> QED
      BY <3>1, <3>2
  <2>3. TypeOK'
    <3>1. BufferType'
      BY <2>1, <2>2 DEF BufferType
    <3>2. ThreadType'
      BY <2>1, <2>2 DEF ThreadType
    <3>3. HistoryType'
      BY <2>1, <2>2 DEF HistoryType
    <3> QED
      BY <3>1, <3>2, <3>3
  <2>4. SlotsInTurn'
    BY <2>1, <2>2 DEF SlotsInTurn, Sounding
  <2>5. ASSUME ~strained', scene = "frame"
        PROVE  /\ portSize <= bufCap /\ UNCHANGED <<buf, bufCap>>
               /\ \A s \in {0, 1} : len[s] # 0 => buf[s] # Garbage
    <3>1. ~strained /\ ~(n > portSize)
      BY <2>5
    <3>2. portSize <= bufCap /\ \A s \in {0, 1} : len[s] # 0 => buf[s] # Garbage
      BY <2>5, <3>1 DEF Lifecycle
    <3>3. ~(n > bufCap)
      BY <2>1, <3>1, <3>2
    <3> QED
      BY <2>2, <3>2, <3>3
  <2>6. ASSUME ~strained', scene = "first" PROVE portSize <= bufCap'
    <3>1. n = portSize /\ bufCap' # 0
      BY <2>6
    <3> QED
      BY <2>1, <2>2, <3>1
  <2>7. Lifecycle'
    <3>1. /\ Sounding /\ Sounding' /\ scene' \in {"wait", "frame"} /\ scene # "join"
          /\ scene # "wait" /\ size' = n
      BY <2>1, <2>2 DEF Sounding
    <3>2. thread # "none" /\ portOpen /\ ~quit /\ thread # "ended" /\ portSize # 0
      BY <3>1 DEF Lifecycle
    <3>3. scene' = "wait" => submitted' > 0 /\ size' <= bufCap' /\ size' # 0
      BY <2>1, <2>2
    <3>4. ~strained' => portSize <= bufCap' /\ \A s \in {0, 1} : len[s] # 0 => buf'[s] # Garbage
      <4>1. CASE scene = "frame"
        BY <2>5, <4>1
      <4>2. CASE scene = "first"
        BY <2>6, <4>2 DEF Lifecycle
      <4> QED
        BY <2>1, <4>1, <4>2
    <3> QED
      BY <2>1, <3>1, <3>2, <3>3, <3>4 DEF Lifecycle
  <2>8. OutputIsSafe'
    <3>1. CASE scene = "frame"
      BY <2>1, <2>2, <2>5, <3>1 DEF OutputIsSafe
    <3>2. CASE scene = "first"
      BY <2>1, <3>2 DEF OutputIsSafe, Lifecycle
    <3> QED
      BY <2>1, <3>1, <3>2
  <2> QED
    BY <2>3, <2>4, <2>7, <2>8
<1>5. CASE SubmitCopy
  <2>1. TypeOK'
    BY <1>5 DEF SubmitCopy, BufferType, ThreadType, HistoryType
  <2>2. SlotsInTurn'
    BY <1>5 DEF SubmitCopy, BufferType, ThreadType, HistoryType, SlotsInTurn, Lifecycle, Sounding
  <2>3. (OutputIsSafe /\ Lifecycle)'
    BY <1>5 DEF SubmitCopy, BufferType, ThreadType, HistoryType, SlotsInTurn, OutputIsSafe, Lifecycle, Sounding
  <2> QED
    BY <2>1, <2>2, <2>3
<1>6. CASE End
  <2>1. TypeOK'
    <3>1. scene' \in {"join", "off"} /\ quit' \in BOOLEAN
      BY <1>6 DEF End, BufferType
    <3>2. BufferType'
      BY <1>6, <3>1 DEF End, BufferType
    <3>3. ThreadType'
      BY <1>6, <3>1 DEF End, ThreadType
    <3>4. HistoryType'
      BY <1>6 DEF End, HistoryType, hist
    <3> QED
      BY <3>2, <3>3, <3>4
  <2>2. SlotsInTurn'
    BY <1>6 DEF End, BufferType, ThreadType, HistoryType, SlotsInTurn, Lifecycle, Sounding
  <2>3. (OutputIsSafe /\ Lifecycle)'
    BY <1>6 DEF End, BufferType, ThreadType, HistoryType, SlotsInTurn, OutputIsSafe, Lifecycle, Sounding
  <2> QED
    BY <2>1, <2>2, <2>3
<1>7. CASE Join
  <2>1. TypeOK'
    BY <1>7 DEF Join, BufferType, ThreadType, HistoryType
  <2>2. SlotsInTurn'
    BY <1>7 DEF Join, BufferType, ThreadType, HistoryType, SlotsInTurn, Lifecycle, Sounding
  <2>3. (OutputIsSafe /\ Lifecycle)'
    BY <1>7 DEF Join, BufferType, ThreadType, HistoryType, SlotsInTurn, OutputIsSafe, Lifecycle, Sounding
  <2> QED
    BY <2>1, <2>2, <2>3
<1>8. CASE Peek
  <2>1. TypeOK'
    BY <1>8 DEF Peek, BufferType, ThreadType, HistoryType
  <2>2. SlotsInTurn'
    BY <1>8 DEF Peek, BufferType, ThreadType, HistoryType, SlotsInTurn, Lifecycle, Sounding
  <2>3. (OutputIsSafe /\ Lifecycle)'
    BY <1>8 DEF Peek, BufferType, ThreadType, HistoryType, SlotsInTurn, OutputIsSafe, Lifecycle, Sounding
  <2> QED
    BY <2>1, <2>2, <2>3
<1>9. CASE Output
  <2>1. TypeOK'
    <3>1. played' \in Seq(0..MaxFrames)
      BY <1>9, HearType DEF Output, BufferType, ThreadType, HistoryType
    <3> QED
      BY <1>9, <3>1 DEF Output, BufferType, ThreadType, HistoryType
  <2>2. SlotsInTurn'
    BY <1>9 DEF Output, BufferType, ThreadType, HistoryType, SlotsInTurn, Lifecycle, Sounding
  <2>3. (OutputIsSafe /\ Lifecycle)'
    BY <1>9 DEF Output, BufferType, ThreadType, HistoryType, SlotsInTurn, OutputIsSafe, Lifecycle, Sounding
  <2> QED
    BY <2>1, <2>2, <2>3
<1>10. CASE Clear
  <2>1. TypeOK'
    BY <1>10 DEF Clear, BufferType, ThreadType, HistoryType
  <2>2. SlotsInTurn'
    BY <1>10 DEF Clear, BufferType, ThreadType, HistoryType, SlotsInTurn, Lifecycle, Sounding
  <2>3. (OutputIsSafe /\ Lifecycle)'
    BY <1>10 DEF Clear, BufferType, ThreadType, HistoryType, SlotsInTurn, OutputIsSafe, Lifecycle, Sounding
  <2> QED
    BY <2>1, <2>2, <2>3
<1>11. CASE DeviceDone
  <2>1. TypeOK'
    <3>1. played' \in Seq(0..MaxFrames)
      BY <1>11, HearType DEF DeviceDone, BufferType, ThreadType, HistoryType
    <3> QED
      BY <1>11, <3>1 DEF DeviceDone, BufferType, ThreadType, HistoryType
  <2>2. SlotsInTurn'
    BY <1>11 DEF DeviceDone, BufferType, ThreadType, HistoryType, SlotsInTurn, Lifecycle, Sounding
  <2>3. (OutputIsSafe /\ Lifecycle)'
    BY <1>11 DEF DeviceDone, BufferType, ThreadType, HistoryType, SlotsInTurn, OutputIsSafe, Lifecycle, Sounding
  <2> QED
    BY <2>1, <2>2, <2>3
<1>12. CASE UNCHANGED vars
  BY <1>12 DEF vars, BufferType, ThreadType, HistoryType, SlotsInTurn, OutputIsSafe, Lifecycle, Sounding
<1> QED
  BY <1>1, <1>2, <1>3, <1>4, <1>5, <1>6, <1>7, <1>8, <1>9, <1>10, <1>11, <1>12 DEF Next, MainNext, ThreadNext

(* The inductive invariant of the cutscene sound.                          *)
THEOREM Invariant == Spec => []IInv
BY InitInvariant, NextInvariant, PTL DEF Spec

(* Capacities, lengths and slots keep their types for any frame sizes.     *)
THEOREM TypeCorrect == Spec => []TypeOK
<1>1. IInv => TypeOK
  BY DEF IInv
<1> QED
  BY <1>1, Invariant, PTL

(* Decoder and output thread use the two slots in the same turn.           *)
THEOREM TurnsAgree == Spec => []SlotsInTurn
<1>1. IInv => SlotsInTurn
  BY DEF IInv
<1> QED
  BY <1>1, Invariant, PTL

(* As long as no frame of a cutscene is larger than its first one and      *)
(* there is memory, the unlocked output reads a whole frame: replacing     *)
(* what smaller buffers an earlier cutscene left happens before anything   *)
(* waits in them.                                                          *)
THEOREM SafeOutput == Spec => []OutputIsSafe
<1>1. IInv => OutputIsSafe
  BY DEF IInv
<1> QED
  BY <1>1, Invariant, PTL
-----------------------------------------------------------------------------
(* Accounting for every frame, when sceAudioOutOutput has read the buffer  *)
(* before it returns.                                                      *)
LEMMA HeardAppend ==
  ASSUME HistoryType, NEW x \in 0..MaxFrames, played' = Append(played, x)
  PROVE  Heard' = Heard \cup {x}
<1>1. /\ DOMAIN played = 1..Len(played) /\ DOMAIN played' = 1..Len(played) + 1
      /\ Len(played) \in Nat /\ played'[Len(played) + 1] = x
      /\ \A i \in 1..Len(played) : played'[i] = played[i]
  BY DEF HistoryType
<1>2. 1..Len(played) + 1 = (1..Len(played)) \cup {Len(played) + 1}
  BY <1>1
<1>3. Heard' \subseteq Heard \cup {x}
  BY <1>1, <1>2 DEF Heard
<1>4. Heard \subseteq Heard' /\ x \in Heard'
  BY <1>1, <1>2 DEF Heard
<1> QED
  BY <1>3, <1>4

\* Hear adds what the buffer holds, or nothing.
LEMMA HeardHear ==
  ASSUME TypeOK, NEW s \in {0, 1}, played' = Hear(s)
  PROVE  Heard' = Heard \cup (IF buf[s] = Garbage THEN {} ELSE {buf[s]})
<1>1. buf[s] \in 0..MaxFrames /\ HistoryType
  BY DEF BufferType
<1>2. CASE buf[s] = Garbage
  BY <1>2 DEF Hear, Heard
<1>3. CASE buf[s] # Garbage
  BY <1>1, <1>3, HeardAppend DEF Hear
<1> QED
  BY <1>2, <1>3

LEMMA NextAccounted ==
  ASSUME DeviceCopies, IInv, Accounted, [Next]_vars PROVE Accounted'
<1> USE DEF IInv, glob, main
<1>0. BufferType /\ ThreadType /\ Lifecycle /\ SlotsInTurn
  OBVIOUS
<1>1. CASE Begin \/ Peek \/ End \/ Join \/ OpenFails \/ Clear \/ DeviceDone \/ UNCHANGED vars
  <2>1. UNCHANGED <<played, dropped, spoilt, Latest>>
    BY <1>1 DEF Begin, Peek, End, Join, OpenFails, Clear, DeviceDone, vars, Latest
  <2>2. \A s \in {0, 1} : Waits(s)' = Waits(s) /\ buf'[s] = buf[s]
    BY <1>0, <1>1 DEF Begin, Peek, End, Join, OpenFails, Clear, DeviceDone, vars, Waits, BufferType,
       ThreadType, Lifecycle, Sounding
  <2>3. WaitingFrames' = WaitingFrames
    BY <2>2 DEF WaitingFrames
  <2> QED
    BY <2>1, <2>3 DEF Accounted, Heard
<1>2. CASE OpenPort
  <2>1. UNCHANGED <<played, dropped, spoilt, Latest>>
    BY <1>2 DEF OpenPort, Latest
  <2>2. \A s \in {0, 1} : ~Waits(s)' /\ ~Waits(s)
    BY <1>0, <1>2 DEF OpenPort, Waits, Lifecycle, Sounding
  <2>3. WaitingFrames' = WaitingFrames
    BY <2>2 DEF WaitingFrames
  <2> QED
    BY <2>1, <2>3 DEF Accounted, Heard
<1>3. CASE Submit
  <2> PICK n \in Sizes :
        IF MustGrow(n) THEN Grow(n)
        ELSE scene' = "wait" /\ UNCHANGED <<buf, bufCap, dropped, spoilt>>
    BY <1>3 DEF Submit
  <2>1. /\ submitted \in Nat /\ submitted' = submitted + 1 /\ Latest = submitted
        /\ UNCHANGED <<played, len, thread, slot>>
    BY <1>0, <1>3 DEF Submit, ThreadType, Latest
  <2>2. CASE ~MustGrow(n)
    <3>1. Latest' = submitted /\ WaitingFrames' = WaitingFrames
      BY <2>1, <2>2 DEF Latest, WaitingFrames, Waits
    <3> QED
      BY <2>1, <2>2, <3>1 DEF Accounted, Heard
  <2>3. CASE MustGrow(n)
    <3>1. WaitingFrames' = {} /\ spoilt' = spoilt \cup WaitingFrames
      BY <2>3 DEF Grow, WaitingFrames, Waits
    <3>2. Heard \cup dropped \cup spoilt' = 1..submitted /\ Heard' = Heard
      BY <2>1, <3>1 DEF Accounted, Heard
    <3>3. CASE scene' = "wait" /\ dropped' = dropped
      <4>1. Latest' = submitted
        BY <2>1, <3>3 DEF Latest
      <4> QED
        BY <3>1, <3>2, <3>3, <4>1 DEF Accounted
    <3>4. CASE scene' = "frame" /\ dropped' = dropped \cup {submitted + 1}
      <4>1. Latest' = submitted + 1 /\ 1..submitted + 1 = (1..submitted) \cup {submitted + 1}
        BY <2>1, <3>4 DEF Latest
      <4> QED
        BY <3>1, <3>2, <3>4, <4>1 DEF Accounted
    <3> QED
      BY <2>3, <3>3, <3>4 DEF Grow
  <2> QED
    BY <2>2, <2>3
<1>4. CASE SubmitCopy
  <2>1. /\ len[writeSlot] = 0 /\ writeSlot \in {0, 1} /\ submitted \in 1..MaxFrames
        /\ size # 0 /\ Latest = submitted - 1 /\ Latest' = submitted
        /\ UNCHANGED <<thread, slot, played, dropped, spoilt>>
        /\ buf'[writeSlot] = submitted /\ len'[writeSlot] = size
        /\ \A s \in {0, 1} : s # writeSlot => buf'[s] = buf[s] /\ len'[s] = len[s]
    BY <1>0, <1>4 DEF SubmitCopy, BufferType, ThreadType, Lifecycle, Latest
  <2>2. ~(thread = "clear" /\ writeSlot = slot)
    BY <1>0, <1>4, <2>1 DEF SubmitCopy, SlotsInTurn, Sounding
  <2> PICK w : w = writeSlot
    OBVIOUS
  <2>3. \A s \in {0, 1} : /\ s = w => Waits(s)' /\ ~Waits(s) /\ buf'[s] = submitted
                          /\ s # w => Waits(s)' = Waits(s) /\ buf'[s] = buf[s]
    <3>1. submitted # 0 /\ w \in {0, 1}
      BY <2>1
    <3> QED
      BY <2>1, <2>2, <3>1 DEF Waits
  <2>4. WaitingFrames' = WaitingFrames \cup {submitted}
    <3>1. w \in {0, 1}
      BY <2>1
    <3> QED
      BY <2>3, <3>1 DEF WaitingFrames
  <2>5. 1..submitted = (1..submitted - 1) \cup {submitted}
    BY <2>1
  <2> QED
    BY <2>1, <2>4, <2>5 DEF Accounted, Heard
<1>5. CASE Output
  <2>1. Heard' = Heard \cup (IF buf[slot] = Garbage THEN {} ELSE {buf[slot]})
    <3>1. played' = Hear(slot) /\ slot \in {0, 1}
      BY <1>0, <1>5 DEF Output, ThreadType
    <3> QED
      BY <3>1, HeardHear
  <2>2. UNCHANGED <<buf, len, slot, dropped, spoilt, Latest>> /\ thread = "output" /\ thread' = "clear"
    BY <1>5 DEF Output, Latest
  <2>3. len[slot] # 0 /\ slot \in {0, 1}
    BY <1>0, <2>2 DEF SlotsInTurn, Lifecycle, Sounding, ThreadType
  <2>4. /\ ~Waits(slot)' /\ (Waits(slot) <=> buf[slot] # Garbage)
        /\ \A s \in {0, 1} : s # slot => Waits(s)' = Waits(s)
    BY <2>2, <2>3 DEF Waits
  <2>5. WaitingFrames = WaitingFrames' \cup (IF buf[slot] = Garbage THEN {} ELSE {buf[slot]})
    BY <2>2, <2>3, <2>4 DEF WaitingFrames
  <2> QED
    BY <2>1, <2>2, <2>5 DEF Accounted
<1> QED
  BY <1>1, <1>2, <1>3, <1>4, <1>5 DEF Next, MainNext, ThreadNext

(* When video_play has joined the output thread, every frame it submitted  *)
(* has been output, found no memory, or waited in a buffer that a larger   *)
(* frame replaced.                                                         *)
THEOREM Drained == ASSUME DeviceCopies PROVE Spec => []DrainedAtExit
<1>1. Init => Accounted
  BY DEF Init, Accounted, Heard, WaitingFrames, Waits, Latest
<1>2. IInv /\ Accounted /\ [Next]_vars => Accounted'
  BY NextAccounted
<1>3. IInv /\ Accounted => DrainedAtExit
  <2> SUFFICES ASSUME IInv, Accounted, thread = "ended"
               PROVE  Heard \cup dropped \cup spoilt = 1..submitted
    BY DEF DrainedAtExit
  <2>1. scene = "join" /\ \A s \in {0, 1} : len[s] = 0
    BY DEF IInv, ThreadType, Lifecycle, SlotsInTurn, Sounding
  <2>2. WaitingFrames = {} /\ Latest = submitted
    BY <2>1 DEF WaitingFrames, Waits, Latest
  <2> QED
    BY <2>2 DEF Accounted
<1> QED
  BY <1>1, <1>2, <1>3, Invariant, PTL DEF Spec
-----------------------------------------------------------------------------
(* The two slots are a queue.  A frame is put or got one at a time.        *)
LEMMA OneOrTwo ==
  ASSUME NEW S, NEW x \in S, NEW y \in S
  PROVE  /\ <<x>> \in Seq(S) /\ Len(<<x>>) = 1 /\ SubSeq(<<x>>, 1, 0) = << >>
         /\ <<x, y>> \in Seq(S) /\ Len(<<x, y>>) = 2 /\ SubSeq(<<x, y>>, 1, 1) = <<x>>
         /\ SubSeq(<<x>>, 1, 1) = <<x>> /\ SubSeq(<<x>>, 2, 1) = << >>
         /\ SubSeq(<<x, y>>, 2, 2) = <<y>>
<1>1. <<x>> \in Seq(S) /\ Len(<<x>>) = 1 /\ <<x>>[1] = x
  OBVIOUS
<1>2. <<x, y>> \in Seq(S) /\ Len(<<x, y>>) = 2 /\ <<x, y>>[1] = x /\ <<x, y>>[2] = y
  OBVIOUS
<1>3. SubSeq(<<x>>, 1, 0) = << >> /\ SubSeq(<<x>>, 2, 1) = << >>
  BY SubSeqEmpty
<1>4. SubSeq(<<x>>, 1, 1) = <<x>>
  BY <1>1, SubSeqFull
<1>5. SubSeq(<<x, y>>, 1, 1) = <<x>>
  <2>1. SubSeq(<<x, y>>, 1, 1) = <<x>> \o SubSeq(<<x, y>>, 2, 1)
    BY <1>2, SubSeqRecursiveFirst
  <2>2. SubSeq(<<x, y>>, 2, 1) = << >>
    BY SubSeqEmpty
  <2>3. <<x>> \o << >> = <<x>>
    BY <1>1, ConcatEmptySeq
  <2> QED BY <2>1, <2>2, <2>3
<1>6. SubSeq(<<x, y>>, 2, 2) = <<y>>
  <2>1. SubSeq(<<x, y>>, 2, 2) = <<y>> \o SubSeq(<<x, y>>, 3, 2)
    BY <1>2, SubSeqRecursiveFirst
  <2>2. SubSeq(<<x, y>>, 3, 2) = << >>
    BY SubSeqEmpty
  <2>3. <<y>> \in Seq(S) /\ <<y>> \o << >> = <<y>>
    BY ConcatEmptySeq
  <2> QED BY <2>1, <2>2, <2>3
<1> QED BY <1>1, <1>2, <1>3, <1>4, <1>5, <1>6

LEMMA PutsFirst ==
  ASSUME NEW x \in 1..MaxFrames, Waiting = << >>, Waiting' = <<x>>, UNCHANGED played
  PROVE  Queue!Put
<1>1. Len(<< >>) = 0 /\ SubSeq(<<x>>, 1, 0) = << >> /\ <<x>> \in Seq(1..MaxFrames) /\ Len(<<x>>) = 1
  BY OneOrTwo
<1> QED BY <1>1 DEF Queue!Put

LEMMA PutsSecond ==
  ASSUME NEW x \in 1..MaxFrames, NEW y \in 1..MaxFrames,
         Waiting = <<x>>, Waiting' = <<x, y>>, UNCHANGED played
  PROVE  Queue!Put
<1>1. /\ Len(<<x>>) = 1 /\ SubSeq(<<x, y>>, 1, 1) = <<x>>
      /\ <<x, y>> \in Seq(1..MaxFrames) /\ Len(<<x, y>>) = 2
  BY OneOrTwo
<1> QED BY <1>1 DEF Queue!Put

LEMMA GetsLast ==
  ASSUME NEW x \in 1..MaxFrames, Waiting = <<x>>, Waiting' = << >>,
         played \in Seq(0..MaxFrames), played' = Append(played, x)
  PROVE  Queue!Get
<1>1. played' = played \o <<x>>
  OBVIOUS
<1>2. 1 \in 1..Len(<<x>>) /\ 1 + 1 = 2
  BY OneOrTwo
<1>3. SubSeq(<<x>>, 1, 1) = <<x>> /\ SubSeq(<<x>>, 2, Len(<<x>>)) = << >>
  <2>1. Len(<<x>>) = 1 /\ <<x>> \in Seq(1..MaxFrames)
    OBVIOUS
  <2>2. SubSeq(<<x>>, 1, 1) = <<x>> /\ SubSeq(<<x>>, 2, 1) = << >>
    <3>1. SubSeq(<<x>>, 1, Len(<<x>>)) = <<x>>
      BY <2>1, SubSeqFull
    <3>2. SubSeq(<<x>>, 2, 1) = << >>
      BY SubSeqEmpty
    <3> QED BY <2>1, <3>1, <3>2
  <2> QED BY <2>1, <2>2
<1> QED BY <1>1, <1>2, <1>3 DEF Queue!Get

LEMMA GetsFirst ==
  ASSUME NEW x \in 1..MaxFrames, NEW y \in 1..MaxFrames, Waiting = <<x, y>>, Waiting' = <<y>>,
         played \in Seq(0..MaxFrames), played' = Append(played, x)
  PROVE  Queue!Get
<1>1. played' = played \o <<x>>
  OBVIOUS
<1>2. 1 \in 1..Len(<<x, y>>) /\ 1 + 1 = 2
  BY OneOrTwo
<1>3. SubSeq(<<x, y>>, 1, 1) = <<x>> /\ SubSeq(<<x, y>>, 2, Len(<<x, y>>)) = <<y>>
  BY OneOrTwo
<1> QED BY <1>1, <1>2, <1>3 DEF Queue!Get

\* Waiting, as a function of the variables it reads.
Queued(b, l, th, s) ==
  LET o == Other(s)
      full(i) == l[i] # 0 /\ b[i] # Garbage
      second == IF full(o) THEN <<b[o]>> ELSE << >>
  IN IF th = "clear" \/ ~full(s) THEN second
     ELSE IF full(o) THEN <<b[s], b[o]>> ELSE <<b[s]>>

LEMMA QueuedIs ==
  ASSUME NEW b, NEW l, NEW th, NEW s \in {0, 1}
  PROVE  LET one(i) == IF l[i] # 0 /\ ~(th = "clear" /\ i = s) /\ b[i] # Garbage
                      THEN <<b[i]>> ELSE << >>
         IN (IF th = "clear" THEN one(Other(s)) ELSE one(s) \o one(Other(s)))
              = Queued(b, l, th, s)
<1>1. /\ \A x : << >> \o <<x>> = <<x>> /\ <<x>> \o << >> = <<x>>
      /\ \A x, y : <<x>> \o <<y>> = <<x, y>>
      /\ << >> \o << >> = << >>
  <2>1. ASSUME NEW x, NEW y
        PROVE  << >> \o <<x>> = <<x>> /\ <<x>> \o << >> = <<x>> /\ <<x>> \o <<y>> = <<x, y>>
    <3>1. <<x>> \in Seq({x, y}) /\ <<y>> \in Seq({x, y})
      OBVIOUS
    <3>2. << >> \o <<x>> = <<x>> /\ <<x>> \o << >> = <<x>>
      BY <3>1, ConcatEmptySeq
    <3>3. <<x>> \o <<y>> = <<x, y>>
      <4>1. /\ <<x>> \o <<y>> \in Seq({x, y}) /\ Len(<<x>> \o <<y>>) = 2
            /\ (<<x>> \o <<y>>)[1] = x /\ (<<x>> \o <<y>>)[2] = y
        BY <3>1, ConcatProperties
      <4>2. /\ <<x, y>> \in Seq({x, y}) /\ Len(<<x, y>>) = 2
            /\ <<x, y>>[1] = x /\ <<x, y>>[2] = y
        OBVIOUS
      <4>3. \A i \in 1..2 : i = 1 \/ i = 2
        OBVIOUS
      <4> QED BY <4>1, <4>2, <4>3, SeqEqual
    <3> QED BY <3>2, <3>3
  <2>2. << >> \o << >> = << >>
    BY ConcatEmptySeq, EmptySeq
  <2> QED BY <2>1, <2>2
<1>2. s # Other(s) /\ Other(s) \in {0, 1}
  OBVIOUS
<1> HIDE DEF Other
<1> QED BY <1>1, <1>2 DEF Queued

\* Nothing waits that is not a frame.
LEMMA QueuedTypes ==
  ASSUME IInv
  PROVE  /\ slot \in {0, 1} /\ Other(slot) \in {0, 1} /\ Other(slot) # slot
         /\ \A s \in {0, 1} : buf[s] # Garbage => buf[s] \in 1..MaxFrames
         /\ \A s \in {0, 1} : len[s] # 0 => Sounding
         /\ Sounding /\ len[slot] = 0 => len[Other(slot)] = 0
         /\ thread \in {"output", "clear"} => Sounding /\ len[slot] # 0
         /\ played \in Seq(0..MaxFrames)
<1>1. BufferType /\ ThreadType /\ HistoryType /\ Lifecycle /\ SlotsInTurn
  BY DEF IInv
<1>2. ASSUME NEW s \in {0, 1}, buf[s] # Garbage PROVE buf[s] \in 1..MaxFrames
  <2>1. buf[s] \in 0..MaxFrames
    BY <1>1 DEF BufferType
  <2> QED BY <1>2, <2>1
<1> QED BY <1>1, <1>2 DEF ThreadType, HistoryType, Lifecycle, SlotsInTurn

LEMMA WaitingIs ==
  ASSUME IInv, IInv'
  PROVE  /\ Waiting = Queued(buf, len, thread, slot)
         /\ Waiting' = Queued(buf', len', thread', slot')
<1>1. slot \in {0, 1} /\ slot' \in {0, 1}
  BY DEF IInv, ThreadType
<1> HIDE DEF Other
<1> QED BY <1>1, QueuedIs DEF Waiting, Waits

\* A step after which the queue is as it was is a stutter.
LEMMA StaysQueued ==
  ASSUME IInv, IInv', Queued(buf', len', thread', slot') = Queued(buf, len, thread, slot),
         UNCHANGED played
  PROVE  UNCHANGED <<Waiting, played>>
BY WaitingIs

LEMMA QueueStep ==
  ASSUME DeviceCopies, IInv, IInv', [Next]_vars
  PROVE  [Queue!Next]_<<Waiting, played>>
<1> USE DEF glob, main
<1> DEFINE o == Other(slot)
<1>0. /\ slot \in {0, 1} /\ o \in {0, 1} /\ o # slot
      /\ \A s \in {0, 1} : buf[s] # Garbage => buf[s] \in 1..MaxFrames
      /\ \A s \in {0, 1} : len[s] # 0 => Sounding
      /\ Sounding /\ len[slot] = 0 => len[o] = 0
      /\ thread \in {"output", "clear"} => Sounding /\ len[slot] # 0
      /\ played \in Seq(0..MaxFrames)
  BY QueuedTypes
<1>1. /\ Waiting = Queued(buf, len, thread, slot)
      /\ Waiting' = Queued(buf', len', thread', slot')
  BY WaitingIs
<1>2. BufferType /\ ThreadType /\ Lifecycle /\ SlotsInTurn
  BY DEF IInv
<1>3. CASE Begin \/ OpenFails \/ End \/ Join \/ UNCHANGED vars
  <2>1. \A s \in {0, 1} : len'[s] = len[s]
    BY <1>2, <1>3 DEF Begin, OpenFails, End, Join, vars, BufferType, Lifecycle, Sounding
  <2>2. /\ UNCHANGED <<buf, slot, played>>
        /\ thread' = "clear" <=> thread = "clear"
    BY <1>2, <1>3 DEF Begin, OpenFails, End, Join, vars, Lifecycle, Sounding
  <2> QED BY <1>0, <2>1, <2>2, StaysQueued DEF Queued
<1>4. CASE OpenPort
  <2>1. /\ \A s \in {0, 1} : len[s] = 0 /\ len'[s] = 0
        /\ thread = "none" /\ thread' = "peek" /\ slot' = 0 /\ UNCHANGED played
    BY <1>2, <1>4 DEF OpenPort, Lifecycle, Sounding, BufferType
  <2> QED BY <1>0, <2>1, StaysQueued DEF Queued
<1>5. CASE Submit
  <2> PICK n \in Sizes :
        IF MustGrow(n) THEN Grow(n)
        ELSE scene' = "wait" /\ UNCHANGED <<buf, bufCap, dropped, spoilt>>
    BY <1>5 DEF Submit
  <2>1. UNCHANGED <<len, thread, slot, played>>
    BY <1>5 DEF Submit
  <2>2. CASE ~MustGrow(n)
    <3>1. buf' = buf
      BY <2>2
    <3> QED BY <2>1, <3>1, StaysQueued DEF Queued
  <2>3. CASE MustGrow(n)
    <3>1. \A s \in {0, 1} : buf'[s] = Garbage
      BY <2>3 DEF Grow
    <3>2. Waiting' = << >>
      BY <1>0, <1>1, <2>1, <3>1 DEF Queued
    <3> QED BY <2>1, <3>2 DEF Queue!Next, Queue!Clear
  <2> QED BY <2>2, <2>3
<1>6. CASE SubmitCopy
  <2>1. /\ len[writeSlot] = 0 /\ writeSlot \in {0, 1} /\ Sounding /\ thread \in {"peek", "output", "clear"}
        /\ buf'[writeSlot] = submitted /\ len'[writeSlot] = size /\ size # 0
        /\ \A s \in {0, 1} : s # writeSlot => buf'[s] = buf[s] /\ len'[s] = len[s]
        /\ submitted \in 1..MaxFrames /\ UNCHANGED <<thread, slot, played>>
    BY <1>2, <1>6 DEF SubmitCopy, BufferType, ThreadType, Lifecycle, Sounding
  <2>2. submitted # Garbage
    BY <2>1
  <2>3. CASE len[slot] = 0
    <3>1. writeSlot = slot /\ len[o] = 0 /\ thread # "clear"
      BY <1>0, <1>2, <2>1, <2>3 DEF SlotsInTurn
    <3>2. Waiting = << >> /\ Waiting' = <<submitted>>
      BY <1>0, <1>1, <2>1, <2>2, <2>3, <3>1 DEF Queued
    <3> QED BY <2>1, <3>2, PutsFirst DEF Queue!Next
  <2>4. CASE len[slot] # 0
    <3>1. writeSlot = o
      BY <1>0, <2>1, <2>4
    <3>2. CASE thread = "clear" \/ buf[slot] = Garbage
      <4>1. Waiting = << >> /\ Waiting' = <<submitted>>
        BY <1>0, <1>1, <2>1, <2>2, <2>4, <3>1, <3>2 DEF Queued
      <4> QED BY <2>1, <4>1, PutsFirst DEF Queue!Next
    <3>3. CASE thread # "clear" /\ buf[slot] # Garbage
      <4>1. /\ Waiting = <<buf[slot]>> /\ Waiting' = <<buf[slot], submitted>>
            /\ buf[slot] \in 1..MaxFrames
        BY <1>0, <1>1, <2>1, <2>2, <2>4, <3>1, <3>3 DEF Queued
      <4> QED BY <2>1, <4>1, PutsSecond DEF Queue!Next
    <3> QED BY <3>2, <3>3
  <2> QED BY <2>3, <2>4
<1>7. CASE Peek
  <2>1. UNCHANGED <<buf, len, slot, played>> /\ thread # "clear" /\ thread' # "clear"
    BY <1>7 DEF Peek
  <2> QED BY <2>1, StaysQueued DEF Queued
<1>8. CASE Output
  <2>1. /\ thread = "output" /\ thread' = "clear" /\ UNCHANGED <<buf, len, slot>>
        /\ played' = Hear(slot) /\ len[slot] # 0
    BY <1>0, <1>8 DEF Output
  <2>2. CASE buf[slot] = Garbage
    <3>1. UNCHANGED played
      BY <2>1, <2>2 DEF Hear
    <3>2. Queued(buf', len', thread', slot') = Queued(buf, len, thread, slot)
      BY <2>1, <2>2 DEF Queued
    <3> QED BY <3>1, <3>2, StaysQueued
  <2>3. CASE buf[slot] # Garbage
    <3>1. played' = Append(played, buf[slot]) /\ buf[slot] \in 1..MaxFrames
      BY <1>0, <2>1, <2>3 DEF Hear
    <3>2. CASE len[o] = 0 \/ buf[o] = Garbage
      <4>1. Waiting = <<buf[slot]>> /\ Waiting' = << >>
        BY <1>1, <2>1, <2>3, <3>2 DEF Queued
      <4> QED BY <1>0, <3>1, <4>1, GetsLast DEF Queue!Next
    <3>3. CASE len[o] # 0 /\ buf[o] # Garbage
      <4>1. Waiting = <<buf[slot], buf[o]>> /\ Waiting' = <<buf[o]>> /\ buf[o] \in 1..MaxFrames
        BY <1>0, <1>1, <2>1, <2>3, <3>3 DEF Queued
      <4> QED BY <1>0, <3>1, <4>1, GetsFirst DEF Queue!Next
    <3> QED BY <3>2, <3>3
  <2> QED BY <2>2, <2>3
<1>9. CASE Clear
  <2>1. /\ thread = "clear" /\ thread' = "peek" /\ UNCHANGED <<buf, played>>
        /\ len'[slot] = 0 /\ len'[o] = len[o] /\ slot' = o
    BY <1>0, <1>2, <1>9 DEF Clear, BufferType
  <2>2. Other(o) = slot
    BY <1>0
  <2> QED BY <2>1, <2>2, StaysQueued DEF Queued
<1>10. CASE DeviceDone
  <2>1. UNCHANGED <<buf, len, thread, slot, played>>
    BY <1>10 DEF DeviceDone
  <2> QED BY <2>1, StaysQueued DEF Queued
<1> QED BY <1>3, <1>4, <1>5, <1>6, <1>7, <1>8, <1>9, <1>10 DEF Next, MainNext, ThreadNext

(* Two slots, two indices and an output thread that takes no lock at the   *)
(* output are a queue of two frames: none is repeated or overtaken, and a  *)
(* waiting frame is lost only with all that wait, when a larger frame      *)
(* replaces the buffers.                                                   *)
THEOREM ImplementsQueue == ASSUME DeviceCopies PROVE Spec => QueueSpec
<1>1. Init => Queue!Init
  <2> SUFFICES ASSUME Init PROVE Queue!Init
    OBVIOUS
  <2>1. slot = 0 /\ thread = "none" /\ len[0] = 0 /\ len[1] = 0 /\ played = << >>
    BY DEF Init
  <2>2. << >> \o << >> = << >>
    BY ConcatEmptySeq, EmptySeq
  <2> QED BY <2>1, <2>2 DEF Queue!Init, Waiting, Waits
<1>2. IInv /\ IInv' /\ [Next]_vars => [Queue!Next]_<<Waiting, played>>
  BY QueueStep
<1> QED BY <1>1, <1>2, Invariant, PTL DEF Spec, QueueSpec, Queue!Spec
-----------------------------------------------------------------------------
(* Order, and why the two threads do not wait for each other.              *)
LEMMA PlayedFacts ==
  ASSUME IInv
  PROVE  /\ played \in Seq(0..MaxFrames) /\ Len(played) \in Nat /\ DOMAIN played = 1..Len(played)
         /\ \A i \in DOMAIN played : played[i] \in Int
<1>1. played \in Seq(0..MaxFrames)
  BY DEF IInv, HistoryType
<1> QED BY <1>1

\* Steps that neither output a frame nor put one into a slot.
LEMMA OrderedKept ==
  ASSUME IInv, IInv', Ordered, UNCHANGED played, Latest <= Latest', Latest \in Int, Latest' \in Int,
         \A s \in {0, 1} : Waits(s)' => Waits(s) /\ buf'[s] = buf[s],
         (\A s \in {0, 1} : ~Waits(s)') \/ slot' = slot \/ ~Waits(slot)
  PROVE  Ordered'
<1>1. /\ \A s \in {0, 1} : buf[s] \in Int
      /\ slot \in {0, 1} /\ slot' \in {0, 1} /\ \A s \in {0, 1} : Other(s) \in {0, 1} /\ Other(s) # s
  BY DEF IInv, BufferType, ThreadType, Other
<1>2. \A i \in DOMAIN played : played[i] \in Int
  BY PlayedFacts
<1>3. FramesInOrder'
  BY DEF Ordered, FramesInOrder
<1>4. \A i \in DOMAIN played : played[i] <= Latest'
  BY <1>2 DEF Ordered
<1>5. \A s \in {0, 1} : Waits(s)' =>
        buf'[s] <= Latest' /\ \A i \in DOMAIN played : played[i] < buf'[s]
  BY <1>1 DEF Ordered
<1>6. Waits(slot)' /\ Waits(Other(slot))' => buf'[slot'] < buf'[Other(slot')]
  <2> SUFFICES ASSUME Waits(slot)', Waits(Other(slot))' PROVE buf'[slot'] < buf'[Other(slot')]
    OBVIOUS
  <2>1. slot' = slot
    BY <1>1 DEF Waits
  <2> QED BY <1>1, <2>1 DEF Ordered, Waits
<1> QED BY <1>3, <1>4, <1>5, <1>6 DEF Ordered

LEMMA OrderedOutput ==
  ASSUME DeviceCopies, IInv, IInv', Ordered, Output, buf[slot] # Garbage
  PROVE  Ordered'
<1> PICK x, n : x = buf[slot] /\ n = Len(played)
  OBVIOUS
<1>1. /\ slot \in {0, 1} /\ Other(slot) \in {0, 1} /\ Other(slot) # slot /\ x \in Int /\ Latest \in Int
      /\ \A s \in {0, 1} : buf[s] \in Int
  BY DEF IInv, BufferType, ThreadType, Other, Latest
<1>2. /\ thread = "output" /\ thread' = "clear" /\ UNCHANGED <<buf, len, slot, Latest>>
      /\ played' = Append(played, x) /\ Waits(slot)
  BY DEF Output, glob, main, Latest, IInv, SlotsInTurn, Lifecycle, Sounding, Waits, Hear
<1>3. /\ n \in Nat /\ DOMAIN played = 1..n /\ DOMAIN played' = 1..n + 1 /\ played'[n + 1] = x
      /\ \A i \in 1..n : played'[i] = played[i] /\ played[i] \in Int
  BY <1>1, <1>2, PlayedFacts
<1>4. \A i \in 1..n + 1 : i \in 1..n \/ i = n + 1
  BY <1>3
<1>5. /\ \A i, j \in 1..n : i < j => played[i] < played[j]
      /\ \A i \in 1..n : played[i] <= Latest /\ played[i] < x
      /\ x <= Latest
      /\ \A s \in {0, 1} : Waits(s) => buf[s] <= Latest /\ \A i \in 1..n : played[i] < buf[s]
      /\ Waits(Other(slot)) => x < buf[Other(slot)]
  BY <1>1, <1>2, <1>3 DEF Ordered, FramesInOrder
<1>6. \A i, j \in 1..n + 1 : i < j => played'[i] < played'[j]
  <2> SUFFICES ASSUME NEW i \in 1..n + 1, NEW j \in 1..n + 1, i < j PROVE played'[i] < played'[j]
    OBVIOUS
  <2>1. i \in 1..n
    BY <1>3
  <2> QED BY <1>3, <1>4, <1>5, <2>1
<1>7. \A s \in {0, 1} : Waits(s)' => s = Other(slot) /\ Waits(s)
  BY <1>1, <1>2 DEF Waits
<1>8. \A s \in {0, 1} : Waits(s)' =>
        buf'[s] <= Latest' /\ \A i \in 1..n + 1 : played'[i] < buf'[s]
  BY <1>1, <1>2, <1>3, <1>4, <1>5, <1>7
<1>9. \A i \in 1..n + 1 : played'[i] <= Latest'
  BY <1>2, <1>3, <1>4, <1>5
<1>10. ~Waits(slot)'
  BY <1>2 DEF Waits
<1> QED BY <1>2, <1>3, <1>5, <1>6, <1>8, <1>9, <1>10 DEF Ordered, FramesInOrder

LEMMA OrderedCopy == ASSUME IInv, IInv', Ordered, SubmitCopy PROVE Ordered'
<1>1. /\ slot \in {0, 1} /\ Other(slot) \in {0, 1} /\ Other(slot) # slot /\ writeSlot \in {0, 1}
      /\ \A s \in {0, 1} : buf[s] \in Int /\ Other(s) \in {0, 1}
      /\ submitted \in Int /\ Latest = submitted - 1
      /\ \A i \in DOMAIN played : played[i] \in Int
  BY PlayedFacts DEF SubmitCopy, IInv, BufferType, ThreadType, Other, Latest
<1>2. /\ len[writeSlot] = 0 /\ Latest' = submitted /\ UNCHANGED <<thread, slot, played>>
      /\ buf'[writeSlot] = submitted /\ scene' = "frame" /\ Sounding
      /\ \A s \in {0, 1} : s # writeSlot => buf'[s] = buf[s] /\ len'[s] = len[s]
  BY DEF SubmitCopy, Latest, Sounding, IInv, BufferType
<1>3. \A s \in {0, 1} : Waits(s)' => s = writeSlot \/ (Waits(s) /\ buf'[s] = buf[s])
  BY <1>2 DEF Waits
<1>4. \A s \in {0, 1} : Waits(s)' =>
        buf'[s] <= Latest' /\ \A i \in DOMAIN played : played[i] < buf'[s]
  BY <1>1, <1>2, <1>3 DEF Ordered
<1>5. Waits(slot)' /\ Waits(Other(slot))' => writeSlot = Other(slot)
  <2>1. /\ thread \in {"peek", "ended"} =>
             writeSlot = IF (len[0] = 0) = (len[1] = 0) THEN slot ELSE Other(slot)
        /\ len[slot] = 0 => len[Other(slot)] = 0
        /\ thread \in {"output", "clear"} =>
             writeSlot = IF len[Other(slot)] = 0 THEN Other(slot) ELSE slot
        /\ thread \in {"peek", "output", "clear"}
    BY <1>2 DEF IInv, SlotsInTurn, Lifecycle, SubmitCopy, Sounding, ThreadType
  <2> QED BY <1>1, <1>2, <2>1 DEF Waits
<1>6. Waits(slot)' /\ Waits(Other(slot))' => buf'[slot] < buf'[Other(slot)]
  <2> SUFFICES ASSUME Waits(slot)', Waits(Other(slot))' PROVE buf'[slot] < buf'[Other(slot)]
    OBVIOUS
  <2>1. writeSlot = Other(slot) /\ slot # writeSlot
    BY <1>1, <1>5
  <2>2. Waits(slot) /\ buf'[slot] = buf[slot]
    BY <1>1, <1>2, <2>1 DEF Waits
  <2>3. buf[slot] <= Latest
    BY <1>1, <2>2 DEF Ordered
  <2> QED BY <1>1, <1>2, <2>1, <2>2, <2>3
<1>7. FramesInOrder' /\ \A i \in DOMAIN played : played[i] <= Latest'
  BY <1>1, <1>2 DEF Ordered, FramesInOrder
<1> QED BY <1>2, <1>4, <1>6, <1>7 DEF Ordered

LEMMA NextOrdered ==
  ASSUME DeviceCopies, IInv, IInv', Ordered, [Next]_vars PROVE Ordered'
<1> USE DEF glob, main
<1>1. BufferType /\ ThreadType /\ Lifecycle /\ SlotsInTurn
  BY DEF IInv
<1>2. Latest \in Int /\ Latest' \in Int /\ \A s \in {0, 1} : Other(s) \in {0, 1} /\ Other(s) # s
  BY <1>1 DEF Latest, IInv, ThreadType, Other
<1>3. CASE Begin \/ OpenFails \/ End \/ Join \/ UNCHANGED vars
  <2>1. \A s \in {0, 1} : len'[s] = len[s]
    BY <1>1, <1>3 DEF Begin, OpenFails, End, Join, vars, BufferType, Lifecycle, Sounding
  <2>2. /\ UNCHANGED <<buf, slot, played>>
        /\ thread' = "clear" <=> thread = "clear"
    BY <1>1, <1>3 DEF Begin, OpenFails, End, Join, vars, Lifecycle, Sounding
  <2>3. Latest' = Latest
    BY <1>3 DEF Begin, OpenFails, End, Join, vars, Latest
  <2> QED BY <1>2, <2>1, <2>2, <2>3, OrderedKept DEF Waits
<1>4. CASE OpenPort
  <2>1. /\ \A s \in {0, 1} : len'[s] = 0
        /\ UNCHANGED played /\ Latest' = Latest
    BY <1>1, <1>4 DEF OpenPort, Latest
  <2> QED BY <1>2, <2>1, OrderedKept DEF Waits
<1>5. CASE Submit
  <2>1. UNCHANGED <<len, thread, slot, played>> /\ Latest <= Latest'
    BY <1>1, <1>5 DEF Submit, Latest, ThreadType, Grow
  <2>2. buf' = buf \/ \A s \in {0, 1} : buf'[s] = Garbage
    BY <1>5 DEF Submit, Grow
  <2>3. \A s \in {0, 1} : Waits(s)' => Waits(s) /\ buf'[s] = buf[s]
    BY <2>1, <2>2 DEF Waits
  <2> QED BY <1>2, <2>1, <2>3, OrderedKept
<1>6. CASE SubmitCopy
  BY <1>6, OrderedCopy
<1>7. CASE Peek \/ DeviceDone
  <2>1. /\ UNCHANGED <<buf, len, slot, played, scene, submitted>>
        /\ thread' = "clear" <=> thread = "clear"
    BY <1>7 DEF Peek, DeviceDone
  <2>2. Latest' = Latest
    BY <2>1 DEF Latest
  <2> QED BY <1>2, <2>1, <2>2, OrderedKept DEF Waits
<1>8. CASE Output
  <2>1. CASE buf[slot] # Garbage
    BY <1>8, <2>1, OrderedOutput
  <2>2. CASE buf[slot] = Garbage
    <3>1. /\ thread = "output" /\ thread' = "clear"
          /\ UNCHANGED <<buf, len, slot, played, scene, submitted>>
      BY <1>8, <2>2 DEF Output, Hear
    <3>2. Latest' = Latest
      BY <3>1 DEF Latest
    <3>3. \A s \in {0, 1} : Waits(s)' => Waits(s) /\ buf'[s] = buf[s]
      BY <3>1 DEF Waits
    <3> QED BY <1>2, <3>1, <3>2, <3>3, OrderedKept
  <2> QED BY <2>1, <2>2
<1>9. CASE Clear
  <2>1. /\ thread = "clear" /\ thread' = "peek" /\ UNCHANGED <<buf, played, scene, submitted>>
        /\ len'[slot] = 0 /\ len'[Other(slot)] = len[Other(slot)] /\ slot' = Other(slot)
        /\ slot \in {0, 1}
    BY <1>1, <1>2, <1>9 DEF Clear, BufferType, ThreadType
  <2>2. Latest' = Latest
    BY <2>1 DEF Latest
  <2>3. \A s \in {0, 1} : s = slot \/ s = Other(slot)
    BY <2>1 DEF Other
  <2> QED BY <1>2, <2>1, <2>2, <2>3, OrderedKept DEF Waits
<1> QED BY <1>3, <1>4, <1>5, <1>6, <1>7, <1>8, <1>9 DEF Next, MainNext, ThreadNext

LEMMA InitOrdered == Init => Ordered
BY DEF Init, Ordered, FramesInOrder, Waits, Latest

(* Frames are heard in the order in which the decoder delivered them, each *)
(* at most once: the double buffer keeps its order over all resets of its  *)
(* indices.                                                                *)
THEOREM OrderIsKept == ASSUME DeviceCopies PROVE Spec => []FramesInOrder
<1>1. IInv /\ IInv' /\ Ordered /\ [Next]_vars => Ordered'
  BY NextOrdered
<1>2. Ordered => FramesInOrder
  BY DEF Ordered
<1> QED BY <1>1, <1>2, InitOrdered, Invariant, PTL DEF Spec

(* video_play's two unbounded waits never face a thread that waits too.    *)
THEOREM NobodyStandsOff == Spec => []NoStandOff
<1>1. IInv => NoStandOff
  <2> SUFFICES ASSUME IInv, (scene = "wait" /\ ~SlotFree) \/ (scene = "join" /\ ~Joined)
               PROVE  /\ thread \in {"peek", "output", "clear"}
                      /\ thread = "peek" => len[slot] # 0 \/ MayLeave
    BY DEF NoStandOff
  <2>1. Sounding /\ thread \in {"peek", "output", "clear"}
    BY DEF IInv, ThreadType, Lifecycle, Sounding, Joined
  <2>2. CASE scene = "join"
    BY <2>1, <2>2 DEF IInv, Lifecycle, MayLeave
  <2>3. CASE scene = "wait" /\ ~SlotFree
    <3>1. slot \in {0, 1} /\ writeSlot \in {0, 1} /\ len[writeSlot] # 0
      BY <2>3 DEF IInv, ThreadType, BufferType, SlotFree
    <3> QED BY <2>1, <3>1 DEF IInv, SlotsInTurn, Other
  <2> QED BY <2>1, <2>2, <2>3
<1> QED BY <1>1, Invariant, PTL
=============================================================================
