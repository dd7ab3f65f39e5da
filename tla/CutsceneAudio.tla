--------------------------- MODULE CutsceneAudio ---------------------------
(***************************************************************************)
(* source/video.cpp: the sound of a cutscene.  video_play (main thread)    *)
(* decodes audio frames and submits them to one of two slots; the cutscene *)
(* audio thread, which lives as long as the cutscene, outputs the slots in *)
(* turn.  gCutAudioLock guards the two lengths and the quit flag only: the *)
(* buffers are output, and reallocated, without it.                        *)
(*                                                                         *)
(* A frame is its number over all cutscenes; a buffer holds the frame last *)
(* copied into it, or Garbage.  The port is opened for the size of the     *)
(* first frame of a cutscene; every frame brings a size of its own.        *)
(***************************************************************************)
EXTENDS Integers, Sequences

CONSTANTS Sizes,        \* sizes of audio frames
          MaxFrames,    \* bound of the model: frames over all cutscenes
          MaxScenes,    \* bound of the model: cutscenes
          DeviceCopies  \* sceAudioOutOutput has read the buffer when it returns

ASSUME CutsceneAssumption ==
  /\ Sizes \subseteq Nat \ {0}
  /\ MaxFrames \in Nat /\ MaxScenes \in Nat /\ DeviceCopies \in BOOLEAN

VARIABLES
  buf, bufCap, len, writeSlot,  \* gCutAudioBuf, gCutAudioBufCap, gCutAudioLen, gCutAudioWriteSlot
  quit,                         \* gCutAudioQuit
  portOpen,                     \* gCutAudioPort >= 0
  scene, scenes,                \* video_play: where it is, how many so far
  portSize, size,               \* what the port outputs at a time; the frame being submitted
  submitted,                    \* frames the decoder has given to cutscene_audio_submit
  thread, slot,                 \* cutscene_audio_thread: pc and slot
  device,                       \* the slot the hardware is reading, or Quiet
  played, dropped,              \* history: frames played in order; lost for want of memory
  spoilt,                       \* history: frames that waited when their buffer was freed
  strained                      \* history: in this cutscene a frame was larger than the
                                \* first one, or there was no memory for one

glob == <<buf, bufCap, len, writeSlot, quit, portOpen>>
main == <<scene, scenes, portSize, size, submitted>>
hist == <<played, dropped, spoilt, strained>>
vars == <<glob, main, thread, slot, device, hist>>

Garbage == 0
Quiet == 2

\* Slips the checks below must notice; nothing uses them.
MutSameSlot(s) == s
MutKeepWriteSlot == writeSlot
MutKeepQuit == quit
MutLeaveAtOnce == quit
MutNoJoin == TRUE
MutGrowOnce(n) == bufCap = 0
MutNeverLeave == FALSE

Other(s) == 1 - s                    \* slot ^= 1
FirstWriteSlot == 0                  \* video_play resets what the last cutscene left
FirstQuit == FALSE
MustGrow(n) == n > bufCap
SlotFree == len[writeSlot] = 0
MayLeave == len[slot] = 0 /\ quit
Joined == thread = "ended"

\* Slot s holds a frame the thread has not output.
Waits(s) == len[s] # 0 /\ ~(thread = "clear" /\ s = slot) /\ buf[s] # Garbage
WaitingFrames == {buf[s] : s \in {t \in {0, 1} : Waits(t)}}

Init ==
  /\ buf = [s \in {0, 1} |-> Garbage] /\ bufCap = 0 /\ len = [s \in {0, 1} |-> 0]
  /\ writeSlot = 0 /\ quit = FALSE /\ portOpen = FALSE
  /\ scene = "off" /\ scenes = 0 /\ portSize = 0 /\ size = 0 /\ submitted = 0
  /\ thread = "none" /\ slot = 0
  /\ device = Quiet
  /\ played = << >> /\ dropped = {} /\ spoilt = {} /\ strained = FALSE
-----------------------------------------------------------------------------
\* A cutscene starts; its port is opened when the first audio frame is decoded.
Begin ==
  /\ scene = "off" /\ scenes < MaxScenes
  /\ scenes' = scenes + 1 /\ scene' = "silent"
  /\ UNCHANGED <<glob, portSize, size, submitted, thread, slot, device, hist>>

\* The same pass of the loop goes on to submit that frame.
OpenPort ==
  /\ scene = "silent" /\ submitted < MaxFrames
  /\ portSize' \in Sizes
  /\ portOpen' = TRUE /\ writeSlot' = FirstWriteSlot /\ len' = [s \in {0, 1} |-> 0]
  /\ quit' = FirstQuit
  /\ thread' = "peek" /\ slot' = 0 /\ scene' = "first"
  /\ strained' = FALSE
  /\ UNCHANGED <<buf, bufCap, scenes, size, submitted, device, played, dropped, spoilt>>

\* No port, or no thread: audioOpenAttempted stays set and the cutscene is mute.
OpenFails ==
  /\ scene = "silent"
  /\ scene' = "mute"
  /\ \/ UNCHANGED glob
     \/ /\ writeSlot' = FirstWriteSlot /\ len' = [s \in {0, 1} |-> 0] /\ quit' = FirstQuit
        /\ UNCHANGED <<buf, bufCap, portOpen>>
  /\ UNCHANGED <<scenes, portSize, size, submitted, thread, slot, device, hist>>

\* cutscene_audio_submit frees both buffers, outside the lock and whatever waits in them,
\* and allocates larger ones, or finds no memory.
Grow(n) ==
  /\ buf' = [s \in {0, 1} |-> Garbage]
  /\ spoilt' = spoilt \cup WaitingFrames
  /\ \/ bufCap' = n /\ scene' = "wait" /\ dropped' = dropped
     \/ bufCap' = 0 /\ scene' = "frame" /\ dropped' = dropped \cup {submitted + 1}

Submit ==
  /\ scene \in {"first", "frame"} /\ submitted < MaxFrames
  /\ \E n \in Sizes :
       /\ scene = "first" => n = portSize
       /\ size' = n
       /\ IF MustGrow(n) THEN Grow(n)
          ELSE scene' = "wait" /\ UNCHANGED <<buf, bufCap, dropped, spoilt>>
       /\ strained' = (strained \/ n > portSize \/ bufCap' = 0)
  /\ submitted' = submitted + 1
  /\ UNCHANGED <<len, writeSlot, quit, portOpen, scenes, portSize, thread, slot, device, played>>

\* Under the lock: copy into the slot if it is free.  Else sleep and look again.
SubmitCopy ==
  /\ scene = "wait" /\ SlotFree
  /\ buf' = [buf EXCEPT ![writeSlot] = submitted]
  /\ len' = [len EXCEPT ![writeSlot] = size]
  /\ writeSlot' = Other(writeSlot)
  /\ scene' = "frame"
  /\ UNCHANGED <<bufCap, quit, portOpen, scenes, portSize, size, submitted, thread, slot,
                 device, hist>>

\* The player stops or a button skips the cutscene, between two frames.
End ==
  /\ scene \in {"frame", "silent", "mute"}
  /\ IF scene = "frame" THEN quit' = TRUE /\ scene' = "join"
                        ELSE quit' = quit /\ scene' = "off"
  /\ UNCHANGED <<buf, bufCap, len, writeSlot, portOpen, scenes, portSize, size, submitted,
                 thread, slot, device, hist>>

Join ==
  /\ scene = "join" /\ Joined
  /\ portOpen' = FALSE /\ scene' = "off" /\ thread' = "none"
  /\ UNCHANGED <<buf, bufCap, len, writeSlot, quit, scenes, portSize, size, submitted, slot,
                 device, hist>>
-----------------------------------------------------------------------------
\* cutscene_audio_thread reads length and quit flag under the lock ...
Peek ==
  /\ thread = "peek" /\ (len[slot] # 0 \/ MayLeave)
  /\ thread' = IF MayLeave THEN "ended" ELSE "output"
  /\ UNCHANGED <<glob, main, slot, device, hist>>

\* What the hardware reads from a buffer is a frame, unless the buffer was replaced.
Hear(s) == IF buf[s] = Garbage THEN played ELSE Append(played, buf[s])

\* ... outputs the slot without it, blocking while the hardware is busy ...
Output ==
  /\ thread = "output" /\ device = Quiet
  /\ device' = slot /\ thread' = "clear"
  /\ played' = IF DeviceCopies THEN Hear(slot) ELSE played
  /\ UNCHANGED <<glob, main, slot, dropped, spoilt, strained>>

\* ... and gives the slot back.
Clear ==
  /\ thread = "clear"
  /\ len' = [len EXCEPT ![slot] = 0]
  /\ slot' = Other(slot) /\ thread' = "peek"
  /\ UNCHANGED <<buf, bufCap, writeSlot, quit, portOpen, main, device, hist>>

DeviceDone ==
  /\ device # Quiet
  /\ device' = Quiet
  /\ played' = IF DeviceCopies THEN played ELSE Hear(device)
  /\ UNCHANGED <<glob, main, thread, slot, dropped, spoilt, strained>>
-----------------------------------------------------------------------------
ThreadNext == Peek \/ Output \/ Clear
MainNext == Begin \/ OpenPort \/ OpenFails \/ Submit \/ SubmitCopy \/ End \/ Join
Next == MainNext \/ ThreadNext \/ DeviceDone

(* Both threads run, the hardware plays, and every cutscene ends or is skipped. *)
Fairness ==
  WF_vars(SubmitCopy) /\ WF_vars(Join) /\ WF_vars(ThreadNext) /\ WF_vars(DeviceDone)

Spec == Init /\ [][Next]_vars
FairSpec == Spec /\ Fairness
-----------------------------------------------------------------------------
BufferType ==
  /\ buf \in [{0, 1} -> 0..MaxFrames] /\ bufCap \in Sizes \cup {0}
  /\ len \in [{0, 1} -> Sizes \cup {0}] /\ writeSlot \in {0, 1}
  /\ quit \in BOOLEAN /\ portOpen \in BOOLEAN
ThreadType ==
  /\ scene \in {"off", "silent", "mute", "first", "frame", "wait", "join"}
  /\ scenes \in 0..MaxScenes /\ submitted \in 0..MaxFrames
  /\ portSize \in Sizes \cup {0} /\ size \in Sizes \cup {0}
  /\ thread \in {"none", "peek", "output", "clear", "ended"} /\ slot \in {0, 1}
HistoryType ==
  /\ device \in {0, 1, Quiet}
  /\ played \in Seq(0..MaxFrames) 
  /\ dropped \subseteq 1..MaxFrames /\ spoilt \subseteq 1..MaxFrames /\ strained \in BOOLEAN

(* Types of the variables.                                                 *)
TypeOK == BufferType /\ ThreadType /\ HistoryType

\* The thread is there from OpenPort to Join.
Sounding == scene \in {"first", "frame", "wait", "join"}

(* The two sides use the slots in the same turn although each keeps its    *)
(* own index and the two indices are reset by different threads: the slot  *)
(* to write is the thread's own when nothing or everything waits, else     *)
(* the other one, and a thread that finds its slot empty missed nothing.   *)
SlotsInTurn ==
  Sounding =>
    /\ thread \in {"peek", "ended"} =>
         writeSlot = IF (len[0] = 0) = (len[1] = 0) THEN slot ELSE Other(slot)
    /\ thread \in {"output", "clear"} =>
         len[slot] # 0 /\ writeSlot = IF len[Other(slot)] = 0 THEN Other(slot) ELSE slot
    /\ len[slot] = 0 => len[Other(slot)] = 0

(* The buffer passed to sceAudioOutOutput without the lock belongs to an   *)
(* open port, is as large as what the port reads and holds a frame, as     *)
(* long as no frame of the cutscene was larger than its first one and      *)
(* memory sufficed: buffers too small for it that an earlier cutscene has  *)
(* left are replaced before anything waits in them.  A larger frame later  *)
(* on does free the buffers under the output.                              *)
OutputIsSafe ==
  thread = "output" =>
    portOpen /\ (strained \/ (portSize <= bufCap /\ buf[slot] # Garbage))

Heard == {played[i] : i \in DOMAIN played}

(* A cutscene that ends is heard to its end: when video_play joins the     *)
(* thread every frame it submitted has been output, except those there was *)
(* no memory for and those that waited when the buffers were replaced.     *)
DrainedAtExit ==
  thread = "ended" => Heard \cup dropped \cup spoilt = 1..submitted

(* The frames are heard in the order of their submission and none twice,   *)
(* over any number of cutscenes and whatever was dropped in between.       *)
FramesInOrder == \A i, j \in DOMAIN played : i < j => played[i] < played[j]

(* The two threads never wait for each other: while video_play waits for a *)
(* slot or for the end of the thread, the thread is there and has a frame  *)
(* to output or the order to leave.                                        *)
NoStandOff ==
  (scene = "wait" /\ ~SlotFree) \/ (scene = "join" /\ ~Joined) =>
    /\ thread \in {"peek", "output", "clear"}
    /\ thread = "peek" => len[slot] # 0 \/ MayLeave

(* cutscene_audio_submit, which has no way out of its loop, returns.       *)
SubmitReturns == scene = "wait" ~> scene = "frame"

(* The join at the end of video_play returns.                              *)
JoinReturns == scene = "join" ~> scene = "off"

(* What makes the first two inductive.                                     *)
Lifecycle ==
  /\ Sounding <=> thread # "none"
  /\ Sounding => portOpen
  /\ ~Sounding => \A s \in {0, 1} : len[s] = 0
  /\ thread = "ended" => scene = "join" /\ len[slot] = 0
  /\ Sounding => (quit <=> scene = "join")
  /\ scene = "wait" => submitted > 0 /\ size <= bufCap /\ size # 0
  /\ scene = "first" => thread = "peek" /\ \A s \in {0, 1} : len[s] = 0
  /\ Sounding => portSize # 0
  /\ scene \in {"frame", "wait", "join"} /\ ~strained =>
       portSize <= bufCap /\ \A s \in {0, 1} : len[s] # 0 => buf[s] # Garbage

IInv == TypeOK /\ SlotsInTurn /\ OutputIsSafe /\ Lifecycle

\* What makes FramesInOrder inductive: frames that wait are later than those that were
\* heard, in the order of the slots, and earlier than the one being submitted.
Latest == IF scene = "wait" THEN submitted - 1 ELSE submitted
Ordered ==
  /\ FramesInOrder
  /\ \A i \in DOMAIN played : played[i] <= Latest
  /\ \A s \in {0, 1} : Waits(s) =>
       buf[s] <= Latest /\ \A i \in DOMAIN played : played[i] < buf[s]
  /\ Waits(slot) /\ Waits(Other(slot)) => buf[slot] < buf[Other(slot)]

\* Where a frame is that was submitted: heard, waiting, lost or being submitted.
Accounted == Heard \cup WaitingFrames \cup dropped \cup spoilt = 1..Latest

(* The two slots are a queue of at most two frames.                        *)
Waiting ==
  LET one(s) == IF Waits(s) THEN <<buf[s]>> ELSE << >>
  IN IF thread = "clear" THEN one(Other(slot)) ELSE one(slot) \o one(Other(slot))
Queue == INSTANCE PcmQueue
           WITH Item <- 1..MaxFrames, Bound <- 2, queue <- Waiting, out <- played
QueueSpec == Queue!Spec
=============================================================================
