----------------------------- MODULE AudioFifo -----------------------------
(***************************************************************************)
(* source/audio.c: the ring that carries the engine's mixed PCM to         *)
(* sceAudioOut.  The engine's threads call audio_write_pcm (through        *)
(* AudioTrack.write) and audio_reset_buffer (AudioTrack.stop/release); the *)
(* mixer thread moves a grain at a time into one of two output buffers;    *)
(* the main thread calls audio_init and audio_shutdown.  A critical        *)
(* section is two steps (lock and copy, publish and unlock), so that other *)
(* threads run while the mutex is held.                                    *)
(*                                                                         *)
(* A byte is <<w, n>>: the n-th byte writer w ever submitted.  heard and   *)
(* cut are history variables, read by properties only.                     *)
(***************************************************************************)
EXTENDS Integers, Sequences, FiniteSets

CONSTANTS Writers,        \* engine threads that call AudioTrack.write
          Mixer, NoOne,   \* the mixer thread; no thread
          Cap,            \* AUDIO_FIFO_CAPACITY
          Grain,          \* AUDIO_GRAIN_BYTES
          Frame,          \* AUDIO_BYTES_PER_FRAME
          Sizes,          \* the sizes of the engine's writes
          MaxGuard,       \* retries of audio_write_pcm (1000 in the code)
          MaxBytes        \* bound of the model: bytes submitted per writer

ASSUME ThreadAssumption == Mixer \notin Writers /\ NoOne \notin Writers \cup {Mixer}
ASSUME SizeAssumption ==
  /\ Cap \in Nat \ {0} /\ Grain \in Nat \ {0} /\ Frame \in Nat \ {0}
  /\ MaxGuard \in Nat \ {0} /\ MaxBytes \in Nat /\ Sizes \subseteq Nat \ {0}

VARIABLES
  fifo, head, tail, used,         \* g_fifo, g_fifo_head, g_fifo_tail, g_fifo_used
  mutex,                          \* the owner of g_fifo_mutex
  portOpen, running, initialized, \* g_audio_port >= 0, g_audio_running, g_audio_initialized
  boot,                           \* where the main thread is in init / shutdown
  mix, take, outBuf, bufIdx,      \* the mixer: pc, bytes_to_copy, out_buf, buf_idx
  device,                         \* the output buffer the hardware is reading, or 2
  wpc, next, last, guard, chunk,  \* a writer: pc, src, end of its data, guard, chunk
  bytesWritten, framesPlayed,     \* g_pcm_bytes_written, g_pcm_frames_played
  heard, cut                      \* bytes played, in order; bytes dropped by a reset

ring   == <<fifo, head, tail, used>>
ctl    == <<portOpen, running, initialized, boot>>
mixer  == <<mix, take, outBuf, bufIdx>>
writer == <<wpc, next, last, guard, chunk>>
stats  == <<bytesWritten, framesPlayed>>
vars   == <<ring, mutex, ctl, mixer, device, writer, stats, heard, cut>>

Index == 0..Cap - 1
Byte == Writers \X (1..MaxBytes)
Silence == <<NoOne, 0>>
Quiet == 2

\* Slips the checks below must notice; nothing uses them.
MutAdvanceUnwrapped(i, n) == i + n
MutAdvanceToStart(i, n) == IF i + n >= Cap THEN 0 ELSE i + n
MutWholeGrain == IF used < Grain THEN 0 ELSE Grain
MutCountSilence(n) == Grain \div Frame
MutSameBuffer(b) == b
MutNoRetryCount(g) == g
MutStillRunning == TRUE
MutNoJoin == TRUE

Smaller(a, b) == IF a < b THEN a ELSE b
Unlocked == mutex = NoOne
Free == Cap - used                \* free_space
GrainTake == Smaller(used, Grain) \* bytes_to_copy
Advance(i, n) == (i + n) % Cap    \* of g_fifo_head and g_fifo_tail
Frames(n) == n \div Frame
OtherBuffer(b) == 1 - b           \* buf_idx ^= 1
Retried(g) == g + 1               \* guard++
Joined == mix = "ended"           \* sceKernelWaitThreadEnd returns
KeepRunning == running            \* while (g_audio_running)

\* The n bytes of the ring from index i on, wrapping at the end: a memcpy in two chunks.
Window(i, n) == [k \in 1..n |-> fifo[(i + k - 1) % Cap]]
-----------------------------------------------------------------------------
Init ==
  /\ fifo = [i \in Index |-> Silence] /\ head = 0 /\ tail = 0 /\ used = 0
  /\ mutex = NoOne
  /\ portOpen = FALSE /\ running = FALSE /\ initialized = FALSE /\ boot = "start"
  /\ mix = "none" /\ take = 0 /\ outBuf = [b \in {0, 1} |-> << >>] /\ bufIdx = 0
  /\ device = Quiet
  /\ wpc = [w \in Writers |-> "idle"]
  /\ next = [w \in Writers |-> 1] /\ last = [w \in Writers |-> 0]
  /\ guard = [w \in Writers |-> 0] /\ chunk = [w \in Writers |-> 0]
  /\ bytesWritten = 0 /\ framesPlayed = 0
  /\ heard = << >> /\ cut = {}
-----------------------------------------------------------------------------
\* audio_init clears the ring without the mutex, then opens the port (or gives up).
InitRing ==
  /\ boot = "start"
  /\ fifo' = [i \in Index |-> Silence] /\ head' = 0 /\ tail' = 0 /\ used' = 0
  /\ bytesWritten' = 0 /\ framesPlayed' = 0
  /\ \/ portOpen' = TRUE  /\ boot' = "opened"
     \/ portOpen' = FALSE /\ boot' = "failed"
  /\ UNCHANGED <<mutex, running, initialized, mixer, device, writer, heard, cut>>

\* The mixer runs from here on, before g_audio_initialized is set.
InitThread ==
  /\ boot = "opened"
  /\ \/ running' = TRUE  /\ portOpen' = portOpen /\ boot' = "started" /\ mix' = "loop"
     \/ running' = FALSE /\ portOpen' = FALSE    /\ boot' = "failed"  /\ mix' = mix
  /\ UNCHANGED <<ring, mutex, initialized, take, outBuf, bufIdx, device, writer,
                 stats, heard, cut>>

InitDone ==
  /\ boot = "started"
  /\ initialized' = TRUE /\ boot' = "up"
  /\ UNCHANGED <<ring, mutex, portOpen, running, mixer, device, writer, stats, heard, cut>>

\* audio_shutdown: lower the flags, join the mixer, release the port.
ShutdownBegin ==
  /\ boot = "up"
  /\ running' = FALSE /\ initialized' = FALSE /\ boot' = "joining"
  /\ UNCHANGED <<ring, mutex, portOpen, mixer, device, writer, stats, heard, cut>>

ShutdownRelease ==
  /\ boot = "joining" /\ Joined
  /\ portOpen' = FALSE /\ boot' = "down"
  /\ UNCHANGED <<ring, mutex, running, initialized, mixer, device, writer, stats,
                 heard, cut>>
-----------------------------------------------------------------------------
\* audio_mixer_thread.
MixerLoop ==
  /\ mix = "loop"
  /\ mix' = IF KeepRunning THEN "lock" ELSE "ended"
  /\ UNCHANGED <<ring, mutex, ctl, take, outBuf, bufIdx, device, writer, stats,
                 heard, cut>>

MixerTake ==
  /\ mix = "lock" /\ Unlocked
  /\ mutex' = Mixer
  /\ take' = GrainTake
  /\ outBuf' = [outBuf EXCEPT ![bufIdx] = Window(tail, GrainTake)]
  /\ mix' = "copied"
  /\ UNCHANGED <<ring, ctl, bufIdx, device, writer, stats, heard, cut>>

MixerCommit ==
  /\ mix = "copied"
  /\ tail' = Advance(tail, take)
  /\ used' = used - take
  /\ framesPlayed' = framesPlayed + Frames(take)
  /\ mutex' = NoOne
  /\ take' = 0
  /\ mix' = "output"
  /\ UNCHANGED <<fifo, head, ctl, outBuf, bufIdx, device, writer, bytesWritten,
                 heard, cut>>

\* sceAudioOutOutput blocks until the buffer handed over before has been played,
\* and returns with the new one being read.
MixerOutput ==
  /\ mix = "output" /\ device = Quiet
  /\ device' = bufIdx
  /\ bufIdx' = OtherBuffer(bufIdx)
  /\ mix' = "loop"
  /\ UNCHANGED <<ring, mutex, ctl, take, outBuf, writer, stats, heard, cut>>

\* The hardware has played what is in the buffer.
DeviceDone ==
  /\ device # Quiet
  /\ heard' = heard \o outBuf[device]
  /\ device' = Quiet
  /\ UNCHANGED <<ring, mutex, ctl, mixer, writer, stats, cut>>
-----------------------------------------------------------------------------
\* audio_write_pcm; a call while not initialized returns 0 and changes nothing.
WriteCall(w, size) ==
  /\ wpc[w] = "idle" /\ initialized /\ last[w] + size <= MaxBytes
  /\ next' = [next EXCEPT ![w] = last[w] + 1]
  /\ last' = [last EXCEPT ![w] = last[w] + size]
  /\ guard' = [guard EXCEPT ![w] = 0]
  /\ wpc' = [wpc EXCEPT ![w] = "lock"]
  /\ UNCHANGED <<ring, mutex, ctl, mixer, device, chunk, stats, heard, cut>>

WriteCopy(w) ==
  LET n == Smaller(last[w] - next[w] + 1, Free)
      off(i) == IF i >= head THEN i - head ELSE i - head + Cap
  IN /\ wpc[w] = "lock" /\ Unlocked
     /\ mutex' = w
     /\ chunk' = [chunk EXCEPT ![w] = n]
     /\ fifo' = [i \in Index |-> IF off(i) < n THEN <<w, next[w] + off(i)>> ELSE fifo[i]]
     /\ wpc' = [wpc EXCEPT ![w] = "copied"]
     /\ UNCHANGED <<head, tail, used, ctl, mixer, device, next, last, guard, stats,
                    heard, cut>>

WritePublish(w) ==
  /\ wpc[w] = "copied"
  /\ head' = Advance(head, chunk[w])
  /\ used' = used + chunk[w]
  /\ next' = [next EXCEPT ![w] = @ + chunk[w]]
  /\ bytesWritten' = bytesWritten + chunk[w]
  /\ mutex' = NoOne
  /\ wpc' = [wpc EXCEPT ![w] = IF next[w] + chunk[w] > last[w] THEN "idle" ELSE "delay"]
  /\ chunk' = [chunk EXCEPT ![w] = 0]
  /\ UNCHANGED <<fifo, tail, ctl, mixer, device, last, guard, framesPlayed, heard, cut>>

\* 1 ms later: try again, or return with the rest of the data dropped.
WriteRetry(w) ==
  /\ wpc[w] = "delay"
  /\ guard' = [guard EXCEPT ![w] = Retried(@)]
  /\ wpc' = [wpc EXCEPT ![w] = IF Retried(guard[w]) < MaxGuard THEN "lock" ELSE "idle"]
  /\ UNCHANGED <<ring, mutex, ctl, mixer, device, next, last, chunk, stats, heard, cut>>

MutResetKeepsTail ==
  /\ Unlocked
  /\ head' = used /\ tail' = 0 /\ used' = used
  /\ cut' = cut \cup {fifo[(tail + k - 1) % Cap] : k \in 1..used}
  /\ UNCHANGED <<fifo, mutex, ctl, mixer, device, writer, stats, heard>>

\* audio_reset_buffer, from any engine thread, while a write may be half done.
ResetBuffer ==
  /\ Unlocked
  /\ head' = 0 /\ tail' = 0 /\ used' = 0
  /\ cut' = cut \cup {fifo[(tail + k - 1) % Cap] : k \in 1..used}
  /\ UNCHANGED <<fifo, mutex, ctl, mixer, device, writer, stats, heard>>
-----------------------------------------------------------------------------
MixerNext == MixerLoop \/ MixerTake \/ MixerCommit \/ MixerOutput
WriterNext(w) == \/ \E size \in Sizes : WriteCall(w, size)
                 \/ WriteCopy(w) \/ WritePublish(w) \/ WriteRetry(w)
BootNext == InitRing \/ InitThread \/ InitDone \/ ShutdownBegin \/ ShutdownRelease

Next == BootNext \/ MixerNext \/ DeviceDone \/ ResetBuffer \/ \E w \in Writers : WriterNext(w)

(***************************************************************************)
(* The threads run and the hardware plays.  A thread waiting for the mutex *)
(* gets it if it is free again and again: it is held for a memcpy only.    *)
(***************************************************************************)
Fairness ==
  /\ WF_vars(MixerLoop \/ MixerCommit \/ MixerOutput) /\ SF_vars(MixerTake)
  /\ WF_vars(DeviceDone) /\ WF_vars(ShutdownRelease)
  /\ \A w \in Writers : SF_vars(WriteCopy(w)) /\ WF_vars(WritePublish(w) \/ WriteRetry(w))

Spec == Init /\ [][Next]_vars
FairSpec == Spec /\ Fairness
-----------------------------------------------------------------------------
\* The PCM waiting in the ring; handed to, or about to be handed to, the device.
Queued == Window(tail, used)
InDevice == IF device = Quiet THEN << >> ELSE outBuf[device]
Ready == IF mix = "output" THEN outBuf[bufIdx] ELSE << >>
Out == heard \o InDevice \o Ready

RingType ==
  /\ fifo \in [Index -> Byte \cup {Silence}]
  /\ head \in Index /\ tail \in Index /\ used \in 0..Cap
ControlType ==
  /\ mutex \in Writers \cup {Mixer, NoOne}
  /\ portOpen \in BOOLEAN /\ running \in BOOLEAN /\ initialized \in BOOLEAN
  /\ boot \in {"start", "opened", "started", "up", "failed", "joining", "down"}
  /\ mix \in {"none", "loop", "lock", "copied", "output", "ended"}
MixerType ==
  /\ take \in 0..Cap /\ bufIdx \in {0, 1} /\ device \in {0, 1, Quiet}
  /\ outBuf \in [{0, 1} -> Seq(Byte \cup {Silence})]
WriterType ==
  /\ wpc \in [Writers -> {"idle", "lock", "copied", "delay"}]
  /\ next \in [Writers -> 1..MaxBytes + 1] /\ last \in [Writers -> 0..MaxBytes]
  /\ guard \in [Writers -> 0..MaxGuard] /\ chunk \in [Writers -> 0..Cap]
HistoryType ==
  /\ bytesWritten \in Nat /\ framesPlayed \in Nat
  /\ heard \in Seq(Byte \cup {Silence}) /\ cut \subseteq Byte \cup {Silence}

(* Every variable keeps its type: no index leaves the ring.                *)
TypeOK == RingType /\ ControlType /\ MixerType /\ WriterType /\ HistoryType

(* The ring's three indices agree whenever the mutex is free: the write    *)
(* index is the read index plus what is queued, and a writer's pending     *)
(* chunk and the mixer's pending grain fit whatever ran in between.        *)
RingConsistent ==
  /\ head = (tail + used) % Cap
  /\ \A w \in Writers : wpc[w] = "copied" => chunk[w] <= Cap - used
  /\ mix = "copied" => take <= used

(* Two threads are never both between lock and unlock of g_fifo_mutex.     *)
MutualExclusion ==
  /\ \A w, v \in Writers : wpc[w] = "copied" /\ wpc[v] = "copied" => w = v
  /\ \A w \in Writers : ~(wpc[w] = "copied" /\ mix = "copied")

(* sceAudioOutOutput is called on an open port only: audio_shutdown joins  *)
(* the mixer before it releases the port, and audio_init opens it first.   *)
OutputOnOpenPort == mix \in {"loop", "lock", "copied", "output"} => portOpen

(* Nothing that audio_reset_buffer dropped is heard later.                 *)
CutIsSilent == \A i \in DOMAIN heard : heard[i] \notin cut

(* What is heard of one engine thread's sound is in the order in which the *)
(* thread submitted it and no byte comes twice, although a write is cut    *)
(* into chunks at a full ring, retried, mixed with other threads' writes   *)
(* and wrapped, and a reset may take the ring away half way.               *)
HeardInOrder ==
  \A i, j \in DOMAIN heard : i < j /\ heard[i][1] = heard[j][1] => heard[i][2] < heard[j][2]

(* The frames counter the shutdown message reports is exact as long as the *)
(* engine writes whole frames: no grain ends inside one.                   *)
FramesExact == framesPlayed * Frame = Len(Out)

(* A call of audio_write_pcm returns, whether or not the mixer still runs. *)
WriteReturns == \A w \in Writers : wpc[w] # "idle" ~> wpc[w] = "idle"

(* audio_shutdown comes to an end: the mixer leaves its loop and is joined. *)
ShutdownCompletes == boot = "joining" ~> boot = "down"

\* The steps a call of audio_write_pcm has left at most, and those the mixer has left
\* when it has been told to stop.
StepsLeft(w) ==
  LET tries == MaxGuard - guard[w]
  IN CASE wpc[w] = "lock"   -> 3 * tries
       [] wpc[w] = "copied" -> 3 * tries - 1
       [] wpc[w] = "delay"  -> 3 * tries - 2
       [] OTHER             -> 0
MixerLeft ==
  CASE mix = "lock" -> 4 [] mix = "copied" -> 3 [] mix = "output" -> 2 [] mix = "loop" -> 1
    [] OTHER -> 0

(* Every step of a call brings its end nearer, and no step of another      *)
(* thread, not even audio_reset_buffer or a shutdown, puts it off: a call  *)
(* of audio_write_pcm takes 3 * MaxGuard steps at most.                    *)
CallsBounded ==
  [][\A w \in Writers : wpc[w] # "idle" =>
       /\ StepsLeft(w) \in 1..3 * MaxGuard
       /\ StepsLeft(w)' <= StepsLeft(w)
       /\ (wpc'[w] # wpc[w] => StepsLeft(w)' < StepsLeft(w))]_vars

(* The same for the mixer thread once g_audio_running is off: audio_shutdown *)
(* joins a thread that has four steps left at most.                        *)
MixerWindsDown ==
  [][~running /\ mix # "none" =>
       MixerLeft' <= MixerLeft /\ (mix' # mix => MixerLeft' < MixerLeft)]_vars

(* A queued byte is played, unless a reset drops it or the mixer stops.    *)
QueuedIsPlayed ==
  \A b \in Byte :
    (\E k \in DOMAIN Queued : Queued[k] = b)
      ~> (~running \/ b \in cut \/ \E i \in DOMAIN heard : heard[i] = b)

(* What makes the above inductive: who is in a critical section owns the   *)
(* mutex; nobody writes or mixes before audio_init got that far; the size  *)
(* of a chunk comes from values that are still true when it is published;  *)
(* the mixer's buffer is not the one the device reads; and everything      *)
(* between tail and head is sound.                                         *)
Ownership ==
  /\ \A w \in Writers : wpc[w] = "copied" <=> mutex = w
  /\ mix = "copied" <=> mutex = Mixer

Lifecycle ==
  /\ boot = "start" => used = 0 /\ mix = "none" /\ \A w \in Writers : wpc[w] = "idle"
  /\ initialized <=> boot = "up"
  /\ boot \in {"opened", "started", "up", "joining"} => portOpen
  /\ mix \in {"loop", "lock", "copied", "output"} => boot \in {"started", "up", "joining"}
  /\ boot = "opened" => mix = "none"

Pending ==
  /\ \A w \in Writers :
       /\ next[w] <= last[w] + 1
       /\ wpc[w] = "copied" => chunk[w] <= last[w] - next[w] + 1
       /\ wpc[w] # "idle" => guard[w] < MaxGuard
  /\ device # bufIdx
  /\ mix = "copied" => outBuf[bufIdx] = Window(tail, take)

Sound ==
  /\ \A k \in 1..used : fifo[(tail + k - 1) % Cap] \in Byte
  /\ \A w \in Writers : wpc[w] = "copied" =>
       \A k \in 1..chunk[w] : fifo[(head + k - 1) % Cap] \in Byte

IInv == TypeOK /\ RingConsistent /\ Ownership /\ Lifecycle /\ Pending /\ Sound

(* The ring, its mutex and its double buffer implement the plain queue.    *)
Queue == INSTANCE PcmQueue WITH Item <- Byte, Bound <- Cap, queue <- Queued, out <- Out
QueueSpec == Queue!Spec
=============================================================================
