------------------------------ MODULE PcmQueue ------------------------------
(***************************************************************************)
(* What the sound path of the port promises the engine: PCM bytes leave it *)
(* in the order in which they entered, each at most once, never more than  *)
(* Bound of them waiting, and the only way to lose one that was accepted   *)
(* is to clear the whole queue.  AudioFifo implements it with a ring, a    *)
(* mutex, a mixer thread and two output buffers.                           *)
(***************************************************************************)
EXTENDS Naturals, Sequences

CONSTANTS Item,    \* the bytes
          Bound    \* how many may wait

VARIABLES queue,   \* accepted, waiting
          out      \* everything handed to the device, oldest first

Init == queue = << >> /\ out = << >>

\* Accept a chunk: it goes behind what is waiting.
Put ==
  /\ queue' \in Seq(Item)
  /\ Len(queue) < Len(queue') /\ Len(queue') <= Bound
  /\ SubSeq(queue', 1, Len(queue)) = queue
  /\ UNCHANGED out

\* Hand over the oldest n bytes.
Get ==
  \E n \in 1..Len(queue) :
    /\ out' = out \o SubSeq(queue, 1, n)
    /\ queue' = SubSeq(queue, n + 1, Len(queue))

\* Throw away what is waiting.
Clear == queue' = << >> /\ UNCHANGED out

Next == Put \/ Get \/ Clear

Spec == Init /\ [][Next]_<<queue, out>>
=============================================================================
