---------------------------- MODULE MCAudioFifo ----------------------------
(***************************************************************************)
(* An instance of AudioFifo for TLC: two writers that compete for a ring   *)
(* of three frames.  Everything is a multiple of a frame, as in the code;  *)
(* a write may have to be split, and a grain of two frames wraps and ends  *)
(* in a tail of one.                                                       *)
(***************************************************************************)
EXTENDS AudioFifo

CONSTANTS w1, w2

TwoWriters == {w1, w2}
=============================================================================
