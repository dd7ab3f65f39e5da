---------------------------- MODULE MCSoundCache ----------------------------
(***************************************************************************)
(* Instances of SoundCache for TLC: three streams at once, two slots, and  *)
(* three sounds, one of two bytes, that compete for two entries.  A file   *)
(* that may not be cached behaves as one whose load fails, which every     *)
(* open here may do.                                                       *)
(***************************************************************************)
EXTENDS SoundCache, TLC

CONSTANTS s1, s2, s3, shot, step, click

ThreeStreams == {s1, s2, s3}
ThreeSounds == {shot, step, click}
Sizes == [n \in ThreeSounds |-> IF n = shot THEN 2 ELSE 1]
Back == {-1, 1}
\* step and click have one size.
Symmetry == Permutations(ThreeStreams) \cup Permutations({step, click})
=============================================================================
