-------------------------- MODULE MCCutsceneAudio --------------------------
(***************************************************************************)
(* Instances of CutsceneAudio for TLC: three cutscenes, so that a later    *)
(* one finds the globals, and buffers too small or large enough, of an     *)
(* earlier one; six frames, so that both slots are reused.                 *)
(***************************************************************************)
EXTENDS CutsceneAudio
=============================================================================
