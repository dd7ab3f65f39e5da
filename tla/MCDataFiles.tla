----------------------------- MODULE MCDataFiles -----------------------------
(***************************************************************************)
(* An instance of DataFiles for TLC: two of the three shaders, one of the  *)
(* two chunks, every way to spread them over the two layouts.              *)
(***************************************************************************)
EXTENDS DataFiles

TwoPatches == <<"basic", "bump">>
===============================================================================
