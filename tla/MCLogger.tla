----------------------------- MODULE MCLogger -----------------------------
(***************************************************************************)
(* Instances of Logger for TLC: two threads, a buffer of four cells that   *)
(* is flushed every third line, lines of one or three cells.               *)
(***************************************************************************)
EXTENDS Logger

CONSTANTS t1, t2

TwoThreads == {t1, t2}
OneLeaver == {t1}
=============================================================================
