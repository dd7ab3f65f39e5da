--------------------------- MODULE MCPthrObjects ---------------------------
(***************************************************************************)
(* Instances of PthrObjects for TLC: two threads share one mutex and one   *)
(* condition variable.  A third real object is there for a leak to take.   *)
(***************************************************************************)
EXTENDS PthrObjects, TLC

CONSTANTS t1, t2, m1, c1, h1, h2, h3

TwoThreads == {t1, t2}
OneMutex == {m1}
OneCond == {c1}
ThreeHandles == {h1, h2, h3}
Symmetry == Permutations({t1, t2}) \cup Permutations(ThreeHandles)
=============================================================================
