------------------------------ MODULE SpinLocks ------------------------------
(***************************************************************************)
(* What the patched exchanges are for (source/patch.c, comments at lines   *)
(* 43 to 62 and 134 to 142): the engine's inlined boost spin locks.  A     *)
(* thread takes a lock by exchanging a value other than 0 into it, is the  *)
(* owner if it got 0 back, which the compare and the branch after the      *)
(* exchange find out, and gives it back by storing 0.                      *)
(*                                                                         *)
(* Guarded and Knows describe the engine's text, which is not in the       *)
(* repository, as a static analysis of it would: which words run with the  *)
(* lock held, and what registers are known to hold at each word.           *)
(***************************************************************************)
EXTENDS SwpPatch

CONSTANTS Lock,     \* the address of a lock
          Guarded,  \* the words of the text that are executed by its owner only
          Knows     \* for each word the pairs of a register and the value it holds there

ASSUME LockAssumption ==
  /\ Lock \in Values /\ Guarded \subseteq TextWords
  /\ Knows \in [TextWords -> SUBSET (Regs \X Values)]

\* The registers the instruction w may change, and the words that may come after p.
Changes(w) == CASE w.op = "mov" -> {w.a} [] w.op = "swp" -> Clobbered(w) [] OTHER -> {}
Follows(p) ==
  CASE Text[p].op = "b"   -> {Text[p].a}
    [] Text[p].op = "bne" -> {Text[p].a, p + 1}
    [] OTHER              -> {p + 1}

\* At p register r holds the lock's address, or that of something else.
IsLock(p, r) == <<r, Lock>> \in Knows[p]
IsElsewhere(p, r) == \E v \in Values \ {Lock} : <<r, v>> \in Knows[p]

\* An exchange on the lock is followed by a test for 0, as the scan relies on, and a
\* branch back, and its fall through is where the guarded words begin.
Acquires(p) == p \in TextWords /\ IsSwp(Text[p]) /\ IsLock(p, Text[p].c)
Tests(p, r) ==
  /\ Text[p].op \in {"cmp", "cmpreg"} /\ Text[p].a = r
  /\ Text[p].op = "cmpreg" => <<Text[p].b, 0>> \in Knows[p]
Acquisition(p) ==
  /\ \E v \in Values \ {0} : <<Text[p].b, v>> \in Knows[p]
  /\ p + 1 \in TextWords /\ Tests(p + 1, Text[p].a)
  /\ p + 2 \in TextWords /\ Text[p + 2].op = "bne" /\ Text[p + 2].a \notin Guarded
  /\ {p, p + 1, p + 2} \cap Guarded = {}
Release(p) ==
  /\ p \in Guarded /\ p + 1 \notin Guarded
  /\ IsLock(p, Text[p].c) /\ <<Text[p].b, 0>> \in Knows[p]

\* What is known is true: it was known before and not changed, or has just been moved.
Tracked ==
  /\ \A t \in Threads : \A k \in Knows[Start[t]] : k[2] = 0
  /\ \A p \in TextWords : \A q \in Follows(p) : \A k \in Knows[q] :
       \/ k \in Knows[p] /\ k[1] \notin Changes(Text[p])
       \/ Text[p].op = "mov" /\ k = <<Text[p].a, Text[p].b>>
  /\ \A p \in TextWords : IsSwp(Text[p]) => \A k \in Knows[p] : k[1] \notin Clobbered(Text[p])
\* The lock is touched by acquisitions and releases only, and nobody jumps into them.
Locking ==
  /\ \A p \in TextWords : IsSwp(Text[p]) =>
       IF Acquires(p) THEN Acquisition(p) ELSE IsElsewhere(p, Text[p].c)
  /\ \A p \in TextWords : Text[p].op = "str" => IsElsewhere(p, Text[p].c) \/ Release(p)
  /\ \A p \in TextWords : \A q \in Follows(p) :
       /\ Acquires(q - 1) \/ Acquires(q - 2) => p = q - 1
       /\ q \in Guarded => p \in Guarded \/ (Acquires(p - 2) /\ q = p + 1)
  /\ \A t \in Threads :
       Start[t] \notin Guarded /\ ~Acquires(Start[t] - 1) /\ ~Acquires(Start[t] - 2)
Disciplined == Tracked /\ Locking

(* Two threads never hold a lock of the engine at once, with the patched   *)
(* exchanges: none is lost, none succeeds twice, and no status of a store  *)
(* is mistaken for the value that was in the lock.                         *)
LocksExclude ==
  \A t, u \in Threads : pc[t] \in Guarded /\ pc[u] \in Guarded => t = u
==============================================================================
