------------------------------ MODULE AtomicSwap ------------------------------
(***************************************************************************)
(* What the engine's compiler counted on, and what source/patch.c promises *)
(* to give back (comment at lines 52 to 62): threads run the engine's      *)
(* text, in which SWP exchanges a register and a word of memory at once.   *)
(*                                                                         *)
(* The promise is weaker than the instruction in two points, both taken    *)
(* from the code: the flag is lost, and so is r12 unless it is an operand. *)
(***************************************************************************)
EXTENDS ArmWords

CONSTANTS Threads, Text, Start, Regs, Values

VARIABLES pc, reg, flag, mem

vars == <<pc, reg, flag, mem>>

At(t) == Text[pc[t]]
-------------------------------------------------------------------------------
Init ==
  /\ pc = Start
  /\ reg = [t \in Threads |-> [r \in Regs |-> 0]]
  /\ flag = [t \in Threads |-> FALSE]
  /\ mem = [a \in Values |-> 0]

Run(t) ==
  /\ At(t).op \in Plain
  /\ pc' = [pc EXCEPT ![t] = PcAfter(At(t), pc[t], flag[t])]
  /\ reg' = [reg EXCEPT ![t] = RegAfter(At(t), reg[t])]
  /\ flag' = [flag EXCEPT ![t] = FlagAfter(At(t), reg[t], flag[t])]
  /\ mem' = MemAfter(At(t), reg[t], mem)

\* Only what an exchange is allowed to destroy may change.
Keeps(t) ==
  /\ reg' \in [Threads -> [Regs -> Values]] /\ reg' = [reg EXCEPT ![t] = reg'[t]]
  /\ \A r \in Regs \ Clobbered(At(t)) : reg'[t][r] = reg[t][r]
  /\ flag' \in [Threads -> BOOLEAN] /\ flag' = [flag EXCEPT ![t] = flag'[t]]

\* A thread at an exchange may lose that before the exchange happens.
Lose(t) == At(t).op = "swp" /\ Keeps(t) /\ UNCHANGED <<pc, mem>>

Exchange(t) ==
  /\ At(t).op = "swp"
  /\ Keeps(t) /\ reg'[t][At(t).a] = mem[reg[t][At(t).c]]
  /\ mem' = [mem EXCEPT ![reg[t][At(t).c]] = reg[t][At(t).b]]
  /\ pc' = [pc EXCEPT ![t] = pc[t] + 1]

Next == \E t \in Threads : Run(t) \/ Lose(t) \/ Exchange(t)

Spec == Init /\ [][Next]_vars
===============================================================================
