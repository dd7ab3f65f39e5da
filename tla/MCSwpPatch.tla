------------------------------ MODULE MCSwpPatch ------------------------------
(***************************************************************************)
(* A small text for SpinLocks: the same spin lock taken with three sorts of *)
(* operands, and a word that looks like SWP but is data.                   *)
(***************************************************************************)
EXTENDS SpinLocks, Sequences, TLC

CONSTANTS t1, t2, t3

\* Take the lock with SWP s and compare c, hold it for one instruction, release it
\* through register v, which holds 1 before and 0 after; begin again.
SpinLock(p, n, v, s, c) ==
  <<Mov(n, Lock), Mov(v, 1), s, c, Bne(p + 2), Other, Mov(v, 0), Str(v, n), B(p)>>
MCFirst == 8
\* r5 holds the address, r6 the new value: the usual case; then r12 the new value;
\* then r12 the old value and r0 the address, compared with a register that holds 0.
Code == SpinLock(MCFirst, 5, 6, Swp(3, 6, 5), Cmp(3))
     \o SpinLock(MCFirst + 9, 5, 12, Swp(3, 12, 5), Cmp(3))
     \o SpinLock(MCFirst + 18, 0, 6, Swp(12, 6, 0), CmpReg(12, 5))
     \o <<Swp(3, 0, 1), B(MCFirst)>>
MCLast == MCFirst + Len(Code) - 1
MCText == [p \in MCFirst..MCLast |-> Code[p - MCFirst + 1]]
\* Held from the fall through of the branch to the store; known is what the first two
\* words set, and that r5 of the third copy is never set.  The data is never reached, so
\* anything is true there.
MCGuarded == UNION {{p + 5, p + 6, p + 7} : p \in {MCFirst, MCFirst + 9, MCFirst + 18}}
Known(n, v) ==
  <<{}, {<<n, Lock>>}>> \o [i \in 1..5 |-> {<<n, Lock>>, <<v, 1>>}]
    \o <<{<<n, Lock>>, <<v, 0>>}, {}>>
AllKnown ==
  Known(5, 6) \o Known(5, 12) \o [i \in 1..9 |-> Known(0, 6)[i] \cup {<<5, 0>>}]
    \o <<{<<1, 0>>}, {}>>
MCKnows == [p \in MCFirst..MCLast |-> AllKnown[p - MCFirst + 1]]
ASSUME MCTextProper == Proper
ASSUME MCTextDisciplined == Disciplined
MCStart == t1 :> MCFirst @@ t2 :> (MCFirst + 9) @@ t3 :> (MCFirst + 18)
===============================================================================
