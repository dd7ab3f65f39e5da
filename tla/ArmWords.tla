------------------------------- MODULE ArmWords -------------------------------
(***************************************************************************)
(* The few ARM instructions that source/patch.c reads, writes, or must not *)
(* disturb, and what they do.  A word of code is a record of an operation  *)
(* and three operands: register numbers, a target address or a value.      *)
(* Addresses count words, so what the code calls addr + 4 is a + 1 here.   *)
(***************************************************************************)
EXTENDS Naturals

Word(op, a, b, c) == [op |-> op, a |-> a, b |-> b, c |-> c]

Swp(rt, rt2, rn)   == Word("swp", rt, rt2, rn)     \* rt := [rn], [rn] := rt2 at once
Ldrex(rt, rn)      == Word("ldrex", rt, 0, rn)     \* rt := [rn], and watch [rn]
Strex(rd, rt2, rn) == Word("strex", rd, rt2, rn)   \* [rn] := rt2, rd := 0; or rd := 1
Cmp(r)             == Word("cmp", r, 0, 0)         \* compare with 0
CmpReg(r, m)       == Word("cmpreg", r, m, 0)      \* compare two registers
Bne(to)            == Word("bne", to, 0, 0)        \* branch if they differed
B(to)              == Word("b", to, 0, 0)
Push(r)            == Word("push", r, 0, 0)        \* str r, [sp, #-8]!
Pop(r)             == Word("pop", r, 0, 0)         \* ldr r, [sp], #8
Mov(r, v)          == Word("mov", r, v, 0)
Str(rt, rn)        == Word("str", 0, rt, rn)       \* [rn] := rt
Other              == Word("other", 0, 0, 0)       \* anything else

\* Instructions both the patched and the original program execute directly.
Plain == {"cmp", "cmpreg", "bne", "b", "mov", "str", "other"}
Ops == Plain \cup {"swp", "ldrex", "strex", "push", "pop"}
Branches == {"b", "bne"}

\* What a plain instruction w at address p does, with registers r, flag f ("equal")
\* and memory m.
PcAfter(w, p, f) == IF w.op = "b" \/ (w.op = "bne" /\ ~f) THEN w.a ELSE p + 1
RegAfter(w, r) == IF w.op = "mov" THEN [r EXCEPT ![w.a] = w.b] ELSE r
FlagAfter(w, r, f) ==
  CASE w.op = "cmp"    -> r[w.a] = 0
    [] w.op = "cmpreg" -> r[w.a] = r[w.b]
    [] OTHER           -> f
MemAfter(w, r, m) == IF w.op = "str" THEN [m EXCEPT ![r[w.c]] = r[w.b]] ELSE m

\* The registers an exchange leaves unpredictable until it is done: its destination,
\* and r12 when that is none of its operands.
Operands(w) == {w.a, w.b, w.c}
Clobbered(w) == IF 12 \in Operands(w) THEN {w.a} ELSE {w.a, 12}
===============================================================================
