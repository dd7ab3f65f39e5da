------------------------------- MODULE SwpPatch -------------------------------
(***************************************************************************)
(* source/patch.c, lines 32 to 168, with so_alloc_arena of the loader: at  *)
(* boot every SWP of the engine's text that is followed by a compare of    *)
(* the register it loads is replaced by a branch to a trampoline that      *)
(* makes the exchange with LDREX and STREX.  Then the engine's threads     *)
(* run; the processor does not execute SWP.                                *)
(*                                                                         *)
(* Addresses count words.  The block for patches lies right below the text *)
(* and the code cave right behind it (so_util.c, lines 139 to 173).        *)
(***************************************************************************)
EXTENDS ArmWords, Integers

CONSTANTS Threads, Regs, Values,  \* values are addresses too
          First, Last, Text,      \* the engine's text, words First to Last
          Start,                  \* where each thread begins
          PatchSize,              \* words in the block for patches
          CaveSizes,              \* words the cave may have
          Reach                   \* SWP_PATCH_B_RANGE, in words

None == -1                        \* no address is watched
PatchBase == First - PatchSize
CaveBase == Last + 1
TextWords == First..Last
Words == [op : Ops, a : Nat, b : Nat, c : Nat]

ASSUME SizeAssumption ==
  /\ First \in Nat /\ Last \in Nat /\ First <= Last
  /\ PatchSize \in Nat /\ PatchSize <= First
  /\ CaveSizes \subseteq Nat /\ Reach \in Nat
ASSUME RegAssumption ==
  /\ {0, 1, 12} \subseteq Regs /\ Regs \subseteq Nat
  /\ {0, 1} \subseteq Values /\ Values \subseteq Nat
\* The engine's text jumps about in itself only, and names registers the model has.
ASSUME TextAssumption ==
  /\ Text \in [TextWords -> Words] /\ Start \in [Threads -> TextWords]
  /\ \A p \in TextWords :
       /\ Text[p].op \in Plain \cup {"swp"}
       /\ Text[p].a \in IF Text[p].op \in Branches THEN TextWords ELSE Regs
       /\ Text[p].b \in IF Text[p].op = "mov" THEN Values ELSE Regs
       /\ Text[p].c \in Regs
       /\ Text[p].op # "b" => p + 1 \in TextWords

VARIABLES
  boot,       \* "scan", "run", or "fatal" once fatal_error has been called
  code,       \* the words of patch block, text and cave
  scan,       \* the address patch_all_swp_spinlocks looks at
  patchHead, caveHead, caveEnd,
  home,       \* history: the SWP a word of a trampoline stands for
  pc, reg, flag, saved,   \* of each thread; saved: what it pushed
  mem,        \* the words the engine's locks are in
  excl        \* the address a thread's exclusive monitor watches

bootVars == <<code, patchHead, caveHead, caveEnd, home>>
cpuVars == <<pc, reg, flag, saved, mem, excl>>
vars == <<boot, scan, bootVars, cpuVars>>

\* Slips the checks below must notice; nothing uses them.
MutIsCompareOf(w, r) == w.op = "cmp" /\ w.a = r
MutFits(n, head, end) == head < end
MutFast(w, s, base) ==
  <<Ldrex(w.a, w.c), Strex(12, w.b, w.c), Cmp(12), Bne(base + 4), B(s + 1)>>
MutSlow(w, x, s, base) ==
  <<Push(x), Ldrex(w.a, w.c), Strex(x, w.b, w.c), Cmp(x), Bne(base), Pop(x), B(s + 1)>>

CodeWords == PatchBase..(caveEnd - 1)

IsSwp(w) == w.op = "swp"
IsCompareOf(w, r) == w.op \in {"cmp", "cmpreg"} /\ w.a = r
\* The scan takes the word at p for a spin lock's.
Found(p) == IsSwp(code[p]) /\ IsCompareOf(code[p + 1], code[p].a)

\* The trampolines for the SWP w of address s, when placed at base.
Scratch(w) == IF 0 \notin Operands(w) THEN 0 ELSE 1
Fast(w, s, base) ==
  <<Ldrex(w.a, w.c), Strex(12, w.b, w.c), Cmp(12), Bne(base), B(s + 1)>>
Slow(w, x, s, base) ==
  <<Push(x), Ldrex(w.a, w.c), Strex(x, w.b, w.c), Cmp(x), Bne(base + 1), Pop(x), B(s + 1)>>
IsFast(w) == 12 \notin Operands(w)
Trampoline(w, s, base) ==
  IF IsFast(w) THEN Fast(w, s, base) ELSE Slow(w, Scratch(w), s, base)
Length(w) == IF IsFast(w) THEN 5 ELSE 7

\* so_alloc_arena: n words are left between head and end.
Fits(n, head, end) == n <= end - head
InPatchBlock(n, s) == Fits(n, patchHead, First) /\ s + 2 - PatchBase <= Reach
InCave(n, s) == Fits(n, caveHead, caveEnd) /\ CaveBase - (s + 2) <= Reach

Monitors(p) == {t \in Threads : excl[t] = p}
At(t) == code[pc[t]]
-------------------------------------------------------------------------------
Init ==
  /\ boot = "scan" /\ scan = First
  /\ \E n \in CaveSizes : caveEnd = CaveBase + n
  /\ code = [p \in CodeWords |-> IF p \in TextWords THEN Text[p] ELSE Other]
  /\ home = [p \in CodeWords |-> p]
  /\ patchHead = PatchBase /\ caveHead = CaveBase
  /\ pc = Start
  /\ reg = [t \in Threads |-> [r \in Regs |-> 0]]
  /\ saved = [t \in Threads |-> 0] /\ flag = [t \in Threads |-> FALSE]
  /\ mem = [a \in Values |-> 0] /\ excl = [t \in Threads |-> None]
-------------------------------------------------------------------------------
\* patch_all_swp_spinlocks: the last word has no successor to compare with.
Scanning == boot = "scan" /\ scan < Last

Skip ==
  /\ Scanning /\ ~Found(scan)
  /\ scan' = scan + 1
  /\ UNCHANGED <<boot, bootVars, cpuVars>>

\* patch_swp_with_ldrex_strex: write the trampoline, then the branch to it.
Installed(base) ==
  LET n == Length(code[scan])
      tramp == Trampoline(code[scan], scan, base)
  IN  /\ code' = [p \in CodeWords |-> IF p = scan THEN B(base)
                                      ELSE IF p \in base..(base + n - 1) THEN tramp[p - base + 1]
                                      ELSE code[p]]
      /\ home' = [p \in CodeWords |-> IF p \in base..(base + n - 1) THEN scan ELSE home[p]]
      /\ scan' = scan + 1

Replace ==
  /\ Scanning /\ Found(scan)
  /\ LET n == Length(code[scan]) IN
       \/ /\ InPatchBlock(n, scan) /\ Installed(patchHead)
          /\ patchHead' = patchHead + n /\ UNCHANGED caveHead
       \/ /\ ~InPatchBlock(n, scan) /\ InCave(n, scan) /\ Installed(caveHead)
          /\ caveHead' = caveHead + n /\ UNCHANGED patchHead
  /\ UNCHANGED <<boot, caveEnd, cpuVars>>

NoRoom ==
  /\ Scanning /\ Found(scan)
  /\ ~InPatchBlock(Length(code[scan]), scan) /\ ~InCave(Length(code[scan]), scan)
  /\ boot' = "fatal" /\ UNCHANGED <<scan, bootVars, cpuVars>>

Launch ==
  /\ boot = "scan" /\ ~Scanning
  /\ boot' = "run" /\ UNCHANGED <<scan, bootVars, cpuVars>>
-------------------------------------------------------------------------------
\* One instruction of a thread.  The exclusive monitors are the processor's: any write
\* to a watched word ends the watch, and so may an interrupt.
Goto(t, p) == pc' = [pc EXCEPT ![t] = p]
SetReg(t, r, v) == reg' = [reg EXCEPT ![t][r] = v]
Unwatched(ts) == [t \in Threads |-> IF t \in ts THEN None ELSE excl[t]]

Run(t) ==
  /\ boot = "run" /\ At(t).op \in Plain
  /\ Goto(t, PcAfter(At(t), pc[t], flag[t]))
  /\ reg' = [reg EXCEPT ![t] = RegAfter(At(t), reg[t])]
  /\ flag' = [flag EXCEPT ![t] = FlagAfter(At(t), reg[t], flag[t])]
  /\ mem' = MemAfter(At(t), reg[t], mem)
  /\ excl' = Unwatched(IF At(t).op = "str" THEN Monitors(reg[t][At(t).c]) ELSE {})
  /\ UNCHANGED <<boot, scan, bootVars, saved>>

LoadExclusive(t) ==
  /\ boot = "run" /\ At(t).op = "ldrex"
  /\ SetReg(t, At(t).a, mem[reg[t][At(t).c]])
  /\ excl' = [excl EXCEPT ![t] = reg[t][At(t).c]]
  /\ Goto(t, pc[t] + 1)
  /\ UNCHANGED <<boot, scan, bootVars, flag, saved, mem>>

StoreExclusive(t) ==
  /\ boot = "run" /\ At(t).op = "strex"
  /\ \/ /\ excl[t] = reg[t][At(t).c]
        /\ mem' = [mem EXCEPT ![reg[t][At(t).c]] = reg[t][At(t).b]]
        /\ SetReg(t, At(t).a, 0)
        /\ excl' = Unwatched({t} \cup Monitors(reg[t][At(t).c]))
     \/ /\ excl[t] # reg[t][At(t).c]
        /\ SetReg(t, At(t).a, 1)
        /\ excl' = Unwatched({t}) /\ UNCHANGED mem
  /\ Goto(t, pc[t] + 1)
  /\ UNCHANGED <<boot, scan, bootVars, flag, saved>>

PushReg(t) ==
  /\ boot = "run" /\ At(t).op = "push"
  /\ saved' = [saved EXCEPT ![t] = reg[t][At(t).a]]
  /\ Goto(t, pc[t] + 1)
  /\ UNCHANGED <<boot, scan, bootVars, reg, flag, mem, excl>>

PopReg(t) ==
  /\ boot = "run" /\ At(t).op = "pop"
  /\ SetReg(t, At(t).a, saved[t])
  /\ Goto(t, pc[t] + 1)
  /\ UNCHANGED <<boot, scan, bootVars, flag, saved, mem, excl>>

Interrupt(t) ==
  /\ boot = "run" /\ excl[t] # None
  /\ excl' = Unwatched({t})
  /\ UNCHANGED <<boot, scan, bootVars, pc, reg, flag, saved, mem>>

ThreadNext(t) ==
  \/ Run(t) \/ LoadExclusive(t) \/ StoreExclusive(t)
  \/ PushReg(t) \/ PopReg(t) \/ Interrupt(t)

Next == Skip \/ Replace \/ NoRoom \/ Launch \/ \E t \in Threads : ThreadNext(t)

Spec == Init /\ [][Next]_vars
-------------------------------------------------------------------------------
\* Where the thread is in the engine's own text: a trampoline is the SWP it replaces,
\* until its store has succeeded.
InTrampoline(t) == pc[t] \notin TextWords
Stored(t) ==      \* the store has just succeeded: the status is 0, or was compared
  \/ At(t).op = "cmp" /\ reg[t][At(t).a] = 0
  \/ At(t).op = "bne" /\ flag[t]
  \/ At(t).op \in {"pop", "b"}
PcOf(t) ==
  IF ~InTrampoline(t) THEN pc[t]
  ELSE IF Stored(t) THEN home[pc[t]] + 1 ELSE home[pc[t]]
\* Registers as the engine will find them: the pushed one is on the stack, from the
\* instruction after the push to the pop.
Pushed(t) == InTrampoline(t) /\ ~IsFast(Text[home[pc[t]]]) /\ At(t).op \notin {"push", "b"}
RegOf(t) ==
  IF Pushed(t) THEN [reg[t] EXCEPT ![Scratch(Text[home[pc[t]]])] = saved[t]] ELSE reg[t]
FlagOf(t) == flag[t] \/ (InTrampoline(t) /\ Stored(t))

PcBar == [t \in Threads |-> PcOf(t)]
RegBar == [t \in Threads |-> RegOf(t)]
FlagBar == [t \in Threads |-> FlagOf(t)]

Atomic == INSTANCE AtomicSwap WITH pc <- PcBar, reg <- RegBar, flag <- FlagBar

\* The register that takes the status of the store.
Status(w) == IF IsFast(w) THEN 12 ELSE Scratch(w)

\* What the trampolines need of the engine's text: an exchange does not load the
\* register it stores or addresses with, and the scratch register is no operand.
Proper ==
  \A p \in TextWords : IsSwp(Text[p]) =>
    /\ Text[p].a # Text[p].b /\ Text[p].a # Text[p].c
    /\ Status(Text[p]) \notin Operands(Text[p])

\* The patched program does nothing the engine's own text, with a real SWP, could not
\* do: every trampoline is one atomic exchange and keeps what it must.
SwapSpec == Atomic!Spec

\* Types and ranges; in particular the arenas never grow into the text or past their end.
TypeOK ==
  /\ boot \in {"scan", "run", "fatal"} /\ scan \in TextWords
  /\ code \in [CodeWords -> Words] /\ home \in [CodeWords -> CodeWords]
  /\ patchHead \in PatchBase..First /\ caveHead \in CaveBase..caveEnd
  /\ caveEnd \in Nat
  /\ pc \in [Threads -> CodeWords] /\ reg \in [Threads -> [Regs -> Values]]
  /\ flag \in [Threads -> BOOLEAN] /\ saved \in [Threads -> Values]
  /\ mem \in [Values -> Values] /\ excl \in [Threads -> Values \cup {None}]

\* Once the threads run, none is ever at an instruction the processor refuses: the scan
\* has found every SWP the engine executes.
NoUndefined == boot = "run" => \A t \in Threads : At(t).op # "swp"
===============================================================================
