---------------------------- MODULE SwpPatchProofs ----------------------------
(***************************************************************************)
(* Proofs about SwpPatch and SpinLocks, for every text, every number of    *)
(* threads and any sizes of the arenas.                                    *)
(***************************************************************************)
EXTENDS SpinLocks, TLAPS

\* What the scan needs of the engine's text: every SWP is followed by the compare it looks for.
Idiom ==
  \A p \in TextWords : IsSwp(Text[p]) => IsCompareOf(Text[p + 1], Text[p].a)

\* A word of a trampoline knows its SWP and is followed by the right word.
Used(p) == home[p] # p
Same(p, q, op) == q \in CodeWords \ TextWords /\ home[q] = home[p] /\ code[q].op = op
Linked(p) ==
  LET w == Text[home[p]] x == Status(Text[home[p]]) IN
  /\ p \notin TextWords /\ home[p] \in TextWords /\ IsSwp(w)
  /\ \/ code[p] = Push(x) /\ ~IsFast(w) /\ Same(p, p + 1, "ldrex")
     \/ code[p] = Ldrex(w.a, w.c) /\ Same(p, p + 1, "strex")
     \/ code[p] = Strex(x, w.b, w.c) /\ Same(p, p + 1, "cmp")
     \/ code[p] = Cmp(x) /\ Same(p, p + 1, "bne")
     \/ /\ code[p].op = "bne" /\ code[p] = Bne(code[p].a)
        /\ Same(p, code[p].a, "ldrex")
        /\ Same(p, p + 1, IF IsFast(w) THEN "b" ELSE "pop")
     \/ code[p] = Pop(x) /\ ~IsFast(w) /\ Same(p, p + 1, "b")
     \/ code[p] = B(home[p] + 1)
Replaced(s) ==
  /\ s < scan /\ IsSwp(Text[s]) /\ code[s] = B(code[s].a)
  /\ Same(s, code[s].a, IF IsFast(Text[s]) THEN "ldrex" ELSE "push")

Allocated(p) == p \in PatchBase..(patchHead - 1) \/ p \in CaveBase..(caveHead - 1)

CodeInv ==
  /\ \A p \in TextWords : home[p] = p /\ (code[p] = Text[p] \/ Replaced(p))
  /\ \A p \in CodeWords : Used(p) => Linked(p) /\ Allocated(p)
BootInv ==
  /\ boot = "run" => scan = Last
  /\ boot # "run" => pc = Start /\ excl = [t \in Threads |-> None]
PlaceInv == \A t \in Threads : InTrampoline(t) => Used(pc[t])

Inv == TypeOK /\ CodeInv /\ BootInv /\ PlaceInv
-------------------------------------------------------------------------------
LEMMA InitInv == Init => Inv
<1> SUFFICES ASSUME Init PROVE Inv
    OBVIOUS
<1> USE SizeAssumption, RegAssumption, TextAssumption DEF Init
<1> PICK n \in CaveSizes : caveEnd = CaveBase + n
    OBVIOUS
<1>1. /\ PatchBase \in Nat /\ CaveBase \in Nat /\ caveEnd \in Nat /\ CaveBase <= caveEnd
      /\ TextWords \subseteq CodeWords /\ CodeWords \subseteq Nat
      /\ scan \in TextWords /\ PatchBase <= First
    BY DEF PatchBase, CaveBase, CodeWords, TextWords
<1>2. Other \in Words
    BY DEF Other, Word, Words, Ops, Plain
<1>3. code \in [CodeWords -> Words]
    BY <1>1, <1>2
<1>4. TypeOK
    BY <1>1, <1>3 DEF TypeOK
<1>5. CodeInv
    BY <1>1 DEF CodeInv, Used
<1>6. BootInv /\ PlaceInv
    BY <1>1 DEF BootInv, PlaceInv, InTrampoline
<1> QED
    BY <1>4, <1>5, <1>6 DEF Inv
-------------------------------------------------------------------------------
LEMMA Layout ==
  ASSUME TypeOK
  PROVE  /\ PatchBase \in Nat /\ CaveBase \in Nat /\ PatchBase <= First /\ CaveBase = Last + 1
         /\ TextWords \subseteq CodeWords /\ CodeWords \subseteq Nat /\ First <= Last
         /\ First \in Nat /\ Last \in Nat /\ caveEnd \in Nat
         /\ CodeWords = PatchBase..(caveEnd - 1) /\ TextWords = First..Last
BY SizeAssumption DEF TypeOK, PatchBase, CaveBase, CodeWords, TextWords

\* A word the linker found at q is allocated, if its neighbour is linked.
LEMMA SameUsed ==
  ASSUME CodeInv, NEW p, NEW q, NEW op, Same(p, q, op), home[p] \in TextWords
  PROVE  Used(q) /\ Allocated(q) /\ Linked(q)
BY DEF CodeInv, Same, Used

\* The words of a trampoline.
LEMMA Words5 ==
  ASSUME NEW w, NEW s, NEW base, IsFast(w)
  PROVE  LET T == Trampoline(w, s, base) IN
         /\ Length(w) = 5 /\ Status(w) = 12
         /\ T[1] = Ldrex(w.a, w.c) /\ T[2] = Strex(12, w.b, w.c) /\ T[3] = Cmp(12)
         /\ T[4] = Bne(base) /\ T[5] = B(s + 1)
BY DEF Trampoline, Fast, Length, Status

LEMMA Words7 ==
  ASSUME NEW w, NEW s, NEW base, ~IsFast(w)
  PROVE  LET T == Trampoline(w, s, base) x == Status(w) IN
         /\ Length(w) = 7 /\ Status(w) = Scratch(w)
         /\ T[1] = Push(x) /\ T[2] = Ldrex(w.a, w.c) /\ T[3] = Strex(x, w.b, w.c)
         /\ T[4] = Cmp(x) /\ T[5] = Bne(base + 1) /\ T[6] = Pop(x) /\ T[7] = B(s + 1)
BY DEF Trampoline, Slow, Length, Status

LEMMA Operations ==
  ASSUME NEW a, NEW b, NEW c
  PROVE  /\ Push(a).op = "push" /\ Ldrex(a, b).op = "ldrex" /\ Strex(a, b, c).op = "strex"
         /\ Cmp(a).op = "cmp" /\ Bne(a).op = "bne" /\ Pop(a).op = "pop" /\ B(a).op = "b"
         /\ Push(a).a = a /\ Ldrex(a, b).a = a /\ Ldrex(a, b).c = b
         /\ Strex(a, b, c).a = a /\ Strex(a, b, c).b = b /\ Strex(a, b, c).c = c
         /\ Cmp(a).a = a /\ Bne(a).a = a /\ Pop(a).a = a /\ B(a).a = a
BY DEF Push, Ldrex, Strex, Cmp, Bne, Pop, B, Word

LEMMA Typed ==
  ASSUME NEW a \in Nat, NEW b \in Nat, NEW c \in Nat
  PROVE  /\ Push(a) \in Words /\ Ldrex(a, b) \in Words /\ Strex(a, b, c) \in Words
         /\ Cmp(a) \in Words /\ Bne(a) \in Words /\ Pop(a) \in Words /\ B(a) \in Words
BY DEF Push, Ldrex, Strex, Cmp, Bne, Pop, B, Word, Words, Ops, Plain
-------------------------------------------------------------------------------
\* Writing one trampoline into words nobody uses keeps the code linked.
LEMMA InstallKeeps ==
  ASSUME Inv, Scanning, Found(scan), NEW base \in Nat, Installed(base), caveEnd' = caveEnd,
         base..(base + Length(code[scan]) - 1) \subseteq CodeWords \ TextWords,
         \A p \in base..(base + Length(code[scan]) - 1) : ~Allocated(p),
         \A p \in CodeWords : Allocated(p) \/ p \in base..(base + Length(code[scan]) - 1)
                              => Allocated(p)'
  PROVE  /\ code' \in [CodeWords -> Words] /\ home' \in [CodeWords -> CodeWords]
         /\ scan' \in TextWords /\ CodeInv'
<1> DEFINE w == Text[scan] n == Length(w) New == base..(base + n - 1)
           T == Trampoline(w, scan, base)
<1>0. /\ TypeOK /\ CodeInv /\ TextWords \subseteq CodeWords /\ CodeWords \subseteq Nat
      /\ TextWords = First..Last /\ First \in Nat /\ Last \in Nat
  BY Layout DEF Inv
<1>1. /\ scan \in TextWords /\ code[scan] = w /\ IsSwp(w) /\ scan < Last
      /\ w.a \in Regs /\ w.b \in Regs /\ w.c \in Regs
  <2>1. scan \in TextWords /\ ~(scan < scan)
    BY <1>0 DEF TypeOK
  <2>2. code[scan] = w /\ IsSwp(w) /\ scan < Last
    BY <2>1, <1>0 DEF CodeInv, Replaced, Scanning, Found
  <2> QED BY <2>1, <2>2, TextAssumption DEF IsSwp, Branches
<1>2. /\ code' = [p \in CodeWords |-> IF p = scan THEN B(base)
                                      ELSE IF p \in New THEN T[p - base + 1] ELSE code[p]]
      /\ home' = [p \in CodeWords |-> IF p \in New THEN scan ELSE home[p]]
      /\ scan' = scan + 1 /\ CodeWords' = CodeWords
  BY <1>1 DEF Installed, CodeWords
<1>W. /\ IsFast(w) => /\ n = 5 /\ Status(w) = 12
                      /\ T[1] = Ldrex(w.a, w.c) /\ T[2] = Strex(12, w.b, w.c)
                      /\ T[3] = Cmp(12) /\ T[4] = Bne(base) /\ T[5] = B(scan + 1)
      /\ ~IsFast(w) => /\ n = 7
                       /\ T[1] = Push(Status(w)) /\ T[2] = Ldrex(w.a, w.c)
                       /\ T[3] = Strex(Status(w), w.b, w.c) /\ T[4] = Cmp(Status(w))
                       /\ T[5] = Bne(base + 1) /\ T[6] = Pop(Status(w)) /\ T[7] = B(scan + 1)
  BY Words5, Words7
<1>3. n \in {5, 7} /\ Status(w) \in Nat /\ w.a \in Nat /\ w.b \in Nat /\ w.c \in Nat /\ scan \in Nat
  <2>1. n \in {5, 7}
    BY <1>W
  <2>2. Status(w) \in Nat
    BY DEF Status, Scratch
  <2> QED BY <2>1, <2>2, <1>0, <1>1, RegAssumption
<1>4. \A p \in New : p \in CodeWords \ TextWords /\ ~Allocated(p) /\ p # scan
  BY <1>1
<1>5. \A i \in 1..n : T[i] \in Words
  <2>0. scan + 1 \in Nat /\ base + 1 \in Nat /\ 12 \in Nat
    BY <1>3
  <2>1. CASE IsFast(w)
    <3>1. \A i \in 1..n : i \in {1, 2, 3, 4, 5}
      BY <2>1, <1>W
    <3>2. T[1] \in Words /\ T[2] \in Words /\ T[3] \in Words /\ T[4] \in Words /\ T[5] \in Words
      BY <2>0, <2>1, <1>W, <1>3, Typed
    <3> QED BY <3>1, <3>2
  <2>2. CASE ~IsFast(w)
    <3>1. \A i \in 1..n : i \in {1, 2, 3, 4, 5, 6, 7}
      BY <2>2, <1>W
    <3>2. /\ T[1] \in Words /\ T[2] \in Words /\ T[3] \in Words /\ T[4] \in Words
          /\ T[5] \in Words /\ T[6] \in Words /\ T[7] \in Words
      BY <2>0, <2>2, <1>W, <1>3, Typed
    <3> QED BY <3>1, <3>2
  <2> QED BY <2>1, <2>2
<1>6. code' \in [CodeWords -> Words]
  <2>1. \A p \in New : p - base + 1 \in 1..n
    BY <1>3
  <2>2. B(base) \in Words
    BY Typed
  <2> QED BY <2>1, <2>2, <1>0, <1>2, <1>5 DEF TypeOK
<1>7. home' \in [CodeWords -> CodeWords] /\ scan' \in TextWords
  BY <1>0, <1>1, <1>2 DEF TypeOK
<1>8. \A p \in New : code'[p] = T[p - base + 1] /\ home'[p] = scan
  BY <1>2, <1>4
<1>9. \A p \in CodeWords : p \notin New => home'[p] = home[p] /\ (p # scan => code'[p] = code[p])
  BY <1>2
<1>10. \A p \in CodeWords : Used(p) => Linked(p)' /\ Allocated(p)'
  <2> SUFFICES ASSUME NEW p \in CodeWords, Used(p) PROVE Linked(p)' /\ Allocated(p)'
    OBVIOUS
  <2>1. Linked(p) /\ Allocated(p) /\ p \notin New /\ p # scan /\ home[p] \in TextWords
    BY <1>0, <1>1, <1>4 DEF CodeInv, Linked
  <2>2. \A q, op : Same(p, q, op) => Same(p, q, op)'
    <3> SUFFICES ASSUME NEW q, NEW op, Same(p, q, op) PROVE Same(p, q, op)'
      OBVIOUS
    <3>1. q \in CodeWords /\ q \notin New /\ q # scan
      BY <2>1, <1>0, <1>1, <1>4, SameUsed DEF Same
    <3> QED BY <3>1, <2>1, <1>2, <1>9 DEF Same
  <2>3. code'[p] = code[p] /\ home'[p] = home[p]
    BY <2>1, <1>9
  <2>4. Linked(p)'
    BY <2>1, <2>2, <2>3 DEF Linked
  <2> QED BY <2>1, <2>4
<1>11. \A p \in New : Linked(p)' /\ Allocated(p)'
  <2> SUFFICES ASSUME NEW p \in New PROVE Linked(p)'
    BY <1>4, <1>1
  <2>1. p \notin TextWords /\ home'[p] = scan /\ scan \in TextWords /\ IsSwp(w) /\ p \in Nat
    BY <1>1, <1>4, <1>8
  <2>2. \A q, op : q \in New /\ T[q - base + 1].op = op => Same(p, q, op)'
    BY <1>2, <1>4, <1>8, <2>1 DEF Same
  <2>2a. Text[home'[p]] = w
    BY <2>1
  <2>3. CASE IsFast(w)
    <3>1. p \in {base, base + 1, base + 2, base + 3, base + 4}
      BY <2>3, <1>W
    <3>2. /\ base \in New /\ base - base + 1 = 1
          /\ base + 1 \in New /\ (base + 1) - base + 1 = 2
          /\ base + 2 \in New /\ (base + 2) - base + 1 = 3
          /\ base + 3 \in New /\ (base + 3) - base + 1 = 4
          /\ base + 4 \in New /\ (base + 4) - base + 1 = 5
      BY <2>3, <1>W
    <3>3. /\ code'[base] = T[1]
          /\ code'[base + 1] = T[2]
          /\ code'[base + 2] = T[3]
          /\ code'[base + 3] = T[4]
          /\ code'[base + 4] = T[5]
      BY <3>2, <1>8
    <3>4. CASE p = base
      <4>1. Same(p, base + 1, "strex")'
        BY <3>2, <2>2, <2>3, <1>W, Operations
      <4> QED BY <4>1, <3>4, <3>3, <2>1, <2>2a, <2>3, <1>W DEF Linked
    <3>5. CASE p = base + 1
      <4>1. Same(p, p + 1, "cmp")'
        BY <3>5, <3>2, <2>2, <2>3, <1>W, Operations
      <4> QED BY <4>1, <3>5, <3>3, <2>1, <2>2a, <2>3, <1>W DEF Linked
    <3>6. CASE p = base + 2
      <4>1. Same(p, p + 1, "bne")'
        BY <3>6, <3>2, <2>2, <2>3, <1>W, Operations
      <4> QED BY <4>1, <3>6, <3>3, <2>1, <2>2a, <2>3, <1>W DEF Linked
    <3>7. CASE p = base + 3
      <4>1. Same(p, p + 1, "b")'
        BY <3>7, <3>2, <2>2, <2>3, <1>W, Operations
      <4>2. Same(p, base, "ldrex")'
        BY <3>7, <3>2, <2>2, <2>3, <1>W, Operations
      <4> QED BY <4>1, <4>2, <3>7, <3>3, <2>1, <2>2a, <2>3, <1>W, Operations DEF Linked
    <3>8. CASE p = base + 4
      BY <3>8, <3>3, <2>1, <2>2a, <2>3, <1>W DEF Linked
    <3> QED BY <3>1, <3>4, <3>5, <3>6, <3>7, <3>8
  <2>4. CASE ~IsFast(w)
    <3>1. p \in {base, base + 1, base + 2, base + 3, base + 4, base + 5, base + 6}
      BY <2>4, <1>W
    <3>2. /\ base \in New /\ base - base + 1 = 1
          /\ base + 1 \in New /\ (base + 1) - base + 1 = 2
          /\ base + 2 \in New /\ (base + 2) - base + 1 = 3
          /\ base + 3 \in New /\ (base + 3) - base + 1 = 4
          /\ base + 4 \in New /\ (base + 4) - base + 1 = 5
          /\ base + 5 \in New /\ (base + 5) - base + 1 = 6
          /\ base + 6 \in New /\ (base + 6) - base + 1 = 7
      BY <2>4, <1>W
    <3>3. /\ code'[base] = T[1]
          /\ code'[base + 1] = T[2]
          /\ code'[base + 2] = T[3]
          /\ code'[base + 3] = T[4]
          /\ code'[base + 4] = T[5]
          /\ code'[base + 5] = T[6]
          /\ code'[base + 6] = T[7]
      BY <3>2, <1>8
    <3>4. CASE p = base
      <4>1. Same(p, base + 1, "ldrex")'
        BY <3>2, <2>2, <2>4, <1>W, Operations
      <4> QED BY <4>1, <3>4, <3>3, <2>1, <2>2a, <2>4, <1>W DEF Linked
    <3>5. CASE p = base + 1
      <4>1. Same(p, p + 1, "strex")'
        BY <3>5, <3>2, <2>2, <2>4, <1>W, Operations
      <4> QED BY <4>1, <3>5, <3>3, <2>1, <2>2a, <2>4, <1>W DEF Linked
    <3>6. CASE p = base + 2
      <4>1. Same(p, p + 1, "cmp")'
        BY <3>6, <3>2, <2>2, <2>4, <1>W, Operations
      <4> QED BY <4>1, <3>6, <3>3, <2>1, <2>2a, <2>4, <1>W DEF Linked
    <3>7. CASE p = base + 3
      <4>1. Same(p, p + 1, "bne")'
        BY <3>7, <3>2, <2>2, <2>4, <1>W, Operations
      <4> QED BY <4>1, <3>7, <3>3, <2>1, <2>2a, <2>4, <1>W DEF Linked
    <3>8. CASE p = base + 4
      <4>1. Same(p, p + 1, "pop")'
        BY <3>8, <3>2, <2>2, <2>4, <1>W, Operations
      <4>2. Same(p, base + 1, "ldrex")'
        BY <3>8, <3>2, <2>2, <2>4, <1>W, Operations
      <4> QED BY <4>1, <4>2, <3>8, <3>3, <2>1, <2>2a, <2>4, <1>W, Operations DEF Linked
    <3>9. CASE p = base + 5
      <4>1. Same(p, p + 1, "b")'
        BY <3>9, <3>2, <2>2, <2>4, <1>W, Operations
      <4> QED BY <4>1, <3>9, <3>3, <2>1, <2>2a, <2>4, <1>W DEF Linked
    <3>10. CASE p = base + 6
      BY <3>10, <3>3, <2>1, <2>2a, <2>4, <1>W DEF Linked
    <3> QED BY <3>1, <3>4, <3>5, <3>6, <3>7, <3>8, <3>9, <3>10
  <2> QED BY <2>3, <2>4
<1>12. \A p \in TextWords : home'[p] = p /\ (code'[p] = Text[p] \/ Replaced(p)')
  <2> SUFFICES ASSUME NEW p \in TextWords PROVE home'[p] = p /\ (code'[p] = Text[p] \/ Replaced(p)')
    OBVIOUS
  <2>1. home'[p] = p /\ p \in CodeWords /\ p \notin New
    BY <1>0, <1>4, <1>9 DEF CodeInv
  <2>2. CASE p = scan
    <3>1. code'[p] = B(base) /\ B(base).a = base /\ base \in New /\ code'[base] = T[1]
      <4>1. base \in New /\ base - base + 1 = 1
        BY <1>3
      <4> QED BY <4>1, <2>2, <2>1, <1>2, <1>8, Operations
    <3>2. T[1].op = IF IsFast(w) THEN "ldrex" ELSE "push"
      BY <1>W, Operations
    <3>3. /\ base \in CodeWords' \ TextWords /\ home'[base] = home'[p]
          /\ code'[base].op = IF IsFast(w) THEN "ldrex" ELSE "push"
      BY <3>1, <3>2, <2>1, <2>2, <1>2, <1>4, <1>8
    <3>4. p < scan'
      BY <2>2, <1>1, <1>2, <1>3
    <3>5. IsSwp(Text[p]) /\ code'[p] = B(code'[p].a) /\ code'[p].a = base
      BY <3>1, <2>2, <1>1
    <3>6. Same(p, code[p].a, IF IsFast(Text[p]) THEN "ldrex" ELSE "push")'
      BY <3>3, <3>5, <2>2 DEF Same
    <3>7. Replaced(p)'
      BY <3>4, <3>5, <3>6 DEF Replaced
    <3> QED BY <3>7, <2>1
  <2>3. CASE p # scan /\ code[p] # Text[p]
    <3>1. Replaced(p) /\ code'[p] = code[p] /\ home[p] = p
      BY <2>3, <2>1, <1>0, <1>9 DEF CodeInv
    <3>2. \A op : Same(p, code[p].a, op) => Same(p, code[p].a, op)'
      <4> SUFFICES ASSUME NEW op, Same(p, code[p].a, op) PROVE Same(p, code[p].a, op)'
        OBVIOUS
      <4>1. code[p].a \in CodeWords /\ code[p].a \notin New /\ code[p].a # scan
        BY <3>1, <1>0, <1>1, <1>4, SameUsed DEF Same, Replaced
      <4> QED BY <4>1, <3>1, <2>1, <1>2, <1>9 DEF Same
    <3>3. p < scan'
      BY <3>1, <1>1, <1>2, <1>3, <1>0 DEF Replaced
    <3> QED BY <3>1, <3>2, <3>3, <2>1 DEF Replaced
  <2>4. CASE p # scan /\ code[p] = Text[p]
    BY <2>4, <2>1, <1>9
  <2> QED BY <2>1, <2>2, <2>3, <2>4
<1>13. \A p \in CodeWords : Used(p)' => p \in New \/ Used(p)
  BY <1>9 DEF Used
<1> QED BY <1>2, <1>6, <1>7, <1>10, <1>11, <1>12, <1>13 DEF CodeInv

LEMMA CodeStays == CodeInv /\ UNCHANGED <<scan, bootVars>> => CodeInv'
BY DEF CodeInv, bootVars, Used, Linked, Replaced, Allocated, Same, CodeWords

LEMMA BootKeeps ==
  ASSUME Inv, Skip \/ Replace \/ NoRoom \/ Launch
  PROVE  Inv'
<1>0. /\ TypeOK /\ CodeInv /\ BootInv /\ PlaceInv /\ TextWords \subseteq CodeWords
      /\ CodeWords \subseteq Nat /\ CodeWords = PatchBase..(caveEnd - 1)
      /\ TextWords = First..Last /\ First \in Nat /\ Last \in Nat /\ PatchBase \in Nat
      /\ PatchBase <= First /\ CaveBase = Last + 1 /\ caveEnd \in Nat /\ First <= Last
  BY Layout DEF Inv
<1>1. CASE Skip
  <2>1. scan' \in TextWords
    BY <1>0, <1>1 DEF Skip, Scanning, TypeOK
  <2>2. TypeOK' /\ BootInv' /\ PlaceInv'
    BY <2>1, <1>0, <1>1 DEF Skip, Scanning, bootVars, cpuVars, TypeOK, BootInv, PlaceInv, InTrampoline, Used, CodeWords
  <2>3. CodeInv'
    <3>1. \A p \in TextWords : Replaced(p) => Replaced(p)'
      <4>1. \A p \in TextWords : p < scan => p < scan'
        BY <1>0, <1>1 DEF Skip, TypeOK
      <4> QED BY <4>1, <1>1 DEF Skip, bootVars, Replaced, Same, CodeWords
    <3>2. \A p \in CodeWords : Linked(p) /\ Allocated(p) => (Linked(p) /\ Allocated(p))'
      BY <1>1 DEF Skip, bootVars, Linked, Same, CodeWords, Allocated
    <3> QED BY <3>1, <3>2, <1>0, <1>1 DEF Skip, bootVars, CodeInv, Used, CodeWords
  <2> QED BY <2>2, <2>3 DEF Inv
<1>2. CASE Replace
  <2> DEFINE n == Length(code[scan])
  <2>0. n \in {5, 7} /\ Scanning /\ Found(scan) /\ caveEnd' = caveEnd
    BY <1>2 DEF Length, Replace
  <2>1. SUFFICES ASSUME NEW base \in Nat, Installed(base),
                        \/ /\ base = patchHead /\ InPatchBlock(n, scan)
                           /\ patchHead' = patchHead + n /\ caveHead' = caveHead
                        \/ /\ base = caveHead /\ InCave(n, scan)
                           /\ caveHead' = caveHead + n /\ patchHead' = patchHead
                 PROVE  Inv'
    <3>1. patchHead \in Nat /\ caveHead \in Nat
      BY <1>0 DEF TypeOK
    <3> QED BY <3>1, <1>2 DEF Replace
  <2>a. /\ patchHead \in Nat /\ PatchBase <= patchHead /\ patchHead <= First
        /\ caveHead \in Nat /\ CaveBase <= caveHead /\ caveHead <= caveEnd
        /\ CaveBase \in Nat /\ n \in Nat /\ n >= 1
    BY <2>0, <1>0 DEF TypeOK
  <2>b. \/ /\ base = patchHead /\ base + n <= First
           /\ patchHead' = base + n /\ caveHead' = caveHead
        \/ /\ base = caveHead /\ base + n <= caveEnd
           /\ caveHead' = base + n /\ patchHead' = patchHead
    <3>1. CASE base = patchHead /\ InPatchBlock(n, scan) /\ patchHead' = patchHead + n /\ caveHead' = caveHead
      <4>1. n <= First - patchHead
        BY <3>1 DEF InPatchBlock, Fits
      <4>2. patchHead + n <= First
        BY <4>1, <2>a, <1>0
      <4> QED BY <3>1, <4>2
    <3>2. CASE base = caveHead /\ InCave(n, scan) /\ caveHead' = caveHead + n /\ patchHead' = patchHead
      <4>1. n <= caveEnd - caveHead
        BY <3>2 DEF InCave, Fits
      <4>2. caveHead + n <= caveEnd
        BY <4>1, <2>a, <1>0
      <4> QED BY <3>2, <4>2
    <3> QED BY <3>1, <3>2, <2>1
  <2> HIDE DEF n
  <2>2. patchHead' \in PatchBase..First /\ caveHead' \in CaveBase..caveEnd
    BY <2>a, <2>b, <1>0
  <2>3. base..(base + n - 1) \subseteq CodeWords \ TextWords
    BY <2>a, <2>b, <1>0
  <2>4. \A p \in base..(base + n - 1) : ~Allocated(p)
    BY <2>a, <2>b, <1>0 DEF Allocated
  <2>5. \A p \in CodeWords : Allocated(p) \/ p \in base..(base + n - 1) => Allocated(p)'
    BY <2>a, <2>b, <1>0 DEF Allocated
  <2>6. /\ code' \in [CodeWords -> Words] /\ home' \in [CodeWords -> CodeWords]
        /\ scan' \in TextWords /\ CodeInv'
    BY <2>0, <2>1, <2>3, <2>4, <2>5, InstallKeeps DEF n
  <2>7. TypeOK'
    BY <2>0, <2>2, <2>6, <1>0, <1>2 DEF Replace, TypeOK, cpuVars, CodeWords
  <2>8. BootInv'
    BY <1>0, <1>2 DEF Replace, Scanning, BootInv, cpuVars
  <2>9. PlaceInv'
    <3>1. \A t \in Threads : pc'[t] \in TextWords
      BY <1>0, <1>2, TextAssumption DEF Replace, Scanning, BootInv, cpuVars
    <3> QED BY <3>1 DEF PlaceInv, InTrampoline
  <2> QED BY <2>6, <2>7, <2>8, <2>9 DEF Inv
<1>3. CASE NoRoom
  <2>1. CodeInv'
    BY <1>0, <1>3, CodeStays DEF NoRoom
  <2>2. TypeOK' /\ BootInv' /\ PlaceInv'
    BY <1>0, <1>3 DEF NoRoom, Scanning, bootVars, cpuVars, TypeOK, BootInv, PlaceInv, InTrampoline, Used, CodeWords
  <2> QED BY <2>1, <2>2 DEF Inv
<1>4. CASE Launch
  <2>1. CodeInv'
    BY <1>0, <1>4, CodeStays DEF Launch
  <2>2. TypeOK' /\ BootInv' /\ PlaceInv'
    BY <1>0, <1>4 DEF Launch, Scanning, bootVars, cpuVars, TypeOK, BootInv, PlaceInv, InTrampoline, Used, CodeWords
  <2> QED BY <2>1, <2>2 DEF Inv
<1> QED BY <1>1, <1>2, <1>3, <1>4
-------------------------------------------------------------------------------
\* The registers a trampoline names, and the place it returns to.
LEMMA Named ==
  ASSUME Inv, NEW p \in CodeWords, Used(p)
  PROVE  LET w == Text[home[p]] IN
         /\ Linked(p) /\ home[p] \in TextWords /\ IsSwp(w) /\ w.op \notin Branches /\ w.op # "b"
         /\ w.a \in Regs /\ w.b \in Regs /\ w.c \in Regs /\ Status(w) \in Regs
         /\ home[p] + 1 \in TextWords
<1>1. Linked(p) /\ home[p] \in TextWords /\ IsSwp(Text[home[p]])
  BY DEF Inv, CodeInv, Linked
<1>2. Status(Text[home[p]]) \in Regs
  BY RegAssumption DEF Status, Scratch
<1> QED BY <1>1, <1>2, TextAssumption DEF IsSwp, Branches

\* In its own text a thread finds the engine's word or the branch to a trampoline.
LEMMA InText ==
  ASSUME Inv, NEW t \in Threads, pc[t] \in TextWords
  PROVE  /\ \/ At(t) = Text[pc[t]]
            \/ At(t) = B(At(t).a) /\ IsSwp(Text[pc[t]])
               /\ Same(pc[t], At(t).a, IF IsFast(Text[pc[t]]) THEN "ldrex" ELSE "push")
         /\ home[pc[t]] = pc[t]
BY DEF Inv, CodeInv, Replaced, At

\* In a trampoline it finds one of these, according to the operation.
LEMMA InTramp ==
  ASSUME Inv, NEW t \in Threads, pc[t] \notin TextWords
  PROVE  LET w == Text[home[pc[t]]] x == Status(Text[home[pc[t]]]) p == pc[t] IN
         /\ At(t).op \in {"push", "ldrex", "strex", "cmp", "bne", "pop", "b"}
         /\ At(t).op = "push"  => At(t).a = x /\ ~IsFast(w) /\ Same(p, p + 1, "ldrex")
         /\ At(t).op = "ldrex" => At(t).a = w.a /\ At(t).c = w.c /\ Same(p, p + 1, "strex")
         /\ At(t).op = "strex" => /\ At(t).a = x /\ At(t).b = w.b /\ At(t).c = w.c
                                  /\ Same(p, p + 1, "cmp")
         /\ At(t).op = "cmp"   => At(t).a = x /\ Same(p, p + 1, "bne")
         /\ At(t).op = "bne"   => /\ Same(p, At(t).a, "ldrex")
                                  /\ Same(p, p + 1, IF IsFast(w) THEN "b" ELSE "pop")
         /\ At(t).op = "pop"   => At(t).a = x /\ ~IsFast(w) /\ Same(p, p + 1, "b")
         /\ At(t).op = "b"     => At(t).a = home[p] + 1
<1>1. pc[t] \in CodeWords /\ Used(pc[t])
  BY DEF Inv, TypeOK, PlaceInv, InTrampoline
<1>2. Linked(pc[t])
  BY <1>1, Named
<1> QED BY <1>2, Operations DEF Linked, At

LEMMA Home ==
  ASSUME Inv, NEW t \in Threads, pc[t] \notin TextWords
  PROVE  LET w == Text[home[pc[t]]] IN
         /\ home[pc[t]] \in TextWords /\ IsSwp(w) /\ home[pc[t]] + 1 \in TextWords
         /\ w.a \in Regs /\ w.b \in Regs /\ w.c \in Regs /\ Status(w) \in Regs
         /\ Used(pc[t])
<1>1. pc[t] \in CodeWords /\ Used(pc[t])
  BY DEF Inv, TypeOK, PlaceInv, InTrampoline
<1> QED BY <1>1, Named

\* A thread that moves to a word of the same trampoline, or to the text, is placed.
LEMMA Moves ==
  ASSUME Inv, NEW t \in Threads, NEW q, pc' = [pc EXCEPT ![t] = q], UNCHANGED <<scan, bootVars>>,
         boot = "run", boot' = boot, excl' \in [Threads -> Values \cup {None}],
         q \in TextWords \/ \E op : Same(pc[t], q, op)
  PROVE  /\ pc' \in [Threads -> CodeWords] /\ PlaceInv' /\ CodeInv' /\ BootInv'
<1>1. CodeInv'
  BY CodeStays DEF Inv
<1>2. q \in CodeWords /\ (q \notin TextWords => Used(q))
  <2>1. CASE q \in TextWords
    BY <2>1, Layout DEF Inv
  <2>2. CASE q \notin TextWords
    <3>1. home[pc[t]] \in TextWords
      BY InText, Home
    <3> QED BY <2>2, <3>1 DEF Same, Used
  <2> QED BY <2>1, <2>2
<1>3. pc' \in [Threads -> CodeWords]
  BY <1>2 DEF Inv, TypeOK
<1>4. PlaceInv'
  BY <1>2 DEF Inv, TypeOK, PlaceInv, InTrampoline, Used, bootVars
<1> QED BY <1>1, <1>3, <1>4 DEF Inv, BootInv

\* The instructions of a trampoline that the engine's text does not have.
LEMMA Special ==
  ASSUME Inv, NEW t \in Threads, At(t).op \in {"push", "ldrex", "strex", "pop"}
  PROVE  pc[t] \notin TextWords
<1> SUFFICES ASSUME pc[t] \in TextWords PROVE FALSE
  OBVIOUS
<1>1. CASE At(t) = Text[pc[t]]
  BY <1>1, TextAssumption DEF Plain
<1>2. CASE At(t) = B(At(t).a)
  BY <1>2, Operations
<1> QED BY <1>1, <1>2, InText

LEMMA Unwatch ==
  ASSUME TypeOK, NEW ts
  PROVE  Unwatched(ts) \in [Threads -> Values \cup {None}]
BY DEF TypeOK, Unwatched

\* Where Run takes a thread.
LEMMA RunMoves ==
  ASSUME Inv, NEW t \in Threads, At(t).op \in Plain
  PROVE  LET q == PcAfter(At(t), pc[t], flag[t]) IN
         q \in TextWords \/ \E op : Same(pc[t], q, op)
<1>1. CASE pc[t] \in TextWords /\ At(t) = Text[pc[t]]
  BY <1>1, TextAssumption DEF PcAfter, Branches
<1>2. CASE pc[t] \in TextWords /\ At(t) # Text[pc[t]]
  <2>1. At(t).op = "b" /\ At(t) = B(At(t).a)
    BY <1>2, InText, Operations
  <2> QED BY <2>1, <1>2, InText DEF PcAfter
<1>3. CASE pc[t] \notin TextWords
  <2>1. At(t).op \in {"cmp", "bne", "b"}
    BY <1>3, InTramp DEF Plain
  <2> QED BY <1>3, <2>1, InTramp, Home DEF PcAfter
<1> QED BY <1>1, <1>2, <1>3

\* And what it does to the registers and the memory is in their types.
LEMMA RunTypes ==
  ASSUME Inv, NEW t \in Threads, At(t).op \in Plain
  PROVE  /\ RegAfter(At(t), reg[t]) \in [Regs -> Values]
         /\ FlagAfter(At(t), reg[t], flag[t]) \in BOOLEAN
         /\ MemAfter(At(t), reg[t], mem) \in [Values -> Values]
         /\ At(t).op = "str" => pc[t] \in TextWords /\ At(t) = Text[pc[t]] /\ reg[t][At(t).c] \in Values
<1>0. TypeOK
  BY DEF Inv
<1>1. /\ At(t).op = "mov" => At(t).b \in Values
      /\ At(t).op = "str" => /\ pc[t] \in TextWords /\ At(t) = Text[pc[t]]
                             /\ At(t).b \in Regs /\ At(t).c \in Regs
  <2>1. CASE pc[t] \in TextWords /\ At(t) = Text[pc[t]]
    BY <2>1, TextAssumption DEF Branches
  <2>2. CASE pc[t] \in TextWords /\ At(t) # Text[pc[t]]
    BY <2>2, InText, Operations
  <2>3. CASE pc[t] \notin TextWords
    BY <2>3, InTramp
  <2> QED BY <2>1, <2>2, <2>3
<1>2. RegAfter(At(t), reg[t]) \in [Regs -> Values]
  BY <1>0, <1>1 DEF TypeOK, RegAfter
<1>3. FlagAfter(At(t), reg[t], flag[t]) \in BOOLEAN
  BY <1>0 DEF TypeOK, FlagAfter
<1>4. MemAfter(At(t), reg[t], mem) \in [Values -> Values]
  BY <1>0, <1>1 DEF TypeOK, MemAfter
<1> QED BY <1>0, <1>1, <1>2, <1>3, <1>4 DEF TypeOK

LEMMA ThreadKeeps ==
  ASSUME Inv, NEW t \in Threads, ThreadNext(t)
  PROVE  Inv'
<1>0. TypeOK /\ boot = "run" /\ boot' = boot /\ UNCHANGED <<scan, bootVars>>
  BY DEF Inv, ThreadNext, Run, LoadExclusive, StoreExclusive, PushReg, PopReg, Interrupt
<1>a. CodeWords' = CodeWords
  BY <1>0 DEF CodeWords, bootVars
<1>b. ASSUME pc' \in [Threads -> CodeWords], reg' \in [Threads -> [Regs -> Values]],
             flag' \in [Threads -> BOOLEAN], saved' \in [Threads -> Values],
             mem' \in [Values -> Values], excl' \in [Threads -> Values \cup {None}]
      PROVE  TypeOK'
  BY <1>b, <1>a, <1>0 DEF TypeOK, bootVars
<1>c. \A r \in Regs : reg[t][r] \in Values /\ mem[reg[t][r]] \in Values
  BY <1>0 DEF TypeOK
<1>1. CASE Run(t)
  <2>1. excl' \in [Threads -> Values \cup {None}]
    BY <1>0, <1>1, Unwatch DEF Run
  <2>2. /\ reg' \in [Threads -> [Regs -> Values]] /\ flag' \in [Threads -> BOOLEAN]
        /\ mem' \in [Values -> Values]
    BY <1>0, <1>1, RunTypes DEF Run, TypeOK
  <2>3. pc' \in [Threads -> CodeWords] /\ PlaceInv' /\ CodeInv' /\ BootInv'
    BY <1>0, <1>1, <2>1, RunMoves, Moves DEF Run, Goto
  <2> QED BY <2>1, <2>2, <2>3, <1>0, <1>1, <1>b DEF Run, TypeOK, Inv
<1>2. CASE LoadExclusive(t)
  <2>1. pc[t] \notin TextWords
    BY <1>2, Special DEF LoadExclusive
  <2>2. At(t).a \in Regs /\ At(t).c \in Regs /\ Same(pc[t], pc[t] + 1, "strex")
    BY <1>2, <2>1, InTramp, Home DEF LoadExclusive
  <2>3. excl' \in [Threads -> Values \cup {None}] /\ reg' \in [Threads -> [Regs -> Values]]
    BY <1>0, <1>2, <1>c, <2>2 DEF LoadExclusive, SetReg, TypeOK
  <2>4. pc' \in [Threads -> CodeWords] /\ PlaceInv' /\ CodeInv' /\ BootInv'
    BY <1>0, <1>2, <2>2, <2>3, Moves DEF LoadExclusive, Goto
  <2> QED BY <2>3, <2>4, <1>0, <1>2, <1>b DEF LoadExclusive, TypeOK, Inv
<1>3. CASE StoreExclusive(t)
  <2>1. pc[t] \notin TextWords
    BY <1>3, Special DEF StoreExclusive
  <2>2. /\ At(t).a \in Regs /\ At(t).b \in Regs /\ At(t).c \in Regs
        /\ Same(pc[t], pc[t] + 1, "cmp")
    BY <1>3, <2>1, InTramp, Home DEF StoreExclusive
  <2>3. excl' \in [Threads -> Values \cup {None}]
    BY <1>0, <1>3, Unwatch DEF StoreExclusive
  <2>4. reg' \in [Threads -> [Regs -> Values]] /\ mem' \in [Values -> Values]
    <3>1. {0, 1} \subseteq Values
      BY RegAssumption
    <3>2. \A v \in Values : [reg EXCEPT ![t][At(t).a] = v] \in [Threads -> [Regs -> Values]]
      BY <1>0, <2>2 DEF TypeOK
    <3>3. reg' \in [Threads -> [Regs -> Values]]
      BY <3>1, <3>2, <1>3 DEF StoreExclusive, SetReg
    <3>4. mem' \in [Values -> Values]
      BY <1>0, <1>3, <1>c, <2>2 DEF StoreExclusive, TypeOK
    <3> QED BY <3>3, <3>4
  <2>5. pc' \in [Threads -> CodeWords] /\ PlaceInv' /\ CodeInv' /\ BootInv'
    BY <1>0, <1>3, <2>2, <2>3, Moves DEF StoreExclusive, Goto
  <2> QED BY <2>3, <2>4, <2>5, <1>0, <1>3, <1>b DEF StoreExclusive, TypeOK, Inv
<1>4. CASE PushReg(t)
  <2>1. pc[t] \notin TextWords
    BY <1>4, Special DEF PushReg
  <2>2. At(t).a \in Regs /\ Same(pc[t], pc[t] + 1, "ldrex")
    BY <1>4, <2>1, InTramp, Home DEF PushReg
  <2>3. saved' \in [Threads -> Values]
    BY <1>0, <1>4, <1>c, <2>2 DEF PushReg, TypeOK
  <2>4. pc' \in [Threads -> CodeWords] /\ PlaceInv' /\ CodeInv' /\ BootInv'
    BY <1>0, <1>4, <2>2, Moves DEF PushReg, Goto, TypeOK
  <2> QED BY <2>3, <2>4, <1>0, <1>4, <1>b DEF PushReg, TypeOK, Inv
<1>5. CASE PopReg(t)
  <2>1. pc[t] \notin TextWords
    BY <1>5, Special DEF PopReg
  <2>2. At(t).a \in Regs /\ Same(pc[t], pc[t] + 1, "b")
    BY <1>5, <2>1, InTramp, Home DEF PopReg
  <2>3. reg' \in [Threads -> [Regs -> Values]]
    BY <1>0, <1>5, <2>2 DEF PopReg, SetReg, TypeOK
  <2>4. pc' \in [Threads -> CodeWords] /\ PlaceInv' /\ CodeInv' /\ BootInv'
    BY <1>0, <1>5, <2>2, Moves DEF PopReg, Goto, TypeOK
  <2> QED BY <2>3, <2>4, <1>0, <1>5, <1>b DEF PopReg, TypeOK, Inv
<1>6. CASE Interrupt(t)
  <2>1. excl' \in [Threads -> Values \cup {None}] /\ CodeInv'
    BY <1>0, <1>6, Unwatch, CodeStays DEF Interrupt, Inv
  <2>2. PlaceInv' /\ BootInv'
    BY <1>0, <1>6 DEF Interrupt, Inv, PlaceInv, BootInv, InTrampoline, Used, bootVars
  <2> QED BY <2>1, <2>2, <1>0, <1>6, <1>a, <1>b DEF Interrupt, TypeOK, Inv
<1> QED BY <1>1, <1>2, <1>3, <1>4, <1>5, <1>6 DEF ThreadNext

LEMMA NextInv == Inv /\ [Next]_vars => Inv'
<1> SUFFICES ASSUME Inv, [Next]_vars PROVE Inv'
    OBVIOUS
<1>1. CASE UNCHANGED vars
  BY <1>1 DEF vars, cpuVars, bootVars, Inv, TypeOK, CodeInv, BootInv, PlaceInv, Used, Linked,
              Replaced, Allocated, Same, InTrampoline, CodeWords
<1>2. CASE Skip \/ Replace \/ NoRoom \/ Launch
  BY <1>2, BootKeeps
<1>3. CASE \E t \in Threads : ThreadNext(t)
  BY <1>3, ThreadKeeps
<1> QED BY <1>1, <1>2, <1>3 DEF Next

THEOREM Invariant == Spec => []Inv
<1> QED BY InitInv, NextInv, PTL DEF Spec

\* Nothing leaves its range, and the arenas grow neither into the text nor past their
\* end, for every text and all sizes.
THEOREM TypeCorrect == Spec => []TypeOK
<1>1. Inv => TypeOK
  BY DEF Inv
<1> QED BY <1>1, Invariant, PTL
-------------------------------------------------------------------------------
\* The scan leaves no SWP behind it, when each is followed by its compare.
Scanned == \A p \in TextWords : p < scan => code[p].op # "swp"

LEMMA ScanStep ==
  ASSUME Idiom, Inv, Inv', Scanned, Skip \/ Replace
  PROVE  Scanned'
<1>0. /\ scan \in TextWords /\ scan < Last /\ code[scan] = Text[scan] /\ scan' = scan + 1
      /\ TextWords = First..Last /\ First \in Nat /\ Last \in Nat
      /\ code[scan + 1] = Text[scan + 1]
  <2>1. /\ scan \in TextWords /\ scan < Last /\ scan' = scan + 1
        /\ TextWords = First..Last /\ First \in Nat /\ Last \in Nat
    BY Layout DEF Inv, TypeOK, Skip, Replace, Scanning, Installed
  <2>2. scan + 1 \in TextWords /\ ~(scan < scan) /\ ~(scan + 1 < scan)
    BY <2>1
  <2> QED BY <2>1, <2>2 DEF Inv, CodeInv, Replaced
<1> SUFFICES ASSUME NEW p \in TextWords, p < scan' PROVE code'[p].op # "swp"
  BY DEF Scanned
<1>1. p < scan \/ p = scan
  BY <1>0
<1>2. CASE Skip
  <2>1. ~Found(scan) /\ code'[p] = code[p]
    BY <1>2 DEF Skip, bootVars
  <2>2. code[scan].op # "swp"
    BY <2>1, <1>0 DEF Found, Idiom, IsSwp
  <2> QED BY <2>1, <2>2, <1>1 DEF Scanned
<1>3. CASE Replace
  <2>1. PICK base : Installed(base)
    BY <1>3 DEF Replace
  <2>2. p \in CodeWords /\ (p # scan => home'[p] = p)
    BY Layout DEF Inv, CodeInv
  <2>3. CASE p = scan
    BY <2>1, <2>2, <2>3, Operations DEF Installed
  <2>4. CASE p # scan
    <3>1. code'[p] = code[p]
      BY <2>1, <2>2, <2>4 DEF Installed
    <3> QED BY <3>1, <2>4, <1>1 DEF Scanned
  <2> QED BY <2>3, <2>4
<1> QED BY <1>2, <1>3

\* No thread meets an instruction the processor refuses, whatever the text, if every SWP
\* is followed by the compare the scan looks for.
THEOREM AllReplaced ==
  ASSUME Idiom
  PROVE  Spec => []NoUndefined
<1>1. Init => Scanned
  BY SizeAssumption DEF Init, Scanned, TextWords
<1>2. Inv /\ Inv' /\ Scanned /\ [Next]_vars => Scanned'
  <2> SUFFICES ASSUME Inv, Inv', Scanned, [Next]_vars PROVE Scanned'
    OBVIOUS
  <2>1. CASE Skip \/ Replace
    BY <2>1, ScanStep
  <2>2. CASE UNCHANGED <<scan, code>>
    BY <2>2 DEF Scanned
  <2> QED BY <2>1, <2>2 DEF Next, ThreadNext, NoRoom, Launch, Run, LoadExclusive, StoreExclusive,
              PushReg, PopReg, Interrupt, vars, bootVars
<1>3. Inv /\ Scanned => NoUndefined
  <2> SUFFICES ASSUME Inv, Scanned, boot = "run", NEW t \in Threads PROVE At(t).op # "swp"
    BY DEF NoUndefined
  <2>1. scan = Last /\ TextWords = First..Last /\ First \in Nat /\ Last \in Nat
    BY Layout DEF Inv, BootInv
  <2>2. CASE pc[t] \in TextWords /\ pc[t] # Last
    <3>1. pc[t] < scan
      BY <2>1, <2>2
    <3> QED BY <3>1, <2>2 DEF Scanned, At
  <2>3. CASE pc[t] \in TextWords /\ pc[t] = Last
    <3>1. Last + 1 \notin TextWords
      BY <2>1
    <3>2. Text[Last].op = "b"
      BY <3>1, <2>3, TextAssumption
    <3> QED BY <3>2, <2>3, InText, Operations
  <2>4. CASE pc[t] \notin TextWords
    BY <2>4, InTramp
  <2> QED BY <2>2, <2>3, <2>4
<1> QED BY <1>1, <1>2, <1>3, Invariant, PTL DEF Spec
-------------------------------------------------------------------------------
\* A watched word still holds what the thread has loaded, and a thread on its way out
\* of a trampoline has compared equal.
Watches(t) ==
  LET w == Text[home[pc[t]]] IN
  /\ pc[t] \notin TextWords /\ At(t).op = "strex"
  /\ excl[t] = reg[t][w.c] /\ reg[t][w.a] = mem[excl[t]]
Leaves(t) == pc[t] \notin TextWords /\ At(t).op \in {"pop", "b"} => flag[t]
MonInv == \A t \in Threads : Leaves(t) /\ (excl[t] # None => Watches(t))

\* What a step of t leaves of the others.
LEMMA OthersWatch ==
  ASSUME TypeOK, MonInv, NEW t \in Threads, NEW u \in Threads, u # t, UNCHANGED <<code, home>>,
         pc'[u] = pc[u], reg'[u] = reg[u], flag'[u] = flag[u],
         excl'[u] \in {None, excl[u]},
         excl'[u] # None => mem'[excl[u]] = mem[excl[u]]
  PROVE  Leaves(u)' /\ (excl'[u] # None => Watches(u)')
BY DEF MonInv, Leaves, Watches, At

LEMMA MonStep ==
  ASSUME Proper, Inv, Inv', MonInv, NEW t \in Threads, ThreadNext(t)
  PROVE  MonInv'
<1>0. /\ TypeOK /\ UNCHANGED <<code, home>> /\ None \notin Values
      /\ \A u \in Threads \ {t} : pc'[u] = pc[u] /\ reg'[u] = reg[u] /\ flag'[u] = flag[u]
  <2>1. TypeOK /\ None \notin Values
    BY RegAssumption DEF Inv, None
  <2> QED BY <2>1 DEF TypeOK, ThreadNext, Run, LoadExclusive, StoreExclusive, PushReg, PopReg, Interrupt,
         bootVars, Goto, SetReg
<1>a. ASSUME \A u \in Threads \ {t} : /\ excl'[u] \in {None, excl[u]}
                                      /\ excl'[u] # None => mem'[excl[u]] = mem[excl[u]],
             Leaves(t)', excl'[t] # None => Watches(t)'
      PROVE  MonInv'
  BY <1>a, <1>0, OthersWatch DEF MonInv
<1>1. CASE Run(t)
  <2>1. excl[t] = None
    BY <1>1 DEF MonInv, Watches, Run, Plain
  <2>2. excl'[t] = None
    BY <2>1, <1>1 DEF Run, Unwatched
  <2>3. \A u \in Threads \ {t} : /\ excl'[u] \in {None, excl[u]}
                                 /\ excl'[u] # None => mem'[excl[u]] = mem[excl[u]]
    <3> SUFFICES ASSUME NEW u \in Threads \ {t}
                 PROVE  /\ excl'[u] \in {None, excl[u]}
                        /\ excl'[u] # None => mem'[excl[u]] = mem[excl[u]]
      OBVIOUS
    <3>1. CASE At(t).op = "str"
      <4>1. reg[t][At(t).c] \in Values
        BY <1>1, <3>1, RunTypes DEF Run
      <4>2. mem' = [mem EXCEPT ![reg[t][At(t).c]] = reg[t][At(t).b]]
        BY <1>1, <3>1 DEF Run, MemAfter
      <4>3. excl'[u] = IF excl[u] = reg[t][At(t).c] THEN None ELSE excl[u]
        BY <1>1, <3>1 DEF Run, Unwatched, Monitors
      <4> QED BY <4>1, <4>2, <4>3, <1>0 DEF TypeOK
    <3>2. CASE At(t).op # "str"
      BY <1>1, <3>2 DEF Run, Unwatched, MemAfter
    <3> QED BY <3>1, <3>2
  <2>4. Leaves(t)'
    <3> SUFFICES ASSUME pc'[t] \notin TextWords, At(t)'.op \in {"pop", "b"} PROVE flag'[t]
      BY DEF Leaves
    <3>1. pc'[t] = PcAfter(At(t), pc[t], flag[t]) /\ At(t)' = code[pc'[t]]
      BY <1>0, <1>1 DEF Run, Goto, TypeOK, At
    <3>2. flag'[t] = FlagAfter(At(t), reg[t], flag[t])
      BY <1>0, <1>1 DEF Run, TypeOK
    <3>3. pc[t] \notin TextWords
      <4> SUFFICES ASSUME pc[t] \in TextWords PROVE FALSE
        OBVIOUS
      <4>1. CASE At(t) = Text[pc[t]]
        BY <4>1, <3>1, <1>1, TextAssumption DEF PcAfter, Branches
      <4>2. CASE At(t) # Text[pc[t]]
        BY <4>2, <3>1, InText, Operations DEF PcAfter, Same
      <4> QED BY <4>1, <4>2
    <3>4. At(t).op \in {"cmp", "bne", "b"}
      BY <1>1, <3>3, InTramp DEF Run, Plain
    <3>5. At(t).op = "bne" /\ flag[t]
      BY <3>1, <3>3, <3>4, InTramp, Home DEF PcAfter, Same
    <3> QED BY <3>2, <3>5 DEF FlagAfter
  <2> QED BY <2>2, <2>3, <2>4, <1>a
<1>2. CASE LoadExclusive(t)
  <2>1. pc[t] \notin TextWords
    BY <1>2, Special DEF LoadExclusive
  <2> DEFINE w == Text[home[pc[t]]]
  <2>2. /\ At(t).a = w.a /\ At(t).c = w.c /\ Same(pc[t], pc[t] + 1, "strex")
        /\ w.a \in Regs /\ w.c \in Regs /\ w.a # w.c
    BY <1>2, <2>1, InTramp, Home DEF LoadExclusive, Proper
  <2>3. /\ pc'[t] = pc[t] + 1 /\ excl'[t] = reg[t][w.c] /\ reg'[t][w.a] = mem[reg[t][w.c]]
        /\ reg'[t][w.c] = reg[t][w.c] /\ mem' = mem
    BY <1>0, <1>2, <2>2 DEF LoadExclusive, Goto, SetReg, TypeOK
  <2>4. At(t)'.op = "strex" /\ home'[pc'[t]] = home[pc[t]] /\ pc'[t] \notin TextWords
    BY <1>0, <2>2, <2>3 DEF Same, At
  <2>5. Watches(t)' /\ Leaves(t)'
    BY <2>3, <2>4 DEF Watches, Leaves
  <2>6. \A u \in Threads \ {t} : excl'[u] = excl[u]
    BY <1>0, <1>2 DEF LoadExclusive, TypeOK
  <2> QED BY <2>3, <2>5, <2>6, <1>a
<1>3. CASE StoreExclusive(t)
  <2>1. pc[t] \notin TextWords
    BY <1>3, Special DEF StoreExclusive
  <2>2. Same(pc[t], pc[t] + 1, "cmp")
    BY <1>3, <2>1, InTramp DEF StoreExclusive
  <2>3. excl'[t] = None
    BY <1>3 DEF StoreExclusive, Unwatched
  <2>4. At(t)'.op = "cmp"
    BY <1>0, <1>3, <2>2 DEF StoreExclusive, Goto, TypeOK, At, Same
  <2>5. \A u \in Threads \ {t} : /\ excl'[u] \in {None, excl[u]}
                                 /\ excl'[u] # None => mem'[excl[u]] = mem[excl[u]]
    <3> SUFFICES ASSUME NEW u \in Threads \ {t}
                 PROVE  /\ excl'[u] \in {None, excl[u]}
                        /\ excl'[u] # None => mem'[excl[u]] = mem[excl[u]]
      OBVIOUS
    <3>1. CASE excl[t] = reg[t][At(t).c]
      <4>1. mem' = [mem EXCEPT ![reg[t][At(t).c]] = reg[t][At(t).b]]
        BY <1>3, <3>1 DEF StoreExclusive
      <4>2. excl'[u] = IF excl[u] = reg[t][At(t).c] THEN None ELSE excl[u]
        BY <1>3, <3>1 DEF StoreExclusive, Unwatched, Monitors
      <4> QED BY <4>1, <4>2, <1>0 DEF TypeOK
    <3>2. CASE excl[t] # reg[t][At(t).c]
      BY <1>3, <3>2 DEF StoreExclusive, Unwatched
    <3> QED BY <3>1, <3>2
  <2> QED BY <2>3, <2>4, <2>5, <1>a DEF Leaves
<1>4. CASE PushReg(t)
  <2>1. pc[t] \notin TextWords /\ excl[t] = None
    BY <1>4, Special DEF PushReg, MonInv, Watches
  <2>2. Same(pc[t], pc[t] + 1, "ldrex")
    BY <1>4, <2>1, InTramp DEF PushReg
  <2>3. At(t)'.op = "ldrex"
    BY <1>0, <1>4, <2>2 DEF PushReg, Goto, TypeOK, At, Same
  <2> QED BY <2>1, <2>3, <1>4, <1>a DEF PushReg, Leaves
<1>5. CASE PopReg(t)
  <2>1. pc[t] \notin TextWords /\ excl[t] = None /\ flag[t]
    BY <1>5, Special DEF PopReg, MonInv, Watches, Leaves
  <2> QED BY <2>1, <1>5, <1>a DEF PopReg, Leaves
<1>6. CASE Interrupt(t)
  <2>1. excl'[t] = None /\ \A u \in Threads \ {t} : excl'[u] = excl[u]
    BY <1>6 DEF Interrupt, Unwatched
  <2>2. Leaves(t)'
    BY <1>0, <1>6 DEF Interrupt, MonInv, Leaves, At
  <2> QED BY <2>1, <2>2, <1>6, <1>a DEF Interrupt
<1> QED BY <1>1, <1>2, <1>3, <1>4, <1>5, <1>6 DEF ThreadNext

LEMMA MonNext == Proper /\ Inv /\ Inv' /\ MonInv /\ [Next]_vars => MonInv'
<1> SUFFICES ASSUME Proper, Inv, Inv', MonInv, [Next]_vars PROVE MonInv'
    OBVIOUS
<1>1. CASE UNCHANGED vars
  BY <1>1 DEF vars, cpuVars, bootVars, MonInv, Watches, Leaves, At
<1>2. CASE Skip \/ Replace \/ NoRoom \/ Launch
  <2>1. UNCHANGED cpuVars
    BY <1>2 DEF Skip, Replace, NoRoom, Launch
  <2>2. \A t \in Threads : pc[t] \in TextWords /\ excl[t] = None
    BY <1>2, TextAssumption DEF Inv, BootInv, Skip, Replace, NoRoom, Launch, Scanning
  <2> QED BY <2>1, <2>2 DEF MonInv, Leaves, cpuVars
<1>3. CASE \E t \in Threads : ThreadNext(t)
  BY <1>3, MonStep
<1> QED BY <1>1, <1>2, <1>3 DEF Next
-------------------------------------------------------------------------------
\* The thread as the engine's own text shows it has the right types.
LEMMA BarTypes ==
  ASSUME TypeOK
  PROVE  RegBar \in [Threads -> [Regs -> Values]] /\ FlagBar \in [Threads -> BOOLEAN]
BY DEF TypeOK, RegBar, FlagBar, RegOf, FlagOf

LEMMA BarTypesNext ==
  ASSUME TypeOK'
  PROVE  RegBar' \in [Threads -> [Regs -> Values]] /\ FlagBar' \in [Threads -> BOOLEAN]
BY DEF TypeOK, RegBar, FlagBar, RegOf, FlagOf

\* A step of t does not show in the others.
LEMMA OneThread ==
  ASSUME NEW t \in Threads, UNCHANGED <<code, home>>,
         \A u \in Threads \ {t} : /\ pc'[u] = pc[u] /\ reg'[u] = reg[u]
                                  /\ flag'[u] = flag[u] /\ saved'[u] = saved[u]
  PROVE  /\ PcBar' = [PcBar EXCEPT ![t] = PcOf(t)']
         /\ RegBar' = [RegBar EXCEPT ![t] = RegOf(t)']
         /\ FlagBar' = [FlagBar EXCEPT ![t] = FlagOf(t)']
<1>1. \A u \in Threads \ {t} : PcOf(u)' = PcOf(u) /\ RegOf(u)' = RegOf(u) /\ FlagOf(u)' = FlagOf(u)
  BY DEF PcOf, RegOf, FlagOf, Stored, Pushed, InTrampoline, At
<1> QED BY <1>1 DEF PcBar, RegBar, FlagBar

\* Both modules mean the same by an instruction.
LEMMA SameMeaning ==
  /\ Atomic!Plain = Plain
  /\ \A w : Atomic!Clobbered(w) = Clobbered(w)
  /\ \A w, p, f : Atomic!PcAfter(w, p, f) = PcAfter(w, p, f)
  /\ \A w, r : Atomic!RegAfter(w, r) = RegAfter(w, r)
  /\ \A w, r, f : Atomic!FlagAfter(w, r, f) = FlagAfter(w, r, f)
  /\ \A w, r, m : Atomic!MemAfter(w, r, m) = MemAfter(w, r, m)
BY DEF Atomic!Plain, Plain, Atomic!Clobbered, Clobbered, Atomic!Operands, Operands, Atomic!PcAfter,
       PcAfter, Atomic!RegAfter, RegAfter, Atomic!FlagAfter, FlagAfter, Atomic!MemAfter, MemAfter

LEMMA Hidden ==
  ASSUME NEW t \in Threads,
         PcBar' = [PcBar EXCEPT ![t] = PcOf(t)'], RegBar' = [RegBar EXCEPT ![t] = RegOf(t)'],
         FlagBar' = [FlagBar EXCEPT ![t] = FlagOf(t)'],
         PcOf(t)' = PcOf(t), RegOf(t)' = RegOf(t), FlagOf(t)' = FlagOf(t), mem' = mem
  PROVE  UNCHANGED <<PcBar, RegBar, FlagBar, mem>>
BY DEF PcBar, RegBar, FlagBar

LEMMA Loses ==
  ASSUME TypeOK', NEW t \in Threads,
         PcBar' = [PcBar EXCEPT ![t] = PcOf(t)'], RegBar' = [RegBar EXCEPT ![t] = RegOf(t)'],
         FlagBar' = [FlagBar EXCEPT ![t] = FlagOf(t)'],
         PcOf(t)' = PcOf(t), IsSwp(Text[PcOf(t)]), mem' = mem,
         \A r \in Regs \ Clobbered(Text[PcOf(t)]) : RegOf(t)'[r] = RegOf(t)[r]
  PROVE  Atomic!Lose(t)
<1>1. PcBar[t] = PcOf(t) /\ RegBar[t] = RegOf(t) /\ RegBar'[t] = RegOf(t)' /\ FlagBar'[t] = FlagOf(t)'
  BY DEF PcBar, RegBar, FlagBar
<1>2. Atomic!Keeps(t)
  <2>1. /\ RegBar' \in [Threads -> [Regs -> Values]] /\ FlagBar' \in [Threads -> BOOLEAN]
    BY BarTypesNext
  <2>2. RegBar' = [RegBar EXCEPT ![t] = RegBar'[t]] /\ FlagBar' = [FlagBar EXCEPT ![t] = FlagBar'[t]]
    BY <1>1
  <2>3. \A r \in Regs \ Clobbered(Text[PcBar[t]]) : RegBar'[t][r] = RegBar[t][r]
    BY <1>1
  <2> QED BY <2>1, <2>2, <2>3, SameMeaning DEF Atomic!Keeps, Atomic!At
<1>3. PcBar' = PcBar
  BY <1>1 DEF PcBar
<1> QED BY <1>1, <1>2, <1>3 DEF Atomic!Lose, Atomic!At, IsSwp

LEMMA Exchanges ==
  ASSUME TypeOK', NEW t \in Threads, NEW w, w = Text[PcOf(t)],
         PcBar' = [PcBar EXCEPT ![t] = PcOf(t)'], RegBar' = [RegBar EXCEPT ![t] = RegOf(t)'],
         FlagBar' = [FlagBar EXCEPT ![t] = FlagOf(t)'],
         PcOf(t)' = PcOf(t) + 1, IsSwp(w),
         RegOf(t)'[w.a] = mem[RegOf(t)[w.c]],
         mem' = [mem EXCEPT ![RegOf(t)[w.c]] = RegOf(t)[w.b]],
         \A r \in Regs \ Clobbered(w) : RegOf(t)'[r] = RegOf(t)[r]
  PROVE  Atomic!Exchange(t)
<1>1. PcBar[t] = PcOf(t) /\ RegBar[t] = RegOf(t) /\ RegBar'[t] = RegOf(t)' /\ FlagBar'[t] = FlagOf(t)'
  BY DEF PcBar, RegBar, FlagBar
<1>2. Atomic!Keeps(t)
  <2>1. /\ RegBar' \in [Threads -> [Regs -> Values]] /\ FlagBar' \in [Threads -> BOOLEAN]
    BY BarTypesNext
  <2>2. RegBar' = [RegBar EXCEPT ![t] = RegBar'[t]] /\ FlagBar' = [FlagBar EXCEPT ![t] = FlagBar'[t]]
    BY <1>1
  <2>3. \A r \in Regs \ Clobbered(Text[PcBar[t]]) : RegBar'[t][r] = RegBar[t][r]
    BY <1>1
  <2> QED BY <2>1, <2>2, <2>3, SameMeaning DEF Atomic!Keeps, Atomic!At
<1>3. PcBar' = [PcBar EXCEPT ![t] = PcBar[t] + 1]
  BY <1>1
<1> QED BY <1>1, <1>2, <1>3 DEF Atomic!Exchange, Atomic!At, IsSwp
-------------------------------------------------------------------------------
LEMMA RunRefines ==
  ASSUME Proper, Inv, Inv', MonInv, NEW t \in Threads, Run(t)
  PROVE  Atomic!Run(t) \/ Atomic!Lose(t) \/ UNCHANGED <<PcBar, RegBar, FlagBar, mem>>
<1>0. /\ TypeOK /\ TypeOK' /\ UNCHANGED <<code, home, saved>>
      /\ pc'[t] = PcAfter(At(t), pc[t], flag[t]) /\ reg'[t] = RegAfter(At(t), reg[t])
      /\ flag'[t] = FlagAfter(At(t), reg[t], flag[t]) /\ mem' = MemAfter(At(t), reg[t], mem)
      /\ At(t)' = code[pc'[t]]
  BY DEF Inv, Run, Goto, TypeOK, bootVars, At
<1>1. /\ PcBar' = [PcBar EXCEPT ![t] = PcOf(t)'] /\ RegBar' = [RegBar EXCEPT ![t] = RegOf(t)']
      /\ FlagBar' = [FlagBar EXCEPT ![t] = FlagOf(t)']
  BY <1>0, OneThread DEF Run, Goto, TypeOK
<1>2. CASE pc[t] \in TextWords /\ At(t) = Text[pc[t]]
  <2>1. pc'[t] \in TextWords
    BY <1>0, <1>2, TextAssumption DEF Run, PcAfter, Branches
  <2>2. /\ PcOf(t) = pc[t] /\ RegOf(t) = reg[t] /\ FlagOf(t) = flag[t]
        /\ PcOf(t)' = pc'[t] /\ RegOf(t)' = reg'[t] /\ FlagOf(t)' = flag'[t]
    BY <1>0, <1>2, <2>1 DEF TypeOK, PcOf, RegOf, FlagOf, Pushed, InTrampoline
  <2>3. PcBar[t] = pc[t] /\ RegBar[t] = reg[t] /\ FlagBar[t] = flag[t]
    BY <2>2 DEF PcBar, RegBar, FlagBar
  <2>4. /\ PcBar' = [PcBar EXCEPT ![t] = pc'[t]] /\ RegBar' = [RegBar EXCEPT ![t] = reg'[t]]
        /\ FlagBar' = [FlagBar EXCEPT ![t] = flag'[t]]
    BY <1>1, <2>2
  <2> QED BY <1>0, <1>2, <2>3, <2>4, SameMeaning DEF Run, Atomic!Run, Atomic!At
<1>3. CASE pc[t] \in TextWords /\ At(t) # Text[pc[t]]
  <2>1. /\ At(t).op = "b" /\ IsSwp(Text[pc[t]]) /\ home[pc[t]] = pc[t]
        /\ Same(pc[t], At(t).a, IF IsFast(Text[pc[t]]) THEN "ldrex" ELSE "push")
    BY <1>3, InText, Operations
  <2>2. /\ pc'[t] = At(t).a /\ reg'[t] = reg[t] /\ flag'[t] = flag[t] /\ mem' = mem
    BY <1>0, <2>1 DEF PcAfter, RegAfter, FlagAfter, MemAfter
  <2>3. /\ pc'[t] \notin TextWords /\ home'[pc'[t]] = pc[t]
        /\ At(t)'.op = IF IsFast(Text[pc[t]]) THEN "ldrex" ELSE "push"
    BY <1>0, <2>1, <2>2 DEF Same
  <2>4. PcOf(t)' = PcOf(t) /\ RegOf(t)' = RegOf(t) /\ FlagOf(t)' = FlagOf(t)
    BY <1>3, <2>2, <2>3 DEF PcOf, RegOf, FlagOf, Pushed, Stored, InTrampoline
  <2> QED BY <1>1, <2>2, <2>4, Hidden
<1>4. CASE pc[t] \notin TextWords
  <2> DEFINE w == Text[home[pc[t]]] x == Status(w)
  <2>1. At(t).op \in {"cmp", "bne", "b"} /\ RegAfter(At(t), reg[t]) = reg[t] /\ mem' = mem
    BY <1>0, <1>4, InTramp DEF Run, Plain, RegAfter, MemAfter
  <2>2. IsSwp(w) /\ home[pc[t]] + 1 \in TextWords /\ home[pc[t]] \in TextWords
    BY <1>4, Home
  <2>3. CASE At(t).op = "cmp"
    <3>1. At(t).a = x /\ Same(pc[t], pc[t] + 1, "bne")
      BY <1>4, <2>3, InTramp
    <3>2. /\ pc'[t] = pc[t] + 1 /\ flag'[t] = (reg[t][x] = 0) /\ reg'[t] = reg[t]
      BY <1>0, <2>1, <2>3, <3>1 DEF PcAfter, FlagAfter
    <3>3. pc'[t] \notin TextWords /\ home'[pc'[t]] = home[pc[t]] /\ At(t)'.op = "bne"
      BY <1>0, <3>1, <3>2 DEF Same
    <3>4. PcOf(t)' = PcOf(t) /\ RegOf(t)' = RegOf(t)
      BY <1>0, <1>4, <2>3, <3>1, <3>2, <3>3 DEF PcOf, RegOf, Pushed, Stored, InTrampoline
    <3>5. CASE reg[t][x] = 0
      <4>1. FlagOf(t)' = FlagOf(t)
        BY <1>0, <1>4, <2>3, <3>1, <3>2, <3>3, <3>5 DEF FlagOf, Stored, InTrampoline, TypeOK
      <4> QED BY <1>1, <2>1, <3>4, <4>1, Hidden
    <3>6. CASE reg[t][x] # 0
      <4>1. PcOf(t) = home[pc[t]]
        BY <1>4, <2>3, <3>1, <3>6 DEF PcOf, Stored, InTrampoline
      <4> QED BY <1>0, <1>1, <2>1, <2>2, <3>4, <4>1, Loses
    <3> QED BY <3>5, <3>6
  <2>4. CASE At(t).op = "bne"
    <3>1. /\ Same(pc[t], At(t).a, "ldrex")
          /\ Same(pc[t], pc[t] + 1, IF IsFast(w) THEN "b" ELSE "pop")
      BY <1>4, <2>4, InTramp
    <3>2. /\ pc'[t] = (IF flag[t] THEN pc[t] + 1 ELSE At(t).a)
          /\ flag'[t] = flag[t] /\ reg'[t] = reg[t]
      BY <1>0, <2>1, <2>4 DEF PcAfter, FlagAfter
    <3>3. /\ pc'[t] \notin TextWords /\ home'[pc'[t]] = home[pc[t]]
          /\ At(t)'.op = IF ~flag[t] THEN "ldrex" ELSE IF IsFast(w) THEN "b" ELSE "pop"
      BY <1>0, <3>1, <3>2 DEF Same
    <3>4. PcOf(t)' = PcOf(t) /\ FlagOf(t)' = FlagOf(t)
      BY <1>4, <2>4, <3>2, <3>3 DEF PcOf, FlagOf, Stored, InTrampoline
    <3>5. RegOf(t)' = RegOf(t)
      BY <1>0, <1>4, <2>4, <3>2, <3>3 DEF RegOf, Pushed, InTrampoline
    <3> QED BY <1>1, <2>1, <3>4, <3>5, Hidden
  <2>5. CASE At(t).op = "b"
    <3>1. /\ pc'[t] = home[pc[t]] + 1 /\ flag'[t] = flag[t] /\ reg'[t] = reg[t] /\ flag[t]
      BY <1>0, <1>4, <2>1, <2>5, InTramp DEF PcAfter, FlagAfter, MonInv, Leaves
    <3>2. PcOf(t)' = PcOf(t) /\ RegOf(t)' = RegOf(t) /\ FlagOf(t)' = FlagOf(t)
      BY <1>4, <2>2, <2>5, <3>1 DEF PcOf, RegOf, FlagOf, Pushed, Stored, InTrampoline
    <3> QED BY <1>1, <2>1, <3>2, Hidden
  <2> QED BY <2>1, <2>3, <2>4, <2>5
<1> QED BY <1>2, <1>3, <1>4

\* InTramp, of the next state.
LEMMA InTrampNext ==
  ASSUME Inv', NEW t \in Threads, pc'[t] \notin TextWords, At(t)'.op = "cmp"
  PROVE  At(t)'.a = Status(Text[home'[pc'[t]]])
<1>1. Linked(pc[t])'
  BY DEF Inv, TypeOK, PlaceInv, CodeInv, InTrampoline
<1> QED BY <1>1, Operations DEF Linked, At

\* What a trampoline may change of the registers, seen from the engine.
LEMMA Scratched ==
  ASSUME Proper, Inv, NEW t \in Threads, pc[t] \notin TextWords
  PROVE  LET w == Text[home[pc[t]]] x == Status(w) IN
         /\ w.a # w.b /\ w.a # w.c /\ x # w.a /\ x # w.b /\ x # w.c
         /\ w.a \in Clobbered(w) /\ (IsFast(w) => x \in Clobbered(w))
         /\ ~IsFast(w) => x = Scratch(w)
BY Home DEF Proper, Operands, Clobbered, Status, IsFast

LEMMA LoadRefines ==
  ASSUME Proper, Inv, Inv', NEW t \in Threads, LoadExclusive(t)
  PROVE  Atomic!Lose(t)
<1> DEFINE w == Text[home[pc[t]]] x == Status(w)
<1>0. pc[t] \notin TextWords /\ TypeOK /\ TypeOK' /\ At(t).op = "ldrex"
  BY Special DEF Inv, LoadExclusive
<1>1. /\ At(t).a = w.a /\ At(t).c = w.c /\ Same(pc[t], pc[t] + 1, "strex")
      /\ IsSwp(w) /\ w.a \in Regs
  BY <1>0, InTramp, Home
<1>2. /\ UNCHANGED <<code, home, saved, flag, mem>> /\ pc'[t] = pc[t] + 1
      /\ reg'[t] = [reg[t] EXCEPT ![w.a] = mem[reg[t][w.c]]]
      /\ \A u \in Threads \ {t} : pc'[u] = pc[u] /\ reg'[u] = reg[u]
  BY <1>0, <1>1 DEF LoadExclusive, Goto, SetReg, TypeOK, bootVars
<1>3. pc'[t] \notin TextWords /\ home'[pc'[t]] = home[pc[t]] /\ At(t)'.op = "strex"
  BY <1>1, <1>2 DEF Same, At
<1>4. /\ PcBar' = [PcBar EXCEPT ![t] = PcOf(t)'] /\ RegBar' = [RegBar EXCEPT ![t] = RegOf(t)']
      /\ FlagBar' = [FlagBar EXCEPT ![t] = FlagOf(t)']
  BY <1>2, OneThread
<1>5. PcOf(t)' = PcOf(t) /\ PcOf(t) = home[pc[t]]
  BY <1>0, <1>3 DEF PcOf, Stored, InTrampoline
<1>6. \A r \in Regs \ Clobbered(w) : RegOf(t)'[r] = RegOf(t)[r]
  <2>1. CASE IsFast(w)
    <3>1. RegOf(t) = reg[t] /\ RegOf(t)' = reg'[t]
      BY <2>1, <1>3 DEF RegOf, Pushed
    <3> QED BY <3>1, <1>0, <1>2, Scratched DEF TypeOK
  <2>2. CASE ~IsFast(w)
    <3>1. /\ RegOf(t) = [reg[t] EXCEPT ![Scratch(w)] = saved[t]]
          /\ RegOf(t)' = [reg'[t] EXCEPT ![Scratch(w)] = saved[t]]
      BY <2>2, <1>0, <1>2, <1>3 DEF RegOf, Pushed, InTrampoline
    <3>2. reg[t] \in [Regs -> Values] /\ reg'[t] \in [Regs -> Values] /\ w.a \in Clobbered(w)
      BY <1>0, Scratched DEF TypeOK
    <3>3. \A r \in Regs : r # w.a => reg'[t][r] = reg[t][r]
      BY <3>2, <1>2
    <3> QED BY <3>1, <3>2, <3>3
  <2> QED BY <2>1, <2>2
<1> QED BY <1>0, <1>1, <1>2, <1>4, <1>5, <1>6, Loses

LEMMA StoreRefines ==
  ASSUME Proper, Inv, Inv', MonInv, NEW t \in Threads, StoreExclusive(t)
  PROVE  Atomic!Exchange(t) \/ Atomic!Lose(t)
<1> DEFINE w == Text[home[pc[t]]] x == Status(w)
<1>0. pc[t] \notin TextWords /\ TypeOK /\ TypeOK' /\ At(t).op = "strex"
  BY Special DEF Inv, StoreExclusive
<1>1. /\ At(t).a = x /\ At(t).b = w.b /\ At(t).c = w.c /\ Same(pc[t], pc[t] + 1, "cmp")
      /\ IsSwp(w) /\ w.a \in Regs /\ w.b \in Regs /\ w.c \in Regs /\ x \in Regs
  BY <1>0, InTramp, Home
<1>2. PICK v \in {0, 1} :
        /\ UNCHANGED <<code, home, saved, flag>> /\ pc'[t] = pc[t] + 1
        /\ reg'[t] = [reg[t] EXCEPT ![x] = v]
        /\ \A u \in Threads \ {t} : pc'[u] = pc[u] /\ reg'[u] = reg[u]
        /\ v = 0 => /\ mem' = [mem EXCEPT ![reg[t][w.c]] = reg[t][w.b]]
                    /\ excl[t] = reg[t][w.c]
        /\ v = 1 => mem' = mem
  <2>1. /\ UNCHANGED <<code, home, saved, flag>> /\ pc'[t] = pc[t] + 1
        /\ \A u \in Threads \ {t} : pc'[u] = pc[u]
    BY <1>0 DEF StoreExclusive, Goto, TypeOK, bootVars
  <2>2. \A v : SetReg(t, x, v) => /\ reg'[t] = [reg[t] EXCEPT ![x] = v]
                                  /\ \A u \in Threads \ {t} : reg'[u] = reg[u]
    BY <1>0 DEF SetReg, TypeOK
  <2>3. \/ /\ excl[t] = reg[t][w.c] /\ SetReg(t, x, 0)
           /\ mem' = [mem EXCEPT ![reg[t][w.c]] = reg[t][w.b]]
        \/ SetReg(t, x, 1) /\ mem' = mem
    BY <1>0, <1>1 DEF StoreExclusive
  <2>4. CASE excl[t] = reg[t][w.c] /\ SetReg(t, x, 0)
             /\ mem' = [mem EXCEPT ![reg[t][w.c]] = reg[t][w.b]]
    <3>1. /\ reg'[t] = [reg[t] EXCEPT ![x] = 0]
          /\ \A u \in Threads \ {t} : reg'[u] = reg[u]
      BY <2>2, <2>4
    <3>2. excl[t] = reg[t][w.c] /\ mem' = [mem EXCEPT ![reg[t][w.c]] = reg[t][w.b]]
      BY <2>4
    <3>3. 0 # 1 OBVIOUS
    <3> HIDE DEF w, x
    <3> WITNESS 0 \in {0, 1}
    <3> QED BY <3>1, <3>2, <3>3, <2>1
  <2>5. CASE SetReg(t, x, 1) /\ mem' = mem
    <3>1. /\ reg'[t] = [reg[t] EXCEPT ![x] = 1]
          /\ \A u \in Threads \ {t} : reg'[u] = reg[u]
      BY <2>2, <2>5
    <3> WITNESS 1 \in {0, 1}
    <3> QED BY <3>1, <2>1, <2>5
  <2> QED BY <2>3, <2>4, <2>5
<1>3. pc'[t] \notin TextWords /\ home'[pc'[t]] = home[pc[t]] /\ At(t)'.op = "cmp"
  BY <1>1, <1>2 DEF Same, At
<1>a. At(t)'.a = x
  BY <1>3, InTrampNext
<1>4. /\ PcBar' = [PcBar EXCEPT ![t] = PcOf(t)'] /\ RegBar' = [RegBar EXCEPT ![t] = RegOf(t)']
      /\ FlagBar' = [FlagBar EXCEPT ![t] = FlagOf(t)']
  BY <1>2, OneThread
<1>5. PcOf(t) = home[pc[t]] /\ PcOf(t)' = IF v = 0 THEN PcOf(t) + 1 ELSE PcOf(t)
  <2>1. reg'[t][x] = v
    BY <1>0, <1>1, <1>2 DEF TypeOK
  <2>2. Stored(t)' = (v = 0)
    BY <2>1, <1>3, <1>a DEF Stored
  <2> QED BY <2>2, <1>0, <1>3 DEF PcOf, Stored, InTrampoline
<1>b. reg[t] \in [Regs -> Values] /\ reg'[t] \in [Regs -> Values]
  BY <1>0 DEF TypeOK
<1>6. /\ \A r \in Regs \ Clobbered(w) : RegOf(t)'[r] = RegOf(t)[r]
      /\ RegOf(t)'[w.a] = reg[t][w.a] /\ RegOf(t)[w.b] = reg[t][w.b] /\ RegOf(t)[w.c] = reg[t][w.c]
  <2>1. CASE IsFast(w)
    <3>1. RegOf(t) = reg[t] /\ RegOf(t)' = reg'[t]
      BY <2>1, <1>3 DEF RegOf, Pushed
    <3>2. \A r \in Regs : r # x => reg'[t][r] = reg[t][r]
      BY <1>b, <1>1, <1>2
    <3>3. w.a # x BY <1>0, Scratched
    <3>4. reg'[t][w.a] = reg[t][w.a] BY <3>2, <3>3, <1>1
    <3> QED BY <2>1, <3>1, <3>2, <3>4, <1>0, Scratched
  <2>2. CASE ~IsFast(w)
    <3>1. /\ RegOf(t) = [reg[t] EXCEPT ![x] = saved[t]]
          /\ RegOf(t)' = [reg'[t] EXCEPT ![x] = saved[t]]
      BY <2>2, <1>0, <1>2, <1>3, Scratched DEF RegOf, Pushed, InTrampoline
    <3>2. w.a # x /\ w.b # x /\ w.c # x
      BY <1>0, Scratched
    <3>3. \A r \in Regs : r # x => reg'[t][r] = reg[t][r]
      BY <1>b, <1>1, <1>2
    <3>4. /\ \A r \in Regs : r # x => RegOf(t)[r] = reg[t][r] /\ RegOf(t)'[r] = reg'[t][r]
          /\ RegOf(t)[x] = RegOf(t)'[x]
      BY <3>1, <1>b, <1>1
    <3> QED BY <3>2, <3>3, <3>4, <1>1
  <2> QED BY <2>1, <2>2
<1>7. CASE v = 0
  <2>1. reg[t][w.c] \in Values /\ None \notin Values
    <3>1. reg[t][w.c] \in Values BY <1>b, <1>1
    <3>2. None \notin Values BY RegAssumption DEF None
    <3> QED BY <3>1, <3>2
  <2>2. reg[t][w.a] = mem[reg[t][w.c]]
    BY <2>1, <1>2, <1>7 DEF MonInv, Watches
  <2> QED BY <2>2, <1>0, <1>1, <1>2, <1>4, <1>5, <1>6, <1>7, Exchanges
<1>8. CASE v = 1
  <2>1. mem' = mem /\ PcOf(t)' = PcOf(t) /\ Text[PcOf(t)] = w
    BY <1>8, <1>2, <1>5
  <2> QED BY <2>1, <1>0, <1>1, <1>4, <1>6, Loses
<1> QED BY <1>7, <1>8

LEMMA PushRefines ==
  ASSUME Proper, Inv, NEW t \in Threads, PushReg(t)
  PROVE  UNCHANGED <<PcBar, RegBar, FlagBar, mem>>
<1> DEFINE w == Text[home[pc[t]]] x == Status(w)
<1>0. pc[t] \notin TextWords /\ TypeOK /\ At(t).op = "push"
  BY Special DEF Inv, PushReg
<1>1. At(t).a = x /\ ~IsFast(w) /\ Same(pc[t], pc[t] + 1, "ldrex") /\ x \in Regs
  BY <1>0, InTramp, Home
<1>2. /\ UNCHANGED <<code, home, reg, flag, mem>> /\ pc'[t] = pc[t] + 1 /\ saved'[t] = reg[t][x]
      /\ \A u \in Threads \ {t} : pc'[u] = pc[u] /\ saved'[u] = saved[u]
  BY <1>0, <1>1 DEF PushReg, Goto, TypeOK, bootVars
<1>3. pc'[t] \notin TextWords /\ home'[pc'[t]] = home[pc[t]] /\ At(t)'.op = "ldrex"
  BY <1>1, <1>2 DEF Same, At
<1>4. /\ PcBar' = [PcBar EXCEPT ![t] = PcOf(t)'] /\ RegBar' = [RegBar EXCEPT ![t] = RegOf(t)']
      /\ FlagBar' = [FlagBar EXCEPT ![t] = FlagOf(t)']
  BY <1>2, OneThread
<1>5. PcOf(t)' = PcOf(t) /\ FlagOf(t)' = FlagOf(t)
  BY <1>0, <1>2, <1>3 DEF PcOf, FlagOf, Stored, InTrampoline
<1>6. RegOf(t)' = RegOf(t)
  <2>1. RegOf(t) = reg[t] /\ RegOf(t)' = [reg[t] EXCEPT ![Scratch(w)] = reg[t][x]]
    BY <1>0, <1>1, <1>2, <1>3 DEF RegOf, Pushed, InTrampoline
  <2> QED BY <2>1, <1>0, <1>1, Scratched DEF TypeOK
<1> QED BY <1>2, <1>4, <1>5, <1>6, Hidden

LEMMA PopRefines ==
  ASSUME Proper, Inv, MonInv, NEW t \in Threads, PopReg(t)
  PROVE  UNCHANGED <<PcBar, RegBar, FlagBar, mem>>
<1> DEFINE w == Text[home[pc[t]]] x == Status(w)
<1>0. pc[t] \notin TextWords /\ TypeOK /\ At(t).op = "pop" /\ flag[t]
  BY Special DEF Inv, PopReg, MonInv, Leaves
<1>1. At(t).a = x /\ ~IsFast(w) /\ Same(pc[t], pc[t] + 1, "b") /\ x \in Regs
  BY <1>0, InTramp, Home
<1>2. /\ UNCHANGED <<code, home, saved, flag, mem>> /\ pc'[t] = pc[t] + 1
      /\ reg'[t] = [reg[t] EXCEPT ![x] = saved[t]]
      /\ \A u \in Threads \ {t} : pc'[u] = pc[u] /\ reg'[u] = reg[u]
  BY <1>0, <1>1 DEF PopReg, Goto, SetReg, TypeOK, bootVars
<1>3. pc'[t] \notin TextWords /\ home'[pc'[t]] = home[pc[t]] /\ At(t)'.op = "b"
  BY <1>1, <1>2 DEF Same, At
<1>4. /\ PcBar' = [PcBar EXCEPT ![t] = PcOf(t)'] /\ RegBar' = [RegBar EXCEPT ![t] = RegOf(t)']
      /\ FlagBar' = [FlagBar EXCEPT ![t] = FlagOf(t)']
  BY <1>2, OneThread
<1>5. PcOf(t)' = PcOf(t) /\ FlagOf(t)' = FlagOf(t)
  BY <1>0, <1>2, <1>3 DEF PcOf, FlagOf, Stored, InTrampoline
<1>6. RegOf(t)' = RegOf(t)
  BY <1>0, <1>1, <1>2, <1>3, Scratched DEF RegOf, Pushed, InTrampoline
<1> QED BY <1>2, <1>4, <1>5, <1>6, Hidden

LEMMA BootRefines ==
  ASSUME Inv, Skip \/ Replace \/ NoRoom \/ Launch \/ UNCHANGED vars
         \/ \E t \in Threads : Interrupt(t)
  PROVE  UNCHANGED <<PcBar, RegBar, FlagBar, mem>>
<1>1. CASE Skip \/ Replace \/ NoRoom \/ Launch
  <2>1. UNCHANGED cpuVars
    BY <1>1 DEF Skip, Replace, NoRoom, Launch
  <2>2. \A t \in Threads : pc[t] \in TextWords
    BY <1>1, TextAssumption DEF Inv, BootInv, Skip, Replace, NoRoom, Launch, Scanning
  <2>3. \A t \in Threads : /\ PcOf(t) = pc[t] /\ RegOf(t) = reg[t] /\ FlagOf(t) = flag[t]
                           /\ PcOf(t)' = pc[t] /\ RegOf(t)' = reg[t] /\ FlagOf(t)' = flag[t]
    BY <2>1, <2>2 DEF cpuVars, PcOf, RegOf, FlagOf, Pushed, InTrampoline, Inv, TypeOK
  <2> QED BY <2>1, <2>3 DEF cpuVars, PcBar, RegBar, FlagBar
<1>2. CASE UNCHANGED vars \/ \E t \in Threads : Interrupt(t)
  <2>1. UNCHANGED <<code, home, pc, reg, flag, saved, mem>>
    BY <1>2 DEF vars, bootVars, cpuVars, Interrupt
  <2> QED BY <2>1 DEF PcBar, RegBar, FlagBar, PcOf, RegOf, FlagOf, Stored, Pushed, InTrampoline, At
<1> QED BY <1>1, <1>2

LEMMA InitRefines == Init => Atomic!Init
<1> SUFFICES ASSUME Init PROVE Atomic!Init
  OBVIOUS
<1>1. \A t \in Threads : /\ PcOf(t) = Start[t] /\ RegOf(t) = reg[t] /\ FlagOf(t) = flag[t]
  BY TextAssumption DEF Init, PcOf, RegOf, FlagOf, Pushed, InTrampoline
<1>2. PcBar = Start /\ RegBar = reg /\ FlagBar = flag
  BY <1>1, TextAssumption DEF Init, PcBar, RegBar, FlagBar
<1> QED BY <1>2 DEF Init, Atomic!Init

\* The patched program implements the engine's text with a real, atomic SWP, for any
\* text whose exchanges have proper operands, any threads and any arenas.
THEOREM ImplementsSwap ==
  ASSUME Proper
  PROVE  Spec => SwapSpec
<1>1. Init => MonInv
  BY TextAssumption DEF Init, MonInv, Leaves
<1>2. Inv /\ Inv' /\ MonInv /\ [Next]_vars => [Atomic!Next]_<<PcBar, RegBar, FlagBar, mem>>
  <2> SUFFICES ASSUME Inv, Inv', MonInv, [Next]_vars
               PROVE  [Atomic!Next]_<<PcBar, RegBar, FlagBar, mem>>
    OBVIOUS
  <2>1. ASSUME NEW t \in Threads, Run(t) PROVE [Atomic!Next]_<<PcBar, RegBar, FlagBar, mem>>
    BY <2>1, RunRefines DEF Atomic!Next
  <2>2. ASSUME NEW t \in Threads, LoadExclusive(t) PROVE Atomic!Next
    BY <2>2, LoadRefines DEF Atomic!Next
  <2>3. ASSUME NEW t \in Threads, StoreExclusive(t) PROVE Atomic!Next
    BY <2>3, StoreRefines DEF Atomic!Next
  <2>4. ASSUME NEW t \in Threads, PushReg(t) \/ PopReg(t)
        PROVE  UNCHANGED <<PcBar, RegBar, FlagBar, mem>>
    BY <2>4, PushRefines, PopRefines
  <2>5. CASE \/ Skip \/ Replace \/ NoRoom \/ Launch \/ UNCHANGED vars
             \/ \E t \in Threads : Interrupt(t)
    BY <2>5, BootRefines
  <2> QED BY <2>1, <2>2, <2>3, <2>4, <2>5 DEF Next, ThreadNext
<1> QED BY <1>1, <1>2, MonNext, InitRefines, Invariant, PTL DEF Spec, SwapSpec, Atomic!Spec, Atomic!vars
-------------------------------------------------------------------------------
(* Locks, in the engine's text with an atomic SWP.  The owner is in the    *)
(* guarded words or has got the 0 that will take it there; while there is  *)
(* one the lock is not 0.                                                  *)
Owner(t) ==
  \/ PcBar[t] \in Guarded
  \/ Acquires(PcBar[t] - 1) /\ RegBar[t][Text[PcBar[t] - 1].a] = 0
  \/ Acquires(PcBar[t] - 2) /\ FlagBar[t]
Believed == \A t \in Threads : \A k \in Knows[PcBar[t]] : RegBar[t][k[1]] = k[2]
OneOwner == \A t, u \in Threads : Owner(t) /\ Owner(u) => t = u
Taken == \A t \in Threads : Owner(t) => mem[Lock] # 0
AtomicType ==
  /\ PcBar \in [Threads -> TextWords] /\ RegBar \in [Threads -> [Regs -> Values]]
  /\ FlagBar \in [Threads -> BOOLEAN] /\ mem \in [Values -> Values]
LockInv == AtomicType /\ Believed /\ OneOwner /\ Taken

\* What the discipline says of an instruction that follows an acquisition's exchange.
LEMMA Nearby ==
  ASSUME Locking, NEW p \in TextWords
  PROVE  /\ p \in Int /\ p - 1 + 1 = p /\ p - 2 + 2 = p
         /\ Acquires(p - 1) => IsCompareOf(Text[p], Text[p - 1].a) /\ Tests(p, Text[p - 1].a)
         /\ Acquires(p - 2) => Text[p].op = "bne" /\ Text[p].a \notin Guarded
<1>1. p \in Int /\ p - 1 + 1 = p /\ p - 2 + 2 = p
  BY SizeAssumption DEF TextWords
<1>2. \A a : Acquires(a) => Acquisition(a)
  BY DEF Locking, Acquires
<1> QED BY <1>1, <1>2 DEF Acquisition, Tests, IsCompareOf

\* The operands of an instruction, and where it may lead.
LEMMA TextFacts ==
  ASSUME NEW p \in TextWords
  PROVE  /\ Text[p].op \in Plain \cup {"swp"} /\ Text[p].c \in Regs
         /\ Text[p].op \notin Branches => Text[p].a \in Regs
         /\ Text[p].op = "mov" => Text[p].b \in Values
         /\ Text[p].op # "mov" => Text[p].b \in Regs
         /\ Follows(p) \subseteq TextWords
<1>1. Text[p].op \in Branches => Text[p].a \in TextWords
  BY TextAssumption
<1>2. Text[p].op # "b" => p + 1 \in TextWords
  BY TextAssumption
<1>3. Follows(p) \subseteq TextWords
  BY <1>1, <1>2 DEF Follows, Branches
<1> QED BY <1>3, TextAssumption

\* Thread t goes from p to q; what is known at q is true of its new registers.
LEMMA KnowsOn ==
  ASSUME Tracked, NEW p \in TextWords, NEW q \in Follows(p),
         NEW r \in [Regs -> Values], NEW s \in [Regs -> Values],
         \A k \in Knows[p] : r[k[1]] = k[2],
         \A x \in Regs : x \notin Changes(Text[p]) => s[x] = r[x],
         Text[p].op = "mov" => s[Text[p].a] = Text[p].b
  PROVE  \A k \in Knows[q] : s[k[1]] = k[2]
<1>1. q \in TextWords
  BY TextFacts
<1> TAKE k \in Knows[q]
<1>2. k \in Regs \X Values
  BY <1>1, LockAssumption
<1>3. \/ k \in Knows[p] /\ k[1] \notin Changes(Text[p])
      \/ Text[p].op = "mov" /\ k = <<Text[p].a, Text[p].b>>
  BY DEF Tracked
<1> QED BY <1>2, <1>3

\* A step of t changes nothing for the others but the lock.
LEMMA OthersOwn ==
  ASSUME AtomicType, NEW t \in Threads, NEW p, NEW r, NEW f,
         PcBar' = [PcBar EXCEPT ![t] = p], RegBar' = [RegBar EXCEPT ![t] = r],
         FlagBar' = [FlagBar EXCEPT ![t] = f]
  PROVE  \A u \in Threads \ {t} : (Owner(u)' <=> Owner(u)) /\ PcBar'[u] = PcBar[u] /\ RegBar'[u] = RegBar[u]
<1>1. \A u \in Threads \ {t} : PcBar'[u] = PcBar[u] /\ RegBar'[u] = RegBar[u] /\ FlagBar'[u] = FlagBar[u]
  BY DEF AtomicType
<1> QED BY <1>1 DEF Owner

\* The status of t after a step to q: as an owner it was one before, or it has just made
\* the exchange.
LEMMA StillOwner ==
  ASSUME Locking, AtomicType, Believed, NEW t \in Threads, NEW p, NEW q, NEW r, NEW s, NEW f, NEW g,
         p = PcBar[t], q \in Follows(p), r = RegBar[t], f = FlagBar[t],
         PcBar'[t] = q, RegBar'[t] = s, FlagBar'[t] = g, Owner(t)',
         Text[p].op \in {"cmp", "cmpreg"} => g = FlagAfter(Text[p], r, f),
         Text[p].op = "bne" => q = PcAfter(Text[p], p, f)
  PROVE  Owner(t) \/ (Acquires(p) /\ q = p + 1 /\ s[Text[p].a] = 0)
<1>1. p \in TextWords /\ q \in TextWords /\ r \in [Regs -> Values] /\ f \in BOOLEAN
  BY TextFacts DEF AtomicType
<1>2. /\ Acquires(q - 1) \/ Acquires(q - 2) => p = q - 1
      /\ q \in Guarded => p \in Guarded \/ (Acquires(p - 2) /\ q = p + 1)
  BY <1>1 DEF Locking
<1>3. p \in Int /\ q \in Int
  BY <1>1, Nearby
<1>4. CASE q \in Guarded
  <2>1. CASE Acquires(p - 2) /\ q = p + 1
    <3>1. Text[p].op = "bne" /\ Text[p].a # q
      BY <1>1, <1>4, <2>1, Nearby
    <3>2. f
      BY <1>1, <3>1 DEF PcAfter
    <3> QED BY <2>1, <3>2 DEF Owner
  <2> QED BY <1>2, <1>4, <2>1 DEF Owner
<1>5. CASE Acquires(q - 1) /\ s[Text[q - 1].a] = 0
  <2>1. p = q - 1 /\ q = p + 1
    BY <1>2, <1>3, <1>5
  <2> QED BY <1>5, <2>1
<1>6. CASE Acquires(q - 2) /\ g
  <2>1. p = q - 1 /\ p - 1 = q - 2
    BY <1>2, <1>3, <1>6
  <2>2. Acquires(p - 1) /\ IsCompareOf(Text[p], Text[p - 1].a) /\ Tests(p, Text[p - 1].a)
    BY <1>1, <1>6, <2>1, Nearby
  <2>3. g = FlagAfter(Text[p], r, f) /\ Text[p].a = Text[p - 1].a
    BY <2>2 DEF IsCompareOf
  <2>4. Text[p].op = "cmpreg" => r[Text[p].b] = 0
    BY <2>2 DEF Tests, Believed
  <2>5. r[Text[p - 1].a] = 0
    BY <1>6, <2>2, <2>3, <2>4 DEF FlagAfter, IsCompareOf
  <2> QED BY <2>2, <2>5 DEF Owner
<1> QED BY <1>4, <1>5, <1>6 DEF Owner

LEMMA LockRun == ASSUME Disciplined, LockInv, NEW t \in Threads, Atomic!Run(t) PROVE LockInv'
<1> USE DEF Disciplined
<1> PICK p, r, f : p = PcBar[t] /\ r = RegBar[t] /\ f = FlagBar[t]
  OBVIOUS
<1> PICK q, s, g : /\ q = PcAfter(Text[p], p, f) /\ s = RegAfter(Text[p], r)
                   /\ g = FlagAfter(Text[p], r, f)
  OBVIOUS
<1>1. /\ p \in TextWords /\ r \in [Regs -> Values] /\ f \in BOOLEAN /\ mem \in [Values -> Values]
      /\ AtomicType /\ Believed
  BY DEF LockInv, AtomicType
<1>2. /\ Text[p].op \in Plain
      /\ PcBar' = [PcBar EXCEPT ![t] = q] /\ RegBar' = [RegBar EXCEPT ![t] = s]
      /\ FlagBar' = [FlagBar EXCEPT ![t] = g] /\ mem' = MemAfter(Text[p], r, mem)
  BY SameMeaning DEF Atomic!Run, Atomic!At
<1>3. PcBar'[t] = q /\ RegBar'[t] = s /\ FlagBar'[t] = g
  BY <1>1, <1>2 DEF AtomicType
<1>4. q \in Follows(p) /\ q \in TextWords
  <2>1. q \in Follows(p)
    BY DEF PcAfter, Follows
  <2> QED BY <1>1, <2>1, TextFacts
<1>5. /\ s \in [Regs -> Values] /\ g \in BOOLEAN
      /\ \A x \in Regs : x \notin Changes(Text[p]) => s[x] = r[x]
      /\ Text[p].op = "mov" => s[Text[p].a] = Text[p].b
  BY <1>1, TextFacts DEF RegAfter, FlagAfter, Changes, Branches
<1>6. \A k \in Knows[p] : r[k[1]] = k[2]
  BY <1>1 DEF Believed
<1>7. Believed'
  <2>1. \A k \in Knows[q] : s[k[1]] = k[2]
    BY <1>1, <1>4, <1>5, <1>6, KnowsOn
  <2>2. \A u \in Threads \ {t} : PcBar'[u] = PcBar[u] /\ RegBar'[u] = RegBar[u]
    BY <1>1, <1>2, OthersOwn
  <2> QED BY <1>1, <1>3, <2>1, <2>2 DEF Believed
<1>8. \A u \in Threads : Owner(u)' => Owner(u)
  <2>1. Owner(t)' => Owner(t)
    <3>1. ~Acquires(p)
      BY <1>2 DEF Acquires, IsSwp, Plain
    <3> QED BY <1>1, <1>3, <1>4, <3>1, StillOwner
  <2>2. \A u \in Threads \ {t} : Owner(u)' <=> Owner(u)
    BY <1>1, <1>2, OthersOwn
  <2> QED BY <2>1, <2>2
<1>9. mem' \in [Values -> Values]
  BY <1>1, <1>2, TextFacts DEF MemAfter
<1>10. AtomicType'
  BY <1>1, <1>2, <1>4, <1>5, <1>9 DEF AtomicType
<1>11. OneOwner'
  BY <1>8 DEF LockInv, OneOwner
<1>12. Taken'
  <2>1. CASE Text[p].op = "str" /\ Release(p)
    <3>1. Owner(t)
      BY <2>1 DEF Release, Owner
    <3>2. ~Owner(t)'
      <4>1. q = p + 1 /\ q \notin Guarded /\ ~Acquires(p)
        BY <2>1 DEF Release, PcAfter, Acquires, IsSwp
      <4>2. ~Acquires(p - 1)
        BY <1>1, <2>1, Nearby DEF IsCompareOf
      <4>3. q - 1 = p /\ q - 2 = p - 1
        BY <1>1, <4>1, Nearby
      <4> QED BY <1>3, <4>1, <4>2, <4>3 DEF Owner
    <3>3. \A u \in Threads : ~Owner(u)'
      BY <1>8, <3>1, <3>2 DEF LockInv, OneOwner
    <3> QED BY <3>3 DEF Taken
  <2>2. CASE Text[p].op = "str" /\ IsElsewhere(p, Text[p].c)
    <3>1. r[Text[p].c] # Lock
      BY <1>6, <2>2 DEF IsElsewhere
    <3>2. mem'[Lock] = mem[Lock]
      BY <1>1, <1>2, <2>2, <3>1, LockAssumption DEF MemAfter
    <3> QED BY <1>8, <3>2 DEF LockInv, Taken
  <2>3. CASE Text[p].op # "str"
    <3>1. mem' = mem
      BY <1>2, <2>3 DEF MemAfter
    <3> QED BY <1>8, <3>1 DEF LockInv, Taken
  <2> QED BY <1>1, <2>1, <2>2, <2>3 DEF Locking
<1> QED BY <1>7, <1>10, <1>11, <1>12 DEF LockInv

\* At an exchange no thread is on its way from another one.
LEMMA FreshOwner ==
  ASSUME Locking, NEW p \in TextWords, IsSwp(Text[p])
  PROVE  ~Acquires(p - 1) /\ ~Acquires(p - 2)
BY Nearby DEF IsSwp, IsCompareOf

LEMMA LockLose == ASSUME Disciplined, LockInv, NEW t \in Threads, Atomic!Lose(t) PROVE LockInv'
<1> USE DEF Disciplined
<1> PICK p, s, g : p = PcBar[t] /\ s = RegBar'[t] /\ g = FlagBar'[t]
  OBVIOUS
<1>1. AtomicType /\ Believed /\ p \in TextWords /\ IsSwp(Text[p])
  BY DEF LockInv, AtomicType, Atomic!Lose, Atomic!At, IsSwp
<1>2. /\ RegBar' \in [Threads -> [Regs -> Values]] /\ RegBar' = [RegBar EXCEPT ![t] = s]
      /\ FlagBar' \in [Threads -> BOOLEAN] /\ FlagBar' = [FlagBar EXCEPT ![t] = g]
      /\ \A x \in Regs \ Clobbered(Text[p]) : s[x] = RegBar[t][x]
      /\ PcBar' = PcBar /\ mem' = mem
  BY SameMeaning DEF Atomic!Lose, Atomic!Keeps, Atomic!At
<1>3. PcBar' = [PcBar EXCEPT ![t] = p]
  BY <1>1, <1>2 DEF AtomicType
<1>4. \A k \in Knows[p] : s[k[1]] = k[2]
  <2>1. \A k \in Knows[p] : k \in Regs \X Values /\ k[1] \notin Clobbered(Text[p])
    BY <1>1, LockAssumption DEF Tracked
  <2> QED BY <1>1, <1>2, <2>1 DEF Believed
<1>5. Believed'
  <2>1. \A u \in Threads \ {t} : PcBar'[u] = PcBar[u] /\ RegBar'[u] = RegBar[u]
    BY <1>1, <1>2, <1>3, OthersOwn
  <2> QED BY <1>1, <1>2, <1>4, <2>1 DEF Believed
<1>6. \A u \in Threads : Owner(u)' => Owner(u)
  <2>1. Owner(t)' => Owner(t)
    BY <1>1, <1>2, FreshOwner DEF Owner
  <2>2. \A u \in Threads \ {t} : Owner(u)' <=> Owner(u)
    BY <1>1, <1>2, <1>3, OthersOwn
  <2> QED BY <2>1, <2>2
<1> QED BY <1>1, <1>2, <1>5, <1>6 DEF LockInv, AtomicType, OneOwner, Taken

LEMMA LockExchange == ASSUME Disciplined, LockInv, NEW t \in Threads, Atomic!Exchange(t) PROVE LockInv'
<1> USE DEF Disciplined
<1> PICK p, r, s, g : p = PcBar[t] /\ r = RegBar[t] /\ s = RegBar'[t] /\ g = FlagBar'[t]
  OBVIOUS
<1>1. /\ AtomicType /\ Believed /\ p \in TextWords /\ IsSwp(Text[p]) /\ Text[p].op = "swp"
      /\ r \in [Regs -> Values] /\ mem \in [Values -> Values]
  BY DEF LockInv, AtomicType, Atomic!Exchange, Atomic!At, IsSwp
<1>2. /\ RegBar' \in [Threads -> [Regs -> Values]] /\ RegBar' = [RegBar EXCEPT ![t] = s]
      /\ FlagBar' \in [Threads -> BOOLEAN] /\ FlagBar' = [FlagBar EXCEPT ![t] = g]
      /\ \A x \in Regs \ Clobbered(Text[p]) : s[x] = r[x]
  BY SameMeaning DEF Atomic!Exchange, Atomic!Keeps, Atomic!At
<1>3. /\ s[Text[p].a] = mem[r[Text[p].c]] /\ mem' = [mem EXCEPT ![r[Text[p].c]] = r[Text[p].b]]
      /\ PcBar' = [PcBar EXCEPT ![t] = p + 1]
  BY DEF Atomic!Exchange, Atomic!At
<1>4. p + 1 \in Follows(p) /\ p + 1 \in TextWords /\ PcBar'[t] = p + 1 /\ s \in [Regs -> Values]
  <2>1. p + 1 \in Follows(p)
    BY <1>1 DEF Follows
  <2> QED BY <1>1, <1>2, <1>3, <2>1, TextFacts DEF AtomicType
<1>5. \A k \in Knows[p] : r[k[1]] = k[2]
  BY <1>1 DEF Believed
<1>6. Believed'
  <2>1. \A k \in Knows[p + 1] : s[k[1]] = k[2]
    <3>1. \A x \in Regs : x \notin Changes(Text[p]) => s[x] = r[x]
      BY <1>1, <1>2 DEF Changes
    <3> QED BY <1>1, <1>4, <1>5, <3>1, KnowsOn
  <2>2. \A u \in Threads \ {t} : PcBar'[u] = PcBar[u] /\ RegBar'[u] = RegBar[u]
    BY <1>1, <1>2, <1>3, OthersOwn
  <2> QED BY <1>1, <1>4, <2>1, <2>2 DEF Believed
<1>7. AtomicType'
  <2>1. mem' \in [Values -> Values]
    BY <1>1, <1>3, TextFacts
  <2> QED BY <1>1, <1>2, <1>3, <1>4, <2>1 DEF AtomicType
<1>8. \A u \in Threads \ {t} : Owner(u)' <=> Owner(u)
  BY <1>1, <1>2, <1>3, OthersOwn
<1>9. Owner(t)' => Owner(t) \/ (Acquires(p) /\ s[Text[p].a] = 0)
  BY <1>1, <1>4, StillOwner
<1>10. CASE ~Acquires(p)
  <2>1. PICK v \in Values \ {Lock} : <<Text[p].c, v>> \in Knows[p]
    BY <1>1, <1>10 DEF Locking, IsElsewhere
  <2>2. r[Text[p].c] # Lock
    BY <1>5, <2>1
  <2>3. mem'[Lock] = mem[Lock]
    BY <1>1, <1>3, <2>2, LockAssumption
  <2> QED BY <1>6, <1>7, <1>8, <1>9, <1>10, <2>3 DEF LockInv, OneOwner, Taken
<1>11. CASE Acquires(p)
  <2>1. Acquisition(p) /\ r[Text[p].c] = Lock
    BY <1>1, <1>5, <1>11 DEF Locking, Acquires, IsLock
  <2>2. r[Text[p].b] # 0
    BY <1>5, <2>1 DEF Acquisition
  <2>3. mem'[Lock] # 0 /\ s[Text[p].a] = mem[Lock]
    BY <1>1, <1>3, <2>1, <2>2, LockAssumption
  <2>4. ~Owner(t)
    BY <1>1, <2>1, FreshOwner DEF Owner, Acquisition
  <2>5. OneOwner'
    <3>1. Owner(t)' => \A u \in Threads : ~Owner(u)
      BY <1>9, <2>3, <2>4 DEF LockInv, Taken
    <3> QED BY <1>8, <3>1 DEF LockInv, OneOwner
  <2> QED BY <1>6, <1>7, <2>3, <2>5 DEF LockInv, Taken
<1> QED BY <1>10, <1>11

LEMMA LockInit == ASSUME Disciplined PROVE Atomic!Init => LockInv
<1> SUFFICES ASSUME Atomic!Init PROVE LockInv
  OBVIOUS
<1> USE DEF Disciplined, Atomic!Init
<1>1. \A t \in Threads : PcBar[t] = Start[t] /\ RegBar[t] = [r \in Regs |-> 0] /\ FlagBar[t] = FALSE
  OBVIOUS
<1>2. \A t \in Threads : ~Owner(t)
  BY <1>1 DEF Owner, Locking
<1>3. AtomicType
  BY TextAssumption, RegAssumption DEF AtomicType
<1>4. Believed
  <2>1. \A t \in Threads : \A k \in Knows[Start[t]] : k \in Regs \X Values /\ k[2] = 0
    BY TextAssumption, LockAssumption DEF Tracked
  <2> QED BY <1>1, <2>1 DEF Believed
<1> QED BY <1>2, <1>3, <1>4 DEF LockInv, OneOwner, Taken

\* The engine's spin locks exclude each other's owners after the patch as they did with
\* the SWP of the processor they were written for: for any number of threads, any lock
\* and any text that follows the discipline, wherever its trampolines have been put.
THEOREM LocksHold ==
  ASSUME Proper, Disciplined
  PROVE  Spec => []LocksExclude
<1>1. LockInv /\ [Atomic!Next]_<<PcBar, RegBar, FlagBar, mem>> => LockInv'
  <2> SUFFICES ASSUME LockInv, [Atomic!Next]_<<PcBar, RegBar, FlagBar, mem>> PROVE LockInv'
    OBVIOUS
  <2>1. CASE UNCHANGED <<PcBar, RegBar, FlagBar, mem>>
    BY <2>1 DEF LockInv, AtomicType, Believed, OneOwner, Taken, Owner
  <2> QED BY <2>1, LockRun, LockLose, LockExchange DEF Atomic!Next
<1>2. LockInv => LocksExclude
  <2> SUFFICES ASSUME LockInv, NEW t \in Threads, NEW u \in Threads, pc[t] \in Guarded, pc[u] \in Guarded
               PROVE  t = u
    BY DEF LocksExclude
  <2>1. PcBar[t] = pc[t] /\ PcBar[u] = pc[u]
    BY LockAssumption DEF PcBar, PcOf, InTrampoline
  <2> QED BY <2>1 DEF LockInv, OneOwner, Owner
<1> QED
  BY <1>1, <1>2, LockInit, ImplementsSwap, PTL DEF SwapSpec, Atomic!Spec, Atomic!vars
===============================================================================
