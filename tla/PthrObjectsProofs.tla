-------------------------- MODULE PthrObjectsProofs --------------------------
(***************************************************************************)
(* What PthrObjects promises for every number of threads and objects, if   *)
(* no two threads make the first use of an object at once and the table    *)
(* has room: the assumptions under which the code is meant to work.        *)
(***************************************************************************)
EXTENDS PthrObjects, FiniteSetTheorems, WellFoundedInduction, NaturalsInduction, TLAPS

Orderly ==
  /\ ~FirstUseRaces
  /\ IsFiniteSet(Objects) /\ Cardinality(Objects) <= Slots

Items(s) == {s[i] : i \in DOMAIN s}
Pending(t) == Items(todo[t])
Birthing == {"check", "alloc", "setup", "remember"}
Inits == {"init", "initdefault"}
Args(t) == {mu[t], co[t]} \ {Zero}

(* Where a call can be, and what it has still to bring to life.            *)
CallInv(t) ==
  /\ step[t] \notin Birthing => todo[t] = << >>
  /\ step[t] \in Birthing =>
       \/ todo[t] = <<mu[t]>> /\ mu[t] \in Mutexes
       \/ todo[t] = <<co[t]>> /\ co[t] \in Conds /\ mu[t] = Zero
       \/ todo[t] = <<co[t], mu[t]>> /\ co[t] \in Conds /\ mu[t] \in Mutexes
  /\ step[t] # "idle" =>
       /\ op[t] \in Inits \cup {"lock", "trylock"} => mu[t] \in Mutexes /\ co[t] = Zero
       /\ op[t] \in {"wait", "timedwait"} => mu[t] \in Mutexes /\ co[t] \in Conds
       /\ op[t] \in {"signal", "broadcast"} => mu[t] = Zero /\ co[t] \in Conds
       /\ op[t] # "none"
  /\ op[t] \in Inits => step[t] \in Birthing \cup {"idle"}
  /\ step[t] \in {"waiting", "relock"} => op[t] \in {"wait", "timedwait"}

(* An argument of a call lives, or the call has still to see to it.  An    *)
(* object that is not alive is on the list of one thread at most.          *)
ArgsInv(t) == step[t] # "idle" => \A o \in Args(t) : Registered(o) \/ o \in Pending(t)
SoloInv ==
  \A t, u \in Threads : \A o \in Pending(t) \cap Pending(u) : t = u \/ Registered(o)

(* The object a thread is bringing to life, step by step.                  *)
BirthInv(t) ==
  LET o == Head(todo[t]) IN
  /\ step[t] \in Birthing /\ (step[t] # "check" \/ op[t] \in Inits) => ~Registered(o)
  /\ step[t] \in {"setup", "remember"} => word[o] \in Handles
  /\ step[t] \in {"setup", "remember"} =>
       asked[t] = IF o \in Conds THEN "cond" ELSE given[o]
  /\ step[t] \in {"check", "alloc"} /\ op[t] = "init" => asked[t] = given[o]
  /\ step[t] = "setup" => kind[word[o]] = "raw"
  /\ step[t] = "remember" =>
       kind[word[o]] = asked[t] /\ owner[word[o]] = NoOne /\ depth[word[o]] = 0

(* The table, the words and the real objects agree.                        *)
Growing(o) == \E t \in Threads : step[t] \in {"setup", "remember"} /\ Head(todo[t]) = o
Renamed(o) == \E t \in Threads : step[t] \in Birthing /\ op[t] = "init" /\ Head(todo[t]) = o
TableInv ==
  /\ \A i, j \in 1..Slots : table[i] = table[j] /\ table[i] # Zero => i = j
  /\ \A o \in Objects :
       /\ Registered(o) => word[o] \in Handles
       /\ word[o] \in Handles => Registered(o) \/ Growing(o)
       /\ word[o] \in Handles => kind[word[o]] # "none"
       /\ Registered(o) => kind[word[o]] = IF o \in Conds THEN "cond" ELSE given[o]
  /\ \A m \in Mutexes : word[m] \in Kinds => word[m] = given[m] \/ Renamed(m)
  /\ \A o, p \in Objects : word[o] \in Handles /\ word[o] = word[p] => o = p
  /\ \A h \in Handles : kind[h] # "none" => \E o \in Objects : word[o] = h
  /\ \A h \in Handles : kind[h] = "none" => owner[h] = NoOne /\ depth[h] = 0

(* Who holds a mutex of the engine's holds the real one, as often.         *)
HeldInv ==
  \A m \in Mutexes :
    /\ ~Registered(m) => \A t \in Threads : holds[t][m] = 0
    /\ Registered(m) =>
         /\ owner[word[m]] = NoOne => depth[word[m]] = 0
         /\ \A t \in Threads :
              holds[t][m] = IF owner[word[m]] = t THEN depth[word[m]] ELSE 0
DepthInv(t) ==
  /\ step[t] # "idle" /\ op[t] \in {"lock", "trylock"} => holds[t][mu[t]] < MaxDepth
  /\ op[t] \in {"wait", "timedwait"} =>
       /\ step[t] \in Birthing \cup {"do"} => holds[t][mu[t]] = 1
       /\ step[t] \in {"waiting", "relock"} => holds[t][mu[t]] = 0
  /\ step[t] = "waiting" => waitsOn[t] = word[co[t]]

IInv ==
  /\ Typed /\ SoloInv /\ TableInv /\ HeldInv
  /\ \A t \in Threads : CallInv(t) /\ ArgsInv(t) /\ BirthInv(t) /\ DepthInv(t)
-----------------------------------------------------------------------------
USE ObjectAssumption, BoundAssumption

LEMMA Lists ==
  ASSUME NEW a, NEW b
  PROVE  /\ Items(<< >>) = {} /\ Items(<<a>>) = {a} /\ Items(<<a, b>>) = {a, b}
         /\ Head(<<a>>) = a /\ Head(<<a, b>>) = a
         /\ Tail(<<a>>) = << >> /\ Tail(<<a, b>>) = <<b>>
         /\ Len(<<a>>) = 1 /\ Len(<<a, b>>) = 2
<1>1. Items(<<a>>) = {a}
  <2>1. DOMAIN <<a>> = {1}
    OBVIOUS
  <2> QED BY <2>1 DEF Items
<1>2. Items(<<a, b>>) = {a, b}
  <2>1. DOMAIN <<a, b>> = {1, 2}
    OBVIOUS
  <2> QED BY <2>1 DEF Items
<1>3. Items(<< >>) = {}
  BY DEF Items
<1> QED BY <1>1, <1>2, <1>3

(* What a call that brings objects to life has on its list, and what is    *)
(* left when it proceeds.                                                  *)
LEMMA ListOf ==
  ASSUME Typed, NEW t \in Threads, CallInv(t), step[t] \in Birthing
  PROVE  /\ Head(todo[t]) \in Objects /\ Head(todo[t]) \in Pending(t)
         /\ Head(todo[t]) \in Args(t)
         /\ Pending(t) \subseteq Args(t) /\ Pending(t) \subseteq Objects
         /\ Items(Tail(todo[t])) = Pending(t) \ {Head(todo[t])}
         /\ Len(todo[t]) > 1 => todo[t] = <<co[t], mu[t]>> /\ Tail(todo[t]) = <<mu[t]>>
                                /\ mu[t] \in Mutexes /\ co[t] \in Conds
         /\ ~(Len(todo[t]) > 1) => Tail(todo[t]) = << >>
<1> DEFINE m == mu[t]  c == co[t]  s == todo[t]
<1>0. /\ Items(<< >>) = {} /\ Items(<<m>>) = {m} /\ Items(<<c>>) = {c} /\ Items(<<c, m>>) = {c, m}
      /\ Head(<<m>>) = m /\ Tail(<<m>>) = << >> /\ Len(<<m>>) = 1
      /\ Head(<<c>>) = c /\ Tail(<<c>>) = << >> /\ Len(<<c>>) = 1
      /\ Head(<<c, m>>) = c /\ Tail(<<c, m>>) = <<m>> /\ Len(<<c, m>>) = 2
  BY Lists
<1>1. CASE s = <<m>> /\ m \in Mutexes
  <2>1. Pending(t) = {m} /\ Head(s) = m /\ Items(Tail(s)) = {} /\ Tail(s) = << >> /\ Len(s) = 1
    BY <1>0, <1>1 DEF Pending
  <2> QED BY <1>1, <2>1 DEF Args, Objects
<1>2. CASE s = <<c>> /\ c \in Conds
  <2>1. Pending(t) = {c} /\ Head(s) = c /\ Items(Tail(s)) = {} /\ Tail(s) = << >> /\ Len(s) = 1
    BY <1>0, <1>2 DEF Pending
  <2> QED BY <1>2, <2>1 DEF Args, Objects
<1>3. CASE s = <<c, m>> /\ c \in Conds /\ m \in Mutexes
  <2>1. /\ Pending(t) = {c, m} /\ Head(s) = c /\ Items(Tail(s)) = {m} /\ Tail(s) = <<m>>
        /\ Len(s) = 2
    BY <1>0, <1>3 DEF Pending
  <2>2. m # c
    BY <1>3
  <2> QED BY <1>3, <2>1, <2>2 DEF Args, Objects
<1> QED BY <1>1, <1>2, <1>3 DEF CallInv

LEMMA NoList ==
  ASSUME NEW t \in Threads, CallInv(t), step[t] \notin Birthing
  PROVE  Pending(t) = {}
BY Lists DEF CallInv, Pending

(* The smallest of some naturals is one of them.                           *)
LEMMA MinIn ==
  ASSUME NEW S \in SUBSET Nat, S # {}
  PROVE  Min(S) \in S
<1>1. PICK x \in S : \A y \in S : ~(<<y, x>> \in OpToRel(<, Nat))
  BY WFMin, NatLessThanWellFounded
<1>2. ASSUME NEW y \in S PROVE x <= y
  <2>1. ~(<<y, x>> \in OpToRel(<, Nat)) /\ <<y, x>> \in Nat \X Nat
    BY <1>1
  <2>2. ~(y < x)
    BY <2>1 DEF OpToRel
  <2> QED
    BY <2>2
<1> QED
  BY <1>2 DEF Min

(* A table with room for every object has an empty entry while one object  *)
(* is not in it.                                                           *)
LEMMA RoomLeft ==
  ASSUME Orderly, Typed, TableInv, NEW o \in Objects, ~Registered(o)
  PROVE  Entries(Zero) # {}
<1> SUFFICES ASSUME Entries(Zero) = {} PROVE FALSE
  OBVIOUS
<1>1. table \in [1..Slots -> Objects \ {o}]
  BY DEF Typed, Entries, Registered
<1>2. /\ IsFiniteSet(Objects \ {o}) /\ Cardinality(Objects) \in Nat
      /\ Cardinality(Objects \ {o}) = Cardinality(Objects) - 1
  BY FS_RemoveElement, FS_CardinalityType DEF Orderly
<1>3. Slots \in Nat /\ Cardinality(Objects) <= Slots
  BY DEF Orderly
<1>4. Cardinality(Objects \ {o}) \in Nat
  BY <1>2, FS_CardinalityType
<1>5. IsFiniteSet(1..Slots) /\ Cardinality(1..Slots) = Slots
  BY <1>2, <1>3, <1>4, FS_Interval
<1>6. \E x, y \in 1..Slots : x # y /\ table[x] = table[y]
  BY <1>1, <1>2, <1>3, <1>4, <1>5, FS_PigeonHole
<1>7. \A x \in 1..Slots : table[x] # Zero
  BY DEF Entries
<1> QED BY <1>6, <1>7 DEF TableInv

LEMMA EntersTable ==
  ASSUME Orderly, Typed, TableInv, NEW o \in Objects, ~Registered(o),
         table' = Remembered(o)
  PROVE  \E i \in 1..Slots : table[i] = Zero /\ table' = [table EXCEPT ![i] = o]
<1>1. Min(Entries(Zero)) \in Entries(Zero)
  <2>1. Entries(Zero) \in SUBSET Nat
    BY DEF Entries
  <2> QED BY <2>1, RoomLeft, MinIn
<1> QED BY <1>1, RoomLeft DEF Remembered, Entries

LEMMA LeavesTable ==
  ASSUME Typed, TableInv, NEW o \in Objects, Registered(o), table' = Forgotten(o)
  PROVE  \E i \in 1..Slots : table[i] = o /\ table' = [table EXCEPT ![i] = Zero]
<1>1. Min(Entries(o)) \in Entries(o)
  <2>1. Entries(o) \in SUBSET Nat /\ Entries(o) # {}
    BY DEF Entries, Registered
  <2> QED BY <2>1, MinIn
<1> QED BY <1>1 DEF Forgotten, Entries
-----------------------------------------------------------------------------
(* Another thread's call does not move.                                    *)
Stays(u) ==
  /\ step'[u] = step[u] /\ op'[u] = op[u] /\ todo'[u] = todo[u]
  /\ mu'[u] = mu[u] /\ co'[u] = co[u] /\ asked'[u] = asked[u]

LEMMA StaysCall == ASSUME NEW u \in Threads, Stays(u), CallInv(u) PROVE CallInv(u)'
BY DEF Stays, CallInv, Birthing

LEMMA StaysLists ==
  ASSUME NEW u \in Threads, Stays(u)
  PROVE  Pending(u)' = Pending(u) /\ Args(u)' = Args(u) /\ Head(todo[u])' = Head(todo[u])
BY DEF Stays, Pending, Items, Args

(* Nothing a thread relies on while it brings o to life changes.           *)
Untouched(o) ==
  /\ (\E i \in 1..Slots : table'[i] = o) => Registered(o)
  /\ word'[o] = word[o]
  /\ word[o] \in Handles => /\ kind'[word[o]] = kind[word[o]]
                            /\ owner'[word[o]] = owner[word[o]]
                            /\ depth'[word[o]] = depth[word[o]]
  /\ o \in Mutexes => given'[o] = given[o]

LEMMA StaysBirth ==
  ASSUME Typed, NEW u \in Threads, Stays(u), CallInv(u), BirthInv(u),
         step[u] \in Birthing => Untouched(Head(todo[u]))
  PROVE  BirthInv(u)'
<1>1. CASE step[u] \notin Birthing
  BY <1>1 DEF BirthInv, Stays, Birthing
<1>2. CASE step[u] \in Birthing
  <2> DEFINE o == Head(todo[u])
  <2>1. /\ o \in Objects /\ o \in Args(u) /\ step[u] # "idle"
        /\ o \notin Conds => o \in Mutexes
    BY <1>2, ListOf DEF Birthing, Objects
  <2>2. op[u] = "init" => o \in Mutexes
    BY <2>1 DEF CallInv, Args, Inits
  <2>3. Head(todo[u])' = o
    BY DEF Stays
  <2> HIDE DEF o
  <2> QED BY <1>2, <2>1, <2>2, <2>3 DEF BirthInv, Stays, Untouched, Registered, o
<1> QED BY <1>1, <1>2

LEMMA StaysKeep ==
  ASSUME Typed, NEW u \in Threads, Stays(u),
         CallInv(u), ArgsInv(u), BirthInv(u), DepthInv(u),
         \A x \in Args(u) : step[u] # "idle" /\ Registered(x) => \E i \in 1..Slots : table'[i] = x,
         step[u] \in Birthing => Untouched(Head(todo[u])),
         holds'[u] = holds[u],
         step[u] = "waiting" => waitsOn'[u] = waitsOn[u] /\ word'[co[u]] = word[co[u]]
  PROVE  CallInv(u)' /\ ArgsInv(u)' /\ BirthInv(u)' /\ DepthInv(u)'
<1>1. CallInv(u)'
  BY StaysCall
<1>2. ArgsInv(u)'
  BY StaysLists DEF ArgsInv, Stays, Registered
<1>3. BirthInv(u)'
  BY StaysBirth
<1>4. DepthInv(u)'
  BY DEF DepthInv, Stays, Birthing
<1> QED BY <1>1, <1>2, <1>3, <1>4

(* The beginning of a call, in the same words for all of them.             *)
Began(t, name, m, c, objs) ==
  /\ Enter(t, name, m, c, objs)
  /\ \/ /\ name = "init" /\ m \in Mutexes /\ c = Zero /\ objs = <<m>>
        /\ ~Registered(m) /\ ~InUse(m)
        /\ \E k \in Kinds : asked' = [asked EXCEPT ![t] = k] /\ given' = [given EXCEPT ![m] = k]
     \/ /\ name = "initdefault" /\ m \in Mutexes /\ c = Zero /\ objs = <<m>>
        /\ ~Registered(m) /\ ~InUse(m)
        /\ given' = [given EXCEPT ![m] = StaticKind(m)] /\ UNCHANGED asked
     \/ /\ name \in {"lock", "trylock"} /\ m \in Mutexes /\ c = Zero /\ objs = <<m>>
        /\ holds[t][m] < MaxDepth /\ UNCHANGED <<asked, given>>
     \/ /\ name \in {"wait", "timedwait"} /\ m \in Mutexes /\ c \in Conds /\ objs = <<c, m>>
        /\ holds[t][m] = 1 /\ UNCHANGED <<asked, given>>
     \/ /\ name \in {"signal", "broadcast"} /\ m = Zero /\ c \in Conds /\ objs = <<c>>
        /\ UNCHANGED <<asked, given>>

LEMMA Begins ==
  ASSUME NEW t \in Threads, Calls(t)
  PROVE  \E name, m, c, objs : Began(t, name, m, c, objs)
<1>1. ASSUME NEW m \in Mutexes, NEW k \in Kinds, CallInit(t, m, k)
      PROVE  Began(t, "init", m, Zero, <<m>>)
  BY <1>1 DEF CallInit, Began
<1>0. ASSUME NEW m \in Mutexes, CallInitDefault(t, m)
      PROVE  Began(t, "initdefault", m, Zero, <<m>>)
  BY <1>0 DEF CallInitDefault, Began
<1>2. ASSUME NEW m \in Mutexes, CallLock(t, m)
      PROVE  \E name : Began(t, name, m, Zero, <<m>>)
  BY <1>2 DEF CallLock, Began
<1>3. ASSUME NEW m \in Mutexes, NEW c \in Conds, CallWait(t, c, m)
      PROVE  \E name : Began(t, name, m, c, <<c, m>>)
  BY <1>3 DEF CallWait, Began
<1>4. ASSUME NEW c \in Conds, CallSignal(t, c)
      PROVE  \E name : Began(t, name, Zero, c, <<c>>)
  BY <1>4 DEF CallSignal, Began
<1> QED BY <1>0, <1>1, <1>2, <1>3, <1>4 DEF Calls

LEMMA EnterKeeps ==
  ASSUME IInv, Orderly, NEW t \in Threads, Calls(t)
  PROVE  IInv'
<1>1. PICK name, m, c, objs : Began(t, name, m, c, objs)
  BY Begins
<1>2. /\ Typed /\ step[t] = "idle" /\ UNCHANGED <<table, word, kind, owner, depth, holds, waitsOn>>
      /\ m \in Mutexes \cup {Zero} /\ c \in Conds \cup {Zero}
      /\ name \in Inits \cup {"lock", "trylock", "wait", "timedwait", "signal", "broadcast"}
  BY <1>1 DEF IInv, Began, Enter, real, Inits
<1>3. objs \in Seq(Objects) /\ Items(objs) = {m, c} \ {Zero} /\ Head(objs) \in Items(objs)
  <2>0. /\ Items(<<m>>) = {m} /\ Head(<<m>>) = m /\ Items(<<c>>) = {c} /\ Head(<<c>>) = c
        /\ Items(<<c, m>>) = {c, m} /\ Head(<<c, m>>) = c
    BY Lists
  <2>1. CASE objs = <<m>> /\ m \in Mutexes /\ c = Zero
    <3>1. Items(objs) = {m} /\ Head(objs) = m
      BY <2>0, <2>1
    <3> QED BY <2>1, <3>1 DEF Objects
  <2>2. CASE objs = <<c, m>> /\ m \in Mutexes /\ c \in Conds
    <3>1. Items(objs) = {c, m} /\ Head(objs) = c
      BY <2>0, <2>2
    <3> QED BY <2>2, <3>1 DEF Objects
  <2>3. CASE objs = <<c>> /\ c \in Conds /\ m = Zero
    <3>1. Items(objs) = {c} /\ Head(objs) = c
      BY <2>0, <2>3
    <3> QED BY <2>3, <3>1 DEF Objects
  <2> QED BY <1>1, <2>1, <2>2, <2>3 DEF Began
<1>4. /\ step'[t] = "check" /\ op'[t] = name /\ todo'[t] = objs /\ mu'[t] = m /\ co'[t] = c
      /\ \A u \in Threads \ {t} : Stays(u)
  BY <1>1, <1>2 DEF Began, Enter, Typed, Stays
<1>5. Typed'
  <2>1. /\ step' \in [Threads -> {"idle", "check", "alloc", "setup", "remember", "do",
                                  "waiting", "relock"}]
        /\ op' \in [Threads -> {"none", "init", "initdefault", "lock", "trylock", "wait",
                                "timedwait", "signal", "broadcast"}]
        /\ todo' \in [Threads -> Seq(Objects)]
        /\ mu' \in [Threads -> Mutexes \cup {Zero}] /\ co' \in [Threads -> Conds \cup {Zero}]
    BY <1>1, <1>2, <1>3 DEF Began, Enter, Typed, Inits
  <2>2. asked' \in [Threads -> Kinds \cup {"cond"}] /\ given' \in [Mutexes -> Kinds]
    <3>1. asked \in [Threads -> Kinds \cup {"cond"}] /\ given \in [Mutexes -> Kinds]
      BY <1>2 DEF Typed
    <3>2. StaticKind(m) \in Kinds
      BY DEF StaticKind, Kinds
    <3> QED BY <1>1, <3>1, <3>2 DEF Began
  <2> QED BY <1>2, <2>1, <2>2 DEF Typed
<1>6. /\ \A o \in Objects : Registered(o)' = Registered(o)
      /\ \A u \in Threads \ {t} : /\ Pending(u)' = Pending(u) /\ Args(u)' = Args(u)
                                  /\ Head(todo[u])' = Head(todo[u])
      /\ Pending(t)' = Items(objs) /\ Args(t)' = Items(objs) /\ Pending(t) = {}
  <2>1. Pending(t) = {}
    BY <1>2, NoList DEF IInv, Birthing
  <2> QED BY <1>2, <1>3, <1>4, <2>1, StaysLists DEF Registered, Pending, Args
<1>w. \A o \in Mutexes : \/ given'[o] = given[o]
                         \/ /\ o = m /\ name \in Inits /\ ~Registered(m) /\ ~InUse(m)
                            /\ name = "initdefault" => given'[m] = StaticKind(m)
  <2>1. given \in [Mutexes -> Kinds]
    BY <1>2 DEF Typed
  <2> QED BY <1>1, <2>1 DEF Began, Inits
<1>7. SoloInv'
  <2>1. \A u \in Threads \ {t} : \A o \in Pending(u) \cap Items(objs) : Registered(o)
    BY <1>1 DEF Began, Enter, MayUse, Orderly, Pending, Items
  <2>2. \A u \in Threads : Pending(u) \subseteq Objects
    BY <1>2, ListOf, NoList DEF IInv
  <2>3. Items(objs) \subseteq Objects
    BY <1>2, <1>3 DEF Objects
  <2> QED BY <1>6, <2>1, <2>2, <2>3 DEF IInv, SoloInv
<1>8. ASSUME NEW u \in Threads PROVE CallInv(u)' /\ ArgsInv(u)' /\ BirthInv(u)' /\ DepthInv(u)'
  <2>1. CASE u = t
    <3>1. CallInv(t)'
      BY <1>1, <1>4 DEF Began, CallInv, Birthing, Inits
    <3>2. ArgsInv(t)'
      BY <1>6 DEF ArgsInv
    <3>3. BirthInv(t)'
      <4>1. CASE name \notin Inits
        BY <1>4, <4>1 DEF BirthInv, Birthing, Inits
      <4>2. CASE name = "init"
        <5>1. m \in Mutexes /\ objs = <<m>> /\ ~Registered(m) /\ asked'[t] = given'[m]
          <6>1. asked \in [Threads -> Kinds \cup {"cond"}] /\ given \in [Mutexes -> Kinds]
            BY <1>2 DEF Typed
          <6> QED BY <1>1, <4>2, <6>1 DEF Began
        <5>2. Head(todo[t])' = m /\ ~Registered(m)'
          BY <1>4, <1>6, <5>1, Lists DEF Objects
        <5>3. m \notin Conds
          BY <5>1
        <5> QED BY <1>4, <5>1, <5>2, <5>3 DEF BirthInv
      <4>3. CASE name = "initdefault"
        <5>1. objs = <<m>> /\ ~Registered(m)
          BY <1>1, <4>3 DEF Began
        <5>2. Head(todo[t])' = m /\ ~Registered(m)'
          BY <1>1, <1>4, <1>6, <4>3, <5>1, Lists DEF Began, Objects
        <5> QED BY <1>4, <4>3, <5>2 DEF BirthInv
      <4> QED BY <4>1, <4>2, <4>3 DEF Inits
    <3>4. DepthInv(t)'
      BY <1>1, <1>2, <1>4 DEF Began, DepthInv, Birthing
    <3> QED BY <2>1, <3>1, <3>2, <3>3, <3>4
  <2>2. CASE u # t
    <3>0. Stays(u) /\ CallInv(u) /\ ArgsInv(u) /\ BirthInv(u) /\ DepthInv(u)
      BY <1>4, <2>2 DEF IInv
    <3>1. CallInv(u)'
      BY <3>0, StaysCall
    <3>2. ArgsInv(u)'
      BY <1>2, <1>6, <2>2, <3>0 DEF ArgsInv, Stays, Args, Typed, Objects
    <3>3. DepthInv(u)'
      BY <1>2, <3>0 DEF DepthInv, Stays, Birthing
    <3>4. BirthInv(u)'
      <4>1. ASSUME step[u] \in Birthing PROVE Untouched(Head(todo[u]))
        <5>1. /\ Head(todo[u]) \in Objects /\ Head(todo[u]) \in Args(u)
              /\ step[u] # "idle"
          BY <1>2, <3>0, <4>1, ListOf DEF Birthing
        <5>2. Head(todo[u]) \in Mutexes => given'[Head(todo[u])] = given[Head(todo[u])]
          BY <1>w, <5>1 DEF InUse, Args
        <5> QED BY <1>2, <5>1, <5>2 DEF Untouched, Registered
      <4> QED BY <1>2, <3>0, <4>1, StaysBirth
    <3> QED BY <3>1, <3>2, <3>3, <3>4
  <2> QED BY <2>1, <2>2
<1>9. TableInv'
  <2>0. TableInv
    BY DEF IInv
  <2>1. \A o \in Objects : Growing(o) => Growing(o)'
    BY <1>2, <1>4, <1>6 DEF Growing, Stays
  <2>2. \A o \in Objects : Renamed(o) => Renamed(o)'
    BY <1>2, <1>4, <1>6 DEF Renamed, Stays, Birthing
  <2>3. name = "init" => Renamed(m)'
    <3> SUFFICES ASSUME name = "init" PROVE Renamed(m)'
      OBVIOUS
    <3>1. objs = <<m>>
      BY <1>1 DEF Began
    <3>2. Head(objs) = m
      BY <3>1, Lists
    <3> QED BY <1>4, <3>2 DEF Renamed, Birthing
  <2>4. \A o \in Mutexes : Registered(o) => given'[o] = given[o]
    BY <1>w
  <2>5. \A o \in Mutexes : \/ given'[o] = given[o] \/ Renamed(o)'
                           \/ word[o] \in Kinds => given'[o] = word[o]
    BY <1>w, <2>3 DEF Inits, StaticKind
  <2>6. \A o \in Objects : o \notin Conds => o \in Mutexes
    BY DEF Objects
  <2>7. \A o \in Mutexes : o \in Objects
    BY DEF Objects
  <2>8. \A o \in Objects :
       /\ Registered(o)' => word'[o] \in Handles
       /\ word'[o] \in Handles => Registered(o)' \/ Growing(o)'
       /\ word'[o] \in Handles => kind'[word'[o]] # "none"
       /\ Registered(o)' => kind'[word'[o]] = IF o \in Conds THEN "cond" ELSE given'[o]
    BY <1>2, <1>6, <2>0, <2>1, <2>4, <2>6 DEF TableInv
  <2>9. \A o \in Mutexes : word'[o] \in Kinds => word'[o] = given'[o] \/ Renamed(o)'
    BY <1>2, <2>0, <2>2, <2>5, <2>7 DEF TableInv
  <2> QED BY <1>2, <2>0, <2>8, <2>9 DEF TableInv
<1>10. HeldInv'
  BY <1>2, <1>6 DEF IInv, HeldInv, Objects
<1> QED BY <1>5, <1>7, <1>8, <1>9, <1>10 DEF IInv
-----------------------------------------------------------------------------
(* A call goes on to its next object, or to its work.                      *)
LEMMA Proceeds ==
  ASSUME Typed, NEW t \in Threads, CallInv(t), step[t] \in Birthing, Proceed(t),
         UNCHANGED <<op, mu, co, asked>>
  PROVE  /\ \A u \in Threads \ {t} : Stays(u)
         /\ CallInv(t)' /\ step'[t] \in {"check", "idle", "do"}
         /\ Pending(t)' = Pending(t) \ {Head(todo[t])} /\ Args(t)' = Args(t)
         /\ step'[t] = "check" => op[t] \notin Inits
         /\ step' \in [Threads -> {"idle", "check", "alloc", "setup", "remember", "do",
                                   "waiting", "relock"}]
         /\ todo' \in [Threads -> Seq(Objects)]
<1>1. /\ step \in [Threads -> {"idle", "check", "alloc", "setup", "remember", "do",
                               "waiting", "relock"}]
      /\ todo \in [Threads -> Seq(Objects)]
  BY DEF Typed
<1>2. /\ todo' = [todo EXCEPT ![t] = Tail(todo[t])]
      /\ step' = [step EXCEPT ![t] = IF Len(todo[t]) > 1 THEN "check"
                                     ELSE IF op[t] \in Inits THEN "idle" ELSE "do"]
  BY DEF Proceed, Inits
<1>3. Tail(todo[t]) \in Seq(Objects)
  <2>1. CASE Len(todo[t]) > 1
    <3>1. Tail(todo[t]) = <<mu[t]>> /\ mu[t] \in Objects
      BY <2>1, ListOf DEF Objects
    <3>2. <<mu[t]>> \in Seq(Objects)
      BY <3>1
    <3> QED BY <3>1, <3>2
  <2>2. CASE ~(Len(todo[t]) > 1)
    <3>1. Tail(todo[t]) = << >>
      BY <2>2, ListOf
    <3>2. << >> \in Seq(Objects)
      OBVIOUS
    <3> QED BY <3>1, <3>2
  <2> QED BY <2>1, <2>2
<1>4. \A u \in Threads \ {t} : Stays(u)
  BY <1>1, <1>2 DEF Stays
<1>5. step'[t] = (IF Len(todo[t]) > 1 THEN "check" ELSE IF op[t] \in Inits THEN "idle" ELSE "do")
  BY <1>1, <1>2
<1>6. todo'[t] = Tail(todo[t])
  BY <1>1, <1>2
<1>7. Pending(t)' = Pending(t) \ {Head(todo[t])} /\ Args(t)' = Args(t)
  BY <1>6, ListOf DEF Pending, Args
<1>8. Len(todo[t]) > 1 => op[t] \notin Inits
  <2>1. Len(todo[t]) > 1 => co[t] \in Conds
    BY ListOf
  <2> QED BY <2>1 DEF CallInv, Birthing, Objects
<1>9. CallInv(t)'
  <2>1. CASE Len(todo[t]) > 1
    <3>1. todo'[t] = <<mu[t]>> /\ mu[t] \in Mutexes /\ step'[t] = "check"
      BY <2>1, <1>5, <1>6, ListOf
    <3> QED BY <3>1, <1>8, <2>1 DEF CallInv, Birthing
  <2>2. CASE ~(Len(todo[t]) > 1)
    <3>1. todo'[t] = << >> /\ step'[t] \notin Birthing
      BY <2>2, <1>5, <1>6, ListOf DEF Birthing
    <3> QED BY <3>1, <1>5, <2>2 DEF CallInv, Birthing
  <2> QED BY <2>1, <2>2
<1> QED BY <1>1, <1>2, <1>3, <1>4, <1>5, <1>7, <1>8, <1>9

LEMMA CheckKeeps ==
  ASSUME IInv, NEW t \in Threads, Check(t)
  PROVE  IInv'
<1> DEFINE o == Head(todo[t])
<1>1. /\ Typed /\ step[t] = "check" /\ CallInv(t) /\ ArgsInv(t) /\ BirthInv(t) /\ DepthInv(t)
      /\ UNCHANGED <<table, word, kind, owner, depth, op, mu, co, asked, given, holds, waitsOn>>
  BY DEF IInv, Check, real, hist
<1>2. /\ \A x \in Objects : Registered(x)' = Registered(x)
      /\ o \in Objects /\ o \in Pending(t) /\ o \in Args(t) /\ Pending(t) \subseteq Objects
  BY <1>1, ListOf DEF Registered, Birthing
<1>3. /\ \A u \in Threads \ {t} : Stays(u)
      /\ CallInv(t)' /\ step'[t] \in {"check", "idle", "do", "alloc"}
      /\ Pending(t)' \subseteq Pending(t) /\ Args(t)' = Args(t)
      /\ \A x \in Pending(t) \ Pending(t)' : Registered(x)
      /\ step'[t] = "check" => op[t] \notin Inits
      /\ step'[t] = "alloc" => Head(todo[t])' = o /\ ~Registered(o)
      /\ op[t] \in Inits => step'[t] # "idle"
      /\ Typed'
  <2>1. CASE Registered(o)
    <3>1. Proceed(t)
      BY <2>1 DEF Check
    <3>2. op[t] \notin Inits
      BY <1>1, <2>1 DEF BirthInv, Birthing
    <3>3. /\ \A u \in Threads \ {t} : Stays(u)
          /\ CallInv(t)' /\ step'[t] \in {"check", "idle", "do"}
          /\ Pending(t)' = Pending(t) \ {o} /\ Args(t)' = Args(t)
          /\ step' \in [Threads -> {"idle", "check", "alloc", "setup", "remember", "do",
                                    "waiting", "relock"}]
          /\ todo' \in [Threads -> Seq(Objects)]
      BY <1>1, <3>1, Proceeds DEF Birthing
    <3>4. Typed'
      BY <1>1, <3>3 DEF Typed
    <3> QED BY <2>1, <3>2, <3>3, <3>4
  <2>2. CASE ~Registered(o)
    <3>1. step' = [step EXCEPT ![t] = "alloc"] /\ todo' = todo
      BY <2>2 DEF Check
    <3>2. Typed' /\ step'[t] = "alloc" /\ \A u \in Threads \ {t} : Stays(u)
      BY <1>1, <3>1 DEF Typed, Stays
    <3>3. CallInv(t)'
      BY <1>1, <3>1, <3>2 DEF CallInv, Birthing
    <3>4. Pending(t)' = Pending(t) /\ Args(t)' = Args(t) /\ Head(todo[t])' = o
      BY <1>1, <3>1 DEF Pending, Args
    <3> QED BY <2>2, <3>2, <3>3, <3>4
  <2> QED BY <2>1, <2>2
<1>4. \A u \in Threads \ {t} : /\ Pending(u)' = Pending(u) /\ Args(u)' = Args(u)
                               /\ Head(todo[u])' = Head(todo[u])
  BY <1>3, StaysLists
<1> HIDE DEF o
<1>5. SoloInv'
  <2>1. \A u \in Threads : Pending(u)' \subseteq Pending(u) /\ Pending(u) \subseteq Objects
    BY <1>1, <1>3, <1>4, ListOf, NoList DEF IInv
  <2> QED BY <1>2, <2>1 DEF IInv, SoloInv
<1>6. ASSUME NEW u \in Threads PROVE CallInv(u)' /\ ArgsInv(u)' /\ BirthInv(u)' /\ DepthInv(u)'
  <2>1. CASE u = t
    <3>1. ArgsInv(t)'
      BY <1>1, <1>2, <1>3 DEF ArgsInv, Args, Typed, Objects
    <3>2. BirthInv(t)'
      BY <1>1, <1>2, <1>3 DEF BirthInv, Birthing, Inits, o
    <3>3. DepthInv(t)'
      BY <1>1, <1>3 DEF DepthInv, Birthing
    <3> QED BY <2>1, <1>3, <3>1, <3>2, <3>3
  <2>2. CASE u # t
    <3>0. Stays(u) /\ CallInv(u) /\ ArgsInv(u) /\ BirthInv(u) /\ DepthInv(u)
      BY <1>3, <2>2 DEF IInv
    <3>1. CallInv(u)'
      BY <3>0, StaysCall
    <3>2. ArgsInv(u)'
      BY <1>1, <1>2, <1>4, <2>2, <3>0 DEF ArgsInv, Stays, Args, Typed, Objects
    <3>3. DepthInv(u)'
      BY <1>1, <3>0 DEF DepthInv, Stays, Birthing
    <3>4. BirthInv(u)'
      <4>1. ASSUME step[u] \in Birthing PROVE Untouched(Head(todo[u]))
        <5>1. Head(todo[u]) \in Objects
          BY <1>1, <3>0, <4>1, ListOf
        <5> QED BY <1>1, <5>1 DEF Untouched, Registered
      <4> QED BY <1>1, <3>0, <4>1, StaysBirth
    <3> QED BY <3>1, <3>2, <3>3, <3>4
  <2> QED BY <2>1, <2>2
<1>7. TableInv'
  <2>1. \A x \in Objects : Growing(x) => Growing(x)'
    BY <1>1, <1>3, <1>4 DEF Growing, Stays
  <2>2. \A x \in Objects : Renamed(x) => Renamed(x)'
    <3> SUFFICES ASSUME NEW x \in Objects, NEW u \in Threads,
                        step[u] \in Birthing, op[u] = "init", Head(todo[u]) = x
                 PROVE  Renamed(x)'
      BY DEF Renamed
    <3>1. CASE u # t
      BY <1>3, <1>4, <3>1 DEF Renamed, Stays, Birthing
    <3>2. CASE u = t
      <4>1. step'[t] = "alloc"
        BY <1>1, <1>2, <1>3, <3>2 DEF BirthInv, CallInv, Birthing, Inits
      <4> QED BY <1>1, <1>3, <3>2, <4>1 DEF Renamed, Birthing, o
    <3> QED BY <3>1, <3>2
  <2>3. Mutexes \subseteq Objects
    BY DEF Objects
  <2> QED BY <1>1, <1>2, <2>1, <2>2, <2>3 DEF IInv, TableInv
<1>8. HeldInv'
  BY <1>1, <1>2 DEF IInv, HeldInv, Objects
<1> QED BY <1>3, <1>5, <1>6, <1>7, <1>8 DEF IInv
-----------------------------------------------------------------------------
(* A thread alone has an unregistered object on its list.                  *)
LEMMA OnlyMine ==
  ASSUME IInv, NEW t \in Threads, NEW u \in Threads, t # u,
         step[t] \in Birthing, step[u] \in Birthing, ~Registered(Head(todo[t]))
  PROVE  Head(todo[u]) # Head(todo[t])
<1>1. Head(todo[t]) \in Pending(t) /\ Head(todo[u]) \in Pending(u)
  BY ListOf DEF IInv
<1> QED BY <1>1 DEF IInv, SoloInv

(* An object nobody has begun to create still has its initializer.         *)
LEMMA Unborn ==
  ASSUME IInv, NEW t \in Threads, step[t] = "alloc"
  PROVE  LET o == Head(todo[t])
         IN /\ o \in Objects /\ ~Registered(o) /\ word[o] \in Kinds
            /\ o \in Mutexes /\ op[t] # "init" => word[o] = given[o]
<1> DEFINE o == Head(todo[t])
<1>1. o \in Objects /\ ~Registered(o) /\ step[t] \in Birthing
  BY ListOf DEF IInv, BirthInv, Birthing
<1>2. ASSUME NEW u \in Threads, step[u] \in Birthing, Head(todo[u]) = o
      PROVE  u = t
  BY <1>1, <1>2, OnlyMine
<1> HIDE DEF o
<1>3. ~Growing(o)
  BY <1>2 DEF Growing, Birthing
<1>4. word[o] \in Kinds
  BY <1>1, <1>3 DEF IInv, Typed, TableInv
<1>5. ASSUME o \in Mutexes, op[t] # "init" PROVE word[o] = given[o]
  <2>1. ~Renamed(o)
    BY <1>2, <1>5 DEF Renamed
  <2> QED BY <1>4, <1>5, <2>1 DEF IInv, TableInv
<1> QED BY <1>1, <1>4, <1>5 DEF o

LEMMA AllocKeeps ==
  ASSUME IInv, NEW t \in Threads, Alloc(t)
  PROVE  IInv'
<1> DEFINE o == Head(todo[t])
<1>1. /\ Typed /\ step[t] = "alloc" /\ CallInv(t) /\ ArgsInv(t) /\ BirthInv(t) /\ DepthInv(t)
      /\ UNCHANGED <<table, owner, depth, op, todo, mu, co, given, holds, waitsOn>>
      /\ step' = [step EXCEPT ![t] = "setup"]
  BY DEF IInv, Alloc, hist
<1>2. PICK h \in Handles : /\ kind[h] = "none" /\ word' = [word EXCEPT ![o] = h]
                           /\ kind' = [kind EXCEPT ![h] = "raw"]
  BY DEF Alloc, Fresh
<1>3. /\ o \in Objects /\ ~Registered(o) /\ word[o] \in Kinds
      /\ o \in Mutexes /\ op[t] # "init" => word[o] = given[o]
  BY <1>1, Unborn
<1>4. /\ \A x : Registered(x)' = Registered(x)
      /\ \A u \in Threads : Pending(u)' = Pending(u) /\ Args(u)' = Args(u)
      /\ Head(todo[t])' = o
  BY <1>1 DEF Registered, Pending, Args
<1>5. Typed' /\ asked'[t] = IF o \in Conds THEN "cond" ELSE given[o]
  <2>1. asked' = [asked EXCEPT ![t] = IF o \in Conds THEN "cond"
                                      ELSE IF op[t] = "init" THEN asked[t] ELSE StaticKind(o)]
    BY DEF Alloc
  <2>2. asked[t] \in Kinds \cup {"cond"} /\ asked \in [Threads -> Kinds \cup {"cond"}]
    BY <1>1 DEF Typed
  <2>3. StaticKind(o) = word[o] /\ word[o] \in Kinds
    BY <1>3 DEF StaticKind
  <2>4. asked' \in [Threads -> Kinds \cup {"cond"}]
    BY <2>1, <2>2, <2>3
  <2>5. op[t] = "init" /\ o \notin Conds => asked[t] = given[o]
    BY <1>1, <1>3 DEF BirthInv, Objects, o
  <2>6. o \notin Conds => o \in Mutexes
    BY <1>3 DEF Objects
  <2>7. asked'[t] = IF o \in Conds THEN "cond" ELSE given[o]
    BY <1>3, <2>1, <2>2, <2>3, <2>5, <2>6
  <2>8. word' \in [Objects -> Handles \cup Kinds] /\ step'[t] = "setup"
        /\ kind' \in [Handles -> Kinds \cup {"none", "raw", "cond"}]
        /\ step' \in [Threads -> {"idle", "check", "alloc", "setup", "remember", "do",
                                  "waiting", "relock"}]
    BY <1>1, <1>2 DEF Typed
  <2> QED BY <1>1, <2>4, <2>7, <2>8 DEF Typed
<1>6. /\ \A u \in Threads \ {t} : Stays(u)
      /\ step'[t] = "setup" /\ word'[o] = h /\ kind'[h] = "raw" /\ kind \in [Handles -> Kinds \cup {"none", "raw", "cond"}]
      /\ \A x \in Objects \ {o} : word'[x] = word[x]
      /\ \A g \in Handles \ {h} : kind'[g] = kind[g]
  <2>1. \A u \in Threads \ {t} : asked'[u] = asked[u]
    BY <1>1 DEF Alloc, Typed
  <2> QED BY <1>1, <1>2, <1>3, <2>1 DEF Typed, Stays
<1>7. TableInv /\ HeldInv /\ \A x \in Objects : word[x] \in Handles => word[x] # h
  BY <1>2 DEF IInv, TableInv
<1> HIDE DEF o
<1>8. SoloInv'
  BY <1>4, <1>1, ListOf, NoList DEF IInv, SoloInv
<1>9. ASSUME NEW u \in Threads PROVE CallInv(u)' /\ ArgsInv(u)' /\ BirthInv(u)' /\ DepthInv(u)'
  <2>1. CASE u = t
    <3>1. CallInv(t)'
      BY <1>1, <1>6 DEF CallInv, Birthing
    <3>2. ArgsInv(t)'
      BY <1>1, <1>4 DEF ArgsInv
    <3>3. BirthInv(t)'
      BY <1>3, <1>4, <1>5, <1>6, <1>1 DEF BirthInv, Birthing
    <3>4. DepthInv(t)'
      BY <1>1, <1>6 DEF DepthInv, Birthing
    <3> QED BY <2>1, <3>1, <3>2, <3>3, <3>4
  <2>2. CASE u # t
    <3>0. Stays(u) /\ CallInv(u) /\ ArgsInv(u) /\ BirthInv(u) /\ DepthInv(u)
      BY <1>6, <2>2 DEF IInv
    <3>1. ASSUME step[u] \in Birthing PROVE Untouched(Head(todo[u]))
      <4> DEFINE p == Head(todo[u])
      <4>1. p \in Objects /\ p # o
        BY <1>1, <1>3, <2>2, <3>0, <3>1, ListOf, OnlyMine DEF Birthing, o
      <4> HIDE DEF p
      <4>2. Untouched(p)
        BY <1>1, <1>6, <1>7, <4>1 DEF Untouched, Registered
      <4> QED BY <4>2 DEF p
    <3>2. ASSUME step[u] = "waiting" PROVE word'[co[u]] = word[co[u]]
      <4>1. co[u] \in Conds /\ co[u] \in Objects
        BY <3>0, <3>2 DEF CallInv, Objects
      <4>2. Registered(co[u])
        BY <3>0, <3>2, <4>1, NoList DEF ArgsInv, Args, Birthing, Objects
      <4> QED BY <1>3, <1>6, <4>1, <4>2
    <3> QED BY <1>1, <3>0, <3>1, <3>2, StaysKeep DEF Registered
  <2> QED BY <2>1, <2>2
<1>10. TableInv'
  <2>1. \A x \in Objects : Growing(x) => Growing(x)'
    BY <1>1, <1>6 DEF Growing, Stays
  <2>2. \A x \in Objects : x = o => Growing(x)'
    BY <1>4, <1>6 DEF Growing
  <2>3. \A x \in Objects \ {o} : Renamed(x) => Renamed(x)'
    BY <1>1, <1>6 DEF Renamed, Stays, Birthing, o
  <2>4. Mutexes \subseteq Objects /\ h \notin Kinds
    BY DEF Objects
  <2>5. \A x \in Objects :
       /\ Registered(x)' => word'[x] \in Handles
       /\ word'[x] \in Handles => Registered(x)' \/ Growing(x)'
       /\ word'[x] \in Handles => kind'[word'[x]] # "none"
       /\ Registered(x)' => kind'[word'[x]] = IF x \in Conds THEN "cond" ELSE given'[x]
    <3> SUFFICES ASSUME NEW x \in Objects
                 PROVE  /\ Registered(x) => word'[x] \in Handles
                        /\ word'[x] \in Handles => Registered(x) \/ Growing(x)'
                        /\ word'[x] \in Handles => kind'[word'[x]] # "none"
                        /\ Registered(x) => kind'[word'[x]] = IF x \in Conds THEN "cond" ELSE given[x]
      BY <1>1, <1>4
    <3>1. CASE x = o
      BY <1>3, <1>6, <2>2, <3>1
    <3>2. CASE x # o
      BY <1>6, <1>7, <2>1, <3>2 DEF TableInv
    <3> QED BY <3>1, <3>2
  <2>6. \A m \in Mutexes : word'[m] \in Kinds => word'[m] = given'[m] \/ Renamed(m)'
    BY <1>1, <1>6, <1>7, <2>3, <2>4 DEF TableInv
  <2>7. \A x, p \in Objects : word'[x] \in Handles /\ word'[x] = word'[p] => x = p
    BY <1>6, <1>7 DEF TableInv
  <2>8. \A g \in Handles : kind'[g] # "none" => \E x \in Objects : word'[x] = g
    <3> SUFFICES ASSUME NEW g \in Handles, kind'[g] # "none" PROVE \E x \in Objects : word'[x] = g
      OBVIOUS
    <3>1. CASE g = h
      BY <1>3, <1>6, <3>1
    <3>2. CASE g # h
      <4>1. PICK x \in Objects : word[x] = g
        BY <1>6, <1>7, <3>2 DEF TableInv
      <4>2. x # o
        BY <1>3, <4>1
      <4> QED BY <1>6, <4>1, <4>2
    <3> QED BY <3>1, <3>2
  <2>9. \A g \in Handles : kind'[g] = "none" => owner'[g] = NoOne /\ depth'[g] = 0
    BY <1>1, <1>6, <1>7 DEF TableInv
  <2> QED BY <1>1, <1>7, <2>5, <2>6, <2>7, <2>8, <2>9 DEF TableInv
<1>11. HeldInv'
  <2>1. \A m \in Mutexes : Registered(m) => word'[m] = word[m]
    BY <1>3, <1>6 DEF Objects
  <2> QED BY <1>1, <1>4, <1>7, <2>1 DEF HeldInv
<1> QED BY <1>5, <1>8, <1>9, <1>10, <1>11 DEF IInv

LEMMA SetupKeeps ==
  ASSUME IInv, NEW t \in Threads, Setup(t)
  PROVE  IInv'
<1> DEFINE o == Head(todo[t])  h == word[o]
<1>1. /\ Typed /\ step[t] = "setup" /\ CallInv(t) /\ ArgsInv(t) /\ BirthInv(t) /\ DepthInv(t)
      /\ UNCHANGED <<table, word, op, todo, mu, co, asked, given, holds, waitsOn>>
      /\ step' = [step EXCEPT ![t] = "remember"]
      /\ kind' = [kind EXCEPT ![h] = asked[t]]
      /\ owner' = [owner EXCEPT ![h] = NoOne] /\ depth' = [depth EXCEPT ![h] = 0]
  BY DEF IInv, Setup, hist
<1>2. /\ o \in Objects /\ ~Registered(o) /\ h \in Handles
      /\ asked[t] = IF o \in Conds THEN "cond" ELSE given[o]
  BY <1>1, ListOf DEF BirthInv, Birthing
<1>3. /\ \A x : Registered(x)' = Registered(x)
      /\ \A u \in Threads : Pending(u)' = Pending(u) /\ Args(u)' = Args(u)
  BY <1>1 DEF Registered, Pending, Args
<1>4. asked[t] \in Kinds \cup {"cond"} /\ asked[t] # "none"
  BY <1>1 DEF Typed, Kinds
<1>5. Typed'
  <2>1. kind' \in [Handles -> Kinds \cup {"none", "raw", "cond"}]
    <3>1. kind \in [Handles -> Kinds \cup {"none", "raw", "cond"}]
      BY <1>1 DEF Typed
    <3> QED BY <1>1, <1>2, <1>4, <3>1
  <2>2. step' \in [Threads -> {"idle", "check", "alloc", "setup", "remember", "do",
                               "waiting", "relock"}]
    BY <1>1 DEF Typed
  <2>3. owner' \in [Handles -> Threads \cup {NoOne}]
    <3>1. owner \in [Handles -> Threads \cup {NoOne}]
      BY <1>1 DEF Typed
    <3> QED BY <1>1, <3>1
  <2>4. depth' \in [Handles -> 0..MaxDepth]
    <3>1. depth \in [Handles -> 0..MaxDepth] /\ 0 \in 0..MaxDepth
      BY <1>1 DEF Typed
    <3> QED BY <1>1, <3>1
  <2> QED BY <1>1, <2>1, <2>2, <2>3, <2>4 DEF Typed
<1>6. /\ \A u \in Threads \ {t} : Stays(u)
      /\ step'[t] = "remember" /\ kind'[h] = asked[t] /\ owner'[h] = NoOne /\ depth'[h] = 0
      /\ \A g \in Handles \ {h} : kind'[g] = kind[g] /\ owner'[g] = owner[g] /\ depth'[g] = depth[g]
  BY <1>1, <1>2 DEF Typed, Stays
<1>7. TableInv /\ HeldInv /\ \A x \in Objects \ {o} : word[x] \in Handles => word[x] # h
  BY <1>2 DEF IInv, TableInv
<1> HIDE DEF h
<1>8. SoloInv'
  BY <1>1, <1>3, ListOf, NoList DEF IInv, SoloInv
<1>9. ASSUME NEW u \in Threads PROVE CallInv(u)' /\ ArgsInv(u)' /\ BirthInv(u)' /\ DepthInv(u)'
  <2>1. CASE u = t
    <3>1. CallInv(t)'
      BY <1>1, <1>6 DEF CallInv, Birthing
    <3>2. ArgsInv(t)'
      BY <1>1, <1>3 DEF ArgsInv
    <3>3. BirthInv(t)'
      BY <1>1, <1>2, <1>3, <1>6 DEF BirthInv, Birthing, h
    <3>4. DepthInv(t)'
      BY <1>1, <1>6 DEF DepthInv, Birthing
    <3> QED BY <2>1, <3>1, <3>2, <3>3, <3>4
  <2>2. CASE u # t
    <3>0. Stays(u) /\ CallInv(u) /\ ArgsInv(u) /\ BirthInv(u) /\ DepthInv(u)
      BY <1>6, <2>2 DEF IInv
    <3>1. ASSUME step[u] \in Birthing PROVE Untouched(Head(todo[u]))
      <4> DEFINE p == Head(todo[u])
      <4>1. p \in Objects /\ p # o
        BY <1>1, <1>2, <2>2, <3>0, <3>1, ListOf, OnlyMine DEF Birthing
      <4> HIDE DEF p, o
      <4>2. Untouched(p)
        BY <1>1, <1>6, <1>7, <4>1 DEF Untouched, Registered
      <4> QED BY <4>2 DEF p
    <3> QED BY <1>1, <3>0, <3>1, StaysKeep DEF Registered
  <2> QED BY <2>1, <2>2
<1>10. TableInv'
  <2>1. \A x \in Objects : Growing(x) => Growing(x)'
    BY <1>1, <1>6 DEF Growing, Stays
  <2>2. \A x \in Objects : Renamed(x) => Renamed(x)'
    BY <1>1, <1>6 DEF Renamed, Stays, Birthing
  <2>3. Mutexes \subseteq Objects
    BY DEF Objects
  <2> HIDE DEF o
  <2>4. \A x \in Objects :
       /\ Registered(x)' => word'[x] \in Handles
       /\ word'[x] \in Handles => Registered(x)' \/ Growing(x)'
       /\ word'[x] \in Handles => kind'[word'[x]] # "none"
       /\ Registered(x)' => kind'[word'[x]] = IF x \in Conds THEN "cond" ELSE given'[x]
    BY <1>1, <1>2, <1>3, <1>4, <1>6, <1>7, <2>1 DEF TableInv, h
  <2>5. \A m \in Mutexes : word'[m] \in Kinds => word'[m] = given'[m] \/ Renamed(m)'
    BY <1>1, <1>7, <2>2, <2>3 DEF TableInv
  <2>6. \A g \in Handles : kind'[g] # "none" => \E x \in Objects : word'[x] = g
    BY <1>1, <1>2, <1>6, <1>7 DEF TableInv, h
  <2>7. \A g \in Handles : kind'[g] = "none" => owner'[g] = NoOne /\ depth'[g] = 0
    BY <1>4, <1>6, <1>7 DEF TableInv
  <2> QED BY <1>1, <1>7, <2>4, <2>5, <2>6, <2>7 DEF TableInv
<1>11. HeldInv'
  <2>1. ASSUME NEW m \in Mutexes, Registered(m)
        PROVE  word[m] \in Handles /\ word[m] # h
    BY <1>2, <1>7, <2>1 DEF Objects, TableInv
  <2>2. ASSUME NEW m \in Mutexes, Registered(m)
        PROVE  owner'[word[m]] = owner[word[m]] /\ depth'[word[m]] = depth[word[m]]
    BY <1>6, <2>1, <2>2
  <2> QED BY <1>1, <1>3, <1>7, <2>2 DEF HeldInv
<1> QED BY <1>5, <1>8, <1>9, <1>10, <1>11 DEF IInv

LEMMA RememberKeeps ==
  ASSUME IInv, Orderly, NEW t \in Threads, Remember(t)
  PROVE  IInv'
<1> DEFINE o == Head(todo[t])  h == word[o]
<1>1. /\ Typed /\ step[t] = "remember" /\ CallInv(t) /\ ArgsInv(t) /\ BirthInv(t) /\ DepthInv(t)
      /\ UNCHANGED <<word, kind, owner, depth, op, mu, co, asked, given, holds, waitsOn>>
      /\ table' = Remembered(o) /\ Proceed(t)
  BY DEF IInv, Remember, real, hist
<1>2. /\ o \in Objects /\ ~Registered(o) /\ h \in Handles /\ o \in Pending(t)
      /\ kind[h] = IF o \in Conds THEN "cond" ELSE given[o]
      /\ owner[h] = NoOne /\ depth[h] = 0
      /\ Pending(t) \subseteq Objects
  BY <1>1, ListOf DEF BirthInv, Birthing
<1>3. /\ \A u \in Threads \ {t} : Stays(u)
      /\ CallInv(t)' /\ step'[t] \in {"check", "idle", "do"}
      /\ Pending(t)' = Pending(t) \ {o} /\ Args(t)' = Args(t)
      /\ step'[t] = "check" => op[t] \notin Inits
      /\ step' \in [Threads -> {"idle", "check", "alloc", "setup", "remember", "do",
                                "waiting", "relock"}]
      /\ todo' \in [Threads -> Seq(Objects)]
  BY <1>1, Proceeds DEF Birthing
<1>4. TableInv /\ HeldInv
  BY DEF IInv
<1>5. PICK i \in 1..Slots : table[i] = Zero /\ table' = [table EXCEPT ![i] = o]
  BY <1>1, <1>2, <1>4, EntersTable
<1> HIDE DEF o, h
<1>6. /\ table' \in [1..Slots -> Objects \cup {Zero}]
      /\ \A x \in Objects : Registered(x)' <=> Registered(x) \/ x = o
  BY <1>1, <1>2, <1>5 DEF Typed, Registered, Objects
<1>7. Typed'
  BY <1>1, <1>3, <1>6 DEF Typed
<1>8. \A u \in Threads \ {t} : Pending(u)' = Pending(u) /\ Args(u)' = Args(u)
  BY <1>3, StaysLists
<1>9. SoloInv'
  <2>1. \A u \in Threads : Pending(u)' \subseteq Pending(u) /\ Pending(u) \subseteq Objects
    BY <1>1, <1>2, <1>3, <1>8, ListOf, NoList DEF IInv
  <2> QED BY <1>6, <2>1 DEF IInv, SoloInv
<1>10. ASSUME NEW u \in Threads PROVE CallInv(u)' /\ ArgsInv(u)' /\ BirthInv(u)' /\ DepthInv(u)'
  <2>1. CASE u = t
    <3>1. ArgsInv(t)'
      BY <1>1, <1>2, <1>3, <1>6 DEF ArgsInv, Args, Typed, Objects
    <3>2. BirthInv(t)'
      BY <1>1, <1>3 DEF BirthInv, Birthing, Inits
    <3>3. DepthInv(t)'
      BY <1>1, <1>3 DEF DepthInv, Birthing
    <3> QED BY <2>1, <1>3, <3>1, <3>2, <3>3
  <2>2. CASE u # t
    <3>0. Stays(u) /\ CallInv(u) /\ ArgsInv(u) /\ BirthInv(u) /\ DepthInv(u)
      BY <1>3, <2>2 DEF IInv
    <3>1. ASSUME step[u] \in Birthing PROVE Untouched(Head(todo[u]))
      <4> DEFINE p == Head(todo[u])
      <4>1. p \in Objects /\ p # o
        BY <1>1, <1>2, <2>2, <3>0, <3>1, ListOf, OnlyMine DEF Birthing, o
      <4> HIDE DEF p
      <4>2. Untouched(p)
        BY <1>1, <1>6, <4>1 DEF Untouched, Registered
      <4> QED BY <4>2 DEF p
    <3>2. \A x \in Args(u) : Registered(x) => \E j \in 1..Slots : table'[j] = x
      <4>1. Args(u) \subseteq Objects
        BY <1>1 DEF Args, Typed, Objects
      <4> QED BY <1>6, <4>1 DEF Registered
    <3> QED BY <1>1, <3>0, <3>1, <3>2, StaysKeep
  <2> QED BY <2>1, <2>2
<1>11. TableInv'
  <2>1. \A j, k \in 1..Slots : table'[j] = table'[k] /\ table'[j] # Zero => j = k
    BY <1>1, <1>2, <1>4, <1>5 DEF Typed, TableInv, Registered
  <2>2. \A x \in Objects : Growing(x) => Growing(x)' \/ x = o
    BY <1>1, <1>3 DEF Growing, Stays, o
  <2>3. \A x \in Objects : Renamed(x) => Renamed(x)' \/ x = o
    BY <1>1, <1>3 DEF Renamed, Stays, Birthing, o
  <2>4. \A x \in Objects :
       /\ Registered(x)' => word'[x] \in Handles
       /\ word'[x] \in Handles => Registered(x)' \/ Growing(x)'
       /\ word'[x] \in Handles => kind'[word'[x]] # "none"
       /\ Registered(x)' => kind'[word'[x]] = IF x \in Conds THEN "cond" ELSE given'[x]
    BY <1>1, <1>2, <1>4, <1>6, <2>2 DEF TableInv, h
  <2>5. \A m \in Mutexes : word'[m] \in Kinds => word'[m] = given'[m] \/ Renamed(m)'
    BY <1>1, <1>2, <1>4, <2>3 DEF TableInv, Objects, h
  <2> QED BY <1>1, <1>4, <2>1, <2>4, <2>5 DEF TableInv
<1>12. HeldInv'
  <2> SUFFICES ASSUME NEW m \in Mutexes
               PROVE  /\ ~Registered(m)' => \A u \in Threads : holds[u][m] = 0
                      /\ Registered(m)' =>
                           /\ owner[word[m]] = NoOne => depth[word[m]] = 0
                           /\ \A u \in Threads :
                                holds[u][m] = IF owner[word[m]] = u THEN depth[word[m]] ELSE 0
    BY <1>1 DEF HeldInv
  <2>1. CASE m = o
    BY <1>2, <1>4, <1>6, <2>1 DEF HeldInv, h
  <2>2. CASE m # o
    BY <1>4, <1>6, <2>2 DEF HeldInv, Objects
  <2> QED BY <2>1, <2>2
<1> QED BY <1>7, <1>9, <1>10, <1>11, <1>12 DEF IInv
-----------------------------------------------------------------------------
(* The work of a call on real objects leaves the table and the words alone *)
(* and touches only mutexes that are alive.                                *)
Working ==
  /\ UNCHANGED <<table, word, kind, op, todo, mu, co, asked, given>>
  /\ \A u \in Threads :
       \/ step'[u] = step[u]
       \/ /\ step[u] \in {"do", "waiting", "relock"}
          /\ step'[u] \in {"idle", "waiting", "relock"}
          /\ step'[u] # "idle" => op[u] \in {"wait", "timedwait"}
  /\ \A h \in Handles :
       \/ owner'[h] = owner[h] /\ depth'[h] = depth[h]
       \/ \E m \in Mutexes : Registered(m) /\ word[m] = h

LEMMA WorkKeeps ==
  ASSUME IInv, Working, Typed', HeldInv', \A u \in Threads : DepthInv(u)'
  PROVE  IInv'
<1>1. /\ Typed /\ TableInv /\ SoloInv /\ UNCHANGED <<table, word, kind, op, todo, mu, co, asked, given>>
      /\ \A u \in Threads : CallInv(u) /\ ArgsInv(u) /\ BirthInv(u)
  BY DEF IInv, Working
<1>2. /\ \A x : Registered(x)' = Registered(x)
      /\ \A u \in Threads : Pending(u)' = Pending(u) /\ Args(u)' = Args(u)
  BY <1>1 DEF Registered, Pending, Args
<1>3. \A u \in Threads : /\ step[u] \in Birthing <=> step'[u] \in Birthing
                         /\ step[u] \in Birthing => step'[u] = step[u]
                         /\ step'[u] # "idle" => step[u] # "idle"
  BY DEF Working, Birthing
<1>4. SoloInv'
  BY <1>1, <1>2 DEF SoloInv
<1>5. ASSUME NEW u \in Threads PROVE CallInv(u)' /\ ArgsInv(u)' /\ BirthInv(u)'
  <2>1. CallInv(u)'
    BY <1>1, <1>3 DEF CallInv, Working, Birthing
  <2>2. ArgsInv(u)'
    BY <1>1, <1>2, <1>3 DEF ArgsInv
  <2>3. BirthInv(u)'
    <3>1. CASE step[u] \notin Birthing
      BY <1>3, <3>1 DEF BirthInv, Birthing
    <3>2. CASE step[u] \in Birthing
      <4> DEFINE o == Head(todo[u])
      <4>1. Stays(u) /\ CallInv(u) /\ BirthInv(u)
        BY <1>1, <1>3, <3>2 DEF Stays
      <4>2. CASE step[u] = "remember"
        <5>1. o \in Objects /\ ~Registered(o) /\ word[o] \in Handles
          BY <1>1, <4>2, ListOf DEF BirthInv, Birthing
        <5> HIDE DEF o
        <5>2. \A m \in Mutexes : Registered(m) => word[m] # word[o]
          BY <1>1, <5>1 DEF TableInv, Objects
        <5>3. owner'[word[o]] = owner[word[o]] /\ depth'[word[o]] = depth[word[o]]
          BY <5>1, <5>2 DEF Working
        <5>4. Untouched(o)
          BY <1>1, <1>2, <5>3 DEF Untouched, Registered
        <5> QED BY <1>1, <4>1, <5>4, StaysBirth DEF o
      <4>3. CASE step[u] # "remember"
        BY <1>1, <1>2, <3>2, <4>1, <4>3 DEF BirthInv, Stays
      <4> QED BY <4>2, <4>3
    <3> QED BY <3>1, <3>2
  <2> QED BY <2>1, <2>2, <2>3
<1>6. TableInv'
  <2>1. /\ \A x : Growing(x)' = Growing(x)
        /\ \A x : Renamed(x)' = Renamed(x)
    <3>1. \A u \in Threads : step'[u] \in {"setup", "remember"} <=> step[u] \in {"setup", "remember"}
      BY <1>3 DEF Birthing
    <3> QED BY <1>1, <1>3, <3>1 DEF Growing, Renamed
  <2>2. \A g \in Handles : kind'[g] = "none" => owner'[g] = NoOne /\ depth'[g] = 0
    BY <1>1 DEF TableInv, Working, Objects
  <2> QED BY <1>1, <1>2, <2>1, <2>2 DEF TableInv
<1> QED BY <1>4, <1>5, <1>6 DEF IInv

(* One thread takes or leaves a mutex: its own record and the real object  *)
(* change together.                                                        *)
Handover(t, m, x, d) ==
  /\ owner' = [owner EXCEPT ![word[m]] = x]
  /\ depth' = [depth EXCEPT ![word[m]] = d]
  /\ holds' = [holds EXCEPT ![t][m] = d]

LEMMA HandoverKeeps ==
  ASSUME IInv, NEW t \in Threads, NEW m \in Mutexes, Registered(m),
         UNCHANGED <<table, word, kind, op, todo, mu, co, asked, given>>,
         owner[word[m]] \in {t, NoOne},
         NEW x \in {t, NoOne}, NEW d \in 0..MaxDepth, x = NoOne <=> d = 0,
         Handover(t, m, x, d)
  PROVE  /\ HeldInv'
         /\ owner' \in [Handles -> Threads \cup {NoOne}] /\ depth' \in [Handles -> 0..MaxDepth]
         /\ holds' \in [Threads -> [Mutexes -> 0..MaxDepth]]
         /\ holds'[t][m] = d
         /\ \A u \in Threads \ {t} : holds'[u] = holds[u]
         /\ \A h \in Handles : \/ owner'[h] = owner[h] /\ depth'[h] = depth[h]
                               \/ \E n \in Mutexes : Registered(n) /\ word[n] = h
<1> DEFINE h == word[m]
<1>1. /\ Typed /\ TableInv /\ HeldInv /\ h \in Handles /\ t # NoOne
      /\ \A n : Registered(n)' = Registered(n)
  BY DEF IInv, TableInv, Objects, Registered
<1>2. /\ owner' \in [Handles -> Threads \cup {NoOne}] /\ owner'[h] = x
      /\ \A g \in Handles \ {h} : owner'[g] = owner[g]
  BY <1>1 DEF Typed, Handover
<1>3. /\ depth' \in [Handles -> 0..MaxDepth] /\ depth'[h] = d
      /\ \A g \in Handles \ {h} : depth'[g] = depth[g]
  BY <1>1 DEF Typed, Handover
<1>4. /\ holds' \in [Threads -> [Mutexes -> 0..MaxDepth]] /\ holds'[t][m] = d
      /\ \A u \in Threads \ {t} : holds'[u] = holds[u]
      /\ \A u \in Threads : \A n \in Mutexes \ {m} : holds'[u][n] = holds[u][n]
  <2>1. holds \in [Threads -> [Mutexes -> 0..MaxDepth]]
    BY <1>1 DEF Typed
  <2>2. holds' = [holds EXCEPT ![t] = [holds[t] EXCEPT ![m] = d]]
    BY DEF Handover
  <2>3. [holds[t] EXCEPT ![m] = d] \in [Mutexes -> 0..MaxDepth]
    BY <2>1
  <2> QED BY <2>1, <2>2, <2>3
<1> HIDE DEF h
<1>5. HeldInv'
  <2> SUFFICES ASSUME NEW n \in Mutexes
               PROVE  /\ ~Registered(n) => \A u \in Threads : holds'[u][n] = 0
                      /\ Registered(n) =>
                           /\ owner'[word[n]] = NoOne => depth'[word[n]] = 0
                           /\ \A u \in Threads :
                                holds'[u][n] = IF owner'[word[n]] = u THEN depth'[word[n]] ELSE 0
    BY <1>1 DEF HeldInv
  <2>1. CASE n = m
    <3>1. word[n] = h
      BY <2>1 DEF h
    <3>2. \A u \in Threads \ {t} : holds'[u][n] = 0
      BY <1>1, <1>4, <2>1 DEF HeldInv
    <3> QED BY <1>1, <1>2, <1>3, <1>4, <2>1, <3>1, <3>2
  <2>2. CASE n # m
    <3>1. ASSUME Registered(n) PROVE word[n] \in Handles /\ word[n] # h
      BY <1>1, <2>2, <3>1 DEF TableInv, Objects, h
    <3>2. Registered(n) => owner'[word[n]] = owner[word[n]] /\ depth'[word[n]] = depth[word[n]]
      BY <1>2, <1>3, <3>1
    <3> QED BY <1>1, <1>4, <2>2, <3>1, <3>2 DEF HeldInv
  <2> QED BY <2>1, <2>2
<1> QED BY <1>1, <1>2, <1>3, <1>4, <1>5 DEF h

(* The arguments of a call that works are alive.                           *)
LEMMA ArgsLive ==
  ASSUME IInv, NEW t \in Threads, step[t] \in {"do", "waiting", "relock"}
  PROVE  /\ mu[t] \in Mutexes => Registered(mu[t])
         /\ co[t] \in Conds => Registered(co[t])
<1>1. CallInv(t) /\ ArgsInv(t) /\ Pending(t) = {} /\ step[t] # "idle"
  BY NoList DEF IInv, Birthing
<1> QED BY <1>1 DEF ArgsInv, Args, Objects

LEMMA AcquireKeeps ==
  ASSUME IInv, NEW t \in Threads, step[t] \in {"do", "relock"},
         op[t] \in {"lock", "trylock", "wait", "timedwait"},
         holds[t][mu[t]] < MaxDepth, owner[word[mu[t]]] \in {t, NoOne},
         Acquire(t, word[mu[t]]),
         UNCHANGED <<table, word, kind, op, todo, mu, co, asked, given, waitsOn>>
  PROVE  IInv'
<1> DEFINE m == mu[t]  h == word[m]  d == holds[t][m] + 1
<1>1. /\ Typed /\ CallInv(t) /\ m \in Mutexes /\ Registered(m) /\ HeldInv /\ TableInv
      /\ op[t] # "init"
  BY ArgsLive DEF IInv, CallInv
<1>2. h \in Handles /\ depth[h] = holds[t][m]
  BY <1>1 DEF HeldInv, TableInv, Objects
<1>3. d \in 0..MaxDepth /\ d # 0 /\ t # NoOne
  <2>1. holds[t][m] \in 0..MaxDepth
    BY <1>1 DEF Typed
  <2> QED BY <2>1
<1>4. Handover(t, m, t, d)
  <2>1. owner' = [owner EXCEPT ![h] = t] /\ depth' = [depth EXCEPT ![h] = d]
    BY <1>2 DEF Acquire
  <2>2. holds' = [holds EXCEPT ![t][m] = d]
    BY DEF Acquire
  <2> QED BY <2>1, <2>2 DEF Handover
<1> HIDE DEF d
<1>5. /\ HeldInv'
      /\ owner' \in [Handles -> Threads \cup {NoOne}] /\ depth' \in [Handles -> 0..MaxDepth]
      /\ holds' \in [Threads -> [Mutexes -> 0..MaxDepth]]
      /\ \A u \in Threads \ {t} : holds'[u] = holds[u]
      /\ \A g \in Handles : \/ owner'[g] = owner[g] /\ depth'[g] = depth[g]
                            \/ \E n \in Mutexes : Registered(n) /\ word[n] = g
  BY <1>1, <1>3, <1>4, HandoverKeeps
<1>6. /\ step' = [step EXCEPT ![t] = "idle"] /\ step'[t] = "idle"
      /\ \A u \in Threads \ {t} : step'[u] = step[u]
  BY <1>1 DEF Acquire, Typed
<1>7. Typed'
  <2>1. step' \in [Threads -> {"idle", "check", "alloc", "setup", "remember", "do",
                               "waiting", "relock"}]
    BY <1>1, <1>6 DEF Typed
  <2> QED BY <1>1, <1>5, <2>1 DEF Typed
<1>8. ASSUME NEW u \in Threads PROVE DepthInv(u)'
  <2>1. CASE u = t
    BY <1>6, <2>1 DEF DepthInv, Birthing
  <2>2. CASE u # t
    <3>1. DepthInv(u) /\ step'[u] = step[u] /\ holds'[u] = holds[u]
      BY <1>5, <1>6, <2>2 DEF IInv
    <3> QED BY <3>1 DEF DepthInv, Birthing
  <2> QED BY <2>1, <2>2
<1>9. Working
  BY <1>5, <1>6 DEF Working
<1> QED BY <1>5, <1>7, <1>8, <1>9, WorkKeeps

(* A call that ends without result touches nothing but its step.           *)
LEMMA ReturnKeeps ==
  ASSUME IInv, NEW t \in Threads, step[t] = "do", step' = [step EXCEPT ![t] = "idle"],
         UNCHANGED <<table, real, op, todo, mu, co, asked, hist>>
  PROVE  IInv'
<1>1. Typed /\ HeldInv /\ UNCHANGED <<table, word, kind, owner, depth, op, todo, mu, co, asked,
                                        given, holds, waitsOn>>
  BY DEF IInv, real, hist
<1>2. step'[t] = "idle" /\ \A u \in Threads \ {t} : step'[u] = step[u]
  BY <1>1 DEF Typed
<1>3. Typed'
  <2>1. step' \in [Threads -> {"idle", "check", "alloc", "setup", "remember", "do",
                               "waiting", "relock"}]
    BY <1>1 DEF Typed
  <2> QED BY <1>1, <2>1 DEF Typed
<1>4. HeldInv'
  BY <1>1 DEF HeldInv, Registered
<1>5. ASSUME NEW u \in Threads PROVE DepthInv(u)'
  <2>1. CASE u = t
    BY <1>2, <2>1 DEF DepthInv, Birthing
  <2>2. CASE u # t
    <3>1. DepthInv(u) /\ step'[u] = step[u]
      BY <1>2, <2>2 DEF IInv
    <3> QED BY <1>1, <3>1 DEF DepthInv, Birthing
  <2> QED BY <2>1, <2>2
<1>6. Working
  BY <1>1, <1>2 DEF Working
<1> QED BY <1>3, <1>4, <1>5, <1>6, WorkKeeps

LEMMA LockKeeps ==
  ASSUME IInv, NEW t \in Threads, Lock(t)
  PROVE  IInv'
<1>1. /\ step[t] = "do" /\ op[t] \in {"lock", "trylock"}
      /\ UNCHANGED <<table, word, kind, op, todo, mu, co, asked, given, waitsOn>>
      /\ holds[t][mu[t]] < MaxDepth
  BY DEF Lock, IInv, DepthInv
<1>2. CASE Mine(t, word[mu[t]]) /\ Acquire(t, word[mu[t]])
  BY <1>1, <1>2, AcquireKeeps DEF Mine
<1>3. CASE step' = [step EXCEPT ![t] = "idle"] /\ UNCHANGED <<owner, depth, holds>>
  BY <1>1, <1>3, ReturnKeeps DEF real, hist
<1> QED BY <1>2, <1>3 DEF Lock

LEMMA RelockKeeps ==
  ASSUME IInv, NEW t \in Threads, Relock(t)
  PROVE  IInv'
<1>1. /\ step[t] = "relock" /\ op[t] \in {"wait", "timedwait"} /\ holds[t][mu[t]] = 0
  BY DEF Relock, IInv, CallInv, DepthInv
<1> QED BY <1>1, AcquireKeeps DEF Relock

LEMMA UnlockKeeps ==
  ASSUME IInv, NEW t \in Threads, NEW m \in Mutexes, Unlock(t, m)
  PROVE  IInv'
<1> DEFINE h == word[m]  d == holds[t][m] - 1  x == IF d = 0 THEN NoOne ELSE t
<1>1. /\ Typed /\ HeldInv /\ TableInv /\ step[t] = "idle" /\ t # NoOne
      /\ holds[t][m] \in 1..MaxDepth
      /\ UNCHANGED <<table, word, kind, step, op, todo, mu, co, asked, given, waitsOn>>
  <2>1. holds[t][m] \in 0..MaxDepth /\ holds[t][m] > 0
    BY DEF IInv, Typed, Unlock
  <2> QED BY <2>1 DEF IInv, Unlock, call
<1>2. Registered(m) /\ h \in Handles /\ owner[h] = t /\ depth[h] = holds[t][m]
  <2>1. holds[t][m] # 0
    BY <1>1
  <2>2. Registered(m)
    BY <1>1, <2>1 DEF HeldInv
  <2> QED BY <1>1, <2>1, <2>2 DEF HeldInv, TableInv, Objects
<1>3. d \in 0..MaxDepth /\ x \in {t, NoOne} /\ (x = NoOne <=> d = 0)
  BY <1>1
<1>4. Handover(t, m, x, d)
  <2>1. depth' = [depth EXCEPT ![h] = d]
    BY <1>2 DEF Unlock
  <2>2. owner' = [owner EXCEPT ![h] = x]
    BY <1>1, <1>2 DEF Unlock
  <2>3. holds' = [holds EXCEPT ![t][m] = d]
    BY DEF Unlock
  <2> QED BY <2>1, <2>2, <2>3 DEF Handover
<1> HIDE DEF d, x
<1>5. /\ HeldInv'
      /\ owner' \in [Handles -> Threads \cup {NoOne}] /\ depth' \in [Handles -> 0..MaxDepth]
      /\ holds' \in [Threads -> [Mutexes -> 0..MaxDepth]]
      /\ \A u \in Threads \ {t} : holds'[u] = holds[u]
      /\ \A g \in Handles : \/ owner'[g] = owner[g] /\ depth'[g] = depth[g]
                            \/ \E n \in Mutexes : Registered(n) /\ word[n] = g
  BY <1>1, <1>2, <1>3, <1>4, HandoverKeeps
<1>6. Typed'
  BY <1>1, <1>5 DEF Typed
<1>7. ASSUME NEW u \in Threads PROVE DepthInv(u)'
  <2>1. CASE u = t
    BY <1>1, <2>1 DEF DepthInv, Birthing
  <2>2. CASE u # t
    <3>1. DepthInv(u) /\ holds'[u] = holds[u]
      BY <1>5, <2>2 DEF IInv
    <3> QED BY <1>1, <3>1 DEF DepthInv, Birthing
  <2> QED BY <2>1, <2>2
<1>8. Working
  BY <1>1, <1>5 DEF Working
<1> QED BY <1>5, <1>6, <1>7, <1>8, WorkKeeps

LEMMA SleepKeeps ==
  ASSUME IInv, NEW t \in Threads, Sleep(t)
  PROVE  IInv'
<1> DEFINE m == mu[t]  h == word[m]
<1>1. /\ Typed /\ CallInv(t) /\ HeldInv /\ TableInv /\ step[t] = "do" /\ t # NoOne
      /\ op[t] \in {"wait", "timedwait"}
      /\ m \in Mutexes /\ Registered(m) /\ co[t] \in Conds /\ Registered(co[t])
      /\ holds[t][m] = 1
      /\ UNCHANGED <<table, word, kind, op, todo, mu, co, asked, given>>
      /\ step' = [step EXCEPT ![t] = "waiting"]
      /\ waitsOn' = [waitsOn EXCEPT ![t] = word[co[t]]]
  BY ArgsLive DEF IInv, Sleep, CallInv, DepthInv
<1>2. h \in Handles /\ owner[h] = t /\ word[co[t]] \in Handles
  BY <1>1 DEF HeldInv, TableInv, Objects
<1>3. Handover(t, m, NoOne, 0)
  BY <1>2 DEF Sleep, Handover
<1>4. 0 \in 0..MaxDepth
  OBVIOUS
<1>5. /\ HeldInv'
      /\ owner' \in [Handles -> Threads \cup {NoOne}] /\ depth' \in [Handles -> 0..MaxDepth]
      /\ holds' \in [Threads -> [Mutexes -> 0..MaxDepth]]
      /\ holds'[t][m] = 0
      /\ \A u \in Threads \ {t} : holds'[u] = holds[u]
      /\ \A g \in Handles : \/ owner'[g] = owner[g] /\ depth'[g] = depth[g]
                            \/ \E n \in Mutexes : Registered(n) /\ word[n] = g
  BY <1>1, <1>2, <1>3, <1>4, HandoverKeeps
<1>6. /\ step'[t] = "waiting" /\ waitsOn'[t] = word[co[t]]
      /\ \A u \in Threads \ {t} : step'[u] = step[u] /\ waitsOn'[u] = waitsOn[u]
  BY <1>1 DEF Typed
<1>7. Typed'
  <2>1. step' \in [Threads -> {"idle", "check", "alloc", "setup", "remember", "do",
                               "waiting", "relock"}]
    BY <1>1 DEF Typed
  <2>2. waitsOn' \in [Threads -> Handles \cup {Zero}]
    BY <1>1, <1>2 DEF Typed
  <2> QED BY <1>1, <1>5, <2>1, <2>2 DEF Typed
<1>8. ASSUME NEW u \in Threads PROVE DepthInv(u)'
  <2>1. CASE u = t
    BY <1>1, <1>5, <1>6, <2>1 DEF DepthInv, Birthing
  <2>2. CASE u # t
    <3>1. DepthInv(u) /\ holds'[u] = holds[u] /\ step'[u] = step[u] /\ waitsOn'[u] = waitsOn[u]
      BY <1>5, <1>6, <2>2 DEF IInv
    <3> QED BY <1>1, <3>1 DEF DepthInv, Birthing
  <2> QED BY <2>1, <2>2
<1>9. Working
  BY <1>1, <1>5, <1>6 DEF Working
<1> QED BY <1>5, <1>7, <1>8, <1>9, WorkKeeps

(* Threads that wake up go for their mutex; done is who has woken them and *)
(* returns, if it is a thread.                                             *)
LEMMA WakeKeeps ==
  ASSUME IInv, NEW S \in SUBSET {u \in Threads : step[u] = "waiting"},
         NEW done \in SUBSET {u \in Threads : step[u] = "do"},
         step' = [u \in Threads |-> IF u \in done THEN "idle"
                                    ELSE IF u \in S THEN "relock" ELSE step[u]],
         waitsOn' = [u \in Threads |-> IF u \in S THEN Zero ELSE waitsOn[u]],
         UNCHANGED <<table, real, op, todo, mu, co, asked, given, holds>>
  PROVE  IInv'
<1>1. Typed /\ HeldInv /\ UNCHANGED <<table, word, kind, owner, depth, op, todo, mu, co, asked,
                                        given, holds>>
  BY DEF IInv, real
<1>2. Typed'
  <2>1. step' \in [Threads -> {"idle", "check", "alloc", "setup", "remember", "do",
                               "waiting", "relock"}]
    BY <1>1 DEF Typed
  <2>2. waitsOn' \in [Threads -> Handles \cup {Zero}]
    BY <1>1 DEF Typed
  <2> QED BY <1>1, <2>1, <2>2 DEF Typed
<1>3. HeldInv'
  BY <1>1 DEF HeldInv, Registered
<1>4. ASSUME NEW u \in Threads PROVE DepthInv(u)'
  <2>1. DepthInv(u) /\ CallInv(u)
    BY DEF IInv
  <2>2. CASE u \in done
    <3>1. step'[u] = "idle"
      BY <2>2
    <3> QED BY <3>1 DEF DepthInv, Birthing
  <2>3. CASE u \in S
    <3>1. step[u] = "waiting" /\ step'[u] = "relock"
      BY <2>3
    <3> QED BY <1>1, <2>1, <3>1 DEF DepthInv, CallInv, Birthing
  <2>4. CASE u \notin S /\ u \notin done
    <3>1. step'[u] = step[u] /\ waitsOn'[u] = waitsOn[u]
      BY <2>4
    <3> QED BY <1>1, <2>1, <3>1 DEF DepthInv, Birthing
  <2> QED BY <2>2, <2>3, <2>4
<1>5. Working
  <2>1. ASSUME NEW u \in Threads
        PROVE  \/ step'[u] = step[u]
               \/ /\ step[u] \in {"do", "waiting", "relock"}
                  /\ step'[u] \in {"idle", "waiting", "relock"}
                  /\ step'[u] # "idle" => op[u] \in {"wait", "timedwait"}
    <3>1. step[u] = "waiting" => op[u] \in {"wait", "timedwait"}
      BY DEF IInv, CallInv
    <3> QED BY <3>1
  <2> QED BY <1>1, <2>1 DEF Working
<1> QED BY <1>2, <1>3, <1>4, <1>5, WorkKeeps

LEMMA SignalKeeps ==
  ASSUME IInv, NEW t \in Threads, Signal(t)
  PROVE  IInv'
<1>1. PICK S \in SUBSET {u \in Threads : step[u] = "waiting"} :
        /\ step' = [u \in Threads |-> IF u = t THEN "idle"
                                      ELSE IF u \in S THEN "relock" ELSE step[u]]
        /\ waitsOn' = [u \in Threads |-> IF u \in S THEN Zero ELSE waitsOn[u]]
  BY DEF Signal
<1>2. step[t] = "do" /\ UNCHANGED <<table, real, op, todo, mu, co, asked, given, holds>>
  BY DEF Signal
<1>3. /\ {t} \in SUBSET {u \in Threads : step[u] = "do"}
      /\ step' = [u \in Threads |-> IF u \in {t} THEN "idle"
                                    ELSE IF u \in S THEN "relock" ELSE step[u]]
  BY <1>1, <1>2
<1> QED BY <1>1, <1>2, <1>3, WakeKeeps

LEMMA TimeOutKeeps ==
  ASSUME IInv, NEW t \in Threads, TimeOut(t)
  PROVE  IInv'
<1>1. /\ step \in [Threads -> {"idle", "check", "alloc", "setup", "remember", "do",
                               "waiting", "relock"}]
      /\ waitsOn \in [Threads -> Handles \cup {Zero}]
  BY DEF IInv, Typed
<1>2. /\ step[t] = "waiting" /\ step' = [step EXCEPT ![t] = "relock"]
      /\ waitsOn' = [waitsOn EXCEPT ![t] = Zero]
      /\ UNCHANGED <<table, real, op, todo, mu, co, asked, given, holds>>
  BY DEF TimeOut
<1>3. /\ {t} \in SUBSET {u \in Threads : step[u] = "waiting"}
      /\ {} \in SUBSET {u \in Threads : step[u] = "do"}
      /\ step' = [u \in Threads |-> IF u \in {} THEN "idle"
                                    ELSE IF u \in {t} THEN "relock" ELSE step[u]]
      /\ waitsOn' = [u \in Threads |-> IF u \in {t} THEN Zero ELSE waitsOn[u]]
  BY <1>1, <1>2
<1> QED BY <1>2, <1>3, WakeKeeps

LEMMA DestroyKeeps ==
  ASSUME IInv, NEW o \in Objects, Destroy(o)
  PROVE  IInv'
<1> DEFINE h == word[o]
<1>1. /\ Typed /\ TableInv /\ HeldInv /\ SoloInv /\ h \in Handles /\ ~InUse(o)
      /\ UNCHANGED <<step, op, todo, mu, co, asked, holds, waitsOn>>
      /\ table' = Forgotten(o)
      /\ word' = [word EXCEPT ![o] = "normal"] /\ kind' = [kind EXCEPT ![h] = "none"]
      /\ owner' = [owner EXCEPT ![h] = NoOne] /\ depth' = [depth EXCEPT ![h] = 0]
      /\ given' = IF o \in Mutexes THEN [given EXCEPT ![o] = "normal"] ELSE given
  BY DEF IInv, Destroy, call
<1>2. \A u \in Threads : CallInv(u) /\ ArgsInv(u) /\ BirthInv(u) /\ DepthInv(u) /\ Stays(u)
  BY <1>1 DEF IInv, Stays
<1>3. \A u \in Threads : step[u] # "idle" => o \notin Args(u)
  BY <1>1 DEF InUse, Args
<1>4. \A u \in Threads : step[u] \in Birthing =>
        Head(todo[u]) \in Objects /\ Head(todo[u]) # o /\ step[u] # "idle"
  BY <1>1, <1>2, <1>3, ListOf DEF Birthing
<1>5. Registered(o)
  BY <1>1, <1>4 DEF TableInv, Growing, Birthing
<1>6. PICK i \in 1..Slots : table[i] = o /\ table' = [table EXCEPT ![i] = Zero]
  BY <1>1, <1>5, LeavesTable
<1>7. h \notin Kinds /\ "normal" \in Kinds /\ "normal" \notin Handles /\ o # Zero
  BY <1>1 DEF Kinds, Objects
<1> HIDE DEF h
<1>8. /\ table' \in [1..Slots -> Objects \cup {Zero}] /\ table'[i] = Zero
      /\ \A j \in (1..Slots) \ {i} : table'[j] = table[j] /\ table'[j] # o
      /\ \A x \in Objects : (\E j \in 1..Slots : table'[j] = x) <=> Registered(x) /\ x # o
  <2>1. table \in [1..Slots -> Objects \cup {Zero}]
    BY <1>1 DEF Typed
  <2>2. table' \in [1..Slots -> Objects \cup {Zero}] /\ table'[i] = Zero
        /\ \A j \in (1..Slots) \ {i} : table'[j] = table[j]
    BY <1>6, <2>1
  <2>3. \A j \in (1..Slots) \ {i} : table[j] # o
    BY <1>1, <1>6, <1>7 DEF TableInv
  <2> QED BY <1>6, <1>7, <2>2, <2>3 DEF Registered, Objects
<1>9. /\ word' \in [Objects -> Handles \cup Kinds] /\ word'[o] = "normal"
      /\ \A x \in Objects \ {o} : word'[x] = word[x]
      /\ kind' \in [Handles -> Kinds \cup {"none", "raw", "cond"}] /\ kind'[h] = "none"
      /\ owner' \in [Handles -> Threads \cup {NoOne}] /\ owner'[h] = NoOne
      /\ depth' \in [Handles -> 0..MaxDepth] /\ depth'[h] = 0
      /\ \A g \in Handles \ {h} : kind'[g] = kind[g] /\ owner'[g] = owner[g] /\ depth'[g] = depth[g]
      /\ given' \in [Mutexes -> Kinds] /\ (o \in Mutexes => given'[o] = "normal")
      /\ \A x \in Mutexes \ {o} : given'[x] = given[x]
  <2>1. /\ word' \in [Objects -> Handles \cup Kinds] /\ word'[o] = "normal"
        /\ \A x \in Objects \ {o} : word'[x] = word[x]
    BY <1>1, <1>7 DEF Typed
  <2>2. /\ kind' \in [Handles -> Kinds \cup {"none", "raw", "cond"}] /\ kind'[h] = "none"
        /\ \A g \in Handles \ {h} : kind'[g] = kind[g]
    BY <1>1 DEF Typed, h
  <2>3. /\ owner' \in [Handles -> Threads \cup {NoOne}] /\ owner'[h] = NoOne
        /\ \A g \in Handles \ {h} : owner'[g] = owner[g]
    BY <1>1 DEF Typed, h
  <2>4. /\ depth' \in [Handles -> 0..MaxDepth] /\ depth'[h] = 0
        /\ \A g \in Handles \ {h} : depth'[g] = depth[g]
    <3>1. depth \in [Handles -> 0..MaxDepth] /\ 0 \in 0..MaxDepth
      BY <1>1 DEF Typed
    <3> QED BY <1>1, <3>1 DEF h
  <2>5. /\ given' \in [Mutexes -> Kinds] /\ (o \in Mutexes => given'[o] = "normal")
        /\ \A x \in Mutexes \ {o} : given'[x] = given[x]
    BY <1>1, <1>7 DEF Typed
  <2> QED BY <2>1, <2>2, <2>3, <2>4, <2>5
<1>10. Typed'
  BY <1>1, <1>8, <1>9 DEF Typed
<1>11. \A x \in Objects \ {o} : word[x] \in Handles => word[x] # h
  BY <1>1 DEF TableInv, h
<1>12. SoloInv'
  <2>1. \A u \in Threads : Pending(u)' = Pending(u)
    BY <1>1 DEF Pending
  <2>2. \A u \in Threads : Pending(u) \subseteq Objects \ {o}
    BY <1>1, <1>2, <1>3, ListOf, NoList DEF Birthing
  <2>3. ASSUME NEW t \in Threads, NEW u \in Threads, NEW x \in Pending(t) \cap Pending(u)
        PROVE  t = u \/ \E j \in 1..Slots : table'[j] = x
    BY <1>1, <1>8, <2>2 DEF SoloInv
  <2> QED BY <2>1, <2>3 DEF SoloInv, Registered
<1>13. ASSUME NEW u \in Threads PROVE CallInv(u)' /\ ArgsInv(u)' /\ BirthInv(u)' /\ DepthInv(u)'
  <2>1. ASSUME step[u] \in Birthing PROVE Untouched(Head(todo[u]))
    <3> DEFINE p == Head(todo[u])
    <3>1. p \in Objects /\ p # o
      BY <1>4, <2>1
    <3> HIDE DEF p
    <3>2. Untouched(p)
      BY <1>8, <1>9, <1>11, <3>1 DEF Untouched
    <3> QED BY <3>2 DEF p
  <2>2. \A x \in Args(u) : step[u] # "idle" /\ Registered(x) => \E j \in 1..Slots : table'[j] = x
    <3>1. Args(u) \subseteq Objects
      BY <1>1 DEF Args, Typed, Objects
    <3> QED BY <1>3, <1>8, <3>1
  <2>3. step[u] = "waiting" => word'[co[u]] = word[co[u]]
    BY <1>2, <1>3, <1>9 DEF CallInv, Args, Objects
  <2> QED BY <1>1, <1>2, <2>1, <2>2, <2>3, StaysKeep
<1>14. TableInv'
  <2>1. /\ \A x : Growing(x)' = Growing(x)
        /\ \A x : Renamed(x)' = Renamed(x)
    BY <1>1 DEF Growing, Renamed
  <2>2. \A j, k \in 1..Slots : table'[j] = table'[k] /\ table'[j] # Zero => j = k
    BY <1>1, <1>8 DEF TableInv
  <2>3. \A x \in Objects :
       /\ Registered(x)' => word'[x] \in Handles
       /\ word'[x] \in Handles => Registered(x)' \/ Growing(x)'
       /\ word'[x] \in Handles => kind'[word'[x]] # "none"
       /\ Registered(x)' => kind'[word'[x]] = IF x \in Conds THEN "cond" ELSE given'[x]
    <3> SUFFICES ASSUME NEW x \in Objects
                 PROVE  /\ Registered(x)' => word'[x] \in Handles
                        /\ word'[x] \in Handles => Registered(x)' \/ Growing(x)
                        /\ word'[x] \in Handles => kind'[word'[x]] # "none"
                        /\ Registered(x)' => kind'[word'[x]] = IF x \in Conds THEN "cond" ELSE given'[x]
      BY <2>1
    <3>0. Registered(x)' <=> Registered(x) /\ x # o
      BY <1>8 DEF Registered
    <3>1. CASE x = o
      BY <1>7, <1>9, <3>0, <3>1
    <3>2. CASE x # o
      BY <1>1, <1>9, <1>11, <3>0, <3>2 DEF TableInv, Objects
    <3> QED BY <3>1, <3>2
  <2>4. \A m \in Mutexes : word'[m] \in Kinds => word'[m] = given'[m] \/ Renamed(m)'
    BY <1>1, <1>9, <2>1 DEF TableInv, Objects
  <2>5. \A x, p \in Objects : word'[x] \in Handles /\ word'[x] = word'[p] => x = p
    BY <1>1, <1>7, <1>9 DEF TableInv
  <2>6. \A g \in Handles : kind'[g] # "none" => \E x \in Objects : word'[x] = g
    <3> SUFFICES ASSUME NEW g \in Handles, kind'[g] # "none" PROVE \E x \in Objects : word'[x] = g
      OBVIOUS
    <3>1. g # h /\ kind[g] # "none"
      BY <1>9
    <3>2. PICK x \in Objects : word[x] = g
      BY <1>1, <3>1 DEF TableInv
    <3> QED BY <1>9, <3>1, <3>2 DEF h
  <2>7. \A g \in Handles : kind'[g] = "none" => owner'[g] = NoOne /\ depth'[g] = 0
    BY <1>1, <1>9 DEF TableInv
  <2> QED BY <2>2, <2>3, <2>4, <2>5, <2>6, <2>7 DEF TableInv
<1>15. HeldInv'
  <2> SUFFICES ASSUME NEW m \in Mutexes
               PROVE  /\ ~Registered(m)' => \A u \in Threads : holds[u][m] = 0
                      /\ Registered(m)' =>
                           /\ owner'[word'[m]] = NoOne => depth'[word'[m]] = 0
                           /\ \A u \in Threads :
                                holds[u][m] = IF owner'[word'[m]] = u THEN depth'[word'[m]] ELSE 0
    BY <1>1 DEF HeldInv
  <2>0. m \in Objects /\ (Registered(m)' <=> Registered(m) /\ m # o)
    BY <1>8 DEF Registered, Objects
  <2>1. CASE m = o
    <3>1. \A u \in Threads : holds[u][m] \in 0..MaxDepth /\ ~(holds[u][m] > 0)
      BY <1>1, <2>1 DEF Typed, InUse
    <3> QED BY <2>0, <2>1, <3>1
  <2>2. CASE m # o
    <3>1. word'[m] = word[m]
      BY <1>9, <2>0, <2>2
    <3>2. Registered(m) => word[m] \in Handles /\ word[m] # h
      BY <1>1, <1>11, <2>0, <2>2 DEF TableInv
    <3>3. Registered(m) => owner'[word[m]] = owner[word[m]] /\ depth'[word[m]] = depth[word[m]]
      BY <1>9, <3>2
    <3>4. /\ ~Registered(m) => \A u \in Threads : holds[u][m] = 0
          /\ Registered(m) =>
               /\ owner[word[m]] = NoOne => depth[word[m]] = 0
               /\ \A u \in Threads : holds[u][m] = IF owner[word[m]] = u THEN depth[word[m]] ELSE 0
      BY <1>1 DEF HeldInv
    <3> QED BY <2>0, <2>2, <3>1, <3>3, <3>4
  <2> QED BY <2>1, <2>2
<1> QED BY <1>10, <1>12, <1>13, <1>14, <1>15 DEF IInv

LEMMA InitKeeps == Init => IInv
<1> SUFFICES ASSUME Init PROVE IInv
  OBVIOUS
<1>1. Typed
  <2>1. /\ table \in [1..Slots -> Objects \cup {Zero}] /\ word \in [Objects -> Handles \cup Kinds]
        /\ given \in [Mutexes -> Kinds]
    BY DEF Init, Objects
  <2>2. /\ kind \in [Handles -> Kinds \cup {"none", "raw", "cond"}]
        /\ owner \in [Handles -> Threads \cup {NoOne}]
        /\ asked \in [Threads -> Kinds \cup {"cond"}]
    BY DEF Init, Kinds
  <2>3. depth \in [Handles -> 0..MaxDepth] /\ holds \in [Threads -> [Mutexes -> 0..MaxDepth]]
    <3>1. 0 \in 0..MaxDepth
      OBVIOUS
    <3> QED BY <3>1 DEF Init
  <2>4. todo \in [Threads -> Seq(Objects)]
    BY DEF Init
  <2> QED BY <2>1, <2>2, <2>3, <2>4 DEF Init, Typed
<1>2. \A x : x # Zero => ~Registered(x)
  BY DEF Init, Registered
<1>3. /\ \A t \in Threads : step[t] = "idle" /\ op[t] = "none" /\ todo[t] = << >>
      /\ \A o \in Objects : word[o] \in Kinds /\ word[o] \notin Handles
      /\ \A m \in Mutexes : given[m] = word[m]
      /\ \A i \in 1..Slots : table[i] = Zero
      /\ \A h \in Handles : kind[h] = "none" /\ owner[h] = NoOne /\ depth[h] = 0
      /\ \A t \in Threads : \A m \in Mutexes : holds[t][m] = 0
  BY DEF Init, Objects
<1>4. \A t \in Threads : CallInv(t) /\ ArgsInv(t) /\ BirthInv(t) /\ DepthInv(t)
  BY <1>3 DEF CallInv, ArgsInv, BirthInv, DepthInv, Birthing
<1>5. SoloInv
  BY <1>3, Lists DEF SoloInv, Pending
<1>6. TableInv
  BY <1>2, <1>3 DEF TableInv, Objects
<1>7. HeldInv
  BY <1>2, <1>3 DEF HeldInv, Objects
<1> QED BY <1>1, <1>4, <1>5, <1>6, <1>7 DEF IInv
-----------------------------------------------------------------------------
LEMMA StepKeeps ==
  ASSUME Orderly, IInv, [Next]_vars
  PROVE  IInv'
<1>1. ASSUME NEW t \in Threads, Calls(t) PROVE IInv'
  BY <1>1, EnterKeeps
<1>2. ASSUME NEW t \in Threads, Birth(t) PROVE IInv'
  BY <1>2, CheckKeeps, AllocKeeps, SetupKeeps, RememberKeeps DEF Birth
<1>3. ASSUME NEW t \in Threads, Work(t) PROVE IInv'
  BY <1>3, LockKeeps, SleepKeeps, SignalKeeps, TimeOutKeeps, RelockKeeps DEF Work
<1>4. ASSUME NEW t \in Threads, NEW m \in Mutexes, Unlock(t, m) PROVE IInv'
  BY <1>4, UnlockKeeps
<1>5. ASSUME NEW o \in Objects, Destroy(o) PROVE IInv'
  BY <1>5, DestroyKeeps
<1>6. CASE UNCHANGED vars \/ \E m \in Mutexes : DestroyUnused(m)
  <2>1. UNCHANGED <<table, word, kind, owner, depth, step, op, todo, mu, co, asked,
                    given, holds, waitsOn>>
    BY <1>6 DEF vars, real, call, hist, DestroyUnused
  <2>2. Typed' /\ HeldInv'
    BY <2>1 DEF IInv, Typed, HeldInv, Registered
  <2>3. \A u \in Threads : DepthInv(u)'
    BY <2>1 DEF IInv, DepthInv, Birthing
  <2>4. Working
    BY <2>1 DEF Working
  <2> QED BY <2>2, <2>3, <2>4, WorkKeeps
<1> QED BY <1>1, <1>2, <1>3, <1>4, <1>5, <1>6 DEF Next, Step

(* Every step of every call of pthr.c keeps lists, births, table, real     *)
(* objects and what the threads hold in agreement.                         *)
THEOREM Invariant ==
  ASSUME Orderly
  PROVE  Spec => []IInv
<1>1. IInv /\ [Next]_vars => IInv'
  BY StepKeeps
<1> QED BY <1>1, InitKeeps, PTL DEF Spec

(* Every variable keeps its type for any number of threads and objects;    *)
(* the table of pthr.c holds addresses of engine objects, never pointers.  *)
THEOREM TypeCorrect ==
  ASSUME Orderly
  PROVE  Spec => []TypeOK
<1>1. Init => TypeOK
  BY InitKeeps DEF IInv, Init, TypeOK
<1>2. IInv' /\ TypeOK /\ [Next]_vars => TypeOK'
  <2>1. TypeOK /\ [Next]_vars => faulted' \in BOOLEAN
    BY DEF TypeOK, Next, DestroyUnused, vars
  <2>2. IInv' => Typed'
    BY DEF IInv
  <2> QED BY <2>1, <2>2 DEF TypeOK
<1> QED BY <1>1, <1>2, Invariant, PTL DEF Spec

(* Mutual exclusion: through births, waits and destruction two threads     *)
(* never hold one bionic mutex, because holding it is holding the one real *)
(* mutex its word points to.                                               *)
THEOREM ExclusionHolds ==
  ASSUME Orderly
  PROVE  Spec => []Exclusion
<1>1. IInv => Exclusion
  BY DEF IInv, HeldInv, Exclusion
<1> QED BY <1>1, Invariant, PTL

(* Whoever waits on a bionic condition variable sleeps on the real one     *)
(* that a signal of pthread_cond_signal_soloader goes to.                  *)
THEOREM WaitersFound ==
  ASSUME Orderly
  PROVE  Spec => []WaitersReachable
<1>1. IInv => WaitersReachable
  BY DEF IInv, DepthInv, WaitersReachable
<1> QED BY <1>1, Invariant, PTL

(* initializedObjects has one entry per live object and none for a dead    *)
(* one; no real object is shared by two words or leaked.                   *)
THEOREM TableAgrees ==
  ASSUME Orderly
  PROVE  Spec => []TableMatchesWords
<1>1. IInv => TableMatchesWords
  BY DEF IInv, TableInv, TableMatchesWords
<1> QED BY <1>1, Invariant, PTL
-----------------------------------------------------------------------------
(* Who owns a real mutex has locked it at least once.                      *)
Taken == \A h \in Handles : owner[h] # NoOne => depth[h] > 0
RInv == IInv /\ Taken

LEMMA TakenKept ==
  ASSUME IInv, Taken, [Next]_vars
  PROVE  Taken'
<1>0. /\ owner \in [Handles -> Threads \cup {NoOne}] /\ depth \in [Handles -> 0..MaxDepth]
      /\ \A h \in Handles : depth[h] \in Nat
  BY DEF IInv, Typed
<1>1. CASE UNCHANGED <<owner, depth>>
  BY <1>1 DEF Taken
<1>2. ASSUME NEW h, owner' = [owner EXCEPT ![h] = NoOne], depth' = [depth EXCEPT ![h] = 0]
      PROVE  Taken'
  BY <1>0, <1>2 DEF Taken
<1>3. ASSUME NEW t \in Threads, NEW h, Acquire(t, h) PROVE Taken'
  BY <1>0, <1>3 DEF Acquire, Taken
<1>4. ASSUME NEW t \in Threads, Calls(t) \/ Birth(t) \/ Work(t) PROVE Taken'
  <2>1. CASE Calls(t)
    BY <1>1, <2>1 DEF Calls, CallLock, CallInit, CallInitDefault, CallWait, CallSignal, Enter, real
  <2>2. CASE Check(t) \/ Alloc(t) \/ Remember(t) \/ Signal(t) \/ TimeOut(t)
    BY <1>1, <2>2 DEF Check, Alloc, Remember, Signal, TimeOut, real
  <2>3. CASE Setup(t)
    BY <1>2, <2>3 DEF Setup
  <2>4. CASE Lock(t) \/ Relock(t)
    BY <1>1, <1>3, <2>4 DEF Lock, Relock
  <2>5. CASE Sleep(t)
    BY <1>1, <1>2, <2>5 DEF Sleep
  <2> QED BY <1>4, <2>1, <2>2, <2>3, <2>4, <2>5 DEF Birth, Work
<1>5. ASSUME NEW t \in Threads, NEW m \in Mutexes, Unlock(t, m) PROVE Taken'
  <2> DEFINE h == word[m]
  <2>1. CASE h \in Handles /\ owner[h] = t
    <3>1. /\ depth' = [depth EXCEPT ![h] = depth[h] - 1]
          /\ owner' = [owner EXCEPT ![h] = IF depth[h] = 1 THEN NoOne ELSE t]
      BY <1>5, <2>1 DEF Unlock
    <3>2. depth[h] > 0 /\ depth[h] \in Nat
      BY <1>0, <2>1 DEF Taken
    <3> HIDE DEF h
    <3> QED BY <1>0, <2>1, <3>1, <3>2 DEF Taken
  <2>2. CASE ~(h \in Handles /\ owner[h] = t)
    BY <1>1, <1>5, <2>2 DEF Unlock
  <2> QED BY <2>1, <2>2
<1>6. ASSUME NEW o \in Objects, Destroy(o) PROVE Taken'
  BY <1>2, <1>6 DEF Destroy
<1>7. CASE UNCHANGED vars \/ \E m \in Mutexes : DestroyUnused(m)
  BY <1>1, <1>7 DEF vars, real, DestroyUnused
<1> QED BY <1>4, <1>5, <1>6, <1>7 DEF Next, Step

LEMMA RInvKept ==
  ASSUME Orderly, RInv, [Next]_vars
  PROVE  RInv'
BY StepKeeps, TakenKept DEF RInv

(* The view is what the engine's threads believe: the kind it was given,   *)
(* and a mutex is held by who has locked it, as often.                     *)
Believed ==
  /\ MutexKind = given
  /\ \A m \in Mutexes :
       /\ MutexOwner[m] \in Threads \cup {NoOne} /\ MutexDepth[m] \in Nat
       /\ MutexOwner[m] = NoOne => MutexDepth[m] = 0
       /\ \A t \in Threads : /\ MutexOwner[m] = t <=> holds[t][m] > 0
                             /\ MutexOwner[m] = t => MutexDepth[m] = holds[t][m]

LEMMA View == RInv => Believed
<1> SUFFICES ASSUME RInv PROVE Believed
  OBVIOUS
<1>1. /\ Typed /\ TableInv /\ HeldInv
      /\ \A t \in Threads, m \in Mutexes : holds[t][m] \in Nat
  BY DEF RInv, IInv, Typed
<1>2. MutexKind = given
  <2>1. \A m \in Mutexes : Registered(m) => kind[word[m]] = given[m]
    BY <1>1 DEF TableInv, Objects
  <2> QED BY <1>1, <2>1 DEF MutexKind, Typed
<1>3. ASSUME NEW m \in Mutexes
      PROVE  /\ MutexOwner[m] \in Threads \cup {NoOne} /\ MutexDepth[m] \in Nat
             /\ MutexOwner[m] = NoOne => MutexDepth[m] = 0
             /\ \A t \in Threads : /\ MutexOwner[m] = t <=> holds[t][m] > 0
                                   /\ MutexOwner[m] = t => MutexDepth[m] = holds[t][m]
  <2>1. CASE ~Registered(m)
    <3>1. MutexOwner[m] = NoOne /\ MutexDepth[m] = 0
      BY <2>1 DEF MutexOwner, MutexDepth
    <3>2. \A t \in Threads : holds[t][m] = 0
      BY <1>1, <2>1 DEF HeldInv
    <3> QED BY <3>1, <3>2
  <2>2. CASE Registered(m)
    <3>1. /\ MutexOwner[m] = owner[word[m]] /\ MutexDepth[m] = depth[word[m]]
          /\ word[m] \in Handles
      BY <1>1, <2>2 DEF MutexOwner, MutexDepth, TableInv, Objects
    <3>2. /\ owner[word[m]] \in Threads \cup {NoOne} /\ depth[word[m]] \in Nat
          /\ owner[word[m]] # NoOne => depth[word[m]] > 0
      BY <1>1, <3>1 DEF Typed, RInv, Taken
    <3>3. /\ owner[word[m]] = NoOne => depth[word[m]] = 0
          /\ \A t \in Threads : holds[t][m] = IF owner[word[m]] = t THEN depth[word[m]] ELSE 0
      BY <1>1, <2>2 DEF HeldInv
    <3> QED BY <3>1, <3>2, <3>3
  <2> QED BY <2>1, <2>2
<1> QED BY <1>2, <1>3 DEF Believed

LEMMA ViewNext == RInv' => Believed'
BY View, PTL

(* So the view of a mutex changes only when a thread's record of it does.  *)
LEMMA ViewStays ==
  ASSUME RInv, RInv', UNCHANGED holds
  PROVE  MutexOwner' = MutexOwner /\ MutexDepth' = MutexDepth
<1>1. ASSUME NEW m \in Mutexes
      PROVE  MutexOwner'[m] = MutexOwner[m] /\ MutexDepth'[m] = MutexDepth[m]
  <2>1. /\ MutexOwner[m] \in Threads \cup {NoOne} /\ MutexDepth[m] \in Nat
        /\ MutexOwner[m] = NoOne => MutexDepth[m] = 0
        /\ \A t \in Threads : /\ MutexOwner[m] = t <=> holds[t][m] > 0
                              /\ MutexOwner[m] = t => MutexDepth[m] = holds[t][m]
    BY View DEF Believed
  <2>2. /\ MutexOwner'[m] \in Threads \cup {NoOne} /\ MutexDepth'[m] \in Nat
        /\ MutexOwner'[m] = NoOne => MutexDepth'[m] = 0
        /\ \A t \in Threads : /\ MutexOwner'[m] = t <=> holds'[t][m] > 0
                              /\ MutexOwner'[m] = t => MutexDepth'[m] = holds'[t][m]
    BY ViewNext DEF Believed
  <2>3. MutexOwner'[m] = MutexOwner[m]
    BY <2>1, <2>2
  <2> QED BY <2>1, <2>2, <2>3
<1> QED BY <1>1 DEF MutexOwner, MutexDepth

LEMMA ViewMoves ==
  ASSUME RInv, RInv', NEW t \in Threads, NEW m \in Mutexes,
         MutexOwner[m] \in {t, NoOne},
         \A u \in Threads, n \in Mutexes : u # t \/ n # m => holds'[u][n] = holds[u][n]
  PROVE  /\ MutexOwner' = [MutexOwner EXCEPT ![m] = IF holds'[t][m] > 0 THEN t ELSE NoOne]
         /\ MutexDepth' = [MutexDepth EXCEPT ![m] = holds'[t][m]]
<1> DEFINE d == holds'[t][m]  x == IF d > 0 THEN t ELSE NoOne
<1>0. /\ d = holds'[t][m] /\ d \in Nat /\ (x = IF d > 0 THEN t ELSE NoOne) /\ t # NoOne
      /\ \A u \in Threads, n \in Mutexes : u # t \/ n # m => holds'[u][n] = holds[u][n]
  BY DEF RInv, IInv, Typed
<1> HIDE DEF d, x
<1>1. ASSUME NEW n \in Mutexes
      PROVE  /\ MutexOwner'[n] = IF n = m THEN x ELSE MutexOwner[n]
             /\ MutexDepth'[n] = IF n = m THEN d ELSE MutexDepth[n]
  <2>1. /\ MutexOwner[n] \in Threads \cup {NoOne} /\ MutexDepth[n] \in Nat
        /\ MutexOwner[n] = NoOne => MutexDepth[n] = 0
        /\ \A u \in Threads : /\ MutexOwner[n] = u <=> holds[u][n] > 0
                              /\ MutexOwner[n] = u => MutexDepth[n] = holds[u][n]
    BY View DEF Believed
  <2>2. /\ MutexOwner'[n] \in Threads \cup {NoOne} /\ MutexDepth'[n] \in Nat
        /\ MutexOwner'[n] = NoOne => MutexDepth'[n] = 0
        /\ \A u \in Threads : /\ MutexOwner'[n] = u <=> holds'[u][n] > 0
                              /\ MutexOwner'[n] = u => MutexDepth'[n] = holds'[u][n]
    BY ViewNext DEF Believed
  <2>3. CASE n = m
    <3>1. \A u \in Threads \ {t} : ~(holds'[u][n] > 0)
      BY <1>0, <2>1, <2>3
    <3>2. MutexOwner'[n] \in {t, NoOne}
      BY <2>2, <3>1
    <3>3. MutexOwner'[n] = t <=> d > 0
      BY <1>0, <2>2, <2>3
    <3> QED BY <1>0, <2>2, <2>3, <3>2, <3>3
  <2>4. CASE n # m
    <3>1. \A u \in Threads : holds'[u][n] = holds[u][n]
      BY <1>0, <2>4
    <3>2. MutexOwner'[n] = MutexOwner[n]
      BY <2>1, <2>2, <3>1
    <3> QED BY <2>1, <2>2, <2>4, <3>1, <3>2
  <2> QED BY <2>3, <2>4
<1> QED BY <1>1 DEF MutexOwner, MutexDepth, d, x
-----------------------------------------------------------------------------
(* A mutex stays unused until somebody calls for it: a word changes only   *)
(* where a call is under way or the object was alive, and a call that is   *)
(* over leaves its mutex alive.                                            *)
LEMMA UnusedKept ==
  ASSUME UNCHANGED mu,
         \A m \in Mutexes : \/ word'[m] = word[m]
                            \/ m \notin NeverUsed /\ word'[m] \notin Kinds \ {"normal"},
         \A u \in Threads : \/ (step'[u] = "idle") <=> (step[u] = "idle")
                            \/ mu[u] \in Mutexes => word[mu[u]] \in Handles
  PROVE  NeverUsed' = NeverUsed
<1>1. Handles \cap Kinds = {}
  OBVIOUS
<1>2. ASSUME NEW m \in Mutexes PROVE m \in NeverUsed' <=> m \in NeverUsed
  <2>1. CASE word'[m] = word[m] /\ word[m] \in Kinds \ {"normal"}
    <3>1. \A u \in Threads : mu[u] = m => ((step'[u] = "idle") <=> (step[u] = "idle"))
      BY <1>1, <2>1
    <3> QED BY <2>1, <3>1 DEF NeverUsed
  <2>2. CASE word'[m] = word[m] /\ word[m] \notin Kinds \ {"normal"}
    BY <2>2 DEF NeverUsed
  <2>3. CASE m \notin NeverUsed /\ word'[m] \notin Kinds \ {"normal"}
    BY <2>3 DEF NeverUsed
  <2> QED BY <2>1, <2>2, <2>3
<1>3. NeverUsed \subseteq Mutexes /\ NeverUsed' \subseteq Mutexes
  BY DEF NeverUsed
<1> QED BY <1>2, <1>3

LEMMA UnusedCalled ==
  ASSUME Typed, NEW t \in Threads, NEW name, NEW m, NEW c, NEW objs, Enter(t, name, m, c, objs)
  PROVE  NeverUsed' = NeverUsed \ {m}
<1>1. /\ word' = word /\ step[t] = "idle" /\ step'[t] = "check" /\ mu'[t] = m
      /\ \A u \in Threads \ {t} : step'[u] = step[u] /\ mu'[u] = mu[u]
  BY DEF Enter, Typed, real
<1>2. ASSUME NEW x \in Mutexes PROVE x \in NeverUsed' <=> x \in NeverUsed /\ x # m
  BY <1>1 DEF NeverUsed
<1>3. NeverUsed \subseteq Mutexes /\ NeverUsed' \subseteq Mutexes
  BY DEF NeverUsed
<1> QED BY <1>2, <1>3
-----------------------------------------------------------------------------
Busy == {"check", "alloc", "setup", "remember", "do"}

LEMMA PhaseMoves ==
  ASSUME Typed, NEW t \in Threads, NEW s, step' = [step EXCEPT ![t] = s]
  PROVE  Phase' = [Phase EXCEPT ![t] = IF s \in Busy THEN "called" ELSE s]
<1>1. step \in [Threads -> {"idle", "check", "alloc", "setup", "remember", "do",
                            "waiting", "relock"}]
  BY DEF Typed
<1>2. /\ step'[t] = s /\ \A u \in Threads \ {t} : step'[u] = step[u]
  BY <1>1
<1>3. \A u \in Threads : Phase'[u] = IF u = t THEN IF s \in Busy THEN "called" ELSE s
                                     ELSE Phase[u]
  BY <1>2 DEF Phase, Busy
<1> DEFINE g == [Phase EXCEPT ![t] = IF s \in Busy THEN "called" ELSE s]
<1>4. /\ g = [u \in Threads |-> g[u]]
      /\ \A u \in Threads : g[u] = IF u = t THEN IF s \in Busy THEN "called" ELSE s ELSE Phase[u]
  BY DEF Phase
<1>5. Phase' = [u \in Threads |-> Phase'[u]]
  BY DEF Phase
<1> HIDE DEF g
<1>6. Phase' = g
  <2>1. [u \in Threads |-> Phase'[u]] = [u \in Threads |-> g[u]]
    BY <1>3, <1>4
  <2> QED BY <1>4, <1>5, <2>1
<1> QED BY <1>6 DEF g

(* A call begins as a POSIX call; nothing but pthread_mutex_init changes   *)
(* what a mutex is, and the one without attributes leaves it what a word   *)
(* never used says it is.                                                  *)
LEMMA CallsImplement ==
  ASSUME RInv, RInv', NEW t \in Threads, Calls(t)
  PROVE  Posix!Thread(t)
<1>0. /\ Typed /\ Believed /\ Believed' /\ MutexKind = given /\ MutexKind' = given'
  BY View, ViewNext DEF RInv, IInv, Believed
<1>6. Posix!Kinds = Kinds
  BY DEF Posix!Kinds, Kinds
<1>1. ASSUME NEW name, NEW m, NEW c, NEW objs, Enter(t, name, m, c, objs)
      PROVE  /\ Posix!Call(t, name, m, c)
             /\ MutexOwner' = MutexOwner /\ MutexDepth' = MutexDepth
  <2>0. NeverUsed' = NeverUsed \ {m}
    BY <1>0, <1>1, UnusedCalled
  <2>1. /\ step[t] = "idle" /\ step' = [step EXCEPT ![t] = "check"] /\ UNCHANGED holds
        /\ op' = [op EXCEPT ![t] = name]
        /\ mu' = [mu EXCEPT ![t] = m] /\ co' = [co EXCEPT ![t] = c]
    BY <1>1 DEF Enter
  <2>2. Phase' = [Phase EXCEPT ![t] = "called"] /\ Phase[t] = "idle"
    BY <1>0, <2>1, PhaseMoves DEF Busy, Phase
  <2> QED BY <2>0, <2>1, <2>2, ViewStays DEF Posix!Call, Posix!Goto
<1>i. ASSUME NEW m \in Mutexes, ~Registered(m), ~InUse(m) PROVE ~Posix!MutexInUse(m)
  <2>1. MutexOwner[m] = NoOne
    BY <1>i DEF MutexOwner
  <2>2. \A u \in Threads : Phase[u] # "idle" => mu[u] # m
    BY <1>i DEF InUse, Phase
  <2> QED BY <2>1, <2>2 DEF Posix!MutexInUse
<1>2. ASSUME NEW m \in Mutexes, NEW k \in Kinds, CallInit(t, m, k) PROVE Posix!CallInit(t, m)
  <2>1. Posix!InitAs(t, "init", m, k)
    BY <1>0, <1>1, <1>2, <1>i DEF CallInit, Posix!InitAs
  <2> QED BY <1>6, <2>1 DEF Posix!CallInit
<1>d. ASSUME NEW m \in Mutexes, CallInitDefault(t, m) PROVE Posix!CallInitDefault(t, m)
  <2> DEFINE k == IF m \in NeverUsed THEN MutexKind[m] ELSE "normal"
  <2>1. /\ ~Registered(m) /\ ~InUse(m) /\ Enter(t, "initdefault", m, Zero, <<m>>)
        /\ given' = [given EXCEPT ![m] = StaticKind(m)]
    BY <1>d DEF CallInitDefault
  <2>2. word[m] \in Kinds /\ word[m] = given[m]
    <3>1. \A u \in Threads : step[u] \in Birthing => Head(todo[u]) # m
      BY <2>1, ListOf DEF RInv, IInv, InUse, Args, Birthing
    <3>2. ~Growing(m) /\ ~Renamed(m)
      BY <3>1 DEF Growing, Renamed, Birthing
    <3> QED BY <2>1, <3>2 DEF RInv, IInv, Typed, TableInv, Objects
  <2>3. StaticKind(m) = word[m]
    BY <2>2 DEF StaticKind
  <2>4. m \in NeverUsed <=> word[m] # "normal"
    BY <2>1, <2>2 DEF NeverUsed, InUse
  <2>5. StaticKind(m) = k
    BY <1>0, <2>2, <2>3, <2>4
  <2> HIDE DEF k
  <2>6. Posix!InitAs(t, "initdefault", m, k)
    BY <1>0, <1>1, <1>i, <2>1, <2>5 DEF Posix!InitAs
  <2> QED BY <2>6 DEF Posix!CallInitDefault, k
<1>3. ASSUME NEW m \in Mutexes, CallLock(t, m) PROVE Posix!CallLock(t, m)
  <2>1. PICK name \in {"lock", "trylock"} : Enter(t, name, m, Zero, <<m>>)
    BY <1>3 DEF CallLock
  <2>2. MutexOwner[m] = t => MutexKind[m] # "normal"
    BY <1>0, <1>3 DEF CallLock, Believed
  <2>3. MutexKind' = MutexKind
    BY <1>0, <1>3 DEF CallLock
  <2> QED BY <1>1, <2>1, <2>2, <2>3 DEF Posix!CallLock, Posix!objects
<1>4. ASSUME NEW c \in Conds, NEW m \in Mutexes, CallWait(t, c, m) PROVE Posix!CallWait(t, c, m)
  <2>1. PICK name \in {"wait", "timedwait"} : Enter(t, name, m, c, <<c, m>>)
    BY <1>4 DEF CallWait
  <2>2. MutexOwner[m] = t /\ MutexDepth[m] = 1
    BY <1>0, <1>4 DEF CallWait, Believed
  <2>3. MutexKind' = MutexKind
    BY <1>0, <1>4 DEF CallWait
  <2> QED BY <1>1, <2>1, <2>2, <2>3 DEF Posix!CallWait, Posix!objects
<1>5. ASSUME NEW c \in Conds, CallSignal(t, c) PROVE Posix!CallSignal(t, c)
  <2>1. PICK name \in {"signal", "broadcast"} : Enter(t, name, Zero, c, <<c>>)
    BY <1>5 DEF CallSignal
  <2>2. MutexKind' = MutexKind
    BY <1>0, <1>5 DEF CallSignal
  <2> QED BY <1>1, <2>1, <2>2 DEF Posix!CallSignal, Posix!objects
<1> QED BY <1>2, <1>3, <1>4, <1>5, <1>d DEF Calls, Posix!Thread

(* The steps that bring an object to life cannot be seen, except that the  *)
(* last one of pthread_mutex_init is its return.                           *)
LEMMA BirthImplements ==
  ASSUME RInv, RInv', NEW t \in Threads, Birth(t), UNCHANGED faulted
  PROVE  Posix!InitReturns(t) \/ UNCHANGED Posix!vars
<1>0. /\ Typed /\ CallInv(t) /\ BirthInv(t) /\ MutexKind = given /\ MutexKind' = given'
  BY View, ViewNext DEF RInv, IInv, Believed
<1>1. UNCHANGED <<holds, given, op, mu, co>> /\ step[t] \in Birthing
  BY DEF Birth, Check, Alloc, Setup, Remember, hist, Birthing
<1>2. UNCHANGED <<MutexKind, MutexOwner, MutexDepth>>
  BY <1>0, <1>1, ViewStays
<1>3. PICK s \in Busy \cup {"idle"} :
        step' = [step EXCEPT ![t] = s] /\ (s = "idle" => op[t] \in Inits /\ ~Alloc(t))
  <2>1. CASE Alloc(t) \/ Setup(t)
    BY <2>1 DEF Alloc, Setup, Busy
  <2>2. CASE Proceed(t) /\ ~Alloc(t)
    <3> DEFINE s == IF Len(todo[t]) > 1 THEN "check" ELSE IF op[t] \in Inits THEN "idle" ELSE "do"
    <3>1. step' = [step EXCEPT ![t] = s]
      BY <2>2 DEF Proceed, Inits
    <3>2. s \in Busy \cup {"idle"} /\ (s = "idle" => op[t] \in Inits)
      BY DEF Busy
    <3> HIDE DEF s
    <3> QED BY <2>2, <3>1, <3>2
  <2>3. CASE step' = [step EXCEPT ![t] = "alloc"]
    BY <2>3 DEF Busy
  <2> QED BY <2>1, <2>2, <2>3 DEF Birth, Check, Remember
<1>4. Phase[t] = "called"
  BY <1>1 DEF Phase, Birthing
<1>5. Phase' = [Phase EXCEPT ![t] = IF s = "idle" THEN "idle" ELSE "called"]
  BY <1>0, <1>3, PhaseMoves DEF Busy
<1>8. NeverUsed' = NeverUsed
  <2> DEFINE o == Head(todo[t])
  <2>0. step[t] # "idle" /\ \A u \in Threads \ {t} : step'[u] = step[u]
    BY <1>0, <1>1, <1>3 DEF Birthing, Typed
  <2>1. ASSUME NEW m \in Mutexes
        PROVE  \/ word'[m] = word[m]
               \/ m \notin NeverUsed /\ word'[m] \notin Kinds \ {"normal"}
    <3>1. CASE Check(t) \/ Setup(t) \/ Remember(t)
      BY <3>1 DEF Check, Setup, Remember, real
    <3>2. CASE Alloc(t)
      <4>1. PICK h \in Handles : word' = [word EXCEPT ![o] = h]
        BY <3>2 DEF Alloc, Fresh
      <4>2. CASE m = o
        <5>1. mu[t] = m
          BY <1>0, <1>1, <4>2, ListOf DEF CallInv, Args
        <5>2. m \notin NeverUsed
          BY <2>0, <5>1 DEF NeverUsed
        <5>3. word'[m] = h /\ h \notin Kinds
          BY <1>0, <4>1, <4>2 DEF Typed, Objects
        <5> QED BY <5>2, <5>3
      <4>3. CASE m # o
        BY <1>0, <4>1, <4>3 DEF Typed, Objects
      <4> QED BY <4>2, <4>3
    <3> QED BY <3>1, <3>2 DEF Birth
  <2>2. (step'[t] = "idle" <=> step[t] = "idle") \/ (mu[t] \in Mutexes => word[mu[t]] \in Handles)
    <3> SUFFICES ASSUME s = "idle", mu[t] \in Mutexes PROVE word[mu[t]] \in Handles
      BY <1>0, <1>3, <2>0 DEF Typed, Busy
    <3>1. o = mu[t]
      BY <1>0, <1>1, <1>3, <2>0, Lists DEF CallInv, Birthing, Inits, Objects
    <3>2. CASE Check(t)
      <4>1. Registered(o) \/ s = "alloc"
        BY <1>0, <1>3, <3>2 DEF Check, Typed
      <4> QED BY <3>1, <4>1 DEF RInv, IInv, TableInv, Objects
    <3>3. CASE Setup(t)
      BY <1>0, <1>3, <3>3 DEF Setup, Typed
    <3>4. CASE Remember(t)
      BY <1>0, <3>1, <3>4 DEF Remember, BirthInv
    <3> QED BY <1>3, <3>2, <3>3, <3>4 DEF Birth
  <2> QED BY <1>1, <2>0, <2>1, <2>2, UnusedKept
<1>6. CASE s = "idle"
  BY <1>1, <1>2, <1>3, <1>4, <1>5, <1>6, <1>8
     DEF Posix!InitReturns, Posix!Goto, Posix!objects, Inits
<1>7. CASE s # "idle"
  <2>1. Phase' = Phase
    <3>1. Phase' = [Phase EXCEPT ![t] = Phase[t]]
      BY <1>4, <1>5, <1>7
    <3> QED BY <3>1 DEF Phase
  <2> QED BY <1>1, <1>2, <1>8, <2>1 DEF Posix!vars, Posix!objects
<1> QED BY <1>6, <1>7
-----------------------------------------------------------------------------
(* Taking a mutex: of a lock and of a waiter that has been woken.          *)
LEMMA HoldImplements ==
  ASSUME RInv, RInv', NEW t \in Threads, mu[t] \in Mutexes, Acquire(t, word[mu[t]]),
         MutexOwner[mu[t]] \in {t, NoOne}, UNCHANGED <<word, given, op, mu, co>>,
         word[mu[t]] \in Handles
  PROVE  Posix!Hold(t, mu[t])
<1> DEFINE m == mu[t]  d == holds[t][m] + 1
<1>0. /\ Typed /\ Believed /\ MutexKind = given /\ MutexKind' = given'
  BY View, ViewNext DEF RInv, IInv, Believed
<1>1. /\ holds[t][m] \in Nat /\ m \in Mutexes
      /\ MutexDepth[m] = holds[t][m] /\ MutexOwner[m] \in {t, NoOne}
  <2>1. holds[t][m] \in 0..MaxDepth
    BY <1>0 DEF Typed
  <2> QED BY <1>0, <2>1 DEF Believed
<1>2. holds' = [holds EXCEPT ![t][m] = d] /\ d \in Nat /\ d > 0
  BY <1>1 DEF Acquire
<1>3. MutexOwner' = [MutexOwner EXCEPT ![m] = t] /\ MutexDepth' = [MutexDepth EXCEPT ![m] = d]
  <2> HIDE DEF d, m
  <2>1. /\ holds'[t][m] = d
        /\ \A u \in Threads, n \in Mutexes : u # t \/ n # m => holds'[u][n] = holds[u][n]
    <3>1. holds \in [Threads -> [Mutexes -> 0..MaxDepth]]
      BY DEF RInv, IInv, Typed
    <3>2. m \in Mutexes /\ holds' = [holds EXCEPT ![t] = [holds[t] EXCEPT ![m] = d]]
      BY <1>0, <1>1, <1>2
    <3> QED BY <3>1, <3>2
  <2> QED BY <1>1, <1>2, <2>1, ViewMoves
<1>4. Phase' = [Phase EXCEPT ![t] = "idle"]
  <2>1. step' = [step EXCEPT ![t] = "idle"]
    BY DEF Acquire
  <2> QED BY <1>0, <2>1, PhaseMoves DEF Busy
<1>5. MutexDepth' = [MutexDepth EXCEPT ![m] = MutexDepth[m] + 1]
  BY <1>1, <1>3
<1>6. NeverUsed' = NeverUsed
  <2>1. \A u \in Threads \ {t} : step'[u] = step[u]
    BY <1>0 DEF Acquire, Typed
  <2> QED BY <2>1, UnusedKept
<1> QED BY <1>0, <1>3, <1>4, <1>5, <1>6 DEF Posix!Hold, Posix!Goto

(* What the real mutex says of a live object is what the view says.        *)
LEMMA LiveView ==
  ASSUME RInv, NEW t \in Threads, step[t] \in {"do", "waiting", "relock"}, mu[t] \in Mutexes
  PROVE  /\ MutexOwner[mu[t]] = owner[word[mu[t]]] /\ MutexDepth[mu[t]] = depth[word[mu[t]]]
         /\ MutexKind[mu[t]] = kind[word[mu[t]]] /\ word[mu[t]] \in Handles
<1>1. Registered(mu[t])
  BY ArgsLive DEF RInv
<1>2. word[mu[t]] \in Handles
  BY <1>1 DEF RInv, IInv, TableInv, Objects
<1> QED BY <1>1, <1>2 DEF MutexOwner, MutexDepth, MutexKind

LEMMA LockImplements ==
  ASSUME RInv, RInv', NEW t \in Threads, Lock(t)
  PROVE  Posix!LockReturns(t)
<1> DEFINE m == mu[t]  h == word[m]
<1>1. /\ Typed /\ step[t] = "do" /\ op[t] \in {"lock", "trylock"} /\ m \in Mutexes
      /\ UNCHANGED <<word, given, op, mu, co>> /\ MutexKind = given /\ MutexKind' = given'
      /\ Phase[t] = "called"
  BY View, ViewNext DEF RInv, IInv, CallInv, Lock, Believed, Phase
<1>2. MutexOwner[m] = owner[h] /\ MutexKind[m] = kind[h] /\ h \in Handles
  BY <1>1, LiveView
<1>3. Posix!Available(t, m) <=> Mine(t, h)
  BY <1>2 DEF Posix!Available, Mine
<1>4. CASE Mine(t, h) /\ Acquire(t, h)
  <2>1. MutexOwner[m] \in {t, NoOne}
    BY <1>2, <1>4 DEF Mine
  <2>2. Posix!Hold(t, m)
    BY <1>1, <1>2, <1>4, <2>1, HoldImplements
  <2> QED BY <1>1, <1>3, <1>4, <2>2 DEF Posix!LockReturns
<1>5. CASE /\ ~Mine(t, h) /\ (op[t] = "trylock" \/ (owner[h] = t /\ kind[h] = "errorcheck"))
           /\ step' = [step EXCEPT ![t] = "idle"] /\ UNCHANGED <<owner, depth, holds>>
  <2>1. Phase' = [Phase EXCEPT ![t] = "idle"]
    BY <1>1, <1>5, PhaseMoves DEF Busy
  <2>2. UNCHANGED <<MutexKind, MutexOwner, MutexDepth>>
    BY <1>1, <1>5, ViewStays
  <2>3. NeverUsed' = NeverUsed
    <3>1. \A u \in Threads \ {t} : step'[u] = step[u]
      BY <1>1, <1>5 DEF Typed
    <3> QED BY <1>1, <1>2, <3>1, UnusedKept
  <2> QED BY <1>1, <1>2, <1>3, <1>5, <2>1, <2>2, <2>3 DEF Posix!LockReturns, Posix!Goto, Posix!objects
<1> QED BY <1>4, <1>5 DEF Lock

LEMMA RelockImplements ==
  ASSUME RInv, RInv', NEW t \in Threads, Relock(t)
  PROVE  Posix!Relock(t)
<1>1. /\ step[t] = "relock" /\ mu[t] \in Mutexes /\ UNCHANGED <<word, given, op, mu, co>>
      /\ owner[word[mu[t]]] = NoOne /\ Acquire(t, word[mu[t]])
  BY DEF RInv, IInv, CallInv, Relock
<1>2. MutexOwner[mu[t]] = NoOne /\ word[mu[t]] \in Handles
  BY <1>1, LiveView
<1>3. Posix!Hold(t, mu[t])
  BY <1>1, <1>2, HoldImplements
<1> QED BY <1>1, <1>2, <1>3 DEF Posix!Relock, Phase

LEMMA UnlockImplements ==
  ASSUME RInv, RInv', NEW t \in Threads, NEW m \in Mutexes, Unlock(t, m)
  PROVE  Posix!Unlock(t, m)
<1> DEFINE d == holds[t][m] - 1
<1>1. /\ Believed /\ MutexKind = given /\ MutexKind' = given' /\ holds[t][m] \in 0..MaxDepth
      /\ holds[t][m] > 0 /\ step[t] = "idle" /\ UNCHANGED <<word, given, step, op, mu, co>>
      /\ holds' = [holds EXCEPT ![t][m] = d]
  BY View, ViewNext DEF RInv, IInv, Typed, Unlock, Believed, call
<1>2. MutexOwner[m] = t /\ MutexDepth[m] = holds[t][m] /\ d \in Nat
  BY <1>1 DEF Believed
<1>3. /\ MutexOwner' = [MutexOwner EXCEPT ![m] = IF d > 0 THEN t ELSE NoOne]
      /\ MutexDepth' = [MutexDepth EXCEPT ![m] = d]
  <2> HIDE DEF d
  <2>0. Typed /\ MutexOwner[m] \in {t, NoOne}
    BY <1>2 DEF RInv, IInv
  <2>1. /\ holds'[t][m] = d
        /\ \A u \in Threads, n \in Mutexes : u # t \/ n # m => holds'[u][n] = holds[u][n]
    <3>1. holds \in [Threads -> [Mutexes -> 0..MaxDepth]]
      BY DEF RInv, IInv, Typed
    <3>2. m \in Mutexes /\ holds' = [holds EXCEPT ![t] = [holds[t] EXCEPT ![m] = d]]
      BY <1>1, <2>0
    <3> QED BY <3>1, <3>2
  <2> QED BY <2>0, <2>1, ViewMoves
<1>4. d > 0 <=> MutexDepth[m] # 1
  BY <1>1, <1>2
<1>5. MutexOwner' = [MutexOwner EXCEPT ![m] = IF MutexDepth[m] = 1 THEN NoOne ELSE t]
  BY <1>3, <1>4
<1>6. MutexDepth' = [MutexDepth EXCEPT ![m] = MutexDepth[m] - 1]
  BY <1>2, <1>3
<1>7. Phase' = Phase /\ Phase[t] = "idle" /\ NeverUsed' = NeverUsed
  BY <1>1 DEF Phase, NeverUsed
<1> QED BY <1>1, <1>2, <1>5, <1>6, <1>7 DEF Posix!Unlock

LEMMA SleepImplements ==
  ASSUME RInv, RInv', NEW t \in Threads, Sleep(t)
  PROVE  Posix!Sleep(t)
<1> DEFINE m == mu[t]
<1>1. /\ Typed /\ Believed /\ MutexKind = given /\ MutexKind' = given'
      /\ step[t] = "do" /\ op[t] \in {"wait", "timedwait"} /\ m \in Mutexes
      /\ holds[t][m] = 1 /\ UNCHANGED <<word, given, op, mu, co>>
      /\ holds' = [holds EXCEPT ![t][m] = 0] /\ step' = [step EXCEPT ![t] = "waiting"]
      /\ Phase[t] = "called"
  BY View, ViewNext DEF RInv, IInv, CallInv, DepthInv, Sleep, Believed, Phase
<1>2. MutexOwner[m] = t /\ MutexDepth[m] = 1
  BY <1>1 DEF Believed
<1>3. /\ MutexOwner' = [MutexOwner EXCEPT ![m] = NoOne]
      /\ MutexDepth' = [MutexDepth EXCEPT ![m] = 0]
  <2> HIDE DEF m
  <2>1. /\ holds'[t][m] = 0
        /\ \A u \in Threads, n \in Mutexes : u # t \/ n # m => holds'[u][n] = holds[u][n]
    <3>1. holds \in [Threads -> [Mutexes -> 0..MaxDepth]]
      BY DEF RInv, IInv, Typed
    <3>2. m \in Mutexes /\ holds' = [holds EXCEPT ![t] = [holds[t] EXCEPT ![m] = 0]]
      BY <1>1
    <3> QED BY <3>1, <3>2
  <2>2. MutexOwner[m] \in {t, NoOne}
    BY <1>2
  <2>3. ~(holds'[t][m] > 0)
    BY <2>1
  <2> QED BY <1>1, <2>1, <2>2, <2>3, ViewMoves
<1>4. Phase' = [Phase EXCEPT ![t] = "waiting"]
  BY <1>1, PhaseMoves DEF Busy
<1>5. NeverUsed' = NeverUsed
  <2>1. \A u \in Threads : (step'[u] = "idle") <=> (step[u] = "idle")
    BY <1>1 DEF Typed
  <2> QED BY <1>1, <2>1, UnusedKept
<1> QED BY <1>1, <1>2, <1>3, <1>4, <1>5 DEF Posix!Sleep, Posix!Goto

(* Whom the view shows asleep on a variable sleeps on the real one behind  *)
(* it, and nobody else does: a signal picks from the same threads.         *)
LEMMA SleepersAgree ==
  ASSUME RInv, NEW c \in Conds, Registered(c)
  PROVE  {u \in Threads : step[u] = "waiting" /\ waitsOn[u] = word[c]} = Posix!Sleepers(c)
<1>1. ASSUME NEW u \in Threads, step[u] = "waiting"
      PROVE  waitsOn[u] = word[c] <=> co[u] = c
  <2>1. co[u] \in Conds /\ waitsOn[u] = word[co[u]]
    BY <1>1 DEF RInv, IInv, CallInv, DepthInv
  <2>2. word[c] \in Handles
    BY DEF RInv, IInv, TableInv, Objects
  <2>3. word[co[u]] = word[c] => co[u] = c
    BY <2>1, <2>2 DEF RInv, IInv, TableInv, Objects
  <2> QED BY <2>1, <2>3
<1>2. \A u \in Threads : Phase[u] = "waiting" <=> step[u] = "waiting"
  BY DEF Phase
<1> QED BY <1>1, <1>2 DEF Posix!Sleepers

LEMMA SignalImplements ==
  ASSUME RInv, RInv', NEW t \in Threads, Signal(t)
  PROVE  Posix!SignalReturns(t)
<1> DEFINE asleep == {u \in Threads : step[u] = "waiting" /\ waitsOn[u] = word[co[t]]}
<1>1. /\ Typed /\ step[t] = "do" /\ op[t] \in {"signal", "broadcast"} /\ co[t] \in Conds
      /\ mu[t] = Zero /\ UNCHANGED <<word, given, holds, op, mu, co>>
      /\ MutexKind = given /\ MutexKind' = given'
      /\ Phase[t] = "called"
  BY View, ViewNext DEF RInv, IInv, CallInv, Signal, Believed, Phase, real
<1>2. asleep = Posix!Sleepers(co[t])
  BY <1>1, ArgsLive, SleepersAgree DEF RInv
<1>3. PICK S \in IF op[t] = "broadcast" THEN {asleep}
                 ELSE IF asleep = {} THEN {{}} ELSE {{u} : u \in asleep} :
        step' = [u \in Threads |-> IF u = t THEN "idle"
                                   ELSE IF u \in S THEN "relock" ELSE step[u]]
  BY DEF Signal
<1>4. S \in SUBSET asleep
  BY <1>3
<1>5. Phase' = [u \in Threads |-> IF u = t THEN "idle"
                                  ELSE IF u \in S THEN "relock" ELSE Phase[u]]
  BY <1>3 DEF Phase
<1>6. UNCHANGED <<MutexKind, MutexOwner, MutexDepth>>
  BY <1>1, ViewStays
<1>7. IF op[t] = "broadcast" THEN S = asleep
      ELSE IF asleep = {} THEN S = {} ELSE \E u \in Threads : S = {u}
  BY <1>3
<1> HIDE DEF asleep
<1>8. /\ S \in SUBSET Posix!Sleepers(co[t])
      /\ IF op[t] = "broadcast" THEN S = Posix!Sleepers(co[t])
         ELSE IF Posix!Sleepers(co[t]) = {} THEN S = {} ELSE \E u \in Threads : S = {u}
  BY <1>2, <1>4, <1>7
<1>9. NeverUsed' = NeverUsed
  <2>1. \A u \in S : step[u] = "waiting"
    BY <1>4 DEF asleep
  <2>2. \A u \in Threads \ {t} : (step'[u] = "idle") <=> (step[u] = "idle")
    BY <1>3, <2>1
  <2>3. mu[t] \notin Mutexes
    BY <1>1 DEF Objects
  <2> QED BY <1>1, <2>2, <2>3, UnusedKept
<1> QED BY <1>1, <1>5, <1>6, <1>8, <1>9 DEF Posix!SignalReturns, Posix!objects

LEMMA TimeOutImplements ==
  ASSUME RInv, RInv', NEW t \in Threads, TimeOut(t)
  PROVE  Posix!TimeOut(t)
<1>1. /\ Typed /\ step[t] = "waiting" /\ op[t] = "timedwait"
      /\ UNCHANGED <<word, given, holds, op, mu, co>> /\ MutexKind = given /\ MutexKind' = given'
      /\ step' = [step EXCEPT ![t] = "relock"] /\ Phase[t] = "waiting"
  BY View, ViewNext DEF RInv, IInv, TimeOut, Believed, Phase, real
<1>2. Phase' = [Phase EXCEPT ![t] = "relock"]
  BY <1>1, PhaseMoves DEF Busy
<1>3. UNCHANGED <<MutexKind, MutexOwner, MutexDepth>>
  BY <1>1, ViewStays
<1>4. NeverUsed' = NeverUsed
  <2>1. \A u \in Threads : (step'[u] = "idle") <=> (step[u] = "idle")
    BY <1>1 DEF Typed
  <2> QED BY <1>1, <2>1, UnusedKept
<1> QED BY <1>1, <1>2, <1>3, <1>4 DEF Posix!TimeOut, Posix!Goto, Posix!objects

LEMMA DestroyImplements ==
  ASSUME RInv, RInv', NEW o \in Objects, Destroy(o), UNCHANGED faulted
  PROVE  (o \in Mutexes /\ Posix!Destroy(o)) \/ UNCHANGED Posix!vars
<1>1. /\ Typed /\ Believed /\ MutexKind = given /\ MutexKind' = given' /\ ~InUse(o)
      /\ UNCHANGED <<step, holds, op, mu, co>>
      /\ given' = IF o \in Mutexes THEN [given EXCEPT ![o] = "normal"] ELSE given
  BY View, ViewNext DEF RInv, IInv, Destroy, Believed, call
<1>2. UNCHANGED <<MutexOwner, MutexDepth, Phase>>
  BY <1>1, ViewStays DEF Phase
<1>5. NeverUsed' = NeverUsed /\ o \notin NeverUsed
  <2>1. o \notin NeverUsed
    BY DEF Destroy, NeverUsed
  <2>2. \A m \in Mutexes : word'[m] = IF m = o THEN "normal" ELSE word[m]
    BY <1>1 DEF Destroy, Typed, Objects
  <2> QED BY <1>1, <2>1, <2>2, UnusedKept
<1>3. CASE o \in Mutexes
  <2>1. MutexOwner[o] = NoOne
    BY <1>1, <1>3 DEF Believed, InUse
  <2>2. \A u \in Threads : Phase[u] # "idle" => mu[u] # o
    BY <1>1 DEF InUse, Phase
  <2> QED BY <1>1, <1>2, <1>3, <1>5, <2>1, <2>2 DEF Posix!Destroy, Posix!MutexInUse
<1>4. CASE o \notin Mutexes
  BY <1>1, <1>2, <1>4, <1>5 DEF Posix!vars, Posix!objects
<1> QED BY <1>3, <1>4

LEMMA DestroyUnusedImplements ==
  ASSUME RInv, NEW m \in Mutexes, DestroyUnused(m)
  PROVE  Posix!DestroyUnused(m)
<1>1. /\ word[m] \in Kinds \ {"normal"} /\ ~InUse(m) /\ faulted' = TRUE
      /\ UNCHANGED <<table, word, kind, owner, depth, step, op, todo, mu, co, given>>
  BY DEF DestroyUnused, real, call, hist
<1>2. UNCHANGED <<MutexKind, MutexOwner, MutexDepth, Phase, NeverUsed>>
  BY <1>1 DEF MutexKind, MutexOwner, MutexDepth, Phase, NeverUsed, Registered
<1>3. m \in NeverUsed /\ \A u \in Threads : Phase[u] # "idle" => mu[u] # m
  BY <1>1 DEF NeverUsed, InUse, Phase
<1>4. MutexOwner[m] = NoOne
  BY <1>1, View DEF Believed, InUse
<1> QED BY <1>1, <1>2, <1>3, <1>4 DEF Posix!DestroyUnused, Posix!MutexInUse, Posix!objects

(* Behind the table, the words and the births the engine meets POSIX: each *)
(* call of pthr.c acts in one step as pthread.h says it does, on mutexes   *)
(* and condition variables that seem to have been there from the start;    *)
(* but for the two lapses of PosixObjects, which happen only on a mutex    *)
(* whose memory holds the constant of an initializer and was never used.   *)
THEOREM ImplementsPosix ==
  ASSUME Orderly
  PROVE  Spec => PosixSpec
<1>1. Init => RInv
  BY InitKeeps DEF Init, RInv, Taken
<1>2. RInv /\ [Next]_vars => RInv'
  BY RInvKept
<1>3. Init => Posix!Init
  <2> SUFFICES ASSUME Init PROVE Posix!Init
    OBVIOUS
  <2>1. \A m \in Mutexes : ~Registered(m)
    BY DEF Init, Registered, Objects
  <2>2. given \in [Mutexes -> Kinds]
    BY <1>1 DEF RInv, IInv, Typed
  <2>3. MutexKind = given
    BY <1>1, View DEF Believed
  <2>4. MutexOwner = [m \in Mutexes |-> NoOne] /\ MutexDepth = [m \in Mutexes |-> 0]
    BY <2>1 DEF MutexOwner, MutexDepth
  <2>5. Phase = [t \in Threads |-> "idle"]
    BY DEF Init, Phase
  <2>6. NeverUsed = {m \in Mutexes : MutexKind[m] # "normal"}
    <3>1. \A m \in Mutexes : given[m] = word[m] /\ word[m] \in Kinds
      BY DEF Init, Objects
    <3>2. \A t \in Threads : step[t] = "idle"
      BY DEF Init
    <3> QED BY <2>3, <3>1, <3>2 DEF NeverUsed
  <2> QED BY <2>2, <2>3, <2>4, <2>5, <2>6 DEF Init, Posix!Init, Posix!Kinds, Kinds
<1>4. RInv /\ RInv' /\ [Next]_vars => [Posix!Next]_Posix!vars
  <2> SUFFICES ASSUME RInv, RInv', [Next]_vars PROVE Posix!Next \/ UNCHANGED Posix!vars
    OBVIOUS
  <2>1. ASSUME NEW t \in Threads, Calls(t) \/ Work(t) PROVE Posix!Thread(t)
    BY <2>1, CallsImplement, LockImplements, SleepImplements, SignalImplements,
       TimeOutImplements, RelockImplements DEF Work, Posix!Thread
  <2>2. ASSUME NEW t \in Threads, NEW m \in Mutexes, Unlock(t, m) PROVE Posix!Thread(t)
    BY <2>2, UnlockImplements DEF Posix!Thread
  <2>3. ASSUME NEW t \in Threads, Birth(t), UNCHANGED faulted
        PROVE  Posix!Thread(t) \/ UNCHANGED Posix!vars
    BY <2>3, BirthImplements DEF Posix!Thread
  <2>4. ASSUME NEW o \in Objects, Destroy(o), UNCHANGED faulted
        PROVE  Posix!Step \/ UNCHANGED Posix!vars
    BY <2>4, DestroyImplements DEF Posix!Step
  <2>5. CASE UNCHANGED vars
    <3>1. UNCHANGED <<table, word, kind, owner, depth, step, op, todo, mu, co, given, faulted>>
      BY <2>5 DEF vars, real, call, hist
    <3>2. UNCHANGED <<MutexKind, MutexOwner, MutexDepth, Phase, NeverUsed>>
      BY <3>1 DEF MutexKind, MutexOwner, MutexDepth, Phase, NeverUsed, Registered
    <3> QED BY <3>1, <3>2 DEF Posix!vars, Posix!objects
  <2>6. CASE ~faulted /\ Step /\ UNCHANGED faulted
    <3>1. Posix!Step \/ UNCHANGED Posix!vars
      BY <2>1, <2>2, <2>3, <2>4, <2>6 DEF Step, Posix!Step
    <3> QED BY <2>6, <3>1 DEF Posix!Next
  <2>7. CASE ~faulted /\ \E m \in Mutexes : DestroyUnused(m)
    BY <2>7, DestroyUnusedImplements DEF Posix!Next
  <2> QED BY <2>5, <2>6, <2>7 DEF Next
<1> QED BY <1>1, <1>2, <1>3, <1>4, PTL DEF Spec, PosixSpec, Posix!Spec
=============================================================================
