---------------------------- MODULE PthrObjects ----------------------------
(***************************************************************************)
(* source/reimpl/pthr.c: the engine's bionic mutexes and condition         *)
(* variables on the pthread library of the Vita.  A bionic object is one   *)
(* word: the constant of its static initializer until its first use, then  *)
(* a pointer to a real object created on the spot.  A table of addresses   *)
(* tells the two apart.  Looking an address up, creating the object and    *)
(* entering the address are three critical sections, or none: other        *)
(* threads run in between.                                                 *)
(*                                                                         *)
(* given, holds and waitsOn record what the engine has been given.         *)
(***************************************************************************)
EXTENDS Integers, Sequences, FiniteSets, FiniteSetsExt

CONSTANTS Threads, NoOne,    \* the engine's threads; no thread
          Mutexes, Conds,    \* the addresses of the engine's objects
          Zero,              \* an empty entry of the table
          Slots,             \* PTHR_MAX_OBJECTS
          Handles,           \* the real objects malloc can return
          MaxDepth,          \* bound of the model: nested locks of one mutex
          FirstUseRaces      \* may two threads make the first use of an object at once

Objects == Mutexes \cup Conds
Kinds == {"normal", "recursive", "errorcheck"}

ASSUME ObjectAssumption ==
  /\ Mutexes \cap Conds = {} /\ Zero \notin Objects /\ NoOne \notin Threads
  /\ Handles \cap Kinds = {}
ASSUME BoundAssumption == Slots \in Nat /\ MaxDepth \in Nat \ {0} /\ FirstUseRaces \in BOOLEAN

VARIABLES
  table,         \* initializedObjects
  word,          \* the bionic word: a static initializer or real_ptr
  kind,          \* of a real object: "none" (not allocated), "raw" (not set up), ...
  owner, depth,  \* of a real mutex: who holds it, how often
  step, op,      \* where a thread is in which call
  todo,          \* the objects the call has still to bring to life
  mu, co,        \* the arguments of the call
  asked,         \* the local kind of _mutex_t_static_init
  given,         \* the kind a mutex is settled to have
  holds,         \* how often a thread has locked a mutex
  waitsOn,       \* the real condition variable a waiting thread sleeps on
  faulted        \* the program has died of a pointer that is none

real == <<word, kind, owner, depth>>
call == <<step, op, todo, mu, co, asked>>
hist == <<given, holds, waitsOn>>
vars == <<table, real, call, hist, faulted>>

\* Slips the checks below must notice; nothing uses them.
MutForgotten(o) == table
MutRemembered(o) == table
MutRememberPointer(o) == [table EXCEPT ![1] = word[o]]
MutMutexesOnly(o) == o \in Mutexes /\ \E i \in 1..Slots : table[i] = o

Registered(o) == \E i \in 1..Slots : table[i] = o   \* isObjectInitialized
Entries(o) == {i \in 1..Slots : table[i] = o}
\* rememberObject and forgetObject: the first entry that fits, if there is one.
Remembered(o) == IF Entries(Zero) = {} THEN table ELSE [table EXCEPT ![Min(Entries(Zero))] = o]
Forgotten(o) == IF Entries(o) = {} THEN table ELSE [table EXCEPT ![Min(Entries(o))] = Zero]

\* The kind the static initializer in the word stands for.
StaticKind(o) == IF word[o] \in Kinds THEN word[o] ELSE "normal"
Fresh == {h \in Handles : kind[h] = "none"}

\* What the engine may do: use an object that another thread is about to bring to
\* life only if first uses may race.
MayUse(t, o) ==
  Registered(o) \/ FirstUseRaces
  \/ \A u \in Threads \ {t} : \A i \in DOMAIN todo[u] : todo[u][i] # o
InUse(o) ==
  \E t \in Threads : \/ step[t] # "idle" /\ o \in {mu[t], co[t]}
                     \/ o \in Mutexes /\ holds[t][o] > 0
-----------------------------------------------------------------------------
Init ==
  /\ table = [i \in 1..Slots |-> Zero]
  /\ word \in {w \in [Objects -> Kinds] : \A c \in Conds : w[c] = "normal"}
  /\ kind = [h \in Handles |-> "none"]
  /\ owner = [h \in Handles |-> NoOne] /\ depth = [h \in Handles |-> 0]
  /\ step = [t \in Threads |-> "idle"] /\ op = [t \in Threads |-> "none"]
  /\ todo = [t \in Threads |-> << >>]
  /\ mu = [t \in Threads |-> Zero] /\ co = [t \in Threads |-> Zero]
  /\ asked = [t \in Threads |-> "normal"]
  /\ given = [m \in Mutexes |-> word[m]]
  /\ holds = [t \in Threads |-> [m \in Mutexes |-> 0]]
  /\ waitsOn = [t \in Threads |-> Zero]
  /\ faulted = FALSE
-----------------------------------------------------------------------------
Enter(t, name, m, c, objs) ==
  /\ step[t] = "idle" /\ \A i \in DOMAIN objs : MayUse(t, objs[i])
  /\ step' = [step EXCEPT ![t] = "check"] /\ op' = [op EXCEPT ![t] = name]
  /\ todo' = [todo EXCEPT ![t] = objs]
  /\ mu' = [mu EXCEPT ![t] = m] /\ co' = [co EXCEPT ![t] = c]
  /\ UNCHANGED <<table, real, holds, waitsOn>>

\* pthread_mutex_init on memory that holds no live mutex.
CallInit(t, m, k) ==
  /\ ~Registered(m) /\ ~InUse(m)
  /\ Enter(t, "init", m, Zero, <<m>>)
  /\ asked' = [asked EXCEPT ![t] = k] /\ given' = [given EXCEPT ![m] = k]

\* The same without attributes: the kind is read from the memory, as at a first use.
CallInitDefault(t, m) ==
  /\ ~Registered(m) /\ ~InUse(m)
  /\ Enter(t, "initdefault", m, Zero, <<m>>)
  /\ given' = [given EXCEPT ![m] = StaticKind(m)] /\ UNCHANGED asked

\* pthread_mutex_lock and _trylock; a thread nests locks only where the kind allows it.
CallLock(t, m) ==
  /\ holds[t][m] < MaxDepth /\ (holds[t][m] > 0 => given[m] # "normal")
  /\ \E name \in {"lock", "trylock"} : Enter(t, name, m, Zero, <<m>>)
  /\ UNCHANGED <<asked, given>>

\* pthread_cond_wait and _timedwait, with the mutex held once.
CallWait(t, c, m) ==
  /\ holds[t][m] = 1
  /\ \E name \in {"wait", "timedwait"} : Enter(t, name, m, c, <<c, m>>)
  /\ UNCHANGED <<asked, given>>

\* pthread_cond_signal and _broadcast, with or without the mutex.
CallSignal(t, c) ==
  /\ \E name \in {"signal", "broadcast"} : Enter(t, name, Zero, c, <<c>>)
  /\ UNCHANGED <<asked, given>>
-----------------------------------------------------------------------------
\* _mutex_t_static_init and _cond_t_static_init, step by step.
Proceed(t) ==
  /\ todo' = [todo EXCEPT ![t] = Tail(@)]
  /\ step' = [step EXCEPT ![t] = IF Len(todo[t]) > 1 THEN "check"
                                 ELSE IF op[t] \in {"init", "initdefault"} THEN "idle" ELSE "do"]

Check(t) ==
  /\ step[t] = "check"
  /\ IF Registered(Head(todo[t])) THEN Proceed(t)
     ELSE step' = [step EXCEPT ![t] = "alloc"] /\ todo' = todo
  /\ UNCHANGED <<table, real, op, mu, co, asked, hist>>

Alloc(t) ==
  LET o == Head(todo[t])
  IN /\ step[t] = "alloc"
     /\ asked' = [asked EXCEPT ![t] = IF o \in Conds THEN "cond"
                                      ELSE IF op[t] = "init" THEN @ ELSE StaticKind(o)]
     /\ \E h \in Fresh : /\ word' = [word EXCEPT ![o] = h]
                         /\ kind' = [kind EXCEPT ![h] = "raw"]
     /\ step' = [step EXCEPT ![t] = "setup"]
     /\ UNCHANGED <<table, owner, depth, op, todo, mu, co, hist>>

\* pthread_mutex_init and pthread_cond_init take whatever real_ptr points to by now.
Setup(t) ==
  LET h == word[Head(todo[t])]
  IN /\ step[t] = "setup"
     /\ kind' = [kind EXCEPT ![h] = asked[t]]
     /\ owner' = [owner EXCEPT ![h] = NoOne] /\ depth' = [depth EXCEPT ![h] = 0]
     /\ step' = [step EXCEPT ![t] = "remember"]
     /\ UNCHANGED <<table, word, op, todo, mu, co, asked, hist>>

Remember(t) ==
  /\ step[t] = "remember"
  /\ table' = Remembered(Head(todo[t]))
  /\ Proceed(t)
  /\ UNCHANGED <<real, op, mu, co, asked, hist>>
-----------------------------------------------------------------------------
\* The call on the real objects.
Acquire(t, h) ==
  /\ owner' = [owner EXCEPT ![h] = t]
  /\ depth' = [depth EXCEPT ![h] = @ + 1]
  /\ holds' = [holds EXCEPT ![t][mu[t]] = @ + 1]
  /\ step' = [step EXCEPT ![t] = "idle"]

Mine(t, h) == owner[h] = NoOne \/ (owner[h] = t /\ kind[h] = "recursive")

Lock(t) ==
  LET h == word[mu[t]]
  IN /\ step[t] = "do" /\ op[t] \in {"lock", "trylock"}
     /\ \/ Mine(t, h) /\ Acquire(t, h)
        \/ /\ ~Mine(t, h)                                 \* EBUSY, EDEADLK
           /\ op[t] = "trylock" \/ (owner[h] = t /\ kind[h] = "errorcheck")
           /\ step' = [step EXCEPT ![t] = "idle"]
           /\ UNCHANGED <<owner, depth, holds>>
     /\ UNCHANGED <<table, word, kind, op, todo, mu, co, asked, given, waitsOn>>

\* pthread_mutex_unlock does not consult the table.
Unlock(t, m) ==
  LET h == word[m]
  IN /\ step[t] = "idle" /\ holds[t][m] > 0
     /\ holds' = [holds EXCEPT ![t][m] = @ - 1]
     /\ IF h \in Handles /\ owner[h] = t
        THEN /\ depth' = [depth EXCEPT ![h] = @ - 1]
             /\ owner' = [owner EXCEPT ![h] = IF depth[h] = 1 THEN NoOne ELSE t]
        ELSE UNCHANGED <<depth, owner>>
     /\ UNCHANGED <<table, word, kind, call, given, waitsOn>>

\* Falls asleep and releases the mutex in one step.
Sleep(t) ==
  LET h == word[mu[t]]
  IN /\ step[t] = "do" /\ op[t] \in {"wait", "timedwait"}
     /\ waitsOn' = [waitsOn EXCEPT ![t] = word[co[t]]]
     /\ holds' = [holds EXCEPT ![t][mu[t]] = 0]
     /\ IF owner[h] = t
        THEN owner' = [owner EXCEPT ![h] = NoOne] /\ depth' = [depth EXCEPT ![h] = 0]
        ELSE UNCHANGED <<owner, depth>>
     /\ step' = [step EXCEPT ![t] = "waiting"]
     /\ UNCHANGED <<table, word, kind, op, todo, mu, co, asked, given>>

Signal(t) ==
  LET asleep == {u \in Threads : step[u] = "waiting" /\ waitsOn[u] = word[co[t]]}
      wake == IF op[t] = "broadcast" THEN {asleep}
              ELSE IF asleep = {} THEN {{}} ELSE {{u} : u \in asleep}
  IN /\ step[t] = "do" /\ op[t] \in {"signal", "broadcast"}
     /\ \E S \in wake :
          /\ step' = [u \in Threads |-> IF u = t THEN "idle"
                                        ELSE IF u \in S THEN "relock" ELSE step[u]]
          /\ waitsOn' = [u \in Threads |-> IF u \in S THEN Zero ELSE waitsOn[u]]
     /\ UNCHANGED <<table, real, op, todo, mu, co, asked, given, holds>>

TimeOut(t) ==
  /\ step[t] = "waiting" /\ op[t] = "timedwait"
  /\ step' = [step EXCEPT ![t] = "relock"] /\ waitsOn' = [waitsOn EXCEPT ![t] = Zero]
  /\ UNCHANGED <<table, real, op, todo, mu, co, asked, given, holds>>

Relock(t) ==
  /\ step[t] = "relock" /\ owner[word[mu[t]]] = NoOne
  /\ Acquire(t, word[mu[t]])
  /\ UNCHANGED <<table, word, kind, op, todo, mu, co, asked, given, waitsOn>>

\* pthread_mutex_destroy and pthread_cond_destroy of an object nobody uses: forget
\* the address, free the real object, zero the word.  (Where the word is zero the library
\* is assumed to refuse it; nothing is freed, and nothing changes.)
Destroy(o) ==
  /\ word[o] \in Handles /\ ~InUse(o)
  /\ table' = Forgotten(o)
  /\ kind' = [kind EXCEPT ![word[o]] = "none"]
  /\ owner' = [owner EXCEPT ![word[o]] = NoOne] /\ depth' = [depth EXCEPT ![word[o]] = 0]
  /\ word' = [word EXCEPT ![o] = "normal"]
  /\ given' = IF o \in Mutexes THEN [given EXCEPT ![o] = "normal"] ELSE given
  /\ UNCHANGED <<call, holds, waitsOn>>

\* The same of a recursive or error-checking mutex that was declared and never used: its
\* word is still the constant of the initializer, and that goes to the library and to free.
DestroyUnused(m) ==
  /\ word[m] \in Kinds \ {"normal"} /\ ~InUse(m)
  /\ faulted' = TRUE
  /\ UNCHANGED <<table, real, call, hist>>
-----------------------------------------------------------------------------
Calls(t) == \/ \E m \in Mutexes : \/ CallLock(t, m) \/ CallInitDefault(t, m)
                                  \/ \E k \in Kinds : CallInit(t, m, k)
            \/ \E c \in Conds : CallSignal(t, c) \/ \E m \in Mutexes : CallWait(t, c, m)
Birth(t) == Check(t) \/ Alloc(t) \/ Setup(t) \/ Remember(t)
Work(t) == Lock(t) \/ Sleep(t) \/ Signal(t) \/ TimeOut(t) \/ Relock(t)

Step == \/ \E t \in Threads : Calls(t) \/ Birth(t) \/ Work(t) \/ \E m \in Mutexes : Unlock(t, m)
        \/ \E o \in Objects : Destroy(o)
Next == ~faulted /\ \/ Step /\ UNCHANGED faulted
                    \/ \E m \in Mutexes : DestroyUnused(m)

Spec == Init /\ [][Next]_vars

(* The abstract view: what a mutex is, is what its real object is once the *)
(* table knows it; a call that is still bringing objects to life has been  *)
(* made and nothing more.                                                  *)
MutexKind == [m \in Mutexes |-> IF Registered(m) THEN kind[word[m]] ELSE given[m]]
MutexOwner == [m \in Mutexes |-> IF Registered(m) THEN owner[word[m]] ELSE NoOne]
MutexDepth == [m \in Mutexes |-> IF Registered(m) THEN depth[word[m]] ELSE 0]
Phase == [t \in Threads |->
            IF step[t] \in {"check", "alloc", "setup", "remember", "do"} THEN "called"
            ELSE step[t]]
NeverUsed ==
  {m \in Mutexes : /\ word[m] \in Kinds \ {"normal"}
                   /\ \A t \in Threads : step[t] = "idle" \/ mu[t] # m}
Posix == INSTANCE PosixObjects WITH kind <- MutexKind, owner <- MutexOwner,
                                    depth <- MutexDepth, step <- Phase, unused <- NeverUsed
-----------------------------------------------------------------------------
\* The types of all that the calls work on.
Typed ==
  /\ table \in [1..Slots -> Objects \cup {Zero}]
  /\ word \in [Objects -> Handles \cup Kinds]
  /\ kind \in [Handles -> Kinds \cup {"none", "raw", "cond"}]
  /\ owner \in [Handles -> Threads \cup {NoOne}] /\ depth \in [Handles -> 0..MaxDepth]
  /\ step \in [Threads -> {"idle", "check", "alloc", "setup", "remember", "do",
                           "waiting", "relock"}]
  /\ op \in [Threads -> {"none", "init", "initdefault", "lock", "trylock", "wait",
                         "timedwait", "signal", "broadcast"}]
  /\ todo \in [Threads -> Seq(Objects)]
  /\ mu \in [Threads -> Mutexes \cup {Zero}] /\ co \in [Threads -> Conds \cup {Zero}]
  /\ asked \in [Threads -> Kinds \cup {"cond"}]
  /\ given \in [Mutexes -> Kinds] /\ holds \in [Threads -> [Mutexes -> 0..MaxDepth]]
  /\ waitsOn \in [Threads -> Handles \cup {Zero}]

(* Every variable keeps its type; above all the table holds addresses of   *)
(* engine objects, never the pointers stored behind them.                  *)
TypeOK == Typed /\ faulted \in BOOLEAN

(* The engine's mutexes exclude: two threads that have locked the same     *)
(* bionic mutex have locked the same real one, so they never hold it both. *)
Exclusion ==
  \A t, u \in Threads, m \in Mutexes : holds[t][m] > 0 /\ holds[u][m] > 0 => t = u

(* A signal reaches whoever waits: all the threads that wait on one bionic *)
(* condition variable sleep on the real one its word points to.            *)
WaitersReachable ==
  \A t \in Threads : step[t] = "waiting" => waitsOn[t] = word[co[t]]

(* The table has one entry per live object and none for a dead one, so     *)
(* destroy and a second init of the same address work; no real object is   *)
(* shared by two words or leaked.                                          *)
TableMatchesWords ==
  /\ \A i, j \in 1..Slots : table[i] = table[j] /\ table[i] # Zero => i = j
  /\ \A o \in Objects : Registered(o) => word[o] \in Handles
  /\ \A o, p \in Objects : word[o] \in Handles /\ word[o] = word[p] => o = p
  /\ \A h \in Handles : kind[h] # "none" => \E o \in Objects : word[o] = h

(* Creating the objects lazily is invisible: the engine's calls behave as  *)
(* POSIX calls on objects that were there from the start.  A mutex has the *)
(* kind it was declared or initialized with, a lock is never granted       *)
(* twice, a signal wakes one of the threads that wait on that bionic       *)
(* variable, if any does.  The two lapses PosixObjects names are the only  *)
(* ones, both on memory that holds the constant of an initializer.         *)
PosixSpec == Posix!Spec
=============================================================================
