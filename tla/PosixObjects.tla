---------------------------- MODULE PosixObjects ----------------------------
(***************************************************************************)
(* What the engine was written against: POSIX mutexes and condition        *)
(* variables that are there from the start.  Every call takes effect in    *)
(* one step; there is no table, no word and no birth of an object.         *)
(* PthrObjects implements it on objects created at their first use, with   *)
(* two lapses, both on a mutex whose memory holds the constant of a        *)
(* recursive or error-checking static initializer and was never used: an   *)
(* init without attributes leaves it that kind instead of making it a      *)
(* normal one, and destroying it is the end of the program.                *)
(***************************************************************************)
EXTENDS Naturals

CONSTANTS Threads, NoOne,  \* the threads; no thread
          Mutexes, Conds,  \* the engine's objects
          Zero             \* no object

VARIABLES kind,            \* of a mutex, as it was declared or initialized
          owner, depth,    \* of a mutex: who holds it, how often
          step,            \* a thread: "idle", "called", "waiting" or "relock"
          op, mu, co,      \* its call and the arguments
          unused,          \* the mutexes whose memory holds such a constant
          faulted          \* the program is dead

Kinds == {"normal", "recursive", "errorcheck"}

objects == <<kind, owner, depth>>
vars == <<objects, step, op, mu, co, unused, faulted>>

Init ==
  /\ kind \in [Mutexes -> Kinds]
  /\ owner = [m \in Mutexes |-> NoOne] /\ depth = [m \in Mutexes |-> 0]
  /\ step = [t \in Threads |-> "idle"] /\ op = [t \in Threads |-> "none"]
  /\ mu = [t \in Threads |-> Zero] /\ co = [t \in Threads |-> Zero]
  /\ unused = {m \in Mutexes : kind[m] # "normal"} /\ faulted = FALSE

\* Held, or an argument of a call under way.
MutexInUse(m) == owner[m] # NoOne \/ \E t \in Threads : step[t] # "idle" /\ mu[t] = m

Goto(t, where) == step' = [step EXCEPT ![t] = where]
Call(t, name, m, c) ==
  /\ step[t] = "idle" /\ Goto(t, "called")
  /\ op' = [op EXCEPT ![t] = name] /\ mu' = [mu EXCEPT ![t] = m] /\ co' = [co EXCEPT ![t] = c]
  /\ unused' = unused \ {m}

\* pthread_mutex_init, the only call that chooses a kind; it has no effect but that.
InitAs(t, name, m, k) ==
  /\ ~MutexInUse(m) /\ Call(t, name, m, Zero)
  /\ kind' = [kind EXCEPT ![m] = k] /\ UNCHANGED <<owner, depth>>
CallInit(t, m) == \E k \in Kinds : InitAs(t, "init", m, k)
\* Without attributes it makes a normal mutex; the first lapse.
CallInitDefault(t, m) ==
  InitAs(t, "initdefault", m, IF m \in unused THEN kind[m] ELSE "normal")
InitReturns(t) ==
  /\ step[t] = "called" /\ op[t] \in {"init", "initdefault"} /\ Goto(t, "idle")
  /\ UNCHANGED <<objects, op, mu, co, unused>>

CallLock(t, m) ==
  /\ owner[m] = t => kind[m] # "normal"
  /\ \E name \in {"lock", "trylock"} : Call(t, name, m, Zero)
  /\ UNCHANGED objects
CallWait(t, c, m) ==
  /\ owner[m] = t /\ depth[m] = 1
  /\ \E name \in {"wait", "timedwait"} : Call(t, name, m, c)
  /\ UNCHANGED objects
CallSignal(t, c) ==
  /\ \E name \in {"signal", "broadcast"} : Call(t, name, Zero, c)
  /\ UNCHANGED objects
-----------------------------------------------------------------------------
Hold(t, m) ==
  /\ owner' = [owner EXCEPT ![m] = t] /\ depth' = [depth EXCEPT ![m] = @ + 1]
  /\ Goto(t, "idle") /\ UNCHANGED <<kind, op, mu, co, unused>>

\* A lock succeeds on a free mutex and on one's own recursive one.  It fails only if it
\* is a trylock or would deadlock on one's own error-checking mutex; else it waits.
Available(t, m) == owner[m] = NoOne \/ (owner[m] = t /\ kind[m] = "recursive")
LockReturns(t) ==
  LET m == mu[t]
  IN /\ step[t] = "called" /\ op[t] \in {"lock", "trylock"}
     /\ \/ Available(t, m) /\ Hold(t, m)
        \/ /\ ~Available(t, m)
           /\ op[t] = "trylock" \/ (owner[m] = t /\ kind[m] = "errorcheck")
           /\ Goto(t, "idle") /\ UNCHANGED <<objects, op, mu, co, unused>>

Unlock(t, m) ==
  /\ step[t] = "idle" /\ owner[m] = t
  /\ depth' = [depth EXCEPT ![m] = @ - 1]
  /\ owner' = [owner EXCEPT ![m] = IF depth[m] = 1 THEN NoOne ELSE t]
  /\ UNCHANGED <<kind, step, op, mu, co, unused>>

\* Releases the mutex and falls asleep in one step, so that no signal can fall between.
Sleep(t) ==
  LET m == mu[t]
  IN /\ step[t] = "called" /\ op[t] \in {"wait", "timedwait"}
     /\ owner[m] = t /\ depth[m] = 1
     /\ owner' = [owner EXCEPT ![m] = NoOne] /\ depth' = [depth EXCEPT ![m] = 0]
     /\ Goto(t, "waiting") /\ UNCHANGED <<kind, op, mu, co, unused>>

\* A signal wakes exactly one of those who wait, if anybody does; a broadcast all.
Sleepers(c) == {u \in Threads : step[u] = "waiting" /\ co[u] = c}
SignalReturns(t) ==
  /\ step[t] = "called" /\ op[t] \in {"signal", "broadcast"}
  /\ \E woken \in SUBSET Sleepers(co[t]) :
       /\ IF op[t] = "broadcast" THEN woken = Sleepers(co[t])
          ELSE IF Sleepers(co[t]) = {} THEN woken = {} ELSE \E u \in Threads : woken = {u}
       /\ step' = [u \in Threads |-> IF u = t THEN "idle"
                                     ELSE IF u \in woken THEN "relock" ELSE step[u]]
  /\ UNCHANGED <<objects, op, mu, co, unused>>

TimeOut(t) ==
  /\ step[t] = "waiting" /\ op[t] = "timedwait" /\ Goto(t, "relock")
  /\ UNCHANGED <<objects, op, mu, co, unused>>
Relock(t) == step[t] = "relock" /\ owner[mu[t]] = NoOne /\ Hold(t, mu[t])

\* The memory of the mutex may hold another one later, a normal one unless initialized.
Destroy(m) ==
  /\ ~MutexInUse(m) /\ m \notin unused /\ kind' = [kind EXCEPT ![m] = "normal"]
  /\ UNCHANGED <<owner, depth, step, op, mu, co, unused>>
\* The second lapse.
DestroyUnused(m) ==
  /\ ~MutexInUse(m) /\ m \in unused /\ faulted' = TRUE
  /\ UNCHANGED <<objects, step, op, mu, co, unused>>
-----------------------------------------------------------------------------
Thread(t) ==
  \/ \E m \in Mutexes : CallInit(t, m) \/ CallInitDefault(t, m) \/ CallLock(t, m) \/ Unlock(t, m)
  \/ \E c \in Conds : CallSignal(t, c) \/ \E m \in Mutexes : CallWait(t, c, m)
  \/ InitReturns(t) \/ LockReturns(t) \/ Sleep(t) \/ SignalReturns(t)
  \/ TimeOut(t) \/ Relock(t)

Step == (\E t \in Threads : Thread(t)) \/ \E m \in Mutexes : Destroy(m)
Next == ~faulted /\ \/ Step /\ UNCHANGED faulted
                    \/ \E m \in Mutexes : DestroyUnused(m)

Spec == Init /\ [][Next]_vars
=============================================================================
