----------------------------- MODULE FileStreams -----------------------------
(***************************************************************************)
(* What the engine may expect of the stdio calls the port gives it: every  *)
(* open stream is a cursor of its own on the file it was opened for.  A    *)
(* call moves the cursor of its stream only.  SoundCache implements it,    *)
(* partly without any file being open.                                     *)
(***************************************************************************)
EXTENDS Integers

CONSTANTS Streams,   \* the values a FILE * may have
          Names,     \* names of files
          None,      \* no file
          Size,      \* how many bytes a file has
          ItemSizes, Counts   \* what may be asked of a read

VARIABLES file,      \* the file an open stream was opened for, or None
          pos,       \* its cursor
          last       \* the last call and what it returned

vars == <<file, pos, last>>

Init == file = [s \in Streams |-> None] /\ pos = [s \in Streams |-> 0] /\ last = <<"done">>

IsOpen(s) == file[s] # None

Open(s, n) ==
  /\ ~IsOpen(s)
  /\ file' = [file EXCEPT ![s] = n] /\ pos' = [pos EXCEPT ![s] = 0] /\ last' = <<"done">>

\* There is no such file, or it cannot be opened now.
Refuse == last' = <<"done">> /\ UNCHANGED <<file, pos>>

Close(s) ==
  /\ IsOpen(s)
  /\ file' = [file EXCEPT ![s] = None] /\ pos' = [pos EXCEPT ![s] = 0] /\ last' = <<"done">>

\* Close s and open r, perhaps the same stream, for n.
Reopen(s, r, n) ==
  /\ IsOpen(s) /\ (r = s \/ ~IsOpen(r))
  /\ file' = [file EXCEPT ![s] = None, ![r] = n]
  /\ pos' = [pos EXCEPT ![s] = 0, ![r] = 0] /\ last' = <<"done">>

\* Up to count items: the whole ones that are left, from the cursor on.  How much of
\* an incomplete item is consumed is left open.
Read(s, item, count) ==
  LET left == IF pos[s] < Size[file[s]] THEN Size[file[s]] - pos[s] ELSE 0
      items == IF count * item <= left THEN count ELSE left \div item
  IN /\ IsOpen(s)
     /\ last' = <<"read", s, file[s], pos[s], items * item, count * item>>
     /\ \E extra \in 0..(item - 1) :
          /\ items * item + extra <= left
          /\ pos' = [pos EXCEPT ![s] = pos[s] + items * item + extra]
     /\ file' = file

\* Inside the file the cursor goes where it is sent; what happens to other requests
\* is left open.
Seek(s) ==
  /\ IsOpen(s) /\ last'[1] = "seek" /\ last'[2] = s
  /\ last'[3] \in 0..Size[file[s]] => pos'[s] = last'[3]
  /\ pos'[s] \in Nat /\ pos' = [pos EXCEPT ![s] = pos'[s]] /\ file' = file

Tell(s) ==
  /\ IsOpen(s)
  /\ last' = <<"tell", s, pos[s]>> /\ UNCHANGED <<file, pos>>

\* The byte just read is pushed back.
Unget(s) ==
  /\ IsOpen(s) /\ pos[s] > 0
  /\ pos' = [pos EXCEPT ![s] = pos[s] - 1] /\ last' = <<"done">> /\ file' = file

Next ==
  \/ Refuse
  \/ \E s \in Streams :
       \/ Close(s) \/ Tell(s) \/ Unget(s) \/ Seek(s)
       \/ \E n \in Names : Open(s, n) \/ \E r \in Streams : Reopen(s, r, n)
       \/ \E item \in ItemSizes, count \in Counts : Read(s, item, count)

Spec == Init /\ [][Next]_vars
=============================================================================
