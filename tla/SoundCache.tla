------------------------------ MODULE SoundCache ------------------------------
(***************************************************************************)
(* source/reimpl/io.c: the stdio calls of the engine.  Small files under   *)
(* sounds/ are read into memory when they are first opened and kept; later *)
(* opens are given a handle, which is a cursor into that copy and is cast  *)
(* to FILE *.  A table of handles tells them from real streams.  Whenever  *)
(* the cache is of no help (full tables, no memory, a file too large or    *)
(* unreadable) a real stream is opened.                                    *)
(*                                                                         *)
(* The calls come from one thread (comment at lines 222 to 227), so each   *)
(* is one step.  Handles and streams live in one heap: a freed address may *)
(* come back as the other sort.                                            *)
(***************************************************************************)
EXTENDS Integers, Sequences, FiniteSets, FiniteSetsExt

CONSTANTS Streams, Null,          \* addresses of streams and handles; no address
          Sounds, Others, None,   \* names below sounds/, other names; no name
          Size,                   \* bytes in a file
          MaxSize,                \* SOUND_CACHE_MAX_FILE_SIZE
          MaxEntries, MaxHandles, \* SOUND_CACHE_MAX_ENTRIES, SOUND_CACHE_MAX_HANDLES
          ItemSizes, Counts,      \* the sizes and counts the engine passes to fread
          Offsets,                \* the offsets it passes to fseek
          Past                    \* bound of the model: how far behind the end it seeks

Names == Sounds \cup Others

ASSUME NameAssumption ==
  /\ Sounds \cap Others = {} /\ None \notin Names /\ Null \notin Streams
  /\ \A n \in Names : Size[n] \in Nat
ASSUME LimitAssumption ==
  /\ MaxSize \in Nat /\ MaxEntries \in Nat /\ MaxHandles \in Nat /\ Past \in Nat
  /\ ItemSizes \subseteq Nat \ {0} /\ Counts \subseteq Nat /\ Offsets \subseteq Int

VARIABLES
  cache,    \* s_sound_cache: the file whose bytes an entry holds
  slots,    \* s_cached_handles
  heap,     \* what is at an address: nothing, a real stream or a handle
  last      \* the last call and its result, as in FileStreams

vars == <<cache, slots, heap, last>>

\* kind: "free", "file" or "handle"; name: the file the engine opened it for; pos: the
\* cursor; eof: the end-of-file flag of a real stream; entry: of a handle, the cache
\* entry its data belongs to.
Address(k, n, i) == [kind |-> k, name |-> n, pos |-> 0, eof |-> FALSE, entry |-> i]
Freed == Address("free", None, 0)
File(n) == Address("file", n, 0)
Handle(n, i) == Address("handle", n, i)

Slots == 1..MaxHandles

\* Slips the checks below must notice; nothing uses them.
MutCleared(s) == slots
MutEntriesFor(c, n) == {}
MutBytes(item, count, left) == IF item * count <= left THEN item * count ELSE left
MutClamp(p, size) == IF p > size THEN size ELSE p

EntriesFor(c, n) == {i \in 1..Len(c) : c[i] = n}   \* find_sound_cache_entry
Cached(s) == \E i \in Slots : slots[i] = s         \* find_cached_handle_slot
Cleared(s) == [i \in Slots |-> IF slots[i] = s THEN Null ELSE slots[i]]
EmptySlots(sl) == {i \in Slots : sl[i] = Null}
Cacheable(n) == n \in Sounds                       \* is_cacheable_sound_open
\* load_and_cache_sound: there is room and the file is neither empty nor too large.
MayLoad(n) == Len(cache) < MaxEntries /\ Size[n] \in 1..MaxSize
\* The cache when an open of n has looked it up: loaded, or not, for want of memory or
\* because the file could not be opened or read to its end.
CacheAfter(n) ==
  {cache} \cup (IF Cacheable(n) /\ EntriesFor(cache, n) = {} /\ MayLoad(n)
                THEN {Append(cache, n)} ELSE {})
\* The bytes behind a stream.
Content(s) == IF Cached(s) THEN cache[heap[s].entry] ELSE heap[s].name
Clamp(p, size) == IF p < 0 THEN 0 ELSE IF p > size THEN size ELSE p
\* The bytes fread delivers: whole items.
Bytes(item, count, left) ==
  IF item * count <= left THEN item * count ELSE (left \div item) * item
Left(s) == IF heap[s].pos < Size[Content(s)] THEN Size[Content(s)] - heap[s].pos ELSE 0
Moved(s, p, flag) == [heap EXCEPT ![s].pos = p, ![s].eof = flag]

Holds(s) == heap[s].kind # "free"
-----------------------------------------------------------------------------
Init ==
  /\ cache = << >> /\ slots = [i \in Slots |-> Null]
  /\ heap = [s \in Streams |-> Freed] /\ last = <<"done">>
-----------------------------------------------------------------------------
\* fopen_soloader, with the table sl and the heap hp that it finds.
OpenWith(n, sl, hp) ==
  /\ last' = <<"done">>
  /\ \E c \in CacheAfter(n) :
       /\ cache' = c
       /\ \/ \E s \in Streams :                                \* a handle
               /\ Cacheable(n) /\ EntriesFor(c, n) # {} /\ EmptySlots(sl) # {}
               /\ hp[s].kind = "free"
               /\ slots' = [sl EXCEPT ![Min(EmptySlots(sl))] = s]
               /\ heap' = [hp EXCEPT ![s] = Handle(n, Min(EntriesFor(c, n)))]
          \/ \E s \in Streams :                                \* a real stream
               /\ hp[s].kind = "free"
               /\ slots' = sl /\ heap' = [hp EXCEPT ![s] = File(n)]
          \/ slots' = sl /\ heap' = hp                          \* no such file

Open(n) == OpenWith(n, slots, heap)

\* fclose_soloader: the first slot that matches is emptied (no two do).
Close(s) ==
  /\ Holds(s)
  /\ slots' = Cleared(s) /\ heap' = [heap EXCEPT ![s] = Freed]
  /\ last' = <<"done">> /\ cache' = cache

\* freopen_soloader: of a handle, close and open; of a real stream, the C library's,
\* which keeps the address or fails and closes.
Reopen(s, n) ==
  /\ Holds(s)
  /\ IF Cached(s)
     THEN OpenWith(n, Cleared(s), [heap EXCEPT ![s] = Freed])
     ELSE /\ heap' \in {[heap EXCEPT ![s] = File(n)], [heap EXCEPT ![s] = Freed]}
          /\ last' = <<"done">> /\ UNCHANGED <<cache, slots>>
-----------------------------------------------------------------------------
\* fread_soloader.  The C library consumes an incomplete item and notes the end.
Read(s, item, count) ==
  LET bytes == Bytes(item, count, Left(s))
      short == item * count > Left(s)
      consumed == IF Cached(s) \/ ~short THEN bytes ELSE Left(s)
  IN /\ Holds(s)
     /\ last' = <<"read", s, Content(s), heap[s].pos, bytes, count * item>>
     /\ heap' = Moved(s, heap[s].pos + consumed, heap[s].eof \/ (short /\ ~Cached(s)))
     /\ UNCHANGED <<cache, slots>>

Base(s, origin) == IF origin = "set" THEN 0
                   ELSE IF origin = "cur" THEN heap[s].pos ELSE Size[Content(s)]

\* fseek_soloader clamps; the C library refuses to go before the start.
Seek(s, origin, offset) ==
  LET target == Base(s, origin) + offset
  IN /\ Holds(s) /\ target <= Size[heap[s].name] + Past
     /\ last' = <<"seek", s, target>>
     /\ heap' = IF Cached(s) THEN Moved(s, Clamp(target, Size[Content(s)]), FALSE)
                ELSE IF target < 0 THEN heap ELSE Moved(s, target, FALSE)
     /\ UNCHANGED <<cache, slots>>

\* ftell_soloader.
Tell(s) ==
  /\ Holds(s)
  /\ last' = <<"tell", s, heap[s].pos>> /\ UNCHANGED <<cache, slots, heap>>

\* ungetc_soloader, of the byte just read.
Unget(s) ==
  /\ Holds(s) /\ heap[s].pos \in 1..Size[heap[s].name]
  /\ heap' = Moved(s, heap[s].pos - 1, FALSE)
  /\ last' = <<"done">> /\ UNCHANGED <<cache, slots>>

\* feof_soloader.
Feof(s) == IF Cached(s) THEN heap[s].pos >= Size[Content(s)] ELSE heap[s].eof
-----------------------------------------------------------------------------
Next ==
  \/ \E n \in Names : Open(n) \/ \E s \in Streams : Reopen(s, n)
  \/ \E s \in Streams :
       \/ Close(s) \/ Tell(s) \/ Unget(s)
       \/ \E item \in ItemSizes, count \in Counts : Read(s, item, count)
       \/ \E origin \in {"set", "cur", "end"}, offset \in Offsets : Seek(s, origin, offset)

Spec == Init /\ [][Next]_vars
-----------------------------------------------------------------------------
(* Types of the variables; above all a cursor is never negative.           *)
TypeOK ==
  /\ cache \in Seq(Sounds) /\ Len(cache) <= MaxEntries
  /\ slots \in [Slots -> Streams \cup {Null}]
  /\ heap \in [Streams -> [kind : {"free", "file", "handle"}, name : Names \cup {None},
                           pos : Nat, eof : BOOLEAN, entry : Nat]]

(* Real streams and handles are never mistaken for one another, through    *)
(* any reuse of addresses, slots and entries: the table holds exactly the  *)
(* live handles, each once, and each still points to the bytes of the file *)
(* it was opened for.                                                      *)
HandlesKnown ==
  /\ \A s \in Streams : Cached(s) <=> heap[s].kind = "handle"
  /\ \A i, j \in Slots : slots[i] = slots[j] /\ slots[i] # Null => i = j
  /\ \A s \in Streams : heap[s].name # None <=> Holds(s)
  /\ \A s \in Streams : heap[s].kind = "handle" =>
       heap[s].entry \in 1..Len(cache) /\ cache[heap[s].entry] = heap[s].name

(* A file takes one entry at most, however often and by whatever way it is *)
(* opened again, so 128 entries serve 128 sounds; nor is there an entry    *)
(* for a file that is empty or too large.                                  *)
LoadedOnce ==
  /\ \A i, j \in 1..Len(cache) : cache[i] = cache[j] => i = j
  /\ \A i \in 1..Len(cache) : Size[cache[i]] \in 1..MaxSize

(* Whatever it opens, by handle or by real stream, the engine gets cursors *)
(* of their own: overlapping voices of one sound do not move one another,  *)
(* and each read delivers the bytes of its file from its cursor on.        *)
Files == INSTANCE FileStreams WITH file <- [s \in Streams |-> heap[s].name],
                                   pos <- [s \in Streams |-> heap[s].pos]
StreamSpec == Files!Spec
=============================================================================
