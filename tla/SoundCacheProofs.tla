-------------------------- MODULE SoundCacheProofs --------------------------
(***************************************************************************)
(* Theorems about SoundCache, for every set of files and addresses, every  *)
(* limit and every request: the invariants, and that the engine gets the   *)
(* streams of FileStreams.                                                 *)
(***************************************************************************)
EXTENDS SoundCache, SequenceTheorems, WellFoundedInduction, TLAPS

USE NameAssumption, LimitAssumption DEF Slots, Names, Address

(* The invariant, as predicates of a cache, a table and a heap: fopen is   *)
(* also entered from freopen, with one handle gone.                        *)
HeapType(hp) ==
  hp \in [Streams -> [kind : {"free", "file", "handle"}, name : Names \cup {None},
                      pos : Nat, eof : BOOLEAN, entry : Nat]]
TableType(sl) == sl \in [Slots -> Streams \cup {Null}]
CacheType(c) == c \in Seq(Sounds) /\ Len(c) <= MaxEntries
Once(c) ==
  /\ \A i, j \in 1..Len(c) : c[i] = c[j] => i = j
  /\ \A i \in 1..Len(c) : Size[c[i]] \in 1..MaxSize
Registered(sl, hp) ==
  /\ \A s \in Streams : (\E i \in Slots : sl[i] = s) <=> hp[s].kind = "handle"
  /\ \A i, j \in Slots : sl[i] = sl[j] /\ sl[i] # Null => i = j
Named(hp) == \A s \in Streams : hp[s].name # None <=> hp[s].kind # "free"
Backed(c, hp) ==
  \A s \in Streams : hp[s].kind = "handle" =>
    hp[s].entry \in 1..Len(c) /\ c[hp[s].entry] = hp[s].name

Consistent(c, sl, hp) ==
  /\ CacheType(c) /\ TableType(sl) /\ HeapType(hp)
  /\ Registered(sl, hp) /\ Named(hp) /\ Backed(c, hp) /\ Once(c)

IInv == Consistent(cache, slots, heap)

LEMMA InvariantParts == IInv <=> TypeOK /\ HandlesKnown /\ LoadedOnce
BY DEF IInv, Consistent, CacheType, TableType, HeapType, Registered, Named, Backed, Once,
       TypeOK, HandlesKnown, LoadedOnce, Cached, Holds
-----------------------------------------------------------------------------
(* The smallest of some naturals is one of them.                           *)
LEMMA MinIn ==
  ASSUME NEW S \in SUBSET Nat, S # {}
  PROVE  Min(S) \in S
<1>1. PICK x \in S : \A y \in S : ~(<<y, x>> \in OpToRel(<, Nat))
  BY WFMin, NatLessThanWellFounded
<1>2. ASSUME NEW y \in S PROVE x <= y
  <2>1. ~(<<y, x>> \in OpToRel(<, Nat)) /\ <<y, x>> \in Nat \X Nat
    BY <1>1
  <2>2. ~(y < x)
    BY <2>1 DEF OpToRel
  <2> QED
    BY <2>2
<1> QED
  BY <1>2 DEF Min

(* Freeing an address that is registered keeps everything consistent.      *)
LEMMA FreeConsistent ==
  ASSUME IInv, NEW s \in Streams
  PROVE  Consistent(cache, Cleared(s), [heap EXCEPT ![s] = Freed])
<1> DEFINE hp == [heap EXCEPT ![s] = Freed]
<1> USE DEF IInv, Consistent
<1>1. HeapType(hp)
  BY DEF HeapType, Freed
<1>2. TableType(Cleared(s))
  BY DEF TableType, Cleared
<1>3. /\ hp[s].kind = "free" /\ hp[s].name = None
      /\ \A r \in Streams \ {s} : hp[r] = heap[r]
  BY DEF HeapType, Freed
<1>4. /\ \A i \in Slots : slots[i] = s => Cleared(s)[i] = Null
      /\ \A i \in Slots : slots[i] # s => Cleared(s)[i] = slots[i]
  BY DEF Cleared
<1>5. Registered(Cleared(s), hp)
  BY <1>3, <1>4 DEF Registered
<1>6. Named(hp) /\ Backed(cache, hp)
  BY <1>3 DEF Named, Backed
<1> QED
  BY <1>1, <1>2, <1>5, <1>6

(* Looking a sound up leaves the old entries where they are and adds at    *)
(* most the file that is missing.                                          *)
LEMMA CacheGrows ==
  ASSUME IInv, NEW n \in Names, NEW c \in CacheAfter(n)
  PROVE  /\ CacheType(c) /\ Once(c) /\ Len(cache) <= Len(c)
         /\ \A i \in 1..Len(cache) : c[i] = cache[i]
<1> USE DEF IInv, Consistent
<1>1. CASE c = cache
  BY <1>1 DEF CacheType
<1>2. CASE c # cache
  <2>1. /\ c = Append(cache, n) /\ n \in Sounds /\ EntriesFor(cache, n) = {}
        /\ Len(cache) < MaxEntries /\ Size[n] \in 1..MaxSize
    BY <1>2 DEF CacheAfter, Cacheable, MayLoad
  <2>2. cache \in Seq(Sounds) /\ Len(cache) \in Nat
    BY DEF CacheType
  <2>3. /\ c \in Seq(Sounds) /\ Len(c) = Len(cache) + 1 /\ c[Len(cache) + 1] = n
        /\ \A i \in 1..Len(cache) : c[i] = cache[i]
    BY <2>1, <2>2, AppendProperties
  <2>4. \A i \in 1..Len(cache) : cache[i] # n
    BY <2>1 DEF EntriesFor
  <2>5. Once(c)
    BY <2>1, <2>2, <2>3, <2>4 DEF Once
  <2> QED
    BY <2>1, <2>2, <2>3, <2>5 DEF CacheType
<1> QED
  BY <1>1, <1>2

(* fopen, from any consistent table and heap.                              *)
LEMMA OpenStep ==
  ASSUME IInv, NEW n \in Names, NEW sl, NEW hp, Consistent(cache, sl, hp), OpenWith(n, sl, hp)
  PROVE  IInv'
<1>1. PICK c \in CacheAfter(n) :
        /\ cache' = c
        /\ \/ \E s \in Streams :
                /\ Cacheable(n) /\ EntriesFor(c, n) # {} /\ EmptySlots(sl) # {}
                /\ hp[s].kind = "free"
                /\ slots' = [sl EXCEPT ![Min(EmptySlots(sl))] = s]
                /\ heap' = [hp EXCEPT ![s] = Handle(n, Min(EntriesFor(c, n)))]
           \/ \E s \in Streams :
                /\ hp[s].kind = "free"
                /\ slots' = sl /\ heap' = [hp EXCEPT ![s] = File(n)]
           \/ slots' = sl /\ heap' = hp
  BY DEF OpenWith
<1>2. /\ CacheType(c) /\ Once(c) /\ Len(cache) <= Len(c) /\ Len(cache) \in Nat
      /\ Len(c) \in Nat /\ \A i \in 1..Len(cache) : c[i] = cache[i]
  BY CacheGrows DEF CacheType, IInv, Consistent
<1>3. Backed(c, hp)
  BY <1>2 DEF Consistent, Backed, HeapType
<1> USE DEF Consistent, IInv
<1>4. CASE \E s \in Streams :
             /\ Cacheable(n) /\ EntriesFor(c, n) # {} /\ EmptySlots(sl) # {}
             /\ hp[s].kind = "free"
             /\ slots' = [sl EXCEPT ![Min(EmptySlots(sl))] = s]
             /\ heap' = [hp EXCEPT ![s] = Handle(n, Min(EntriesFor(c, n)))]
  <2>1. PICK s \in Streams :
             /\ EntriesFor(c, n) # {} /\ EmptySlots(sl) # {}
             /\ hp[s].kind = "free"
             /\ slots' = [sl EXCEPT ![Min(EmptySlots(sl))] = s]
             /\ heap' = [hp EXCEPT ![s] = Handle(n, Min(EntriesFor(c, n)))]
    BY <1>4
  <2> DEFINE e == Min(EntriesFor(c, n))
             k == Min(EmptySlots(sl))
  <2>2. e \in 1..Len(c) /\ c[e] = n
    <3>1. EntriesFor(c, n) \in SUBSET Nat
      BY <1>2 DEF EntriesFor
    <3> QED
      BY <2>1, <3>1, MinIn DEF EntriesFor
  <2>3. k \in Slots /\ sl[k] = Null
    <3>1. EmptySlots(sl) \in SUBSET Nat
      BY DEF EmptySlots
    <3> QED
      BY <2>1, <3>1, MinIn DEF EmptySlots
  <2> HIDE DEF e, k
  <2>4. heap' = [hp EXCEPT ![s] = Handle(n, e)] /\ slots' = [sl EXCEPT ![k] = s]
    BY <2>1 DEF e, k
  <2>5. /\ Handle(n, e).kind = "handle" /\ Handle(n, e).name = n /\ Handle(n, e).entry = e
        /\ Handle(n, e) \in [kind : {"free", "file", "handle"}, name : Names \cup {None},
                             pos : Nat, eof : BOOLEAN, entry : Nat]
    BY <1>2, <2>2 DEF Handle
  <2>6. heap'[s] = Handle(n, e) /\ \A r \in Streams \ {s} : heap'[r] = hp[r]
    BY <2>4 DEF HeapType
  <2>7. slots'[k] = s /\ \A i \in Slots \ {k} : slots'[i] = sl[i]
    BY <2>3, <2>4 DEF TableType
  <2>8. HeapType(heap')
    BY <2>4, <2>5 DEF HeapType
  <2>9. TableType(slots')
    BY <2>3, <2>4 DEF TableType
  <2>10. \A i \in Slots : sl[i] # s
    BY <2>1 DEF Registered
  <2>11. Registered(slots', heap')
    <3>1. \A r \in Streams : (\E i \in Slots : slots'[i] = r) <=> heap'[r].kind = "handle"
      BY <2>3, <2>5, <2>6, <2>7, <2>10 DEF Registered
    <3>2. \A i, j \in Slots : slots'[i] = slots'[j] /\ slots'[i] # Null => i = j
      BY <2>7, <2>10 DEF Registered
    <3> QED
      BY <3>1, <3>2 DEF Registered
  <2>12. Named(heap') /\ Backed(c, heap')
    BY <1>3, <2>2, <2>5, <2>6 DEF Named, Backed
  <2> QED
    BY <1>1, <1>2, <2>8, <2>9, <2>11, <2>12
<1>5. CASE \E s \in Streams :
             hp[s].kind = "free" /\ slots' = sl /\ heap' = [hp EXCEPT ![s] = File(n)]
  <2>1. PICK s \in Streams :
             hp[s].kind = "free" /\ slots' = sl /\ heap' = [hp EXCEPT ![s] = File(n)]
    BY <1>5
  <2>2. /\ File(n).kind = "file" /\ File(n).name = n
        /\ File(n) \in [kind : {"free", "file", "handle"}, name : Names \cup {None},
                        pos : Nat, eof : BOOLEAN, entry : Nat]
    BY DEF File
  <2>3. HeapType(heap') /\ heap'[s] = File(n) /\ \A r \in Streams \ {s} : heap'[r] = hp[r]
    BY <2>1, <2>2 DEF HeapType
  <2>4. Registered(slots', heap')
    BY <2>1, <2>2, <2>3 DEF Registered
  <2>5. Named(heap') /\ Backed(c, heap')
    BY <1>3, <2>2, <2>3 DEF Named, Backed
  <2> QED
    BY <1>1, <1>2, <2>1, <2>3, <2>4, <2>5
<1>6. CASE slots' = sl /\ heap' = hp
  BY <1>1, <1>2, <1>3, <1>6
<1> QED
  BY <1>1, <1>4, <1>5, <1>6
-----------------------------------------------------------------------------
(* A held stream stands for the bytes of the file it was opened for,       *)
(* whichever sort it is of.                                                *)
LEMMA RightContent ==
  ASSUME IInv, NEW s \in Streams, Holds(s)
  PROVE  /\ Content(s) = heap[s].name /\ heap[s].name \in Names /\ heap[s].name # None
         /\ Size[heap[s].name] \in Nat /\ heap[s].pos \in Nat /\ heap[s].eof \in BOOLEAN
         /\ Left(s) \in Nat
<1> USE DEF IInv, Consistent, Holds
<1>1. heap[s].name \in Names /\ heap[s].name # None /\ heap[s].pos \in Nat
      /\ heap[s].eof \in BOOLEAN
  BY DEF HeapType, Named
<1>2. Content(s) = heap[s].name
  BY DEF Content, Cached, Registered, Backed
<1>3. Size[heap[s].name] \in Nat
  BY <1>1
<1> QED
  BY <1>1, <1>2, <1>3 DEF Left

(* What fread delivers is made of whole items and leaves less than one of  *)
(* what there is to read.                                                  *)
LEMMA WholeItems ==
  ASSUME NEW item \in Nat \ {0}, NEW count \in Nat, NEW left \in Nat
  PROVE  /\ Bytes(item, count, left) \in 0..left
         /\ item * count > left => left - Bytes(item, count, left) \in 0..(item - 1)
<1>1. /\ left \div item \in Nat
      /\ (left \div item) * item <= left /\ left - (left \div item) * item < item
  OBVIOUS
<1>2. item * count \in Nat /\ (left \div item) * item \in Nat
  BY <1>1
<1> QED
  BY <1>1, <1>2 DEF Bytes

(* Moving a cursor or its flag disturbs nothing.                           *)
LEMMA MoveStep ==
  ASSUME IInv, NEW s \in Streams, NEW p \in Nat, NEW flag \in BOOLEAN,
         heap' = Moved(s, p, flag), UNCHANGED <<cache, slots>>
  PROVE  /\ IInv'
         /\ [r \in Streams |-> heap'[r].name] = [r \in Streams |-> heap[r].name]
         /\ [r \in Streams |-> heap'[r].pos] = [[r \in Streams |-> heap[r].pos] EXCEPT ![s] = p]
<1> USE DEF IInv, Consistent
<1>1. /\ HeapType(heap') /\ heap'[s].pos = p
      /\ heap'[s].name = heap[s].name /\ heap'[s].kind = heap[s].kind
      /\ heap'[s].entry = heap[s].entry /\ \A r \in Streams \ {s} : heap'[r] = heap[r]
  BY DEF HeapType, Moved
<1>2. Registered(slots', heap') /\ Named(heap') /\ Backed(cache', heap')
  BY <1>1 DEF Registered, Named, Backed
<1> QED
  BY <1>1, <1>2
-----------------------------------------------------------------------------
(* One lemma per call: it keeps the invariant, and it is a call of         *)
(* FileStreams.                                                            *)
LEMMA ReadStep ==
  ASSUME IInv, NEW s \in Streams, NEW item \in ItemSizes, NEW count \in Counts,
         Read(s, item, count)
  PROVE  IInv' /\ Files!Read(s, item, count)
<1> DEFINE left == Left(s)
           bytes == Bytes(item, count, left)
           short == item * count > left
           consumed == IF Cached(s) \/ ~short THEN bytes ELSE left
           flag == heap[s].eof \/ (short /\ ~Cached(s))
           p == heap[s].pos + consumed
<1>1. /\ Holds(s) /\ heap' = Moved(s, p, flag) /\ UNCHANGED <<cache, slots>>
      /\ last' = <<"read", s, Content(s), heap[s].pos, bytes, count * item>>
  BY DEF Read
<1>2. /\ Content(s) = heap[s].name /\ heap[s].name # None
      /\ Size[heap[s].name] \in Nat /\ heap[s].pos \in Nat /\ heap[s].eof \in BOOLEAN
      /\ left \in Nat
  BY <1>1, RightContent
<1>3. left = IF heap[s].pos < Size[heap[s].name] THEN Size[heap[s].name] - heap[s].pos ELSE 0
  BY <1>2 DEF Left
<1>4. /\ item \in Nat \ {0} /\ count \in Nat
      /\ bytes \in 0..left /\ (short => left - bytes \in 0..(item - 1))
  BY <1>2, WholeItems
<1>5. bytes = (IF count * item <= left THEN count ELSE left \div item) * item
  BY <1>4 DEF Bytes
<1>6. consumed \in Nat /\ consumed - bytes \in 0..(item - 1) /\ consumed <= left
  BY <1>2, <1>4
<1> HIDE DEF left, bytes, short, consumed
<1>7. p \in Nat /\ flag \in BOOLEAN
  BY <1>2, <1>6
<1> HIDE DEF p, flag
<1>8. /\ IInv' /\ [r \in Streams |-> heap'[r].name] = [r \in Streams |-> heap[r].name]
      /\ [r \in Streams |-> heap'[r].pos] = [[r \in Streams |-> heap[r].pos] EXCEPT ![s] = p]
  BY <1>1, <1>7, MoveStep
<1>9. p = heap[s].pos + bytes + (consumed - bytes) /\ bytes + (consumed - bytes) <= left
  BY <1>2, <1>4, <1>6 DEF p
<1> QED
  BY <1>1, <1>2, <1>3, <1>5, <1>6, <1>8, <1>9 DEF Files!Read, Files!IsOpen

LEMMA SeekStep ==
  ASSUME IInv, NEW s \in Streams, NEW origin \in {"set", "cur", "end"}, NEW offset \in Offsets,
         Seek(s, origin, offset)
  PROVE  IInv' /\ Files!Seek(s)
<1> DEFINE target == Base(s, origin) + offset
           size == Size[heap[s].name]
<1>1. /\ Holds(s) /\ last' = <<"seek", s, target>> /\ UNCHANGED <<cache, slots>>
      /\ heap' = IF Cached(s) THEN Moved(s, Clamp(target, Size[Content(s)]), FALSE)
                 ELSE IF target < 0 THEN heap ELSE Moved(s, target, FALSE)
  BY DEF Seek
<1>2. /\ Content(s) = heap[s].name /\ heap[s].name # None
      /\ size \in Nat /\ heap[s].pos \in Nat /\ heap[s].eof \in BOOLEAN
  BY <1>1, RightContent
<1>3. target \in Int
  BY <1>2 DEF Base
<1> HIDE DEF target, size
<1>4. Clamp(target, size) \in Nat /\ (target \in 0..size => Clamp(target, size) = target)
  BY <1>2, <1>3 DEF Clamp
<1>5. PICK p \in Nat, flag \in BOOLEAN :
        heap' = Moved(s, p, flag) /\ (target \in 0..size => p = target)
  <2>1. CASE Cached(s)
    BY <1>1, <1>2, <1>4, <2>1 DEF size
  <2>2. CASE ~Cached(s) /\ target < 0
    <3>1. heap = Moved(s, heap[s].pos, heap[s].eof)
      BY DEF Moved, IInv, Consistent, HeapType
    <3> QED
      BY <1>1, <1>2, <1>3, <2>2, <3>1
  <2>3. CASE ~Cached(s) /\ ~(target < 0)
    <3>1. target \in Nat
      BY <1>3, <2>3
    <3>2. heap' = Moved(s, target, FALSE)
      BY <1>1, <1>3, <2>3
    <3> QED
      BY <3>1, <3>2
  <2> QED
    BY <2>1, <2>2, <2>3
<1>6. /\ IInv' /\ [r \in Streams |-> heap'[r].name] = [r \in Streams |-> heap[r].name]
      /\ [r \in Streams |-> heap'[r].pos] = [[r \in Streams |-> heap[r].pos] EXCEPT ![s] = p]
  BY <1>1, <1>5, MoveStep
<1>7. last'[1] = "seek" /\ last'[2] = s /\ last'[3] = target
  BY <1>1
<1> QED
  BY <1>1, <1>2, <1>5, <1>6, <1>7 DEF Files!Seek, Files!IsOpen, size

LEMMA TellStep ==
  ASSUME IInv, NEW s \in Streams, Tell(s)
  PROVE  IInv' /\ Files!Tell(s)
<1>1. heap[s].name # None
  BY RightContent DEF Tell
<1>2. IInv'
  BY DEF Tell, IInv
<1> QED
  BY <1>1, <1>2 DEF Tell, Files!Tell, Files!IsOpen

LEMMA UngetStep ==
  ASSUME IInv, NEW s \in Streams, Unget(s)
  PROVE  IInv' /\ Files!Unget(s)
<1>1. /\ Holds(s) /\ heap[s].pos \in 1..Size[heap[s].name] /\ UNCHANGED <<cache, slots>>
      /\ heap' = Moved(s, heap[s].pos - 1, FALSE) /\ last' = <<"done">>
  BY DEF Unget
<1>2. heap[s].name # None /\ Size[heap[s].name] \in Nat /\ heap[s].pos - 1 \in Nat
  BY <1>1, RightContent
<1>3. /\ IInv' /\ [r \in Streams |-> heap'[r].name] = [r \in Streams |-> heap[r].name]
      /\ [r \in Streams |-> heap'[r].pos]
           = [[r \in Streams |-> heap[r].pos] EXCEPT ![s] = heap[s].pos - 1]
  BY <1>1, <1>2, MoveStep
<1>4. heap[s].pos > 0 /\ [r \in Streams |-> heap[r].pos][s] = heap[s].pos
  BY <1>1, <1>2
<1>5. Files!IsOpen(s)
  BY <1>2 DEF Files!IsOpen
<1> QED
  BY <1>1, <1>3, <1>4, <1>5 DEF Files!Unget

LEMMA CloseStep ==
  ASSUME IInv, NEW s \in Streams, Close(s)
  PROVE  IInv' /\ Files!Close(s)
<1>1. heap[s].name # None
  BY RightContent DEF Close
<1>2. IInv'
  BY FreeConsistent DEF Close, IInv
<1>3. /\ [r \in Streams |-> heap'[r].name] = [[r \in Streams |-> heap[r].name] EXCEPT ![s] = None]
      /\ [r \in Streams |-> heap'[r].pos] = [[r \in Streams |-> heap[r].pos] EXCEPT ![s] = 0]
  BY DEF Close, Freed, IInv, Consistent, HeapType
<1> QED
  BY <1>1, <1>2, <1>3 DEF Close, Files!Close, Files!IsOpen

(* Heaps seen from the engine, and the effect of filling one address.      *)
NamesOf(hp) == [r \in Streams |-> hp[r].name]
CursorsOf(hp) == [r \in Streams |-> hp[r].pos]

LEMMA FillAddress ==
  ASSUME NEW hp, HeapType(hp), NEW s \in Streams, NEW v
  PROVE  /\ NamesOf([hp EXCEPT ![s] = v]) = [NamesOf(hp) EXCEPT ![s] = v.name]
         /\ CursorsOf([hp EXCEPT ![s] = v]) = [CursorsOf(hp) EXCEPT ![s] = v.pos]
<1> DEFINE hq == [hp EXCEPT ![s] = v]
<1>1. hq[s] = v /\ \A r \in Streams \ {s} : hq[r] = hp[r]
  BY DEF HeapType
<1> HIDE DEF hq
<1>2. \A r \in Streams : /\ hq[r].name = IF r = s THEN v.name ELSE hp[r].name
                         /\ hq[r].pos = IF r = s THEN v.pos ELSE hp[r].pos
  BY <1>1
<1>3. /\ NamesOf(hq) = [r \in Streams |-> IF r = s THEN v.name ELSE hp[r].name]
      /\ CursorsOf(hq) = [r \in Streams |-> IF r = s THEN v.pos ELSE hp[r].pos]
  BY <1>2, Zenon DEF NamesOf, CursorsOf
<1>4. /\ [NamesOf(hp) EXCEPT ![s] = v.name]
           = [r \in Streams |-> IF r = s THEN v.name ELSE hp[r].name]
      /\ [CursorsOf(hp) EXCEPT ![s] = v.pos]
           = [r \in Streams |-> IF r = s THEN v.pos ELSE hp[r].pos]
  BY DEF NamesOf, CursorsOf
<1> QED
  BY <1>3, <1>4 DEF hq

(* What fopen leaves: the heap it found, perhaps with one free address     *)
(* taken for the file.                                                     *)
LEMMA OpenEffect ==
  ASSUME NEW n \in Names, NEW sl, NEW hp, HeapType(hp), OpenWith(n, sl, hp)
  PROVE  /\ last' = <<"done">>
         /\ \/ heap' = hp
            \/ \E s \in Streams :
                 /\ hp[s].kind = "free"
                 /\ NamesOf(heap') = [NamesOf(hp) EXCEPT ![s] = n]
                 /\ CursorsOf(heap') = [CursorsOf(hp) EXCEPT ![s] = 0]
<1>1. /\ last' = <<"done">>
      /\ \/ heap' = hp
         \/ \E s \in Streams : hp[s].kind = "free" /\ heap' = [hp EXCEPT ![s] = File(n)]
         \/ \E s \in Streams :
              hp[s].kind = "free" /\ \E i : heap' = [hp EXCEPT ![s] = Handle(n, i)]
  BY DEF OpenWith
<1>2. CASE \E s \in Streams : hp[s].kind = "free" /\ heap' = [hp EXCEPT ![s] = File(n)]
  <2>1. PICK s \in Streams : hp[s].kind = "free" /\ heap' = [hp EXCEPT ![s] = File(n)]
    BY <1>2
  <2>2. File(n).name = n /\ File(n).pos = 0
    BY DEF File
  <2>3. /\ NamesOf([hp EXCEPT ![s] = File(n)]) = [NamesOf(hp) EXCEPT ![s] = n]
        /\ CursorsOf([hp EXCEPT ![s] = File(n)]) = [CursorsOf(hp) EXCEPT ![s] = 0]
    BY <2>2, FillAddress
  <2> QED
    BY <1>1, <2>1, <2>3
<1>3. CASE \E s \in Streams :
              hp[s].kind = "free" /\ \E i : heap' = [hp EXCEPT ![s] = Handle(n, i)]
  <2>0. PICK s \in Streams :
          hp[s].kind = "free" /\ \E i : heap' = [hp EXCEPT ![s] = Handle(n, i)]
    BY <1>3
  <2>1. PICK i : hp[s].kind = "free" /\ heap' = [hp EXCEPT ![s] = Handle(n, i)]
    BY <2>0
  <2>2. Handle(n, i).name = n /\ Handle(n, i).pos = 0
    BY DEF Handle
  <2>3. /\ NamesOf([hp EXCEPT ![s] = Handle(n, i)]) = [NamesOf(hp) EXCEPT ![s] = n]
        /\ CursorsOf([hp EXCEPT ![s] = Handle(n, i)]) = [CursorsOf(hp) EXCEPT ![s] = 0]
    BY <2>2, FillAddress
  <2> QED
    BY <1>1, <2>1, <2>3
<1> QED
  BY <1>1, <1>2, <1>3

LEMMA OpenRefines ==
  ASSUME IInv, NEW n \in Names, Open(n)
  PROVE  IInv' /\ Files!Next
<1>1. IInv'
  BY OpenStep DEF Open, IInv
<1>2. HeapType(heap) /\ Named(heap)
  BY DEF IInv, Consistent
<1> OpenWith(n, slots, heap)
  BY DEF Open
<1>3. CASE heap' = heap
  <2>1. Files!Refuse
    BY <1>2, <1>3, OpenEffect DEF Files!Refuse
  <2> QED
    BY <1>1, <2>1 DEF Files!Next
<1>4. CASE heap' # heap
  <2>1. PICK s \in Streams :
          /\ heap[s].kind = "free" /\ last' = <<"done">>
          /\ NamesOf(heap') = [NamesOf(heap) EXCEPT ![s] = n]
          /\ CursorsOf(heap') = [CursorsOf(heap) EXCEPT ![s] = 0]
    BY <1>2, <1>4, OpenEffect
  <2>2. heap[s].name = None
    BY <1>2, <2>1 DEF Named
  <2>3. Files!Open(s, n)
    BY <2>1, <2>2 DEF Files!Open, Files!IsOpen, NamesOf, CursorsOf
  <2> QED
    BY <1>1, <2>3 DEF Files!Next
<1> QED
  BY <1>3, <1>4

LEMMA ReopenRefines ==
  ASSUME IInv, NEW s \in Streams, NEW n \in Names, Reopen(s, n)
  PROVE  IInv' /\ Files!Next
<1> DEFINE hp == [heap EXCEPT ![s] = Freed]
<1>1. /\ HeapType(heap) /\ Named(heap) /\ Holds(s) /\ heap[s].name # None
      /\ Consistent(cache, slots, heap)
  BY RightContent DEF IInv, Consistent, Reopen
<1>2. /\ Consistent(cache, Cleared(s), hp) /\ HeapType(hp) /\ Named(hp)
      /\ hp[s] = Freed /\ \A r \in Streams \ {s} : hp[r] = heap[r]
  BY <1>1, FreeConsistent DEF Consistent, HeapType
<1>3. /\ NamesOf(hp) = [NamesOf(heap) EXCEPT ![s] = None]
      /\ CursorsOf(hp) = [CursorsOf(heap) EXCEPT ![s] = 0]
  <2>1. Freed.name = None /\ Freed.pos = 0
    BY DEF Freed
  <2> QED
    BY <1>1, <2>1, FillAddress
<1> HIDE DEF hp
<1>4. ASSUME heap' = hp, last' = <<"done">> PROVE Files!Close(s)
  BY <1>1, <1>3, <1>4 DEF Files!Close, Files!IsOpen, NamesOf, CursorsOf
<1>5. ASSUME NEW r \in Streams, hp[r].kind = "free", last' = <<"done">>,
             NamesOf(heap') = [NamesOf(hp) EXCEPT ![r] = n],
             CursorsOf(heap') = [CursorsOf(hp) EXCEPT ![r] = 0]
      PROVE  Files!Reopen(s, r, n)
  <2>1. r = s \/ heap[r].name = None
    BY <1>2, <1>5 DEF Named
  <2> QED
    BY <1>1, <1>3, <1>5, <2>1 DEF Files!Reopen, Files!IsOpen, NamesOf, CursorsOf
<1>6. CASE Cached(s)
  <2>1. OpenWith(n, Cleared(s), hp)
    BY <1>6 DEF Reopen, hp
  <2>2. IInv'
    BY <1>2, <2>1, OpenStep
  <2>3. Files!Close(s) \/ \E r \in Streams : Files!Reopen(s, r, n)
    <3>1. CASE heap' = hp
      BY <1>2, <1>4, <2>1, <3>1, OpenEffect
    <3>2. CASE heap' # hp
      <4>1. PICK r \in Streams :
              /\ hp[r].kind = "free" /\ last' = <<"done">>
              /\ NamesOf(heap') = [NamesOf(hp) EXCEPT ![r] = n]
              /\ CursorsOf(heap') = [CursorsOf(hp) EXCEPT ![r] = 0]
        BY <1>2, <2>1, <3>2, OpenEffect
      <4> QED
        BY <1>5, <4>1
    <3> QED
      BY <3>1, <3>2
  <2> QED
    BY <2>2, <2>3 DEF Files!Next
<1>7. CASE ~Cached(s)
  <2>1. /\ heap' = hp \/ heap' = [heap EXCEPT ![s] = File(n)]
        /\ last' = <<"done">> /\ UNCHANGED <<cache, slots>>
    BY <1>7 DEF Reopen, hp
  <2>2. CASE heap' = hp
    <3>1. Cleared(s) = slots
      BY <1>1, <1>7 DEF Cleared, Cached, Consistent, TableType
    <3>2. IInv'
      BY <1>2, <2>1, <2>2, <3>1 DEF IInv
    <3> QED
      BY <1>4, <2>1, <2>2, <3>2 DEF Files!Next
  <2>3. CASE heap' = [heap EXCEPT ![s] = File(n)]
    <3>1. /\ File(n).kind = "file" /\ File(n).name = n /\ File(n).pos = 0
          /\ File(n) \in [kind : {"free", "file", "handle"}, name : Names \cup {None},
                          pos : Nat, eof : BOOLEAN, entry : Nat]
      BY DEF File
    <3>2. HeapType(heap') /\ heap'[s] = File(n) /\ \A r \in Streams \ {s} : heap'[r] = heap[r]
      BY <1>1, <2>3, <3>1 DEF HeapType
    <3>3. heap[s].kind # "handle"
      BY <1>1, <1>7 DEF Consistent, Registered, Cached
    <3>4. Registered(slots, heap') /\ Named(heap') /\ Backed(cache, heap')
      BY <1>1, <3>1, <3>2, <3>3 DEF Consistent, Registered, Named, Backed
    <3>5. IInv'
      BY <1>1, <2>1, <3>2, <3>4 DEF IInv, Consistent
    <3>6. /\ NamesOf(heap') = [NamesOf(hp) EXCEPT ![s] = n]
          /\ CursorsOf(heap') = [CursorsOf(hp) EXCEPT ![s] = 0]
      <4>1. /\ NamesOf([heap EXCEPT ![s] = File(n)]) = [NamesOf(heap) EXCEPT ![s] = n]
            /\ CursorsOf([heap EXCEPT ![s] = File(n)]) = [CursorsOf(heap) EXCEPT ![s] = 0]
        BY <1>1, <3>1, FillAddress
      <4> QED
        BY <1>3, <2>3, <4>1 DEF NamesOf, CursorsOf
    <3>7. hp[s].kind = "free"
      BY <1>2 DEF Freed
    <3> QED
      BY <1>5, <2>1, <3>5, <3>6, <3>7 DEF Files!Next
  <2> QED
    BY <2>1, <2>2, <2>3
<1> QED
  BY <1>6, <1>7
-----------------------------------------------------------------------------
LEMMA InitInvariant == Init => IInv /\ Files!Init
<1> SUFFICES ASSUME Init PROVE IInv /\ Files!Init
  OBVIOUS
<1>1. CacheType(cache) /\ Once(cache)
  BY DEF Init, CacheType, Once
<1>2. TableType(slots) /\ HeapType(heap) /\ \A s \in Streams : heap[s] = Freed
  BY DEF Init, TableType, HeapType, Freed
<1>3. Registered(slots, heap) /\ Named(heap) /\ Backed(cache, heap)
  BY <1>2 DEF Init, Registered, Named, Backed, Freed
<1> QED
  BY <1>1, <1>2, <1>3 DEF IInv, Consistent, Init, Files!Init, Freed

LEMMA NextStep == IInv /\ [Next]_vars => IInv' /\ [Files!Next]_(Files!vars)
<1> SUFFICES ASSUME IInv, [Next]_vars PROVE IInv' /\ [Files!Next]_(Files!vars)
  OBVIOUS
<1>1. CASE UNCHANGED vars
  BY <1>1 DEF vars, IInv, Files!vars
<1>2. CASE \E n \in Names : Open(n)
  BY <1>2, OpenRefines
<1>3. CASE \E n \in Names, s \in Streams : Reopen(s, n)
  BY <1>3, ReopenRefines
<1>4. CASE \E s \in Streams : Close(s) \/ Tell(s) \/ Unget(s)
  BY <1>4, CloseStep, TellStep, UngetStep DEF Files!Next
<1>5. CASE \E s \in Streams, item \in ItemSizes, count \in Counts : Read(s, item, count)
  BY <1>5, ReadStep DEF Files!Next
<1>6. CASE \E s \in Streams, origin \in {"set", "cur", "end"}, offset \in Offsets :
             Seek(s, origin, offset)
  BY <1>6, SeekStep DEF Files!Next
<1> QED
  BY <1>1, <1>2, <1>3, <1>4, <1>5, <1>6 DEF Next

LEMMA Invariant == Spec => []IInv
<1>1. Init => IInv
  BY InitInvariant
<1>2. IInv /\ [Next]_vars => IInv'
  BY NextStep
<1> QED
  BY <1>1, <1>2, PTL DEF Spec

(* The variables of the stdio calls keep their types; above all no cursor  *)
(* is negative.                                                            *)
THEOREM TypeCorrect == Spec => []TypeOK
<1>1. IInv => TypeOK
  BY InvariantParts
<1> QED
  BY <1>1, Invariant, PTL

(* find_cached_handle_slot never takes a real stream for a handle nor a    *)
(* handle for a real stream, and a handle has the bytes of its own file.   *)
THEOREM HandlesAreKnown == Spec => []HandlesKnown
<1>1. IInv => HandlesKnown
  BY InvariantParts
<1> QED
  BY <1>1, Invariant, PTL

(* load_and_cache_sound enters a file once, and only one it may keep.      *)
THEOREM EachLoadedOnce == Spec => []LoadedOnce
<1>1. IInv => LoadedOnce
  BY InvariantParts
<1> QED
  BY <1>1, Invariant, PTL

(* The calls of io.c give the engine independent streams, cached or not.   *)
THEOREM ImplementsStreams == Spec => StreamSpec
<1>1. Init => Files!Init
  BY InitInvariant
<1>2. IInv /\ [Next]_vars => [Files!Next]_(Files!vars)
  BY NextStep
<1> QED
  BY <1>1, <1>2, Invariant, PTL DEF Spec, StreamSpec, Files!Spec
=============================================================================
