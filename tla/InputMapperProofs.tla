-------------------------- MODULE InputMapperProofs --------------------------
(***************************************************************************)
(* What InputMapper promises for any buttons in use, any number of real    *)
(* fingers, any levels and any limit of the camera drag.                   *)
(***************************************************************************)
EXTENDS InputMapper, TLAPS

Touches == {"down", "move", "up"}

\* A finger that is down (d) or not can make the touches s; where it is after them.
CanMake(s, d) ==
  \A i \in DOMAIN s : (s[i] = "down") <=> ~(IF i = 1 THEN d ELSE s[i - 1] # "up")
EndsDown(s, d) == IF s = << >> THEN d ELSE s[Len(s)] # "up"

\* With every save gone through, the level set last is the one saved last.
NothingUnsaved == ~unsaved => chosen = saved
IInv == TypeOK /\ NoStuckFinger /\ KeysFollow /\ LevelSurvives /\ NothingUnsaved
-----------------------------------------------------------------------------
(* Touches after touches: what comes second starts where the first ends.   *)
LEMMA Then ==
  ASSUME NEW s \in Seq(Touches), NEW r \in Seq(Touches), NEW d \in BOOLEAN,
         CanMake(s, d), CanMake(r, EndsDown(s, d))
  PROVE  /\ s \o r \in Seq(Touches) /\ CanMake(s \o r, d)
         /\ EndsDown(s \o r, d) = EndsDown(r, EndsDown(s, d))
<1>1. /\ s \o r \in Seq(Touches) /\ Len(s \o r) = Len(s) + Len(r)
      /\ Len(s) \in Nat /\ Len(r) \in Nat
      /\ \A i \in 1..Len(s) : (s \o r)[i] = s[i]
      /\ \A i \in 1..Len(r) : (s \o r)[Len(s) + i] = r[i]
      /\ DOMAIN s = 1..Len(s) /\ DOMAIN r = 1..Len(r) /\ DOMAIN (s \o r) = 1..Len(s \o r)
      /\ (s = << >> <=> Len(s) = 0) /\ (r = << >> <=> Len(r) = 0)
      /\ (s \o r = << >> <=> Len(s \o r) = 0)
  OBVIOUS
<1>0. Len(s) \in Nat /\ Len(r) \in Nat
  OBVIOUS
<1>2. ASSUME NEW i \in DOMAIN (s \o r)
      PROVE  ((s \o r)[i] = "down") <=> ~(IF i = 1 THEN d ELSE (s \o r)[i - 1] # "up")
  <2>1. CASE i <= Len(s)
    <3>1. i \in 1..Len(s) /\ (i # 1 => i - 1 \in 1..Len(s))
      BY <1>1, <2>1
    <3>2. (s \o r)[i] = s[i] /\ (i # 1 => (s \o r)[i - 1] = s[i - 1])
      BY <1>1, <3>1
    <3>3. (s[i] = "down") <=> ~(IF i = 1 THEN d ELSE s[i - 1] # "up")
      BY <1>1, <3>1 DEF CanMake
    <3> QED BY <3>2, <3>3
  <2>2. CASE i > Len(s)
    <3> DEFINE j == i - Len(s)
    <3>0. i \in 1..(Len(s) + Len(r))
      BY <1>1
    <3>1. j \in 1..Len(r) /\ i = Len(s) + j /\ (s \o r)[i] = r[j]
      <4>1. j \in 1..Len(r) /\ i = Len(s) + j
        BY <1>0, <2>2, <3>0
      <4>2. (s \o r)[Len(s) + j] = r[j]
        BY <1>1, <4>1
      <4> QED BY <4>1, <4>2
    <3> HIDE DEF j
    <3>2. (r[j] = "down") <=> ~(IF j = 1 THEN EndsDown(s, d) ELSE r[j - 1] # "up")
      BY <1>1, <3>1 DEF CanMake
    <3>3. CASE j # 1
      <4>1. j - 1 \in 1..Len(r) /\ i - 1 = Len(s) + (j - 1) /\ i # 1
        BY <1>1, <3>1, <3>3
      <4>2. (s \o r)[i - 1] = r[j - 1]
        BY <1>1, <4>1
      <4> QED BY <3>1, <3>2, <3>3, <4>1, <4>2
    <3>4. CASE j = 1 /\ Len(s) = 0
      <4>1. i = 1 /\ EndsDown(s, d) = d
        BY <1>1, <3>1, <3>4 DEF EndsDown
      <4> QED BY <3>1, <3>2, <3>4, <4>1
    <3>5. CASE j = 1 /\ Len(s) # 0
      <4>1. i # 1 /\ i - 1 = Len(s) /\ Len(s) \in 1..Len(s)
        BY <1>0, <3>1, <3>5
      <4>2. (s \o r)[i - 1] = s[Len(s)] /\ EndsDown(s, d) = (s[Len(s)] # "up")
        BY <1>1, <3>5, <4>1 DEF EndsDown
      <4> QED BY <3>1, <3>2, <3>5, <4>1, <4>2
    <3> QED BY <3>3, <3>4, <3>5
  <2> QED BY <1>1, <2>1, <2>2
<1>3. EndsDown(s \o r, d) = EndsDown(r, EndsDown(s, d))
  <2>1. CASE Len(r) = 0
    <3>1. s \o r = s
      BY <1>1, <2>1
    <3> QED BY <1>1, <2>1, <3>1 DEF EndsDown
  <2>2. CASE Len(r) # 0
    <3>1. Len(r) \in 1..Len(r) /\ (s \o r)[Len(s \o r)] = r[Len(r)] /\ s \o r # << >> /\ r # << >>
      BY <1>1, <2>2
    <3> QED BY <3>1 DEF EndsDown
  <2> QED BY <2>1, <2>2
<1> QED BY <1>1, <1>2, <1>3 DEF CanMake

(* The gestures the others are put together from.                          *)
LEMMA Gestures ==
  /\ \A d \in BOOLEAN : << >> \in Seq(Touches) /\ CanMake(<< >>, d) /\ EndsDown(<< >>, d) = d
  /\ <<"down">> \in Seq(Touches) /\ CanMake(<<"down">>, FALSE) /\ EndsDown(<<"down">>, FALSE)
  /\ <<"move">> \in Seq(Touches) /\ CanMake(<<"move">>, TRUE) /\ EndsDown(<<"move">>, TRUE)
  /\ <<"up">> \in Seq(Touches) /\ CanMake(<<"up">>, TRUE) /\ ~EndsDown(<<"up">>, TRUE)
<1>1. ASSUME NEW a \in Touches
      PROVE  /\ <<a>> \in Seq(Touches) /\ DOMAIN <<a>> = {1} /\ <<a>>[1] = a /\ Len(<<a>>) = 1
             /\ <<a>> # << >>
  OBVIOUS
<1>2. ASSUME NEW a \in Touches, NEW d \in BOOLEAN, (a = "down") <=> ~d
      PROVE  CanMake(<<a>>, d) /\ EndsDown(<<a>>, d) = (a # "up") /\ <<a>> \in Seq(Touches)
  BY <1>1, <1>2 DEF CanMake, EndsDown
<1>3. \A d \in BOOLEAN : << >> \in Seq(Touches) /\ CanMake(<< >>, d) /\ EndsDown(<< >>, d) = d
  BY DEF CanMake, EndsDown
<1>4. "down" \in Touches /\ "move" \in Touches /\ "up" \in Touches
  BY DEF Touches
<1> QED BY <1>2, <1>3, <1>4

LEMMA LongGestures ==
  /\ <<"up", "down">> \in Seq(Touches) /\ CanMake(<<"up", "down">>, TRUE)
  /\ EndsDown(<<"up", "down">>, TRUE)
  /\ <<"down", "move", "up">> \in Seq(Touches) /\ CanMake(<<"down", "move", "up">>, FALSE)
  /\ ~EndsDown(<<"down", "move", "up">>, FALSE)
<1> DEFINE wrap == <<"up", "down">>  swipe == <<"down", "move", "up">>
<1>1. /\ wrap \in Seq(Touches) /\ wrap # << >> /\ Len(wrap) = 2 /\ DOMAIN wrap = {1, 2}
      /\ wrap[1] = "up" /\ wrap[2] = "down"
  BY DEF Touches
<1>2. /\ swipe \in Seq(Touches) /\ swipe # << >> /\ Len(swipe) = 3 /\ DOMAIN swipe = {1, 2, 3}
      /\ swipe[1] = "down" /\ swipe[2] = "move" /\ swipe[3] = "up"
  BY DEF Touches
<1> HIDE DEF wrap, swipe
<1>3. CanMake(wrap, TRUE) /\ EndsDown(wrap, TRUE)
  BY <1>1 DEF CanMake, EndsDown
<1>4. CanMake(swipe, FALSE) /\ ~EndsDown(swipe, FALSE)
  BY <1>2 DEF CanMake, EndsDown
<1> QED BY <1>1, <1>2, <1>3, <1>4 DEF wrap, swipe

(* Each finger makes touches that are possible where it is, and the code's *)
(* flag says where it is after them.                                       *)
Makes(s, d, e) == s \in Seq(Touches) /\ CanMake(s, d) /\ EndsDown(s, d) = e

LEMMA Short ==
  /\ \A d \in BOOLEAN : Makes(<< >>, d, d)
  /\ Makes(<<"down">>, FALSE, TRUE) /\ Makes(<<"move">>, TRUE, TRUE) /\ Makes(<<"up">>, TRUE, FALSE)
  /\ Makes(<<"up", "down">>, TRUE, TRUE) /\ Makes(<<"down", "move", "up">>, FALSE, FALSE)
<1>1. \A s : \A d \in BOOLEAN : EndsDown(s, d) \in BOOLEAN
  BY DEF EndsDown
<1> QED BY <1>1, Gestures, LongGestures DEF Makes

LEMMA InTurn ==
  ASSUME NEW s, NEW r, NEW d \in BOOLEAN, NEW e \in BOOLEAN, NEW g \in BOOLEAN,
         Makes(s, d, e), Makes(r, e, g)
  PROVE  Makes(s \o r, d, g)
BY Then DEF Makes

LEMMA SpotMakes ==
  ASSUME NEW f, NEW p, NEW q
  PROVE  Makes(SpotTouches(f, p, q), f \in active,
               q \cap Mask[f] = {} /\ (f \in active \/ p \cap Mask[f] # {}))
<1> DEFINE goesDown == p \cap Mask[f] # {} /\ f \notin active
           first == IF goesDown THEN <<"down">> ELSE << >>
           goesUp == q \cap Mask[f] # {} /\ (f \in active \/ goesDown)
           last == IF goesUp THEN <<"up">> ELSE << >>
           d == f \in active  e == f \in active \/ goesDown  g == e /\ ~goesUp
<1>1. SpotTouches(f, p, q) = first \o last
  BY DEF SpotTouches
<1>2. Makes(first, d, e)
  <2>1. CASE goesDown
    <3>1. d = FALSE /\ e = TRUE /\ first = <<"down">>
      BY <2>1
    <3> QED BY <3>1, Short
  <2>2. CASE ~goesDown
    <3>1. e = d /\ d \in BOOLEAN /\ first = << >>
      BY <2>2
    <3> QED BY <3>1, Short
  <2> QED BY <2>1, <2>2
<1>3. Makes(last, e, g)
  <2>1. CASE goesUp
    <3>1. e = TRUE /\ g = FALSE /\ last = <<"up">>
      BY <2>1
    <3> QED BY <3>1, Short
  <2>2. CASE ~goesUp
    <3>1. e = g /\ e \in BOOLEAN /\ last = << >>
      BY <2>2
    <3> QED BY <3>1, Short
  <2> QED BY <2>1, <2>2
<1>4. g = (q \cap Mask[f] = {} /\ (f \in active \/ p \cap Mask[f] # {}))
  OBVIOUS
<1>5. d \in BOOLEAN /\ e \in BOOLEAN /\ g \in BOOLEAN
  OBVIOUS
<1> HIDE DEF first, last, d, e, g
<1>6. Makes(first \o last, d, g)
  BY <1>2, <1>3, <1>5, InTurn
<1> QED BY <1>1, <1>4, <1>6 DEF d

LEMMA LetGoMakes ==
  ASSUME NEW f
  PROVE  Makes(LetGo(f), f \in active, FALSE)
<1>1. CASE f \in active
  <2>1. (f \in active) = TRUE /\ LetGo(f) = <<"up">>
    BY <1>1 DEF LetGo
  <2> QED BY <2>1, Short
<1>2. CASE f \notin active
  <2>1. (f \in active) = FALSE /\ LetGo(f) = << >>
    BY <1>2 DEF LetGo
  <2> QED BY <2>1, Short
<1> QED BY <1>1, <1>2

LEMMA JoyMakes ==
  ASSUME NEW game \in BOOLEAN, NEW tilted \in BOOLEAN
  PROVE  Makes(JoyTouches(game, tilted), "joy" \in active, game /\ tilted)
<1>1. CASE game /\ tilted
  <2>1. (game /\ tilted) = TRUE
    BY <1>1
  <2>2. CASE "joy" \in active
    <3>1. ("joy" \in active) = TRUE /\ JoyTouches(game, tilted) = <<"move">>
      BY <1>1, <2>2 DEF JoyTouches
    <3> QED BY <2>1, <3>1, Short
  <2>3. CASE "joy" \notin active
    <3>1. ("joy" \in active) = FALSE /\ JoyTouches(game, tilted) = <<"down">>
      BY <1>1, <2>3 DEF JoyTouches
    <3> QED BY <2>1, <3>1, Short
  <2> QED BY <2>2, <2>3
<1>2. CASE ~(game /\ tilted)
  <2>1. (game /\ tilted) = FALSE /\ JoyTouches(game, tilted) = LetGo("joy")
    BY <1>2 DEF JoyTouches
  <2> QED BY <2>1, LetGoMakes
<1> QED BY <1>1, <1>2

LEMMA CamMakes ==
  ASSUME NEW game \in BOOLEAN, NEW tilted \in BOOLEAN, NEW moved \in BOOLEAN
  PROVE  Makes(CamTouches(game, tilted, moved), "cam" \in active, game /\ tilted)
<1>1. CASE game /\ tilted
  <2> DEFINE first == IF "cam" \in active THEN << >> ELSE <<"down">>
             drawn == IF moved THEN <<"move">> ELSE << >>
             wrap == IF CamDrag(tilted, moved) > WrapLimit THEN WrapTouches ELSE << >>
  <2>1. (game /\ tilted) = TRUE /\ CamTouches(game, tilted, moved) = (first \o drawn) \o wrap
    BY <1>1 DEF CamTouches
  <2>2. Makes(first, "cam" \in active, TRUE)
    <3>1. CASE "cam" \in active
      <4>1. ("cam" \in active) = TRUE /\ first = << >>
        BY <3>1
      <4> QED BY <4>1, Short
    <3>2. CASE "cam" \notin active
      <4>1. ("cam" \in active) = FALSE /\ first = <<"down">>
        BY <3>2
      <4> QED BY <4>1, Short
    <3> QED BY <3>1, <3>2
  <2>3. Makes(drawn, TRUE, TRUE)
    BY Short
  <2>4. Makes(wrap, TRUE, TRUE)
    BY Short DEF WrapTouches
  <2>5. ("cam" \in active) \in BOOLEAN
    OBVIOUS
  <2> HIDE DEF first, drawn, wrap
  <2>6. Makes(first \o drawn, "cam" \in active, TRUE)
    BY <2>2, <2>3, <2>5, InTurn
  <2>7. Makes((first \o drawn) \o wrap, "cam" \in active, TRUE)
    BY <2>4, <2>5, <2>6, InTurn
  <2> QED BY <2>1, <2>7
<1>2. CASE ~(game /\ tilted)
  <2>1. (game /\ tilted) = FALSE /\ CamTouches(game, tilted, moved) = LetGo("cam")
    BY <1>2 DEF CamTouches
  <2> QED BY <2>1, LetGoMakes
<1> QED BY <1>1, <1>2

LEMMA SwipeMakes ==
  ASSUME NEW p
  PROVE  Makes(SwipeTouches(p), FALSE, FALSE)
BY Short DEF SwipeTouches

LEMMA RealMakes ==
  ASSUME NEW f, NEW now
  PROVE  Makes(RealTouches(f, now), f \in touchOld, f \in now)
<1>1. CASE f \in now /\ f \in touchOld
  <2>1. (f \in now) = TRUE /\ (f \in touchOld) = TRUE /\ RealTouches(f, now) = <<"move">>
    BY <1>1 DEF RealTouches
  <2> QED BY <2>1, Short
<1>2. CASE f \in now /\ f \notin touchOld
  <2>1. (f \in now) = TRUE /\ (f \in touchOld) = FALSE /\ RealTouches(f, now) = <<"down">>
    BY <1>2 DEF RealTouches
  <2> QED BY <2>1, Short
<1>3. CASE f \notin now /\ f \in touchOld
  <2>1. (f \in now) = FALSE /\ (f \in touchOld) = TRUE /\ RealTouches(f, now) = <<"up">>
    BY <1>3 DEF RealTouches
  <2> QED BY <2>1, Short
<1>4. CASE f \notin now /\ f \notin touchOld
  <2>1. (f \in now) = FALSE /\ (f \in touchOld) = FALSE /\ RealTouches(f, now) = << >>
    BY <1>4 DEF RealTouches
  <2> QED BY <2>1, Short
<1> QED BY <1>1, <1>2, <1>3, <1>4
-----------------------------------------------------------------------------
\* The touches of one pad sample; game and tilts as in PadSample.
PadTouches(now, game, left, right, moved) ==
  LET pressed == (now \ old) \ Swallowed(LevelStep(now, now \ old))
      released == old \ now
  IN [f \in Fingers |->
        IF f \in Spots THEN SpotTouches(f, pressed, released)
        ELSE IF f = "wpn" THEN SwipeTouches(pressed)
        ELSE IF f = "joy" THEN JoyTouches(game, left)
        ELSE IF f = "cam" THEN CamTouches(game, right, moved) ELSE << >>]

LEMMA DownIs ==
  ASSUME NEW ev, NEW was, NEW f \in Fingers, NEW e \in BOOLEAN, Makes(ev[f], f \in was, e)
  PROVE  f \in DownAfter(ev, was) <=> e
BY DEF Makes, EndsDown, DownAfter

(* What a pad sample does to every finger: possible touches, and a finger  *)
(* is down after them as long as a button or a stick keeps it there.       *)
LEMMA PadFingers ==
  ASSUME IInv, NEW now \in SUBSET Pad, NEW game \in BOOLEAN, NEW left \in BOOLEAN,
         NEW right \in BOOLEAN, NEW moved \in BOOLEAN, NEW f \in Fingers,
         NEW touches, touches = PadTouches(now, game, left, right, moved)
  PROVE  /\ touches[f] \in Seq(Touches) /\ CanMake(touches[f], f \in fingers)
         /\ f \in Synthetic =>
              (f \in DownAfter(touches, fingers) <=> f \in DownAfter(touches, active))
         /\ f \in Spots /\ f \in DownAfter(touches, fingers) => now \cap Mask[f] # {}
         /\ f = "wpn" => f \notin DownAfter(touches, fingers)
         /\ f \in {"joy", "cam"} /\ ~game => f \notin DownAfter(touches, fingers)
         /\ f \in Ids => (f \in DownAfter(touches, fingers) <=> f \in fingers)
<1> DEFINE pressed == (now \ old) \ Swallowed(LevelStep(now, now \ old))
           released == old \ now
<1>1. /\ fingers \cap Synthetic = active /\ "wpn" \notin fingers /\ Ids \cap Synthetic = {}
      /\ \A g \in Spots : g \in fingers => old \cap Mask[g] # {}
  BY InputAssumption DEF IInv, NoStuckFinger
<1>2. Spots = {"fire", "aim", "act", "grab"}
  BY DEF Spots, Mask
<1>3. f \in Spots \/ f \in {"wpn", "joy", "cam"} \/ f \in Ids
  BY DEF Fingers, Synthetic
<1>4. f \in Synthetic => (f \in fingers) = (f \in active)
  BY <1>1
<1>5. CASE f \in Spots
  <2> DEFINE e == released \cap Mask[f] = {} /\ (f \in active \/ pressed \cap Mask[f] # {})
  <2>1. touches[f] = SpotTouches(f, pressed, released) /\ f \in Synthetic
    BY <1>5 DEF PadTouches, Synthetic
  <2>2. Makes(touches[f], f \in active, e)
    <3> HIDE DEF pressed, released
    <3>1. Makes(SpotTouches(f, pressed, released), f \in active, e)
      BY SpotMakes
    <3> QED BY <2>1, <3>1
  <2>3. e => now \cap Mask[f] # {}
    BY <1>1, <1>5
  <2>4. e \in BOOLEAN
    OBVIOUS
  <2> HIDE DEF e
  <2>5. Makes(touches[f], f \in fingers, e)
    BY <1>4, <2>1, <2>2
  <2>6. f \in DownAfter(touches, fingers) <=> e
    BY <2>4, <2>5, DownIs
  <2>7. f \in DownAfter(touches, active) <=> e
    BY <2>2, <2>4, DownIs
  <2>8. f \notin Ids /\ f \notin {"wpn", "joy", "cam"}
    BY <1>1, <1>2, <1>5, <2>1
  <2> QED BY <2>3, <2>5, <2>6, <2>7, <2>8 DEF Makes
<1>6. CASE f = "wpn"
  <2>1. touches[f] = SwipeTouches(pressed) /\ f \in Synthetic /\ f \notin Spots
    BY <1>2, <1>6 DEF PadTouches, Synthetic
  <2>2. (f \in fingers) = FALSE /\ (f \in active) = FALSE
    BY <1>1, <1>6
  <2>3. Makes(touches[f], f \in fingers, FALSE) /\ Makes(touches[f], f \in active, FALSE)
    BY <2>1, <2>2, SwipeMakes
  <2>4. f \notin DownAfter(touches, fingers) /\ f \notin DownAfter(touches, active)
    BY <2>3, DownIs
  <2>5. f \notin Ids
    BY <1>1, <2>1
  <2> QED BY <2>1, <2>3, <2>4, <2>5 DEF Makes
<1>7. CASE f \in {"joy", "cam"}
  <2> DEFINE e == game /\ IF f = "joy" THEN left ELSE right
  <2>1. /\ touches[f] = IF f = "joy" THEN JoyTouches(game, left) ELSE CamTouches(game, right, moved)
        /\ f \in Synthetic /\ f \notin Spots
    BY <1>2, <1>7 DEF PadTouches, Synthetic
  <2>2. Makes(touches[f], f \in active, e)
    <3>1. CASE f = "joy"
      BY <2>1, <3>1, JoyMakes
    <3>2. CASE f = "cam"
      BY <2>1, <3>2, CamMakes
    <3> QED BY <1>7, <3>1, <3>2
  <2>3. e \in BOOLEAN /\ (~game => ~e)
    OBVIOUS
  <2> HIDE DEF e
  <2>4. Makes(touches[f], f \in fingers, e)
    BY <1>4, <2>1, <2>2
  <2>5. (f \in DownAfter(touches, fingers) <=> e) /\ (f \in DownAfter(touches, active) <=> e)
    BY <2>2, <2>3, <2>4, DownIs
  <2>6. f \notin Ids /\ f # "wpn"
    BY <1>1, <1>7, <2>1
  <2> QED BY <2>1, <2>3, <2>4, <2>5, <2>6 DEF Makes
<1>8. CASE f \in Ids
  <2>1. f \notin Synthetic
    BY <1>1, <1>8
  <2>2. f \notin Spots /\ f \notin {"wpn", "joy", "cam"}
    BY <2>1 DEF Synthetic
  <2>3. touches[f] = << >>
    BY <2>2 DEF PadTouches
  <2>4. Makes(touches[f], f \in fingers, f \in fingers)
    <3>1. (f \in fingers) \in BOOLEAN
      OBVIOUS
    <3> QED BY <2>3, <3>1, Short
  <2>5. f \in DownAfter(touches, fingers) <=> f \in fingers
    BY <2>3 DEF DownAfter
  <2>6. touches[f] \in Seq(Touches) /\ CanMake(touches[f], f \in fingers)
    BY <2>4 DEF Makes
  <2> QED BY <2>1, <2>2, <2>5, <2>6
<1> QED BY <1>3, <1>5, <1>6, <1>7, <1>8

LEMMA InitKeeps == Init => IInv
<1> SUFFICES ASSUME Init PROVE IInv
  OBVIOUS
<1>0. events \in [Fingers -> Seq({"down", "move", "up"})]
  BY DEF Init, Fresh
<1>1. TypeOK
  <2>1. 0 \in 0..WrapLimit /\ 0 \in 0..MaxLevel /\ DefaultLevel \in 1..MaxLevel
    BY InputAssumption
  <2>2. camLevel = DefaultLevel
    BY DEF Init, Loaded
  <2> QED BY <1>0, <2>1, <2>2 DEF Init, Fresh, TypeOK
<1>2. NoStuckFinger
  BY DEF Init, Fresh, NoStuckFinger
<1>3. KeysFollow
  BY DEF Init, Fresh, KeysFollow
<1>4. LevelSurvives /\ NothingUnsaved
  BY InputAssumption DEF Init, LevelSurvives, NothingUnsaved, Loaded
<1> QED BY <1>1, <1>2, <1>3, <1>4 DEF IInv

(* An adjustment keeps a legal level, and whatever becomes of the save the *)
(* file holds that level, or what was saved before, or nothing.            *)
CamOK ==
  /\ camLevel \in 1..MaxLevel /\ camFile \in 0..MaxLevel
  /\ chosen \in 1..MaxLevel /\ saved \in 1..MaxLevel /\ unsaved \in BOOLEAN
  /\ LevelSurvives /\ NothingUnsaved

LEMMA AdjustKeeps ==
  ASSUME IInv, NEW d \in {-1, 0, 1}, Adjust(d)
  PROVE  CamOK'
<1>1. CamOK /\ MaxLevel \in Nat \ {0}
  BY InputAssumption DEF IInv, TypeOK, CamOK
<1>2. CASE d = 0
  BY <1>1, <1>2 DEF Adjust, cam, CamOK, LevelSurvives, NothingUnsaved, Loaded
<1>3. CASE d # 0
  <2>1. camLevel' = Clamp(camLevel + d) /\ camLevel' \in 1..MaxLevel /\ chosen' = camLevel'
    BY <1>1, <1>3 DEF Adjust, Clamp, CamOK
  <2>2. CASE camFile' = camLevel' /\ saved' = camLevel' /\ unsaved' = FALSE
    <3>1. camFile' \in 0..MaxLevel /\ Loaded(camFile') = camLevel'
      BY <1>1, <2>1, <2>2 DEF Loaded
    <3>2. LevelSurvives' /\ NothingUnsaved'
      BY <2>1, <2>2, <3>1 DEF LevelSurvives, NothingUnsaved, Loaded
    <3> QED BY <2>1, <2>2, <3>1, <3>2 DEF CamOK
  <2>3. CASE camFile' \in {camFile, 0} /\ saved' = saved /\ unsaved' = TRUE
    <3>1. Loaded(camFile) \in {saved, DefaultLevel}
      BY <1>1 DEF CamOK, LevelSurvives, NothingUnsaved
    <3>2. Loaded(0) = DefaultLevel
      BY DEF Loaded
    <3>3. Loaded(camFile') \in {saved', DefaultLevel}
      BY <2>3, <3>1, <3>2
    <3>4. LevelSurvives' /\ NothingUnsaved'
      BY <2>3, <3>3 DEF LevelSurvives, NothingUnsaved, Loaded
    <3> QED BY <1>1, <2>1, <2>3, <3>4 DEF CamOK
  <2> QED BY <1>3, <2>2, <2>3 DEF Adjust
<1> QED BY <1>2, <1>3

LEMMA PadKeeps ==
  ASSUME IInv, NEW now \in Samples, NEW game \in BOOLEAN, NEW left \in Tilts, NEW right \in Tilts,
         NEW moved \in {FALSE, right}, PadSample(now, game, left, right, moved)
  PROVE  IInv' /\ \A f \in Fingers : CanMake(events'[f], f \in fingers)
<1> DEFINE d == LevelStep(now, now \ old)
           pressed == (now \ old) \ Swallowed(d)
           released == old \ now
           combo == d # 0 \/ (comboUsed /\ "SELECT" \notin now \ old)
           touches == PadTouches(now, game, left, right, moved)
<1>1. /\ now \in SUBSET Pad /\ left \in BOOLEAN /\ right \in BOOLEAN /\ moved \in BOOLEAN
      /\ d \in {-1, 0, 1} /\ TypeOK
  BY InputAssumption DEF Samples, LevelStep, IInv
<1>2. /\ old' = now /\ comboUsed' = combo /\ inGame' = game
      /\ hide' = IF "SELECT" \in released /\ ~combo THEN ~hide ELSE hide
      /\ Adjust(d)
      /\ keys' = (keys \cup (pressed \cap Keys)) \ KeyUps(released, combo)
      /\ events' = touches
      /\ fingers' = DownAfter(touches, fingers)
      /\ active' = DownAfter(touches, active) \cap Synthetic
      /\ drag' = IF ~game \/ CamDrag(right, moved) > WrapLimit THEN 0 ELSE CamDrag(right, moved)
      /\ touchOld' = touchOld
  BY DEF PadSample, PadTouches
<1>3. \A f \in Fingers :
         /\ touches[f] \in Seq(Touches) /\ CanMake(touches[f], f \in fingers)
         /\ f \in Synthetic =>
              (f \in DownAfter(touches, fingers) <=> f \in DownAfter(touches, active))
         /\ f \in Spots /\ f \in DownAfter(touches, fingers) => now \cap Mask[f] # {}
         /\ f = "wpn" => f \notin DownAfter(touches, fingers)
         /\ f \in {"joy", "cam"} /\ ~game => f \notin DownAfter(touches, fingers)
         /\ f \in Ids => (f \in DownAfter(touches, fingers) <=> f \in fingers)
  BY <1>1, PadFingers
<1>4. Synthetic \subseteq Fingers /\ Ids \subseteq Fingers /\ Spots \subseteq Synthetic
      /\ {"wpn", "joy", "cam"} \subseteq Synthetic
  BY DEF Fingers, Synthetic
<1>5. touches = [f \in Fingers |-> touches[f]]
  BY DEF PadTouches
<1>6. CamOK'
  BY <1>1, <1>2, AdjustKeeps
<1> HIDE DEF touches
<1>7. TypeOK'
  <2>1. old' \subseteq Pad /\ comboUsed' \in BOOLEAN /\ hide' \in BOOLEAN /\ inGame' \in BOOLEAN
    BY <1>1, <1>2 DEF TypeOK
  <2>2. active' \subseteq Synthetic /\ fingers' \subseteq Fingers
    BY <1>2 DEF DownAfter
  <2>3. drag' \in 0..WrapLimit
    <3>1. drag \in 0..WrapLimit /\ WrapLimit \in Nat
      BY <1>1, InputAssumption DEF TypeOK
    <3>2. CamDrag(right, moved) \in Nat
      BY <3>1 DEF CamDrag
    <3> QED BY <1>2, <3>1, <3>2
  <2>4. touchOld' \subseteq Ids /\ keys' \subseteq Keys
    BY <1>1, <1>2 DEF TypeOK
  <2>5. events' \in [Fingers -> Seq({"down", "move", "up"})]
    BY <1>2, <1>3, <1>5 DEF Touches
  <2> QED BY <1>6, <2>1, <2>2, <2>3, <2>4, <2>5 DEF TypeOK, CamOK
<1>8. NoStuckFinger'
  <2>1. fingers' \cap Synthetic = active'
    BY <1>2, <1>3, <1>4
  <2>2. "wpn" \notin fingers' /\ (~inGame' => {"joy", "cam"} \cap fingers' = {})
    BY <1>2, <1>3, <1>4
  <2>3. \A f \in Spots : f \in fingers' => old' \cap Mask[f] # {}
    BY <1>2, <1>3, <1>4
  <2>4. fingers' \cap Ids = touchOld'
    BY <1>2, <1>3, <1>4 DEF IInv, NoStuckFinger
  <2> QED BY <2>1, <2>2, <2>3, <2>4 DEF NoStuckFinger
<1>9. KeysFollow'
  <2> SUFFICES ASSUME NEW k \in Keys \ {"UP", "DOWN"} PROVE k \in keys' <=> k \in now
    BY <1>2 DEF KeysFollow
  <2>1. k \in keys <=> k \in old
    BY DEF IInv, KeysFollow
  <2>2. k \in pressed <=> k \in now /\ k \notin old
    BY DEF Swallowed
  <2>3. k \in KeyUps(released, combo) <=> k \in old /\ k \notin now
    BY DEF KeyUps
  <2> HIDE DEF pressed, released, combo
  <2> QED BY <1>2, <2>1, <2>2, <2>3
<1> QED BY <1>2, <1>3, <1>6, <1>7, <1>8, <1>9 DEF IInv, CamOK

LEMMA TouchKeeps ==
  ASSUME IInv, NEW now \in SUBSET Ids, TouchSample(now)
  PROVE  IInv' /\ \A f \in Fingers : CanMake(events'[f], f \in fingers)
<1> DEFINE touches == [f \in Fingers |-> IF f \in Ids THEN RealTouches(f, now) ELSE << >>]
<1>1. /\ events' = touches /\ fingers' = DownAfter(touches, fingers) /\ touchOld' = now
      /\ UNCHANGED <<old, comboUsed, hide, active, drag, inGame, keys>>
      /\ UNCHANGED <<camLevel, camFile, chosen, saved, unsaved>>
      /\ TypeOK /\ NoStuckFinger /\ KeysFollow /\ LevelSurvives /\ NothingUnsaved
  BY DEF TouchSample, pads, cam, IInv
<1>2. Ids \cap Synthetic = {} /\ Fingers = Synthetic \cup Ids
  BY InputAssumption DEF Fingers
<1>3. ASSUME NEW f \in Fingers
      PROVE  /\ touches[f] \in Seq(Touches) /\ CanMake(touches[f], f \in fingers)
             /\ f \in Synthetic => (f \in DownAfter(touches, fingers) <=> f \in fingers)
             /\ f \in Ids => (f \in DownAfter(touches, fingers) <=> f \in now)
  <2>1. CASE f \in Ids
    <3>1. (f \in touchOld) = (f \in fingers) /\ touches[f] = RealTouches(f, now)
      BY <1>1, <2>1 DEF NoStuckFinger
    <3>2. Makes(touches[f], f \in fingers, f \in now)
      BY <3>1, RealMakes
    <3>3. f \in DownAfter(touches, fingers) <=> f \in now
      <4>1. (f \in now) \in BOOLEAN
        OBVIOUS
      <4> HIDE DEF touches
      <4> QED BY <3>2, <4>1, DownIs
    <3> QED BY <1>2, <2>1, <3>2, <3>3 DEF Makes
  <2>2. CASE f \notin Ids
    <3>1. touches[f] = << >>
      BY <2>2
    <3>2. f \in DownAfter(touches, fingers) <=> f \in fingers
      BY <3>1 DEF DownAfter
    <3>3. (f \in fingers) \in BOOLEAN
      OBVIOUS
    <3> QED BY <2>2, <3>1, <3>2, <3>3, Gestures
  <2> QED BY <2>1, <2>2
<1>4. TypeOK'
  <2>1. fingers' \subseteq Fingers
    BY <1>1 DEF DownAfter
  <2>2. events' \in [Fingers -> Seq({"down", "move", "up"})]
    BY <1>1, <1>3 DEF Touches
  <2> QED BY <1>1, <2>1, <2>2 DEF TypeOK
<1> HIDE DEF touches
<1>5. NoStuckFinger'
  <2>1. fingers' \cap Synthetic = fingers \cap Synthetic /\ fingers' \cap Ids = now
    BY <1>1, <1>2, <1>3
  <2>2. Spots \subseteq Synthetic /\ {"wpn", "joy", "cam"} \subseteq Synthetic
    BY DEF Synthetic
  <2> QED BY <1>1, <2>1, <2>2 DEF NoStuckFinger
<1>6. KeysFollow' /\ LevelSurvives' /\ NothingUnsaved'
  BY <1>1 DEF KeysFollow, LevelSurvives, NothingUnsaved, Loaded
<1> QED BY <1>1, <1>3, <1>4, <1>5, <1>6 DEF IInv

LEMMA RestartKeeps ==
  ASSUME IInv, Restart
  PROVE  IInv' /\ \A f \in Fingers : CanMake(events'[f], f \in fingers)
<1>1. /\ old' = {} /\ comboUsed' = FALSE /\ hide' = TRUE /\ active' = {} /\ drag' = 0
      /\ inGame' = FALSE /\ touchOld' = {} /\ keys' = {} /\ fingers' = {}
      /\ events' = [f \in Fingers |-> << >>]
      /\ camLevel' = Loaded(camFile)
      /\ UNCHANGED <<camFile, chosen, saved, unsaved>>
  BY DEF Restart
<1>2. CamOK'
  <2>1. CamOK
    BY DEF IInv, TypeOK, CamOK
  <2>2. camLevel' \in 1..MaxLevel /\ (~unsaved => camLevel' = chosen)
    BY <1>1, <2>1, InputAssumption DEF Loaded, CamOK, LevelSurvives
  <2>3. LevelSurvives' /\ NothingUnsaved'
    BY <1>1, <2>1, <2>2 DEF CamOK, LevelSurvives, NothingUnsaved, Loaded
  <2> QED BY <1>1, <2>1, <2>2, <2>3 DEF CamOK
<1>3. TypeOK'
  <2>1. events' \in [Fingers -> Seq({"down", "move", "up"})]
    BY <1>1
  <2>2. 0 \in 0..WrapLimit
    BY InputAssumption
  <2> QED BY <1>1, <1>2, <2>1, <2>2 DEF TypeOK, CamOK
<1>4. NoStuckFinger' /\ KeysFollow'
  BY <1>1 DEF NoStuckFinger, KeysFollow
<1>5. \A f \in Fingers : (f \in fingers) \in BOOLEAN
  OBVIOUS
<1> QED BY <1>1, <1>2, <1>3, <1>4, <1>5, Gestures DEF IInv, CamOK
-----------------------------------------------------------------------------
LEMMA NextKeeps ==
  ASSUME IInv, Next
  PROVE  IInv' /\ \A f \in Fingers : CanMake(events'[f], f \in fingers)
BY PadKeeps, TouchKeeps, RestartKeeps DEF Next

(* The invariant of the main loop's flags, the engine's view and the file. *)
THEOREM Invariant == Spec => []IInv
<1>1. IInv /\ UNCHANGED vars => IInv'
  BY DEF IInv, vars, pads, cam, TypeOK, NoStuckFinger, KeysFollow, LevelSurvives,
         NothingUnsaved, Loaded
<1>2. IInv /\ [Next]_vars => IInv'
  BY <1>1, NextKeeps
<1> QED BY <1>2, InitKeeps, PTL DEF Spec

(* Whatever buttons, levels and limits: the level stays legal and the drag *)
(* of the camera finger stays below F_CAM_WRAP_LIMIT.                      *)
THEOREM TypeCorrect == Spec => []TypeOK
<1>1. IInv => TypeOK
  BY DEF IInv
<1> QED BY <1>1, Invariant, PTL

(* For every set of buttons and every number of real fingers, the flags of *)
(* main.c agree with what the engine believes, and no finger hangs.        *)
THEOREM FingersFollow == Spec => []NoStuckFinger
<1>1. IInv => NoStuckFinger
  BY DEF IInv
<1> QED BY <1>1, Invariant, PTL

(* Pause and the horizontal menu keys are down exactly while they are held.*)
THEOREM MenuKeys == Spec => []KeysFollow
<1>1. IInv => KeysFollow
  BY DEF IInv
<1> QED BY <1>1, Invariant, PTL

(* The level the player set last survives restarts once it is saved; after *)
(* a save that was not, the next start finds the level saved before or the *)
(* default, and no other.                                                  *)
THEOREM LevelKept == Spec => []LevelSurvives
<1>1. IInv => LevelSurvives
  BY DEF IInv
<1> QED BY <1>1, Invariant, PTL

(* Every touch the main loop sends is one a panel could have sent.         *)
THEOREM TouchesPossible == Spec => TouchProtocol
<1> DEFINE Possible ==
      \A f \in Fingers : \A i \in DOMAIN events'[f] :
        LET down == IF i = 1 THEN f \in fingers ELSE events'[f][i - 1] # "up"
        IN (events'[f][i] = "down") <=> ~down
<1>1. IInv /\ [Next]_vars => [Possible]_vars
  BY NextKeeps DEF CanMake
<1> QED BY <1>1, Invariant, PTL DEF Spec, TouchProtocol
=============================================================================
