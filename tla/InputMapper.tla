---------------------------- MODULE InputMapper ----------------------------
(***************************************************************************)
(* source/main.c: one turn of the main loop reads the pad and the front    *)
(* touch panel and turns them into key events and into touches of the      *)
(* fingers the engine knows: the real ones, and one synthetic finger per   *)
(* button spot, stick and swipe.  The engine only sees events: keys and    *)
(* fingers are what it must believe to be down after them.                 *)
(*                                                                         *)
(* The two halves of the turn are two actions, since either sample may     *)
(* fail.  Positions are left out, but for the drag of the camera finger.   *)
(***************************************************************************)
EXTENDS Integers, Sequences, FiniteSets

CONSTANTS Pad,           \* the buttons the player uses
          Tilts,         \* whether a stick may be tilted: a subset of BOOLEAN
          Ids,           \* the ids of real touches; never those of synthetic fingers
          MaxLevel,      \* CAM_LEVEL_MAX
          DefaultLevel,  \* CAM_LEVEL_DEFAULT
          WrapLimit      \* F_CAM_WRAP_LIMIT, in moves of the camera finger

AllButtons == {"START", "SELECT", "UP", "DOWN", "LEFT", "RIGHT", "CROSS", "CIRCLE",
               "SQUARE", "R", "R1", "L", "L1"}
Keys == {"START", "UP", "DOWN", "LEFT", "RIGHT"}   \* nativeOnKeyDown and -Up
\* The physical buttons that share a touch spot.
Mask == [fire |-> {"R", "R1"}, aim |-> {"L", "L1"}, act |-> {"CROSS"}, grab |-> {"CIRCLE"}]
Spots == DOMAIN Mask
Synthetic == Spots \cup {"wpn", "joy", "cam"}
Fingers == Synthetic \cup Ids

ASSUME InputAssumption ==
  /\ Pad \subseteq AllButtons /\ Tilts \subseteq BOOLEAN /\ Ids \cap Synthetic = {}
  /\ MaxLevel \in Nat \ {0} /\ DefaultLevel \in 1..MaxLevel /\ WrapLimit \in Nat

VARIABLES
  old,             \* current_buttons of the last sample
  comboUsed,       \* select_combo_used
  hide,            \* g_hide_virtual_buttons
  active,          \* the synthetic fingers whose flag (fire_on, ..., cam_active) is set
  drag,            \* how far the camera finger has been dragged
  camLevel,        \* cam_level
  camFile,         \* camera_sens.txt: a level, or 0 for none or empty
  touchOld,        \* the ids in touch_old
  inGame,          \* *s_isGUIVisible_ptr at the last pad sample
  keys, fingers,   \* what the engine has seen go down and not up
  events,          \* per finger, the touches of the last step
  chosen, saved,   \* history: the level the player set last; the last one that was saved
  unsaved          \* history: the last cam_save did not go through

pads == <<old, comboUsed, hide, active, drag, inGame, keys>>
cam  == <<camLevel, camFile, chosen, saved, unsaved>>
vars == <<pads, cam, touchOld, fingers, events>>

\* Slips the checks below must notice; nothing uses them.
MutUnclamped(v) == v
MutUnchecked(level) == level
MutUpOnlyOfPressed(released, combo) == {}
MutSpotTouches(f, pressed, released) ==
  (IF pressed \cap Mask[f] # {} THEN <<"down">> ELSE << >>)
  \o IF released \cap Mask[f] # {} THEN <<"up">> ELSE << >>
MutJoyTouches(game, tilted) ==
  IF ~game THEN << >> ELSE IF ~tilted THEN IF "joy" \in active THEN <<"up">> ELSE << >>
  ELSE IF "joy" \in active THEN <<"move">> ELSE <<"down">>
MutWrapTouches == <<"down", "up">>

Clamp(v) == IF v < 1 THEN 1 ELSE IF v > MaxLevel THEN MaxLevel ELSE v
\* The keys whose release the engine is told: a used combo hides those of the D-pad.
KeyUps(released, combo) == (IF combo THEN released \ {"UP", "DOWN"} ELSE released) \cap Keys
\* synth_button.
SpotTouches(f, pressed, released) ==
  LET goesDown == pressed \cap Mask[f] # {} /\ f \notin active
  IN (IF goesDown THEN <<"down">> ELSE << >>)
     \o IF released \cap Mask[f] # {} /\ (f \in active \/ goesDown) THEN <<"up">> ELSE << >>
\* The swipe over the weapon icon.
SwipeTouches(pressed) == IF "SQUARE" \in pressed THEN <<"down", "move", "up">> ELSE << >>
LetGo(f) == IF f \in active THEN <<"up">> ELSE << >>
\* The left stick.
JoyTouches(game, tilted) ==
  IF game /\ tilted THEN IF "joy" \in active THEN <<"move">> ELSE <<"down">>
  ELSE LetGo("joy")
WrapTouches == <<"up", "down">>
CamDrag(tilted, moved) ==
  LET from == IF "cam" \in active THEN drag ELSE 0
  IN IF ~tilted THEN 0 ELSE IF moved THEN from + 1 ELSE from
\* syn_look; a gentle tilt may not move the finger by a whole pixel.
CamTouches(game, tilted, moved) ==
  IF ~(game /\ tilted) THEN LetGo("cam")
  ELSE (IF "cam" \in active THEN << >> ELSE <<"down">>)
       \o (IF moved THEN <<"move">> ELSE << >>)
       \o IF CamDrag(tilted, moved) > WrapLimit THEN WrapTouches ELSE << >>
\* The tracking of the real fingers.
RealTouches(f, now) == IF f \in now THEN IF f \in touchOld THEN <<"move">> ELSE <<"down">>
                       ELSE IF f \in touchOld THEN <<"up">> ELSE << >>

DownAfter(ev, was) == {f \in Fingers : IF ev[f] = << >> THEN f \in was
                                       ELSE ev[f][Len(ev[f])] # "up"}
Loaded(level) == IF level \in 1..MaxLevel THEN level ELSE DefaultLevel   \* cam_load
-----------------------------------------------------------------------------
Fresh ==
  /\ old = {} /\ comboUsed = FALSE /\ hide = TRUE /\ active = {} /\ drag = 0
  /\ inGame = FALSE /\ touchOld = {} /\ keys = {} /\ fingers = {}
  /\ events = [f \in Fingers |-> << >>]

Init ==
  /\ Fresh
  /\ camFile = 0 /\ camLevel = Loaded(camFile)
  /\ chosen = DefaultLevel /\ saved = DefaultLevel /\ unsaved = FALSE
-----------------------------------------------------------------------------
\* What the pad can report: the D-pad rocks one way or the other.
Samples == {now \in SUBSET Pad : ~({"UP", "DOWN"} \subseteq now) /\ ~({"LEFT", "RIGHT"} \subseteq now)}

\* The step the D-pad asks for while SELECT is down, and the press it swallows.
LevelStep(now, pressed) ==
  IF "SELECT" \notin now THEN 0
  ELSE IF "UP" \in pressed THEN 1 ELSE IF "DOWN" \in pressed THEN -1 ELSE 0
Swallowed(d) == IF d = 1 THEN {"UP"} ELSE IF d = -1 THEN {"DOWN"} ELSE {}

\* cam_adjust and cam_save: the file is truncated and written; or it cannot be opened; or it
\* is left empty, since the write fails or the program ends before it (then a Restart follows).
Adjust(d) ==
  IF d = 0 THEN UNCHANGED cam
  ELSE /\ camLevel' = Clamp(camLevel + d) /\ chosen' = camLevel'
       /\ \/ camFile' = camLevel' /\ saved' = camLevel' /\ unsaved' = FALSE
          \/ camFile' \in {camFile, 0} /\ saved' = saved /\ unsaved' = TRUE

PadSample(now, game, left, right, moved) ==
  LET edge == now \ old
      d == LevelStep(now, edge)
      combo == d # 0 \/ (comboUsed /\ "SELECT" \notin edge)
      pressed == edge \ Swallowed(d)
      released == old \ now
      touches == [f \in Fingers |->
                    IF f \in Spots THEN SpotTouches(f, pressed, released)
                    ELSE IF f = "wpn" THEN SwipeTouches(pressed)
                    ELSE IF f = "joy" THEN JoyTouches(game, left)
                    ELSE IF f = "cam" THEN CamTouches(game, right, moved) ELSE << >>]
  IN /\ old' = now /\ comboUsed' = combo /\ inGame' = game
     /\ hide' = IF "SELECT" \in released /\ ~combo THEN ~hide ELSE hide
     /\ Adjust(d)
     /\ keys' = (keys \cup (pressed \cap Keys)) \ KeyUps(released, combo)
     /\ events' = touches
     /\ fingers' = DownAfter(touches, fingers)
     /\ active' = DownAfter(touches, active) \cap Synthetic
     /\ drag' = IF ~game \/ CamDrag(right, moved) > WrapLimit THEN 0
                ELSE CamDrag(right, moved)
     /\ UNCHANGED touchOld

TouchSample(now) ==
  LET touches == [f \in Fingers |-> IF f \in Ids THEN RealTouches(f, now) ELSE << >>]
  IN /\ events' = touches
     /\ fingers' = DownAfter(touches, fingers)
     /\ touchOld' = now
     /\ UNCHANGED <<pads, cam>>

\* The program ends, at any time, and is started again: only the file is left of it.
Restart ==
  /\ old' = {} /\ comboUsed' = FALSE /\ hide' = TRUE /\ active' = {} /\ drag' = 0
  /\ inGame' = FALSE /\ touchOld' = {} /\ keys' = {} /\ fingers' = {}
  /\ events' = [f \in Fingers |-> << >>]
  /\ camLevel' = Loaded(camFile)
  /\ UNCHANGED <<camFile, chosen, saved, unsaved>>
-----------------------------------------------------------------------------
Next ==
  \/ \E now \in Samples, game \in BOOLEAN, left, right \in Tilts :
       \E moved \in {FALSE, right} : PadSample(now, game, left, right, moved)
  \/ \E now \in SUBSET Ids : TouchSample(now)
  \/ Restart

Spec == Init /\ [][Next]_vars
-----------------------------------------------------------------------------
(* Every variable keeps its type; above all the camera level is legal, and *)
(* the camera finger's drag never runs away.                               *)
TypeOK ==
  /\ old \subseteq Pad /\ comboUsed \in BOOLEAN /\ hide \in BOOLEAN /\ inGame \in BOOLEAN
  /\ active \subseteq Synthetic /\ drag \in 0..WrapLimit
  /\ camLevel \in 1..MaxLevel /\ camFile \in 0..MaxLevel
  /\ chosen \in 1..MaxLevel /\ saved \in 1..MaxLevel /\ unsaved \in BOOLEAN
  /\ touchOld \subseteq Ids /\ keys \subseteq Keys /\ fingers \subseteq Fingers
  /\ events \in [Fingers -> Seq({"down", "move", "up"})]

(* The engine never sees a touch that cannot be: a finger goes down only   *)
(* when it is up, and moves or goes up only when it is down, through       *)
(* swipes, menus, camera wraps and buttons that share a spot.              *)
TouchProtocol ==
  [][\A f \in Fingers : \A i \in DOMAIN events'[f] :
       LET down == IF i = 1 THEN f \in fingers ELSE events'[f][i - 1] # "up"
       IN (events'[f][i] = "down") <=> ~down]_vars

(* No finger is left hanging: the synthetic ones the engine holds are the  *)
(* ones whose flag is set, each with a button of its spot still held and   *)
(* none on a stick outside the game; the real ones are on the panel.       *)
NoStuckFinger ==
  /\ fingers \cap Synthetic = active /\ "wpn" \notin fingers
  /\ \A f \in Spots : f \in fingers => old \cap Mask[f] # {}
  /\ ~inGame => {"joy", "cam"} \cap fingers = {}
  /\ fingers \cap Ids = touchOld

(* Pause and the horizontal menu keys follow the pad: the engine has seen  *)
(* them go down and not up exactly while the player holds them.            *)
KeysFollow == \A k \in Keys \ {"UP", "DOWN"} : k \in keys <=> k \in old

(* The same for the vertical ones, which share the D-pad with the camera   *)
(* sensitivity: a key the engine holds is held by the player.              *)
DpadFollows == keys \subseteq old

(* The camera sensitivity is the one the player set last, over restarts,   *)
(* and the next start will find it in the file.  If the last save did not  *)
(* go through, or the program ended within it, the next start finds the    *)
(* level saved before or, the file being empty, the default: never a level *)
(* that nobody set, nor one outside the range.                             *)
LevelSurvives ==
  /\ ~unsaved => camLevel = chosen /\ Loaded(camFile) = chosen
  /\ unsaved => Loaded(camFile) \in {saved, DefaultLevel}
=============================================================================
