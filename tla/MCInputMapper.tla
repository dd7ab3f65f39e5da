--------------------------- MODULE MCInputMapper ---------------------------
(***************************************************************************)
(* Instances of InputMapper for TLC: a player of menus and the camera      *)
(* setting, and a player in the game with sticks, triggers and fingers.    *)
(***************************************************************************)
EXTENDS InputMapper, TLC

CONSTANTS i1, i2

MenuPad == {"START", "SELECT", "UP", "DOWN", "LEFT"}
GamePad == {"R", "R1", "SQUARE"}
Never == {FALSE}
AnyTilt == BOOLEAN
NoIds == {}
TwoIds == {i1, i2}
IdSymmetry == Permutations(TwoIds)
=============================================================================
