------------------------------ MODULE DataFiles ------------------------------
(***************************************************************************)
(* The game's data on the memory card, in either of the two layouts the    *)
(* port accepts: files right under DATA_PATH ("flat") or in the folder     *)
(* GloftSGHP of the Android dump ("nested").  Three parts of the port must *)
(* agree on them: the checks at boot (source/utils/init.c), the shader     *)
(* patches every boot writes over the dump's files (init.c and utils.c),   *)
(* and translate_path (source/reimpl/io.c), through which the engine opens *)
(* everything later.                                                       *)
(*                                                                         *)
(* Between two runs of the program the user copies and deletes files; a    *)
(* run may end at any point.  A file is a stem and a version: 6 or 7 for   *)
(* _1_6 and _1_7, 0 for a name with neither.  Of a file's contents only    *)
(* their origin is kept.                                                   *)
(***************************************************************************)
EXTENDS Integers, Sequences

CONSTANTS Patches,   \* SHADER_PATCH_FILES, in order
          Chunks     \* the stems the boot check wants in some version: sprites, gui

Shaders == {Patches[i] : i \in DOMAIN Patches}

ASSUME NameAssumption ==
  /\ Patches \in Seq(STRING) /\ Chunks \subseteq STRING
  /\ Chunks \cap Shaders = {} /\ {"so", "res"} \cap (Chunks \cup Shaders) = {}

Layouts == {"flat", "nested"}
Files == ({"so", "res"} \cup Shaders) \X {0} \cup Chunks \X {6, 7}
Path(l, f) == <<l, f[1], f[2]>>
Paths == {Path(l, f) : l \in Layouts, f \in Files}

VARIABLES
  disk,     \* per path: nothing, the dump's file, a file cut short, the port's own
  folders,  \* the layouts in which there is a folder "shaders"
  stage,    \* "off", "copy", "write", or "game" once the engine runs
  dir, i,   \* apply_shader_patches: shaders_dir and the index
  failed    \* history: the shaders this boot could not write, noticed or not

vars == <<disk, folders, stage, dir, i, failed>>

Exists(p) == disk[p] # "none"

\* Slips the checks below must notice; nothing uses them.
MutShadersDir == IF "nested" \in folders THEN "nested" ELSE "flat"
MutFallback(l, s, v) == IF v # 7 THEN << >> ELSE << <<l, s, 6>> >>

\* Where the patches go.
ShadersDir == IF "flat" \notin folders /\ "nested" \in folders THEN "nested" ELSE "flat"

\* The checks of soloader_init_all; when one fails the program shows why and ends.
DataInstalled ==
  /\ Exists(<<"flat", "so", 0>>)
  /\ \A s \in Chunks : \E l \in Layouts, v \in {6, 7} : Exists(<<l, s, v>>)
  /\ \E l \in Layouts : Exists(<<l, "res", 0>>)

\* try_fallback_1_7: what else may stand in for a path.
Fallback(l, s, v) ==
  IF v # 7 THEN << >>
  ELSE IF l = "flat" THEN << <<"flat", s, 6>>, <<"nested", s, 6>> >>
  ELSE << <<"nested", s, 6>> >>

\* translate_path: the paths it looks for, in order, when the engine names a file by a
\* path under DATA_PATH, by its Android path, by "GloftSGHP/..." or by another relative
\* path.  A path that spells out DATA_PATH GloftSGHP/ is one of the nested layout alone.
\* Left out: the engine's own saves, which belong to neither layout, and the two files
\* of /proc, which come with the program.
Names == {"device", "sdcard", "gloft", "relative"}
Forms == Names \cup {"nested"}
Tried(form, s, v) ==
  LET flat == << <<"flat", s, v>> >>
      nested == << <<"nested", s, v>> >>
  IN  CASE form = "device"   -> flat \o Fallback("flat", s, v) \o nested
        [] form = "nested"   -> nested \o Fallback("nested", s, v)
        [] form = "sdcard"   -> flat \o nested \o Fallback("flat", s, v)
        [] form = "gloft"    -> flat \o nested \o Fallback("nested", s, v)
        [] form = "relative" -> flat \o nested \o Fallback("flat", s, v)
                                               \o Fallback("nested", s, v)
\* What the engine opens is the first of them that exists.
Hits(form, s, v) == {k \in DOMAIN Tried(form, s, v) : Exists(Tried(form, s, v)[k])}
Opened(form, s, v) ==
  Tried(form, s, v)[CHOOSE k \in Hits(form, s, v) : \A j \in Hits(form, s, v) : k <= j]
-----------------------------------------------------------------------------
Init ==
  /\ disk = [p \in Paths |-> "none"] /\ folders = {}
  /\ stage = "off" /\ dir = "flat" /\ i = 1 /\ failed = {}
-----------------------------------------------------------------------------
\* The user, with a file manager: the program does not run meanwhile.
CopyFile(l, f) ==
  /\ stage = "off"
  /\ disk' = [disk EXCEPT ![Path(l, f)] = "stock"]
  /\ folders' = IF f[1] \in Shaders THEN folders \cup {l} ELSE folders
  /\ UNCHANGED <<stage, dir, i, failed>>

DeleteFile(l, f) ==
  /\ stage = "off" /\ Exists(Path(l, f))
  /\ disk' = [disk EXCEPT ![Path(l, f)] = "none"]
  /\ UNCHANGED <<folders, stage, dir, i, failed>>

MakeFolder(l) ==
  /\ stage = "off" /\ l \notin folders
  /\ folders' = folders \cup {l}
  /\ UNCHANGED <<disk, stage, dir, i, failed>>

DeleteFolder(l) ==
  /\ stage = "off" /\ l \in folders
  /\ folders' = folders \ {l}
  /\ disk' = [p \in Paths |-> IF p[1] = l /\ p[2] \in Shaders THEN "none" ELSE disk[p]]
  /\ UNCHANGED <<stage, dir, i, failed>>
-----------------------------------------------------------------------------
Boot ==
  /\ stage = "off" /\ DataInstalled
  /\ stage' = "copy" /\ dir' = ShadersDir /\ i' = 1 /\ failed' = {}
  /\ UNCHANGED <<disk, folders>>

Copying == stage = "copy" /\ i \in DOMAIN Patches

\* file_copy gives up before anything is written: no memory, no folder, no open file.
CopyFails ==
  /\ Copying
  /\ failed' = failed \cup {Patches[i]} /\ i' = i + 1
  /\ folders' \in {folders, folders \cup {dir}}
  /\ UNCHANGED <<disk, stage, dir>>

\* file_mkpath makes the folder and fopen empties the file.
Truncate ==
  /\ Copying
  /\ folders' = folders \cup {dir}
  /\ disk' = [disk EXCEPT ![<<dir, Patches[i], 0>>] = "torn"]
  /\ stage' = "write"
  /\ UNCHANGED <<dir, i, failed>>

\* fwrite; a short write goes unnoticed and counts as success.
WriteFile ==
  /\ stage = "write"
  /\ \/ /\ disk' = [disk EXCEPT ![<<dir, Patches[i], 0>>] = "port"]
        /\ UNCHANGED failed
     \/ /\ failed' = failed \cup {Patches[i]}
        /\ UNCHANGED disk
  /\ stage' = "copy" /\ i' = i + 1
  /\ UNCHANGED <<folders, dir>>

Play ==
  /\ stage = "copy" /\ i \notin DOMAIN Patches
  /\ stage' = "game"
  /\ UNCHANGED <<disk, folders, dir, i, failed>>

\* The program ends or crashes, or the console loses power.
Stop ==
  /\ stage # "off"
  /\ stage' = "off" /\ dir' = "flat" /\ i' = 1 /\ failed' = {}
  /\ UNCHANGED <<disk, folders>>
-----------------------------------------------------------------------------
UserNext ==
  \/ \E l \in Layouts, f \in Files : CopyFile(l, f) \/ DeleteFile(l, f)
  \/ \E l \in Layouts : MakeFolder(l) \/ DeleteFolder(l)
PortNext == Boot \/ CopyFails \/ Truncate \/ WriteFile \/ Play \/ Stop

Next == UserNext \/ PortNext

Spec == Init /\ [][Next]_vars
-----------------------------------------------------------------------------
(* Bug #28: while the engine runs it opens the port's own version of each  *)
(* patched shader, whichever layouts the user has mixed, whatever an       *)
(* earlier boot left torn, and by whichever name the engine asks, unless   *)
(* this boot failed to write that very file.                               *)
ShadersPatched ==
  stage = "game" =>
    \A s \in Shaders \ failed, form \in Names :
      Hits(form, s, 0) # {} /\ disk[Opened(form, s, 0)] = "port"

(* Bugs #9 and #24: what the check at boot found the engine finds, by every *)
(* name that leaves the layout open: a chunk that is there in either layout *)
(* under the version asked for, and for _1_7, whichever version is there.   *)
(* One case is lost: "GloftSGHP/..._1_7" when there is only the flat _1_6.  *)
(* Nothing is promised for _1_6 when there is only _1_7: the check passes   *)
(* such data, and nothing stands in for a _1_6 file.                        *)
OnlyFlat6(s) ==
  \A l \in Layouts, v \in {6, 7} : Exists(<<l, s, v>>) => l = "flat" /\ v = 6

ChunksFound ==
  stage = "game" =>
    \A s \in Chunks, form \in Names :
      /\ \A l \in Layouts, v \in {6, 7} : Exists(<<l, s, v>>) => Hits(form, s, v) # {}
      /\ Hits(form, s, 7) # {} \/ (form = "gloft" /\ OnlyFlat6(s))

(* What makes ShadersPatched inductive: a shader's file lies in a folder;  *)
(* the patches go where the engine looks first; every shader before the    *)
(* index is the port's, or this boot failed at it; and the data that was   *)
(* checked is still there.                                                 *)
TypeOK ==
  /\ disk \in [Paths -> {"none", "stock", "torn", "port"}] /\ folders \subseteq Layouts
  /\ stage \in {"off", "copy", "write", "game"} /\ dir \in Layouts
  /\ i \in 1..(Len(Patches) + 1) /\ failed \subseteq Shaders
InFolders ==
  \A l \in Layouts, s \in Shaders : Exists(<<l, s, 0>>) => l \in folders
LooksFirst == stage # "off" /\ dir = "nested" => "flat" \notin folders
Written ==
  stage # "off" => \A j \in 1..(i - 1) :
    \/ Patches[j] \in failed
    \/ disk[<<dir, Patches[j], 0>>] = "port"
    \/ stage = "write" /\ Patches[j] = Patches[i]
StageFits ==
  /\ stage = "write" => i \in DOMAIN Patches /\ dir \in folders
  /\ stage = "game" => i \notin DOMAIN Patches
StillInstalled ==
  stage # "off" => \A s \in Chunks : \E l \in Layouts, v \in {6, 7} : Exists(<<l, s, v>>)

IInv == TypeOK /\ InFolders /\ LooksFirst /\ Written /\ StageFits /\ StillInstalled
===============================================================================
