--------------------------- MODULE DataFilesProofs ---------------------------
(***************************************************************************)
(* Theorems about DataFiles, for any list of shaders and any chunks: the   *)
(* engine opens the port's shaders and finds the chunks that are there.       *)
(***************************************************************************)
EXTENDS DataFiles, SequenceTheorems, TLAPS

\* A shader and a version of a chunk have a path in either layout, never the same one.
LEMMA HavePaths ==
  /\ \A l \in Layouts, s \in Shaders : <<l, s, 0>> \in Paths
  /\ \A l \in Layouts, s \in Chunks, v \in {6, 7} : <<l, s, v>> \in Paths
<1>1. ASSUME NEW l \in Layouts, NEW f \in Files PROVE <<l, f[1], f[2]>> \in Paths
  BY DEF Paths, Path
<1>2. ASSUME NEW s \in Shaders PROVE <<s, 0>> \in Files
  BY DEF Files
<1>3. ASSUME NEW s \in Chunks, NEW v \in {6, 7} PROVE <<s, v>> \in Files
  BY DEF Files
<1> QED BY <1>1, <1>2, <1>3

\* The index names a shader as long as there is one left.
LEMMA Indexed ==
  /\ \A j \in DOMAIN Patches : Patches[j] \in Shaders
  /\ DOMAIN Patches = 1..Len(Patches) /\ Len(Patches) \in Nat
BY NameAssumption DEF Shaders

LEMMA InitIInv == Init => IInv
BY HavePaths, Indexed DEF Init, IInv, TypeOK, InFolders, LooksFirst, Written, StageFits,
   StillInstalled, Exists, Layouts

\* The program does not run while the user changes files.
LEMMA UserKeeps ==
  ASSUME IInv, UserNext
  PROVE  IInv'
<1> USE DEF IInv, LooksFirst, Written, StageFits, StillInstalled
<1>1. CASE \E l \in Layouts, f \in Files : CopyFile(l, f)
  <2> PICK l \in Layouts, f \in Files : CopyFile(l, f) BY <1>1
  <2>1. stage' = "off" /\ TypeOK' BY DEF CopyFile, TypeOK
  <2>2. InFolders'
    <3> SUFFICES ASSUME NEW k \in Layouts, NEW s \in Shaders, Exists(<<k, s, 0>>)'
                 PROVE  k \in folders'
      BY DEF InFolders
    <3>1. CASE Path(l, f) = <<k, s, 0>>
      BY <3>1 DEF CopyFile, Path
    <3>2. CASE Path(l, f) # <<k, s, 0>>
      BY <3>2, HavePaths DEF CopyFile, InFolders, Exists, TypeOK
    <3> QED BY <3>1, <3>2
  <2> QED BY <2>1, <2>2
<1>2. CASE \E l \in Layouts, f \in Files : DeleteFile(l, f)
  <2> PICK l \in Layouts, f \in Files : DeleteFile(l, f) BY <1>2
  <2>1. stage' = "off" /\ TypeOK' BY DEF DeleteFile, TypeOK
  <2>2. InFolders' BY HavePaths DEF DeleteFile, InFolders, Exists, TypeOK
  <2> QED BY <2>1, <2>2
<1>3. CASE \E l \in Layouts : MakeFolder(l)
  <2>1. stage' = "off" /\ TypeOK' BY <1>3 DEF MakeFolder, TypeOK
  <2>2. InFolders' BY <1>3 DEF MakeFolder, InFolders, Exists
  <2> QED BY <2>1, <2>2
<1>4. CASE \E l \in Layouts : DeleteFolder(l)
  <2> PICK l \in Layouts : DeleteFolder(l) BY <1>4
  <2>1. stage' = "off" /\ TypeOK' BY DEF DeleteFolder, TypeOK
  <2>2. InFolders' BY HavePaths DEF DeleteFolder, InFolders, Exists, TypeOK
  <2> QED BY <2>1, <2>2
<1> QED BY <1>1, <1>2, <1>3, <1>4 DEF UserNext

\* Starting, giving up on a shader, reaching the game and ending leave every file alone.
LEMMA StageKeeps ==
  ASSUME IInv, Boot \/ CopyFails \/ Play \/ Stop
  PROVE  IInv'
<1> USE Indexed DEF IInv, LooksFirst, Written, StageFits
<1>0. UNCHANGED disk /\ folders \subseteq folders'
  BY DEF Boot, CopyFails, Play, Stop
<1>1. InFolders' BY <1>0 DEF InFolders, Exists
<1>2. CASE Boot
  BY <1>1, <1>2 DEF Boot, TypeOK, ShadersDir, StillInstalled, DataInstalled, Exists, Layouts
<1>3. CASE CopyFails
  <2>1. Patches[i] \in Shaders /\ i' = i + 1 /\ i \in 1..Len(Patches)
    BY <1>3 DEF CopyFails, Copying
  <2>2. TypeOK' BY <1>3, <2>1 DEF CopyFails, Copying, TypeOK
  <2>3. LooksFirst' BY <1>3 DEF CopyFails, Copying, Layouts, TypeOK
  <2>4. Written' BY <1>3, <2>1 DEF CopyFails, Copying, TypeOK
  <2>5. StageFits' /\ StillInstalled' BY <1>3 DEF CopyFails, Copying, StillInstalled, Exists
  <2> QED BY <1>1, <2>2, <2>3, <2>4, <2>5
<1>4. CASE Play
  BY <1>1, <1>4 DEF Play, TypeOK, StillInstalled, Exists
<1>5. CASE Stop
  BY <1>1, <1>5 DEF Stop, TypeOK, StillInstalled, Layouts
<1> QED BY <1>2, <1>3, <1>4, <1>5

\* Writing changes the one file and never a chunk.
LEMMA WriteKeeps ==
  ASSUME IInv, Truncate \/ WriteFile
  PROVE  IInv'
<1> DEFINE p == <<dir, Patches[i], 0>>
<1> USE Indexed DEF IInv, LooksFirst, StageFits
<1>1. /\ i \in 1..Len(Patches) /\ Patches[i] \in Shaders /\ p \in Paths /\ dir \in Layouts
      /\ stage \in {"copy", "write"}
  BY HavePaths DEF Truncate, Copying, WriteFile, TypeOK
<1>2. /\ \A q \in Paths : q # p => disk'[q] = disk[q]
      /\ disk' \in [Paths -> {"none", "stock", "torn", "port"}]
  BY <1>1 DEF Truncate, WriteFile, TypeOK
<1>3. /\ UNCHANGED dir /\ folders' \subseteq folders \cup {dir} /\ folders \subseteq folders'
      /\ stage' # "off" /\ stage' # "game" /\ failed \subseteq failed'
  BY DEF Truncate, WriteFile
<1>4. TypeOK'
  <2>1. CASE Truncate BY <2>1, <1>1, <1>2, <1>3 DEF Truncate, TypeOK
  <2>2. CASE WriteFile BY <2>2, <1>1, <1>2, <1>3 DEF WriteFile, TypeOK
  <2> QED BY <2>1, <2>2
<1>5. InFolders'
  <2> SUFFICES ASSUME NEW l \in Layouts, NEW s \in Shaders, Exists(<<l, s, 0>>)'
               PROVE  l \in folders'
    BY DEF InFolders
  <2>1. CASE <<l, s, 0>> # p
    BY <2>1, <1>2, <1>3, HavePaths DEF InFolders, Exists
  <2>2. CASE <<l, s, 0>> = p
    <3>1. l = dir BY <2>2
    <3>2. CASE Truncate BY <3>1, <3>2 DEF Truncate
    <3>3. CASE WriteFile
      BY <3>1, <3>3 DEF WriteFile
    <3> QED BY <3>2, <3>3
  <2> QED BY <2>1, <2>2
<1>6. LooksFirst' BY <1>1, <1>3 DEF Layouts, TypeOK
<1>7. Written'
  <2> SUFFICES ASSUME NEW j \in 1..(i' - 1), Patches[j] \notin failed'
               PROVE  \/ disk'[<<dir, Patches[j], 0>>] = "port"
                      \/ stage' = "write" /\ Patches[j] = Patches[i']
    BY <1>3 DEF Written
  <2>1. j \in 1..i /\ Patches[j] \in Shaders /\ <<dir, Patches[j], 0>> \in Paths
    BY <1>1, HavePaths DEF Truncate, WriteFile, TypeOK
  <2>2. CASE Patches[j] # Patches[i]
    <3>1. j \in 1..(i - 1) BY <2>1, <2>2, <1>1
    <3>2. disk[<<dir, Patches[j], 0>>] = "port"
      BY <3>1, <2>2, <1>1, <1>3 DEF Written
    <3> QED BY <3>2, <2>1, <2>2, <1>2
  <2>3. CASE Patches[j] = Patches[i] /\ Truncate
    BY <2>3 DEF Truncate
  <2>4. CASE Patches[j] = Patches[i] /\ WriteFile
    BY <2>4, <1>1 DEF WriteFile, TypeOK
  <2> QED BY <2>2, <2>3, <2>4
<1>8. StageFits' BY <1>1, <1>3 DEF Truncate, WriteFile, Copying
<1>9. StillInstalled'
  <2> SUFFICES ASSUME NEW s \in Chunks
               PROVE  \E l \in Layouts, v \in {6, 7} : Exists(<<l, s, v>>)'
    BY DEF StillInstalled
  <2>1. PICK l \in Layouts, v \in {6, 7} : Exists(<<l, s, v>>)
    BY <1>1 DEF StillInstalled
  <2>2. <<l, s, v>> # p OBVIOUS
  <2> QED BY <2>1, <2>2, <1>2, HavePaths DEF Exists
<1> QED BY <1>4, <1>5, <1>6, <1>7, <1>8, <1>9

LEMMA NextIInv == IInv /\ [Next]_vars => IInv'
<1> SUFFICES ASSUME IInv, [Next]_vars PROVE IInv' OBVIOUS
<1>1. CASE UNCHANGED vars
  BY <1>1 DEF vars, IInv, TypeOK, InFolders, LooksFirst, Written, StageFits,
              StillInstalled, Exists
<1>2. CASE Next
  BY <1>2, UserKeeps, StageKeeps, WriteKeeps DEF Next, PortNext
<1> QED BY <1>1, <1>2

\* Shaders lie in folders, the patches go where the engine looks first, and every shader
\* the loop has passed is the port's or failed.
THEOREM Invariant == Spec => []IInv
<1> QED BY InitIInv, NextIInv, PTL DEF Spec
-------------------------------------------------------------------------------
\* What the concatenations of translate_path come to.
LEMMA ConcatIs ==
  ASSUME NEW S
  PROVE  \A s, t, u \in Seq(S) :
           /\ Len(u) = Len(s) + Len(t)
           /\ \A k \in 1..Len(u) : u[k] = IF k <= Len(s) THEN s[k] ELSE t[k - Len(s)]
           => s \o t = u
BY ConcatProperties, SeqEqual

LEMMA Join11 ==
  ASSUME NEW a, NEW b
  PROVE  <<a>> \o <<b>> = <<a, b>>
<1> DEFINE E == {a, b} x == <<a>> y == <<b>> z == <<a, b>>
<1>1. x \in Seq(E) /\ y \in Seq(E) /\ z \in Seq(E) /\ Len(z) = Len(x) + Len(y)
  OBVIOUS
<1>2. \A k \in 1..Len(z) : z[k] = IF k <= Len(x) THEN x[k] ELSE y[k - Len(x)]
  OBVIOUS
<1> HIDE DEF x, y, z, E
<1>3. x \o y = z BY <1>1, <1>2, ConcatIs
<1> QED BY <1>3 DEF x, y, z

LEMMA Join12 ==
  ASSUME NEW a, NEW b, NEW c
  PROVE  <<a>> \o <<b, c>> = <<a, b, c>>
<1> DEFINE E == {a, b, c} x == <<a>> y == <<b, c>> z == <<a, b, c>>
<1>1. x \in Seq(E) /\ y \in Seq(E) /\ z \in Seq(E) /\ Len(z) = Len(x) + Len(y)
  OBVIOUS
<1>2. \A k \in 1..Len(z) : z[k] = IF k <= Len(x) THEN x[k] ELSE y[k - Len(x)]
  OBVIOUS
<1> HIDE DEF x, y, z, E
<1>3. x \o y = z BY <1>1, <1>2, ConcatIs
<1> QED BY <1>3 DEF x, y, z

LEMMA Join21 ==
  ASSUME NEW a, NEW b, NEW c
  PROVE  <<a, b>> \o <<c>> = <<a, b, c>>
<1> DEFINE E == {a, b, c} x == <<a, b>> y == <<c>> z == <<a, b, c>>
<1>1. x \in Seq(E) /\ y \in Seq(E) /\ z \in Seq(E) /\ Len(z) = Len(x) + Len(y)
  OBVIOUS
<1>2. \A k \in 1..Len(z) : z[k] = IF k <= Len(x) THEN x[k] ELSE y[k - Len(x)]
  OBVIOUS
<1> HIDE DEF x, y, z, E
<1>3. x \o y = z BY <1>1, <1>2, ConcatIs
<1> QED BY <1>3 DEF x, y, z

LEMMA Join22 ==
  ASSUME NEW a, NEW b, NEW c, NEW d
  PROVE  <<a, b>> \o <<c, d>> = <<a, b, c, d>>
<1> DEFINE E == {a, b, c, d} x == <<a, b>> y == <<c, d>> z == <<a, b, c, d>>
<1>1. x \in Seq(E) /\ y \in Seq(E) /\ z \in Seq(E) /\ Len(z) = Len(x) + Len(y)
  OBVIOUS
<1>2. \A k \in 1..Len(z) : z[k] = IF k <= Len(x) THEN x[k] ELSE y[k - Len(x)]
  OBVIOUS
<1> HIDE DEF x, y, z, E
<1>3. x \o y = z BY <1>1, <1>2, ConcatIs
<1> QED BY <1>3 DEF x, y, z

LEMMA Join31 ==
  ASSUME NEW a, NEW b, NEW c, NEW d
  PROVE  <<a, b, c>> \o <<d>> = <<a, b, c, d>>
<1> DEFINE E == {a, b, c, d} x == <<a, b, c>> y == <<d>> z == <<a, b, c, d>>
<1>1. x \in Seq(E) /\ y \in Seq(E) /\ z \in Seq(E) /\ Len(z) = Len(x) + Len(y)
  OBVIOUS
<1>2. \A k \in 1..Len(z) : z[k] = IF k <= Len(x) THEN x[k] ELSE y[k - Len(x)]
  OBVIOUS
<1> HIDE DEF x, y, z, E
<1>3. x \o y = z BY <1>1, <1>2, ConcatIs
<1> QED BY <1>3 DEF x, y, z

LEMMA Join41 ==
  ASSUME NEW a, NEW b, NEW c, NEW d, NEW e
  PROVE  <<a, b, c, d>> \o <<e>> = <<a, b, c, d, e>>
<1> DEFINE E == {a, b, c, d, e} x == <<a, b, c, d>> y == <<e>> z == <<a, b, c, d, e>>
<1>1. x \in Seq(E) /\ y \in Seq(E) /\ z \in Seq(E) /\ Len(z) = Len(x) + Len(y)
  OBVIOUS
<1>2. \A k \in 1..Len(z) : z[k] = IF k <= Len(x) THEN x[k] ELSE y[k - Len(x)]
  OBVIOUS
<1> HIDE DEF x, y, z, E
<1>3. x \o y = z BY <1>1, <1>2, ConcatIs
<1> QED BY <1>3 DEF x, y, z

\* The lists for a _1_7 chunk.
LEMMA SevenJoins ==
  ASSUME NEW a, NEW b, NEW c, NEW d
  PROVE  /\ <<a>> \o <<b, c>> \o <<d>> = <<a, b, c, d>>
         /\ <<a>> \o <<d>> \o <<c>> = <<a, d, c>>
         /\ <<a>> \o <<d>> \o <<b, c>> = <<a, d, b, c>>
         /\ <<a>> \o <<d>> \o <<b, c>> \o <<c>> = <<a, d, b, c, c>>
<1>1. <<a>> \o <<b, c>> = <<a, b, c>> BY Join12, Zenon
<1>2. <<a, b, c>> \o <<d>> = <<a, b, c, d>> BY Join31, Zenon
<1>3. <<a>> \o <<d>> = <<a, d>> BY Join11, Zenon
<1>4. <<a, d>> \o <<c>> = <<a, d, c>> BY Join21, Zenon
<1>5. <<a, d>> \o <<b, c>> = <<a, d, b, c>> BY Join22, Zenon
<1>6. <<a, d, b, c>> \o <<c>> = <<a, d, b, c, c>> BY Join41, Zenon
<1> QED BY <1>1, <1>2, <1>3, <1>4, <1>5, <1>6

\* A file without a version has no stand-in: it is looked for flat, then nested.
LEMMA PlainTried ==
  ASSUME NEW form \in Names, NEW s
  PROVE  /\ DOMAIN Tried(form, s, 0) = {1, 2}
         /\ Tried(form, s, 0)[1] = <<"flat", s, 0>>
         /\ Tried(form, s, 0)[2] = <<"nested", s, 0>>
<1> DEFINE a == <<"flat", s, 0>> d == <<"nested", s, 0>>
<1>1. Fallback("flat", s, 0) = << >> /\ Fallback("nested", s, 0) = << >>
  BY DEF Fallback
<1>2. /\ <<a>> \o << >> = <<a>> /\ <<a>> \o <<d>> = <<a, d>>
      /\ <<a, d>> \o << >> = <<a, d>>
  <2>1. <<a>> \o <<d>> = <<a, d>> BY Join11, Zenon
  <2>2. <<a>> \in Seq({a, d}) /\ <<a, d>> \in Seq({a, d}) OBVIOUS
  <2> QED BY <2>1, <2>2, ConcatEmptySeq
<1>4. Tried(form, s, 0) = << <<"flat", s, 0>>, <<"nested", s, 0>> >>
  BY <1>1, <1>2 DEF Tried, Names
<1> QED BY <1>4

\* The engine opens the port's version of every shader this boot could write, however the
\* layouts are mixed and whatever earlier boots left.
THEOREM PortShaders == Spec => []ShadersPatched
<1>1. IInv => ShadersPatched
  <2> SUFFICES ASSUME IInv, stage = "game", NEW s \in Shaders \ failed, NEW form \in Names
               PROVE  Hits(form, s, 0) # {} /\ disk[Opened(form, s, 0)] = "port"
    BY DEF ShadersPatched
  <2> DEFINE hits == Hits(form, s, 0)
  <2>1. PICK j \in DOMAIN Patches : s = Patches[j] BY DEF Shaders
  <2>2. j \in 1..(i - 1)
    BY Indexed DEF IInv, StageFits, TypeOK
  <2>3. disk[<<dir, s, 0>>] = "port" /\ dir \in Layouts
    BY <2>1, <2>2 DEF IInv, Written, TypeOK
  <2>4. CASE dir = "flat"
    <3>1. 1 \in hits /\ hits \subseteq {1, 2}
      BY <2>3, <2>4, PlainTried DEF Hits, Exists
    <3>2. (CHOOSE k \in hits : \A n \in hits : k <= n) = 1
      BY <3>1
    <3> QED BY <3>1, <3>2, <2>3, <2>4, PlainTried DEF Opened
  <2>5. CASE dir = "nested"
    <3>1. ~Exists(<<"flat", s, 0>>)
      BY <2>5 DEF IInv, LooksFirst, InFolders, Layouts
    <3>2. hits = {2}
      BY <3>1, <2>3, <2>5, PlainTried DEF Hits, Exists
    <3>3. (CHOOSE k \in hits : \A n \in hits : k <= n) = 2
      BY <3>2
    <3> QED BY <3>2, <3>3, <2>3, <2>5, PlainTried DEF Opened
  <2> QED BY <2>3, <2>4, <2>5 DEF Layouts
<1> QED BY <1>1, Invariant, PTL
-------------------------------------------------------------------------------
LEMMA SevenTried ==
  ASSUME NEW s
  PROVE  LET a == <<"flat", s, 7>>
             b == <<"flat", s, 6>>
             c == <<"nested", s, 6>>
             d == <<"nested", s, 7>>
         IN  /\ Tried("device", s, 7) = <<a, b, c, d>>
             /\ Tried("sdcard", s, 7) = <<a, d, b, c>>
             /\ Tried("gloft", s, 7) = <<a, d, c>>
             /\ Tried("relative", s, 7) = <<a, d, b, c, c>>
<1> DEFINE a == <<"flat", s, 7>> b == <<"flat", s, 6>>
           c == <<"nested", s, 6>> d == <<"nested", s, 7>>
<1>1. Fallback("flat", s, 7) = <<b, c>> /\ Fallback("nested", s, 7) = <<c>>
  BY DEF Fallback
<1>2. /\ Tried("device", s, 7) = <<a>> \o <<b, c>> \o <<d>>
      /\ Tried("sdcard", s, 7) = <<a>> \o <<d>> \o <<b, c>>
      /\ Tried("gloft", s, 7) = <<a>> \o <<d>> \o <<c>>
      /\ Tried("relative", s, 7) = <<a>> \o <<d>> \o <<b, c>> \o <<c>>
  BY <1>1 DEF Tried
<1> HIDE DEF a, b, c, d
<1>3. /\ Tried("device", s, 7) = <<a, b, c, d>>
      /\ Tried("sdcard", s, 7) = <<a, d, b, c>>
      /\ Tried("gloft", s, 7) = <<a, d, c>>
      /\ Tried("relative", s, 7) = <<a, d, b, c, c>>
  BY <1>2, SevenJoins
<1> QED BY <1>3 DEF a, b, c, d

\* A name that leaves the layout open is looked for in both, in the version asked for.
LEMMA BothTried ==
  ASSUME NEW form \in Names, NEW s, NEW v \in {6, 7}, NEW l \in Layouts
  PROVE  \E k \in DOMAIN Tried(form, s, v) : Tried(form, s, v)[k] = <<l, s, v>>
<1> DEFINE a == <<"flat", s, v>> d == <<"nested", s, v>>
           b == <<"flat", s, 6>> c == <<"nested", s, 6>>
<1>1. CASE v = 6
  <2>1. Fallback("flat", s, v) = << >> /\ Fallback("nested", s, v) = << >>
    BY <1>1 DEF Fallback
  <2>2. /\ <<a>> \o << >> = <<a>> /\ <<a>> \o <<d>> = <<a, d>>
        /\ <<a, d>> \o << >> = <<a, d>>
    <3>1. <<a>> \o <<d>> = <<a, d>> BY Join11, Zenon
    <3>2. <<a>> \in Seq({a, d}) /\ <<a, d>> \in Seq({a, d}) OBVIOUS
    <3> QED BY <3>1, <3>2, ConcatEmptySeq
  <2>3. Tried(form, s, v) = <<a, d>>
    BY <2>1, <2>2 DEF Tried, Names
  <2> QED BY <2>3 DEF Layouts
<1>2. CASE v = 7
  <2>1. Tried(form, s, v) \in
          {<<a, b, c, d>>, <<a, d, b, c>>, <<a, d, c>>, <<a, d, b, c, c>>}
    BY <1>2, SevenTried DEF Names
  <2> QED BY <2>1 DEF Layouts
<1> QED BY <1>1, <1>2

\* For a _1_7 chunk every such name but "GloftSGHP/..." tries both versions in both layouts,
\* and that one all but the flat _1_6.
LEMMA ChunkTried ==
  ASSUME NEW form \in Names, NEW s, NEW l \in Layouts, NEW v \in {6, 7},
         form # "gloft" \/ l # "flat" \/ v # 6
  PROVE  \E k \in DOMAIN Tried(form, s, 7) : Tried(form, s, 7)[k] = <<l, s, v>>
<1> DEFINE a == <<"flat", s, 7>> b == <<"flat", s, 6>>
           c == <<"nested", s, 6>> d == <<"nested", s, 7>>
<1>1. CASE form = "gloft"
  <2>1. Tried(form, s, 7) = <<a, d, c>> BY <1>1, SevenTried
  <2>2. <<l, s, v>> \in {a, c, d} BY <1>1 DEF Layouts
  <2> QED BY <2>1, <2>2
<1>2. CASE form # "gloft"
  <2>1. Tried(form, s, 7) \in {<<a, b, c, d>>, <<a, d, b, c>>, <<a, d, b, c, c>>}
    BY <1>2, SevenTried DEF Names
  <2>2. <<l, s, v>> \in {a, b, c, d} BY DEF Layouts
  <2> QED BY <2>1, <2>2
<1> QED BY <1>1, <1>2

\* A chunk that is in either layout is found in the version asked for, and one that passed
\* the check at boot is found under _1_7, but for "GloftSGHP/..." and a lone flat _1_6.
THEOREM CheckedIsFound == Spec => []ChunksFound
<1>1. IInv => ChunksFound
  <2> SUFFICES ASSUME IInv, stage = "game", NEW s \in Chunks, NEW form \in Names
               PROVE  /\ \A l \in Layouts, v \in {6, 7} :
                           Exists(<<l, s, v>>) => Hits(form, s, v) # {}
                      /\ Hits(form, s, 7) # {} \/ (form = "gloft" /\ OnlyFlat6(s))
    BY DEF ChunksFound
  <2>1. ASSUME NEW l \in Layouts, NEW v \in {6, 7}, Exists(<<l, s, v>>)
        PROVE  Hits(form, s, v) # {}
    <3>1. PICK k \in DOMAIN Tried(form, s, v) : Tried(form, s, v)[k] = <<l, s, v>>
      BY BothTried
    <3> QED BY <2>1, <3>1 DEF Hits
  <2>2. ASSUME form # "gloft" \/ ~OnlyFlat6(s) PROVE Hits(form, s, 7) # {}
    <3>1. PICK l \in Layouts, v \in {6, 7} :
            Exists(<<l, s, v>>) /\ (form # "gloft" \/ l # "flat" \/ v # 6)
      BY <2>2 DEF IInv, StillInstalled, OnlyFlat6
    <3>2. PICK k \in DOMAIN Tried(form, s, 7) : Tried(form, s, 7)[k] = <<l, s, v>>
      BY <3>1, ChunkTried
    <3> QED BY <3>1, <3>2 DEF Hits
  <2> QED BY <2>1, <2>2
<1> QED BY <1>1, Invariant, PTL
===============================================================================
