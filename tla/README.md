# Shadow Guardian for PS Vita: models and proofs

The port loads the Android library of the game into a PS Vita process and gives it
what Android would: bionic's pthread and stdio calls, a Java world, OpenGL, sound,
touch and keys. The library is a black box; everything here is about the code around
it, in `source/`. This directory holds TLA+ models of the parts with state and
concurrency, TLC instances that check them, and proofs checked by TLAPS.

## The system

| Component | State | Operations | Talks to |
|---|---|---|---|
| Engine audio output, `audio.c` | 128 KB ring with head, tail, used; mutex; port, running, initialized flags; two output buffers of the mixer | `audio_init`, `audio_shutdown` (main), `audio_write_pcm`, `audio_reset_buffer` (engine threads, through `AudioTrack` in `java.c`), mixer thread | `sceAudioOut` |
| Cutscene audio, `video.cpp` 750-812, 1041-1129 | two slots (buffer, length), write slot, quit flag, port | `cutscene_audio_submit`, start and join in `video_play` (main), `cutscene_audio_thread` | `sceAvPlayer`, `sceAudioOut` |
| Cutscene video, rest of `video.cpp` | player handle, decoded-frame textures, GL objects | `video_play` loop, texture allocator, drawing | engine (through a hook), GL |
| Bionic pthreads, `reimpl/pthr.c` | table of live object addresses, lazily created lock, the word of each object | mutex, condition variable, attribute, once and semaphore calls, from any engine thread | newlib pthread |
| Log, `utils/logger.c` | file, line buffer, pending count, log mutex | `_log_print`, `port_trace`, `logger_flush`; unlocked callers `fatal_error` (`dialog.c`) and `method_exit` (`java.c`) | every module |
| Input, `main.c` 150-377, 459-655 | button masks, one flag per synthetic finger, camera position and level, touch samples, `camera_sens.txt` | one turn of the main loop | engine's key and touch entry points |
| File layer, `reimpl/io.c` | sound cache: table of files held in memory, table of cached streams; static `dirent` | `fopen` ... `fclose`, `open`, `stat`, `opendir`, path translation | engine threads |
| Boot, `utils/init.c`, `main.c` 379-477 | installed shader patches, loaded module | ordered initialisation, patch installation | file system, loader |
| Engine patches, `patch.c` | hooks, replaced spin locks, visibility of virtual buttons | `so_patch`, frame-render guard | engine memory |
| Shader glue, `utils/glutil.c` | `skip_next_compile`, `next_shader_fname` | `glShaderSource`, `glCompileShader` replacements | vitaGL |
| Java side, `java.c`; asset manager | method tables, singleton asset manager | JNI methods, resources | FalsoJNI, file layer |
| Time, errno, memory, ctype, import table | tables | lookups and conversions | engine |
| `lib/` | so_util, FalsoJNI, vitaGL, fios, kubridge, sha1 | vendored | - |

Hard behaviours: several engine threads, the mixer and the cutscene thread share
buffers under short critical sections; some accesses take no lock; objects are
created at first use; the main thread waits for others without a limit; the process
may die in any state, and a log and a settings file should survive it; samples of the
pad are lost, and key and touch edges are filtered by flags that outlive their cause.
`PROJECT.json` lists the hazards by line with the properties that cover them.

## The modules

`PcmQueue` is the abstract specification of both sound paths: a bounded FIFO to which
chunks are appended, from which chunks are handed to the device, and which may be
cleared. It knows nothing of threads.

`AudioFifo` models `audio.c`. Variables carry the names of the statics (`fifo`, `head`,
`tail`, `used`, ...); `mix`, `boot` and `wpc` are the program counters of the mixer, the
main thread and the writers. Each critical section is two steps, lock-and-copy and
publish-and-unlock (`MixerTake`/`MixerCommit`, `WriteCopy`/`WritePublish`), so that the
other threads run while the mutex is held. A byte is a pair (writer, number). The
silence that pads a grain is left out of the output buffers. `DeviceDone` stands for
the hardware. `QueueSpec` instantiates `PcmQueue` with the ring's window as the queue and
everything handed to the device as the output.

`CutsceneAudio` models the double buffer of `video.cpp`: `Begin`, `OpenPort`, `OpenFails`,
`Submit`, `SubmitCopy`, `End`, `Join` are the main thread in `video_play`, `Peek`, `Output`,
`Clear` the cutscene thread. Every frame brings a size of its own, as the decoder's do; the port
is opened for the size of the first. Replacing the buffers by larger ones (`Grow`, in `Submit`) and
reading one (`Output`) take no lock, as in the code, so a frame larger than all before it destroys what waits and
frees what is being output: `spoilt` and `strained` record it, and the properties say that nothing else
does. It implements `PcmQueue` with a bound of two frames, in which such frames are those that are cleared away.

`PthrObjects` models the mutexes and condition variables of `pthr.c`. A bionic object is
one `word`: an initializer, then a handle of a real object. A call that may create an
object walks through `Check`, `Alloc`, `Setup`, `Remember` (the lookup, the malloc, the
real init, `rememberObject`), each a step of its own; `Lock`, `Unlock`, `Sleep`, `Signal`,
`TimeOut`, `Relock` are the real calls. Where the code ignores a result (a full table)
so does the model. `CallInit` is an init with attributes; `CallInitDefault` one without, which takes the kind from
whatever the memory holds, as at a first use. `Destroy` forgets and frees an object; `DestroyUnused` is the same code on a
recursive or error-checking mutex that was declared and never used, where the word is no pointer: the
library and `free` get the constant of the initializer, and the model ends there (`faulted`). `PosixObjects` is what the engine was compiled against: its own objects *are*
mutexes and condition variables, with a kind, an owner, a depth and sleepers, and there is neither
a table nor a birth. `PosixSpec` instantiates it with the kind, owner and depth of the real mutex the word points to (before
there is one, with the kind that mutex is settled to have), so the words, the handles and the creation at first use have to be
invisible. Two things are not, and `PosixObjects` names them as lapses: those two, on memory that holds the constant of an
initializer and was never used. Without either of them TLC refutes `PosixSpec`.

`Logger` models `logger.c`: `LogLine`, `Fit`, `Copy`, `Count`, `FlushWrite`, `FlushReset`,
`Unlock` are a line on its way through `_log_print` or `port_trace`, `Leave` is the unlocked
`logger_flush` of `fatal_error` and `System.exit`. A flush that finds the file open and the buffer not empty writes
(`FlushWrite`) and resets the length (`FlushReset`); any flush resets the count of lines (`FlushClear`). The compiler may keep the length in
a register or read it again for `len += n`; `Count` allows both. A crash needs no action:
what it leaves behind is `disk`, so the invariants about `disk` hold after a crash in
any state.

`InputMapper` models the main loop's two halves, `PadSample` and `TouchSample` (either
sample may fail, so the two are separate), and `Restart`, which reads
`camera_sens.txt` back into the level, after a save that went through, one that did not, or one that left the file
empty; what the player set last (`chosen`), what was last saved (`saved`) and whether the last save failed (`unsaved`) are
kept apart from both. Positions are left out; `drag` counts the moves of the camera finger to its wrap limit.

`ArmWords` has the few ARM instructions the port reads or writes, `AtomicSwap` the program the
engine's compiler wrote: threads in a text in which SWP is one atomic step. `SwpPatch` is
what becomes of it: `Skip`, `Replace` and `NoRoom` are one round of `patch_all_swp_spinlocks`, with
the trampolines of `patch_swp_with_ldrex_strex` word by word and the two arenas of `so_alloc_arena`;
after `Launch` each thread executes the patched words one by one on a processor that has LDREX, STREX and
interrupts but no SWP. `SpinLocks` says what such a text is for: locks, words guarded by
them, and the discipline of a text that takes a lock by SWP, tests what it got and gives the lock back by a
plain store (`Disciplined`). `SwapSpec` instantiates `AtomicSwap` with the thread's place in the engine's
text: a trampoline counts as the SWP it replaces until its store has succeeded. The promise is
weaker than the instruction where the code is: the flags are lost, and r12 where it is free.

`DataFiles` joins three parts that must agree on where the game's data are: the checks of
`soloader_init_all` (`DataInstalled`), `apply_shader_patches` with `file_copy` and `file_save` (`CopyFails`,
`Truncate`, `WriteFile`), and `translate_path` with `try_fallback_1_7` (`Tried`, the paths looked for in order for each
form a name can have; `Opened`, the first that exists). `Names` are the forms that leave the layout open; a path that spells out
the nested folder is in `Forms` only, since it asks for one layout. Between two boots the user copies and deletes files in either
layout; `Stop` is an end or a crash in any state.

`FileStreams` is what the engine may expect of stdio: a stream is a cursor of its own on one
file. `SoundCache` models `fopen`, `freopen`, `fclose`, `fread`, `fseek`, `ftell`, `ungetc` and `feof` of
`io.c`, which serve small sounds from memory. `heap` says what is at an address, `slots` is
the table that tells handles from real streams, `cache` the files in memory; `Seek`,
`Read` and the others do what the handle's branch does, or what the C library does for a real
stream. A load or an open may fail at any time. `StreamSpec` instantiates `FileStreams` with what the
heap's addresses were opened for and their cursors, of either sort.

`MC*` modules instantiate these for TLC, `*Proofs` hold the theorems.

## What the runs show

| Run | Instance | Shows |
|---|---|---|
| `audio` | two writers of 6 bytes each, writes of 4 and 6, ring of 6, grain of 4, frames of 2 | consistency of the ring, the port, resets, whole frames, what is heard of a writer is in the order it wrote, refinement of `PcmQueue`; writes return, shutdown ends, queued sound is played |
| `cutscene` | 3 cutscenes, 6 frames, each of size 1 or 2 | both sides keep the same turn; the unlocked output is safe and all is heard to its end, but for what a frame larger than the first of its cutscene brings about; waits end, refinement of `PcmQueue` (`TypeOK` is proved only) |
| `pthr` | 2 threads, 1 mutex, 1 condition variable, table of 2, 3 real objects | exclusion, the table, refinement of `PosixObjects` with its two lapses, when first uses do not race |
| `pthr_first_use` | the same, first uses race | expected violation: both threads hold the mutex |
| `logger` | 2 threads, 3 lines each, 1 of them may leave; buffer of 4, flush every 3 | nothing lost, bounded loss, urgent lines, no overrun |
| `logger_urgent` | 2 lines each | expected violation: an urgent line misses the file |
| `input_menu` | START, SELECT and three D-pad keys, 3 levels | menu keys follow the pad; the next start finds the level set last, or after a failed save the one saved before or the default |
| `input_game` | both fire buttons, the swipe, sticks, two real fingers | touches are possible, no finger is left hanging |
| `input_dpad` | as `input_menu` | expected violation: a D-pad key stays down |
| `sound_cache` | 3 streams, 3 sounds of 1 or 2 bytes, 2 slots, 2 entries, items of 1 and 2 | handles are recognised, nothing is cached twice, refinement of `FileStreams` |
| `swp` | 3 threads, a spin lock for each sort of operands, patch block of 8 words, cave of 6 or 14 | no SWP is executed, the engine's locks still exclude, refinement of `AtomicSwap`; the cave of 6 words is too small and the boot ends; the text satisfies `Proper` and `Disciplined` (ASSUMEs of `MCSwpPatch`), so the proofs' hypotheses are not empty |
| `data` | 2 shaders, 1 chunk, 2 layouts, 2 versions | the engine opens the port's shaders, finds every chunk in the version that is there, and under `_1_7` all that the check accepted, but for one case |

Why the bounds are enough. The ring's arithmetic is modulo its capacity, and all
sizes are bound parameters; with three frames in the ring and grains of two, chunks wrap at
every frame, a write of three frames has to be split, and the bytes submitted go around twice. Two writers are the smallest number with contention
(the mixer and a resetting thread are extra). Three cutscenes let one start from the
globals that a longer or shorter one left. Three real pthread objects leave one to leak.
A log buffer of four cells with lines of 1 and 3 has lines that fit exactly, and that
do not fit by one. Three streams and two slots reach a full table with two voices of one
sound and a real stream of it; a sound of one byte is half an item. The text of `swp` has the usual operands, r12 as
source, and r12 as destination with r0 as the base, and ends in a word that looks like SWP but is data; three threads let one thread's store
break another's reservation while a third holds a different one; the block of 8 words takes one
trampoline of 5, so that the next two go to the cave. Two shaders leave a boot with one written
and one not; the versions and layouts of `data` are all there are. What does not depend on a bound is proved (below).

The findings: `logger_flush` without the mutex can drop an important line of
another thread (`logger.h` promises an immediate flush): with a line in the buffer the leaving thread writes it, the other
appends its line and stands before its own flush, the leaving thread resets the length, and that flush finds nothing to write; a statically initialized mutex
whose first use is made by two threads at once is created twice (`pthr.c`); after one
SELECT + D-pad combo the release of UP and DOWN is swallowed until SELECT is pressed
again (`main.c`), so the engine sees a held key.

Seen while modelling, and shown by no run:

* A read of a cached sound that ends within an item is short and leaves the cursor before the item,
  so `feof` stays false (`io.c` 387 and 440); a loop until `feof` would not end.
* `pthread_once` (`pthr.c` 382-388) lets a second caller return while the first is still in the initializer, and
  `sem_timedwait` (444) compares the deadline the wrong way round.
* The comment at `patch.c` 59-61 justifies the use of r12 for three call sites; the scan now uses
  it wherever no operand is r12. An SWP whose two data registers are equal would lose the
  swap (LDREX overwrites the value to be stored), SWPB would be replaced by a word exchange, and the
  condition field is ignored. `ImplementsSwap` assumes operands for which none of this matters (`Proper`).
* A frame of a cutscene's sound that is larger than all before it frees both buffers without the lock (`video.cpp` 789-795)
  while one may be under `sceAudioOutOutput` (779) and the other may hold a frame; the frames are lost and freed memory is
  read. If there is no memory for it, the next frame that finds some may get less than the port reads. Whether the decoder ever
  changes the size is not in the repository.
* `pthread_mutex_init` without attributes takes the kind from what the memory holds (`pthr.c` 121-125), although the comment at 110
  says that `attr` "is fine as null"; destroying a mutex that was declared recursive or error-checking and never used passes
  the constant 0x4000 or 0x8000 to the library and to `free` (218-219). An init of an address that is still in the table, since
  its memory was freed without a destroy, does nothing (114-117).
* `camera_sens.txt` is truncated before it is written (`main.c` 257): a program that ends in between loses the level, which `main.c` 236
  calls persistent.
* `audio_shutdown` is correct but never reached: its only call (`main.c` 657) follows a loop without an exit.
* `file_save` does not look at the result of `fwrite` (`utils.c` 178-185), so `init.c` 67 may log a patch as
  applied that is cut short; `ShadersPatched` therefore excuses the files of `failed`.
* `init.c` 138-139 accepts `GloftSGHP/res`, but `resolve_res_path` (`java.c` 160-192) never looks there;
  `sprites_1_7` or `gui_1_7` alone passes the check, while nothing maps a request for `_1_6` to it, and `init.c` 119-128 tells of
  an engine that asks for `gui_1_6`. `ChunksFound` therefore promises a `_1_6` file only to those who have one.
* A `GloftSGHP/..._1_7` name (`io.c` 153-170) falls back to the nested `_1_6` only, because the buffer has been overwritten with
  the nested path by then; with a flat `_1_6` alone it finds nothing. `ChunksFound` names this exception (`OnlyFlat6`).

### Fairness

`AudioFifo!Fairness`: the mixer, the writers in a call and the hardware keep running
(weak fairness); a thread waiting for the mutex gets it if it is free again and again
(strong fairness on `MixerTake` and `WriteCopy`): the holder only copies memory, and each
contender sleeps or blocks in the hardware between two acquisitions. Nothing is
assumed of how often the engine calls, nor that anybody shuts down.
`CutsceneAudio!Fairness`: the cutscene thread and the hardware run, and a main thread
whose slot is free or whose thread has ended goes on. `SubmitCopy` needs weak fairness
only, since a free slot stays free until it is filled.

## What is proved

For all values of the constants that satisfy the named assumptions of the modules:

* `AudioFifoProofs`: `IInv` is inductive (`Invariant`), hence `TypeOK`, `RingConsistent`,
  `MutualExclusion`, `OutputOnOpenPort`; and `Spec => QueueSpec`. `RingConsistent` alone is not
  inductive: a chunk computed in one step is published in another, so `IInv` adds who
  owns the mutex (`Ownership`), what may be running in which phase of the main thread
  (`Lifecycle`), that pending sizes still fit and the mixer's buffer is not the
  one being played (`Pending`), and that the cells between tail and head hold real bytes (`Sound`).
  For the refinement each step of the ring is matched with `Put`, `Get`, `Clear` or
  a stutter; the lemmas about windows say what a wrapped copy does to the queue. `FramesExact` needs the
  sizes to be whole frames (`WholeFrames`, which the code's are): then so are the free space, every chunk and every
  grain (`Framed`). `CutIsSilent` follows from `Apart`: a byte is waiting, out or cut, never two of them, and a writer
  only puts bytes into the ring that it has not put there before. `HeardInOrder` says that the bytes of one writer
  come out in the order it gave them, although two writers take turns in the ring and a reset cuts in: what is
  published is later than everything the writer gave before, so order survives in the queue and what has left it
  (`OrderIsKept`). Of the liveness the part without fairness is proved: `CallsBounded` and `MixerWindsDown` are
  variants. A call of `audio_backend_write` is over after three steps per round of its loop and nobody
  else's step puts that off; once `running` is cleared the mixer has four steps left. That the steps are taken is `Fairness`,
  and stays with TLC.
* `CutsceneAudioProofs`: `SlotsInTurn` and `OutputIsSafe` for frames of any sizes, with `Lifecycle` as the
  strengthening (what is known of lengths, buffers and the thread in each phase); and
  `DrainedAtExit`, for hardware that copies at output (`DeviceCopies`), from an account
  of every submitted frame (`Accounted`): heard, waiting, without memory, or spoilt by a larger one. Under the same assumption `Spec => QueueSpec`: `SubmitCopy` is a `Put`,
  `Output` a `Get` of one frame, and `Clear` leaves the queue alone because the frame already counts as output.
  `FramesInOrder`: no frame is heard twice or after a later one, since waiting frames are later than those heard
  and ordered by turn (`Ordered`). `NoStandOff`: while the decoder waits for a slot, or `video_play` for the
  thread, the thread has something to do; with the hardware's fairness this is why the two waits without a limit end.
* `LoggerProofs`: `CopyFits` for any set of leaving threads. The point of `IInv` is that
  the unlocked flush can only make the buffer emptier (`Room`), and that the line
  counter cannot run past the flush it demands (`Due`). `NothingLost`, `BoundedLoss` and `UrgentWhileAllStay` rest on a
  second invariant, `OInv`, which holds until a thread leaves: file and buffer are the log (`Order`), the buffer
  holds cells of at most `pending` lines (`Few`), and the line whose flush is under way is the last one in the
  buffer (`Soon`). It speaks of what each place between lock and unlock has already done, which the three
  properties do not. `NothingInvented` needs no such condition: whoever leaves, every cell of the file was printed,
  since below the length no cell was never written (`Written`) and what was written was printed (`BufferPrinted`).
* `SwpPatchProofs`: `Inv` is inductive (`Invariant`): the patched words of the text are branches
  to complete trampolines, no two of which overlap, everything else is as it was, each thread is at a word it can
  execute, and what it pushed is still on its stack. Hence `TypeOK`, for any text and arenas of
  any size; `NoUndefined`, if every SWP of the text is followed by a compare of its destination (`Idiom`, what the
  comment at `patch.c` 132-140 says of the binary); and `SwapSpec`, if the destination of each SWP
  is none of its other operands (`Proper`). The refinement needs the monitors (`MonInv`): while a
  thread between LDREX and STREX still watches the address, memory holds what it loaded. What this buys the engine is
  `LocksExclude`: two threads are never both where the text says they hold the same lock, after patching as before. It is
  shown of `AtomicSwap` first, for any text that is `Disciplined` (who holds a lock, `Owner`; its word is then taken, `Taken`;
  what a thread's registers say of a lock is true, `Believed`), and carried over by the refinement; the trampolines do
  not appear in the argument.
* `DataFilesProofs`: `ShadersPatched` and `ChunksFound` for any shaders and chunks; what each form of a name tries is a
  lemma (`PlainTried`, `SevenTried`). `IInv` says that
  a shader's file lies in a folder (`InFolders`), that the patches go where the engine looks first
  (`LooksFirst`), and which of them have been written so far (`Written`).
* `SoundCacheProofs`: `TypeOK`, `HandlesKnown` and `LoadedOnce`, whose conjunction is inductive
  (`IInv`, written over a cache, a table and a heap because `freopen` enters `fopen` with a
  handle already gone), and `Spec => StreamSpec`: `RightContent` says that either sort of stream
  stands for the bytes of its file, `WholeItems` that `fread` stops less than an item before the end.
* `PthrObjectsProofs`: the invariants of `PthrObjects` and `Spec => PosixSpec` for any number of threads and objects, under
  `Orderly`: first uses do not race and the table has room for every object (by the pigeonhole
  principle `rememberObject` then finds an empty entry, `RoomLeft`). `IInv` adds what the properties do not say: an object
  that does not live is on the list of one thread at most (`SoloInv`), how far its birth is
  (`BirthInv`), whose word points to which real object (`TableInv`), that a thread's locks are the real
  mutex's depth (`HeldInv`), and that the arguments of a call in progress live (`ArgsInv`), so that `Destroy` disturbs nobody.
  In the refinement the owner of a mutex is that of the real one its word points to, which is what the threads' own lists say
  (`Believed`); its kind is the one it was settled to have when the call was made, the four steps of a birth are stutters, and a sleeper sleeps on the engine's condition variable exactly
  if it sleeps on the real one; the memory of a mutex never used is that of the abstract `unused` (`NeverUsed`). `WaitersReachable` is
  a theorem only: a run would add nothing to `PosixSpec`.
* `InputMapperProofs`: all four invariants and `TouchProtocol`. The invariants together are inductive;
  `Then` says when one series of touches may follow another, and each gesture of `main.c` is shown to be
  possible where its finger is and to leave it where its flag says.

Every invariant, action property and refinement that a passing run checks is thus proved, and so are some that no run
checks (`WaitersReachable`, `FramesInOrder`, `NoStandOff`, `CallsBounded`, `MixerWindsDown`, `NothingInvented`; TLC agrees on
the instances above); only model-checked is
liveness (`WriteReturns`, `ShutdownCompletes`, `QueuedIsPlayed`, `SubmitReturns`, `JoinReturns`), which is out of TLAPS's
reach, and the three counterexamples are TLC's.

## Assumptions and what is left out

* `sceAudioOutOutput` blocks while the buffer before is played, and in the cutscene has
  taken a copy when it returns (`DeviceCopies`).
* The log mutex is created before there is a second thread (`main.c` logs first), a line
  is shorter than the buffer (2048 and 4096 bytes), and `sceIoWrite` succeeds.
* The run `pthr` assumes that no two threads make the first use of an object at once,
  that the table has room, and that the real init does not fail; the library refuses to destroy a zero word, and what it does with
  the constant of an initializer is not followed. Attributes, once,
  semaphores and thread creation are not modelled yet.
* The stdio calls come from one thread, as the comment at `io.c` 222 to 227 argues; opens of sounds are
  for reading, names shorter than the entry's 192 bytes, and what is pushed back is the byte just
  read. `fgetpos` and `fsetpos`, which do nothing on a handle, and `setvbuf`, `ferror` are left out.
* Threads run only after the text is patched (`so_patch` runs before `so_initialize`), the engine's text does not
  jump into the arenas, a trampoline's push does not touch the engine's memory, and a branch reaches as far as
  `so_alloc_arena` allows. Encodings are records, bytes are words; the frame-render guard and
  the function hooks of `patch.c` are left out.
* The engine's saves (`/data/data/...`) and the two `/proc` files, which belong to neither layout, are left out of `DataFiles`.
* The user changes files only while the program is off; what `fclose` has accepted is on the card.
* Real touch ids never equal those of the synthetic fingers (50 to 64).
* The network sink of the log is off in the default build and is not modelled.
* Drawing, decoding, ELF loading, JNI tables and the vendored libraries are not modelled:
  I/O, data tables or other projects' code. Of the lines of C in the repository six of seven are in `lib/`
  (vitaGL alone is almost three quarters), which this project does not describe; what is modelled is a large share of
  `source/`, whose remaining lines are mostly tables (`dynlib.c`, `java.c`), drawing, and hooks at fixed addresses.

## Plan

1. Done: `AudioFifo`, `CutsceneAudio` (with `PcmQueue`), `PthrObjects` (with
   `PosixObjects`), `Logger`, `InputMapper`, `SoundCache` (with `FileStreams`), `SwpPatch` (with `AtomicSwap` and `SpinLocks`), `DataFiles`; proofs for
   all of them.
2. Left: semaphores, once and attributes of `pthr.c`, each a thin call on the objects modelled here (what is wrong
   with `pthread_once` and `sem_timedwait` is noted above); the play loop and texture allocator of `video.cpp`, one
   thread around the decoder's library.
