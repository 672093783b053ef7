# Chimera's eka2l1 core: a verification project

The repository turns the EKA2L1 Symbian emulator into a deterministic "core": a
phone that a host steps frame by frame, whose time, files, sound and screen all
come from the machine and never from the host.  The emulator itself is a git
submodule and is not part of this source; what is here, and what is modelled, is
the layer in `src/waterbox/` that owns the machine, with the scripts that patch the
emulator and build the core.  Everything runs on one thread: the difficulties are in the
order of phases, in callbacks, in state kept from one call to the next, in
arithmetic on time, and in work stopped half-way.

Modules are TLA+ (no PlusCal), one per component, with `MC*.tla` and `MC*.cfg`
for TLC and `*_proofs.tla` for TLAPS.  `PROJECT.json` maps every definition that
stands for code to its lines, and lists runs, mutants, hazards and theorems.

## 1. The system

| Component | State it keeps | Operations |
|---|---|---|
| virtual clock (`vclock.cpp`) | `now_us_`, `remainder_`, `instructions_` | `advance_us`, `spend_instructions` |
| step loop (`machine.cpp` `run_for_us`, `wbx-entry.cpp` `FrameAdvance`) | `slice_instructions_`, the driven timer's events | run a slice, pump dialogs, pump the driver, fire timers, buy idle time |
| host dialogs (`host-ui.cpp`) | `g_pending_dialogs` | `show_yes_no_dialog`, `pump_host_ui` |
| user bus (`machine.cpp` `resolve_user`, `wbx-entry.cpp` `PeekBus`/`PokeBus`/`ReadBus`) | `cached_page_`, `cached_host_`, `game_asid_` | peek, poke, read a run |
| memory filesystem (`memfs.cpp`) | drives, a tree of nodes, open handles | mount, open, read, write, resize, rename, delete, make directories, iterate |
| boot (`wbx-entry.cpp` `Init`, `machine.cpp` installs and launches) | `g_inited`, `g_launched`, `launched_uid_`, `apps_before_install_`, the installer's loop | install a ROM, an N-Gage, a `.blz` or a card; launch |
| audio sink (`audio.cpp`) | the list of streams, each one's position | open, start, stop, end a stream; render a frame |
| clock start (`wbx-entry.cpp` `parse_clock_start`) | none | a date text to seconds |
| keypad (`machine.cpp` `set_button`, `input.cpp`) | a level per button | press, release |
| screen (`machine.cpp` `read_screen`, `wbx-entry.cpp` `FrameAdvance`) | `g_video` | read the panel or a composed bitmap, copy it out |
| savestates and harness (`run-wbx.c`, `run-native.cpp`) | the core's whole memory, in files | tell levels, advance, save, load, start again |
| null graphics driver (`null-graphics.cpp`), GL glue (`gl-*.c`, `gl-context.cpp`) | handles; one context | command lists, buffers |
| guest system calls (`guest-syscalls.cpp`) | none | constant answers |
| patch series (`apply-patches.sh`, `src/patches/`) | the emulator's working tree | check, apply |
| dependency builds (`setup-mesa.sh`, `setup-ffmpeg.sh`, `build-*.sh`) | files on disk | download, configure, build, link, package |

How they interact.  `FrameAdvance` calls `run_for_us`, whose loop calls the
emulator's `system::loop()`; that calls back into the clock (instructions spent),
into the dialog queue (a service handler asking the user something, with the
kernel lock held) and into the filesystem.  After each slice the loop answers the
queued dialogs, pumps the graphics driver, fires the timer events that have come
due, and, if nothing ran, moves the clock to the next thing that will happen.
After the loop the screen is read and the audio sink pulls a frame's worth of
sound from every stream, whose callbacks are the emulator's and may use the sink.
Between frames a host's tools read and write the game's memory over the user bus,
with a one-page cache that outlives the access that filled it.  `Init` runs
before all of this and drives the same loop to unpack a card image with a Symbian
application that can only be pressed blindly and watched for its end.

What is hard, and what makes each part correct:

- *Time.*  Slices leave fractions of a microsecond; the idle jump is sized by an
  unsigned subtraction after callbacks have moved the clock; a jump must not pass
  a deadline.  Correct: the clock is exact, timers and frames are late by less
  than a slice, idle time ends where something happens, every frame ends.
- *Dialogs.*  Raised under a lock their answer needs, and raised again from an
  answer.  Correct: a fair queue, answered outside the lock.
- *User bus.*  A cached translation, several address spaces.  Correct: the bus is
  the game's memory, and a run read at once is as many peeks.
- *Files.*  Handles hold pointers into a tree that renames move; names move
  between phone generations; a package shares the tree with the machine's own
  files.  Correct: a rename moves the whole, open files follow, what is made is
  found, the package keeps what it holds.
- *Boot.*  Several kinds of project, an installer that is launched before the
  game.  Correct: the game started is the project's, once, and the bus reads it.
- *Sound.*  Callbacks change the list that is being walked; rates differ.
  Correct: nothing is invented, dropped or repeated, and an ended stream is over.
- *Playing.*  A host tells levels, of which the phone is told changes; a state may
  be saved and gone back to between any two calls, in another process too; a
  picture comes in one of five formats by one of two ways, or not at all.
  Correct: the machine is the one an unbroken run arrives at, keys come in turn,
  the picture is the phone's latest.
- *Builds.*  A script may be stopped anywhere, and the tree edited between runs; each
  looks for something else to decide that there is nothing to do.  Correct: a
  patching that ends well leaves the series' tree and one that refuses changes
  nothing; a package is of the series and the pinned Mesa, with all of its sound
  or none.

## 2. The modules

**`VirtualClock`** is `virtual_clock`: `SpendInstructions` and `AdvanceUs`, with the
carried remainder.  `bought_us` is a history variable: the time moved by
`advance_us` alone, which the exactness of the books is stated against.

**`StepLoop`** extends it with one action per phase of an iteration, `pc` naming
the phase: `Check` (the loop's condition, and whether there is a machine to run),
`LoopIdles`/`LoopRuns`/`EndSlice` (what `system::loop()` may do, external),
`ScheduleEvent`, `UnscheduleEvent`, `ShowYesNoDialog`, `HandlerReturns` (what the
guest may do inside a slice), `TakeDialogs`, `AnswerDialog`, `DialogsAnswered`
(`pump_host_ui`, which takes the queue away before any callback runs),
`PumpDriver`, `FireEvent` and `AdvanceReturns` (the driven timer, external) and
`EndIteration` (look again, or buy time).  `FrameAdvance`, `ReadScreen` and
`SetTimerCheckUs` are the host's.  Two abstract specifications say what this
amounts to: **`MachineTime`** (time passes while the guest or the host is in
control, or in sleeps that never pass a deadline, and events are called back when
due) and **`DialogQueue`** (askers are answered once each, in order).  `StepLoop`
implements both by an `INSTANCE ... WITH` mapping: the guest is in control in the
phases `slice` and `host`; the queue is the dialogs being answered followed by
those queued since.

**`UserBus`** has the page tables, the host pages' bytes and the scheduler as
external state, and `resolve_user` as three operators: what a lookup answers, what
it leaves in the cache, and when it is refused.  `PeekBus`, `PokeBus` and
`ReadBus` are actions over addresses that reach past both ends of the bus.
`remapped` is a history variable: the guest has taken a mapping away.

**`MemFs`** keeps the tree as a function from paths to nodes, and a handle as the
path its node has now, or `GONE` once the node is erased.  A path is a sequence
of names; a file's bytes are how many there are.  `MountRpkg` mounts a package up
to any entry, as a truncated one is.  Operations the code answers false or null
are not enabled, since each leaves the tree as it was.  `DRIVES` are an object's
drives and `PACKAGE_DRIVES` those a package is mounted on.  The program has two
objects of this class, one for drives C, D and E and one for the package's, so
each question is asked of the kind it is about: `mem_fs` checks an object without
a package; `mem_handles` has a package's drive beside a writable one, more than any
one object of the program has, and its properties are each of a single drive.
`MOVED_TO` is EKA2's moved directories, with the names spelled as a moved one and
going on, which the code's comparison of a prefix takes for it; the run has the two
directories alone, the proofs any such names.

**`MemHandles`** extends it with what the machine holds of it: `position`, a place
in an open file (`OpenAt`, `Read`, `Write`, `Seek`, `Close`), which is unsigned and
wraps at `POSITIONS`; and one directory at a time, the names it had when it was
opened and a place in them (`OpenDirectory`, `GetNextEntry`, `PeekNextEntry`,
`GetPeekedEntry`, `CloseDirectory`).  `Meanwhile` is everything else `MemFs` does,
with the handles left where they are.  Every step is a step of `MemFs`.  The bytes
read are not kept, nor a file's UIDs, only whether it is long enough to have them.
`given`, `over` and `staying` are history variables: what the directory has
answered, that its end has been answered, and what it could have answered at every
moment since it was opened.  `NONE` and `NOT_PEEKING`, the code's `std::nullopt` and
the flag beside it, are assumed to be nobody's name.

**`Boot`** is `Init` from the ROM to the game, `pc` naming where it is:
`InstallNgage`, `StartBlz`, `BlzFrame` (one turn of the driven installer's loop,
with its keys by frame), `FinishBlz`, `InstallCard`, `InstallPackage`, `Launch`,
then the exports `LaunchAppUid` and, external, applications ending.  A launch finds
the new thread, its process and its memory model, and gives the bus its address
space, or does not, and leaves the bus what it read before; `owner_found` is a
history variable that says which it was the last time.

**`AudioSink`** takes a sample to be the number of its stream's frame, so that an
output frame is the set of samples summed into it.  `Render` copies the list,
`CallBack` leaves to the emulator, which may open, start or stop streams, and end
them where `CALLBACKS_END` says so, and `MixInto` resamples what came back.

**`ClockStart`** steps a calendar day by day and holds `parse_clock_start`'s closed
form, month lengths and leap rule against it.

**`ApplyPatches`** is the shell script; a file is the sequence of changes made to
it since HEAD.  The emulator is checked out at any time (`CheckOut`, external), and
before that the script refuses (`IsNotCheckedOut`).  `Run` decides (already applied,
pristine, or in between), `NextPatch` and `WriteFile` apply, `Interrupted` stops anywhere; `Edit`, `Revert`
and `Pull` are what people do to the tree between runs.  **`PatchedTree`** is what
the script promises to those who call it: it starts from nothing but HEAD's files,
refuses before it writes, and says all is well only of the series' own tree.
`ApplyPatches` (as `PatchSpec`: the module shares a proof with `GuestBuild`, so its
`Init` and `Next` are `PatchInit` and `PatchNext`) implements it, a file's sequence being mapped to whether the files
the series touches are HEAD's, the series' or neither.

**`GuestBuild`** extends `PatchedTree`, so that it rests on the promise and not on
the script: `setup-mesa.sh`, `setup-ffmpeg.sh`, `build-guest.sh`, `build-core.sh`
and `build-package.sh`, `step` naming what the running script does next.  Each
step is `Stopped` or fails leaving what it had written in part; a script run again
looks for what the code looks for (an archive anywhere in Mesa's build, a
configuration, one of FFmpeg's libraries, a directory) and goes on from there.
Ninja, cmake, make and the linker are external: an archive is current or not, and
one name too few ends the link.
The adapter's objects (`adapter`) are `guest.mk`'s, which goes by each object's own
source alone: one that is there is linked again whatever its headers have become.
`anew` is a history variable: `build-package.sh` found none of them when it began.
People touch the tree, and remove builds, between scripts and not under them; what is
pinned is pinned once.

**`Frontend`** is a host at the core's exports: `SetButton` tells a level for each
button in turn, `FrameAdvance` runs the machine, pulls its sound and reads its
screen, `SaveState`/`LoadState`/`NewProcess` are what miniBox does to the sandbox.
The emulator is deterministic, so the sequence of what was done to it stands for
it, and `Screen` (a constant) says what a phone's screen is after each; the phone
is part of the machine, and so of a savestate.  `read_screen` is translated with
both ways it reads and the pixels of every depth: what was drawn is a colour,
`Painted` and `Composed` (external) are how the panel's memory and the compositor's
readback hold it, and the code's own `unpack12`, `unpack16`, `unpack24` and
`rgba_bytes_to_argb` take it out again.  A screen's texture may be one the driver
cannot read back.  `movie` is a history variable, what a host records; `Reference` is
`run-native.cpp`'s loop over the same movie in one go.

An operator introduced in a comment as a *variant* is wrong on purpose: it is a
plausible bug in the operation it names, and put in its place it makes the
property `PROJECT.json` pairs it with fail.

## 3. The runs

| Run | Asks | Bounds, and why they are enough |
|---|---|---|
| `step_loop` | books, lateness, frame ends, idle jumps, an empty machine's exactness, both refinements, and both liveness properties | 2 timers with delays shorter than, equal to and longer than a frame's, 2 askers, 3 instructions per 2 microseconds and slices of up to 2: every slice leaves a fraction, some cost no time; `SLACK = 1` lets the timer answer a wait of zero; `MAX_NOW` gives three frames |
| `user_bus` | the bus is the game's memory until a mapping is taken away; pokes stay in it; nothing is said unmapped that is mapped; runs are peeks | 2 processes, 2 host pages to share, a null page and 2 others of 2 bytes: a run of 4 bytes crosses three pages |
| `user_bus_stale` | the first of these without its condition (**violated**) | the same |
| `mem_fs` | what renames, deletes and EKA2's moved directories do to the tree and to an open file | 2 names, two moved directories, 3 deep, 3 nodes, one handle, files of 0 and 1 bytes: a tree with a child renamed onto a node above, beside and below, and two files that can be told apart around the one held open |
| `mem_handles` | packaged files through renames, replacements and open modes; what reads and writes do from wherever the position is; what a directory answers | 2 names, 1 deep, 2 nodes, one handle, a package of one file, cut or whole; sizes of 0 and 1 and positions below 3, so a seek before the start lands at 2, past every end, and a write can grow a file; a directory asked for UIDs passes over the empty file |
| `boot` | which application is started, whose memory is read where the launch found its process and where it did not, how often it runs, that no key stays pressed, that `Init` returns | 2 games, one phone application below them, the installer's frames scaled to 12 |
| `audio_sink` | what each output frame holds: every sample its stream gave for it, and no other | 2 streams at rates below, beside and above the sink's, 2 renders of 4 frames each |
| `audio_sink_ends` | a stream that `render` has yet to come to is still there, when callbacks may end other streams than their own (**violated**) | the same |
| `clock_start` | the day count, the dates accepted, the second started at | every day from 1970 to 2099 |
| `apply_patches` | the refinement of `PatchedTree`, edits are kept, a second run writes nothing | 3 files, 3 patches two of which meet in a file, 4 series, one that does not apply; the emulator checked out or not yet |
| `guest_build` | of which tree and which Mesa a package is, whether its sound is whole | Mesa of 3 parts, one no archive, FFmpeg of 2 libraries, the one that is looked for and one that is not, 2 archives, alike and so taken up to `SYMMETRY`, the patch script's last verdict left out by a `VIEW`, since nothing asks it, and one adapter object: each kind of half-built tree; histories of scripts are unbounded. Of several objects each is made, kept or lost by itself, and the proof is for any number |
| `frontend` | the machine after saves and loads, the keys the phone saw, the picture | 2 buttons told in turn, 2 frames, 1 savestate file, so that another turn can be taken from a saved place; phones with and without a window server and a driver; screens read in every depth, turned, composed, without a texture, with one the driver does not read, too large and empty, in a blue whose components are 0, between, and one that 12 bits miss by as much as they can |

Deadlock is left unchecked where the program may stop: a host that asks for no
more frames, a bound on time, renders or launches reached, an `Init` that is over.
`mem_fs`, `mem_handles`, `apply_patches`, `guest_build` and `frontend` check it.

**Fairness.**  `StepLoop!FairSpec` is weakly fair to `Code` (the straight code of
the loop, which once entered never stops half-way) and to `LoopReturns` (the
interpreter leaves a slice at the end of its quantum).  Nothing is owed by the
guest or the host: a guest may never ask for a timer, a host may never ask for a
frame.  `Boot` is weakly fair to `BootStep`, `Init`'s own code, and to nothing the
installer does.  The other modules state safety only.

## 4. What is proved

For every value of the constants, from the named `ASSUME`s alone:

- `StepLoop_proofs`, after lemmas about the clock's two operations: `TypeOK`,
  `CostIsExact`, `NeverIdlesPastTarget`, `TimersAreNearlyOnTime`, `FrameEndsOnTime`,
  `EmptyMachineIsExact`, `IdleJumpsLandOnDeadlines`, `AnsweredOutsideTheLock`, and
  the refinements of `MachineTime` and of `DialogQueue`. None of these is inductive
  alone. `IInv` adds where the clock may be in each phase (`FrameInv`: short of the
  target until a slice has run, and at most one slice past it), how late a timer may
  be in each phase (`TimerInv`: not at all, except between a slice and the timers),
  and what `advance()` established when the loop decides how to go on (`WaitInv`:
  nothing is due, and the answer is within `SLACK` of the earliest deadline). The
  idle jump is then the minimum of two distances neither of which passes a deadline.
  `QueueInv` says that the kernel's lock is a handler's alone and nobody waits twice,
  which makes a dialog's place in line its asker's.
- `UserBus_proofs`: `TypeOK`, `MappedPagesAreSeen`, `BusReadsTheGame`,
  `PokesStayInTheGame` and `RunsArePeeks`.  `IInv` says nothing is mapped at page 0 or
  without a memory system, and that the cache is empty until the bus is in use;
  `CoherenceInv`, which is inductive beside it, says that until a mapping is taken
  away what is cached is what the game's tables say.  `LaunchApp` keeps it because no
  tool can have filled the cache before `Init` returns.  A run is as many peeks, in
  what it answers and in what it leaves cached: where they first came apart, the byte
  before would have agreed, and one more byte is of the same page or opens the next.
- `MemHandles_proofs`, first of `MemFs`: `PackageContentsIntact`,
  `RenameMovesTheWhole`, `OpenFilesFollow` and `MadeIsFound`, for trees of any size
  and depth.  The first rests on an invariant that types the nodes and says a
  packaged one has no bytes of its own wherever it has been moved.  The others rest
  on `PInv`: nodes lie at sequences of parts, and a handle is on a node or on none.
  `OpenFilesFollow` is of renames and of deletes: what goes on being there is the
  same file by its new name or its old, and only what was deleted, or renamed
  onto, is gone.  A
  name beneath the old one is the old one and a rest (`PrefixAndRest`), so names that
  differ still differ once the old one is replaced (`RenamingKeepsApart`), and the
  tree a rename leaves is known name by name (`MovedTreeHolds`).
  Then of `MemHandles`: it implements `MemFs`, whose invariants therefore hold through
  handles too; `ReadsStayInside` and `ListingIsFair`.  `HInv` is
  the soundness of the tree with every position below `POSITIONS`: a file's size is
  below it too, so `LeftOf` is the true difference or nothing, and a read that moves
  the position ends on the bytes.  `LInv` says where a listing has come to: each name
  passed over was given, is peeked at, or did not stay, what was given is among them,
  and no name is listed twice.  That last needs the tree to be finite (`FInv`, kept by
  every operation, a package's mount and a whole tree's move included).
- `ClockStart_proofs`: `DaysAreCounted` for every year from 1970 on,
  `AcceptsTheCalendar` and `StartsThatDay`.
- `Boot_proofs`: `TheGameIsTheProjects`, `BusFollowsTheGame`, `TheGameRunsOnce` and
  `NoKeyIsLeftHeld`, for any applications and any timing of the keys.  `IInv`
  separates the phone's applications, the installer and what was installed since
  (`FreshInv`, `InstallerInv`, `NewInv`), says nothing but the installer runs until
  `Init` returns and the bus until then reads nobody's memory or the installer's
  (`AloneInv`), which is what a launch that does not find its process leaves, and that a key is held only inside one of its two
  presses (`HeldInv`).  The launched application is the lowest new one, which exists
  because the numbers are well-founded.
- `AudioSink_proofs`: `NothingIsInvented` and `NothingIsDropped`, for any streams,
  rates and lengths of a frame, whatever the callbacks start, stop or end.  `ListInv`
  says a stream is in the list once, and once in `render`'s copy; `HeardInv` that a
  sample heard was given by a stream the copy holds no more, so that each stream comes
  to an output that has nothing of it; `OrderInv` that samples are in order.  What one
  stream then adds is in order because nearest-frame resampling is monotone
  (`QuotientMonotone`), and whole, where the stream is no faster than the sink,
  because it then reaches every frame.
- `Frontend_proofs`: `MachineIsTheReference`, `KeysComeInTurn` and
  `PictureIsTheLatest`, for any buttons, phones, files and movies.  `SoundInv` says of
  the machine, and of the machine in every file beside the levels and the movie kept
  with it, that it is the reference half-way through its next frame, and that its phone
  heard of every key by turns; going back to a file is then going on from it.
  `PictureInv` says each of them shows the last there was to see.  That theorem alone
  has a hypothesis, that `Screen` answers one of `Screens` whatever was done: it is a
  constant operator over all sequences, which no `ASSUME` that TLC evaluates can
  range over.  Its arithmetic is `BitsOfTwelve`, `BitsOfSixteen` and `BitsOfBytes`: a
  colour is taken out of a word exactly, and is off by no more than its panel rounds.
- `Builds_proofs`, of the patch script: the refinement of `PatchedTree`, `EditsAreKept`
  and `IsIdempotent`, for any series over any files.  `ApplyingInv` says that while the
  script writes, the files are those of the patches so far; `VerdictInv` that all is
  well only where the emulator is checked out and every patched file is the series'
  own.  Then of `GuestBuild`:
  `PackageIsTheSeries` and `SoundIsWhole`.  `IInv` follows each half-built thing
  forward: parts of Mesa are the pinned one's (`MesaInv`); from the guest's
  configuration to its link under `build-package.sh` the tree carries the series, and
  the sound is what is staged (`GuestInv`); the core that is then packaged is of both
  (`CoreInv`); and where no object of the adapter's was there when
  `build-package.sh` began, every one that is there later is the series'
  (`AdapterInv`).

Loops over a movie, a run, a patch series or a told key are recursive functions here.
That each has the values its equation names is the same lemma every time
(`LoopHasValues`: a least round without a value would be one after a round with one),
from which a loop is taken a round at a time (`KeyByKey`, `FrameByFrame`,
`ToldEventByEvent`, `LeftByRounds`).

`TypeOK` of the loop and of the bus are proved and given no run: the proofs need
them, and the runs would only repeat them.

Every safety invariant, action property and refinement that a passing run checks is
also proved.  Only model-checked are the three liveness properties, `FramesEnd`,
`AskersAreAnswered` and `InitReturns`: liveness under fairness rests on `ENABLED`, which
is out of the prover's reach.  The two properties that are violated have nothing to
prove.

## 5. Where the code and its documents disagree

Two of the runs above end in a violation, each of a sentence in the source:

- `user_bus_stale`: `resolve_user` trusts its cached page without asking whether it
  is still mapped; `machine.h:140-143` says each address is resolved through the
  page tables.
- `audio_sink_ends`: one stream's callback ends another that `render`'s copy still
  holds and will use in its turn; the comment at `audio.cpp:145-146` says the copy is
  there for a stream that ends while it is mixed.

Others were met while modelling and have no run of their own:

- `launch_app` gives the bus the game's address space only if it finds the game's
  thread, process and memory model (`machine.cpp:555-561`), and answers well either
  way.  Where it does not, after a `.blz`, the bus goes on reading the installer's
  memory as the game's: `BusFollowsTheGame` says so.
- `guest.mk:38-53` gives the adapter's objects their own source as the only
  prerequisite, no header and no flags, and `build-package.sh` never empties
  `obj-guest`.  A package may so hold adapter objects compiled over the headers of
  another tree than the series', or over another Mesa's.  `PackageIsTheSeries`
  promises the adapter's part only where no object was there to begin with.
- Delete, rename and `create_directory` work on the package's drive
  (`memfs.cpp:881`); `memfs.h:55-57` says none of it is the machine's to write.
- `install_blz` answers true when its installer was given up on, or unpacked
  nothing; `machine.h:166-168` says it answers false.
- `create_directories` (`memfs.cpp:902-932`) does not rewrite EKA2's moved
  directories, so a directory made under one is not found under its own name.
- `each_file` passes over files beneath a file and gives a packaged file no bytes
  (`memfs.cpp:645-656`).
- `ReadBus` answers zeros for a whole run that ends past the bus
  (`wbx-entry.cpp:495`).
- `mix_into` rounds every render's frames up and never gives the fraction back
  (`audio.cpp:70-72`), so a stream whose rate is no divisor runs ahead.
- `apply-patches.sh` compares only the files the present series touches, so what
  another series left elsewhere stays.
- The core cannot be linked without Mesa: `guest.mk:34` always compiles
  `gl-osmesa.c`, which calls into it.  `docs/BUILDING.md:246-247`,
  `build-core.sh:65-66` and `setup-mesa.sh:13-15` say that it can.
- `setup-mesa.sh:48` takes any archive for a finished build, so one that was stopped
  half-way is left half built by every later run, and a new pin is not noticed;
  `docs/BUILDING.md:242-243` says that the script checks for both archives and the
  target object.  The link then fails, which is why `PackageIsTheSeries` holds.
- `build-core.sh` says it links the decoders of a staged FFmpeg although the guest may
  have been configured without them; `build-package.sh` configures it anew, which is
  why `SoundIsWhole` is about packages.
- With the null driver `read_bitmap` writes nothing and answers well, and the picture
  of the frame before has red and blue exchanged again (`machine.cpp:497-505`).
- `build-package.sh` writes the archive under its final name, where a stopped run
  leaves a part of it.

## 6. What is not modelled, and the plan

Not modelled: the emulator (its kernel, interpreter, memory model, window server
and file server are external actions, taken from how this code uses them), GL and
its context, audio volume and clamping, the texts of messages and languages, the
options and digests of the test drivers, what the compilers and archives contain,
the native flavour of the builds, and the constant system calls.  Of the null
graphics driver there is a counter of handles and a table of which slot of which
command holds what: that it is right is a question about the emulator's encoding
of its commands, which is not in this source.
Of the filesystem, the walks that count or copy everything out (`each_file`,
`entry_count`) are left out, and so is a write whose end wraps or is further than
the machine has memory, which the code does not guard.  An entry that was peeked
at and then deleted is still answered, as in the code; `ListingIsFair` is about
the names that stayed.  The runs' packages are one name deep; deeper ones are
covered by `PackageContentsIntact`'s proof alone.
What is pinned is pinned once, so that objects over another pin's Mesa headers are
not told apart from those over this one's.  `run-native.cpp` tells a frame's keys in
its script's order and `Frontend` in the buttons' own, since the scripts it is held
against name them in it.
A tree renamed into itself, and a file used after its node was deleted, are
undefined in the code: the model drops the tree and lets the handle do nothing,
and asks no property of either.
A savestate holds the sandbox's memory and so the bus's cached page with the
tables it was looked up in; `Frontend` has no bus, since a state that is loaded
whole leaves `UserBus` in a state it was in before.

The order of the plan was: the clock and the loop with its abstract
specifications; the user bus; the filesystem and its handles; boot; sound; the
calendar; the patch script; then the host with its savestates, the builds over the
patch script's promise, and the proofs of the dialogs, boot, builds and renames.
All of these are built.  What is left, in order:

1. The driven graphics driver, redraws from outside the scheduler (patches 0027
   and 0029), and the null driver's handles, which need the emulator's source.
2. `each_file` and `entry_count`, as a second reading of `MemFs`'s tree.
3. Proofs: what liveness rests on and is not itself liveness, that no phase of the
   loop or of `Init` is without a step, and of `PictureIsTheLatest` the null driver.
