------------------------------ MODULE Frontend ------------------------------
(***************************************************************************)
(* A host playing the core: levels told for every button of the keypad, a  *)
(* frame, the picture it leaves, and savestates made and gone back to      *)
(* anywhere in between, in this process or another.                        *)
(*                                                                         *)
(* External: the emulator.  It is deterministic, so it is as it is because *)
(* of what has been done to it, and that sequence stands for it; Screen    *)
(* says what its screen then looks like.                                   *)
(***************************************************************************)
EXTENDS Integers, Sequences, SequencesExt, FiniteSetsExt

CONSTANTS
    N_BUTTONS,     \* BUTTON_COUNT
    PHONES,        \* [server, driver, app]: has it a window server, a driver
    Screen(_, _),  \* what a phone's screen is, after what was done to it: one
                   \* of Screens
    MAX_SIZE,      \* MAX_WIDTH and MAX_HEIGHT
    SLOTS,         \* files a state is kept in
    NONE,
    MAX_FRAMES     \* bound: frames of a movie

Colours == (0 .. 255) \X (0 .. 255) \X (0 .. 255)

\* What a phone shows: does a client draw on the panel, is the panel upright,
\* is there a texture of the windows, does the driver read it when it is asked
\* to, and what has been drawn on either.
Screens ==
    [direct : BOOLEAN, upright : BOOLEAN, texture : BOOLEAN, read : BOOLEAN,
     depth : {8, 12, 16, 24, 32}, size : Nat, drawn : Colours, windows : Colours]

Pictures == [size : Nat, colour : Colours]

ASSUME FrontendAssumption ==
    /\ N_BUTTONS \in Nat \ {0}
    /\ \A phone \in PHONES : phone.server \in BOOLEAN /\ phone.driver \in BOOLEAN
    /\ MAX_SIZE \in Nat /\ MAX_FRAMES \in Nat
    /\ NONE \notin Pictures

VARIABLES
    machine,  \* the sandbox's memory: the phone emulated, buttons_, g_video,
              \* and what was done to it
    held,     \* the levels told so far of the frame to come
    movie,    \* history: the levels of every frame, as a host records them
    states    \* what is in the files

vars == <<machine, held, movie, states>>

BUTTONS == 1 .. N_BUTTONS
BLANK == [size |-> 0, colour |-> <<0, 0, 0>>]

Booted(phone) ==
    [phone |-> phone, buttons |-> [i \in BUTTONS |-> FALSE], did |-> <<>>,
     video |-> BLANK]

Init ==
    /\ \E phone \in PHONES : machine = Booted(phone)
    /\ held = <<>> /\ movie = <<>>
    /\ states = [s \in SLOTS |-> NONE]

-----------------------------------------------------------------------------
(* The machine's part: each takes a machine and answers it afterwards.     *)

Does(m, what) == [m EXCEPT !.did = Append(@, what)]

\* Variant of set_button: the window server is told of levels.
set_button_level(m, i, level) ==
    LET told == [m EXCEPT !.buttons[i] = level]
    IN  IF m.phone.server THEN Does(told, <<"key", i, level>>) ELSE told

\* Levels, of which the window server is told the changes.
set_button(m, i, level) ==
    LET told == [m EXCEPT !.buttons[i] = level]
    IN  IF m.buttons[i] = level THEN m
        ELSE IF m.phone.server THEN Does(told, <<"key", i, level>>)
        ELSE told

run_for_us(m) == Does(m, <<"run">>)

\* Pulling sound runs the machine's own callbacks.
render_audio(m) == Does(m, <<"pull">>)

\* External: how a panel's memory holds a colour, 0x0RGB, 565 or B, G, R, and
\* how the compositor reads one back, the bytes R, G, B, A.
Painted(depth, c) ==
    CASE depth = 12 -> (c[1] \div 16) * 256 + (c[2] \div 16) * 16 + c[3] \div 16
      [] depth = 16 -> (c[1] \div 8) * 2048 + (c[2] \div 4) * 32 + c[3] \div 8
      [] OTHER -> c[1] * 65536 + c[2] * 256 + c[3]
Composed(c) == c[1] + c[2] * 256 + c[3] * 65536

\* So many bits of a word, from a bit up.
Bits(word, from, count) == (word \div 2 ^ from) % 2 ^ count

\* Variant of rgba_bytes_to_argb: the word as it is.
argb_to_argb(word) == <<Bits(word, 16, 8), Bits(word, 8, 8), Bits(word, 0, 8)>>

\* A word whose bytes are R, G, B, A; the last is written over.
rgba_bytes_to_argb(word) ==
    <<Bits(word, 0, 8), Bits(word, 8, 8), Bits(word, 16, 8)>>

unpack12(v) == <<Bits(v, 8, 4) * 17, Bits(v, 4, 4) * 17, Bits(v, 0, 4) * 17>>

unpack16(v) ==
    <<(Bits(v, 11, 5) * 255) \div 31, (Bits(v, 5, 6) * 255) \div 63,
      (Bits(v, 0, 5) * 255) \div 31>>

\* Three bytes, or a word's low three: B, G, R.
unpack24(v) == <<Bits(v, 16, 8), Bits(v, 8, 8), Bits(v, 0, 8)>>

\* read_framebuffer: the panel's own memory, unless it is turned, empty, or in
\* a depth that is not known.
read_framebuffer(scr) ==
    LET panel == Painted(scr.depth, scr.drawn)
    IN  IF ~scr.upright \/ scr.size = 0 \/ scr.depth \notin {12, 16, 24, 32}
        THEN NONE
        ELSE [size |-> scr.size,
              colour |-> CASE scr.depth = 12 -> unpack12(panel)
                           [] scr.depth = 16 -> unpack16(panel)
                           [] OTHER -> unpack24(panel)]

\* read_screen, the machine afterwards and the picture: composing is the
\* machine's doing, and goes on whether there is anything to read or not.
read_screen(m) ==
    LET scr == Screen(m.phone, m.did)
        direct == IF scr.direct THEN read_framebuffer(scr) ELSE NONE
    IN  IF ~m.phone.server THEN [m |-> m, picture |-> NONE]
        ELSE IF direct # NONE THEN [m |-> m, picture |-> direct]
        ELSE IF ~m.phone.driver THEN [m |-> m, picture |-> NONE]
        ELSE [m |-> Does(m, <<"compose">>),
              picture |-> IF ~scr.texture \/ scr.size = 0 \/ ~scr.read THEN NONE
                          ELSE [size |-> scr.size, colour |->
                                   rgba_bytes_to_argb(Composed(scr.windows))]]

-----------------------------------------------------------------------------
(* The core's exports.                                                     *)

SetButton(level) ==
    /\ Len(held) < N_BUTTONS
    /\ machine' = set_button(machine, Len(held) + 1, level)
    /\ held' = Append(held, level)
    /\ UNCHANGED <<movie, states>>

\* The frame, its sound, and its picture if there is one that fits.
Advanced(m) ==
    LET read == read_screen(render_audio(run_for_us(m)))
    IN  IF read.picture # NONE /\ read.picture.size \in 1 .. MAX_SIZE
        THEN [read.m EXCEPT !.video = read.picture]
        ELSE read.m

FrameAdvance ==
    /\ Len(held) = N_BUTTONS
    /\ Len(movie) < MAX_FRAMES
    /\ machine' = Advanced(machine)
    /\ movie' = Append(movie, held)
    /\ held' = <<>>
    /\ UNCHANGED states

-----------------------------------------------------------------------------
(* The host.                                                               *)

\* The sandbox's memory whole, and the host's own place in its movie.
SaveState(s) ==
    /\ states' = [states EXCEPT ![s] =
           [machine |-> machine, held |-> held, movie |-> movie]]
    /\ UNCHANGED <<machine, held, movie>>

\* Variant of LoadState: the levels are kept where a state does not reach.
LoadStateKeepingLevels(s) ==
    /\ states[s] # NONE
    /\ machine' = [states[s].machine EXCEPT !.buttons = machine.buttons]
    /\ held' = states[s].held
    /\ movie' = states[s].movie
    /\ UNCHANGED states

LoadState(s) ==
    /\ states[s] # NONE
    /\ machine' = states[s].machine
    /\ held' = states[s].held
    /\ movie' = states[s].movie
    /\ UNCHANGED states

\* Another process, with the same project: a machine booted anew, and sealed.
NewProcess ==
    /\ machine' = Booted(machine.phone)
    /\ held' = <<>> /\ movie' = <<>>
    /\ UNCHANGED states

Next ==
    \/ \E level \in BOOLEAN : SetButton(level)
    \/ FrameAdvance
    \/ \E s \in SLOTS : SaveState(s) \/ LoadState(s)
    \/ NewProcess

Spec == Init /\ [][Next]_vars

-----------------------------------------------------------------------------
(* The native reference: its own loop over a script, in one go.            *)

NobodyHeld == [i \in BUTTONS |-> FALSE]

\* The script names a key when it is pressed and when it is let go; here one
\* that names a frame's keys in the order of the buttons, as the core is told.
NativeKeys(m, before, levels) ==
    LET told[i \in 0 .. Len(levels)] ==
            IF i = 0 THEN m
            ELSE IF levels[i] = before[i] THEN told[i - 1]
            ELSE set_button(told[i - 1], i, levels[i])
    IN  told[Len(levels)]

NativeFrame(m, before, levels) ==
    read_screen(render_audio(run_for_us(NativeKeys(m, before, levels)))).m

\* The reference, run without a break through what a movie says.
Reference(phone, mv) ==
    LET after[n \in 0 .. Len(mv)] ==
            IF n = 0 THEN Booted(phone)
            ELSE NativeFrame(after[n - 1],
                             IF n = 1 THEN NobodyHeld ELSE mv[n - 1], mv[n])
    IN  after[Len(mv)]

-----------------------------------------------------------------------------

(***************************************************************************)
(* However often a movie's maker has saved, gone back, taken another turn  *)
(* or gone on in another process, the machine is the one the reference     *)
(* arrives at in one go over the movie as it now stands: "the machine      *)
(* saved and reloaded before EVERY frame runs identically to one that was  *)
(* not" and "the machine ends where the uninterrupted run did"             *)
(* (docs/PLAN.md:182-186; FrameAdvance and run-native.cpp's loop).         *)
(***************************************************************************)
MachineIsTheReference ==
    held = <<>> =>
        LET reference == Reference(machine.phone, movie)
        IN  /\ machine.did = reference.did
            /\ machine.buttons = reference.buttons

\* What the window server was told of a button, in order.
Told(did, i) ==
    LET told[n \in 0 .. Len(did)] ==
            IF n = 0 THEN <<>>
            ELSE IF did[n][1] = "key" /\ did[n][2] = i
            THEN Append(told[n - 1], did[n][3])
            ELSE told[n - 1]
    IN  told[Len(did)]

(***************************************************************************)
(* The phone sees keys pressed and let go in turn, beginning with a press, *)
(* and last the level the host last told, whatever states were loaded      *)
(* while other keys were held: "the machine is told only about the         *)
(* changes" (machine.h:228-229).                                           *)
(***************************************************************************)
KeysComeInTurn ==
    \A i \in BUTTONS :
        LET told == Told(machine.did, i)
        IN  /\ \A k \in DOMAIN told : told[k] = (k % 2 = 1)
            /\ machine.phone.server /\ i <= Len(held) =>
                   held[i] = (told # <<>> /\ Last(told))

\* What somebody would see who looked at the phone: the panel where a direct
\* client draws, when it can be read, and otherwise what is composed.
OnThePanel(scr) == scr.direct /\ scr.upright /\ scr.depth # 8
IsSeen(phone, scr) ==
    /\ phone.server
    /\ OnThePanel(scr) \/ (phone.driver /\ scr.texture /\ scr.read)
Seen(scr) == IF OnThePanel(scr) THEN scr.drawn ELSE scr.windows

\* As near as a panel with so many levels of a colour comes.
Coarse(scr) ==
    IF ~OnThePanel(scr) THEN 0
    ELSE CASE scr.depth = 12 -> 15 [] scr.depth = 16 -> 7 [] OTHER -> 0

\* The frames that ended with something to see, of all that was done.
FramesSeen(phone, did) ==
    {k \in DOMAIN did :
        /\ did[k] = <<"pull">>
        /\ LET scr == Screen(phone, SubSeq(did, 1, k))
           IN  IsSeen(phone, scr) /\ scr.size \in 1 .. MAX_SIZE}

ShowsTheLatest(phone, did, video) ==
    LET frames == FramesSeen(phone, did)
        scr == Screen(phone, SubSeq(did, 1, Max(frames)))
    IN  IF frames = {} THEN video = BLANK
        ELSE /\ video.size = scr.size
             /\ \A c \in 1 .. 3 :
                    video.colour[c] - Seen(scr)[c] \in -Coarse(scr) .. Coarse(scr)

(***************************************************************************)
(* The picture shown is the last the phone had that could be read and fits *)
(* the buffer, in the phone's own colours: a picture in each depth, and    *)
(* one composed, all mean the same red and the same blue, and a state that *)
(* is loaded brings its own picture (read_screen, FrameAdvance, and        *)
(* "Known values in, known colours out, for both paths a picture takes",   *)
(* machine.cpp:308-318).                                                   *)
(***************************************************************************)
PictureIsTheLatest ==
    ShowsTheLatest(machine.phone, machine.did, machine.video)
=============================================================================
