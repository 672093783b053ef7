------------------------------ MODULE AudioSink ------------------------------
(***************************************************************************)
(* audio_sink and its streams: a frame's worth of sound is pulled from     *)
(* every playing stream when the frame ends.                               *)
(*                                                                         *)
(* A sample is which of its stream's frames it is, so an output frame is   *)
(* the set of the samples summed into it; channels, volume and clamping    *)
(* are left out.  External: the streams' callbacks, which are the          *)
(* emulator's and may use the sink while they run.                         *)
(***************************************************************************)
EXTENDS Integers, Sequences, FiniteSets, SequencesExt

CONSTANTS
    STREAMS,       \* stream objects, each made at most once
    RATES,         \* rates a stream may be opened at
    OUT_RATE,      \* sample_rate_
    FRAMES,        \* what one render asks for
    NOBODY,
    CALLBACKS_END, \* whether a callback may end a stream
    MAX_RENDERS    \* bound: renders in which one stream is pulled

ASSUME AudioAssumption ==
    /\ RATES \subseteq Nat \ {0}
    /\ OUT_RATE \in Nat \ {0}
    /\ FRAMES \in Nat \ {0}
    /\ NOBODY \notin STREAMS
    /\ CALLBACKS_END \in BOOLEAN
    /\ MAX_RENDERS \in Nat

VARIABLES
    streams,   \* streams_
    rate,      \* sample_rate of each stream; 0 before it is made
    ended,     \* the streams whose destructor has run
    playing,   \* playing_
    position,  \* position_
    renders,   \* history: how often each stream's callback was asked
    rest,      \* what is left of render's copy of streams_
    mixing,    \* the stream whose callback is running
    out        \* the output frames

streamVars == <<streams, rate, ended, playing>>
vars == <<streamVars, position, renders, rest, mixing, out>>

OutFrames == 0 .. (FRAMES - 1)
Silence == [i \in OutFrames |-> {}]
Live(s) == rate[s] # 0 /\ s \notin ended

Init ==
    /\ streams = <<>>
    /\ rate = [s \in STREAMS |-> 0]
    /\ ended = {}
    /\ playing = [s \in STREAMS |-> FALSE]
    /\ position = [s \in STREAMS |-> 0]
    /\ renders = [s \in STREAMS |-> 0]
    /\ rest = <<>>
    /\ mixing = NOBODY
    /\ out = Silence

-----------------------------------------------------------------------------
(* What the emulator does with streams, between renders and in callbacks.  *)

Runs == rest = <<>> \/ mixing # NOBODY

NewOutputStream(s, r) ==
    /\ Runs
    /\ rate[s] = 0
    /\ rate' = [rate EXCEPT ![s] = r]
    /\ streams' = Append(streams, s)
    /\ UNCHANGED <<ended, playing, position, renders, rest, mixing, out>>

StartStream(s) ==
    /\ Runs
    /\ Live(s)
    /\ playing' = [playing EXCEPT ![s] = TRUE]
    /\ UNCHANGED <<streams, rate, ended, position, renders, rest, mixing, out>>

\* stop and pause
StopStream(s) ==
    /\ Runs
    /\ Live(s)
    /\ playing' = [playing EXCEPT ![s] = FALSE]
    /\ UNCHANGED <<streams, rate, ended, position, renders, rest, mixing, out>>

\* A stream is in the list once, since it is added where it is made.
EndStream(s) ==
    /\ rest = <<>> \/ (CALLBACKS_END /\ mixing # NOBODY)
    /\ Live(s)
    /\ ended' = ended \cup {s}
    /\ \E k \in DOMAIN streams :
           streams[k] = s /\ streams' = RemoveAt(streams, k)
    /\ UNCHANGED <<rate, playing, position, renders, rest, mixing, out>>

-----------------------------------------------------------------------------
(* render and mix_into.                                                    *)

\* How many of a stream's frames a render is worth.
Want(r) == (FRAMES * r + OUT_RATE - 1) \div OUT_RATE

\* The stream's frame that output frame i holds.
Source(i, want) == IF want = FRAMES THEN i ELSE (i * want) \div FRAMES

Render ==
    /\ rest = <<>>
    /\ streams # <<>>
    /\ out' = Silence
    /\ rest' = streams
    /\ UNCHANGED <<streamVars, position, renders, mixing>>

\* A stream that does not play is not asked.
SkipStream ==
    /\ rest # <<>> /\ mixing = NOBODY
    /\ Live(Head(rest))
    /\ ~playing[Head(rest)]
    /\ rest' = Tail(rest)
    /\ UNCHANGED <<streamVars, position, renders, mixing, out>>

CallBack ==
    /\ rest # <<>> /\ mixing = NOBODY
    /\ Live(Head(rest))
    /\ playing[Head(rest)]
    /\ renders[Head(rest)] < MAX_RENDERS
    /\ mixing' = Head(rest)
    /\ renders' = [renders EXCEPT ![Head(rest)] = @ + 1]
    /\ UNCHANGED <<streamVars, position, rest, out>>

\* Variants of Taken: the stream goes on from where it was, or from where it
\* was asked to be.
TakenNothing(got) == 0
TakenWhole(got) == IF got = 0 THEN 0 ELSE Want(rate[mixing])

\* How far a callback's answer moves its stream.
Taken(got) == got

\* The callback gives `got` frames, fewer than it was asked for when it has
\* no more.
MixInto(got) ==
    /\ mixing # NOBODY
    /\ Live(mixing)
    /\ LET want == Want(rate[mixing])
       IN  /\ got <= want
           /\ out' = [i \in OutFrames |->
                  IF Source(i, want) < got
                  THEN out[i] \cup {<<mixing, position[mixing] + Source(i, want)>>}
                  ELSE out[i]]
    /\ position' = [position EXCEPT ![mixing] = @ + Taken(got)]
    /\ rest' = Tail(rest)
    /\ mixing' = NOBODY
    /\ UNCHANGED <<streamVars, renders>>

-----------------------------------------------------------------------------

Next ==
    \/ \E s \in STREAMS, r \in RATES : NewOutputStream(s, r)
    \/ \E s \in STREAMS : StartStream(s) \/ StopStream(s) \/ EndStream(s)
    \/ Render \/ SkipStream \/ CallBack
    \/ mixing # NOBODY /\ \E got \in 0 .. Want(rate[mixing]) : MixInto(got)

Spec == Init /\ [][Next]_vars

-----------------------------------------------------------------------------

\* The samples of s in output frame i.
Heard(s, i) == {x \in out[i] : x[1] = s}

(***************************************************************************)
(* The sink invents nothing: an output frame has at most one sample of a   *)
(* stream, one the stream has given and counts in its position, and the    *)
(* samples of a stream come in its order ("a core may not invent samples   *)
(* the machine did not make", audio.cpp:85-86).                            *)
(***************************************************************************)
NothingIsInvented ==
    \A s \in STREAMS, i \in OutFrames :
        /\ Cardinality(Heard(s, i)) <= 1
        /\ \A x \in Heard(s, i) :
               /\ x[2] < position[s]
               /\ \A j \in i .. (FRAMES - 1) : \A y \in Heard(s, j) : x[2] <= y[2]

(***************************************************************************)
(* And drops nothing of a stream that is no faster than the sink: what the *)
(* position says was played is in the output, each of it, so nothing a     *)
(* callback gave is skipped (mix_into).                                    *)
(***************************************************************************)
NothingIsDropped ==
    [][\A s \in STREAMS :
          position'[s] # position[s] /\ rate[s] <= OUT_RATE =>
              \A k \in position[s] .. (position'[s] - 1) :
                  \E i \in OutFrames : <<s, k>> \in out'[i]]_vars

(***************************************************************************)
(* What render has yet to come to is still there: it walks a copy of the   *)
(* list because "a stream may end while it is being mixed, and ending      *)
(* removes it from the list" (audio.cpp:145-146), but a stream that        *)
(* another one's callback has ended stays in the copy and is used when its *)
(* turn comes (audio_sink::render).                                        *)
(***************************************************************************)
EndedIsOver == \A i \in 1 .. Len(rest) : rest[i] # mixing => Live(rest[i])
=============================================================================
