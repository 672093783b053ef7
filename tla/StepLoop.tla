------------------------------ MODULE StepLoop ------------------------------
(***************************************************************************)
(* machine::run_for_us, the loop that steps the phone, with the clock it   *)
(* moves, the host-side dialog queue it pumps, and the frame around it     *)
(* (FrameAdvance).  Everything runs on one thread, so each phase of an     *)
(* iteration is a step of its own and what the guest does inside           *)
(* system::loop() happens only in the phase that calls it.                 *)
(*                                                                         *)
(* External, modelled from how this code uses them: system::loop() (runs   *)
(* one thread for part of its quantum and reports the instructions, or     *)
(* runs nothing), and the driven ntimer, whose advance() calls back every  *)
(* event that has come due and answers how long until the next.            *)
(*                                                                         *)
(* An operator introduced as a variant is wrong on purpose: put in place   *)
(* of the one it names, it makes some property below fail.                 *)
(***************************************************************************)
EXTENDS VirtualClock, Sequences, SequencesExt

CONSTANTS
    FRAME_US,     \* what FrameAdvance asks for: 1000000 / 60 in the code
    MAX_SLICE,    \* the most instructions one loop() executes (the quantum)
    RUNNABLE,     \* whether a device gave the machine a memory system
    GRAPHICS,     \* whether the machine has a graphics driver
    TIMERS,       \* kernel timer events
    DELAYS,       \* what a timer may be scheduled for, in microseconds
    DIALOGS,      \* requests that may ask the user something
    SLACK,        \* how early, in us, the timer may announce a deadline
    MAX_NOW       \* bound: no frame is begun past this time

ASSUME LoopAssumption ==
    /\ FRAME_US \in Nat \ {0}
    /\ MAX_SLICE \in Nat \ {0}
    /\ RUNNABLE \in BOOLEAN
    /\ GRAPHICS \in BOOLEAN
    /\ DELAYS \subseteq Nat
    /\ SLACK \in Nat
    /\ MAX_NOW \in Nat

VARIABLES
    pc,                  \* where the single thread is
    target,              \* run_for_us: the local `target`
    slice_instructions,  \* machine::slice_instructions_
    next,                \* run_for_us: the local `next`, or NEVER
    due,                 \* the driven ntimer: when each event fires, or NEVER
    pending,             \* host-ui.cpp: g_pending_dialogs
    answering,           \* pump_host_ui: the local `answering`
    locked,              \* the non-recursive kernel lock
    undrawn              \* command lists wait in the graphics driver

loopVars == <<pc, target, slice_instructions, next, due, pending, answering,
              locked, undrawn>>
vars == <<clockVars, loopVars>>

NEVER == -1

Phases == {"host", "check", "loop", "slice", "handler", "dialogs", "answer",
           "draw", "timers", "idle", "screen"}

Armed == {t \in TIMERS : due[t] # NEVER}
Waiting == ToSet(pending) \cup ToSet(answering)

Init ==
    /\ ClockInit
    /\ pc = "host"
    /\ target = EPOCH_US
    /\ slice_instructions = 0
    /\ next = NEVER
    /\ due = [t \in TIMERS |-> NEVER]
    /\ pending = <<>>
    /\ answering = <<>>
    /\ locked = FALSE
    /\ undrawn = FALSE

-----------------------------------------------------------------------------
(* The host, between frames.                                               *)

\* SetTimerCheckUs: a kernel timer of the host's asking, once, never at zero.
SetTimerCheckUs(t, us) ==
    /\ pc = "host"
    /\ us > 0
    /\ due[t] = NEVER
    /\ due' = [due EXCEPT ![t] = now_us + us]
    /\ UNCHANGED <<clockVars, pc, target, slice_instructions, next, pending,
                   answering, locked, undrawn>>

FrameAdvance ==
    /\ pc = "host"
    /\ now_us + FRAME_US <= MAX_NOW
    /\ target' = now_us + FRAME_US
    /\ pc' = "check"
    /\ UNCHANGED <<clockVars, slice_instructions, next, due, pending,
                   answering, locked, undrawn>>

\* read_screen: a direct-access picture is read as it is (`composed` is
\* FALSE); otherwise the windows are composed and the driver pumped.
ReadScreen(composed) ==
    /\ pc = "screen"
    /\ composed => GRAPHICS
    /\ undrawn' = (undrawn /\ ~composed)
    /\ pc' = "host"
    /\ UNCHANGED <<clockVars, target, slice_instructions, next, due, pending,
                   answering, locked>>

-----------------------------------------------------------------------------
(* One iteration of run_for_us.                                            *)

\* while (clock_.now_us() < target) { slice_instructions_ = 0; ... }
Check ==
    /\ pc = "check"
    /\ IF now_us < target
       THEN /\ slice_instructions' = 0
            /\ pc' = IF RUNNABLE THEN "loop" ELSE "dialogs"
       ELSE /\ pc' = "screen"
            /\ UNCHANGED slice_instructions
    /\ UNCHANGED <<clockVars, target, next, due, pending, answering, locked,
                   undrawn>>

\* system::loop() found no thread to run: no callback, no instructions.
LoopIdles ==
    /\ pc = "loop"
    /\ pc' = "dialogs"
    /\ UNCHANGED <<clockVars, target, slice_instructions, next, due, pending,
                   answering, locked, undrawn>>

LoopRuns ==
    /\ pc = "loop"
    /\ pc' = "slice"
    /\ UNCHANGED <<clockVars, target, slice_instructions, next, due, pending,
                   answering, locked, undrawn>>

\* The guest asks for a timer, or drops one.
ScheduleEvent(t, delay) ==
    /\ pc = "slice"
    /\ due' = [due EXCEPT ![t] = now_us + delay]
    /\ UNCHANGED <<clockVars, pc, target, slice_instructions, next, pending,
                   answering, locked, undrawn>>

UnscheduleEvent(t) ==
    /\ pc = "slice"
    /\ t \in Armed
    /\ due' = [due EXCEPT ![t] = NEVER]
    /\ UNCHANGED <<clockVars, pc, target, slice_instructions, next, pending,
                   answering, locked, undrawn>>

\* Variant of ShowYesNoDialog: answered where it was raised, in the handler.
ShowYesNoDialogInPlace(d) ==
    /\ pc = "slice"
    /\ d \notin Waiting
    /\ locked' = TRUE
    /\ answering' = <<d>>
    /\ pc' = "answer"
    /\ UNCHANGED <<clockVars, target, slice_instructions, next, due, pending,
                   undrawn>>

\* A service handler asks the user something: it holds the kernel lock, and
\* the asker waits for its answer before it can ask again.
ShowYesNoDialog(d) ==
    /\ pc = "slice"
    /\ d \notin Waiting
    /\ locked' = TRUE
    /\ pending' = Append(pending, d)
    /\ pc' = "handler"
    /\ UNCHANGED <<clockVars, target, slice_instructions, next, due,
                   answering, undrawn>>

HandlerReturns ==
    /\ pc = "handler"
    /\ locked' = FALSE
    /\ pc' = "slice"
    /\ UNCHANGED <<clockVars, target, slice_instructions, next, due, pending,
                   answering, undrawn>>

\* Variant of EndSlice: the clock is told, the loop is not.
EndSliceUncounted(n, draws) ==
    /\ pc = "slice"
    /\ SpendInstructions(n)
    /\ undrawn' = (undrawn \/ draws)
    /\ pc' = "dialogs"
    /\ UNCHANGED <<target, slice_instructions, next, due, pending, answering,
                   locked>>

\* The quantum is over, or the thread waits: the ticks callback is told, once
\* and never with zero, and it moves the clock.
EndSlice(n, draws) ==
    /\ pc = "slice"
    /\ slice_instructions' = slice_instructions + n
    /\ SpendInstructions(n)
    /\ undrawn' = (undrawn \/ draws)
    /\ pc' = "dialogs"
    /\ UNCHANGED <<target, next, due, pending, answering, locked>>

\* Variants of TakeDialogs: the queue stays where it was, or is lost.
TakeDialogsKeeping ==
    /\ pc = "dialogs"
    /\ answering' = pending
    /\ pc' = "answer"
    /\ UNCHANGED <<clockVars, target, slice_instructions, next, due, pending,
                   locked, undrawn>>

TakeDialogsDropping ==
    /\ pc = "dialogs"
    /\ pending' = <<>>
    /\ pc' = "answer"
    /\ UNCHANGED <<clockVars, target, slice_instructions, next, due, answering,
                   locked, undrawn>>

\* pump_host_ui: the queue is taken away before any of it runs.
TakeDialogs ==
    /\ pc = "dialogs"
    /\ answering' = pending
    /\ pending' = <<>>
    /\ pc' = "answer"
    /\ UNCHANGED <<clockVars, target, slice_instructions, next, due, locked,
                   undrawn>>

\* callback(1): completing the request takes the kernel lock and lets it go,
\* and the callback may raise another dialog (`raised` holds it, or nothing).
AnswerDialog(raised) ==
    /\ pc = "answer"
    /\ answering # <<>>
    /\ ToSet(raised) \cap ToSet(pending \o Tail(answering)) = {}
    /\ answering' = Tail(answering)
    /\ pending' = pending \o raised
    /\ UNCHANGED <<clockVars, pc, target, slice_instructions, next, due,
                   locked, undrawn>>

DialogsAnswered ==
    /\ pc = "answer"
    /\ answering = <<>>
    /\ pc' = "draw"
    /\ UNCHANGED <<clockVars, target, slice_instructions, next, due, pending,
                   answering, locked, undrawn>>

\* gdriver_->pump(), when there is a driver: everything queued is drawn.
PumpDriver ==
    /\ pc = "draw"
    /\ undrawn' = (undrawn /\ ~GRAPHICS)
    /\ pc' = "timers"
    /\ UNCHANGED <<clockVars, target, slice_instructions, next, due, pending,
                   answering, locked>>

\* Variant of FireEvent: a little before its time.
FireEventEarly(t, again, draws) ==
    /\ pc = "timers"
    /\ t \in Armed
    /\ due[t] <= now_us + 1
    /\ due' = [due EXCEPT ![t] = IF again = 0 THEN NEVER ELSE now_us + again]
    /\ undrawn' = (undrawn \/ draws)
    /\ UNCHANGED <<clockVars, pc, target, slice_instructions, next, pending,
                   answering, locked>>

\* ntimer::advance(): the callback of an event that has come due, earliest
\* first; it may schedule its own event again, a period from now, and the
\* window server's redraws are such callbacks.
FireEvent(t, again, draws) ==
    /\ pc = "timers"
    /\ t \in Armed
    /\ due[t] <= now_us
    /\ \A u \in Armed : due[t] <= due[u]
    /\ due' = [due EXCEPT ![t] = IF again = 0 THEN NEVER ELSE now_us + again]
    /\ undrawn' = (undrawn \/ draws)
    /\ UNCHANGED <<clockVars, pc, target, slice_instructions, next, pending,
                   answering, locked>>

\* The answers advance() may give once nothing due is left: NEVER when no
\* event is scheduled, else the wait until the earliest, or up to SLACK less.
Waits ==
    IF Armed = {} THEN {NEVER}
    ELSE {w \in {due[t] - now_us - early : t \in Armed, early \in 0 .. SLACK} :
             w >= 0 /\ \A t \in Armed : now_us + w <= due[t]}

AdvanceReturns ==
    /\ pc = "timers"
    /\ \A t \in Armed : due[t] > now_us
    /\ next' \in Waits
    /\ pc' = "idle"
    /\ UNCHANGED <<clockVars, target, slice_instructions, due, pending,
                   answering, locked, undrawn>>

Remaining == target - now_us

\* Variants of Jump: to the end of the frame whatever is due, and by a wait
\* that may be zero.
JumpPastDeadlines == Remaining
JumpByAnswer == IF next = NEVER THEN Remaining ELSE next

\* next.has_value() ? max(next.value(), 1) : remaining
Jump == IF next = NEVER THEN Remaining ELSE IF next > 1 THEN next ELSE 1

\* Variant of IdleJump: not held to the end of the frame.
IdleJumpUnbounded == Jump

\* min(jump, remaining)
IdleJump == IF Jump < Remaining THEN Jump ELSE Remaining

\* Variant of EndIteration: time is bought even when something ran.
EndIterationAlwaysJumps ==
    /\ pc = "idle"
    /\ AdvanceUs(IdleJump)
    /\ next' = NEVER
    /\ pc' = "check"
    /\ UNCHANGED <<target, slice_instructions, due, pending, answering, locked,
                   undrawn>>

\* Something ran: look again at once.  Nothing ran: buy the time outright.
EndIteration ==
    /\ pc = "idle"
    /\ IF slice_instructions # 0
       THEN UNCHANGED clockVars
       ELSE AdvanceUs(IdleJump)
    /\ next' = NEVER
    /\ pc' = "check"
    /\ UNCHANGED <<target, slice_instructions, due, pending, answering, locked,
                   undrawn>>

-----------------------------------------------------------------------------

Raised == {<<>>} \cup {<<d>> : d \in DIALOGS}
Draws == IF GRAPHICS THEN BOOLEAN ELSE {FALSE}

\* What the code does next, once entered: it never stops half way.
Code ==
    \/ Check
    \/ HandlerReturns
    \/ TakeDialogs
    \/ \E raised \in Raised : AnswerDialog(raised)
    \/ DialogsAnswered
    \/ PumpDriver
    \/ \E t \in TIMERS, again \in DELAYS, draws \in Draws :
            FireEvent(t, again, draws)
    \/ AdvanceReturns
    \/ EndIteration
    \/ \E composed \in BOOLEAN : ReadScreen(composed)

\* loop(): a thread runs, or none can, and a thread that runs is stopped.
LoopReturns ==
    \/ LoopIdles
    \/ LoopRuns
    \/ \E n \in 1 .. MAX_SLICE, draws \in Draws : EndSlice(n, draws)

\* What the guest may do while it runs, and the host between frames.
Guest ==
    \/ \E t \in TIMERS, delay \in DELAYS : ScheduleEvent(t, delay)
    \/ \E t \in TIMERS : UnscheduleEvent(t)
    \/ \E d \in DIALOGS : ShowYesNoDialog(d)

Host ==
    \/ FrameAdvance
    \/ \E t \in TIMERS, us \in DELAYS : SetTimerCheckUs(t, us)

Next == Code \/ LoopReturns \/ Guest \/ Host

Spec == Init /\ [][Next]_vars

\* One thread of straight code, and an interpreter that stops at the end of
\* the quantum: each goes on as long as it can.  The guest and the host are
\* owed nothing.
FairSpec == Spec /\ WF_vars(Code) /\ WF_vars(LoopReturns)

-----------------------------------------------------------------------------

TypeOK ==
    /\ ClockTypeOK
    /\ pc \in Phases
    /\ target \in Nat
    /\ slice_instructions \in Nat
    /\ next \in Nat \cup {NEVER}
    /\ due \in [TIMERS -> Nat \cup {NEVER}]
    /\ pending \in Seq(DIALOGS)
    /\ answering \in Seq(DIALOGS)
    /\ locked \in BOOLEAN
    /\ undrawn \in BOOLEAN

(***************************************************************************)
(* The subtraction `target - now` that sizes the idle jump is done in      *)
(* unsigned arithmetic after loop(), two callbacks and the timers: it must *)
(* never be reached once the clock has passed the target.                  *)
(***************************************************************************)
NeverIdlesPastTarget ==
    pc = "idle" /\ slice_instructions = 0 => now_us < target

(***************************************************************************)
(* A timer is late by less than one slice of instructions plus a           *)
(* microsecond, however slices, idle jumps, dialogs and frame ends fall:   *)
(* idle time never jumps over a deadline, and every slice is followed by   *)
(* the timers before another can run (machine.cpp:1151-1165).              *)
(***************************************************************************)
TimersAreNearlyOnTime ==
    \A t \in Armed : now_us <= due[t] + SliceCost(MAX_SLICE)

(***************************************************************************)
(* run_for_us "runs the machine until its own clock has moved" the frame   *)
(* forward: it comes back at the target, or past it by less than what the  *)
(* last slice cost (machine.h:237-240).                                    *)
(***************************************************************************)
FrameEndsOnTime ==
    pc = "screen" => /\ target <= now_us
                     /\ now_us < target + SliceCost(MAX_SLICE)

(***************************************************************************)
(* Completing a request takes the kernel lock, which is not recursive: no  *)
(* dialog is ever being answered while a handler holds it (host-ui.cpp).   *)
(* It says too that no asker waits twice, so none is answered twice for    *)
(* one question.                                                           *)
(***************************************************************************)
AnsweredOutsideTheLock ==
    /\ pc = "answer" => ~locked
    /\ IsInjective(answering \o pending)

(***************************************************************************)
(* Time bought outright ends where something happens: at the target, or at *)
(* a deadline, or short of one by no more than the timer was early in      *)
(* announcing it; and it is never bought past either (machine.cpp:1159).   *)
(***************************************************************************)
IdleJumpsLandOnDeadlines ==
    [][bought_us' # bought_us =>
          /\ now_us < now_us' /\ now_us' <= target
          /\ \A t \in Armed : now_us' <= due[t]
          /\ now_us' = target \/ \E t \in Armed : due[t] <= now_us' + SLACK
      ]_vars

(***************************************************************************)
(* Every frame ends: no wait of zero, endless chain of dialogs or handler  *)
(* can hold the machine inside run_for_us.                                 *)
(***************************************************************************)
FramesEnd == pc = "check" ~> pc = "host"

(***************************************************************************)
(* "One left waiting hangs the machine": a dialog raised while a thread    *)
(* ran gets its turn to be answered.                                       *)
(***************************************************************************)
AskersAreAnswered ==
    \A d \in DIALOGS :
        (pc = "handler" /\ d \in ToSet(pending))
            ~> (answering # <<>> /\ Head(answering) = d)

(***************************************************************************)
(* "An empty machine is useful for testing" (machine.cpp:1127-1132): until *)
(* something has run, and for ever on a machine with no device, each frame *)
(* ends at its target to the microsecond and no timer is late at all,      *)
(* which is what two builds are compared on.                               *)
(***************************************************************************)
EmptyMachineIsExact ==
    instructions = 0 => /\ pc = "screen" => now_us = target
                        /\ \A t \in Armed : now_us <= due[t]

\* What the loop does to time and timers, against MachineTime.
Time == INSTANCE MachineTime WITH
            START <- EPOCH_US,
            LIMIT <- SliceCost(MAX_SLICE),
            guest <- pc \in {"slice", "host"}

(***************************************************************************)
(* The step loop implements MachineTime: a machine with nothing to run     *)
(* sleeps, but never past a deadline; one that runs never runs with an     *)
(* event overdue; nothing is called back before it is due.                 *)
(***************************************************************************)
ImplementsMachineTime == Time!Spec

\* The line of askers: the ones being answered, then the ones queued since.
Askers == INSTANCE DialogQueue WITH queue <- answering \o pending

(***************************************************************************)
(* The swap of the queue in pump_host_ui is invisible: askers are answered *)
(* in the order they asked, once each, outside the kernel lock, even when  *)
(* an answer raises another question.                                      *)
(***************************************************************************)
ImplementsDialogQueue == Askers!Spec

=============================================================================
