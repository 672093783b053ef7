----------------------------- MODULE MachineTime ----------------------------
(***************************************************************************)
(* What the step loop promises about time, said without its phases.  The   *)
(* machine schedules events while it is in control; time passes by work, a *)
(* bounded amount of it and never while an event is overdue, or by sleep,  *)
(* which passes no deadline; and the loop, when it is in control, calls    *)
(* back nothing but what has come due.                                     *)
(***************************************************************************)
EXTENDS Integers

CONSTANTS
    START,    \* the time the machine begins at
    TIMERS, DELAYS,
    LIMIT     \* the most time one piece of work costs

VARIABLES
    now_us,
    due,
    guest     \* the machine, or its host, is in control; else the loop is

NEVER == -1
Armed == {t \in TIMERS : due[t] # NEVER}

Init ==
    /\ now_us = START
    /\ due = [t \in TIMERS |-> NEVER]
    /\ guest = TRUE

Schedule(t) ==
    /\ guest
    /\ \E delay \in DELAYS : due' = [due EXCEPT ![t] = now_us + delay]
    /\ UNCHANGED <<now_us, guest>>

Unschedule(t) ==
    /\ guest
    /\ due' = [due EXCEPT ![t] = NEVER]
    /\ UNCHANGED <<now_us, guest>>

Fire(t) ==
    /\ ~guest
    /\ t \in Armed
    /\ due[t] <= now_us
    /\ \E at \in {NEVER} \cup {now_us + delay : delay \in DELAYS} :
            due' = [due EXCEPT ![t] = at]
    /\ UNCHANGED <<now_us, guest>>

Work ==
    /\ guest
    /\ ~guest'
    /\ \A t \in Armed : now_us <= due[t]
    /\ \E us \in 0 .. LIMIT : now_us' = now_us + us
    /\ UNCHANGED due

Sleep ==
    /\ ~guest
    /\ now_us < now_us'
    /\ \A t \in Armed : now_us' <= due[t]
    /\ UNCHANGED <<due, guest>>

HandOver ==
    /\ guest' = ~guest
    /\ UNCHANGED <<now_us, due>>

Next ==
    \/ \E t \in TIMERS : Schedule(t) \/ Unschedule(t) \/ Fire(t)
    \/ Work
    \/ Sleep
    \/ HandOver

Spec == Init /\ [][Next]_<<now_us, due, guest>>
=============================================================================
