----------------------------- MODULE DialogQueue ----------------------------
(***************************************************************************)
(* What the host side promises an application that asks the user: the      *)
(* questions wait in one line, in the order they were asked, and each      *)
(* leaves it once, from the front, while no handler holds the kernel lock. *)
(***************************************************************************)
EXTENDS Sequences

CONSTANT DIALOGS

VARIABLES queue, locked

Init == queue = <<>> /\ locked = FALSE

\* A handler takes the lock, and asks.
Ask == \E d \in DIALOGS : queue' = Append(queue, d) /\ locked' = TRUE

Release == locked' = FALSE /\ UNCHANGED queue

\* The answer; the one answered may bring another question.
Answer ==
    /\ ~locked
    /\ queue # <<>>
    /\ \/ queue' = Tail(queue)
       \/ \E d \in DIALOGS : queue' = Append(Tail(queue), d)
    /\ UNCHANGED locked

Next == Ask \/ Release \/ Answer

Spec == Init /\ [][Next]_<<queue, locked>>
=============================================================================
