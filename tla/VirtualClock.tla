---------------------------- MODULE VirtualClock ----------------------------
(***************************************************************************)
(* The machine's clock (src/waterbox/vclock.cpp).  Time is bought in two   *)
(* ways only: by instructions the processor executed, at a fixed rate and  *)
(* with the fraction of a microsecond carried over, and outright, when     *)
(* nothing could run.  No host clock is read.                              *)
(***************************************************************************)
EXTENDS Integers

CONSTANTS
    EPOCH_US,                 \* what the machine believes the date is at start
    INSTRUCTIONS_PER_SECOND,  \* the rate the embedder asked for; may be 0
    MICROS                    \* microseconds in a second: 1000000 in the code

ASSUME ClockAssumption ==
    /\ EPOCH_US \in Nat
    /\ INSTRUCTIONS_PER_SECOND \in Nat
    /\ MICROS \in Nat \ {0}

VARIABLES
    now_us,         \* virtual_clock::now_us_
    remainder,      \* virtual_clock::remainder_, in 1/Rate of a microsecond
    instructions,   \* virtual_clock::instructions_
    bought_us       \* history: the time bought outright so far

clockVars == <<now_us, remainder, instructions, bought_us>>

\* A rate of zero is taken as one instruction a second.
Rate == IF INSTRUCTIONS_PER_SECOND = 0 THEN 1 ELSE INSTRUCTIONS_PER_SECOND

ClockInit ==
    /\ now_us = EPOCH_US
    /\ remainder = 0
    /\ instructions = 0
    /\ bought_us = 0

\* What `n` instructions owe, on top of the fraction already owed.
Owed(n) == remainder + n * MICROS

AdvanceUs(us) ==
    /\ now_us' = now_us + us
    /\ bought_us' = bought_us + us
    /\ UNCHANGED <<remainder, instructions>>

\* Variant of SpendInstructions: the fraction of a microsecond is forgotten.
SpendInstructionsForgetful(n) ==
    /\ instructions' = instructions + n
    /\ now_us' = now_us + (Owed(n) \div Rate)
    /\ remainder' = 0
    /\ UNCHANGED bought_us
SpendInstructions(n) ==
    /\ instructions' = instructions + n
    /\ now_us' = now_us + (Owed(n) \div Rate)
    /\ remainder' = Owed(n) % Rate
    /\ UNCHANGED bought_us

\* The most time one slice of `n` instructions can cost.
SliceCost(n) == (Rate - 1 + n * MICROS) \div Rate

-----------------------------------------------------------------------------

ClockTypeOK ==
    /\ now_us \in Nat
    /\ remainder \in 0 .. (Rate - 1)
    /\ instructions \in Nat
    /\ bought_us \in Nat

(***************************************************************************)
(* Not a fraction of a microsecond is lost or invented however the work is *)
(* cut into slices: what the clock moved beyond the time it was given      *)
(* outright, plus the fraction it still owes, is the exact price of every  *)
(* instruction executed (vclock.h:30-32, "a million one-instruction steps  *)
(* cost exactly what one million-instruction step costs").                 *)
(***************************************************************************)
CostIsExact ==
    (now_us - EPOCH_US - bought_us) * Rate + remainder = instructions * MICROS
=============================================================================
