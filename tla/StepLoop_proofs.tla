--------------------------- MODULE StepLoop_proofs ---------------------------
(***************************************************************************)
(* The step loop's promises about time, for every rate, frame length, set  *)
(* of timers and number of dialogs.                                        *)
(***************************************************************************)
EXTENDS StepLoop, SequenceTheorems, TLAPS

-----------------------------------------------------------------------------
(* The clock's two operations, for every rate and every second's length.    *)

LEMMA RateIsPositive == Rate \in Nat \ {0} /\ MICROS \in Nat \ {0}
  BY ClockAssumption DEF Rate

\* What integer division leaves.
LEMMA DivMod ==
  ASSUME NEW a \in Nat, NEW b \in Nat \ {0}
  PROVE  /\ a = b * (a \div b) + (a % b)
         /\ a % b \in 0 .. (b - 1)
         /\ a \div b \in Nat
  BY Z3

\* A larger debt costs no less time.
LEMMA DivMonotone ==
  ASSUME NEW a \in Nat, NEW c \in Nat, NEW b \in Nat \ {0}, a <= c
  PROVE  a \div b <= c \div b
  BY Z3

LEMMA ProductMonotone ==
  ASSUME NEW m \in Nat, NEW n \in Nat, NEW k \in Nat, m <= n
  PROVE  m * k \in Nat /\ n * k \in Nat /\ m * k <= n * k
  BY Z3

\* Spending keeps the clock's variables in their sets.
LEMMA SpendTypeOK ==
  ASSUME NEW n \in Nat, ClockTypeOK, SpendInstructions(n)
  PROVE  ClockTypeOK'
<1>1. Owed(n) \in Nat
  BY RateIsPositive DEF Owed, ClockTypeOK
<1> QED
  BY <1>1, RateIsPositive, DivMod DEF SpendInstructions, ClockTypeOK

\* Spending keeps the books: the quotient goes to the clock and the rest of
\* the division stays owed, so the price of the work is accounted for in full.
LEMMA SpendIsExact ==
  ASSUME NEW n \in Nat, ClockTypeOK, CostIsExact, SpendInstructions(n)
  PROVE  CostIsExact'
<1> DEFINE q == Owed(n) \div Rate
           r == Owed(n) % Rate
<1>1. Owed(n) \in Nat
  BY RateIsPositive DEF Owed, ClockTypeOK
<1>2. Owed(n) = Rate * q + r /\ r \in 0 .. (Rate - 1) /\ q \in Nat
  BY <1>1, RateIsPositive, DivMod
<1>3. now_us' = now_us + q /\ remainder' = r
  BY DEF SpendInstructions
<1>4. instructions' * MICROS = instructions * MICROS + n * MICROS
  BY RateIsPositive, Z3 DEF SpendInstructions, ClockTypeOK
<1> HIDE DEF q, r
<1>5. (now_us' - EPOCH_US - bought_us') * Rate
        = (now_us - EPOCH_US - bought_us) * Rate + q * Rate
  BY <1>2, <1>3, RateIsPositive, ClockAssumption, Z3
     DEF SpendInstructions, ClockTypeOK
<1> QED
  BY <1>2, <1>3, <1>4, <1>5, RateIsPositive, ClockAssumption
     DEF CostIsExact, Owed, ClockTypeOK

\* Buying time outright keeps them too: it is not work and owes nothing.
LEMMA AdvanceIsExact ==
  ASSUME NEW us \in Nat, ClockTypeOK, CostIsExact, AdvanceUs(us)
  PROVE  ClockTypeOK' /\ CostIsExact'
<1>1. now_us' - EPOCH_US - bought_us' = now_us - EPOCH_US - bought_us
  BY ClockAssumption DEF AdvanceUs, ClockTypeOK
<1>2. Rate' = Rate /\ remainder' = remainder /\ instructions' = instructions
  BY DEF AdvanceUs, Rate
<1> QED
  BY <1>1, <1>2 DEF AdvanceUs, ClockTypeOK, CostIsExact

\* A slice costs at most SliceCost, whatever fraction was owed before it, and
\* at most that of any longer slice.
LEMMA SliceCostBounds ==
  ASSUME NEW n \in Nat, NEW most \in Nat, n <= most,
         ClockTypeOK, SpendInstructions(n)
  PROVE  now_us <= now_us' /\ now_us' <= now_us + SliceCost(most)
<1>1. n * MICROS \in Nat /\ most * MICROS \in Nat /\ n * MICROS <= most * MICROS
  BY RateIsPositive, ProductMonotone
<1>2. Owed(n) \in Nat /\ Owed(n) <= Rate - 1 + most * MICROS
  BY <1>1, RateIsPositive DEF Owed, ClockTypeOK
<1>3. Rate - 1 + most * MICROS \in Nat
  BY <1>1, RateIsPositive
<1>4. Owed(n) \div Rate <= SliceCost(most)
  BY <1>2, <1>3, RateIsPositive, DivMonotone DEF SliceCost
<1>5. Owed(n) \div Rate \in Nat /\ SliceCost(most) \in Nat
  BY <1>2, <1>3, RateIsPositive, DivMod DEF SliceCost
<1> QED
  BY <1>4, <1>5 DEF SpendInstructions, ClockTypeOK

\* A slice may cost something: the bound on lateness is never zero.
LEMMA SliceCostPositive ==
  ASSUME NEW most \in Nat \ {0}
  PROVE  SliceCost(most) \in Nat \ {0}
<1>1. 1 * MICROS <= most * MICROS /\ most * MICROS \in Nat
  BY RateIsPositive, ProductMonotone
<1>2. Rate \div Rate <= SliceCost(most)
  BY <1>1, RateIsPositive, DivMonotone DEF SliceCost
<1>3. Rate \div Rate = 1
  BY RateIsPositive, Z3
<1>4. SliceCost(most) \in Nat
  BY <1>1, RateIsPositive, DivMod DEF SliceCost
<1> QED
  BY <1>2, <1>3, <1>4

-----------------------------------------------------------------------------
(* What moves the clock.                                                   *)

\* The most one slice costs.
Limit == SliceCost(MAX_SLICE)

\* Before the timers have been looked at again, a slice may just have run.
BeforeTimers == {"dialogs", "answer", "draw", "timers"}

\* Where the clock may be within a frame.
FrameInv ==
    /\ pc \in {"loop", "slice", "handler"} => slice_instructions = 0
    /\ pc \notin {"host", "check", "screen"} /\ slice_instructions = 0
          => now_us < target
    /\ pc # "host" => now_us < target + Limit
    /\ pc = "screen" => target <= now_us

\* How late a timer may be: not at all, unless a slice has just run.
TimerInv ==
    /\ pc \notin BeforeTimers => \A t \in Armed : now_us <= due[t]
    /\ slice_instructions = 0 => \A t \in Armed : now_us <= due[t]
    /\ TimersAreNearlyOnTime

\* What advance() has established when the loop decides how to go on.
WaitInv ==
    pc = "idle" =>
        /\ \A t \in Armed : now_us < due[t]
        /\ next = NEVER <=> Armed = {}
        /\ next # NEVER =>
              /\ \A t \in Armed : now_us + next <= due[t]
              /\ \E t \in Armed : due[t] <= now_us + next + SLACK

IInv == TypeOK /\ CostIsExact /\ FrameInv /\ TimerInv /\ WaitInv

LEMMA LimitType == Limit \in Nat \ {0}
  BY SliceCostPositive, LoopAssumption DEF Limit

\* The queues may start empty, or hold one dialog.
LEMMA ShortQueues == \A d \in DIALOGS : <<>> \in Seq(DIALOGS) /\ <<d>> \in Seq(DIALOGS)
  OBVIOUS

LEMMA EmptyQueue == <<>> \in Seq(DIALOGS)
  OBVIOUS

LEMMA InitIInv == Init => IInv
<1> SUFFICES ASSUME Init PROVE IInv
  OBVIOUS
<1>1. TypeOK
  <2>1. ClockTypeOK
    BY ClockAssumption, RateIsPositive DEF Init, ClockInit, ClockTypeOK
  <2> QED
    BY <2>1, EmptyQueue, ClockAssumption DEF Init, ClockInit, TypeOK, Phases, NEVER
<1>2. CostIsExact
  BY ClockAssumption, RateIsPositive DEF Init, ClockInit, CostIsExact
<1>3. Armed = {}
  BY DEF Init, Armed
<1>4. FrameInv /\ TimerInv /\ WaitInv
  BY <1>3 DEF Init, FrameInv, TimerInv, WaitInv, TimersAreNearlyOnTime
<1> QED
  BY <1>1, <1>2, <1>4 DEF IInv

\* The steps that touch neither the clock nor the timers keep the accounts.
LEMMA AccountsKept ==
  ASSUME IInv, UNCHANGED clockVars
  PROVE  ClockTypeOK' /\ CostIsExact'
  BY DEF IInv, TypeOK, ClockTypeOK, CostIsExact, clockVars, Rate

LEMMA StepTypeOK ==
  ASSUME IInv, Next
  PROVE  TypeOK' /\ CostIsExact'
<1> USE LoopAssumption, ClockAssumption DEF NEVER
<1> USE DEF loopVars
<1>1. CASE Check
  BY <1>1, AccountsKept DEF Check, IInv, TypeOK, Phases
<1>2. CASE HandlerReturns
  BY <1>2, AccountsKept DEF HandlerReturns, IInv, TypeOK, Phases
<1>3. CASE TakeDialogs
  BY <1>3, AccountsKept DEF TakeDialogs, IInv, TypeOK, Phases
<1>4. ASSUME NEW raised \in Raised, AnswerDialog(raised)
      PROVE  TypeOK' /\ CostIsExact'
  <2>1. raised \in Seq(DIALOGS)
    BY <1>4, ShortQueues, EmptyQueue DEF Raised
  <2>2. pending' \in Seq(DIALOGS) /\ answering' \in Seq(DIALOGS)
    BY <1>4, <2>1 DEF AnswerDialog, IInv, TypeOK
  <2> QED
    BY <1>4, <2>2, AccountsKept DEF AnswerDialog, IInv, TypeOK, Phases
<1>5. CASE DialogsAnswered
  BY <1>5, AccountsKept DEF DialogsAnswered, IInv, TypeOK, Phases
<1>6. CASE PumpDriver
  BY <1>6, AccountsKept DEF PumpDriver, IInv, TypeOK, Phases
<1>7. ASSUME NEW t \in TIMERS, NEW again \in DELAYS, NEW draws \in Draws,
             FireEvent(t, again, draws)
      PROVE  TypeOK' /\ CostIsExact'
  <2>1. draws \in BOOLEAN
    BY DEF Draws
  <2>2. ClockTypeOK' /\ CostIsExact' /\ now_us \in Nat
    BY <1>7, AccountsKept DEF FireEvent, IInv, TypeOK, ClockTypeOK
  <2> QED
    BY <1>7, <2>1, <2>2 DEF FireEvent, IInv, TypeOK, Phases
<1>8. CASE AdvanceReturns
  <2>1. next' \in Nat \cup {NEVER}
    BY <1>8 DEF AdvanceReturns, Waits, IInv, TypeOK, ClockTypeOK, Armed
  <2> QED
    BY <1>8, <2>1, AccountsKept DEF AdvanceReturns, IInv, TypeOK, Phases
<1>9. CASE EndIteration
  <2>1. CASE slice_instructions # 0
    BY <1>9, <2>1, AccountsKept DEF EndIteration, IInv, TypeOK, Phases
  <2>2. CASE slice_instructions = 0
    <3>1. now_us < target
      BY <1>9, <2>2 DEF EndIteration, IInv, FrameInv
    <3>2. IdleJump \in Nat
      BY <3>1 DEF IdleJump, Jump, Remaining, IInv, TypeOK, ClockTypeOK
    <3>3. AdvanceUs(IdleJump)
      BY <1>9, <2>2 DEF EndIteration
    <3>4. ClockTypeOK' /\ CostIsExact'
      BY <3>2, <3>3, AdvanceIsExact DEF IInv, TypeOK
    <3> QED
      BY <1>9, <3>4 DEF EndIteration, IInv, TypeOK, Phases
  <2> QED
    BY <2>1, <2>2
<1>10. ASSUME NEW composed \in BOOLEAN, ReadScreen(composed)
       PROVE  TypeOK' /\ CostIsExact'
  BY <1>10, AccountsKept DEF ReadScreen, IInv, TypeOK, Phases
<1>11. CASE LoopIdles \/ LoopRuns
  BY <1>11, AccountsKept DEF LoopIdles, LoopRuns, IInv, TypeOK, Phases
<1>12. ASSUME NEW n \in 1 .. MAX_SLICE, NEW draws \in Draws, EndSlice(n, draws)
       PROVE  TypeOK' /\ CostIsExact'
  <2>1. draws \in BOOLEAN
    BY DEF Draws
  <2>2. ClockTypeOK' /\ CostIsExact'
    BY <1>12, SpendTypeOK, SpendIsExact DEF EndSlice, IInv, TypeOK
  <2> QED
    BY <1>12, <2>1, <2>2 DEF EndSlice, IInv, TypeOK, Phases
<1>13. ASSUME NEW t \in TIMERS, NEW delay \in DELAYS,
              ScheduleEvent(t, delay) \/ SetTimerCheckUs(t, delay)
       PROVE  TypeOK' /\ CostIsExact'
  <2>1. ClockTypeOK' /\ CostIsExact' /\ now_us \in Nat
    BY <1>13, AccountsKept
       DEF ScheduleEvent, SetTimerCheckUs, IInv, TypeOK, ClockTypeOK
  <2> QED
    BY <1>13, <2>1 DEF ScheduleEvent, SetTimerCheckUs, IInv, TypeOK, Phases
<1>14. ASSUME NEW t \in TIMERS, UnscheduleEvent(t)
       PROVE  TypeOK' /\ CostIsExact'
  BY <1>14, AccountsKept DEF UnscheduleEvent, IInv, TypeOK, Phases
<1>15. ASSUME NEW d \in DIALOGS, ShowYesNoDialog(d)
       PROVE  TypeOK' /\ CostIsExact'
  BY <1>15, AccountsKept DEF ShowYesNoDialog, IInv, TypeOK, Phases
<1>16. CASE FrameAdvance
  BY <1>16, AccountsKept DEF FrameAdvance, IInv, TypeOK, ClockTypeOK, Phases
<1> QED
  BY <1>1, <1>2, <1>3, <1>4, <1>5, <1>6, <1>7, <1>8, <1>9, <1>10, <1>11,
     <1>12, <1>13, <1>14, <1>15, <1>16 DEF Next, Code, LoopReturns, Guest, Host
\* A step that leaves the timers alone arms none.
LEMMA ArmedKept == ASSUME UNCHANGED due PROVE Armed' = Armed
  BY DEF Armed, NEVER

\* Every step keeps the clock within the frame and the timers on time.
LEMMA StepTimeInv ==
  ASSUME IInv, Next
  PROVE  FrameInv' /\ TimerInv' /\ WaitInv'
<1> USE LoopAssumption DEF NEVER, BeforeTimers
<1>0. /\ Limit \in Nat \ {0} /\ Limit' = Limit
      /\ now_us \in Nat /\ target \in Nat /\ slice_instructions \in Nat
      /\ due \in [TIMERS -> Nat \cup {NEVER}]
      /\ \A t \in Armed : t \in TIMERS /\ due[t] \in Nat
  BY LimitType DEF IInv, TypeOK, ClockTypeOK, Limit, SliceCost, Rate, Armed
<1> USE DEF FrameInv, TimerInv, WaitInv, TimersAreNearlyOnTime, IInv
<1> USE DEF clockVars, Limit
<1>1. CASE Check
  BY <1>0, <1>1, ArmedKept DEF Check
<1>2. CASE HandlerReturns \/ TakeDialogs \/ DialogsAnswered \/ PumpDriver
  BY <1>0, <1>2, ArmedKept
     DEF HandlerReturns, TakeDialogs, DialogsAnswered, PumpDriver
<1>3. ASSUME NEW raised \in Raised, AnswerDialog(raised)
      PROVE  FrameInv' /\ TimerInv' /\ WaitInv'
  BY <1>0, <1>3, ArmedKept DEF AnswerDialog
<1>4. ASSUME NEW t \in TIMERS, NEW again \in DELAYS, NEW draws \in Draws,
             FireEvent(t, again, draws)
      PROVE  FrameInv' /\ TimerInv' /\ WaitInv'
  <2>1. \A u \in Armed' : \/ u \in Armed /\ due'[u] = due[u]
                          \/ u = t /\ due'[u] = now_us + again
    BY <1>0, <1>4 DEF FireEvent, Armed
  <2>2. pc = "timers" /\ pc' = pc /\ now_us' = now_us /\ target' = target
        /\ slice_instructions' = slice_instructions
    BY <1>4 DEF FireEvent
  <2>3. FrameInv'
    BY <2>2, <1>0
  <2>4. \A u \in Armed' : slice_instructions = 0 => now_us <= due'[u]
    BY <2>1, <1>0
  <2>5. \A u \in Armed' : now_us <= due'[u] + Limit
    BY <2>1, <1>0
  <2> QED
    BY <2>2, <2>3, <2>4, <2>5, <1>0
<1>5. CASE AdvanceReturns
  <2>1. \A t \in Armed : now_us < due[t]
    BY <1>0, <1>5 DEF AdvanceReturns
  <2>2. next' = NEVER <=> Armed = {}
    BY <1>0, <1>5 DEF AdvanceReturns, Waits
  <2>3. ASSUME next' # NEVER
        PROVE  /\ \A t \in Armed : now_us + next' <= due[t]
               /\ \E t \in Armed : due[t] <= now_us + next' + SLACK
    BY <1>0, <1>5, <2>2, <2>3 DEF AdvanceReturns, Waits
  <2>4. UNCHANGED <<now_us, target, due, slice_instructions>>
        /\ pc = "timers" /\ pc' = "idle"
    BY <1>5 DEF AdvanceReturns
  <2>5. Armed' = Armed
    BY <2>4, ArmedKept
  <2>6. WaitInv'
    BY <2>1, <2>2, <2>3, <2>4, <2>5
  <2>7. FrameInv' /\ TimerInv'
    BY <2>1, <2>4, <2>5, <1>0
  <2> QED
    BY <2>6, <2>7
<1>6. CASE EndIteration
  <2>1. UNCHANGED <<target, due, slice_instructions>> /\ pc = "idle" /\ pc' = "check"
    BY <1>6 DEF EndIteration
  <2>2. Armed' = Armed
    BY <2>1, ArmedKept
  <2>3. CASE slice_instructions # 0
    BY <1>0, <1>6, <2>1, <2>2, <2>3 DEF EndIteration
  <2>4. CASE slice_instructions = 0
    <3>1. now_us < target /\ next \in Nat \cup {NEVER}
      BY <2>1, <2>4 DEF TypeOK
    <3>2. now_us' = now_us + IdleJump
      BY <1>6, <2>4 DEF EndIteration, AdvanceUs
    <3>3. now_us' <= target /\ now_us' \in Nat
      BY <1>0, <3>1, <3>2 DEF IdleJump, Jump, Remaining
    <3>4. \A t \in Armed : now_us' <= due[t]
      BY <1>0, <2>1, <3>1, <3>2 DEF IdleJump, Jump, Remaining
    <3> QED
      BY <1>0, <2>1, <2>2, <3>3, <3>4
  <2> QED
    BY <2>3, <2>4
<1>7. ASSUME NEW composed \in BOOLEAN, ReadScreen(composed)
      PROVE  FrameInv' /\ TimerInv' /\ WaitInv'
  BY <1>0, <1>7, ArmedKept DEF ReadScreen
<1>8. CASE LoopIdles \/ LoopRuns
  BY <1>0, <1>8, ArmedKept DEF LoopIdles, LoopRuns
<1>9. ASSUME NEW n \in 1 .. MAX_SLICE, NEW draws \in Draws, EndSlice(n, draws)
      PROVE  FrameInv' /\ TimerInv' /\ WaitInv'
  <2>1. now_us <= now_us' /\ now_us' <= now_us + Limit
    BY <1>9, SliceCostBounds DEF EndSlice, TypeOK
  <2>2. UNCHANGED <<target, due>> /\ pc = "slice" /\ pc' = "dialogs"
        /\ slice_instructions' = slice_instructions + n
    BY <1>9 DEF EndSlice
  <2>3. Armed' = Armed
    BY <2>2, ArmedKept
  <2>4. now_us' \in Nat
    BY <1>9, SpendTypeOK DEF EndSlice, TypeOK, ClockTypeOK
  <2> HIDE DEF Limit
  <2> QED
    BY <1>0, <2>1, <2>2, <2>3, <2>4 DEF Limit
<1>10. ASSUME NEW t \in TIMERS, NEW delay \in DELAYS,
              ScheduleEvent(t, delay) \/ SetTimerCheckUs(t, delay)
       PROVE  FrameInv' /\ TimerInv' /\ WaitInv'
  <2>1. \A u \in Armed' : \/ u \in Armed /\ due'[u] = due[u]
                          \/ u = t /\ due'[u] = now_us + delay
    BY <1>0, <1>10 DEF ScheduleEvent, SetTimerCheckUs, Armed
  <2>2. pc \in {"slice", "host"} /\ pc' = pc
        /\ UNCHANGED <<now_us, target, slice_instructions>>
    BY <1>10 DEF ScheduleEvent, SetTimerCheckUs
  <2>3. \A u \in Armed' : now_us <= due'[u]
    BY <2>1, <2>2, <1>0
  <2>4. \A u \in Armed' : due'[u] \in Nat
    BY <2>1, <1>0
  <2> QED
    BY <2>2, <2>3, <2>4, <1>0
<1>11. ASSUME NEW t \in TIMERS, UnscheduleEvent(t)
       PROVE  FrameInv' /\ TimerInv' /\ WaitInv'
  <2>1. \A u \in Armed' : u \in Armed /\ due'[u] = due[u]
    BY <1>0, <1>11 DEF UnscheduleEvent, Armed
  <2> QED
    BY <1>0, <1>11, <2>1 DEF UnscheduleEvent
<1>12. ASSUME NEW d \in DIALOGS, ShowYesNoDialog(d)
       PROVE  FrameInv' /\ TimerInv' /\ WaitInv'
  BY <1>0, <1>12, ArmedKept DEF ShowYesNoDialog
<1>13. CASE FrameAdvance
  BY <1>0, <1>13, ArmedKept DEF FrameAdvance
<1> QED
  BY <1>1, <1>2, <1>3, <1>4, <1>5, <1>6, <1>7, <1>8, <1>9, <1>10, <1>11,
     <1>12, <1>13 DEF Next, Code, LoopReturns, Guest, Host
-----------------------------------------------------------------------------

\* Nothing happens to the invariant when nothing happens.
LEMMA StutterIInv ==
  ASSUME IInv, UNCHANGED vars
  PROVE  IInv'
<1>1. /\ UNCHANGED <<now_us, remainder, instructions, bought_us>>
      /\ UNCHANGED <<pc, target, slice_instructions, next, due, pending,
                     answering, locked, undrawn>>
  BY DEF vars, clockVars, loopVars
<1>2. TypeOK' /\ CostIsExact'
  BY <1>1 DEF IInv, TypeOK, ClockTypeOK, CostIsExact, Rate, Phases, NEVER
<1>3. Armed' = Armed /\ Limit' = Limit
  BY <1>1, ArmedKept DEF Limit, SliceCost, Rate
<1>4. FrameInv' /\ TimerInv' /\ WaitInv'
  BY <1>1, <1>3 DEF IInv, FrameInv, TimerInv, WaitInv, TimersAreNearlyOnTime,
     BeforeTimers, NEVER, SliceCost, Rate
<1> QED
  BY <1>2, <1>4 DEF IInv

(***************************************************************************)
(* The inductive invariant: the books of the clock, where the clock stands *)
(* in the frame, how late each timer may be in each phase, and what the    *)
(* timer's answer means when the loop sizes its idle jump.                 *)
(***************************************************************************)
THEOREM Invariance == Spec => []IInv
<1>1. IInv /\ [Next]_vars => IInv'
  BY StepTypeOK, StepTimeInv, StutterIInv DEF IInv
<1> QED
  BY InitIInv, <1>1, PTL DEF Spec

(* Every variable keeps its type: the locals of run_for_us never hold a    *)
(* wrapped-around difference.                                              *)
THEOREM TypeCorrect == Spec => []TypeOK
<1>1. IInv => TypeOK
  BY DEF IInv
<1> QED
  BY <1>1, Invariance, PTL

(* The clock accounts for every instruction, for every rate and however    *)
(* the work is sliced (vclock.cpp:28-37).                                  *)
THEOREM ClockIsExact == Spec => []CostIsExact
<1>1. IInv => CostIsExact
  BY DEF IInv
<1> QED
  BY <1>1, Invariance, PTL

(* The unsigned subtraction that sizes the idle jump never wraps around    *)
(* (machine.cpp:1162).                                                     *)
THEOREM NeverIdlesLate == Spec => []NeverIdlesPastTarget
<1>1. IInv => NeverIdlesPastTarget
  BY DEF IInv, FrameInv, NeverIdlesPastTarget
<1> QED
  BY <1>1, Invariance, PTL

(* No timer is late by more than one slice costs, in any phase.            *)
THEOREM TimersOnTime == Spec => []TimersAreNearlyOnTime
<1>1. IInv => TimersAreNearlyOnTime
  BY DEF IInv, TimerInv
<1> QED
  BY <1>1, Invariance, PTL

\* Until something has run, nothing has been counted, and the clock has only
\* been moved towards the target.
EmptyInv ==
    instructions = 0 => /\ slice_instructions = 0
                        /\ pc # "host" => now_us <= target

LEMMA StepEmptyInv ==
  ASSUME IInv, EmptyInv, [Next]_vars
  PROVE  EmptyInv'
<1> USE DEF EmptyInv
<1>0. /\ now_us \in Nat /\ target \in Nat /\ instructions \in Nat
      /\ slice_instructions \in Nat /\ next \in Nat \cup {NEVER}
  BY DEF IInv, TypeOK, ClockTypeOK
<1>1. CASE UNCHANGED vars
  BY <1>1 DEF vars, clockVars, loopVars
<1>2. CASE HandlerReturns \/ TakeDialogs \/ DialogsAnswered \/ PumpDriver
           \/ AdvanceReturns \/ LoopIdles \/ LoopRuns
  BY <1>2 DEF clockVars, HandlerReturns, TakeDialogs, DialogsAnswered,
     PumpDriver, AdvanceReturns, LoopIdles, LoopRuns
<1>3. CASE Check
  BY <1>0, <1>3 DEF Check, clockVars
<1>4. CASE FrameAdvance
  BY <1>0, <1>4, LoopAssumption DEF FrameAdvance, clockVars
<1>5. ASSUME NEW d, AnswerDialog(d) \/ ReadScreen(d) \/ ShowYesNoDialog(d)
      PROVE  EmptyInv'
  BY <1>5 DEF AnswerDialog, ReadScreen, ShowYesNoDialog, clockVars
<1>6. ASSUME NEW t, NEW delay, NEW draws,
             \/ ScheduleEvent(t, delay) \/ UnscheduleEvent(t)
             \/ SetTimerCheckUs(t, delay) \/ FireEvent(t, delay, draws)
      PROVE  EmptyInv'
  BY <1>6 DEF ScheduleEvent, UnscheduleEvent, SetTimerCheckUs, FireEvent, clockVars
<1>7. ASSUME NEW n \in 1 .. MAX_SLICE, NEW draws, EndSlice(n, draws)
      PROVE  EmptyInv'
  <2>1. instructions' # 0
    BY <1>0, <1>7, LoopAssumption DEF EndSlice, SpendInstructions
  <2> QED
    BY <2>1
<1>8. CASE EndIteration
  <2>1. instructions' = instructions /\ UNCHANGED <<slice_instructions, target>>
    BY <1>8 DEF EndIteration, AdvanceUs, clockVars
  <2>2. ASSUME instructions = 0 PROVE now_us' <= target
    <3>1. now_us < target /\ now_us' = now_us + IdleJump
      BY <1>8, <2>2 DEF EndIteration, AdvanceUs, IInv, FrameInv
    <3> QED
      BY <1>0, <3>1 DEF IdleJump, Jump, Remaining, NEVER
  <2> QED
    BY <2>1, <2>2
<1> QED
  BY <1>1, <1>2, <1>3, <1>4, <1>5, <1>6, <1>7, <1>8
     DEF Next, Code, LoopReturns, Guest, Host

(* Until something has run, and on a machine with no device for ever, each *)
(* frame ends at its target to the microsecond (machine.cpp:1127-1132).    *)
THEOREM EmptyIsExact == Spec => []EmptyMachineIsExact
<1>1. Init => EmptyInv
  BY DEF Init, ClockInit, EmptyInv
<1>2. IInv /\ EmptyInv /\ [Next]_vars => EmptyInv'
  BY StepEmptyInv
<1>3. ASSUME IInv, EmptyInv PROVE EmptyMachineIsExact
  <2>1. now_us \in Nat /\ target \in Nat
    BY <1>3 DEF IInv, TypeOK, ClockTypeOK
  <2> QED
    BY <1>3, <2>1 DEF IInv, FrameInv, TimerInv, EmptyInv, EmptyMachineIsExact
<1> QED
  BY <1>1, <1>2, <1>3, Invariance, PTL DEF Spec

(* run_for_us returns at its target, or past it by less than a slice.      *)
THEOREM FramesOnTime == Spec => []FrameEndsOnTime
<1>1. IInv => FrameEndsOnTime
  BY DEF IInv, FrameInv, FrameEndsOnTime, Limit
<1> QED
  BY <1>1, Invariance, PTL

(* Idle time is bought up to a deadline or the end of the frame, and never *)
(* past either (machine.cpp:1159-1165).                                    *)
THEOREM IdleJumpsLand == Spec => IdleJumpsLandOnDeadlines
<1>1. ASSUME IInv, [Next]_vars, bought_us' # bought_us
      PROVE  /\ now_us < now_us' /\ now_us' <= target
             /\ \A t \in Armed : now_us' <= due[t]
             /\ now_us' = target \/ \E t \in Armed : due[t] <= now_us' + SLACK
  <2>1. EndIteration /\ slice_instructions = 0
    BY <1>1 DEF vars, clockVars, Next, Code, LoopReturns, Guest, Host, Check,
       HandlerReturns, TakeDialogs, AnswerDialog, DialogsAnswered, PumpDriver,
       FireEvent, AdvanceReturns, EndIteration, ReadScreen, LoopIdles,
       LoopRuns, EndSlice, SpendInstructions, ScheduleEvent, UnscheduleEvent,
       ShowYesNoDialog, FrameAdvance, SetTimerCheckUs
  <2>2. pc = "idle" /\ now_us' = now_us + IdleJump
    BY <2>1 DEF EndIteration, AdvanceUs
  <2>3. /\ now_us \in Nat /\ target \in Nat /\ now_us < target
        /\ next \in Nat \cup {NEVER}
        /\ \A t \in Armed : due[t] \in Nat
    BY <1>1, <2>1, <2>2
       DEF IInv, TypeOK, ClockTypeOK, FrameInv, Armed
  <2>4. /\ \A t \in Armed : now_us < due[t]
        /\ next = NEVER <=> Armed = {}
        /\ next # NEVER =>
              /\ \A t \in Armed : now_us + next <= due[t]
              /\ \E t \in Armed : due[t] <= now_us + next + SLACK
    BY <1>1, <2>2 DEF IInv, WaitInv
  <2>5. now_us < now_us' /\ now_us' <= target
    BY <2>2, <2>3 DEF IdleJump, Jump, Remaining, NEVER
  <2>6. \A t \in Armed : now_us' <= due[t]
    BY <2>2, <2>3, <2>4 DEF IdleJump, Jump, Remaining, NEVER
  <2>7. ASSUME now_us' # target
        PROVE  \E t \in Armed : due[t] <= now_us' + SLACK
    <3>1. next # NEVER /\ IdleJump = Jump /\ next <= Jump
      BY <2>2, <2>3, <2>7 DEF IdleJump, Jump, Remaining, NEVER
    <3>2. PICK t \in Armed : due[t] <= now_us + next + SLACK
      BY <2>4, <3>1
    <3>3. now_us + next <= now_us' /\ now_us' \in Nat
      BY <2>2, <2>3, <3>1 DEF Jump, NEVER
    <3> QED
      BY <2>3, <3>1, <3>2, <3>3, LoopAssumption DEF NEVER
  <2> QED
    BY <2>5, <2>6, <2>7
<1>2. IInv /\ [Next]_vars => [bought_us' # bought_us =>
          /\ now_us < now_us' /\ now_us' <= target
          /\ \A t \in Armed : now_us' <= due[t]
          /\ now_us' = target \/ \E t \in Armed : due[t] <= now_us' + SLACK
      ]_vars
  BY <1>1
<1> QED
  BY <1>2, Invariance, PTL DEF Spec, IdleJumpsLandOnDeadlines

-----------------------------------------------------------------------------

LEMMA Difference ==
  ASSUME NEW a \in Nat, NEW b \in Nat, NEW l \in Nat, a <= b, b <= a + l
  PROVE  \E d \in 0 .. l : b = a + d
<1>1. b - a \in 0 .. l /\ b = a + (b - a)
  OBVIOUS
<1> QED
  BY <1>1

\* A step of the loop is a step of MachineTime, or invisible there.
LEMMA TimeStep ==
  ASSUME IInv, [Next]_vars
  PROVE  [Time!Next]_<<now_us, due, pc \in {"slice", "host"}>>
<1> USE DEF NEVER, Time!NEVER
<1> DEFINE InControl == pc \in {"slice", "host"}
<1>0. /\ now_us \in Nat /\ Limit \in Nat
      /\ due \in [TIMERS -> Nat \cup {NEVER}]
      /\ Time!Armed = Armed
  BY LimitType DEF IInv, TypeOK, ClockTypeOK, Time!Armed, Armed
<1>1. ASSUME UNCHANGED <<now_us, due>>
      PROVE  [Time!Next]_<<now_us, due, InControl>>
  <2>1. InControl' \in BOOLEAN /\ InControl \in BOOLEAN
    OBVIOUS
  <2>2. CASE InControl' = InControl
    BY <1>1, <2>2
  <2>3. CASE InControl' = ~InControl
    BY <1>1, <2>3 DEF Time!Next, Time!HandOver
  <2> QED
    BY <2>1, <2>2, <2>3
<1>2. CASE UNCHANGED vars
  BY <1>1, <1>2 DEF vars, clockVars, loopVars
<1>3. CASE Check \/ HandlerReturns \/ TakeDialogs \/ DialogsAnswered
           \/ PumpDriver \/ AdvanceReturns \/ LoopIdles \/ LoopRuns
           \/ FrameAdvance
  BY <1>1, <1>3 DEF clockVars, Check, HandlerReturns, TakeDialogs,
     DialogsAnswered, PumpDriver, AdvanceReturns, LoopIdles, LoopRuns,
     FrameAdvance
<1>4. ASSUME NEW d, ShowYesNoDialog(d) \/ AnswerDialog(d) \/ ReadScreen(d)
      PROVE  [Time!Next]_<<now_us, due, InControl>>
  BY <1>1, <1>4 DEF clockVars, ShowYesNoDialog, AnswerDialog, ReadScreen
<1>5. ASSUME NEW t \in TIMERS, NEW again \in DELAYS, NEW draws \in Draws,
             FireEvent(t, again, draws)
      PROVE  [Time!Next]_<<now_us, due, InControl>>
  <2>1. Time!Fire(t)
    BY <1>0, <1>5 DEF FireEvent, Time!Fire, clockVars
  <2> QED
    BY <2>1 DEF Time!Next
<1>6. ASSUME NEW t \in TIMERS, NEW delay \in DELAYS,
             ScheduleEvent(t, delay) \/ SetTimerCheckUs(t, delay)
      PROVE  [Time!Next]_<<now_us, due, InControl>>
  <2>1. Time!Schedule(t)
    BY <1>6 DEF ScheduleEvent, SetTimerCheckUs, Time!Schedule, clockVars
  <2> QED
    BY <2>1 DEF Time!Next
<1>7. ASSUME NEW t \in TIMERS, UnscheduleEvent(t)
      PROVE  [Time!Next]_<<now_us, due, InControl>>
  <2>1. Time!Unschedule(t)
    BY <1>7 DEF UnscheduleEvent, Time!Unschedule, clockVars
  <2> QED
    BY <2>1 DEF Time!Next
<1>8. ASSUME NEW n \in 1 .. MAX_SLICE, NEW draws \in Draws, EndSlice(n, draws)
      PROVE  [Time!Next]_<<now_us, due, InControl>>
  <2>1. now_us <= now_us' /\ now_us' <= now_us + Limit /\ now_us' \in Nat
    BY <1>8, SliceCostBounds, SpendTypeOK, LoopAssumption
       DEF EndSlice, IInv, TypeOK, ClockTypeOK, Limit
  <2>2. pc = "slice" /\ pc' = "dialogs" /\ UNCHANGED due
    BY <1>8 DEF EndSlice
  <2>3. \A t \in Armed : now_us <= due[t]
    BY <2>2 DEF IInv, TimerInv, BeforeTimers
  <2>4. \E us \in 0 .. Limit : now_us' = now_us + us
    BY <2>1, <1>0, Difference
  <2>5. Time!Work
    BY <1>0, <2>2, <2>3, <2>4 DEF Time!Work, Limit
  <2> QED
    BY <2>5 DEF Time!Next
<1>9. CASE EndIteration
  <2>1. CASE slice_instructions # 0
    BY <1>1, <1>9, <2>1 DEF EndIteration, clockVars
  <2>2. CASE slice_instructions = 0
    <3>1. /\ pc = "idle" /\ pc' = "check" /\ UNCHANGED due
          /\ now_us' = now_us + IdleJump
      BY <1>9, <2>2 DEF EndIteration, AdvanceUs
    <3>2. /\ target \in Nat /\ now_us < target /\ next \in Nat \cup {NEVER}
          /\ \A t \in Armed : due[t] \in Nat /\ now_us < due[t]
          /\ next = NEVER <=> Armed = {}
          /\ next # NEVER => \A t \in Armed : now_us + next <= due[t]
      BY <2>2, <3>1, <1>0 DEF IInv, TypeOK, FrameInv, WaitInv, Armed
    <3>3. now_us < now_us' /\ \A t \in Armed : now_us' <= due[t]
      BY <1>0, <3>1, <3>2 DEF IdleJump, Jump, Remaining
    <3>4. Time!Sleep
      BY <1>0, <3>1, <3>3 DEF Time!Sleep
    <3> QED
      BY <3>4 DEF Time!Next
  <2> QED
    BY <2>1, <2>2
<1> HIDE DEF InControl
<1> QED
  BY <1>2, <1>3, <1>4, <1>5, <1>6, <1>7, <1>8, <1>9
     DEF Next, Code, LoopReturns, Guest, Host, InControl

(* The loop implements MachineTime: a machine with nothing to run sleeps   *)
(* but never past a deadline, one that runs never runs with an event       *)
(* overdue, and nothing is called back before it is due.                   *)
THEOREM LoopImplementsMachineTime == Spec => ImplementsMachineTime
<1>1. Init => Time!Init
  BY DEF Init, ClockInit, Time!Init, NEVER, Time!NEVER
<1>2. IInv /\ [Next]_vars => [Time!Next]_<<now_us, due, pc \in {"slice", "host"}>>
  BY TimeStep
<1> QED
  BY <1>1, <1>2, Invariance, PTL DEF Spec, ImplementsMachineTime, Time!Spec

-----------------------------------------------------------------------------
(* The line of askers.                                                     *)

Line == answering \o pending

\* The lock is a handler's alone, dialogs are answered in one phase, and
\* nobody waits twice.
QueueInv ==
    /\ pc \in Phases
    /\ answering \in Seq(DIALOGS) /\ pending \in Seq(DIALOGS)
    /\ locked <=> pc = "handler"
    /\ pc # "answer" => answering = <<>>
    /\ IsInjective(Line)

\* One more at the end of a line nobody waits in twice.
LEMMA AskingKeepsApart ==
    ASSUME NEW s \in Seq(DIALOGS), NEW d \in DIALOGS,
           IsInjective(s), d \notin ToSet(s)
    PROVE  IsInjective(Append(s, d))
<1>1. Len(s) \in Nat /\ DOMAIN s = 1 .. Len(s)
  BY LenProperties
<1>2. DOMAIN Append(s, d) = 1 .. Len(s) + 1
  BY <1>1
<1>3. \A i \in 1 .. Len(s) : Append(s, d)[i] = s[i] /\ s[i] # d
  BY <1>1 DEF ToSet
<1>4. Append(s, d)[Len(s) + 1] = d
  BY <1>1
<1>5. \A i, j \in 1 .. Len(s) : s[i] = s[j] => i = j
  BY <1>1 DEF IsInjective
<1>6. \A i, j \in 1 .. Len(s) + 1 : Append(s, d)[i] = Append(s, d)[j] => i = j
  BY <1>1, <1>3, <1>4, <1>5
<1> QED BY <1>2, <1>6 DEF IsInjective

\* The first leaves it.
LEMMA LeavingKeepsApart ==
    ASSUME NEW s \in Seq(DIALOGS), s # <<>>, IsInjective(s)
    PROVE  /\ Tail(s) \in Seq(DIALOGS) /\ IsInjective(Tail(s))
<1>1. /\ Tail(s) \in Seq(DIALOGS) /\ Len(Tail(s)) = Len(s) - 1
      /\ \A i \in 1 .. Len(Tail(s)) : Tail(s)[i] = s[i + 1]
  BY HeadTailProperties
<1>2. Len(s) \in Nat /\ DOMAIN s = 1 .. Len(s) /\ DOMAIN Tail(s) = 1 .. Len(Tail(s))
  BY <1>1, LenProperties
<1>3. ASSUME NEW i \in DOMAIN Tail(s), NEW j \in DOMAIN Tail(s), Tail(s)[i] = Tail(s)[j]
      PROVE  i = j
  <2>1. i + 1 \in DOMAIN s /\ j + 1 \in DOMAIN s /\ s[i + 1] = s[j + 1]
    BY <1>1, <1>2, <1>3
  <2> QED BY <1>2, <2>1 DEF IsInjective
<1> QED BY <1>1, <1>3 DEF IsInjective

\* The first of two lines in a row is the first of the whole.
LEMMA TailOfConcat ==
    ASSUME NEW s \in Seq(DIALOGS), s # <<>>, NEW t \in Seq(DIALOGS)
    PROVE  Tail(s \o t) = Tail(s) \o t /\ s \o t # <<>>
<1>1. /\ Tail(s) \in Seq(DIALOGS) /\ Len(Tail(s)) = Len(s) - 1
      /\ \A i \in 1 .. Len(Tail(s)) : Tail(s)[i] = s[i + 1]
  BY HeadTailProperties
<1>2. Len(s) \in Nat \ {0} /\ Len(t) \in Nat
  BY EmptySeq, LenProperties
<1>3. s \o t \in Seq(DIALOGS) /\ Len(s \o t) = Len(s) + Len(t)
  BY ConcatProperties
<1>4. s \o t # <<>>
  BY <1>2, <1>3
<1>5. /\ Tail(s \o t) \in Seq(DIALOGS) /\ Len(Tail(s \o t)) = Len(s) + Len(t) - 1
      /\ \A i \in 1 .. Len(Tail(s \o t)) : Tail(s \o t)[i] = (s \o t)[i + 1]
  BY <1>3, <1>4, HeadTailProperties
<1>6. /\ Tail(s) \o t \in Seq(DIALOGS) /\ Len(Tail(s) \o t) = Len(s) - 1 + Len(t)
      /\ \A i \in 1 .. Len(s) - 1 + Len(t) :
             (Tail(s) \o t)[i] = IF i <= Len(s) - 1 THEN Tail(s)[i] ELSE t[i - (Len(s) - 1)]
  BY <1>1, ConcatProperties
<1>7. \A i \in 1 .. Len(s) - 1 + Len(t) : Tail(s \o t)[i] = (Tail(s) \o t)[i]
  <2> TAKE i \in 1 .. Len(s) - 1 + Len(t)
  <2>1. (s \o t)[i + 1] = IF i + 1 <= Len(s) THEN s[i + 1] ELSE t[i + 1 - Len(s)]
    BY <1>2, ConcatProperties
  <2>2. i <= Len(s) - 1 => Tail(s)[i] = s[i + 1]
    BY <1>1, <1>2
  <2> QED BY <1>2, <1>5, <1>6, <2>1, <2>2
<1>8. Tail(s \o t) = Tail(s) \o t
  BY <1>2, <1>5, <1>6, <1>7, SeqEqual
<1> QED BY <1>4, <1>8

\* The elements of a line are those of its two parts.
LEMMA SetOfConcat ==
    ASSUME NEW s \in Seq(DIALOGS), NEW t \in Seq(DIALOGS)
    PROVE  ToSet(s \o t) = ToSet(s) \cup ToSet(t)
<1>1. /\ s \o t \in Seq(DIALOGS) /\ Len(s \o t) = Len(s) + Len(t)
      /\ \A i \in 1 .. Len(s) + Len(t) :
             (s \o t)[i] = IF i <= Len(s) THEN s[i] ELSE t[i - Len(s)]
  BY ConcatProperties
<1>2. /\ Len(s) \in Nat /\ DOMAIN s = 1 .. Len(s)
      /\ Len(t) \in Nat /\ DOMAIN t = 1 .. Len(t)
      /\ DOMAIN (s \o t) = 1 .. Len(s) + Len(t)
  BY <1>1, LenProperties
<1>3. ToSet(s \o t) \subseteq ToSet(s) \cup ToSet(t)
  BY <1>1, <1>2 DEF ToSet
<1>4. ToSet(s) \subseteq ToSet(s \o t)
  BY <1>1, <1>2 DEF ToSet
<1>5. ToSet(t) \subseteq ToSet(s \o t)
  <2> SUFFICES ASSUME NEW i \in 1 .. Len(t)
               PROVE  t[i] \in ToSet(s \o t)
    BY <1>2 DEF ToSet
  <2>1. i + Len(s) \in 1 .. Len(s) + Len(t) /\ (s \o t)[i + Len(s)] = t[i]
    BY <1>1, <1>2
  <2> QED BY <1>2, <2>1 DEF ToSet
<1> QED BY <1>3, <1>4, <1>5

\* What each step does to the line: asked at its end, answered at its front.
LEMMA QueueStep ==
    ASSUME QueueInv, [Next]_vars
    PROVE  QueueInv' /\ [Askers!Next]_<<answering \o pending, locked>>
<1> USE DEF QueueInv, Line
<1>1. CASE UNCHANGED <<pending, answering, locked>> /\ pc' \in Phases
           /\ (pc' = "handler" <=> pc = "handler")
           /\ (pc = "answer" /\ pc' # "answer" => answering = <<>>)
  BY <1>1
<1>2. CASE HandlerReturns
  <2>1. QueueInv'
    BY <1>2 DEF HandlerReturns, Phases
  <2>2. Askers!Release
    BY <1>2 DEF HandlerReturns, Askers!Release
  <2> QED BY <2>1, <2>2 DEF Askers!Next
<1>3. CASE TakeDialogs
  <2> USE <1>3 DEF TakeDialogs
  <2>1. Line' = pending /\ Line = pending
    BY ConcatEmptySeq
  <2> QED BY <2>1, EmptyQueue DEF Phases
<1>4. ASSUME NEW raised \in Raised, AnswerDialog(raised)
      PROVE  QueueInv' /\ Askers!Next
  <2> USE <1>4 DEF AnswerDialog
  <2>1. Tail(Line) = Tail(answering) \o pending /\ Line # <<>>
    BY TailOfConcat
  <2>2. Line \in Seq(DIALOGS) /\ Tail(Line) \in Seq(DIALOGS) /\ IsInjective(Tail(Line))
        /\ Tail(answering) \in Seq(DIALOGS)
    BY <2>1, ConcatProperties, LeavingKeepsApart, HeadTailProperties
  <2>3. CASE raised = <<>>
    <3>1. pending' = pending /\ answering' = Tail(answering)
      BY <2>3, ConcatEmptySeq
    <3>2. Line' = Tail(Line)
      BY <2>1, <3>1
    <3>3. QueueInv'
      BY <2>2, <3>1, <3>2
    <3>4. Askers!Answer
      BY <2>1, <3>2 DEF Askers!Answer
    <3> QED BY <3>3, <3>4 DEF Askers!Next
  <2>4. ASSUME NEW d \in DIALOGS, raised = <<d>>
        PROVE  QueueInv' /\ Askers!Next
    <3>1. pending' = Append(pending, d) /\ pending' \in Seq(DIALOGS)
          /\ answering' = Tail(answering)
      BY <2>4
    <3>2. Line' = Append(Tail(Line), d)
      <4>1. <<d>> \in Seq(DIALOGS)
        BY ShortQueues
      <4>2. Line' = Tail(answering) \o (pending \o <<d>>)
        BY <2>4
      <4>3. Line' = Tail(Line) \o <<d>>
        BY <2>1, <2>2, <4>1, <4>2, ConcatAssociative
      <4>4. Append(Tail(Line), d) = Tail(Line) \o <<d>>
        BY <2>2, AppendIsConcat
      <4> QED BY <4>3, <4>4
    <3>3. d \notin ToSet(Tail(Line))
      <4>1. d \in ToSet(raised)
        BY <2>4 DEF ToSet
      <4>2. ToSet(Tail(Line)) = ToSet(Tail(answering)) \cup ToSet(pending)
        BY <2>1, <2>2, SetOfConcat
      <4>3. ToSet(pending \o Tail(answering)) = ToSet(pending) \cup ToSet(Tail(answering))
        BY <2>2, SetOfConcat
      <4> QED BY <4>1, <4>2, <4>3
    <3>4. QueueInv'
      <4>1. IsInjective(Append(Tail(Line), d))
        BY <2>2, <3>3, AskingKeepsApart
      <4> QED BY <2>2, <3>1, <3>2, <4>1
    <3>5. Askers!Answer
      BY <2>1, <3>2 DEF Askers!Answer
    <3> QED BY <3>4, <3>5 DEF Askers!Next
  <2> QED BY <2>3, <2>4 DEF Raised
<1>5. ASSUME NEW d \in DIALOGS, ShowYesNoDialog(d)
      PROVE  QueueInv' /\ Askers!Next
  <2> USE <1>5 DEF ShowYesNoDialog
  <2>1. answering = <<>> /\ Line = pending /\ Line' = Append(pending, d)
    BY ConcatEmptySeq
  <2>2. IsInjective(Line')
    <3>1. IsInjective(pending) /\ d \notin ToSet(pending)
      BY <2>1 DEF Waiting
    <3>2. IsInjective(Append(pending, d))
      BY <3>1, AskingKeepsApart
    <3> QED BY <2>1, <3>2
  <2>3. QueueInv'
    BY <2>1, <2>2 DEF Phases
  <2>4. Askers!Ask
    BY <2>1 DEF Askers!Ask
  <2> QED BY <2>3, <2>4 DEF Askers!Next
<1>6. CASE UNCHANGED vars
  BY <1>1, <1>6 DEF vars, loopVars
<1>7. CASE Next
  <2>1. CASE LoopReturns \/ Host
    BY <1>1, <2>1 DEF LoopReturns, Host, LoopIdles, LoopRuns, EndSlice, FrameAdvance,
                      SetTimerCheckUs, Phases
  <2>2. CASE Guest
    BY <1>1, <1>5, <2>2 DEF Guest, ScheduleEvent, UnscheduleEvent
  <2>3. CASE Code
    BY <1>1, <1>2, <1>3, <1>4, <2>3
       DEF Code, Check, DialogsAnswered, PumpDriver, FireEvent, AdvanceReturns,
           EndIteration, ReadScreen, Phases
  <2> QED BY <1>7, <2>1, <2>2, <2>3 DEF Next
<1> QED BY <1>6, <1>7

LEMMA InitQueueInv == Init => QueueInv
<1> SUFFICES ASSUME Init PROVE QueueInv
  OBVIOUS
<1>1. Line = <<>>
  BY EmptyQueue, ConcatEmptySeq DEF Init, Line
<1> QED BY <1>1, EmptyQueue DEF Init, QueueInv, Phases, IsInjective

(***************************************************************************)
(* Dialogs are answered with the kernel lock let go, and nobody waits in   *)
(* the line twice, however many may ask (host-ui.cpp, pump_host_ui).       *)
(***************************************************************************)
THEOREM AnswersAreOutside == Spec => []AnsweredOutsideTheLock
<1>1. QueueInv => AnsweredOutsideTheLock
  BY DEF QueueInv, Line, AnsweredOutsideTheLock
<1>2. QueueInv /\ [Next]_vars => QueueInv'
  BY QueueStep
<1> QED BY <1>1, <1>2, InitQueueInv, PTL DEF Spec

(***************************************************************************)
(* The queue swapped away before its callbacks run, and asked into again   *)
(* by them, is one fair line (DialogQueue).                                *)
(***************************************************************************)
THEOREM LoopImplementsDialogQueue == Spec => ImplementsDialogQueue
<1>1. Init => Askers!Init
  <2>1. <<>> \o <<>> = <<>>
    BY EmptyQueue, ConcatEmptySeq
  <2> QED BY <2>1 DEF Init, Askers!Init
<1>2. QueueInv /\ [Next]_vars =>
          QueueInv' /\ [Askers!Next]_<<answering \o pending, locked>>
  BY QueueStep
<1> QED BY <1>1, <1>2, InitQueueInv, PTL DEF Spec, ImplementsDialogQueue, Askers!Spec
=============================================================================
