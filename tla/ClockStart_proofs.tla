-------------------------- MODULE ClockStart_proofs --------------------------
(***************************************************************************)
(* The days parse_clock_start counts are the calendar's, in every year     *)
(* from 1970 on.                                                           *)
(***************************************************************************)
EXTENDS ClockStart, TLAPS

\* The days before a year that begins in March, and before a month of it.
BeforeYear(yy) ==
    (yy \div 400) * 146097 + (yy - (yy \div 400) * 400) * 365
        + (yy - (yy \div 400) * 400) \div 4 - (yy - (yy \div 400) * 400) \div 100
BeforeMonth(mo) == (153 * (mo + (IF mo > 2 THEN -3 ELSE 9)) + 2) \div 5

\* What the closed form is made of.
LEMMA ClosedForm ==
    ASSUME NEW y \in Nat, 1970 <= y, NEW mo \in 1 .. 12, NEW d \in Nat
    PROVE  DaysFromCivil(y, mo, d) =
               BeforeYear(y - (IF mo <= 2 THEN 1 ELSE 0))
                   + BeforeMonth(mo) + d - 1 - 719468
<1>1. CASE mo <= 2
  BY <1>1, SMTT(30) DEF DaysFromCivil, BeforeYear, BeforeMonth
<1>2. CASE mo > 2
  BY <1>2, SMTT(30) DEF DaysFromCivil, BeforeYear, BeforeMonth
<1> QED
  BY <1>1, <1>2

\* A year is as long as the February it ends with makes it.
LEMMA YearIsLong ==
    ASSUME NEW yy \in Nat
    PROVE  BeforeYear(yy + 1) =
               BeforeYear(yy) + 365 + (IF Gregorian(yy + 1) THEN 1 ELSE 0)
<1> DEFINE q == yy \div 400
           r == yy - q * 400
<1>1. q \in Nat /\ r \in 0 .. 399 /\ yy = 400 * q + r
  BY SMTT(30)
<1> HIDE DEF q, r
<1>2. /\ (yy + 1) % 400 = (r + 1) % 400
      /\ (yy + 1) % 100 = (r + 1) % 100
      /\ (yy + 1) % 4 = (r + 1) % 4
  BY <1>1, SMTT(30)
<1>3. BeforeYear(yy) = q * 146097 + r * 365 + r \div 4 - r \div 100
  BY DEF BeforeYear, q, r
<1>4. CASE r < 399
  <2>1. (yy + 1) \div 400 = q
    BY <1>1, <1>4, SMTT(30)
  <2>2. BeforeYear(yy + 1) =
            q * 146097 + (r + 1) * 365 + (r + 1) \div 4 - (r + 1) \div 100
    BY <1>1, <2>1, SMTT(30) DEF BeforeYear
  <2>3. (r + 1) \div 4 = r \div 4 + (IF (r + 1) % 4 = 0 THEN 1 ELSE 0)
    BY <1>1, SMTT(30)
  <2>4. (r + 1) \div 100 = r \div 100 + (IF (r + 1) % 100 = 0 THEN 1 ELSE 0)
    BY <1>1, SMTT(30)
  <2>5. (r + 1) % 400 # 0 /\ ((r + 1) % 100 = 0 => (r + 1) % 4 = 0)
    BY <1>1, <1>4, SMTT(30)
  <2> QED
    BY <1>1, <1>2, <1>3, <2>2, <2>3, <2>4, <2>5, SMTT(30) DEF Gregorian
<1>5. CASE r = 399
  <2>1. (yy + 1) \div 400 = q + 1
    BY <1>1, <1>5, SMTT(30)
  <2>2. BeforeYear(yy + 1) = (q + 1) * 146097
    BY <1>1, <1>5, <2>1, SMTT(30) DEF BeforeYear
  <2>3. Gregorian(yy + 1)
    BY <1>2, <1>5, SMTT(30) DEF Gregorian
  <2> QED
    BY <1>1, <1>3, <1>5, <2>2, <2>3, SMTT(30)
<1> QED
  BY <1>1, <1>4, <1>5

\* A month is as long as the calendar says, but for the one a year ends with.
LEMMA MonthIsLong ==
    ASSUME NEW y \in Nat, NEW mo \in 1 .. 12, mo # 2
    PROVE  BeforeMonth(IF mo = 12 THEN 1 ELSE mo + 1) =
               BeforeMonth(mo) + Length(y, mo)
<1> QED
  BY SMTT(30) DEF BeforeMonth, Length

-----------------------------------------------------------------------------

IInv ==
    /\ year \in Nat /\ 1970 <= year /\ year <= LAST_YEAR
    /\ month \in 1 .. 12
    /\ day \in 1 .. Length(year, month)
    /\ days \in Int
    /\ DaysAreCounted

LEMMA LengthIsOne ==
    ASSUME NEW y \in Nat, NEW mo \in 1 .. 12
    PROVE  Length(y, mo) \in 28 .. 31
  BY DEF Length

LEMMA StartsCounted == Init => IInv
  BY YearsAssumption, SMTT(30)
  DEF Init, IInv, DaysAreCounted, DaysFromCivil, Length

LEMMA StepCounted == IInv /\ [Next]_vars => IInv'
<1> SUFFICES ASSUME IInv, [Next]_vars PROVE IInv'
  OBVIOUS
<1> USE DEF IInv
<1>0. Length(year, month) \in 28 .. 31 /\ day \in Nat
  BY LengthIsOne
<1>1. CASE NextDay /\ days' = days + 1
  <2>1. /\ year' = year /\ month' = month /\ day' = day + 1
        /\ day' \in 1 .. Length(year', month')
    BY <1>0, <1>1 DEF NextDay
  <2>2. DaysFromCivil(year, month, day + 1) = DaysFromCivil(year, month, day) + 1
    <3>1. /\ DaysFromCivil(year, month, day + 1) =
                BeforeYear(year - (IF month <= 2 THEN 1 ELSE 0))
                    + BeforeMonth(month) + (day + 1) - 1 - 719468
          /\ DaysFromCivil(year, month, day) =
                BeforeYear(year - (IF month <= 2 THEN 1 ELSE 0))
                    + BeforeMonth(month) + day - 1 - 719468
      BY <1>0, ClosedForm
    <3>2. /\ BeforeYear(year - (IF month <= 2 THEN 1 ELSE 0)) \in Int
          /\ BeforeMonth(month) \in Int
      BY DEF BeforeYear, BeforeMonth
    <3> QED
      BY <1>0, <3>1, <3>2
  <2> QED
    BY <1>1, <2>1, <2>2 DEF DaysAreCounted
<1>2. CASE NextMonth /\ days' = days + 1
  <2>1. /\ year' = year /\ month' = month + 1 /\ day' = 1
        /\ month' \in 1 .. 12 /\ day' \in 1 .. Length(year', month')
    BY <1>0, <1>2, LengthIsOne DEF NextMonth
  <2> DEFINE before == BeforeYear(year - 1)
             here == BeforeYear(year)
  <2>2. before \in Int /\ here \in Int /\ BeforeMonth(month) \in Int
        /\ BeforeMonth(month + 1) \in Int
    BY DEF BeforeYear, BeforeMonth
  <2>3. DaysFromCivil(year, month, day) =
            (IF month <= 2 THEN before ELSE here)
                + BeforeMonth(month) + Length(year, month) - 1 - 719468
    BY <1>0, <1>2, ClosedForm DEF NextMonth
  <2>4. DaysFromCivil(year, month + 1, 1) =
            (IF month < 2 THEN before ELSE here)
                + BeforeMonth(month + 1) + 1 - 1 - 719468
    BY <2>1, ClosedForm
  <2>5. CASE month = 2
    <3>1. here = before + 365 + (IF Gregorian(year) THEN 1 ELSE 0)
      BY YearIsLong, year - 1 \in Nat, year - 1 + 1 = year
    <3>2. BeforeMonth(2) = 337 /\ BeforeMonth(3) = 0
      BY DEF BeforeMonth
    <3>3. Length(year, 2) = 28 + (IF Gregorian(year) THEN 1 ELSE 0)
      BY DEF Length
    <3>4. DaysFromCivil(year, month + 1, 1) = DaysFromCivil(year, month, day) + 1
      BY <2>2, <2>3, <2>4, <2>5, <3>1, <3>2, <3>3
    <3> QED
      BY <1>2, <2>1, <3>4 DEF DaysAreCounted
  <2>6. CASE month # 2
    <3>1. BeforeMonth(month + 1) = BeforeMonth(month) + Length(year, month)
      BY <1>2, <2>6, MonthIsLong DEF NextMonth
    <3> HIDE DEF before, here
    <3>2. DaysFromCivil(year, month + 1, 1) = DaysFromCivil(year, month, day) + 1
      BY <1>0, <2>2, <2>3, <2>4, <2>6, <3>1
    <3> QED
      BY <1>2, <2>1, <3>2 DEF DaysAreCounted
  <2> QED
    BY <2>5, <2>6
<1>3. CASE NextYear /\ days' = days + 1
  <2>1. /\ year' = year + 1 /\ month = 12 /\ month' = 1 /\ day' = 1
        /\ day = Length(year, 12) /\ day' \in 1 .. Length(year', month')
    BY <1>0, <1>3, LengthIsOne DEF NextYear
  <2> DEFINE here == BeforeYear(year)
  <2>2. here \in Int
    BY DEF BeforeYear
  <2>3. DaysFromCivil(year, 12, day) = here + BeforeMonth(12) + day - 1 - 719468
    BY <1>0, ClosedForm
  <2>4. DaysFromCivil(year + 1, 1, 1) = here + BeforeMonth(1) + 1 - 1 - 719468
    BY ClosedForm, year + 1 - 1 = year
  <2>5. BeforeMonth(12) = 275 /\ BeforeMonth(1) = 306 /\ Length(year, 12) = 31
    BY DEF BeforeMonth, Length
  <2> HIDE DEF here
  <2>6. DaysFromCivil(year + 1, 1, 1) = DaysFromCivil(year, 12, day) + 1
    BY <2>1, <2>2, <2>3, <2>4, <2>5
  <2> QED
    BY <1>3, <2>1, <2>6, YearsAssumption DEF DaysAreCounted, NextYear
<1>4. CASE UNCHANGED vars
  BY <1>4 DEF vars, DaysAreCounted
<1> QED
  BY <1>1, <1>2, <1>3, <1>4 DEF Next

\* parse_clock_start's closed form is the number of days since 1970-01-01,
\* for every day of every year from then on.
THEOREM Counted == Spec => []DaysAreCounted
<1>1. IInv => DaysAreCounted
  BY DEF IInv
<1> QED
  BY <1>1, StartsCounted, StepCounted, PTL DEF Spec

-----------------------------------------------------------------------------

LEMMA LeapIsGregorian == ASSUME NEW y \in Nat PROVE Leap(y) <=> Gregorian(y)
<1>1. y % 400 = 0 => y % 100 = 0
  BY SMTT(30)
<1>2. y % 100 = 0 => y % 4 = 0
  BY SMTT(30)
<1> QED
  BY <1>1, <1>2 DEF Leap, Gregorian

\* The table of the code, and its one exception, are the calendar.
LEMMA TableIsCalendar ==
    ASSUME NEW y \in Nat, NEW mo \in 1 .. 12
    PROVE  DaysIn(y, mo) = Length(y, mo)
<1>1. days_in[mo] = IF mo = 2 THEN 28
                    ELSE IF mo \in {4, 6, 9, 11} THEN 30 ELSE 31
  BY DEF days_in
<1> QED
  BY <1>1, LeapIsGregorian DEF DaysIn, Length

\* The dates parse_clock_start accepts are those the calendar has, in every
\* year that is offered.
THEOREM AcceptedAreTheCalendars == Spec => []AcceptsTheCalendar
<1>1. IInv => AcceptsTheCalendar
  <2> SUFFICES ASSUME IInv, Offered, NEW d \in -1 .. 32
               PROVE  ValidDate(year, month, d) <=> d \in 1 .. Length(year, month)
    BY DEF AcceptsTheCalendar
  <2> QED
    BY TableIsCalendar, LengthIsOne, YearsAssumption DEF IInv, Offered, ValidDate
<1> QED
  BY <1>1, StartsCounted, StepCounted, PTL DEF Spec

\* A time of day lies in its day.
LEMMA TimeIsInTheDay ==
    ASSUME NEW h \in 0 .. 23, NEW mi \in 0 .. 59, NEW se \in 0 .. 59
    PROVE  0 <= h * 3600 + mi * 60 + se /\ h * 3600 + mi * 60 + se < 86400
<1>1. h * 3600 \in Int /\ 0 <= h * 3600 /\ h * 3600 <= 82800
  BY Z3
<1>2. mi * 60 \in Int /\ 0 <= mi * 60 /\ mi * 60 <= 3540
  BY Z3
<1> QED
  BY <1>1, <1>2

\* Whatever the time, the second the clock starts at is one of the day named.
THEOREM StartsInTheDay == Spec => []StartsThatDay
<1>1. ASSUME IInv
      PROVE  StartsThatDay
  <2>1. ASSUME NEW text \in Texts, Accepted(text)
        PROVE  /\ Seconds(text).days = days
               /\ 0 <= Seconds(text).added /\ Seconds(text).added < 86400
               /\ text.time = <<>> => Seconds(text).added = 0
    <3>1. text.date = <<year, month, day>>
      BY DEF Texts
    <3>2. Seconds(text).days = days
      BY <1>1, <3>1 DEF Seconds, IInv, DaysAreCounted
    <3>3. CASE text.time = <<>>
      <4>1. Seconds(text).added = 0
        BY <3>3 DEF Seconds
      <4> QED
        BY <3>2, <4>1
    <3>4. CASE text.time # <<>>
      <4>1. Seconds(text).added =
                text.time[1] * 3600 + text.time[2] * 60 + text.time[3]
        BY <3>4 DEF Seconds
      <4>2. /\ text.time[1] \in 0 .. 23
            /\ text.time[2] \in 0 .. 59
            /\ text.time[3] \in 0 .. 59
        BY <2>1, <3>4 DEF Accepted, ValidTime
      <4>3. 0 <= Seconds(text).added /\ Seconds(text).added < 86400
        <5> DEFINE h == text.time[1]
                   mi == text.time[2]
                   se == text.time[3]
        <5>1. /\ h \in 0 .. 23 /\ mi \in 0 .. 59 /\ se \in 0 .. 59
              /\ Seconds(text).added = h * 3600 + mi * 60 + se
          BY <4>1, <4>2
        <5> HIDE DEF h, mi, se
        <5>2. 0 <= h * 3600 + mi * 60 + se /\ h * 3600 + mi * 60 + se < 86400
          BY <5>1, TimeIsInTheDay
        <5> QED
          BY <5>1, <5>2
      <4> QED
        BY <3>2, <3>4, <4>3
    <3> QED
      BY <3>3, <3>4
  <2> QED
    BY <2>1 DEF StartsThatDay
<1> QED
  BY <1>1, StartsCounted, StepCounted, PTL DEF Spec
=============================================================================
