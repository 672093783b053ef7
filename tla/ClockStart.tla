----------------------------- MODULE ClockStart -----------------------------
(***************************************************************************)
(* The date the machine's clock starts at: parse_clock_start, and the      *)
(* calendar it is held against, a day at a time.                           *)
(*                                                                         *)
(* A text is what sscanf makes of it: the numbers of a date, of a time if  *)
(* one follows, and whether anything is left over.                         *)
(***************************************************************************)
EXTENDS Integers, Sequences

CONSTANTS FIRST_YEAR, LAST_YEAR

ASSUME YearsAssumption ==
    /\ FIRST_YEAR \in Nat /\ LAST_YEAR \in Nat
    /\ 1970 <= FIRST_YEAR /\ FIRST_YEAR <= LAST_YEAR

VARIABLES
    year, month, day,  \* a day of the calendar
    days               \* how many came before it

vars == <<year, month, day, days>>

-----------------------------------------------------------------------------
(* parse_clock_start.                                                      *)

\* Variant of Leap: a century is never a leap year.
LeapJulian(y) == y % 4 = 0 /\ y % 100 # 0

Leap(y) == (y % 4 = 0 /\ y % 100 # 0) \/ y % 400 = 0

days_in == <<31, 28, 31, 30, 31, 30, 31, 31, 30, 31, 30, 31>>

DaysIn(y, mo) == days_in[mo] + (IF mo = 2 /\ Leap(y) THEN 1 ELSE 0)

ValidDate(y, mo, d) ==
    /\ FIRST_YEAR <= y /\ y <= LAST_YEAR
    /\ 1 <= mo /\ mo <= 12
    /\ 1 <= d /\ d <= DaysIn(y, mo)

\* Variant of ValidTime: midnight may end a day.
ValidTimeToMidnight(h, mi, s) == h \in 0 .. 24 /\ mi \in 0 .. 59 /\ s \in 0 .. 59

ValidTime(h, mi, s) == h \in 0 .. 23 /\ mi \in 0 .. 59 /\ s \in 0 .. 59

\* Variant of DaysFromCivil: every year is counted from its own January.
DaysFromCivilJanuary(y, mo, d) ==
    LET era == y \div 400
        yoe == y - era * 400
        doy == (153 * (mo + (IF mo > 2 THEN -3 ELSE 9)) + 2) \div 5 + d - 1
        doe == yoe * 365 + yoe \div 4 - yoe \div 100 + doy
    IN  era * 146097 + doe - 719468

\* Years begin in March, and eras of 400 of them are alike.
DaysFromCivil(y, mo, d) ==
    LET yy == y - (IF mo <= 2 THEN 1 ELSE 0)
        era == yy \div 400
        yoe == yy - era * 400
        doy == (153 * (mo + (IF mo > 2 THEN -3 ELSE 9)) + 2) \div 5 + d - 1
        doe == yoe * 365 + yoe \div 4 - yoe \div 100 + doy
    IN  era * 146097 + doe - 719468

\* A date, and a time, or none and midnight; nothing may follow either.
Accepted(text) ==
    /\ ~text.more
    /\ ValidDate(text.date[1], text.date[2], text.date[3])
    /\ text.time # <<>> => ValidTime(text.time[1], text.time[2], text.time[3])

\* `seconds`, as days * 86400 and what is added to them: the sum is 64 bits
\* wide, and is kept in two for the model checker's integers, which are not.
Seconds(text) ==
    LET t == IF text.time = <<>> THEN <<0, 0, 0>> ELSE text.time
    IN  [days |-> DaysFromCivil(text.date[1], text.date[2], text.date[3]),
         added |-> t[1] * 3600 + t[2] * 60 + t[3]]

-----------------------------------------------------------------------------
(* The calendar, from 1970-01-01.                                          *)

Gregorian(y) == IF y % 100 = 0 THEN y % 400 = 0 ELSE y % 4 = 0

Length(y, mo) ==
    IF mo = 2 THEN IF Gregorian(y) THEN 29 ELSE 28
    ELSE IF mo \in {4, 6, 9, 11} THEN 30 ELSE 31

Init ==
    /\ year = 1970 /\ month = 1 /\ day = 1
    /\ days = 0

NextDay ==
    /\ day < Length(year, month)
    /\ day' = day + 1
    /\ UNCHANGED <<year, month>>

NextMonth ==
    /\ day = Length(year, month)
    /\ month < 12
    /\ day' = 1 /\ month' = month + 1
    /\ UNCHANGED year

NextYear ==
    /\ day = Length(year, month)
    /\ month = 12
    /\ year < LAST_YEAR
    /\ day' = 1 /\ month' = 1 /\ year' = year + 1

Next == (NextDay \/ NextMonth \/ NextYear) /\ days' = days + 1

Spec == Init /\ [][Next]_vars

-----------------------------------------------------------------------------

\* Whether the project's clock may start at all that day.
Offered == FIRST_YEAR <= year

(***************************************************************************)
(* The closed form counts days: it gives every day of the calendar the     *)
(* number of days before it, so no two days are one and none is skipped    *)
(* (parse_clock_start, "days from 1970-01-01").                            *)
(***************************************************************************)
DaysAreCounted == days = DaysFromCivil(year, month, day)

(***************************************************************************)
(* The dates accepted are the calendar's: the month of a day that is       *)
(* offered has the days it has, and no others.                             *)
(***************************************************************************)
AcceptsTheCalendar ==
    Offered => \A d \in -1 .. 32 :
        ValidDate(year, month, d) <=> d \in 1 .. Length(year, month)

\* Times at the edges of what a day, an hour and a minute have.
Times == {<<>>} \cup ({-1, 0, 23, 24} \X {-1, 0, 59, 60} \X {-1, 0, 59, 60})

Texts == [date : {<<year, month, day>>}, time : Times, more : BOOLEAN]

(***************************************************************************)
(* The clock starts on the day the project names: whatever the time, the   *)
(* seconds it starts at lie in that day, and without one at its start.     *)
(***************************************************************************)
StartsThatDay ==
    Offered => \A text \in Texts : Accepted(text) =>
        /\ Seconds(text).days = days
        /\ 0 <= Seconds(text).added /\ Seconds(text).added < 86400
        /\ text.time = <<>> => Seconds(text).added = 0
=============================================================================
