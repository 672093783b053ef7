SPECIFICATION Spec
CONSTANTS
    FIRST_YEAR = 1980
    LAST_YEAR = 2099
INVARIANTS
    DaysAreCounted
    AcceptsTheCalendar
    StartsThatDay
CHECK_DEADLOCK FALSE
