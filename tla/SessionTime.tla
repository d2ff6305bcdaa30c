----------------------------- MODULE SessionTime ----------------------------
(***************************************************************************)
(* lib/sessionTime.ts and the arithmetic of CalendarPicker: a time is the  *)
(* minutes of its day, a date is a number of days, and a month a number of *)
(* months, both counted from 1 January 2024, which was a Monday.           *)
(***************************************************************************)
EXTENDS Integers, SequencesExt

MIN_SESSION_MINUTES == 30
MAX_SESSION_MINUTES == 4 * 60
TIME_INCREMENT_MINUTES == 15
Day == 24 * 60
Blank == -1
NoError == "none"

\* Date.getDay and the length of a month, which JavaScript knows.
Weekday(date) == (date + 1) % 7
daysInMonth(month) ==
    LET m == month % 12
    IN CASE m = 1 -> IF (month \div 12) % 4 = 0 THEN 29 ELSE 28
         [] m \in {3, 5, 8, 10} -> 30
         [] OTHER -> 31
FirstOf[month \in Nat] ==
    IF month = 0 THEN 0 ELSE FirstOf[month - 1] + daysInMonth(month - 1)
LastOf(month) == FirstOf[month] + daysInMonth(month) - 1
firstWeekdayOfMonth(month) == Weekday(FirstOf[month])
MonthOf(date) == CHOOSE m \in 0 .. date : FirstOf[m] <= date /\ date <= LastOf(m)

combineToLocalDate(date, time) == date * Day + time
Today(now) == now \div Day
isPastDate(date, now) == date < Today(now)
shiftMonth(month, step) == month + step

defaultDate(now) == Today(now) + 1
defaultStartTime == 9 * 60

\* Fault: the session may run into the next day.
plusOneHourUnclamped(time) == time + 60
plusOneHour(time) == Min({time + 60, 23 * 60 + 45})

HOUR_OPTIONS == 0 .. 23
MINUTE_OPTIONS_15 == {0, 15, 30, 45}
joinTime(hour, minute) == hour * 60 + minute
Distance(m, n) == IF m < n THEN n - m ELSE m - n
snapMinuteTo15(minute) ==
    CHOOSE m \in MINUTE_OPTIONS_15 :
        \A n \in MINUTE_OPTIONS_15 : Distance(minute, m) <= Distance(minute, n)
timeOptions(increment) == {t \in 0 .. Day - 1 : t % increment = 0}

\* Fault: the first row starts on Monday.
buildMonthGridMonday(month) ==
    LET leading == (firstWeekdayOfMonth(month) + 6) % 7
        rows == (leading + daysInMonth(month) + 6) \div 7
    IN [i \in 1 .. 7 * rows |->
            IF i \in leading + 1 .. leading + daysInMonth(month)
            THEN FirstOf[month] + i - leading - 1 ELSE Blank]

\* Rows of seven from Sunday, blank before the first and after the last day.
buildMonthGrid(month) ==
    LET leading == firstWeekdayOfMonth(month)
        rows == (leading + daysInMonth(month) + 6) \div 7
    IN [i \in 1 .. 7 * rows |->
            IF i \in leading + 1 .. leading + daysInMonth(month)
            THEN FirstOf[month] + i - leading - 1 ELSE Blank]

\* Fault: no upper bound.
computeValidationErrorOpen(draft, now) ==
    LET minutes == draft.end - draft.start
    IN CASE minutes <= 0 -> "endBeforeStart"
         [] minutes > 0 /\ minutes < MIN_SESSION_MINUTES -> "tooShort"
         [] OTHER -> NoError

\* What the form shows, or null.
computeValidationError(draft, now) ==
    LET minutes == draft.end - draft.start
    IN CASE minutes <= 0 -> "endBeforeStart"
         [] minutes > 0 /\ minutes < MIN_SESSION_MINUTES -> "tooShort"
         [] minutes > MAX_SESSION_MINUTES -> "tooLong"
         [] /\ minutes \in MIN_SESSION_MINUTES .. MAX_SESSION_MINUTES
            /\ draft.date = Today(now)
            /\ combineToLocalDate(draft.date, draft.start) < now -> "past"
         [] OTHER -> NoError
=============================================================================
