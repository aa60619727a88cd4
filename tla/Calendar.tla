------------------------------ MODULE Calendar ------------------------------
(***************************************************************************)
(* The dates of telemetry rows (crates/askr/src/observ_sql.rs): a number   *)
(* of days since 1970-01-01 becomes a year, a month and a day.  The        *)
(* Gregorian calendar is the reference: the state walks through it day by  *)
(* day.                                                                    *)
(***************************************************************************)
EXTENDS Naturals

CONSTANT LastDay        \* bound: days walked

VARIABLES day, date     \* the number of a day, and its date in the calendar

vars == <<day, date>>

\* civil_from_days, for days that are not before year 0.
civil_from_days(z) ==
    LET n   == z + 719468
        era == n \div 146097
        doe == n - (era * 146097)
        yoe == (((doe - (doe \div 1460)) + (doe \div 36524)) - (doe \div 146096)) \div 365
        doy == doe - (((365 * yoe) + (yoe \div 4)) - (yoe \div 100))
        mp  == ((5 * doy) + 2) \div 153
        d   == (doy - (((153 * mp) + 2) \div 5)) + 1
        m   == IF mp < 10 THEN mp + 3 ELSE mp - 9
    IN <<(yoe + (era * 400)) + (IF m <= 2 THEN 1 ELSE 0), m, d>>

Leap(y) == y % 4 = 0 /\ (y % 100 # 0 \/ y % 400 = 0)
DaysOf(y, m) == IF m = 2 THEN (IF Leap(y) THEN 29 ELSE 28)
                ELSE IF m \in {4, 6, 9, 11} THEN 30 ELSE 31
Tomorrow(d) ==
    IF d[3] < DaysOf(d[1], d[2]) THEN <<d[1], d[2], d[3] + 1>>
    ELSE IF d[2] < 12 THEN <<d[1], d[2] + 1, 1>>
    ELSE <<d[1] + 1, 1, 1>>

Init == day = 0 /\ date = <<1970, 1, 1>>
Next == day < LastDay /\ day' = day + 1 /\ date' = Tomorrow(date)
Spec == Init /\ [][Next]_vars

-----------------------------------------------------------------------------
\* The date written into a row is the calendar's, across leap years and centuries.
DatesAreTheCalendars == civil_from_days(day) = date
=============================================================================
