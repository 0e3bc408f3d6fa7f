---------------------------- MODULE CalendarDays ----------------------------
(***************************************************************************)
(* The Gregorian calendar, counted day by day, next to which the           *)
(* conversions of Calendar are held.  1970-01-01 is the day 0, and the     *)
(* calendar repeats after 400 years, which have 146097 days.               *)
(***************************************************************************)
EXTENDS Calendar

CONSTANT Eras  \* where counting starts: so many times 400 years after 1970

ASSUME ErasAssumption == Eras \subseteq Int

VARIABLES number,  \* of the day
          date     \* the day

Leap(y) == y % 400 \in {4 * i : i \in 0..99} \ {100, 200, 300}

MonthLength(y, m) == IF m \in {4, 6, 9, 11} THEN 30
                     ELSE IF m # 2 THEN 31
                     ELSE IF Leap(y) THEN 29 ELSE 28

Tomorrow(d) ==
    IF d.day < MonthLength(d.year, d.month)
    THEN [d EXCEPT !.day = @ + 1]
    ELSE IF d.month < 12
    THEN [year |-> d.year, month |-> d.month + 1, day |-> 1]
    ELSE [year |-> d.year + 1, month |-> 1, day |-> 1]

CountInit ==
    \E e \in Eras : /\ number = 146097 * e
                    /\ date = [year |-> 1970 + 400 * e, month |-> 1, day |-> 1]

CountDay == number' = number + 1 /\ date' = Tomorrow(date)

CountSpec == CountInit /\ [][CountDay]_<<number, date>>

-----------------------------------------------------------------------------
FitsInt(y) == y \in (-MaxYear - 1)..MaxYear

(* A zone is none, or east or west by up to a minute less than a day.      *)
Zones == {Utc, [sign |-> 1, hours |-> Hours - 1, minutes |-> Minutes - 1],
               [sign |-> -1, hours |-> Hours - 1, minutes |-> 0]}

Years == 1..9999  \* that parse_iso reads

(* What iso writes of a second of this day parse_iso reads back, as it is  *)
(* or in another zone, in the years it has digits for.                     *)
IsoIsRight(ts, zone) ==
    LET text == [FormatIso(ts) EXCEPT !.zone = zone]
    IN  /\ FormatIso(ts).date = date
        /\ Refusal(text) = "none" <=> date.year \in Years
        /\ ParseIso(text) = ts - zone.sign * (zone.hours * Hour + zone.minutes * Seconds)

(* On every day of a year that an int holds the two conversions of         *)
(* time_format.cpp agree with the calendar; iso and parse_iso agree with   *)
(* each other on every second of it, also before 1970; and a day more than *)
(* the month has is refused.                                               *)
CalendarIsRight == FitsInt(date.year) =>
    /\ CivilFromDays(number) = date
    /\ DaysFromCivil(date.year, date.month, date.day) = number
    /\ \A second \in 0..(Day - 1), zone \in Zones : IsoIsRight(number * Day + second, zone)
    /\ (Tomorrow(date).day = 1 /\ date.year \in Years) =>
            Refusal([FormatIso(number * Day) EXCEPT !.date.day = @ + 1]) = "date"
=============================================================================
