------------------------------ MODULE Calendar -------------------------------
(***************************************************************************)
(* Dates and durations of babet.time (src/src/lua_bindings/                *)
(* time_format.cpp): iso, parse_iso, parse_duration and format_duration.   *)
(*                                                                         *)
(* A text is a record of the numbers in it, or a sequence of numbers with  *)
(* their units: digits and separators are left out.  The length of the     *)
(* day, which the code writes 24 * 60 * 60, is a constant, so that the     *)
(* seconds of many centuries can be small numbers; so are the largest      *)
(* integers.                                                               *)
(***************************************************************************)
EXTENDS Integers, Sequences

CONSTANTS Hours, Minutes, Seconds,  \* of a day, an hour, a minute
          MaxInt,                   \* INT64_MAX, for durations
          MaxNumber,                \* the largest number of 18 digits, in a duration
          MaxYear                   \* INT_MAX: years are ints

ASSUME LengthsAssumption ==
    {Hours, Minutes, Seconds, MaxInt, MaxNumber, MaxYear} \subseteq Nat \ {0}

Hour == Minutes * Seconds
Day  == Hours * Hour

ASSUME DigitsAssumption ==
    {Hours, Minutes, Seconds, MaxInt \div Day} \subseteq 0..MaxNumber

(* / and % of C++ round to zero.                                           *)
Quot(a, b) == IF a >= 0 THEN a \div b ELSE -((-a) \div b)
Rem(a, b)  == a - b * Quot(a, b)

-----------------------------------------------------------------------------
IsLeap(y) == Rem(y, 4) = 0 /\ (Rem(y, 100) # 0 \/ Rem(y, 400) = 0)

DaysInMonth(y, m) ==
    IF m = 2 /\ IsLeap(y) THEN 29
                          ELSE <<31, 28, 31, 30, 31, 30, 31, 31, 30, 31, 30, 31>>[m]

(* An int: what does not fit wraps around (which C++ does not promise).    *)
AsInt(n) == ((n + MaxYear + 1) % (2 * MaxYear + 2)) - MaxYear - 1

(* Days since 1970-01-01, in eras of 400 years that begin on a 1 March.    *)
MutantDaysFromCivil(y, m, d) ==
    LET y0  == IF m <= 2 THEN y - 1 ELSE y
        era == Quot(y0, 400)
        yoe == y0 - era * 400
        doy == (153 * (IF m > 2 THEN m - 3 ELSE m + 9) + 2) \div 5 + d - 1
        doe == yoe * 365 + yoe \div 4 - yoe \div 100 + doy
    IN  era * 146097 + doe - 719468

DaysFromCivil(y, m, d) ==
    LET y0  == IF m <= 2 THEN y - 1 ELSE y
        era == Quot(IF y0 >= 0 THEN y0 ELSE y0 - 399, 400)
        yoe == y0 - era * 400
        doy == (153 * (IF m > 2 THEN m - 3 ELSE m + 9) + 2) \div 5 + d - 1
        doe == yoe * 365 + yoe \div 4 - yoe \div 100 + doy
    IN  era * 146097 + doe - 719468

CivilFromDays(days) ==
    LET z   == days + 719468
        era == Quot(IF z >= 0 THEN z ELSE z - 146096, 146097)
        doe == z - era * 146097
        yoe == (doe - doe \div 1460 + doe \div 36524 - doe \div 146096) \div 365
        doy == doe - (365 * yoe + yoe \div 4 - yoe \div 100)
        mp  == (5 * doy + 2) \div 153
        m   == IF mp < 10 THEN mp + 3 ELSE mp - 9
    IN  [year  |-> AsInt(yoe + era * 400 + (IF m <= 2 THEN 1 ELSE 0)),
         month |-> m,
         day   |-> doy - (153 * mp + 2) \div 5 + 1]

(* The zone of a text: "Z", none, or a sign with hours and minutes.        *)
Utc == [sign |-> 0, hours |-> 0, minutes |-> 0]
NoZone == [sign |-> 2, hours |-> 0, minutes |-> 0]

FormatIso(ts) ==
    LET rem  == Rem(ts, Day)
        days == Quot(ts, Day) - (IF rem < 0 THEN 1 ELSE 0)
        sod  == IF rem < 0 THEN rem + Day ELSE rem
    IN  [date   |-> CivilFromDays(days),
         hour   |-> Quot(sod, Hour),
         minute |-> Quot(Rem(sod, Hour), Seconds),
         second |-> Rem(sod, Seconds),
         zone   |-> Utc]

(* Why parse_iso refuses a text, in the order it looks.                    *)
FourDigits == 0..9999

Refusal(text) ==
    LET date == text.date
        zone == text.zone
    IN  IF date.year \notin FourDigits THEN "format"
        ELSE IF zone = NoZone THEN "zone required"
        ELSE IF zone.hours >= Hours \/ zone.minutes >= Minutes THEN "zone out of range"
        ELSE IF \/ date.year < 1 \/ date.month \notin 1..12
                \/ date.day \notin 1..DaysInMonth(date.year, date.month) THEN "date"
        ELSE IF text.hour >= Hours \/ text.minute >= Minutes \/ text.second >= Seconds THEN "time"
        ELSE "none"

ParseIso(text) ==
    LET date == text.date
        zone == text.zone
        days == DaysFromCivil(date.year, date.month, date.day)
    IN  days * Day + text.hour * Hour + text.minute * Seconds + text.second
            - zone.sign * (zone.hours * Hour + zone.minutes * Seconds)

-----------------------------------------------------------------------------
Weight == [d |-> Day, h |-> Hour, m |-> Seconds, s |-> 1]
Rank   == [d |-> 4, h |-> 3, m |-> 2, s |-> 1]

Failure == -1

MutantAddChunk(total, chunks, i) ==
    LET n == chunks[i].n
        w == Weight[chunks[i].unit]
    IN  IF \/ total = Failure
           \/ n > MaxNumber
           \/ i > 1 /\ Rank[chunks[i].unit] > Rank[chunks[i - 1].unit]
           \/ n # 0 /\ w > MaxInt \div n
           \/ total > MaxInt - n * w
        THEN Failure ELSE total + n * w

(* The pass of the loop that reads the i-th number with its unit.          *)
AddChunk(total, chunks, i) ==
    LET n == chunks[i].n
        w == Weight[chunks[i].unit]
    IN  IF \/ total = Failure
           \/ n > MaxNumber
           \/ i > 1 /\ Rank[chunks[i].unit] >= Rank[chunks[i - 1].unit]
           \/ n # 0 /\ w > MaxInt \div n
           \/ total > MaxInt - n * w
        THEN Failure ELSE total + n * w

(* The seconds of a sequence of numbers with units, in decreasing order of *)
(* units, or Failure.                                                      *)
ParseDuration(chunks) ==
    LET total[i \in 0..Len(chunks)] ==
            IF i = 0 THEN 0 ELSE AddChunk(total[i - 1], chunks, i)
    IN  IF chunks = << >> THEN Failure ELSE total[Len(chunks)]

(* Units with nothing in them are left out, but for no seconds at all.     *)
Part(n, unit) == IF n > 0 THEN << [n |-> n, unit |-> unit] >> ELSE << >>

FormatDuration(n) ==
    LET sod == Rem(n, Day)
        soh == Rem(sod, Hour)
    IN  IF n = 0 THEN << [n |-> 0, unit |-> "s"] >>
        ELSE Part(Quot(n, Day), "d") \o Part(Quot(sod, Hour), "h")
             \o Part(Quot(soh, Seconds), "m") \o Part(Rem(soh, Seconds), "s")
=============================================================================
