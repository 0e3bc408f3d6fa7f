----------------------------- MODULE Durations ------------------------------
(***************************************************************************)
(* Every duration that can be written, number by number, and what it means *)
(* next to what parse_duration and format_duration of Calendar make of it. *)
(***************************************************************************)
EXTENDS Calendar

CONSTANT Numbers  \* those that are written

ASSUME NumbersAssumption == Numbers \subseteq Nat

VARIABLE written  \* a sequence of numbers with their units

Units == {"d", "h", "m", "s"}

WriteInit == written = << >>

WriteChunk ==
    \E n \in Numbers, unit \in Units : written' = Append(written, [n |-> n, unit |-> unit])

WriteSpec == WriteInit /\ [][WriteChunk]_written

-----------------------------------------------------------------------------
(* The sum of all numbers in their units.                                  *)
TotalOf(chunks) ==
    LET sum[i \in 0..Len(chunks)] ==
            IF i = 0 THEN 0 ELSE sum[i - 1] + chunks[i].n * Weight[chunks[i].unit]
    IN  sum[Len(chunks)]

(* Each unit at most once, the larger ones first.                          *)
Decreasing(chunks) ==
    \A i, j \in DOMAIN chunks : i < j => Rank[chunks[i].unit] > Rank[chunks[j].unit]

(* parse_duration accepts a text whose units are in decreasing order, each *)
(* once, whose numbers have at most 18 digits and whose sum a 64-bit       *)
(* integer can hold, and no other; its answer is that sum, and what        *)
(* format_duration writes of the answer it reads again.                    *)
DurationsAreExact ==
    LET value == ParseDuration(written)
    IN  /\ value # Failure <=>
              /\ written # << >> /\ Decreasing(written)
              /\ \A i \in DOMAIN written : written[i].n <= MaxNumber
              /\ TotalOf(written) <= MaxInt
        /\ value # Failure =>
              value = TotalOf(written) /\ ParseDuration(FormatDuration(value)) = value
=============================================================================
