---------------------------- MODULE MCFunctions -----------------------------
(***************************************************************************)
(* The functions of babet on bounded inputs, one after the other: dates    *)
(* follow one another, a calendar counted day by day; durations are        *)
(* written number by number and values part by part; copies and walks are  *)
(* made step by step.                                                      *)
(***************************************************************************)
EXTENDS CalendarDays, Durations, DeepCopy, LuaValues, Find

VARIABLE about  \* which function

-----------------------------------------------------------------------------
(* The eras that are counted, and for how many years: the years around 0   *)
(* and 100, and those around 2000 and 2100.                                *)
MCEras == {-5, 0}
YearsCounted == 132

(* Durations: the numbers in them, and how many.                           *)
MCNumbers == 0..4 \cup {MaxNumber, MaxNumber + 1, MaxInt}
ChunksWritten == 3

(* Trees of files up to three levels deep, two entries in a directory.     *)
(* A directory is <<"dir", its entries>>.                                  *)
Dirs(S) == {<<"dir", entries>> : entries \in UNION {[1..k -> S] : k \in 0..2}}
Others == {<<"file", << >> >>, <<"locked", << >> >>}
Level1 == Others \cup Dirs({<<"file", << >> >>} \cup Dirs({<<"file", << >> >>}))
Roots == Others \cup Dirs(Level1) \cup {<<"missing", << >> >>}

RECURSIVE PathsOf(_)
PathsOf(entry) ==
    {<< >>} \cup UNION {{<<i>> \o p : p \in PathsOf(entry[2][i])} : i \in DOMAIN entry[2]}

RECURSIVE At(_, _)
At(entry, p) == IF p = << >> THEN entry ELSE At(entry[2][Head(p)], Tail(p))

MCFileTrees == {[p \in PathsOf(dir) |-> At(dir, p)[1]] : dir \in Roots}
MCFindOptions == [mindepth : 0..1, maxdepth : 0..2, type : {""}]
                 \cup [mindepth : {0}, maxdepth : 0..2, type : {"f", "d"}]

(* JSON and Lua values, nested up to the limit and one level beyond.       *)
MCJsonLeaves == {Null, <<"integer", 1>>, <<"integer", MaxInteger + 1>>, <<"string", 1>>}
MCLuaLeaves == {JsonNull, JsonEmpty, <<"integer", 1>>, <<"function", 1>>}
MCLuaKeys == {<<"integer", 0>>, <<"integer", 1>>, <<"integer", 2>>, <<"string", 1>>, <<"boolean", 1>>}
PartsOfJson == 5
PartsOfLua == 4

-----------------------------------------------------------------------------
(* All heaps are taken, so one root stands for all, and what it does not   *)
(* lead to is never looked at.                                             *)
MCRoot == CHOOSE t \in Tables : TRUE
NothingElse == \A t \in Tables \ Reachable : heap[t] = EmptyTable

others == <<findVars, copyVars, valueVars>>

NoDate == number = 0 /\ date = [year |-> 1970, month |-> 1, day |-> 1]
NoCopy ==
    /\ heap = [t \in Tables |-> EmptyTable] /\ root = MCRoot
    /\ calls = << >> /\ visited = << >> /\ copies = << >> /\ outcome = "none"
NoFind ==
    /\ tree = One("missing") /\ options = CHOOSE o \in FindOptions : TRUE
    /\ it = End /\ found = << >> /\ answer = "none"

Init ==
    \/ about = "day" /\ CountInit /\ WriteInit /\ NoCopy /\ NoFind /\ json = One(Null) /\ lua = One(Nil)
    \/ about = "duration" /\ NoDate /\ WriteInit /\ NoCopy /\ NoFind /\ json = One(Null) /\ lua = One(Nil)
    \/ about = "copy" /\ NoDate /\ WriteInit /\ root = MCRoot /\ CopyInit /\ NothingElse /\ NoFind /\ json = One(Null) /\ lua = One(Nil)
    \/ about = "find" /\ NoDate /\ WriteInit /\ NoCopy /\ FindInit /\ json = One(Null) /\ lua = One(Nil)
    \/ about = "json" /\ NoDate /\ WriteInit /\ NoCopy /\ NoFind /\ ValuesInit /\ lua = One(Nil)
    \/ about = "message" /\ NoDate /\ WriteInit /\ NoCopy /\ NoFind /\ ValuesInit /\ json = One(Null)

NextDay ==
    /\ about = "day"
    /\ \E e \in Eras : date.year \in 1970 + 400 * e .. 1969 + 400 * e + YearsCounted
    /\ CountDay
    /\ UNCHANGED <<about, written, others>>

NextChunk ==
    /\ about = "duration" /\ Len(written) < ChunksWritten
    /\ WriteChunk
    /\ UNCHANGED <<about, number, date, others>>

NextCall ==
    /\ about = "copy" /\ CopyNext
    /\ UNCHANGED <<about, number, date, written, findVars, valueVars>>

NextEntry ==
    /\ about = "find" /\ FindNext
    /\ UNCHANGED <<about, number, date, written, copyVars, valueVars>>

NextPart ==
    /\ \/ about = "json" /\ Cardinality(DOMAIN json) < PartsOfJson /\ (AddElement \/ AddMember)
       \/ about = "message" /\ Cardinality(DOMAIN lua) < PartsOfLua /\ AddField
    /\ UNCHANGED <<about, number, date, written, copyVars, findVars>>

Next == NextDay \/ NextChunk \/ NextCall \/ NextEntry \/ NextPart

Spec == Init /\ [][Next]_<<about, number, date, written, others>>
=============================================================================
