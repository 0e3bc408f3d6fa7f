----------------------------- MODULE DataProofs -----------------------------
(***************************************************************************)
(* Proofs about the events that babet.inotify reads, the dates and         *)
(* durations that babet.time converts, the copies of tables, the walks of  *)
(* babet.find, and Lua values as JSON: parts that share only a few lemmas. *)
(*                                                                         *)
(* First a watcher, for any size of the kernel's queue and of the buffer   *)
(* of read, any number of events and of watches.                           *)
(***************************************************************************)
EXTENDS Inotify, CalendarDays, Durations, DeepCopy, Find, LuaValues,
        FiniteSetTheorems, SequenceTheorems, WellFoundedInduction, TLAPS

(* The buffer holds events only between the system call and the table.     *)
BufferInv == pc # "decode" => buf = << >>

(* The kernel's queue is longer than its limit only by an overflow.        *)
LimitInv == Len(queue) <= MaxQueue \/ Overflows(queue)

(* Nothing that is still to come is newer than what has happened.          *)
PastInv == \A i \in DOMAIN Log : Log[i].id <= happened

Accounted(n) == Holds(Log, n) \/ Announced(n) \/ \E e \in stolen : e.id = n
AccountInv == \A n \in 1..happened : Accounted(n)

OpenInv == Ordered(Log) /\ PastInv /\ AccountInv

NInv == TypeOK /\ BufferInv /\ LimitInv /\ (isOpen => OpenInv)

-----------------------------------------------------------------------------
(* Sequences of events.                                                    *)
(* What the three parts of the log say of the whole.                       *)
LEMMA LogFacts ==
    ASSUME NEW p \in Seq(Events), NEW s \in Seq(Events)
    PROVE  /\ p \o s \in Seq(Events)
           /\ DOMAIN p = 1..Len(p) /\ DOMAIN s = 1..Len(s) /\ Len(p) \in Nat /\ Len(s) \in Nat
           /\ DOMAIN (p \o s) = 1..(Len(p) + Len(s))
           /\ \A i \in 1..(Len(p) + Len(s)) :
                 (p \o s)[i] = IF i <= Len(p) THEN p[i] ELSE s[i - Len(p)]
BY ConcatProperties, LenProperties

LEMMA Ids ==
    ASSUME BoundsAssumption, NEW s \in Seq(Events), NEW i \in DOMAIN s
    PROVE  s[i] \in Events /\ s[i].id \in Nat
<1>1. s[i] \in Events
  BY ElementOfSeq, LenProperties
<1> QED BY <1>1, BoundsAssumption DEF Events

(* A newer event at the end keeps the order, and so does an overflow.      *)
LEMMA AppendKeepsOrder ==
    ASSUME BoundsAssumption, NEW s \in Seq(Events), NEW e \in Events, Ordered(s),
           \A i \in DOMAIN s : e.id # 0 => s[i].id < e.id
    PROVE  Ordered(Append(s, e))
<1>1. /\ DOMAIN s = 1..Len(s) /\ Len(s) \in Nat /\ DOMAIN Append(s, e) = 1..(Len(s) + 1)
      /\ \A i \in 1..Len(s) : Append(s, e)[i] = s[i]
      /\ Append(s, e)[Len(s) + 1] = e
  BY LenProperties
<1> SUFFICES ASSUME NEW i \in 1..(Len(s) + 1), NEW j \in 1..(Len(s) + 1), i < j,
                    Append(s, e)[i].id # 0, Append(s, e)[j].id # 0
             PROVE  Append(s, e)[i].id < Append(s, e)[j].id
  BY <1>1 DEF Ordered
<1>2. i \in DOMAIN s /\ Append(s, e)[i] = s[i]
  BY <1>1
<1>3. CASE j \in DOMAIN s
  BY <1>1, <1>2, <1>3 DEF Ordered
<1>4. CASE j = Len(s) + 1
  BY <1>1, <1>2, <1>4
<1> QED BY <1>1, <1>3, <1>4

LEMMA AppendToConcat ==
    ASSUME NEW p \in Seq(Events), NEW s \in Seq(Events), NEW e \in Events
    PROVE  p \o Append(s, e) = Append(p \o s, e)
<1>1. Append(s, e) = s \o <<e>> /\ <<e>> \in Seq(Events)
  BY AppendIsConcat
<1>2. Append(p \o s, e) = (p \o s) \o <<e>>
  BY AppendIsConcat, ConcatProperties
<1> QED BY <1>1, <1>2, ConcatAssociative

LEMMA AppendFacts ==
    ASSUME NEW s \in Seq(Events), NEW e \in Events
    PROVE  /\ Append(s, e) \in Seq(Events) /\ Len(Append(s, e)) = Len(s) + 1
           /\ Len(s) \in Nat /\ DOMAIN s = 1..Len(s)
           /\ DOMAIN Append(s, e) = 1..(Len(s) + 1)
           /\ \A i \in DOMAIN s : i \in DOMAIN Append(s, e) /\ Append(s, e)[i] = s[i]
           /\ Append(s, e)[Len(s) + 1] = e
           /\ \A n : Holds(s, n) => Holds(Append(s, e), n)
           /\ Holds(Append(s, e), e.id)
           /\ Overflows(s) => Overflows(Append(s, e))
           /\ Overflows(Append(s, Overflow))
<1>1. /\ Append(s, e) \in Seq(Events) /\ Len(Append(s, e)) = Len(s) + 1
      /\ Len(s) \in Nat /\ DOMAIN s = 1..Len(s) /\ DOMAIN Append(s, e) = 1..(Len(s) + 1)
      /\ \A i \in DOMAIN s : i \in DOMAIN Append(s, e) /\ Append(s, e)[i] = s[i]
      /\ Append(s, e)[Len(s) + 1] = e
  BY LenProperties
<1>2. Len(s) + 1 \in DOMAIN Append(s, e)
  BY <1>1
<1>3. Overflows(Append(s, Overflow))
  <2>1. Append(s, Overflow)[Len(s) + 1] = Overflow /\ Len(s) + 1 \in DOMAIN Append(s, Overflow)
    BY LenProperties
  <2> QED BY <2>1 DEF Overflows
<1>4. \A n : Holds(s, n) => Holds(Append(s, e), n)
  BY <1>1 DEF Holds
<1>5. Holds(Append(s, e), e.id)
  BY <1>1, <1>2 DEF Holds
<1>6. Overflows(s) => Overflows(Append(s, e))
  BY <1>1 DEF Overflows
<1> QED BY <1>1, <1>3, <1>4, <1>5, <1>6

(* Taking an event out of the middle keeps the order, and what else is     *)
(* held.                                                                   *)
LEMMA TailKeeps ==
    ASSUME BoundsAssumption, NEW p \in Seq(Events), NEW s \in Seq(Events), s # << >>
    PROVE  /\ Tail(s) \in Seq(Events) /\ Head(s) \in Events
           /\ Ordered(p \o s) => Ordered(p \o Tail(s))
           /\ \A n : Holds(p \o s, n) => Holds(p \o Tail(s), n) \/ Head(s).id = n
           /\ \A i \in DOMAIN (p \o Tail(s)) :
                 \E j \in DOMAIN (p \o s) : (p \o Tail(s))[i] = (p \o s)[j]
<1> DEFINE old == p \o s
           new == p \o Tail(s)
           Old(i) == IF i <= Len(p) THEN i ELSE i + 1
<1>1. /\ Tail(s) \in Seq(Events) /\ Head(s) \in Events /\ Head(s) = s[1]
      /\ Len(Tail(s)) = Len(s) - 1 /\ Len(s) \in Nat \ {0}
      /\ \A i \in 1..(Len(s) - 1) : Tail(s)[i] = s[i + 1]
  BY HeadTailProperties, LenProperties, EmptySeq
<1>2. \A i \in DOMAIN new : Old(i) \in DOMAIN old /\ new[i] = old[Old(i)]
  <2>1. /\ DOMAIN old = 1..(Len(p) + Len(s)) /\ DOMAIN new = 1..(Len(p) + Len(s) - 1)
        /\ Len(p) \in Nat /\ Len(s) \in Nat \ {0}
    BY <1>1, LogFacts
  <2>2. /\ \A i \in DOMAIN old : old[i] = IF i <= Len(p) THEN p[i] ELSE s[i - Len(p)]
        /\ \A i \in DOMAIN new : new[i] = IF i <= Len(p) THEN p[i] ELSE Tail(s)[i - Len(p)]
    BY <1>1, LogFacts
  <2> HIDE DEF old, new
  <2> SUFFICES ASSUME NEW i \in DOMAIN new
               PROVE  Old(i) \in DOMAIN old /\ new[i] = old[Old(i)]
    OBVIOUS
  <2>3. CASE i <= Len(p)
    BY <2>1, <2>2, <2>3
  <2>4. CASE ~(i <= Len(p))
    <3>1. i + 1 \in DOMAIN old /\ i - Len(p) \in 1..(Len(s) - 1) /\ ~(i + 1 <= Len(p))
      BY <2>1, <2>4
    <3>2. new[i] = Tail(s)[i - Len(p)] /\ old[i + 1] = s[(i + 1) - Len(p)]
      BY <2>2, <2>4, <3>1
    <3>3. (i - Len(p)) + 1 = (i + 1) - Len(p)
      BY <2>1
    <3>4. Tail(s)[i - Len(p)] = s[(i - Len(p)) + 1]
      BY <1>1, <3>1
    <3> QED BY <2>4, <3>1, <3>2, <3>3, <3>4
  <2> QED BY <2>3, <2>4
<1>3. \A i, j \in DOMAIN new : i < j => Old(i) < Old(j)
  BY <1>1, LogFacts
<1>4. Ordered(old) => Ordered(new)
  BY <1>2, <1>3 DEF Ordered
<1>5. ASSUME NEW n, Holds(old, n)
      PROVE  Holds(new, n) \/ Head(s).id = n
  <2>1. PICK i \in DOMAIN old : old[i].id = n
    BY <1>5 DEF Holds
  <2>2. CASE i <= Len(p)
    <3>1. i \in DOMAIN new /\ new[i] = old[i]
      BY <2>1, <2>2, <1>1, LogFacts
    <3> QED BY <2>1, <3>1 DEF Holds
  <2>3. CASE i = Len(p) + 1
    BY <2>1, <2>3, <1>1, LogFacts
  <2>4. CASE i > Len(p) + 1
    <3>1. i - 1 \in DOMAIN new /\ new[i - 1] = old[i]
      BY <2>1, <2>4, <1>1, LogFacts
    <3> QED BY <2>1, <3>1 DEF Holds
  <2> QED BY <2>1, <2>2, <2>3, <2>4, LogFacts
<1> QED BY <1>1, <1>2, <1>4, <1>5

LEMMA OverflowOfTail ==
    ASSUME NEW s \in Seq(Events), s # << >>, Overflows(s)
    PROVE  Head(s) = Overflow \/ Overflows(Tail(s))
<1>1. PICK i \in DOMAIN s : s[i] = Overflow
  BY DEF Overflows
<1>2. /\ Len(s) \in Nat /\ DOMAIN s = 1..Len(s) /\ Head(s) = s[1]
      /\ DOMAIN Tail(s) = 1..(Len(s) - 1)
      /\ \A j \in 1..(Len(s) - 1) : Tail(s)[j] = s[j + 1]
  BY HeadTailProperties, LenProperties
<1>3. CASE i = 1
  BY <1>1, <1>2, <1>3
<1>4. CASE i # 1
  <2>1. i - 1 \in DOMAIN Tail(s) /\ Tail(s)[i - 1] = Overflow
    BY <1>1, <1>2, <1>4
  <2> QED BY <2>1 DEF Overflows
<1> QED BY <1>3, <1>4

LEMMA Reassociate ==
    ASSUME NEW p \in Seq(Events), NEW a \in Seq(Events), NEW b \in Seq(Events)
    PROVE  (p \o a) \o b = p \o (a \o b)
BY ConcatAssociative

(* Where read(2) cuts the queue nothing is lost.                           *)
LEMMA CutFacts ==
    ASSUME NEW s \in Seq(Events), NEW k \in 1..Len(s), NEW p \in Seq(Events)
    PROVE  /\ SubSeq(s, 1, k) \in Seq(Events) /\ SubSeq(s, k + 1, Len(s)) \in Seq(Events)
           /\ Len(SubSeq(s, k + 1, Len(s))) = Len(s) - k
           /\ Overflows(s) => Overflows(SubSeq(s, 1, k)) \/ Overflows(SubSeq(s, k + 1, Len(s)))
           /\ (p \o SubSeq(s, 1, k)) \o SubSeq(s, k + 1, Len(s)) = p \o s
<1> DEFINE a == SubSeq(s, 1, k)
           b == SubSeq(s, k + 1, Len(s))
<1>1. Len(s) \in Nat /\ DOMAIN s = 1..Len(s) /\ k \in Int /\ k \in Nat
  BY LenProperties
<1>2. a \in Seq(Events) /\ b \in Seq(Events)
  BY <1>1
<1>3. Len(a) = k /\ \A i \in 1..k : a[i] = s[i]
  BY <1>1
<1>4. Len(b) = Len(s) - k /\ \A i \in 1..(Len(s) - k) : b[i] = s[k + i]
  <2>1. \A i \in (k + 1)..Len(s) : s[i] \in Events
    BY <1>1, ElementOfSeq
  <2>2. Len(b) = IF k + 1 <= Len(s) THEN Len(s) - (k + 1) + 1 ELSE 0
    BY <2>1, <1>1, SubSeqProperties
  <2>3. \A i \in 1..(Len(s) - (k + 1) + 1) : b[i] = s[k + 1 + i - 1]
    BY <2>1, <1>1, SubSeqProperties
  <2> HIDE DEF b
  <2>4. Len(b) = Len(s) - k
    <3>1. \A n \in Nat : \A j \in 1..n : (IF j + 1 <= n THEN n - (j + 1) + 1 ELSE 0) = n - j
      OBVIOUS
    <3> QED BY <2>2, <3>1, <1>1, Zenon
  <2>5. ASSUME NEW i \in 1..(Len(s) - k)
        PROVE  b[i] = s[k + i]
    <3>1. i \in 1..(Len(s) - (k + 1) + 1) /\ k + 1 + i - 1 = k + i
      BY <1>1
    <3> QED BY <2>3, <3>1
  <2> QED BY <2>4, <2>5
<1>5. a \o b = s
  <2>1. 1 \in 1..(Len(s) + 1) /\ k \in (1 - 1)..Len(s) /\ Len(s) \in k..Len(s)
    BY <1>1
  <2>2. a \o b = SubSeq(s, 1, Len(s))
    BY <2>1, ConcatAdjacentSubSeq
  <2> QED BY <2>2, SubSeqFull
<1> HIDE DEF a, b
<1>6. (p \o a) \o b = p \o s
  <2>1. (p \o a) \o b = p \o (a \o b)
    BY <1>2, Reassociate
  <2> QED BY <2>1, <1>5
<1>7. ASSUME NEW i \in 1..Len(s), s[i] = Overflow
      PROVE  Overflows(a) \/ Overflows(b)
  <2>1. CASE i <= k
    <3>1. i \in DOMAIN a /\ a[i] = Overflow
      BY <2>1, <1>1, <1>2, <1>3, <1>4, <1>7, LenProperties
    <3> QED BY <3>1 DEF Overflows
  <2>2. CASE i > k
    <3>1. i - k \in 1..(Len(s) - k) /\ k + (i - k) = i
      BY <2>2, <1>1
    <3>2. DOMAIN b = 1..Len(b)
      BY <1>2, LenProperties
    <3>3. i - k \in DOMAIN b /\ b[i - k] = Overflow
      BY <3>1, <3>2, <1>4, <1>7
    <3> QED BY <3>3 DEF Overflows
  <2> QED BY <2>1, <2>2, <1>1
<1>8. Overflows(s) => Overflows(a) \/ Overflows(b)
  BY <1>1, <1>7 DEF Overflows
<1> QED BY <1>2, <1>4, <1>6, <1>8 DEF a, b

-----------------------------------------------------------------------------
(* The steps.  Most of them leave the log and the ghosts as they were.     *)
LEMMA SameLog ==
    ASSUME NInv, isOpen' => isOpen, Log' = Log, happened' = happened, stolen' = stolen,
           \A n \in 1..happened : Announced(n) => Announced(n)'
    PROVE  (isOpen => OpenInv)'
<1> SUFFICES ASSUME isOpen'
             PROVE  OpenInv'
  OBVIOUS
<1>1. OpenInv
  BY DEF NInv
<1>2. Ordered(Log)' /\ PastInv'
  BY <1>1 DEF OpenInv, PastInv
<1>3. AccountInv'
  BY <1>1 DEF OpenInv, AccountInv, Accounted
<1> QED BY <1>2, <1>3 DEF OpenInv

LEMMA Assumptions == SizesAssumption /\ BoundsAssumption
BY SizesAssumption, BoundsAssumption

(* The log and the queue take one more, a new event or an overflow.        *)
LEMMA QueueTakes ==
    ASSUME NInv, isOpen, NEW x \in Events, queue' = Append(queue, x),
           happened' = happened + 1, UNCHANGED <<got, buf, ghosts>>,
           x.id = 0 \/ x.id = happened'
    PROVE  /\ Log' = Append(Log, x) /\ Log \in Seq(Events)
           /\ (Ordered(Log) /\ PastInv)'
           /\ \A n \in 1..happened : Accounted(n)'
<1> USE Assumptions DEF SizesAssumption, BoundsAssumption
<1>1. /\ TypeOK /\ Ordered(Log) /\ PastInv /\ AccountInv /\ happened \in Nat
      /\ queue \in Seq(Events) /\ got \o buf \in Seq(Events) /\ Log \in Seq(Events)
  <2>1. TypeOK /\ OpenInv
    BY DEF NInv
  <2> QED BY <2>1, ConcatProperties DEF TypeOK, OpenInv, Log
<1>2. Log' = Append(Log, x)
  <2>1. (got \o buf) \o Append(queue, x) = Append((got \o buf) \o queue, x)
    BY <1>1, AppendToConcat
  <2> QED BY <2>1 DEF Log, ghosts
<1>3. Ordered(Append(Log, x))
  <2>1. \A i \in DOMAIN Log : x.id # 0 => Log[i].id < x.id
    BY <1>1, Ids DEF PastInv
  <2> QED BY <1>1, <2>1, AppendKeepsOrder
<1>4. PastInv'
  <2>1. \A i \in DOMAIN Append(Log, x) : Append(Log, x)[i].id <= happened'
    BY <1>1, AppendFacts, Ids DEF PastInv
  <2> QED BY <1>2, <2>1 DEF PastInv
<1>5. ASSUME NEW n \in 1..happened
      PROVE  Accounted(n)'
  <2>1. Accounted(n)
    BY <1>1 DEF AccountInv
  <2>2. Holds(Log, n) => Holds(Log, n)'
    BY <1>1, <1>2, AppendFacts
  <2>3. Announced(n) => Announced(n)'
    BY <1>1, AppendFacts DEF Announced, ghosts
  <2> QED BY <2>1, <2>2, <2>3 DEF Accounted, ghosts
<1> QED BY <1>1, <1>2, <1>3, <1>4, <1>5 DEF Ordered

(* The kernel's answer to an event.                                        *)
LEMMA HappensKeeps ==
    ASSUME NInv, isOpen, NEW w \in watches, NEW kind \in {"event", "ignored"},
           Happens(w, kind), UNCHANGED <<isOpen, added, ghosts, pc, timeout, buf>>,
           watches' \subseteq watches
    PROVE  NInv'
<1> DEFINE e == Event(happened', w, kind)
<1> USE Assumptions DEF SizesAssumption, BoundsAssumption
<1>1. TypeOK /\ BufferInv /\ LimitInv /\ OpenInv
  BY DEF NInv
<1>2. /\ happened' = happened + 1 /\ happened' \in 1..MaxEvents /\ happened \in Nat
      /\ queue' = Queued(queue, e)
  BY <1>1 DEF Happens, TypeOK
<1>3. e \in Events /\ e.id = happened' /\ Overflow \in Events /\ Overflow.id = 0
  <2>1. happened' \in 0..MaxEvents /\ w \in -1..MaxWatches
    BY <1>1, <1>2 DEF TypeOK
  <2>2. e \in Events /\ e.id = happened'
    BY <2>1 DEF Event, Events
  <2> QED BY <2>2 DEF Overflow, Events
<1>4. /\ queue \in Seq(Events) /\ Len(queue) \in Nat /\ Len(queue) <= MaxQueue + 1
  BY <1>1, LenProperties DEF TypeOK
<1> HIDE DEF e
<1>5. SUFFICES queue' \in Seq(Events) /\ Len(queue') <= MaxQueue + 1 /\ LimitInv' /\ OpenInv'
  <2>1. ASSUME queue' \in Seq(Events), Len(queue') <= MaxQueue + 1
        PROVE  TypeOK'
    <3>1. happened' \in 0..MaxEvents /\ told' \in [script : 0..happened', other : 0..happened']
      <4>1. told \in [script : 0..happened, other : 0..happened] /\ told' = told
        BY <1>1 DEF TypeOK, ghosts
      <4> QED BY <4>1, <1>2
    <3> QED BY <1>1, <2>1, <3>1 DEF TypeOK, ghosts
  <2>2. BufferInv'
    BY <1>1 DEF BufferInv
  <2> QED BY <2>1, <2>2 DEF NInv
<1>6. CASE Len(queue) < MaxQueue
  <2>1. queue' = Append(queue, e)
    BY <1>2, <1>6 DEF Queued
  <2>2. /\ Log' = Append(Log, e) /\ Log \in Seq(Events) /\ (Ordered(Log) /\ PastInv)'
        /\ \A n \in 1..happened : Accounted(n)'
    BY <2>1, <1>2, <1>3, QueueTakes DEF ghosts
  <2>3. Holds(Log', e.id)
    BY <2>2, <1>3, AppendFacts
  <2>4. AccountInv'
    <3>1. ASSUME NEW n \in 1..happened', n \notin 1..happened
          PROVE  Accounted(n)'
      <4>1. n = e.id
        BY <3>1, <1>2, <1>3
      <4> QED BY <4>1, <2>3 DEF Accounted
    <3> QED BY <2>2, <3>1 DEF AccountInv
  <2>5. Len(queue') = Len(queue) + 1 /\ queue' \in Seq(Events)
    BY <2>1, <1>3, <1>4, AppendFacts
  <2> QED BY <2>2, <2>4, <2>5, <1>4, <1>6 DEF OpenInv, LimitInv
<1>7. CASE ~(Len(queue) < MaxQueue) /\ Overflows(queue)
  <2>1. queue' = queue
    BY <1>2, <1>7 DEF Queued
  <2>2. Log' = Log
    BY <2>1 DEF Log, ghosts
  <2>3. Ordered(Log)' /\ PastInv'
    <3>1. \A i \in DOMAIN Log : Log[i].id <= happened'
      <4>1. Log \in Seq(Events)
        BY <1>1, ConcatProperties DEF TypeOK, Log
      <4> QED BY <4>1, <1>1, <1>2, Ids DEF OpenInv, PastInv
    <3> QED BY <2>2, <3>1, <1>1 DEF OpenInv, PastInv, Ordered
  <2>4. AccountInv'
    BY <2>1, <1>7 DEF AccountInv, Accounted, Announced
  <2> QED BY <2>1, <2>3, <2>4, <1>4, <1>7 DEF OpenInv, LimitInv
<1>8. CASE ~(Len(queue) < MaxQueue) /\ ~Overflows(queue)
  <2>1. queue' = Append(queue, Overflow)
    BY <1>2, <1>8 DEF Queued
  <2>2. (Ordered(Log) /\ PastInv)'
    BY <2>1, <1>2, <1>3, QueueTakes DEF ghosts
  <2>3. Overflows(queue')
    BY <2>1, <1>3, <1>4, AppendFacts
  <2>4. AccountInv'
    BY <2>3 DEF AccountInv, Accounted, Announced
  <2>5. Len(queue) <= MaxQueue
    BY <1>1, <1>8 DEF LimitInv
  <2>6. Len(queue') = Len(queue) + 1 /\ queue' \in Seq(Events)
    BY <2>1, <1>3, <1>4, AppendFacts
  <2> QED BY <2>2, <2>3, <2>4, <2>5, <2>6, <1>4 DEF OpenInv, LimitInv
<1> QED BY <1>6, <1>7, <1>8

LEMMA OtherReaderKeeps ==
    ASSUME NInv, OtherReader
    PROVE  NInv'
<1> USE Assumptions DEF SizesAssumption, BoundsAssumption
<1>1. /\ TypeOK /\ BufferInv /\ LimitInv /\ OpenInv /\ isOpen /\ queue # << >>
      /\ stolen' = stolen \cup {Head(queue)} /\ queue' = Tail(queue)
      /\ UNCHANGED <<isOpen, watches, added, happened, got, pc, timeout, buf>>
  BY DEF NInv, OtherReader
<1>2. /\ queue \in Seq(Events) /\ got \o buf \in Seq(Events) /\ Log \in Seq(Events)
      /\ happened \in Nat
  BY <1>1, ConcatProperties DEF TypeOK, Log
<1>3. /\ told' \in [script : 0..happened, other : 0..happened]
      /\ told'.script = told.script
      /\ told.other <= told'.other
      /\ Head(queue) = Overflow => told'.other = happened
  <2>1. told \in [script : 0..happened, other : 0..happened]
    BY <1>1 DEF TypeOK
  <2>2. told' = IF Head(queue) = Overflow THEN [told EXCEPT !.other = happened] ELSE told
    BY DEF OtherReader
  <2>3. CASE Head(queue) = Overflow
    <3>1. told' = [told EXCEPT !.other = happened]
      BY <2>2, <2>3
    <3>2. told'.script = told.script /\ told'.other = happened
      BY <2>1, <3>1
    <3>3. told' \in [script : 0..happened, other : 0..happened]
      <4>1. happened \in 0..happened
        BY <1>2
      <4> QED BY <2>1, <3>1, <4>1
    <3> QED BY <2>1, <3>2, <3>3, <1>2
  <2>4. CASE Head(queue) # Overflow
    <3>1. told' = told
      BY <2>2, <2>4
    <3> QED BY <2>1, <2>4, <3>1, <1>2
  <2> QED BY <2>3, <2>4
<1>4. /\ Tail(queue) \in Seq(Events) /\ Head(queue) \in Events
      /\ Len(Tail(queue)) = Len(queue) - 1 /\ Len(queue) \in Nat
  BY <1>1, <1>2, HeadTailProperties, LenProperties
<1>5. TypeOK'
  BY <1>1, <1>3, <1>4 DEF TypeOK
<1>6. BufferInv'
  BY <1>1 DEF BufferInv
<1>7. LimitInv'
  BY <1>1, <1>4 DEF LimitInv, TypeOK
<1>8. /\ Ordered(Log)' /\ PastInv'
  <2>1. Log' = (got \o buf) \o Tail(queue)
    BY <1>1 DEF Log
  <2>2. Ordered((got \o buf) \o Tail(queue))
    BY <1>1, <1>2, TailKeeps DEF OpenInv, Log
  <2>3. \A i \in DOMAIN ((got \o buf) \o Tail(queue)) :
            \E j \in DOMAIN Log : ((got \o buf) \o Tail(queue))[i] = Log[j]
    BY <1>1, <1>2, TailKeeps DEF Log
  <2> QED BY <2>1, <2>2, <2>3, <1>1 DEF OpenInv, PastInv
<1>9. ASSUME NEW n \in 1..happened
      PROVE  Accounted(n)'
  <2>1. CASE Holds(Log, n)
    <3>1. Holds((got \o buf) \o Tail(queue), n) \/ Head(queue).id = n
      BY <2>1, <1>1, <1>2, TailKeeps DEF Log
    <3> QED BY <3>1, <1>1 DEF Accounted, Log
  <2>2. CASE Announced(n)
    <3>1. Overflows(queue) => Head(queue) = Overflow \/ Overflows(Tail(queue))
      BY <1>1, <1>2, OverflowOfTail
    <3>2. told.other \in Nat /\ told'.other \in Nat
      BY <1>1, <1>3 DEF TypeOK
    <3>3. n <= told.other => n <= told'.other
      BY <1>3, <3>2
    <3>4. Announced(n)'
      BY <2>2, <3>1, <3>3, <1>1, <1>3 DEF Announced
    <3> QED BY <3>4 DEF Accounted
  <2>3. CASE \E x \in stolen : x.id = n
    BY <2>3, <1>1 DEF Accounted
  <2> QED BY <2>1, <2>2, <2>3, <1>1 DEF OpenInv, AccountInv, Accounted
<1> QED BY <1>1, <1>5, <1>6, <1>7, <1>8, <1>9 DEF NInv, OpenInv, AccountInv

LEMMA ReadEventsKeeps ==
    ASSUME NInv, ReadEvents
    PROVE  NInv'
<1> USE Assumptions DEF SizesAssumption, BoundsAssumption
<1>1. /\ TypeOK /\ BufferInv /\ LimitInv /\ pc = "read" /\ queue # << >>
      /\ buf' = SubSeq(queue, 1, Fits) /\ queue' = SubSeq(queue, Fits + 1, Len(queue))
      /\ pc' = "decode"
      /\ UNCHANGED <<isOpen, watches, added, happened, ghosts, timeout>>
  BY DEF NInv, ReadEvents
<1>2. /\ queue \in Seq(Events) /\ Len(queue) \in Nat \ {0} /\ DOMAIN queue = 1..Len(queue)
      /\ \A i \in 1..Len(queue) : queue[i] \in Events
  BY <1>1, LenProperties, EmptySeq, ElementOfSeq DEF TypeOK
<1>3. Fits \in 1..Len(queue) /\ Fits \in Int
  BY <1>2 DEF Fits
<1>4. /\ buf' \in Seq(Events) /\ queue' \in Seq(Events)
      /\ Len(queue') = Len(queue) - Fits
      /\ Overflows(queue) => Overflows(buf') \/ Overflows(queue')
  BY <1>1, <1>2, <1>3, CutFacts
<1>5. Log' = Log
  <2>1. /\ buf = << >> /\ got \in Seq(Events) /\ got' = got
    BY <1>1 DEF BufferInv, TypeOK, ghosts
  <2>2. Log = got \o queue
    BY <2>1, ConcatEmptySeq DEF Log
  <2>3. Log' = (got \o SubSeq(queue, 1, Fits)) \o SubSeq(queue, Fits + 1, Len(queue))
    BY <2>1, <1>1 DEF Log
  <2> QED BY <2>1, <2>2, <2>3, <1>2, <1>3, CutFacts
<1>6. ~Overflows(buf)
  BY <1>1 DEF BufferInv, Overflows
<1>7. \A n \in 1..happened : Announced(n) => Announced(n)'
  BY <1>1, <1>4, <1>6 DEF Announced, ghosts
<1>8. (isOpen => OpenInv)'
  BY <1>1, <1>5, <1>7, SameLog DEF ghosts
<1>9. Len(queue') <= MaxQueue
  <2>1. \A n, f, q \in Int : (f >= 1 /\ n <= MaxQueue + 1 /\ q = n - f) => q <= MaxQueue
    OBVIOUS
  <2>2. Len(queue) \in Int /\ Fits \in Int /\ Fits >= 1 /\ Len(queue') \in Int
    BY <1>2, <1>3, <1>4
  <2> QED BY <2>1, <2>2, <1>1, <1>4 DEF TypeOK
<1>10. BufferInv' /\ LimitInv'
  BY <1>1, <1>9 DEF BufferInv, LimitInv
<1>11. TypeOK'
  <2>1. Len(queue') <= MaxQueue + 1
    BY <1>4, <1>9, <1>2, <1>3
  <2> QED BY <2>1, <1>1, <1>4 DEF TypeOK, ghosts
<1> QED BY <1>8, <1>10, <1>11 DEF NInv

LEMMA DecodeKeeps ==
    ASSUME NInv, Decode
    PROVE  NInv'
<1>1. /\ TypeOK /\ LimitInv /\ got' = got \o buf /\ buf' = << >>
      /\ pc' = "idle" /\ timeout' = "none" /\ UNCHANGED <<isOpen, kernel, stolen>>
  BY DEF NInv, Decode
<1>2. /\ got \in Seq(Events) /\ buf \in Seq(Events) /\ queue \in Seq(Events)
      /\ got \o buf \in Seq(Events) /\ happened \in Nat
  BY <1>1, Assumptions, ConcatProperties DEF TypeOK, BoundsAssumption
<1>3. /\ told' \in [script : 0..happened, other : 0..happened]
      /\ told'.other = told.other
      /\ told.script <= told'.script
      /\ Overflows(buf) => told'.script = happened
  BY <1>1, <1>2 DEF Decode, TypeOK
<1>4. Log' = Log
  BY <1>1, <1>2, ConcatEmptySeq DEF Log, kernel
<1>5. ASSUME NEW n \in 1..happened, Announced(n)
      PROVE  Announced(n)'
  <2>1. told.script \in Nat /\ told'.script \in Nat
    BY <1>1, <1>3 DEF TypeOK
  <2>2. n <= told.script => n <= told'.script
    BY <1>2, <1>3, <2>1
  <2> QED BY <2>2, <1>1, <1>3, <1>5 DEF Announced, kernel
<1>6. (isOpen => OpenInv)'
  BY <1>1, <1>4, <1>5, SameLog DEF kernel
<1>7. TypeOK'
  BY <1>1, <1>2, <1>3, EmptySeq DEF TypeOK, kernel
<1>8. BufferInv' /\ LimitInv'
  BY <1>1 DEF BufferInv, LimitInv, kernel
<1> QED BY <1>6, <1>7, <1>8 DEF NInv

(* Steps that touch neither the queue, nor the buffer, nor the ghosts.     *)
LEMMA Elsewhere ==
    ASSUME NInv, UNCHANGED <<queue, happened, ghosts, buf>>, isOpen' => isOpen,
           isOpen' \in BOOLEAN, added' \in 0..MaxWatches, watches' \subseteq 1..added',
           pc' \in {"idle", "poll", "read", "decode"}, timeout' \in {"none", "ahead", "passed"},
           pc = "decode" => pc' = "decode"
    PROVE  NInv'
<1>1. TypeOK /\ BufferInv /\ LimitInv
  BY DEF NInv
<1>2. TypeOK' /\ BufferInv' /\ LimitInv'
  BY <1>1 DEF TypeOK, BufferInv, LimitInv, ghosts
<1>3. (isOpen => OpenInv)'
  BY SameLog DEF Log, Announced, ghosts
<1> QED BY <1>2, <1>3 DEF NInv

LEMMA CloseKeeps ==
    ASSUME NInv, Close
    PROVE  NInv'
<1>1. TypeOK /\ BufferInv
  BY DEF NInv
<1>2. TypeOK' /\ BufferInv' /\ LimitInv'
  <2>1. Len(queue') = 0 /\ queue' \in Seq(Events) /\ MaxQueue \in Nat
    BY Assumptions, EmptySeq DEF Close, SizesAssumption
  <2>2. Len(queue') <= MaxQueue /\ Len(queue') <= MaxQueue + 1
    BY <2>1
  <2>3. isOpen' \in BOOLEAN /\ watches' \subseteq 1..added' /\ added' = added
    BY DEF Close
  <2>4. UNCHANGED <<added, happened, ghosts, pc, timeout, buf>>
    BY DEF Close
  <2> QED BY <2>1, <2>2, <2>3, <2>4, <1>1 DEF TypeOK, BufferInv, LimitInv, ghosts
<1> QED BY <1>2 DEF NInv, Close

(* When the numbers start again nothing is on its way.                     *)
LEMMA RenumberKeeps ==
    ASSUME NInv, Renumber
    PROVE  NInv'
<1>1. TypeOK /\ BufferInv /\ LimitInv
  BY DEF NInv
<1>2. TypeOK' /\ BufferInv' /\ LimitInv'
  BY <1>1, Assumptions, EmptySeq
  DEF Renumber, TypeOK, BufferInv, LimitInv, Overflows, BoundsAssumption
<1>3. Log' = << >>
  BY ConcatEmptySeq, EmptySeq DEF Renumber, Log
<1>4. OpenInv'
  BY <1>3 DEF Renumber, OpenInv, Ordered, PastInv, AccountInv
<1> QED BY <1>2, <1>4 DEF NInv

-----------------------------------------------------------------------------
LEMMA InitHolds == Init => NInv
<1> SUFFICES ASSUME Init PROVE NInv
  OBVIOUS
<1>1. TypeOK
  BY Assumptions, EmptySeq DEF Init, TypeOK, SizesAssumption, BoundsAssumption
<1>2. Log = << >>
  BY ConcatEmptySeq, EmptySeq DEF Init, Log
<1>3. BufferInv /\ LimitInv
  BY Assumptions DEF Init, BufferInv, LimitInv, SizesAssumption
<1>4. OpenInv
  BY <1>2 DEF Init, OpenInv, Ordered, PastInv, AccountInv
<1> QED BY <1>1, <1>3, <1>4 DEF NInv

LEMMA StepKeeps == NInv /\ [Next]_vars => NInv'
<1> SUFFICES ASSUME NInv, [Next]_vars PROVE NInv'
  OBVIOUS
<1> USE Assumptions DEF BoundsAssumption
<1>1. TypeOK
  BY DEF NInv
<1>2. CASE FileEvent
  BY <1>2, HappensKeeps DEF FileEvent
<1>3. CASE WatchEnds
  BY <1>3, HappensKeeps DEF WatchEnds
<1>4. CASE OtherReader
  BY <1>4, OtherReaderKeeps
<1>5. CASE TimePasses
  BY <1>1, <1>5, Elsewhere DEF TimePasses, TypeOK, kernel
<1>6. CASE Add
  <2>1. added' \in 0..MaxWatches /\ watches' \subseteq 1..added'
    BY <1>1, <1>6 DEF Add, TypeOK
  <2> QED BY <2>1, <1>1, <1>6, Elsewhere DEF Add, TypeOK, Idle
<1>7. CASE RemoveWatch
  BY <1>7, HappensKeeps DEF RemoveWatch, Idle
<1>8. CASE Close
  BY <1>8, CloseKeeps
<1>9. CASE Read
  BY <1>1, <1>9, Elsewhere DEF Read, TypeOK, kernel, Idle
<1>10. CASE Interrupted
  BY <1>1, <1>10, Elsewhere DEF Interrupted, Return, TypeOK, kernel
<1>11. CASE ReadStep
  <2>1. CASE PollReady
    BY <1>1, <2>1, Elsewhere DEF PollReady, TypeOK, kernel
  <2>2. CASE PollTimeout
    BY <1>1, <2>2, Elsewhere DEF PollTimeout, Return, TypeOK, kernel
  <2>3. CASE ReadEvents
    BY <2>3, ReadEventsKeeps
  <2>4. CASE ReadAgain
    BY <1>1, <2>4, Elsewhere DEF ReadAgain, TypeOK, kernel
  <2>5. CASE Decode
    BY <2>5, DecodeKeeps
  <2> QED BY <1>11, <2>1, <2>2, <2>3, <2>4, <2>5 DEF ReadStep
<1>12. CASE Over \/ UNCHANGED vars
  <2>1. UNCHANGED vars
    BY <1>12 DEF Over
  <2> QED BY <1>1, <2>1, Elsewhere DEF vars, TypeOK, ghosts
<1>13. CASE Renumber
  BY <1>13, RenumberKeeps
<1> QED BY <1>2, <1>3, <1>4, <1>5, <1>6, <1>7, <1>8, <1>9, <1>10, <1>11, <1>12, <1>13
    DEF Next

(* What the watcher, the kernel's queue and the other reader hold between   *)
(* them, after any events, reads and losses.                               *)
THEOREM InvariantHolds == Spec => []NInv
BY InitHolds, StepKeeps, PTL DEF Spec

(* The watcher, the kernel's queue and the ghosts keep their types; the    *)
(* queue is never longer than its limit and one overflow.                  *)
THEOREM TypeCorrect == Spec => []TypeOK
<1>1. NInv => TypeOK
  BY DEF NInv
<1> QED BY <1>1, InvariantHolds, PTL

(* No event is lost without an overflow that the script, or the other      *)
(* reader, gets after the loss, and what is given is in order.             *)
THEOREM NoSilentLossHolds == Spec => []NoSilentLoss
<1>1. NInv => NoSilentLoss
  BY DEF NInv, OpenInv, AccountInv, Accounted, NoSilentLoss
<1> QED BY <1>1, InvariantHolds, PTL

-----------------------------------------------------------------------------
(***************************************************************************)
(* The second part: for every day, past or future, the conversions of      *)
(* Calendar give what counting days gives.                                 *)
(***************************************************************************)

(* Division.                                                               *)
LEMMA DivMod ==
    ASSUME NEW a \in Int, NEW b \in Nat \ {0}
    PROVE  /\ a \div b \in Int /\ a % b \in 0..(b - 1)
           /\ a = b * (a \div b) + (a % b)
OBVIOUS

LEMMA DivUnique ==
    ASSUME NEW b \in Nat \ {0}, NEW q \in Int, NEW r \in 0..(b - 1)
    PROVE  (q * b + r) \div b = q
OBVIOUS

LEMMA LeapYears ==
    ASSUME NEW y \in Int
    PROVE  IsLeap(y) <=> Leap(y)
<1>1. IsLeap(y) <=> (y % 4 = 0 /\ (y % 100 # 0 \/ y % 400 = 0))
  BY DEF IsLeap, Rem, Quot
<1>2. Leap(y) <=> (y % 4 = 0 /\ (y % 100 # 0 \/ y % 400 = 0))
  <2>1. Leap(y) <=> ((\E i \in 0..99 : y % 400 = 4 * i) /\ y % 400 \notin {100, 200, 300})
    BY DEF Leap
  <2>2. (\E i \in 0..99 : y % 400 = 4 * i) <=> y % 4 = 0
    <3>1. ASSUME NEW i \in 0..99, y % 400 = 4 * i PROVE y % 4 = 0
      BY <3>1
    <3>2. ASSUME y % 4 = 0 PROVE (y % 400) \div 4 \in 0..99 /\ y % 400 = 4 * ((y % 400) \div 4)
      BY <3>2
    <3> QED BY <3>1, <3>2
  <2>3. y % 400 \notin {100, 200, 300} <=> (y % 100 # 0 \/ y % 400 = 0)
    OBVIOUS
  <2> QED BY <2>1, <2>2, <2>3
<1> QED BY <1>1, <1>2

-----------------------------------------------------------------------------
(* An era of 400 years that begin in March, numbered from 0: the first day *)
(* of a year, whether it ends with a 29 February, the first day of a       *)
(* month (0 is March) in a year, and the lengths of its months.            *)
FirstDay(y) == 365 * y + y \div 4 - y \div 100
IsLong(y) == (y + 1) % 4 = 0 /\ ((y + 1) % 100 # 0 \/ y = 399)
YearDays(y) == IF IsLong(y) THEN 366 ELSE 365
MonthFirst(m) == (153 * m + 2) \div 5
MonthDays(y, m) == IF m = 11 THEN (IF IsLong(y) THEN 29 ELSE 28)
                   ELSE IF m \in {1, 3, 6, 8} THEN 30 ELSE 31

YearOf(doe) == (doe - doe \div 1460 + doe \div 36524 - doe \div 146096) \div 365
MonthOf(doy) == (5 * doy + 2) \div 153

LEMMA YearOfDay ==
    ASSUME NEW doe \in Int, 0 <= doe, doe <= 146096
    PROVE  /\ 0 <= YearOf(doe) /\ YearOf(doe) <= 399
           /\ FirstDay(YearOf(doe)) <= doe
           /\ doe < FirstDay(YearOf(doe)) + YearDays(YearOf(doe))
BY SMTT(60) DEF YearOf, FirstDay, YearDays, IsLong

LEMMA DayOfYear ==
    ASSUME NEW y \in Int, 0 <= y, y <= 399,
           NEW doy \in Int, 0 <= doy, doy < YearDays(y)
    PROVE  /\ 0 <= FirstDay(y) + doy /\ FirstDay(y) + doy <= 146096
           /\ YearOf(FirstDay(y) + doy) = y
BY SMTT(60) DEF YearOf, FirstDay, YearDays, IsLong

LEMMA MonthOfDay ==
    ASSUME NEW y \in Int, 0 <= y, y <= 399,
           NEW doy \in Int, 0 <= doy, doy < YearDays(y)
    PROVE  /\ 0 <= MonthOf(doy) /\ MonthOf(doy) <= 11
           /\ MonthFirst(MonthOf(doy)) <= doy
           /\ doy < MonthFirst(MonthOf(doy)) + MonthDays(y, MonthOf(doy))
BY SMTT(60) DEF MonthOf, MonthFirst, MonthDays, YearDays

LEMMA DayOfMonth ==
    ASSUME NEW y \in Int, 0 <= y, y <= 399, NEW m \in Int, 0 <= m, m <= 11,
           NEW k \in Int, 0 <= k, k < MonthDays(y, m)
    PROVE  /\ 0 <= MonthFirst(m) + k /\ MonthFirst(m) + k < YearDays(y)
           /\ MonthOf(MonthFirst(m) + k) = m
BY SMTT(60) DEF MonthFirst, MonthDays, YearDays, MonthOf

-----------------------------------------------------------------------------
(* A date in an era: its era, the year in it, the month of that year.      *)
MarchYear(y, m) == IF m <= 2 THEN y - 1 ELSE y
EraOf(y, m) == MarchYear(y, m) \div 400
InEra(y, m) == MarchYear(y, m) - EraOf(y, m) * 400
MarchMonth(m) == IF m > 2 THEN m - 3 ELSE m + 9
Month(mp) == IF mp < 10 THEN mp + 3 ELSE mp - 9

(* The day 0 is so many days after the first day of the era of the year 0. *)
Origin == 719468

NumberIn(era, yoe, mp, d) == era * 146097 + FirstDay(yoe) + MonthFirst(mp) + d - 1 - Origin

LEMMA DaysParts ==
    ASSUME NEW y \in Int, NEW m \in Int, NEW d \in Int
    PROVE  DaysFromCivil(y, m, d) = NumberIn(EraOf(y, m), InEra(y, m), MarchMonth(m), d)
BY SMTT(30) DEF NumberIn, DaysFromCivil, Quot, MarchYear, InEra, MarchMonth, FirstDay,
                MonthFirst, Origin, EraOf

(* A day of an era as a date.                                              *)
DateIn(era, doe) ==
    LET yoe == YearOf(doe)
        doy == doe - FirstDay(yoe)
        mp  == MonthOf(doy)
    IN  [year  |-> yoe + era * 400 + (IF Month(mp) <= 2 THEN 1 ELSE 0),
         month |-> Month(mp),
         day   |-> doy - MonthFirst(mp) + 1]

(* The year as an int.                                                     *)
Narrowed(d) == [year |-> AsInt(d.year), month |-> d.month, day |-> d.day]

LEMMA CivilParts ==
    ASSUME NEW n \in Int, NEW era \in Int, NEW doe \in Int, 0 <= doe, doe <= 146096,
           n + Origin = era * 146097 + doe
    PROVE  CivilFromDays(n) = Narrowed(DateIn(era, doe))
<1> DEFINE z == n + 719468
           e == Quot(IF z >= 0 THEN z ELSE z - 146096, 146097)
<1>1. CivilFromDays(n) = Narrowed(DateIn(e, z - e * 146097))
  <2> DEFINE yoe == YearOf(z - e * 146097)
             doy == z - e * 146097 - FirstDay(yoe)
             mp  == MonthOf(doy)
             y   == yoe + e * 400 + (IF Month(mp) <= 2 THEN 1 ELSE 0)
             d   == doy - MonthFirst(mp) + 1
  <2>1. DateIn(e, z - e * 146097) = [year |-> y, month |-> Month(mp), day |-> d]
    BY DEF DateIn
  <2>2. CivilFromDays(n) = [year |-> AsInt(y), month |-> Month(mp), day |-> d]
    BY SMTT(90) DEF CivilFromDays, YearOf, FirstDay, MonthOf, MonthFirst, Month
  <2> HIDE DEF y, mp, d
  <2> QED BY <2>1, <2>2 DEF Narrowed
<1>2. e = era /\ z - e * 146097 = doe
  <2>1. e = era
    BY SMTT(30) DEF Origin, Quot
  <2>2. z - era * 146097 = doe
    BY SMTT(30) DEF Origin
  <2> HIDE DEF e, z
  <2> QED BY <2>1, <2>2
<1> HIDE DEF e, z
<1> QED BY <1>1, <1>2

LEMMA MonthLengths ==
    ASSUME NEW y \in Int, NEW m \in Int, 1 <= m, m <= 12
    PROVE  /\ 0 <= InEra(y, m) /\ InEra(y, m) <= 399
           /\ MonthLength(y, m) = MonthDays(InEra(y, m), MarchMonth(m))
<1>1. 0 <= InEra(y, m) /\ InEra(y, m) <= 399
  BY SMTT(30) DEF InEra, EraOf, MarchYear
<1>2. IsLeap(y) <=> (y % 4 = 0 /\ (y % 100 # 0 \/ y % 400 = 0))
  BY DEF IsLeap, Rem, Quot
<1>3. ASSUME m = 2 
      PROVE  IsLong(InEra(y, m)) <=> Leap(y)
  <2>1. IsLong(InEra(y, m)) <=> (y % 4 = 0 /\ (y % 100 # 0 \/ y % 400 = 0))
    BY <1>3, SMTT(30) DEF IsLong, InEra, EraOf, MarchYear
  <2> QED BY <2>1, <1>2, LeapYears
<1> QED BY <1>1, <1>3, SMTT(30) DEF MonthLength, MonthDays, MarchMonth

LEMMA DateAndEra ==
    ASSUME NEW y \in Int, NEW m \in Int, 1 <= m, m <= 12
    PROVE  /\ EraOf(y, m) \in Int /\ InEra(y, m) \in Int /\ MarchMonth(m) \in Int
           /\ 0 <= MarchMonth(m) /\ MarchMonth(m) <= 11 /\ Month(MarchMonth(m)) = m
           /\ InEra(y, m) + EraOf(y, m) * 400 + (IF m <= 2 THEN 1 ELSE 0) = y
BY SMTT(30) DEF EraOf, InEra, MarchYear, MarchMonth, Month

Falls(y, m, era, yoe, mp) ==
    /\ era \in Int /\ yoe \in 0..399 /\ mp \in 0..11
    /\ m = Month(mp) /\ y = yoe + era * 400 + (IF m <= 2 THEN 1 ELSE 0)

LEMMA EraAndDate ==
    ASSUME NEW y \in Int, NEW m \in Int, NEW era \in Int, NEW yoe \in Int, NEW mp \in Int,
           Falls(y, m, era, yoe, mp)
    PROVE  /\ 1 <= m /\ m <= 12 /\ MarchMonth(m) = mp
           /\ EraOf(y, m) = era /\ InEra(y, m) = yoe
BY SMTT(30) DEF Falls, EraOf, InEra, MarchYear, MarchMonth, Month

-----------------------------------------------------------------------------
IsDate(d) ==
    /\ d \in [year : Int, month : 1..12, day : 1..31]
    /\ d.day <= MonthLength(d.year, d.month)

DayNumber(d) == DaysFromCivil(d.year, d.month, d.day)

(* Whatever the day, civil_from_days gives the date that has its number,   *)
(* as far as its year is an int.                                           *)
THEOREM CivilIsDate ==
    ASSUME NEW n \in Int
    PROVE  \E d : IsDate(d) /\ DayNumber(d) = n /\ CivilFromDays(n) = Narrowed(d)
<1> DEFINE era == (n + Origin) \div 146097
           doe == (n + Origin) % 146097
<1>1. /\ era \in Int /\ doe \in Int /\ 0 <= doe /\ doe <= 146096
      /\ n + Origin = era * 146097 + doe
  BY SMTT(30) DEF Origin
<1> HIDE DEF era, doe
<1> DEFINE yoe == YearOf(doe)
           doy == doe - FirstDay(yoe)
           mp  == MonthOf(doy)
           y   == yoe + era * 400 + (IF Month(mp) <= 2 THEN 1 ELSE 0)
           m   == Month(mp)
           d   == doy - MonthFirst(mp) + 1
<1>2. CivilFromDays(n) = Narrowed([year |-> y, month |-> m, day |-> d])
  BY <1>1, CivilParts DEF DateIn
<1>3. yoe \in Int /\ doy \in Int /\ mp \in Int /\ y \in Int /\ m \in Int /\ d \in Int
  BY <1>1, SMTT(30) DEF YearOf, FirstDay, MonthOf, MonthFirst, Month
<1>4. 0 <= yoe /\ yoe <= 399 /\ 0 <= doy /\ doy < YearDays(yoe)
  <2>1. /\ 0 <= yoe /\ yoe <= 399 /\ FirstDay(yoe) <= doe
        /\ doe < FirstDay(yoe) + YearDays(yoe)
    BY <1>1, YearOfDay
  <2>2. FirstDay(yoe) \in Int /\ YearDays(yoe) \in Int
    BY <1>3 DEF FirstDay, YearDays
  <2> HIDE DEF yoe
  <2> QED BY <2>1, <2>2, <1>1
<1>5. doy = doe - FirstDay(yoe) /\ d = doy - MonthFirst(mp) + 1
  OBVIOUS
<1> HIDE DEF doy, yoe
<1>6. 0 <= mp /\ mp <= 11 /\ 1 <= d /\ d <= MonthDays(yoe, mp)
  <2>1. 0 <= mp /\ mp <= 11 /\ MonthFirst(mp) <= doy /\ doy < MonthFirst(mp) + MonthDays(yoe, mp)
    BY <1>3, <1>4, MonthOfDay
  <2>2. MonthFirst(mp) \in Int /\ MonthDays(yoe, mp) \in Int
    BY <1>3 DEF MonthFirst, MonthDays
  <2> HIDE DEF mp
  <2> QED BY <2>1, <2>2, <1>3
<1>7. /\ 1 <= m /\ m <= 12 /\ EraOf(y, m) = era /\ InEra(y, m) = yoe /\ MarchMonth(m) = mp
  <2>1. Falls(y, m, era, yoe, mp)
    BY <1>1, <1>3, <1>4, <1>6 DEF Falls
  <2> HIDE DEF mp, m, y
  <2> QED BY <2>1, <1>1, <1>3, EraAndDate
<1> HIDE DEF mp, m, y, d
<1>8. d <= MonthLength(y, m) /\ d <= 31
  <2>1. MonthDays(yoe, mp) <= 31 /\ MonthDays(yoe, mp) \in Int
    BY DEF MonthDays
  <2>2. MonthLength(y, m) = MonthDays(yoe, mp)
    BY <1>3, <1>7, MonthLengths
  <2> QED BY <2>1, <2>2, <1>3, <1>6
<1>9. IsDate([year |-> y, month |-> m, day |-> d])
  BY <1>3, <1>6, <1>7, <1>8 DEF IsDate
<1>10. DaysFromCivil(y, m, d) = n
  <2>1. DaysFromCivil(y, m, d) = NumberIn(era, yoe, mp, d)
    BY <1>3, <1>7, DaysParts
  <2>2. FirstDay(yoe) \in Int /\ MonthFirst(mp) \in Int /\ Origin \in Int
    BY <1>3 DEF FirstDay, MonthFirst, Origin
  <2> QED BY <2>1, <2>2, <1>1, <1>3, <1>5 DEF NumberIn
<1>11. DayNumber([year |-> y, month |-> m, day |-> d]) = n
  BY <1>10 DEF DayNumber
<1> QED BY <1>2, <1>9, <1>11

(* Whatever the date, its number gives it back, as far as its year is an   *)
(* int.                                                                    *)
THEOREM DateIsCivil ==
    ASSUME NEW date1, IsDate(date1)
    PROVE  DayNumber(date1) \in Int /\ CivilFromDays(DayNumber(date1)) = Narrowed(date1)
<1> DEFINE y == date1.year
           m == date1.month
           d == date1.day
           era == EraOf(y, m)
           yoe == InEra(y, m)
           mp  == MarchMonth(m)
           doy == MonthFirst(mp) + (d - 1)
           doe == FirstDay(yoe) + doy
<1>1. /\ y \in Int /\ m \in Int /\ 1 <= m /\ m <= 12 /\ d \in Int /\ 1 <= d
      /\ date1 = [year |-> y, month |-> m, day |-> d]
      /\ d <= MonthLength(y, m)
  BY DEF IsDate
<1> HIDE DEF y, m, d
<1>2. /\ 0 <= yoe /\ yoe <= 399 /\ MonthLength(y, m) = MonthDays(yoe, mp)
      /\ era \in Int /\ yoe \in Int /\ mp \in Int /\ 0 <= mp /\ mp <= 11 /\ Month(mp) = m
      /\ yoe + era * 400 + (IF m <= 2 THEN 1 ELSE 0) = y
  BY <1>1, MonthLengths, DateAndEra
<1>3. DaysFromCivil(y, m, d) = NumberIn(era, yoe, mp, d)
  BY <1>1, DaysParts
<1> HIDE DEF era, yoe, mp
<1>4. /\ FirstDay(yoe) \in Int /\ MonthFirst(mp) \in Int /\ MonthDays(yoe, mp) \in Int /\ Origin \in Int
      /\ d - 1 \in Int /\ 0 <= d - 1 /\ d - 1 < MonthDays(yoe, mp)
  BY <1>1, <1>2 DEF FirstDay, MonthFirst, MonthDays, Origin
<1>5. doy \in Int /\ 0 <= doy /\ doy < YearDays(yoe) /\ MonthOf(doy) = mp
  BY <1>2, <1>4, DayOfMonth
<1>6. doy = MonthFirst(mp) + (d - 1)
  OBVIOUS
<1> HIDE DEF doy
<1>7. doe \in Int /\ 0 <= doe /\ doe <= 146096 /\ YearOf(doe) = yoe
  BY <1>2, <1>4, <1>5, DayOfYear
<1>8. doe = FirstDay(yoe) + doy
  OBVIOUS
<1> HIDE DEF doe
<1>9. /\ DaysFromCivil(y, m, d) \in Int
      /\ DaysFromCivil(y, m, d) + Origin = era * 146097 + doe
  BY <1>1, <1>2, <1>3, <1>4, <1>5, <1>6, <1>7, <1>8 DEF NumberIn
<1>10. CivilFromDays(DaysFromCivil(y, m, d)) = Narrowed(DateIn(era, doe))
  BY <1>2, <1>7, <1>9, CivilParts
<1>11. /\ doe - FirstDay(yoe) = doy
       /\ doy - MonthFirst(mp) + 1 = d
  BY <1>1, <1>4, <1>5, <1>6, <1>7, <1>8
<1>12. DateIn(era, doe) = [year |-> y, month |-> m, day |-> d]
  BY <1>2, <1>5, <1>7, <1>11 DEF DateIn
<1> QED BY <1>1, <1>9, <1>10, <1>12 DEF DayNumber, y, m, d

LEMMA NarrowedFits ==
    ASSUME NEW date1, IsDate(date1), FitsInt(date1.year)
    PROVE  Narrowed(date1) = date1
<1>1. date1 = [year |-> date1.year, month |-> date1.month, day |-> date1.day] /\ date1.year \in Int
  BY DEF IsDate
<1>2. \A y \in Int : FitsInt(y) => AsInt(y) = y
  <2>1. \A y, w \in Int : (w > 0 /\ 0 <= y /\ y < w) => y % w = y
    OBVIOUS
  <2>2. MaxYear \in Nat
    BY LengthsAssumption
  <2> QED BY <2>1, <2>2 DEF FitsInt, AsInt
<1> QED BY <1>1, <1>2 DEF Narrowed

(* The comment on days_from_civil says that the years of an int are far    *)
(* more than the seconds of 64 bits represent.  They are not: with the     *)
(* lengths of the code the first day of the year 2147483648 is such a      *)
(* second, and civil_from_days gives it a year before Christ.              *)
THEOREM YearsRunOut ==
    ASSUME MaxYear = 2147483647, Day = 86400,
           NEW date1, date1 = [year |-> 2147483648, month |-> 1, day |-> 1]
    PROVE  /\ IsDate(date1) /\ DayNumber(date1) * Day <= 9223372036854775807
           /\ CivilFromDays(DayNumber(date1)).year = -2147483648
<1>1. IsDate(date1)
  BY SMT DEF IsDate, MonthLength
<1>2. DaysFromCivil(2147483648, 1, 1) * 86400 <= 9223372036854775807
  BY SMT DEF DaysFromCivil, Quot
<1>3. CivilFromDays(DayNumber(date1)).year = AsInt(date1.year)
  BY <1>1, DateIsCivil, SMT DEF Narrowed
<1>4. AsInt(2147483648) = -2147483648
  BY SMT DEF AsInt
<1>5. DayNumber(date1) = DaysFromCivil(2147483648, 1, 1) /\ date1.year = 2147483648
  BY SMT DEF DayNumber
<1> QED BY <1>1, <1>2, <1>3, <1>4, <1>5, SMT

(* The day after, with its length of months: across the end of February    *)
(* and of an era, both of the calendar and of the code.                    *)
LEMMA NextMonth ==
    ASSUME NEW y \in Int, NEW m \in Int, 1 <= m, m <= 11
    PROVE  DaysFromCivil(y, m + 1, 1) = DaysFromCivil(y, m, MonthLength(y, m)) + 1
<1>1. /\ 0 <= InEra(y, m) /\ InEra(y, m) <= 399
      /\ MonthLength(y, m) = MonthDays(InEra(y, m), MarchMonth(m))
  BY MonthLengths
<1>2. /\ InEra(y, m) \in Int /\ EraOf(y, m) \in Int /\ MarchMonth(m) \in Int /\ MonthLength(y, m) \in Int
  BY <1>1, DateAndEra DEF MonthDays
<1>3. /\ DaysFromCivil(y, m, MonthLength(y, m)) =
            NumberIn(EraOf(y, m), InEra(y, m), MarchMonth(m), MonthLength(y, m))
      /\ DaysFromCivil(y, m + 1, 1) =
            NumberIn(EraOf(y, m + 1), InEra(y, m + 1), MarchMonth(m + 1), 1)
  BY <1>2, DaysParts
<1>4. CASE m = 2
  <2>1. MarchMonth(m) = 11 /\ MarchMonth(m + 1) = 0
    BY <1>4 DEF MarchMonth
  <2>2. \/ /\ InEra(y, m) = 399 /\ InEra(y, m + 1) = 0 /\ EraOf(y, m + 1) = EraOf(y, m) + 1
        \/ /\ InEra(y, m) < 399 /\ InEra(y, m + 1) = InEra(y, m) + 1 /\ EraOf(y, m + 1) = EraOf(y, m)
    BY <1>4, SMTT(30) DEF InEra, EraOf, MarchYear
  <2>3. MonthLength(y, m) = IF IsLong(InEra(y, m)) THEN 29 ELSE 28
    BY <1>1, <2>1 DEF MonthDays
  <2>4. \A e, x \in Int : (0 <= x /\ x <= 399) =>
           \/ /\ x = 399
              /\ FirstDay(x) + MonthFirst(11) + (IF IsLong(x) THEN 29 ELSE 28)
                    = 146097 + FirstDay(0) + MonthFirst(0)
           \/ /\ x < 399
              /\ FirstDay(x) + MonthFirst(11) + (IF IsLong(x) THEN 29 ELSE 28)
                    = FirstDay(x + 1) + MonthFirst(0)
    BY SMTT(30) DEF FirstDay, MonthFirst, IsLong
  <2>5. FirstDay(InEra(y, m)) \in Int /\ FirstDay(InEra(y, m) + 1) \in Int /\ FirstDay(0) \in Int
        /\ MonthFirst(0) \in Int /\ MonthFirst(11) \in Int /\ Origin \in Int
    BY <1>2 DEF FirstDay, MonthFirst, Origin
  <2> QED BY <1>1, <1>2, <1>3, <2>1, <2>2, <2>3, <2>4, <2>5, SMTT(30) DEF NumberIn
<1>5. CASE m # 2
  <2>1. /\ EraOf(y, m + 1) = EraOf(y, m) /\ InEra(y, m + 1) = InEra(y, m)
        /\ MarchMonth(m + 1) = MarchMonth(m) + 1 /\ MarchMonth(m) \in 0..10
    BY <1>5, SMTT(30) DEF EraOf, InEra, MarchYear, MarchMonth
  <2>2. MonthFirst(MarchMonth(m) + 1) = MonthFirst(MarchMonth(m)) + MonthDays(InEra(y, m), MarchMonth(m))
    <3>1. \A k \in 0..10 : \A x : MonthFirst(k + 1) = MonthFirst(k) + MonthDays(x, k)
      BY SMTT(30) DEF MonthFirst, MonthDays
    <3> QED BY <2>1, <3>1
  <2>3. FirstDay(InEra(y, m)) \in Int /\ MonthFirst(MarchMonth(m)) \in Int /\ Origin \in Int
    BY <1>2 DEF FirstDay, MonthFirst, Origin
  <2> QED BY <1>1, <1>2, <1>3, <2>1, <2>2, <2>3 DEF NumberIn
<1> QED BY <1>4, <1>5

LEMMA NextYear ==
    ASSUME NEW y \in Int
    PROVE  DaysFromCivil(y + 1, 1, 1) = DaysFromCivil(y, 12, 31) + 1
<1>1. /\ EraOf(y + 1, 1) = EraOf(y, 12) /\ InEra(y + 1, 1) = InEra(y, 12)
      /\ EraOf(y, 12) \in Int /\ InEra(y, 12) \in Int
  BY SMTT(30) DEF EraOf, InEra, MarchYear
<1>2. MonthFirst(MarchMonth(1)) = MonthFirst(MarchMonth(12)) + 31 /\ MonthFirst(MarchMonth(12)) \in Int
  BY DEF MonthFirst, MarchMonth
<1>3. /\ DaysFromCivil(y + 1, 1, 1) = NumberIn(EraOf(y + 1, 1), InEra(y + 1, 1), MarchMonth(1), 1)
      /\ DaysFromCivil(y, 12, 31) = NumberIn(EraOf(y, 12), InEra(y, 12), MarchMonth(12), 31)
  BY DaysParts
<1>4. FirstDay(InEra(y, 12)) \in Int /\ Origin \in Int
  BY <1>1 DEF FirstDay, Origin
<1> QED BY <1>1, <1>2, <1>3, <1>4 DEF NumberIn

LEMMA TomorrowIsNext ==
    ASSUME NEW date1, IsDate(date1)
    PROVE  IsDate(Tomorrow(date1)) /\ DayNumber(Tomorrow(date1)) = DayNumber(date1) + 1
<1> DEFINE y == date1.year
           m == date1.month
           d == date1.day
<1>1. /\ y \in Int /\ m \in Int /\ 1 <= m /\ m <= 12 /\ d \in Int /\ 1 <= d
      /\ date1 = [year |-> y, month |-> m, day |-> d]
      /\ d <= MonthLength(y, m)
  BY DEF IsDate
<1>2. \A y1, m1 \in Int : MonthLength(y1, m1) \in 28..31
  BY DEF MonthLength
<1>3. CASE d < MonthLength(y, m)
  <2>1. Tomorrow(date1) = [year |-> y, month |-> m, day |-> d + 1]
    BY <1>1, <1>3 DEF Tomorrow
  <2>2. IsDate([year |-> y, month |-> m, day |-> d + 1])
    BY <1>1, <1>2, <1>3 DEF IsDate
  <2>3. DaysFromCivil(y, m, d + 1) = DaysFromCivil(y, m, d) + 1
    <3>1. /\ EraOf(y, m) \in Int /\ FirstDay(InEra(y, m)) \in Int /\ MonthFirst(MarchMonth(m)) \in Int
          /\ Origin \in Int
      BY <1>1, DateAndEra DEF FirstDay, MonthFirst, Origin
    <3>2. /\ DaysFromCivil(y, m, d) = NumberIn(EraOf(y, m), InEra(y, m), MarchMonth(m), d)
          /\ DaysFromCivil(y, m, d + 1) = NumberIn(EraOf(y, m), InEra(y, m), MarchMonth(m), d + 1)
      BY <1>1, DaysParts
    <3> QED BY <3>1, <3>2, <1>1 DEF NumberIn
  <2> QED BY <2>1, <2>2, <2>3 DEF DayNumber
<1>4. CASE ~(d < MonthLength(y, m)) /\ m < 12
  <2>1. Tomorrow(date1) = [year |-> y, month |-> m + 1, day |-> 1]
    BY <1>1, <1>4 DEF Tomorrow
  <2>2. IsDate([year |-> y, month |-> m + 1, day |-> 1])
    BY <1>1, <1>2, <1>4 DEF IsDate
  <2>3. d = MonthLength(y, m)
    BY <1>1, <1>2, <1>4
  <2>4. DaysFromCivil(y, m + 1, 1) = DaysFromCivil(y, m, d) + 1
    BY <1>1, <1>4, <2>3, NextMonth
  <2> QED BY <2>1, <2>2, <2>4 DEF DayNumber
<1>5. CASE ~(d < MonthLength(y, m)) /\ ~(m < 12)
  <2>1. Tomorrow(date1) = [year |-> y + 1, month |-> 1, day |-> 1]
    BY <1>1, <1>5 DEF Tomorrow
  <2>2. IsDate([year |-> y + 1, month |-> 1, day |-> 1])
    BY <1>1, <1>2 DEF IsDate
  <2>3. m = 12 /\ d = 31
    BY <1>1, <1>2, <1>5 DEF MonthLength
  <2>4. DaysFromCivil(y + 1, 1, 1) = DaysFromCivil(y, m, d) + 1
    BY <1>1, <2>3, NextYear
  <2> QED BY <2>1, <2>2, <2>4 DEF DayNumber
<1> QED BY <1>3, <1>4, <1>5

-----------------------------------------------------------------------------
(* The clock.  Lengths of days and hours are any numbers, and a second of  *)
(* a day is split as the code does it.                                     *)
LEMMA Lengths ==
    /\ Hours \in Nat \ {0} /\ Minutes \in Nat \ {0} /\ Seconds \in Nat \ {0}
    /\ Hour \in Nat \ {0} /\ Day \in Nat \ {0} /\ Hour = Minutes * Seconds /\ Day = Hours * Hour
<1>1. Hours \in Nat \ {0} /\ Minutes \in Nat \ {0} /\ Seconds \in Nat \ {0}
  BY LengthsAssumption
<1>2. \A a, b \in Nat \ {0} : a * b \in Nat \ {0}
  OBVIOUS
<1> QED BY <1>1, <1>2 DEF Hour, Day

LEMMA LessThanProduct ==
    ASSUME NEW a \in Nat, NEW q \in Nat \ {0}, NEW b \in Nat \ {0}, a < q * b
    PROVE  a \div b \in 0..(q - 1) /\ a % b \in 0..(b - 1) /\ a = b * (a \div b) + (a % b)
<1>1. a \div b \in Int /\ a % b \in 0..(b - 1) /\ a = b * (a \div b) + (a % b)
  BY DivMod
<1> DEFINE d == a \div b
<1> HIDE DEF d
<1>2. 0 <= d
  <2>1. ASSUME d < 0 PROVE b * d <= -b
    BY <1>1, <2>1 DEF d
  <2> QED BY <1>1, <2>1 DEF d
<1>3. d < q
  <2>1. ASSUME q <= d PROVE b * q <= b * d
    BY <1>1, <2>1 DEF d
  <2>2. b * q = q * b
    OBVIOUS
  <2> QED BY <1>1, <2>1, <2>2 DEF d
<1> QED BY <1>1, <1>2, <1>3 DEF d

LEMMA QuotRem ==
    ASSUME NEW a \in Nat, NEW b \in Nat \ {0}
    PROVE  Quot(a, b) = a \div b /\ Rem(a, b) = a % b
<1>1. Quot(a, b) = a \div b
  BY DEF Quot
<1>2. a % b = a - b * (a \div b)
  BY DivMod
<1> QED BY <1>1, <1>2 DEF Rem

LEMMA ClockOf ==
    ASSUME NEW sod \in 0..(Day - 1)
    PROVE  /\ Quot(sod, Hour) \in 0..(Hours - 1)
           /\ Quot(Rem(sod, Hour), Seconds) \in 0..(Minutes - 1)
           /\ Rem(sod, Seconds) \in 0..(Seconds - 1)
           /\ Quot(sod, Hour) * Hour + Quot(Rem(sod, Hour), Seconds) * Seconds + Rem(sod, Seconds) = sod
<1>1. sod \in Nat /\ sod < Hours * Hour
  BY Lengths
<1> DEFINE h == sod \div Hour
           r == sod % Hour
           m == r \div Seconds
           k == r % Seconds
<1>2. h \in 0..(Hours - 1) /\ r \in 0..(Hour - 1) /\ sod = Hour * h + r
  BY <1>1, Lengths, LessThanProduct
<1>3. r \in Nat /\ r < Minutes * Seconds
  <2> HIDE DEF r
  <2> QED BY <1>2, Lengths
<1>4. m \in 0..(Minutes - 1) /\ k \in 0..(Seconds - 1) /\ r = Seconds * m + k
  <2> HIDE DEF r
  <2> QED BY <1>3, Lengths, LessThanProduct
<1> HIDE DEF h, r, m, k
<1>5. sod = (Minutes * h + m) * Seconds + k
  <2>1. Hour * h = (Minutes * h) * Seconds
    BY <1>2, Lengths
  <2> QED BY <1>2, <1>4, <2>1, Lengths
<1>6. sod % Seconds = k
  <2>1. Minutes * h + m \in Int
    BY <1>2, <1>4, Lengths
  <2>2. sod \div Seconds = Minutes * h + m
    BY <1>4, <1>5, <2>1, Lengths, DivUnique
  <2>3. sod = Seconds * (Minutes * h + m) + (sod % Seconds)
    <3>1. sod \in Int
      BY <1>1
    <3>2. sod = Seconds * (sod \div Seconds) + (sod % Seconds)
      BY <3>1, Lengths, DivMod
    <3> QED BY <3>2, <2>2
  <2>4. sod % Seconds \in Int
    BY <1>1, Lengths, DivMod
  <2> QED BY <1>4, <1>5, <2>1, <2>3, <2>4, Lengths
<1>7. Quot(sod, Hour) = h /\ Rem(sod, Hour) = r /\ Rem(sod, Seconds) = k /\ Quot(r, Seconds) = m
  BY <1>1, <1>3, <1>6, Lengths, QuotRem DEF h, r, m, k
<1>8. h * Hour + m * Seconds + k = sod
  BY <1>2, <1>4, Lengths
<1> QED BY <1>2, <1>4, <1>7, <1>8

(* The second of the day of a moment, also before 1970.                    *)
LEMMA MomentOf ==
    ASSUME NEW n \in Int, NEW sod \in 0..(Day - 1), NEW ts \in Int, ts = n * Day + sod
    PROVE  /\ Quot(ts, Day) - (IF Rem(ts, Day) < 0 THEN 1 ELSE 0) = n
           /\ (IF Rem(ts, Day) < 0 THEN Rem(ts, Day) + Day ELSE Rem(ts, Day)) = sod
<1>1. Day \in Nat \ {0} /\ sod \in Int /\ 0 <= sod /\ sod < Day
  BY Lengths
<1>2. CASE ts >= 0
  <2>1. ts \div Day = n
    BY <1>1, DivUnique
  <2>2. Quot(ts, Day) = n
    BY <1>2, <2>1 DEF Quot
  <2>3. Rem(ts, Day) = sod
    <3>1. Rem(ts, Day) = ts - Day * n
      BY <2>2 DEF Rem
    <3>2. Day * n = n * Day
      BY <1>1
    <3> QED BY <3>1, <3>2, <1>1
  <2> QED BY <2>2, <2>3, <1>1
<1>3. CASE ~(ts >= 0) /\ sod = 0
  <2>1. -ts = (-n) * Day + 0
    BY <1>1, <1>3
  <2>2. (-ts) \div Day = -n
    BY <2>1, <1>1, DivUnique
  <2>3. Quot(ts, Day) = n
    BY <1>3, <2>2 DEF Quot
  <2>4. Rem(ts, Day) = sod
    <3>1. Rem(ts, Day) = ts - Day * n
      BY <2>3 DEF Rem
    <3>2. Day * n = n * Day
      BY <1>1
    <3> QED BY <3>1, <3>2, <1>1
  <2> QED BY <2>3, <2>4, <1>1
<1>4. CASE ~(ts >= 0) /\ sod # 0
  <2>1. -ts = (-n - 1) * Day + (Day - sod) /\ Day - sod \in 0..(Day - 1) /\ -n - 1 \in Int
    BY <1>1, <1>4
  <2>2. (-ts) \div Day = -n - 1
    BY <2>1, <1>1, DivUnique
  <2>3. Quot(ts, Day) = n + 1
    BY <1>4, <2>2 DEF Quot
  <2>4. Rem(ts, Day) = sod - Day
    <3>1. Rem(ts, Day) = ts - Day * (n + 1)
      BY <2>3 DEF Rem
    <3>2. Day * (n + 1) = n * Day + Day
      BY <1>1
    <3> QED BY <3>1, <3>2, <1>1
  <2> QED BY <2>3, <2>4, <1>1
<1> QED BY <1>1, <1>2, <1>3, <1>4

-----------------------------------------------------------------------------
LEMMA MonthLengthOfCode ==
    ASSUME NEW y \in Int, NEW m \in 1..12
    PROVE  DaysInMonth(y, m) = MonthLength(y, m)
<1>1. IsLeap(y) <=> Leap(y)
  BY LeapYears
<1>2. CASE m = 2
  BY <1>1, <1>2 DEF DaysInMonth, MonthLength
<1>3. CASE m # 2
  BY <1>3 DEF DaysInMonth, MonthLength
<1> QED BY <1>2, <1>3

(* iso and parse_iso agree on every second of every day, in every zone.    *)
IsZone(zone) ==
    zone \in [sign : {-1, 0, 1}, hours : 0..(Hours - 1), minutes : 0..(Minutes - 1)]

LEMMA FormatOf ==
    ASSUME NEW n \in Int, NEW sod \in 0..(Day - 1), NEW ts \in Int, ts = n * Day + sod
    PROVE  FormatIso(ts) = [date |-> CivilFromDays(n), hour |-> Quot(sod, Hour),
                            minute |-> Quot(Rem(sod, Hour), Seconds),
                            second |-> Rem(sod, Seconds), zone |-> Utc]
<1>1. /\ Quot(ts, Day) - (IF Rem(ts, Day) < 0 THEN 1 ELSE 0) = n
      /\ (IF Rem(ts, Day) < 0 THEN Rem(ts, Day) + Day ELSE Rem(ts, Day)) = sod
  BY MomentOf
<1> QED BY <1>1, Zenon DEF FormatIso

LEMMA DigitsOfYears ==
    /\ \A y \in Int : (y \in FourDigits /\ ~(y < 1)) <=> y \in Years
    /\ \A y : y \in Years => y \in FourDigits
<1>1. \A y \in Int : (y \in FourDigits /\ ~(y < 1)) <=> y \in Years
  <2>1. \A y \in Int : y \in FourDigits <=> (0 <= y /\ y <= 9999)
    BY SMT DEF FourDigits
  <2>2. \A y \in Int : y \in Years <=> (1 <= y /\ y <= 9999)
    BY SMT DEF Years
  <2> QED BY <2>1, <2>2, SMT
<1>2. ASSUME NEW y, y \in Years PROVE y \in FourDigits
  <2>1. y \in Int
    BY <1>2, SMT DEF Years
  <2> QED BY <1>1, <1>2, <2>1, Zenon
<1> QED BY <1>1, <1>2

LEMMA Accepts ==
    ASSUME NEW text, IsDate(text.date), IsZone(text.zone),
           text.hour \in 0..(Hours - 1), text.minute \in 0..(Minutes - 1),
           text.second \in 0..(Seconds - 1)
    PROVE  Refusal(text) = "none" <=> text.date.year \in Years
<1> DEFINE y == text.date.year
           badDate == \/ y < 1 \/ text.date.month \notin 1..12
                      \/ text.date.day \notin 1..DaysInMonth(y, text.date.month)
           badZone == text.zone.hours >= Hours \/ text.zone.minutes >= Minutes
           badTime == text.hour >= Hours \/ text.minute >= Minutes \/ text.second >= Seconds
<1>1. /\ y \in Int /\ text.date.month \in 1..12 /\ text.date.day \in 1..31
      /\ text.date.day <= MonthLength(y, text.date.month)
  BY DEF IsDate
<1>2. text.date.day \in 1..DaysInMonth(y, text.date.month)
  <2>1. DaysInMonth(y, text.date.month) = MonthLength(y, text.date.month)
    BY <1>1, MonthLengthOfCode
  <2>2. MonthLength(y, text.date.month) \in Int
    BY DEF MonthLength
  <2> QED BY <1>1, <2>1, <2>2
<1>3. ~badZone /\ text.zone # NoZone
  BY Lengths DEF IsZone, NoZone
<1>4. ~badTime
  BY Lengths
<1>5. badDate <=> y < 1
  BY <1>1, <1>2
<1>6. Refusal(text) = IF y \notin FourDigits THEN "format"
                      ELSE IF text.zone = NoZone THEN "zone required"
                      ELSE IF badZone THEN "zone out of range"
                      ELSE IF badDate THEN "date"
                      ELSE IF badTime THEN "time" ELSE "none"
  BY Zenon DEF Refusal
<1> HIDE DEF badDate, badZone, badTime, y
<1>7. Refusal(text) = "none" <=> (y \in FourDigits /\ ~(y < 1))
  BY <1>3, <1>4, <1>5, <1>6
<1>8. Refusal(text) = "none" <=> y \in Years
  BY <1>1, <1>7, DigitsOfYears, Zenon
<1> QED BY <1>8 DEF y

LEMMA RefusesDay ==
    ASSUME NEW text, text.date.year \in Years, text.zone = Utc,
           text.date.day \notin 1..DaysInMonth(text.date.year, text.date.month)
    PROVE  Refusal(text) = "date"
<1> DEFINE badDate == \/ text.date.year < 1 \/ text.date.month \notin 1..12
                      \/ text.date.day \notin 1..DaysInMonth(text.date.year, text.date.month)
           badZone == text.zone.hours >= Hours \/ text.zone.minutes >= Minutes
           badTime == text.hour >= Hours \/ text.minute >= Minutes \/ text.second >= Seconds
<1>1. ~badZone /\ text.zone # NoZone
  BY Lengths DEF Utc, NoZone
<1>2. text.date.year \in FourDigits
  BY DigitsOfYears, Zenon
<1>3. badDate
  BY Zenon
<1>4. Refusal(text) = IF text.date.year \notin FourDigits THEN "format"
                      ELSE IF text.zone = NoZone THEN "zone required"
                      ELSE IF badZone THEN "zone out of range"
                      ELSE IF badDate THEN "date"
                      ELSE IF badTime THEN "time" ELSE "none"
  BY Zenon DEF Refusal
<1> HIDE DEF badDate, badZone, badTime
<1> QED BY <1>1, <1>2, <1>3, <1>4

(* What iso writes of any second of a year that an int holds is its date,  *)
(* and parse_iso reads it back, in any zone, in the years 1 to 9999.       *)
THEOREM IsoRoundTrip ==
    ASSUME NEW date1, IsDate(date1), FitsInt(date1.year),
           NEW sod \in 0..(Day - 1), NEW zone, IsZone(zone),
           NEW ts \in Int, ts = DayNumber(date1) * Day + sod,
           NEW text, text = [FormatIso(ts) EXCEPT !.zone = zone]
    PROVE  /\ FormatIso(ts).date = date1
           /\ Refusal(text) = "none" <=> date1.year \in Years
           /\ ParseIso(text) = ts - zone.sign * (zone.hours * Hour + zone.minutes * Seconds)
<1> DEFINE n == DayNumber(date1)
           h == Quot(sod, Hour)
           m == Quot(Rem(sod, Hour), Seconds)
           k == Rem(sod, Seconds)
<1>1. FormatIso(ts) = [date |-> date1, hour |-> h, minute |-> m, second |-> k, zone |-> Utc]
  <2>1. n \in Int /\ CivilFromDays(n) = date1
    BY DateIsCivil, NarrowedFits
  <2> QED BY <2>1, FormatOf
<1>2. text = [date |-> date1, hour |-> h, minute |-> m, second |-> k, zone |-> zone]
  BY <1>1
<1>3. IsDate(date1) /\ DayNumber(date1) = n /\ n \in Int
  BY DateIsCivil
<1>4. /\ h \in 0..(Hours - 1) /\ m \in 0..(Minutes - 1) /\ k \in 0..(Seconds - 1)
      /\ h * Hour + m * Seconds + k = sod
  BY ClockOf
<1> HIDE DEF n, h, m, k
<1>5. Refusal(text) = "none" <=> date1.year \in Years
  <2>1. /\ text.date = date1 /\ text.zone = zone
        /\ text.hour = h /\ text.minute = m /\ text.second = k
    BY <1>2
  <2> QED BY <2>1, <1>3, <1>4, Accepts, Zenon
<1>6. ParseIso(text) = ts - zone.sign * (zone.hours * Hour + zone.minutes * Seconds)
  <2>1. ParseIso(text) = n * Day + h * Hour + m * Seconds + k
                             - zone.sign * (zone.hours * Hour + zone.minutes * Seconds)
    BY <1>2, <1>3 DEF ParseIso, DayNumber
  <2>2. zone.sign * (zone.hours * Hour + zone.minutes * Seconds) \in Int
    BY Lengths DEF IsZone
  <2>3. n * Day \in Int /\ h * Hour \in Int /\ m * Seconds \in Int /\ k \in Int
    BY <1>3, <1>4, Lengths
  <2>4. ts = n * Day + sod
    BY DEF n
  <2> QED BY <2>1, <2>2, <2>3, <2>4, <1>4
<1>7. FormatIso(ts).date = date1
  BY <1>1
<1> QED BY <1>5, <1>6, <1>7, Zenon

-----------------------------------------------------------------------------
(* Counting.                                                               *)
CInv == number \in Int /\ IsDate(date) /\ DayNumber(date) = number

LEMMA CountStarts == CountInit => CInv
<1> SUFFICES ASSUME NEW e \in Eras, number = 146097 * e,
                    date = [year |-> 1970 + 400 * e, month |-> 1, day |-> 1]
             PROVE  CInv
  BY DEF CountInit
<1>1. e \in Int
  BY ErasAssumption
<1>2. IsDate(date)
  BY <1>1 DEF IsDate, MonthLength
<1>3. DaysFromCivil(1970 + 400 * e, 1, 1) = 146097 * e
  BY <1>1, SMTT(30) DEF DaysFromCivil, Quot
<1> QED BY <1>1, <1>2, <1>3 DEF CInv, DayNumber

LEMMA CountGoesOn == CInv /\ [CountDay]_<<number, date>> => CInv'
<1> SUFFICES ASSUME CInv, [CountDay]_<<number, date>> PROVE CInv'
  OBVIOUS
<1>1. CASE CountDay
  <2>1. IsDate(date') /\ DayNumber(date') = number'
    BY <1>1, TomorrowIsNext DEF CountDay, CInv
  <2> QED BY <1>1, <2>1 DEF CountDay, CInv, DayNumber, IsDate
<1>2. CASE UNCHANGED <<number, date>>
  BY <1>2 DEF CInv, DayNumber, IsDate
<1> QED BY <1>1, <1>2

(* Whatever era counting starts in, and however long it goes on, the two   *)
(* conversions agree with the calendar, and iso with parse_iso.            *)
THEOREM CalendarIsRightHolds == CountSpec => []CalendarIsRight
<1>1. CInv => CalendarIsRight
  <2> SUFFICES ASSUME CInv, FitsInt(date.year) PROVE CalendarIsRight
    BY DEF CalendarIsRight
  <2>1. number \in Int /\ IsDate(date) /\ DayNumber(date) = number
    BY DEF CInv
  <2>2. CivilFromDays(number) = date
    BY <2>1, DateIsCivil, NarrowedFits
  <2>3. \A second \in 0..(Day - 1), zone \in Zones : IsoIsRight(number * Day + second, zone)
    <3>1. ASSUME NEW second \in 0..(Day - 1), NEW zone \in Zones
          PROVE  IsoIsRight(number * Day + second, zone)
      <4>1. IsZone(zone)
        BY Lengths DEF Zones, Utc, IsZone
      <4>2. number * Day + second \in Int
        BY <2>1, Lengths
      <4> QED BY <2>1, <2>2, <4>1, <4>2, IsoRoundTrip DEF IsoIsRight
    <3> QED BY <3>1
  <2>4. ASSUME Tomorrow(date).day = 1, date.year \in Years
        PROVE  Refusal([FormatIso(number * Day) EXCEPT !.date.day = @ + 1]) = "date"
    <3>1. /\ date = [year |-> date.year, month |-> date.month, day |-> date.day]
          /\ date.month \in 1..12 /\ date.day \in 1..31 /\ date.year \in Int
          /\ date.day <= MonthLength(date.year, date.month)
      BY <2>1 DEF IsDate
    <3>2. MonthLength(date.year, date.month) \in Int
      BY DEF MonthLength
    <3>3. ~(date.day < MonthLength(date.year, date.month))
      BY <2>4, <3>1 DEF Tomorrow
    <3>4. date.day + 1 \notin 1..DaysInMonth(date.year, date.month)
      BY <3>1, <3>2, <3>3, MonthLengthOfCode
    <3>5. FormatIso(number * Day) = [date |-> date, hour |-> Quot(0, Hour),
                 minute |-> Quot(Rem(0, Hour), Seconds), second |-> Rem(0, Seconds), zone |-> Utc]
      <4>1. 0 \in 0..(Day - 1) /\ number * Day \in Int /\ number * Day = number * Day + 0
        BY <2>1, Lengths
      <4> QED BY <2>1, <2>2, <4>1, FormatOf
    <3>6. [FormatIso(number * Day) EXCEPT !.date.day = @ + 1] =
              [date |-> [year |-> date.year, month |-> date.month, day |-> date.day + 1],
               hour |-> Quot(0, Hour), minute |-> Quot(Rem(0, Hour), Seconds),
               second |-> Rem(0, Seconds), zone |-> Utc]
      BY <3>1, <3>5
    <3> DEFINE text == [FormatIso(number * Day) EXCEPT !.date.day = @ + 1]
    <3>7. /\ text.date.year = date.year /\ text.date.month = date.month
          /\ text.date.day = date.day + 1 /\ text.zone = Utc
      BY <3>6
    <3> HIDE DEF text
    <3>8. Refusal(text) = "date"
      BY <2>4, <3>4, <3>7, RefusesDay, Zenon
    <3> QED BY <3>8 DEF text
  <2> QED BY <2>1, <2>2, <2>3, <2>4 DEF CalendarIsRight, DayNumber
<1> QED BY <1>1, CountStarts, CountGoesOn, PTL DEF CountSpec

-----------------------------------------------------------------------------
(* Durations.  The totals of parse_duration's loop and the sums of the     *)
(* reference are functions defined from one number of a text to the next,  *)
(* so first what natural numbers allow: a set of them has a least, thus    *)
(* induction up to a number, thus such functions exist.                    *)
LEMMA LeastExists ==
    ASSUME NEW S \in SUBSET Nat, S # {}
    PROVE  \E x \in S : \A y \in S : x <= y
<1> DEFINE R == {ss \in Nat \X Nat : ss[1] < ss[2]}
<1>1. IsWellFoundedOn(R, Nat)
  BY NatLessThanWellFounded DEF OpToRel
<1>2. PICK x \in S : \A y \in S : ~(<<y, x>> \in R)
  <2> HIDE DEF R
  <2> QED BY <1>1, WFMin
<1>3. ASSUME NEW y \in S
      PROVE  x <= y
  <2>1. <<y, x>> \in Nat \X Nat /\ <<y, x>>[1] = y /\ <<y, x>>[2] = x
    OBVIOUS
  <2>2. y < x => <<y, x>> \in R
    BY <2>1
  <2> QED BY <1>2, <2>2
<1> QED BY <1>3

(* Induction up to N: what holds of 0 and goes on holds of all.            *)
LEMMA InductionUpTo ==
    ASSUME NEW N \in Nat, NEW S, 0 \in S,
           \A i \in 0..(N - 1) : i \in S => i + 1 \in S
    PROVE  \A i \in 0..N : i \in S
<1> DEFINE Others == (0..N) \ S
<1>1. SUFFICES ASSUME Others # {}
               PROVE  FALSE
  OBVIOUS
<1>2. Others \in SUBSET Nat
  OBVIOUS
<1>3. PICK x \in Others : \A y \in Others : x <= y
  <2> HIDE DEF Others
  <2> QED BY <1>1, <1>2, LeastExists
<1>4. x \in 1..N
  BY <1>3
<1>5. x - 1 \in 0..(N - 1) /\ x - 1 \notin Others
  BY <1>3, <1>4
<1>6. x - 1 \in S
  BY <1>5
<1>7. (x - 1) + 1 \in S
  BY <1>5, <1>6
<1> QED BY <1>3, <1>4, <1>7

(* A function may be defined by its first value and a step for each later  *)
(* one.                                                                    *)
Iterates(f, N, a, G) == f[0] = a /\ \A i \in 1..N : f[i] = G[i][f[i - 1]]

LEMMA RecursionUpTo ==
    ASSUME NEW N \in Nat, NEW T, NEW a \in T, NEW G \in [1..N -> [T -> T]]
    PROVE  \E f \in [0..N -> T] : Iterates(f, N, a, G)
<1> DEFINE Good(k, f) == f[0] = a /\ \A i \in 1..k : f[i] = G[i][f[i - 1]]
           S == {k \in 0..N : \E f \in [0..k -> T] : Good(k, f)}
<1>1. 0 \in S
  <2> DEFINE first == [i \in 0..0 |-> a]
  <2>1. first \in [0..0 -> T] /\ Good(0, first)
    OBVIOUS
  <2>2. 0 \in 0..N
    OBVIOUS
  <2> HIDE DEF first, Good
  <2> QED BY <2>1, <2>2
<1>2. ASSUME NEW k \in 0..(N - 1), k \in S
      PROVE  k + 1 \in S
  <2>1. PICK f \in [0..k -> T] : Good(k, f)
    BY <1>2
  <2> DEFINE next == [i \in 0..(k + 1) |-> IF i = k + 1 THEN G[k + 1][f[k]] ELSE f[i]]
  <2>2. G[k + 1][f[k]] \in T
    <3>1. k + 1 \in 1..N /\ k \in 0..k
      OBVIOUS
    <3>2. G[k + 1] \in [T -> T] /\ f[k] \in T
      BY <3>1
    <3> QED BY <3>2
  <2>3. next \in [0..(k + 1) -> T]
    BY <2>2
  <2>4. Good(k + 1, next)
    <3>1. next[0] = f[0]
      OBVIOUS
    <3>2. ASSUME NEW i \in 1..(k + 1)
          PROVE  next[i] = G[i][next[i - 1]]
      <4>1. next[i - 1] = f[i - 1]
        OBVIOUS
      <4>2. CASE i = k + 1
        BY <4>1, <4>2
      <4>3. CASE i \in 1..k
        <5>1. next[i] = f[i] /\ f[i] = G[i][f[i - 1]]
          BY <4>3, <2>1
        <5> HIDE DEF next
        <5> QED BY <4>1, <5>1
      <4> QED BY <4>2, <4>3
    <3> HIDE DEF next
    <3> QED BY <2>1, <3>1, <3>2
  <2> HIDE DEF next, Good
  <2> QED BY <2>3, <2>4
<1>3. N \in S
  <2>1. \A k \in 0..(N - 1) : k \in S => k + 1 \in S
    BY <1>2
  <2>2. \A k \in 0..N : k \in S
    <3> HIDE DEF S
    <3> QED BY <1>1, <2>1, InductionUpTo
  <2> HIDE DEF S
  <2> QED BY <2>2
<1>4. PICK f \in [0..N -> T] : Good(N, f)
  BY <1>3
<1> QED BY <1>4 DEF Iterates

-----------------------------------------------------------------------------
Chunks == Seq([n : Nat, unit : Units])

LEMMA QuotAndRem ==
    ASSUME NEW a \in Nat, NEW b \in Nat \ {0}
    PROVE  /\ Quot(a, b) \in Int /\ Rem(a, b) \in 0..(b - 1) /\ Rem(a, b) \in Nat
           /\ a = b * Quot(a, b) + Rem(a, b)
           /\ Quot(a, b) = a \div b
<1>1. Quot(a, b) = a \div b /\ Rem(a, b) = a % b
  BY QuotRem
<1>2. a \div b \in Int /\ a % b \in 0..(b - 1) /\ a = b * (a \div b) + (a % b)
  BY DivMod
<1> QED BY <1>1, <1>2

LEMMA LengthsOfUnits ==
    /\ Hours \in Nat \ {0} /\ Minutes \in Nat \ {0} /\ Seconds \in Nat \ {0}
    /\ MaxInt \in Nat \ {0} /\ MaxNumber \in Nat \ {0}
    /\ Hour \in Nat \ {0} /\ Day \in Nat \ {0}
<1>1. /\ Hours \in Nat \ {0} /\ Minutes \in Nat \ {0} /\ Seconds \in Nat \ {0}
      /\ MaxInt \in Nat \ {0} /\ MaxNumber \in Nat \ {0}
  BY LengthsAssumption
<1>2. \A a, b \in Nat \ {0} : a * b \in Nat \ {0}
  OBVIOUS
<1>3. Hour \in Nat \ {0}
  BY <1>1, <1>2 DEF Hour
<1> QED BY <1>1, <1>2, <1>3 DEF Day

LEMMA UnitFacts ==
    ASSUME NEW u \in Units
    PROVE  Weight[u] \in Nat \ {0} /\ Rank[u] \in 1..4
<1>1. /\ Weight["d"] = Day /\ Weight["h"] = Hour /\ Weight["m"] = Seconds /\ Weight["s"] = 1
      /\ Rank["d"] = 4 /\ Rank["h"] = 3 /\ Rank["m"] = 2 /\ Rank["s"] = 1
  BY DEF Weight, Rank
<1> QED BY <1>1, LengthsOfUnits DEF Units

LEMMA ChunkFacts ==
    ASSUME NEW chunks \in Chunks
    PROVE  /\ Len(chunks) \in Nat /\ DOMAIN chunks = 1..Len(chunks)
           /\ \A i \in DOMAIN chunks :
                 /\ chunks[i].n \in Nat /\ chunks[i].unit \in Units
                 /\ Weight[chunks[i].unit] \in Nat \ {0} /\ Rank[chunks[i].unit] \in 1..4
                 /\ chunks[i].n * Weight[chunks[i].unit] \in Nat
<1>1. Len(chunks) \in Nat /\ DOMAIN chunks = 1..Len(chunks)
  BY LenProperties DEF Chunks
<1>2. ASSUME NEW i \in DOMAIN chunks
      PROVE  /\ chunks[i].n \in Nat /\ chunks[i].unit \in Units
             /\ Weight[chunks[i].unit] \in Nat \ {0} /\ Rank[chunks[i].unit] \in 1..4
             /\ chunks[i].n * Weight[chunks[i].unit] \in Nat
  <2>1. chunks[i] \in [n : Nat, unit : Units]
    BY <1>1, ElementOfSeq DEF Chunks
  <2>2. chunks[i].n \in Nat /\ chunks[i].unit \in Units
    BY <2>1
  <2>3. Weight[chunks[i].unit] \in Nat \ {0} /\ Rank[chunks[i].unit] \in 1..4
    BY <2>2, UnitFacts
  <2>4. \A a, b \in Nat : a * b \in Nat
    OBVIOUS
  <2> QED BY <2>2, <2>3, <2>4
<1> QED BY <1>1, <1>2

(* A pass of the loop adds a number, or fails.                             *)
Adds(total, chunks, i) ==
    /\ total # Failure
    /\ chunks[i].n <= MaxNumber
    /\ i > 1 => Rank[chunks[i].unit] < Rank[chunks[i - 1].unit]
    /\ total + chunks[i].n * Weight[chunks[i].unit] <= MaxInt

LEMMA QuotientTest ==
    ASSUME NEW m \in Nat, NEW n \in Nat, NEW w \in Nat
    PROVE  n # 0 => (w > m \div n <=> n * w > m)
<1> SUFFICES ASSUME n # 0
             PROVE  w > m \div n <=> n * w > m
  OBVIOUS
<1> DEFINE q == m \div n
           r == m % n
<1>1. q \in Nat /\ r \in 0..(n - 1) /\ m = n * q + r
  OBVIOUS
<1> HIDE DEF q, r
<1>2. CASE w > q
  <2>1. w >= q + 1
    BY <1>1, <1>2
  <2>2. n * w >= n * (q + 1)
    BY <2>1, <1>1
  <2>3. n * (q + 1) = n * q + n
    BY <1>1
  <2>4. n * w \in Nat /\ n * q \in Nat
    BY <1>1
  <2> QED BY <2>2, <2>3, <2>4, <1>1, <1>2 DEF q
<1>3. CASE w <= q
  <2>1. n * w <= n * q
    BY <1>1, <1>3
  <2>2. n * w \in Nat /\ n * q \in Nat
    BY <1>1
  <2> QED BY <2>1, <2>2, <1>1, <1>3 DEF q
<1> QED BY <1>1, <1>2, <1>3

LEMMA PassOfLoop ==
    ASSUME NEW chunks \in Chunks, NEW i \in DOMAIN chunks, NEW total \in Nat \cup {Failure}
    PROVE  /\ AddChunk(total, chunks, i) \in Nat \cup {Failure}
           /\ AddChunk(total, chunks, i)
                 = IF Adds(total, chunks, i)
                   THEN total + chunks[i].n * Weight[chunks[i].unit] ELSE Failure
<1> DEFINE n == chunks[i].n
           w == Weight[chunks[i].unit]
           sum == n * w
           Late == i > 1 /\ Rank[chunks[i].unit] >= Rank[chunks[i - 1].unit]
           Large == n > MaxNumber
<1>1. n \in Nat /\ w \in Nat /\ sum \in Nat /\ i \in Nat /\ MaxInt \in Nat /\ MaxNumber \in Nat
  BY ChunkFacts, LengthsOfUnits
<1>2. Late <=> ~(i > 1 => Rank[chunks[i].unit] < Rank[chunks[i - 1].unit])
  <2>1. i > 1 => i - 1 \in DOMAIN chunks
    BY ChunkFacts
  <2>2. \A j \in DOMAIN chunks : Rank[chunks[j].unit] \in 1..4
    BY ChunkFacts
  <2> QED BY <2>1, <2>2
<1>3. Large <=> ~(n <= MaxNumber)
  BY <1>1
<1>4. n # 0 => (w > MaxInt \div n <=> sum > MaxInt)
  BY <1>1, QuotientTest
<1>5. n = 0 => sum = 0
  BY <1>1
<1>6. AddChunk(total, chunks, i)
         = IF \/ total = Failure \/ Large \/ Late
              \/ n # 0 /\ w > MaxInt \div n
              \/ total > MaxInt - sum
           THEN Failure ELSE total + sum
  BY DEF AddChunk
<1>7. Adds(total, chunks, i) <=> total # Failure /\ ~Large /\ ~Late /\ total + sum <= MaxInt
  BY <1>2, <1>3 DEF Adds
<1>8. Failure = -1
  BY DEF Failure
<1> HIDE DEF n, w, sum, Late, Large
<1>9. AddChunk(total, chunks, i)
         = IF Adds(total, chunks, i) THEN total + sum ELSE Failure
  <2>1. CASE total = Failure
    BY <1>6, <1>7, <2>1
  <2>2. CASE total \in Nat
    <3>1. total # Failure
      BY <1>8, <2>2
    <3>2. (n # 0 /\ w > MaxInt \div n) \/ total > MaxInt - sum <=> ~(total + sum <= MaxInt)
      BY <1>1, <1>4, <1>5, <2>2
    <3> HIDE <1>4
    <3> QED BY <1>6, <1>7, <3>1, <3>2
  <2> QED BY <2>1, <2>2
<1>10. Adds(total, chunks, i) => total + sum \in Nat
  BY <1>1, <1>7
<1> QED BY <1>9, <1>10 DEF n, w, sum

(* The totals of the loop, and the sums of the reference.                  *)
LEMMA LoopOf ==
    ASSUME NEW chunks \in Chunks
    PROVE  \E t \in [0..Len(chunks) -> Nat \cup {Failure}] :
              /\ t[0] = 0
              /\ \A i \in 1..Len(chunks) : t[i] = AddChunk(t[i - 1], chunks, i)
              /\ chunks # << >> => ParseDuration(chunks) = t[Len(chunks)]
<1> DEFINE N == Len(chunks)
           T == Nat \cup {Failure}
           G == [i \in 1..N |-> [x \in T |-> AddChunk(x, chunks, i)]]
           Total(f) == f = [i \in 0..N |-> IF i = 0 THEN 0 ELSE AddChunk(f[i - 1], chunks, i)]
<1>1. N \in Nat /\ DOMAIN chunks = 1..N
  BY ChunkFacts
<1>2. \A i \in 1..N, x \in T : AddChunk(x, chunks, i) \in T
  BY <1>1, PassOfLoop
<1>3. G \in [1..N -> [T -> T]] /\ 0 \in T
  BY <1>2
<1>4. PICK f \in [0..N -> T] : Iterates(f, N, 0, G)
  <2> HIDE DEF N, T, G
  <2> QED BY <1>1, <1>3, RecursionUpTo
<1>5. f[0] = 0 /\ \A i \in 1..N : f[i] = AddChunk(f[i - 1], chunks, i)
  <2> HIDE DEF N, T
  <2>1. f[0] = 0 /\ \A i \in 1..N : f[i] = G[i][f[i - 1]]
    BY <1>4 DEF Iterates
  <2>2. \A i \in 1..N : i - 1 \in 0..N
    BY <1>1
  <2>3. \A i \in 1..N : f[i - 1] \in T
    BY <1>4, <2>2
  <2> QED BY <2>1, <2>3
<1>6. Total(f)
  <2> HIDE DEF N, T, G
  <2>1. \A i \in 0..N : f[i] = IF i = 0 THEN 0 ELSE AddChunk(f[i - 1], chunks, i)
    BY <1>1, <1>5
  <2>2. f = [i \in 0..N |-> f[i]]
    BY <1>4
  <2> QED BY <2>1, <2>2
<1> DEFINE g == CHOOSE total : Total(total)
<1>7. chunks # << >> => ParseDuration(chunks) = g[N]
  BY DEF ParseDuration
<1>8. Total(g)
  <2> HIDE DEF Total
  <2> QED BY <1>6
<1> HIDE DEF N, T, G, g
<1>9. g[0] = 0 /\ \A i \in 1..N : i \in 0..N /\ g[i] = AddChunk(g[i - 1], chunks, i)
  BY <1>1, <1>8
<1>10. g \in [0..N -> T]
  <2> DEFINE S == {i \in 0..N : g[i] \in T}
  <2>1. 0 \in S
    BY <1>1, <1>3, <1>9
  <2>2. ASSUME NEW i \in 0..(N - 1), i \in S
        PROVE  i + 1 \in S
    <3>1. i + 1 \in 1..N /\ (i + 1) - 1 = i
      BY <1>1
    <3>2. g[i] \in T /\ g[i + 1] = AddChunk(g[i], chunks, i + 1)
      BY <1>9, <2>2, <3>1
    <3> QED BY <1>2, <1>9, <3>1, <3>2
  <2>3. \A i \in 0..(N - 1) : i \in S => i + 1 \in S
    BY <2>2
  <2>4. \A i \in 0..N : i \in S
    <3> HIDE DEF S
    <3> QED BY <1>1, <2>1, <2>3, InductionUpTo
  <2>5. \A i \in 0..N : g[i] \in T
    BY <2>4
  <2> HIDE DEF S
  <2> QED BY <1>8, <2>5
<1>11. g \in [0..N -> T] /\ g[0] = 0 /\ (\A i \in 1..N : g[i] = AddChunk(g[i - 1], chunks, i))
       /\ (chunks # << >> => ParseDuration(chunks) = g[N])
  BY <1>7, <1>9, <1>10
<1> QED BY <1>11 DEF N, T

(* The seconds of one number.                                              *)
In(chunks, i) == chunks[i].n * Weight[chunks[i].unit]

LEMMA SumsOf ==
    ASSUME NEW chunks \in Chunks
    PROVE  \E s \in [0..Len(chunks) -> Nat] :
              /\ s[0] = 0
              /\ \A i \in 1..Len(chunks) : s[i] = s[i - 1] + In(chunks, i)
              /\ TotalOf(chunks) = s[Len(chunks)]
<1> DEFINE N == Len(chunks)
           T == Nat
           G == [i \in 1..N |-> [x \in T |-> x + In(chunks, i)]]
           Sum(f) == f = [i \in 0..N |-> IF i = 0 THEN 0 ELSE f[i - 1] + In(chunks, i)]
<1>1. N \in Nat /\ DOMAIN chunks = 1..N
  BY ChunkFacts
<1>2. \A i \in 1..N, x \in T : x + In(chunks, i) \in T
  BY <1>1, ChunkFacts DEF In
<1>3. G \in [1..N -> [T -> T]] /\ 0 \in T
  BY <1>2
<1>4. PICK f \in [0..N -> T] : Iterates(f, N, 0, G)
  <2> HIDE DEF N, T, G
  <2> QED BY <1>1, <1>3, RecursionUpTo
<1>5. f[0] = 0 /\ \A i \in 1..N : f[i] = f[i - 1] + In(chunks, i)
  <2> HIDE DEF N, T
  <2>1. f[0] = 0 /\ \A i \in 1..N : f[i] = G[i][f[i - 1]]
    BY <1>4 DEF Iterates
  <2>2. \A i \in 1..N : i - 1 \in 0..N
    BY <1>1
  <2>3. \A i \in 1..N : f[i - 1] \in T
    BY <1>4, <2>2
  <2> QED BY <2>1, <2>3
<1>6. Sum(f)
  <2> HIDE DEF N, T, G
  <2>1. \A i \in 0..N : f[i] = IF i = 0 THEN 0 ELSE f[i - 1] + In(chunks, i)
    BY <1>1, <1>5
  <2>2. f = [i \in 0..N |-> f[i]]
    BY <1>4
  <2> QED BY <2>1, <2>2
<1> DEFINE g == CHOOSE sum : Sum(sum)
<1>7. TotalOf(chunks) = g[N]
  BY DEF TotalOf, In
<1>8. Sum(g)
  <2> HIDE DEF Sum
  <2> QED BY <1>6
<1> HIDE DEF N, T, G, g
<1>9. g[0] = 0 /\ \A i \in 1..N : i \in 0..N /\ g[i] = g[i - 1] + In(chunks, i)
  BY <1>1, <1>8
<1>10. g \in [0..N -> T]
  <2> DEFINE S == {i \in 0..N : g[i] \in T}
  <2>1. 0 \in S
    BY <1>1, <1>3, <1>9
  <2>2. ASSUME NEW i \in 0..(N - 1), i \in S
        PROVE  i + 1 \in S
    <3>1. i + 1 \in 1..N /\ (i + 1) - 1 = i
      BY <1>1
    <3>2. g[i] \in T /\ g[i + 1] = g[i] + In(chunks, i + 1)
      BY <1>9, <2>2, <3>1
    <3> QED BY <1>2, <1>9, <3>1, <3>2
  <2>3. \A i \in 0..(N - 1) : i \in S => i + 1 \in S
    BY <2>2
  <2>4. \A i \in 0..N : i \in S
    <3> HIDE DEF S
    <3> QED BY <1>1, <2>1, <2>3, InductionUpTo
  <2>5. \A i \in 0..N : g[i] \in T
    BY <2>4
  <2> HIDE DEF S
  <2> QED BY <1>8, <2>5
<1>11. g \in [0..N -> T] /\ g[0] = 0 /\ (\A i \in 1..N : g[i] = g[i - 1] + In(chunks, i))
       /\ (TotalOf(chunks) = g[N])
  BY <1>7, <1>9, <1>10
<1> QED BY <1>11 DEF N, T

(* Each unit lower than the one before it: the order of all of them.       *)
Descends(chunks) ==
    \A i \in 1..Len(chunks) : i > 1 => Rank[chunks[i].unit] < Rank[chunks[i - 1].unit]

LEMMA DescendsAtOnce ==
    ASSUME NEW chunks \in Chunks
    PROVE  Descends(chunks) <=> Decreasing(chunks)
<1> DEFINE N == Len(chunks)
           r == [i \in 1..N |-> Rank[chunks[i].unit]]
<1>1. N \in Nat /\ DOMAIN chunks = 1..N /\ \A i \in 1..N : r[i] \in 1..4
  BY ChunkFacts
<1>2. Descends(chunks) <=> \A i \in 1..N : i > 1 => r[i] < r[i - 1]
  <2>1. \A i \in 1..N : i > 1 => i - 1 \in 1..N
    BY <1>1
  <2> QED BY <2>1 DEF Descends
<1>3. Decreasing(chunks) <=> \A i, j \in 1..N : i < j => r[i] > r[j]
  BY <1>1 DEF Decreasing
<1> HIDE DEF r, N
<1>4. ASSUME \A i, j \in 1..N : i < j => r[i] > r[j], NEW i \in 1..N, i > 1
      PROVE  r[i] < r[i - 1]
  <2>1. i - 1 \in 1..N /\ i - 1 < i
    BY <1>1, <1>4
  <2>2. r[i - 1] > r[i]
    BY <1>4, <2>1
  <2> QED BY <1>1, <2>1, <2>2
<1>5. ASSUME \A i \in 1..N : i > 1 => r[i] < r[i - 1]
      PROVE  \A i, j \in 1..N : i < j => r[i] > r[j]
  <2> DEFINE S == {k \in 0..N : \A i, j \in 1..k : i < j => r[i] > r[j]}
  <2>1. 0 \in S
    BY <1>1
  <2>2. ASSUME NEW k \in 0..(N - 1), k \in S, NEW i \in 1..(k + 1), NEW j \in 1..(k + 1), i < j
        PROVE  r[i] > r[j]
    <3>1. i \in 1..k /\ i \in 1..N /\ j \in 1..N
      BY <1>1, <2>2
    <3>2. CASE j \in 1..k
      BY <2>2, <3>1, <3>2
    <3>3. CASE j = k + 1
      <4>1. j > 1 /\ j - 1 = k /\ k \in 1..N
        BY <1>1, <3>1, <3>3
      <4>2. r[j] < r[k]
        BY <1>5, <3>1, <4>1
      <4>3. i = k \/ i < k
        BY <3>1
      <4>4. i < k => r[i] > r[k]
        BY <2>2, <3>1, <4>1
      <4> QED BY <1>1, <3>1, <4>1, <4>2, <4>3, <4>4
    <3> QED BY <2>2, <3>2, <3>3
  <2>3. ASSUME NEW k \in 0..(N - 1), k \in S
        PROVE  k + 1 \in S
    <3>1. \A i, j \in 1..(k + 1) : i < j => r[i] > r[j]
      BY <2>2, <2>3
    <3>2. k + 1 \in 0..N
      BY <1>1
    <3> QED BY <3>1, <3>2
  <2>4. \A k \in 0..N : k \in S
    <3>1. \A k \in 0..(N - 1) : k \in S => k + 1 \in S
      BY <2>3
    <3> HIDE DEF S
    <3> QED BY <1>1, <2>1, <3>1, InductionUpTo
  <2>5. N \in S
    <3> HIDE DEF S
    <3> QED BY <1>1, <2>4
  <2> QED BY <2>5
<1> QED BY <1>2, <1>3, <1>4, <1>5

(* The passes of the loop one after the other, next to the sums.           *)
Proper(chunks) ==
    Decreasing(chunks) /\ \A i \in DOMAIN chunks : chunks[i].n <= MaxNumber

SumsUp(s, N, in) == s[0] = 0 /\ \A i \in 1..N : s[i] = s[i - 1] + in[i]

RunsOver(t, N, fits, in) ==
    /\ t[0] = 0
    /\ \A i \in 1..N :
          t[i] = IF t[i - 1] # Failure /\ fits[i] /\ t[i - 1] + in[i] <= MaxInt
                 THEN t[i - 1] + in[i] ELSE Failure

AllFit(fits, N) == \A i \in 1..N : fits[i]

LEMMA LoopAndSums ==
    ASSUME NEW N \in Nat, NEW fits \in [1..N -> BOOLEAN], NEW in \in [1..N -> Nat],
           NEW t \in [0..N -> Nat \cup {Failure}], NEW s \in [0..N -> Nat],
           RunsOver(t, N, fits, in), SumsUp(s, N, in)
    PROVE  t[N] = IF AllFit(fits, N) /\ s[N] <= MaxInt THEN s[N] ELSE Failure
<1> DEFINE S == {k \in 0..N :
                   t[k] = IF (\A i \in 1..k : fits[i]) /\ s[k] <= MaxInt THEN s[k] ELSE Failure}
<1>0. /\ t[0] = 0 /\ s[0] = 0
      /\ \A i \in 1..N : s[i] = s[i - 1] + in[i]
      /\ \A i \in 1..N :
            t[i] = IF t[i - 1] # Failure /\ fits[i] /\ t[i - 1] + in[i] <= MaxInt
                   THEN t[i - 1] + in[i] ELSE Failure
  BY DEF RunsOver, SumsUp
<1>1. 0 \in S
  BY <1>0, LengthsOfUnits
<1>2. ASSUME NEW k \in 0..(N - 1), k \in S
      PROVE  k + 1 \in S
  <2>1. k + 1 \in 1..N /\ (k + 1) - 1 = k
    OBVIOUS
  <2>2. /\ s[k] \in Nat /\ in[k + 1] \in Nat /\ MaxInt \in Nat /\ s[k + 1] = s[k] + in[k + 1]
        /\ Failure = -1 /\ fits[k + 1] \in BOOLEAN
    BY <1>0, <2>1, LengthsOfUnits DEF Failure
  <2>3. t[k + 1] = IF t[k] # Failure /\ fits[k + 1] /\ t[k] + in[k + 1] <= MaxInt
                   THEN t[k] + in[k + 1] ELSE Failure
    BY <1>0, <2>1
  <2> DEFINE all == \A i \in 1..k : fits[i]
             allNext == \A i \in 1..(k + 1) : fits[i]
  <2>4. allNext <=> all /\ fits[k + 1]
    <3>1. \A i \in 1..(k + 1) : i \in 1..k \/ i = k + 1
      OBVIOUS
    <3>2. \A i \in 1..k : i \in 1..(k + 1)
      OBVIOUS
    <3>3. k + 1 \in 1..(k + 1)
      OBVIOUS
    <3> QED BY <3>1, <3>2, <3>3
  <2>5. t[k] = IF all /\ s[k] <= MaxInt THEN s[k] ELSE Failure
    BY <1>2
  <2> HIDE DEF all, allNext
  <2>6. t[k + 1] = IF allNext /\ s[k + 1] <= MaxInt THEN s[k + 1] ELSE Failure
    <3>1. CASE all /\ s[k] <= MaxInt
      BY <2>2, <2>3, <2>4, <2>5, <3>1
    <3>2. CASE ~(all /\ s[k] <= MaxInt)
      BY <2>2, <2>3, <2>4, <2>5, <3>2
    <3> QED BY <3>1, <3>2
  <2> QED BY <2>1, <2>6 DEF allNext
<1>3. \A k \in 0..N : k \in S
  <2>1. \A k \in 0..(N - 1) : k \in S => k + 1 \in S
    BY <1>2
  <2> HIDE DEF S
  <2> QED BY <1>1, <2>1, InductionUpTo
<1> QED BY <1>3 DEF AllFit

(* parse_duration adds the numbers of a text up, if their units descend,   *)
(* they have at most 18 digits each and their sum is no more than MaxInt,  *)
(* and fails on any other.                                                 *)
THEOREM ParseDurationIsExact ==
    ASSUME NEW chunks \in Chunks
    PROVE  ParseDuration(chunks)
              = IF chunks # << >> /\ Proper(chunks) /\ TotalOf(chunks) <= MaxInt
                THEN TotalOf(chunks) ELSE Failure
<1> DEFINE N == Len(chunks)
           in == [i \in 1..N |-> In(chunks, i)]
           Fit(i) == /\ chunks[i].n <= MaxNumber
                     /\ i > 1 => Rank[chunks[i].unit] < Rank[chunks[i - 1].unit]
           fits == [i \in 1..N |-> Fit(i)]
<1>1. N \in Nat /\ DOMAIN chunks = 1..N /\ in \in [1..N -> Nat]
  BY ChunkFacts DEF In
<1>2. fits \in [1..N -> BOOLEAN]
  OBVIOUS
<1>3. PICK t \in [0..N -> Nat \cup {Failure}] :
              /\ t[0] = 0
              /\ \A i \in 1..N : t[i] = AddChunk(t[i - 1], chunks, i)
              /\ chunks # << >> => ParseDuration(chunks) = t[N]
  BY LoopOf
<1>4. PICK s \in [0..N -> Nat] :
              /\ s[0] = 0
              /\ \A i \in 1..N : s[i] = s[i - 1] + In(chunks, i)
              /\ TotalOf(chunks) = s[N]
  BY SumsOf
<1>5. (\A i \in 1..N : fits[i]) <=> Proper(chunks)
  <2>1. (\A i \in 1..N : fits[i])
           <=> Descends(chunks) /\ \A i \in 1..N : chunks[i].n <= MaxNumber
    BY DEF Descends
  <2> HIDE DEF N, fits
  <2> QED BY <1>1, <2>1, DescendsAtOnce DEF Proper
<1>6. chunks = << >> => ParseDuration(chunks) = Failure
  BY DEF ParseDuration
<1> HIDE DEF N
<1>7. ASSUME NEW i \in 1..N
      PROVE  t[i] = IF t[i - 1] # Failure /\ fits[i] /\ t[i - 1] + in[i] <= MaxInt
                    THEN t[i - 1] + in[i] ELSE Failure
  <2>1. i - 1 \in 0..N
    BY <1>1
  <2>2. t[i - 1] \in Nat \cup {Failure}
    BY <2>1
  <2>3. t[i] = IF Adds(t[i - 1], chunks, i)
               THEN t[i - 1] + chunks[i].n * Weight[chunks[i].unit] ELSE Failure
    BY <1>1, <1>3, <2>2, PassOfLoop
  <2>4. in[i] = chunks[i].n * Weight[chunks[i].unit]
    BY DEF In
  <2>5. fits[i] = Fit(i)
    OBVIOUS
  <2>6. Adds(t[i - 1], chunks, i) <=> t[i - 1] # Failure /\ fits[i] /\ t[i - 1] + in[i] <= MaxInt
    <3> HIDE DEF fits, in
    <3> QED BY <2>4, <2>5 DEF Adds
  <2> HIDE DEF fits, in, Fit
  <2> QED BY <2>3, <2>4, <2>6
<1>8. \A i \in 1..N : s[i] = s[i - 1] + in[i]
  BY <1>4
<1>9. t[N] = IF AllFit(fits, N) /\ s[N] <= MaxInt THEN s[N] ELSE Failure
  <2>1. RunsOver(t, N, fits, in) /\ SumsUp(s, N, in)
    BY <1>3, <1>4, <1>7, <1>8 DEF RunsOver, SumsUp
  <2> HIDE DEF fits, in
  <2>2. /\ N \in Nat /\ fits \in [1..N -> BOOLEAN] /\ in \in [1..N -> Nat]
        /\ t \in [0..N -> Nat \cup {Failure}] /\ s \in [0..N -> Nat]
    BY <1>1, <1>2
  <2> QED BY <2>1, <2>2, LoopAndSums
<1> HIDE DEF fits
<1> QED BY <1>3, <1>4, <1>5, <1>6, <1>9 DEF AllFit

(* What format_duration writes: one number after the other.                *)
LEMMA SameSums ==
    ASSUME NEW N \in Nat, NEW M \in Nat, N <= M, NEW in \in [1..M -> Nat],
           NEW s \in [0..N -> Nat], NEW t \in [0..M -> Nat],
           SumsUp(s, N, in), SumsUp(t, M, in)
    PROVE  s[N] = t[N]
<1> DEFINE S == {k \in 0..N : s[k] = t[k]}
<1>1. /\ s[0] = 0 /\ \A i \in 1..N : s[i] = s[i - 1] + in[i]
      /\ t[0] = 0 /\ \A i \in 1..M : t[i] = t[i - 1] + in[i]
  BY DEF SumsUp
<1>2. 0 \in S
  BY <1>1
<1>3. ASSUME NEW k \in 0..(N - 1), k \in S
      PROVE  k + 1 \in S
  <2>1. k + 1 \in 1..N /\ k + 1 \in 1..M /\ (k + 1) - 1 = k
    OBVIOUS
  <2>2. s[k + 1] = s[k] + in[k + 1] /\ t[k + 1] = t[k] + in[k + 1]
    BY <1>1, <2>1
  <2> QED BY <1>3, <2>1, <2>2
<1>4. \A k \in 0..N : k \in S
  <2>1. \A k \in 0..(N - 1) : k \in S => k + 1 \in S
    BY <1>3
  <2> HIDE DEF S
  <2> QED BY <1>2, <2>1, InductionUpTo
<1> QED BY <1>4

(* The sums of the reference, in the form of LoopAndSums.                  *)
LEMMA ChunksSumUp ==
    ASSUME NEW chunks \in Chunks
    PROVE  \E s \in [0..Len(chunks) -> Nat] :
              /\ SumsUp(s, Len(chunks), [i \in 1..Len(chunks) |-> In(chunks, i)])
              /\ TotalOf(chunks) = s[Len(chunks)]
<1> DEFINE N == Len(chunks)
           in == [i \in 1..N |-> In(chunks, i)]
<1>1. PICK s \in [0..N -> Nat] :
              /\ s[0] = 0
              /\ \A i \in 1..N : s[i] = s[i - 1] + In(chunks, i)
              /\ TotalOf(chunks) = s[N]
  BY SumsOf
<1>2. SumsUp(s, N, in)
  <2> HIDE DEF N
  <2> QED BY <1>1 DEF SumsUp
<1>3. s \in [0..N -> Nat] /\ SumsUp(s, N, in) /\ TotalOf(chunks) = s[N]
  <2> HIDE DEF N
  <2> QED BY <1>1, <1>2
<1> QED BY <1>3, Zenon

LEMMA TotalOfNothing == << >> \in Chunks /\ TotalOf(<< >>) = 0 /\ Proper(<< >>)
<1>1. << >> \in Chunks /\ Len(<< >>) = 0
  BY EmptySeq DEF Chunks
<1>2. PICK s \in [0..0 -> Nat] : s[0] = 0 /\ TotalOf(<< >>) = s[0]
  BY <1>1, SumsOf
<1> QED BY <1>1, <1>2 DEF Proper, Decreasing

LEMMA TotalOfAppend ==
    ASSUME NEW chunks \in Chunks, NEW c \in [n : Nat, unit : Units]
    PROVE  /\ Append(chunks, c) \in Chunks
           /\ TotalOf(chunks) \in Nat
           /\ TotalOf(Append(chunks, c)) = TotalOf(chunks) + c.n * Weight[c.unit]
<1> DEFINE longer == Append(chunks, c)
           N == Len(chunks)
           M == N + 1
           L == Len(longer)
           inN == [i \in 1..N |-> In(chunks, i)]
           inM == [i \in 1..L |-> In(longer, i)]
<1>1. /\ longer \in Chunks /\ N \in Nat /\ L = M
      /\ \A i \in 1..N : longer[i] = chunks[i]
      /\ longer[M] = c
  BY AppendProperties, LenProperties DEF Chunks
<1>2. PICK s \in [0..N -> Nat] : SumsUp(s, N, inN) /\ TotalOf(chunks) = s[N]
  BY ChunksSumUp, Zenon
<1> HIDE DEF longer
<1>3. PICK t \in [0..L -> Nat] : SumsUp(t, L, inM) /\ TotalOf(longer) = t[L]
  BY <1>1, ChunksSumUp, Zenon
<1> HIDE DEF N, L
<1>4. \A i \in 1..N : In(chunks, i) = In(longer, i)
  BY <1>1 DEF In
<1>5. inM \in [1..L -> Nat]
  <2>1. \A i \in DOMAIN longer : In(longer, i) \in Nat
    BY <1>1, ChunkFacts DEF In
  <2>2. DOMAIN longer = 1..L
    BY <1>1, ChunkFacts DEF L
  <2> QED BY <2>1, <2>2
<1>6. SumsUp(s, N, inM)
  <2>1. \A i \in 1..N : inM[i] = inN[i]
    BY <1>1, <1>4
  <2> HIDE DEF inM, inN
  <2> QED BY <1>2, <2>1 DEF SumsUp
<1>7. s[N] = t[N]
  <2> HIDE DEF inM
  <2>1. N <= L /\ L \in Nat
    BY <1>1
  <2> QED BY <1>1, <1>3, <1>5, <1>6, <2>1, SameSums
<1>8. t[L] = t[N] + In(longer, M)
  <2>1. M \in 1..L /\ M - 1 = N /\ inM[M] = In(longer, M)
    BY <1>1
  <2> HIDE DEF inM, M
  <2> QED BY <1>1, <1>3, <2>1 DEF SumsUp
<1>9. In(longer, M) = c.n * Weight[c.unit]
  BY <1>1 DEF In
<1>10. s[N] \in Nat
  BY <1>1
<1> HIDE DEF M
<1> QED BY <1>1, <1>2, <1>3, <1>7, <1>8, <1>9, <1>10 DEF longer

(* A text of numbers no lower than a rank, for so many seconds.            *)
WrittenDownTo(rank, chunks, total) ==
    /\ chunks \in Chunks /\ Proper(chunks)
    /\ TotalOf(chunks) = total
    /\ \A i \in DOMAIN chunks : Rank[chunks[i].unit] >= rank

LEMMA PartWrites ==
    ASSUME NEW rank \in Nat, NEW chunks, NEW total \in Nat, WrittenDownTo(rank, chunks, total),
           NEW unit \in Units, Rank[unit] < rank, NEW n \in 0..MaxNumber
    PROVE  WrittenDownTo(Rank[unit], chunks \o Part(n, unit), total + n * Weight[unit])
<1> DEFINE c == [n |-> n, unit |-> unit]
           longer == Append(chunks, c)
           N == Len(chunks)
<1>1. chunks \in Chunks /\ Proper(chunks) /\ TotalOf(chunks) = total
      /\ \A i \in DOMAIN chunks : Rank[chunks[i].unit] >= rank
  BY DEF WrittenDownTo
<1>2. Weight[unit] \in Nat /\ Rank[unit] \in Nat /\ n \in Nat /\ MaxNumber \in Nat
  BY UnitFacts, LengthsOfUnits
<1>3. CASE n = 0
  <2>1. chunks \o Part(n, unit) = chunks
    BY <1>1, <1>3, ConcatEmptySeq DEF Part, Chunks
  <2>2. total + n * Weight[unit] = total
    <3>1. \A w \in Nat : 0 * w = 0
      OBVIOUS
    <3>2. n * Weight[unit] = 0
      BY <1>2, <1>3, <3>1, Zenon
    <3> QED BY <3>2
  <2>3. \A i \in DOMAIN chunks : Rank[chunks[i].unit] \in Nat
    BY <1>1, ChunkFacts
  <2>4. \A i \in DOMAIN chunks : Rank[chunks[i].unit] >= Rank[unit]
    BY <1>1, <1>2, <2>3
  <2> QED BY <1>1, <2>1, <2>2, <2>4 DEF WrittenDownTo
<1>4. CASE n > 0
  <2>1. c \in [n : Nat, unit : Units] /\ c.n = n /\ c.unit = unit
    BY <1>2
  <2> HIDE DEF c
  <2>2. chunks \o Part(n, unit) = longer
    <3>1. Part(n, unit) = <<c>>
      BY <1>4 DEF Part, c
    <3> QED BY <1>1, <2>1, <3>1, AppendIsConcat DEF Chunks
  <2>3. longer \in Chunks /\ TotalOf(longer) = total + n * Weight[unit]
    BY <1>1, <2>1, TotalOfAppend
  <2>4. /\ N \in Nat /\ DOMAIN chunks = 1..N /\ DOMAIN longer = 1..(N + 1)
        /\ \A i \in 1..N : longer[i] = chunks[i]
        /\ longer[N + 1] = c
    BY <1>1, <2>1, AppendProperties, LenProperties DEF Chunks
  <2> HIDE DEF longer, N
  <2>5. \A i \in 1..N : Rank[longer[i].unit] \in Nat /\ Rank[longer[i].unit] >= rank
    <3>1. \A i \in DOMAIN chunks : Rank[chunks[i].unit] \in 1..4
      BY <1>1, ChunkFacts
    <3> QED BY <1>1, <2>4, <3>1
  <2>6. \A i \in 1..(N + 1) : i \in 1..N \/ i = N + 1
    BY <2>4
  <2>7. \A i \in DOMAIN longer : longer[i].n <= MaxNumber
    BY <1>1, <1>2, <2>1, <2>4, <2>6 DEF Proper
  <2>8. \A i \in DOMAIN longer : Rank[longer[i].unit] >= Rank[unit]
    BY <1>2, <2>1, <2>4, <2>5, <2>6
  <2>9. Decreasing(longer)
    <3> SUFFICES ASSUME NEW i \in 1..(N + 1), NEW j \in 1..(N + 1), i < j
                 PROVE  Rank[longer[i].unit] > Rank[longer[j].unit]
      BY <2>4 DEF Decreasing
    <3>1. i \in 1..N
      BY <2>4
    <3>2. CASE j \in 1..N
      BY <1>1, <2>4, <3>1, <3>2 DEF Proper, Decreasing
    <3>3. CASE j = N + 1
      <4>1. Rank[longer[j].unit] = Rank[unit]
        BY <2>1, <2>4, <3>3
      <4> QED BY <1>2, <2>5, <3>1, <4>1
    <3> QED BY <2>6, <3>2, <3>3
  <2> QED BY <2>2, <2>3, <2>7, <2>8, <2>9 DEF WrittenDownTo, Proper
<1> QED BY <1>2, <1>3, <1>4

(* The parts of a number of seconds, each with at most 18 digits.          *)
LEMMA PartsOfDuration ==
    ASSUME NEW n \in 0..MaxInt
    PROVE  LET sod == Rem(n, Day)
               soh == Rem(sod, Hour)
           IN  /\ Quot(n, Day) \in 0..MaxNumber /\ Quot(sod, Hour) \in 0..MaxNumber
               /\ Quot(soh, Seconds) \in 0..MaxNumber /\ Rem(soh, Seconds) \in 0..MaxNumber
               /\ n = Quot(n, Day) * Day + Quot(sod, Hour) * Hour
                         + Quot(soh, Seconds) * Seconds + Rem(soh, Seconds)
<1> DEFINE days == Quot(n, Day)
           sod  == Rem(n, Day)
           soh  == Rem(sod, Hour)
<1>1. /\ MaxInt \in Nat /\ n \in Nat /\ n <= MaxInt /\ Day \in Nat \ {0}
      /\ Hour \in Nat \ {0} /\ Seconds \in Nat \ {0} /\ Minutes \in Nat \ {0}
      /\ Hours \in Nat \ {0} /\ MaxNumber \in Nat
  BY LengthsOfUnits
<1>2. sod \in 0..(Day - 1) /\ sod \in Nat /\ n = Day * days + sod /\ days \in Int
  BY <1>1, QuotAndRem
<1> HIDE DEF days, sod
<1>3. soh \in Nat /\ sod = Hour * Quot(sod, Hour) + soh
  BY <1>1, <1>2, QuotAndRem
<1>4. Quot(sod, Hour) \in 0..(Hours - 1) /\ Quot(soh, Seconds) \in 0..(Minutes - 1)
  BY <1>2, ClockOf
<1> HIDE DEF soh
<1>5. Rem(soh, Seconds) \in 0..(Seconds - 1) /\ soh = Seconds * Quot(soh, Seconds) + Rem(soh, Seconds)
  BY <1>1, <1>3, QuotAndRem
<1>6. days \in 0..(MaxInt \div Day)
  <2>1. MaxInt \div Day \in Int /\ MaxInt % Day \in 0..(Day - 1)
        /\ MaxInt = Day * (MaxInt \div Day) + (MaxInt % Day)
    BY <1>1, DivMod
  <2> DEFINE q == MaxInt \div Day
             r == MaxInt % Day
  <2> HIDE DEF q, r
  <2>2. q \in Int /\ r \in 0..(Day - 1) /\ MaxInt = Day * q + r
    BY <2>1 DEF q, r
  <2>3. days <= q
    <3>1. ASSUME days >= q + 1
          PROVE  FALSE
      <4>1. Day * days >= Day * (q + 1)
        BY <1>1, <1>2, <2>2, <3>1
      <4>2. Day * (q + 1) = Day * q + Day
        BY <1>1, <2>2
      <4>3. Day * days \in Int /\ Day * q \in Int
        BY <1>1, <1>2, <2>2
      <4> QED BY <1>1, <1>2, <2>2, <4>1, <4>2, <4>3
    <3> QED BY <1>2, <2>2, <3>1
  <2>4. days >= 0
    <3>1. ASSUME days <= -1
          PROVE  FALSE
      <4>1. Day * days <= -Day
        BY <1>1, <1>2, <3>1
      <4>2. Day * days \in Int
        BY <1>1, <1>2
      <4> QED BY <1>1, <1>2, <4>1, <4>2
    <3> QED BY <1>2, <3>1
  <2> QED BY <1>2, <2>2, <2>3, <2>4 DEF q
<1>7. /\ Hours <= MaxNumber /\ Minutes <= MaxNumber /\ Seconds <= MaxNumber
      /\ MaxInt \div Day <= MaxNumber /\ MaxInt \div Day \in Int
  BY DigitsAssumption, <1>1
<1>8. /\ days \in 0..MaxNumber /\ Quot(sod, Hour) \in 0..MaxNumber
      /\ Quot(soh, Seconds) \in 0..MaxNumber /\ Rem(soh, Seconds) \in 0..MaxNumber
  BY <1>1, <1>4, <1>5, <1>6, <1>7
<1>9. n = days * Day + Quot(sod, Hour) * Hour + Quot(soh, Seconds) * Seconds + Rem(soh, Seconds)
  <2>1. Day * days = days * Day /\ Hour * Quot(sod, Hour) = Quot(sod, Hour) * Hour
        /\ Seconds * Quot(soh, Seconds) = Quot(soh, Seconds) * Seconds
    BY <1>1, <1>2, <1>8
  <2> DEFINE a == days * Day
             b == Quot(sod, Hour) * Hour
             c == Quot(soh, Seconds) * Seconds
  <2>2. a \in Int /\ b \in Int /\ c \in Int /\ Rem(soh, Seconds) \in Int
    BY <1>1, <1>8
  <2>3. n = a + sod /\ sod = b + soh /\ soh = c + Rem(soh, Seconds)
    BY <1>2, <1>3, <1>5, <2>1
  <2> HIDE DEF a, b, c
  <2>4. n = a + b + c + Rem(soh, Seconds)
    BY <1>1, <1>2, <1>3, <2>2, <2>3
  <2> QED BY <2>4 DEF a, b, c
<1> QED BY <1>8, <1>9 DEF days, sod, soh

(* What format_duration writes of any number of seconds, parse_duration    *)
(* reads as that number.                                                   *)
THEOREM FormatRoundTrip ==
    ASSUME NEW n \in 0..MaxInt
    PROVE  FormatDuration(n) \in Chunks /\ ParseDuration(FormatDuration(n)) = n
<1> DEFINE text == FormatDuration(n)
           sod  == Rem(n, Day)
           soh  == Rem(sod, Hour)
           d == Quot(n, Day)
           h == Quot(sod, Hour)
           m == Quot(soh, Seconds)
           s == Rem(soh, Seconds)
<1>1. /\ "d" \in Units /\ "h" \in Units /\ "m" \in Units /\ "s" \in Units
      /\ Rank["d"] = 4 /\ Rank["h"] = 3 /\ Rank["m"] = 2 /\ Rank["s"] = 1
      /\ Weight["d"] = Day /\ Weight["h"] = Hour /\ Weight["m"] = Seconds /\ Weight["s"] = 1
  BY DEF Units, Rank, Weight
<1>2. text \in Chunks /\ Proper(text) /\ text # << >> /\ TotalOf(text) = n
  <2>1. CASE n = 0
    <3> DEFINE c == [n |-> 0, unit |-> "s"]
    <3>1. c \in [n : Nat, unit : Units] /\ c.n = 0 /\ c.unit = "s"
      BY <1>1
    <3>2. text = <<c>>
      BY <2>1 DEF FormatDuration
    <3> HIDE DEF c
    <3>3. text = Append(<< >>, c) /\ text # << >> /\ DOMAIN text = {1} /\ text[1] = c
      BY <3>2
    <3> HIDE DEF text
    <3>4. text \in Chunks /\ TotalOf(text) = 0
      <4>1. c.n * Weight[c.unit] = 0
        BY <1>1, <3>1
      <4>2. << >> \in Chunks /\ TotalOf(<< >>) = 0
        BY TotalOfNothing
      <4> DEFINE none == << >>
      <4>3. none \in Chunks /\ TotalOf(none) = 0 /\ text = Append(none, c)
        BY <3>3, <4>2
      <4> HIDE DEF none
      <4>4. text \in Chunks /\ TotalOf(text) = TotalOf(none) + c.n * Weight[c.unit]
        BY <3>1, <4>3, TotalOfAppend
      <4> QED BY <4>1, <4>3, <4>4
    <3>5. Proper(text)
      BY <3>1, <3>3, LengthsOfUnits DEF Proper, Decreasing
    <3> QED BY <2>1, <3>3, <3>4, <3>5
  <2>2. CASE n # 0
    <3>1. /\ d \in 0..MaxNumber /\ h \in 0..MaxNumber /\ m \in 0..MaxNumber /\ s \in 0..MaxNumber
          /\ n = d * Day + h * Hour + m * Seconds + s
      BY PartsOfDuration
    <3>2. text = ((Part(d, "d") \o Part(h, "h")) \o Part(m, "m")) \o Part(s, "s")
      BY <2>2 DEF FormatDuration
    <3> HIDE DEF text, d, h, m, s
    <3>3. /\ d * Day \in Nat /\ h * Hour \in Nat /\ m * Seconds \in Nat /\ s * 1 = s
          /\ d \in Nat /\ h \in Nat /\ m \in Nat /\ s \in Nat
      BY <3>1, LengthsOfUnits
    <3>4. << >> \o Part(d, "d") = Part(d, "d")
      <4>1. Part(d, "d") \in Seq([n : Nat, unit : Units])
        <5>1. [n |-> d, unit |-> "d"] \in [n : Nat, unit : Units]
          BY <1>1, <3>3
        <5> DEFINE c == [n |-> d, unit |-> "d"]
        <5> HIDE DEF c
        <5>2. << >> \in Seq([n : Nat, unit : Units]) /\ <<c>> \in Seq([n : Nat, unit : Units])
          BY <5>1 DEF c
        <5> QED BY <5>2 DEF Part, c
      <4> QED BY <4>1, ConcatEmptySeq
    <3>5. WrittenDownTo(5, << >>, 0)
      BY TotalOfNothing DEF WrittenDownTo
    <3>6. WrittenDownTo(4, Part(d, "d"), d * Day)
      <4>1. WrittenDownTo(Rank["d"], << >> \o Part(d, "d"), 0 + d * Weight["d"])
        <5> DEFINE none == << >>
                   zero == 0
                   five == 5
        <5>1. WrittenDownTo(five, none, zero) /\ five \in Nat /\ zero \in Nat /\ Rank["d"] < five
          BY <1>1, <3>5
        <5> HIDE DEF none, zero, five
        <5>2. WrittenDownTo(Rank["d"], none \o Part(d, "d"), zero + d * Weight["d"])
          BY <1>1, <3>1, <5>1, PartWrites
        <5> QED BY <5>2 DEF none, zero
      <4> QED BY <1>1, <3>3, <3>4, <4>1
    <3>7. WrittenDownTo(3, Part(d, "d") \o Part(h, "h"), d * Day + h * Hour)
      BY <1>1, <3>1, <3>3, <3>6, PartWrites
    <3>8. WrittenDownTo(2, (Part(d, "d") \o Part(h, "h")) \o Part(m, "m"),
                        d * Day + h * Hour + m * Seconds)
      <4>1. d * Day + h * Hour \in Nat
        BY <3>3
      <4> QED BY <1>1, <3>1, <3>7, <4>1, PartWrites
    <3>9. WrittenDownTo(1, text, n)
      <4>1. d * Day + h * Hour + m * Seconds \in Nat
        BY <3>3
      <4>2. WrittenDownTo(1, text, d * Day + h * Hour + m * Seconds + s * 1)
        <5>1. "s" \in Units /\ Rank["s"] = 1 /\ Weight["s"] = 1 /\ Rank["s"] < 2 /\ 2 \in Nat
          BY <1>1
        <5>2. WrittenDownTo(Rank["s"], text, d * Day + h * Hour + m * Seconds + s * Weight["s"])
          BY <3>1, <3>2, <3>8, <4>1, <5>1, PartWrites, Zenon
        <5> QED BY <5>1, <5>2, Zenon
      <4>3. d * Day + h * Hour + m * Seconds + s * 1 = n
        BY <3>1, <3>3, Zenon
      <4> QED BY <4>2, <4>3, Zenon
    <3> QED BY <2>2, <3>9, TotalOfNothing DEF WrittenDownTo
  <2> QED BY <2>1, <2>2
<1> HIDE DEF text
<1>3. n <= MaxInt
  BY LengthsOfUnits
<1> QED BY <1>2, <1>3, ParseDurationIsExact DEF text

WInv == written \in Chunks

(* Of whatever is written number by number, parse_duration and             *)
(* format_duration keep what DurationsAreExact says.                       *)
THEOREM DurationsAreExactHolds == WriteSpec => []DurationsAreExact
<1>1. WriteInit => WInv
  BY TotalOfNothing DEF WriteInit, WInv
<1>2. WInv /\ [WriteChunk]_written => WInv'
  <2> SUFFICES ASSUME written \in Chunks, [WriteChunk]_written
               PROVE  written' \in Chunks
    BY DEF WInv
  <2>1. CASE WriteChunk
    <3>1. PICK n \in Numbers, unit \in Units : written' = Append(written, [n |-> n, unit |-> unit])
      BY <2>1 DEF WriteChunk
    <3>2. [n |-> n, unit |-> unit] \in [n : Nat, unit : Units]
      BY NumbersAssumption
    <3> QED BY <3>1, <3>2, AppendProperties DEF Chunks
  <2>2. CASE UNCHANGED written
    BY <2>2
  <2> QED BY <2>1, <2>2
<1>3. WInv => DurationsAreExact
  <2> SUFFICES ASSUME written \in Chunks
               PROVE  DurationsAreExact
    BY DEF WInv
  <2>1. TotalOf(written) \in Nat
    <3>1. [n |-> 0, unit |-> "s"] \in [n : Nat, unit : Units]
      BY DEF Units
    <3> QED BY <3>1, TotalOfAppend
  <2>2. ParseDuration(written)
           = IF written # << >> /\ Proper(written) /\ TotalOf(written) <= MaxInt
             THEN TotalOf(written) ELSE Failure
    BY ParseDurationIsExact
  <2>3. TotalOf(written) # Failure
    BY <2>1 DEF Failure
  <2>4. ParseDuration(written) # Failure =>
           /\ ParseDuration(written) = TotalOf(written)
           /\ ParseDuration(FormatDuration(ParseDuration(written))) = ParseDuration(written)
    <3>1. MaxInt \in Nat
      BY LengthsOfUnits
    <3>2. ParseDuration(written) # Failure => TotalOf(written) \in 0..MaxInt
      BY <2>1, <2>2, <3>1
    <3> QED BY <2>2, <3>2, FormatRoundTrip
  <2> QED BY <2>2, <2>3, <2>4 DEF DurationsAreExact, Proper
<1> QED BY <1>1, <1>2, <1>3, PTL DEF WriteSpec

-----------------------------------------------------------------------------
(* Sequences, for what follows: all but the last of one, and its first k.   *)
LEMMA FrontFacts ==
    ASSUME NEW S, NEW s \in Seq(S), s # << >>
    PROVE  /\ Front(s) \in Seq(S) /\ Len(Front(s)) = Len(s) - 1 /\ Len(s) \in Nat \ {0}
           /\ \A i \in 1..(Len(s) - 1) : Front(s)[i] = s[i]
           /\ Last(s) = s[Len(s)] /\ Last(s) \in S
<1>1. Len(s) \in Nat \ {0} /\ \A i \in 1..Len(s) : s[i] \in S
  OBVIOUS
<1>2. Front(s) = SubSeq(s, 1, Len(s) - 1) /\ Last(s) = s[Len(s)]
  BY DEF Front, Last
<1>3. Len(s) - 1 \in 0..Len(s) /\ Len(s) \in 1..Len(s)
  BY <1>1
<1>4. /\ Front(s) \in Seq(S) /\ Len(Front(s)) = Len(s) - 1
      /\ \A i \in 1..(Len(s) - 1) : Front(s)[i] = s[i]
  <2> DEFINE n == Len(s) - 1
  <2>1. n \in Int /\ 1 \in Int /\ (\A i \in 1..n : s[i] \in S) /\ n - 1 + 1 = n
    BY <1>1
  <2>2. /\ SubSeq(s, 1, n) \in Seq(S) /\ Len(SubSeq(s, 1, n)) = IF 1 <= n THEN n - 1 + 1 ELSE 0
        /\ \A i \in 1..(n - 1 + 1) : SubSeq(s, 1, n)[i] = s[1 + i - 1]
    <3> HIDE DEF n
    <3> QED BY <2>1, SubSeqProperties
  <2>3. \A i \in 1..n : 1 + i - 1 = i
    OBVIOUS
  <2> QED BY <1>1, <1>2, <2>1, <2>2, <2>3
<1> QED BY <1>1, <1>2, <1>3, <1>4

(* The first k of a sequence.                                              *)
LEMMA HeadOf ==
    ASSUME NEW S, NEW s \in Seq(S), NEW k \in 0..Len(s)
    PROVE  /\ SubSeq(s, 1, k) \in Seq(S) /\ Len(SubSeq(s, 1, k)) = k
           /\ \A i \in 1..k : SubSeq(s, 1, k)[i] = s[i]
           /\ k >= 1 => /\ SubSeq(s, 1, k) # << >> /\ Front(SubSeq(s, 1, k)) = SubSeq(s, 1, k - 1)
                        /\ Last(SubSeq(s, 1, k)) = s[k]
                        /\ SubSeq(s, 1, k) = Append(SubSeq(s, 1, k - 1), s[k])
<1>1. ASSUME NEW m \in 0..Len(s)
      PROVE  /\ SubSeq(s, 1, m) \in Seq(S) /\ Len(SubSeq(s, 1, m)) = m
             /\ \A i \in 1..m : SubSeq(s, 1, m)[i] = s[i]
  <2>1. m \in Int /\ 1 \in Int /\ (\A i \in 1..m : s[i] \in S) /\ m - 1 + 1 = m /\ (~(1 <= m) => m = 0)
    OBVIOUS
  <2>2. /\ SubSeq(s, 1, m) \in Seq(S) /\ Len(SubSeq(s, 1, m)) = IF 1 <= m THEN m - 1 + 1 ELSE 0
        /\ \A i \in 1..(m - 1 + 1) : SubSeq(s, 1, m)[i] = s[1 + i - 1]
    BY <2>1, SubSeqProperties
  <2>3. \A i \in 1..m : 1 + i - 1 = i
    OBVIOUS
  <2> QED BY <2>1, <2>2, <2>3
<1>2. ASSUME k >= 1
      PROVE  /\ SubSeq(s, 1, k) # << >> /\ Front(SubSeq(s, 1, k)) = SubSeq(s, 1, k - 1)
             /\ Last(SubSeq(s, 1, k)) = s[k]
             /\ SubSeq(s, 1, k) = Append(SubSeq(s, 1, k - 1), s[k])
  <2> DEFINE a == SubSeq(s, 1, k)
             b == SubSeq(s, 1, k - 1)
  <2>1. k \in 1..Len(s) /\ k - 1 \in 0..Len(s) /\ k \in Nat
    BY <1>2
  <2>2. /\ a \in Seq(S) /\ Len(a) = k /\ \A i \in 1..k : a[i] = s[i]
        /\ b \in Seq(S) /\ Len(b) = k - 1 /\ \A i \in 1..(k - 1) : b[i] = s[i]
    BY <1>1, <2>1
  <2> HIDE DEF a, b
  <2>3. a # << >>
    BY <2>1, <2>2
  <2>4. Last(a) = s[k]
    <3>1. Last(a) = a[Len(a)]
      BY DEF Last
    <3>2. k \in 1..k
      BY <2>1
    <3> QED BY <3>1, <3>2, <2>2
  <2>5. Front(a) = b
    <3>1. Front(a) \in Seq(S) /\ Len(Front(a)) = k - 1 /\ \A i \in 1..(k - 1) : Front(a)[i] = a[i]
      BY <2>2, <2>3, FrontFacts
    <3>2. ASSUME NEW i \in 1..(k - 1)
          PROVE  Front(a)[i] = b[i]
      <4>1. i \in 1..k
        BY <2>1
      <4>2. Front(a)[i] = a[i]
        BY <3>1
      <4>3. a[i] = s[i] /\ b[i] = s[i]
        BY <4>1, <2>2
      <4> QED BY <4>2, <4>3
    <3> QED BY <3>1, <3>2, <2>2, SeqEqual
  <2>6. a = Append(b, s[k])
    <3>1. s[k] \in S
      BY <2>1
    <3>2. Append(b, s[k]) \in Seq(S) /\ Len(Append(b, s[k])) = k
          /\ \A i \in 1..k : Append(b, s[k])[i] = IF i = k THEN s[k] ELSE b[i]
      BY <3>1, <2>1, <2>2
    <3>3. \A i \in 1..k : Append(b, s[k])[i] = a[i]
      BY <3>2, <2>1, <2>2
    <3> QED BY <3>2, <3>3, <2>2, SeqEqual
  <2> QED BY <2>3, <2>4, <2>5, <2>6 DEF a, b
<1> QED BY <1>1, <1>2

(* A set of paths that has with each what is above it.                     *)
LEMMA HeadIn ==
    ASSUME NEW S, NEW D \in SUBSET Seq(S), \A p \in D : p # << >> => Front(p) \in D,
           NEW p \in D, NEW k \in 0..Len(p)
    PROVE  SubSeq(p, 1, k) \in D
<1>1. p \in Seq(S) /\ Len(p) \in Nat
  OBVIOUS
<1> DEFINE N == Len(p)
           T == {i \in 0..N : SubSeq(p, 1, N - i) \in D}
<1>2. 0 \in T
  <2>1. SubSeq(p, 1, N) = p
    <3>1. SubSeq(p, 1, N) \in Seq(S) /\ Len(SubSeq(p, 1, N)) = N /\ \A i \in 1..N : SubSeq(p, 1, N)[i] = p[i]
      BY <1>1, HeadOf
    <3> QED BY <1>1, <3>1, SeqEqual
  <2>2. 0 \in 0..N /\ N - 0 = N
    BY <1>1
  <2> HIDE DEF N
  <2> QED BY <2>1, <2>2
<1>3. ASSUME NEW i \in 0..(N - 1), i \in T
      PROVE  i + 1 \in T
  <2>1. N - i \in 1..N /\ (N - i) - 1 = N - (i + 1) /\ i + 1 \in 0..N
    BY <1>1
  <2> DEFINE m == N - i
             q == SubSeq(p, 1, m)
  <2>2. q # << >> /\ Front(q) = SubSeq(p, 1, m - 1)
    <3>1. m \in 0..Len(p) /\ m >= 1
      BY <2>1
    <3> HIDE DEF m
    <3> QED BY <1>1, <3>1, HeadOf
  <2>3. q \in D
    BY <1>3
  <2>4. Front(q) \in D
    BY <2>2, <2>3
  <2> QED BY <2>1, <2>2, <2>4
<1>4. N - k \in T
  <2>1. \A i \in 0..N : i \in T
    <3> HIDE DEF T
    <3> QED BY <1>1, <1>2, <1>3, InductionUpTo
  <2> HIDE DEF T
  <2> QED BY <1>1, <2>1
<1>5. N - (N - k) = k
  BY <1>1
<1> QED BY <1>1, <1>4, <1>5

(* The largest of some numbers up to n.                                    *)
LEMMA MaxOf ==
    ASSUME NEW n \in Nat, NEW S \in SUBSET (1..n), S # {}
    PROVE  Max(S) \in S /\ \A x \in S : x <= Max(S)
<1> DEFINE T == {n - x : x \in S}
<1>1. T \in SUBSET Nat /\ T # {}
  OBVIOUS
<1>2. PICK y \in T : \A z \in T : y <= z
  <2> HIDE DEF T
  <2> QED BY <1>1, LeastExists
<1>3. n - y \in S /\ \A x \in S : n - y >= x
  BY <1>2
<1>4. \E x \in S : \A z \in S : x >= z
  BY <1>3
<1>5. Max(S) \in S /\ \A z \in S : Max(S) >= z
  BY <1>4 DEF Max
<1> QED BY <1>5

-----------------------------------------------------------------------------
(***************************************************************************)
(* The third part: deepCopyTable copies any heap, also one with cycles and *)
(* with tables that several fields share.  Its calls wait for one another  *)
(* on a stack, so what is proved of them relates three things: the fields  *)
(* that each call has still to copy, the copies that are registered, and   *)
(* what the root leads to.                                                 *)
(***************************************************************************)
(* Deep copies.                                                            *)
Frames == [table : Tables, todo : SUBSET Fields, key : Fields \cup {Plain}]
CopiedTables == UNION {[S -> {Plain} \cup Nat] : S \in SUBSET Fields}

CopyTypeOK ==
    /\ heap \in Heaps /\ root \in Tables
    /\ calls \in Seq(Frames)
    /\ copies \in Seq(CopiedTables)
    /\ DOMAIN visited \subseteq Tables /\ visited \in [DOMAIN visited -> 1..Len(copies)]
    /\ outcome \in {"running", "ok", "too deep"}

(* Each copy is that of one table, and only what the root leads to is      *)
(* copied.                                                                 *)
NumberedInv ==
    /\ root \in DOMAIN visited /\ DOMAIN visited \subseteq Reachable
    /\ \A t, u \in DOMAIN visited : visited[t] = visited[u] => t = u
    /\ \A c \in 1..Len(copies) : \E t \in DOMAIN visited : visited[t] = c

(* The calls in progress are for tables that are registered, each for one, *)
(* and each for a field that its caller has still to set.                  *)
CallsInv ==
    /\ \A i \in 1..Len(calls) :
          calls[i].table \in DOMAIN visited /\ calls[i].todo \subseteq DOMAIN heap[calls[i].table]
    /\ \A i, j \in 1..Len(calls) : calls[i].table = calls[j].table => i = j
    /\ \A i \in 1..(Len(calls) - 1) :
          /\ calls[i + 1].key \in calls[i].todo
          /\ heap[calls[i].table][calls[i + 1].key] = calls[i + 1].table
    /\ outcome = "running" <=> calls # << >>

(* A field of a table that has a copy is copied, or is still to be by a    *)
(* call in progress.                                                       *)
Waits(t, k) == \E i \in 1..Len(calls) : calls[i].table = t /\ k \in calls[i].todo

IsCopied(t, k) ==
    LET f == heap[t][k]
        c == copies[visited[t]]
    IN  /\ k \in DOMAIN c
        /\ (f = Plain /\ c[k] = Plain) \/ (f \in DOMAIN visited /\ c[k] = visited[f])

FieldsInv ==
    \A t \in DOMAIN visited :
        /\ DOMAIN copies[visited[t]] \subseteq DOMAIN heap[t]
        /\ outcome # "too deep" => \A k \in DOMAIN heap[t] : Waits(t, k) \/ IsCopied(t, k)

DepthInv == outcome = "too deep" => Cardinality(Reachable) > MaxDepth

CopyInv == CopyTypeOK /\ NumberedInv /\ CallsInv /\ FieldsInv /\ DepthInv

-----------------------------------------------------------------------------
LEMMA HeapFacts ==
    ASSUME heap \in Heaps, NEW t \in Tables
    PROVE  /\ DOMAIN heap[t] \subseteq Fields
           /\ \A k \in DOMAIN heap[t] : heap[t][k] \in Tables \cup {Plain}
BY DEF Heaps

LEMMA ReachableFacts ==
    ASSUME heap \in Heaps, root \in Tables
    PROVE  /\ root \in Reachable /\ Reachable \subseteq Tables
           /\ \A t \in Reachable : \A k \in DOMAIN heap[t] :
                 heap[t][k] # Plain => heap[t][k] \in Reachable
           /\ \A S \in SUBSET Tables : root \in S /\ Closed(S) => Reachable \subseteq S
<1>1. root \in Reachable /\ Reachable \subseteq Tables
  BY DEF Reachable
<1>2. ASSUME NEW t \in Reachable, NEW k \in DOMAIN heap[t], heap[t][k] # Plain
      PROVE  heap[t][k] \in Reachable
  <2>1. heap[t][k] \in Tables
    BY <1>1, <1>2, HeapFacts
  <2>2. ASSUME NEW S \in SUBSET Tables, root \in S, Closed(S)
        PROVE  heap[t][k] \in S
    <3>1. t \in S
      BY <2>2 DEF Reachable
    <3> QED BY <3>1, <2>2, <1>2 DEF Closed
  <2> QED BY <2>1, <2>2 DEF Reachable
<1>3. ASSUME NEW S \in SUBSET Tables, root \in S, Closed(S)
      PROVE  Reachable \subseteq S
  BY <1>3 DEF Reachable
<1> QED BY <1>1, <1>2, <1>3

(* Only the heap and the root say what can be reached.                     *)
LEMMA SameReachable == UNCHANGED <<heap, root>> => Reachable' = Reachable
BY DEF Reachable, Closed

LEMMA CopyStarts == CopyInit => CopyInv
<1> SUFFICES ASSUME CopyInit PROVE CopyInv
  OBVIOUS
<1> USE DEF CopyInit, Call
<1>1. calls[1] = [table |-> root, todo |-> DOMAIN heap[root], key |-> Plain] /\ Len(calls) = 1
  OBVIOUS
<1>2. copies[1] = EmptyTable /\ Len(copies) = 1 /\ DOMAIN EmptyTable = {}
  BY DEF EmptyTable
<1>3. CopyTypeOK
  <2>1. calls[1] \in Frames
    BY <1>1, HeapFacts DEF Frames
  <2>2. EmptyTable \in CopiedTables
    <3>1. EmptyTable \in [{} -> {Plain} \cup Nat] /\ {} \in SUBSET Fields
      BY DEF EmptyTable
    <3> QED BY <3>1 DEF CopiedTables
  <2>3. calls \in Seq(Frames) /\ copies \in Seq(CopiedTables)
    BY <2>1, <2>2, <1>1
  <2> QED BY <2>3, <1>2 DEF CopyTypeOK
<1>4. NumberedInv
  BY <1>2, ReachableFacts DEF NumberedInv
<1>5. CallsInv
  BY <1>1 DEF CallsInv
<1>6. FieldsInv
  BY <1>1, <1>2 DEF FieldsInv, Waits
<1>7. DepthInv
  BY DEF DepthInv
<1> QED BY <1>3, <1>4, <1>5, <1>6, <1>7 DEF CopyInv

(* A field is set in the copy of the last call of the stack, those after   *)
(* it having nothing left to copy.                                         *)
LEMMA SetKeeps ==
    ASSUME CopyInv, outcome = "running",
           NEW stack \in Seq(Frames), stack # << >>, Len(stack) <= Len(calls),
           \A i \in 1..Len(stack) : stack[i] = calls[i],
           \A i \in 1..Len(calls) : i > Len(stack) => calls[i].todo = {},
           NEW k \in stack[Len(stack)].todo, NEW f, f = heap[stack[Len(stack)].table][k],
           NEW value, (f = Plain /\ value = Plain) \/ (f \in DOMAIN visited /\ value = visited[f]),
           Set(stack, k, value), UNCHANGED <<heap, root, visited, outcome>>
    PROVE  CopyInv'
<1> DEFINE n == Len(stack)
           t == stack[n].table
           c == visited[t]
<1>1. n \in 1..Len(calls) /\ n \in DOMAIN stack /\ n >= 1 /\ Len(calls) \in Nat
  BY DEF CopyInv, CopyTypeOK
<1>2. /\ t \in DOMAIN visited /\ t \in Tables /\ k \in DOMAIN heap[t] /\ k \in Fields
      /\ stack[n] = calls[n]
  <2>1. stack[n] = calls[n] /\ t \in DOMAIN visited /\ k \in DOMAIN heap[t]
    BY <1>1 DEF CopyInv, CallsInv
  <2> QED BY <2>1, HeapFacts DEF CopyInv, CopyTypeOK
<1>3. c \in 1..Len(copies) /\ copies \in Seq(CopiedTables)
  BY <1>2 DEF CopyInv, CopyTypeOK
<1>4. /\ copies' = [copies EXCEPT ![c] = SetTable(copies[c], k, value)]
      /\ calls' = [stack EXCEPT ![n] = [stack[n] EXCEPT !.todo = stack[n].todo \ {k}]]
  BY DEF Set
<1>5. stack[n] \in Frames
  BY <1>1
<1>6. /\ Len(calls') = n /\ DOMAIN calls' = 1..n
      /\ calls'[n].table = t /\ calls'[n].todo = stack[n].todo \ {k} /\ calls'[n].key = stack[n].key
      /\ \A i \in 1..n : i # n => calls'[i] = calls[i]
      /\ calls' \in Seq(Frames)
  <2>1. [stack[n] EXCEPT !.todo = stack[n].todo \ {k}] \in Frames
    BY <1>5 DEF Frames
  <2>2. calls' \in Seq(Frames) /\ Len(calls') = n
    BY <2>1, <1>1, <1>4, ExceptSeq
  <2> QED BY <1>1, <1>4, <1>5, <2>2 DEF Frames
<1>7. /\ Len(copies') = Len(copies) /\ copies'[c] = SetTable(copies[c], k, value)
      /\ \A d \in 1..Len(copies) : d # c => copies'[d] = copies[d]
  BY <1>3, <1>4
<1>8. /\ DOMAIN copies'[c] = DOMAIN copies[c] \cup {k} /\ copies'[c][k] = value
      /\ \A x \in DOMAIN copies[c] : x # k => copies'[c][x] = copies[c][x]
  <2> DEFINE old == copies[c]
             new == copies'[c]
  <2>1. new = SetTable(old, k, value)
    BY <1>7
  <2> HIDE DEF old, new
  <2>2. /\ DOMAIN new = DOMAIN old \cup {k} /\ new[k] = value
        /\ \A x \in DOMAIN old : x # k => new[x] = old[x]
    BY <2>1 DEF SetTable
  <2> QED BY <2>2 DEF old, new
<1>9. copies'[c] \in CopiedTables
  <2>1. copies[c] \in CopiedTables
    BY <1>3
  <2>2. PICK S \in SUBSET Fields : copies[c] \in [S -> {Plain} \cup Nat]
    BY <2>1 DEF CopiedTables
  <2>3. value \in {Plain} \cup Nat
    BY DEF CopyInv, CopyTypeOK
  <2>4. SetTable(copies[c], k, value) \in [S \cup {k} -> {Plain} \cup Nat]
    BY <2>2, <2>3 DEF SetTable
  <2>5. S \cup {k} \in SUBSET Fields
    BY <1>2
  <2> DEFINE new == copies'[c]
  <2>6. new \in [S \cup {k} -> {Plain} \cup Nat]
    BY <1>7, <2>4
  <2> HIDE DEF new
  <2>7. new \in CopiedTables
    BY <2>5, <2>6 DEF CopiedTables
  <2> QED BY <2>7 DEF new
<1>10. CopyTypeOK'
  <2>1. copies' \in Seq(CopiedTables)
    BY <1>3, <1>4, <1>7, <1>9, ExceptSeq
  <2> QED BY <2>1, <1>6, <1>7 DEF CopyInv, CopyTypeOK
<1>11. NumberedInv'
  BY <1>7, SameReachable DEF CopyInv, NumberedInv
<1> HIDE DEF n, t, c
<1>12. CallsInv'
  <2>1. \A i \in 1..Len(calls') :
           /\ calls'[i].table = calls[i].table /\ calls'[i].key = calls[i].key
           /\ calls'[i].todo \subseteq calls[i].todo
           /\ i # n => calls'[i].todo = calls[i].todo
    BY <1>2, <1>6 DEF t
  <2>2. Len(calls') <= Len(calls) /\ Len(calls') = n /\ n \in Nat
    BY <1>1, <1>6
  <2>3. calls' # << >> /\ outcome' = "running"
    BY <1>1, <1>6
  <2>4. /\ \A i \in 1..Len(calls) :
              calls[i].table \in DOMAIN visited /\ calls[i].todo \subseteq DOMAIN heap[calls[i].table]
        /\ \A i, j \in 1..Len(calls) : calls[i].table = calls[j].table => i = j
        /\ \A i \in 1..(Len(calls) - 1) :
              /\ calls[i + 1].key \in calls[i].todo
              /\ heap[calls[i].table][calls[i + 1].key] = calls[i + 1].table
    BY DEF CopyInv, CallsInv
  <2>5. \A i \in 1..Len(calls') : i \in 1..Len(calls)
    BY <1>1, <2>2
  <2>6. /\ heap' = heap /\ visited' = visited
    OBVIOUS
  <2>7. \A i \in 1..Len(calls') :
           calls'[i].table \in DOMAIN visited /\ calls'[i].todo \subseteq DOMAIN heap[calls'[i].table]
    BY <2>1, <2>4, <2>5
  <2>8. \A i, j \in 1..Len(calls') : calls'[i].table = calls'[j].table => i = j
    BY <2>1, <2>4, <2>5
  <2>9. ASSUME NEW i \in 1..(Len(calls') - 1)
        PROVE  /\ calls'[i + 1].key \in calls'[i].todo
               /\ heap[calls'[i].table][calls'[i + 1].key] = calls'[i + 1].table
    <3>1. /\ i \in 1..Len(calls') /\ i + 1 \in 1..Len(calls') /\ i \in 1..(Len(calls) - 1) /\ i # n
      BY <1>1, <2>2
    <3>2. /\ calls'[i].table = calls[i].table /\ calls'[i].todo = calls[i].todo
          /\ calls'[i + 1].key = calls[i + 1].key /\ calls'[i + 1].table = calls[i + 1].table
      BY <2>1, <3>1
    <3>3. /\ calls[i + 1].key \in calls[i].todo
          /\ heap[calls[i].table][calls[i + 1].key] = calls[i + 1].table
      BY <2>4, <3>1
    <3> QED BY <3>2, <3>3
  <2> QED BY <2>3, <2>6, <2>7, <2>8, <2>9 DEF CallsInv
<1>13. FieldsInv'
  <2> SUFFICES ASSUME NEW u \in DOMAIN visited
               PROVE  /\ DOMAIN copies'[visited[u]] \subseteq DOMAIN heap[u]
                      /\ \A x \in DOMAIN heap[u] : Waits(u, x)' \/ IsCopied(u, x)'
    BY DEF FieldsInv
  <2>1. u # t => copies'[visited[u]] = copies[visited[u]]
    BY <1>2, <1>3, <1>7 DEF CopyInv, CopyTypeOK, NumberedInv, c
  <2>2. DOMAIN copies'[visited[u]] \subseteq DOMAIN heap[u]
    BY <1>2, <1>8, <2>1 DEF CopyInv, FieldsInv, c
  <2>3. ASSUME NEW x \in DOMAIN heap[u]
        PROVE  Waits(u, x)' \/ IsCopied(u, x)'
    <3>1. CASE u = t /\ x = k
      <4>1. copies'[visited[u]][x] = value /\ x \in DOMAIN copies'[visited[u]]
        BY <3>1, <1>8 DEF c
      <4> QED BY <4>1, <3>1 DEF IsCopied, t, n
    <3>2. CASE ~(u = t /\ x = k) /\ Waits(u, x)
      <4>1. PICK i \in 1..Len(calls) : calls[i].table = u /\ x \in calls[i].todo
        BY <3>2 DEF Waits
      <4>2. i \in 1..n
        BY <4>1, <1>1 DEF n
      <4>3. CASE i = n
        BY <4>1, <4>2, <4>3, <3>2, <1>2, <1>6 DEF Waits, t
      <4>4. CASE i # n
        BY <4>1, <4>2, <4>4, <1>6 DEF Waits
      <4> QED BY <4>3, <4>4
    <3>3. CASE ~(u = t /\ x = k) /\ IsCopied(u, x)
      <4>1. x \in DOMAIN copies'[visited[u]] /\ copies'[visited[u]][x] = copies[visited[u]][x]
        BY <3>3, <2>1, <1>8 DEF IsCopied, c
      <4> QED BY <4>1, <3>3 DEF IsCopied
    <3>4. Waits(u, x) \/ IsCopied(u, x)
      BY DEF CopyInv, FieldsInv
    <3> QED BY <3>1, <3>2, <3>3, <3>4
  <2> QED BY <2>2, <2>3
<1>14. DepthInv'
  BY DEF DepthInv
<1> QED BY <1>10, <1>11, <1>12, <1>13, <1>14 DEF CopyInv

(* The call in progress has a table, which is one of the program's.        *)
LEMMA LastCall ==
    ASSUME CopyInv, outcome = "running"
    PROVE  /\ Len(calls) \in Nat \ {0} /\ calls \in Seq(Frames) /\ Last(calls) = calls[Len(calls)]
           /\ Last(calls).table \in DOMAIN visited /\ Last(calls).table \in Tables
           /\ Last(calls).todo \subseteq DOMAIN heap[Last(calls).table]
           /\ \A k \in Last(calls).todo : k \in Fields /\ Field(k) \in Tables \cup {Plain}
<1>1. calls \in Seq(Frames) /\ calls # << >> /\ Len(calls) \in Nat \ {0}
  BY DEF CopyInv, CopyTypeOK, CallsInv
<1>2. Last(calls) = calls[Len(calls)]
  BY <1>1 DEF Last
<1>3. /\ Last(calls).table \in DOMAIN visited /\ Last(calls).table \in Tables
      /\ Last(calls).todo \subseteq DOMAIN heap[Last(calls).table]
  BY <1>1, <1>2 DEF CopyInv, CopyTypeOK, CallsInv
<1>4. heap \in Heaps
  BY DEF CopyInv, CopyTypeOK
<1> QED BY <1>1, <1>2, <1>3, <1>4, HeapFacts DEF Field

LEMMA PlainKeeps ==
    ASSUME CopyInv, outcome = "running", NEW k \in Last(calls).todo, CopyPlain(k)
    PROVE  CopyInv'
<1>1. calls \in Seq(Frames) /\ calls # << >> /\ Last(calls) = calls[Len(calls)] /\ Len(calls) \in Nat
  BY LastCall
<1>2. Plain = heap[calls[Len(calls)].table][k] /\ k \in calls[Len(calls)].todo
  BY <1>1 DEF CopyPlain, Field
<1>3. Set(calls, k, Plain) /\ UNCHANGED <<heap, root, visited, outcome>>
  BY DEF CopyPlain
<1>4. \A i \in 1..Len(calls) : ~(i > Len(calls))
  BY <1>1
<1> QED BY <1>1, <1>2, <1>3, <1>4, SetKeeps

LEMMA AgainKeeps ==
    ASSUME CopyInv, outcome = "running", NEW k \in Last(calls).todo, CopyAgain(k)
    PROVE  CopyInv'
<1> DEFINE f == Field(k)
<1>1. calls \in Seq(Frames) /\ calls # << >> /\ Last(calls) = calls[Len(calls)] /\ Len(calls) \in Nat
  BY LastCall
<1>2. f = heap[calls[Len(calls)].table][k] /\ k \in calls[Len(calls)].todo
  BY <1>1 DEF Field
<1>3. f \in DOMAIN visited /\ Set(calls, k, visited[f]) /\ UNCHANGED <<heap, root, visited, outcome>>
  BY DEF CopyAgain
<1>4. \A i \in 1..Len(calls) : ~(i > Len(calls))
  BY <1>1
<1> HIDE DEF f
<1> QED BY <1>1, <1>2, <1>3, <1>4, SetKeeps

LEMMA ReturnKeeps ==
    ASSUME CopyInv, outcome = "running", ReturnCopy
    PROVE  CopyInv'
<1> DEFINE n == Len(calls)
           stack == Front(calls)
           k == Last(calls).key
           f == Last(calls).table
<1>1. /\ calls \in Seq(Frames) /\ n \in Nat /\ n > 1 /\ Last(calls) = calls[n]
      /\ Last(calls).todo = {} /\ f \in DOMAIN visited
      /\ Set(stack, k, visited[f]) /\ UNCHANGED <<heap, root, visited, outcome>>
  BY LastCall DEF ReturnCopy
<1>2. /\ stack \in Seq(Frames) /\ Len(stack) = n - 1 /\ stack # << >>
      /\ \A i \in 1..Len(stack) : stack[i] = calls[i]
  BY <1>1, FrontFacts
<1>3. /\ k \in stack[Len(stack)].todo /\ f = heap[stack[Len(stack)].table][k]
  BY <1>1, <1>2 DEF CopyInv, CallsInv
<1>4. \A i \in 1..Len(calls) : i > Len(stack) => calls[i].todo = {}
  BY <1>1, <1>2
<1>5. Len(stack) <= Len(calls)
  BY <1>1, <1>2
<1> HIDE DEF n, stack, k, f
<1> QED BY <1>1, <1>2, <1>3, <1>4, <1>5, SetKeeps

LEMMA EnterKeeps ==
    ASSUME CopyInv, outcome = "running", NEW k \in Last(calls).todo, EnterTable(k)
    PROVE  CopyInv'
<1> DEFINE n == Len(calls)
           t == Last(calls).table
           u == Field(k)
           c == Len(copies) + 1
<1>1. /\ calls \in Seq(Frames) /\ n \in Nat \ {0} /\ Last(calls) = calls[n]
      /\ t \in DOMAIN visited /\ t \in Tables /\ k \in DOMAIN heap[t] /\ k \in Fields /\ k \in calls[n].todo
  BY LastCall
<1>2. u \in Tables /\ u \notin DOMAIN visited /\ u # Plain /\ u = heap[t][k]
  BY LastCall DEF EnterTable, Field
<1>3. /\ visited' = [x \in DOMAIN visited \cup {u} |-> IF x = u THEN c ELSE visited[x]]
      /\ copies' = Append(copies, EmptyTable)
      /\ calls' = Append(calls, [table |-> u, todo |-> DOMAIN heap[u], key |-> k])
      /\ UNCHANGED <<heap, root, outcome>>
  BY DEF EnterTable, SetTable, Call
<1>4. /\ copies \in Seq(CopiedTables) /\ Len(copies) \in Nat /\ heap \in Heaps /\ root \in Tables
      /\ visited \in [DOMAIN visited -> 1..Len(copies)] /\ DOMAIN visited \subseteq Tables
  BY DEF CopyInv, CopyTypeOK
<1>5. [table |-> u, todo |-> DOMAIN heap[u], key |-> k] \in Frames
  BY <1>1, <1>2, <1>4, HeapFacts DEF Frames
<1>6. /\ calls' \in Seq(Frames) /\ Len(calls') = n + 1 /\ calls'[n + 1].table = u
      /\ calls'[n + 1].todo = DOMAIN heap[u] /\ calls'[n + 1].key = k
      /\ \A i \in 1..n : calls'[i] = calls[i]
  BY <1>1, <1>3, <1>5
<1>7. EmptyTable \in CopiedTables /\ DOMAIN EmptyTable = {}
  <2>1. EmptyTable \in [{} -> {Plain} \cup Nat] /\ {} \in SUBSET Fields
    BY DEF EmptyTable
  <2> QED BY <2>1 DEF CopiedTables, EmptyTable
<1>8. /\ copies' \in Seq(CopiedTables) /\ Len(copies') = c /\ copies'[c] = EmptyTable
      /\ \A d \in 1..Len(copies) : copies'[d] = copies[d]
  BY <1>3, <1>4, <1>7
<1>9. /\ DOMAIN visited' = DOMAIN visited \cup {u} /\ visited'[u] = c
      /\ \A x \in DOMAIN visited : visited'[x] = visited[x] /\ visited[x] \in 1..Len(copies)
      /\ c \notin 1..Len(copies) /\ c \in 1..c /\ 1..Len(copies) \subseteq 1..c
  BY <1>2, <1>3, <1>4
<1>10. visited' \in [DOMAIN visited' -> 1..Len(copies')]
  BY <1>3, <1>8, <1>9
<1>11. CopyTypeOK'
  BY <1>2, <1>3, <1>4, <1>6, <1>8, <1>9, <1>10 DEF CopyInv, CopyTypeOK
<1> HIDE DEF n, t, u, c
<1>12. NumberedInv'
  <2>1. t \in Reachable
    BY <1>1 DEF CopyInv, NumberedInv
  <2>2. u \in Reachable
    BY <2>1, <1>1, <1>2, <1>4, ReachableFacts
  <2>3. Reachable' = Reachable
    BY <1>3, SameReachable
  <2>4. \A x, y \in DOMAIN visited' : visited'[x] = visited'[y] => x = y
    BY <1>9 DEF CopyInv, NumberedInv
  <2>5. \A d \in 1..Len(copies') : \E x \in DOMAIN visited' : visited'[x] = d
    BY <1>8, <1>9, <1>4 DEF CopyInv, NumberedInv, c
  <2>6. root' \in DOMAIN visited' /\ DOMAIN visited' \subseteq Reachable'
    BY <2>2, <2>3, <1>3, <1>9 DEF CopyInv, NumberedInv
  <2> QED BY <2>4, <2>5, <2>6 DEF NumberedInv
<1>13. CallsInv'
  <2>1. \A i \in 1..(n + 1) :
           calls'[i].table \in DOMAIN visited' /\ calls'[i].todo \subseteq DOMAIN heap[calls'[i].table]
    <3> SUFFICES ASSUME NEW i \in 1..(n + 1)
                 PROVE  /\ calls'[i].table \in DOMAIN visited'
                        /\ calls'[i].todo \subseteq DOMAIN heap[calls'[i].table]
      OBVIOUS
    <3>1. CASE i = n + 1
      BY <3>1, <1>6, <1>9
    <3>2. CASE i \in 1..n
      BY <3>2, <1>6, <1>9 DEF CopyInv, CallsInv, n
    <3> QED BY <3>1, <3>2, <1>1
  <2>2. \A i, j \in 1..(n + 1) : calls'[i].table = calls'[j].table => i = j
    BY <1>1, <1>2, <1>6 DEF CopyInv, CallsInv, n
  <2>3. \A i \in 1..n : /\ calls'[i + 1].key \in calls'[i].todo
                        /\ heap[calls'[i].table][calls'[i + 1].key] = calls'[i + 1].table
    <3> SUFFICES ASSUME NEW i \in 1..n
                 PROVE  /\ calls'[i + 1].key \in calls'[i].todo
                        /\ heap[calls'[i].table][calls'[i + 1].key] = calls'[i + 1].table
      OBVIOUS
    <3>1. CASE i = n
      BY <3>1, <1>1, <1>2, <1>6 DEF t
    <3>2. CASE i # n
      <4>1. i \in 1..(n - 1) /\ i + 1 \in 1..n
        BY <3>2, <1>1
      <4>2. calls'[i] = calls[i] /\ calls'[i + 1] = calls[i + 1]
        BY <4>1, <1>6
      <4> QED BY <4>1, <4>2 DEF CopyInv, CallsInv, n
    <3> QED BY <3>1, <3>2
  <2>4. calls' # << >> /\ outcome' = "running"
    BY <1>1, <1>3, <1>6
  <2>5. Len(calls') = n + 1 /\ (n + 1) - 1 = n /\ UNCHANGED heap
    BY <1>1, <1>3, <1>6
  <2> QED BY <2>1, <2>2, <2>3, <2>4, <2>5 DEF CallsInv
<1>14. FieldsInv'
  <2> SUFFICES ASSUME NEW x \in DOMAIN visited'
               PROVE  /\ DOMAIN copies'[visited'[x]] \subseteq DOMAIN heap[x]
                      /\ \A y \in DOMAIN heap[x] : Waits(x, y)' \/ IsCopied(x, y)'
    BY <1>3 DEF FieldsInv
  <2>1. CASE x = u
    <3>1. \A y \in DOMAIN heap[x] : Waits(x, y)'
      BY <2>1, <1>1, <1>6 DEF Waits
    <3> QED BY <3>1, <2>1, <1>7, <1>8, <1>9
  <2>2. CASE x # u
    <3>1. x \in DOMAIN visited /\ visited'[x] = visited[x] /\ copies'[visited'[x]] = copies[visited[x]]
      BY <2>2, <1>8, <1>9
    <3>2. ASSUME NEW y \in DOMAIN heap[x]
          PROVE  Waits(x, y)' \/ IsCopied(x, y)'
      <4>1. Waits(x, y) => Waits(x, y)'
        BY <1>1, <1>6 DEF Waits, n
      <4>2. IsCopied(x, y) => IsCopied(x, y)'
        BY <3>1, <1>3, <1>9 DEF IsCopied
      <4>3. Waits(x, y) \/ IsCopied(x, y)
        BY <3>1 DEF CopyInv, FieldsInv
      <4> QED BY <4>1, <4>2, <4>3
    <3> QED BY <3>1, <3>2 DEF CopyInv, FieldsInv
  <2> QED BY <2>1, <2>2
<1>15. DepthInv'
  BY <1>3 DEF DepthInv
<1> QED BY <1>11, <1>12, <1>13, <1>14, <1>15 DEF CopyInv

(* A stack deeper than the limit has more tables than the limit.           *)
LEMMA TooDeepKeeps ==
    ASSUME CopyInv, outcome = "running", NEW k \in Last(calls).todo, CopyTooDeep(k)
    PROVE  CopyInv'
<1> DEFINE n == Len(calls)
           T == {calls[i].table : i \in 1..n}
<1>1. n \in Nat /\ n > MaxDepth /\ heap \in Heaps /\ root \in Tables
  BY LastCall DEF CopyTooDeep, CopyInv, CopyTypeOK
<1>2. Cardinality(T) = n
  <2>1. DEFINE b == [i \in 1..n |-> calls[i].table]
  <2>2. b \in Bijection(1..n, T)
    BY DEF CopyInv, CallsInv, Bijection, Injection, Surjection, IsInjective
  <2>3. IsFiniteSet(1..n) /\ Cardinality(1..n) = n
    <3>1. IsFiniteSet(1..n) /\ Cardinality(1..n) = IF 1 > n THEN 0 ELSE n - 1 + 1
      BY <1>1, FS_Interval
    <3> QED BY <3>1, <1>1
  <2> HIDE DEF b, T, n
  <2> QED BY <2>2, <2>3, FS_Bijection DEF ExistsBijection
<1>3. T \subseteq Reachable
  BY DEF CopyInv, CallsInv, NumberedInv
<1>4. Cardinality(T) <= Cardinality(Reachable) /\ Cardinality(Reachable) \in Nat
  <2>1. IsFiniteSet(Reachable)
    BY <1>1, ReachableFacts, FS_Subset, TablesAssumption
  <2> HIDE DEF T
  <2> QED BY <2>1, <1>3, FS_Subset, FS_CardinalityType
<1>5. Cardinality(Reachable) > MaxDepth
  <2> HIDE DEF T, n
  <2> QED BY <1>1, <1>2, <1>4, MaxDepthAssumption
<1>6. calls' = << >> /\ outcome' = "too deep" /\ UNCHANGED <<heap, root, visited, copies>>
  BY DEF CopyTooDeep
<1>7. Reachable' = Reachable
  BY <1>6, SameReachable
<1>8. CopyTypeOK' /\ NumberedInv' /\ CallsInv'
  <2>1. << >> \in Seq(Frames) /\ Len(<< >>) = 0
    OBVIOUS
  <2>2. CopyTypeOK'
    BY <2>1, <1>6 DEF CopyInv, CopyTypeOK
  <2>3. NumberedInv'
    BY <1>6, <1>7 DEF CopyInv, NumberedInv
  <2>4. CallsInv'
    <3>1. \A i \in Int : i \notin 1..0 /\ i \notin 1..(0 - 1)
      OBVIOUS
    <3>2. Len(calls') = 0 /\ outcome' # "running" /\ calls' = << >>
      BY <2>1, <1>6
    <3> QED BY <3>1, <3>2 DEF CallsInv
  <2> QED BY <2>2, <2>3, <2>4
<1>9. FieldsInv'
  BY <1>6 DEF CopyInv, FieldsInv
<1>10. DepthInv'
  BY <1>5, <1>7 DEF DepthInv
<1> QED BY <1>8, <1>9, <1>10 DEF CopyInv

LEMMA EndKeeps ==
    ASSUME CopyInv, outcome = "running", CopyEnds
    PROVE  CopyInv'
<1>1. calls' = << >> /\ outcome' = "ok" /\ UNCHANGED <<heap, root, visited, copies>>
  BY DEF CopyEnds
<1>2. Reachable' = Reachable
  BY <1>1, SameReachable
<1>3. CopyTypeOK' /\ NumberedInv' /\ CallsInv' /\ DepthInv'
  BY <1>1, <1>2 DEF CopyInv, CopyTypeOK, NumberedInv, CallsInv, DepthInv
<1>4. FieldsInv'
  <2>1. \A t, k : ~Waits(t, k)
    <3>1. Len(calls) = 1 /\ calls[1].todo = {}
      BY LastCall DEF CopyEnds
    <3> QED BY <3>1 DEF Waits
  <2> QED BY <2>1, <1>1 DEF CopyInv, FieldsInv, IsCopied
<1> QED BY <1>3, <1>4 DEF CopyInv

LEMMA CopyGoesOn == CopyInv /\ [CopyNext]_copyVars => CopyInv'
<1> SUFFICES ASSUME CopyInv, [CopyNext]_copyVars
             PROVE  CopyInv'
  OBVIOUS
<1>1. ASSUME outcome = "running", NEW k \in Last(calls).todo,
             CopyPlain(k) \/ CopyTooDeep(k) \/ CopyAgain(k) \/ EnterTable(k)
      PROVE  CopyInv'
  BY <1>1, PlainKeeps, TooDeepKeeps, AgainKeeps, EnterKeeps
<1>2. CASE outcome = "running" /\ ReturnCopy
  BY <1>2, ReturnKeeps
<1>3. CASE outcome = "running" /\ CopyEnds
  BY <1>3, EndKeeps
<1>4. CASE UNCHANGED copyVars
  <2>1. UNCHANGED <<heap, root, calls, visited, copies, outcome>> /\ Reachable' = Reachable
    BY <1>4, SameReachable DEF copyVars
  <2>2. CopyTypeOK'
    BY <2>1 DEF CopyInv, CopyTypeOK
  <2>3. NumberedInv' /\ DepthInv'
    BY <2>1 DEF CopyInv, NumberedInv, DepthInv
  <2>4. CallsInv'
    BY <2>1 DEF CopyInv, CallsInv
  <2>5. FieldsInv'
    <3>1. \A t, k : (Waits(t, k))' <=> Waits(t, k)
      BY <2>1 DEF Waits
    <3>2. \A t, k : (IsCopied(t, k))' <=> IsCopied(t, k)
      BY <2>1 DEF IsCopied
    <3> QED BY <2>1, <3>1, <3>2 DEF CopyInv, FieldsInv
  <2> QED BY <2>2, <2>3, <2>4, <2>5 DEF CopyInv
<1> QED BY <1>1, <1>2, <1>3, <1>4 DEF CopyNext

(* When nothing is left to copy the copy is that of what can be reached.   *)
LEMMA CopyInvSuffices == CopyInv => CopyIsIsomorphic
<1> SUFFICES ASSUME CopyInv PROVE CopyIsIsomorphic
  OBVIOUS
<1> DEFINE Image(f) == IF f = Plain THEN Plain ELSE visited[f]
<1>1. outcome = "too deep" => Cardinality(Reachable) > MaxDepth
  BY DEF CopyInv, DepthInv
<1>2. ASSUME outcome = "ok"
      PROVE  /\ DOMAIN visited = Reachable
             /\ \A t, u \in Reachable : visited[t] = visited[u] => t = u
             /\ {visited[t] : t \in Reachable} = DOMAIN copies
             /\ \A t \in Reachable :
                   copies[visited[t]] = [k \in DOMAIN heap[t] |-> Image(heap[t][k])]
  <2>1. \A t \in DOMAIN visited : \A k \in DOMAIN heap[t] : IsCopied(t, k)
    <3>1. \A t, k : ~Waits(t, k)
      BY <1>2 DEF CopyInv, CallsInv, Waits
    <3> QED BY <3>1, <1>2 DEF CopyInv, FieldsInv
  <2>2. Closed(DOMAIN visited)
    BY <2>1 DEF Closed, IsCopied
  <2>3. DOMAIN visited = Reachable
    <3>1. heap \in Heaps /\ root \in Tables /\ DOMAIN visited \in SUBSET Tables
          /\ root \in DOMAIN visited /\ DOMAIN visited \subseteq Reachable
      BY DEF CopyInv, CopyTypeOK, NumberedInv
    <3> QED BY <2>2, <3>1, ReachableFacts
  <2>4. \A t, u \in Reachable : visited[t] = visited[u] => t = u
    BY <2>3 DEF CopyInv, NumberedInv
  <2>5. {visited[t] : t \in Reachable} = DOMAIN copies
    <3>1. DOMAIN copies = 1..Len(copies) /\ \A t \in DOMAIN visited : visited[t] \in 1..Len(copies)
      <4>1. copies \in Seq(CopiedTables) /\ visited \in [DOMAIN visited -> 1..Len(copies)]
        BY DEF CopyInv, CopyTypeOK
      <4> QED BY <4>1
    <3> QED BY <2>3, <3>1 DEF CopyInv, NumberedInv
  <2>6. ASSUME NEW t \in Reachable
        PROVE  copies[visited[t]] = [k \in DOMAIN heap[t] |-> Image(heap[t][k])]
    <3>1. copies[visited[t]] \in CopiedTables /\ Plain \notin DOMAIN visited
      <4>1. visited[t] \in 1..Len(copies) /\ copies \in Seq(CopiedTables) /\ DOMAIN visited \subseteq Tables
        BY <2>3 DEF CopyInv, CopyTypeOK
      <4> QED BY <4>1, TablesAssumption
    <3>2. PICK S \in SUBSET Fields : copies[visited[t]] \in [S -> {Plain} \cup Nat]
      BY <3>1 DEF CopiedTables
    <3>3. DOMAIN copies[visited[t]] = DOMAIN heap[t]
      BY <2>1, <2>3 DEF CopyInv, FieldsInv, IsCopied
    <3>4. \A k \in DOMAIN heap[t] : copies[visited[t]][k] = Image(heap[t][k])
      BY <2>1, <2>3, <3>1 DEF IsCopied
    <3> QED BY <3>2, <3>3, <3>4
  <2> HIDE DEF Image
  <2> QED BY <2>3, <2>4, <2>5, <2>6
<1> QED BY <1>1, <1>2 DEF CopyIsIsomorphic

(* deepCopyTable copies every table that can be reached once, its fields   *)
(* the copies of the fields, whatever the tables, cycles and sharing.      *)
THEOREM CopyIsIsomorphicHolds == CopySpec => []CopyIsIsomorphic
<1> QED BY CopyStarts, CopyGoesOn, CopyInvSuffices, PTL DEF CopySpec

-----------------------------------------------------------------------------
(***************************************************************************)
(* The fourth part: babet.find gives what is wanted of any tree of files,  *)
(* in the order of the walk.                                               *)
(***************************************************************************)
Paths == Seq(Nat \ {0})

(* So a tree of files; and it has the entries before one.                  *)
LEMMA AboveIn ==
    ASSUME IsFileTree(tree), NEW p \in DOMAIN tree, NEW k \in 0..Len(p)
    PROVE  p \in Paths /\ SubSeq(p, 1, k) \in DOMAIN tree
BY HeadIn DEF IsFileTree, Paths

LEMMA BeforeIn ==
    ASSUME IsFileTree(tree), NEW p \in DOMAIN tree, NEW k \in DOMAIN p, NEW m \in 1..p[k]
    PROVE  Append(SubSeq(p, 1, k - 1), m) \in DOMAIN tree
<1> DEFINE N == p[k] - 1
           u == SubSeq(p, 1, k - 1)
           S == {i \in 0..N : Append(u, p[k] - i) \in DOMAIN tree}
<1>1. p \in Paths /\ k \in 1..Len(p) /\ Len(p) \in Nat /\ p[k] \in Nat \ {0} /\ N \in Nat
  BY DEF IsFileTree, Paths
<1>2. u \in Paths
  BY <1>1, HeadOf DEF Paths
<1>3. 0 \in S
  <2>1. k \in 0..Len(p) /\ k >= 1
    BY <1>1
  <2>2. SubSeq(p, 1, k) \in DOMAIN tree
    BY <2>1, AboveIn
  <2>3. SubSeq(p, 1, k) = Append(u, p[k])
    BY <2>1, <1>1, HeadOf DEF Paths
  <2>4. p[k] - 0 = p[k]
    BY <1>1
  <2>5. 0 \in 0..N
    BY <1>1
  <2> HIDE DEF u, N
  <2> QED BY <2>2, <2>3, <2>4, <2>5
<1> HIDE DEF u
<1>4. ASSUME NEW i \in 0..(N - 1), i \in S
      PROVE  i + 1 \in S
  <2> DEFINE x == p[k] - i
             q == Append(u, x)
  <2>1. x \in Nat \ {0} /\ x > 1 /\ x - 1 = p[k] - (i + 1) /\ i + 1 \in 0..N
    BY <1>1
  <2>2. q \in DOMAIN tree
    BY <1>4
  <2> HIDE DEF x
  <2>3. q # << >> /\ Front(q) = u /\ Last(q) = x
    <3>1. q \in Paths /\ Len(q) = Len(u) + 1 /\ q[Len(u) + 1] = x /\ \A j \in 1..Len(u) : q[j] = u[j]
      BY <2>1, <1>2 DEF Paths
    <3>2. q # << >> /\ Len(u) \in Nat
      BY <3>1, <1>2 DEF Paths
    <3> HIDE DEF q
    <3>3. /\ Front(q) \in Paths /\ Len(Front(q)) = Len(u) /\ \A j \in 1..Len(u) : Front(q)[j] = q[j]
          /\ Last(q) = x
      <4>1. /\ Front(q) \in Paths /\ Len(Front(q)) = Len(q) - 1
            /\ \A j \in 1..(Len(q) - 1) : Front(q)[j] = q[j]
            /\ Last(q) = q[Len(q)]
        <5>1. q \in Seq(Nat \ {0})
          BY <3>1 DEF Paths
        <5> QED BY <5>1, <3>2, FrontFacts, Zenon DEF Paths
      <4>2. Len(q) - 1 = Len(u)
        BY <3>1, <3>2
      <4> QED BY <4>1, <4>2, <3>1
    <3> QED BY <1>2, <3>1, <3>2, <3>3, SeqEqual DEF Paths
  <2> HIDE DEF q
  <2>4. Append(u, x - 1) \in DOMAIN tree
    <3>1. q \in DOMAIN tree \ {<< >>}
      BY <2>2, <2>3
    <3>2. Last(q) > 1 => Append(Front(q), Last(q) - 1) \in DOMAIN tree
      BY <3>1 DEF IsFileTree
    <3> QED BY <2>1, <2>3, <3>2
  <2> QED BY <2>1, <2>4
<1>5. p[k] - m \in S
  <2>1. \A i \in 0..N : i \in S
    <3> HIDE DEF S
    <3> QED BY <1>1, <1>3, <1>4, InductionUpTo
  <2>2. p[k] - m \in 0..N
    BY <1>1
  <2> HIDE DEF S
  <2> QED BY <2>1, <2>2
<1>6. p[k] - (p[k] - m) = m
  BY <1>1
<1> QED BY <1>5, <1>6 DEF u

-----------------------------------------------------------------------------
(* The order of a walk.                                                    *)
LEMMA PrecedesAfter ==
    ASSUME NEW p \in Paths, NEW q \in Paths, NEW r \in Paths,
           Precedes(p, q), Precedes(q, r)
    PROVE  Precedes(p, r)
<1>1. PICK k \in DOMAIN q : /\ \A i \in 1..(k - 1) : i \in DOMAIN p /\ p[i] = q[i]
                            /\ k = Len(p) + 1 \/ (k \in DOMAIN p /\ p[k] < q[k])
  BY DEF Precedes
<1>2. PICK l \in DOMAIN r : /\ \A i \in 1..(l - 1) : i \in DOMAIN q /\ q[i] = r[i]
                            /\ l = Len(q) + 1 \/ (l \in DOMAIN q /\ q[l] < r[l])
  BY DEF Precedes
<1>3. /\ k \in 1..Len(q) /\ l \in 1..Len(r) /\ DOMAIN p = 1..Len(p) /\ DOMAIN q = 1..Len(q)
      /\ DOMAIN r = 1..Len(r) /\ Len(p) \in Nat /\ Len(q) \in Nat /\ Len(r) \in Nat
      /\ \A i \in DOMAIN p : p[i] \in Nat
      /\ \A i \in DOMAIN q : q[i] \in Nat
      /\ \A i \in DOMAIN r : r[i] \in Nat
  BY DEF Paths
<1>4. CASE k < l
  <2>1. k \in DOMAIN r /\ q[k] = r[k]
    BY <1>2, <1>3, <1>4
  <2>2. \A i \in 1..(k - 1) : i \in DOMAIN p /\ p[i] = r[i]
    BY <1>1, <1>2, <1>3, <1>4
  <2> QED BY <2>1, <2>2, <1>1 DEF Precedes
<1>5. CASE k = l
  <2>1. q[k] < r[k]
    BY <1>2, <1>3, <1>5
  <2>2. \A i \in 1..(k - 1) : i \in DOMAIN p /\ p[i] = r[i]
    BY <1>1, <1>2, <1>5
  <2>3. k = Len(p) + 1 \/ (k \in DOMAIN p /\ p[k] < r[k])
    BY <2>1, <1>1, <1>3, <1>5
  <2> QED BY <2>2, <2>3, <1>5 DEF Precedes
<1>6. CASE l < k
  <2>1. l \in DOMAIN p /\ p[l] = q[l] /\ l \in DOMAIN q /\ q[l] < r[l]
    BY <1>1, <1>2, <1>3, <1>6
  <2>2. \A i \in 1..(l - 1) : i \in DOMAIN p /\ p[i] = r[i]
    BY <1>1, <1>2, <1>3, <1>6
  <2> QED BY <2>1, <2>2 DEF Precedes
<1> QED BY <1>3, <1>4, <1>5, <1>6

(* The entry after what is in the path's directory at a level.             *)
LEMMA SiblingFacts ==
    ASSUME NEW p \in Paths, NEW k \in DOMAIN p
    PROVE  /\ Sibling(p, k) \in Paths /\ Len(Sibling(p, k)) = k /\ k \in 1..Len(p) /\ Len(p) \in Nat
           /\ \A i \in 1..(k - 1) : Sibling(p, k)[i] = p[i]
           /\ Sibling(p, k)[k] = p[k] + 1 /\ p[k] \in Nat
           /\ Precedes(p, Sibling(p, k))
<1> DEFINE u == SubSeq(p, 1, k - 1)
           s == Sibling(p, k)
<1>1. k \in 1..Len(p) /\ Len(p) \in Nat /\ p[k] \in Nat \ {0} /\ k - 1 \in 0..Len(p)
  BY DEF Paths
<1>2. u \in Paths /\ Len(u) = k - 1 /\ \A i \in 1..(k - 1) : u[i] = p[i]
  BY <1>1, HeadOf DEF Paths
<1>3. s = Append(u, p[k] + 1)
  BY DEF Sibling
<1> HIDE DEF u, s
<1>4. /\ s \in Paths /\ Len(s) = k /\ s[k] = p[k] + 1
      /\ \A i \in 1..(k - 1) : s[i] = u[i]
  BY <1>1, <1>2, <1>3 DEF Paths
<1>5. Precedes(p, s)
  <2>1. k \in DOMAIN s /\ k \in DOMAIN p /\ p[k] < s[k]
    BY <1>1, <1>4 DEF Paths
  <2>2. \A i \in 1..(k - 1) : i \in DOMAIN p /\ p[i] = s[i]
    BY <1>1, <1>2, <1>4
  <2> QED BY <2>1, <2>2 DEF Precedes
<1> QED BY <1>1, <1>2, <1>4, <1>5 DEF s

LEMMA ChildFacts ==
    ASSUME NEW p \in Paths
    PROVE  /\ Append(p, 1) \in Paths /\ Len(Append(p, 1)) = Len(p) + 1 /\ Len(p) \in Nat
           /\ \A i \in 1..Len(p) : Append(p, 1)[i] = p[i]
           /\ Append(p, 1)[Len(p) + 1] = 1
           /\ Precedes(p, Append(p, 1))
<1> DEFINE s == Append(p, 1)
<1>1. /\ s \in Paths /\ Len(s) = Len(p) + 1 /\ Len(p) \in Nat
      /\ \A i \in 1..Len(p) : s[i] = p[i]
      /\ s[Len(p) + 1] = 1
  BY DEF Paths
<1> HIDE DEF s
<1>2. Precedes(p, s)
  <2>1. Len(p) + 1 \in DOMAIN s /\ (Len(p) + 1) - 1 = Len(p) /\ DOMAIN p = 1..Len(p)
    BY <1>1 DEF Paths
  <2> QED BY <1>1, <2>1 DEF Precedes
<1> QED BY <1>1, <1>2 DEF s

(* Where Advance goes: nowhere, or the deepest level that has a next entry.*)
LEMMA AdvanceFacts ==
    ASSUME NEW p \in Paths
    PROVE  \/ Advance(p) = End /\ \A l \in DOMAIN p : Sibling(p, l) \notin DOMAIN tree
           \/ \E k \in DOMAIN p : /\ Advance(p) = Sibling(p, k) /\ Sibling(p, k) \in DOMAIN tree
                                  /\ \A l \in DOMAIN p : Sibling(p, l) \in DOMAIN tree => l <= k
<1> DEFINE open == {k \in DOMAIN p : Sibling(p, k) \in DOMAIN tree}
<1>1. Advance(p) = IF open = {} THEN End ELSE Sibling(p, Max(open))
  BY DEF Advance
<1>2. Len(p) \in Nat /\ open \in SUBSET (1..Len(p))
  BY DEF Paths
<1>3. CASE open = {}
  BY <1>1, <1>3
<1>4. CASE open # {}
  <2>1. Max(open) \in open /\ \A l \in open : l <= Max(open)
    <3> HIDE DEF open
    <3> QED BY <1>2, <1>4, MaxOf
  <2> QED BY <1>1, <1>4, <2>1
<1> QED BY <1>3, <1>4

LEMMA AdvanceGoesOn ==
    ASSUME NEW p \in Paths, Advance(p) # End
    PROVE  Advance(p) \in DOMAIN tree /\ Precedes(p, Advance(p))
BY AdvanceFacts, SiblingFacts

(* ++ goes forward.                                                        *)
LEMMA IncrementGoesOn ==
    ASSUME NEW p \in Paths, Increment(p) # End
    PROVE  Increment(p) \in DOMAIN tree /\ Precedes(p, Increment(p))
<1>1. CASE Append(p, 1) \in DOMAIN tree
  BY <1>1, ChildFacts DEF Increment
<1>2. CASE Append(p, 1) \notin DOMAIN tree
  BY <1>2, AdvanceGoesOn DEF Increment
<1> QED BY <1>1, <1>2

(* And it leaves nothing out.                                              *)
LEMMA IncrementIsNext ==
    ASSUME IsFileTree(tree), NEW p \in Paths, NEW q \in DOMAIN tree, Precedes(p, q)
    PROVE  Increment(p) # End /\ (q = Increment(p) \/ Precedes(Increment(p), q))
<1> DEFINE n == Increment(p)
           u == SubSeq(q, 1, 0)
<1>0. q \in Paths
  BY DEF IsFileTree, Paths
<1>1. PICK k \in DOMAIN q : /\ \A i \in 1..(k - 1) : i \in DOMAIN p /\ p[i] = q[i]
                            /\ k = Len(p) + 1 \/ (k \in DOMAIN p /\ p[k] < q[k])
  BY DEF Precedes
<1>2. /\ k \in 1..Len(q) /\ DOMAIN p = 1..Len(p) /\ DOMAIN q = 1..Len(q)
      /\ Len(p) \in Nat /\ Len(q) \in Nat /\ k - 1 \in 0..Len(q) /\ k \in Nat
      /\ \A i \in DOMAIN p : p[i] \in Nat
      /\ \A i \in DOMAIN q : q[i] \in Nat \ {0}
  BY <1>0 DEF Paths
<1> DEFINE h == SubSeq(q, 1, k - 1)
<1>3. h \in Paths /\ Len(h) = k - 1 /\ \A i \in 1..(k - 1) : h[i] = q[i]
  BY <1>0, <1>2, HeadOf DEF Paths
<1>4. \A m \in 1..q[k] : Append(h, m) \in DOMAIN tree
  BY <1>2, BeforeIn
(* A path that agrees with q below k and is not beyond it at k.            *)
<1>5. ASSUME NEW x \in Paths, NEW m \in 1..q[k], Len(x) = k, x[k] = m,
             \A i \in 1..(k - 1) : x[i] = q[i]
      PROVE  q = x \/ Precedes(x, q)
  <2>1. CASE m < q[k]
    <3>1. k \in DOMAIN x /\ DOMAIN x = 1..k
      BY <1>2, <1>5 DEF Paths
    <3> QED BY <3>1, <1>2, <1>5, <2>1 DEF Precedes
  <2>2. CASE m = q[k] /\ Len(q) = k
    <3>1. \A i \in 1..k : x[i] = q[i]
      <4>1. x[k] = q[k] /\ \A i \in 1..(k - 1) : x[i] = q[i]
        BY <1>5, <2>2
      <4>2. \A i \in 1..k : i = k \/ i \in 1..(k - 1)
        BY <1>2
      <4> QED BY <4>1, <4>2
    <3> QED BY <3>1, <2>2, <1>0, <1>5, SeqEqual DEF Paths
  <2>3. CASE m = q[k] /\ Len(q) # k
    <3>1. k + 1 \in DOMAIN q /\ k + 1 = Len(x) + 1 /\ (k + 1) - 1 = k /\ DOMAIN x = 1..k
      BY <2>3, <1>2, <1>5 DEF Paths
    <3>2. \A i \in 1..k : x[i] = q[i]
      <4>1. x[k] = q[k] /\ \A i \in 1..(k - 1) : x[i] = q[i]
        BY <1>5, <2>3
      <4>2. \A i \in 1..k : i = k \/ i \in 1..(k - 1)
        BY <1>2
      <4> QED BY <4>1, <4>2
    <3> QED BY <3>1, <3>2 DEF Precedes
  <2> QED BY <2>1, <2>2, <2>3, <1>2
<1> HIDE DEF h
<1>6. CASE k = Len(p) + 1
  <2>1. h = p
    <3>1. Len(h) = Len(p)
      BY <1>2, <1>3, <1>6
    <3>2. \A i \in 1..Len(p) : h[i] = p[i]
      BY <1>1, <1>2, <1>3, <1>6
    <3> QED BY <1>3, <3>1, <3>2, SeqEqual DEF Paths
  <2>2. Append(p, 1) \in DOMAIN tree
    BY <2>1, <1>2, <1>4
  <2>3. n = Append(p, 1) /\ 1 \in 1..q[k]
    BY <2>2, <1>2 DEF Increment
  <2>4. n \in Paths /\ Len(n) = k /\ n[k] = 1 /\ \A i \in 1..(k - 1) : n[i] = q[i]
    BY <2>3, <1>1, <1>2, <1>6, ChildFacts
  <2>5. n # End
    BY <2>4, <1>2 DEF End
  <2>6. q = n \/ Precedes(n, q)
    <3> HIDE DEF n
    <3> QED BY <2>3, <2>4, <1>5
  <2> QED BY <2>5, <2>6
<1>7. CASE k \in DOMAIN p /\ p[k] < q[k]
  <2>1. Sibling(p, k) \in DOMAIN tree
    <3>1. p[k] + 1 \in 1..q[k]
      BY <1>2, <1>7
    <3>2. SubSeq(p, 1, k - 1) = h
      <4>1. /\ SubSeq(p, 1, k - 1) \in Paths /\ Len(SubSeq(p, 1, k - 1)) = k - 1
            /\ \A i \in 1..(k - 1) : SubSeq(p, 1, k - 1)[i] = p[i]
        <5>1. k - 1 \in 0..Len(p)
          BY <1>2, <1>7
        <5> QED BY <5>1, HeadOf DEF Paths
      <4>2. \A i \in 1..(k - 1) : SubSeq(p, 1, k - 1)[i] = h[i]
        BY <4>1, <1>1, <1>3
      <4> QED BY <4>1, <4>2, <1>3, SeqEqual DEF Paths
    <3> QED BY <3>1, <3>2, <1>4 DEF Sibling
  <2>2. CASE Append(p, 1) \in DOMAIN tree
    <3>1. n = Append(p, 1)
      BY <2>2 DEF Increment
    <3>2. n \in Paths /\ Len(n) = Len(p) + 1 /\ \A i \in 1..Len(p) : n[i] = p[i]
      BY <3>1, ChildFacts
    <3>3. n # End /\ DOMAIN n = 1..(Len(p) + 1)
      BY <3>2, <1>2 DEF End, Paths
    <3>4. Precedes(n, q)
      <4> HIDE DEF n
      <4>1. \A i \in 1..(k - 1) : i \in DOMAIN n /\ n[i] = q[i]
        BY <3>2, <3>3, <1>1, <1>2
      <4>2. k \in DOMAIN n /\ n[k] < q[k]
        BY <3>2, <3>3, <1>2, <1>7
      <4> QED BY <4>1, <4>2 DEF Precedes
    <3> QED BY <3>3, <3>4
  <2>3. CASE Append(p, 1) \notin DOMAIN tree
    <3>1. PICK j \in DOMAIN p : /\ Advance(p) = Sibling(p, j) /\ Sibling(p, j) \in DOMAIN tree
                                /\ \A l \in DOMAIN p : Sibling(p, l) \in DOMAIN tree => l <= j
      BY <2>1, <1>7, AdvanceFacts
    <3>2. n = Sibling(p, j) /\ k <= j
      BY <2>1, <2>3, <3>1, <1>7 DEF Increment
    <3>3. /\ n \in Paths /\ Len(n) = j /\ \A i \in 1..(j - 1) : n[i] = p[i]
          /\ n[j] = p[j] + 1
      BY <3>2, SiblingFacts
    <3>4. j \in 1..Len(p) /\ DOMAIN n = 1..j /\ n # End
      BY <3>3, <1>2 DEF Paths, End
    <3>5. \A i \in 1..(k - 1) : i \in DOMAIN n /\ n[i] = q[i]
      <4>1. \A i \in 1..(k - 1) : i \in 1..j /\ i \in 1..(j - 1)
        BY <3>2, <3>4, <1>2
      <4> HIDE DEF n
      <4> QED BY <4>1, <3>3, <3>4, <1>1
    <3>6. CASE k < j
      <4> HIDE DEF n
      <4>1. k \in DOMAIN n /\ n[k] < q[k]
        <5>1. k \in 1..j /\ k \in 1..(j - 1)
          BY <3>4, <3>6, <1>2
        <5> QED BY <5>1, <3>3, <3>4, <1>7
      <4>2. Precedes(n, q)
        BY <4>1, <3>5 DEF Precedes
      <4> QED BY <4>2, <3>4 DEF n
    <3>7. CASE k = j
      <4> HIDE DEF n
      <4>1. n[k] \in 1..q[k] /\ Len(n) = k
        BY <3>3, <3>7, <1>2, <1>7
      <4>2. q = n \/ Precedes(n, q)
        BY <4>1, <3>3, <3>5, <1>5
      <4> QED BY <4>2, <3>4 DEF n
    <3> QED BY <3>2, <3>4, <3>6, <3>7, <1>2
  <2> QED BY <2>2, <2>3
<1> QED BY <1>1, <1>6, <1>7

(***************************************************************************)
(* What a walk keeps.  So far it found, in order, entries that are wanted, *)
(* all before the iterator; and if the tree is no deeper than maxdepth,    *)
(* whatever is wanted and not found yet, and every directory that cannot   *)
(* be opened, is still ahead.                                              *)
(***************************************************************************)
FindTypeOK ==
    /\ tree \in FileTrees /\ options \in FindOptions
    /\ it \in DOMAIN tree /\ found \in Seq(DOMAIN tree)
    /\ answer \in {"running", "ok", "error"}

FoundInOrder ==
    /\ \A i \in DOMAIN found : found[i] \in DOMAIN tree /\ Wanted(found[i])
    /\ \A i \in DOMAIN found, j \in DOMAIN found : i < j => Precedes(found[i], found[j])

FoundIsBehind ==
    answer = "running" /\ it # End => \A i \in DOMAIN found : Precedes(found[i], it)

Shallow == \A p \in DOMAIN tree : Len(p) - 1 <= options.maxdepth

Missing(p) == Wanted(p) /\ \A i \in DOMAIN found : found[i] # p

Ahead(p) == it # End /\ (p = it \/ Precedes(it, p))

NothingMissed ==
    /\ answer = "running" => tree[<< >>] = "dir"
    /\ Shallow => /\ answer = "running" =>
                        \A p \in DOMAIN tree : Missing(p) \/ tree[p] = "locked" => Ahead(p)
                  /\ answer = "ok" => ~CannotOpen /\ \A p \in DOMAIN tree : ~Missing(p)
                  /\ answer = "error" => CannotOpen

FindInv == FindTypeOK /\ FoundInOrder /\ FoundIsBehind /\ NothingMissed

LEMMA TreeFacts ==
    ASSUME tree \in FileTrees
    PROVE  /\ IsFileTree(tree) /\ << >> \in DOMAIN tree /\ DOMAIN tree \subseteq Paths /\ End \in Paths
           /\ \A p \in DOMAIN tree : p # << >> => Precedes(<< >>, p)
<1>1. IsFileTree(tree) /\ << >> \in DOMAIN tree /\ DOMAIN tree \subseteq Paths
  BY FileTreesAssumption DEF IsFileTree, Paths
<1>2. End \in Paths
  BY DEF End, Paths
<1>3. ASSUME NEW p \in DOMAIN tree, p # << >>
      PROVE  Precedes(<< >>, p)
  <2>1. p \in Paths
    BY <1>1
  <2>2. 1 \in DOMAIN p /\ 1 = Len(<< >>) + 1
    BY <2>1, <1>3 DEF Paths
  <2>3. \A i \in 1..(1 - 1) : FALSE
    OBVIOUS
  <2> QED BY <2>2, <2>3 DEF Precedes
<1> QED BY <1>1, <1>2, <1>3

LEMMA FindStarts == FindInit => FindInv
<1> SUFFICES ASSUME FindInit PROVE FindInv
  OBVIOUS
<1>1. /\ tree \in FileTrees /\ options \in FindOptions /\ found = << >>
      /\ it = IF tree[<< >>] = "dir" THEN Increment(<< >>) ELSE End
      /\ answer = IF tree[<< >>] = "dir" THEN "running" ELSE "error"
  BY DEF FindInit
<1>2. /\ IsFileTree(tree) /\ << >> \in DOMAIN tree /\ << >> \in Paths
      /\ \A p \in DOMAIN tree : p # << >> => Precedes(<< >>, p)
  BY <1>1, TreeFacts DEF End
<1>3. Increment(<< >>) \in DOMAIN tree
  BY <1>2, IncrementGoesOn DEF End
<1>4. FindTypeOK
  BY <1>1, <1>2, <1>3 DEF FindTypeOK, End
<1>5. FoundInOrder /\ FoundIsBehind
  <2>1. DOMAIN found = {}
    BY <1>1
  <2> QED BY <2>1 DEF FoundInOrder, FoundIsBehind
<1>6. NothingMissed
  <2>1. CASE tree[<< >>] = "dir"
    <3>1. answer = "running" /\ it = Increment(<< >>)
      BY <1>1, <2>1
    <3>2. ASSUME NEW p \in DOMAIN tree, Missing(p) \/ tree[p] = "locked"
          PROVE  Ahead(p)
      <4>1. p # << >>
        BY <2>1, <3>2 DEF Missing, Wanted
      <4>2. Precedes(<< >>, p)
        BY <4>1, <1>2
      <4> QED BY <4>2, <3>1, <1>2, IncrementIsNext DEF Ahead
    <3> QED BY <2>1, <3>1, <3>2 DEF NothingMissed
  <2>2. CASE tree[<< >>] # "dir"
    <3>1. answer = "error"
      BY <1>1, <2>2
    <3> QED BY <3>1, <2>2 DEF NothingMissed, CannotOpen
  <2> QED BY <2>1, <2>2
<1> QED BY <1>4, <1>5, <1>6 DEF FindInv

(* Only where the walk is, what was found and the answer ever change.      *)
LEMMA SameCall ==
    ASSUME UNCHANGED <<tree, options>>
    PROVE  /\ \A p : Wanted(p)' <=> Wanted(p)
           /\ Shallow' <=> Shallow
           /\ CannotOpen' <=> CannotOpen
           /\ tree' = tree /\ options' = options
<1>1. tree' = tree /\ options' = options
  OBVIOUS
<1>2. \A p : Wanted(p)' <=> Wanted(p)
  BY <1>1, Zenon DEF Wanted, Matches
<1>3. Shallow' <=> Shallow
  BY <1>1 DEF Shallow
<1>4. CannotOpen' <=> CannotOpen
  BY <1>1 DEF CannotOpen
<1> QED BY <1>1, <1>2, <1>3, <1>4

(* A step that goes forward and adds the entry it leaves, if it is wanted. *)
LEMMA MovesKeep ==
    ASSUME FindInv, answer = "running", it # End, UNCHANGED <<tree, options>>,
           found' = found \/ (found' = Append(found, it) /\ Wanted(it)),
           \/ answer' = "error" /\ it' = it
           \/ /\ answer' = answer /\ it' \in DOMAIN tree
              /\ it' = End \/ Precedes(it, it')
    PROVE  FindTypeOK' /\ FoundInOrder' /\ FoundIsBehind'
<1>1. /\ tree \in FileTrees /\ options \in FindOptions /\ it \in DOMAIN tree
      /\ found \in Seq(DOMAIN tree) /\ answer \in {"running", "ok", "error"}
  BY DEF FindInv, FindTypeOK
<1>2. /\ \A p : Wanted(p)' <=> Wanted(p)
      /\ tree' = tree /\ options' = options
  BY SameCall
<1>3. DOMAIN tree \subseteq Paths
  BY <1>1, TreeFacts
<1>4. /\ \A i \in DOMAIN found : found[i] \in DOMAIN tree /\ Wanted(found[i])
      /\ \A i \in DOMAIN found, j \in DOMAIN found : i < j => Precedes(found[i], found[j])
      /\ \A i \in DOMAIN found : Precedes(found[i], it)
  BY DEF FindInv, FoundInOrder, FoundIsBehind
<1>5. DOMAIN found = 1..Len(found) /\ Len(found) \in Nat
  BY <1>1
<1>6. FindTypeOK'
  <2>1. found' \in Seq(DOMAIN tree)
    BY <1>1
  <2>2. it' \in DOMAIN tree /\ answer' \in {"running", "ok", "error"}
    BY <1>1
  <2> QED BY <1>1, <1>2, <2>1, <2>2 DEF FindTypeOK
<1>7. FoundInOrder' /\ (\A i \in DOMAIN found' : found'[i] = it \/ Precedes(found'[i], it))
  <2>1. CASE found' = found
    BY <2>1, <1>2, <1>4 DEF FoundInOrder
  <2>2. CASE found' = Append(found, it) /\ Wanted(it)
    <3>1. /\ DOMAIN found' = 1..(Len(found) + 1) /\ found'[Len(found) + 1] = it
          /\ \A i \in DOMAIN found : found'[i] = found[i]
          /\ \A i \in DOMAIN found' : i \in DOMAIN found \/ i = Len(found) + 1
      BY <2>2, <1>1, <1>5
    <3>2. \A i \in DOMAIN found' : found'[i] \in DOMAIN tree /\ Wanted(found'[i])
      BY <3>1, <2>2, <1>1, <1>4
    <3>3. ASSUME NEW i \in DOMAIN found', NEW j \in DOMAIN found', i < j
          PROVE  Precedes(found'[i], found'[j])
      <4>1. i \in DOMAIN found
        BY <3>1, <3>3, <1>5
      <4> QED BY <4>1, <3>1, <3>3, <1>4
    <3>4. FoundInOrder'
      BY <3>2, <3>3, <1>2 DEF FoundInOrder
    <3>5. \A i \in DOMAIN found' : found'[i] = it \/ Precedes(found'[i], it)
      BY <3>1, <1>4
    <3> QED BY <3>4, <3>5
  <2> QED BY <2>1, <2>2
<1>8. FoundIsBehind'
  <2> SUFFICES ASSUME answer' = "running", it' # End, NEW i \in DOMAIN found'
               PROVE  Precedes(found'[i], it')
    BY DEF FoundIsBehind, End
  <2>1. Precedes(it, it') /\ it' \in DOMAIN tree
    OBVIOUS
  <2>2. found'[i] \in DOMAIN tree
    BY <1>2, <1>7 DEF FoundInOrder
  <2> QED BY <2>1, <2>2, <1>1, <1>3, <1>7, PrecedesAfter
<1> QED BY <1>6, <1>7, <1>8

(* ++ from the entry that was visited, or skipped because it is shallow.   *)
LEMMA MoveOnKeeps ==
    ASSUME FindInv, answer = "running", it # End, UNCHANGED <<tree, options>>, MoveOn(it),
           \/ found' = found /\ ~Wanted(it)
           \/ found' = Append(found, it) /\ Wanted(it)
    PROVE  FindInv'
<1>1. /\ tree \in FileTrees /\ options \in FindOptions /\ it \in DOMAIN tree
      /\ found \in Seq(DOMAIN tree)
  BY DEF FindInv, FindTypeOK
<1>2. IsFileTree(tree) /\ DOMAIN tree \subseteq Paths /\ << >> \in DOMAIN tree /\ it \in Paths
  BY <1>1, TreeFacts
<1>3. /\ \A p : Wanted(p)' <=> Wanted(p)
      /\ Shallow' <=> Shallow
      /\ CannotOpen' <=> CannotOpen
      /\ tree' = tree /\ options' = options
  BY SameCall
<1>4. \/ answer' = "error" /\ it' = it /\ tree[it] = "locked"
      \/ answer' = answer /\ it' = Increment(it) /\ tree[it] # "locked"
  BY DEF MoveOn
<1>5. it' \in DOMAIN tree /\ (answer' = "error" \/ it' = End \/ Precedes(it, it'))
  BY <1>1, <1>2, <1>4, IncrementGoesOn DEF End
<1>6. FindTypeOK' /\ FoundInOrder' /\ FoundIsBehind'
  <2>1. \/ answer' = "error" /\ it' = it
        \/ answer' = answer /\ it' \in DOMAIN tree /\ (it' = End \/ Precedes(it, it'))
    BY <1>4, <1>5
  <2> QED BY <2>1, MovesKeep
<1>7. NothingMissed'
  <2>1. tree[<< >>] = "dir"
    BY DEF FindInv, NothingMissed
  <2>2. CASE answer' = "error"
    <3>1. CannotOpen'
      BY <2>2, <1>1, <1>3, <1>4 DEF CannotOpen
    <3> QED BY <3>1, <2>1, <2>2, <1>3 DEF NothingMissed
  <2>3. CASE answer' # "error"
    <3>1. answer' = "running" /\ it' = Increment(it) /\ tree[it] # "locked"
      BY <2>3, <1>4
    <3>2. ASSUME Shallow, NEW p \in DOMAIN tree, Missing(p)' \/ tree[p] = "locked"
          PROVE  Ahead(p)'
      <4>1. p # it
        <5>1. CASE tree[p] = "locked"
          BY <5>1, <3>1
        <5>2. CASE Missing(p)'
          <6>1. Wanted(p) /\ \A i \in DOMAIN found' : found'[i] # p
            BY <5>2, <1>3 DEF Missing
          <6>2. CASE found' = found /\ ~Wanted(it)
            BY <6>1, <6>2
          <6>3. CASE found' = Append(found, it)
            <7>1. Len(found) + 1 \in DOMAIN found' /\ found'[Len(found) + 1] = it
              BY <6>3, <1>1
            <7> QED BY <7>1, <6>1
          <6> QED BY <6>2, <6>3
        <5> QED BY <5>1, <5>2, <3>2
      <4>2. Missing(p) \/ tree[p] = "locked"
        <5>1. CASE Missing(p)'
          <6>1. \A i \in DOMAIN found : i \in DOMAIN found' /\ found'[i] = found[i]
            BY <1>1
          <6> QED BY <5>1, <6>1, <1>3 DEF Missing
        <5> QED BY <5>1, <3>2
      <4>3. Precedes(it, p)
        BY <4>1, <4>2, <3>2 DEF FindInv, NothingMissed, Ahead
      <4> QED BY <4>3, <3>1, <1>2, IncrementIsNext DEF Ahead, End
    <3> QED BY <3>1, <3>2, <2>1, <1>3 DEF NothingMissed
  <2> QED BY <2>2, <2>3
<1> QED BY <1>6, <1>7 DEF FindInv

(* Pop goes forward too, past what is below the directory above.           *)
LEMMA PopGoesOn ==
    ASSUME NEW p \in Paths, p # << >>, Pop(p) # End
    PROVE  Pop(p) \in DOMAIN tree /\ Pop(p) \in Paths /\ Precedes(p, Pop(p))
<1> DEFINE f == Front(p)
<1>1. f \in Paths /\ Len(f) = Len(p) - 1 /\ Len(p) \in Nat /\ \A i \in 1..(Len(p) - 1) : f[i] = p[i]
  BY FrontFacts DEF Paths
<1> HIDE DEF f
<1>2. PICK k \in DOMAIN f : Advance(f) = Sibling(f, k) /\ Sibling(f, k) \in DOMAIN tree
  BY <1>1, AdvanceFacts DEF Pop, f
<1> DEFINE s == Sibling(f, k)
<1>3. /\ s \in Paths /\ Len(s) = k /\ k \in 1..Len(f)
      /\ \A i \in 1..(k - 1) : s[i] = f[i]
      /\ s[k] = f[k] + 1 /\ f[k] \in Nat
  BY <1>1, <1>2, SiblingFacts
<1> HIDE DEF s
<1>4. k \in DOMAIN p /\ k \in DOMAIN s /\ p[k] < s[k] /\ \A i \in 1..(k - 1) : i \in DOMAIN p /\ p[i] = s[i]
  <2>1. k \in 1..Len(p) /\ DOMAIN p = 1..Len(p) /\ DOMAIN s = 1..k
    BY <1>1, <1>3 DEF Paths
  <2>2. p[k] = f[k]
    BY <1>1, <1>3
  <2>3. \A i \in 1..(k - 1) : i \in 1..Len(p) /\ p[i] = f[i]
    BY <1>1, <1>3
  <2> QED BY <2>1, <2>2, <2>3, <1>3
<1>5. Precedes(p, s)
  BY <1>4 DEF Precedes
<1> QED BY <1>2, <1>3, <1>5 DEF Pop, s, f

LEMMA SkipDeepKeeps ==
    ASSUME FindInv, answer = "running", it # End, SkipDeep
    PROVE  FindInv'
<1>1. /\ tree \in FileTrees /\ options \in FindOptions /\ it \in DOMAIN tree
      /\ found \in Seq(DOMAIN tree)
  BY DEF FindInv, FindTypeOK
<1>2. DOMAIN tree \subseteq Paths /\ it \in Paths
  BY <1>1, TreeFacts
<1>3. /\ Len(it) - 1 > options.maxdepth /\ MoveOn(Pop(it))
      /\ UNCHANGED <<tree, options>> /\ found' = found
  BY DEF SkipDeep, Depth
<1>4. /\ Shallow' <=> Shallow
      /\ tree' = tree /\ options' = options
  BY <1>3, SameCall
<1>5. \/ answer' = "error" /\ it' = it
      \/ answer' = answer /\ it' = Increment(Pop(it)) /\ Pop(it) # End
  BY <1>3 DEF MoveOn
<1>6. \/ answer' = "error" /\ it' = it
      \/ answer' = answer /\ it' \in DOMAIN tree /\ (it' = End \/ Precedes(it, it'))
  <2>1. CASE answer' = "error" /\ it' = it
    BY <2>1
  <2>2. CASE answer' = answer /\ it' = Increment(Pop(it)) /\ Pop(it) # End
    <3>1. Pop(it) \in DOMAIN tree /\ Pop(it) \in Paths /\ Precedes(it, Pop(it))
      BY <1>2, <2>2, PopGoesOn DEF End
    <3>2. it' # End => it' \in DOMAIN tree /\ Precedes(Pop(it), it')
      BY <3>1, <2>2, IncrementGoesOn
    <3>3. it' # End => Precedes(it, it')
      BY <3>1, <3>2, <1>2, PrecedesAfter
    <3>4. it' \in DOMAIN tree
      BY <3>2, <1>1, TreeFacts DEF End
    <3> QED BY <3>3, <3>4, <2>2
  <2> QED BY <2>1, <2>2, <1>5
<1>7. FindTypeOK' /\ FoundInOrder' /\ FoundIsBehind'
  BY <1>3, <1>6, MovesKeep
<1>8. NothingMissed'
  <2>1. ~Shallow
    <3>1. Len(it) \in Nat /\ options.maxdepth \in Int
      BY <1>1, <1>2, FindOptionsAssumption DEF Paths
    <3> QED BY <3>1, <1>1, <1>3 DEF Shallow
  <2>2. tree[<< >>] = "dir"
    BY DEF FindInv, NothingMissed
  <2> QED BY <2>1, <2>2, <1>4 DEF NothingMissed
<1> QED BY <1>7, <1>8 DEF FindInv

LEMMA FindEndsKeeps ==
    ASSUME FindInv, answer = "running", FindEnds
    PROVE  FindInv'
<1>1. it = End /\ answer' = "ok" /\ UNCHANGED <<tree, options>> /\ it' = it /\ found' = found
  BY DEF FindEnds
<1>2. /\ \A p : Wanted(p)' <=> Wanted(p)
      /\ Shallow' <=> Shallow
      /\ CannotOpen' <=> CannotOpen
      /\ tree' = tree /\ options' = options
  BY <1>1, SameCall
<1>3. FindTypeOK' /\ FoundInOrder' /\ FoundIsBehind'
  BY <1>1, <1>2 DEF FindInv, FindTypeOK, FoundInOrder, FoundIsBehind
<1>4. NothingMissed'
  <2>1. ASSUME Shallow
        PROVE  ~CannotOpen /\ \A p \in DOMAIN tree : ~Missing(p)
    <3>1. /\ tree[<< >>] = "dir"
          /\ \A p \in DOMAIN tree : Missing(p) \/ tree[p] = "locked" => Ahead(p)
      BY <2>1 DEF FindInv, NothingMissed
    <3>2. \A p \in DOMAIN tree : ~Ahead(p)
      BY <1>1 DEF Ahead
    <3> QED BY <3>1, <3>2 DEF CannotOpen
  <2>2. \A p : Missing(p)' <=> Missing(p)
    BY <1>1, <1>2 DEF Missing
  <2> QED BY <2>1, <2>2, <1>1, <1>2 DEF NothingMissed
<1> QED BY <1>3, <1>4 DEF FindInv

(* What is in range and matches is what is wanted.                         *)
LEMMA WantedInRange ==
    ASSUME FindInv, it # End
    PROVE  Wanted(it) <=> InRange /\ Matches(tree[it])
<1>1. options \in FindOptions /\ it \in Paths
  BY TreeFacts DEF FindInv, FindTypeOK
<1>2. Len(it) \in Nat /\ options.mindepth \in Int /\ options.maxdepth \in Int
  BY <1>1, FindOptionsAssumption DEF Paths
<1>3. Len(it) - 1 \in options.mindepth .. options.maxdepth <=> InRange
  BY <1>2 DEF InRange, Depth
<1> QED BY <1>3 DEF Wanted, End

LEMMA FindGoesOn == FindInv /\ [FindNext]_findVars => FindInv'
<1> SUFFICES ASSUME FindInv, [FindNext]_findVars
             PROVE  FindInv'
  OBVIOUS
<1>1. CASE answer = "running" /\ it # End /\ VisitEntry
  <2>1. Wanted(it) <=> InRange /\ Matches(tree[it])
    BY <1>1, WantedInRange
  <2>2. /\ InRange /\ MoveOn(it) /\ UNCHANGED <<tree, options>>
        /\ found' = IF Matches(tree[it]) THEN Append(found, it) ELSE found
    BY <1>1 DEF VisitEntry
  <2> QED BY <1>1, <2>1, <2>2, MoveOnKeeps
<1>2. CASE answer = "running" /\ it # End /\ SkipShallow
  <2>1. ~Wanted(it)
    BY <1>2, WantedInRange DEF SkipShallow
  <2>2. MoveOn(it) /\ UNCHANGED <<tree, options>> /\ found' = found
    BY <1>2 DEF SkipShallow
  <2> QED BY <1>2, <2>1, <2>2, MoveOnKeeps
<1>3. CASE answer = "running" /\ it # End /\ SkipDeep
  BY <1>3, SkipDeepKeeps
<1>4. CASE answer = "running" /\ FindEnds
  BY <1>4, FindEndsKeeps
<1>5. CASE UNCHANGED findVars
  <2>1. /\ tree' = tree /\ options' = options /\ it' = it /\ found' = found /\ answer' = answer
    BY <1>5 DEF findVars
  <2>2. /\ \A p : Wanted(p)' <=> Wanted(p)
        /\ Shallow' <=> Shallow
        /\ CannotOpen' <=> CannotOpen
    BY <2>1, SameCall
  <2>3. FindTypeOK' /\ FoundInOrder' /\ FoundIsBehind'
    BY <2>1, <2>2 DEF FindInv, FindTypeOK, FoundInOrder, FoundIsBehind
  <2>4. /\ \A p : Missing(p)' <=> Missing(p)
        /\ \A p : Ahead(p)' <=> Ahead(p)
    BY <2>1, <2>2 DEF Missing, Ahead, End
  <2>5. NothingMissed'
    BY <2>1, <2>2, <2>4 DEF FindInv, NothingMissed
  <2> QED BY <2>3, <2>5 DEF FindInv
<1> QED BY <1>1, <1>2, <1>3, <1>4, <1>5 DEF FindNext

LEMMA FindInvSuffices == FindInv => FindIsExactInShallowTrees
<1> SUFFICES ASSUME FindInv, Shallow
             PROVE  FindIsExact /\ (answer = "ok" => ~CannotOpen)
  BY DEF FindIsExactInShallowTrees, Shallow
<1>1. ASSUME answer = "ok"
      PROVE  /\ \A i \in DOMAIN found, j \in DOMAIN found : i < j => Precedes(found[i], found[j])
             /\ {found[i] : i \in DOMAIN found} = {p \in DOMAIN tree : Wanted(p)}
             /\ ~CannotOpen
  <2>1. ~CannotOpen /\ \A p \in DOMAIN tree : ~Missing(p)
    BY <1>1 DEF FindInv, NothingMissed
  <2>2. /\ \A i \in DOMAIN found : found[i] \in DOMAIN tree /\ Wanted(found[i])
        /\ \A i \in DOMAIN found, j \in DOMAIN found : i < j => Precedes(found[i], found[j])
    BY DEF FindInv, FoundInOrder
  <2>3. \A p \in DOMAIN tree : Wanted(p) => \E i \in DOMAIN found : found[i] = p
    BY <2>1 DEF Missing
  <2> QED BY <2>1, <2>2, <2>3
<1>2. answer = "error" => CannotOpen
  BY DEF FindInv, NothingMissed
<1> QED BY <1>1, <1>2 DEF FindIsExact

(* In a tree no deeper than maxdepth a walk that ends well found exactly   *)
(* what is wanted, in order, and one that fails met a directory that       *)
(* cannot be opened: for every tree and all options.                       *)
THEOREM FindIsExactInShallowTreesHolds == FindSpec => []FindIsExactInShallowTrees
<1>1. FindInit => FindInv
  BY FindStarts
<1>2. FindInv /\ [FindNext]_findVars => FindInv'
  BY FindGoesOn
<1>3. FindInv => FindIsExactInShallowTrees
  BY FindInvSuffices
<1> QED BY <1>1, <1>2, <1>3, PTL DEF FindSpec

(* However deep a tree is, what a walk has found is wanted, and in the     *)
(* order of the walk, so nothing is found twice.                           *)
THEOREM FindGivesOnlyWhatIsWanted == FindSpec => []FoundInOrder
<1>1. FindInit => FindInv
  BY FindStarts
<1>2. FindInv /\ [FindNext]_findVars => FindInv'
  BY FindGoesOn
<1>3. FindInv => FoundInOrder
  BY DEF FindInv
<1> QED BY <1>1, <1>2, <1>3, PTL DEF FindSpec

-----------------------------------------------------------------------------
(***************************************************************************)
(* The fifth part: what the conversions between Lua values and JSON keep,  *)
(* of any value.  Each moves a tree to other paths, so first what that     *)
(* keeps, then the labels of each, then one after the other.               *)
(***************************************************************************)
-----------------------------------------------------------------------------
(* Values as trees: what is above a part is there too.                     *)
IsTree(v, K) ==
    /\ IsFiniteSet(DOMAIN v) /\ DOMAIN v \subseteq Seq(K) /\ << >> \in DOMAIN v
    /\ \A p \in DOMAIN v : p # << >> => Front(p) \in DOMAIN v

LEMMA PartFacts ==
    ASSUME NEW v, NEW K, IsTree(v, K), NEW p \in DOMAIN v
    PROVE  /\ p \in Seq(K) /\ Len(p) \in Nat /\ DOMAIN p = 1..Len(p)
           /\ \A k \in 0..Len(p) : SubSeq(p, 1, k) \in DOMAIN v
           /\ \A i \in 1..Len(p) : p[i] \in Keys(v, SubSeq(p, 1, i - 1)) /\ p[i] \in K
           /\ p # << >> => Last(p) \in Keys(v, Front(p))
<1>1. p \in Seq(K) /\ Len(p) \in Nat /\ DOMAIN p = 1..Len(p)
  BY DEF IsTree
<1>2. \A k \in 0..Len(p) : SubSeq(p, 1, k) \in DOMAIN v
  BY <1>1, HeadIn DEF IsTree
<1>3. ASSUME NEW i \in 1..Len(p)
      PROVE  p[i] \in Keys(v, SubSeq(p, 1, i - 1)) /\ p[i] \in K
  <2>1. i \in 0..Len(p) /\ i >= 1
    BY <1>1
  <2>2. SubSeq(p, 1, i) \in DOMAIN v
    BY <2>1, <1>2
  <2>3. /\ SubSeq(p, 1, i) # << >> /\ Front(SubSeq(p, 1, i)) = SubSeq(p, 1, i - 1)
        /\ Last(SubSeq(p, 1, i)) = p[i]
    BY <2>1, <1>1, HeadOf
  <2>4. p[i] \in K
    BY <1>1
  <2> QED BY <2>2, <2>3, <2>4 DEF Keys
<1>4. p # << >> => Last(p) \in Keys(v, Front(p))
  BY DEF Keys
<1> QED BY <1>1, <1>2, <1>3, <1>4

(* A key leads to a part.                                                  *)
LEMMA KeyFacts ==
    ASSUME NEW v, NEW K, IsTree(v, K), NEW p, NEW k \in Keys(v, p)
    PROVE  Append(p, k) \in DOMAIN v /\ p \in DOMAIN v /\ k \in K
<1>1. PICK q \in DOMAIN v : q # << >> /\ Front(q) = p /\ Last(q) = k
  BY DEF Keys
<1>2. q \in Seq(K) /\ p \in DOMAIN v
  BY <1>1 DEF IsTree
<1>3. /\ p \in Seq(K) /\ Len(p) = Len(q) - 1 /\ Len(q) \in Nat \ {0}
      /\ \A i \in 1..(Len(q) - 1) : p[i] = q[i]
      /\ k = q[Len(q)] /\ k \in K
  BY <1>1, <1>2, FrontFacts
<1>4. /\ Append(p, k) \in Seq(K) /\ Len(Append(p, k)) = Len(q)
      /\ \A i \in 1..Len(q) : Append(p, k)[i] = IF i = Len(q) THEN k ELSE p[i]
  BY <1>3
<1>5. \A i \in 1..Len(q) : Append(p, k)[i] = q[i]
  BY <1>3, <1>4
<1>6. Append(p, k) = q
  BY <1>2, <1>4, <1>5, SeqEqual
<1> QED BY <1>2, <1>3, <1>6

(* And none beyond a path that is not there.                               *)
LEMMA NoKeys ==
    ASSUME NEW v, NEW K, IsTree(v, K), NEW p, p \notin DOMAIN v
    PROVE  Keys(v, p) = {}
BY KeyFacts

(* The last key, and what is before it.                                    *)
LEMMA AppendedFacts ==
    ASSUME NEW K, NEW p \in Seq(K), NEW k \in K
    PROVE  /\ Append(p, k) \in Seq(K) /\ Append(p, k) # << >>
           /\ Front(Append(p, k)) = p /\ Last(Append(p, k)) = k
<1> DEFINE q == Append(p, k)
<1>1. /\ q \in Seq(K) /\ Len(q) = Len(p) + 1 /\ Len(p) \in Nat
      /\ q[Len(p) + 1] = k /\ \A i \in 1..Len(p) : q[i] = p[i]
  OBVIOUS
<1> HIDE DEF q
<1>2. q # << >>
  BY <1>1
<1>3. /\ Front(q) \in Seq(K) /\ Len(Front(q)) = Len(q) - 1
      /\ \A i \in 1..(Len(q) - 1) : Front(q)[i] = q[i]
      /\ Last(q) = q[Len(q)]
  BY <1>1, <1>2, FrontFacts
<1>4. Len(q) - 1 = Len(p)
  BY <1>1
<1>5. Front(q) = p
  BY <1>1, <1>3, <1>4, SeqEqual
<1>6. q \in Seq(K) /\ q # << >> /\ Front(q) = p /\ Last(q) = k
  BY <1>1, <1>2, <1>3, <1>5
<1> QED BY <1>6, Zenon DEF q

(* Paths with the same front and the same last key are the same.           *)
LEMMA SamePath ==
    ASSUME NEW K, NEW p \in Seq(K), NEW q \in Seq(K), p # << >>, q # << >>,
           Front(p) = Front(q), Last(p) = Last(q)
    PROVE  p = q
<1>1. /\ Len(Front(p)) = Len(p) - 1 /\ Len(p) \in Nat \ {0}
      /\ \A i \in 1..(Len(p) - 1) : Front(p)[i] = p[i]
      /\ Last(p) = p[Len(p)]
  BY FrontFacts
<1>2. /\ Len(Front(q)) = Len(q) - 1 /\ Len(q) \in Nat \ {0}
      /\ \A i \in 1..(Len(q) - 1) : Front(q)[i] = q[i]
      /\ Last(q) = q[Len(q)]
  BY FrontFacts
<1>3. Len(p) = Len(q)
  BY <1>1, <1>2
<1>4. \A i \in 1..Len(p) : p[i] = q[i]
  <2> SUFFICES ASSUME NEW i \in 1..Len(p) PROVE p[i] = q[i]
    OBVIOUS
  <2>1. CASE i = Len(p)
    BY <2>1, <1>1, <1>2, <1>3
  <2>2. CASE i # Len(p)
    <3>1. i \in 1..(Len(p) - 1)
      BY <2>2, <1>1
    <3> QED BY <3>1, <1>1, <1>2, <1>3
  <2> QED BY <2>1, <2>2
<1> QED BY <1>3, <1>4, SeqEqual

(* A value with one more part.                                             *)
HasPart(w, v, K, p, k, node) ==
    LET new == Append(p, k)
    IN  /\ IsTree(w, K) /\ DOMAIN w = DOMAIN v \cup {new} /\ new \notin DOMAIN v
        /\ w[new] = node /\ Keys(w, new) = {}
        /\ \A q \in DOMAIN v : w[q] = v[q] /\ (q # p => Keys(w, q) = Keys(v, q))
        /\ Keys(w, p) = Keys(v, p) \cup {k}

LEMMA WithPartFacts ==
    ASSUME NEW v, NEW K, IsTree(v, K), NEW p \in DOMAIN v, NEW k \in K, k \notin Keys(v, p), NEW node
    PROVE  HasPart(WithPart(v, p, k, node), v, K, p, k, node)
<1> DEFINE w == WithPart(v, p, k, node)
           new == Append(p, k)
<1>1. p \in Seq(K)
  BY DEF IsTree
<1>2. new \in Seq(K) /\ new # << >> /\ Front(new) = p /\ Last(new) = k
  BY <1>1, AppendedFacts, Zenon
<1>3. DOMAIN w = DOMAIN v \cup {new} /\ \A q \in DOMAIN w : w[q] = IF q = new THEN node ELSE v[q]
  BY DEF WithPart
<1> HIDE DEF w, new
<1>4. new \notin DOMAIN v
  BY <1>2 DEF Keys
<1>5. IsTree(w, K)
  <2>1. IsFiniteSet(DOMAIN w)
    BY <1>3, FS_AddElement DEF IsTree
  <2> QED BY <2>1, <1>2, <1>3 DEF IsTree
<1>6. \A q : Keys(w, q) = IF q = p THEN Keys(v, q) \cup {k} ELSE Keys(v, q)
  BY <1>2, <1>3 DEF Keys
<1>7. new # p
  BY <1>4
<1>8. Keys(v, new) = {}
  BY <1>4, NoKeys
<1>9. /\ IsTree(w, K) /\ DOMAIN w = DOMAIN v \cup {new} /\ new \notin DOMAIN v
      /\ w[new] = node /\ Keys(w, new) = {}
      /\ \A q \in DOMAIN v : w[q] = v[q] /\ (q # p => Keys(w, q) = Keys(v, q))
      /\ Keys(w, p) = Keys(v, p) \cup {k}
  BY <1>3, <1>4, <1>5, <1>6, <1>7, <1>8
<1> QED BY <1>9, Zenon DEF HasPart, w, new

Accepted(labels) == \A p \in DOMAIN labels : ~(Len(p) > MaxNesting) /\ labels[p] # Unfit

(* Places that keep what is above what, and one for each path.             *)
Carries(labels, places, M) ==
    /\ \A p \in DOMAIN labels : places[p] \in Seq(M) /\ Len(places[p]) = Len(p)
    /\ \A p \in DOMAIN labels : p # << >> => places[Front(p)] = Front(places[p])
    /\ \A p \in DOMAIN labels, q \in DOMAIN labels : places[p] = places[q] => p = q

(* The tree v has the labels at those places, and no other part.           *)
IsMoved(v, labels, places, M) ==
    /\ IsTree(v, M) /\ DOMAIN v = {places[p] : p \in DOMAIN labels}
    /\ v = [q \in DOMAIN v |-> v[q]]
    /\ \A p \in DOMAIN labels :
          /\ v[places[p]] = labels[p]
          /\ Keys(v, places[p]) =
                 {Last(places[q]) : q \in {r \in DOMAIN labels : r # << >> /\ Front(r) = p}}

(* A tree that is accepted is moved as it is, key by key.                  *)
LEMMA MovedFacts ==
    ASSUME NEW K, NEW M, NEW labels, IsTree(labels, K), Accepted(labels),
           NEW places, Carries(labels, places, M)
    PROVE  IsMoved(Moved(labels, places), labels, places, M)
<1> DEFINE v == Moved(labels, places)
           D == DOMAIN labels
           E == {places[p] : p \in D}
<1>1. v = [q \in E |-> labels[CHOOSE p \in D : places[p] = q]]
  BY DEF Moved, Accepted
<1> HIDE DEF v
<1>0. /\ \A p \in D : places[p] \in Seq(M) /\ Len(places[p]) = Len(p)
      /\ \A p \in D : p # << >> => places[Front(p)] = Front(places[p])
      /\ \A p \in D, q \in D : places[p] = places[q] => p = q
  BY DEF Carries
<1>2. DOMAIN v = E /\ v = [q \in DOMAIN v |-> v[q]]
  BY <1>1
<1>3. ASSUME NEW p \in D
      PROVE  v[places[p]] = labels[p]
  <2>1. \A q \in D : places[q] = places[p] => q = p
    BY <1>0
  <2>2. (CHOOSE q \in D : places[q] = places[p]) = p
    BY <2>1
  <2>3. places[p] \in E
    OBVIOUS
  <2> QED BY <1>1, <2>2, <2>3
<1>4. ASSUME NEW p \in D
      PROVE  p \in Seq(K) /\ (p = << >> <=> places[p] = << >>)
  <2>1. p \in Seq(K) /\ places[p] \in Seq(M) /\ Len(places[p]) = Len(p)
    BY <1>0 DEF IsTree
  <2> QED BY <2>1
<1>5. IsTree(v, M)
  <2>1. IsFiniteSet(E)
    <3> DEFINE f == [p \in D |-> places[p]]
    <3>1. f \in Surjection(D, E)
      BY DEF Surjection
    <3> HIDE DEF f, E
    <3> QED BY <3>1, FS_Surjection DEF IsTree
  <2>2. E \subseteq Seq(M)
    BY <1>0
  <2>3. << >> \in E
    BY <1>4 DEF IsTree
  <2>4. ASSUME NEW q \in E, q # << >>
        PROVE  Front(q) \in E
    <3>1. PICK p \in D : q = places[p]
      OBVIOUS
    <3>2. p # << >>
      BY <3>1, <2>4, <1>4
    <3>3. Front(p) \in D /\ Front(q) = places[Front(p)]
      BY <3>1, <3>2, <1>0 DEF IsTree
    <3> QED BY <3>3
  <2> HIDE DEF E
  <2> QED BY <1>2, <2>1, <2>2, <2>3, <2>4 DEF IsTree
<1>6. ASSUME NEW p \in D
      PROVE  Keys(v, places[p]) = {Last(places[q]) : q \in {q \in D : q # << >> /\ Front(q) = p}}
  <2>1. ASSUME NEW r \in E, r # << >>, Front(r) = places[p]
        PROVE  \E q \in D : q # << >> /\ Front(q) = p /\ r = places[q]
    <3>1. PICK q \in D : r = places[q]
      OBVIOUS
    <3>2. q # << >>
      BY <3>1, <2>1, <1>4
    <3>3. Front(q) \in D /\ places[Front(q)] = places[p]
      BY <3>1, <3>2, <2>1, <1>0 DEF IsTree
    <3>4. Front(q) = p
      BY <3>3, <1>0
    <3> QED BY <3>1, <3>2, <3>4
  <2>2. ASSUME NEW q \in D, q # << >>, Front(q) = p
        PROVE  places[q] \in E /\ places[q] # << >> /\ Front(places[q]) = places[p]
    BY <2>2, <1>0, <1>4
  <2> HIDE DEF E
  <2> QED BY <1>2, <2>1, <2>2 DEF Keys
<1>7. IsMoved(v, labels, places, M)
  BY <1>2, <1>3, <1>5, <1>6 DEF IsMoved
<1> QED BY <1>7 DEF v

LEMMA MovedOrRefused ==
    ASSUME NEW labels, NEW places, << >> \in DOMAIN labels
    PROVE  Moved(labels, places) # Refused => Accepted(labels)
BY DEF Moved, Accepted

LEMMA FittingIsNotRefused ==
    ASSUME NEW K, NEW v, IsTree(v, K)
    PROVE  v # Refused
<1>1. DOMAIN Refused = {}
  BY DEF Refused
<1> QED BY <1>1 DEF IsTree

-----------------------------------------------------------------------------
(* The keys of JSON, and all that those of a Lua table are made of.        *)
JsonKeys == Int \cup Names
TypedKeys == {"integer", "float", "boolean", "string"} \X JsonKeys

KeyType(node) == IF node = Array THEN "integer" ELSE "string"

LEMMA FrontOfHead ==
    ASSUME NEW K, NEW p \in Seq(K), p # << >>, NEW i \in 0..(Len(p) - 1)
    PROVE  SubSeq(Front(p), 1, i) = SubSeq(p, 1, i)
<1> DEFINE f == Front(p)
<1>1. f \in Seq(K) /\ Len(f) = Len(p) - 1 /\ Len(p) \in Nat \ {0} /\ \A k \in 1..(Len(p) - 1) : f[k] = p[k]
  BY FrontFacts
<1> HIDE DEF f
<1>2. i \in 0..Len(f) /\ i \in 0..Len(p) /\ \A k \in 1..i : k \in 1..(Len(p) - 1)
  BY <1>1
<1>3. SubSeq(f, 1, i) \in Seq(K) /\ Len(SubSeq(f, 1, i)) = i /\ \A k \in 1..i : SubSeq(f, 1, i)[k] = f[k]
  BY <1>1, <1>2, HeadOf
<1>4. SubSeq(p, 1, i) \in Seq(K) /\ Len(SubSeq(p, 1, i)) = i /\ \A k \in 1..i : SubSeq(p, 1, i)[k] = p[k]
  BY <1>2, HeadOf
<1>5. \A k \in 1..i : SubSeq(f, 1, i)[k] = SubSeq(p, 1, i)[k]
  BY <1>1, <1>2, <1>3, <1>4
<1>6. SubSeq(f, 1, i) = SubSeq(p, 1, i)
  BY <1>3, <1>4, <1>5, SeqEqual
<1> QED BY <1>6 DEF f

(* The path that Typed gives.                                              *)
LEMMA TypedFacts ==
    ASSUME NEW j, NEW p \in Seq(JsonKeys)
    PROVE  /\ Typed(j, p) \in Seq(TypedKeys) /\ Len(Typed(j, p)) = Len(p) /\ Untyped(Typed(j, p)) = p
           /\ \A i \in 1..Len(p) : Typed(j, p)[i] = <<KeyType(j[SubSeq(p, 1, i - 1)]), p[i]>>
           /\ p # << >> => /\ Front(Typed(j, p)) = Typed(j, Front(p))
                           /\ Last(Typed(j, p)) = <<KeyType(j[Front(p)]), Last(p)>>
<1> DEFINE t == Typed(j, p)
           n == Len(p)
<1>1. n \in Nat /\ DOMAIN p = 1..n /\ \A i \in 1..n : p[i] \in JsonKeys
  OBVIOUS
<1>2. t = [i \in 1..n |-> <<KeyType(j[SubSeq(p, 1, i - 1)]), p[i]>>]
  BY <1>1 DEF Typed, KeyType
<1>3. \A i \in 1..n : <<KeyType(j[SubSeq(p, 1, i - 1)]), p[i]>> \in TypedKeys
  BY <1>1 DEF TypedKeys, KeyType
<1>4. t \in Seq(TypedKeys) /\ Len(t) = n /\ \A i \in 1..n : t[i] = <<KeyType(j[SubSeq(p, 1, i - 1)]), p[i]>>
  BY <1>1, <1>2, <1>3
<1> HIDE DEF t
<1>5. Untyped(t) = p
  <2>1. Untyped(t) = [i \in 1..n |-> t[i][2]]
    BY <1>1, <1>4 DEF Untyped
  <2>2. \A i \in 1..n : t[i][2] = p[i]
    BY <1>4
  <2>3. \A i \in 1..n : Untyped(t)[i] = p[i]
    BY <2>1, <2>2
  <2>4. Untyped(t) \in Seq(JsonKeys) /\ Len(Untyped(t)) = n
    BY <2>1, <2>2, <1>1
  <2> QED BY <2>3, <2>4, SeqEqual
<1>6. ASSUME p # << >>
      PROVE  Front(t) = Typed(j, Front(p)) /\ Last(t) = <<KeyType(j[Front(p)]), Last(p)>>
  <2> DEFINE f == Front(p)
             u == Typed(j, f)
  <2>1. /\ f \in Seq(JsonKeys) /\ Len(f) = n - 1 /\ n \in Nat \ {0} /\ \A i \in 1..(n - 1) : f[i] = p[i]
        /\ Last(p) = p[n]
    BY <1>6, FrontFacts
  <2>2. f = SubSeq(p, 1, n - 1)
    BY DEF Front
  <2> HIDE DEF f
  <2>3. t # << >>
    BY <1>4, <2>1
  <2>4. /\ Front(t) \in Seq(TypedKeys) /\ Len(Front(t)) = n - 1 /\ \A i \in 1..(n - 1) : Front(t)[i] = t[i]
        /\ Last(t) = t[n]
    BY <1>4, <2>3, FrontFacts
  <2>5. Last(t) = <<KeyType(j[f]), Last(p)>>
    <3>1. n \in 1..n
      BY <2>1
    <3> QED BY <1>4, <2>1, <2>2, <2>4, <3>1
  <2>6. u = [i \in 1..(n - 1) |-> <<KeyType(j[SubSeq(f, 1, i - 1)]), f[i]>>]
    <3>1. DOMAIN f = 1..(n - 1)
      BY <2>1
    <3> QED BY <3>1 DEF Typed, KeyType
  <2> HIDE DEF u
  <2>7. ASSUME NEW i \in 1..(n - 1)
        PROVE  Front(t)[i] = u[i] /\ u[i] \in TypedKeys
    <3>1. i - 1 \in 0..(Len(p) - 1) /\ i \in 1..n
      BY <2>1
    <3>2. SubSeq(f, 1, i - 1) = SubSeq(p, 1, i - 1)
      BY <3>1, <1>6, FrontOfHead DEF f
    <3>3. u[i] = <<KeyType(j[SubSeq(p, 1, i - 1)]), p[i]>>
      BY <2>1, <2>6, <3>2
    <3> QED BY <3>1, <3>3, <2>4, <1>3, <1>4
  <2>8. u \in Seq(TypedKeys) /\ Len(u) = n - 1
    <3>1. n - 1 \in Nat
      BY <2>1
    <3>2. DOMAIN u = 1..(n - 1) /\ u = [i \in 1..(n - 1) |-> u[i]]
      BY <2>6
    <3>3. \A i \in 1..(n - 1) : u[i] \in TypedKeys
      BY <2>7
    <3> QED BY <3>1, <3>2, <3>3
  <2>9. Front(t) = u
    BY <2>4, <2>7, <2>8, SeqEqual
  <2> QED BY <2>5, <2>9 DEF f, u
<1>7. /\ t \in Seq(TypedKeys) /\ Len(t) = Len(p) /\ Untyped(t) = p
      /\ \A i \in 1..Len(p) : t[i] = <<KeyType(j[SubSeq(p, 1, i - 1)]), p[i]>>
      /\ p # << >> => /\ Front(t) = Typed(j, Front(p))
                      /\ Last(t) = <<KeyType(j[Front(p)]), Last(p)>>
  BY <1>4, <1>5, <1>6
<1> QED BY <1>7, Zenon DEF t

LEMMA UntypedFacts ==
    ASSUME NEW p \in Seq(TypedKeys)
    PROVE  /\ Untyped(p) \in Seq(JsonKeys) /\ Len(Untyped(p)) = Len(p)
           /\ \A i \in 1..Len(p) : Untyped(p)[i] = p[i][2]
           /\ p # << >> => Front(Untyped(p)) = Untyped(Front(p)) /\ Last(Untyped(p)) = Last(p)[2]
           /\ \A k \in 0..Len(p) : Untyped(SubSeq(p, 1, k)) = SubSeq(Untyped(p), 1, k)
<1> DEFINE u == Untyped(p)
           n == Len(p)
<1>1. n \in Nat /\ DOMAIN p = 1..n /\ \A i \in 1..n : p[i] \in TypedKeys
  OBVIOUS
<1>2. \A k \in TypedKeys : k[2] \in JsonKeys
  BY DEF TypedKeys
<1>3. u = [i \in 1..n |-> p[i][2]]
  BY <1>1 DEF Untyped
<1>4. u \in Seq(JsonKeys) /\ Len(u) = n /\ \A i \in 1..n : u[i] = p[i][2]
  BY <1>1, <1>2, <1>3
<1> HIDE DEF u
<1>5. ASSUME NEW k \in 0..n
      PROVE  Untyped(SubSeq(p, 1, k)) = SubSeq(u, 1, k)
  <2> DEFINE h == SubSeq(p, 1, k)
             g == SubSeq(u, 1, k)
             w == Untyped(h)
  <2>1. h \in Seq(TypedKeys) /\ Len(h) = k /\ \A i \in 1..k : h[i] = p[i]
    BY HeadOf
  <2>2. g \in Seq(JsonKeys) /\ Len(g) = k /\ \A i \in 1..k : g[i] = u[i]
    BY <1>4, HeadOf
  <2> HIDE DEF h, g
  <2>3. w = [i \in 1..k |-> h[i][2]]
    BY <2>1 DEF Untyped
  <2> HIDE DEF w
  <2>4. \A i \in 1..k : i \in 1..n /\ w[i] = g[i] /\ w[i] \in JsonKeys
    <3> SUFFICES ASSUME NEW i \in 1..k PROVE i \in 1..n /\ w[i] = g[i] /\ w[i] \in JsonKeys
      OBVIOUS
    <3>1. i \in 1..n
      BY <1>1
    <3> QED BY <3>1, <2>1, <2>2, <2>3, <1>1, <1>2, <1>4
  <2>5. w \in Seq(JsonKeys) /\ Len(w) = k
    <3>1. DOMAIN w = 1..k /\ k \in Nat /\ w = [i \in 1..k |-> w[i]]
      BY <2>3, <1>1
    <3> QED BY <3>1, <2>4
  <2>6. w = g
    BY <2>2, <2>4, <2>5, SeqEqual
  <2> QED BY <2>6 DEF w, g, h
<1>6. ASSUME p # << >>
      PROVE  Front(u) = Untyped(Front(p)) /\ Last(u) = Last(p)[2]
  <2>1. n \in Nat \ {0} /\ n - 1 \in 0..n /\ n \in 1..n
    BY <1>1, <1>6
  <2>2. Front(p) = SubSeq(p, 1, n - 1) /\ Front(u) = SubSeq(u, 1, n - 1)
    BY <1>4 DEF Front
  <2>3. Last(p) = p[n] /\ Last(u) = u[n]
    BY <1>4 DEF Last
  <2> HIDE DEF n
  <2>4. Untyped(SubSeq(p, 1, n - 1)) = SubSeq(u, 1, n - 1)
    BY <2>1, <1>5
  <2> QED BY <2>1, <2>2, <2>3, <2>4, <1>4
<1>7. /\ u \in Seq(JsonKeys) /\ Len(u) = Len(p)
      /\ \A i \in 1..Len(p) : u[i] = p[i][2]
      /\ p # << >> => Front(u) = Untyped(Front(p)) /\ Last(u) = Last(p)[2]
      /\ \A k \in 0..Len(p) : Untyped(SubSeq(p, 1, k)) = SubSeq(u, 1, k)
  BY <1>4, <1>5, <1>6
<1> QED BY <1>7, Zenon DEF u

(* A JSON tree becomes a Lua tree: its parts, and their keys.              *)
BecomesLua(v, j, labels) ==
    /\ IsTree(v, TypedKeys) /\ DOMAIN v = {Typed(j, p) : p \in DOMAIN j}
    /\ v = [q \in DOMAIN v |-> v[q]]
    /\ \A p \in DOMAIN j :
          /\ Untyped(Typed(j, p)) = p /\ v[Typed(j, p)] = labels[p]
          /\ Keys(v, Typed(j, p)) = {<<KeyType(j[p]), k>> : k \in Keys(j, p)}

LEMMA ToLuaFacts ==
    ASSUME NEW j, IsTree(j, JsonKeys), NEW labels, DOMAIN labels = DOMAIN j, Accepted(labels),
           NEW v, v = ToLua(j, labels)
    PROVE  BecomesLua(v, j, labels)
<1> DEFINE places == [p \in DOMAIN j |-> Typed(j, p)]
<1>1. v = Moved(labels, places)
  BY DEF ToLua
<1>2. /\ \A p \in DOMAIN labels : places[p] = Typed(j, p)
      /\ \A p \in DOMAIN labels : p \in Seq(JsonKeys) /\ (p # << >> => Front(p) \in DOMAIN labels)
      /\ IsTree(labels, JsonKeys)
  BY DEF IsTree
<1> HIDE DEF places
<1>3. /\ \A p \in DOMAIN labels : places[p] \in Seq(TypedKeys) /\ Len(places[p]) = Len(p)
      /\ \A p \in DOMAIN labels : p # << >> => places[Front(p)] = Front(places[p])
      /\ \A p \in DOMAIN labels : Untyped(places[p]) = p
      /\ \A q \in DOMAIN labels : q # << >> => Last(places[q]) = <<KeyType(j[Front(q)]), Last(q)>>
  BY <1>2, TypedFacts
<1>4. Carries(labels, places, TypedKeys)
  <2>1. \A p \in DOMAIN labels, q \in DOMAIN labels : places[p] = places[q] => p = q
    BY <1>3
  <2> QED BY <2>1, <1>3 DEF Carries
<1>5. /\ IsTree(v, TypedKeys) /\ DOMAIN v = {places[p] : p \in DOMAIN labels}
      /\ v = [q \in DOMAIN v |-> v[q]]
      /\ \A p \in DOMAIN labels :
            /\ v[places[p]] = labels[p]
            /\ Keys(v, places[p]) =
                   {Last(places[q]) : q \in {r \in DOMAIN labels : r # << >> /\ Front(r) = p}}
  <2>1. IsMoved(v, labels, places, TypedKeys)
    BY <1>1, <1>2, <1>4, MovedFacts
  <2> QED BY <2>1 DEF IsMoved
<1>6. DOMAIN v = {Typed(j, p) : p \in DOMAIN j}
  BY <1>2, <1>5
<1>7. ASSUME NEW p \in DOMAIN j
      PROVE  /\ Untyped(Typed(j, p)) = p /\ v[Typed(j, p)] = labels[p]
             /\ Keys(v, Typed(j, p)) = {<<KeyType(j[p]), k>> : k \in Keys(j, p)}
  <2>1. Untyped(Typed(j, p)) = p /\ v[Typed(j, p)] = labels[p]
    BY <1>2, <1>3, <1>5
  <2>2. Keys(v, Typed(j, p)) = {Last(places[q]) : q \in {r \in DOMAIN labels : r # << >> /\ Front(r) = p}}
    BY <1>2, <1>5
  <2>3. \A q \in {r \in DOMAIN labels : r # << >> /\ Front(r) = p} :
            Last(places[q]) = <<KeyType(j[p]), Last(q)>>
    BY <1>3
  <2>4. Keys(j, p) = {Last(q) : q \in {r \in DOMAIN labels : r # << >> /\ Front(r) = p}}
    BY DEF Keys
  <2>5. Keys(v, Typed(j, p)) = {<<KeyType(j[p]), k>> : k \in Keys(j, p)}
    BY <2>2, <2>3, <2>4
  <2> QED BY <2>1, <2>5
<1> QED BY <1>5, <1>6, <1>7 DEF BecomesLua

(* Where the keys of each table are of the type its node says, no two      *)
(* paths become the same.                                                  *)
LEMMA UntypedIsInjective ==
    ASSUME NEW labels, IsTree(labels, TypedKeys),
           \A p \in DOMAIN labels : \A k \in Keys(labels, p) : k[1] = KeyType(labels[p]),
           NEW p \in DOMAIN labels, NEW q \in DOMAIN labels, Untyped(p) = Untyped(q)
    PROVE  p = q
<1>1. /\ p \in Seq(TypedKeys) /\ q \in Seq(TypedKeys) /\ Len(p) \in Nat
      /\ \A i \in 1..Len(p) : p[i] \in Keys(labels, SubSeq(p, 1, i - 1)) /\ p[i] \in TypedKeys
      /\ \A i \in 1..Len(q) : q[i] \in Keys(labels, SubSeq(q, 1, i - 1)) /\ q[i] \in TypedKeys
  BY PartFacts
<1>2. Len(p) = Len(q) /\ \A i \in 1..Len(p) : p[i][2] = q[i][2]
  <2>1. /\ Len(Untyped(p)) = Len(p) /\ \A i \in 1..Len(p) : Untyped(p)[i] = p[i][2]
        /\ Len(Untyped(q)) = Len(q) /\ \A i \in 1..Len(q) : Untyped(q)[i] = q[i][2]
    BY <1>1, UntypedFacts
  <2> QED BY <2>1
<1>3. SUFFICES ASSUME p # q
               PROVE  FALSE
  OBVIOUS
<1> DEFINE D == {i \in 1..Len(p) : p[i] # q[i]}
<1>4. D # {} /\ D \in SUBSET Nat
  <2>1. ~\A i \in 1..Len(p) : p[i] = q[i]
    BY <1>1, <1>2, <1>3, SeqEqual
  <2> QED BY <2>1
<1>5. PICK i \in D : \A k \in D : i <= k
  <2> HIDE DEF D
  <2> QED BY <1>4, LeastExists
<1>6. i \in 1..Len(p) /\ p[i] # q[i] /\ \A k \in 1..(i - 1) : p[k] = q[k]
  BY <1>1, <1>5
<1>7. SubSeq(p, 1, i - 1) = SubSeq(q, 1, i - 1)
  <2>1. i - 1 \in 0..Len(p) /\ i - 1 \in 0..Len(q)
    BY <1>1, <1>2, <1>6
  <2>2. /\ SubSeq(p, 1, i - 1) \in Seq(TypedKeys) /\ Len(SubSeq(p, 1, i - 1)) = i - 1
        /\ \A k \in 1..(i - 1) : SubSeq(p, 1, i - 1)[k] = p[k]
    BY <2>1, <1>1, HeadOf
  <2>3. /\ SubSeq(q, 1, i - 1) \in Seq(TypedKeys) /\ Len(SubSeq(q, 1, i - 1)) = i - 1
        /\ \A k \in 1..(i - 1) : SubSeq(q, 1, i - 1)[k] = q[k]
    BY <2>1, <1>1, HeadOf
  <2>4. \A k \in 1..(i - 1) : SubSeq(p, 1, i - 1)[k] = SubSeq(q, 1, i - 1)[k]
    BY <2>2, <2>3, <1>6
  <2> QED BY <2>2, <2>3, <2>4, SeqEqual
<1> DEFINE r == SubSeq(p, 1, i - 1)
<1>8. p[i] \in Keys(labels, r) /\ q[i] \in Keys(labels, r) /\ p[i] \in TypedKeys /\ q[i] \in TypedKeys
  BY <1>1, <1>2, <1>6, <1>7
<1> HIDE DEF r
<1>9. r \in DOMAIN labels
  BY <1>8, KeyFacts
<1>10. p[i][1] = q[i][1] /\ p[i][2] = q[i][2]
  BY <1>2, <1>6, <1>8, <1>9
<1>11. p[i] = q[i]
  BY <1>8, <1>10 DEF TypedKeys
<1> QED BY <1>6, <1>11

(* A Lua tree becomes a JSON tree, that tells the types of the keys.       *)
BecomesJson(j, labels) ==
    /\ IsTree(j, JsonKeys) /\ DOMAIN j = {Untyped(p) : p \in DOMAIN labels}
    /\ j = [q \in DOMAIN j |-> j[q]]
    /\ \A p \in DOMAIN labels :
          /\ j[Untyped(p)] = labels[p] /\ Typed(j, Untyped(p)) = p
          /\ Keys(j, Untyped(p)) = {k[2] : k \in Keys(labels, p)}

LEMMA ToJsonFacts ==
    ASSUME NEW labels, IsTree(labels, TypedKeys), Accepted(labels),
           \A p \in DOMAIN labels : \A k \in Keys(labels, p) : k[1] = KeyType(labels[p]),
           NEW j, j = ToJson(labels)
    PROVE  BecomesJson(j, labels)
<1> DEFINE places == [p \in DOMAIN labels |-> Untyped(p)]
<1>1. j = Moved(labels, places)
  BY DEF ToJson
<1>2. /\ \A p \in DOMAIN labels : places[p] = Untyped(p)
      /\ \A p \in DOMAIN labels : p \in Seq(TypedKeys) /\ (p # << >> => Front(p) \in DOMAIN labels)
  BY DEF IsTree
<1> HIDE DEF places
<1>3. /\ \A p \in DOMAIN labels : places[p] \in Seq(JsonKeys) /\ Len(places[p]) = Len(p)
      /\ \A p \in DOMAIN labels : p # << >> => places[Front(p)] = Front(places[p])
      /\ \A q \in DOMAIN labels : q # << >> => Last(places[q]) = Last(q)[2]
  BY <1>2, UntypedFacts
<1>4. Carries(labels, places, JsonKeys)
  <2>1. \A p \in DOMAIN labels, q \in DOMAIN labels : places[p] = places[q] => p = q
    BY <1>2, UntypedIsInjective
  <2> QED BY <2>1, <1>3 DEF Carries
<1>5. /\ IsTree(j, JsonKeys) /\ DOMAIN j = {places[p] : p \in DOMAIN labels}
      /\ j = [q \in DOMAIN j |-> j[q]]
      /\ \A p \in DOMAIN labels :
            /\ j[places[p]] = labels[p]
            /\ Keys(j, places[p]) =
                   {Last(places[q]) : q \in {r \in DOMAIN labels : r # << >> /\ Front(r) = p}}
  <2>1. IsMoved(j, labels, places, JsonKeys)
    BY <1>1, <1>4, MovedFacts
  <2> QED BY <2>1 DEF IsMoved
<1>6. DOMAIN j = {Untyped(p) : p \in DOMAIN labels}
  BY <1>2, <1>5
<1>7. \A p \in DOMAIN labels : j[Untyped(p)] = labels[p]
  BY <1>2, <1>5
<1>8. ASSUME NEW p \in DOMAIN labels
      PROVE  Keys(j, Untyped(p)) = {k[2] : k \in Keys(labels, p)}
  <2>1. Keys(j, Untyped(p)) = {Last(places[q]) : q \in {r \in DOMAIN labels : r # << >> /\ Front(r) = p}}
    BY <1>2, <1>5
  <2>2. \A q \in {r \in DOMAIN labels : r # << >> /\ Front(r) = p} : Last(places[q]) = Last(q)[2]
    BY <1>3
  <2>3. Keys(labels, p) = {Last(q) : q \in {r \in DOMAIN labels : r # << >> /\ Front(r) = p}}
    BY DEF Keys
  <2> QED BY <2>1, <2>2, <2>3
<1>9. ASSUME NEW p \in DOMAIN labels
      PROVE  Typed(j, Untyped(p)) = p
  <2> DEFINE u == Untyped(p)
             t == Typed(j, u)
  <2>1. /\ p \in Seq(TypedKeys) /\ Len(p) \in Nat
        /\ \A i \in 0..Len(p) : SubSeq(p, 1, i) \in DOMAIN labels
        /\ \A i \in 1..Len(p) : p[i] \in Keys(labels, SubSeq(p, 1, i - 1)) /\ p[i] \in TypedKeys
    BY PartFacts
  <2>2. /\ u \in Seq(JsonKeys) /\ Len(u) = Len(p)
        /\ \A i \in 1..Len(p) : u[i] = p[i][2]
        /\ \A k \in 0..Len(p) : Untyped(SubSeq(p, 1, k)) = SubSeq(u, 1, k)
    BY <2>1, UntypedFacts
  <2> HIDE DEF u
  <2>3. /\ t \in Seq(TypedKeys) /\ Len(t) = Len(p)
        /\ \A i \in 1..Len(p) : t[i] = <<KeyType(j[SubSeq(u, 1, i - 1)]), u[i]>>
    BY <2>2, TypedFacts
  <2> HIDE DEF t
  <2>4. ASSUME NEW i \in 1..Len(p)
        PROVE  t[i] = p[i]
    <3>1. i - 1 \in 0..Len(p)
      BY <2>1
    <3> DEFINE r == SubSeq(p, 1, i - 1)
    <3>2. r \in DOMAIN labels /\ p[i] \in Keys(labels, r) /\ SubSeq(u, 1, i - 1) = Untyped(r)
      BY <2>1, <2>2, <3>1
    <3> HIDE DEF r
    <3>3. j[SubSeq(u, 1, i - 1)] = labels[r] /\ p[i][1] = KeyType(labels[r])
      BY <3>2, <1>7
    <3>4. t[i] = <<p[i][1], p[i][2]>>
      BY <2>2, <2>3, <3>3
    <3>5. p[i] = <<p[i][1], p[i][2]>>
      BY <2>1 DEF TypedKeys
    <3> QED BY <3>4, <3>5
  <2>5. t = p
    BY <2>1, <2>3, <2>4, SeqEqual
  <2> QED BY <2>5 DEF t, u
<1> QED BY <1>5, <1>6, <1>7, <1>8, <1>9 DEF BecomesJson

(* Nodes that are different.                                               *)
LEMMA NodeFacts ==
    /\ \A n \in Scalars \X Int : /\ n \notin {Null, Array, Object, Nil, Table, Tagged, JsonNull, JsonEmpty, Unfit}
                                 /\ n[1] \in Scalars /\ n = <<n[1], n[2]>> /\ n[1] # "function"
    /\ \A n \in {Null, Array, Object, Nil, Table, Tagged, JsonNull, JsonEmpty, Unfit} :
          n[1] \notin Scalars /\ n[1] # "integer" /\ n[1] # "function"
    /\ \A n \in {"function"} \X Int : /\ n \notin {Null, Array, Object, Nil, Table, Tagged, JsonNull, JsonEmpty, Unfit}
                                      /\ n[1] \notin Scalars
    /\ Null \notin {Array, Object, Unfit} /\ Array \notin {Object, Unfit} /\ Object # Unfit
    /\ Nil \notin {Table, Tagged, JsonNull, JsonEmpty, Unfit}
    /\ Table \notin {Tagged, JsonNull, JsonEmpty, Unfit}
    /\ Tagged \notin {JsonNull, JsonEmpty, Unfit}
    /\ JsonNull \notin {JsonEmpty, Unfit} /\ JsonEmpty # Unfit
BY DEF Scalars, Null, Array, Object, Nil, Table, Tagged, JsonNull, JsonEmpty, Unfit

(* What each of the conversions makes of a node.                           *)
LEMMA DecodedFacts ==
    ASSUME NEW keys
    PROVE  /\ Decoded(Null, keys) = JsonNull
           /\ Decoded(Object, keys) = Table
           /\ Decoded(Array, keys) = IF keys = {} THEN Tagged ELSE Table
           /\ \A n \in Scalars \X Int :
                 Decoded(n, keys) = IF n[1] = "integer" /\ n[2] > MaxInteger THEN <<"float", n[2]>> ELSE n
<1>1. Decoded(Null, keys) = JsonNull
  BY NodeFacts, Zenon DEF Decoded
<1>2. Decoded(Object, keys) = Table
  BY NodeFacts, Zenon DEF Decoded
<1>3. keys = {} => Decoded(Array, keys) = Tagged
  <2> HAVE keys = {}
  <2> QED BY NodeFacts, Zenon DEF Decoded
<1>4. keys # {} => Decoded(Array, keys) = Table
  <2> HAVE keys # {}
  <2> QED BY NodeFacts, Zenon DEF Decoded
<1>5. ASSUME NEW n \in Scalars \X Int
      PROVE  Decoded(n, keys) = IF n[1] = "integer" /\ n[2] > MaxInteger THEN <<"float", n[2]>> ELSE n
  <2>1. n # Null /\ n # Array /\ n # Object
    BY NodeFacts
  <2>2. CASE n[1] = "integer" /\ n[2] > MaxInteger
    BY <2>1, <2>2, Zenon DEF Decoded
  <2>3. CASE ~(n[1] = "integer" /\ n[2] > MaxInteger)
    BY <2>1, <2>3, Zenon DEF Decoded
  <2> QED BY <2>2, <2>3
<1> QED BY <1>1, <1>2, <1>3, <1>4, <1>5

LEMMA ReceivedFacts ==
    /\ Received(Null) = Nil /\ Received(Object) = Table /\ Received(Array) = Table
    /\ \A n \in Scalars \X Int :
          Received(n) = IF n[1] = "integer" THEN <<"integer", Wrapped(n[2])>> ELSE n
<1>1. Received(Null) = Nil
  BY NodeFacts, Zenon DEF Received
<1>2. Received(Object) = Table
  BY NodeFacts, Zenon DEF Received
<1>3. Received(Array) = Table
  BY NodeFacts, Zenon DEF Received
<1>4. ASSUME NEW n \in Scalars \X Int
      PROVE  Received(n) = IF n[1] = "integer" THEN <<"integer", Wrapped(n[2])>> ELSE n
  <2>1. n # Null /\ n # Array /\ n # Object
    BY NodeFacts
  <2>2. CASE n[1] = "integer"
    BY <2>1, <2>2, Zenon DEF Received
  <2>3. CASE n[1] # "integer"
    BY <2>1, <2>3, Zenon DEF Received
  <2> QED BY <2>2, <2>3
<1> QED BY <1>1, <1>2, <1>3, <1>4

LEMMA EncodedFacts ==
    ASSUME NEW keys
    PROVE  /\ Encoded(Nil, keys) = Null /\ Encoded(JsonNull, keys) = Null /\ Encoded(JsonEmpty, keys) = Array
           /\ \A n \in Scalars \X Int : Encoded(n, keys) = n
           /\ \A n \in {"function"} \X Int : Encoded(n, keys) = Unfit
           /\ Encoded(Table, keys) = IF Shape(keys) = "empty" \/ Shape(keys) = "object" THEN Object
                                     ELSE IF Shape(keys) = "array" THEN Array ELSE Unfit
           /\ Encoded(Tagged, keys) = IF Shape(keys) = "empty" \/ Shape(keys) = "array" THEN Array ELSE Unfit
<1>1. Encoded(Nil, keys) = Null
  BY NodeFacts, Zenon DEF Encoded
<1>2. Encoded(JsonNull, keys) = Null
  BY NodeFacts, Zenon DEF Encoded
<1>3. Encoded(JsonEmpty, keys) = Array
  <2>1. JsonEmpty # Nil /\ JsonEmpty # JsonNull /\ JsonEmpty # Table /\ JsonEmpty # Tagged
        /\ JsonEmpty[1] \notin Scalars
    BY NodeFacts
  <2> QED BY <2>1, Zenon DEF Encoded
<1>4. ASSUME NEW n \in Scalars \X Int
      PROVE  Encoded(n, keys) = n
  <2>1. n # Nil /\ n # JsonNull /\ n # JsonEmpty /\ n # Table /\ n # Tagged /\ n[1] \in Scalars
    BY NodeFacts
  <2> QED BY <2>1, Zenon DEF Encoded
<1>5. ASSUME NEW n \in {"function"} \X Int
      PROVE  Encoded(n, keys) = Unfit
  <2>1. n # Nil /\ n # JsonNull /\ n # JsonEmpty /\ n # Table /\ n # Tagged /\ n[1] \notin Scalars
    BY NodeFacts
  <2> QED BY <2>1, Zenon DEF Encoded
<1> DEFINE s == Shape(keys)
<1>6. s = "empty" => s # "array" /\ s # "object"
  OBVIOUS
<1>7. s = "array" => s # "empty" /\ s # "object"
  OBVIOUS
<1>8. s = "object" => s # "array" /\ s # "empty"
  OBVIOUS
<1> HIDE DEF s
<1>9. /\ Table # Nil /\ Table # JsonNull /\ Table # JsonEmpty /\ Table # Tagged /\ Table[1] \notin Scalars
      /\ Tagged # Nil /\ Tagged # JsonNull /\ Tagged # JsonEmpty /\ Tagged # Table /\ Tagged[1] \notin Scalars
  BY NodeFacts
<1>10. /\ Encoded(Table, keys) = CASE s = "empty" -> Object [] s = "array" -> Array
                                    [] s = "object" -> Object [] OTHER -> Unfit
       /\ Encoded(Tagged, keys) = CASE s = "empty" -> Array [] s = "array" -> Array [] OTHER -> Unfit
  BY <1>6, <1>7, <1>8, <1>9, Zenon DEF Encoded, s
<1>11. Encoded(Table, keys) = IF s = "empty" \/ s = "object" THEN Object
                              ELSE IF s = "array" THEN Array ELSE Unfit
  BY <1>6, <1>7, <1>8, <1>10, Zenon
<1>12. Encoded(Tagged, keys) = IF s = "empty" \/ s = "array" THEN Array ELSE Unfit
  BY <1>6, <1>7, <1>8, <1>10, Zenon
<1> QED BY <1>1, <1>2, <1>3, <1>4, <1>5, <1>11, <1>12 DEF s

LEMMA SentFacts ==
    ASSUME NEW keys
    PROVE  /\ Sent(Nil, keys) = Null
           /\ \A n \in Scalars \X Int : Sent(n, keys) = n
           /\ \A n \in {"function"} \X Int : Sent(n, keys) = Unfit
           /\ \A n \in {Table, Tagged, JsonNull, JsonEmpty} :
                 \/ Sent(n, keys) = Unfit
                 \/ Sent(n, keys) = Array /\ keys # {} /\ \A k \in keys : k[1] = "integer"
                 \/ Sent(n, keys) = Object /\ \A k \in keys : k[1] = "string"
<1>1. Sent(Nil, keys) = Null
  BY NodeFacts, Zenon DEF Sent
<1>2. ASSUME NEW n \in Scalars \X Int
      PROVE  Sent(n, keys) = n
  <2>1. n # Nil /\ n # JsonNull /\ n # JsonEmpty /\ n # Table /\ n # Tagged /\ n[1] \in Scalars
    BY NodeFacts
  <2> QED BY <2>1, Zenon DEF Sent
<1>3. ASSUME NEW n \in {"function"} \X Int
      PROVE  Sent(n, keys) = Unfit
  <2>1. n # Nil /\ n # JsonNull /\ n # JsonEmpty /\ n # Table /\ n # Tagged /\ n[1] \notin Scalars
    BY NodeFacts
  <2> QED BY <2>1, Zenon DEF Sent
<1> DEFINE c == keys # {} /\ keys = {"integer"} \X (1..Cardinality(keys))
           d == \A k \in keys : k[1] = "string"
<1>4. ~(c /\ d) /\ (c => keys # {} /\ \A k \in keys : k[1] = "integer")
  <2>1. c => keys # {} /\ \A k \in keys : k[1] = "integer"
    OBVIOUS
  <2>2. c => ~d
    <3> HAVE c
    <3>1. PICK k \in keys : k[1] = "integer"
      BY <2>1
    <3> QED BY <3>1
  <2> QED BY <2>1, <2>2
<1>5. ASSUME NEW n \in {Table, Tagged, JsonNull, JsonEmpty}
      PROVE  Sent(n, keys) = CASE c -> Array [] d -> Object [] OTHER -> Unfit
  <2>1. n # Nil /\ n[1] \notin Scalars
    BY NodeFacts
  <2> QED BY <2>1, Zenon DEF Sent
<1> HIDE DEF c
<1>6. ASSUME NEW n \in {Table, Tagged, JsonNull, JsonEmpty}
      PROVE  \/ Sent(n, keys) = Unfit
             \/ Sent(n, keys) = Array /\ keys # {} /\ \A k \in keys : k[1] = "integer"
             \/ Sent(n, keys) = Object /\ \A k \in keys : k[1] = "string"
  BY <1>4, <1>5, Zenon
<1> QED BY <1>1, <1>2, <1>3, <1>6

IsEmpty(keys) == IntKeys(keys) = {} /\ StrKeys(keys) = {}
IsObject(keys) == IntKeys(keys) = {} /\ StrKeys(keys) # {} /\ ~HasBadKey(keys)
IsArray(keys) ==
    IntKeys(keys) # {} /\ StrKeys(keys) = {} /\ ~HasBadKey(keys) /\ Max(IntKeys(keys)) = Cardinality(IntKeys(keys))

LEMMA ShapeIs ==
    ASSUME NEW keys
    PROVE  /\ Shape(keys) = "empty" <=> IsEmpty(keys)
           /\ Shape(keys) = "object" <=> IsObject(keys)
           /\ Shape(keys) = "array" <=> IsArray(keys)
<1> DEFINE e == IsEmpty(keys)
           o == IsObject(keys)
           a == IsArray(keys)
<1>1. ~(e /\ o) /\ ~(e /\ a) /\ ~(o /\ a)
  BY DEF IsEmpty, IsObject, IsArray
<1>2. Shape(keys) = CASE e -> "empty" [] o -> "object" [] a -> "array" [] OTHER -> "bad"
  BY Zenon DEF Shape, IsEmpty, IsObject, IsArray
<1> HIDE DEF e, o, a
<1>3. e => Shape(keys) = "empty"
  BY <1>1, <1>2, Zenon
<1>4. o => Shape(keys) = "object"
  BY <1>1, <1>2, Zenon
<1>5. a => Shape(keys) = "array"
  BY <1>1, <1>2, Zenon
<1>6. ~e /\ ~o /\ ~a => Shape(keys) = "bad"
  BY <1>2, Zenon
<1>7. /\ Shape(keys) = "empty" <=> e
      /\ Shape(keys) = "object" <=> o
      /\ Shape(keys) = "array" <=> a
  BY <1>1, <1>3, <1>4, <1>5, <1>6
<1> QED BY <1>7, Zenon DEF e, o, a

(* The largest element of a finite set of positive numbers.                *)
LEMMA FiniteMax ==
    ASSUME NEW S \in SUBSET (Nat \ {0}), S # {}, IsFiniteSet(S)
    PROVE  Max(S) \in S /\ \A x \in S : x <= Max(S)
<1> DEFINE n == Cardinality(S)
<1>1. n \in Nat /\ ExistsBijection(1..n, S)
  BY FS_CardinalityType
<1> HIDE DEF n
<1>2. PICK f \in [1..n -> S] : \A x \in S : \E i \in 1..n : f[i] = x
  BY <1>1 DEF ExistsBijection, Bijection, Surjection, Injection
<1> DEFINE T == {i \in 0..n : \E b \in Nat : \A k \in 1..i : f[k] <= b}
<1>3. 0 \in T
  BY <1>1
<1>4. ASSUME NEW i \in 0..(n - 1), i \in T
      PROVE  i + 1 \in T
  <2>1. PICK b \in Nat : \A k \in 1..i : f[k] <= b
    BY <1>4
  <2>2. i + 1 \in 1..n /\ f[i + 1] \in Nat /\ i \in 0..n /\ i + 1 \in 0..n
    <3>1. i + 1 \in 1..n /\ i \in 0..n /\ i + 1 \in 0..n
      BY <1>1
    <3>2. \A k \in 1..n : f[k] \in Nat
      BY <1>2
    <3> QED BY <3>1, <3>2
  <2> DEFINE c == IF f[i + 1] <= b THEN b ELSE f[i + 1]
  <2>3. c \in Nat /\ b <= c /\ f[i + 1] <= c
    BY <2>2
  <2> HIDE DEF c
  <2>4. \A k \in 1..(i + 1) : f[k] <= c
    <3> SUFFICES ASSUME NEW k \in 1..(i + 1) PROVE f[k] <= c
      OBVIOUS
    <3>1. CASE k = i + 1
      BY <3>1, <2>3
    <3>2. CASE k # i + 1
      <4>1. k \in 1..i /\ k \in 1..n
        BY <3>2, <1>1
      <4>2. f[k] <= b /\ f[k] \in Nat
        BY <4>1, <2>1, <1>2
      <4> QED BY <4>2, <2>3
    <3> QED BY <3>1, <3>2
  <2> QED BY <2>2, <2>3, <2>4
<1>5. n \in T
  <2>1. \A i \in 0..n : i \in T
    <3> HIDE DEF T
    <3> QED BY <1>1, <1>3, <1>4, InductionUpTo
  <2> HIDE DEF T
  <2> QED BY <1>1, <2>1
<1>6. PICK b \in Nat : \A k \in 1..n : f[k] <= b
  BY <1>5
<1>7. S \in SUBSET (1..b)
  BY <1>2, <1>6
<1> QED BY <1>7, MaxOf

(* The keys of a part are finitely many, and so are those of one type.     *)
LEMMA FiniteKeys ==
    ASSUME NEW v, NEW K, IsTree(v, K), NEW p
    PROVE  IsFiniteSet(Keys(v, p)) /\ IsFiniteSet(IntKeys(Keys(v, p)))
<1> DEFINE D == {q \in DOMAIN v : q # << >> /\ Front(q) = p}
           f == [q \in D |-> Last(q)]
           ks == Keys(v, p)
           I == {k \in ks : k[1] = "integer" /\ k[2] >= 1}
           g == [k \in I |-> k[2]]
<1>1. IsFiniteSet(D)
  BY FS_Subset DEF IsTree
<1>2. f \in Surjection(D, ks)
  BY DEF Surjection, Keys
<1> HIDE DEF D, f
<1>3. IsFiniteSet(ks)
  BY <1>1, <1>2, FS_Surjection
<1>4. IsFiniteSet(I)
  <2> HIDE DEF ks
  <2>1. I \in SUBSET ks
    OBVIOUS
  <2> HIDE DEF I
  <2> QED BY <1>3, <2>1, FS_Subset
<1>5. g \in Surjection(I, IntKeys(ks))
  BY DEF Surjection, IntKeys
<1> HIDE DEF g, ks, I
<1>6. IsFiniteSet(IntKeys(ks))
  BY <1>4, <1>5, FS_Surjection
<1> QED BY <1>3, <1>6, Zenon DEF ks

(* What classify_table tells of the keys of a table.                       *)
LEMMA ShapeTells ==
    ASSUME NEW v, IsTree(v, LuaKeys), NEW p
    PROVE  LET keys == Keys(v, p) IN
           /\ Shape(keys) = "array" => /\ \A k \in keys : k[1] = "integer"
                                       /\ \E n \in Nat : {k[2] : k \in keys} = 1..n
           /\ Shape(keys) = "object" => \A k \in keys : k[1] = "string" /\ k[2] \in Names
<1> DEFINE keys == Keys(v, p)
           ints == IntKeys(keys)
<1>1. \A k \in keys : \/ k[1] \in {"integer", "float", "boolean"} /\ k[2] \in Int
                      \/ k[1] = "string" /\ k[2] \in Names
  BY KeyFacts, KeysAssumption
<1>2. IsFiniteSet(ints)
  BY FiniteKeys
<1> HIDE DEF keys
<1>3. ASSUME Shape(keys) = "array"
      PROVE  (\A k \in keys : k[1] = "integer") /\ \E n \in Nat : {k[2] : k \in keys} = 1..n
  <2>1. ints # {} /\ StrKeys(keys) = {} /\ ~HasBadKey(keys) /\ Max(ints) = Cardinality(ints)
    BY <1>3, ShapeIs DEF IsArray
  <2>2. \A k \in keys : k[1] = "integer" /\ k[2] >= 1
    BY <2>1 DEF HasBadKey, StrKeys
  <2>3. ints = {k[2] : k \in keys}
    BY <2>2 DEF IntKeys
  <2>4. ints \in SUBSET (Nat \ {0})
    <3>1. \A k \in keys : k[2] \in Nat \ {0}
      BY <2>2, <1>1
    <3> QED BY <2>3, <3>1
  <2> HIDE DEF ints
  <2> DEFINE m == Max(ints)
  <2>5. m \in ints /\ \A x \in ints : x <= m
    BY <2>1, <2>4, <1>2, FiniteMax
  <2>6. m = Cardinality(ints)
    BY <2>1
  <2> HIDE DEF m
  <2>7. m \in Nat \ {0} /\ ints \in SUBSET (1..m)
    BY <2>4, <2>5
  <2>8. IsFiniteSet(1..m) /\ Cardinality(1..m) = m
    BY <2>7, FS_Interval
  <2>9. ints = 1..m
    BY <2>6, <2>7, <2>8, FS_Subset
  <2> QED BY <2>2, <2>3, <2>7, <2>9
<1>4. ASSUME Shape(keys) = "object"
      PROVE  \A k \in keys : k[1] = "string" /\ k[2] \in Names
  <2>1. ints = {} /\ ~HasBadKey(keys)
    BY <1>4, ShapeIs DEF IsObject
  <2>2. \A k \in keys : k[1] = "string"
    BY <2>1 DEF HasBadKey, IntKeys
  <2> QED BY <2>2, <1>1
<1> QED BY <1>3, <1>4, Zenon DEF keys

(* And of those of what was decoded.                                       *)
LEMMA TypedShape ==
    /\ Shape({}) = "empty"
    /\ \A n \in Nat : n # 0 => Shape({<<"integer", k>> : k \in 1..n}) = "array"
    /\ \A S : S # {} => Shape({<<"string", k>> : k \in S}) = "object"
<1>1. Shape({}) = "empty"
  <2>1. IsEmpty({})
    BY DEF IsEmpty, IntKeys, StrKeys
  <2> QED BY <2>1, ShapeIs
<1>2. ASSUME NEW n \in Nat, n # 0
      PROVE  Shape({<<"integer", k>> : k \in 1..n}) = "array"
  <2> DEFINE keys == {<<"integer", k>> : k \in 1..n}
  <2>1. \A x \in keys : x[1] = "integer" /\ x[2] \in 1..n /\ x[2] >= 1
    OBVIOUS
  <2>2. \A k \in 1..n : <<"integer", k>> \in keys /\ <<"integer", k>>[2] = k
    OBVIOUS
  <2> HIDE DEF keys
  <2>3. IntKeys(keys) = 1..n
    BY <2>1, <2>2 DEF IntKeys
  <2>4. StrKeys(keys) = {} /\ ~HasBadKey(keys)
    BY <2>1 DEF StrKeys, HasBadKey
  <2>5. Cardinality(1..n) = n
    BY <1>2, FS_Interval
  <2>6. Max(1..n) = n
    <3>1. 1..n \in SUBSET (1..n) /\ 1..n # {} /\ n \in 1..n
      BY <1>2
    <3>2. Max(1..n) \in 1..n /\ \A x \in 1..n : x <= Max(1..n)
      BY <3>1, MaxOf
    <3> QED BY <3>1, <3>2
  <2>7. IsArray(keys)
    BY <1>2, <2>3, <2>4, <2>5, <2>6 DEF IsArray
  <2>8. Shape(keys) = "array"
    BY <2>7, ShapeIs
  <2> QED BY <2>8 DEF keys
<1>3. ASSUME NEW S, S # {}
      PROVE  Shape({<<"string", k>> : k \in S}) = "object"
  <2> DEFINE keys == {<<"string", k>> : k \in S}
  <2>1. \A x \in keys : x[1] = "string"
    OBVIOUS
  <2>2. keys # {}
    BY <1>3
  <2> HIDE DEF keys
  <2>3. IntKeys(keys) = {} /\ ~HasBadKey(keys) /\ StrKeys(keys) # {}
    BY <2>1, <2>2 DEF IntKeys, HasBadKey, StrKeys
  <2>4. Shape(keys) = "object"
    BY <2>3, ShapeIs DEF IsObject
  <2> QED BY <2>4 DEF keys
<1> QED BY <1>1, <1>2, <1>3

(* What values are: the elements of an array are numbered from 1, members  *)
(* have names, and a part that is no table has no parts.                   *)
IsJson(j) ==
    /\ IsTree(j, JsonKeys)
    /\ \A p \in DOMAIN j :
          \/ j[p] = Array /\ \E n \in Nat : Keys(j, p) = 1..n
          \/ j[p] = Object /\ Keys(j, p) \subseteq Names
          \/ j[p] \in {Null} \cup (Scalars \X Int) /\ Keys(j, p) = {}

IsLua(v) ==
    /\ IsTree(v, LuaKeys)
    /\ \A p \in DOMAIN v : \/ v[p] \in {Table, Tagged}
                           \/ v[p] \in {Nil} \cup LuaLeaves /\ Keys(v, p) = {}

NestedWell(v) == \A p \in DOMAIN v : ~(Len(p) > MaxNesting)

LEMMA TreeIsTyped ==
    ASSUME NEW v, IsTree(v, LuaKeys)
    PROVE  IsTree(v, TypedKeys)
<1>1. LuaKeys \subseteq TypedKeys
  BY KeysAssumption DEF TypedKeys, JsonKeys
<1>2. ASSUME NEW p \in Seq(LuaKeys)
      PROVE  p \in Seq(TypedKeys)
  BY <1>1
<1> QED BY <1>2 DEF IsTree

(* Keys are those of the paths alone.                                      *)
LEMMA SameKeys ==
    ASSUME NEW v, NEW w, DOMAIN v = DOMAIN w
    PROVE  \A p : Keys(v, p) = Keys(w, p)
BY Zenon DEF Keys

LEMMA RoundedFacts ==
    ASSUME NEW j
    PROVE  /\ DOMAIN Rounded(j) = DOMAIN j
           /\ Rounded(j) = [p \in DOMAIN j |-> Rounded(j)[p]]
           /\ \A p \in DOMAIN j : /\ j[p] \in {Null, Array, Object} => Rounded(j)[p] = j[p]
                                  /\ j[p] \in Scalars \X Int =>
                                        /\ Rounded(j)[p] = IF j[p][1] = "integer" /\ j[p][2] > MaxInteger
                                                           THEN <<"float", j[p][2]>> ELSE j[p]
                                        /\ Rounded(j)[p] \in Scalars \X Int
<1>1. Null[1] # "integer" /\ Array[1] # "integer" /\ Object[1] # "integer"
  BY DEF Null, Array, Object
<1>2. \A x \in Int : <<"float", x>> \in Scalars \X Int
  BY DEF Scalars
<1> QED BY <1>1, <1>2 DEF Rounded

-----------------------------------------------------------------------------
(* What was decoded is encoded as it was.                                  *)
LEMMA JsonSurvives ==
    ASSUME NEW j, IsJson(j), NestedWell(j)
    PROVE  JsonOf(LuaOf(j)) = Rounded(j)
<1> DEFINE labels == [p \in DOMAIN j |-> Decoded(j[p], Keys(j, p))]
           L == LuaOf(j)
<1>1. /\ IsTree(j, JsonKeys)
      /\ \A p \in DOMAIN j : \/ j[p] = Array /\ \E n \in Nat : Keys(j, p) = 1..n
                             \/ j[p] = Object
                             \/ j[p] \in {Null} \cup (Scalars \X Int) /\ Keys(j, p) = {}
  BY DEF IsJson
<1>2. /\ DOMAIN labels = DOMAIN j
      /\ \A p \in DOMAIN j :
            /\ j[p] = Null => labels[p] = JsonNull
            /\ j[p] = Object => labels[p] = Table
            /\ j[p] = Array => labels[p] = IF Keys(j, p) = {} THEN Tagged ELSE Table
            /\ j[p] \in Scalars \X Int => labels[p] = Rounded(j)[p] /\ labels[p] \in Scalars \X Int
  <2> SUFFICES ASSUME NEW p \in DOMAIN j
               PROVE  /\ j[p] = Null => labels[p] = JsonNull
                      /\ j[p] = Object => labels[p] = Table
                      /\ j[p] = Array => labels[p] = IF Keys(j, p) = {} THEN Tagged ELSE Table
                      /\ j[p] \in Scalars \X Int => labels[p] = Rounded(j)[p] /\ labels[p] \in Scalars \X Int
    OBVIOUS
  <2> DEFINE d == Decoded(j[p], Keys(j, p))
  <2>1. labels[p] = d
    OBVIOUS
  <2>2. /\ j[p] = Null => d = JsonNull
        /\ j[p] = Object => d = Table
        /\ j[p] = Array => d = IF Keys(j, p) = {} THEN Tagged ELSE Table
    BY DecodedFacts
  <2>3. j[p] \in Scalars \X Int => d = Rounded(j)[p] /\ d \in Scalars \X Int
    <3> HAVE j[p] \in Scalars \X Int
    <3> DEFINE r == IF j[p][1] = "integer" /\ j[p][2] > MaxInteger
                    THEN <<"float", j[p][2]>> ELSE j[p]
    <3>1. d = r
      BY DecodedFacts
    <3>2. Rounded(j)[p] = r /\ Rounded(j)[p] \in Scalars \X Int
      BY RoundedFacts
    <3> HIDE DEF d, r
    <3> QED BY <3>1, <3>2
  <2> HIDE DEF labels, d
  <2> QED BY <2>1, <2>2, <2>3
<1>3. L = ToLua(j, labels)
  BY DEF LuaOf
<1> HIDE DEF labels, L
<1>4. Accepted(labels)
  <2>1. \A p \in DOMAIN j : labels[p] # Unfit
    BY <1>1, <1>2, NodeFacts
  <2> QED BY <2>1, <1>2 DEF Accepted, NestedWell
<1>5. /\ IsTree(L, TypedKeys) /\ DOMAIN L = {Typed(j, p) : p \in DOMAIN j}
      /\ \A p \in DOMAIN j :
            /\ Untyped(Typed(j, p)) = p /\ L[Typed(j, p)] = labels[p]
            /\ Keys(L, Typed(j, p)) = {<<KeyType(j[p]), k>> : k \in Keys(j, p)}
  <2>1. BecomesLua(L, j, labels)
    BY <1>1, <1>2, <1>3, <1>4, ToLuaFacts
  <2> QED BY <2>1 DEF BecomesLua
(* A part that has parts is not taken for empty.                           *)
<1>6. ASSUME NEW p \in DOMAIN j
      PROVE  Shape(Keys(L, Typed(j, p))) = IF Keys(j, p) = {} THEN "empty"
                                           ELSE IF j[p] = Array THEN "array" ELSE "object"
  <2> DEFINE ks == Keys(L, Typed(j, p))
  <2>1. ks = {<<KeyType(j[p]), k>> : k \in Keys(j, p)}
    BY <1>5
  <2> HIDE DEF ks
  <2>2. CASE Keys(j, p) = {}
    <3>1. ks = {}
      BY <2>1, <2>2
    <3> QED BY <2>2, <3>1, TypedShape DEF ks
  <2>3. CASE Keys(j, p) # {} /\ j[p] = Array
    <3>1. PICK n \in Nat : Keys(j, p) = 1..n
      BY <2>3, <1>1, NodeFacts
    <3>2. n # 0 /\ ks = {<<"integer", k>> : k \in 1..n}
      BY <2>1, <2>3, <3>1 DEF KeyType
    <3>3. Shape(ks) = "array"
      BY <3>2, TypedShape
    <3> QED BY <2>3, <3>3 DEF ks
  <2>4. CASE Keys(j, p) # {} /\ j[p] # Array
    <3>1. ks = {<<"string", k>> : k \in Keys(j, p)}
      BY <2>1, <2>4 DEF KeyType
    <3>2. Shape(ks) = "object"
      BY <2>4, <3>1, TypedShape
    <3> QED BY <2>4, <3>2 DEF ks
  <2> QED BY <2>2, <2>3, <2>4
<1>7. Visited(L) = DOMAIN L
  <2> SUFFICES ASSUME NEW t \in DOMAIN L, NEW q \in Above(t)
               PROVE  Shape(Keys(L, q)) # "empty"
    BY DEF Visited
  <2>1. /\ \A i \in 1..Len(t) : t[i] \in Keys(L, SubSeq(t, 1, i - 1))
        /\ DOMAIN t = 1..Len(t)
    BY <1>5, PartFacts
  <2>2. PICK i \in DOMAIN t : q = SubSeq(t, 1, i - 1)
    BY DEF Above
  <2>3. Keys(L, q) # {} /\ q \in DOMAIN L
    <3>1. t[i] \in Keys(L, q)
      BY <2>1, <2>2
    <3> QED BY <3>1, <1>5, KeyFacts
  <2>4. PICK r \in DOMAIN j : q = Typed(j, r)
    BY <2>3, <1>5
  <2>5. Keys(j, r) # {}
    BY <2>3, <2>4, <1>5
  <2>6. Shape(Keys(L, q)) = "array" \/ Shape(Keys(L, q)) = "object"
    BY <2>4, <2>5, <1>6
  <2> QED BY <2>6
<1> DEFINE labels2 == [t \in DOMAIN L |-> Encoded(L[t], Keys(L, t))]
           j2 == JsonOf(L)
<1>8. j2 = ToJson(labels2)
  BY <1>7 DEF JsonOf
<1>9. ASSUME NEW p \in DOMAIN j
      PROVE  labels2[Typed(j, p)] = Rounded(j)[p]
  <2>1. labels2[Typed(j, p)] = Encoded(labels[p], Keys(L, Typed(j, p)))
    BY <1>5
  <2> DEFINE ks == Keys(L, Typed(j, p))
  <2>2. Shape(ks) = IF Keys(j, p) = {} THEN "empty" ELSE IF j[p] = Array THEN "array" ELSE "object"
    BY <1>6
  <2> HIDE DEF ks
  <2>3. CASE j[p] = Array
    <3>1. Encoded(labels[p], ks) = Array
      <4>1. CASE Keys(j, p) = {}
        BY <4>1, <2>2, <2>3, <1>2, EncodedFacts
      <4>2. CASE Keys(j, p) # {}
        BY <4>2, <2>2, <2>3, <1>2, EncodedFacts
      <4> QED BY <4>1, <4>2
    <3> QED BY <3>1, <2>1, <2>3, RoundedFacts DEF ks
  <2>4. CASE j[p] = Object
    <3>1. j[p] # Array
      BY <2>4, NodeFacts
    <3>2. labels[p] = Table /\ (Shape(ks) = "empty" \/ Shape(ks) = "object")
      BY <3>1, <2>2, <2>4, <1>2
    <3>3. Encoded(labels[p], ks) = Object
      BY <3>2, EncodedFacts
    <3> QED BY <3>3, <2>1, <2>4, RoundedFacts DEF ks
  <2>5. CASE j[p] = Null
    <3>1. Encoded(labels[p], ks) = Null
      BY <2>5, <1>2, EncodedFacts
    <3> QED BY <3>1, <2>1, <2>5, RoundedFacts DEF ks
  <2>6. CASE j[p] \in Scalars \X Int
    <3>1. Encoded(labels[p], ks) = labels[p] /\ labels[p] = Rounded(j)[p]
      BY <2>6, <1>2, EncodedFacts
    <3> QED BY <3>1, <2>1 DEF ks
  <2> QED BY <2>3, <2>4, <2>5, <2>6, <1>1
<1>10. DOMAIN labels2 = DOMAIN L
  OBVIOUS
<1> HIDE DEF labels2, j2
<1>11. ASSUME NEW p \in DOMAIN j
       PROVE  Rounded(j)[p] # Unfit /\ KeyType(Rounded(j)[p]) = KeyType(j[p])
  <2>1. CASE j[p] \in {Null, Array, Object}
    <3>1. Rounded(j)[p] = j[p]
      BY <2>1, RoundedFacts
    <3>2. j[p] # Unfit
      BY <2>1, NodeFacts
    <3> QED BY <3>1, <3>2
  <2>2. CASE j[p] \in Scalars \X Int
    <3>1. Rounded(j)[p] \in Scalars \X Int
      BY <2>2, RoundedFacts
    <3>2. Rounded(j)[p] # Unfit /\ Rounded(j)[p] # Array /\ j[p] # Array
      BY <2>2, <3>1, NodeFacts
    <3> QED BY <3>2 DEF KeyType
  <2> QED BY <2>1, <2>2, <1>1
<1>12. Accepted(labels2)
  <2> SUFFICES ASSUME NEW t \in DOMAIN L
               PROVE  ~(Len(t) > MaxNesting) /\ labels2[t] # Unfit
    BY <1>10 DEF Accepted
  <2>1. PICK p \in DOMAIN j : t = Typed(j, p)
    BY <1>5
  <2>2. Len(t) = Len(p)
    BY <2>1, <1>1, TypedFacts DEF IsTree
  <2> QED BY <2>1, <2>2, <1>9, <1>11 DEF NestedWell
<1>13. \A t \in DOMAIN labels2 : \A k \in Keys(labels2, t) : k[1] = KeyType(labels2[t])
  <2> SUFFICES ASSUME NEW t \in DOMAIN L, NEW k \in Keys(labels2, t)
               PROVE  k[1] = KeyType(labels2[t])
    BY <1>10
  <2>1. PICK p \in DOMAIN j : t = Typed(j, p)
    BY <1>5
  <2>2. k \in Keys(L, t)
    BY <1>10, SameKeys
  <2>3. k[1] = KeyType(j[p])
    BY <2>1, <2>2, <1>5
  <2> QED BY <2>1, <2>3, <1>9, <1>11
<1>14. IsTree(labels2, TypedKeys)
  BY <1>5, <1>10 DEF IsTree
<1>15. /\ DOMAIN j2 = {Untyped(t) : t \in DOMAIN labels2}
       /\ j2 = [q \in DOMAIN j2 |-> j2[q]]
       /\ \A t \in DOMAIN labels2 : j2[Untyped(t)] = labels2[t]
  <2>1. BecomesJson(j2, labels2)
    BY <1>8, <1>12, <1>13, <1>14, ToJsonFacts
  <2> QED BY <2>1 DEF BecomesJson
<1>16. DOMAIN j2 = DOMAIN j
  <2>1. \A p \in DOMAIN j : Typed(j, p) \in DOMAIN labels2 /\ Untyped(Typed(j, p)) = p
    BY <1>5, <1>10
  <2>2. \A t \in DOMAIN labels2 : \E p \in DOMAIN j : t = Typed(j, p)
    BY <1>5, <1>10
  <2>3. DOMAIN j2 = {Untyped(t) : t \in DOMAIN labels2}
    BY <1>15
  <2> QED BY <2>1, <2>2, <2>3
<1>17. \A p \in DOMAIN j : j2[p] = Rounded(j)[p]
  BY <1>5, <1>9, <1>10, <1>15
<1>18. j2 = Rounded(j)
  BY <1>15, <1>16, <1>17, RoundedFacts
<1> QED BY <1>18 DEF j2, L

(* The leaves of a Lua value are what a conversion can meet.               *)
LEMMA LuaNodeFacts ==
    ASSUME NEW v, IsLua(v), NEW p \in DOMAIN v
    PROVE  \/ v[p] \in {Table, Tagged}
           \/ v[p] \in {Nil, JsonNull, JsonEmpty} /\ Keys(v, p) = {}
           \/ /\ v[p] \in Scalars \X Int /\ Keys(v, p) = {}
              /\ v[p][1] = "integer" => ~(v[p][2] > MaxInteger)
           \/ v[p] \in {"function"} \X Int
<1>1. v[p] \in {Table, Tagged} \/ (v[p] \in {Nil} \cup LuaLeaves /\ Keys(v, p) = {})
  BY DEF IsLua
<1>2. ASSUME NEW n \in LuaLeaves
      PROVE  \/ n \in {JsonNull, JsonEmpty}
             \/ n \in Scalars \X Int /\ (n[1] = "integer" => ~(n[2] > MaxInteger))
             \/ n \in {"function"} \X Int
  <2>1. \/ n \in {JsonNull, JsonEmpty}
        \/ n \in (Scalars \cup {"function"}) \X Int /\ (n[1] = "integer" => n[2] <= MaxInteger)
    BY LeavesAssumption
  <2>2. MaxInteger \in Int
    BY LimitsAssumption
  <2> QED BY <2>1, <2>2
<1> QED BY <1>1, <1>2

(* What babet.json looks at of a table.                                    *)
LEMMA VisitedFacts ==
    ASSUME NEW v, IsTree(v, LuaKeys), NEW labels, DOMAIN labels = Visited(v)
    PROVE  /\ IsTree(labels, LuaKeys) /\ DOMAIN labels \subseteq DOMAIN v
           /\ \A p \in DOMAIN labels :
                 Keys(labels, p) = IF Shape(Keys(v, p)) = "empty" THEN {} ELSE Keys(v, p)
<1> DEFINE V == Visited(v)
<1>1. V = {p \in DOMAIN v : \A q \in Above(p) : Shape(Keys(v, q)) # "empty"}
  BY DEF Visited
<1> HIDE DEF V
(* What is above a part is above its front, or is the front.               *)
<1>2. ASSUME NEW p \in DOMAIN v, p # << >>
      PROVE  Front(p) \in DOMAIN v /\ Above(p) = Above(Front(p)) \cup {Front(p)}
  <2> DEFINE f == Front(p)
             n == Len(p)
  <2>1. p \in Seq(LuaKeys) /\ f \in DOMAIN v
    BY <1>2 DEF IsTree
  <2>2. f \in Seq(LuaKeys) /\ Len(f) = n - 1 /\ n \in Nat \ {0} /\ DOMAIN p = 1..n
    BY <2>1, <1>2, FrontFacts
  <2>3. f = SubSeq(p, 1, n - 1)
    BY DEF Front
  <2>4. ASSUME NEW i \in 1..(n - 1)
        PROVE  SubSeq(f, 1, i - 1) = SubSeq(p, 1, i - 1)
    <3>1. i - 1 \in 0..(Len(p) - 1)
      BY <2>2
    <3> QED BY <3>1, <2>1, <1>2, FrontOfHead
  <2> HIDE DEF f, n
  <2>5. DOMAIN f = 1..(n - 1)
    BY <2>2
  <2>6. \A i \in 1..n : i \in 1..(n - 1) \/ i = n
    BY <2>2
  <2>7. n \in 1..n /\ \A i \in 1..(n - 1) : i \in 1..n
    BY <2>2
  <2>8. Above(p) = {SubSeq(p, 1, i - 1) : i \in 1..n} /\ Above(f) = {SubSeq(f, 1, i - 1) : i \in 1..(n - 1)}
    BY <2>2, <2>5 DEF Above
  <2>9. Above(p) \subseteq Above(f) \cup {f}
    BY <2>3, <2>4, <2>6, <2>8
  <2>10. Above(f) \cup {f} \subseteq Above(p)
    BY <2>3, <2>4, <2>7, <2>8
  <2>11. Above(p) = Above(f) \cup {f}
    BY <2>9, <2>10
  <2> QED BY <2>1, <2>11 DEF f
<1>3. << >> \in V
  <2>1. Above(<< >>) = {}
    BY DEF Above
  <2> QED BY <2>1, <1>1 DEF IsTree
<1>4. ASSUME NEW p \in V, p # << >>
      PROVE  Front(p) \in V
  BY <1>1, <1>2, <1>4
<1>5. IsFiniteSet(V) /\ V \subseteq DOMAIN v
  <2>1. V \subseteq DOMAIN v
    BY <1>1
  <2> QED BY <2>1, FS_Subset DEF IsTree
<1>6. IsTree(labels, LuaKeys)
  <2>1. DOMAIN labels = V
    BY DEF V
  <2> QED BY <2>1, <1>3, <1>4, <1>5 DEF IsTree
<1>7. ASSUME NEW p \in V
      PROVE  Keys(labels, p) = IF Shape(Keys(v, p)) = "empty" THEN {} ELSE Keys(v, p)
  <2> DEFINE Parts(D) == {q \in D : q # << >> /\ Front(q) = p}
  <2>1. Keys(labels, p) = {Last(q) : q \in Parts(V)} /\ Keys(v, p) = {Last(q) : q \in Parts(DOMAIN v)}
    BY DEF Keys, V
  <2>2. CASE Shape(Keys(v, p)) = "empty"
    <3>1. Parts(V) = {}
      <4> SUFFICES ASSUME NEW q \in V, q # << >>, Front(q) = p PROVE FALSE
        OBVIOUS
      <4>1. p \in Above(q)
        BY <1>2, <1>5
      <4> QED BY <4>1, <1>1, <2>2
    <3> QED BY <3>1, <2>1, <2>2
  <2>3. CASE Shape(Keys(v, p)) # "empty"
    <3>1. Parts(V) = Parts(DOMAIN v)
      <4>1. ASSUME NEW q \in DOMAIN v, q # << >>, Front(q) = p
            PROVE  q \in V
        <5>1. \A r \in Above(q) : r \in Above(p) \/ r = p
          BY <4>1, <1>2
        <5> QED BY <5>1, <1>1, <2>3
      <4> QED BY <4>1, <1>5
    <3> QED BY <3>1, <2>1, <2>3
  <2> QED BY <2>2, <2>3
<1> QED BY <1>5, <1>6, <1>7 DEF V

(* What babet.json encodes is JSON that decodes.                           *)
LEMMA EncodedIsJson ==
    ASSUME NEW v, IsLua(v), JsonOf(v) # Refused
    PROVE  IsJson(JsonOf(v)) /\ NestedWell(JsonOf(v)) /\ Rounded(JsonOf(v)) = JsonOf(v)
<1> DEFINE labels == [p \in Visited(v) |-> Encoded(v[p], Keys(v, p))]
           j == JsonOf(v)
<1>1. j = ToJson(labels) /\ DOMAIN labels = Visited(v)
  BY DEF JsonOf
<1>2. IsTree(v, LuaKeys)
  BY DEF IsLua
<1>3. \A p \in Visited(v) : labels[p] = Encoded(v[p], Keys(v, p))
  OBVIOUS
<1> HIDE DEF labels
<1>4. /\ IsTree(labels, LuaKeys) /\ DOMAIN labels \subseteq DOMAIN v
      /\ \A p \in DOMAIN labels :
            Keys(labels, p) = IF Shape(Keys(v, p)) = "empty" THEN {} ELSE Keys(v, p)
  BY <1>1, <1>2, VisitedFacts
<1>5. Accepted(labels)
  <2>1. << >> \in DOMAIN labels
    BY <1>4 DEF IsTree
  <2> QED BY <1>1, <2>1, MovedOrRefused DEF ToJson
<1> HIDE DEF j
<1>6. ASSUME NEW p \in DOMAIN labels
      PROVE  \/ /\ labels[p] = Array /\ \A k \in Keys(labels, p) : k[1] = "integer"
                /\ \E n \in Nat : {k[2] : k \in Keys(labels, p)} = 1..n
             \/ /\ labels[p] = Object
                /\ \A k \in Keys(labels, p) : k[1] = "string" /\ k[2] \in Names
             \/ /\ labels[p] \in {Null} \cup (Scalars \X Int) /\ Keys(labels, p) = {}
                /\ labels[p][1] = "integer" => ~(labels[p][2] > MaxInteger)
  <2> DEFINE ks == Keys(v, p)
             ls == Keys(labels, p)
  <2>1. labels[p] = Encoded(v[p], ks) /\ labels[p] # Unfit /\ p \in DOMAIN v
    BY <1>1, <1>3, <1>4, <1>5 DEF Accepted
  <2>2. ls = IF Shape(ks) = "empty" THEN {} ELSE ks
    BY <1>4
  <2>3. /\ Shape(ks) = "array" => /\ \A k \in ks : k[1] = "integer"
                                  /\ \E n \in Nat : {k[2] : k \in ks} = 1..n
        /\ Shape(ks) = "object" => \A k \in ks : k[1] = "string" /\ k[2] \in Names
    BY <1>2, ShapeTells
  <2>4. v[p] \notin {Table, Tagged} /\ v[p] \notin {"function"} \X Int => ks = {}
    BY <2>1, LuaNodeFacts
  <2> HIDE DEF ks, ls
  <2>5. ls = {} => {k[2] : k \in ls} = 1..0
    OBVIOUS
  <2>6. CASE v[p] \in {Table, Tagged}
    <3>1. CASE Shape(ks) = "empty"
      <4>1. labels[p] \in {Array, Object} /\ ls = {}
        BY <2>1, <2>2, <2>6, <3>1, EncodedFacts
      <4>2. (\A k \in ls : FALSE) /\ {k[2] : k \in ls} = 1..0 /\ 0 \in Nat
        BY <4>1, <2>5
      <4>3. (\A k \in ls : k[1] = "integer") /\ (\A k \in ls : k[1] = "string" /\ k[2] \in Names)
        BY <4>2
      <4> QED BY <4>1, <4>2, <4>3 DEF ls
    <3>2. CASE Shape(ks) = "array"
      <4>1. labels[p] = Array /\ ls = ks
        BY <2>1, <2>2, <2>6, <3>2, EncodedFacts
      <4>2. (\A k \in ls : k[1] = "integer") /\ \E n \in Nat : {k[2] : k \in ls} = 1..n
        BY <4>1, <2>3, <3>2
      <4> QED BY <4>1, <4>2 DEF ls
    <3>3. CASE Shape(ks) = "object"
      <4>1. labels[p] = Object /\ ls = ks
        BY <2>1, <2>2, <2>6, <3>3, EncodedFacts
      <4>2. \A k \in ls : k[1] = "string" /\ k[2] \in Names
        BY <4>1, <2>3, <3>3
      <4> QED BY <4>1, <4>2 DEF ls
    <3>4. CASE Shape(ks) \notin {"empty", "array", "object"}
      BY <2>1, <2>6, <3>4, EncodedFacts
    <3> QED BY <3>1, <3>2, <3>3, <3>4
  <2>7. CASE v[p] \in {Nil, JsonNull}
    <3>1. labels[p] = Null
      BY <2>1, <2>7, EncodedFacts
    <3>2. ls = {}
      BY <2>2, <2>4, <2>7, NodeFacts
    <3>3. labels[p][1] # "integer"
      BY <3>1, NodeFacts
    <3> QED BY <3>1, <3>2, <3>3 DEF ls
  <2>8. CASE v[p] = JsonEmpty
    <3>1. labels[p] = Array
      BY <2>1, <2>8, EncodedFacts
    <3>2. ls = {}
      BY <2>2, <2>4, <2>8, NodeFacts
    <3>3. (\A k \in ls : k[1] = "integer") /\ {k[2] : k \in ls} = 1..0 /\ 0 \in Nat
      BY <3>2, <2>5
    <3> QED BY <3>1, <3>3 DEF ls
  <2>9. CASE v[p] \in Scalars \X Int
    <3>1. labels[p] = v[p]
      BY <2>1, <2>9, EncodedFacts
    <3>2. v[p][1] = "integer" => ~(v[p][2] > MaxInteger)
      BY <2>1, <2>9, NodeFacts, LuaNodeFacts
    <3>3. ls = {}
      BY <2>2, <2>4, <2>9, NodeFacts
    <3> QED BY <3>1, <3>2, <3>3, <2>9 DEF ls
  <2>10. CASE v[p] \in {"function"} \X Int
    BY <2>1, <2>10, EncodedFacts
  <2> QED BY <2>1, <2>6, <2>7, <2>8, <2>9, <2>10, LuaNodeFacts
<1>7. \A p \in DOMAIN labels : \A k \in Keys(labels, p) : k[1] = KeyType(labels[p])
  BY <1>6, NodeFacts DEF KeyType
<1>8. /\ IsTree(j, JsonKeys) /\ DOMAIN j = {Untyped(p) : p \in DOMAIN labels}
      /\ j = [q \in DOMAIN j |-> j[q]]
      /\ \A p \in DOMAIN labels :
            j[Untyped(p)] = labels[p] /\ Keys(j, Untyped(p)) = {k[2] : k \in Keys(labels, p)}
  <2>1. IsTree(labels, TypedKeys)
    BY <1>4, TreeIsTyped
  <2>2. BecomesJson(j, labels)
    BY <1>1, <1>5, <1>7, <2>1, ToJsonFacts
  <2> QED BY <2>2 DEF BecomesJson
<1>9. ASSUME NEW q \in DOMAIN j
      PROVE  /\ ~(Len(q) > MaxNesting)
             /\ \/ j[q] = Array /\ \E n \in Nat : Keys(j, q) = 1..n
                \/ j[q] = Object /\ Keys(j, q) \subseteq Names
                \/ /\ j[q] \in {Null} \cup (Scalars \X Int) /\ Keys(j, q) = {}
                   /\ j[q][1] = "integer" => ~(j[q][2] > MaxInteger)
  <2>1. PICK p \in DOMAIN labels : q = Untyped(p)
    BY <1>8
  <2>2. j[q] = labels[p] /\ Keys(j, q) = {k[2] : k \in Keys(labels, p)}
    BY <1>8, <2>1
  <2>3. Len(q) = Len(p)
    <3>1. p \in Seq(TypedKeys)
      BY <1>4, TreeIsTyped DEF IsTree
    <3> QED BY <3>1, <2>1, UntypedFacts
  <2>4. ~(Len(q) > MaxNesting)
    BY <2>3, <1>5 DEF Accepted
  <2>5. CASE labels[p] = Array /\ \E n \in Nat : {k[2] : k \in Keys(labels, p)} = 1..n
    BY <2>2, <2>4, <2>5
  <2>6. CASE labels[p] = Object /\ \A k \in Keys(labels, p) : k[1] = "string" /\ k[2] \in Names
    BY <2>2, <2>4, <2>6
  <2>7. CASE /\ labels[p] \in {Null} \cup (Scalars \X Int) /\ Keys(labels, p) = {}
             /\ labels[p][1] = "integer" => ~(labels[p][2] > MaxInteger)
    BY <2>2, <2>4, <2>7
  <2> QED BY <2>5, <2>6, <2>7, <1>6
<1>10. IsJson(j) /\ NestedWell(j)
  BY <1>8, <1>9 DEF IsJson, NestedWell
<1>11. Rounded(j) = j
  <2>1. ASSUME NEW q \in DOMAIN j
        PROVE  Rounded(j)[q] = j[q]
    <3>1. CASE j[q] \in {Null, Array, Object}
      BY <3>1, RoundedFacts
    <3>2. CASE j[q] \in Scalars \X Int
      <4>1. ~(j[q][1] = "integer" /\ j[q][2] > MaxInteger)
        BY <3>2, <1>9, NodeFacts
      <4> QED BY <3>2, <4>1, RoundedFacts
    <3> QED BY <3>1, <3>2, <1>9
  <2> QED BY <2>1, <1>8, RoundedFacts
<1> QED BY <1>10, <1>11 DEF j

(* What a queue of the workers accepts arrives.                            *)
LEMMA MessageSurvives ==
    ASSUME NEW v, IsLua(v), MessageOf(v) # Refused
    PROVE  ReceivedOf(MessageOf(v)) = Bare(v)
<1> DEFINE labels == [p \in DOMAIN v |-> Sent(v[p], Keys(v, p))]
           m == MessageOf(v)
<1>1. m = ToJson(labels) /\ DOMAIN labels = DOMAIN v
  BY DEF MessageOf
<1>2. \A p \in DOMAIN v : labels[p] = Sent(v[p], Keys(v, p))
  OBVIOUS
<1> HIDE DEF labels
<1>3. IsTree(v, TypedKeys) /\ IsTree(labels, TypedKeys)
  <2>1. IsTree(v, TypedKeys)
    BY TreeIsTyped DEF IsLua
  <2> QED BY <1>1, <2>1 DEF IsTree
<1>4. Accepted(labels)
  <2>1. << >> \in DOMAIN labels
    BY <1>3 DEF IsTree
  <2> QED BY <1>1, <2>1, MovedOrRefused DEF ToJson
<1> HIDE DEF m
<1>5. ASSUME NEW p \in DOMAIN v
      PROVE  /\ labels[p] \in {Null, Array, Object} \/ labels[p] \in Scalars \X Int
             /\ \A k \in Keys(labels, p) : k[1] = KeyType(labels[p])
             /\ Received(labels[p]) = Bare(v)[p]
  <2> DEFINE ks == Keys(v, p)
  <2>1. labels[p] = Sent(v[p], ks) /\ labels[p] # Unfit /\ Keys(labels, p) = ks
    BY <1>1, <1>2, <1>4, SameKeys DEF Accepted
  <2>2. v[p] \notin {Table, Tagged} /\ v[p] \notin {"function"} \X Int => ks = {}
    BY LuaNodeFacts
  <2>3. Bare(v)[p] = IF v[p] \in {Tagged, JsonNull, JsonEmpty} THEN Table ELSE v[p]
    BY DEF Bare
  <2> HIDE DEF ks
  <2>4. CASE v[p] \in {Table, Tagged, JsonNull, JsonEmpty}
    <3>1. \/ labels[p] = Array /\ \A k \in ks : k[1] = "integer"
          \/ labels[p] = Object /\ \A k \in ks : k[1] = "string"
      BY <2>1, <2>4, SentFacts
    <3>2. Object # Array
      BY NodeFacts
    <3>3. \A k \in Keys(labels, p) : k[1] = KeyType(labels[p])
      BY <2>1, <3>1, <3>2 DEF KeyType
    <3>4. Received(labels[p]) = Table
      BY <3>1, ReceivedFacts
    <3>5. Bare(v)[p] = Table
      BY <2>3, <2>4
    <3> QED BY <3>1, <3>3, <3>4, <3>5
  <2>5. CASE v[p] = Nil
    <3>1. labels[p] = Null /\ ks = {}
      BY <2>1, <2>2, <2>5, SentFacts, NodeFacts
    <3>2. Received(labels[p]) = Nil
      BY <3>1, ReceivedFacts
    <3>3. Bare(v)[p] = Nil
      BY <2>3, <2>5, NodeFacts
    <3> QED BY <2>1, <3>1, <3>2, <3>3
  <2>6. CASE v[p] \in Scalars \X Int
    <3>1. v[p] \notin {Table, Tagged, JsonNull, JsonEmpty} /\ v[p] \notin {"function"} \X Int
      BY <2>6, NodeFacts
    <3>2. labels[p] = v[p] /\ ks = {}
      BY <2>1, <2>2, <2>6, <3>1, SentFacts
    <3>3. v[p][1] = "integer" => ~(v[p][2] > MaxInteger)
      BY <2>6, <3>1, NodeFacts, LuaNodeFacts
    <3>4. Received(labels[p]) = v[p]
      <4>1. CASE v[p][1] = "integer"
        <5>1. Wrapped(v[p][2]) = v[p][2]
          BY <3>3, <4>1 DEF Wrapped
        <5>2. Received(labels[p]) = <<"integer", v[p][2]>>
          BY <2>6, <3>2, <4>1, <5>1, ReceivedFacts
        <5>3. v[p] = <<v[p][1], v[p][2]>>
          BY <2>6
        <5> QED BY <4>1, <5>2, <5>3
      <4>2. CASE v[p][1] # "integer"
        BY <2>6, <3>2, <4>2, ReceivedFacts
      <4> QED BY <4>1, <4>2
    <3>5. Bare(v)[p] = v[p]
      BY <2>3, <3>1
    <3> QED BY <2>1, <2>6, <3>2, <3>4, <3>5
  <2>7. CASE v[p] \in {"function"} \X Int
    BY <2>1, <2>7, SentFacts
  <2> QED BY <2>4, <2>5, <2>6, <2>7, LuaNodeFacts
<1>6. /\ IsTree(m, JsonKeys) /\ DOMAIN m = {Untyped(p) : p \in DOMAIN v}
      /\ \A p \in DOMAIN v : m[Untyped(p)] = labels[p] /\ Typed(m, Untyped(p)) = p
  <2>1. BecomesJson(m, labels)
    BY <1>1, <1>3, <1>4, <1>5, ToJsonFacts
  <2> QED BY <1>1, <2>1 DEF BecomesJson
<1> DEFINE back == [q \in DOMAIN m |-> Received(m[q])]
           w == ReceivedOf(m)
<1>7. w = ToLua(m, back) /\ DOMAIN back = DOMAIN m
  BY DEF ReceivedOf
<1>8. \A q \in DOMAIN m : back[q] = Received(m[q])
  OBVIOUS
<1> HIDE DEF back, w
<1>9. ASSUME NEW p \in DOMAIN v
      PROVE  /\ Untyped(p) \in DOMAIN m /\ back[Untyped(p)] = Bare(v)[p] /\ Bare(v)[p] # Unfit
             /\ ~(Len(Untyped(p)) > MaxNesting)
  <2>1. Untyped(p) \in DOMAIN m /\ back[Untyped(p)] = Received(labels[p])
    BY <1>6, <1>8
  <2>2. Received(labels[p]) = Bare(v)[p]
    BY <1>5
  <2>3. Received(labels[p]) # Unfit
    <3>1. CASE labels[p] \in {Null, Array, Object}
      <4>1. Received(labels[p]) \in {Nil, Table}
        BY <3>1, ReceivedFacts
      <4> QED BY <4>1, NodeFacts
    <3>2. CASE labels[p] \in Scalars \X Int
      <4>1. Received(labels[p]) \in Scalars \X Int
        <5>1. \A n \in Int : <<"integer", Wrapped(n)>> \in Scalars \X Int
          BY LimitsAssumption DEF Wrapped, Scalars
        <5>2. labels[p][2] \in Int
          BY <3>2
        <5> QED BY <3>2, <5>1, <5>2, ReceivedFacts
      <4> QED BY <4>1, NodeFacts
    <3> QED BY <3>1, <3>2, <1>5
  <2>4. Len(Untyped(p)) = Len(p)
    BY <1>3, UntypedFacts DEF IsTree
  <2>5. ~(Len(p) > MaxNesting)
    BY <1>1, <1>4 DEF Accepted
  <2> QED BY <2>1, <2>2, <2>3, <2>4, <2>5
<1>10. Accepted(back)
  <2> SUFFICES ASSUME NEW q \in DOMAIN m
               PROVE  ~(Len(q) > MaxNesting) /\ back[q] # Unfit
    BY <1>7 DEF Accepted
  <2>1. PICK p \in DOMAIN v : q = Untyped(p)
    BY <1>6
  <2> QED BY <2>1, <1>9
<1>11. /\ DOMAIN w = {Typed(m, q) : q \in DOMAIN m} /\ w = [p \in DOMAIN w |-> w[p]]
       /\ \A q \in DOMAIN m : w[Typed(m, q)] = back[q]
  <2>1. BecomesLua(w, m, back)
    BY <1>6, <1>7, <1>10, ToLuaFacts
  <2> QED BY <2>1 DEF BecomesLua
<1>12. DOMAIN w = DOMAIN v
  <2>1. \A p \in DOMAIN v : Untyped(p) \in DOMAIN m /\ Typed(m, Untyped(p)) = p
    BY <1>6
  <2>2. \A q \in DOMAIN m : \E p \in DOMAIN v : q = Untyped(p)
    BY <1>6
  <2> QED BY <2>1, <2>2, <1>11
<1>13. \A p \in DOMAIN v : w[p] = Bare(v)[p]
  BY <1>6, <1>9, <1>11
<1>14. Bare(v) = [p \in DOMAIN v |-> Bare(v)[p]]
  BY DEF Bare
<1>15. w = Bare(v)
  BY <1>11, <1>12, <1>13, <1>14
<1> QED BY <1>15 DEF w, m

-----------------------------------------------------------------------------
(* Only such values are ever built.                                        *)
ValuesInv == IsJson(json) /\ IsLua(lua)

LEMMA OneFacts ==
    ASSUME NEW node, NEW K
    PROVE  /\ IsTree(One(node), K) /\ DOMAIN One(node) = {<< >>}
           /\ One(node)[<< >>] = node /\ Keys(One(node), << >>) = {}
<1>1. DOMAIN One(node) = {<< >>} /\ One(node)[<< >>] = node
  BY DEF One
<1>2. IsFiniteSet({<< >>})
  BY FS_Singleton
<1>3. Keys(One(node), << >>) = {}
  BY <1>1 DEF Keys
<1> QED BY <1>1, <1>2, <1>3 DEF IsTree

LEMMA ValuesStart == ValuesInit => ValuesInv
<1> SUFFICES ASSUME ValuesInit PROVE ValuesInv
  OBVIOUS
<1>1. IsJson(json)
  <2>1. PICK node \in JsonNodes : json = One(node)
    BY DEF ValuesInit
  <2>2. /\ IsTree(json, JsonKeys) /\ DOMAIN json = {<< >>}
        /\ json[<< >>] = node /\ Keys(json, << >>) = {}
    BY <2>1, OneFacts
  <2>3. node \in {Array, Object} \/ node \in {Null} \cup (Scalars \X Int)
    BY LeavesAssumption DEF JsonNodes
  <2>4. {} = 1..0 /\ 0 \in Nat
    OBVIOUS
  <2>5. \E n \in Nat : Keys(json, << >>) = 1..n
    <3>1. Keys(json, << >>) = 1..0
      BY <2>2, <2>4
    <3> QED BY <3>1, <2>4
  <2>6. \A p \in DOMAIN json : json[p] = node /\ Keys(json, p) = {} /\ \E n \in Nat : Keys(json, p) = 1..n
    BY <2>2, <2>5
  <2> QED BY <2>2, <2>3, <2>6 DEF IsJson
<1>2. IsLua(lua)
  <2>1. PICK node \in LuaNodes \cup {Nil} : lua = One(node)
    BY DEF ValuesInit
  <2>2. /\ IsTree(lua, LuaKeys) /\ DOMAIN lua = {<< >>}
        /\ lua[<< >>] = node /\ Keys(lua, << >>) = {}
    BY <2>1, OneFacts
  <2> QED BY <2>2 DEF IsLua, LuaNodes
<1> QED BY <1>1, <1>2 DEF ValuesInv

(* An element, or a member, is added to what may have one.                 *)
LEMMA JsonGrows ==
    ASSUME NEW j, IsJson(j), NEW p \in DOMAIN j, NEW node \in JsonNodes, NEW k,
           \/ j[p] = Array /\ k = Cardinality(Keys(j, p)) + 1
           \/ j[p] = Object /\ k \in Names \ Keys(j, p)
    PROVE  IsJson(WithPart(j, p, k, node))
<1>1. /\ IsTree(j, JsonKeys)
      /\ \A q \in DOMAIN j : \/ j[q] = Array /\ \E n \in Nat : Keys(j, q) = 1..n
                             \/ j[q] = Object /\ Keys(j, q) \subseteq Names
                             \/ j[q] \in {Null} \cup (Scalars \X Int) /\ Keys(j, q) = {}
  BY DEF IsJson
<1>2. node \in {Array, Object} \/ node \in {Null} \cup (Scalars \X Int)
  BY LeavesAssumption DEF JsonNodes
<1>3. /\ k \in JsonKeys /\ k \notin Keys(j, p)
      /\ \/ j[p] = Array /\ \E n \in Nat : Keys(j, p) \cup {k} = 1..n
         \/ j[p] = Object /\ Keys(j, p) \cup {k} \subseteq Names
  <2>1. CASE j[p] = Array /\ k = Cardinality(Keys(j, p)) + 1
    <3>1. PICK n \in Nat : Keys(j, p) = 1..n
      BY <2>1, <1>1, NodeFacts
    <3>2. Cardinality(1..n) = n
      BY FS_Interval
    <3>3. k = n + 1
      BY <2>1, <3>1, <3>2
    <3>4. (1..n) \cup {k} = 1..(n + 1) /\ n + 1 \in Nat /\ k \in Int /\ k \notin 1..n
      BY <3>3
    <3> QED BY <2>1, <3>1, <3>4 DEF JsonKeys
  <2>2. CASE j[p] = Object /\ k \in Names \ Keys(j, p)
    <3>1. Keys(j, p) \subseteq Names
      <4>1. j[p] # Array /\ j[p] \notin {Null} \cup (Scalars \X Int)
        BY <2>2, NodeFacts
      <4> QED BY <4>1, <1>1
    <3> QED BY <2>2, <3>1 DEF JsonKeys
  <2> QED BY <2>1, <2>2
<1> DEFINE w == WithPart(j, p, k, node)
           new == Append(p, k)
<1>4. /\ IsTree(w, JsonKeys) /\ DOMAIN w = DOMAIN j \cup {new} /\ new \notin DOMAIN j
      /\ w[new] = node /\ Keys(w, new) = {}
      /\ \A q \in DOMAIN j : w[q] = j[q] /\ (q # p => Keys(w, q) = Keys(j, q))
      /\ Keys(w, p) = Keys(j, p) \cup {k}
  <2>1. HasPart(w, j, JsonKeys, p, k, node)
    BY <1>1, <1>3, WithPartFacts
  <2> QED BY <2>1, Zenon DEF HasPart
<1> HIDE DEF w, new
<1>5. ASSUME NEW q \in DOMAIN w
      PROVE  \/ w[q] = Array /\ \E n \in Nat : Keys(w, q) = 1..n
             \/ w[q] = Object /\ Keys(w, q) \subseteq Names
             \/ w[q] \in {Null} \cup (Scalars \X Int) /\ Keys(w, q) = {}
  <2>1. CASE q = new
    <3>1. {} = 1..0 /\ 0 \in Nat
      OBVIOUS
    <3>2. \E n \in Nat : Keys(w, q) = 1..n
      BY <3>1, <2>1, <1>4
    <3> QED BY <3>2, <2>1, <1>2, <1>4
  <2>2. CASE q = p
    <3>1. w[q] = j[p] /\ Keys(w, q) = Keys(j, p) \cup {k}
      BY <2>2, <1>4
    <3> QED BY <3>1, <1>3
  <2>3. CASE q \in DOMAIN j /\ q # p
    <3>1. w[q] = j[q] /\ Keys(w, q) = Keys(j, q)
      BY <2>3, <1>4
    <3> QED BY <3>1, <2>3, <1>1
  <2> QED BY <2>1, <2>2, <2>3, <1>4
<1>6. IsJson(w)
  BY <1>4, <1>5 DEF IsJson
<1> QED BY <1>6 DEF w

LEMMA LuaGrows ==
    ASSUME NEW v, IsLua(v), NEW p \in DOMAIN v, NEW node \in LuaNodes,
           v[p] \in {Table, Tagged}, NEW k \in LuaKeys \ Keys(v, p)
    PROVE  IsLua(WithPart(v, p, k, node))
<1> DEFINE w == WithPart(v, p, k, node)
           new == Append(p, k)
<1>1. /\ IsTree(v, LuaKeys)
      /\ \A q \in DOMAIN v : v[q] \in {Table, Tagged} \/ (v[q] \in {Nil} \cup LuaLeaves /\ Keys(v, q) = {})
  BY DEF IsLua
<1>2. k \in LuaKeys /\ k \notin Keys(v, p)
  OBVIOUS
<1>3. /\ IsTree(w, LuaKeys) /\ DOMAIN w = DOMAIN v \cup {new} /\ new \notin DOMAIN v
      /\ w[new] = node /\ Keys(w, new) = {}
      /\ \A q \in DOMAIN v : w[q] = v[q] /\ (q # p => Keys(w, q) = Keys(v, q))
  <2>1. HasPart(w, v, LuaKeys, p, k, node)
    BY <1>1, <1>2, WithPartFacts
  <2> QED BY <2>1, Zenon DEF HasPart
<1> HIDE DEF w, new
<1>4. ASSUME NEW q \in DOMAIN w
      PROVE  w[q] \in {Table, Tagged} \/ (w[q] \in {Nil} \cup LuaLeaves /\ Keys(w, q) = {})
  <2>1. CASE q = new
    BY <2>1, <1>3 DEF LuaNodes
  <2>2. CASE q = p
    BY <2>2, <1>3
  <2>3. CASE q \in DOMAIN v /\ q # p
    BY <2>3, <1>1, <1>3
  <2> QED BY <2>1, <2>2, <2>3, <1>3
<1>5. IsLua(w)
  BY <1>3, <1>4 DEF IsLua
<1> QED BY <1>5 DEF w

LEMMA ValuesGoOn == ValuesInv /\ [ValuesNext]_valueVars => ValuesInv'
<1> SUFFICES ASSUME IsJson(json), IsLua(lua), [ValuesNext]_valueVars
             PROVE  IsJson(json') /\ IsLua(lua')
  BY DEF ValuesInv, IsJson, IsLua, IsTree, Keys
<1>1. CASE AddElement
  BY <1>1, JsonGrows DEF AddElement
<1>2. CASE AddMember
  BY <1>2, JsonGrows DEF AddMember
<1>3. CASE AddField
  BY <1>3, LuaGrows DEF AddField
<1>4. CASE UNCHANGED valueVars
  BY <1>4 DEF valueVars
<1> QED BY <1>1, <1>2, <1>3, <1>4 DEF ValuesNext

LEMMA ValuesInvSuffices == ValuesInv => ValuesSurvive
<1> SUFFICES ASSUME IsJson(json), IsLua(lua)
             PROVE  ValuesSurvive
  BY DEF ValuesInv
<1>1. ASSUME LuaOf(json) # Refused
      PROVE  JsonOf(LuaOf(json)) = Rounded(json)
  <2> DEFINE labels == [p \in DOMAIN json |-> Decoded(json[p], Keys(json, p))]
  <2>1. LuaOf(json) = Moved(labels, [p \in DOMAIN json |-> Typed(json, p)]) /\ DOMAIN labels = DOMAIN json
    BY DEF LuaOf, ToLua
  <2>2. << >> \in DOMAIN labels
    BY DEF IsJson, IsTree
  <2> HIDE DEF labels
  <2>3. Accepted(labels)
    BY <1>1, <2>1, <2>2, MovedOrRefused
  <2>4. NestedWell(json)
    BY <2>1, <2>3 DEF Accepted, NestedWell
  <2> QED BY <2>4, JsonSurvives
<1>2. ASSUME JsonOf(lua) # Refused
      PROVE  JsonOf(LuaOf(JsonOf(lua))) = JsonOf(lua)
  BY <1>2, EncodedIsJson, JsonSurvives
<1>3. ASSUME MessageOf(lua) # Refused
      PROVE  ReceivedOf(MessageOf(lua)) = Bare(lua)
  BY <1>3, MessageSurvives
<1> QED BY <1>1, <1>2, <1>3 DEF ValuesSurvive

(* What babet.json decodes it encodes again as it was, what it encodes it  *)
(* decodes and encodes again the same, and a message of the workers that   *)
(* is accepted arrives: for values of any size, whatever their leaves and  *)
(* keys are and however deep they may go.                                  *)
THEOREM ValuesSurviveHolds == ValuesSpec => []ValuesSurvive
<1>1. ValuesInit => ValuesInv
  BY ValuesStart
<1>2. ValuesInv /\ [ValuesNext]_valueVars => ValuesInv'
  BY ValuesGoOn
<1>3. ValuesInv => ValuesSurvive
  BY ValuesInvSuffices
<1> QED BY <1>1, <1>2, <1>3, PTL DEF ValuesSpec
=============================================================================
