------------------------------ MODULE Inotify -------------------------------
(***************************************************************************)
(* A watcher of babet.inotify (src/src/lua_bindings/inotify.cpp): add,     *)
(* remove, close and read with its three kinds of timeout.  The kernel's   *)
(* queue of events, which overflows, is external; so are the clock and the *)
(* signals, and somebody else who reads from the same queue.               *)
(***************************************************************************)
EXTENDS Integers, Sequences

CONSTANTS
    MaxQueue,   \* max_queued_events
    BufEvents,  \* how many events fit in the buffer of read
    MaxEvents,  \* bound: events that are told apart by their numbers
    MaxWatches  \* bound: watches added

ASSUME SizesAssumption == {MaxQueue, BufEvents} \subseteq Nat \ {0}
ASSUME BoundsAssumption == {MaxEvents, MaxWatches} \subseteq Nat

VARIABLES
    isOpen,      \* fd >= 0
    watches,     \* the watch descriptors in use; numbers are not given again
    added,       \* how many were given
    queue,       \* the kernel's queue
    happened,    \* events that happened, numbered as they do
    got,         \* ghost: the events the script was given
    stolen,      \* ghost: the events another reader took
    told,        \* ghost: how many had happened when each last got an overflow
    pc, timeout, \* the read in progress: "idle", "poll", "read", "decode"; "none" or a deadline
    buf          \* its buffer

vars == <<isOpen, watches, added, queue, happened, got, stolen, told, pc, timeout, buf>>
kernel == <<watches, added, queue, happened>>
ghosts == <<got, stolen, told>>

Overflow == [id |-> 0, wd |-> -1, kind |-> "overflow"]
Event(n, w, k) == [id |-> n, wd |-> w, kind |-> k]

Init ==
    /\ isOpen = TRUE /\ watches = {} /\ added = 0
    /\ queue = << >> /\ happened = 0 /\ got = << >> /\ stolen = {}
    /\ told = [script |-> 0, other |-> 0]
    /\ pc = "idle" /\ timeout = "none" /\ buf = << >>

-----------------------------------------------------------------------------
(* The kernel: a full queue loses the event, and takes an overflow event   *)
(* unless it holds one.  An event it merges with an equal one before it    *)
(* counts as that one.                                                     *)
Overflows(q) == \E i \in DOMAIN q : q[i] = Overflow

Queued(q, e) == IF Len(q) < MaxQueue THEN Append(q, e)
                ELSE IF Overflows(q) THEN q
                ELSE Append(q, Overflow)

Happens(w, kind) ==
    /\ happened < MaxEvents
    /\ happened' = happened + 1
    /\ queue' = Queued(queue, Event(happened', w, kind))

FileEvent ==
    /\ isOpen
    /\ \E w \in watches : Happens(w, "event")
    /\ UNCHANGED <<isOpen, watches, added, ghosts, pc, timeout, buf>>

(* The watched file is deleted or unmounted: its watch ends.               *)
WatchEnds ==
    /\ isOpen
    /\ \E w \in watches : Happens(w, "ignored") /\ watches' = watches \ {w}
    /\ UNCHANGED <<isOpen, added, ghosts, pc, timeout, buf>>

OtherReader ==
    /\ isOpen /\ queue # << >>
    /\ stolen' = stolen \cup {Head(queue)}
    /\ queue' = Tail(queue)
    /\ told' = IF Head(queue) = Overflow THEN [told EXCEPT !.other = happened] ELSE told
    /\ UNCHANGED <<isOpen, watches, added, happened, got, pc, timeout, buf>>

(* The model's own: files cause events for ever.  When the numbers are used *)
(* up and nothing is on its way, what happened is forgotten and numbers    *)
(* start again.                                                            *)
Renumber ==
    /\ happened = MaxEvents /\ queue = << >> /\ buf = << >>
    /\ happened' = 0 /\ got' = << >> /\ stolen' = {}
    /\ told' = [script |-> 0, other |-> 0]
    /\ UNCHANGED <<isOpen, watches, added, queue, pc, timeout, buf>>

TimePasses ==
    /\ timeout = "ahead"
    /\ timeout' = "passed"
    /\ UNCHANGED <<isOpen, kernel, ghosts, pc, buf>>

-----------------------------------------------------------------------------
(* Methods.  After close each of them fails.                               *)
Idle == pc = "idle" /\ isOpen

Add ==
    /\ Idle /\ added < MaxWatches
    /\ added' = added + 1 /\ watches' = watches \cup {added'}
    /\ UNCHANGED <<isOpen, queue, happened, ghosts, pc, timeout, buf>>

(* The kernel answers with an event that the watch is gone.                *)
RemoveWatch ==
    /\ Idle
    /\ \E w \in watches : Happens(w, "ignored") /\ watches' = watches \ {w}
    /\ UNCHANGED <<isOpen, added, ghosts, pc, timeout, buf>>

(* close, and __gc.                                                        *)
Close ==
    /\ Idle
    /\ isOpen' = FALSE /\ watches' = {} /\ queue' = << >>
    /\ UNCHANGED <<added, happened, ghosts, pc, timeout, buf>>

(* No timeout waits for ever; 0 is a deadline that has passed.             *)
Read ==
    /\ Idle
    /\ pc' = "poll" /\ timeout' \in {"none", "ahead", "passed"}
    /\ UNCHANGED <<isOpen, kernel, ghosts, buf>>

Return == pc' = "idle" /\ timeout' = "none" /\ UNCHANGED <<isOpen, kernel, ghosts, buf>>

PollReady ==
    /\ pc = "poll" /\ queue # << >>
    /\ pc' = "read"
    /\ UNCHANGED <<isOpen, kernel, ghosts, timeout, buf>>

PollTimeout == pc = "poll" /\ timeout = "passed" /\ queue = << >> /\ Return

(* A handled signal, in poll or in read.                                   *)
Interrupted == pc \in {"poll", "read"} /\ Return

(* read(2): what fits, or EAGAIN when somebody else was faster.            *)
Fits == IF Len(queue) < BufEvents THEN Len(queue) ELSE BufEvents

ReadEvents ==
    /\ pc = "read" /\ queue # << >>
    /\ buf' = SubSeq(queue, 1, Fits) /\ queue' = SubSeq(queue, Fits + 1, Len(queue))
    /\ pc' = "decode"
    /\ UNCHANGED <<isOpen, watches, added, happened, ghosts, timeout>>

MutantReadAgain ==
    /\ pc = "read" /\ queue = << >>
    /\ UNCHANGED vars

ReadAgain ==
    /\ pc = "read" /\ queue = << >>
    /\ pc' = "poll"
    /\ UNCHANGED <<isOpen, kernel, ghosts, timeout, buf>>

(* The events of the buffer, all of them, become the table of the answer.  *)
MutantDecode ==
    /\ pc = "decode"
    /\ got' = got \o SelectSeq(buf, LAMBDA e : e.wd \in watches)
    /\ buf' = << >> /\ pc' = "idle" /\ timeout' = "none"
    /\ UNCHANGED <<isOpen, kernel, stolen, told>>

Decode ==
    /\ pc = "decode"
    /\ got' = got \o buf
    /\ told' = IF Overflows(buf) THEN [told EXCEPT !.script = happened] ELSE told
    /\ buf' = << >> /\ pc' = "idle" /\ timeout' = "none"
    /\ UNCHANGED <<isOpen, kernel, stolen>>

Over == ~isOpen /\ pc = "idle" /\ UNCHANGED vars

ReadStep == PollReady \/ PollTimeout \/ ReadEvents \/ ReadAgain \/ Decode

Next == \/ FileEvent \/ WatchEnds \/ OtherReader \/ Renumber \/ TimePasses
        \/ Add \/ RemoveWatch \/ Close \/ Read \/ Interrupted \/ ReadStep \/ Over

Spec == Init /\ [][Next]_vars

FairSpec == Spec /\ WF_vars(ReadStep) /\ WF_vars(TimePasses)

-----------------------------------------------------------------------------
Events == [id : 0..MaxEvents, wd : -1..MaxWatches, kind : {"event", "ignored", "overflow"}]

TypeOK ==
    /\ isOpen \in BOOLEAN /\ added \in 0..MaxWatches /\ watches \subseteq 1..added
    /\ queue \in Seq(Events) /\ Len(queue) <= MaxQueue + 1 /\ happened \in 0..MaxEvents
    /\ got \in Seq(Events) /\ stolen \subseteq Events
    /\ told \in [script : 0..happened, other : 0..happened]
    /\ pc \in {"idle", "poll", "read", "decode"} /\ timeout \in {"none", "ahead", "passed"}
    /\ buf \in Seq(Events)

(* No event is lost without notice.  On an open watcher what the script    *)
(* has and what is still to come is in the order in which it happened, and *)
(* an event that is missing was taken by the other reader, or the script   *)
(* (or the other reader) gets an overflow after it was lost: a script that *)
(* then scans the directory has missed nothing.                            *)
Log == got \o buf \o queue

Ordered(s) ==
    \A i, j \in DOMAIN s : (i < j /\ s[i].id # 0 /\ s[j].id # 0) => s[i].id < s[j].id

Holds(s, n) == \E i \in DOMAIN s : s[i].id = n

Announced(n) ==
    \/ n <= told.script \/ n <= told.other
    \/ Overflows(buf) \/ Overflows(queue)

NoSilentLoss ==
    isOpen => /\ Ordered(Log)
              /\ \A n \in 1..happened :
                    Holds(Log, n) \/ Announced(n) \/ \E e \in stolen : e.id = n

(* read with a timeout returns, 0 included, even if every event that wakes *)
(* it up is gone when it reads, unless another reader goes on taking new   *)
(* ones from under it.                                                     *)
TimedReadReturns == (timeout # "none" ~> pc = "idle") \/ []<><<OtherReader>>_vars

-----------------------------------------------------------------------------
(* A statement of the sources that the code does not keep.                 *)

(* inotify.cpp: after EAGAIN the deadline bounds the loop, no infinite wait *)
(* is possible.  But poll says ready after the deadline too, and nothing   *)
(* else looks at it: events that come and are taken keep read in its loop. *)
DeadlineBoundsLoop == timeout # "none" ~> pc = "idle"
=============================================================================
