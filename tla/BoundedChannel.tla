--------------------------- MODULE BoundedChannel ---------------------------
(***************************************************************************)
(* What the message queue of src/lua_bindings/workers.cpp promises the     *)
(* threads that use it, with no mutex, condition variable, wait set or     *)
(* wakeup: a bounded FIFO channel whose calls take effect at one instant.  *)
(* A call either completes at once or waits; a waiting call completes as   *)
(* soon as the channel lets it, or gives up when its timeout has passed    *)
(* and the channel still does not.                                         *)
(***************************************************************************)
EXTENDS Naturals, Sequences

CONSTANTS Producers, Consumers, Msgs, Capacity

VARIABLES
    chan,     \* the messages accepted and not delivered yet, oldest first
    open,     \* FALSE once somebody closed the channel
    waiting,  \* the call each thread waits in, NoReq when it waits in none
    ret       \* what the last call of each thread returned

vars == <<chan, open, waiting, ret>>

Threads == Producers \cup Consumers
NoReq == [op |-> "none"]

Modes == {"try", "block", "timed"}
Pushes == [op : {"push"}, msg : Msgs, mode : Modes]
Pops == [op : {"pop"}, mode : Modes]
Requests(t) ==
    (IF t \in Producers THEN Pushes ELSE {}) \cup (IF t \in Consumers THEN Pops ELSE {})

Ok(what) == [ok |-> TRUE, what |-> what]
OkMsg(what, m) == [ok |-> TRUE, what |-> what, msg |-> m]
No(what) == [ok |-> FALSE, what |-> what]

(* The channel lets a push through when it has room, a pop when it has a   *)
(* message; when it is closed it lets every call through.                  *)
Ready(r) ==
    \/ ~open
    \/ r.op = "push" /\ Len(chan) < Capacity
    \/ r.op = "pop" /\ chan # << >>

-----------------------------------------------------------------------------
Init ==
    /\ chan = << >>
    /\ open = TRUE
    /\ waiting = [t \in Threads |-> NoReq]
    /\ ret = [t \in Threads |-> No("none")]

Answer(t, result) ==
    /\ waiting' = [waiting EXCEPT ![t] = NoReq]
    /\ ret' = [ret EXCEPT ![t] = result]
    /\ UNCHANGED open

(* A call the channel lets through: a closed channel takes nothing more    *)
(* but still delivers, in order, what it took before.                      *)
Proceed(t, r) ==
    \/ /\ r.op = "push" /\ open /\ Len(chan) < Capacity
       /\ chan' = Append(chan, r.msg)
       /\ Answer(t, Ok("pushed"))
    \/ /\ r.op = "push" /\ ~open
       /\ Answer(t, No("closed"))
       /\ UNCHANGED chan
    \/ /\ r.op = "pop" /\ chan # << >>
       /\ chan' = Tail(chan)
       /\ Answer(t, OkMsg("popped", Head(chan)))
    \/ /\ r.op = "pop" /\ chan = << >> /\ ~open
       /\ Answer(t, No("closed"))
       /\ UNCHANGED chan

(* A non-blocking call that cannot proceed says why.                       *)
Decline(t, r) ==
    /\ r.mode = "try" /\ ~Ready(r)
    /\ Answer(t, No(IF r.op = "push" THEN "full" ELSE "empty"))
    /\ UNCHANGED chan

Wait(t, r) ==
    /\ r.mode # "try" /\ ~Ready(r)
    /\ waiting' = [waiting EXCEPT ![t] = r]
    /\ ret' = [ret EXCEPT ![t] = No("none")]
    /\ UNCHANGED <<chan, open>>

(* Only a timed call gives up, and only while it cannot proceed.           *)
GiveUp(t, r) ==
    /\ r.mode = "timed" /\ ~Ready(r)
    /\ Answer(t, No("timeout"))
    /\ UNCHANGED chan

Call(t) ==
    /\ waiting[t] = NoReq
    /\ \E r \in Requests(t) : Proceed(t, r) \/ Decline(t, r) \/ Wait(t, r)

Complete(t) ==
    /\ waiting[t] # NoReq
    /\ Proceed(t, waiting[t]) \/ GiveUp(t, waiting[t])

CloseChannel ==
    /\ open' = FALSE
    /\ UNCHANGED <<chan, waiting, ret>>

Next == (\E t \in Threads : Call(t) \/ Complete(t)) \/ CloseChannel

Spec == Init /\ [][Next]_vars

(* A waiting call that can proceed, and keeps being able to, does; a timed *)
(* call always completes, because it can give up when it cannot proceed.   *)
FairSpec == Spec /\ \A t \in Threads : WF_vars(Complete(t))
=============================================================================
