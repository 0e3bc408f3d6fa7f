---------------------------- MODULE MessageQueue ----------------------------
(***************************************************************************)
(* The bounded message queue of src/lua_bindings/workers.cpp               *)
(* (struct MessageQueue): a deque, a mutex, two condition variables        *)
(* (not_full, not_empty) and a closed flag, shared by the threads that     *)
(* push and the threads that pop.                                          *)
(*                                                                         *)
(* Granularity.  The code between pthread_mutex_lock and the next          *)
(* pthread_mutex_unlock or pthread_cond_(timed)wait touches only data      *)
(* guarded by mu, so it is one step here.  A thread waiting on a condition *)
(* goes through three states: "parked" (in the condition's wait set),      *)
(* "woken" (wait returned 0: signalled, broadcast to, or spuriously) or    *)
(* "expired" (timedwait returned ETIMEDOUT); in the last two it still has  *)
(* to get mu back, and any other thread may run before it does.            *)
(*                                                                         *)
(* Timeouts are the three cases the code tells apart: "try"                *)
(* (timeout_ms = 0), "block" (< 0) and "timed" (> 0).  The deadline of a   *)
(* timed call is absolute and computed once, on entry.                     *)
(*                                                                         *)
(* The operators named Mutant... are mistakes the code could make; no      *)
(* specification uses them.  Each is defined before the operator it would  *)
(* replace, and shows that a property is able to fail.                     *)
(***************************************************************************)
EXTENDS Naturals, Sequences, FiniteSets

CONSTANTS
    Producers,  \* threads that call push
    Consumers,  \* threads that call pop
    Msgs,       \* the serialised messages
    Capacity    \* the bound given to init(); spawn only lets 1..1000000 through

ASSUME ThreadsAssumption == IsFiniteSet(Producers) /\ IsFiniteSet(Consumers)
ASSUME CapacityAssumption == Capacity \in Nat \ {0}

VARIABLES
    q,       \* the deque
    closed,  \* the closed flag
    pc,      \* where each thread is: see above
    req,     \* the call each thread is inside of, NoReq outside any
    ret      \* what the last call of each thread returned, NoRet before and during

vars == <<q, closed, pc, req, ret>>

-----------------------------------------------------------------------------
Threads == Producers \cup Consumers
Modes == {"try", "block", "timed"}

PushReq(m, mode) == [op |-> "push", msg |-> m, mode |-> mode]
PopReq(mode) == [op |-> "pop", mode |-> mode]
NoReq == [op |-> "none"]
WaitingReq == [op : {"push"}, msg : Msgs, mode : {"block", "timed"}]
              \cup [op : {"pop"}, mode : {"block", "timed"}]

(* The pair<bool, const char *> both operations return, with pop's out_msg. *)
Pushed == [ok |-> TRUE, what |-> "pushed"]
Popped(m) == [ok |-> TRUE, what |-> "popped", msg |-> m]
Refused(reason) == [ok |-> FALSE, what |-> reason]
NoRet == [ok |-> FALSE, what |-> "none"]
Results == {Pushed, NoRet} \cup {Popped(m) : m \in Msgs}
           \cup {Refused(r) : r \in {"full", "empty", "timeout", "closed"}}

Full == Len(q) >= Capacity
Empty == q = << >>

(* The wait sets: not_full holds the parked pushes, not_empty the parked pops. *)
NotFull == {t \in Threads : pc[t] = "parked" /\ req[t].op = "push"}
NotEmpty == {t \in Threads : pc[t] = "parked" /\ req[t].op = "pop"}

-----------------------------------------------------------------------------
(* The steps the two operations share.                                     *)

MutantSignalNobody(cond, pcs) == {pcs}

(* pthread_cond_signal(cond): the values pc may take when one waiter of    *)
(* cond, if there is any, is woken on top of the update pcs.               *)
Signal(cond, pcs) ==
    IF cond = {} THEN {pcs} ELSE {[pcs EXCEPT ![w] = "woken"] : w \in cond}

Return(t, result) ==
    /\ req' = [req EXCEPT ![t] = NoReq]
    /\ ret' = [ret EXCEPT ![t] = result]

Fail(t, reason) ==
    /\ pc' = [pc EXCEPT ![t] = "idle"]
    /\ Return(t, Refused(reason))
    /\ UNCHANGED <<q, closed>>

Park(t, r) ==
    /\ pc' = [pc EXCEPT ![t] = "parked"]
    /\ req' = [req EXCEPT ![t] = r]
    /\ ret' = [ret EXCEPT ![t] = NoRet]
    /\ UNCHANGED <<q, closed>>

Insert(t, m) ==
    /\ q' = Append(q, m)
    /\ pc' \in Signal(NotEmpty, [pc EXCEPT ![t] = "idle"])
    /\ Return(t, Pushed)
    /\ UNCHANGED closed

Extract(t) ==
    /\ q' = Tail(q)
    /\ pc' \in Signal(NotFull, [pc EXCEPT ![t] = "idle"])
    /\ Return(t, Popped(Head(q)))
    /\ UNCHANGED closed

(* One pass of push under mu.  timedOut says that the pass follows an      *)
(* ETIMEDOUT: the code then returns "timeout" only if the queue is still   *)
(* full and open.                                                          *)
PushPass(t, m, mode, timedOut) ==
    \/ closed /\ Fail(t, "closed")
    \/ /\ ~closed /\ Full
       /\ \/ mode = "try" /\ Fail(t, "full")
          \/ mode = "timed" /\ timedOut /\ Fail(t, "timeout")
          \/ mode # "try" /\ ~timedOut /\ Park(t, PushReq(m, mode))
    \/ ~closed /\ ~Full /\ Insert(t, m)

MutantPopPassClosedFirst(t, mode, timedOut) ==
    \/ closed /\ Fail(t, "closed")
    \/ /\ ~closed /\ Empty
       /\ \/ mode = "try" /\ Fail(t, "empty")
          \/ mode = "timed" /\ timedOut /\ Fail(t, "timeout")
          \/ mode # "try" /\ ~timedOut /\ Park(t, PopReq(mode))
    \/ ~closed /\ ~Empty /\ Extract(t)

MutantPopPassSleepy(t, mode, timedOut) ==
    \/ /\ Empty
       /\ \/ mode = "try" /\ Fail(t, "empty")
          \/ mode = "timed" /\ timedOut /\ Fail(t, "timeout")
          \/ mode # "try" /\ ~timedOut /\ Park(t, PopReq(mode))
    \/ ~Empty /\ Extract(t)

(* One pass of pop under mu: a closed queue is drained before "closed".    *)
PopPass(t, mode, timedOut) ==
    \/ Empty /\ closed /\ Fail(t, "closed")
    \/ /\ Empty /\ ~closed
       /\ \/ mode = "try" /\ Fail(t, "empty")
          \/ mode = "timed" /\ timedOut /\ Fail(t, "timeout")
          \/ mode # "try" /\ ~timedOut /\ Park(t, PopReq(mode))
    \/ ~Empty /\ Extract(t)

-----------------------------------------------------------------------------
Init ==
    /\ q = << >>
    /\ closed = FALSE
    /\ pc = [t \in Threads |-> "idle"]
    /\ req = [t \in Threads |-> NoReq]
    /\ ret = [t \in Threads |-> NoRet]

Push(t, m, mode) ==
    /\ t \in Producers
    /\ pc[t] = "idle"
    /\ PushPass(t, m, mode, FALSE)

Pop(t, mode) ==
    /\ t \in Consumers
    /\ pc[t] = "idle"
    /\ PopPass(t, mode, FALSE)

MutantCloseOneCondition(t) ==
    /\ pc[t] = "idle"
    /\ closed' = TRUE
    /\ pc' = [u \in Threads |-> IF u \in NotEmpty THEN "woken" ELSE pc[u]]
    /\ UNCHANGED <<q, req, ret>>

MutantCloseForgetsReaders(t) ==
    /\ pc[t] = "idle"
    /\ closed' = TRUE
    /\ pc' = [u \in Threads |-> IF u \in NotFull THEN "woken" ELSE pc[u]]
    /\ UNCHANGED <<q, req, ret>>

(* close(): raise the flag, broadcast on both conditions.                  *)
Close(t) ==
    /\ pc[t] = "idle"
    /\ closed' = TRUE
    /\ pc' = [u \in Threads |-> IF pc[u] = "parked" THEN "woken" ELSE pc[u]]
    /\ UNCHANGED <<q, req, ret>>

MutantResumeRetimes(t) ==
    /\ pc[t] \in {"woken", "expired"}
    /\ \/ req[t].op = "push" /\ PushPass(t, req[t].msg, req[t].mode, FALSE)
       \/ req[t].op = "pop" /\ PopPass(t, req[t].mode, FALSE)

(* A thread back from its wait gets mu and tests its condition again.      *)
Resume(t) ==
    /\ pc[t] \in {"woken", "expired"}
    /\ \/ /\ req[t].op = "push"
          /\ PushPass(t, req[t].msg, req[t].mode, pc[t] = "expired")
       \/ /\ req[t].op = "pop"
          /\ PopPass(t, req[t].mode, pc[t] = "expired")

(* pthread_cond_wait may return without a signal.                          *)
SpuriousWakeup(t) ==
    /\ pc[t] = "parked"
    /\ pc' = [pc EXCEPT ![t] = "woken"]
    /\ UNCHANGED <<q, closed, req, ret>>

(* The deadline passes and pthread_cond_timedwait returns ETIMEDOUT.       *)
Expire(t) ==
    /\ pc[t] = "parked"
    /\ req[t].mode = "timed"
    /\ pc' = [pc EXCEPT ![t] = "expired"]
    /\ UNCHANGED <<q, closed, req, ret>>

Next ==
    \E t \in Threads :
        \/ \E mode \in Modes : (\E m \in Msgs : Push(t, m, mode)) \/ Pop(t, mode)
        \/ Close(t)
        \/ Resume(t)
        \/ SpuriousWakeup(t)
        \/ Expire(t)

Spec == Init /\ [][Next]_vars

(* Every waiting thread that was woken eventually gets mu back.  Expire is *)
(* strongly fair because the deadline is absolute: however often the       *)
(* thread is woken and parks again, it passes.                             *)
Fairness == \A t \in Threads : WF_vars(Resume(t)) /\ SF_vars(Expire(t))

FairSpec == Spec /\ Fairness

-----------------------------------------------------------------------------
(* Types.  A thread is idle exactly when it is in no call, and only calls  *)
(* that may wait ("block", "timed") ever do: the bound holds too.          *)
TypeOK ==
    /\ q \in Seq(Msgs) /\ Len(q) <= Capacity
    /\ closed \in BOOLEAN
    /\ pc \in [Threads -> {"idle", "parked", "woken", "expired"}]
    /\ req \in [Threads -> WaitingReq \cup {NoReq}]
    /\ ret \in [Threads -> Results]
    /\ \A t \in Threads : /\ pc[t] = "idle" <=> req[t] = NoReq
                          /\ pc[t] # "idle" => ret[t] = NoRet

(* The threads that are inside push (pop) and not asleep: each will test   *)
(* its condition again before it can sleep.                                *)
AwakePushers == {t \in Threads : pc[t] \in {"woken", "expired"} /\ req[t].op = "push"}
AwakePoppers == {t \in Threads : pc[t] \in {"woken", "expired"} /\ req[t].op = "pop"}

(* No wakeup is lost although push and pop signal one waiter only: while a *)
(* consumer sleeps, every queued message already has an awake consumer     *)
(* coming for it, and while a producer sleeps every free slot has an awake *)
(* producer.  (push, pop, pthread_cond_signal.)                            *)
NoLostWakeup ==
    /\ NotEmpty # {} => Len(q) <= Cardinality(AwakePoppers)
    /\ NotFull # {} => Capacity - Len(q) <= Cardinality(AwakePushers)

(* close() leaves nobody asleep, and nobody falls asleep afterwards:       *)
(* what worker_gc relies on when it closes both queues before             *)
(* pthread_join.                                                           *)
ClosedMeansAwake == closed => \A t \in Threads : pc[t] # "parked"

(* Once the queue is closed every call in progress returns.                *)
CloseReleasesWaiters == closed ~> \A t \in Threads : pc[t] = "idle"

(* A call with a timeout always returns, whatever the other threads do.    *)
TimedCallsReturn ==
    \A t \in Threads :
        (req[t] # NoReq /\ req[t].mode = "timed") ~> pc[t] = "idle"

(* What the queue promises its callers: see BoundedChannel.                *)
Channel == INSTANCE BoundedChannel
             WITH chan <- q, open <- ~closed, waiting <- req

(* The queue implements the abstract channel, with its fairness: a waiting *)
(* call that can proceed does.                                             *)
ImplementsChannel == Channel!FairSpec
=============================================================================
