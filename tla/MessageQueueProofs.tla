------------------------- MODULE MessageQueueProofs -------------------------
(***************************************************************************)
(* Proofs about MessageQueue, for every set of threads, every set of       *)
(* messages and every capacity.                                            *)
(***************************************************************************)
EXTENDS MessageQueue, FiniteSetTheorems, TLAPS

States == {"idle", "parked", "woken", "expired"}

-----------------------------------------------------------------------------
(* Every parked thread waits on exactly one of the two conditions.         *)
LEMMA WaitSetsAreThreads ==
    NotFull \subseteq Threads /\ NotEmpty \subseteq Threads
BY DEF NotFull, NotEmpty

-----------------------------------------------------------------------------
(* Type correctness: the queue never exceeds its capacity, and a thread is *)
(* in a call exactly when it is not idle.                                  *)

(* What every way of leaving a pass keeps of the types.                    *)
LEMMA FailKeepsTypes ==
    ASSUME TypeOK, NEW t \in Threads,
           NEW reason \in {"full", "empty", "timeout", "closed"}, Fail(t, reason)
    PROVE  TypeOK'
BY DEF Fail, Return, TypeOK, Results, Refused, NoReq, WaitingReq

LEMMA ParkKeepsTypes ==
    ASSUME TypeOK, NEW t \in Threads, NEW r \in WaitingReq, Park(t, r)
    PROVE  TypeOK'
BY DEF Park, TypeOK, Results, NoRet, NoReq, WaitingReq

LEMMA InsertKeepsTypes ==
    ASSUME TypeOK, NEW t \in Threads, NEW m \in Msgs, ~Full, Insert(t, m)
    PROVE  TypeOK'
<1>1. q' \in Seq(Msgs) /\ Len(q') <= Capacity
  BY CapacityAssumption DEF Insert, TypeOK, Full
<1>2. [pc EXCEPT ![t] = "idle"] \in [Threads -> States]
  BY DEF TypeOK, States
<1>3. /\ pc' \in [Threads -> States]
      /\ \/ pc' = [pc EXCEPT ![t] = "idle"]
         \/ \E w \in NotEmpty : pc' = [[pc EXCEPT ![t] = "idle"] EXCEPT ![w] = "woken"]
  <2>1. pc' \in Signal(NotEmpty, [pc EXCEPT ![t] = "idle"])
    BY DEF Insert
  <2>2. NotEmpty \in SUBSET Threads
    BY WaitSetsAreThreads
  <2>3. CASE NotEmpty = {}
    BY <1>2, <2>1, <2>3 DEF Signal
  <2>4. CASE NotEmpty # {}
    <3>1. PICK w \in NotEmpty : pc' = [[pc EXCEPT ![t] = "idle"] EXCEPT ![w] = "woken"]
      BY <2>1, <2>4 DEF Signal
    <3> QED BY <1>2, <2>2, <3>1 DEF States
  <2> QED BY <2>3, <2>4
<1>4. req' \in [Threads -> WaitingReq \cup {NoReq}] /\ ret' \in [Threads -> Results]
  BY DEF Insert, Return, TypeOK, Results
<1>5. ASSUME NEW u \in Threads
      PROVE  /\ pc'[u] = "idle" <=> req'[u] = NoReq
             /\ pc'[u] # "idle" => ret'[u] = NoRet
  BY <1>3 DEF Insert, Return, TypeOK, NotEmpty, NoReq, States
<1> QED BY <1>1, <1>3, <1>4, <1>5 DEF TypeOK, Insert, States

LEMMA ExtractKeepsTypes ==
    ASSUME TypeOK, NEW t \in Threads, ~Empty, Extract(t)
    PROVE  TypeOK'
<1>1. q' \in Seq(Msgs) /\ Len(q') <= Capacity /\ Head(q) \in Msgs
  BY CapacityAssumption DEF Extract, TypeOK, Empty
<1>2. [pc EXCEPT ![t] = "idle"] \in [Threads -> States]
  BY DEF TypeOK, States
<1>3. /\ pc' \in [Threads -> States]
      /\ \/ pc' = [pc EXCEPT ![t] = "idle"]
         \/ \E w \in NotFull : pc' = [[pc EXCEPT ![t] = "idle"] EXCEPT ![w] = "woken"]
  <2>1. pc' \in Signal(NotFull, [pc EXCEPT ![t] = "idle"])
    BY DEF Extract
  <2>2. NotFull \in SUBSET Threads
    BY WaitSetsAreThreads
  <2>3. CASE NotFull = {}
    BY <1>2, <2>1, <2>3 DEF Signal
  <2>4. CASE NotFull # {}
    <3>1. PICK w \in NotFull : pc' = [[pc EXCEPT ![t] = "idle"] EXCEPT ![w] = "woken"]
      BY <2>1, <2>4 DEF Signal
    <3> QED BY <1>2, <2>2, <3>1 DEF States
  <2> QED BY <2>3, <2>4
<1>4. req' \in [Threads -> WaitingReq \cup {NoReq}] /\ ret' \in [Threads -> Results]
  BY <1>1 DEF Extract, Return, TypeOK, Results
<1>5. ASSUME NEW u \in Threads
      PROVE  /\ pc'[u] = "idle" <=> req'[u] = NoReq
             /\ pc'[u] # "idle" => ret'[u] = NoRet
  BY <1>3 DEF Extract, Return, TypeOK, NotFull, NoReq, States
<1> QED BY <1>1, <1>3, <1>4, <1>5 DEF TypeOK, Extract, States

LEMMA PushPassKeepsTypes ==
    ASSUME TypeOK, NEW t \in Threads, NEW m \in Msgs, NEW mode \in Modes,
           NEW timedOut \in BOOLEAN, PushPass(t, m, mode, timedOut)
    PROVE  TypeOK'
<1>1. CASE \E reason \in {"closed", "full", "timeout"} : Fail(t, reason)
  BY <1>1, FailKeepsTypes
<1>2. CASE mode # "try" /\ Park(t, PushReq(m, mode))
  <2>1. PushReq(m, mode) \in WaitingReq
    BY <1>2 DEF PushReq, WaitingReq, Modes
  <2> QED BY <1>2, <2>1, ParkKeepsTypes
<1>3. CASE ~Full /\ Insert(t, m)
  BY <1>3, InsertKeepsTypes
<1> QED BY <1>1, <1>2, <1>3 DEF PushPass

LEMMA PopPassKeepsTypes ==
    ASSUME TypeOK, NEW t \in Threads, NEW mode \in Modes,
           NEW timedOut \in BOOLEAN, PopPass(t, mode, timedOut)
    PROVE  TypeOK'
<1>1. CASE \E reason \in {"closed", "empty", "timeout"} : Fail(t, reason)
  BY <1>1, FailKeepsTypes
<1>2. CASE mode # "try" /\ Park(t, PopReq(mode))
  <2>1. PopReq(mode) \in WaitingReq
    BY <1>2 DEF PopReq, WaitingReq, Modes
  <2> QED BY <1>2, <2>1, ParkKeepsTypes
<1>3. CASE ~Empty /\ Extract(t)
  BY <1>3, ExtractKeepsTypes
<1> QED BY <1>1, <1>2, <1>3 DEF PopPass

(* The queue never holds more than its capacity, and a thread is asleep or *)
(* awake in a call with a request and without an answer.                   *)
THEOREM TypeCorrect == Spec => []TypeOK
<1>1. Init => TypeOK
  <2> SUFFICES ASSUME Init PROVE TypeOK
    OBVIOUS
  <2>1. q \in Seq(Msgs) /\ Len(q) <= Capacity
    BY CapacityAssumption DEF Init
  <2>2. ret \in [Threads -> Results]
    BY DEF Init, Results
  <2>3. \A t \in Threads : pc[t] = "idle" /\ req[t] = NoReq /\ ret[t] = NoRet
    BY DEF Init
  <2> QED BY <2>1, <2>2, <2>3 DEF Init, TypeOK
<1>2. TypeOK /\ [Next]_vars => TypeOK'
  <2> SUFFICES ASSUME TypeOK, [Next]_vars PROVE TypeOK'
    OBVIOUS
  <2>1. ASSUME NEW t \in Threads, NEW m \in Msgs, NEW mode \in Modes, Push(t, m, mode)
        PROVE  TypeOK'
    BY <2>1, PushPassKeepsTypes DEF Push
  <2>2. ASSUME NEW t \in Threads, NEW mode \in Modes, Pop(t, mode)
        PROVE  TypeOK'
    BY <2>2, PopPassKeepsTypes DEF Pop
  <2>3. ASSUME NEW t \in Threads, Close(t) PROVE TypeOK'
    BY <2>3 DEF Close, TypeOK
  <2>4. ASSUME NEW t \in Threads, Resume(t) PROVE TypeOK'
    <3>1. req[t] \in WaitingReq
      BY <2>4 DEF Resume, TypeOK
    <3>2. CASE req[t].op = "push"
      <4>1. req[t].msg \in Msgs /\ req[t].mode \in Modes
        BY <3>1, <3>2 DEF WaitingReq, Modes
      <4> QED BY <2>4, <3>2, <4>1, PushPassKeepsTypes DEF Resume
    <3>3. CASE req[t].op = "pop"
      <4>1. req[t].mode \in Modes
        BY <3>1, <3>3 DEF WaitingReq, Modes
      <4> QED BY <2>4, <3>3, <4>1, PopPassKeepsTypes DEF Resume
    <3> QED BY <2>4, <3>2, <3>3 DEF Resume
  <2>5. ASSUME NEW t \in Threads, SpuriousWakeup(t) PROVE TypeOK'
    BY <2>5 DEF SpuriousWakeup, TypeOK
  <2>6. ASSUME NEW t \in Threads, Expire(t) PROVE TypeOK'
    BY <2>6 DEF Expire, TypeOK
  <2>7. CASE UNCHANGED vars
    BY <2>7 DEF vars, TypeOK
  <2> QED BY <2>1, <2>2, <2>3, <2>4, <2>5, <2>6, <2>7 DEF Next
<1> QED BY <1>1, <1>2, PTL DEF Spec

-----------------------------------------------------------------------------
(* Sets of threads are finite, so that they can be counted.                *)
LEMMA ThreadSetsAreCountable ==
    ASSUME NEW S \in SUBSET Threads
    PROVE  /\ IsFiniteSet(S) /\ Cardinality(S) \in Nat
           /\ \A t \in Threads :
                /\ t \notin S => Cardinality(S \cup {t}) = Cardinality(S) + 1
                /\ Cardinality(S \ {t}) <= Cardinality(S)
                /\ Cardinality(S \ {t}) >= Cardinality(S) - 1
<1>1. IsFiniteSet(Threads)
  BY ThreadsAssumption, FS_Union DEF Threads
<1>2. IsFiniteSet(S) /\ Cardinality(S) \in Nat
  BY <1>1, FS_Subset, FS_CardinalityType
<1>3. ASSUME NEW t \in Threads
      PROVE  /\ t \notin S => Cardinality(S \cup {t}) = Cardinality(S) + 1
             /\ Cardinality(S \ {t}) <= Cardinality(S)
             /\ Cardinality(S \ {t}) >= Cardinality(S) - 1
  <2>1. CASE t \in S
    <3>1. Cardinality(S \ {t}) = Cardinality(S) - 1
      BY <1>2, <2>1, FS_RemoveElement
    <3> QED BY <1>2, <2>1, <3>1
  <2>2. CASE t \notin S
    <3>1. S \ {t} = S
      BY <2>2
    <3>2. Cardinality(S \cup {t}) = Cardinality(S) + 1
      BY <1>2, <2>2, FS_AddElement
    <3>3. Cardinality(S \ {t}) = Cardinality(S)
      BY <3>1
    <3> QED BY <1>2, <3>2, <3>3
  <2> QED BY <2>1, <2>2
<1> QED BY <1>2, <1>3

LEMMA AwakeSetsAreThreads ==
    AwakePushers \in SUBSET Threads /\ AwakePoppers \in SUBSET Threads
BY DEF AwakePushers, AwakePoppers

-----------------------------------------------------------------------------
(* close() leaves nobody asleep: a closed queue never parks a thread, and  *)
(* the broadcast wakes those parked before.                                *)
LEMMA PassKeepsAwake ==
    ASSUME TypeOK, ClosedMeansAwake, NEW t \in Threads,
           \/ \E m, mode, timedOut : PushPass(t, m, mode, timedOut)
           \/ \E mode, timedOut : PopPass(t, mode, timedOut)
    PROVE  ClosedMeansAwake'
<1>1. CASE \E reason : Fail(t, reason)
  BY <1>1 DEF Fail, ClosedMeansAwake, TypeOK
<1>2. CASE \E r : ~closed /\ Park(t, r)
  BY <1>2 DEF Park, ClosedMeansAwake
<1>3. CASE \E m : ~closed /\ Insert(t, m)
  BY <1>3 DEF Insert, ClosedMeansAwake
<1>4. CASE Extract(t)
  <2>1. CASE closed
    <3>1. NotFull = {}
      BY <2>1 DEF ClosedMeansAwake, NotFull
    <3>2. pc' = [pc EXCEPT ![t] = "idle"]
      BY <1>4, <3>1 DEF Extract, Signal
    <3> QED BY <1>4, <3>2 DEF Extract, ClosedMeansAwake, TypeOK
  <2>2. CASE ~closed
    BY <1>4, <2>2 DEF Extract, ClosedMeansAwake
  <2> QED BY <2>1, <2>2
<1> QED BY <1>1, <1>2, <1>3, <1>4 DEF PushPass, PopPass

(* Once close returned nobody sleeps in push or pop, and nobody will again. *)
THEOREM ClosedMeansAwakeHolds == Spec => []ClosedMeansAwake
<1>1. Init => ClosedMeansAwake
  BY DEF Init, ClosedMeansAwake
<1>2. TypeOK /\ ClosedMeansAwake /\ [Next]_vars => ClosedMeansAwake'
  <2> SUFFICES ASSUME TypeOK, ClosedMeansAwake, [Next]_vars PROVE ClosedMeansAwake'
    OBVIOUS
  <2>1. ASSUME NEW t \in Threads, NEW m \in Msgs, NEW mode \in Modes, Push(t, m, mode)
        PROVE  ClosedMeansAwake'
    BY <2>1, PassKeepsAwake DEF Push
  <2>2. ASSUME NEW t \in Threads, NEW mode \in Modes, Pop(t, mode)
        PROVE  ClosedMeansAwake'
    BY <2>2, PassKeepsAwake DEF Pop
  <2>3. ASSUME NEW t \in Threads, Close(t) PROVE ClosedMeansAwake'
    BY <2>3 DEF Close, ClosedMeansAwake, TypeOK
  <2>4. ASSUME NEW t \in Threads, Resume(t) PROVE ClosedMeansAwake'
    BY <2>4, PassKeepsAwake DEF Resume
  <2>5. ASSUME NEW t \in Threads, SpuriousWakeup(t) \/ Expire(t) PROVE ClosedMeansAwake'
    BY <2>5 DEF SpuriousWakeup, Expire, ClosedMeansAwake, TypeOK
  <2>6. CASE UNCHANGED vars
    BY <2>6 DEF vars, ClosedMeansAwake
  <2> QED BY <2>1, <2>2, <2>3, <2>4, <2>5, <2>6 DEF Next
<1> QED BY <1>1, <1>2, TypeCorrect, PTL DEF Spec

-----------------------------------------------------------------------------
(* No lost wakeup.  The invariant is inductive with the types: a push adds *)
(* one message and wakes one sleeping consumer; a pop takes one message    *)
(* and may take one awake consumer with it; a consumer goes back to sleep, *)
(* or gives up, only on an empty queue.  Symmetrically for the free slots. *)

(* What each exit of a pass does to the four sets of threads.              *)
LEMMA FailMovesOneThread ==
    ASSUME TypeOK, NEW t \in Threads, NEW reason, pc[t] # "parked", Fail(t, reason)
    PROVE  /\ q' = q /\ NotEmpty' = NotEmpty /\ NotFull' = NotFull
           /\ AwakePoppers' = AwakePoppers \ {t}
           /\ AwakePushers' = AwakePushers \ {t}
<1>1. \A u \in Threads \ {t} : pc'[u] = pc[u] /\ req'[u] = req[u]
  BY DEF Fail, Return, TypeOK
<1>2. pc'[t] = "idle"
  BY DEF Fail, TypeOK
<1> QED BY <1>1, <1>2 DEF Fail, NotEmpty, NotFull, AwakePoppers, AwakePushers

LEMMA ParkMovesOneThread ==
    ASSUME TypeOK, NEW t \in Threads, NEW r, pc[t] # "parked", Park(t, r),
           r.op \in {"push", "pop"}
    PROVE  /\ q' = q
           /\ NotEmpty' = (IF r.op = "pop" THEN NotEmpty \cup {t} ELSE NotEmpty)
           /\ NotFull' = (IF r.op = "push" THEN NotFull \cup {t} ELSE NotFull)
           /\ AwakePoppers' = AwakePoppers \ {t}
           /\ AwakePushers' = AwakePushers \ {t}
<1>1. \A u \in Threads \ {t} : pc'[u] = pc[u] /\ req'[u] = req[u]
  BY DEF Park, TypeOK
<1>2. pc'[t] = "parked" /\ req'[t] = r
  BY DEF Park, TypeOK
<1> QED BY <1>1, <1>2 DEF Park, NotEmpty, NotFull, AwakePoppers, AwakePushers

LEMMA InsertWakesAConsumer ==
    ASSUME TypeOK, NEW t \in Threads, NEW m \in Msgs, pc[t] # "parked", t \notin AwakePoppers,
           Insert(t, m)
    PROVE  /\ Len(q') = Len(q) + 1
           /\ NotEmpty' \subseteq NotEmpty /\ NotFull' = NotFull
           /\ NotEmpty # {} => \E w \in NotEmpty : AwakePoppers' = AwakePoppers \cup {w}
           /\ AwakePushers' = AwakePushers \ {t}
<1>0. Len(q') = Len(q) + 1
  BY DEF Insert, TypeOK
<1>1. \A u \in Threads : req'[u] = IF u = t THEN NoReq ELSE req[u]
  BY DEF Insert, Return, TypeOK
<1>2. CASE NotEmpty = {}
  <2>1. \A u \in Threads : pc'[u] = IF u = t THEN "idle" ELSE pc[u]
    BY <1>2 DEF Insert, Signal, TypeOK
  <2> QED BY <1>0, <1>1, <1>2, <2>1 DEF NotEmpty, NotFull, AwakePoppers, AwakePushers
<1>3. CASE NotEmpty # {}
  <2>1. PICK w \in NotEmpty : pc' = [[pc EXCEPT ![t] = "idle"] EXCEPT ![w] = "woken"]
    BY <1>3 DEF Insert, Signal
  <2>2. w # t /\ w \in Threads /\ pc[w] = "parked" /\ req[w].op = "pop"
    BY DEF NotEmpty
  <2>3. \A u \in Threads :
            pc'[u] = IF u = w THEN "woken" ELSE IF u = t THEN "idle" ELSE pc[u]
    BY <2>1, <2>2 DEF TypeOK
  <2>4. AwakePoppers' = AwakePoppers \cup {w}
    BY <1>1, <2>2, <2>3 DEF AwakePoppers
  <2>5. AwakePushers' = AwakePushers \ {t}
    BY <1>1, <2>2, <2>3 DEF AwakePushers
  <2>6. NotEmpty' \subseteq NotEmpty /\ NotFull' = NotFull
    BY <1>1, <2>2, <2>3 DEF NotEmpty, NotFull
  <2> QED BY <1>0, <2>4, <2>5, <2>6
<1> QED BY <1>2, <1>3

LEMMA ExtractWakesAProducer ==
    ASSUME TypeOK, NEW t \in Threads, pc[t] # "parked", t \notin AwakePushers, ~Empty,
           Extract(t)
    PROVE  /\ Len(q') = Len(q) - 1
           /\ NotFull' \subseteq NotFull /\ NotEmpty' = NotEmpty
           /\ NotFull # {} => \E w \in NotFull : AwakePushers' = AwakePushers \cup {w}
           /\ AwakePoppers' = AwakePoppers \ {t}
<1>0. Len(q') = Len(q) - 1
  BY DEF Extract, TypeOK, Empty
<1>1. \A u \in Threads : req'[u] = IF u = t THEN NoReq ELSE req[u]
  BY DEF Extract, Return, TypeOK
<1>2. CASE NotFull = {}
  <2>1. \A u \in Threads : pc'[u] = IF u = t THEN "idle" ELSE pc[u]
    BY <1>2 DEF Extract, Signal, TypeOK
  <2> QED BY <1>0, <1>1, <1>2, <2>1 DEF NotEmpty, NotFull, AwakePoppers, AwakePushers
<1>3. CASE NotFull # {}
  <2>1. PICK w \in NotFull : pc' = [[pc EXCEPT ![t] = "idle"] EXCEPT ![w] = "woken"]
    BY <1>3 DEF Extract, Signal
  <2>2. w # t /\ w \in Threads /\ pc[w] = "parked" /\ req[w].op = "push"
    BY DEF NotFull
  <2>3. \A u \in Threads :
            pc'[u] = IF u = w THEN "woken" ELSE IF u = t THEN "idle" ELSE pc[u]
    BY <2>1, <2>2 DEF TypeOK
  <2>4. AwakePushers' = AwakePushers \cup {w}
    BY <1>1, <2>2, <2>3 DEF AwakePushers
  <2>5. AwakePoppers' = AwakePoppers \ {t}
    BY <1>1, <2>2, <2>3 DEF AwakePoppers
  <2>6. NotFull' \subseteq NotFull /\ NotEmpty' = NotEmpty
    BY <1>1, <2>2, <2>3 DEF NotEmpty, NotFull
  <2> QED BY <1>0, <2>4, <2>5, <2>6
<1> QED BY <1>2, <1>3

LEMMA PushPassKeepsWakeups ==
    ASSUME TypeOK, ClosedMeansAwake, NoLostWakeup,
           NEW t \in Threads, NEW m \in Msgs, NEW mode, NEW timedOut,
           pc[t] # "parked", t \notin AwakePoppers,
           PushPass(t, m, mode, timedOut)
    PROVE  NoLostWakeup'
<1> USE AwakeSetsAreThreads
<1>1. /\ Cardinality(AwakePoppers) \in Nat /\ Cardinality(AwakePushers) \in Nat
      /\ Len(q) \in Nat /\ Capacity \in Nat /\ Len(q) <= Capacity
  BY ThreadSetsAreCountable, CapacityAssumption DEF TypeOK
<1>2. /\ AwakePoppers \ {t} = AwakePoppers
      /\ Cardinality(AwakePushers \ {t}) \in Nat
      /\ Cardinality(AwakePushers \ {t}) >= Cardinality(AwakePushers) - 1
  BY ThreadSetsAreCountable
<1>3. CASE closed /\ Fail(t, "closed")
  <2>1. NotFull = {}
    BY <1>3 DEF ClosedMeansAwake, NotFull
  <2> QED BY <1>2, <1>3, <2>1, FailMovesOneThread DEF NoLostWakeup
<1>4. CASE Full /\ \E reason : Fail(t, reason)
  <2>1. Capacity - Len(q) <= 0
    BY <1>1, <1>4 DEF Full
  <2>2. /\ q' = q /\ NotEmpty' = NotEmpty /\ NotFull' = NotFull
        /\ AwakePoppers' = AwakePoppers /\ AwakePushers' = AwakePushers \ {t}
    BY <1>2, <1>4, FailMovesOneThread
  <2> QED BY <1>1, <1>2, <2>1, <2>2 DEF NoLostWakeup
<1>5. CASE Full /\ Park(t, PushReq(m, mode))
  <2>1. Capacity - Len(q) <= 0
    BY <1>1, <1>5 DEF Full
  <2>2. PushReq(m, mode).op = "push"
    BY DEF PushReq
  <2>3. /\ q' = q /\ NotEmpty' = NotEmpty
        /\ AwakePoppers' = AwakePoppers /\ AwakePushers' = AwakePushers \ {t}
    BY <1>2, <1>5, <2>2, ParkMovesOneThread
  <2> QED BY <1>1, <1>2, <2>1, <2>3 DEF NoLostWakeup
<1>6. CASE ~Full /\ Insert(t, m)
  <2>1. /\ Len(q') = Len(q) + 1
        /\ NotEmpty' \subseteq NotEmpty /\ NotFull' = NotFull
        /\ NotEmpty # {} => \E w \in NotEmpty : AwakePoppers' = AwakePoppers \cup {w}
        /\ AwakePushers' = AwakePushers \ {t}
    BY <1>6, InsertWakesAConsumer
  <2>2. ASSUME NotEmpty' # {} PROVE Len(q') <= Cardinality(AwakePoppers')
    <3>1. PICK w \in NotEmpty : AwakePoppers' = AwakePoppers \cup {w}
      BY <2>1, <2>2
    <3>2. w \in Threads /\ w \notin AwakePoppers
      BY DEF NotEmpty, AwakePoppers
    <3>3. Cardinality(AwakePoppers') = Cardinality(AwakePoppers) + 1
      BY <3>1, <3>2, ThreadSetsAreCountable
    <3>4. Len(q) <= Cardinality(AwakePoppers)
      BY DEF NoLostWakeup
    <3> QED BY <1>1, <2>1, <3>3, <3>4
  <2>3. ASSUME NotFull' # {} PROVE Capacity - Len(q') <= Cardinality(AwakePushers')
    <3>1. Capacity - Len(q) <= Cardinality(AwakePushers)
      BY <2>1, <2>3 DEF NoLostWakeup
    <3> QED BY <1>1, <1>2, <2>1, <3>1
  <2> QED BY <2>2, <2>3 DEF NoLostWakeup
<1> QED BY <1>3, <1>4, <1>5, <1>6 DEF PushPass

LEMMA PopPassKeepsWakeups ==
    ASSUME TypeOK, NoLostWakeup,
           NEW t \in Threads, NEW mode, NEW timedOut,
           pc[t] # "parked", t \notin AwakePushers,
           PopPass(t, mode, timedOut)
    PROVE  NoLostWakeup'
<1> USE AwakeSetsAreThreads
<1>1. /\ Cardinality(AwakePoppers) \in Nat /\ Cardinality(AwakePushers) \in Nat
      /\ Len(q) \in Nat /\ Capacity \in Nat /\ Len(q) <= Capacity
  BY ThreadSetsAreCountable, CapacityAssumption DEF TypeOK
<1>2. /\ AwakePushers \ {t} = AwakePushers
      /\ Cardinality(AwakePoppers \ {t}) \in Nat
      /\ Cardinality(AwakePoppers \ {t}) >= Cardinality(AwakePoppers) - 1
  BY ThreadSetsAreCountable
<1>3. CASE Empty /\ \E reason : Fail(t, reason)
  <2>1. Len(q) = 0
    BY <1>3 DEF Empty
  <2>2. /\ q' = q /\ NotEmpty' = NotEmpty /\ NotFull' = NotFull
        /\ AwakePushers' = AwakePushers /\ AwakePoppers' = AwakePoppers \ {t}
    BY <1>2, <1>3, FailMovesOneThread
  <2> QED BY <1>1, <1>2, <2>1, <2>2 DEF NoLostWakeup
<1>4. CASE Empty /\ Park(t, PopReq(mode))
  <2>1. Len(q) = 0
    BY <1>4 DEF Empty
  <2>2. PopReq(mode).op = "pop"
    BY DEF PopReq
  <2>3. /\ q' = q /\ NotFull' = NotFull
        /\ AwakePushers' = AwakePushers /\ AwakePoppers' = AwakePoppers \ {t}
    BY <1>2, <1>4, <2>2, ParkMovesOneThread
  <2> QED BY <1>1, <1>2, <2>1, <2>3 DEF NoLostWakeup
<1>5. CASE ~Empty /\ Extract(t)
  <2>1. /\ Len(q') = Len(q) - 1
        /\ NotFull' \subseteq NotFull /\ NotEmpty' = NotEmpty
        /\ NotFull # {} => \E w \in NotFull : AwakePushers' = AwakePushers \cup {w}
        /\ AwakePoppers' = AwakePoppers \ {t}
    BY <1>5, ExtractWakesAProducer
  <2>2. ASSUME NotFull' # {} PROVE Capacity - Len(q') <= Cardinality(AwakePushers')
    <3>1. PICK w \in NotFull : AwakePushers' = AwakePushers \cup {w}
      BY <2>1, <2>2
    <3>2. w \in Threads /\ w \notin AwakePushers
      BY DEF NotFull, AwakePushers
    <3>3. Cardinality(AwakePushers') = Cardinality(AwakePushers) + 1
      BY <3>1, <3>2, ThreadSetsAreCountable
    <3>4. Capacity - Len(q) <= Cardinality(AwakePushers)
      BY DEF NoLostWakeup
    <3> QED BY <1>1, <2>1, <3>3, <3>4
  <2>3. ASSUME NotEmpty' # {} PROVE Len(q') <= Cardinality(AwakePoppers')
    <3>1. Len(q) <= Cardinality(AwakePoppers)
      BY <2>1, <2>3 DEF NoLostWakeup
    <3> QED BY <1>1, <1>2, <2>1, <3>1
  <2> QED BY <2>2, <2>3 DEF NoLostWakeup
<1> QED BY <1>3, <1>4, <1>5 DEF PopPass

(* A wakeup that brings no news only adds to the awake threads.            *)
LEMMA WakingKeepsWakeups ==
    ASSUME TypeOK, NoLostWakeup, NEW t \in Threads, SpuriousWakeup(t) \/ Expire(t)
    PROVE  NoLostWakeup'
<1> USE AwakeSetsAreThreads
<1>1. q' = q /\ \A u \in Threads : req'[u] = req[u]
  BY DEF SpuriousWakeup, Expire
<1>2. /\ \A u \in Threads \ {t} : pc'[u] = pc[u]
      /\ pc[t] = "parked" /\ pc'[t] \in {"woken", "expired"}
  BY DEF SpuriousWakeup, Expire, TypeOK
<1>3. NotEmpty' \subseteq NotEmpty /\ NotFull' \subseteq NotFull
  BY <1>1, <1>2 DEF NotEmpty, NotFull
<1>4. /\ AwakePoppers' \in {AwakePoppers, AwakePoppers \cup {t}}
      /\ AwakePushers' \in {AwakePushers, AwakePushers \cup {t}}
      /\ t \notin AwakePoppers /\ t \notin AwakePushers
  BY <1>1, <1>2 DEF AwakePoppers, AwakePushers
<1>5. /\ Cardinality(AwakePoppers) \in Nat /\ Cardinality(AwakePushers) \in Nat
      /\ Len(q) \in Nat /\ Capacity \in Nat
  BY ThreadSetsAreCountable, CapacityAssumption DEF TypeOK
<1>6. /\ Cardinality(AwakePoppers') \in {Cardinality(AwakePoppers), Cardinality(AwakePoppers) + 1}
      /\ Cardinality(AwakePushers') \in {Cardinality(AwakePushers), Cardinality(AwakePushers) + 1}
  BY <1>4, ThreadSetsAreCountable
<1> QED BY <1>1, <1>3, <1>5, <1>6 DEF NoLostWakeup

(* One pthread_cond_signal per push and per pop is enough: no thread sleeps *)
(* while there is something for it and nobody awake to take it.            *)
THEOREM NoLostWakeupHolds == Spec => []NoLostWakeup
<1>1. Init => NoLostWakeup
  BY DEF Init, NoLostWakeup, NotEmpty, NotFull
<1>2. TypeOK /\ ClosedMeansAwake /\ NoLostWakeup /\ [Next]_vars => NoLostWakeup'
  <2> SUFFICES ASSUME TypeOK, ClosedMeansAwake, NoLostWakeup, [Next]_vars
               PROVE  NoLostWakeup'
    OBVIOUS
  <2>1. ASSUME NEW t \in Threads, NEW m \in Msgs, NEW mode \in Modes, Push(t, m, mode)
        PROVE  NoLostWakeup'
    BY <2>1, PushPassKeepsWakeups DEF Push, AwakePoppers
  <2>2. ASSUME NEW t \in Threads, NEW mode \in Modes, Pop(t, mode)
        PROVE  NoLostWakeup'
    BY <2>2, PopPassKeepsWakeups DEF Pop, AwakePushers
  <2>3. ASSUME NEW t \in Threads, Close(t) PROVE NoLostWakeup'
    <3>1. \A u \in Threads : pc'[u] # "parked"
      BY <2>3 DEF Close, TypeOK
    <3> QED BY <3>1 DEF NoLostWakeup, NotEmpty, NotFull
  <2>4. ASSUME NEW t \in Threads, Resume(t) PROVE NoLostWakeup'
    <3>1. pc[t] # "parked" /\ req[t] \in WaitingReq
      BY <2>4 DEF Resume, TypeOK
    <3>2. CASE req[t].op = "push"
      <4>1. req[t].msg \in Msgs /\ t \notin AwakePoppers
        BY <3>1, <3>2 DEF WaitingReq, AwakePoppers
      <4> QED BY <2>4, <3>1, <3>2, <4>1, PushPassKeepsWakeups DEF Resume
    <3>3. CASE req[t].op = "pop"
      <4>1. t \notin AwakePushers
        BY <3>3 DEF AwakePushers
      <4> QED BY <2>4, <3>1, <3>3, <4>1, PopPassKeepsWakeups DEF Resume
    <3> QED BY <2>4, <3>2, <3>3 DEF Resume
  <2>5. ASSUME NEW t \in Threads, SpuriousWakeup(t) \/ Expire(t) PROVE NoLostWakeup'
    BY <2>5, WakingKeepsWakeups
  <2>6. CASE UNCHANGED vars
    BY <2>6 DEF vars, NoLostWakeup, NotEmpty, NotFull, AwakePoppers, AwakePushers
  <2> QED BY <2>1, <2>2, <2>3, <2>4, <2>5, <2>6 DEF Next
<1> QED BY <1>1, <1>2, TypeCorrect, ClosedMeansAwakeHolds, PTL DEF Spec

-----------------------------------------------------------------------------
(* Refinement: the queue with its mutex, conditions, spurious wakeups and  *)
(* expirations takes only steps of the abstract channel, or none.          *)

LEMMA InitRefines == Init => Channel!Init
BY DEF Init, Channel!Init, Channel!Threads, Channel!NoReq, Channel!No, Threads, NoReq, NoRet

(* A pass of push is, for the channel, a push that proceeds, that gives up *)
(* ("full" at once, "timeout" later), or that (still) waits.               *)
LEMMA PushPassRefines ==
    ASSUME TypeOK, NEW t \in Threads, NEW m \in Msgs, NEW mode \in Modes,
           NEW timedOut \in BOOLEAN, PushPass(t, m, mode, timedOut)
    PROVE  \/ Channel!Proceed(t, PushReq(m, mode))
           \/ mode = "try" /\ Channel!Decline(t, PushReq(m, mode))
           \/ timedOut /\ Channel!GiveUp(t, PushReq(m, mode))
           \/ /\ ~timedOut /\ Channel!Wait(t, PushReq(m, mode))
              /\ Park(t, PushReq(m, mode))
<1> DEFINE r == PushReq(m, mode)
<1>1. r.op = "push" /\ r.msg = m /\ r.mode = mode
  BY DEF PushReq
<1>2. Len(q) \in Nat /\ Capacity \in Nat
  BY CapacityAssumption DEF TypeOK
<1>3. CASE closed /\ Fail(t, "closed")
  BY <1>1, <1>3 DEF Fail, Return, Refused, NoReq,
       Channel!Proceed, Channel!Answer, Channel!No, Channel!NoReq
<1>4. CASE ~closed /\ Full /\ mode = "try" /\ Fail(t, "full")
  BY <1>1, <1>2, <1>4 DEF Fail, Return, Refused, NoReq, Full,
       Channel!Decline, Channel!Ready, Channel!Answer, Channel!No, Channel!NoReq
<1>5. CASE ~closed /\ Full /\ mode = "timed" /\ timedOut /\ Fail(t, "timeout")
  BY <1>1, <1>2, <1>5 DEF Fail, Return, Refused, NoReq, Full,
       Channel!GiveUp, Channel!Ready, Channel!Answer, Channel!No, Channel!NoReq
<1>6. CASE ~closed /\ Full /\ mode # "try" /\ ~timedOut /\ Park(t, r)
  BY <1>1, <1>2, <1>6 DEF Park, NoRet, Full, Channel!Wait, Channel!Ready, Channel!No
<1>7. CASE ~closed /\ ~Full /\ Insert(t, m)
  BY <1>1, <1>2, <1>7 DEF Insert, Return, Pushed, NoReq, Full,
       Channel!Proceed, Channel!Answer, Channel!Ok, Channel!NoReq
<1> QED BY <1>3, <1>4, <1>5, <1>6, <1>7 DEF PushPass

LEMMA PopPassRefines ==
    ASSUME TypeOK, NEW t \in Threads, NEW mode \in Modes,
           NEW timedOut \in BOOLEAN, PopPass(t, mode, timedOut)
    PROVE  \/ Channel!Proceed(t, PopReq(mode))
           \/ mode = "try" /\ Channel!Decline(t, PopReq(mode))
           \/ timedOut /\ Channel!GiveUp(t, PopReq(mode))
           \/ /\ ~timedOut /\ Channel!Wait(t, PopReq(mode))
              /\ Park(t, PopReq(mode))
<1> DEFINE r == PopReq(mode)
<1>1. r.op = "pop" /\ r.mode = mode
  BY DEF PopReq
<1>2. CASE Empty /\ closed /\ Fail(t, "closed")
  BY <1>1, <1>2 DEF Fail, Return, Refused, NoReq, Empty,
       Channel!Proceed, Channel!Answer, Channel!No, Channel!NoReq
<1>3. CASE Empty /\ ~closed /\ mode = "try" /\ Fail(t, "empty")
  BY <1>1, <1>3 DEF Fail, Return, Refused, NoReq, Empty,
       Channel!Decline, Channel!Ready, Channel!Answer, Channel!No, Channel!NoReq
<1>4. CASE Empty /\ ~closed /\ mode = "timed" /\ timedOut /\ Fail(t, "timeout")
  BY <1>1, <1>4 DEF Fail, Return, Refused, NoReq, Empty,
       Channel!GiveUp, Channel!Ready, Channel!Answer, Channel!No, Channel!NoReq
<1>5. CASE Empty /\ ~closed /\ mode # "try" /\ ~timedOut /\ Park(t, r)
  BY <1>1, <1>5 DEF Park, NoRet, Empty, Channel!Wait, Channel!Ready, Channel!No
<1>6. CASE ~Empty /\ Extract(t)
  BY <1>1, <1>6 DEF Extract, Return, Popped, NoReq, Empty,
       Channel!Proceed, Channel!Answer, Channel!OkMsg, Channel!NoReq
<1> QED BY <1>2, <1>3, <1>4, <1>5, <1>6 DEF PopPass

(* A thread that wakes up to find nothing changed parks again as it was.   *)
LEMMA ParkingAgainIsAStutter ==
    ASSUME TypeOK, NEW t \in Threads, pc[t] # "idle", Park(t, req[t])
    PROVE  UNCHANGED Channel!vars
BY DEF Park, TypeOK, Channel!vars

LEMMA NextRefines == TypeOK /\ [Next]_vars => [Channel!Next]_(Channel!vars)
<1> SUFFICES ASSUME TypeOK, [Next]_vars PROVE [Channel!Next]_(Channel!vars)
  OBVIOUS
<1>0. Channel!Threads = Threads /\ Channel!NoReq = NoReq
  BY DEF Channel!Threads, Threads, Channel!NoReq, NoReq
<1>1. ASSUME NEW t \in Threads, NEW m \in Msgs, NEW mode \in Modes, Push(t, m, mode)
      PROVE  Channel!Next
  <2>1. req[t] = NoReq
    BY <1>1 DEF Push, TypeOK
  <2>2. PushReq(m, mode) \in Channel!Requests(t)
    BY <1>1 DEF Push, PushReq, Modes, Channel!Requests, Channel!Pushes, Channel!Modes
  <2>3. \/ Channel!Proceed(t, PushReq(m, mode))
        \/ Channel!Decline(t, PushReq(m, mode))
        \/ Channel!Wait(t, PushReq(m, mode))
    BY <1>1, PushPassRefines DEF Push
  <2> QED BY <1>0, <2>1, <2>2, <2>3 DEF Channel!Next, Channel!Call
<1>2. ASSUME NEW t \in Threads, NEW mode \in Modes, Pop(t, mode)
      PROVE  Channel!Next
  <2>1. req[t] = NoReq
    BY <1>2 DEF Pop, TypeOK
  <2>2. PopReq(mode) \in Channel!Requests(t)
    BY <1>2 DEF Pop, PopReq, Modes, Channel!Requests, Channel!Pops, Channel!Modes
  <2>3. \/ Channel!Proceed(t, PopReq(mode))
        \/ Channel!Decline(t, PopReq(mode))
        \/ Channel!Wait(t, PopReq(mode))
    BY <1>2, PopPassRefines DEF Pop
  <2> QED BY <1>0, <2>1, <2>2, <2>3 DEF Channel!Next, Channel!Call
<1>3. ASSUME NEW t \in Threads, Close(t) PROVE Channel!Next
  BY <1>3 DEF Close, Channel!Next, Channel!CloseChannel
<1>4. ASSUME NEW t \in Threads, Resume(t) PROVE [Channel!Next]_(Channel!vars)
  <2>1. req[t] \in WaitingReq /\ req[t] # NoReq /\ pc[t] # "idle"
    BY <1>4 DEF Resume, TypeOK
  <2>2. \/ Channel!Proceed(t, req[t]) \/ Channel!GiveUp(t, req[t]) \/ Park(t, req[t])
    <3>1. CASE req[t].op = "push"
      <4>1. /\ req[t].msg \in Msgs /\ req[t].mode \in Modes /\ req[t].mode # "try"
            /\ req[t] = PushReq(req[t].msg, req[t].mode)
        BY <2>1, <3>1 DEF WaitingReq, Modes, PushReq
      <4>2. PushPass(t, req[t].msg, req[t].mode, pc[t] = "expired")
        BY <1>4, <3>1 DEF Resume
      <4> QED BY <4>1, <4>2, PushPassRefines
    <3>2. CASE req[t].op = "pop"
      <4>1. /\ req[t].mode \in Modes /\ req[t].mode # "try"
            /\ req[t] = PopReq(req[t].mode)
        BY <2>1, <3>2 DEF WaitingReq, Modes, PopReq
      <4>2. PopPass(t, req[t].mode, pc[t] = "expired")
        BY <1>4, <3>2 DEF Resume
      <4> QED BY <4>1, <4>2, PopPassRefines
    <3> QED BY <1>4, <3>1, <3>2 DEF Resume
  <2> QED BY <1>0, <2>1, <2>2, ParkingAgainIsAStutter DEF Channel!Next, Channel!Complete
<1>5. ASSUME NEW t \in Threads, SpuriousWakeup(t) \/ Expire(t) PROVE UNCHANGED Channel!vars
  BY <1>5 DEF SpuriousWakeup, Expire, Channel!vars
<1>6. CASE UNCHANGED vars
  BY <1>6 DEF vars, Channel!vars
<1> QED BY <1>1, <1>2, <1>3, <1>4, <1>5, <1>6 DEF Next

(* Mutex, conditions and wake-ups are nothing but a way to make the abstract *)
(* queue: each step of struct MessageQueue is one of BoundedChannel or none. *)
THEOREM QueueImplementsChannel == Spec => Channel!Spec
BY InitRefines, NextRefines, TypeCorrect, PTL DEF Spec, Channel!Spec
=============================================================================
