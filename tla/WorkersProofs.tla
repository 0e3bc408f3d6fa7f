--------------------------- MODULE WorkersProofs ----------------------------
(***************************************************************************)
(* Proofs about Workers, for every set of messages, every capacity, every  *)
(* set of timeouts, and primitives that may fail or not.                   *)
(***************************************************************************)
EXTENDS Workers, FiniteSetTheorems, TLAPS

States == {"idle", "parked", "woken", "expired"}
WorkerSteps == {"none", "starting", "running", "store", "publish", "closeIn", "closeOut",
                "luaClose", "exited"}

-----------------------------------------------------------------------------
(* The queues.  A step of t in a queue starts or ends a call of t only: the *)
(* others may be woken, but one that is in no call stays out.              *)

MovesOnly(old, new, t) ==
    /\ new \in [Actors -> States]
    /\ \A u \in Actors \ {t} : old[u] = "idle" => new[u] = "idle"

LEMMA InboxSignalMoves ==
    ASSUME inPc \in [Actors -> States], NEW t \in Actors,
           NEW cond \in SUBSET {u \in Actors : inPc[u] = "parked"},
           inPc' \in Inbox!Signal(cond, [inPc EXCEPT ![t] = "idle"])
    PROVE  MovesOnly(inPc, inPc', t)
BY DEF MovesOnly, Inbox!Signal, States

LEMMA InboxPassMoves ==
    ASSUME inPc \in [Actors -> States], NEW t \in Actors, NEW m, NEW mode, NEW late,
           Inbox!PushPass(t, m, mode, late) \/ Inbox!PopPass(t, mode, late)
    PROVE  MovesOnly(inPc, inPc', t)
<1>1. ASSUME NEW reason, Inbox!Fail(t, reason) PROVE MovesOnly(inPc, inPc', t)
  BY <1>1 DEF Inbox!Fail, MovesOnly, States
<1>2. ASSUME NEW r, Inbox!Park(t, r) PROVE MovesOnly(inPc, inPc', t)
  BY <1>2 DEF Inbox!Park, MovesOnly, States
<1>3. CASE Inbox!Insert(t, m) \/ Inbox!Extract(t)
  <2>1. Inbox!NotEmpty \in SUBSET {u \in Actors : inPc[u] = "parked"}
        /\ Inbox!NotFull \in SUBSET {u \in Actors : inPc[u] = "parked"}
    BY DEF Inbox!NotEmpty, Inbox!NotFull, Inbox!Threads, Actors
  <2> QED BY <1>3, <2>1, InboxSignalMoves DEF Inbox!Insert, Inbox!Extract
<1> QED BY <1>1, <1>2, <1>3 DEF Inbox!PushPass, Inbox!PopPass

LEMMA InboxStepMoves ==
    ASSUME inPc \in [Actors -> States], NEW t \in Actors,
           \/ Inbox!Resume(t) \/ Inbox!SpuriousWakeup(t) \/ Inbox!Expire(t)
    PROVE  inPc[t] # "idle" /\ MovesOnly(inPc, inPc', t)
<1>1. CASE Inbox!Resume(t)
  <2>1. inPc[t] # "idle"
    BY <1>1 DEF Inbox!Resume
  <2> QED BY <1>1, <2>1, InboxPassMoves DEF Inbox!Resume
<1>2. CASE Inbox!SpuriousWakeup(t) \/ Inbox!Expire(t)
  BY <1>2 DEF Inbox!SpuriousWakeup, Inbox!Expire, MovesOnly, States
<1> QED BY <1>1, <1>2

LEMMA InboxCloseMoves ==
    ASSUME inPc \in [Actors -> States], NEW t \in Actors, Inbox!Close(t)
    PROVE  /\ inPc' \in [Actors -> States]
           /\ \A u \in Actors : inPc[u] = "idle" => inPc'[u] = "idle"
BY DEF Inbox!Close, Inbox!Threads, Actors, States

LEMMA OutboxSignalMoves ==
    ASSUME outPc \in [Actors -> States], NEW t \in Actors,
           NEW cond \in SUBSET {u \in Actors : outPc[u] = "parked"},
           outPc' \in Outbox!Signal(cond, [outPc EXCEPT ![t] = "idle"])
    PROVE  MovesOnly(outPc, outPc', t)
BY DEF MovesOnly, Outbox!Signal, States

LEMMA OutboxPassMoves ==
    ASSUME outPc \in [Actors -> States], NEW t \in Actors, NEW m, NEW mode, NEW late,
           Outbox!PushPass(t, m, mode, late) \/ Outbox!PopPass(t, mode, late)
    PROVE  MovesOnly(outPc, outPc', t)
<1>1. ASSUME NEW reason, Outbox!Fail(t, reason) PROVE MovesOnly(outPc, outPc', t)
  BY <1>1 DEF Outbox!Fail, MovesOnly, States
<1>2. ASSUME NEW r, Outbox!Park(t, r) PROVE MovesOnly(outPc, outPc', t)
  BY <1>2 DEF Outbox!Park, MovesOnly, States
<1>3. CASE Outbox!Insert(t, m) \/ Outbox!Extract(t)
  <2>1. Outbox!NotEmpty \in SUBSET {u \in Actors : outPc[u] = "parked"}
        /\ Outbox!NotFull \in SUBSET {u \in Actors : outPc[u] = "parked"}
    BY DEF Outbox!NotEmpty, Outbox!NotFull, Outbox!Threads, Actors
  <2> QED BY <1>3, <2>1, OutboxSignalMoves DEF Outbox!Insert, Outbox!Extract
<1> QED BY <1>1, <1>2, <1>3 DEF Outbox!PushPass, Outbox!PopPass

LEMMA OutboxStepMoves ==
    ASSUME outPc \in [Actors -> States], NEW t \in Actors,
           \/ Outbox!Resume(t) \/ Outbox!SpuriousWakeup(t) \/ Outbox!Expire(t)
    PROVE  outPc[t] # "idle" /\ MovesOnly(outPc, outPc', t)
<1>1. CASE Outbox!Resume(t)
  <2>1. outPc[t] # "idle"
    BY <1>1 DEF Outbox!Resume
  <2> QED BY <1>1, <2>1, OutboxPassMoves DEF Outbox!Resume
<1>2. CASE Outbox!SpuriousWakeup(t) \/ Outbox!Expire(t)
  BY <1>2 DEF Outbox!SpuriousWakeup, Outbox!Expire, MovesOnly, States
<1> QED BY <1>1, <1>2

LEMMA OutboxCloseMoves ==
    ASSUME outPc \in [Actors -> States], NEW t \in Actors, Outbox!Close(t)
    PROVE  /\ outPc' \in [Actors -> States]
           /\ \A u \in Actors : outPc[u] = "idle" => outPc'[u] = "idle"
BY DEF Outbox!Close, Outbox!Threads, Actors, States

-----------------------------------------------------------------------------
(* The inductive invariant, in four parts.                                 *)

(* The thread: what it has stored and published, at each step of the way   *)
(* it ends.                                                                *)
ThreadInv ==
    /\ wpc \in WorkerSteps
    /\ path \in {"none", "early", "error", "done"}
    /\ path = "none" <=> wpc \in {"none", "starting", "running"}
    /\ path = "none" => status = "running" /\ stored = "none"
    /\ path = "early" => wpc # "luaClose"
    /\ path # "none" /\ wpc = "store" => status = "running" /\ stored = "none"
    /\ path = "done" /\ wpc # "store" =>
          stored = "result" /\ status = (IF wpc = "exited" THEN "done" ELSE "running")
    /\ path \in {"early", "error"} /\ wpc # "store" =>
          stored = "error" /\ status = (IF wpc = "publish" THEN "running" ELSE "error")

(* The userdata: who still has to join the thread.                         *)
HandleInv ==
    /\ handle \in {"none", "live", "garbage", "collected"}
    /\ parent \in {"free", "join", "poll", "gcCloseIn", "gcCloseOut", "gcJoin", "gcDestroy",
                   "undefined"}
    /\ tidValid \in BOOLEAN /\ joined \in BOOLEAN
    /\ joins = (IF wpc = "none" \/ tidValid THEN 0 ELSE 1)
    /\ tidValid => wpc # "none" /\ handle = "live"
    /\ ~tidValid => wpc \in {"none", "exited"}
    /\ handle \in {"none", "garbage"} => wpc = "none"
    /\ handle = "none" => parent = "free" /\ ~joined
    /\ handle = "live" => wpc # "none"
    /\ handle = "live" /\ parent \in {"free", "join", "poll"} => (tidValid <=> ~joined)
    /\ parent \in {"join", "poll"} => handle = "live" /\ ~joined
    /\ parent = "gcDestroy" => ~tidValid
    /\ handle = "collected" => parent = "free" /\ ~tidValid

(* The calls on the queues: none while the parent is in a method of        *)
(* another kind or has no worker, none while the thread runs no Lua code.  *)
CallsInv ==
    /\ inPc \in [Actors -> States] /\ outPc \in [Actors -> States]
    /\ parent # "free" \/ handle # "live" => inPc["parent"] = "idle" /\ outPc["parent"] = "idle"
    /\ wpc \notin {"running", "luaClose"} => inPc["worker"] = "idle" /\ outPc["worker"] = "idle"

IInv == ThreadInv /\ HandleInv /\ CallsInv /\ AnswerIsTruthful

LEMMA InitEstablishes == Init => IInv
<1> SUFFICES ASSUME Init PROVE IInv
  OBVIOUS
<1>1. ThreadInv
  BY DEF Init, ThreadInv, WorkerSteps
<1>2. HandleInv
  BY DEF Init, HandleInv
<1>3. CallsInv
  BY DEF Init, CallsInv, Inbox!Init, Outbox!Init, Inbox!Threads, Outbox!Threads, Actors, States
<1>4. AnswerIsTruthful
  BY DEF Init, AnswerIsTruthful
<1> QED BY <1>1, <1>2, <1>3, <1>4 DEF IInv

(* A step inside the queues changes nothing but the calls.                 *)
LEMMA QueueStepKeeps ==
    ASSUME IInv, UNCHANGED <<handleVars, threadVars>>, CallsInv'
    PROVE  IInv'
BY DEF IInv, handleVars, threadVars, ThreadInv, HandleInv, AnswerIsTruthful

LEMMA SpawnKeeps ==
    ASSUME IInv, Spawn \/ SpawnCreateFails \/ SpawnInitFails
    PROVE  IInv'
<1>1. handle = "none" /\ wpc = "none" /\ tidValid = FALSE /\ joined = FALSE /\ parent = "free"
  BY DEF Spawn, SpawnCreateFails, SpawnInitFails, IInv, HandleInv
<1>2. ThreadInv'
  BY <1>1 DEF Spawn, SpawnCreateFails, SpawnInitFails, threadVars, IInv, ThreadInv, WorkerSteps
<1>4. HandleInv'
  BY <1>1 DEF Spawn, SpawnCreateFails, SpawnInitFails, threadVars, IInv, HandleInv
<1>5. CallsInv'
  BY <1>1 DEF Spawn, SpawnCreateFails, SpawnInitFails, threadVars, inVars, outVars, IInv, CallsInv
<1>6. AnswerIsTruthful'
  BY DEF Spawn, SpawnCreateFails, SpawnInitFails, threadVars, IInv, AnswerIsTruthful
<1> QED BY <1>2, <1>4, <1>5, <1>6 DEF IInv

LEMMA ParentCallKeeps ==
    ASSUME IInv, \/ \E us \in Timeouts : ParentRecv(us) \/ \E m \in Msgs : ParentSend(m, us)
                 \/ ParentClose
    PROVE  IInv'
<1>1. CallsInv'
  <2>1. ASSUME NEW us \in Timeouts, NEW m \in Msgs, ParentSend(m, us) PROVE CallsInv'
    <3>1. MovesOnly(inPc, inPc', "parent")
      BY <2>1, InboxPassMoves DEF ParentSend, Inbox!Push, IInv, CallsInv, Actors
    <3> QED BY <2>1, <3>1 DEF ParentSend, ParentFree, MovesOnly, Actors, IInv, CallsInv,
                              outVars, handleVars, threadVars
  <2>2. ASSUME NEW us \in Timeouts, ParentRecv(us) PROVE CallsInv'
    <3>1. MovesOnly(outPc, outPc', "parent")
      BY <2>2, OutboxPassMoves DEF ParentRecv, Outbox!Pop, IInv, CallsInv, Actors
    <3> QED BY <2>2, <3>1 DEF ParentRecv, ParentFree, MovesOnly, Actors, IInv, CallsInv,
                              inVars, handleVars, threadVars
  <2>3. CASE ParentClose
    <3>1. Inbox!Close("parent") /\ "parent" \in Actors
      BY <2>3 DEF ParentClose, Actors
    <3> QED BY <2>3, <3>1, InboxCloseMoves DEF ParentClose, Actors, IInv, CallsInv,
                              outVars, handleVars, threadVars
  <2> QED BY <2>1, <2>2, <2>3
<1> QED BY <1>1, QueueStepKeeps DEF ParentSend, ParentRecv, ParentClose

LEMMA WorkerCallKeeps ==
    ASSUME IInv, \E us \in Timeouts : WorkerRecv(us) \/ \E m \in Msgs : WorkerSend(m, us)
    PROVE  IInv'
<1>1. CallsInv'
  <2>1. ASSUME NEW us \in Timeouts, NEW m \in Msgs, WorkerSend(m, us) PROVE CallsInv'
    <3>1. MovesOnly(outPc, outPc', "worker")
      BY <2>1, OutboxPassMoves DEF WorkerSend, Outbox!Push, IInv, CallsInv, Actors
    <3> QED BY <2>1, <3>1 DEF WorkerSend, WorkerFree, MovesOnly, Actors, IInv, CallsInv,
                              inVars, handleVars, threadVars
  <2>2. ASSUME NEW us \in Timeouts, WorkerRecv(us) PROVE CallsInv'
    <3>1. MovesOnly(inPc, inPc', "worker")
      BY <2>2, InboxPassMoves DEF WorkerRecv, Inbox!Pop, IInv, CallsInv, Actors
    <3> QED BY <2>2, <3>1 DEF WorkerRecv, WorkerFree, MovesOnly, Actors, IInv, CallsInv,
                              outVars, handleVars, threadVars
  <2> QED BY <2>1, <2>2
<1> QED BY <1>1, QueueStepKeeps DEF WorkerSend, WorkerRecv

LEMMA InsideKeeps ==
    ASSUME IInv, NEW t \in Actors, QueueStep(t)
    PROVE  IInv'
<1>1. CallsInv'
  <2>1. CASE /\ Inbox!Resume(t) \/ Inbox!SpuriousWakeup(t) \/ Inbox!Expire(t)
             /\ UNCHANGED <<outVars, handleVars, threadVars>>
    <3>1. inPc[t] # "idle" /\ MovesOnly(inPc, inPc', t)
      BY <2>1, InboxStepMoves DEF IInv, CallsInv
    <3> QED BY <2>1, <3>1 DEF MovesOnly, Actors, IInv, CallsInv, outVars, handleVars, threadVars
  <2>2. CASE /\ Outbox!Resume(t) \/ Outbox!SpuriousWakeup(t) \/ Outbox!Expire(t)
             /\ UNCHANGED <<inVars, handleVars, threadVars>>
    <3>1. outPc[t] # "idle" /\ MovesOnly(outPc, outPc', t)
      BY <2>2, OutboxStepMoves DEF IInv, CallsInv
    <3> QED BY <2>2, <3>1 DEF MovesOnly, Actors, IInv, CallsInv, inVars, handleVars, threadVars
  <2> QED BY <2>1, <2>2 DEF QueueStep
<1> QED BY <1>1, QueueStepKeeps DEF QueueStep

(* join() and poll(), from the call to the answer.                         *)
LEMMA JoinKeeps ==
    ASSUME IInv, CallJoin \/ CallPoll \/ FinishJoin
    PROVE  IInv'
<1>1. ThreadInv'
  BY DEF CallJoin, CallPoll, FinishJoin, threadVars, IInv, ThreadInv
<1>2. CallsInv'
  BY DEF CallJoin, CallPoll, FinishJoin, ParentFree, threadVars, inVars, outVars, IInv, CallsInv
<1>3. CASE CallJoin
  <2>1. HandleInv'
    BY <1>3 DEF CallJoin, ParentFree, threadVars, IInv, HandleInv
  <2>2. AnswerIsTruthful'
    BY <1>3 DEF CallJoin, threadVars, IInv, AnswerIsTruthful
  <2> QED BY <1>1, <1>2, <2>1, <2>2 DEF IInv
<1>4. CASE CallPoll
  <2>1. HandleInv'
    BY <1>4 DEF CallPoll, ParentFree, threadVars, IInv, HandleInv
  <2>2. AnswerIsTruthful'
    BY <1>4 DEF CallPoll, threadVars, IInv, AnswerIsTruthful
  <2> QED BY <1>1, <1>2, <2>1, <2>2 DEF IInv
<1>5. CASE FinishJoin
  <2>1. tidValid = TRUE /\ wpc = "exited" /\ joins = 0
    BY <1>5 DEF FinishJoin, PthreadJoin, IInv, HandleInv
  <2>2. HandleInv'
    <3>1. /\ tidValid' = FALSE /\ joined' = TRUE /\ joins' = 1 /\ parent' = "free"
          /\ UNCHANGED <<handle, wpc>> /\ handle = "live"
      BY <1>5, <2>1 DEF FinishJoin, PthreadJoin, threadVars, IInv, HandleInv
    <3> QED BY <2>1, <3>1 DEF HandleInv
  <2>3. \/ path = "done" /\ status = "done" /\ stored = "result"
        \/ path \in {"early", "error"} /\ status = "error" /\ stored = "error"
    BY <2>1 DEF IInv, ThreadInv
  <2>4. AnswerIsTruthful'
    BY <1>5, <2>3 DEF FinishJoin, threadVars, AnswerIsTruthful
  <2> QED BY <1>1, <1>2, <2>2, <2>4 DEF IInv
<1> QED BY <1>3, <1>4, <1>5

(* __gc.                                                                   *)
LEMMA GcKeeps ==
    ASSUME IInv, Gc
    PROVE  IInv'
<1>1. ThreadInv'
  BY DEF Gc, StartGc, GcCloseIn, GcCloseOut, GcJoin, GcDestroy, threadVars, IInv, ThreadInv
<1>2. AnswerIsTruthful'
  BY DEF Gc, StartGc, GcCloseIn, GcCloseOut, GcJoin, GcDestroy, threadVars, IInv, AnswerIsTruthful
<1>3. HandleInv'
  <2>1. CASE StartGc
    BY <2>1 DEF StartGc, ParentFree, threadVars, IInv, HandleInv
  <2>2. CASE GcCloseIn \/ GcCloseOut
    BY <2>2 DEF GcCloseIn, GcCloseOut, threadVars, IInv, HandleInv
  <2>3. CASE GcJoin
    <3>1. /\ tidValid' = FALSE /\ parent' = "gcDestroy" /\ UNCHANGED <<handle, wpc, joined>>
          /\ joins' = (IF wpc = "none" THEN 0 ELSE 1)
      <4>1. CASE tidValid = TRUE
        BY <2>3, <4>1 DEF GcJoin, PthreadJoin, threadVars, IInv, HandleInv
      <4>2. CASE tidValid = FALSE
        BY <2>3, <4>2 DEF GcJoin, PthreadJoin, threadVars, IInv, HandleInv
      <4> QED BY <4>1, <4>2 DEF IInv, HandleInv
    <3>2. parent = "gcJoin" /\ wpc \in {"none", "exited"}
      BY <2>3 DEF GcJoin, PthreadJoin, IInv, HandleInv
    <3>3. joined' \in BOOLEAN /\ handle' \in {"live", "garbage"}
      BY <3>1, <3>2 DEF IInv, HandleInv
    <3> QED BY <3>1, <3>2, <3>3 DEF IInv, HandleInv
  <2>4. CASE GcDestroy
    BY <2>4 DEF GcDestroy, threadVars, IInv, HandleInv
  <2> QED BY <2>1, <2>2, <2>3, <2>4 DEF Gc
<1>4. CallsInv'
  <2>1. CASE StartGc
    BY <2>1 DEF StartGc, ParentFree, threadVars, inVars, outVars, IInv, CallsInv
  <2>2. CASE GcCloseIn
    <3>1. \/ Inbox!Close("parent") \/ UNCHANGED inVars
      BY <2>2 DEF GcCloseIn
    <3>2. inPc' \in [Actors -> States] /\ \A u \in Actors : inPc[u] = "idle" => inPc'[u] = "idle"
      BY <3>1, InboxCloseMoves DEF IInv, CallsInv, Actors, inVars
    <3> QED BY <2>2, <3>2 DEF GcCloseIn, Actors, threadVars, outVars, IInv, CallsInv
  <2>3. CASE GcCloseOut
    <3>1. \/ Outbox!Close("parent") \/ UNCHANGED outVars
      BY <2>3 DEF GcCloseOut
    <3>2. outPc' \in [Actors -> States] /\ \A u \in Actors : outPc[u] = "idle" => outPc'[u] = "idle"
      BY <3>1, OutboxCloseMoves DEF IInv, CallsInv, Actors, outVars
    <3> QED BY <2>3, <3>2 DEF GcCloseOut, Actors, threadVars, inVars, IInv, CallsInv
  <2>4. CASE GcJoin \/ GcDestroy
    BY <2>4 DEF GcJoin, GcDestroy, threadVars, inVars, outVars, IInv, CallsInv
  <2> QED BY <2>1, <2>2, <2>3, <2>4 DEF Gc
<1> QED BY <1>1, <1>2, <1>3, <1>4 DEF IInv

(* The thread, up to the end of its script.                                *)
LEMMA ScriptKeeps ==
    ASSUME IInv, WorkerStarts \/ WorkerStartFails \/ ScriptEnds
    PROVE  IInv'
<1>1. CASE WorkerStarts
  <2>1. ThreadInv'
    BY <1>1 DEF WorkerStarts, IInv, ThreadInv, WorkerSteps
  <2>2. HandleInv' /\ AnswerIsTruthful'
    BY <1>1 DEF WorkerStarts, handleVars, IInv, HandleInv, AnswerIsTruthful
  <2>3. CallsInv'
    BY <1>1 DEF WorkerStarts, handleVars, inVars, outVars, IInv, CallsInv
  <2> QED BY <2>1, <2>2, <2>3 DEF IInv
<1>2. ASSUME NEW p \in {"early", "error", "done"}, WorkerEndsOn(p),
             wpc = "starting" \/ (wpc = "running" /\ WorkerFree)
      PROVE  IInv'
  <2>1. wpc' = "store" /\ path' = p
    BY <1>2 DEF WorkerEndsOn, PathOf, DonePath, ErrorPath, EarlyPath
  <2>2. path = "none" /\ status = "running" /\ stored = "none"
    BY <1>2 DEF IInv, ThreadInv
  <2>3. ThreadInv'
    BY <1>2, <2>1, <2>2 DEF WorkerEndsOn, IInv, ThreadInv, WorkerSteps
  <2>4. HandleInv'
    BY <1>2, <2>1 DEF WorkerEndsOn, handleVars, IInv, HandleInv
  <2>5. AnswerIsTruthful'
    BY <1>2, <2>2 DEF WorkerEndsOn, handleVars, IInv, AnswerIsTruthful
  <2>6. CallsInv'
    BY <1>2, <2>1 DEF WorkerEndsOn, WorkerFree, handleVars, inVars, outVars, IInv, CallsInv
  <2> QED BY <2>3, <2>4, <2>5, <2>6 DEF IInv
<1>3. CASE WorkerStartFails
  <2>1. PICK p \in {"early", "error"} : WorkerEndsOn(p)
    BY <1>3 DEF WorkerStartFails
  <2> QED BY <1>2, <1>3, <2>1 DEF WorkerStartFails
<1>4. CASE ScriptEnds
  <2>1. PICK p \in {"error", "done"} : WorkerEndsOn(p)
    BY <1>4 DEF ScriptEnds
  <2>2. p \in {"early", "error", "done"} /\ wpc = "running" /\ WorkerFree
    BY <1>4 DEF ScriptEnds
  <2> QED BY <1>2, <2>1, <2>2
<1> QED BY <1>1, <1>3, <1>4

(* The epilogue of the thread.                                             *)
LEMMA EpilogueKeeps ==
    ASSUME IInv, Epilogue
    PROVE  IInv'
<1> DEFINE Steps == {"store", "publish", "closeIn", "closeOut", "luaClose"}
<1>1. /\ wpc \in Steps /\ wpc' = PathOf(path)[wpc] /\ UNCHANGED <<handleVars, path>>
      /\ stored' = (IF wpc = "store" THEN IF path = "done" THEN "result" ELSE "error" ELSE stored)
      /\ status' = (IF wpc = "publish" THEN IF path = "done" THEN "done" ELSE "error" ELSE status)
  BY DEF Epilogue, StoreOutcome, PublishStatus, WorkerCloseIn, WorkerCloseOut, LuaClose, Advance
<1>2. path \in {"early", "error", "done"}
  BY <1>1 DEF IInv, ThreadInv
<1>3. /\ path = "done" => wpc' = DonePath[wpc]
      /\ path = "error" => wpc' = ErrorPath[wpc]
      /\ path = "early" => wpc' = EarlyPath[wpc] /\ wpc # "luaClose"
  BY <1>1, <1>2 DEF PathOf, IInv, ThreadInv
<1>4. /\ path = "done" => wpc' = (CASE wpc = "store" -> "closeIn" [] wpc = "closeIn" -> "closeOut"
                                  [] wpc = "closeOut" -> "luaClose" [] wpc = "luaClose" -> "publish"
                                  [] wpc = "publish" -> "exited")
      /\ path \in {"early", "error"} =>
            wpc' = (CASE wpc = "store" -> "publish" [] wpc = "publish" -> "closeIn"
                      [] wpc = "closeIn" -> "closeOut"
                      [] wpc = "closeOut" -> (IF path = "early" THEN "exited" ELSE "luaClose")
                      [] wpc = "luaClose" -> "exited")
  BY <1>1, <1>2, <1>3 DEF DonePath, ErrorPath, EarlyPath
<1>5. wpc' \in (Steps \cup {"exited"}) \ {"store"}
  BY <1>1, <1>2, <1>4
<1>6. ThreadInv'
  BY <1>1, <1>2, <1>4, <1>5 DEF IInv, ThreadInv, WorkerSteps
<1>7. HandleInv'
  BY <1>1, <1>5 DEF handleVars, IInv, HandleInv
<1>8. AnswerIsTruthful'
  BY <1>1 DEF handleVars, IInv, AnswerIsTruthful
<1>9. CallsInv'
  <2>1. inPc["worker"] = "idle" /\ outPc["worker"] = "idle"
    BY DEF Epilogue, StoreOutcome, PublishStatus, WorkerCloseIn, WorkerCloseOut, LuaClose,
           WorkerFree, IInv, CallsInv
  <2>2. /\ inPc' \in [Actors -> States]
        /\ \A u \in Actors : inPc[u] = "idle" => inPc'[u] = "idle"
    <3>1. Inbox!Close("worker") \/ UNCHANGED inVars
      BY DEF Epilogue, StoreOutcome, PublishStatus, WorkerCloseIn, WorkerCloseOut, LuaClose
    <3> QED BY <3>1, InboxCloseMoves DEF IInv, CallsInv, Actors, inVars
  <2>3. /\ outPc' \in [Actors -> States]
        /\ \A u \in Actors : outPc[u] = "idle" => outPc'[u] = "idle"
    <3>1. Outbox!Close("worker") \/ UNCHANGED outVars
      BY DEF Epilogue, StoreOutcome, PublishStatus, WorkerCloseIn, WorkerCloseOut, LuaClose
    <3> QED BY <3>1, OutboxCloseMoves DEF IInv, CallsInv, Actors, outVars
  <2> QED BY <1>1, <2>1, <2>2, <2>3 DEF Actors, handleVars, IInv, CallsInv
<1> QED BY <1>6, <1>7, <1>8, <1>9 DEF IInv

(* The invariant is inductive.                                             *)
THEOREM InvariantHolds == Spec => []IInv
<1>1. IInv /\ [Next]_vars => IInv'
  <2> SUFFICES ASSUME IInv, [Next]_vars PROVE IInv'
    OBVIOUS
  <2>1. ASSUME NEW us \in Timeouts,
               \/ ParentRecv(us) \/ WorkerRecv(us)
               \/ \E m \in Msgs : ParentSend(m, us) \/ WorkerSend(m, us)
        PROVE  IInv'
    BY <2>1, ParentCallKeeps, WorkerCallKeeps
  <2>2. CASE Spawn \/ SpawnCreateFails \/ SpawnInitFails
    BY <2>2, SpawnKeeps
  <2>3. CASE ParentClose
    BY <2>3, ParentCallKeeps
  <2>4. CASE CallJoin \/ CallPoll \/ FinishJoin
    BY <2>4, JoinKeeps
  <2>5. CASE Gc
    BY <2>5, GcKeeps
  <2>6. CASE WorkerStarts \/ WorkerStartFails \/ ScriptEnds
    BY <2>6, ScriptKeeps
  <2>7. CASE Epilogue
    BY <2>7, EpilogueKeeps
  <2>8. ASSUME NEW t \in Actors, QueueStep(t) PROVE IInv'
    BY <2>8, InsideKeeps
  <2>9. CASE Gone \/ UNCHANGED vars
    <3>1. UNCHANGED <<handleVars, threadVars>> /\ CallsInv'
      BY <2>9 DEF Gone, vars, inVars, outVars, handleVars, threadVars, IInv, CallsInv
    <3> QED BY <3>1, QueueStepKeeps
  <2> QED BY <2>1, <2>2, <2>3, <2>4, <2>5, <2>6, <2>7, <2>8, <2>9 DEF Next
<1> QED BY <1>1, InitEstablishes, PTL DEF Spec

-----------------------------------------------------------------------------
(* However join, poll and __gc are mixed, the thread is joined exactly     *)
(* once before the userdata is freed (worker_join, worker_poll, worker_gc).*)
THEOREM JoinedExactlyOnceHolds == Spec => []JoinedExactlyOnce
<1>1. IInv => JoinedExactlyOnce
  BY DEF IInv, HandleInv, JoinedExactlyOnce, ThreadCreated
<1> QED BY <1>1, InvariantHolds, PTL

(* The queues are destroyed only when the thread is over and no call is in *)
(* progress (worker_gc).                                                   *)
THEOREM FreedAfterUseHolds == Spec => []FreedAfterUse
<1>1. IInv => FreedAfterUse
  BY DEF IInv, HandleInv, CallsInv, FreedAfterUse, Actors
<1> QED BY <1>1, InvariantHolds, PTL

(* join() and poll() answer with the outcome the thread stored             *)
(* (worker_thread_main, worker_join, worker_poll).                         *)
THEOREM AnswerIsTruthfulHolds == Spec => []AnswerIsTruthful
<1>1. IInv => AnswerIsTruthful
  BY DEF IInv
<1> QED BY <1>1, InvariantHolds, PTL

-----------------------------------------------------------------------------
(* The second invariant: what the closing of the queues guarantees.        *)

Awake(pcs) == \A t \in Actors : pcs[t] # "parked"

IsFcn(f) == f = [t \in Actors |-> f[t]]

(* What the thread has closed at each step, and nobody asleep in a queue   *)
(* that is closed.                                                         *)
ClosedInv ==
    /\ inClosed => Awake(inPc)
    /\ outClosed => Awake(outPc)
    /\ wpc = "closeOut" => inClosed
    /\ wpc \in {"luaClose", "exited"} => inClosed /\ outClosed
    /\ wpc = "publish" /\ path = "done" => inClosed /\ outClosed

(* While the parent can call recv, only the thread can have closed the     *)
(* outbox; and a recv that answered "closed" left the outbox empty.        *)
FinalInv ==
    /\ IsFcn(outReq) /\ IsFcn(outRet)
    /\ outPc["parent"] # "idle" => outReq["parent"].op = "pop"
    /\ handle = "none" => ~outClosed
    /\ outClosed /\ handle = "live" /\ parent \in {"free", "join", "poll"} => path # "none"
    /\ outRet["parent"] = Outbox!Refused("closed") =>
          outClosed /\ path # "none" /\ outQ = << >>

QInv == ClosedInv /\ FinalInv

LEMMA InboxPassAwake ==
    ASSUME inPc \in [Actors -> States], inClosed => Awake(inPc),
           NEW t \in Actors, NEW m, NEW mode, NEW late,
           Inbox!PushPass(t, m, mode, late) \/ Inbox!PopPass(t, mode, late)
    PROVE  (inClosed' => Awake(inPc')) /\ inClosed' = inClosed
<1>1. inClosed' = inClosed
  BY DEF Inbox!PushPass, Inbox!PopPass, Inbox!Fail, Inbox!Park, Inbox!Insert, Inbox!Extract
<1>2. ASSUME inClosed, NEW reason, Inbox!Fail(t, reason) PROVE Awake(inPc')
  BY <1>2 DEF Inbox!Fail, Awake, States
<1>3. ASSUME inClosed, Inbox!Extract(t) PROVE Awake(inPc')
  <2>1. Inbox!NotFull \in SUBSET Actors
    BY DEF Inbox!NotFull, Inbox!Threads, Actors
  <2> QED BY <1>3, <2>1 DEF Inbox!Extract, Inbox!Signal, Awake, States
<1> QED BY <1>1, <1>2, <1>3 DEF Inbox!PushPass, Inbox!PopPass

LEMMA InboxStepAwake ==
    ASSUME inPc \in [Actors -> States], inClosed => Awake(inPc), NEW t \in Actors,
           Inbox!Resume(t) \/ Inbox!SpuriousWakeup(t) \/ Inbox!Expire(t)
    PROVE  (inClosed' => Awake(inPc')) /\ inClosed' = inClosed
<1>1. CASE Inbox!Resume(t)
  BY <1>1, InboxPassAwake DEF Inbox!Resume
<1>2. CASE Inbox!SpuriousWakeup(t) \/ Inbox!Expire(t)
  BY <1>2 DEF Inbox!SpuriousWakeup, Inbox!Expire, Awake, States
<1> QED BY <1>1, <1>2

LEMMA InboxCloseAwake ==
    ASSUME inPc \in [Actors -> States], NEW t \in Actors, Inbox!Close(t)
    PROVE  inClosed' = TRUE /\ Awake(inPc')
BY DEF Inbox!Close, Inbox!Threads, Actors, Awake, States

LEMMA OutboxPassAwake ==
    ASSUME outPc \in [Actors -> States], outClosed => Awake(outPc),
           NEW t \in Actors, NEW m, NEW mode, NEW late,
           Outbox!PushPass(t, m, mode, late) \/ Outbox!PopPass(t, mode, late)
    PROVE  (outClosed' => Awake(outPc')) /\ outClosed' = outClosed
<1>1. outClosed' = outClosed
  BY DEF Outbox!PushPass, Outbox!PopPass, Outbox!Fail, Outbox!Park, Outbox!Insert, Outbox!Extract
<1>2. ASSUME outClosed, NEW reason, Outbox!Fail(t, reason) PROVE Awake(outPc')
  BY <1>2 DEF Outbox!Fail, Awake, States
<1>3. ASSUME outClosed, Outbox!Extract(t) PROVE Awake(outPc')
  <2>1. Outbox!NotFull \in SUBSET Actors
    BY DEF Outbox!NotFull, Outbox!Threads, Actors
  <2> QED BY <1>3, <2>1 DEF Outbox!Extract, Outbox!Signal, Awake, States
<1> QED BY <1>1, <1>2, <1>3 DEF Outbox!PushPass, Outbox!PopPass

LEMMA OutboxStepAwake ==
    ASSUME outPc \in [Actors -> States], outClosed => Awake(outPc), NEW t \in Actors,
           Outbox!Resume(t) \/ Outbox!SpuriousWakeup(t) \/ Outbox!Expire(t)
    PROVE  (outClosed' => Awake(outPc')) /\ outClosed' = outClosed
<1>1. CASE Outbox!Resume(t)
  BY <1>1, OutboxPassAwake DEF Outbox!Resume
<1>2. CASE Outbox!SpuriousWakeup(t) \/ Outbox!Expire(t)
  BY <1>2 DEF Outbox!SpuriousWakeup, Outbox!Expire, Awake, States
<1> QED BY <1>1, <1>2

LEMMA OutboxCloseAwake ==
    ASSUME outPc \in [Actors -> States], NEW t \in Actors, Outbox!Close(t)
    PROVE  outClosed' = TRUE /\ Awake(outPc')
BY DEF Outbox!Close, Outbox!Threads, Actors, Awake, States

(* A pass of the worker in the outbox leaves the parent's answer alone, and *)
(* adds nothing to a closed queue.                                         *)
LEMMA WorkerPassKeepsAnswer ==
    ASSUME IsFcn(outReq), IsFcn(outRet), NEW m, NEW mode, NEW late,
           Outbox!PushPass("worker", m, mode, late) \/ Outbox!PopPass("worker", mode, late)
    PROVE  /\ IsFcn(outReq') /\ IsFcn(outRet')
           /\ outReq'["parent"] = outReq["parent"] /\ outRet'["parent"] = outRet["parent"]
           /\ outClosed /\ outQ = << >> => outQ' = << >>
<1>1. PICK r, a : /\ outReq' = [outReq EXCEPT !["worker"] = r]
                  /\ outRet' = [outRet EXCEPT !["worker"] = a]
  BY DEF Outbox!PushPass, Outbox!PopPass, Outbox!Fail, Outbox!Park, Outbox!Insert,
         Outbox!Extract, Outbox!Return
<1>2. outClosed /\ outQ = << >> => outQ' = << >>
  BY DEF Outbox!PushPass, Outbox!PopPass, Outbox!Fail, Outbox!Park, Outbox!Empty
<1> QED BY <1>1, <1>2 DEF IsFcn, Actors

(* A pop of the parent answers "closed" only from a closed, empty queue.   *)
LEMMA ParentPassAnswer ==
    ASSUME IsFcn(outReq), IsFcn(outRet), outPc \in [Actors -> States],
           outPc["parent"] # "parked", NEW mode, NEW late, Outbox!PopPass("parent", mode, late)
    PROVE  /\ IsFcn(outReq') /\ IsFcn(outRet')
           /\ outPc'["parent"] # "idle" => outReq'["parent"].op = "pop"
           /\ outRet'["parent"] = Outbox!Refused("closed") => outClosed /\ outQ = << >> /\ outQ' = outQ
<1>1. ASSUME NEW reason, Outbox!Fail("parent", reason)
      PROVE  /\ IsFcn(outReq') /\ IsFcn(outRet') /\ outQ' = outQ
             /\ outPc'["parent"] = "idle"
             /\ outRet'["parent"] = Outbox!Refused(reason)
  BY <1>1 DEF Outbox!Fail, Outbox!Return, IsFcn, Actors, States
<1>2. CASE Outbox!Empty /\ outClosed /\ Outbox!Fail("parent", "closed")
  BY <1>1, <1>2 DEF Outbox!Empty
<1>3. ASSUME NEW reason \in {"empty", "timeout"}, Outbox!Fail("parent", reason)
      PROVE  /\ outRet'["parent"] # Outbox!Refused("closed") /\ outPc'["parent"] = "idle"
             /\ IsFcn(outReq') /\ IsFcn(outRet')
  <2>1. Outbox!Refused(reason).what = reason /\ Outbox!Refused("closed").what = "closed"
    BY DEF Outbox!Refused
  <2>2. Outbox!Refused(reason) # Outbox!Refused("closed")
    BY <2>1, reason # "closed"
  <2> QED BY <1>1, <1>3, <2>2
<1>4. CASE Outbox!Park("parent", Outbox!PopReq(mode))
  BY <1>4 DEF Outbox!Park, Outbox!PopReq, Outbox!NoRet, Outbox!Refused, IsFcn, Actors
<1>5. CASE Outbox!Extract("parent")
  <2>1. /\ IsFcn(outReq') /\ IsFcn(outRet')
        /\ outRet'["parent"] = Outbox!Popped(Head(outQ))
    BY <1>5 DEF Outbox!Extract, Outbox!Return, IsFcn, Actors
  <2>2. Outbox!NotFull \subseteq Actors \ {"parent"}
    BY DEF Outbox!NotFull, Outbox!Threads, Actors
  <2>3. outPc'["parent"] = "idle"
    BY <1>5, <2>2 DEF Outbox!Extract, Outbox!Signal, Actors, States
  <2> QED BY <2>1, <2>3 DEF Outbox!Popped, Outbox!Refused
<1> QED BY <1>2, <1>3, <1>4, <1>5 DEF Outbox!PopPass

LEMMA InitEstablishesQ == Init => QInv
BY DEF Init, Inbox!Init, Outbox!Init, Inbox!Threads, Outbox!Threads, Outbox!Refused, Outbox!NoRet,
       Actors, QInv, ClosedInv, FinalInv, IsFcn

(* Steps outside the queues.                                               *)
LEMMA OutsideKeepsQ ==
    ASSUME IInv, QInv, UNCHANGED <<inVars, outVars>>,
           path # "none" => path' = path,
           handle' = "none" => handle = "none",
           handle' = "live" => handle \in {"none", "live"},
           handle = "live" /\ parent' \in {"free", "join", "poll"} /\ handle' = "live" =>
              parent \in {"free", "join", "poll"},
           \/ wpc' = wpc /\ path' = path
           \/ wpc' \in {"starting", "running", "store"}
           \/ wpc \in {"store", "publish", "luaClose"} /\ wpc' = PathOf(path)[wpc] /\ path' = path
    PROVE  QInv'
<1>1. FinalInv'
  BY DEF QInv, FinalInv, outVars
<1>2. ClosedInv'
  <2>1. CASE (wpc' = wpc /\ path' = path) \/ wpc' \in {"starting", "running", "store"}
    BY <2>1 DEF QInv, ClosedInv, inVars, outVars
  <2>2. CASE wpc \in {"store", "publish", "luaClose"} /\ wpc' = PathOf(path)[wpc] /\ path' = path
    <3>1. path \in {"early", "error", "done"} /\ (path = "early" => wpc # "luaClose")
      BY <2>2 DEF IInv, ThreadInv
    <3>2. \/ wpc = "store" /\ path = "done" /\ wpc' = "closeIn"
          \/ wpc = "store" /\ path # "done" /\ wpc' = "publish"
          \/ wpc = "publish" /\ path = "done" /\ wpc' = "exited"
          \/ wpc = "publish" /\ path # "done" /\ wpc' = "closeIn"
          \/ wpc = "luaClose" /\ path = "done" /\ wpc' = "publish"
          \/ wpc = "luaClose" /\ path = "error" /\ wpc' = "exited"
      BY <2>2, <3>1 DEF PathOf, DonePath, ErrorPath, EarlyPath
    <3> QED BY <2>2, <3>2 DEF QInv, ClosedInv, inVars, outVars
  <2> QED BY <2>1, <2>2
<1> QED BY <1>1, <1>2 DEF QInv

(* Steps of the parent and of the thread inside the inbox.                 *)
LEMMA InboxKeepsQ ==
    ASSUME IInv, QInv, UNCHANGED <<outVars, handleVars, threadVars>>,
           inClosed' => Awake(inPc'), inClosed => inClosed'
    PROVE  QInv'
BY DEF QInv, ClosedInv, FinalInv, outVars, handleVars, threadVars

(* Steps inside the outbox.                                                *)
LEMMA OutboxKeepsQ ==
    ASSUME IInv, QInv, UNCHANGED <<inVars, handleVars, threadVars>>,
           outClosed' => Awake(outPc'), outClosed' = outClosed, FinalInv'
    PROVE  QInv'
BY DEF QInv, ClosedInv, FinalInv, inVars, handleVars, threadVars

LEMMA ParentPopKeepsQ ==
    ASSUME IInv, QInv, UNCHANGED <<inVars, handleVars, threadVars>>,
           handle = "live", parent = "free",
           outPc["parent"] # "parked", NEW mode, NEW late, Outbox!PopPass("parent", mode, late)
    PROVE  QInv'
<1>1. (outClosed' => Awake(outPc')) /\ outClosed' = outClosed
  BY OutboxPassAwake DEF IInv, CallsInv, QInv, ClosedInv, Actors
<1>2. FinalInv'
  BY <1>1, ParentPassAnswer DEF IInv, CallsInv, QInv, FinalInv, handleVars, threadVars
<1> QED BY <1>1, <1>2, OutboxKeepsQ

LEMMA WorkerPassKeepsQ ==
    ASSUME IInv, QInv, UNCHANGED <<inVars, handleVars, threadVars>>,
           outPc["worker"] # "parked", NEW m, NEW mode, NEW late,
           Outbox!PushPass("worker", m, mode, late) \/ Outbox!PopPass("worker", mode, late)
    PROVE  QInv'
<1>1. (outClosed' => Awake(outPc')) /\ outClosed' = outClosed
  BY OutboxPassAwake DEF IInv, CallsInv, QInv, ClosedInv, Actors
<1>2. MovesOnly(outPc, outPc', "worker")
  BY OutboxPassMoves DEF IInv, CallsInv, Actors
<1>3. FinalInv'
  BY <1>1, <1>2, WorkerPassKeepsAnswer DEF IInv, CallsInv, QInv, FinalInv, MovesOnly, Actors,
     handleVars, threadVars
<1> QED BY <1>1, <1>3, OutboxKeepsQ

LEMMA InsideKeepsQ ==
    ASSUME IInv, QInv, NEW t \in Actors, QueueStep(t)
    PROVE  QInv'
<1>1. CASE /\ Inbox!Resume(t) \/ Inbox!SpuriousWakeup(t) \/ Inbox!Expire(t)
           /\ UNCHANGED <<outVars, handleVars, threadVars>>
  BY <1>1, InboxStepAwake, InboxKeepsQ DEF IInv, CallsInv, QInv, ClosedInv
<1>2. CASE /\ Outbox!SpuriousWakeup(t) \/ Outbox!Expire(t)
           /\ UNCHANGED <<inVars, handleVars, threadVars>>
  <2>1. (outClosed' => Awake(outPc')) /\ outClosed' = outClosed
    BY <1>2, OutboxStepAwake DEF IInv, CallsInv, QInv, ClosedInv
  <2>2. outPc[t] # "idle" /\ UNCHANGED <<outQ, outReq, outRet>> /\ MovesOnly(outPc, outPc', t)
    BY <1>2, OutboxStepMoves DEF IInv, CallsInv, Outbox!SpuriousWakeup, Outbox!Expire
  <2>3. FinalInv'
    BY <1>2, <2>1, <2>2 DEF QInv, FinalInv, MovesOnly, Actors, handleVars, threadVars
  <2> QED BY <1>2, <2>1, <2>3, OutboxKeepsQ
<1>3. CASE Outbox!Resume(t) /\ UNCHANGED <<inVars, handleVars, threadVars>>
  <2>1. outPc[t] \in {"woken", "expired"}
    BY <1>3 DEF Outbox!Resume
  <2>2. CASE t = "worker"
    BY <1>3, <2>1, <2>2, WorkerPassKeepsQ DEF Outbox!Resume
  <2>3. CASE t = "parent"
    <3>1. outReq["parent"].op = "pop" /\ handle = "live" /\ parent = "free"
      BY <2>1, <2>3 DEF IInv, CallsInv, QInv, FinalInv
    <3>2. Outbox!PopPass("parent", outReq["parent"].mode, outPc["parent"] = "expired")
      BY <1>3, <2>3, <3>1 DEF Outbox!Resume
    <3> QED BY <1>3, <2>1, <2>3, <3>1, <3>2, ParentPopKeepsQ
  <2> QED BY <2>2, <2>3 DEF Actors
<1> QED BY <1>1, <1>2, <1>3 DEF QueueStep

(* send and recv, on both sides, and w:close().                            *)
LEMMA CallKeepsQ ==
    ASSUME IInv, QInv,
           \/ \E us \in Timeouts : \/ ParentRecv(us) \/ WorkerRecv(us)
                                   \/ \E m \in Msgs : ParentSend(m, us) \/ WorkerSend(m, us)
           \/ ParentClose
    PROVE  QInv'
<1>1. ASSUME NEW us \in Timeouts, NEW m \in Msgs, ParentSend(m, us) PROVE QInv'
  BY <1>1, InboxPassAwake, InboxKeepsQ DEF ParentSend, Inbox!Push, IInv, CallsInv, QInv, ClosedInv, Actors
<1>2. ASSUME NEW us \in Timeouts, WorkerRecv(us) PROVE QInv'
  BY <1>2, InboxPassAwake, InboxKeepsQ DEF WorkerRecv, Inbox!Pop, IInv, CallsInv, QInv, ClosedInv, Actors
<1>3. ASSUME NEW us \in Timeouts, ParentRecv(us) PROVE QInv'
  BY <1>3, ParentPopKeepsQ DEF ParentRecv, ParentFree, Outbox!Pop
<1>4. ASSUME NEW us \in Timeouts, NEW m \in Msgs, WorkerSend(m, us) PROVE QInv'
  BY <1>4, WorkerPassKeepsQ DEF WorkerSend, Outbox!Push
<1>5. CASE ParentClose
  BY <1>5, InboxCloseAwake, InboxKeepsQ DEF ParentClose, IInv, CallsInv, Actors
<1> QED BY <1>1, <1>2, <1>3, <1>4, <1>5

LEMMA GcKeepsQ ==
    ASSUME IInv, QInv, Gc
    PROVE  QInv'
<1>1. CASE StartGc \/ GcJoin \/ GcDestroy
  <2>1. /\ UNCHANGED <<inVars, outVars, threadVars>>
        /\ handle' # "none" /\ (handle' = "live" => handle = "live")
        /\ handle' = "live" => parent' \notin {"free", "join", "poll"}
    BY <1>1 DEF StartGc, GcJoin, GcDestroy, IInv, HandleInv
  <2> QED BY <2>1, OutsideKeepsQ DEF threadVars
<1>2. CASE GcCloseIn
  <2>1. /\ inClosed' => Awake(inPc')
        /\ inClosed => inClosed'
    <3>1. CASE Inbox!Close("parent")
      BY <3>1, InboxCloseAwake DEF IInv, CallsInv, Actors
    <3>2. CASE UNCHANGED inVars
      BY <3>2 DEF inVars, Awake, QInv, ClosedInv
    <3> QED BY <1>2, <3>1, <3>2 DEF GcCloseIn
  <2>2. /\ UNCHANGED <<outVars, threadVars, handle>>
        /\ parent' \notin {"free", "join", "poll"}
    BY <1>2 DEF GcCloseIn
  <2>3. ClosedInv'
    BY <2>1, <2>2 DEF QInv, ClosedInv, outVars, threadVars
  <2>4. FinalInv'
    BY <2>2 DEF QInv, FinalInv, outVars, threadVars
  <2> QED BY <2>3, <2>4 DEF QInv
<1>3. CASE GcCloseOut
  <2>1. /\ outClosed' => Awake(outPc')
        /\ outClosed => outClosed'
        /\ UNCHANGED <<outQ, outReq, outRet>>
    <3>1. CASE Outbox!Close("parent")
      BY <3>1, OutboxCloseAwake DEF Outbox!Close, IInv, CallsInv, Actors
    <3>2. CASE UNCHANGED outVars
      BY <3>2 DEF outVars, Awake, QInv, ClosedInv
    <3> QED BY <1>3, <3>1, <3>2 DEF GcCloseOut
  <2>2. /\ UNCHANGED <<inVars, threadVars, handle>>
        /\ parent' \notin {"free", "join", "poll"} /\ parent # "free"
    BY <1>3 DEF GcCloseOut
  <2>3. ClosedInv'
    BY <2>1, <2>2 DEF QInv, ClosedInv, inVars, threadVars
  <2>4. outPc'["parent"] = "idle" /\ handle # "none"
    BY <2>2, GcKeeps DEF IInv, CallsInv, HandleInv
  <2>5. FinalInv'
    BY <2>1, <2>2, <2>4 DEF QInv, FinalInv, threadVars
  <2> QED BY <2>3, <2>5 DEF QInv
<1> QED BY <1>1, <1>2, <1>3 DEF Gc

LEMMA EpilogueKeepsQ ==
    ASSUME IInv, QInv, Epilogue
    PROVE  QInv'
<1>1. CASE StoreOutcome \/ PublishStatus \/ LuaClose
  <2>1. /\ UNCHANGED <<inVars, outVars, handleVars, path>>
        /\ wpc \in {"store", "publish", "luaClose"} /\ wpc' = PathOf(path)[wpc]
    BY <1>1 DEF StoreOutcome, PublishStatus, LuaClose, Advance
  <2> QED BY <2>1, OutsideKeepsQ DEF handleVars
<1>2. path \in {"early", "error", "done"}
  BY DEF Epilogue, StoreOutcome, PublishStatus, WorkerCloseIn, WorkerCloseOut, LuaClose,
         WorkerFree, IInv, ThreadInv
<1>3. CASE WorkerCloseIn
  <2>1. /\ inClosed' = TRUE /\ Awake(inPc') /\ UNCHANGED <<outVars, handleVars, path>>
        /\ wpc' = "closeOut"
    BY <1>2, <1>3, InboxCloseAwake DEF WorkerCloseIn, Advance, PathOf, DonePath, ErrorPath,
       EarlyPath, IInv, CallsInv, Actors
  <2> QED BY <2>1 DEF QInv, ClosedInv, FinalInv, outVars, handleVars
<1>4. CASE WorkerCloseOut
  <2>1. /\ outClosed' = TRUE /\ Awake(outPc') /\ UNCHANGED <<inVars, handleVars, path>>
        /\ UNCHANGED <<outQ, outReq, outRet>>
        /\ wpc = "closeOut" /\ wpc' \in {"luaClose", "exited"}
    BY <1>2, <1>4, OutboxCloseAwake DEF WorkerCloseOut, Outbox!Close, Advance, PathOf, DonePath,
       ErrorPath, EarlyPath, IInv, CallsInv, Actors
  <2>2. ClosedInv'
    BY <2>1 DEF QInv, ClosedInv, inVars
  <2>3. outPc["parent"] = "idle" => outPc'["parent"] = "idle"
    BY <1>4, OutboxCloseMoves DEF WorkerCloseOut, IInv, CallsInv, Actors
  <2>4. handle # "none"
    BY <2>1 DEF IInv, HandleInv
  <2>5. FinalInv'
    BY <1>2, <2>1, <2>3, <2>4 DEF QInv, FinalInv, handleVars
  <2> QED BY <2>2, <2>5 DEF QInv
<1> QED BY <1>1, <1>3, <1>4 DEF Epilogue

(* From the steps of the epilogue that close a queue on it is closed with  *)
(* nobody asleep in it, and what the parent was told of the end stays true. *)
THEOREM QueuesInvariantHolds == Spec => []QInv
<1>1. IInv /\ QInv /\ [Next]_vars => QInv'
  <2> SUFFICES ASSUME IInv, QInv, [Next]_vars PROVE QInv'
    OBVIOUS
  <2>1. CASE Spawn \/ SpawnCreateFails \/ SpawnInitFails
    <3>1. /\ UNCHANGED <<inVars, outVars, path>> /\ handle = "none" /\ handle' # "none"
          /\ wpc' = wpc \/ wpc' = "starting"
      BY <2>1 DEF Spawn, SpawnCreateFails, SpawnInitFails, threadVars
    <3> QED BY <3>1, OutsideKeepsQ
  <2>2. CASE CallJoin \/ CallPoll \/ FinishJoin
    <3>1. /\ UNCHANGED <<inVars, outVars, handle, threadVars>>
          /\ parent \in {"free", "join", "poll"}
      BY <2>2 DEF CallJoin, CallPoll, FinishJoin, ParentFree
    <3> QED BY <3>1, OutsideKeepsQ DEF threadVars
  <2>3. CASE WorkerStarts \/ WorkerStartFails \/ ScriptEnds
    <3>1. /\ UNCHANGED <<inVars, outVars, handleVars>>
          /\ wpc' \in {"running", "store"} /\ path = "none"
      BY <2>3 DEF WorkerStarts, WorkerStartFails, ScriptEnds, WorkerEndsOn, PathOf, DonePath,
         ErrorPath, EarlyPath, IInv, ThreadInv
    <3> QED BY <3>1, OutsideKeepsQ DEF handleVars
  <2>4. ASSUME NEW us \in Timeouts,
               \/ ParentRecv(us) \/ WorkerRecv(us)
               \/ \E m \in Msgs : ParentSend(m, us) \/ WorkerSend(m, us)
        PROVE  QInv'
    BY <2>4, CallKeepsQ
  <2>5. CASE ParentClose
    BY <2>5, CallKeepsQ
  <2>6. CASE Gc
    BY <2>6, GcKeepsQ
  <2>7. CASE Epilogue
    BY <2>7, EpilogueKeepsQ
  <2>8. ASSUME NEW t \in Actors, QueueStep(t) PROVE QInv'
    BY <2>8, InsideKeepsQ
  <2>9. CASE Gone \/ UNCHANGED vars
    <3>1. UNCHANGED vars
      BY <2>9 DEF Gone
    <3> QED BY <3>1 DEF vars, inVars, outVars, handleVars, threadVars, QInv, ClosedInv, FinalInv
  <2> QED BY <2>1, <2>2, <2>3, <2>4, <2>5, <2>6, <2>7, <2>8, <2>9 DEF Next
<1> QED BY <1>1, InitEstablishesQ, InvariantHolds, PTL DEF Spec

(* Nobody is asleep in a queue of a worker that exited: the thread closes  *)
(* both on each of its ways out (worker_thread_main).                      *)
THEOREM ExitReleasesParentHolds == Spec => []ExitReleasesParent
<1>1. QInv => ExitReleasesParent
  BY DEF QInv, ClosedInv, Awake, Actors, ExitReleasesParent
<1> QED BY <1>1, QueuesInvariantHolds, PTL

(* A recv() that answered "closed" left nothing of what the script sent    *)
(* (worker_recv, MessageQueue::pop).                                       *)
THEOREM ClosedIsFinalHolds == Spec => []ClosedIsFinal
<1>1. QInv => ClosedIsFinal
  BY DEF QInv, FinalInv, ClosedIsFinal, ScriptOver
<1> QED BY <1>1, QueuesInvariantHolds, PTL

-----------------------------------------------------------------------------
(* The two queues of a worker are message queues: nothing the worker, its  *)
(* parent or __gc does to them is anything but a step of MessageQueue.  So *)
(* what MessageQueueProofs shows for any queue holds for them.             *)

InboxProofs == INSTANCE MessageQueueProofs
                 WITH Producers <- {"parent"}, Consumers <- {"worker"},
                      Capacity <- InCapacity,
                      q <- inQ, closed <- inClosed, pc <- inPc, req <- inReq, ret <- inRet
OutboxProofs == INSTANCE MessageQueueProofs
                  WITH Producers <- {"worker"}, Consumers <- {"parent"},
                       Capacity <- OutCapacity,
                       q <- outQ, closed <- outClosed, pc <- outPc, req <- outReq, ret <- outRet

LEMMA ModeIsMode ==
    ASSUME NEW us \in Timeouts
    PROVE  Mode(us) \in {"try", "block", "timed"}
<1>1. TimeoutMs(us) \in Int
  BY TimeoutsAssumption DEF TimeoutMs, DayMs, Forever
<1>2. TimeoutMs(us) < 0 \/ TimeoutMs(us) = 0 \/ TimeoutMs(us) > 0
  BY <1>1
<1> QED BY <1>2, Zenon DEF Mode

LEMMA InboxSteps == [Next]_vars => [Inbox!Next]_inVars
<1> SUFFICES ASSUME [Next]_vars, inVars' # inVars PROVE Inbox!Next
  OBVIOUS
<1>1. Inbox!Threads = Actors /\ Inbox!Modes = {"try", "block", "timed"}
  BY DEF Inbox!Threads, Inbox!Modes, Actors
<1>2. ASSUME NEW us \in Timeouts, NEW m \in Msgs, ParentSend(m, us) PROVE Inbox!Next
  BY <1>1, <1>2, ModeIsMode DEF ParentSend, Inbox!Next, Actors
<1>3. ASSUME NEW us \in Timeouts, WorkerRecv(us) PROVE Inbox!Next
  BY <1>1, <1>3, ModeIsMode DEF WorkerRecv, Inbox!Next, Actors
<1>4. CASE ParentClose \/ GcCloseIn \/ WorkerCloseIn
  <2>1. \E t \in Actors : Inbox!Close(t)
    BY <1>4 DEF ParentClose, GcCloseIn, WorkerCloseIn, Actors
  <2> QED BY <1>1, <2>1 DEF Inbox!Next
<1>5. ASSUME NEW t \in Actors, QueueStep(t) PROVE Inbox!Next
  BY <1>1, <1>5 DEF QueueStep, Inbox!Next
<1>6. CASE Spawn \/ SpawnCreateFails \/ SpawnInitFails \/ CallJoin \/ CallPoll \/ FinishJoin
  BY <1>6 DEF Spawn, SpawnCreateFails, SpawnInitFails, CallJoin, CallPoll, FinishJoin
<1>7. CASE \E us \in Timeouts : ParentRecv(us) \/ \E m \in Msgs : WorkerSend(m, us)
  BY <1>7 DEF ParentRecv, WorkerSend
<1>8. CASE StartGc \/ GcCloseOut \/ GcJoin \/ GcDestroy
  BY <1>8 DEF StartGc, GcCloseOut, GcJoin, GcDestroy
<1>9. CASE WorkerStarts \/ WorkerStartFails \/ ScriptEnds
  BY <1>9 DEF WorkerStarts, WorkerStartFails, ScriptEnds, WorkerEndsOn
<1>10. CASE StoreOutcome \/ PublishStatus \/ WorkerCloseOut \/ LuaClose
  BY <1>10 DEF StoreOutcome, PublishStatus, WorkerCloseOut, LuaClose
<1>11. CASE Gone \/ UNCHANGED vars
  BY <1>11 DEF Gone, vars
<1> QED BY <1>2, <1>3, <1>4, <1>5, <1>6, <1>7, <1>8, <1>9, <1>10, <1>11 DEF Next, Gc, Epilogue

LEMMA OutboxSteps == [Next]_vars => [Outbox!Next]_outVars
<1> SUFFICES ASSUME [Next]_vars, outVars' # outVars PROVE Outbox!Next
  OBVIOUS
<1>1. Outbox!Threads = Actors /\ Outbox!Modes = {"try", "block", "timed"}
  BY DEF Outbox!Threads, Outbox!Modes, Actors
<1>2. ASSUME NEW us \in Timeouts, NEW m \in Msgs, WorkerSend(m, us) PROVE Outbox!Next
  BY <1>1, <1>2, ModeIsMode DEF WorkerSend, Outbox!Next, Actors
<1>3. ASSUME NEW us \in Timeouts, ParentRecv(us) PROVE Outbox!Next
  BY <1>1, <1>3, ModeIsMode DEF ParentRecv, Outbox!Next, Actors
<1>4. CASE GcCloseOut \/ WorkerCloseOut
  <2>1. \E t \in Actors : Outbox!Close(t)
    BY <1>4 DEF GcCloseOut, WorkerCloseOut, Actors
  <2> QED BY <1>1, <2>1 DEF Outbox!Next
<1>5. ASSUME NEW t \in Actors, QueueStep(t) PROVE Outbox!Next
  BY <1>1, <1>5 DEF QueueStep, Outbox!Next
<1>6. CASE Spawn \/ SpawnCreateFails \/ SpawnInitFails \/ CallJoin \/ CallPoll \/ FinishJoin
  BY <1>6 DEF Spawn, SpawnCreateFails, SpawnInitFails, CallJoin, CallPoll, FinishJoin
<1>7. CASE \/ \E us \in Timeouts : WorkerRecv(us) \/ \E m \in Msgs : ParentSend(m, us)
           \/ ParentClose
  BY <1>7 DEF WorkerRecv, ParentSend, ParentClose
<1>8. CASE StartGc \/ GcCloseIn \/ GcJoin \/ GcDestroy
  BY <1>8 DEF StartGc, GcCloseIn, GcJoin, GcDestroy
<1>9. CASE WorkerStarts \/ WorkerStartFails \/ ScriptEnds
  BY <1>9 DEF WorkerStarts, WorkerStartFails, ScriptEnds, WorkerEndsOn
<1>10. CASE StoreOutcome \/ PublishStatus \/ WorkerCloseIn \/ LuaClose
  BY <1>10 DEF StoreOutcome, PublishStatus, WorkerCloseIn, LuaClose
<1>11. CASE Gone \/ UNCHANGED vars
  BY <1>11 DEF Gone, vars
<1> QED BY <1>2, <1>3, <1>4, <1>5, <1>6, <1>7, <1>8, <1>9, <1>10, <1>11 DEF Next, Gc, Epilogue

(* The inbox and the outbox, as the parent, the thread and __gc use them,  *)
(* behave as the queue that MessageQueue specifies.                        *)
THEOREM QueuesAreMessageQueues == Spec => Inbox!Spec /\ Outbox!Spec
<1>1. Init => Inbox!Init /\ Outbox!Init
  BY DEF Init
<1>2. inVars = Inbox!vars /\ outVars = Outbox!vars
  BY DEF inVars, outVars, Inbox!vars, Outbox!vars
<1>3. [Next]_vars => [Inbox!Next]_(Inbox!vars) /\ [Outbox!Next]_(Outbox!vars)
  BY InboxSteps, OutboxSteps DEF inVars, outVars, Inbox!vars, Outbox!vars
<1> QED BY <1>1, <1>3, PTL DEF Spec, Inbox!Spec, Outbox!Spec

(* MessageQueue is the same specification under both names.                *)
LEMMA InboxIsInInboxProofs == Inbox!Spec => InboxProofs!Spec
<1>1. Inbox!Init => InboxProofs!Init
  BY DEF Inbox!Init, InboxProofs!Init, Inbox!Threads, InboxProofs!Threads, Inbox!NoReq,
         InboxProofs!NoReq, Inbox!NoRet, InboxProofs!NoRet
<1>2. [Inbox!Next]_(Inbox!vars) => [InboxProofs!Next]_(InboxProofs!vars)
  BY DEF Inbox!vars, InboxProofs!vars, Inbox!Next, InboxProofs!Next, Inbox!Threads,
         InboxProofs!Threads, Inbox!Modes, InboxProofs!Modes, Inbox!Push, InboxProofs!Push,
         Inbox!Pop, InboxProofs!Pop, Inbox!Close, InboxProofs!Close, Inbox!Resume,
         InboxProofs!Resume, Inbox!SpuriousWakeup, InboxProofs!SpuriousWakeup, Inbox!Expire,
         InboxProofs!Expire, Inbox!PushPass, InboxProofs!PushPass, Inbox!PopPass,
         InboxProofs!PopPass, Inbox!Fail, InboxProofs!Fail, Inbox!Park, InboxProofs!Park,
         Inbox!Insert, InboxProofs!Insert, Inbox!Extract, InboxProofs!Extract, Inbox!Full,
         InboxProofs!Full, Inbox!Empty, InboxProofs!Empty, Inbox!NotFull, InboxProofs!NotFull,
         Inbox!NotEmpty, InboxProofs!NotEmpty, Inbox!Signal, InboxProofs!Signal, Inbox!Return,
         InboxProofs!Return, Inbox!PushReq, InboxProofs!PushReq, Inbox!PopReq,
         InboxProofs!PopReq, Inbox!NoReq, InboxProofs!NoReq, Inbox!NoRet, InboxProofs!NoRet,
         Inbox!Refused, InboxProofs!Refused, Inbox!Pushed, InboxProofs!Pushed, Inbox!Popped,
         InboxProofs!Popped
<1> QED BY <1>1, <1>2, PTL DEF Inbox!Spec, InboxProofs!Spec

LEMMA InboxProofsApply == InboxProofs!ThreadsAssumption /\ InboxProofs!CapacityAssumption
<1>1. IsFiniteSet({"parent"}) /\ IsFiniteSet({"worker"})
  BY FS_Singleton
<1>2. InboxProofs!ThreadsAssumption
  BY <1>1 DEF InboxProofs!ThreadsAssumption, InboxProofs!IsFiniteSet, IsFiniteSet
<1>3. InboxProofs!CapacityAssumption
  BY CapacitiesAssumption DEF InboxProofs!CapacityAssumption
<1> QED BY <1>2, <1>3

(* MessageQueue is the same specification under both names.                *)
LEMMA OutboxIsInOutboxProofs == Outbox!Spec => OutboxProofs!Spec
<1>1. Outbox!Init => OutboxProofs!Init
  BY DEF Outbox!Init, OutboxProofs!Init, Outbox!Threads, OutboxProofs!Threads, Outbox!NoReq,
         OutboxProofs!NoReq, Outbox!NoRet, OutboxProofs!NoRet
<1>2. [Outbox!Next]_(Outbox!vars) => [OutboxProofs!Next]_(OutboxProofs!vars)
  BY DEF Outbox!vars, OutboxProofs!vars, Outbox!Next, OutboxProofs!Next, Outbox!Threads,
         OutboxProofs!Threads, Outbox!Modes, OutboxProofs!Modes, Outbox!Push,
         OutboxProofs!Push, Outbox!Pop, OutboxProofs!Pop, Outbox!Close, OutboxProofs!Close,
         Outbox!Resume, OutboxProofs!Resume, Outbox!SpuriousWakeup,
         OutboxProofs!SpuriousWakeup, Outbox!Expire, OutboxProofs!Expire, Outbox!PushPass,
         OutboxProofs!PushPass, Outbox!PopPass, OutboxProofs!PopPass, Outbox!Fail,
         OutboxProofs!Fail, Outbox!Park, OutboxProofs!Park, Outbox!Insert, OutboxProofs!Insert,
         Outbox!Extract, OutboxProofs!Extract, Outbox!Full, OutboxProofs!Full, Outbox!Empty,
         OutboxProofs!Empty, Outbox!NotFull, OutboxProofs!NotFull, Outbox!NotEmpty,
         OutboxProofs!NotEmpty, Outbox!Signal, OutboxProofs!Signal, Outbox!Return,
         OutboxProofs!Return, Outbox!PushReq, OutboxProofs!PushReq, Outbox!PopReq,
         OutboxProofs!PopReq, Outbox!NoReq, OutboxProofs!NoReq, Outbox!NoRet,
         OutboxProofs!NoRet, Outbox!Refused, OutboxProofs!Refused, Outbox!Pushed,
         OutboxProofs!Pushed, Outbox!Popped, OutboxProofs!Popped
<1> QED BY <1>1, <1>2, PTL DEF Outbox!Spec, OutboxProofs!Spec

LEMMA OutboxProofsApply == OutboxProofs!ThreadsAssumption /\ OutboxProofs!CapacityAssumption
<1>1. IsFiniteSet({"parent"}) /\ IsFiniteSet({"worker"})
  BY FS_Singleton
<1>2. OutboxProofs!ThreadsAssumption
  BY <1>1 DEF OutboxProofs!ThreadsAssumption, OutboxProofs!IsFiniteSet, IsFiniteSet
<1>3. OutboxProofs!CapacityAssumption
  BY CapacitiesAssumption DEF OutboxProofs!CapacityAssumption
<1> QED BY <1>2, <1>3

(* What join() and poll() answered, and the flags of the queues.           *)
AnswerTypes ==
    /\ inInit \in BOOLEAN /\ outInit \in BOOLEAN
    /\ answer \in {"none", "running", "done", "error"}
                    \X {"none", "result", "error", "consumed"}

LEMMA OutcomeTypes ==
    IInv => status \in {"running", "done", "error"} /\ stored \in {"none", "result", "error"}
BY DEF IInv, ThreadInv

LEMMA AnswerTypesKept == IInv /\ AnswerTypes /\ [Next]_vars => AnswerTypes'
<1> SUFFICES ASSUME IInv, AnswerTypes, [Next]_vars, ~UNCHANGED handleVars PROVE AnswerTypes'
  BY DEF AnswerTypes, handleVars
<1>1. CASE Spawn \/ SpawnCreateFails \/ SpawnInitFails
  BY <1>1 DEF Spawn, SpawnCreateFails, SpawnInitFails, AnswerTypes
<1>2. CASE CallJoin \/ CallPoll \/ FinishJoin
  BY <1>2, OutcomeTypes DEF CallJoin, CallPoll, FinishJoin, AnswerTypes
<1>3. CASE Gc
  BY <1>3 DEF Gc, StartGc, GcCloseIn, GcCloseOut, GcJoin, GcDestroy, AnswerTypes
<1>4. CASE \/ \E us \in Timeouts : \/ ParentRecv(us) \/ WorkerRecv(us)
                                  \/ \E m \in Msgs : ParentSend(m, us) \/ WorkerSend(m, us)
           \/ ParentClose \/ \E t \in Actors : QueueStep(t)
  BY <1>4 DEF ParentRecv, WorkerRecv, ParentSend, WorkerSend, ParentClose, QueueStep
<1>5. CASE WorkerStarts \/ WorkerStartFails \/ ScriptEnds \/ Epilogue
  BY <1>5 DEF WorkerStarts, WorkerStartFails, ScriptEnds, WorkerEndsOn, Epilogue, StoreOutcome,
              PublishStatus, WorkerCloseIn, WorkerCloseOut, LuaClose, Advance
<1>6. CASE Gone \/ UNCHANGED vars
  BY <1>6 DEF Gone, vars
<1> QED BY <1>1, <1>2, <1>3, <1>4, <1>5, <1>6 DEF Next

(* The queues and every variable of the worker keep their types: neither   *)
(* queue ever exceeds the capacity asked for, and a thread that is in no   *)
(* call waits in none.                                                     *)
THEOREM TypeCorrect == Spec => []TypeOK
<1>1. InboxProofs!Spec => []InboxProofs!TypeOK
  BY InboxProofsApply, InboxProofs!TypeCorrect
<1>2. OutboxProofs!Spec => []OutboxProofs!TypeOK
  BY OutboxProofsApply, OutboxProofs!TypeCorrect
<1>3. InboxProofs!TypeOK => Inbox!TypeOK
  BY DEF Inbox!TypeOK, InboxProofs!TypeOK, Inbox!Threads, InboxProofs!Threads, Inbox!WaitingReq, InboxProofs!WaitingReq, Inbox!NoReq, InboxProofs!NoReq, Inbox!Results, InboxProofs!Results,
         Inbox!Pushed, InboxProofs!Pushed, Inbox!NoRet, InboxProofs!NoRet, Inbox!Popped, InboxProofs!Popped, Inbox!Refused, InboxProofs!Refused
<1>4. OutboxProofs!TypeOK => Outbox!TypeOK
  BY DEF Outbox!TypeOK, OutboxProofs!TypeOK, Outbox!Threads, OutboxProofs!Threads, Outbox!WaitingReq, OutboxProofs!WaitingReq, Outbox!NoReq, OutboxProofs!NoReq, Outbox!Results, OutboxProofs!Results,
         Outbox!Pushed, OutboxProofs!Pushed, Outbox!NoRet, OutboxProofs!NoRet, Outbox!Popped, OutboxProofs!Popped, Outbox!Refused, OutboxProofs!Refused
<1>5. Init => AnswerTypes
  <2> SUFFICES ASSUME Init PROVE AnswerTypes
    OBVIOUS
  <2>1. inInit = FALSE /\ outInit = FALSE /\ answer = <<"none", "none">>
    BY DEF Init
  <2> QED BY <2>1 DEF AnswerTypes
<1>6. Inbox!TypeOK /\ Outbox!TypeOK /\ IInv /\ AnswerTypes => TypeOK
  BY OutcomeTypes DEF TypeOK, AnswerTypes, IInv, ThreadInv, HandleInv, WorkerSteps
<1> QED BY <1>1, <1>2, <1>3, <1>4, <1>5, <1>6, AnswerTypesKept, InvariantHolds,
           InboxIsInInboxProofs, OutboxIsInOutboxProofs, QueuesAreMessageQueues, PTL DEF Spec

(* No message is left in a queue of a worker beside a reader that sleeps,  *)
(* and no room beside a writer that does.                                  *)
THEOREM QueuesLoseNoWakeup == Spec => [](Inbox!NoLostWakeup /\ Outbox!NoLostWakeup)
<1>1. InboxProofs!Spec => []InboxProofs!NoLostWakeup
  BY InboxProofsApply, InboxProofs!NoLostWakeupHolds, PTL
<1>2. OutboxProofs!Spec => []OutboxProofs!NoLostWakeup
  BY OutboxProofsApply, OutboxProofs!NoLostWakeupHolds, PTL
<1>3. InboxProofs!NoLostWakeup => Inbox!NoLostWakeup
  <2>1. \A S : InboxProofs!Cardinality(S) = Inbox!Cardinality(S)
    BY DEF InboxProofs!Cardinality, Inbox!Cardinality
  <2> QED BY <2>1 DEF InboxProofs!NoLostWakeup, Inbox!NoLostWakeup, InboxProofs!NotEmpty, Inbox!NotEmpty,
                  InboxProofs!NotFull, Inbox!NotFull, InboxProofs!AwakePoppers, Inbox!AwakePoppers,
                  InboxProofs!AwakePushers, Inbox!AwakePushers, InboxProofs!Threads, Inbox!Threads
<1>4. OutboxProofs!NoLostWakeup => Outbox!NoLostWakeup
  <2>1. \A S : OutboxProofs!Cardinality(S) = Outbox!Cardinality(S)
    BY DEF OutboxProofs!Cardinality, Outbox!Cardinality
  <2> QED BY <2>1 DEF OutboxProofs!NoLostWakeup, Outbox!NoLostWakeup, OutboxProofs!NotEmpty, Outbox!NotEmpty,
                  OutboxProofs!NotFull, Outbox!NotFull, OutboxProofs!AwakePoppers, Outbox!AwakePoppers,
                  OutboxProofs!AwakePushers, Outbox!AwakePushers, OutboxProofs!Threads, Outbox!Threads
<1> QED BY <1>1, <1>2, <1>3, <1>4, InboxIsInInboxProofs, OutboxIsInOutboxProofs,
           QueuesAreMessageQueues, PTL

(* What the scripts at the two ends see is two bounded channels.           *)
THEOREM QueuesAreChannels == Spec => InboxProofs!Channel!Spec /\ OutboxProofs!Channel!Spec
<1>1. InboxProofs!Spec => InboxProofs!Channel!Spec
  BY InboxProofsApply, InboxProofs!QueueImplementsChannel
<1>2. OutboxProofs!Spec => OutboxProofs!Channel!Spec
  BY OutboxProofsApply, OutboxProofs!QueueImplementsChannel
<1> QED BY <1>1, <1>2, InboxIsInInboxProofs, OutboxIsInOutboxProofs, QueuesAreMessageQueues, PTL
=============================================================================
