------------------------------ MODULE Workers -------------------------------
(***************************************************************************)
(* One worker of babet.workers (src/lua_bindings/workers.cpp): the parent  *)
(* thread that holds the Worker userdata and calls its methods, the        *)
(* pthread that runs the worker's script, and the two message queues       *)
(* between them (inbox: parent to worker; outbox: worker to parent).       *)
(*                                                                         *)
(* The parent's script and the worker's script are arbitrary: each may     *)
(* call any method it has, with any timeout of Timeouts, in any order.  A  *)
(* thread inside a queue operation does nothing else.  The userdata may be *)
(* collected whenever the parent is outside its methods.                   *)
(***************************************************************************)
EXTENDS Integers, Sequences, FiniteSets

CONSTANTS
    Msgs,           \* serialised messages
    InCapacity,     \* opts.inbox_capacity
    OutCapacity,    \* opts.outbox_capacity
    Timeouts,       \* timeout arguments in microseconds; Forever for nil
    InitMayFail     \* whether pthread_mutex_init / pthread_cond_init can fail

Forever == -1

ASSUME CapacitiesAssumption == InCapacity \in Nat \ {0} /\ OutCapacity \in Nat \ {0}
ASSUME TimeoutsAssumption == Timeouts \subseteq Nat \cup {Forever}
ASSUME InitMayFailAssumption == InitMayFail \in BOOLEAN

VARIABLES
    inQ, inClosed, inPc, inReq, inRet,       \* Worker::inbox
    outQ, outClosed, outPc, outReq, outRet,  \* Worker::outbox
    handle,     \* the userdata: "none", "live", "garbage" (spawn failed), "collected"
    inInit,     \* inbox.initialized
    outInit,    \* outbox.initialized
    tidValid,   \* Worker::tid_valid
    joins,      \* how many times pthread_join returned for this thread
    joined,     \* Worker::joined
    status,     \* Worker::status
    stored,     \* what the thread wrote: "none", "result" (result_json), "error" (err_msg)
    answer,     \* what join() or poll() last returned: <<state, value>>
    parent,     \* where the parent thread is when it is in no queue operation
    wpc,        \* the next step of the worker thread
    path        \* the way the worker thread ends: "none", "early", "error", "done"

inVars == <<inQ, inClosed, inPc, inReq, inRet>>
outVars == <<outQ, outClosed, outPc, outReq, outRet>>
handleVars == <<handle, inInit, outInit, tidValid, joins, joined, answer, parent>>
threadVars == <<status, stored, wpc, path>>
vars == <<inVars, outVars, handleVars, threadVars>>

Inbox == INSTANCE MessageQueue
           WITH Producers <- {"parent"}, Consumers <- {"worker"},
                Capacity <- InCapacity,
                q <- inQ, closed <- inClosed, pc <- inPc, req <- inReq, ret <- inRet
Outbox == INSTANCE MessageQueue
            WITH Producers <- {"worker"}, Consumers <- {"parent"},
                 Capacity <- OutCapacity,
                 q <- outQ, closed <- outClosed, pc <- outPc, req <- outReq, ret <- outRet

Actors == {"parent", "worker"}

-----------------------------------------------------------------------------
(* parse_timeout_arg: floor to milliseconds, at most a day; what push and  *)
(* pop then do depends only on the sign.                                   *)
DayMs == 24 * 3600 * 1000
TimeoutMs(us) ==
    IF us = Forever THEN -1
    ELSE IF us \div 1000 > DayMs THEN DayMs ELSE us \div 1000
Mode(us) ==
    CASE TimeoutMs(us) < 0 -> "block"
      [] TimeoutMs(us) = 0 -> "try"
      [] TimeoutMs(us) > 0 -> "timed"

MutantForgetsResult ==
    [script |-> "publish", publish |-> "closeIn", closeIn |-> "closeOut",
     closeOut |-> "luaClose", luaClose |-> "exited"]
MutantKeepsOutboxOpen ==
    [script |-> "store", store |-> "publish", publish |-> "closeIn", closeIn |-> "luaClose",
     luaClose |-> "exited"]

(* The tail of worker_thread_main: what comes after each step that another *)
(* thread can observe.  A failure publishes its status first; success last.*)
DonePath ==
    [script |-> "store", store |-> "closeIn", closeIn |-> "closeOut", closeOut |-> "luaClose",
     luaClose |-> "publish", publish |-> "exited"]
ErrorPath ==
    [script |-> "store", store |-> "publish", publish |-> "closeIn", closeIn |-> "closeOut",
     closeOut |-> "luaClose", luaClose |-> "exited"]
EarlyPath ==
    [script |-> "store", store |-> "publish", publish |-> "closeIn", closeIn |-> "closeOut",
     closeOut |-> "exited"]

PathOf(p) ==
    CASE p = "done" -> DonePath [] p = "error" -> ErrorPath [] p = "early" -> EarlyPath

(* The parent runs Lua code: it can call a method of the handle.           *)
ParentFree ==
    parent = "free" /\ inPc["parent"] = "idle" /\ outPc["parent"] = "idle"

(* The worker runs Lua code: its script, or the finalizers lua_close calls. *)
WorkerFree ==
    wpc \in {"running", "luaClose"} /\ inPc["worker"] = "idle" /\ outPc["worker"] = "idle"

-----------------------------------------------------------------------------
Init ==
    /\ Inbox!Init /\ Outbox!Init
    /\ handle = "none" /\ inInit = FALSE /\ outInit = FALSE
    /\ tidValid = FALSE /\ joins = 0 /\ joined = FALSE
    /\ answer = <<"none", "none">>
    /\ parent = "free"
    /\ status = "running" /\ stored = "none" /\ wpc = "none" /\ path = "none"

(* workers.spawn.  The arguments are checked and serialised before the     *)
(* userdata exists, so those failures leave nothing behind.                *)
Spawn ==
    /\ handle = "none"
    /\ handle' = "live" /\ inInit' = TRUE /\ outInit' = TRUE
    /\ tidValid' = TRUE
    /\ wpc' = "starting"
    /\ UNCHANGED <<inVars, outVars, joins, joined, answer, parent, status, stored, path>>

(* pthread_create fails: the userdata is popped, __gc will find it.        *)
SpawnCreateFails ==
    /\ handle = "none"
    /\ handle' = "garbage" /\ inInit' = TRUE /\ outInit' = TRUE
    /\ UNCHANGED <<inVars, outVars, tidValid, joins, joined, answer, parent, threadVars>>

(* inbox.init() or outbox.init() fails: same exit, but the queue that      *)
(* failed, and the outbox after a failed inbox, have no mutex.             *)
SpawnInitFails ==
    /\ InitMayFail
    /\ handle = "none"
    /\ handle' = "garbage" /\ inInit' \in BOOLEAN /\ outInit' = FALSE
    /\ UNCHANGED <<inVars, outVars, tidValid, joins, joined, answer, parent, threadVars>>

-----------------------------------------------------------------------------
(* The methods of the handle.                                              *)

ParentSend(m, us) ==
    /\ handle = "live" /\ ParentFree
    /\ Inbox!Push("parent", m, Mode(us))
    /\ UNCHANGED <<outVars, handleVars, threadVars>>

ParentRecv(us) ==
    /\ handle = "live" /\ ParentFree
    /\ Outbox!Pop("parent", Mode(us))
    /\ UNCHANGED <<inVars, handleVars, threadVars>>

MutantParentCloseBoth ==
    /\ handle = "live" /\ ParentFree
    /\ Inbox!Close("parent") /\ Outbox!Close("parent")
    /\ UNCHANGED <<handleVars, threadVars>>

(* w:close() closes the inbox only; the outbox can still be drained.       *)
ParentClose ==
    /\ handle = "live" /\ ParentFree
    /\ Inbox!Close("parent")
    /\ UNCHANGED <<outVars, handleVars, threadVars>>

(* w:join() and w:poll(): answer at once when the result was consumed or,  *)
(* for poll, while the status is still "running"; else pthread_join.       *)
CallJoin ==
    /\ handle = "live" /\ ParentFree
    /\ IF joined THEN parent' = parent /\ answer' = <<"error", "consumed">>
                 ELSE parent' = "join" /\ answer' = answer
    /\ UNCHANGED <<inVars, outVars, handle, inInit, outInit, tidValid, joins, joined, threadVars>>

CallPoll ==
    /\ handle = "live" /\ ParentFree
    /\ \/ joined /\ parent' = parent /\ answer' = <<"error", "consumed">>
       \/ ~joined /\ status = "running" /\ parent' = parent /\ answer' = <<"running", "none">>
       \/ ~joined /\ status # "running" /\ parent' = "poll" /\ answer' = answer
    /\ UNCHANGED <<inVars, outVars, handle, inInit, outInit, tidValid, joins, joined, threadVars>>

(* pthread_join(w->tid), if there is a thread left to join.                *)
PthreadJoin ==
    /\ tidValid => wpc = "exited"
    /\ joins' = joins + (IF tidValid THEN 1 ELSE 0)
    /\ tidValid' = FALSE

MutantJoinKeepsTid ==
    /\ parent \in {"join", "poll"}
    /\ tidValid => wpc = "exited"
    /\ joins' = joins + (IF tidValid THEN 1 ELSE 0)
    /\ joined' = TRUE
    /\ answer' = <<status, stored>>
    /\ parent' = "free"
    /\ UNCHANGED <<inVars, outVars, handle, inInit, outInit, tidValid, threadVars>>

(* The rest of join() and poll(): the status decides which string is read. *)
FinishJoin ==
    /\ parent \in {"join", "poll"}
    /\ PthreadJoin
    /\ joined' = TRUE
    /\ answer' = <<status, stored>>
    /\ parent' = "free"
    /\ UNCHANGED <<inVars, outVars, handle, inInit, outInit, threadVars>>

-----------------------------------------------------------------------------
(* __gc of the userdata (worker_gc).                                       *)

StartGc ==
    /\ handle \in {"live", "garbage"} /\ ParentFree
    /\ parent' = "gcCloseIn"
    /\ UNCHANGED <<inVars, outVars, handle, inInit, outInit, tidValid, joins, joined,
                   answer, threadVars>>

(* close() locks the mutex without looking at "initialized".  On a mutex   *)
(* that was never initialised the build may return, hang or crash.         *)
GcCloseIn ==
    /\ parent = "gcCloseIn"
    /\ \/ Inbox!Close("parent") /\ parent' = "gcCloseOut"
       \/ ~inInit /\ parent' = "undefined" /\ UNCHANGED inVars
    /\ UNCHANGED <<outVars, handle, inInit, outInit, tidValid, joins, joined, answer, threadVars>>

MutantGcForgetsOutbox ==
    /\ parent = "gcCloseOut"
    /\ parent' = "gcJoin"
    /\ UNCHANGED <<inVars, outVars, handle, inInit, outInit, tidValid, joins, joined, answer,
                   threadVars>>

GcCloseOut ==
    /\ parent = "gcCloseOut"
    /\ \/ Outbox!Close("parent") /\ parent' = "gcJoin"
       \/ ~outInit /\ parent' = "undefined" /\ UNCHANGED outVars
    /\ UNCHANGED <<inVars, handle, inInit, outInit, tidValid, joins, joined, answer, threadVars>>

MutantGcSkipsJoin ==
    /\ parent = "gcJoin"
    /\ joins' = joins /\ tidValid' = FALSE
    /\ parent' = "gcDestroy"
    /\ UNCHANGED <<inVars, outVars, handle, inInit, outInit, joined, answer, threadVars>>

GcJoin ==
    /\ parent = "gcJoin"
    /\ PthreadJoin
    /\ parent' = "gcDestroy"
    /\ UNCHANGED <<inVars, outVars, handle, inInit, outInit, joined, answer, threadVars>>

(* destroy() both queues (a no-op on one never initialised), ~Worker().    *)
GcDestroy ==
    /\ parent = "gcDestroy"
    /\ inInit' = FALSE /\ outInit' = FALSE
    /\ handle' = "collected"
    /\ parent' = "free"
    /\ UNCHANGED <<inVars, outVars, tidValid, joins, joined, answer, threadVars>>

-----------------------------------------------------------------------------
(* The worker thread (worker_thread_main).                                 *)

(* The lua_State is ready: libraries, searchers, worker.args, send, recv.  *)
WorkerStarts ==
    /\ wpc = "starting"
    /\ wpc' = "running"
    /\ UNCHANGED <<inVars, outVars, handleVars, status, stored, path>>

WorkerEndsOn(p) ==
    /\ path' = p
    /\ wpc' = PathOf(p).script
    /\ UNCHANGED <<inVars, outVars, handleVars, status, stored>>

(* luaL_newstate fails ("early"), or args_json does not parse.             *)
WorkerStartFails == wpc = "starting" /\ \E p \in {"early", "error"} : WorkerEndsOn(p)

(* The script does not load, raises, returns a value that cannot be        *)
(* transferred ("error"), or returns one that can ("done").                *)
ScriptEnds ==
    /\ wpc = "running" /\ WorkerFree
    /\ \E p \in {"error", "done"} : WorkerEndsOn(p)

WorkerSend(m, us) ==
    /\ WorkerFree
    /\ Outbox!Push("worker", m, Mode(us))
    /\ UNCHANGED <<inVars, handleVars, threadVars>>

WorkerRecv(us) ==
    /\ WorkerFree
    /\ Inbox!Pop("worker", Mode(us))
    /\ UNCHANGED <<outVars, handleVars, threadVars>>

Advance == wpc' = PathOf(path)[wpc] /\ UNCHANGED <<handleVars, path>>

StoreOutcome ==
    /\ wpc = "store"
    /\ stored' = IF path = "done" THEN "result" ELSE "error"
    /\ Advance
    /\ UNCHANGED <<inVars, outVars, status>>

PublishStatus ==
    /\ wpc = "publish"
    /\ status' = IF path = "done" THEN "done" ELSE "error"
    /\ Advance
    /\ UNCHANGED <<inVars, outVars, stored>>

WorkerCloseIn ==
    /\ wpc = "closeIn"
    /\ Inbox!Close("worker")
    /\ Advance
    /\ UNCHANGED <<outVars, status, stored>>

WorkerCloseOut ==
    /\ wpc = "closeOut"
    /\ Outbox!Close("worker")
    /\ Advance
    /\ UNCHANGED <<inVars, status, stored>>

(* lua_close returns once the finalizers it runs are over.                 *)
LuaClose ==
    /\ wpc = "luaClose" /\ WorkerFree
    /\ Advance
    /\ UNCHANGED <<inVars, outVars, status, stored>>

-----------------------------------------------------------------------------
(* What goes on inside the queues while a thread is in push or pop.        *)
QueueStep(t) ==
    \/ /\ Inbox!Resume(t) \/ Inbox!SpuriousWakeup(t) \/ Inbox!Expire(t)
       /\ UNCHANGED <<outVars, handleVars, threadVars>>
    \/ /\ Outbox!Resume(t) \/ Outbox!SpuriousWakeup(t) \/ Outbox!Expire(t)
       /\ UNCHANGED <<inVars, handleVars, threadVars>>

(* The parent's program goes on without the worker, or is in a hang or     *)
(* crash of GcCloseIn / GcCloseOut.                                        *)
Gone == (handle = "collected" \/ parent = "undefined") /\ UNCHANGED vars

Gc == StartGc \/ GcCloseIn \/ GcCloseOut \/ GcJoin \/ GcDestroy
Epilogue == StoreOutcome \/ PublishStatus \/ WorkerCloseIn \/ WorkerCloseOut \/ LuaClose

Next ==
    \/ Spawn \/ SpawnCreateFails \/ SpawnInitFails
    \/ \E us \in Timeouts :
          \/ \E m \in Msgs : ParentSend(m, us) \/ WorkerSend(m, us)
          \/ ParentRecv(us) \/ WorkerRecv(us)
    \/ ParentClose \/ CallJoin \/ CallPoll \/ FinishJoin
    \/ Gc
    \/ WorkerStarts \/ WorkerStartFails \/ ScriptEnds \/ Epilogue
    \/ \E t \in Actors : QueueStep(t)
    \/ Gone

Spec == Init /\ [][Next]_vars

(* Threads are scheduled; a collection that began goes on; the queues are  *)
(* as fair as in MessageQueue; and the worker's script, when the queues    *)
(* let it run, ends some day (babet cannot stop one that does not).        *)
Fairness ==
    /\ \A t \in Actors :
          /\ WF_vars(\/ Inbox!Resume(t) /\ UNCHANGED <<outVars, handleVars, threadVars>>
                     \/ Outbox!Resume(t) /\ UNCHANGED <<inVars, handleVars, threadVars>>)
          /\ SF_vars(\/ Inbox!Expire(t) /\ UNCHANGED <<outVars, handleVars, threadVars>>
                     \/ Outbox!Expire(t) /\ UNCHANGED <<inVars, handleVars, threadVars>>)
    /\ WF_vars(GcCloseIn \/ GcCloseOut \/ GcJoin \/ GcDestroy \/ FinishJoin)
    /\ WF_vars(\/ WorkerStarts \/ WorkerStartFails
               \/ StoreOutcome \/ PublishStatus \/ WorkerCloseIn \/ WorkerCloseOut)
    /\ SF_vars(ScriptEnds \/ LuaClose)

FairSpec == Spec /\ Fairness

-----------------------------------------------------------------------------
ThreadCreated == wpc # "none"

(* The script is over and can send nothing more.                           *)
ScriptOver == path # "none"

InGc == parent \in {"gcCloseIn", "gcCloseOut", "gcJoin", "gcDestroy"}

(* Types.                                                                  *)
TypeOK ==
    /\ Inbox!TypeOK /\ Outbox!TypeOK
    /\ handle \in {"none", "live", "garbage", "collected"}
    /\ inInit \in BOOLEAN /\ outInit \in BOOLEAN /\ tidValid \in BOOLEAN /\ joined \in BOOLEAN
    /\ joins \in Nat
    /\ parent \in {"free", "join", "poll", "gcCloseIn", "gcCloseOut", "gcJoin", "gcDestroy",
                   "undefined"}
    /\ wpc \in {"none", "starting", "running", "store", "publish", "closeIn", "closeOut",
                "luaClose", "exited"}
    /\ path \in {"none", "early", "error", "done"}
    /\ status \in {"running", "done", "error"}
    /\ stored \in {"none", "result", "error"}
    /\ answer \in {"none", "running", "done", "error"}
                    \X {"none", "result", "error", "consumed"}

(* Whatever mix of join, poll and collection the program makes, the thread *)
(* is joined exactly once before the userdata is freed, and never twice    *)
(* (a second pthread_join would be undefined, none a leaked thread).       *)
JoinedExactlyOnce ==
    /\ joins <= 1
    /\ handle = "collected" => joins = (IF ThreadCreated THEN 1 ELSE 0)

(* The queues and strings of the userdata are destroyed only when the      *)
(* thread that uses them, and every call on the queues, is over.           *)
FreedAfterUse ==
    handle = "collected" =>
        /\ wpc \in {"none", "exited"}
        /\ \A t \in Actors : inPc[t] = "idle" /\ outPc[t] = "idle"

(* join() and poll() report how the script really ended, with the value    *)
(* written for it: the status never gets ahead of the string it announces. *)
AnswerIsTruthful ==
    /\ answer[1] = "done" => answer[2] = "result" /\ path = "done"
    /\ answer[1] = "error" => answer[2] \in {"error", "consumed"}
    /\ answer = <<"error", "error">> => path \in {"early", "error"}

(* When recv() has answered "closed" the script is over and nothing it     *)
(* sent is left behind: the parent drained the outbox.  (w:close() closes  *)
(* the inbox only; pop drains before it says "closed".)                    *)
ClosedIsFinal ==
    outRet["parent"] = Outbox!Refused("closed") => ScriptOver /\ outQ = << >>

(* Nobody sleeps in a queue of a worker that exited.                       *)
ExitReleasesParent ==
    wpc = "exited" => inPc["parent"] # "parked" /\ outPc["parent"] # "parked"

(* A collection that began ends, if spawn created the queues: closing both *)
(* first frees a worker asleep in send or recv, so that pthread_join       *)
(* returns.                                                                *)
GcTerminates == (InGc /\ inInit /\ outInit) ~> handle = "collected"

(* The only thing that can keep join() or poll() waiting forever is a      *)
(* worker asleep, without timeout, on a queue only the parent can move: a  *)
(* recv on an empty open inbox, or a send on a full outbox.                *)
JoinWaitsOnlyForQueues ==
    parent \in {"join", "poll"} ~>
        \/ parent \notin {"join", "poll"}
        \/ inPc["worker"] = "parked" /\ inReq["worker"].mode = "block"
           /\ inQ = << >> /\ ~inClosed
        \/ outPc["worker"] = "parked" /\ outReq["worker"].mode = "block"
           /\ Len(outQ) = OutCapacity

-----------------------------------------------------------------------------
(* Statements of the sources that the code does not keep.                  *)

(* worker_poll: "joining the thread (quick, it has already finished)".     *)
PollJoinsFinishedThread == parent = "poll" => wpc = "exited"

(* spawn: __gc frees a half-initialised queue without touching the         *)
(* primitives that were not created.                                       *)
GcLocksOnlyInitialisedQueues ==
    (parent = "gcCloseIn" => inInit) /\ (parent = "gcCloseOut" => outInit)
=============================================================================
