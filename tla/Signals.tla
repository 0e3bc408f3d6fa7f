------------------------------ MODULE Signals -------------------------------
(***************************************************************************)
(* babet.signal (src/lua_bindings/signal.cpp) as the main thread of a      *)
(* program uses it, with sleep (src/lua_bindings/sleep.cpp) standing for   *)
(* the blocking functions that return "interrupted".                       *)
(*                                                                         *)
(* The C handler only raises a flag.  The flags are read, and the Lua      *)
(* callbacks run, by signal_dispatch_pending, called from two places: the  *)
(* count hook of the coroutine that runs, and a blocking function that     *)
(* came back with EINTR.  A callback is Lua code: it may register          *)
(* handlers, sleep, or be preempted by the hook.                           *)
(*                                                                         *)
(* "stack" holds the calls of signal_dispatch_pending in progress, the     *)
(* innermost last.  Lua code runs when no blocking call is in progress and *)
(* the innermost dispatch, if any, is inside a callback.                   *)
(***************************************************************************)
EXTENDS Naturals, Sequences, FiniteSets

CONSTANTS
    SignalTable,  \* SUPPORTED_SIGNALS: the signals, in the order of the table
    Callbacks,    \* Lua functions
    Coroutines,   \* the coroutines of the main lua_State
    Main,         \* the main one
    MaxDepth      \* bound on nested dispatches (the C stack bounds them too)

ASSUME MainAssumption == Main \in Coroutines
ASSUME MaxDepthAssumption == MaxDepth \in Nat \ {0}

VARIABLES
    alive,        \* FALSE once a signal of default disposition killed the process
    disposition,  \* what sigaction last said of each signal
    callback,     \* the callbacks table of the registry, NoCallback where empty
    pending,      \* g_pending
    unserved,     \* delivered since the last time its callback was called (ghost)
    hookInstalled,\* g_hook_installed
    hooked,       \* the coroutines that have the count hook
    created,      \* the coroutines that exist
    current,      \* the one that runs
    stack,        \* the dispatches in progress
    call,         \* the blocking call: "none", "entering", "blocked", "eintr"
    starting      \* a worker was created and has not run pthread_sigmask yet

lua == <<hookInstalled, hooked, created, current>>
kernel == <<alive, disposition, callback>>
flags == <<pending, unserved>>
vars == <<kernel, flags, lua, stack, call, starting>>

-----------------------------------------------------------------------------
Sigs == {SignalTable[i] : i \in DOMAIN SignalTable}
NoCallback == "nil"
None == "none"

ASSUME TableAssumption == SignalTable \in Seq(Sigs) /\ None \notin Sigs
ASSUME CallbacksAssumption == NoCallback \notin Callbacks

Top == stack[Len(stack)]

(* signal_dispatch_pending is between two callbacks.                       *)
InDispatch == stack # << >> /\ Top.sig = None

(* Lua code, of the script or of the innermost callback, is executing.     *)
LuaRuns == alive /\ call = "none" /\ ~InDispatch

(* Lua disables hooks while it runs one, for everything the hook calls.    *)
HooksAllowed == \A i \in DOMAIN stack : stack[i].via # "hook"

Init ==
    /\ alive = TRUE
    /\ disposition = [s \in Sigs |-> "default"]
    /\ callback = [s \in Sigs |-> NoCallback]
    /\ pending = [s \in Sigs |-> FALSE] /\ unserved = [s \in Sigs |-> FALSE]
    /\ hookInstalled = FALSE /\ hooked = {}
    /\ created = {Main} /\ current = Main
    /\ stack = << >> /\ call = "none" /\ starting = FALSE

-----------------------------------------------------------------------------
(* The script: babet.signal, coroutines, sleep.                            *)

(* ensure_hook_installed: once per process, on the calling coroutine.      *)
InstallHook ==
    /\ hookInstalled' = TRUE
    /\ hooked' = IF hookInstalled THEN hooked ELSE hooked \cup {current}

(* signal.handle(name, fn)                                                 *)
Handle(s, f) ==
    /\ LuaRuns
    /\ disposition' = [disposition EXCEPT ![s] = "handler"]
    /\ callback' = [callback EXCEPT ![s] = f]
    /\ InstallHook
    /\ UNCHANGED <<alive, flags, created, current, stack, call, starting>>

MutantUnhandleKeepsCallback(s, disp) ==
    /\ LuaRuns
    /\ disposition' = [disposition EXCEPT ![s] = disp]
    /\ UNCHANGED <<alive, callback, flags, lua, stack, call, starting>>

(* signal.handle(name, nil) and signal.default(name) restore the default,  *)
(* signal.ignore(name) ignores; all forget the callback, none the flag.    *)
Unhandle(s, disp) ==
    /\ LuaRuns
    /\ disposition' = [disposition EXCEPT ![s] = disp]
    /\ callback' = [callback EXCEPT ![s] = NoCallback]
    /\ UNCHANGED <<alive, flags, lua, stack, call, starting>>

(* A coroutine inherits the hook of the one that creates it.               *)
CreateCoroutine(c) ==
    /\ LuaRuns
    /\ c \notin created
    /\ created' = created \cup {c}
    /\ hooked' = IF current \in hooked THEN hooked \cup {c} ELSE hooked
    /\ UNCHANGED <<kernel, flags, hookInstalled, current, stack, call, starting>>

(* The script switches coroutine (callbacks are kept to one, for size).    *)
SwitchTo(c) ==
    /\ LuaRuns /\ stack = << >>
    /\ c \in created \ {current}
    /\ current' = c
    /\ UNCHANGED <<kernel, flags, hookInstalled, hooked, created, stack, call, starting>>

Sleep ==
    /\ LuaRuns /\ Len(stack) < MaxDepth
    /\ call' = "entering"
    /\ UNCHANGED <<kernel, flags, lua, stack, starting>>

SpawnWorker ==
    /\ LuaRuns
    /\ starting' = TRUE
    /\ UNCHANGED <<kernel, flags, lua, stack, call>>

(* worker_thread_main blocks the supported signals in its thread.          *)
WorkerMasks ==
    /\ starting /\ alive
    /\ starting' = FALSE
    /\ UNCHANGED <<kernel, flags, lua, stack, call>>

-----------------------------------------------------------------------------
(* The kernel delivers a signal, to the main thread or to a worker that    *)
(* did not mask it yet; only in the first case is a nanosleep interrupted. *)

Kill(s) ==
    /\ alive /\ disposition[s] = "default"
    /\ alive' = FALSE
    /\ UNCHANGED <<disposition, callback, flags, lua, stack, call, starting>>

(* babet_sig_handler *)
RaiseFlag(s) ==
    /\ alive /\ disposition[s] = "handler"
    /\ pending' = [pending EXCEPT ![s] = TRUE]
    /\ unserved' = [unserved EXCEPT ![s] = TRUE]
    /\ UNCHANGED <<kernel, lua, stack, starting>>

DeliverToMain(s) ==
    /\ RaiseFlag(s)
    /\ call' = IF call = "blocked" THEN "eintr" ELSE call

DeliverToWorker(s) ==
    /\ starting
    /\ RaiseFlag(s)
    /\ UNCHANGED call

(* Some other library's handler ran: EINTR without any flag of ours.       *)
OtherSignal ==
    /\ alive /\ call = "blocked"
    /\ call' = "eintr"
    /\ UNCHANGED <<kernel, flags, lua, stack, starting>>

-----------------------------------------------------------------------------
(* sleep: a loop of nanosleep.                                             *)

EnterNanosleep ==
    /\ alive /\ call = "entering"
    /\ call' = "blocked"
    /\ UNCHANGED <<kernel, flags, lua, stack, starting>>

SleepElapses ==
    /\ alive /\ call = "blocked"
    /\ call' = "none"
    /\ UNCHANGED <<kernel, flags, lua, stack, starting>>

StartDispatch(via) ==
    stack' = Append(stack, [via |-> via, i |-> 1, sig |-> None])

(* EINTR: dispatch, then return (nil, "interrupted"), if a flag is up      *)
(* (signal_any_handled_pending); call nanosleep again if not.              *)
AfterEintr ==
    /\ alive /\ call = "eintr"
    /\ IF \E s \in Sigs : pending[s]
       THEN StartDispatch("sleep") /\ call' = "none"
       ELSE call' = "entering" /\ UNCHANGED stack
    /\ UNCHANGED <<kernel, flags, lua, starting>>

(* The count hook of the running coroutine.                                *)
HookFires ==
    /\ LuaRuns /\ HooksAllowed /\ Len(stack) < MaxDepth
    /\ current \in hooked
    /\ StartDispatch("hook")
    /\ UNCHANGED <<kernel, flags, lua, call, starting>>

-----------------------------------------------------------------------------
(* signal_dispatch_pending: one pass over the table.                       *)

Scanning == alive /\ call = "none" /\ InDispatch

SetTop(i, sig) == stack' = [stack EXCEPT ![Len(stack)].i = i, ![Len(stack)].sig = sig]

MutantScanKeepsFlag ==
    /\ Scanning /\ Top.i \in DOMAIN SignalTable
    /\ LET s == SignalTable[Top.i] IN
         IF ~pending[s] THEN SetTop(Top.i + 1, None) /\ UNCHANGED flags
         ELSE /\ unserved' = [unserved EXCEPT ![s] = FALSE]
              /\ IF callback[s] = NoCallback THEN SetTop(Top.i + 1, None) ELSE SetTop(Top.i, s)
              /\ UNCHANGED pending
    /\ UNCHANGED <<kernel, lua, call, starting>>

(* The flag is cleared before the callback is called, so that a signal     *)
(* that arrives during the callback is seen by a later pass.               *)
Scan ==
    /\ Scanning /\ Top.i \in DOMAIN SignalTable
    /\ LET s == SignalTable[Top.i] IN
         IF ~pending[s] THEN SetTop(Top.i + 1, None) /\ UNCHANGED flags
         ELSE /\ pending' = [pending EXCEPT ![s] = FALSE]
              /\ unserved' = [unserved EXCEPT ![s] = FALSE]
              /\ IF callback[s] = NoCallback THEN SetTop(Top.i + 1, None) ELSE SetTop(Top.i, s)
    /\ UNCHANGED <<kernel, lua, call, starting>>

MutantReturnClearsFlag ==
    /\ LuaRuns /\ stack # << >>
    /\ SetTop(Top.i + 1, None)
    /\ pending' = [pending EXCEPT ![Top.sig] = FALSE]
    /\ UNCHANGED <<kernel, unserved, lua, call, starting>>

(* The callback returns, or raises: lua_pcall swallows the error.          *)
CallbackReturns ==
    /\ LuaRuns /\ stack # << >>
    /\ SetTop(Top.i + 1, None)
    /\ UNCHANGED <<kernel, flags, lua, call, starting>>

EndDispatch ==
    /\ Scanning /\ Top.i \notin DOMAIN SignalTable
    /\ stack' = SubSeq(stack, 1, Len(stack) - 1)
    /\ UNCHANGED <<kernel, flags, lua, call, starting>>

-----------------------------------------------------------------------------
Dead == ~alive /\ UNCHANGED vars

Next ==
    \/ \E s \in Sigs :
          \/ \E f \in Callbacks : Handle(s, f)
          \/ \E disp \in {"default", "ignore"} : Unhandle(s, disp)
          \/ Kill(s) \/ DeliverToMain(s) \/ DeliverToWorker(s)
    \/ \E c \in Coroutines : CreateCoroutine(c) \/ SwitchTo(c)
    \/ Sleep \/ SpawnWorker \/ WorkerMasks
    \/ OtherSignal \/ EnterNanosleep \/ SleepElapses \/ AfterEintr
    \/ HookFires \/ Scan \/ CallbackReturns \/ EndDispatch
    \/ Dead

Spec == Init /\ [][Next]_vars

(* The thread is scheduled and sleeps are finite.  The hook counts         *)
(* instructions across calls, so it fires for a script that keeps running  *)
(* Lua code between its blocking calls.  Callbacks return in the end.      *)
Fairness ==
    /\ WF_vars(EnterNanosleep \/ AfterEintr \/ Scan \/ EndDispatch)
    /\ SF_vars(SleepElapses)
    /\ SF_vars(HookFires)
    /\ SF_vars(CallbackReturns)

FairSpec == Spec /\ Fairness

-----------------------------------------------------------------------------
(* Types.                                                                  *)
TypeOK ==
    /\ alive \in BOOLEAN /\ hookInstalled \in BOOLEAN /\ starting \in BOOLEAN
    /\ disposition \in [Sigs -> {"default", "ignore", "handler"}]
    /\ callback \in [Sigs -> Callbacks \cup {NoCallback}]
    /\ pending \in [Sigs -> BOOLEAN] /\ unserved \in [Sigs -> BOOLEAN]
    /\ hooked \subseteq created /\ created \subseteq Coroutines /\ current \in created
    /\ stack \in Seq([via : {"hook", "sleep"}, i : 1 .. Len(SignalTable) + 1,
                      sig : Sigs \cup {None}])
    /\ Len(stack) <= MaxDepth
    /\ call \in {"none", "entering", "blocked", "eintr"}

CallbackStarts(s) == Scan /\ stack'[Len(stack)].sig = s

(* A signal that is now ignored or at its default never reaches a          *)
(* callback, although its flag may still be up from before.                *)
OnlyHandledSignalsCallBack ==
    [][\A s \in Sigs : CallbackStarts(s) => disposition[s] = "handler"]_vars

(* Every delivery is followed by a dispatch of that signal: none is lost,  *)
(* not even one that arrives while its own callback runs or just before a  *)
(* sleep.  The script must keep coming back to a coroutine that has the    *)
(* hook: on the others nothing but sleep dispatches.                       *)
DeliveredIsDispatched ==
    ([]<>(current \in hooked)) =>
        \A s \in Sigs : (alive /\ unserved[s]) ~> (~alive \/ ~unserved[s])

(* A callback starts only for a signal that was delivered after its        *)
(* previous one started: no delivery is served twice, although a flag can  *)
(* be scanned by several dispatches at once.                               *)
ServedOnce ==
    [][\A s \in Sigs : CallbackStarts(s) => unserved[s]]_vars

-----------------------------------------------------------------------------
(* Statements of the sources that the code does not keep.                  *)

(* docs/en/modules/signal.md: no re-entrance, a signal that arrives while  *)
(* a callback runs is dispatched after it.                                 *)
NoReentrance ==
    Cardinality({i \in DOMAIN stack : stack[i].sig # None}) <= 1

(* signal.md: a blocking call returns "interrupted" on a handled signal,   *)
(* so it never sleeps on with one pending.                                 *)
NoSleepOnPending ==
    call = "blocked" => \A s \in Sigs : ~(pending[s] /\ disposition[s] = "handler")

=============================================================================
