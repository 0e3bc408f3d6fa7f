--------------------------- MODULE SignalsProofs ----------------------------
(***************************************************************************)
(* Proofs about Signals, for any table of signals, any callbacks and       *)
(* coroutines, and any depth of dispatches inside one another.             *)
(***************************************************************************)
EXTENDS Signals, TLAPS

Frames == [via : {"hook", "sleep"}, i : 1..Len(SignalTable) + 1, sig : Sigs \cup {None}]

(* A dispatch that runs a callback stands on an entry of the table.        *)
StackInv ==
    /\ stack \in Seq(Frames)
    /\ \A k \in DOMAIN stack : stack[k].sig # None => stack[k].i <= Len(SignalTable)

(* The table of callbacks in the registry and the dispositions of the      *)
(* process say the same.                                                   *)
HandledInv ==
    /\ disposition \in [Sigs -> {"default", "ignore", "handler"}]
    /\ callback \in [Sigs -> Callbacks \cup {NoCallback}]
    /\ \A s \in Sigs : callback[s] # NoCallback <=> disposition[s] = "handler"

(* A flag is up exactly while a delivery is unserved.                      *)
FlagsInv ==
    /\ pending \in [Sigs -> BOOLEAN] /\ unserved \in [Sigs -> BOOLEAN]
    /\ \A s \in Sigs : pending[s] <=> unserved[s]

RestInv ==
    /\ alive \in BOOLEAN /\ hookInstalled \in BOOLEAN /\ starting \in BOOLEAN
    /\ hooked \subseteq created /\ created \subseteq Coroutines /\ current \in created
    /\ call \in {"none", "entering", "blocked", "eintr"}

DepthInv == Len(stack) <= MaxDepth /\ (call # "none" => Len(stack) < MaxDepth)

GInv == StackInv /\ HandledInv /\ FlagsInv /\ RestInv /\ DepthInv

-----------------------------------------------------------------------------
(* The stack of dispatches.                                                *)

LEMMA TableFacts == Len(SignalTable) \in Nat /\ DOMAIN SignalTable = 1..Len(SignalTable)
                    /\ \A i \in 1..Len(SignalTable) : SignalTable[i] \in Sigs
BY TableAssumption

LEMMA StackFacts ==
    ASSUME StackInv
    PROVE  /\ Len(stack) \in Nat /\ DOMAIN stack = 1..Len(stack)
           /\ stack # << >> => /\ Len(stack) \in 1..Len(stack) /\ Top \in Frames
                               /\ Top.sig # None => Top.i <= Len(SignalTable)
<1>1. Len(stack) \in Nat /\ DOMAIN stack = 1..Len(stack)
  BY DEF StackInv
<1>2. stack # << >> => Len(stack) \in 1..Len(stack)
  BY <1>1 DEF StackInv
<1>3. stack # << >> => Top \in Frames
  BY <1>1, <1>2 DEF StackInv, Top
<1> QED BY <1>1, <1>2, <1>3 DEF StackInv, Top

LEMMA SetTopKeeps ==
    ASSUME StackInv, stack # << >>, NEW i \in 1..Len(SignalTable) + 1, NEW sig \in Sigs \cup {None},
           sig # None => i <= Len(SignalTable), SetTop(i, sig)
    PROVE  /\ StackInv' /\ Len(stack') = Len(stack) /\ stack'[Len(stack)].sig = sig
<1> DEFINE n == Len(stack)
           frame == [stack[n] EXCEPT !.i = i, !.sig = sig]
<1>1. n \in 1..n /\ n \in Nat /\ DOMAIN stack = 1..n /\ stack[n] \in Frames
  BY StackFacts DEF Top
<1>2. frame \in Frames /\ frame.sig = sig /\ frame.i = i
  BY <1>1 DEF Frames
<1>3. stack' = [stack EXCEPT ![n] = frame]
  BY <1>1 DEF SetTop, StackInv
<1> HIDE DEF frame
<1>4. stack' \in Seq(Frames) /\ Len(stack') = n
  BY <1>1, <1>2, <1>3 DEF StackInv
<1>5. \A k \in 1..n : stack'[k] = IF k = n THEN frame ELSE stack[k]
  BY <1>1, <1>3 DEF StackInv
<1>6. DOMAIN stack' = 1..n
  BY <1>4
<1>7. \A k \in DOMAIN stack' : stack'[k].sig # None => stack'[k].i <= Len(SignalTable)
  BY <1>1, <1>2, <1>5, <1>6 DEF StackInv
<1> QED BY <1>1, <1>2, <1>4, <1>5, <1>7 DEF StackInv

LEMMA PushKeeps ==
    ASSUME StackInv, NEW via \in {"hook", "sleep"}, StartDispatch(via)
    PROVE  StackInv' /\ Len(stack') = Len(stack) + 1
<1> DEFINE frame == [via |-> via, i |-> 1, sig |-> None]
<1>1. frame \in Frames /\ frame.sig = None
  BY TableFacts DEF Frames
<1>2. stack' = Append(stack, frame)
  BY DEF StartDispatch
<1> HIDE DEF frame
<1>3. stack' \in Seq(Frames) /\ Len(stack') = Len(stack) + 1
  BY <1>1, <1>2 DEF StackInv
<1>4. \A k \in 1..Len(stack) + 1 : stack'[k] = IF k = Len(stack) + 1 THEN frame ELSE stack[k]
  BY <1>2 DEF StackInv
<1> QED BY <1>1, <1>3, <1>4 DEF StackInv

LEMMA Prefix ==
    ASSUME NEW S, NEW seq \in Seq(S), NEW keep \in 0..Len(seq)
    PROVE  /\ SubSeq(seq, 1, keep) \in Seq(S) /\ Len(SubSeq(seq, 1, keep)) = keep
           /\ \A k \in 1..keep : SubSeq(seq, 1, keep)[k] = seq[k]
OBVIOUS

LEMMA PopKeeps ==
    ASSUME StackInv, stack # << >>, stack' = SubSeq(stack, 1, Len(stack) - 1)
    PROVE  StackInv' /\ Len(stack') = Len(stack) - 1
<1>1. Len(stack) \in 1..Len(stack) /\ Len(stack) \in Nat
  BY StackFacts
<1>2. Len(stack) - 1 \in 0..Len(stack)
  BY <1>1
<1>3. /\ stack' \in Seq(Frames) /\ Len(stack') = Len(stack) - 1
      /\ \A k \in 1..Len(stack) - 1 : stack'[k] = stack[k]
  BY <1>2, Prefix DEF StackInv
<1>4. DOMAIN stack' = 1..Len(stack) - 1 /\ DOMAIN stack = 1..Len(stack)
  BY <1>3 DEF StackInv
<1> QED BY <1>1, <1>3, <1>4 DEF StackInv

-----------------------------------------------------------------------------
(* The initial state and the steps.                                        *)

LEMMA InitHolds == Init => GInv
<1> SUFFICES ASSUME Init PROVE GInv
  OBVIOUS
<1>1. StackInv /\ DepthInv
  BY MaxDepthAssumption DEF Init, StackInv, DepthInv
<1>2. HandledInv /\ FlagsInv
  BY DEF Init, HandledInv, FlagsInv
<1>3. RestInv
  BY MainAssumption DEF Init, RestInv
<1> QED BY <1>1, <1>2, <1>3 DEF GInv

(* What Scan does to the flags and to the stack.                           *)
LEMMA ScanMoves ==
    ASSUME GInv, Scan
    PROVE  /\ stack # << >> /\ Top.i \in 1..Len(SignalTable)
           /\ LET s == SignalTable[Top.i] IN
                \/ ~pending[s] /\ SetTop(Top.i + 1, None) /\ UNCHANGED flags
                \/ /\ pending[s] /\ callback[s] = NoCallback /\ SetTop(Top.i + 1, None)
                   /\ pending' = [pending EXCEPT ![s] = FALSE]
                   /\ unserved' = [unserved EXCEPT ![s] = FALSE]
                \/ /\ pending[s] /\ callback[s] # NoCallback /\ SetTop(Top.i, s)
                   /\ pending' = [pending EXCEPT ![s] = FALSE]
                   /\ unserved' = [unserved EXCEPT ![s] = FALSE]
BY TableFacts DEF Scan, Scanning, InDispatch

LEMMA ScanKeeps == GInv /\ Scan => GInv' /\ Len(stack') = Len(stack)
<1> SUFFICES ASSUME GInv, Scan PROVE GInv' /\ Len(stack') = Len(stack)
  OBVIOUS
<1> DEFINE s == SignalTable[Top.i]
<1>1. stack # << >> /\ Top.i \in 1..Len(SignalTable) /\ s \in Sigs
  BY ScanMoves, TableFacts
<1>2. StackInv' /\ Len(stack') = Len(stack)
  <2>1. ASSUME SetTop(Top.i + 1, None) PROVE StackInv' /\ Len(stack') = Len(stack)
    <3>1. Top.i + 1 \in 1..Len(SignalTable) + 1
      BY <1>1, TableFacts
    <3> QED BY <1>1, <2>1, <3>1, SetTopKeeps DEF GInv
  <2>2. ASSUME SetTop(Top.i, s) PROVE StackInv' /\ Len(stack') = Len(stack)
    <3>1. Top.i \in 1..Len(SignalTable) + 1 /\ Top.i <= Len(SignalTable)
      BY <1>1, TableFacts
    <3> QED BY <1>1, <2>2, <3>1, SetTopKeeps DEF GInv
  <2> QED BY <2>1, <2>2, ScanMoves
<1>3. FlagsInv'
  <2>1. \/ pending' = pending /\ unserved' = unserved
        \/ pending' = [pending EXCEPT ![s] = FALSE] /\ unserved' = [unserved EXCEPT ![s] = FALSE]
    BY ScanMoves DEF flags
  <2> QED BY <1>1, <2>1 DEF GInv, FlagsInv
<1>4. HandledInv' /\ RestInv' /\ DepthInv'
  BY <1>2 DEF GInv, Scan, kernel, lua, HandledInv, RestInv, DepthInv
<1> QED BY <1>2, <1>3, <1>4 DEF GInv

LEMMA RaiseFlagKeeps ==
    ASSUME GInv, NEW s \in Sigs, RaiseFlag(s), call' \in {call, "eintr"}, call' # call => call = "blocked"
    PROVE  GInv'
<1>1. FlagsInv'
  BY DEF GInv, FlagsInv, RaiseFlag
<1>2. StackInv' /\ HandledInv' /\ RestInv' /\ DepthInv'
  BY DEF GInv, StackInv, HandledInv, RestInv, DepthInv, RaiseFlag, kernel, lua
<1> QED BY <1>1, <1>2 DEF GInv

LEMMA StepKeeps == GInv /\ [Next]_vars => GInv'
<1> SUFFICES ASSUME GInv, [Next]_vars PROVE GInv'
  OBVIOUS
<1>1. ASSUME NEW s \in Sigs, NEW f \in Callbacks, Handle(s, f) PROVE GInv'
  <2>1. HandledInv'
    BY <1>1, CallbacksAssumption DEF GInv, HandledInv, Handle
  <2>2. RestInv'
    BY <1>1 DEF GInv, RestInv, Handle, InstallHook
  <2>3. StackInv' /\ FlagsInv' /\ DepthInv'
    BY <1>1 DEF GInv, StackInv, FlagsInv, DepthInv, Handle, flags
  <2> QED BY <2>1, <2>2, <2>3 DEF GInv
<1>2. ASSUME NEW s \in Sigs, NEW disp \in {"default", "ignore"}, Unhandle(s, disp) PROVE GInv'
  <2>1. HandledInv'
    BY <1>2 DEF GInv, HandledInv, Unhandle
  <2>2. StackInv' /\ FlagsInv' /\ RestInv' /\ DepthInv'
    BY <1>2 DEF GInv, StackInv, FlagsInv, RestInv, DepthInv, Unhandle, flags, lua
  <2> QED BY <2>1, <2>2 DEF GInv
<1>3. ASSUME NEW s \in Sigs, DeliverToMain(s) PROVE GInv'
  BY <1>3, RaiseFlagKeeps DEF DeliverToMain
<1>4. ASSUME NEW s \in Sigs, DeliverToWorker(s) PROVE GInv'
  BY <1>4, RaiseFlagKeeps DEF DeliverToWorker
<1>5. CASE AfterEintr
  <2>1. CASE StartDispatch("sleep") /\ call' = "none"
    <3>1. StackInv' /\ Len(stack') = Len(stack) + 1
      BY <2>1, PushKeeps DEF GInv
    <3>2. DepthInv'
      BY <1>5, <2>1, <3>1, MaxDepthAssumption DEF GInv, StackInv, DepthInv, AfterEintr
    <3> QED BY <1>5, <2>1, <3>1, <3>2
            DEF GInv, HandledInv, FlagsInv, RestInv, AfterEintr, kernel, flags, lua
  <2>2. CASE call' = "entering" /\ UNCHANGED stack
    BY <1>5, <2>2 DEF GInv, StackInv, HandledInv, FlagsInv, RestInv, DepthInv, AfterEintr,
                      kernel, flags, lua
  <2> QED BY <1>5, <2>1, <2>2 DEF AfterEintr
<1>6. CASE HookFires
  <2>1. StackInv' /\ Len(stack') = Len(stack) + 1
    BY <1>6, PushKeeps DEF GInv, HookFires
  <2>2. DepthInv'
    BY <1>6, <2>1, MaxDepthAssumption DEF GInv, StackInv, DepthInv, HookFires, LuaRuns
  <2> QED BY <1>6, <2>1, <2>2 DEF GInv, HandledInv, FlagsInv, RestInv, HookFires, kernel, flags, lua
<1>7. CASE Scan
  BY <1>7, ScanKeeps
<1>8. CASE CallbackReturns
  <2>1. stack # << >> /\ Top.sig # None /\ SetTop(Top.i + 1, None)
        /\ UNCHANGED <<kernel, flags, lua, call, starting>>
    BY <1>8 DEF CallbackReturns, LuaRuns, InDispatch
  <2>2. Top.i + 1 \in 1..Len(SignalTable) + 1
    BY <2>1, StackFacts, TableFacts DEF GInv, Frames
  <2>3. StackInv' /\ Len(stack') = Len(stack)
    BY <2>1, <2>2, SetTopKeeps DEF GInv
  <2> QED BY <2>1, <2>3 DEF GInv, HandledInv, FlagsInv, RestInv, DepthInv, kernel, flags, lua
<1>9. CASE EndDispatch
  <2>1. stack # << >> /\ stack' = SubSeq(stack, 1, Len(stack) - 1)
        /\ UNCHANGED <<kernel, flags, lua, call, starting>>
    BY <1>9 DEF EndDispatch, Scanning, InDispatch
  <2>2. StackInv' /\ Len(stack') = Len(stack) - 1
    BY <2>1, PopKeeps DEF GInv
  <2>3. DepthInv'
    BY <2>1, <2>2, MaxDepthAssumption DEF GInv, StackInv, DepthInv
  <2> QED BY <2>1, <2>2, <2>3 DEF GInv, HandledInv, FlagsInv, RestInv, kernel, flags, lua
<1>10. ASSUME NEW c \in Coroutines, CreateCoroutine(c) \/ SwitchTo(c) PROVE GInv'
  <2>1. RestInv'
    BY <1>10 DEF GInv, RestInv, CreateCoroutine, SwitchTo, kernel
  <2> QED BY <1>10, <2>1 DEF GInv, StackInv, HandledInv, FlagsInv, DepthInv, CreateCoroutine,
                             SwitchTo, kernel, flags
<1>11. ASSUME NEW s \in Sigs, Kill(s) PROVE GInv'
  BY <1>11 DEF Kill, GInv, StackInv, HandledInv, FlagsInv, RestInv, DepthInv, flags, lua
<1>12. CASE Sleep \/ SpawnWorker \/ WorkerMasks \/ OtherSignal \/ EnterNanosleep \/ SleepElapses
  BY <1>12 DEF Sleep, SpawnWorker, WorkerMasks, OtherSignal, EnterNanosleep, SleepElapses,
               LuaRuns, GInv, StackInv, HandledInv, FlagsInv, RestInv, DepthInv, kernel, flags, lua
<1>13. CASE UNCHANGED vars
  BY <1>13 DEF vars, GInv, StackInv, HandledInv, FlagsInv, RestInv, DepthInv, kernel, flags, lua
<1> QED
  BY <1>1, <1>2, <1>3, <1>4, <1>5, <1>6, <1>7, <1>8, <1>9, <1>10, <1>11, <1>12, <1>13
     DEF Next, Dead

-----------------------------------------------------------------------------
(* The stack of dispatches stands on entries of SUPPORTED_SIGNALS, the     *)
(* callbacks agree with the dispositions, the flags with the deliveries.   *)
THEOREM InvariantHolds == Spec => []GInv
BY InitHolds, StepKeeps, PTL DEF Spec

(* Every variable of signal.cpp and sleep.cpp keeps its type.              *)
THEOREM TypeCorrect == Spec => []TypeOK
<1>1. GInv => TypeOK
  BY DEF GInv, StackInv, HandledInv, FlagsInv, RestInv, DepthInv, TypeOK, Frames
<1> QED BY <1>1, InvariantHolds, PTL

(* A callback that starts is the one of the signal the scan is at.         *)
LEMMA StartsServed ==
    ASSUME GInv, NEW s \in Sigs, CallbackStarts(s)
    PROVE  pending[s] /\ callback[s] # NoCallback
<1> DEFINE r == SignalTable[Top.i]
<1>1. Scan /\ stack'[Len(stack)].sig = s
  BY DEF CallbackStarts
<1>2. stack # << >> /\ Top.i \in 1..Len(SignalTable) /\ r \in Sigs /\ s # None
  BY <1>1, ScanMoves, TableFacts, TableAssumption
<1>3. ~SetTop(Top.i + 1, None)
  <2>1. Top.i + 1 \in 1..Len(SignalTable) + 1
    BY <1>2, TableFacts
  <2> QED BY <1>1, <1>2, <2>1, SetTopKeeps DEF GInv
<1>4. pending[r] /\ callback[r] # NoCallback /\ SetTop(Top.i, r)
  BY <1>1, <1>3, ScanMoves
<1>5. r = s
  <2>1. Top.i \in 1..Len(SignalTable) + 1 /\ Top.i <= Len(SignalTable)
    BY <1>2, TableFacts
  <2> QED BY <1>1, <1>2, <1>4, <2>1, SetTopKeeps DEF GInv
<1> QED BY <1>4, <1>5

(* No callback starts for a signal that the script has set to ignore or to *)
(* its default since, whatever flags and dispatches were left from before. *)
THEOREM OnlyHandledSignalsCallBackHolds == Spec => OnlyHandledSignalsCallBack
<1>1. GInv /\ [Next]_vars => [\A s \in Sigs : CallbackStarts(s) => disposition[s] = "handler"]_vars
  BY StartsServed DEF GInv, HandledInv
<1> QED BY <1>1, InvariantHolds, PTL DEF Spec, OnlyHandledSignalsCallBack

(* No delivery is served by two callbacks, however many dispatches scan    *)
(* the flags, and however deep inside one another.                         *)
THEOREM ServedOnceHolds == Spec => ServedOnce
<1>1. GInv /\ [Next]_vars => [\A s \in Sigs : CallbackStarts(s) => unserved[s]]_vars
  BY StartsServed DEF GInv, FlagsInv
<1> QED BY <1>1, InvariantHolds, PTL DEF Spec, ServedOnce
=============================================================================
