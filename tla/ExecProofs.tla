----------------------------- MODULE ExecProofs -----------------------------
(***************************************************************************)
(* Proofs about Exec, for any set of threads that call it, any commands,   *)
(* any sizes of pipes, of outputs and of what is written.                  *)
(***************************************************************************)
EXTENDS Exec, TLAPS

Places == {"idle", "fork", "launch", "leave", "wait", "dead"} \cup Loop
CallRecords ==
    [prog : Programs \cup {NoProgram}, timeout : BOOLEAN, stdin : Stdins \cup {NoStdin},
     saved : {"default", "ignore"}, left : Nat, open : SUBSET Ends, fds : SUBSET Ends,
     ready : SUBSET Ends, got : [Outputs -> 0 .. MaxOutput],
     truncated : [Outputs -> BOOLEAN], phase : {"running", "term", "kill"},
     timedOut : BOOLEAN, broke : BOOLEAN]
Children ==
    [state : {"none", "starting", "running", "zombie"}, op : Ends \cup {"run"},
     held : SUBSET Ends, wrote : [Outputs -> Nat],
     code : {"none", "launch", "own", "term", "kill"}]
Heirs == [state : {"none", "group", "escaped", "ended"}, held : SUBSET Ends]

Types ==
    /\ sigpipe \in {"default", "ignore"}
    /\ pc \in [Callers -> Places]
    /\ call \in [Callers -> CallRecords]
    /\ pipe \in [Callers -> [Ends -> 0 .. PipeCap]]
    /\ child \in [Callers -> Children]
    /\ heir \in [Callers -> Heirs]

(* Which descriptors a call has at each place.                             *)
FdsInv(c) ==
    /\ pc[c] \in {"fork", "launch"} => ~call[c].broke
    /\ pc[c] = "fork" => call[c].fds = {}
    /\ pc[c] \in Loop => ~call[c].broke /\ call[c].fds = Outputs \cup (call[c].open \cap {"in"})
    /\ pc[c] = "leave" => call[c].broke
    /\ pc[c] = "wait" => call[c].open = {}
    /\ pc[c] \in {"idle", "wait"} => call[c].fds \subseteq (IF call[c].broke THEN {"in"} ELSE {})

(* A command is signalled only in a phase that is reported.                *)
ReportInv(c) ==
    /\ pc[c] \in {"idle", "fork"} => child[c].state = "none" /\ child[c].code = "none"
    /\ call[c].phase # "running" => call[c].timedOut
    /\ child[c].code \in {"term", "kill"} => call[c].timedOut

(* A command writes on a descriptor it has; an output at its end of file   *)
(* has no writer.                                                          *)
WriterInv(c) ==
    /\ child[c].state = "starting" => child[c].op = "run"
    /\ child[c].state = "running" => child[c].op \in child[c].held \cup {"run"}
    /\ pc[c] \in Loop \cup {"wait"} /\ ~call[c].broke =>
          \A s \in Outputs \ call[c].open : pipe[c][s] = 0 /\ ~Held(c, s)

(* What was written is in the pipe, in the result or dropped.              *)
AccountInv(c) ==
    /\ pc[c] = "fork" => \A s \in Outputs : pipe[c][s] = 0 /\ call[c].got[s] = 0
                                            /\ ~call[c].truncated[s]
    /\ pc[c] \in Loop \cup {"launch", "leave", "wait"} =>
          \A s \in Outputs :
             LET n == child[c].wrote[s] - pipe[c][s] IN
               /\ pipe[c][s] <= child[c].wrote[s]
               /\ call[c].got[s] = IF n <= MaxOutput THEN n ELSE MaxOutput
               /\ call[c].truncated[s] <=> n > MaxOutput

CallInv(c) == FdsInv(c) /\ ReportInv(c) /\ WriterInv(c) /\ AccountInv(c)

EInv == Types /\ \A c \in Callers : CallInv(c)

-----------------------------------------------------------------------------
(* A step of one call leaves the others as they are.                       *)
Only(c) ==
    \A d \in Callers \ {c} : /\ pc'[d] = pc[d] /\ call'[d] = call[d] /\ pipe'[d] = pipe[d]
                             /\ child'[d] = child[d] /\ heir'[d] = heir[d]

LEMMA LocalStep ==
    ASSUME EInv, NEW c \in Callers, Only(c), Types', CallInv(c)'
    PROVE  EInv'
<1>1. ASSUME NEW d \in Callers \ {c} PROVE CallInv(d)'
  BY <1>1 DEF EInv, Only, CallInv, FdsInv, ReportInv, WriterInv, AccountInv, Held
<1> QED BY <1>1 DEF EInv

LEMMA InitHolds == Init => EInv
<1> SUFFICES ASSUME Init PROVE EInv
  OBVIOUS
<1>1. NewCall(NoProgram, FALSE, NoStdin) \in CallRecords
  BY SizesAssumption DEF Init, NewCall, CallRecords, Ends, Outputs
<1>2. NoChild \in Children /\ NoHeir \in Heirs
  BY DEF NoChild, NoHeir, Children, Heirs, Ends, Outputs
<1>3. Types
  <2>1. call \in [Callers -> CallRecords]
    BY <1>1 DEF Init
  <2>2. child \in [Callers -> Children] /\ heir \in [Callers -> Heirs]
    BY <1>2 DEF Init
  <2>3. pipe \in [Callers -> [Ends -> 0 .. PipeCap]]
    BY SizesAssumption DEF Init
  <2> QED BY <2>1, <2>2, <2>3 DEF Init, Types, Places
<1>4. ASSUME NEW c \in Callers PROVE CallInv(c)
  BY DEF Init, CallInv, FdsInv, ReportInv, WriterInv, AccountInv, NewCall, NoChild, NoHeir,
         Loop, Held
<1> QED BY <1>3, <1>4 DEF EInv

-----------------------------------------------------------------------------
(* Launching.                                                              *)

LEMMA IgnoreSigpipeKeeps ==
    ASSUME EInv, NEW c \in Callers, NEW prog \in Programs, NEW timeout \in BOOLEAN,
           NEW stdin \in Stdins \cup {NoStdin}, IgnoreSigpipe(c, prog, timeout, stdin)
    PROVE  EInv'
<1> USE DEF IgnoreSigpipe
<1>1. NewCall(prog, timeout, stdin) \in CallRecords
  BY SizesAssumption, StdinsAssumption DEF EInv, Types, NewCall, CallRecords, Ends, Outputs
<1>2. NoHeir \in Heirs
  BY DEF NoHeir, Heirs, Ends, Outputs
<1>3. Types'
  BY <1>1, <1>2, SizesAssumption DEF EInv, Types, Goto, Places
<1>4. /\ pc[c] = "idle" /\ pc'[c] = "fork" /\ call'[c] = NewCall(prog, timeout, stdin)
      /\ pipe'[c] = [e \in Ends |-> 0] /\ child'[c] = child[c] /\ heir'[c] = NoHeir
  BY DEF EInv, Types, Goto
<1>5. CallInv(c)'
  BY <1>4 DEF EInv, CallInv, FdsInv, ReportInv, WriterInv, AccountInv, NewCall, NoHeir, Loop,
              Ends, Held
<1>6. Only(c)
  BY DEF EInv, Types, Only, Goto
<1> QED BY <1>3, <1>5, <1>6, LocalStep

LEMMA ForkKeeps ==
    ASSUME EInv, NEW c \in Callers, ForkFails(c) \/ Fork(c)
    PROVE  EInv'
<1>1. CASE ForkFails(c)
  <2>1. Types'
    BY <1>1 DEF EInv, Types, ForkFails, Goto, Places, CallRecords
  <2>2. CallInv(c)'
    BY <1>1 DEF EInv, Types, ForkFails, Goto, CallInv, FdsInv, ReportInv, WriterInv, AccountInv,
                Loop, Held
  <2>3. Only(c)
    BY <1>1 DEF EInv, Types, ForkFails, Goto, Only
  <2> QED BY <2>1, <2>2, <2>3, LocalStep
<1>2. CASE Fork(c)
  <2>1. /\ pc[c] = "fork" /\ pc'[c] = "launch" /\ call'[c] = [call[c] EXCEPT !.fds = Ends]
        /\ child'[c] = [NoChild EXCEPT !.state = "starting", !.held = Ends]
        /\ pipe' = pipe /\ heir' = heir
    BY <1>2 DEF EInv, Types, Fork, Goto
  <2>2. /\ call'[c] \in CallRecords /\ child'[c] \in Children
        /\ call'[c].got = call[c].got /\ call'[c].truncated = call[c].truncated
        /\ call'[c].broke = call[c].broke /\ call'[c].phase = call[c].phase
        /\ call'[c].timedOut = call[c].timedOut
    <3>1. NoChild \in Children /\ call[c] \in CallRecords
      BY DEF EInv, Types, NoChild, Children, Ends, Outputs
    <3>2. child'[c] \in Children
      BY <2>1, <3>1 DEF Children
    <3>3. call'[c] \in CallRecords
      BY <2>1, <3>1 DEF CallRecords
    <3> QED BY <2>1, <3>1, <3>2, <3>3 DEF CallRecords
  <2>3. Types' /\ Only(c)
    BY <1>2, <2>2 DEF EInv, Types, Fork, Goto, Only, Places
  <2>4. CallInv(c)'
    BY <2>1, <2>2, SizesAssumption
       DEF EInv, CallInv, FdsInv, ReportInv, WriterInv, AccountInv, NoChild, Loop, Held
  <2> QED BY <2>3, <2>4, LocalStep
<1> QED BY <1>1, <1>2

LEMMA LaunchFailsKeeps ==
    ASSUME EInv, NEW c \in Callers, LaunchFails(c)
    PROVE  EInv'
<1>1. /\ pc'[c] = "idle" /\ call'[c] = [call[c] EXCEPT !.fds = {}] /\ child'[c] = NoChild
      /\ pipe' = pipe /\ heir' = heir /\ call[c] \in CallRecords
  BY DEF EInv, Types, LaunchFails, Goto
<1>2. NoChild \in Children
  BY DEF NoChild, Children, Ends, Outputs
<1>3. /\ call'[c] \in CallRecords /\ call'[c].phase = call[c].phase
      /\ call'[c].timedOut = call[c].timedOut /\ call'[c].fds = {}
  BY <1>1 DEF CallRecords
<1>4. Types'
  BY <1>2, <1>3 DEF EInv, Types, LaunchFails, Goto, Places, CallRecords
<1>5. Only(c)
  BY DEF EInv, Types, LaunchFails, Goto, Only
<1>6. CallInv(c)'
  BY <1>1, <1>3 DEF EInv, CallInv, FdsInv, ReportInv, WriterInv, AccountInv, NoChild, Loop, Held
<1> QED BY <1>4, <1>5, <1>6, LocalStep

LEMMA LaunchedKeeps ==
    ASSUME EInv, NEW c \in Callers, Launched(c)
    PROVE  EInv'
<1> DEFINE parent == IF call[c].stdin = NoStdin THEN Outputs ELSE Ends
<1>1. /\ pc[c] = "launch" /\ pc'[c] = "top" /\ call[c] \in CallRecords
      /\ call'[c] = [call[c] EXCEPT !.open = parent, !.fds = parent]
      /\ pipe' = pipe /\ heir' = heir /\ child' = child
  BY DEF EInv, Types, Launched, Goto
<1>2. parent \subseteq Ends /\ parent = Outputs \cup (parent \cap {"in"})
  BY DEF Ends, Outputs
<1> HIDE DEF parent
<1>3. /\ call'[c] \in CallRecords /\ call'[c].open = parent /\ call'[c].fds = parent
      /\ call'[c].phase = call[c].phase /\ call'[c].timedOut = call[c].timedOut
      /\ call'[c].broke = call[c].broke /\ call'[c].got = call[c].got
      /\ call'[c].truncated = call[c].truncated
  BY <1>1, <1>2 DEF CallRecords
<1>4. call' \in [Callers -> CallRecords]
  BY <1>1, <1>3 DEF EInv, Types, Launched, parent
<1>5. Types' /\ Only(c)
  BY <1>1, <1>4 DEF EInv, Types, Launched, Goto, Places, Loop, Only
<1>6. CallInv(c)'
  BY <1>1, <1>2, <1>3 DEF EInv, CallInv, FdsInv, ReportInv, WriterInv, AccountInv, Loop, Held
<1> QED BY <1>5, <1>6, LocalStep

(* Steps of the child and of the command that only concern themselves.     *)
LEMMA ChildMoves ==
    ASSUME EInv, NEW c \in Callers, NEW new \in Children,
           child' = [child EXCEPT ![c] = new], UNCHANGED <<sigpipe, pc, call, pipe, heir>>,
           child[c].state \in {"starting", "running"},
           new.state \in {child[c].state, "running", "zombie"}, new.held \subseteq child[c].held,
           new.state = "running" => new.op \in new.held \cup {"run"},
           new.state = "starting" => new.op = "run",
           new.wrote = child[c].wrote,
           new.code \in {"term", "kill"} => new.code = child[c].code
    PROVE  EInv'
<1>1. child'[c] = new /\ pc' = pc /\ call' = call /\ pipe' = pipe /\ heir' = heir
  BY DEF EInv, Types
<1>2. Types' /\ Only(c)
  BY DEF EInv, Types, Only
<1>3. pc[c] \notin {"idle", "fork"}
  BY DEF EInv, CallInv, ReportInv
<1>4. CallInv(c)'
  BY <1>1, <1>3 DEF EInv, CallInv, FdsInv, ReportInv, WriterInv, AccountInv, Held
<1> QED BY <1>2, <1>4, LocalStep

LEMMA LoadKeeps ==
    ASSUME EInv, NEW c \in Callers, LoadStep(c)
    PROVE  EInv'
<1>1. child[c] \in Children /\ child[c].state = "starting" /\ child[c].op = "run"
  BY DEF EInv, Types, CallInv, WriterInv, LoadStep, ChildExecs, ChildFails
<1>2. CASE ChildExecs(c)
  <2> DEFINE new == [child[c] EXCEPT !.state = "running"]
  <2>1. new \in Children /\ new.state = "running" /\ new.op = "run" /\ new.held = child[c].held
        /\ new.wrote = child[c].wrote /\ new.code = child[c].code
    BY <1>1 DEF Children
  <2>2. child' = [child EXCEPT ![c] = new] /\ UNCHANGED <<sigpipe, pc, call, pipe, heir>>
    BY <1>2 DEF ChildExecs
  <2> HIDE DEF new
  <2> QED BY <1>1, <2>1, <2>2, ChildMoves
<1>3. CASE ChildFails(c)
  <2> DEFINE new == [child[c] EXCEPT !.state = "zombie", !.held = {}, !.code = "launch"]
  <2>1. new \in Children /\ new.state = "zombie" /\ new.held = {}
        /\ new.wrote = child[c].wrote /\ new.code = "launch"
    BY <1>1 DEF Children
  <2>2. child' = [child EXCEPT ![c] = new] /\ UNCHANGED <<sigpipe, pc, call, pipe, heir>>
    BY <1>3 DEF ChildFails
  <2> HIDE DEF new
  <2> QED BY <1>1, <2>1, <2>2, ChildMoves
<1> QED BY <1>2, <1>3 DEF LoadStep

-----------------------------------------------------------------------------
(* The command and what it leaves.                                         *)

(* The steps of a command that neither write nor read a pipe.              *)
LEMMA CommandKeeps ==
    ASSUME EInv, NEW c \in Callers,
           \/ \E e \in Ends : ChildStarts(c, e) \/ ChildCloses(c, e)
           \/ \E s \in Outputs : ChildWriteFails(c, s)
           \/ ChildReadsEof(c) \/ ChildExits(c)
    PROVE  EInv'
<1>1. child[c] \in Children /\ child[c].state = "running"
      /\ child[c].op \in child[c].held \cup {"run"}
  BY DEF EInv, Types, CallInv, WriterInv, Running, ChildStarts, ChildCloses, ChildWriteFails,
         ChildReadsEof, ChildExits
<1>2. ASSUME NEW e \in Ends, ChildStarts(c, e) PROVE EInv'
  <2> DEFINE new == [child[c] EXCEPT !.op = e]
  <2>1. new \in Children /\ new.state = "running" /\ new.op = e /\ new.held = child[c].held
        /\ new.wrote = child[c].wrote /\ new.code = child[c].code
    BY <1>1 DEF Children
  <2>2. /\ child' = [child EXCEPT ![c] = new] /\ UNCHANGED <<sigpipe, pc, call, pipe, heir>>
        /\ e \in child[c].held
    BY <1>2 DEF ChildStarts
  <2> HIDE DEF new
  <2> QED BY <1>1, <2>1, <2>2, ChildMoves
<1>3. ASSUME NEW e \in Ends, ChildCloses(c, e) PROVE EInv'
  <2> DEFINE new == [child[c] EXCEPT !.held = @ \ {e}]
  <2>1. new \in Children /\ new.state = "running" /\ new.op = child[c].op
        /\ new.held = child[c].held \ {e} /\ new.wrote = child[c].wrote /\ new.code = child[c].code
    BY <1>1 DEF Children
  <2>2. /\ child' = [child EXCEPT ![c] = new] /\ UNCHANGED <<sigpipe, pc, call, pipe, heir>>
        /\ child[c].op = "run"
    BY <1>3 DEF ChildCloses
  <2> HIDE DEF new
  <2> QED BY <1>1, <2>1, <2>2, ChildMoves
<1>4. ASSUME NEW e \in Ends, child' = [child EXCEPT ![c].op = "run", ![c].held = @ \ {e}],
             UNCHANGED <<sigpipe, pc, call, pipe, heir>>
      PROVE  EInv'
  <2> DEFINE new == [child[c] EXCEPT !.op = "run", !.held = @ \ {e}]
  <2>1. new \in Children /\ new.state = "running" /\ new.op = "run"
        /\ new.held = child[c].held \ {e} /\ new.wrote = child[c].wrote /\ new.code = child[c].code
    BY <1>1 DEF Children
  <2>2. child' = [child EXCEPT ![c] = new]
    BY <1>4
  <2> HIDE DEF new
  <2> QED BY <1>1, <1>4, <2>1, <2>2, ChildMoves
<1>5. CASE ChildExits(c)
  <2> DEFINE new == [child[c] EXCEPT !.state = "zombie", !.held = {}, !.code = "own"]
  <2>1. new \in Children /\ new.state = "zombie" /\ new.held = {}
        /\ new.wrote = child[c].wrote /\ new.code = "own"
    BY <1>1 DEF Children
  <2>2. child' = [child EXCEPT ![c] = new] /\ UNCHANGED <<sigpipe, pc, call, pipe, heir>>
    BY <1>5 DEF ChildExits
  <2> HIDE DEF new
  <2> QED BY <1>1, <2>1, <2>2, ChildMoves
<1> QED BY <1>2, <1>3, <1>4, <1>5 DEF ChildWriteFails, ChildReadsEof, Ends

LEMMA ChildWritesKeeps ==
    ASSUME EInv, NEW c \in Callers, NEW s \in Outputs, ChildWrites(c, s)
    PROVE  EInv'
<1>1. /\ child[c] \in Children /\ child[c].state = "running" /\ child[c].op = s
      /\ pipe[c] \in [Ends -> 0 .. PipeCap] /\ pipe[c][s] < PipeCap
      /\ s \in Ends
  BY DEF EInv, Types, ChildWrites, Running, Ends
<1>2. s \in child[c].held
  BY <1>1 DEF EInv, CallInv, WriterInv, Outputs
<1>3. /\ child'[c] = [child[c] EXCEPT !.op = "run", !.wrote[s] = @ + 1]
      /\ pipe'[c] = [pipe[c] EXCEPT ![s] = @ + 1]
      /\ UNCHANGED <<sigpipe, pc, call, heir>>
  BY DEF EInv, Types, ChildWrites
<1>4. /\ child'[c] \in Children /\ child'[c].state = "running" /\ child'[c].op = "run"
      /\ child'[c].held = child[c].held /\ child'[c].code = child[c].code
      /\ child'[c].wrote = [child[c].wrote EXCEPT ![s] = @ + 1]
  <2> DEFINE w == [child[c].wrote EXCEPT ![s] = @ + 1]
  <2>1. w \in [Outputs -> Nat]
    BY <1>1 DEF Children
  <2>2. child'[c] = [child[c] EXCEPT !.op = "run", !.wrote = w]
    BY <1>1, <1>3 DEF Children
  <2> HIDE DEF w
  <2>3. child'[c] \in Children /\ child'[c].wrote = w
    BY <1>1, <2>1, <2>2 DEF Children
  <2>4. /\ child'[c].state = "running" /\ child'[c].op = "run"
        /\ child'[c].held = child[c].held /\ child'[c].code = child[c].code
    BY <1>1, <2>2 DEF Children
  <2> QED BY <2>3, <2>4 DEF w
<1>5. pipe'[c] \in [Ends -> 0 .. PipeCap]
  BY <1>1, <1>3, SizesAssumption
<1>6. Types' /\ Only(c)
  BY <1>3, <1>4, <1>5 DEF EInv, Types, ChildWrites, Only
<1>7. FdsInv(c)' /\ ReportInv(c)' /\ WriterInv(c)'
  BY <1>1, <1>2, <1>3, <1>4 DEF EInv, CallInv, FdsInv, ReportInv, WriterInv, Held
<1>8. AccountInv(c)'
  <2>1. pc[c] # "fork"
    BY <1>1 DEF EInv, CallInv, ReportInv
  <2>2. \A r \in Outputs : /\ pipe'[c][r] = IF r = s THEN pipe[c][r] + 1 ELSE pipe[c][r]
                           /\ child'[c].wrote[r] = IF r = s THEN child[c].wrote[r] + 1
                                                   ELSE child[c].wrote[r]
                           /\ child[c].wrote[r] \in Nat /\ pipe[c][r] \in Nat
    BY <1>1, <1>3, <1>4 DEF Children, Ends
  <2> QED BY <1>3, <2>1, <2>2 DEF EInv, CallInv, AccountInv
<1> QED BY <1>6, <1>7, <1>8, LocalStep DEF CallInv

LEMMA ChildReadsKeeps ==
    ASSUME EInv, NEW c \in Callers, ChildReads(c)
    PROVE  EInv'
<1>1. /\ child[c] \in Children /\ child[c].state = "running"
      /\ pipe[c] \in [Ends -> 0 .. PipeCap] /\ pipe[c]["in"] > 0
  BY DEF EInv, Types, ChildReads, Running
<1>2. /\ child'[c] = [child[c] EXCEPT !.op = "run"]
      /\ pipe'[c] = [pipe[c] EXCEPT !["in"] = @ - 1]
      /\ UNCHANGED <<sigpipe, pc, call, heir>>
  BY DEF EInv, Types, ChildReads
<1>3. /\ child'[c] \in Children /\ child'[c].state = "running" /\ child'[c].op = "run"
      /\ child'[c].held = child[c].held /\ child'[c].code = child[c].code
      /\ child'[c].wrote = child[c].wrote
  BY <1>1, <1>2 DEF Children
<1>4. pipe'[c] \in [Ends -> 0 .. PipeCap] /\ \A s \in Outputs : pipe'[c][s] = pipe[c][s]
  BY <1>1, <1>2, SizesAssumption DEF Outputs, Ends
<1>5. Types' /\ Only(c)
  BY <1>2, <1>3, <1>4 DEF EInv, Types, ChildReads, Only
<1>6. CallInv(c)'
  BY <1>1, <1>2, <1>3, <1>4 DEF EInv, CallInv, FdsInv, ReportInv, WriterInv, AccountInv, Held
<1> QED BY <1>5, <1>6, LocalStep

(* A descendant has what the command had, and at its end nothing.          *)
LEMMA HeirKeeps ==
    ASSUME EInv, NEW c \in Callers, ChildForks(c) \/ HeirExits(c)
    PROVE  EInv'
<1>1. /\ heir'[c] \in Heirs /\ heir'[c].held \subseteq child[c].held \cup heir[c].held
      /\ heir' = [heir EXCEPT ![c] = heir'[c]]
      /\ UNCHANGED <<sigpipe, pc, call, pipe, child>>
  <2>1. CASE ChildForks(c)
    <3>1. child[c] \in Children /\ call[c] \in CallRecords /\ call[c].prog.heir \in {"group", "escaped"}
      BY <2>1, ProgramsAssumption DEF EInv, Types, ChildForks, CallRecords, NoProgram
    <3>2. heir'[c] = [state |-> call[c].prog.heir, held |-> child[c].held]
      BY <2>1 DEF EInv, Types, ChildForks
    <3> QED BY <2>1, <3>1, <3>2 DEF ChildForks, Heirs, Children, EInv, Types
  <2>2. CASE HeirExits(c)
    BY <2>2 DEF EInv, Types, HeirExits, Ended, Heirs
  <2> QED BY <2>1, <2>2
<1>2. Types' /\ Only(c)
  BY <1>1 DEF EInv, Types, Only
<1>3. CallInv(c)'
  BY <1>1 DEF EInv, CallInv, FdsInv, ReportInv, WriterInv, AccountInv, Held
<1> QED BY <1>2, <1>3, LocalStep

-----------------------------------------------------------------------------
(* The poll loop.                                                          *)

(* A step of the caller alone, with what it may change of its locals.      *)
LEMMA CallerMoves ==
    ASSUME EInv, NEW c \in Callers, NEW to \in Places, NEW new \in CallRecords,
           pc' = [pc EXCEPT ![c] = to], call' = [call EXCEPT ![c] = new],
           UNCHANGED <<sigpipe, pipe, child, heir>>,
           pc[c] \in Loop \cup {"leave"},
           new.got = call[c].got, new.truncated = call[c].truncated,
           new.phase # "running" => new.timedOut,
           call[c].timedOut => new.timedOut,
           \/ /\ pc[c] \in Loop /\ to \in Loop /\ new.broke = call[c].broke
              /\ new.fds = Outputs \cup (new.open \cap {"in"})
              /\ \A s \in Outputs \ new.open : pipe[c][s] = 0 /\ ~Held(c, s)
           \/ pc[c] \in Loop /\ to = "leave" /\ new.broke
           \/ /\ to = "wait" /\ new.fds = call[c].fds \ Outputs /\ new.broke = call[c].broke
              /\ new.open = {}
              /\ pc[c] = "leave" \/ call[c].open = {}
    PROVE  EInv'
<1>1. /\ pc'[c] = to /\ call'[c] = new /\ pipe' = pipe /\ child' = child /\ heir' = heir
      /\ call[c] \in CallRecords
  BY DEF EInv, Types
<1>2. Types' /\ Only(c)
  BY DEF EInv, Types, Only
<1>3. FdsInv(c)'
  BY <1>1 DEF EInv, CallInv, FdsInv, Loop, Ends, Outputs, CallRecords
<1>4. ReportInv(c)'
  BY <1>1 DEF EInv, CallInv, ReportInv, Loop
<1>5. WriterInv(c)'
  BY <1>1 DEF EInv, CallInv, FdsInv, WriterInv, Loop, Held
<1>6. AccountInv(c)'
  BY <1>1 DEF EInv, CallInv, AccountInv, Loop
<1> QED BY <1>2, <1>3, <1>4, <1>5, <1>6, LocalStep DEF CallInv

(* Places change and nothing else.                                         *)
LEMMA PlaceKeeps ==
    ASSUME EInv, NEW c \in Callers,
           \/ StartPoll(c) \/ PollReturnsNothing(c)
           \/ \E s \in Outputs : DrainWouldBlock(c, s)
           \/ \E s \in Ends : SkipStage(c, s)
    PROVE  EInv'
<1>1. PICK to \in Loop : pc[c] \in Loop /\ pc' = [pc EXCEPT ![c] = to]
  BY DEF StartPoll, AtTop, PollReturnsNothing, DrainWouldBlock, Draining, SkipStage, Goto,
         NextStage, Loop, Outputs, Ends
<1>2. UNCHANGED <<sigpipe, call, pipe, child, heir>>
  BY DEF StartPoll, PollReturnsNothing, DrainWouldBlock, SkipStage
<1>3. /\ call' = [call EXCEPT ![c] = call[c]] /\ call[c] \in CallRecords /\ to \in Places
      /\ ~call[c].broke /\ call[c].fds = Outputs \cup (call[c].open \cap {"in"})
      /\ \A s \in Outputs \ call[c].open : pipe[c][s] = 0 /\ ~Held(c, s)
      /\ call[c].phase # "running" => call[c].timedOut
  BY <1>1, <1>2 DEF EInv, Types, Places, CallInv, FdsInv, ReportInv, WriterInv
<1> QED BY <1>1, <1>2, <1>3, CallerMoves

(* The loop is given up, or is over.                                       *)
LEMMA LeavingKeeps ==
    ASSUME EInv, NEW c \in Callers, Abandon(c) \/ PollFails(c) \/ CloseOutputs(c)
    PROVE  EInv'
<1>1. call[c] \in CallRecords /\ (call[c].phase # "running" => call[c].timedOut)
  BY DEF EInv, Types, CallInv, ReportInv
<1>2. CASE Abandon(c) \/ PollFails(c)
  <2> DEFINE new == [call[c] EXCEPT !.broke = TRUE]
  <2>1. /\ new \in CallRecords /\ new.broke /\ new.got = call[c].got
        /\ new.truncated = call[c].truncated /\ new.phase = call[c].phase
        /\ new.timedOut = call[c].timedOut
    BY <1>1 DEF CallRecords
  <2>2. /\ pc[c] \in Loop /\ pc' = [pc EXCEPT ![c] = "leave"] /\ call' = [call EXCEPT ![c] = new]
        /\ UNCHANGED <<sigpipe, pipe, child, heir>> /\ "leave" \in Places
    BY <1>2 DEF Abandon, PollFails, AtTop, Goto, Loop, Places
  <2> HIDE DEF new
  <2> QED BY <1>1, <2>1, <2>2, CallerMoves
<1>3. CASE CloseOutputs(c)
  <2> DEFINE new == [call[c] EXCEPT !.open = {}, !.fds = @ \ Outputs, !.ready = {}]
  <2>1. /\ new \in CallRecords /\ new.broke = call[c].broke /\ new.got = call[c].got
        /\ new.truncated = call[c].truncated /\ new.phase = call[c].phase
        /\ new.timedOut = call[c].timedOut /\ new.fds = call[c].fds \ Outputs /\ new.open = {}
    BY <1>1 DEF CallRecords
  <2>2. /\ pc[c] \in Loop \cup {"leave"} /\ pc' = [pc EXCEPT ![c] = "wait"]
        /\ call' = [call EXCEPT ![c] = new] /\ UNCHANGED <<sigpipe, pipe, child, heir>>
        /\ "wait" \in Places /\ (pc[c] = "leave" \/ call[c].open = {})
    BY <1>3 DEF CloseOutputs, Goto, Loop, Places
  <2> HIDE DEF new
  <2> QED BY <1>1, <2>1, <2>2, CallerMoves
<1> QED BY <1>2, <1>3

LEMMA ReadyAndEofKeep ==
    ASSUME EInv, NEW c \in Callers,
           PollReady(c) \/ \E s \in Outputs : DrainEof(c, s)
    PROVE  EInv'
<1>1. /\ call[c] \in CallRecords /\ (call[c].phase # "running" => call[c].timedOut)
  BY DEF EInv, Types, CallInv, ReportInv
<1>2. pc[c] \in Loop => /\ call[c].fds = Outputs \cup (call[c].open \cap {"in"}) /\ ~call[c].broke
                        /\ \A s \in Outputs \ call[c].open : pipe[c][s] = 0 /\ ~Held(c, s)
  BY DEF EInv, CallInv, FdsInv, WriterInv
<1>3. CASE PollReady(c)
  <2> DEFINE new == [call[c] EXCEPT !.ready = Ready(c)]
  <2>1. Ready(c) \subseteq Ends
    BY DEF Ready, Ends
  <2>2. /\ new \in CallRecords /\ new.broke = call[c].broke /\ new.got = call[c].got
        /\ new.truncated = call[c].truncated /\ new.phase = call[c].phase
        /\ new.timedOut = call[c].timedOut /\ new.fds = call[c].fds /\ new.open = call[c].open
    BY <1>1, <2>1 DEF CallRecords
  <2>3. /\ pc[c] \in Loop /\ pc' = [pc EXCEPT ![c] = "out"] /\ call' = [call EXCEPT ![c] = new]
        /\ UNCHANGED <<sigpipe, pipe, child, heir>> /\ "out" \in Places /\ "out" \in Loop
    BY <1>3 DEF PollReady, Goto, Loop, Places
  <2> HIDE DEF new
  <2> QED BY <1>1, <1>2, <2>2, <2>3, CallerMoves
<1>4. ASSUME NEW s \in Outputs, DrainEof(c, s) PROVE EInv'
  <2> DEFINE new == [call[c] EXCEPT !.open = @ \ {s}]
  <2>1. /\ new \in CallRecords /\ new.broke = call[c].broke /\ new.got = call[c].got
        /\ new.truncated = call[c].truncated /\ new.phase = call[c].phase
        /\ new.timedOut = call[c].timedOut /\ new.fds = call[c].fds /\ new.open = call[c].open \ {s}
    BY <1>1 DEF CallRecords
  <2>2. PICK to \in Loop : /\ pc[c] \in Loop /\ pc' = [pc EXCEPT ![c] = to]
                           /\ call' = [call EXCEPT ![c] = new]
                           /\ UNCHANGED <<sigpipe, pipe, child, heir>> /\ to \in Places
    BY <1>4 DEF DrainEof, Draining, Goto, Loop, Places, NextStage, Outputs
  <2>3. pipe[c][s] = 0 /\ ~Held(c, s) /\ s # "in"
    BY <1>4 DEF DrainEof, Outputs
  <2>4. /\ new.fds = Outputs \cup (new.open \cap {"in"})
        /\ \A r \in Outputs \ new.open : pipe[c][r] = 0 /\ ~Held(c, r)
    BY <1>2, <2>1, <2>2, <2>3
  <2> HIDE DEF new
  <2> QED BY <1>1, <1>2, <2>1, <2>2, <2>4, CallerMoves
<1> QED BY <1>3, <1>4

(* The caller finishes with stdin, in FeedNothing and FeedBroken.          *)
LEMMA FinishStdinKeeps ==
    ASSUME EInv, NEW c \in Callers, pc[c] \in Loop, FinishStdin(c), Goto(c, "top"),
           UNCHANGED <<sigpipe, pipe, child, heir>>
    PROVE  EInv'
<1> DEFINE new == [call[c] EXCEPT !.left = 0, !.open = @ \ {"in"}, !.fds = @ \ {"in"}]
<1>1. /\ call[c] \in CallRecords /\ (call[c].phase # "running" => call[c].timedOut)
      /\ call[c].fds = Outputs \cup (call[c].open \cap {"in"}) /\ ~call[c].broke
      /\ \A s \in Outputs \ call[c].open : pipe[c][s] = 0 /\ ~Held(c, s)
  BY DEF EInv, Types, CallInv, FdsInv, ReportInv, WriterInv
<1>2. /\ new \in CallRecords /\ new.broke = call[c].broke /\ new.got = call[c].got
      /\ new.truncated = call[c].truncated /\ new.phase = call[c].phase
      /\ new.timedOut = call[c].timedOut /\ new.fds = call[c].fds \ {"in"}
      /\ new.open = call[c].open \ {"in"}
  BY <1>1 DEF CallRecords
<1>3. /\ call' = [call EXCEPT ![c] = new] /\ pc' = [pc EXCEPT ![c] = "top"]
      /\ "top" \in Loop /\ "top" \in Places
  BY DEF FinishStdin, Goto, Loop, Places
<1>4. new.fds = Outputs \cup (new.open \cap {"in"})
  BY <1>1, <1>2 DEF Outputs
<1>5. \A s \in Outputs \ new.open : pipe[c][s] = 0 /\ ~Held(c, s)
  BY <1>1, <1>2 DEF Outputs
<1> HIDE DEF new
<1> QED BY <1>1, <1>2, <1>3, <1>4, <1>5, CallerMoves

LEMMA FeedKeeps ==
    ASSUME EInv, NEW c \in Callers, Feed(c)
    PROVE  EInv'
<1> DEFINE room == PipeCap - pipe[c]["in"]
           all == call[c].left <= room
           new == IF all THEN [call[c] EXCEPT !.left = 0, !.open = @ \ {"in"}, !.fds = @ \ {"in"}]
                  ELSE [call[c] EXCEPT !.left = @ - room]
<1>1. /\ call[c] \in CallRecords /\ (call[c].phase # "running" => call[c].timedOut)
      /\ pc[c] = "in" /\ pc[c] \in Loop
      /\ call[c].fds = Outputs \cup (call[c].open \cap {"in"}) /\ ~call[c].broke
      /\ \A s \in Outputs \ call[c].open : pipe[c][s] = 0 /\ ~Held(c, s)
      /\ pipe[c] \in [Ends -> 0 .. PipeCap]
  BY DEF Feed, Feeding, EInv, Types, CallInv, FdsInv, ReportInv, WriterInv, Loop
<1>2. /\ call' = [call EXCEPT ![c] = new] /\ pc' = [pc EXCEPT ![c] = "top"]
      /\ pipe' = [pipe EXCEPT ![c]["in"] = IF all THEN @ + call[c].left ELSE PipeCap]
      /\ UNCHANGED <<sigpipe, child, heir>>
  BY DEF Feed, FinishStdin, Goto
<1>3. room \in Nat /\ call[c].left \in Nat /\ (~all => call[c].left - room \in Nat)
  BY <1>1, SizesAssumption DEF CallRecords, Ends
<1>4. new \in CallRecords
  <2>1. CASE all
    BY <1>1, <2>1 DEF CallRecords
  <2>2. CASE ~all
    <3> DEFINE rest == call[c].left - room
    <3>1. rest \in Nat /\ new = [call[c] EXCEPT !.left = rest]
      BY <1>1, <1>3, <2>2 DEF CallRecords
    <3> HIDE DEF rest, new
    <3> QED BY <1>1, <3>1 DEF CallRecords
  <2> QED BY <2>1, <2>2
<1>5. /\ new.broke = call[c].broke /\ new.got = call[c].got /\ new.truncated = call[c].truncated
      /\ new.phase = call[c].phase /\ new.timedOut = call[c].timedOut
      /\ new.fds = Outputs \cup (new.open \cap {"in"})
      /\ new.open \cap Outputs = call[c].open \cap Outputs
  BY <1>1 DEF CallRecords, Outputs
<1>6. /\ pipe'[c] \in [Ends -> 0 .. PipeCap] /\ \A s \in Outputs : pipe'[c][s] = pipe[c][s]
      /\ pipe' = [pipe EXCEPT ![c] = pipe'[c]]
  <2> HIDE DEF new
  <2>1. pipe'[c] = [pipe[c] EXCEPT !["in"] = IF all THEN @ + call[c].left ELSE PipeCap]
    BY <1>2 DEF EInv, Types
  <2>2. pipe'[c] \in [Ends -> 0 .. PipeCap]
    BY <1>1, <1>3, <2>1, SizesAssumption DEF Ends
  <2>3. \A s \in Outputs : pipe'[c][s] = pipe[c][s]
    BY <1>1, <2>1 DEF Outputs, Ends
  <2> QED BY <1>2, <2>1, <2>2, <2>3 DEF EInv, Types
<1> HIDE DEF new, room, all
<1>7. Types' /\ Only(c)
  BY <1>2, <1>4, <1>6 DEF EInv, Types, Only, Places, Loop
<1>8. pc'[c] = "top" /\ call'[c] = new /\ child' = child /\ heir' = heir
  BY <1>2 DEF EInv, Types
<1>9. CallInv(c)'
  BY <1>1, <1>5, <1>6, <1>8
     DEF EInv, CallInv, FdsInv, ReportInv, WriterInv, AccountInv, Loop, Held
<1> QED BY <1>7, <1>9, LocalStep

LEMMA DrainReadKeeps ==
    ASSUME EInv, NEW c \in Callers, NEW s \in Outputs, DrainRead(c, s)
    PROVE  EInv'
<1> DEFINE kept == call[c].got[s] < MaxOutput
           got == [call[c].got EXCEPT ![s] = @ + 1]
           cut == [call[c].truncated EXCEPT ![s] = TRUE]
           new == IF kept THEN [call[c] EXCEPT !.got = got] ELSE [call[c] EXCEPT !.truncated = cut]
<1>1. /\ call[c] \in CallRecords /\ (call[c].phase # "running" => call[c].timedOut)
      /\ pc[c] = s /\ pc[c] \in Loop /\ s \in Ends /\ pipe[c][s] > 0
      /\ call[c].fds = Outputs \cup (call[c].open \cap {"in"}) /\ ~call[c].broke
      /\ \A r \in Outputs \ call[c].open : pipe[c][r] = 0 /\ ~Held(c, r)
      /\ pipe[c] \in [Ends -> 0 .. PipeCap] /\ child[c] \in Children
  BY DEF DrainRead, Draining, EInv, Types, CallInv, FdsInv, ReportInv, WriterInv, Loop, Outputs, Ends
<1>2. /\ call[c].got \in [Outputs -> 0 .. MaxOutput] /\ call[c].truncated \in [Outputs -> BOOLEAN]
      /\ MaxOutput \in Nat
  BY <1>1, SizesAssumption DEF CallRecords
<1>3. kept => got \in [Outputs -> 0 .. MaxOutput]
  BY <1>2
<1>4. cut \in [Outputs -> BOOLEAN]
  BY <1>2
<1>5. call' = [call EXCEPT ![c] = new]
  BY DEF DrainRead
<1>6. UNCHANGED <<sigpipe, pc, child, heir>> /\ pipe' = [pipe EXCEPT ![c] = [pipe[c] EXCEPT ![s] = @ - 1]]
  BY DEF DrainRead
<1> HIDE DEF got, cut
<1>7. /\ new \in CallRecords /\ new.broke = call[c].broke /\ new.phase = call[c].phase
      /\ new.timedOut = call[c].timedOut /\ new.fds = call[c].fds /\ new.open = call[c].open
      /\ new.got = (IF kept THEN got ELSE call[c].got)
      /\ new.truncated = (IF kept THEN call[c].truncated ELSE cut)
  BY <1>1, <1>3, <1>4 DEF CallRecords
<1> HIDE DEF new
<1>8. [pipe[c] EXCEPT ![s] = @ - 1] \in [Ends -> 0 .. PipeCap]
  BY <1>1, SizesAssumption
<1>9. Types' /\ Only(c)
  BY <1>5, <1>6, <1>7, <1>8 DEF EInv, Types, Only
<1>10. call'[c] = new /\ pc' = pc /\ child' = child /\ heir' = heir
       /\ pipe'[c] = [pipe[c] EXCEPT ![s] = @ - 1]
  BY <1>5, <1>6 DEF EInv, Types
<1>11. FdsInv(c)' /\ ReportInv(c)'
  BY <1>7, <1>10 DEF EInv, CallInv, FdsInv, ReportInv
<1>12. WriterInv(c)'
  BY <1>1, <1>7, <1>10 DEF EInv, CallInv, WriterInv, Held, Ends
<1>13. AccountInv(c)'
  <2>1. ASSUME NEW r \in Outputs
        PROVE  LET n == child[c].wrote[r] - pipe'[c][r] IN
                 /\ pipe'[c][r] <= child[c].wrote[r]
                 /\ new.got[r] = IF n <= MaxOutput THEN n ELSE MaxOutput
                 /\ new.truncated[r] <=> n > MaxOutput
    <3>1. /\ pipe[c][r] <= child[c].wrote[r] /\ child[c].wrote[r] \in Nat /\ pipe[c][r] \in Nat
          /\ call[c].got[r] = IF child[c].wrote[r] - pipe[c][r] <= MaxOutput
                              THEN child[c].wrote[r] - pipe[c][r] ELSE MaxOutput
          /\ call[c].truncated[r] <=> child[c].wrote[r] - pipe[c][r] > MaxOutput
      BY <1>1 DEF EInv, CallInv, AccountInv, Children, Ends
    <3>2. CASE r # s
      <4>1. pipe'[c][r] = pipe[c][r] /\ new.got[r] = call[c].got[r]
            /\ new.truncated[r] = call[c].truncated[r]
        BY <1>1, <1>2, <1>7, <1>10, <3>2 DEF got, cut, Ends
      <4> QED BY <3>1, <4>1
    <3>3. CASE r = s
      <4>1. /\ pipe'[c][s] = pipe[c][s] - 1
            /\ new.got[s] = IF kept THEN call[c].got[s] + 1 ELSE call[c].got[s]
            /\ new.truncated[s] = IF kept THEN call[c].truncated[s] ELSE TRUE
        BY <1>1, <1>2, <1>7, <1>10 DEF got, cut
      <4> QED BY <1>1, <1>2, <3>1, <3>3, <4>1
    <3> QED BY <3>2, <3>3
  <2>2. pc[c] # "fork"
    BY <1>1 DEF Outputs
  <2> QED BY <1>10, <2>1, <2>2 DEF AccountInv
<1> QED BY <1>9, <1>11, <1>12, <1>13, LocalStep DEF CallInv

(* What kill_group does to the child and to its descendant, in a phase     *)
(* that is reported.                                                       *)
LEMMA KillGroupMoves ==
    ASSUME EInv, NEW c \in Callers, NEW sig \in {"term", "kill"}, KillGroup(c, sig)
    PROVE  /\ child' \in [Callers -> Children] /\ heir' \in [Callers -> Heirs]
           /\ \A d \in Callers \ {c} : child'[d] = child[d] /\ heir'[d] = heir[d]
           /\ child'[c].held \subseteq child[c].held /\ heir'[c].held \subseteq heir[c].held
           /\ child'[c].wrote = child[c].wrote
           /\ \/ child'[c] = child[c]
              \/ child'[c].state = "zombie"
<1>1. child[c] \in Children /\ heir[c] \in Heirs
  BY DEF EInv, Types
<1>2. Ended \in Heirs /\ Ended.held = {}
  BY DEF Ended, Heirs
<1> DEFINE new == [child[c] EXCEPT !.state = "zombie", !.held = {}, !.code = sig]
<1>3. new \in Children /\ new.held = {} /\ new.wrote = child[c].wrote /\ new.state = "zombie"
  BY <1>1 DEF Children
<1>4. \/ child' = child /\ heir' = heir
      \/ /\ child' = child \/ child' = [child EXCEPT ![c] = new]
         /\ heir' = heir \/ heir' = [heir EXCEPT ![c] = Ended]
  BY DEF KillGroup
<1> HIDE DEF new
<1> QED BY <1>1, <1>2, <1>3, <1>4 DEF EInv, Types

LEMMA KillsKeep ==
    ASSUME EInv, NEW c \in Callers, SendTerm(c) \/ SendKill(c)
    PROVE  EInv'
<1> DEFINE term == [call[c] EXCEPT !.phase = "term", !.timedOut = TRUE]
           kill == [call[c] EXCEPT !.phase = "kill"]
<1>1. /\ call[c] \in CallRecords /\ (call[c].phase # "running" => call[c].timedOut)
      /\ pc[c] = "top"
      /\ call[c].fds = Outputs \cup (call[c].open \cap {"in"}) /\ ~call[c].broke
      /\ \A s \in Outputs \ call[c].open : pipe[c][s] = 0 /\ ~Held(c, s)
  BY DEF SendTerm, SendKill, AtTop, EInv, Types, CallInv, FdsInv, ReportInv, WriterInv, Loop
<1>2. PICK new \in {term, kill}, sig \in {"term", "kill"}, to \in {"top", "poll"} :
         /\ call' = [call EXCEPT ![c] = new] /\ KillGroup(c, sig) /\ pc' = [pc EXCEPT ![c] = to]
         /\ new = kill => call[c].phase = "term"
         /\ UNCHANGED <<sigpipe, pipe>>
  <2>1. CASE SendTerm(c)
    <3>1. call' = [call EXCEPT ![c] = term] /\ KillGroup(c, "term") /\ UNCHANGED <<sigpipe, pc, pipe>>
      BY <2>1 DEF SendTerm
    <3>2. pc' = [pc EXCEPT ![c] = "top"]
      BY <1>1, <3>1 DEF EInv, Types
    <3>3. term # kill
      BY <1>1 DEF CallRecords
    <3> HIDE DEF term, kill
    <3> QED BY <3>1, <3>2, <3>3
  <2>2. CASE SendKill(c)
    BY <2>2 DEF SendKill, Goto
  <2> QED BY <2>1, <2>2
<1>3. /\ new \in CallRecords /\ new.broke = call[c].broke /\ new.got = call[c].got
      /\ new.truncated = call[c].truncated /\ new.timedOut
      /\ new.fds = call[c].fds /\ new.open = call[c].open
  <2>1. /\ term \in CallRecords /\ term.broke = call[c].broke /\ term.got = call[c].got
        /\ term.truncated = call[c].truncated /\ term.timedOut
        /\ term.fds = call[c].fds /\ term.open = call[c].open
    BY <1>1 DEF CallRecords
  <2>2. /\ kill \in CallRecords /\ kill.broke = call[c].broke /\ kill.got = call[c].got
        /\ kill.truncated = call[c].truncated /\ kill.timedOut = call[c].timedOut
        /\ kill.fds = call[c].fds /\ kill.open = call[c].open
    BY <1>1 DEF CallRecords
  <2> HIDE DEF term, kill
  <2>3. CASE new = term
    BY <2>1, <2>3
  <2>4. CASE new = kill
    <3>1. call[c].timedOut
      BY <1>1, <1>2, <2>4
    <3> QED BY <2>2, <2>4, <3>1
  <2> QED BY <1>2, <2>3, <2>4
<1> HIDE DEF term, kill
<1>4. /\ child' \in [Callers -> Children] /\ heir' \in [Callers -> Heirs]
      /\ \A d \in Callers \ {c} : child'[d] = child[d] /\ heir'[d] = heir[d]
      /\ child'[c].held \subseteq child[c].held /\ heir'[c].held \subseteq heir[c].held
      /\ child'[c].wrote = child[c].wrote
      /\ child'[c] = child[c] \/ child'[c].state = "zombie"
  BY <1>2, KillGroupMoves
<1>5. Types' /\ Only(c)
  BY <1>2, <1>3, <1>4 DEF EInv, Types, Only, Places, Loop
<1>6. call'[c] = new /\ pc'[c] = to /\ pipe' = pipe
  BY <1>2 DEF EInv, Types
<1>7. CallInv(c)'
  BY <1>1, <1>2, <1>3, <1>4, <1>6
     DEF EInv, CallInv, FdsInv, ReportInv, WriterInv, AccountInv, Loop, Held
<1> QED BY <1>5, <1>7, LocalStep

-----------------------------------------------------------------------------
(* Returning, and the end of the program.                                  *)

LEMMA ReturnKeeps ==
    ASSUME EInv, NEW c \in Callers, Return(c)
    PROVE  EInv'
<1>1. /\ pc[c] = "wait" /\ pc'[c] = "idle" /\ child'[c] = NoChild
      /\ call' = call /\ pipe' = pipe /\ heir' = heir /\ call[c] \in CallRecords
  BY DEF EInv, Types, Return, Goto
<1>2. NoChild \in Children
  BY DEF NoChild, Children, Ends, Outputs
<1>3. Types' /\ Only(c)
  BY <1>2 DEF EInv, Types, Return, Goto, Only, Places, CallRecords
<1>4. CallInv(c)'
  BY <1>1 DEF EInv, CallInv, FdsInv, ReportInv, WriterInv, AccountInv, NoChild, Loop, Held
<1> QED BY <1>3, <1>4, LocalStep

LEMMA DieKeeps ==
    ASSUME EInv, Die, UNCHANGED <<sigpipe, pipe, child, heir>>
    PROVE  EInv'
<1>1. ASSUME NEW c \in Callers
      PROVE  /\ call'[c] = [call[c] EXCEPT !.open = {}, !.fds = {}, !.ready = {}]
             /\ call'[c] \in CallRecords /\ call'[c].phase = call[c].phase
             /\ call'[c].timedOut = call[c].timedOut /\ pc'[c] = "dead"
  <2>1. call[c] \in CallRecords
    BY DEF EInv, Types
  <2>2. call'[c] = [call[c] EXCEPT !.open = {}, !.fds = {}, !.ready = {}] /\ pc'[c] = "dead"
    BY DEF Die
  <2> QED BY <2>1, <2>2 DEF CallRecords
<1>2. Types'
  BY <1>1 DEF EInv, Types, Die, Places
<1>3. ASSUME NEW c \in Callers PROVE CallInv(c)'
  BY <1>1 DEF EInv, CallInv, FdsInv, ReportInv, WriterInv, AccountInv, Loop, Held
<1> QED BY <1>2, <1>3 DEF EInv

LEMMA StepKeeps == EInv /\ [Next]_vars => EInv'
<1> SUFFICES ASSUME EInv, [Next]_vars PROVE EInv'
  OBVIOUS
<1>1. ASSUME NEW c \in Callers, NEW prog \in Programs, NEW timeout \in BOOLEAN,
             NEW stdin \in Stdins \cup {NoStdin}, IgnoreSigpipe(c, prog, timeout, stdin)
      PROVE  EInv'
  BY <1>1, IgnoreSigpipeKeeps
<1>2. ASSUME NEW c \in Callers, LaunchStep(c) PROVE EInv'
  BY <1>2, ForkKeeps, LaunchFailsKeeps, LaunchedKeeps DEF LaunchStep
<1>3. ASSUME NEW c \in Callers, LoopStep(c) PROVE EInv'
  <2>1. ASSUME TimePasses(c) PROVE EInv'
    BY <2>1, KillsKeep, LeavingKeeps DEF TimePasses
  <2>2. ASSUME NEW s \in Outputs, DrainRead(c, s) \/ DrainEof(c, s) \/ DrainWouldBlock(c, s)
        PROVE  EInv'
    BY <2>2, DrainReadKeeps, ReadyAndEofKeep, PlaceKeeps
  <2>3. ASSUME NEW s \in Ends, SkipStage(c, s) PROVE EInv'
    BY <2>3, PlaceKeeps
  <2>4. CASE StartPoll(c) \/ PollReady(c) \/ PollReturnsNothing(c) \/ PollFails(c)
    BY <2>4, PlaceKeeps, ReadyAndEofKeep, LeavingKeeps
  <2>5. CASE FeedNothing(c)
    BY <2>5, FinishStdinKeeps DEF FeedNothing, Feeding, Loop
  <2>6. CASE Feed(c)
    BY <2>6, FeedKeeps
  <2>7. CASE FeedBroken(c)
    BY <2>7, FinishStdinKeeps, DieKeeps DEF FeedBroken, Feeding, Loop
  <2> QED BY <1>3, <2>1, <2>2, <2>3, <2>4, <2>5, <2>6, <2>7 DEF LoopStep
<1>4. ASSUME NEW c \in Callers, ReturnStep(c) PROVE EInv'
  BY <1>4, LeavingKeeps, ReturnKeeps DEF ReturnStep
<1>5. ASSUME NEW c \in Callers, LoadStep(c) PROVE EInv'
  BY <1>5, LoadKeeps
<1>6. ASSUME NEW c \in Callers, ProgramStep(c) \/ HeirExits(c) PROVE EInv'
  BY <1>6, CommandKeeps, ChildWritesKeeps, ChildReadsKeeps, HeirKeeps DEF ProgramStep
<1>7. CASE ScriptKilled
  BY <1>7, DieKeeps DEF ScriptKilled
<1>8. CASE UNCHANGED vars
  BY <1>8 DEF vars, EInv, Types, CallInv, FdsInv, ReportInv, WriterInv, AccountInv, Held
<1> QED BY <1>1, <1>2, <1>3, <1>4, <1>5, <1>6, <1>7, <1>8 DEF Next, Dead

-----------------------------------------------------------------------------
(* For every call at every place: its descriptors, what it will report of  *)
(* a kill, who can still write, and where the chunks written are.          *)
THEOREM InvariantHolds == Spec => []EInv
BY InitHolds, StepKeeps, PTL DEF Spec

(* Every local of exec, its pipes and its processes keep their types.      *)
THEOREM TypeCorrect == Spec => []TypeOK
<1>1. EInv => TypeOK
  BY DEF EInv, Types, TypeOK, Places, CallRecords, Children, Heirs
<1> QED BY <1>1, InvariantHolds, PTL

(* The poll loop closes each of its descriptors once: stdin exactly when   *)
(* in_open falls, the two outputs not before the loop is over.             *)
THEOREM NoDoubleCloseHolds == Spec => []NoDoubleClose
<1>1. EInv => NoDoubleClose
  BY DEF EInv, CallInv, FdsInv, NoDoubleClose
<1> QED BY <1>1, InvariantHolds, PTL

(* A call that returned leaves no descriptor open, but for that of stdin   *)
(* when it gave its loop up.                                               *)
THEOREM LeakOnlyAfterBreakHolds == Spec => []LeakOnlyAfterBreak
<1>1. EInv => LeakOnlyAfterBreak
  BY DEF EInv, CallInv, FdsInv, LeakOnlyAfterBreak
<1> QED BY <1>1, InvariantHolds, PTL

(* A command that exec killed is reported as timed out.                    *)
THEOREM KilledIsReportedHolds == Spec => KilledIsReported
<1>1. EInv => \A c \in Callers : child[c].code \in {"term", "kill"} => call[c].timedOut
  BY DEF EInv, CallInv, ReportInv
<1>2. EInv /\ [Next]_vars =>
         [\A c \in Callers : Return(c) /\ child[c].code \in {"term", "kill"} => call[c].timedOut]_vars
  BY <1>1
<1> QED BY <1>2, InvariantHolds, PTL DEF Spec, KilledIsReported

(* The result of a call that did not give its loop up holds what the       *)
(* command wrote, up to max_output, and says whether there was more.       *)
THEOREM OutputIsCompleteHolds == Spec => OutputIsComplete
<1>1. ASSUME EInv, NEW c \in Callers, Return(c), ~call[c].broke, NEW s \in Outputs
      PROVE  LET n == child[c].wrote[s] IN
               /\ call[c].got[s] = IF n <= MaxOutput THEN n ELSE MaxOutput
               /\ call[c].truncated[s] <=> n > MaxOutput
  <2>1. pc[c] = "wait" /\ call[c].open = {}
    BY <1>1 DEF Return, EInv, CallInv, FdsInv
  <2>2. pipe[c][s] = 0 /\ child[c].wrote[s] \in Nat
    BY <1>1, <2>1 DEF EInv, Types, CallInv, WriterInv, Children
  <2> QED BY <1>1, <2>1, <2>2 DEF EInv, CallInv, AccountInv
<1>2. EInv /\ [Next]_vars =>
         [\A c \in Callers : Return(c) /\ ~call[c].broke =>
            \A s \in Outputs :
              LET n == child[c].wrote[s] IN
                /\ call[c].got[s] = IF n <= MaxOutput THEN n ELSE MaxOutput
                /\ call[c].truncated[s] <=> n > MaxOutput]_vars
  BY <1>1
<1> QED BY <1>2, InvariantHolds, PTL DEF Spec, OutputIsComplete
=============================================================================
