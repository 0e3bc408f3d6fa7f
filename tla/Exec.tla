-------------------------------- MODULE Exec --------------------------------
(***************************************************************************)
(* babet.exec (src/lua_bindings/exec.cpp): a thread of the program (main   *)
(* or a worker) forks a child, feeds its stdin and reads its stdout and    *)
(* stderr through non-blocking pipes in one poll loop, with an optional    *)
(* timeout that sends SIGTERM, then SIGKILL, then gives the loop up, and   *)
(* reaps the child.  The calls of different threads share the disposition  *)
(* of SIGPIPE.                                                             *)
(*                                                                         *)
(* Data is counted in chunks: one read takes one.  A child is any program  *)
(* that reads its stdin to the end, writes, closes its descriptors, leaves *)
(* a descendant behind and exits, in any order.                            *)
(***************************************************************************)
EXTENDS Naturals, FiniteSets

CONSTANTS
    Callers,    \* the threads that call exec
    Main,       \* the main thread; a worker and its children block signals
    Programs,   \* the commands: a set of records, see ProgramsAssumption
    Stdins,     \* the sizes of opts.stdin; NoStdin when absent
    NoStdin,
    MaxOutput,  \* opts.max_output
    PipeCap,    \* what a pipe holds
    MaxWrites,  \* bound on what a program writes on each stream
    PollMayFail \* whether poll can fail otherwise than with EINTR (ENOMEM)

ASSUME ProgramsAssumption ==
    Programs \subseteq [stubborn : BOOLEAN,  \* survives SIGTERM
                        closes : BOOLEAN,    \* may close stdin, stdout or stderr early
                        heir : {"no", "group", "escaped"}]
                           \* may leave a descendant, in its process group or not
ASSUME StdinsAssumption == Stdins \subseteq Nat /\ NoStdin \notin Nat
ASSUME SizesAssumption ==
    /\ MaxOutput \in Nat \ {0} /\ PipeCap \in Nat \ {0} /\ MaxWrites \in Nat
    /\ PollMayFail \in BOOLEAN

VARIABLES
    sigpipe,  \* the disposition of SIGPIPE, "default" or "ignore"
    pc,       \* where each caller is, "dead" once a signal killed the program
    call,     \* the locals of its call, kept after the return for its result
    pipe,     \* the chunks in its three pipes
    child,    \* its child process
    heir      \* the descendant that child left

vars == <<sigpipe, pc, call, pipe, child, heir>>

-----------------------------------------------------------------------------
Outputs == {"out", "err"}
Ends == Outputs \cup {"in"}
Loop == {"top", "poll", "out", "err", "in"}

NoProgram == [stubborn |-> FALSE, closes |-> FALSE, heir |-> "no"]
NewCall(prog, timeout, stdin) ==
    [prog |-> prog, timeout |-> timeout, stdin |-> stdin, saved |-> sigpipe,
     left |-> IF stdin = NoStdin THEN 0 ELSE stdin,
     open |-> {}, fds |-> {}, ready |-> {},
     got |-> [s \in Outputs |-> 0], truncated |-> [s \in Outputs |-> FALSE],
     phase |-> "running", timedOut |-> FALSE, broke |-> FALSE]
NoChild == [state |-> "none", op |-> "run", held |-> {}, wrote |-> [s \in Outputs |-> 0],
            code |-> "none"]
NoHeir == [state |-> "none", held |-> {}]
Ended == [state |-> "ended", held |-> {}]

(* Some process holds the other end of the pipe e of c's call.             *)
Held(c, e) == e \in child[c].held \cup heir[c].held

(* What poll reports: data or end of file, room or a broken pipe.          *)
Ready(c) ==
    {s \in call[c].open \cap Outputs : pipe[c][s] > 0 \/ ~Held(c, s)}
    \cup {e \in call[c].open \cap {"in"} : pipe[c][e] < PipeCap \/ ~Held(c, e)}

Alive == \A c \in Callers : pc[c] # "dead"

NextStage(s) == CASE s = "out" -> "err" [] s = "err" -> "in" [] s = "in" -> "top"

Init ==
    /\ sigpipe = "default"
    /\ pc = [c \in Callers |-> "idle"]
    /\ call = [c \in Callers |-> NewCall(NoProgram, FALSE, NoStdin)]
    /\ pipe = [c \in Callers |-> [e \in Ends |-> 0]]
    /\ child = [c \in Callers |-> NoChild]
    /\ heir = [c \in Callers |-> NoHeir]

-----------------------------------------------------------------------------
(* Launching.                                                              *)

Goto(c, l) == pc' = [pc EXCEPT ![c] = l]

(* The kernel closes the descriptors of a program that dies.               *)
Die ==
    /\ pc' = [c \in Callers |-> "dead"]
    /\ call' = [c \in Callers |-> [call[c] EXCEPT !.open = {}, !.fds = {}, !.ready = {}]]

(* The pipes are created, then SIGPIPE is ignored for the whole process.   *)
(* (One descendant per call is followed, until the next call.)               *)
IgnoreSigpipe(c, prog, timeout, stdin) ==
    /\ pc[c] = "idle" /\ heir[c].state \in {"none", "ended"}
    /\ heir' = [heir EXCEPT ![c] = NoHeir]
    /\ call' = [call EXCEPT ![c] = NewCall(prog, timeout, stdin)]
    /\ sigpipe' = "ignore"
    /\ pipe' = [pipe EXCEPT ![c] = [e \in Ends |-> 0]]
    /\ Goto(c, "fork")
    /\ UNCHANGED child

ForkFails(c) ==
    /\ pc[c] = "fork"
    /\ sigpipe' = call[c].saved
    /\ Goto(c, "idle")
    /\ UNCHANGED <<call, pipe, child, heir>>

(* The child leads a process group of its own (both sides call setpgid).   *)
Fork(c) ==
    /\ pc[c] = "fork"
    /\ child' = [child EXCEPT ![c] = [NoChild EXCEPT !.state = "starting", !.held = Ends]]
    /\ call' = [call EXCEPT ![c].fds = Ends]
    /\ Goto(c, "launch")
    /\ UNCHANGED <<sigpipe, pipe, heir>>

ChildExecs(c) ==
    /\ child[c].state = "starting"
    /\ child' = [child EXCEPT ![c].state = "running"]
    /\ UNCHANGED <<sigpipe, pc, call, pipe, heir>>

(* chdir or execvpe failed: errno goes through pipe_exec, then _exit(127). *)
ChildFails(c) ==
    /\ child[c].state = "starting"
    /\ child' = [child EXCEPT ![c].state = "zombie", ![c].held = {}, ![c].code = "launch"]
    /\ UNCHANGED <<sigpipe, pc, call, pipe, heir>>

MutantLaunchFailsKeepsIn(c) ==
    /\ pc[c] = "launch" /\ child[c].code = "launch"
    /\ call' = [call EXCEPT ![c].fds = {"in"}]
    /\ child' = [child EXCEPT ![c] = NoChild]
    /\ sigpipe' = call[c].saved
    /\ Goto(c, "idle")
    /\ UNCHANGED <<pipe, heir>>

(* errno came through pipe_exec: close everything, reap, (nil, err).       *)
LaunchFails(c) ==
    /\ pc[c] = "launch" /\ child[c].code = "launch"
    /\ call' = [call EXCEPT ![c].fds = {}]
    /\ child' = [child EXCEPT ![c] = NoChild]
    /\ sigpipe' = call[c].saved
    /\ Goto(c, "idle")
    /\ UNCHANGED <<pipe, heir>>

(* pipe_exec was closed by execvpe: the command runs.                      *)
Launched(c) ==
    /\ pc[c] = "launch" /\ child[c].state # "starting" /\ child[c].code # "launch"
    /\ LET parent == IF call[c].stdin = NoStdin THEN Outputs ELSE Ends IN
         call' = [call EXCEPT ![c].open = parent, ![c].fds = parent]
    /\ Goto(c, "top")
    /\ UNCHANGED <<sigpipe, pipe, child, heir>>

-----------------------------------------------------------------------------
(* The poll loop.                                                          *)

AtTop(c) == pc[c] = "top" /\ call[c].open # {}

(* kill_group: the child and those of its descendants that stayed in its   *)
(* group.  The children of a worker inherit its signal mask, SIGTERM       *)
(* included; nothing survives SIGKILL.                                     *)
KillGroup(c, sig) ==
    IF sig = "kill" \/ (c = Main /\ ~call[c].prog.stubborn)
    THEN /\ child' = IF child[c].state # "running" THEN child
                     ELSE [child EXCEPT ![c].state = "zombie", ![c].held = {}, ![c].code = sig]
         /\ heir' = IF heir[c].state # "group" THEN heir ELSE [heir EXCEPT ![c] = Ended]
    ELSE UNCHANGED <<child, heir>>

MutantTermUnreported(c) ==
    /\ AtTop(c) /\ call[c].timeout /\ call[c].phase = "running"
    /\ KillGroup(c, "term")
    /\ call' = [call EXCEPT ![c].phase = "term"]
    /\ UNCHANGED <<sigpipe, pc, pipe>>

(* The time limit has passed when the loop looks at the clock.             *)
SendTerm(c) ==
    /\ AtTop(c) /\ call[c].timeout /\ call[c].phase = "running"
    /\ KillGroup(c, "term")
    /\ call' = [call EXCEPT ![c].phase = "term", ![c].timedOut = TRUE]
    /\ UNCHANGED <<sigpipe, pc, pipe>>

(* The grace delay has passed too.                                         *)
SendKill(c) ==
    /\ AtTop(c) /\ call[c].phase = "term"
    /\ KillGroup(c, "kill")
    /\ call' = [call EXCEPT ![c].phase = "kill"]
    /\ Goto(c, "poll")
    /\ UNCHANGED <<sigpipe, pipe>>

MutantNeverAbandon(c) == FALSE /\ UNCHANGED vars

(* So has post_kill_deadline: break, whatever is still open.               *)
Abandon(c) ==
    /\ AtTop(c) /\ call[c].phase = "kill"
    /\ call' = [call EXCEPT ![c].broke = TRUE]
    /\ Goto(c, "leave")
    /\ UNCHANGED <<sigpipe, pipe, child, heir>>

TimePasses(c) == SendTerm(c) \/ SendKill(c) \/ Abandon(c)

StartPoll(c) ==
    /\ AtTop(c)
    /\ Goto(c, "poll")
    /\ UNCHANGED <<sigpipe, call, pipe, child, heir>>

PollReady(c) ==
    /\ pc[c] = "poll" /\ Ready(c) # {}
    /\ call' = [call EXCEPT ![c].ready = Ready(c)]
    /\ Goto(c, "out")
    /\ UNCHANGED <<sigpipe, pipe, child, heir>>

(* A bounded poll expired, or a signal of the main thread interrupted it.  *)
PollReturnsNothing(c) ==
    /\ pc[c] = "poll" /\ Ready(c) = {}
    /\ call[c].timeout \/ c = Main
    /\ Goto(c, "top")
    /\ UNCHANGED <<sigpipe, call, pipe, child, heir>>

PollFails(c) ==
    /\ PollMayFail /\ pc[c] = "poll"
    /\ call' = [call EXCEPT ![c].broke = TRUE]
    /\ Goto(c, "leave")
    /\ UNCHANGED <<sigpipe, pipe, child, heir>>

(* drain_fd on stdout, then on stderr, reads until EAGAIN or end of file;  *)
(* what exceeds max_output is read and dropped.                            *)
Draining(c, s) == pc[c] = s /\ s \in call[c].ready

DrainRead(c, s) ==
    /\ Draining(c, s) /\ pipe[c][s] > 0
    /\ pipe' = [pipe EXCEPT ![c][s] = @ - 1]
    /\ call' = IF call[c].got[s] < MaxOutput THEN [call EXCEPT ![c].got[s] = @ + 1]
               ELSE [call EXCEPT ![c].truncated[s] = TRUE]
    /\ UNCHANGED <<sigpipe, pc, child, heir>>

MutantDrainEofCloses(c, s) ==
    /\ Draining(c, s) /\ pipe[c][s] = 0 /\ ~Held(c, s)
    /\ call' = [call EXCEPT ![c].open = @ \ {s}, ![c].fds = @ \ {s}]
    /\ Goto(c, NextStage(s))
    /\ UNCHANGED <<sigpipe, pipe, child, heir>>

DrainEof(c, s) ==
    /\ Draining(c, s) /\ pipe[c][s] = 0 /\ ~Held(c, s)
    /\ call' = [call EXCEPT ![c].open = @ \ {s}]
    /\ Goto(c, NextStage(s))
    /\ UNCHANGED <<sigpipe, pipe, child, heir>>

MutantWouldBlockIsEof(c, s) ==
    /\ Draining(c, s) /\ pipe[c][s] = 0 /\ Held(c, s)
    /\ call' = [call EXCEPT ![c].open = @ \ {s}]
    /\ Goto(c, NextStage(s))
    /\ UNCHANGED <<sigpipe, pipe, child, heir>>

DrainWouldBlock(c, s) ==
    /\ Draining(c, s) /\ pipe[c][s] = 0 /\ Held(c, s)
    /\ Goto(c, NextStage(s))
    /\ UNCHANGED <<sigpipe, call, pipe, child, heir>>

SkipStage(c, s) ==
    /\ pc[c] = s /\ s \notin call[c].ready
    /\ Goto(c, NextStage(s))
    /\ UNCHANGED <<sigpipe, call, pipe, child, heir>>

(* stdin: one write of what fits; the descriptor is closed after the last  *)
(* chunk, or on EPIPE.                                                     *)
Feeding(c) == pc[c] = "in" /\ "in" \in call[c].ready

FinishStdin(c) == call' = [call EXCEPT ![c].left = 0, ![c].open = @ \ {"in"}, ![c].fds = @ \ {"in"}]

FeedNothing(c) ==
    /\ Feeding(c) /\ call[c].left = 0
    /\ FinishStdin(c)
    /\ Goto(c, "top")
    /\ UNCHANGED <<sigpipe, pipe, child, heir>>

MutantFeedBlocks(c) ==
    /\ Feeding(c) /\ call[c].left > 0 /\ Held(c, "in")
    /\ pipe[c]["in"] < PipeCap
    /\ pipe' = [pipe EXCEPT ![c]["in"] = @ + 1]
    /\ IF call[c].left = 1 THEN FinishStdin(c) /\ Goto(c, "top")
       ELSE call' = [call EXCEPT ![c].left = @ - 1] /\ UNCHANGED pc
    /\ UNCHANGED <<sigpipe, child, heir>>

Feed(c) ==
    /\ Feeding(c) /\ call[c].left > 0 /\ Held(c, "in")
    /\ LET room == PipeCap - pipe[c]["in"] IN
         IF call[c].left <= room
         THEN /\ pipe' = [pipe EXCEPT ![c]["in"] = @ + call[c].left]
              /\ FinishStdin(c)
         ELSE /\ pipe' = [pipe EXCEPT ![c]["in"] = PipeCap]
              /\ call' = [call EXCEPT ![c].left = @ - room]
    /\ Goto(c, "top")
    /\ UNCHANGED <<sigpipe, child, heir>>

(* The pipe is broken: SIGPIPE, fatal if it is not ignored and not blocked.*)
FeedBroken(c) ==
    /\ Feeding(c) /\ call[c].left > 0 /\ ~Held(c, "in")
    /\ IF sigpipe = "ignore" \/ c # Main THEN FinishStdin(c) /\ Goto(c, "top") ELSE Die
    /\ UNCHANGED <<sigpipe, pipe, child, heir>>

-----------------------------------------------------------------------------
(* Returning.                                                              *)

CloseOutputs(c) ==
    /\ pc[c] = "leave" \/ (pc[c] = "top" /\ call[c].open = {})
    /\ call' = [call EXCEPT ![c].open = {}, ![c].fds = @ \ Outputs, ![c].ready = {}]
    /\ Goto(c, "wait")
    /\ UNCHANGED <<sigpipe, pipe, child, heir>>

(* waitpid, without a time limit, then the result table.                   *)
Return(c) ==
    /\ pc[c] = "wait" /\ child[c].state = "zombie"
    /\ child' = [child EXCEPT ![c] = NoChild]
    /\ sigpipe' = call[c].saved
    /\ Goto(c, "idle")
    /\ UNCHANGED <<call, pipe, heir>>

-----------------------------------------------------------------------------
(* The other processes.                                                    *)

Running(c) == child[c].state = "running"

(* The program decides to read, or to write on a descriptor it still has.  *)
ChildStarts(c, e) ==
    /\ Running(c) /\ child[c].op = "run" /\ e \in child[c].held
    /\ e \in Outputs => child[c].wrote[e] < MaxWrites
    /\ child' = [child EXCEPT ![c].op = e]
    /\ UNCHANGED <<sigpipe, pc, call, pipe, heir>>

ChildWrites(c, s) ==
    /\ Running(c) /\ child[c].op = s
    /\ s \in call[c].fds /\ pipe[c][s] < PipeCap
    /\ pipe' = [pipe EXCEPT ![c][s] = @ + 1]
    /\ child' = [child EXCEPT ![c].op = "run", ![c].wrote[s] = @ + 1]
    /\ UNCHANGED <<sigpipe, pc, call, heir>>

(* EPIPE: the child inherits the ignored SIGPIPE.                          *)
ChildWriteFails(c, s) ==
    /\ Running(c) /\ child[c].op = s /\ s \notin call[c].fds
    /\ child' = [child EXCEPT ![c].op = "run", ![c].held = @ \ {s}]
    /\ UNCHANGED <<sigpipe, pc, call, pipe, heir>>

ChildReads(c) ==
    /\ Running(c) /\ child[c].op = "in" /\ pipe[c]["in"] > 0
    /\ pipe' = [pipe EXCEPT ![c]["in"] = @ - 1]
    /\ child' = [child EXCEPT ![c].op = "run"]
    /\ UNCHANGED <<sigpipe, pc, call, heir>>

(* End of file on stdin: nothing more to read.                             *)
ChildReadsEof(c) ==
    /\ Running(c) /\ child[c].op = "in" /\ pipe[c]["in"] = 0 /\ "in" \notin call[c].fds
    /\ child' = [child EXCEPT ![c].op = "run", ![c].held = @ \ {"in"}]
    /\ UNCHANGED <<sigpipe, pc, call, pipe, heir>>

ChildCloses(c, e) ==
    /\ Running(c) /\ child[c].op = "run" /\ call[c].prog.closes /\ e \in child[c].held
    /\ child' = [child EXCEPT ![c].held = @ \ {e}]
    /\ UNCHANGED <<sigpipe, pc, call, pipe, heir>>

ChildForks(c) ==
    /\ Running(c) /\ child[c].op = "run" /\ heir[c].state = "none"
    /\ call[c].prog.heir # "no"
    /\ heir' = [heir EXCEPT ![c] = [state |-> call[c].prog.heir, held |-> child[c].held]]
    /\ UNCHANGED <<sigpipe, pc, call, pipe, child>>

ChildExits(c) ==
    /\ Running(c) /\ child[c].op = "run"
    /\ child' = [child EXCEPT ![c].state = "zombie", ![c].held = {}, ![c].code = "own"]
    /\ UNCHANGED <<sigpipe, pc, call, pipe, heir>>

HeirExits(c) ==
    /\ heir[c].state \in {"group", "escaped"}
    /\ heir' = [heir EXCEPT ![c] = Ended]
    /\ UNCHANGED <<sigpipe, pc, call, pipe, child>>

(* A signal with its default disposition kills the program.                *)
ScriptKilled ==
    /\ Alive
    /\ Die
    /\ UNCHANGED <<sigpipe, pipe, child, heir>>

Dead == ~Alive /\ UNCHANGED vars

-----------------------------------------------------------------------------
LaunchStep(c) == ForkFails(c) \/ Fork(c) \/ LaunchFails(c) \/ Launched(c)
LoopStep(c) ==
    \/ TimePasses(c) \/ StartPoll(c) \/ PollReady(c) \/ PollReturnsNothing(c) \/ PollFails(c)
    \/ \E s \in Outputs : DrainRead(c, s) \/ DrainEof(c, s) \/ DrainWouldBlock(c, s)
    \/ \E s \in Ends : SkipStage(c, s)
    \/ FeedNothing(c) \/ Feed(c) \/ FeedBroken(c)
ReturnStep(c) == CloseOutputs(c) \/ Return(c)

LoadStep(c) == ChildExecs(c) \/ ChildFails(c)
ProgramStep(c) ==
    \/ \E e \in Ends : ChildStarts(c, e) \/ ChildCloses(c, e)
    \/ \E s \in Outputs : ChildWrites(c, s) \/ ChildWriteFails(c, s)
    \/ ChildReads(c) \/ ChildReadsEof(c) \/ ChildForks(c) \/ ChildExits(c)

Next ==
    \/ \E c \in Callers, prog \in Programs, timeout \in BOOLEAN, stdin \in Stdins \cup {NoStdin} :
          IgnoreSigpipe(c, prog, timeout, stdin)
    \/ \E c \in Callers :
          \/ LaunchStep(c) \/ LoopStep(c) \/ ReturnStep(c)
          \/ LoadStep(c) \/ ProgramStep(c) \/ HeirExits(c)
    \/ ScriptKilled
    \/ Dead

Spec == Init /\ [][Next]_vars

(* The calling threads are scheduled, the clock advances and the kernel    *)
(* runs a new child up to execvpe.  Nothing is assumed of the commands.    *)
CallerFairness(c) ==
    /\ WF_vars(LaunchStep(c) \/ LoopStep(c) \/ ReturnStep(c))
    /\ SF_vars(TimePasses(c))
    /\ WF_vars(LoadStep(c))

FairSpec == Spec /\ \A c \in Callers : CallerFairness(c)

(* The commands, and what they leave behind, end by themselves.            *)
CommandsEnd == \A c \in Callers : WF_vars(ProgramStep(c)) /\ WF_vars(HeirExits(c))

-----------------------------------------------------------------------------
(* Types.                                                                  *)
TypeOK ==
    /\ sigpipe \in {"default", "ignore"}
    /\ pc \in [Callers -> {"idle", "fork", "launch", "leave", "wait", "dead"} \cup Loop]
    /\ call \in [Callers ->
         [prog : Programs \cup {NoProgram}, timeout : BOOLEAN, stdin : Stdins \cup {NoStdin},
          saved : {"default", "ignore"}, left : Nat, open : SUBSET Ends, fds : SUBSET Ends,
          ready : SUBSET Ends, got : [Outputs -> 0 .. MaxOutput],
          truncated : [Outputs -> BOOLEAN], phase : {"running", "term", "kill"},
          timedOut : BOOLEAN, broke : BOOLEAN]]
    /\ pipe \in [Callers -> [Ends -> 0 .. PipeCap]]
    /\ child \in [Callers ->
         [state : {"none", "starting", "running", "zombie"}, op : Ends \cup {"run"},
          held : SUBSET Ends, wrote : [Outputs -> Nat],
          code : {"none", "launch", "own", "term", "kill"}]]
    /\ heir \in [Callers -> [state : {"none", "group", "escaped", "ended"}, held : SUBSET Ends]]

(* In the loop each descriptor is closed once: those of stdout and stderr  *)
(* stay open to the end, whatever end of file was seen, and that of stdin  *)
(* is closed exactly when in_open falls.                                   *)
NoDoubleClose ==
    \A c \in Callers : pc[c] \in Loop =>
        call[c].fds = Outputs \cup (call[c].open \cap {"in"})

(* Nothing the command wrote is lost, duplicated or silently cut: unless   *)
(* the loop was given up, the result holds the first max_output chunks and *)
(* the truncated flag says whether there were more.                        *)
OutputIsComplete ==
    [][\A c \in Callers : Return(c) /\ ~call[c].broke =>
         \A s \in Outputs :
            LET n == child[c].wrote[s] IN
              /\ call[c].got[s] = IF n <= MaxOutput THEN n ELSE MaxOutput
              /\ call[c].truncated[s] <=> n > MaxOutput]_vars

(* A command that exec killed is never reported as one that ended alone.   *)
KilledIsReported ==
    [][\A c \in Callers : Return(c) /\ child[c].code \in {"term", "kill"} =>
         call[c].timedOut]_vars

(* A call leaves no descriptor behind, except that of stdin when the loop  *)
(* was given up.                                                           *)
LeakOnlyAfterBreak ==
    \A c \in Callers : pc[c] = "idle" =>
        call[c].fds \subseteq (IF call[c].broke THEN {"in"} ELSE {})

(* No deadlock between the three pipes: when the command ends, exec does,  *)
(* whatever the order in which the command reads and writes.  (Not so if   *)
(* poll fails: stdin stays open, and a command that reads it to the end    *)
(* never ends.)                                                            *)
PollFailed(c) == call[c].broke /\ call[c].phase # "kill"

CallReturns ==
    CommandsEnd => \A c \in Callers :
        pc[c] # "idle" ~> pc[c] \in {"idle", "dead"} \/ PollFailed(c)

(* A call with a timeout gets out of its loop, although the command may    *)
(* never end and a descendant outside its process group may hold the pipes *)
(* for ever.  (Not so for a command that never stops writing: drain_fd     *)
(* does not look at the clock.)                                            *)
TimedCallLeavesLoop ==
    \A c \in Callers : (pc[c] \in Loop /\ call[c].timeout) ~> pc[c] \notin Loop

-----------------------------------------------------------------------------
(* Statements of the sources that the code does not keep.                  *)

(* exec.cpp: pipe_in[1] was closed on every path out of the loop.          *)
StdinClosedOnEveryPath == \A c \in Callers : pc[c] = "wait" => "in" \notin call[c].fds

(* exec.cpp: SIGPIPE is ignored during the call and restored at its end,   *)
(* so that a command that does not read its stdin never kills the program. *)
(* Of two threads that call exec, the first to return restores what it     *)
(* found, under the other.                                                 *)
SigpipeIgnoredWhileFeeding ==
    [][\A c \in Callers : FeedBroken(c) => Alive']_vars

(* exec.md: timeout kills the child if it takes longer, so that a call     *)
(* with a timeout returns.                                                 *)
TimedCallReturns ==
    \A c \in Callers : (pc[c] \in Loop /\ call[c].timeout) ~> pc[c] \in {"idle", "dead"}
=============================================================================
