# Babet in TLA+

Babet is a standalone Lua 5.5 runtime written in C++ (`src/src`): one executable
that runs a Lua project from a file, a folder or a ZIP appended to the
executable, with native modules for files, processes, signals, sockets, SQLite,
inotify and threads. This directory holds a model of the parts of it that are
hard to test, the TLC configurations that check the model, and proofs about it.

    tlc -workers 2 -config MCMessageQueue.cfg MCMessageQueue
    tlapm MessageQueueProofs.tla

`PROJECT.json` maps every definition to the lines it models and lists the runs,
the mutants, the findings, the hazards and the theorems.

## 1. Inventory

One process, one main thread with one `lua_State`, and one thread with a
`lua_State` of its own per worker. Each native module is a set of C++ functions
called from Lua; a module keeps its state in userdata, in file-scope variables
shared by all threads, or in the kernel.

| Component | State | Operations | Talks to |
|---|---|---|---|
| Message queue (`workers.cpp:72-281`) | deque, `closed`, mutex, two conditions | push, pop, close, init, destroy | the threads of one worker |
| Workers (`workers.cpp`) | Worker userdata: two queues, `status`, `result_json`, `err_msg`, `tid_valid`, `joined` | spawn, send, recv, close, join, poll, `__gc`; in the thread send, recv | queues; the serialiser |
| Signals (`signal.cpp`, `sleep.cpp`) | `g_pending` flags, callbacks in the registry, the count hook, signal masks | handle, ignore, default, the C handler, `signal_dispatch_pending`, sleep | every blocking function (EINTR); workers (masks) |
| Exec (`exec.cpp`) | locals of a call: three pipes, phase, outputs; SIGPIPE's disposition (process wide) | exec | the command and its descendants; workers |
| Sockets (`socket.cpp`) | Sock userdata: descriptor, `listening`, timeout, `recv_line_pending`, SSL; the process's TLS context | connect, connect_tls, starttls, listen, accept, send, recv, recv_line, recv_all, set_timeout, close | signals, the peer, other threads |
| Trees (`copyTree.cpp`, `moveTree.cpp`) | none of their own: two directory trees | copyTree, moveTree | the file system |
| SQLite (`sqlite.cpp`) | Db and Stmt (iterator) userdata | open, exec, query, close, the iterator's call, close and `__gc` | the library; metamethods of the parameters |
| Inotify (`inotify.cpp`) | a descriptor | new, add, remove, read, close | signals, the kernel's queue |
| Find and listings | an iteration | find, listFiles, fileIterator | the file system |
| JSON, TOML, values of workers | none | encode, decode, conversions with a depth limit | Lua tables |
| Time, users, system, tables, paths, checksums, small file operations | none | pure functions and single system calls | libc, kernel, OpenSSL |
| Start, embedded projects, creating an executable | module searchers, a temporary file | `main`, searchers, merge | Lua, miniz |

What is hard in each, and what makes it correct:

* **Message queue.** Any number of threads on two conditions, signalled one at a
  time. A sleeping thread must never be left behind with something to do; a
  closed queue must have no sleeper; queued messages outlive the close; a
  deadline neither loses a message nor moves.
* **Workers.** The parent can join, poll and collect in any order while the
  thread publishes its outcome, closes its queues and runs `lua_close`, whose
  finalizers can still use the queues. The thread is joined once, nothing is
  freed under it, the answer matches the outcome, a collection ends.
* **Signals.** The C handler runs between any two instructions; callbacks are
  Lua code that may sleep, register or be preempted by the hook. No delivery is
  lost or served twice, and none reaches a callback that was taken away.
* **Exec.** Parent, command and descendants share pipes of bounded capacity, the
  command may end, hang, close its descriptors or ignore SIGTERM at any moment,
  and calls of several threads share SIGPIPE. No deadlock, complete output, no
  descriptor closed twice or leaked, a truthful status, a timeout that is one.
* **Sockets.** Several blocking steps under one deadline, signals in each, TLS
  records that hide data from poll, bytes kept from one call to the next, and a
  dozen ways to fail while a socket is made. The program gets the bytes in the
  order the peer sent them, once each; a send hands over a whole string or fails; descriptors
  and SSL objects have one owner.
* **Trees.** Many system calls of which any may fail, a source that is removed
  file by file. What the call reports is in the destination; nothing is in
  neither tree.
* **SQLite.** Lives decided by the script, by Lua's collector and by errors that
  jump over C++ code. No use after close, no statement without an owner.
* **Inotify.** A bounded queue in the kernel, other readers of it, reads that
  start over. Losses are reported, a timeout is one.
* The pure parts: depth limits, calendar arithmetic, sharing and cycles, the
  moves of an iterator.

`PROJECT.json` lists all components with their status, and 40 hazards, each at
its line, with the properties that cover it or the reason why none does. Left
out of that list, as of less weight: a positive timeout of a queue below one
millisecond (`workers.cpp:1380`), `drain_fd` that never looks at the clock
(`exec.cpp:277`), what a command inherits of masks, of SIGPIPE and of low
descriptors (`exec.cpp:548-557`), 2^63 as a float in `coerce_lua_integer`
(`time_format.cpp:471`) and very large timeouts of inotify (`inotify.cpp:380`).

## 2. Modules

| Module | Models | Lines of |
|---|---|---|
| `BoundedChannel` | the abstract queue: a bounded FIFO with blocking, timed and non-blocking calls and a close, no synchronisation | (specification) |
| `MessageQueue` | `struct MessageQueue` | workers.cpp 72-281 |
| `Workers` | one worker, two instances of `MessageQueue` | workers.cpp 287-1547 |
| `Signals` | signal and sleep in the main thread | signal.cpp, sleep.cpp |
| `Exec` | exec, several callers, commands, descendants | exec.cpp |
| `Socket` | one connected socket, plain or TLS, and its peer | socket.cpp |
| `SocketSetup` | making and closing sockets, several threads | socket.cpp |
| `Sqlite` | connections, statements, iterators | sqlite.cpp |
| `Trees` | one call of copyTree or moveTree | copyTree.cpp, moveTree.cpp |
| `Inotify` | one watcher and the kernel's queue | inotify.cpp |
| `Calendar` | dates and durations | time_format.cpp |
| `CalendarDays` | the Gregorian calendar, counted day by day | (reference) |
| `Durations` | every duration, written number by number, and its sum | (reference) |
| `DeepCopy` | deepCopyTable | deepCopyTable.cpp |
| `LuaValues` | Lua values as JSON and as messages | json.cpp, workers.cpp |
| `Find` | find over the library's iterator | find.cpp |
| `...Proofs` | the theorems about a module (section 4); `SocketProofs` about `Socket` and `SocketSetup`, `DataProofs` about `Inotify`, `CalendarDays`, `Durations`, `DeepCopy`, `Find` and `LuaValues` | |
| `MC...` | the instances TLC checks; `MCFunctions` has the pure ones, one after the other | |

Operators whose name begins with `Mutant` are mistakes such code could have. No
specification uses them; putting one in the place of the definition after it
makes the property named in `PROJECT.json` fail, which shows that the property
depends on the code. Each module of state has a `TypeOK`, which TLC confirmed
and the runs do not repeat; it is a theorem, or part of one, where section 4
says so.

### MessageQueue

`q` and `closed` are the fields; `pc[t]` says whether thread `t` is outside,
asleep on a condition, woken, or back from an expired wait; `req[t]` is the call
it is in. A step is what a thread does while it holds `mu`: `Push` and `Pop` are
the first pass of a call, `Resume` a pass after a wait, `Close` the whole of
close. The kernel adds `SpuriousWakeup` and `Expire`. `Signal(cond, pcs)` wakes
one sleeper, whichever, and `pthread_cond_signal` with nobody asleep is lost, as
it is in pthreads. The clock is abstract: a deadline is something that may pass
while a timed call sleeps.

`ImplementsChannel` maps the queue on `BoundedChannel` (`chan <- q`,
`open <- ~closed`, `waiting <- req`): sleeping, waking and going back to sleep
are stutters there.

### Workers

Variables carry the names of the fields; `parent` says where the parent is in a
method that takes several steps (join, poll, `__gc`), `wpc` and `path` where the
thread is in its epilogue. The three ways to end (`EarlyPath`, `ErrorPath`,
`DonePath`) are the orders in which `worker_thread_main` stores its outcome,
publishes the status, closes the queues and runs `lua_close`. Scripts are
arbitrary: each side calls any method it has in any order, and finalizers run by
`lua_close` may still call send and recv. `InitMayFail` lets the creation of a
mutex or a condition fail. A call on a queue that was never initialised ends in
`parent = "undefined"`.

### Signals

`pending` is `g_pending`, `callback` the table in the registry, `hooked` the
coroutines that carry the count hook, `stack` the nested activations of
`signal_dispatch_pending`. `unserved` is a ghost: the delivery has not reached a
callback yet. `Sleep`, `EnterNanosleep`, `AfterEintr` separate the entry into
`lua_sleep` from the system call, so that a signal can arrive between them.
`SpawnWorker` and `WorkerMasks` are the window in which a new worker has the
signals unblocked and can take one in the main thread's place.

### Exec

`call[c]` holds the locals of the call of thread `c`; `pc[c]` its place in the
function, the poll loop being `top`, `poll`, `out`, `err`, `in`; `child[c]` is the
command, `heir[c]` a process it left behind, in its group or out of it. Data is
counted in chunks. Commands are arbitrary within `Programs`: they read, write,
close, fork and exit in any order.

### Socket

The peer sends the bytes of `Stream` in order, so a byte is its position and
each place a byte can be in is an interval: handed out (`given`), deciphered in
OpenSSL (`plain`), in OpenSSL and part of an unfinished record (`taken`), in the
kernel (`arrived`). `pc` and `op` are the call in progress: `pollIn` and `pollOut`
are `wait_ready_deadline`, `flush` and `drain` the same wait for the other
direction (SSL_ERROR_WANT_WRITE of a read, WANT_READ of a write), `sending` is
`send(2)` asleep, which happens without a timeout only. `pending` is
`recv_line_pending`, `acc` what the call has collected, `wpend` the record
OpenSSL has not finished writing. `Fail` is the error path of all the calls:
recv_line keeps what it has, recv_all throws it away. `Return` ends a call.
A peer may send for ever: when the script has all of `Stream` and the call does not
depend on the positions, they start again (`Renumber`).

A send has a string (`msg`) at an address (`addr`). OpenSSL without
`SSL_MODE_ACCEPT_MOVING_WRITE_BUFFER` (`socket.cpp:528`) knows the write it has not finished
by the address and the length it was given (`socket.cpp:1094`), and `SslWrite` and
`SslBadRetry` decide by `wpend.addr`. After a send that timed out Lua may collect the
string and give its address to another one, so a send chooses its string and its address
freely. All strings have one length, `MsgLen`, and fit in one TLS record; of two lengths
OpenSSL would refuse the shorter one.
Ghosts: `out`, the bytes handed to the kernel, `delivered`, `dropped`, `mixed`
(recv or recv_all was called while recv_line kept bytes, which they do not look
at) and `broken` (a failed handshake).

### SocketSetup

Threads share the descriptors, of which the lowest free number is given, and the
TLS context (`ctx`). `at[t]` is the place in the function of `kind[t]`; `fd[t]` and
`ssl[t]` are the locals that own something, `socks[t]` the userdata. The steps
follow `init_openssl_ctx` (`EnterOnce` of `std::call_once`, `CreateContext`),
`resolve`, the loop over addresses of `tcp_connect_blocking` (`NextAddress`,
`NewSocket`, `StartConnect`, `AddressFails`, `Connected`), `SSL_new`,
`apply_tls_options` and the handshake, the setup of a listener, and accept; each
has its failures, `Release` is what they free, `Publish` makes the userdata.
`spent` and `due` count ticks: every address starts a deadline of its own.

### Sqlite

`lib` is SQLite's view of a connection (`sqlite3_close_v2` leaves a zombie until
the last statement goes), `db` the Db userdata, `stmt` a statement and who will
finalise it, `iter` the iterator's userdata, `calls` the exec and query in
progress. The steps of a call, from `Prepare` to `Run` and `Publish`, are separate
because reading a table of parameters may run its metamethods: there the script
can close the connection, start other calls (so `calls` is a stack) or raise an
error (`MetamethodRaises`), which jumps over the C++ code and leaves the
statement `lost`. Collection and `lua_close` finalise in any order.

### Trees

An entry is a path relative to the root of its tree; the constants give the
source by types. `Init` chooses the call (`copy` with continue_on_error, `copy!`
without, `move`), whether the trees share a file system, a directory that cannot
be read and what the destination held. `open`, `seen` and `entry` are the
`recursive_directory_iterator`, `mappings` the vector of links to make at the
end, `warned` is `has_warnings`. Every action has its failing outcome. A rename
of the whole tree, a rename of an entry and the copy-and-remove across file
systems are actions of their own (`Rename`, `RenameEntry`, `CopyAcross` and
`RemoveEntry`), then `RemoveAll` and `MakeLink`. `Hidden` is what is below a
directory that cannot be read, which the iterator skips.

### Inotify

`queue` is the kernel's: when it is full it takes an overflow event, unless it
holds one, and loses the others. Events have the numbers in which they happen;
one that the kernel merges with an equal one counts as that one. `Read` starts a
read, `PollReady`, `ReadEvents`, `ReadAgain` (EAGAIN after poll, because
`OtherReader` was faster), `PollTimeout`, `Interrupted` and `Decode` are its loop.
Watch descriptors are not given again. Events may go on for ever: with
an empty queue and an empty buffer their numbers start again (`Renumber`). `told` is a
ghost: how many events had
happened when the script, or the other reader, last got an overflow. By
`NoSilentLoss` each event was given, is on its way or was taken by the other
reader; or else it had happened when one of them got an overflow, or an overflow
is on its way.

### The pure modules

A text is a record or a sequence of the numbers in it. `Calendar` has
`DaysFromCivil` and `CivilFromDays` with the divisions of C++ and with the year
as an `int` (`AsInt`, `MaxYear`), `FormatIso`, the refusals of `parse_iso` in the
order of the code (`Refusal`), and what it answers when it does not refuse
(`ParseIso`); then `AddChunk`, one pass of the loop of `parse_duration` with its
two overflow tests and the limit of 18 digits (`MaxNumber`), `ParseDuration` and
`FormatDuration`.

The three others are state machines without recursive operators, because what the
code does by calling itself is stated about its calls, and proved from one to the
next.

* `DeepCopy`: the recursion of deepCopyTable is a stack of calls, each with the
  table it copies, the keys still to copy and the key of its caller. `CopyPlain`,
  `CopyTooDeep`, `CopyAgain`, `EnterTable` and `ReturnCopy` are the branches of the
  loop for one field, in any order of the fields, as lua_next gives them. `visited`
  and `copies` are the code's; metatables, which are shared, are left out.
* `Find`: a tree of files gives a kind to each path, a sequence of positions in
  directories. `Increment`, `Advance` and `Pop` are the library's iterator on it,
  and `VisitEntry`, `SkipShallow`, `SkipDeep` and `FindEnds` the loop of find. The
  root may be missing, a file, or closed to the reader.
* `LuaValues`: a value gives a node (a type, and what a scalar holds) to each path,
  a sequence of keys. `Encoded` and `Decoded` are json.cpp's conversions of one node,
  where null and empty arrays are sentinels and a tagged table, `Shape` is
  `classify_table`; `Sent` and `Received` are those of workers.cpp. `Moved` makes
  the tree of the nodes converted, at the paths of the other side, or refuses it for
  depth or for a node. The actions build every value part by part. The queues'
  `json_to_lua` cuts a key at a zero byte (`lua_setfield`); `Names` are strings
  without one.

Each has a reference definition next to it. `CalendarDays` counts days one by one
with the lengths of the months, and holds the conversions against the count on
every day, and iso against parse_iso on every second of it. `Durations` writes
texts number by number and adds them up. `DeepCopy` has isomorphism with what the
root leads to (`Reachable`, the tables in every set closed under fields), `Find`
the order of a walk (`Precedes`) and the entries wanted, and `LuaValues` identity
of values but for what a conversion may change (`Rounded`, `Bare`).

## 3. Runs

| Run | Instance | Shows |
|---|---|---|
| `queue` | 3 threads, one of which pushes and pops; 2 messages, 2 slots | `NoLostWakeup`, `ClosedMeansAwake`, `CloseReleasesWaiters`, `TimedCallsReturn`, `ImplementsChannel` |
| `workers` | 1 message, queues of 1, a timeout of each kind, failing primitives | `JoinedExactlyOnce`, `FreedAfterUse`, `AnswerIsTruthful`, `ClosedIsFinal`, `ExitReleasesParent`, `GcTerminates`, `JoinWaitsOnlyForQueues` |
| `signals` | 2 signals, 2 coroutines, 2 nested dispatches, a worker starting | `OnlyHandledSignalsCallBack`, `ServedOnce`, `DeliveredIsDispatched` |
| `exec` | 1 caller; commands that close early, or survive SIGTERM and leave a descendant in or out of the group; 2 writes, pipes and outputs of 1, stdin absent, 0 or 2; poll may fail | `NoDoubleClose`, `LeakOnlyAfterBreak`, `OutputIsComplete`, `KilledIsReported`, `CallReturns`, `TimedCallLeavesLoop` |
| `exec_sigpipe` | 2 callers, the main thread and a worker; a command that closes its stdin | `SigpipeIgnoredWhileFeeding` is violated |
| `socket` | stream x x LF in TLS records of 1 and 2 bytes, lines of at most 1, reads of 2, 2 strings of 2 bytes at 2 addresses, a send buffer of 1, 3 bytes sent, renegotiations, the stream again and again | `StreamIntact`, `SendIsWhole`, `AvailableLineIsRead`, `TimedCallReturns` |
| `socket_setup` | 2 threads, 2 descriptors, 2 addresses, a timeout of 1 tick, 2 sockets each | `EverythingHasOneOwner`, `ContextReadyWhenUsed`, `TimedSetupReturns` |
| `sqlite` | 2 connections, 3 statements, calls 2 deep | `ConnectionOutlivesItsUsers`, `StatementsAreOwned` |
| `trees` | a directory with a file and a link into the source; beside it a file, a link elsewhere and a FIFO | `NothingLost`, `OkMeansDone` |
| `inotify` | a queue and a buffer of 2, 5 events at a time and again, 2 watches, another reader | `NoSilentLoss`, `TimedReadReturns` |
| `functions` | see below | `CalendarIsRight`, `DurationsAreExact`, `CopyIsIsomorphic`, `ValuesSurvive`, `FindIsExactInShallowTrees` |
| `find_maxdepth` | the same | `FindIsExact` is violated |

The bounds are the smallest at which each case happens.

* *Queue, workers.* Two sleepers on either condition are needed for a signal to
  reach the wrong one, and two messages for an order; the proofs cover the
  other sizes. A worker's queue of one slot is full and empty within two calls,
  and its content does not change what the worker does.
* *Signals.* Two nested dispatches let one preempt another; two coroutines are
  one with the hook and one without.
* *Exec.* Two chunks against a pipe and an output limit of one give a full pipe,
  a partial write of stdin, a truncated output and one that fits.
* *Socket.* With `MaxLine` 1 the stream has a line that is too long, and one
  that is not when recv took its first byte; its last record has two bytes, so it can be
  incomplete, and half read. Two bytes against a buffer of one make every send
  partial, and three in all allow a second send after one that timed out. Two
strings and two addresses give it the same string or the other one, at the address of
the first or elsewhere.
* *SocketSetup.* Two descriptors for two threads run out, and a number closed by one
  thread is given to the other.
* *Sqlite.* Three statements on two connections: two on one, one on another, in
  nested calls and iterators.
* *Trees.* One entry of each kind at each depth. The directory that cannot be
  read may be the root, the directory or none.
* *Inotify.* Five events overflow a queue of two, twice, and one read does not
  empty it.
* *Socket, inotify: what goes on for ever.* A finite stream, or a last event, would end
  every loop of reads by itself, and hide that some of them are not bounded by their
  deadline. `Renumber` gives the peer and the kernel endless supplies with finitely many
  numbers; it changes nothing that the code looks at.
* *Functions.* The calendar is counted through 132 years from 1970 − 2000 and
  from 1970: years below 1, the year 0 and 2000, which are leap, and 100 and 2100,
  which are not. `MaxYear` 2101 is reached, and the first year beyond it is one the
  property does not speak of. The seconds of these centuries do not fit in TLC's integers:
  `Hours`, `Minutes` and `Seconds` are constants, 2 each, and the arithmetic is
  that of a mixed radix, the same for any lengths (the proofs have them as
  parameters). Every second of every day is converted, in UTC and in zones of nearly a
  day to either side. Durations have up to three numbers out of 0 to 4, `MaxNumber`
  18, the number after it, and `MaxInt` 20, which stands for INT64_MAX, so that
  products and sums pass it. All heaps of three tables with two fields (tables
  that the root does not lead to are empty), every order of the fields, with a depth limit of two, which a chain of three tables and a field
  met again beyond the limit both pass; JSON values of five parts and Lua values of
  four, nested to the limit of two and one level beyond, with keys of every type and
  an integer that is no `lua_Integer`; all trees three levels deep with at most two
  entries per directory, some of which cannot be opened, with `maxdepth` from 0 to 2,
  below their height and equal to it, `mindepth` 0 or 1, and each type.

Model values are not declared symmetric: several runs check liveness. Deadlock
is checked everywhere but in the runs of `MCFunctions`, where a date, a text or a
value is built up to its bound, and a copy or a walk ends. The states in which a system stops for
good (the worker collected, the process killed, the call answered) have an
explicit stuttering action.

**Fairness.**
* Queue: weak for `Resume` (a woken thread gets the mutex back), strong for
  `Expire`, because the deadline is absolute: waking up and sleeping again does
  not postpone it. None for callers, who need not call.
* Workers: the same, weak for the steps of a collection and of the thread's
  epilogue, strong for the end of the script and of `lua_close`: a script that
  the queues let run ends some day. Babet cannot stop one that does not, and
  then `__gc` waits as long as it runs.
* Signals: weak for the C code, strong for the end of a sleep and of a callback,
  strong for the hook, which counts instructions and so fires in any coroutine
  that carries it and keeps executing. `DeliveredIsDispatched` asks that
  the script come back to such a coroutine again and again.
* Exec: the caller is scheduled, time passes, and the kernel gets the child as
  far as its execvpe. Nothing is assumed of commands; `CallReturns` has the
  assumption that they end, `CommandsEnd`, as its hypothesis, and excepts the calls
  whose poll failed: those leave stdin open (`StdinClosedOnEveryPath` below), and a
  command that reads it to its end then keeps waitpid, and exec, for ever.
* Socket: the clock, the return of poll when the descriptor is ready or the
  deadline has passed, and the end of a handshake whose deadline has passed are weakly
  fair. The steps that read and write are strongly fair: the peer's renegotiations
  do not go on forever. Nothing is assumed of the peer, so a call without a
  timeout may wait forever; `AvailableLineIsRead` says when it may not. Nor is the
  peer asked to stop: `TimedCallReturns` excepts recv_all while it keeps sending.
* SocketSetup: the steps of a call, with the answer of the resolver
  (`getaddrinfo` has no timeout in the code, and `connect`'s does not cover it),
  the ticks of the clock, and poll once the deadline has passed.
* Inotify: the steps of a read and the clock. `TimedReadReturns` excepts the reads
  from under which another reader takes the events for ever. `Sqlite`, `Trees` and
  `MCFunctions` have safety properties only.

### Divergences

Two runs end in a violation.

`find_maxdepth`: for an entry deeper than
`maxdepth`, find calls `it.pop()`, which already moves on to the next entry of
the directory above, and `continue` increments the iterator once more
(`find.cpp:229`): the entry after a directory that is not empty is skipped, or
the end is incremented and find answers `(nil, err)`. In trees no deeper than
`maxdepth`, `FindIsExactInShallowTrees` holds.

`exec_sigpipe`: each call of exec saves the disposition of SIGPIPE, ignores it and
restores what it saved, and nothing is shared between the threads. A worker's call saves
the default, the main thread's call begins, the worker's ends (or its fork fails) and
restores the default; then the main thread writes to a command that has closed its
stdin, and SIGPIPE kills the program, where the comment at `exec.cpp:528` has the signal
ignored during the call. With one caller at a time, or with workers only (they
mask the signal), this cannot happen.

The following were met while modelling and have no run here. Those with a name
are stated by that definition, and TLC refutes it in the instance of the module.

| Definition | The sources say | The code |
|---|---|---|
| `Workers!PollJoinsFinishedThread` | poll joins a thread that has already finished, without blocking | on failure the status is published first: poll waits for the closing of the queues and the finalizers |
| `Workers!GcLocksOnlyInitialisedQueues` | `__gc` does not touch primitives that were not created | it closes both queues, which locks the mutex |
| `Signals!NoReentrance` | signals arriving during a callback are dispatched after it | a callback that sleeps, or is started from sleep, has others run inside it |
| `Signals!NoSleepOnPending` | blocking calls return "interrupted" on a handled signal | not for one that arrived before the system call |
| `Exec!StdinClosedOnEveryPath` | `pipe_in[1]` is closed on every path | not after the break that gives the loop up, on a failure of poll |
| `Exec!TimedCallReturns` | timeout kills the child if it takes longer | not once it has closed its outputs: waitpid has no limit |
| `Socket!DeadlineCoversCall` | a timeout is the longest time of the call, and the deadline of recv_all covers the whole call (`socket.cpp:156`, `socket.cpp:1510`) | after the deadline poll still says ready while there is data, and nothing else looks at the clock: recv_all lasts as long as the peer sends |
| `Socket!AnsweredIsSent` | send answers the integer bytes sent (`docs/en/modules/socket.md:40`) | in TLS, after a send that timed out, another string at the address of the first flushes the rest of the old record and is answered as sent, without a byte of it handed over |
| `Inotify!DeadlineBoundsLoop` | the deadline bounds the read loop, no endless wait is possible (`inotify.cpp:424`) | poll finds an event after the deadline too; if another reader is faster each time, the loop starts over without looking at the clock |

* *Exec.* Two overlapping calls that end in the order of their start leave
  SIGPIPE ignored for good. `timed_out` is true also when the command ended
  alone and only a descendant held its pipes. Children do not die with an
  interrupted script, as `docs/en/security.md:29` has it. A command that never
  pauses between writes can keep exec in `drain_fd` past its deadline.
* *Workers, signals.* A timeout under a millisecond makes recv answer "empty"
  and not "timeout". Pending callbacks run in the order of `SUPPORTED_SIGNALS`
  and not of registration. The hook stays on the coroutine that first called
  `handle` and those created from it.
* *Sockets.* connect makes a new deadline for each address, so that a call lasts
  up to its timeout times the number of addresses, where a comment speaks of one global
  deadline. starttls uses the timeout of the socket and not the one of its
  options. In TLS a send after one that timed out is refused ("bad write retry") even if
  it repeats the same bytes, unless its string is at the same address.
  `docs/en/modules/socket.md:114` warns that send may return fewer bytes than requested,
  where the code loops until all are sent or the call fails, and after a failure does not
  say how many went out. recv and recv_all do not look at the bytes recv_line keeps: they come
  out after later ones (`mixed` in `StreamIntact`).
* *SQLite.* exec without params counts the placeholders of the first statement
  only (`sqlite.cpp:522`): in later ones they are bound to NULL, where
  `docs/en/modules/sqlite.md` has "Placeholders without `params` is an error, not a
  silent NULL bind". A comment after a statement is refused by the test of the
  tail, where the comment at `sqlite.cpp:565` accepts it. An error in a
  metamethod of the parameters loses the statement, and with it the connection.
* *Trees.* copyTree without continue_on_error answers true although directories
  that cannot be read were skipped. A move that is one rename does not retarget
  absolute links into the source, where the other ways do. When `remove_all` or the
  making of a link fails, moveTree has lost the links of the source. If the destination
  holds a link to a directory of the source, moveTree loses the files of that directory:
  `create_directories` accepts the link, the rename of a file onto itself through it
  changes nothing, and `remove_all` removes the file (`moveTree.cpp:169-231`). `OldTrees`
  has no links, so this is outside the model.
* *Deep copies.* `docs/en/modules/tables.md:78` has it that metatables are not copied;
  `deepCopyTable.cpp:80` gives the copy the metatable of the original.
* *Inotify.* A timeout of NaN is answered by `(nil, err)`, where the documentation says that it raises.
* *Time.* The comment at `time_format.cpp:51` has it that the years of an `int`
  are "far beyond what int64_t seconds can represent". They are not: the first
  second of the year 2147483648 is about 6.8e16, and `civil_from_days` narrows
  the year (`time_format.cpp:70`), so that iso writes a wrong one. The theorem
  `YearsRunOut` states it with the numbers of the code; `CalendarIsRight` speaks
  of the years before.
* *JSON and messages.* A table whose keys are all of a kind that JSON does not
  have encodes as `{}` (`json.cpp:114`). `babet.json.null` sent to a worker
  arrives as an empty table.
* *find.* `docs/en/modules/fs.md` lists options (`max_depth`, `pattern`,
  `recursive`, `iterator`) under other names than the code reads (`maxdepth`,
  `name`).

## 4. Proofs

Each proof module extends the module it is about, and holds for every value of
its constants under the assumptions declared there. The invariants were
confirmed by TLC before they were proved.

**`MessageQueueProofs`**: for any finite sets of producers and consumers
(`ThreadsAssumption`), any set of messages and any positive capacity
(`CapacityAssumption`; babet uses 64 unless the options of spawn say otherwise).

* `TypeCorrect` (`TypeOK`) and `ClosedMeansAwakeHolds` (nobody sleeps in a closed
  queue) are inductive, the second with the help of the first, with a lemma for each
  way a pass ends.
* `NoLostWakeupHolds`. "If somebody sleeps on a condition, the condition does not
  hold or somebody awake will look" is not inductive with one awake thread: one
  signal could serve for two messages. The property counts instead: while a
  consumer sleeps, the consumers awake are at least as many as the messages, and
  likewise for producers and free slots; with the two above it is inductive. A push adds one message and
  wakes one consumer; a pop takes one message and takes one consumer out. This is
  why `pthread_cond_signal` is enough where a broadcast would be expected.
* `QueueImplementsChannel`: each step of the queue is a step of `BoundedChannel`
  or leaves the channel unchanged.

**`WorkersProofs`**: for any set of messages, both capacities, any set of timeouts
(`TimeoutsAssumption`), and primitives that may fail to initialise or not
(`InitMayFailAssumption`).

* `InvariantHolds` proves `IInv`, the conjunction of `ThreadInv` (which of the
  string and the status has been written at each step of each epilogue of
  `worker_thread_main`), `HandleInv` (`tid_valid` is true exactly while a created
  thread is not joined, and only in a live userdata; once it is false the thread
  has exited), `CallsInv` (the parent is in no queue call while it is in another
  method or has no userdata, the thread in none while it runs no Lua code) and
  `AnswerIsTruthful`. From it follow `JoinedExactlyOnceHolds`,
  `FreedAfterUseHolds` and `AnswerIsTruthfulHolds`; none of the three is inductive
  alone. Steps inside a queue move only the thread that takes them, or wake
  sleepers (`MovesOnly`), which is what `CallsInv` needs of `MessageQueue`.
* `QueuesInvariantHolds` proves `QInv` on top of `IInv`: `ClosedInv`, which queues
  the thread has closed at each step of its epilogue and that nobody sleeps in a
  closed one, and `FinalInv`, that while the parent can call `recv` only the end of
  the script can have closed the outbox, and that after the answer "closed" it
  stays empty. `ExitReleasesParentHolds` and `ClosedIsFinalHolds` follow.
* `QueuesAreMessageQueues`: whatever the parent, the thread and `__gc` do with the
  two queues is a step of `MessageQueue` on each. So `MessageQueueProofs` is
  instantiated for both, with one producer and one consumer each; its two
  assumptions hold because the sets of threads are singletons and by
  `CapacitiesAssumption`. `TypeCorrect` (all of `TypeOK` of `Workers`),
  `QueuesLoseNoWakeup` and `QueuesAreChannels` are what it gives: the queues of a
  worker lose no wake-up and implement `BoundedChannel`.

**`SignalsProofs`**: for any table of distinct signals (`TableAssumption`), any
callbacks (`CallbacksAssumption`) and coroutines, and any depth of nested
dispatches. `GInv` is `StackInv` (a dispatch with a callback stands on an entry of the
table), `HandledInv` (a signal has a callback exactly while its disposition is
the C handler), `FlagsInv` (a flag is up exactly while a delivery is unserved),
`RestInv` and `DepthInv`; `TypeCorrect` follows. The two action properties are
proved from it: `OnlyHandledSignalsCallBackHolds` needs `HandledInv`, because the
code reads the table and not the disposition, and `ServedOnceHolds` needs
`FlagsInv`, because a callback starts where a flag is found up.

**`ExecProofs`**: for any callers, programs, sizes and limits. `EInv` is the types
and, for each caller, `FdsInv` (which descriptors a call has at each place),
`ReportInv` (a command is signalled only in a phase that is reported), `WriterInv`
(an output at its end of file has no writer left) and `AccountInv` (what the
command wrote is in the pipe, in the result, or beyond `max_output`). Steps of
one call leave the others alone, so every step is argued for one caller.
`NoDoubleCloseHolds` and `LeakOnlyAfterBreakHolds` follow from `FdsInv`,
`KilledIsReportedHolds` from `ReportInv`, and `OutputIsCompleteHolds` from the
last two: the loop leaves an output only at its end of file, when nothing is in
the pipe and nobody can write to it.

**`SocketProofs`**, about `Socket` for any stream, records and sizes:

* `StreamIntactHolds`. The property speaks of three sequences one after the
  other, which the steps move and join; `BInv` splits it. `PartsInv`: `delivered`,
  `pending` and `acc` hold distinct bytes, they and `dropped` are disjoint and
  together are `1..given`. `OrderInv`: while the script does not mix the calls each
  sequence increases, `delivered` lies below the others, and one of the others is
  empty. `ControlInv`: which call can be collecting, and keeping, bytes.
  The cardinality follows from the injectivity of the concatenation.
* `SendIsWholeHolds`. `SentInv`: what the kernel was given ends with the first
  `total` bytes of the string of the call in progress, and, while OpenSSL keeps
  an unfinished record, with the part of that record that is out. The second
  survives other calls because OpenSSL lets nothing through but a write at the address
  of that record, which goes on with it. `WhatIsFlushed` has the two cases of a write in TLS:
  the property says of the first that the string of the call is out, of the second that the
  one of the record is. `MsgsAssumption` tells strings and addresses from their absence.
* `SocketTypeCorrect` (`TypeOK`) adds `KInv` to the two: `StreamInv`, the order of the
  four ends of the stream, which are one in TCP but for what is in the kernel
  (a record is taken whole because `RecordEnd` is the least end after `plain`),
  `PlacesInv`, and `OutInv`, that a send has room for what it still has to hand
  over, be it counted in `total` or kept by OpenSSL.

About `SocketSetup`, for any threads, descriptors (`FdsAssumption`), addresses
and timeouts: `OInv` is the types, `LocalsInv` (a call has a descriptor and an
SSL object exactly at certain places), `FdsInv` (a descriptor is open exactly if
it has an owner, and it has at most one), `SslsInv` (the SSL objects are counted
by the calls and the sockets that have one) and `CtxInv` (one thread creates the
context, the others go on when it is ready). The five ways in which a descriptor or
an SSL object changes hands are lemmas. From it follow
`EverythingHasOneOwnerHolds` and `ContextReadyWhenUsedHolds`.

**`SqliteProofs`**: for any numbers of connections and statements, and any depth
of calls. `SInv` is `TypeOK`, `Placed` (a statement SQLite knows has a connection;
no call is in progress after the end), `ConnectionOutlivesItsUsers` and
`StatementsAreOwned`: the two properties need each other, since a connection may be
freed only with the last of its statements. `NothingIsLeftOpenHolds` follows: after `lua_close` only
a statement that was lost can hold a connection.

**`TreesProofs`**: for any source tree (`ParentAssumption`, `LinksAssumption`,
`TypesAssumption`). The heart of `TInv` is `WalkInv`: an entry the iterator has not
given yet is `Awaited`, in a directory that is open, is still to be given, or
cannot be read. When the iterator is at its end only the last is possible, and the
entries not seen are closed under "my directory is not seen or cannot be read":
`Hidden` is defined as the largest such set, so that no induction over the tree is
needed. `PlacedInv` (what was given is in place, is a link to make, or was
reported), `SourceInv`, `OpenInv`, `EntryInv`, `BeforeInv`, `RenameInv` and
`TargetInv` complete it. `NothingLostHolds` and `OkMeansDoneHolds` follow.

**`DataProofs`**: six parts about data, in one module, that share only the
lemmas on numbers and sequences.

* *Inotify*, for any sizes of the queue and of the buffer and any numbers of events
  and watches. `NInv` is `TypeOK`, `BufferInv`, `LimitInv` (the queue is longer than its
  limit by an overflow at most) and, while the watcher is open, `OpenInv`: what was
  given, is in the buffer and is in the queue, one after the other, is in order
  (`Ordered(Log)`), none of it is newer than what has happened (`PastInv`), and every event
  is accounted for (`AccountInv`). `NoSilentLossHolds` is the first and
  the last; they are not inductive alone: a read fills the buffer anew, so nothing may
  be left in it, and a new event keeps the order because none is newer.
* *Calendar*, for any lengths of day, hour and minute. `CivilIsDate` and `DateIsCivil`:
  the two conversions are inverse, on every integer and every date. Both count in
  eras of 400 years that begin in March; inside an era the lemmas go through the
  year (`YearOfDay`, `DayOfYear`), the month (`MonthOfDay`) and the day in it
  (`DayOfMonth`), each the inverse of a division of the code.
  `NextMonth` and `NextYear` say that the number of the first day of the next month, or year,
  is what the lengths of the months make it, so that `CInv` (the date has the
  number) is inductive in `CalendarDays`: `CalendarIsRightHolds`. `IsoRoundTrip`
  has the clock besides (`ClockOf`, `MomentOf`), and the refusals. `YearsRunOut`
  is the divergence of section 3.
* *Durations*, of any length. `ParseDurationIsExact`: the answer of `parse_duration`
  is the sum of the numbers in their units if the units descend, the numbers have
  at most 18 digits and the sum is at most `MaxInt`, and a failure otherwise. The loop
  compares neighbours (`DescendsAtOnce` makes it all pairs), and tests for
  overflow by a quotient (`QuotientTest`) before it multiplies and by a difference
  before it adds; `LoopAndSums` relates the loop's totals to the sums.
  `FormatRoundTrip`: what `format_duration` writes of any number from 0 to `MaxInt`
  is read as that number; `PartsOfDuration` has the digits and `PartWrites` one
  unit of the text. `DigitsAssumption` says that these digits are no more than
  `parse_duration` reads, which holds for the numbers of the code.

  The texts have any length, so these proofs need induction. The library's
  induction theorems take a predicate as an operator, which the provers cannot
  instantiate; here a set of natural numbers that is not empty has a least member
  (`LeastExists`, by `WFMin` for the order of the natural numbers), from which
  `InductionUpTo` follows for the members of a set, and `RecursionUpTo`, that the
  functions by which `Calendar` defines the totals exist.

* *Deep copies*, for any finite set of tables, any fields and any limit. `CopyInv`:
  the numbers of the copies are those of one table each, all of which can be
  reached (`NumberedInv`); the calls in progress are for different tables, each for a
  field that its caller has still to set (`CallsInv`); and every field of a table that
  is registered is copied, or is among the keys some call has still to copy
  (`FieldsInv`). That last one makes `CopyIsIsomorphicHolds` go through: without the
  calls it is false from the moment a copy is registered, before its fields, and when
  no call is left, the tables registered are closed under fields, so they are all that can be
  reached. `Reachable` is defined by closed sets, so no induction over paths is
  needed. `TooDeepKeeps`: the calls are for different tables that can be reached, so
  a stack that passes the limit shows more tables than the limit (`DepthInv`).
* *Find*, for any set of trees, of any depth and width, and any options. The order
  `Precedes` is that of a walk; `AdvanceGoesOn`, `IncrementGoesOn` and `PopGoesOn` say that
  the iterator only goes forward, and `IncrementIsNext` that `++` leaves nothing
  out: what is after p is the next entry or after it. `FindInv` is that what was
  found is wanted and in order (`FoundInOrder`), that it is behind the iterator
  (`FoundIsBehind`), and that what is wanted and missing, and every directory that
  cannot be opened, is ahead of it (`NothingMissed`), the last only in trees no
  deeper than `maxdepth`. `FindIsExactInShallowTreesHolds` follows, and, from the part that
  needs no such condition, `FindGivesOnlyWhatIsWanted`: what the pop loses in a deep
  tree is the only thing find does wrong there.
* *Values*, for any names, leaves and keys and any limits. `ValuesInv` says what values are:
  the keys of an array are `1..n`, those of an object names, scalars have none, and
  with each path come those above it. `MovedFacts` is the heart: a tree whose nodes are
  accepted and whose paths are carried injectively to others of the same length,
  fronts to fronts, keeps its shape. `TypedFacts` and `UntypedIsInjective` say that the
  paths of JSON and of Lua are carried so: that the type of each key can be told
  from the node above it is what makes dropping the types safe. `ShapeTells` and
  `TypedShape` give `classify_table` on the keys found, `FiniteMax` the
  largest of them. `JsonSurvives`, `EncodedIsJson` and `MessageSurvives` are the three
  parts of `ValuesSurviveHolds`.

No step of these proofs gives the SMT backend both `Len` and a function over
another interval than `1..n`: its encoding of `Len` is stronger than the definition for
those. Such functions are kept under a name (`Iterates`, `RunsOver`, `SumsUp`)
where `Len` is in sight.

Only model-checked:

* the liveness properties (the prover has no ENABLED): `CloseReleasesWaiters`,
  `TimedCallsReturn` and the fairness part of `ImplementsChannel`; `GcTerminates`
  and `JoinWaitsOnlyForQueues`; `DeliveredIsDispatched`; `CallReturns` and
  `TimedCallLeavesLoop`; `AvailableLineIsRead` and `TimedCallReturns`;
  `TimedSetupReturns`; `TimedReadReturns`.

Every invariant and every action property that a passing run checks is a theorem.

## 5. Abstractions, and what is not modelled

* Mutex acquisition is not modelled: a critical section is one step, and a thread
  that waits for a mutex is one that has not taken its step yet.
* Messages are opaque in `MessageQueue` and `Workers`; what they hold is in
  `LuaValues`. A value may fail to serialise, which matters for the end of the
  script only (`ScriptEnds` may take the error path).
* A worker is modelled with one parent; several workers share nothing but the
  file-scope state that `Signals`, `Exec` and `SocketSetup` model.
* In `Signals` sleep stands for the functions that return "interrupted"; `Socket`
  and `Inotify` have interruptions of their own, the callback being what the
  script does next. Exec does not dispatch signals at all.
* In `Exec` a read or a write moves whole chunks; a command leaves at most one
  descendant per call, which holds the pipes and does not write; descriptors
  inherited by the children of other threads in the window between pipe and
  `fcntl` are left out; poll failures that are not EINTR are allowed for safety
  (`PollMayFail`) and excluded for progress.
* `Socket` has one script and one socket; after a failed handshake the script
  can only close it. The peer is silent before starttls, as the protocols that
  use it are. TLS alerts, certificates and the contents of the options are
  outside, and so are peer and sockname, which only ask the kernel.
* In `Workers` an explicit `w:__gc()`, which a script can reach through `__index`, is not
  followed by other methods.
* In `LuaValues` and `DeepCopy` tables have no metatables but that of the arrays of
  babet.json: a `__len`, which `luaL_len` honours (`workers.cpp:474`), is outside.
* In `Sqlite` rows, values, SQL and transactions are the library's.
* In `Trees` a destination that exists holds files and directories but no links (see
  section 3), nobody else changes the two trees during the call, and path resolution in
  the guards is a choice.
* In `Inotify` numbers of watches do not wrap, and flags and names are left out.
* Digits and separators of dates, the text of JSON, patterns of find and
  `strftime` are left out of the pure modules.
* Argument errors, which return before anything changes, and the wording of
  messages are left out.
* Not modelled, with the reasons in `PROJECT.json`: HTTP (the protocol is a
  vendored library's), users, system, strings and paths, small file operations,
  checksums and helpers (single calls, or pure functions with direct tests), the
  start of the program and embedded projects, creating an executable, the bundled
  Lua modules. The vendored libraries and the SQL, TLS, HTTP and ZIP they
  implement are outside.

## 6. Plan

Done: the modules of section 2 and the theorems of section 4. What is left, in
order of weight:

1. `Startup`: the choice of the project, the module searchers, the closing order,
   and creating an executable with its temporary file and failing steps.
2. The rest of the pure parts: mergeTables, toml.decode, listFiles and the file
   iterator, split and joinPath, the URL of HTTP.
3. Socket and signals together: a callback that runs at the end of an interrupted
   call and uses the same socket.
