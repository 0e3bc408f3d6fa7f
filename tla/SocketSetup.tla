---------------------------- MODULE SocketSetup -----------------------------
(***************************************************************************)
(* How the sockets of babet.socket come to be and go: connect, connect_tls, *)
(* listen, accept, close and __gc, called by several threads (the main     *)
(* program and its workers), each with Lua states and sockets of its own.  *)
(* They share the table of descriptors, where a number that is closed is   *)
(* given again at once, and the TLS context, created once (g_tls_ctx).     *)
(*                                                                         *)
(* Every call of the system or of OpenSSL may fail.  Time is counted in    *)
(* ticks, which pass while a thread waits in poll.                         *)
(***************************************************************************)
EXTENDS Integers, FiniteSets

CONSTANTS
    Threads,
    Fds,         \* the descriptors a process may have
    Addresses,   \* how many addresses getaddrinfo finds
    Timeout,     \* the timeout of the timed calls, in ticks
    MaxSocks     \* bound: sockets a thread keeps

ASSUME FdsAssumption == Fds \subseteq Nat
ASSUME CountsAssumption == {Addresses, Timeout, MaxSocks} \subseteq Nat \ {0}

VARIABLES
    open,      \* the descriptors that are open
    socks,     \* socks[t]: the Sock userdata of t that are open
    ssls,      \* how many SSL objects exist
    ctx,       \* the TLS context: "no", "busy", "ready", "failed"
    at, kind, hasTimeout, fd, ssl, ai, outcome,  \* a call: place, function, has a timeout, locals
    spent, due                             \* ticks spent in the call, and its deadline

setupVars == <<open, socks, ssls, ctx, at, kind, hasTimeout, fd, ssl, ai, outcome, spent, due>>
locals == <<kind, hasTimeout>>
clock  == <<spent, due>>
shared == <<socks, ctx>>

NoFd == -1

Socks == [fd : Fds, listening : BOOLEAN, tls : BOOLEAN]

SetupInit ==
    /\ open = {} /\ socks = [t \in Threads |-> {}] /\ ssls = 0 /\ ctx = "no"
    /\ at = [t \in Threads |-> "idle"] /\ kind = [t \in Threads |-> "none"]
    /\ hasTimeout = [t \in Threads |-> FALSE] /\ fd = [t \in Threads |-> NoFd]
    /\ ssl = [t \in Threads |-> FALSE] /\ ai = [t \in Threads |-> 0]
    /\ outcome = [t \in Threads |-> "none"]
    /\ spent = [t \in Threads |-> 0] /\ due = [t \in Threads |-> 0]

-----------------------------------------------------------------------------
MoveTo(t, place) == at' = [at EXCEPT ![t] = place]

Answer(t, res) ==
    /\ at' = [at EXCEPT ![t] = "idle"]
    /\ kind' = [kind EXCEPT ![t] = "none"]
    /\ hasTimeout' = [hasTimeout EXCEPT ![t] = FALSE]
    /\ outcome' = [outcome EXCEPT ![t] = res]
    /\ ai' = [ai EXCEPT ![t] = 0]
    /\ spent' = [spent EXCEPT ![t] = 0] /\ due' = [due EXCEPT ![t] = 0]

CloseFd(t) ==
    /\ open' = open \ {fd[t]}
    /\ fd' = [fd EXCEPT ![t] = NoFd]

(* What a failure of connect_tls after the connection releases.            *)
Release(t) ==
    /\ CloseFd(t)
    /\ ssls' = IF ssl[t] THEN ssls - 1 ELSE ssls
    /\ ssl' = [ssl EXCEPT ![t] = FALSE]

(* The userdata takes over the descriptor and the SSL object.              *)
Publish(t, isListening) ==
    /\ socks' = [socks EXCEPT ![t] = @ \cup
                    {[fd |-> fd[t], listening |-> isListening, tls |-> ssl[t]]}]
    /\ fd' = [fd EXCEPT ![t] = NoFd] /\ ssl' = [ssl EXCEPT ![t] = FALSE]
    /\ Answer(t, "ok")
    /\ UNCHANGED <<open, ssls, ctx>>

(* A new descriptor has the lowest number free; at the limit there is none. *)
NewFd(t) ==
    \E new \in Fds \ open :
        /\ \A other \in Fds \ open : new <= other
        /\ open' = open \cup {new}
        /\ fd' = [fd EXCEPT ![t] = new]

-----------------------------------------------------------------------------
Begin(t, name) ==
    /\ at[t] = "idle"
    /\ kind' = [kind EXCEPT ![t] = name]
    /\ hasTimeout' \in {[hasTimeout EXCEPT ![t] = b] : b \in BOOLEAN}
    /\ outcome' = [outcome EXCEPT ![t] = "none"]
    /\ UNCHANGED <<open, socks, ssls, ctx, fd, ssl, ai, clock>>

Connect(t) == Begin(t, "connect") /\ Cardinality(socks[t]) < MaxSocks /\ MoveTo(t, "resolve")
ConnectTls(t) == Begin(t, "connect_tls") /\ Cardinality(socks[t]) < MaxSocks /\ MoveTo(t, "ctx")
Listen(t) == Begin(t, "listen") /\ Cardinality(socks[t]) < MaxSocks /\ MoveTo(t, "resolve")

(* accept computes its deadline as it is called.                           *)
Accept(t) ==
    /\ \E s \in socks[t] : s.listening
    /\ Cardinality(socks[t]) < MaxSocks
    /\ at[t] = "idle"
    /\ kind' = [kind EXCEPT ![t] = "accept"]
    /\ hasTimeout' \in {[hasTimeout EXCEPT ![t] = b] : b \in BOOLEAN}
    /\ outcome' = [outcome EXCEPT ![t] = "none"]
    /\ due' = [due EXCEPT ![t] = Timeout]
    /\ MoveTo(t, "await")
    /\ UNCHANGED <<open, socks, ssls, ctx, fd, ssl, ai, spent>>

(* close, or __gc of a socket nobody closed.                               *)
CloseSock(t) ==
    /\ at[t] = "idle"
    /\ \E s \in socks[t] :
          /\ socks' = [socks EXCEPT ![t] = @ \ {s}]
          /\ open' = open \ {s.fd}
          /\ ssls' = IF s.tls THEN ssls - 1 ELSE ssls
    /\ UNCHANGED <<ctx, at, locals, fd, ssl, ai, outcome, clock>>

-----------------------------------------------------------------------------
(* init_openssl_ctx: call_once lets one thread create the context and      *)
(* keeps the others waiting; what it found, success or failure, is final.  *)
MutantEnterOnce(t) ==
    /\ at[t] = "ctx" /\ ctx = "no"
    /\ ctx' = "ready"
    /\ MoveTo(t, "creating")
    /\ UNCHANGED <<open, socks, ssls, locals, fd, ssl, ai, outcome, clock>>

EnterOnce(t) ==
    /\ at[t] = "ctx" /\ ctx = "no"
    /\ ctx' = "busy"
    /\ MoveTo(t, "creating")
    /\ UNCHANGED <<open, socks, ssls, locals, fd, ssl, ai, outcome, clock>>

CreateContext(t) ==
    /\ at[t] = "creating"
    /\ ctx' \in {"ready", "failed"}
    /\ MoveTo(t, "ctx")
    /\ UNCHANGED <<open, socks, ssls, locals, fd, ssl, ai, outcome, clock>>

ContextKnown(t) ==
    /\ at[t] = "ctx"
    /\ \/ /\ ctx = "ready" /\ MoveTo(t, "resolve")
          /\ UNCHANGED <<locals, ai, outcome, clock>>
       \/ ctx = "failed" /\ Answer(t, "error")
    /\ UNCHANGED <<open, shared, ssls, fd, ssl>>

Resolve(t) ==
    /\ at[t] = "resolve"
    /\ \/ /\ ai' = [ai EXCEPT ![t] = 1] /\ MoveTo(t, "socket")
          /\ UNCHANGED <<locals, outcome, clock>>
       \/ Answer(t, "error")
    /\ UNCHANGED <<open, shared, ssls, fd, ssl>>

(* The for loop over the addresses: the next one, or the error of the last. *)
NextAddress(t) ==
    IF ai[t] < Addresses
    THEN /\ ai' = [ai EXCEPT ![t] = @ + 1] /\ MoveTo(t, "socket")
         /\ UNCHANGED <<locals, outcome, clock>>
    ELSE Answer(t, "error")

NewSocket(t) ==
    /\ at[t] = "socket"
    /\ \/ /\ NewFd(t)
          /\ MoveTo(t, IF kind[t] = "listen" THEN "setup" ELSE "connect")
          /\ UNCHANGED <<locals, ai, outcome, clock>>
       \/ NextAddress(t) /\ UNCHANGED <<open, fd>>
    /\ UNCHANGED <<shared, ssls, ssl>>

(* A failure on this address closes its descriptor and tries the next.     *)
MutantAddressFails(t) ==
    /\ fd' = [fd EXCEPT ![t] = NoFd]
    /\ NextAddress(t)
    /\ UNCHANGED <<open, shared, ssls, ssl>>

AddressFails(t) ==
    /\ CloseFd(t)
    /\ NextAddress(t)
    /\ UNCHANGED <<shared, ssls, ssl>>

Connected(t) ==
    IF kind[t] = "connect_tls"
    THEN MoveTo(t, "ssl") /\ UNCHANGED <<open, shared, ssls, locals, fd, ssl, ai, outcome, clock>>
    ELSE Publish(t, FALSE)

(* connect(2): done, refused, or, on the descriptor a timeout made         *)
(* non-blocking, in progress; without a timeout it blocks until it is      *)
(* done, and a signal is one more failure.  Each wait has a deadline of    *)
(* its own.                                                                *)
StartConnect(t) ==
    /\ at[t] = "connect"
    /\ \/ Connected(t)
       \/ AddressFails(t)
       \/ /\ hasTimeout[t]
          /\ due' = [due EXCEPT ![t] = spent[t] + Timeout]
          /\ MoveTo(t, "poll")
          /\ UNCHANGED <<open, shared, ssls, locals, fd, ssl, ai, outcome, spent>>

(* The listening socket: SO_REUSEADDR, bind and listen, or the next one.   *)
Setup(t) ==
    /\ at[t] = "setup"
    /\ Publish(t, TRUE) \/ AddressFails(t)

Tick(t) ==
    /\ at[t] \in {"poll", "handshake", "await"} /\ hasTimeout[t] /\ spent[t] < due[t]
    /\ spent' = [spent EXCEPT ![t] = @ + 1]
    /\ UNCHANGED <<open, shared, ssls, at, locals, fd, ssl, ai, outcome, due>>

MutantLate(t) == hasTimeout[t] /\ spent[t] > due[t]

Late(t) == hasTimeout[t] /\ spent[t] = due[t]

(* Writable: SO_ERROR tells whether connected.  A deadline or a handled    *)
(* signal ends the call, whatever addresses are left.                      *)
ConnectWaits(t) ==
    /\ at[t] = "poll"
    /\ \/ Connected(t)
       \/ AddressFails(t)
       \/ /\ CloseFd(t)
          /\ (Late(t) /\ Answer(t, "timeout")) \/ Answer(t, "interrupted")
          /\ UNCHANGED <<shared, ssls, ssl>>

-----------------------------------------------------------------------------
(* SSL_new, SSL_set_fd and the options, then the handshake under a new     *)
(* deadline.                                                               *)
NewSsl(t) ==
    /\ at[t] = "ssl"
    /\ \/ /\ ssl' = [ssl EXCEPT ![t] = TRUE] /\ ssls' = ssls + 1
          /\ MoveTo(t, "options")
          /\ UNCHANGED <<open, locals, fd, ai, outcome, clock>>
       \/ Release(t) /\ Answer(t, "error")
    /\ UNCHANGED shared

ApplyOptions(t) ==
    /\ at[t] = "options"
    /\ \/ /\ due' = [due EXCEPT ![t] = spent[t] + Timeout]
          /\ MoveTo(t, "handshake")
          /\ UNCHANGED <<open, ssls, locals, fd, ssl, ai, outcome, spent>>
       \/ Release(t) /\ Answer(t, "error")
    /\ UNCHANGED shared

FirstHandshake(t) ==
    /\ at[t] = "handshake"
    /\ \/ Publish(t, FALSE)
       \/ /\ Release(t)
          /\ \/ Late(t) /\ Answer(t, "timeout")
             \/ \E res \in {"interrupted", "error"} : Answer(t, res)
          /\ UNCHANGED shared

(* accept: a connection, which accept4 turns into a descriptor.            *)
Await(t) ==
    /\ at[t] = "await"
    /\ \/ /\ NewFd(t) /\ MoveTo(t, "accepted")
          /\ UNCHANGED <<locals, ai, outcome, clock>>
       \/ /\ \/ Late(t) /\ Answer(t, "timeout")
             \/ \E res \in {"interrupted", "error"} : Answer(t, res)
          /\ UNCHANGED <<open, fd>>
    /\ UNCHANGED <<shared, ssls, ssl>>

Accepted(t) == at[t] = "accepted" /\ Publish(t, FALSE)

-----------------------------------------------------------------------------
Calls(t) == Connect(t) \/ ConnectTls(t) \/ Listen(t) \/ Accept(t) \/ CloseSock(t)

Steps(t) == \/ EnterOnce(t) \/ CreateContext(t) \/ ContextKnown(t) \/ Resolve(t) \/ NewSocket(t)
            \/ StartConnect(t) \/ Setup(t) \/ NewSsl(t) \/ ApplyOptions(t) \/ Accepted(t)

Waits(t) == ConnectWaits(t) \/ FirstHandshake(t) \/ Await(t)

SetupNext == \E t \in Threads : Calls(t) \/ Steps(t) \/ Waits(t) \/ Tick(t)

SetupSpec == SetupInit /\ [][SetupNext]_setupVars

(* A thread that is not waiting goes on, and so does the clock.  Poll      *)
(* answers once the deadline has passed; before that the peer may not.     *)
SetupFairness == \A t \in Threads :
    /\ WF_setupVars(Steps(t))
    /\ WF_setupVars(Tick(t))
    /\ WF_setupVars(Late(t) /\ Waits(t))

SetupFairSpec == SetupSpec /\ SetupFairness

-----------------------------------------------------------------------------
SetupTypeOK ==
    /\ open \subseteq Fds /\ ssls \in Nat
    /\ socks \in [Threads -> SUBSET Socks]
    /\ ctx \in {"no", "busy", "ready", "failed"}
    /\ fd \in [Threads -> Fds \cup {NoFd}] /\ ssl \in [Threads -> BOOLEAN]
    /\ hasTimeout \in [Threads -> BOOLEAN] /\ ai \in [Threads -> 0..Addresses]
    /\ kind \in [Threads -> {"none", "connect", "connect_tls", "listen", "accept"}]
    /\ at \in [Threads -> {"idle", "ctx", "creating", "resolve", "socket", "connect", "setup",
                           "poll", "ssl", "options", "handshake", "await", "accepted"}]

(* The descriptors somebody can still close: locals of calls and sockets.  *)
Held(t) == ({fd[t]} \ {NoFd}) \cup {s.fd : s \in socks[t]}

(* On every path every descriptor and every SSL object has exactly one     *)
(* owner, which will close it: none leaks, and no thread holds a number    *)
(* that was closed, which may be another thread's by now.                  *)
EverythingHasOneOwner ==
    /\ UNION {Held(t) : t \in Threads} = open
    /\ \A t, u \in Threads : t # u => Held(t) \cap Held(u) = {}
    /\ \A t \in Threads : /\ fd[t] \notin {s.fd : s \in socks[t]}
                          /\ \A s1, s2 \in socks[t] : s1.fd = s2.fd => s1 = s2
    /\ ssls = Cardinality({t \in Threads : ssl[t]})
              + Cardinality({ts \in Threads \X Socks : ts[2] \in socks[ts[1]] /\ ts[2].tls})

(* Nobody uses the shared context while another thread is still creating   *)
(* it, nor when its creation failed.                                       *)
ContextReadyWhenUsed ==
    \A t \in Threads :
        (kind[t] = "connect_tls" /\ at[t] \notin {"ctx", "creating"})
            => ctx = "ready" /\ \A u \in Threads : at[u] # "creating"

(* A call with a timeout returns, whatever the network does.               *)
TimedSetupReturns == \A t \in Threads : hasTimeout[t] ~> at[t] = "idle"
=============================================================================
