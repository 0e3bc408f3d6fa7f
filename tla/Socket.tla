------------------------------- MODULE Socket -------------------------------
(***************************************************************************)
(* A connected socket of babet.socket (src/src/lua_bindings/socket.cpp):   *)
(* send, recv, recv_line, recv_all, starttls, set_timeout and close, called *)
(* by one script, in plain TCP and through OpenSSL; the peer, the kernel's *)
(* two buffers, signals and the clock are the environment.                 *)
(*                                                                         *)
(* Bytes.  The peer sends the bytes of Stream in order, so that a byte is  *)
(* its position and a FIFO is an interval: 1..given was handed out by      *)
(* recv(2) or SSL_read, given+1..plain is deciphered and still in OpenSSL, *)
(* plain+1..taken is an incomplete TLS record inside OpenSSL, and          *)
(* taken+1..arrived is in the kernel.  In TCP the first three are one.  A  *)
(* peer may go on for ever: then Stream comes again (Renumber).            *)
(*                                                                         *)
(* Strings.  OpenSSL knows the string of an unfinished write by its address *)
(* and its length, which is MsgLen for all of them here.  A string that    *)
(* nobody holds after its send may be collected and its address given to   *)
(* another one, so each send chooses its string and its address freely.    *)
(*                                                                         *)
(* A signal that is handled is dispatched as the last thing an interrupted *)
(* call does: what its callback does with the socket is what the program   *)
(* does after the call returned.                                           *)
(***************************************************************************)
EXTENDS Naturals, Sequences, SequencesExt, FiniteSets

CONSTANTS
    Stream,      \* what the peer sends, a sequence of "x" and "LF"
    RecordEnds,  \* where its TLS records end
    MaxLine,     \* MAX_LINE_BYTES
    MaxRecv,     \* the n of recv(n), and the buffer of recv_all
    Msgs,        \* the contents of the strings the script sends
    Addrs,       \* their addresses
    MsgLen,      \* their length
    SndRoom,     \* capacity of the kernel's send buffer
    MaxOut,      \* bound: bytes the script sends
    Renegotiate  \* may SSL_read want to write, and SSL_write to read

ASSUME StreamAssumption == Stream \in Seq({"x", "LF"})
ASSUME RecordsAssumption == RecordEnds \subseteq 1..Len(Stream) /\ Len(Stream) \in RecordEnds
ASSUME SizesAssumption == {MaxLine, MaxRecv, MsgLen, SndRoom} \subseteq Nat \ {0}
ASSUME MaxOutAssumption == MaxOut \in Nat
ASSUME RenegotiateAssumption == Renegotiate \in BOOLEAN

VARIABLES
    arrived, fin, peerRead,      \* the peer: bytes in, how its side ended, bytes it took of out
    isOpen, timed, tls, pending, \* the Sock: fd >= 0, timeout_ms > 0, ssl, recv_line_pending
    taken, plain, given,         \* the bytes in OpenSSL, see above
    wpend,                       \* the write OpenSSL has not finished: what its record holds,
                                 \* the string's address then, the bytes left
    pc, op, deadline, acc,       \* the call: where it is, which it is, its deadline, its bytes
    msg, addr, total,            \* the string of a send and its address, the bytes sent
    answer,                      \* the message of the last call, if it is a send that answered ok
    out, delivered, dropped, mixed, \* ghosts: bytes handed to the kernel, bytes the script got,
                                 \* bytes a failed call threw away, whether recv or recv_all was
    broken                       \* called over an unfinished line, a failed handshake

peerVars == <<arrived, fin, peerRead>>
sockVars == <<isOpen, timed, tls, pending>>
sslVars  == <<taken, plain, given, wpend>>
callVars == <<pc, op, deadline, acc, msg, addr, total, answer>>
ghosts   == <<out, delivered, dropped, mixed, broken>>
vars     == <<peerVars, sockVars, sslVars, callVars, ghosts>>

Readers   == {"recv", "recv_line", "recv_all"}
NoMsg     == "none"
NoAddr    == "nowhere"
NoPending == [msg |-> NoMsg, addr |-> NoAddr, left |-> 0]

ASSUME MsgsAssumption == NoMsg \notin Msgs /\ NoAddr \notin Addrs

Init ==
    /\ arrived = 0 /\ fin = "no" /\ peerRead = 0
    /\ isOpen = TRUE /\ timed = FALSE /\ tls \in BOOLEAN /\ pending = << >>
    /\ taken = 0 /\ plain = 0 /\ given = 0 /\ wpend = NoPending
    /\ pc = "idle" /\ op = "none" /\ deadline = "none" /\ acc = << >>
    /\ msg = NoMsg /\ addr = NoAddr /\ total = 0 /\ answer = NoMsg
    /\ out = << >> /\ delivered = << >> /\ dropped = {} /\ mixed = FALSE /\ broken = FALSE

-----------------------------------------------------------------------------
(* The peer and the clock.                                                 *)

Interval(a, b) == [i \in 1..(b - a) |-> a + i]

Room == SndRoom - (Len(out) - peerRead)

PeerSends ==
    /\ fin = "no" /\ arrived < Len(Stream)
    /\ arrived' = arrived + 1
    /\ UNCHANGED <<fin, peerRead, sockVars, sslVars, callVars, ghosts>>

(* The model's own: when the script has all of Stream, and what it is       *)
(* collecting does not matter to the call, the positions start again.      *)
Renumber ==
    /\ fin = "no" /\ given = Len(Stream)
    /\ pending = << >> /\ (acc = << >> \/ op = "recv_all")
    /\ arrived' = 0 /\ taken' = 0 /\ plain' = 0 /\ given' = 0
    /\ acc' = << >> /\ delivered' = << >> /\ dropped' = {} /\ mixed' = FALSE
    /\ UNCHANGED <<fin, peerRead, sockVars, wpend, pc, op, deadline, msg, addr, total, answer,
                   out, broken>>

(* FIN (with a close_notify, in TLS), or a reset.                          *)
PeerEnds ==
    /\ fin = "no"
    /\ fin' \in {"eof", "reset"}
    /\ UNCHANGED <<arrived, peerRead, sockVars, sslVars, callVars, ghosts>>

PeerReads ==
    /\ peerRead < Len(out)
    /\ peerRead' = peerRead + 1
    /\ UNCHANGED <<arrived, fin, sockVars, sslVars, callVars, ghosts>>

TimePasses ==
    /\ deadline = "ahead"
    /\ deadline' = "passed"
    /\ UNCHANGED <<peerVars, sockVars, sslVars, pc, op, acc, msg, addr, total, answer, ghosts>>

-----------------------------------------------------------------------------
(* Calls.                                                                  *)
MakeDeadline == IF timed THEN "ahead" ELSE "none"

(* The top of the three reading loops: with deciphered bytes in OpenSSL    *)
(* (SSL_pending) the descriptor is not waited for.                         *)
MutantNoPending(isTls, got, deciphered) == "pollIn"
ReadFrom(isTls, got, deciphered) == IF isTls /\ got < deciphered THEN "io" ELSE "pollIn"

Enter(name) ==
    /\ pc = "idle" /\ isOpen /\ ~broken
    /\ op' = name /\ deadline' = MakeDeadline /\ answer' = NoMsg

StartRecvLine ==
    /\ Enter("recv_line")
    /\ acc' = pending /\ pending' = << >>
    /\ pc' = ReadFrom(tls, given, plain)
    /\ UNCHANGED <<peerVars, isOpen, timed, tls, sslVars, msg, addr, total, ghosts>>

(* recv and recv_all do not look at recv_line_pending.                     *)
StartRecv(name) ==
    /\ Enter(name)
    /\ acc' = << >>
    /\ pc' = ReadFrom(tls, given, plain)
    /\ mixed' = (mixed \/ pending # << >>)
    /\ UNCHANGED <<peerVars, sockVars, sslVars, msg, addr, total, out, delivered, dropped, broken>>

StartSend(m, a) ==
    /\ Enter("send") /\ Len(out) + MsgLen <= MaxOut
    /\ msg' = m /\ addr' = a /\ total' = 0 /\ acc' = << >>
    /\ pc' = "pollOut"
    /\ UNCHANGED <<peerVars, sockVars, sslVars, ghosts>>

(* starttls begins the handshake, with the timeout of the socket.  (The    *)
(* protocols that use it are silent until then: nothing is unread.)        *)
StartTls ==
    /\ Enter("starttls") /\ ~tls /\ given = arrived /\ given \in RecordEnds \cup {0}
    /\ fin = "no"
    /\ acc' = << >>
    /\ pc' = "handshake"
    /\ UNCHANGED <<peerVars, sockVars, sslVars, msg, addr, total, ghosts>>

SetTimeout ==
    /\ pc = "idle" /\ isOpen
    /\ timed' = ~timed
    /\ UNCHANGED <<peerVars, isOpen, tls, pending, sslVars, callVars, ghosts>>

(* close, and __gc of a socket nobody closed.                              *)
Close ==
    /\ pc = "idle" /\ isOpen
    /\ isOpen' = FALSE /\ tls' = FALSE
    /\ UNCHANGED <<peerVars, timed, pending, sslVars, callVars, ghosts>>

Return(result) ==
    /\ answer' = IF op = "send" /\ result = "ok" THEN msg ELSE NoMsg
    /\ pc' = "idle" /\ op' = "none" /\ deadline' = "none"
    /\ acc' = << >> /\ msg' = NoMsg /\ addr' = NoAddr /\ total' = 0

(* How each call fails: recv_line keeps what it has read for the next one, *)
(* recv_all throws it away.                                                *)
MutantFail(reason) ==
    /\ Return(reason)
    /\ pending' = pending
    /\ dropped' = IF op = "recv_all" THEN dropped \cup Range(acc) ELSE dropped
    /\ UNCHANGED <<peerVars, isOpen, timed, tls, sslVars, out, delivered, mixed, broken>>

Fail(reason) ==
    /\ Return(reason)
    /\ pending' = IF op = "recv_line" THEN acc ELSE pending
    /\ dropped' = IF op = "recv_all" THEN dropped \cup Range(acc) ELSE dropped
    /\ UNCHANGED <<peerVars, isOpen, timed, tls, sslVars, out, delivered, mixed, broken>>

Goto(place) ==
    /\ pc' = place
    /\ UNCHANGED <<op, deadline, acc, msg, addr, total, answer>>

-----------------------------------------------------------------------------
(* wait_ready_deadline.                                                    *)
Readable == arrived > taken \/ fin # "no"
Writable == Room > 0 \/ fin = "reset"

(* Where each wait continues.  "flush" is SSL_read waiting to write, and   *)
(* "drain" SSL_write waiting to read.                                      *)
Ready(place) == \/ place \in {"pollIn", "drain"} /\ Readable
                \/ place \in {"pollOut", "flush"} /\ Writable
After(place) == IF place = "flush" THEN ReadFrom(tls, given, plain)
                ELSE IF place = "drain" THEN "pollOut" ELSE "io"

Waiting == pc \in {"pollIn", "pollOut", "flush", "drain"}

PollReady ==
    /\ Waiting /\ Ready(pc)
    /\ Goto(After(pc))
    /\ UNCHANGED <<peerVars, sockVars, sslVars, ghosts>>

(* The descriptor is looked at once more after the deadline: a timeout     *)
(* says that nothing was there.                                            *)
PollTimeout ==
    /\ Waiting /\ deadline = "passed" /\ ~Ready(pc)
    /\ Fail("timeout")

(* A handled signal while poll sleeps; an unhandled one changes nothing.   *)
PollInterrupted ==
    /\ Waiting /\ ~Ready(pc)
    /\ Fail("interrupted")

-----------------------------------------------------------------------------
(* Bytes handed to the three readers.  k is their number.                  *)
Got(k) ==
    LET bytes == Interval(given, given + k)
        b == given + 1
    IN  /\ given' = given + k
        /\ \/ /\ op = "recv"
              /\ Return("ok")
              /\ delivered' = delivered \o bytes
              /\ UNCHANGED <<pending, dropped>>
           \/ /\ op = "recv_line" /\ Stream[b] = "LF"
              /\ Return("ok")
              /\ delivered' = delivered \o acc \o bytes
              /\ UNCHANGED <<pending, dropped>>
           \/ /\ op = "recv_line" /\ Stream[b] # "LF" /\ Len(acc) >= MaxLine
              /\ Return("line too long")
              /\ dropped' = dropped \cup Range(acc) \cup {b}
              /\ pending' = << >>
              /\ UNCHANGED delivered
           \/ /\ \/ op = "recv_line" /\ Stream[b] # "LF" /\ Len(acc) < MaxLine
                 \/ op = "recv_all"
              /\ acc' = acc \o bytes
              /\ pc' = ReadFrom(tls, given', plain')
              /\ UNCHANGED <<op, deadline, msg, addr, total, answer, pending, delivered, dropped>>
        /\ UNCHANGED <<peerVars, isOpen, timed, tls, wpend, out, mixed, broken>>

(* The end of the stream: recv_line hands over the unfinished line, and    *)
(* for recv_all it is the success.                                         *)
Eof ==
    /\ Return(IF op = "recv_all" THEN "ok" ELSE "closed")
    /\ delivered' = delivered \o acc
    /\ UNCHANGED <<peerVars, sockVars, sslVars, out, dropped, mixed, broken>>

(* The most one read may return: recv_line reads byte by byte.             *)
Cap == IF op = "recv_line" THEN 1 ELSE MaxRecv

Reading == pc = "io" /\ op \in Readers

PlainRecv ==
    /\ Reading /\ ~tls /\ arrived > taken
    /\ \E k \in 1..Cap :
          /\ k <= arrived - taken
          /\ taken' = taken + k /\ plain' = taken'
          /\ Got(k)

(* SSL_read: what is deciphered first; else the next record, if all of it  *)
(* arrived; else what arrived of it goes into OpenSSL and it wants more.   *)
RecordEnd == Min({e \in RecordEnds : e > plain})

SslReadDeciphered ==
    /\ Reading /\ tls /\ given < plain
    /\ UNCHANGED <<taken, plain>>
    /\ \E k \in 1..Cap : k <= plain - given /\ Got(k)

SslReadRecord ==
    /\ Reading /\ tls /\ given = plain /\ plain < arrived /\ RecordEnd <= arrived
    /\ taken' = RecordEnd /\ plain' = RecordEnd
    /\ \E k \in 1..Cap : k <= RecordEnd - given /\ Got(k)

SslReadIncomplete ==
    /\ Reading /\ tls /\ given = plain
    /\ arrived > taken /\ RecordEnd > arrived
    /\ taken' = arrived
    /\ Goto("pollIn")
    /\ UNCHANGED <<peerVars, sockVars, plain, given, wpend, ghosts>>

SslReadRenegotiates ==
    /\ Reading /\ tls /\ given = plain /\ Renegotiate
    /\ Goto("flush")
    /\ UNCHANGED <<peerVars, sockVars, sslVars, ghosts>>

(* recv gives 0, or SSL_read a close_notify or an end without one.         *)
ReadEof ==
    /\ Reading /\ given = plain /\ taken = arrived /\ fin = "eof"
    /\ Eof

(* A reset, which may overtake what arrived, or in TLS an end in the middle *)
(* of a record.                                                            *)
ReadFails ==
    /\ Reading /\ given = plain
    /\ \/ fin = "reset"
       \/ fin = "eof" /\ tls /\ plain < taken /\ taken = arrived
    /\ Fail("error")

-----------------------------------------------------------------------------
(* send.                                                                   *)
Writing == pc = "io" /\ op = "send"

Bytes(m, a, b) == [i \in 1..(b - a) |-> <<m, a + i>>]

(* total moves on by k; the loop goes back to poll until all is sent.      *)
Sent(k) ==
    IF total + k = MsgLen
    THEN Return("ok")
    ELSE /\ pc' = "pollOut" /\ total' = total + k
         /\ UNCHANGED <<op, deadline, acc, msg, addr, answer>>

SmallerOf(a, b) == IF a < b THEN a ELSE b

(* send(2) with MSG_DONTWAIT: what fits.                                   *)
SendSome ==
    /\ Writing /\ ~tls /\ timed /\ fin # "reset"
    /\ LET k == SmallerOf(Room, MsgLen - total)
       IN  /\ k > 0
           /\ out' = out \o Bytes(msg, total, total + k)
           /\ Sent(k)
    /\ UNCHANGED <<peerVars, sockVars, sslVars, delivered, dropped, mixed, broken>>

(* send(2) without a timeout sleeps in the kernel until all is accepted;   *)
(* a signal makes it return what was.                                      *)
MutantBlocksAlways ==
    /\ Writing /\ ~tls /\ fin # "reset"
    /\ Goto("sending")
    /\ UNCHANGED <<peerVars, sockVars, sslVars, ghosts>>

SendBlocks ==
    /\ Writing /\ ~tls /\ ~timed /\ fin # "reset"
    /\ Goto("sending")
    /\ UNCHANGED <<peerVars, sockVars, sslVars, ghosts>>

KernelAccepts ==
    /\ pc = "sending" /\ fin # "reset" /\ Room > 0
    /\ out' = out \o Bytes(msg, total, total + 1)
    /\ IF total + 1 = MsgLen
       THEN Return("ok")
       ELSE /\ total' = total + 1
            /\ UNCHANGED <<pc, op, deadline, acc, msg, addr, answer>>
    /\ UNCHANGED <<peerVars, sockVars, sslVars, delivered, dropped, mixed, broken>>

SendInterrupted ==
    /\ pc = "sending" /\ Room = 0
    /\ Goto("pollOut")
    /\ UNCHANGED <<peerVars, sockVars, sslVars, ghosts>>

(* EPIPE, ECONNRESET, or the TLS end of file.                              *)
SendClosed ==
    /\ \/ Writing
       \/ pc = "sending"
    /\ fin = "reset"
    /\ Fail("closed")

(* SSL_write makes one record of all that is left and returns when it is   *)
(* flushed, else it wants to write and must be called with the same buffer. *)
Flush(m, left) ==
    LET k == SmallerOf(Room, left)
        done == MsgLen - left
    IN  /\ out' = out \o Bytes(m, done, done + k)
        /\ IF k = left
           THEN wpend' = NoPending /\ Return("ok")
           ELSE /\ wpend' = [msg |-> m, addr |-> addr, left |-> left - k]
                /\ Goto("pollOut")
        /\ UNCHANGED <<peerVars, sockVars, taken, plain, given, delivered, dropped, mixed, broken>>

MutantSslWrite ==
    /\ Writing /\ tls /\ fin # "reset"
    /\ \/ wpend = NoPending /\ Flush(msg, MsgLen - total)
       \/ wpend # NoPending /\ Flush(wpend.msg, wpend.left)

(* The record is already made: a send of any string at the address of the  *)
(* one that was interrupted flushes the rest of the old record.            *)
SslWrite ==
    /\ Writing /\ tls /\ fin # "reset"
    /\ \/ wpend = NoPending /\ Flush(msg, MsgLen - total)
       \/ wpend.addr = addr /\ Flush(wpend.msg, wpend.left)

(* "bad write retry": a send that timed out left a record half written, and *)
(* this one's string, equal or not, is elsewhere.                          *)
SslBadRetry ==
    /\ Writing /\ tls /\ wpend.addr \notin {NoAddr, addr}
    /\ Fail("error")

SslWriteRenegotiates ==
    /\ Writing /\ tls /\ Renegotiate
    /\ Goto("drain")
    /\ UNCHANGED <<peerVars, sockVars, sslVars, ghosts>>

-----------------------------------------------------------------------------
(* tls_handshake in starttls: the socket becomes a TLS one, or stays what  *)
(* it was with the peer in the middle of a handshake: a script then closes *)
(* it (broken).                                                            *)
HandshakeDone ==
    /\ pc = "handshake"
    /\ tls' = TRUE
    /\ Return("ok")
    /\ UNCHANGED <<peerVars, isOpen, timed, pending, sslVars, ghosts>>

HandshakeTimeout ==
    /\ pc = "handshake" /\ deadline = "passed"
    /\ broken' = TRUE
    /\ Return("timeout")
    /\ UNCHANGED <<peerVars, sockVars, sslVars, out, delivered, dropped, mixed>>

HandshakeFails ==
    /\ pc = "handshake"
    /\ broken' = TRUE
    /\ Return("interrupted") \/ Return("error")
    /\ UNCHANGED <<peerVars, sockVars, sslVars, out, delivered, dropped, mixed>>

-----------------------------------------------------------------------------
Peer == PeerSends \/ PeerEnds \/ PeerReads \/ Renumber

Wait == PollReady \/ PollTimeout \/ PollInterrupted

Read == \/ PlainRecv \/ SslReadDeciphered \/ SslReadRecord \/ SslReadIncomplete
        \/ ReadEof \/ ReadFails

Write == SendSome \/ SendBlocks \/ KernelAccepts \/ SendClosed \/ SslWrite \/ SslBadRetry

Handshake == HandshakeDone \/ HandshakeTimeout \/ HandshakeFails

Call == \/ StartRecvLine \/ StartRecv("recv") \/ StartRecv("recv_all") \/ StartTls
        \/ \E m \in Msgs, a \in Addrs : StartSend(m, a)
        \/ SetTimeout \/ Close

(* The script goes on without the socket.                                  *)
Gone == ~isOpen /\ pc = "idle" /\ UNCHANGED vars

Next == \/ Peer \/ TimePasses \/ Call \/ Wait \/ Read \/ Write \/ Handshake
        \/ SslReadRenegotiates \/ SslWriteRenegotiates \/ SendInterrupted
        \/ Gone

Spec == Init /\ [][Next]_vars

(* The script's thread runs, the clock does, and neither renegotiations nor *)
(* signals keep a call busy forever.  Nothing is asked of the peer.        *)
Fairness ==
    /\ WF_vars(TimePasses)
    /\ WF_vars(PollReady \/ PollTimeout)
    /\ SF_vars(Read)
    /\ SF_vars(Write)
    /\ WF_vars(HandshakeTimeout)

FairSpec == Spec /\ Fairness

-----------------------------------------------------------------------------
(* Types, and the order of the four ends of the stream.                    *)
TypeOK ==
    /\ given <= plain /\ plain <= taken /\ taken <= arrived /\ arrived <= Len(Stream)
    /\ isOpen /\ ~tls => given = taken
    /\ fin \in {"no", "eof", "reset"} /\ peerRead \in 0..Len(out) /\ Room >= 0
    /\ {isOpen, timed, tls, mixed, broken} \subseteq BOOLEAN
    /\ pending \in Seq(1..given) /\ acc \in Seq(1..given) /\ delivered \in Seq(1..given)
    /\ dropped \subseteq 1..given
    /\ wpend \in {NoPending} \cup [msg : Msgs, addr : Addrs, left : 1..MsgLen]
    /\ pc \in {"idle", "io", "pollIn", "pollOut", "flush", "drain", "sending", "handshake"}
    /\ op \in {"none", "send", "starttls"} \cup Readers
    /\ pc = "idle" <=> op = "none"
    /\ deadline \in {"none", "ahead", "passed"}
    /\ msg \in Msgs \cup {NoMsg} /\ addr \in Addrs \cup {NoAddr} /\ total \in 0..MsgLen
    /\ out \in Seq(Msgs \X (1..MsgLen)) /\ Len(out) <= MaxOut

(* The stream arrives whole and in order, whatever calls time out, are    *)
(* interrupted or fail in between.  A byte taken out of the kernel is never *)
(* lost or given twice: the script has it, recv_line keeps it, a call is   *)
(* collecting it, or a failing recv_all or a line too long threw it away.  *)
(* And they come in the order of the peer, unless the script calls recv or *)
(* recv_all while an unfinished line is kept.                              *)
StreamIntact ==
    LET all == delivered \o pending \o acc
    IN  /\ Range(all) \cup dropped = 1..given
        /\ Len(all) + Cardinality(dropped) = given
        /\ ~mixed => \A i, j \in DOMAIN all : i < j => all[i] < all[j]

(* A send that answers its count has handed one whole string to the kernel, *)
(* in one piece: its own, also when OpenSSL had kept a part of it from a    *)
(* send that timed out; or the one of that send, if its own has come to be  *)
(* at the address of that one.                                             *)
Whole(m, bytes) == LET n == Len(bytes) IN SubSeq(bytes, n - MsgLen + 1, n) = Bytes(m, 0, MsgLen)

SendIsWhole ==
    [][op = "send" /\ answer' # NoMsg =>
         \/ Whole(msg, out')
         \/ wpend.addr = addr /\ Whole(wpend.msg, out')]_vars

(* What of the stream can be had without another byte from the peer.       *)
Available == IF tls THEN {p \in 1..Len(Stream) : \E e \in RecordEnds : p <= e /\ e <= arrived}
                    ELSE 1..arrived

(* recv_line does not sleep on a line that is already there, deciphered in *)
(* OpenSSL or in the kernel, even without a timeout (unless OpenSSL has to *)
(* write first).                                                           *)
AvailableLineIsRead ==
    (op = "recv_line" /\ \E p \in Available : p > given /\ Stream[p] = "LF")
        ~> op # "recv_line" \/ pc = "flush"

(* With a timeout every call returns, whatever the peer does: no call      *)
(* sleeps anywhere but in poll, and each reads or writes only so much.     *)
(* Only recv_all reads on, as long as there is something: it may last for  *)
(* ever if the peer sends for ever.                                        *)
TimedCallReturns ==
    /\ (deadline # "none" /\ op # "recv_all") ~> pc = "idle"
    /\ (deadline # "none" ~> pc = "idle") \/ []<><<PeerSends>>_vars

-----------------------------------------------------------------------------
(* Statements of the sources that the code does not keep.                  *)

(* socket.cpp: a timeout is the longest time of the call, and the deadline *)
(* of recv_all covers the whole call.  But poll says ready after the       *)
(* deadline too, and nothing else looks at it.                             *)
DeadlineCoversCall == deadline # "none" ~> pc = "idle"

(* socket.md: send answers the bytes sent.                                 *)
AnsweredIsSent == answer # NoMsg => Whole(answer, out)
=============================================================================
