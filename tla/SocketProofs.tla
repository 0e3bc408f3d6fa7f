---------------------------- MODULE SocketProofs ----------------------------
(***************************************************************************)
(* Proofs about babet.socket: first a connected socket, for any stream,    *)
(* any TLS records, any messages and any sizes, then how sockets come to   *)
(* be and go.  Both are proved about socket.cpp, and neither uses the      *)
(* other's state.                                                          *)
(*                                                                         *)
(* The bytes of the peer are followed through the three sequences they can *)
(* be in: what the script got, what recv_line keeps between calls, what    *)
(* the call in progress collects.  The bytes of the script are followed by *)
(* what the kernel's buffer ends with.                                     *)
(***************************************************************************)
EXTENDS Socket, SocketSetup, FiniteSetTheorems, WellFoundedInduction, TLAPS

Inj(s) == \A i, j \in DOMAIN s : s[i] = s[j] => i = j
Inc(s) == \A i, j \in DOMAIN s : i < j => s[i] < s[j]
Below(s, t) == \A i \in DOMAIN s, j \in DOMAIN t : s[i] < t[j]
Apart(S, T) == S \cap T = {}

-----------------------------------------------------------------------------
(* Sequences of bytes and their concatenation.                             *)
LEMMA ConcatFacts ==
    ASSUME NEW s \in Seq(Nat), NEW t \in Seq(Nat)
    PROVE  /\ s \o t \in Seq(Nat) /\ Len(s \o t) = Len(s) + Len(t)
           /\ DOMAIN (s \o t) = 1 .. (Len(s) + Len(t))
           /\ DOMAIN s = 1 .. Len(s) /\ DOMAIN t = 1 .. Len(t) /\ Len(s) \in Nat /\ Len(t) \in Nat
           /\ \A i \in 1 .. (Len(s) + Len(t)) :
                 (s \o t)[i] = IF i <= Len(s) THEN s[i] ELSE t[i - Len(s)]
OBVIOUS

LEMMA ConcatRange ==
    ASSUME NEW s \in Seq(Nat), NEW t \in Seq(Nat)
    PROVE  Range(s \o t) = Range(s) \cup Range(t)
<1>1. ASSUME NEW x \in Range(s \o t) PROVE x \in Range(s) \cup Range(t)
  <2>1. PICK i \in DOMAIN (s \o t) : x = (s \o t)[i]
    BY <1>1 DEF Range
  <2>2. CASE i <= Len(s)
    <3>1. i \in DOMAIN s /\ x = s[i]
      BY <2>1, <2>2, ConcatFacts
    <3> QED BY <3>1 DEF Range
  <2>3. CASE ~(i <= Len(s))
    <3>1. i - Len(s) \in DOMAIN t /\ x = t[i - Len(s)]
      BY <2>1, <2>3, ConcatFacts
    <3> QED BY <3>1 DEF Range
  <2> QED BY <2>2, <2>3
<1>2. ASSUME NEW x \in Range(s) PROVE x \in Range(s \o t)
  <2>1. PICK i \in DOMAIN s : x = s[i]
    BY <1>2 DEF Range
  <2>2. i \in DOMAIN (s \o t) /\ (s \o t)[i] = x
    BY <2>1, ConcatFacts
  <2> QED BY <2>2 DEF Range
<1>3. ASSUME NEW x \in Range(t) PROVE x \in Range(s \o t)
  <2>1. PICK i \in DOMAIN t : x = t[i]
    BY <1>3 DEF Range
  <2>2. i + Len(s) \in DOMAIN (s \o t) /\ ~(i + Len(s) <= Len(s)) /\ (i + Len(s)) - Len(s) = i
    BY <2>1, ConcatFacts
  <2>3. (s \o t)[i + Len(s)] = x
    BY <2>1, <2>2, ConcatFacts
  <2> QED BY <2>2, <2>3 DEF Range
<1> QED BY <1>1, <1>2, <1>3

LEMMA ConcatInj ==
    ASSUME NEW s \in Seq(Nat), NEW t \in Seq(Nat), Inj(s), Inj(t), Apart(Range(s), Range(t))
    PROVE  Inj(s \o t)
<1> SUFFICES ASSUME NEW i \in DOMAIN (s \o t), NEW j \in DOMAIN (s \o t), (s \o t)[i] = (s \o t)[j]
             PROVE  i = j
  BY DEF Inj
<1>1. \A k \in DOMAIN s : s[k] \in Range(s)
  BY DEF Range
<1>2. \A k \in DOMAIN t : t[k] \in Range(t)
  BY DEF Range
<1>3. CASE i <= Len(s) /\ j <= Len(s)
  BY <1>3, ConcatFacts DEF Inj
<1>4. CASE ~(i <= Len(s)) /\ ~(j <= Len(s))
  <2>1. i - Len(s) \in DOMAIN t /\ j - Len(s) \in DOMAIN t /\ t[i - Len(s)] = t[j - Len(s)]
    BY <1>4, ConcatFacts
  <2>2. i - Len(s) = j - Len(s)
    BY <2>1 DEF Inj
  <2> QED BY <2>2, ConcatFacts
<1>5. CASE i <= Len(s) /\ ~(j <= Len(s))
  <2>1. i \in DOMAIN s /\ j - Len(s) \in DOMAIN t /\ s[i] = t[j - Len(s)]
    BY <1>5, ConcatFacts
  <2> QED BY <1>1, <1>2, <2>1 DEF Apart
<1>6. CASE ~(i <= Len(s)) /\ j <= Len(s)
  <2>1. j \in DOMAIN s /\ i - Len(s) \in DOMAIN t /\ s[j] = t[i - Len(s)]
    BY <1>6, ConcatFacts
  <2> QED BY <1>1, <1>2, <2>1 DEF Apart
<1> QED BY <1>3, <1>4, <1>5, <1>6

LEMMA ConcatInc ==
    ASSUME NEW s \in Seq(Nat), NEW t \in Seq(Nat), Inc(s), Inc(t), Below(s, t)
    PROVE  Inc(s \o t)
<1> SUFFICES ASSUME NEW i \in DOMAIN (s \o t), NEW j \in DOMAIN (s \o t), i < j
             PROVE  (s \o t)[i] < (s \o t)[j]
  BY DEF Inc
<1>1. CASE j <= Len(s)
  <2>1. i \in DOMAIN s /\ j \in DOMAIN s /\ (s \o t)[i] = s[i] /\ (s \o t)[j] = s[j]
    BY <1>1, ConcatFacts
  <2> QED BY <2>1 DEF Inc
<1>2. CASE ~(i <= Len(s))
  <2>1. /\ i - Len(s) \in DOMAIN t /\ j - Len(s) \in DOMAIN t /\ i - Len(s) < j - Len(s)
        /\ (s \o t)[i] = t[i - Len(s)] /\ (s \o t)[j] = t[j - Len(s)]
    BY <1>2, ConcatFacts
  <2> QED BY <2>1 DEF Inc
<1>3. CASE i <= Len(s) /\ ~(j <= Len(s))
  <2>1. /\ i \in DOMAIN s /\ j - Len(s) \in DOMAIN t
        /\ (s \o t)[i] = s[i] /\ (s \o t)[j] = t[j - Len(s)]
    BY <1>3, ConcatFacts
  <2> QED BY <2>1 DEF Below
<1> QED BY <1>1, <1>2, <1>3, ConcatFacts

LEMMA ConcatBelow ==
    ASSUME NEW s \in Seq(Nat), NEW t \in Seq(Nat), NEW u \in Seq(Nat)
    PROVE  /\ Below(s, u) /\ Below(t, u) => Below(s \o t, u)
           /\ Below(u, s) /\ Below(u, t) => Below(u, s \o t)
<1>1. ASSUME NEW i \in DOMAIN (s \o t)
      PROVE  \/ i \in DOMAIN s /\ (s \o t)[i] = s[i]
             \/ i - Len(s) \in DOMAIN t /\ (s \o t)[i] = t[i - Len(s)]
  BY ConcatFacts
<1> QED BY <1>1 DEF Below

(* An injective sequence is as long as its range is large.                 *)
LEMMA InjLength ==
    ASSUME NEW s \in Seq(Nat), Inj(s)
    PROVE  IsFiniteSet(Range(s)) /\ Cardinality(Range(s)) = Len(s)
<1>1. DOMAIN s = 1 .. Len(s) /\ Len(s) \in Nat
  OBVIOUS
<1>2. s \in [1 .. Len(s) -> Range(s)]
  BY <1>1 DEF Range
<1>3. s \in Surjection(1 .. Len(s), Range(s))
  BY <1>1, <1>2 DEF Surjection, Range
<1>4. s \in Injection(1 .. Len(s), Range(s))
  BY <1>1, <1>2 DEF Injection, IsInjective, Inj
<1>5. IsFiniteSet(1 .. Len(s)) /\ Cardinality(1 .. Len(s)) = Len(s)
  <2>1. \A n \in Nat : /\ IsFiniteSet(1 .. n)
                       /\ Cardinality(1 .. n) = IF 1 > n THEN 0 ELSE n - 1 + 1
    BY FS_Interval
  <2>2. \A n \in Nat : (IF 1 > n THEN 0 ELSE n - 1 + 1) = n
    OBVIOUS
  <2> QED BY <1>1, <2>1, <2>2
<1>6. /\ IsFiniteSet(Range(s))
      /\ Cardinality(Range(s)) = Cardinality(1 .. Len(s)) <=> s \in Injection(1 .. Len(s), Range(s))
  BY <1>3, <1>5, FS_Surjection, Zenon
<1> QED BY <1>4, <1>5, <1>6, Zenon

LEMMA EmptyFacts ==
    /\ << >> \in Seq(Nat) /\ Range(<< >>) = {} /\ Inj(<< >>) /\ Inc(<< >>)
    /\ \A s : Below(s, << >>)
    /\ \A s \in Seq(Nat) : s \o << >> = s /\ << >> \o s = s
BY DEF Range, Inj, Inc, Below

LEMMA IntervalFacts ==
    ASSUME NEW a \in Nat, NEW k \in Nat
    PROVE  /\ Interval(a, a + k) \in Seq(Nat) /\ Len(Interval(a, a + k)) = k
           /\ DOMAIN Interval(a, a + k) = 1 .. k
           /\ Range(Interval(a, a + k)) = (a + 1) .. (a + k)
           /\ Inj(Interval(a, a + k)) /\ Inc(Interval(a, a + k))
<1> DEFINE s == Interval(a, a + k)
<1>1. s = [i \in 1 .. k |-> a + i]
  BY DEF Interval
<1>2. s \in Seq(Nat) /\ Len(s) = k /\ DOMAIN s = 1 .. k /\ \A i \in 1 .. k : s[i] = a + i
  <2>1. s \in [1 .. k -> Nat]
    BY <1>1
  <2> QED BY <1>1, <2>1
<1> HIDE DEF s
<1>3. Range(s) = (a + 1) .. (a + k)
  <2>1. ASSUME NEW x \in (a + 1) .. (a + k) PROVE x \in Range(s)
    <3>1. x - a \in 1 .. k /\ s[x - a] = x
      BY <1>2
    <3> QED BY <1>2, <3>1 DEF Range
  <2>2. ASSUME NEW x \in Range(s) PROVE x \in (a + 1) .. (a + k)
    BY <1>2 DEF Range
  <2> QED BY <2>1, <2>2
<1>4. Inj(s) /\ Inc(s)
  BY <1>2 DEF Inj, Inc
<1> QED BY <1>2, <1>3, <1>4 DEF s

-----------------------------------------------------------------------------
(* Every byte read is in one place.                                        *)
PartsInv ==
    /\ given \in Nat
    /\ delivered \in Seq(Nat) /\ pending \in Seq(Nat) /\ acc \in Seq(Nat)
    /\ Range(delivered) \cup Range(pending) \cup Range(acc) \cup dropped = 1 .. given
    /\ Inj(delivered) /\ Inj(pending) /\ Inj(acc)
    /\ Apart(Range(delivered), Range(pending)) /\ Apart(Range(delivered), Range(acc))
    /\ Apart(Range(pending), Range(acc))
    /\ Apart(dropped, Range(delivered)) /\ Apart(dropped, Range(pending)) /\ Apart(dropped, Range(acc))

(* They are in order while recv and recv_all leave unfinished lines alone. *)
OrderInv ==
    ~mixed => /\ Inc(delivered) /\ Inc(pending) /\ Inc(acc)
              /\ Below(delivered, pending) /\ Below(delivered, acc)
              /\ pending = << >> \/ acc = << >>

(* Which call can be collecting, and keeping, bytes.                       *)
ControlInv ==
    /\ op \in {"none", "send", "starttls"} \cup Readers /\ mixed \in BOOLEAN
    /\ pc = "idle" => op = "none"
    /\ pc = "handshake" => op = "starttls"
    /\ pc = "sending" => op = "send"
    /\ op \in {"none", "send", "starttls", "recv"} => acc = << >>
    /\ op = "recv_line" => pending = << >>
    /\ ~mixed /\ op \in {"recv", "recv_all"} => pending = << >>

BInv == PartsInv /\ OrderInv /\ ControlInv

(* The invariant's parts are what the property says of the whole.          *)
LEMMA IntactFromParts == BInv => StreamIntact
<1> SUFFICES ASSUME BInv PROVE StreamIntact
  OBVIOUS
<1> DEFINE front == delivered \o pending
           all == front \o acc
<1>1. front \in Seq(Nat) /\ Range(front) = Range(delivered) \cup Range(pending) /\ Inj(front)
  BY ConcatFacts, ConcatRange, ConcatInj DEF BInv, PartsInv
<1>2. /\ delivered \in Seq(Nat) /\ pending \in Seq(Nat) /\ acc \in Seq(Nat) /\ Inj(acc)
      /\ Apart(Range(front), Range(acc)) /\ given \in Nat
  BY <1>1 DEF BInv, PartsInv, Apart
<1>3. /\ all \in Seq(Nat) /\ Inj(all)
      /\ Range(all) = Range(delivered) \cup Range(pending) \cup Range(acc)
  <2> HIDE DEF front
  <2> QED BY <1>1, <1>2, ConcatFacts, ConcatRange, ConcatInj
<1>4. Range(all) \cup dropped = 1 .. given /\ Range(all) \cap dropped = {}
  BY <1>3 DEF BInv, PartsInv, Apart
<1>5. Len(all) + Cardinality(dropped) = given
  <2> HIDE DEF all
  <2>1. IsFiniteSet(Range(all)) /\ Cardinality(Range(all)) = Len(all)
    BY <1>3, InjLength, Zenon
  <2>7. Len(all) \in Nat
    BY <1>3
  <2>2. IsFiniteSet(1 .. given) /\ Cardinality(1 .. given) = given
    BY <1>2, FS_Interval
  <2>3. IsFiniteSet(dropped) /\ Cardinality(dropped) \in Nat
    <3>1. dropped \subseteq 1 .. given
      BY <1>4
    <3>2. IsFiniteSet(dropped)
      BY <2>2, <3>1, FS_Subset
    <3> QED BY <3>2, FS_CardinalityType
  <2>4. Cardinality(Range(all) \cup dropped)
          = Cardinality(Range(all)) + Cardinality(dropped) - Cardinality(Range(all) \cap dropped)
    BY <2>1, <2>3, FS_Union
  <2>5. Cardinality(Range(all) \cap dropped) = 0
    BY <1>4, FS_EmptySet
  <2>6. Cardinality(Range(all) \cup dropped) = given
    BY <1>4, <2>2
  <2> QED BY <1>2, <2>1, <2>3, <2>4, <2>5, <2>6, <2>7
<1>6. ~mixed => Inc(all)
  <2> SUFFICES ASSUME ~mixed PROVE Inc(all)
    OBVIOUS
  <2>1. /\ Inc(delivered) /\ Inc(pending) /\ Inc(acc)
        /\ Below(delivered, pending) /\ Below(delivered, acc)
        /\ pending = << >> \/ acc = << >>
    BY DEF BInv, OrderInv
  <2>2. Inc(front)
    BY <1>2, <2>1, ConcatInc
  <2>3. CASE pending = << >>
    <3>1. all = delivered \o acc
      BY <1>2, <2>3, EmptyFacts
    <3> QED BY <1>2, <2>1, <3>1, ConcatInc
  <2>4. CASE acc = << >>
    <3>1. all = front
      BY <1>1, <2>4, EmptyFacts
    <3> QED BY <2>2, <3>1
  <2> QED BY <2>1, <2>3, <2>4
<1> QED BY <1>4, <1>5, <1>6 DEF StreamIntact, Inc

LEMMA InitHolds == Init => BInv
<1> SUFFICES ASSUME Init PROVE BInv
  OBVIOUS
<1>1. PartsInv
  BY EmptyFacts DEF Init, PartsInv, Apart
<1>2. OrderInv /\ ControlInv
  BY EmptyFacts DEF Init, OrderInv, ControlInv, Readers
<1> QED BY <1>1, <1>2 DEF BInv

-----------------------------------------------------------------------------
(* A step that moves no byte.                                              *)
LEMMA StayKeeps ==
    ASSUME BInv, UNCHANGED <<given, delivered, pending, acc, dropped, mixed>>, ControlInv'
    PROVE  BInv'
<1>1. PartsInv' /\ OrderInv'
  BY DEF BInv, PartsInv, OrderInv
<1> QED BY <1>1 DEF BInv

LEMMA StartRecvLineKeeps == BInv /\ StartRecvLine => BInv'
<1> SUFFICES ASSUME BInv, StartRecvLine PROVE BInv'
  OBVIOUS
<1>1. /\ acc = << >> /\ acc' = pending /\ pending' = << >> /\ op' = "recv_line"
      /\ pc' \in {"io", "pollIn"}
      /\ UNCHANGED <<given, delivered, dropped, mixed>>
  BY DEF StartRecvLine, Enter, BInv, ControlInv, sslVars, ghosts, ReadFrom
<1>2. PartsInv'
  BY <1>1, EmptyFacts DEF BInv, PartsInv, Apart
<1>3. OrderInv' /\ ControlInv'
  BY <1>1, EmptyFacts DEF BInv, OrderInv, ControlInv, Readers
<1> QED BY <1>2, <1>3 DEF BInv

LEMMA StartRecvKeeps ==
    ASSUME BInv, NEW name \in {"recv", "recv_all"}, StartRecv(name)
    PROVE  BInv'
<1>1. /\ acc = << >> /\ acc' = << >> /\ op' = name /\ pc' \in {"io", "pollIn"}
      /\ mixed' = (mixed \/ pending # << >>)
      /\ UNCHANGED <<given, delivered, dropped, pending>>
  BY DEF StartRecv, Enter, BInv, ControlInv, sslVars, sockVars, ReadFrom
<1>2. PartsInv'
  BY <1>1 DEF BInv, PartsInv
<1>3. OrderInv'
  BY <1>1, EmptyFacts DEF BInv, OrderInv, ControlInv
<1>4. ControlInv'
  BY <1>1 DEF BInv, ControlInv, Readers
<1> QED BY <1>2, <1>3, <1>4 DEF BInv

(* A call that fails keeps the line, drops what recv_all has, or has none. *)
LEMMA FailKeeps ==
    ASSUME BInv, NEW reason, Fail(reason)
    PROVE  BInv'
<1>1. /\ acc' = << >> /\ op' = "none" /\ pc' = "idle"
      /\ pending' = (IF op = "recv_line" THEN acc ELSE pending)
      /\ dropped' = (IF op = "recv_all" THEN dropped \cup Range(acc) ELSE dropped)
      /\ UNCHANGED <<given, delivered, mixed>>
  BY DEF Fail, Return, sslVars
<1>2. PartsInv'
  <2>1. CASE op = "recv_line"
    <3>1. pending = << >>
      BY <2>1 DEF BInv, ControlInv
    <3> QED BY <1>1, <2>1, <3>1, EmptyFacts DEF BInv, PartsInv, Apart
  <2>2. CASE op = "recv_all"
    BY <1>1, <2>2, EmptyFacts DEF BInv, PartsInv, Apart
  <2>3. CASE op \notin {"recv_line", "recv_all"}
    <3>1. acc = << >>
      BY <2>3 DEF BInv, ControlInv, Readers
    <3> QED BY <1>1, <2>3, <3>1, EmptyFacts DEF BInv, PartsInv, Apart
  <2> QED BY <2>1, <2>2, <2>3
<1>3. OrderInv' /\ ControlInv'
  BY <1>1, EmptyFacts DEF BInv, OrderInv, ControlInv
<1> QED BY <1>2, <1>3 DEF BInv

-----------------------------------------------------------------------------
(* The bytes of a read come after all that were read before.               *)
LEMMA NewBytes ==
    ASSUME BInv, NEW k \in Nat
    PROVE  LET bytes == Interval(given, given + k)
           IN  /\ bytes \in Seq(Nat) /\ Inj(bytes) /\ Inc(bytes)
               /\ Range(bytes) = (given + 1) .. (given + k)
               /\ Below(delivered, bytes) /\ Below(acc, bytes)
               /\ Apart(Range(delivered), Range(bytes)) /\ Apart(Range(pending), Range(bytes))
               /\ Apart(Range(acc), Range(bytes)) /\ Apart(dropped, Range(bytes))
               /\ 1 .. given \cup Range(bytes) = 1 .. (given + k)
<1> DEFINE bytes == Interval(given, given + k)
<1>1. given \in Nat
  BY DEF BInv, PartsInv
<1>2. /\ bytes \in Seq(Nat) /\ Inj(bytes) /\ Inc(bytes) /\ DOMAIN bytes = 1 .. k
      /\ Range(bytes) = (given + 1) .. (given + k)
  BY <1>1, IntervalFacts
<1> HIDE DEF bytes
<1>3. \A i \in DOMAIN bytes : bytes[i] \in (given + 1) .. (given + k)
  BY <1>2 DEF Range
<1>4. /\ Range(delivered) \subseteq 1 .. given /\ Range(pending) \subseteq 1 .. given
      /\ Range(acc) \subseteq 1 .. given /\ dropped \subseteq 1 .. given
  BY DEF BInv, PartsInv
<1>5. /\ \A i \in DOMAIN delivered : delivered[i] \in 1 .. given
      /\ \A i \in DOMAIN acc : acc[i] \in 1 .. given
  BY <1>4 DEF Range
<1>6. Below(delivered, bytes) /\ Below(acc, bytes)
  BY <1>1, <1>3, <1>5 DEF Below
<1>7. 1 .. given \cap Range(bytes) = {}
  BY <1>1, <1>2
<1>8. 1 .. given \cup Range(bytes) = 1 .. (given + k)
  BY <1>1, <1>2
<1>9. /\ Apart(Range(delivered), Range(bytes)) /\ Apart(Range(pending), Range(bytes))
      /\ Apart(Range(acc), Range(bytes)) /\ Apart(dropped, Range(bytes))
  BY <1>4, <1>7 DEF Apart
<1> QED BY <1>2, <1>6, <1>8, <1>9 DEF bytes

LEMMA GotKeeps ==
    ASSUME BInv, NEW k \in Nat \ {0}, op = "recv_line" => k = 1, Got(k)
    PROVE  BInv'
<1> DEFINE bytes == Interval(given, given + k)
<1>1. /\ bytes \in Seq(Nat) /\ Inj(bytes) /\ Inc(bytes)
      /\ Range(bytes) = (given + 1) .. (given + k)
      /\ Below(delivered, bytes) /\ Below(acc, bytes)
      /\ Apart(Range(delivered), Range(bytes)) /\ Apart(Range(pending), Range(bytes))
      /\ Apart(Range(acc), Range(bytes)) /\ Apart(dropped, Range(bytes))
      /\ 1 .. given \cup Range(bytes) = 1 .. (given + k)
  BY NewBytes
<1>2. /\ given' = given + k /\ UNCHANGED mixed /\ given \in Nat
      /\ delivered \in Seq(Nat) /\ pending \in Seq(Nat) /\ acc \in Seq(Nat)
  BY DEF Got, BInv, PartsInv
<1>3. CASE /\ op = "recv" /\ Return("ok") /\ delivered' = delivered \o bytes
           /\ UNCHANGED <<pending, dropped>>
  <2> HIDE DEF bytes
  <2>1. acc = << >> /\ acc' = << >> /\ op' = "none" /\ pc' = "idle"
    BY <1>3 DEF Return, BInv, ControlInv
  <2>2. /\ delivered' \in Seq(Nat) /\ Range(delivered') = Range(delivered) \cup Range(bytes)
        /\ Inj(delivered')
    BY <1>1, <1>2, <1>3, ConcatFacts, ConcatRange, ConcatInj DEF BInv, PartsInv
  <2>3. PartsInv'
    BY <1>1, <1>2, <1>3, <2>1, <2>2, EmptyFacts DEF BInv, PartsInv, Apart
  <2>4. ~mixed => Inc(delivered')
    BY <1>1, <1>2, <1>3, ConcatInc DEF BInv, OrderInv
  <2>5. OrderInv' /\ ControlInv'
    BY <1>2, <1>3, <2>1, <2>4, EmptyFacts DEF BInv, OrderInv, ControlInv
  <2> QED BY <2>3, <2>5 DEF BInv
<1>4. CASE /\ op = "recv_line" /\ Return("ok") /\ delivered' = delivered \o acc \o bytes
           /\ UNCHANGED <<pending, dropped>>
  <2> DEFINE line == delivered \o acc
  <2>1. acc' = << >> /\ op' = "none" /\ pc' = "idle" /\ pending = << >>
    BY <1>4 DEF Return, BInv, ControlInv
  <2>2. line \in Seq(Nat) /\ Range(line) = Range(delivered) \cup Range(acc) /\ Inj(line)
    BY <1>2, ConcatFacts, ConcatRange, ConcatInj DEF BInv, PartsInv
  <2>3. Below(line, bytes) /\ Apart(Range(line), Range(bytes))
    BY <1>1, <1>2, <2>2, ConcatBelow DEF Apart
  <2>4. ~mixed => Inc(line)
    BY <1>2, ConcatInc DEF BInv, OrderInv
  <2>5. delivered' = line \o bytes
    BY <1>4
  <2> HIDE DEF line, bytes
  <2>6. /\ delivered' \in Seq(Nat) /\ Range(delivered') = Range(line) \cup Range(bytes)
        /\ Inj(delivered')
    BY <1>1, <2>2, <2>3, <2>5, ConcatFacts, ConcatRange, ConcatInj
  <2>7. ~mixed => Inc(delivered')
    BY <1>1, <2>2, <2>3, <2>4, <2>5, ConcatInc
  <2>8. PartsInv'
    BY <1>1, <1>2, <1>4, <2>1, <2>2, <2>6, EmptyFacts DEF BInv, PartsInv, Apart
  <2>9. OrderInv' /\ ControlInv'
    BY <1>2, <1>4, <2>1, <2>7, EmptyFacts DEF BInv, OrderInv, ControlInv
  <2> QED BY <2>8, <2>9 DEF BInv
<1>5. CASE /\ op = "recv_line" /\ Return("line too long")
           /\ dropped' = dropped \cup Range(acc) \cup {given + 1}
           /\ pending' = << >> /\ UNCHANGED delivered
  <2>1. acc' = << >> /\ op' = "none" /\ pc' = "idle" /\ pending = << >>
    BY <1>5 DEF Return, BInv, ControlInv
  <2>2. Range(bytes) = {given + 1}
    <3>1. k = 1
      BY <1>5
    <3>2. (given + 1) .. (given + 1) = {given + 1}
      BY <1>2
    <3> QED BY <1>1, <3>1, <3>2
  <2> HIDE DEF bytes
  <2>3. dropped' = dropped \cup Range(acc) \cup Range(bytes)
    BY <1>5, <2>2
  <2>4. PartsInv'
    <3>1. Range(delivered) \cup Range(acc) \cup dropped = 1 .. given
      BY <2>1, EmptyFacts DEF BInv, PartsInv
    <3>2. Range(delivered) \cup dropped' = 1 .. (given + k)
      BY <1>1, <2>3, <3>1
    <3>3. Apart(dropped', Range(delivered))
      BY <1>1, <2>3 DEF BInv, PartsInv, Apart
    <3>4. pending' = << >> /\ delivered' = delivered
      BY <1>5
    <3>5. given' = given + k /\ given' \in Nat
      BY <1>2
    <3>6. Inj(delivered)
      BY DEF BInv, PartsInv
    <3>7. Range(delivered') \cup Range(pending') \cup Range(acc') \cup dropped' = 1 .. given'
      BY <2>1, <3>2, <3>4, <3>5, EmptyFacts
    <3>8. \A S : Apart(S, {}) /\ Apart({}, S)
      BY DEF Apart
    <3> QED BY <1>2, <2>1, <3>3, <3>4, <3>5, <3>6, <3>7, <3>8, EmptyFacts DEF PartsInv
  <2>5. OrderInv' /\ ControlInv'
    BY <1>2, <1>5, <2>1, EmptyFacts DEF BInv, OrderInv, ControlInv
  <2> QED BY <2>4, <2>5 DEF BInv
<1>6. CASE /\ op \in {"recv_line", "recv_all"} /\ acc' = acc \o bytes
           /\ pc' \in {"io", "pollIn"}
           /\ UNCHANGED <<op, pending, delivered, dropped>>
  <2> HIDE DEF bytes
  <2>1. acc' \in Seq(Nat) /\ Range(acc') = Range(acc) \cup Range(bytes) /\ Inj(acc')
    BY <1>1, <1>2, <1>6, ConcatFacts, ConcatRange, ConcatInj DEF BInv, PartsInv
  <2>2. PartsInv'
    BY <1>1, <1>2, <1>6, <2>1 DEF BInv, PartsInv, Apart
  <2>3. ~mixed => Inc(acc') /\ Below(delivered, acc') /\ pending = << >>
    BY <1>1, <1>2, <1>6, ConcatInc, ConcatBelow DEF BInv, OrderInv, ControlInv
  <2>4. OrderInv'
    BY <1>2, <1>6, <2>3 DEF BInv, OrderInv
  <2>5. ControlInv'
    BY <1>2, <1>6 DEF BInv, ControlInv
  <2> QED BY <2>2, <2>4, <2>5 DEF BInv
<1> QED BY <1>3, <1>4, <1>5, <1>6 DEF Got, ReadFrom

LEMMA EofKeeps == BInv /\ Eof => BInv'
<1> SUFFICES ASSUME BInv, Eof PROVE BInv'
  OBVIOUS
<1>1. /\ acc' = << >> /\ op' = "none" /\ pc' = "idle" /\ delivered' = delivered \o acc
      /\ UNCHANGED <<given, pending, dropped, mixed>>
      /\ delivered \in Seq(Nat) /\ pending \in Seq(Nat) /\ acc \in Seq(Nat)
  BY DEF Eof, Return, sslVars, sockVars, BInv, PartsInv
<1>2. /\ delivered' \in Seq(Nat) /\ Range(delivered') = Range(delivered) \cup Range(acc)
      /\ Inj(delivered')
  BY <1>1, ConcatFacts, ConcatRange, ConcatInj DEF BInv, PartsInv
<1>3. PartsInv'
  BY <1>1, <1>2, EmptyFacts DEF BInv, PartsInv, Apart
<1>4. OrderInv'
  <2> SUFFICES ASSUME ~mixed PROVE OrderInv'
    BY <1>1 DEF OrderInv
  <2>1. CASE acc = << >>
    BY <1>1, <2>1, EmptyFacts DEF BInv, OrderInv
  <2>2. CASE pending = << >>
    <3>1. Inc(delivered')
      BY <1>1, ConcatInc DEF BInv, OrderInv
    <3> QED BY <1>1, <2>2, <3>1, EmptyFacts DEF BInv, OrderInv
  <2> QED BY <2>1, <2>2 DEF BInv, OrderInv
<1>5. ControlInv'
  BY <1>1 DEF BInv, ControlInv
<1> QED BY <1>3, <1>4, <1>5 DEF BInv

-----------------------------------------------------------------------------
LEMMA ReadKeeps == BInv /\ Read => BInv'
<1> SUFFICES ASSUME BInv, Read PROVE BInv'
  OBVIOUS
<1>1. ASSUME NEW k \in 1 .. Cap, op \in Readers, Got(k) PROVE BInv'
  <2>1. k \in Nat \ {0} /\ (op = "recv_line" => k = 1)
    BY <1>1, SizesAssumption DEF Cap
  <2> QED BY <1>1, <2>1, GotKeeps
<1>2. CASE PlainRecv \/ SslReadDeciphered \/ SslReadRecord
  BY <1>1, <1>2 DEF PlainRecv, SslReadDeciphered, SslReadRecord, Reading
<1>3. CASE SslReadIncomplete
  <2>1. ControlInv'
    BY <1>3 DEF SslReadIncomplete, Goto, sockVars, ghosts, BInv, ControlInv
  <2> QED BY <1>3, <2>1, StayKeeps DEF SslReadIncomplete, Goto, sockVars, ghosts
<1>4. CASE ReadEof
  BY <1>4, EofKeeps DEF ReadEof
<1>5. CASE ReadFails
  BY <1>5, FailKeeps DEF ReadFails
<1> QED BY <1>2, <1>3, <1>4, <1>5 DEF Read

(* Goto leaves the bytes and the call where they are.                      *)
LEMMA GotoKeeps ==
    ASSUME BInv, NEW place \in {"io", "pollIn", "pollOut", "flush", "drain", "sending"},
           Goto(place), place = "sending" => op = "send",
           UNCHANGED <<given, delivered, pending, dropped, mixed>>
    PROVE  BInv'
<1>1. ControlInv'
  BY DEF Goto, BInv, ControlInv
<1> QED BY <1>1, StayKeeps DEF Goto

(* A call of send or starttls that returns had collected nothing.          *)
LEMMA ReturnKeeps ==
    ASSUME BInv, op \in {"send", "starttls"}, NEW res, Return(res),
           UNCHANGED <<given, delivered, pending, dropped, mixed>>
    PROVE  BInv'
<1>1. acc = << >> /\ acc' = << >>
  BY DEF Return, BInv, ControlInv
<1>2. ControlInv'
  BY <1>1 DEF Return, BInv, ControlInv
<1> QED BY <1>1, <1>2, StayKeeps

LEMMA WaitKeeps == BInv /\ Wait => BInv'
<1> SUFFICES ASSUME BInv, Wait PROVE BInv'
  OBVIOUS
<1>1. CASE PollReady
  <2>1. After(pc) \in {"io", "pollIn", "pollOut"}
    BY DEF After, ReadFrom
  <2> QED BY <1>1, <2>1, GotoKeeps DEF PollReady, sockVars, sslVars, ghosts
<1>2. CASE PollTimeout \/ PollInterrupted
  BY <1>2, FailKeeps DEF PollTimeout, PollInterrupted
<1> QED BY <1>1, <1>2 DEF Wait

LEMMA WriteKeeps ==
    BInv /\ (Write \/ SendInterrupted \/ SslWriteRenegotiates \/ SslReadRenegotiates) => BInv'
<1> SUFFICES ASSUME BInv, Write \/ SendInterrupted \/ SslWriteRenegotiates \/ SslReadRenegotiates
             PROVE  BInv'
  OBVIOUS
<1>1. CASE SendSome
  <2>1. op = "send" /\ UNCHANGED <<given, delivered, pending, dropped, mixed>>
    BY <1>1 DEF SendSome, Writing, sslVars, sockVars
  <2>2. PICK k \in {SmallerOf(Room, MsgLen - total)} : Sent(k)
    BY <1>1 DEF SendSome
  <2>3. CASE Return("ok")
    BY <2>1, <2>3, ReturnKeeps
  <2>4. CASE pc' = "pollOut" /\ UNCHANGED <<op, deadline, acc, msg, addr, answer>>
    <3>1. ControlInv'
      BY <2>1, <2>4 DEF BInv, ControlInv
    <3> QED BY <2>1, <2>4, <3>1, StayKeeps
  <2> QED BY <2>2, <2>3, <2>4 DEF Sent
<1>2. CASE SendBlocks \/ SendInterrupted \/ SslWriteRenegotiates \/ SslReadRenegotiates
  BY <1>2, GotoKeeps DEF SendBlocks, SendInterrupted, SslWriteRenegotiates, SslReadRenegotiates,
     Writing, sockVars, sslVars, ghosts
<1>3. CASE KernelAccepts
  <2>1. op = "send" /\ UNCHANGED <<given, delivered, pending, dropped, mixed>>
    BY <1>3 DEF KernelAccepts, sslVars, sockVars, BInv, ControlInv
  <2>2. CASE Return("ok")
    BY <2>1, <2>2, ReturnKeeps
  <2>3. CASE UNCHANGED <<pc, op, deadline, acc, msg, addr, answer>>
    <3>1. ControlInv'
      BY <2>1, <2>3 DEF BInv, ControlInv
    <3> QED BY <2>1, <2>3, <3>1, StayKeeps
  <2> QED BY <1>3, <2>2, <2>3 DEF KernelAccepts
<1>4. CASE SendClosed \/ SslBadRetry
  BY <1>4, FailKeeps DEF SendClosed, SslBadRetry
<1>5. CASE SslWrite
  <2>1. op = "send" /\ UNCHANGED <<given, delivered, pending, dropped, mixed>>
        /\ (Return("ok") \/ Goto("pollOut"))
    BY <1>5 DEF SslWrite, Flush, Writing, sockVars
  <2> QED BY <2>1, ReturnKeeps, GotoKeeps
<1> QED BY <1>1, <1>2, <1>3, <1>4, <1>5 DEF Write

LEMMA HandshakeKeeps == BInv /\ Handshake => BInv'
<1> SUFFICES ASSUME BInv, Handshake PROVE BInv'
  OBVIOUS
<1>1. op = "starttls" /\ UNCHANGED <<given, delivered, pending, dropped, mixed>>
  BY DEF Handshake, HandshakeDone, HandshakeTimeout, HandshakeFails, sslVars, sockVars, ghosts,
         BInv, ControlInv
<1>2. \E res \in {"ok", "timeout", "interrupted", "error"} : Return(res)
  BY DEF Handshake, HandshakeDone, HandshakeTimeout, HandshakeFails
<1> QED BY <1>1, <1>2, ReturnKeeps

LEMMA CallKeeps == BInv /\ Call => BInv'
<1> SUFFICES ASSUME BInv, Call PROVE BInv'
  OBVIOUS
<1>1. CASE StartRecvLine
  BY <1>1, StartRecvLineKeeps
<1>2. CASE StartRecv("recv") \/ StartRecv("recv_all")
  BY <1>2, StartRecvKeeps
<1>3. CASE StartTls \/ \E m \in Msgs, a \in Addrs : StartSend(m, a)
  <2>1. /\ acc = << >> /\ acc' = << >> /\ UNCHANGED <<given, delivered, pending, dropped, mixed>>
        /\ \/ op' = "starttls" /\ pc' = "handshake"
           \/ op' = "send" /\ pc' = "pollOut"
    BY <1>3 DEF StartTls, StartSend, Enter, sockVars, sslVars, ghosts, BInv, ControlInv
  <2>2. ControlInv'
    BY <2>1 DEF BInv, ControlInv, Readers
  <2> QED BY <2>1, <2>2, StayKeeps
<1>4. CASE SetTimeout \/ Close
  <2>1. UNCHANGED <<given, delivered, pending, acc, dropped, mixed, op, pc>>
    BY <1>4 DEF SetTimeout, Close, sslVars, callVars, ghosts
  <2>2. ControlInv'
    BY <2>1 DEF BInv, ControlInv
  <2> QED BY <2>1, <2>2, StayKeeps
<1> QED BY <1>1, <1>2, <1>3, <1>4 DEF Call

LEMMA OthersKeep == BInv /\ (Peer \/ TimePasses \/ UNCHANGED vars) => BInv'
<1> SUFFICES ASSUME BInv, Peer \/ TimePasses \/ UNCHANGED vars PROVE BInv'
  OBVIOUS
<1>1. CASE PeerSends \/ PeerEnds \/ PeerReads \/ TimePasses \/ UNCHANGED vars
  <2>1. UNCHANGED <<given, delivered, pending, acc, dropped, mixed, op, pc>>
    BY <1>1 DEF PeerSends, PeerEnds, PeerReads, TimePasses, vars, sockVars, sslVars, callVars, ghosts
  <2>2. ControlInv'
    BY <2>1 DEF BInv, ControlInv
  <2> QED BY <2>1, <2>2, StayKeeps
<1>2. CASE Renumber
  <2>1. /\ given' = 0 /\ acc' = << >> /\ delivered' = << >> /\ dropped' = {} /\ mixed' = FALSE
        /\ pending' = << >> /\ UNCHANGED <<op, pc>>
    BY <1>2 DEF Renumber, sockVars
  <2>2. PartsInv' /\ OrderInv'
    BY <2>1, EmptyFacts DEF PartsInv, OrderInv, Apart
  <2>3. ControlInv'
    BY <2>1 DEF BInv, ControlInv
  <2> QED BY <2>2, <2>3 DEF BInv
<1> QED BY <1>1, <1>2 DEF Peer

LEMMA StepKeeps == BInv /\ [Next]_vars => BInv'
BY OthersKeep, CallKeeps, WaitKeeps, ReadKeeps, WriteKeeps, HandshakeKeeps DEF Next, Gone

(* Where every byte of the stream is, after any calls, timeouts and        *)
(* failures of recv, recv_line and recv_all.                               *)
THEOREM InvariantHolds == Spec => []BInv
BY InitHolds, StepKeeps, PTL DEF Spec

(* recv, recv_line and recv_all lose no byte and give none twice, and they *)
(* keep the order unless the script mixes them over an unfinished line.    *)
THEOREM StreamIntactHolds == Spec => []StreamIntact
BY IntactFromParts, InvariantHolds, PTL

-----------------------------------------------------------------------------
(* What the kernel was given ends with the first k bytes of m.             *)
Ends(s, m, k) == k <= Len(s) /\ \A i \in 1 .. k : s[(Len(s) - k) + i] = <<m, i>>

Sendable == Msgs \X Nat

LEMMA EndsGrows ==
    ASSUME NEW s \in Seq(Sendable), NEW m \in Msgs, NEW a \in Nat, NEW k \in Nat, Ends(s, m, a)
    PROVE  LET t == s \o Bytes(m, a, a + k)
           IN  t \in Seq(Sendable) /\ Len(t) = Len(s) + k /\ Ends(t, m, a + k)
<1> DEFINE b == [i \in 1 .. k |-> <<m, a + i>>]
           t == s \o b
<1>1. Bytes(m, a, a + k) = b
  <2>1. (a + k) - a = k
    OBVIOUS
  <2> QED BY <2>1 DEF Bytes
<1>2. b \in Seq(Sendable) /\ Len(b) = k
  BY DEF Sendable
<1>3. \A i \in 1 .. k : b[i] = <<m, a + i>>
  OBVIOUS
<1> HIDE DEF b
<1>4. /\ t \in Seq(Sendable) /\ Len(t) = Len(s) + k /\ Len(s) \in Nat
      /\ \A i \in 1 .. (Len(s) + k) : t[i] = IF i <= Len(s) THEN s[i] ELSE b[i - Len(s)]
  BY <1>2
<1>5. Ends(t, m, a + k)
  <2>0. a + k <= Len(t) /\ Len(t) - (a + k) = Len(s) + k - (a + k)
    BY <1>4 DEF Ends
  <2> SUFFICES ASSUME NEW i \in 1 .. (a + k) PROVE t[(Len(s) + k - (a + k)) + i] = <<m, i>>
    BY <2>0 DEF Ends
  <2>1. a <= Len(s) /\ (Len(s) + k - (a + k)) + i = (Len(s) - a) + i
        /\ (Len(s) - a) + i \in 1 .. (Len(s) + k)
    BY <1>4 DEF Ends
  <2>2. CASE i <= a
    <3>1. t[(Len(s) - a) + i] = s[(Len(s) - a) + i]
      BY <1>4, <2>1, <2>2
    <3> QED BY <2>1, <2>2, <3>1 DEF Ends
  <2>3. CASE ~(i <= a)
    <3>1. ~((Len(s) - a) + i <= Len(s)) /\ ((Len(s) - a) + i) - Len(s) = i - a /\ i - a \in 1 .. k
          /\ a + (i - a) = i
      BY <1>4, <2>1, <2>3
    <3>2. t[(Len(s) - a) + i] = b[i - a]
      BY <1>4, <2>1, <3>1
    <3> QED BY <1>3, <2>1, <3>1, <3>2
  <2> QED BY <2>2, <2>3
<1> QED BY <1>1, <1>4, <1>5 DEF t

LEMMA EndsIsWhole ==
    ASSUME NEW s \in Seq(Sendable), NEW m, NEW n \in Nat, Ends(s, m, n)
    PROVE  SubSeq(s, Len(s) - n + 1, Len(s)) = Bytes(m, 0, n)
<1>1. Len(s) \in Nat /\ n <= Len(s) /\ Len(s) - ((Len(s) - n) + 1) + 1 = n
  BY DEF Ends
<1>2. SubSeq(s, (Len(s) - n) + 1, Len(s)) = [i \in 1 .. n |-> s[(Len(s) - n) + i]]
  BY <1>1
<1>3. Bytes(m, 0, n) = [i \in 1 .. n |-> <<m, i>>]
  BY DEF Bytes
<1> QED BY <1>2, <1>3 DEF Ends

-----------------------------------------------------------------------------
(* The call in progress has handed over the first total bytes of its       *)
(* string; OpenSSL keeps a record of which the kernel has a part only in a *)
(* TLS socket, where nothing else is handed over in between.               *)
SentInv ==
    /\ out \in Seq(Sendable) /\ peerRead \in Nat /\ peerRead <= Len(out) /\ Room >= 0
    /\ isOpen \in BOOLEAN /\ tls \in BOOLEAN /\ total \in Nat /\ total < MsgLen
    /\ op = "none" <=> pc = "idle"
    /\ op # "none" => isOpen /\ answer = NoMsg
    /\ pc = "sending" => ~tls
    /\ op = "send" => msg \in Msgs /\ addr \in Addrs /\ Ends(out, msg, total)
    /\ op # "send" \/ tls => total = 0
    /\ wpend # NoPending =>
          /\ wpend \in [msg : Msgs, addr : Addrs, left : 1 .. MsgLen]
          /\ Ends(out, wpend.msg, MsgLen - wpend.left)
          /\ tls \/ ~isOpen

LEMMA Sizes == MsgLen \in Nat /\ MsgLen > 0 /\ SndRoom \in Nat /\ SndRoom > 0
BY SizesAssumption

LEMMA EndsNone == ASSUME NEW s \in Seq(Sendable), NEW m PROVE Ends(s, m, 0)
BY DEF Ends

LEMMA SentInit == Init => SentInv
<1> SUFFICES ASSUME Init PROVE SentInv
  OBVIOUS
<1>1. << >> \in Seq(Sendable) /\ Len(<< >>) = 0
  OBVIOUS
<1> QED BY <1>1, Sizes DEF Init, SentInv, Room

(* A call ends without another byte to the kernel.                         *)
LEMMA SentReturn ==
    ASSUME SentInv, NEW reason, Return(reason), reason # "ok" \/ op # "send",
           UNCHANGED <<out, peerRead, isOpen, wpend>>,
           tls' # tls => tls' = TRUE /\ op = "starttls"
    PROVE  SentInv'
<1>1. total' = 0 /\ op' = "none" /\ pc' = "idle" /\ answer' = NoMsg
  BY DEF Return
<1>2. Room' = Room
  BY DEF Room
<1> QED BY <1>1, <1>2, Sizes DEF SentInv

LEMMA SentFail ==
    ASSUME SentInv, NEW reason \in {"timeout", "interrupted", "error", "closed"}, Fail(reason)
    PROVE  SentInv'
<1>1. Return(reason) /\ UNCHANGED <<out, peerRead, isOpen, wpend, tls>>
  BY DEF Fail, peerVars, sslVars
<1> QED BY <1>1, SentReturn

(* A step inside a call that gives the kernel nothing.                     *)
LEMMA SentGoto ==
    ASSUME SentInv, NEW place, place # "idle", pc # "idle", place = "sending" => ~tls,
           pc' = place, UNCHANGED <<op, msg, addr, total, answer, out, peerRead, isOpen, tls, wpend>>
    PROVE  SentInv'
<1>1. Room' = Room
  BY DEF Room
<1> QED BY <1>1 DEF SentInv

LEMMA SentWait == SentInv /\ Wait => SentInv'
<1> SUFFICES ASSUME SentInv, Wait PROVE SentInv'
  OBVIOUS
<1>1. CASE PollReady
  <2>1. After(pc) \in {"io", "pollIn", "pollOut"}
    BY DEF After, ReadFrom
  <2> QED BY <1>1, <2>1, SentGoto DEF PollReady, Waiting, Goto, peerVars, sockVars, sslVars, ghosts
<1>2. CASE PollTimeout \/ PollInterrupted
  BY <1>2, SentFail DEF PollTimeout, PollInterrupted
<1> QED BY <1>1, <1>2 DEF Wait

LEMMA SentGot ==
    ASSUME SentInv, NEW k, Got(k), Reading
    PROVE  SentInv'
<1>1. UNCHANGED <<out, peerRead, isOpen, wpend, tls>> /\ op # "send" /\ pc # "idle"
  BY DEF Got, peerVars, Reading, Readers
<1>2. CASE Return("ok") \/ Return("line too long")
  BY <1>1, <1>2, SentReturn
<1>3. CASE pc' = ReadFrom(tls, given', plain') /\ UNCHANGED <<op, deadline, msg, addr, total, answer>>
  <2>1. pc' \in {"io", "pollIn"}
    BY <1>3 DEF ReadFrom
  <2> QED BY <1>1, <1>3, <2>1, SentGoto
<1> QED BY <1>2, <1>3 DEF Got

LEMMA SentRead == SentInv /\ (Read \/ SslReadRenegotiates) => SentInv'
<1> SUFFICES ASSUME SentInv, Read \/ SslReadRenegotiates PROVE SentInv'
  OBVIOUS
<1>1. CASE PlainRecv \/ SslReadDeciphered \/ SslReadRecord
  BY <1>1, SentGot DEF PlainRecv, SslReadDeciphered, SslReadRecord
<1>2. CASE SslReadIncomplete \/ SslReadRenegotiates
  BY <1>2, SentGoto DEF SslReadIncomplete, SslReadRenegotiates, Reading, Goto, peerVars, sockVars,
                       sslVars, ghosts
<1>3. CASE ReadEof
  <2>1. op # "send" /\ UNCHANGED <<out, peerRead, isOpen, wpend, tls>>
    BY <1>3 DEF ReadEof, Eof, Reading, Readers, peerVars, sockVars, sslVars
  <2>2. \E res : Return(res)
    BY <1>3 DEF ReadEof, Eof
  <2> QED BY <2>1, <2>2, SentReturn
<1>4. CASE ReadFails
  BY <1>4, SentFail DEF ReadFails
<1> QED BY <1>1, <1>2, <1>3, <1>4 DEF Read

(* The kernel takes the next k bytes of a string.                          *)
LEMMA SentMore ==
    ASSUME SentInv, NEW m \in Msgs, NEW a \in Nat, NEW k \in Nat, k <= Room, Ends(out, m, a),
           out' = out \o Bytes(m, a, a + k), UNCHANGED peerRead
    PROVE  /\ out' \in Seq(Sendable) /\ Ends(out', m, a + k)
           /\ peerRead' \in Nat /\ peerRead' <= Len(out') /\ Room' >= 0
<1>1. out \in Seq(Sendable)
  BY DEF SentInv
<1>2. out' \in Seq(Sendable) /\ Len(out') = Len(out) + k /\ Ends(out', m, a + k)
  BY <1>1, EndsGrows
<1> QED BY <1>2, Sizes DEF SentInv, Room

LEMMA SentPlain ==
    ASSUME SentInv, op = "send", pc # "idle", ~tls, NEW k \in Nat, k <= Room, total + k <= MsgLen,
           out' = out \o Bytes(msg, total, total + k),
           \/ total + k = MsgLen /\ Return("ok")
           \/ total + k # MsgLen /\ total' = total + k /\ pc' \in {"pollOut", pc}
              /\ UNCHANGED <<op, msg, addr, answer>>,
           UNCHANGED <<peerRead, isOpen, tls, wpend>>
    PROVE  SentInv' /\ (answer' # NoMsg => Ends(out', msg, MsgLen))
<1>1. /\ out' \in Seq(Sendable) /\ Ends(out', msg, total + k)
      /\ peerRead' \in Nat /\ peerRead' <= Len(out') /\ Room' >= 0
  BY SentMore DEF SentInv
<1>2. wpend = NoPending /\ isOpen
  BY DEF SentInv
<1>3. CASE total + k = MsgLen /\ Return("ok")
  <2>1. total' = 0 /\ op' = "none" /\ pc' = "idle" /\ answer' = msg
    BY <1>3 DEF Return
  <2> QED BY <1>1, <1>2, <1>3, <2>1, Sizes DEF SentInv
<1>4. CASE /\ total + k # MsgLen /\ total' = total + k /\ pc' \in {"pollOut", pc}
           /\ UNCHANGED <<op, msg, addr, answer>>
  BY <1>1, <1>2, <1>4, Sizes DEF SentInv
<1> QED BY <1>3, <1>4

LEMMA SentFlush ==
    ASSUME SentInv, Writing, tls, NEW m \in Msgs, NEW left \in 1 .. MsgLen,
           Ends(out, m, MsgLen - left), Flush(m, left)
    PROVE  SentInv' /\ (answer' # NoMsg => Ends(out', m, MsgLen))
<1> DEFINE k == SmallerOf(Room, left)
           a == MsgLen - left
<1>1. /\ Room \in Nat /\ k \in Nat /\ k <= Room /\ k <= left /\ a \in Nat
      /\ msg \in Msgs /\ addr \in Addrs /\ op = "send" /\ isOpen /\ total = 0 /\ pc # "idle"
      /\ answer = NoMsg
  BY Sizes DEF SmallerOf, SentInv, Room, Writing
<1>2. out' = out \o Bytes(m, a, a + k) /\ UNCHANGED <<peerRead, isOpen, tls>>
  BY DEF Flush, peerVars, sockVars
<1>3. \/ k = left /\ wpend' = NoPending /\ Return("ok")
      \/ k # left /\ wpend' = [msg |-> m, addr |-> addr, left |-> left - k] /\ Goto("pollOut")
  BY DEF Flush
<1>4. /\ out' \in Seq(Sendable) /\ Ends(out', m, a + k)
      /\ peerRead' \in Nat /\ peerRead' <= Len(out') /\ Room' >= 0
  BY <1>1, <1>2, SentMore
<1> HIDE DEF k
<1>5. CASE k = left /\ wpend' = NoPending /\ Return("ok")
  <2>1. total' = 0 /\ op' = "none" /\ pc' = "idle" /\ a + k = MsgLen
    BY <1>1, <1>5, Sizes DEF Return
  <2> QED BY <1>1, <1>2, <1>4, <1>5, <2>1, Sizes DEF SentInv
<1>6. CASE k # left /\ wpend' = [msg |-> m, addr |-> addr, left |-> left - k] /\ Goto("pollOut")
  <2>1. left - k \in 1 .. MsgLen /\ MsgLen - (left - k) = a + k
    BY <1>1, <1>6, Sizes
  <2>2. /\ wpend' \in [msg : Msgs, addr : Addrs, left : 1 .. MsgLen]
        /\ Ends(out', wpend'.msg, MsgLen - wpend'.left)
        /\ pc' = "pollOut" /\ UNCHANGED <<op, msg, addr, total, answer>>
    BY <1>1, <1>4, <1>6, <2>1 DEF Goto
  <2>3. Ends(out', msg, 0)
    BY <1>4, EndsNone
  <2> QED BY <1>1, <1>2, <1>4, <2>2, <2>3, Sizes DEF SentInv
<1> QED BY <1>3, <1>5, <1>6

(* Which record a call of SSL_write flushes: a new one of the call's own   *)
(* string, or the one of the string that was at its address.               *)
LEMMA WhatIsFlushed ==
    ASSUME SentInv, SslWrite
    PROVE  /\ Writing /\ tls
           /\ \/ /\ wpend = NoPending /\ msg \in Msgs /\ MsgLen \in 1 .. MsgLen
                 /\ Ends(out, msg, MsgLen - MsgLen) /\ Flush(msg, MsgLen)
              \/ /\ wpend # NoPending /\ wpend.addr = addr /\ wpend.msg \in Msgs
                 /\ wpend.left \in 1 .. MsgLen /\ Ends(out, wpend.msg, MsgLen - wpend.left)
                 /\ Flush(wpend.msg, wpend.left)
<1>1. Writing /\ tls /\ op = "send" /\ msg \in Msgs /\ addr \in Addrs /\ total = 0
  BY DEF SslWrite, Writing, SentInv
<1>2. CASE wpend = NoPending /\ Flush(msg, MsgLen - total)
  <2>1. MsgLen - total = MsgLen /\ MsgLen \in 1 .. MsgLen /\ MsgLen - MsgLen = 0
    BY <1>1, Sizes
  <2>2. Ends(out, msg, 0)
    BY EndsNone DEF SentInv
  <2> QED BY <1>1, <1>2, <2>1, <2>2
<1>3. CASE wpend.addr = addr /\ Flush(wpend.msg, wpend.left)
  <2>1. wpend # NoPending
    BY <1>1, <1>3, MsgsAssumption DEF NoPending
  <2>2. wpend.msg \in Msgs /\ wpend.left \in 1 .. MsgLen /\ Ends(out, wpend.msg, MsgLen - wpend.left)
    BY <2>1 DEF SentInv
  <2> QED BY <1>1, <1>3, <2>1, <2>2
<1> QED BY <1>2, <1>3 DEF SslWrite

(* What an answer of send says of the bytes handed over.                   *)
Promise == \/ Ends(out', msg, MsgLen)
           \/ wpend # NoPending /\ wpend.addr = addr /\ Ends(out', wpend.msg, MsgLen)

LEMMA SentWrite ==
    BInv /\ SentInv /\ (Write \/ SslWriteRenegotiates \/ SendInterrupted)
      => SentInv' /\ (answer' # NoMsg => Promise)
<1> SUFFICES ASSUME BInv, SentInv, Write \/ SslWriteRenegotiates \/ SendInterrupted
             PROVE  SentInv' /\ (answer' # NoMsg => Promise)
  OBVIOUS
<1>1. CASE SendSome
  <2> DEFINE k == SmallerOf(Room, MsgLen - total)
  <2>1. k \in Nat /\ k <= Room /\ total + k <= MsgLen
    BY Sizes DEF SmallerOf, SentInv, Room
  <2>2. /\ out' = out \o Bytes(msg, total, total + k) /\ Sent(k) /\ op = "send" /\ pc # "idle" /\ ~tls
        /\ UNCHANGED <<peerRead, isOpen, tls, wpend>>
    BY <1>1 DEF SendSome, Writing, peerVars, sockVars, sslVars
  <2> HIDE DEF k
  <2> QED BY <2>1, <2>2, SentPlain DEF Sent, Promise
<1>2. CASE KernelAccepts
  <2>1. op = "send" /\ ~tls /\ pc = "sending"
    BY <1>2 DEF KernelAccepts, BInv, ControlInv, SentInv
  <2>2. 1 \in Nat /\ 1 <= Room /\ total + 1 <= MsgLen
    BY <1>2, Sizes DEF KernelAccepts, SentInv, Room
  <2>3. /\ out' = out \o Bytes(msg, total, total + 1)
        /\ \/ total + 1 = MsgLen /\ Return("ok")
           \/ total + 1 # MsgLen /\ total' = total + 1 /\ UNCHANGED <<pc, op, msg, addr, answer>>
        /\ UNCHANGED <<peerRead, isOpen, tls, wpend>>
    BY <1>2 DEF KernelAccepts, peerVars, sockVars, sslVars
  <2> QED BY <2>1, <2>2, <2>3, SentPlain DEF Promise
<1>3. CASE SendBlocks \/ SslWriteRenegotiates \/ SendInterrupted
  <2>1. answer' = NoMsg
    BY <1>3 DEF SendBlocks, SslWriteRenegotiates, SendInterrupted, Writing, Goto, SentInv, BInv, ControlInv
  <2>2. SentInv'
    BY <1>3, SentGoto DEF SendBlocks, SslWriteRenegotiates, SendInterrupted, Writing, Goto, peerVars,
                          sockVars, sslVars, ghosts
  <2> QED BY <2>1, <2>2
<1>4. CASE SendClosed \/ SslBadRetry
  <2>1. answer' = NoMsg
    BY <1>4 DEF SendClosed, SslBadRetry, Fail, Return
  <2>2. SentInv'
    BY <1>4, SentFail DEF SendClosed, SslBadRetry
  <2> QED BY <2>1, <2>2
<1>5. CASE SslWrite
  BY <1>5, WhatIsFlushed, SentFlush DEF Promise
<1> QED BY <1>1, <1>2, <1>3, <1>4, <1>5 DEF Write

LEMMA SentHandshake == BInv /\ SentInv /\ Handshake => SentInv'
<1> SUFFICES ASSUME BInv, SentInv, Handshake PROVE SentInv'
  OBVIOUS
<1>1. op = "starttls" /\ UNCHANGED <<out, peerRead, isOpen, wpend>> /\ tls' \in {tls, TRUE}
  BY DEF Handshake, HandshakeDone, HandshakeTimeout, HandshakeFails, BInv, ControlInv, peerVars,
         sockVars, sslVars, ghosts
<1>2. \E res : Return(res)
  BY DEF Handshake, HandshakeDone, HandshakeTimeout, HandshakeFails
<1> QED BY <1>1, <1>2, SentReturn

LEMMA SentCall == SentInv /\ Call => SentInv'
<1> SUFFICES ASSUME SentInv, Call PROVE SentInv'
  OBVIOUS
<1>1. UNCHANGED <<out, peerRead, wpend>> /\ Room' = Room
  BY DEF Call, StartRecvLine, StartRecv, StartTls, StartSend, SetTimeout, Close, peerVars, sslVars,
         ghosts, Room
<1>2. CASE StartRecvLine \/ StartRecv("recv") \/ StartRecv("recv_all") \/ StartTls
  <2>1. /\ isOpen /\ op = "none" /\ op' \in Readers \cup {"starttls"} /\ answer' = NoMsg
        /\ pc' \in {"io", "pollIn", "handshake"} /\ UNCHANGED <<isOpen, tls, total, msg, addr>>
    BY <1>2 DEF StartRecvLine, StartRecv, StartTls, Enter, ReadFrom, Readers, sockVars, SentInv
  <2> QED BY <1>1, <2>1, Sizes DEF SentInv, Readers
<1>3. CASE \E m \in Msgs, a \in Addrs : StartSend(m, a)
  <2>1. /\ isOpen /\ op' = "send" /\ answer' = NoMsg /\ msg' \in Msgs /\ addr' \in Addrs /\ total' = 0
        /\ pc' = "pollOut" /\ UNCHANGED <<isOpen, tls>>
    BY <1>3 DEF StartSend, Enter, sockVars
  <2>2. Ends(out, msg', 0)
    BY EndsNone DEF SentInv
  <2> QED BY <1>1, <2>1, <2>2, Sizes DEF SentInv
<1>4. CASE SetTimeout
  <2>1. UNCHANGED <<isOpen, tls, op, pc, answer, msg, addr, total>>
    BY <1>4 DEF SetTimeout, callVars
  <2> QED BY <1>1, <2>1 DEF SentInv
<1>5. CASE Close
  <2>1. isOpen' = FALSE /\ tls' = FALSE /\ pc = "idle" /\ UNCHANGED <<op, pc, answer, msg, addr, total>>
    BY <1>5 DEF Close, callVars
  <2> QED BY <1>1, <2>1 DEF SentInv
<1> QED BY <1>2, <1>3, <1>4, <1>5 DEF Call

LEMMA SentOthers == SentInv /\ (Peer \/ TimePasses \/ UNCHANGED vars) => SentInv'
<1> SUFFICES ASSUME SentInv, Peer \/ TimePasses \/ UNCHANGED vars PROVE SentInv'
  OBVIOUS
<1>1. UNCHANGED <<out, isOpen, tls, wpend, op, pc, msg, addr, total, answer>>
  BY DEF Peer, PeerSends, PeerEnds, PeerReads, Renumber, TimePasses, vars, sockVars, sslVars, callVars, ghosts
<1>2. peerRead' # peerRead => peerRead' = peerRead + 1 /\ peerRead < Len(out)
  BY DEF Peer, PeerSends, PeerEnds, PeerReads, Renumber, TimePasses, vars, peerVars
<1>3. peerRead' \in Nat /\ peerRead' <= Len(out') /\ Room' >= 0
  BY <1>1, <1>2, Sizes DEF SentInv, Room
<1> QED BY <1>1, <1>3 DEF SentInv

LEMMA SentKeeps == BInv /\ SentInv /\ [Next]_vars => SentInv'
BY SentOthers, SentCall, SentWait, SentRead, SentWrite, SentHandshake DEF Next, Gone

(* What the kernel was given ends with what the call in progress says it   *)
(* has sent, and with what OpenSSL does not hold back.                     *)
THEOREM SentInvariantHolds == Spec => []SentInv
BY InvariantHolds, SentInit, SentKeeps, PTL DEF Spec

(* No step but those of Write answers a send.                              *)
LEMMA OnlyWritesAnswer ==
    ASSUME BInv, SentInv, Next, op = "send", answer' # NoMsg
    PROVE  Write \/ SslWriteRenegotiates \/ SendInterrupted
<1>1. answer = NoMsg /\ pc # "idle"
  BY DEF SentInv
<1>2. ~Peer /\ ~TimePasses /\ ~Gone
  BY <1>1 DEF Peer, PeerSends, PeerEnds, PeerReads, Renumber, TimePasses, Gone, callVars
<1>3. ~Call
  BY <1>1 DEF Call, StartRecvLine, StartRecv, StartTls, StartSend, Enter, SetTimeout, Close
<1>4. ~Wait
  BY <1>1 DEF Wait, PollReady, PollTimeout, PollInterrupted, Goto, Fail, Return
<1>5. ~Read /\ ~SslReadRenegotiates
  BY DEF Read, PlainRecv, SslReadDeciphered, SslReadRecord, SslReadIncomplete, ReadEof, ReadFails,
         SslReadRenegotiates, Reading, Readers
<1>6. ~Handshake
  BY DEF Handshake, HandshakeDone, HandshakeTimeout, HandshakeFails, BInv, ControlInv
<1> QED BY <1>2, <1>3, <1>4, <1>5, <1>6 DEF Next

LEMMA AnswerIsWhole ==
    ASSUME BInv, SentInv, [Next]_vars, op = "send", answer' # NoMsg
    PROVE  Whole(msg, out') \/ (wpend.addr = addr /\ Whole(wpend.msg, out'))
<1>1. Next
  BY DEF SentInv, vars, callVars
<1>2. Promise
  BY <1>1, OnlyWritesAnswer, SentWrite
<1>3. out' \in Seq(Sendable)
  BY SentKeeps DEF SentInv
<1>4. \A m : Ends(out', m, MsgLen) => Whole(m, out')
  BY <1>3, EndsIsWhole, Sizes DEF Whole
<1> QED BY <1>2, <1>4 DEF Promise

(* A send that answers its count has handed one whole string to the kernel *)
(* in one piece, in TCP and through OpenSSL, after any failed sends: its   *)
(* own, or that of a failed send whose record OpenSSL had not finished and *)
(* at whose address its own is now.                                        *)
THEOREM SendIsWholeHolds == Spec => SendIsWhole
<1>1. BInv /\ SentInv /\ [Next]_vars
        => [op = "send" /\ answer' # NoMsg =>
              \/ Whole(msg, out')
              \/ wpend.addr = addr /\ Whole(wpend.msg, out')]_vars
  BY AnswerIsWhole
<1> QED BY <1>1, InvariantHolds, SentInvariantHolds, PTL DEF Spec, SendIsWhole

-----------------------------------------------------------------------------
(* A set of natural numbers that is not empty has a least one.             *)
LEMMA LeastExists ==
    ASSUME NEW S \in SUBSET Nat, S # {}
    PROVE  \E x \in S : \A y \in S : x <= y
<1> DEFINE R == {ss \in Nat \X Nat : ss[1] < ss[2]}
<1>1. IsWellFoundedOn(R, Nat)
  BY NatLessThanWellFounded DEF OpToRel
<1>2. PICK x \in S : \A y \in S : ~(<<y, x>> \in R)
  <2> HIDE DEF R
  <2> QED BY <1>1, WFMin
<1>3. ASSUME NEW y \in S
      PROVE  x <= y
  <2>1. <<y, x>> \in Nat \X Nat /\ <<y, x>>[1] = y /\ <<y, x>>[2] = x
    OBVIOUS
  <2>2. y < x => <<y, x>> \in R
    BY <2>1
  <2> QED BY <1>2, <2>2
<1> QED BY <1>3

(* The types.  The four ends of the stream keep their order; a send has    *)
(* room for all that it still has to hand over (MaxOut is a bound of the   *)
(* model: this is what makes StartSend's guard enough for the whole call). *)
Polls == {"pollIn", "pollOut", "flush", "drain"}
Handed == Msgs \X (1 .. MsgLen)
StillToSend == IF wpend.addr = addr THEN wpend.left ELSE MsgLen - total

StreamInv ==
    /\ plain \in Nat /\ taken \in Nat /\ arrived \in Nat
    /\ given <= plain /\ plain <= taken /\ taken <= arrived /\ arrived <= Len(Stream)
    /\ isOpen /\ ~tls => given = taken

PlacesInv ==
    /\ fin \in {"no", "eof", "reset"} /\ timed \in BOOLEAN /\ broken \in BOOLEAN
    /\ pc \in {"idle", "io", "sending", "handshake"} \cup Polls
    /\ deadline \in {"none", "ahead", "passed"} /\ msg \in Msgs \cup {NoMsg}
    /\ addr \in Addrs \cup {NoAddr}

OutInv ==
    /\ out \in Seq(Handed) /\ Len(out) <= MaxOut
    /\ op = "send" => Len(out) + StillToSend <= MaxOut

KInv == StreamInv /\ PlacesInv /\ OutInv

LEMMA SeqInto ==
    ASSUME NEW s \in Seq(Nat), NEW S, Range(s) \subseteq S
    PROVE  s \in Seq(S)
<1>1. \A i \in 1 .. Len(s) : s[i] \in S
  BY DEF Range
<1> QED BY <1>1

LEMMA TypesFromParts == BInv /\ SentInv /\ KInv => TypeOK
<1> SUFFICES ASSUME BInv, SentInv, KInv PROVE TypeOK
  OBVIOUS
<1>1. /\ Range(pending) \subseteq 1 .. given /\ Range(acc) \subseteq 1 .. given
      /\ Range(delivered) \subseteq 1 .. given /\ dropped \subseteq 1 .. given
  BY DEF BInv, PartsInv
<1>2. pending \in Seq(1 .. given) /\ acc \in Seq(1 .. given) /\ delivered \in Seq(1 .. given)
  BY <1>1, SeqInto DEF BInv, PartsInv
<1>3. /\ given <= plain /\ plain <= taken /\ taken <= arrived /\ arrived <= Len(Stream)
      /\ isOpen /\ ~tls => given = taken
  BY DEF KInv, StreamInv
<1>4. /\ fin \in {"no", "eof", "reset"} /\ {isOpen, timed, tls, mixed, broken} \subseteq BOOLEAN
      /\ pc \in {"idle", "io", "pollIn", "pollOut", "flush", "drain", "sending", "handshake"}
      /\ op \in {"none", "send", "starttls"} \cup Readers /\ (pc = "idle" <=> op = "none")
      /\ deadline \in {"none", "ahead", "passed"} /\ msg \in Msgs \cup {NoMsg}
      /\ addr \in Addrs \cup {NoAddr}
  BY DEF KInv, PlacesInv, Polls, BInv, ControlInv, SentInv
<1>5. peerRead \in 0 .. Len(out) /\ Room >= 0 /\ total \in 0 .. MsgLen
  BY Sizes DEF SentInv
<1>6. wpend \in {NoPending} \cup [msg : Msgs, addr : Addrs, left : 1 .. MsgLen]
  BY DEF SentInv
<1>7. out \in Seq(Msgs \X (1 .. MsgLen)) /\ Len(out) <= MaxOut
  BY DEF KInv, OutInv, Handed
<1> QED BY <1>1, <1>2, <1>3, <1>4, <1>5, <1>6, <1>7, Zenon DEF TypeOK

LEMMA KInit == Init => KInv
<1> SUFFICES ASSUME Init PROVE KInv
  OBVIOUS
<1>1. Len(Stream) \in Nat
  BY StreamAssumption
<1>2. StreamInv
  BY <1>1 DEF Init, StreamInv
<1>3. PlacesInv
  BY DEF Init, PlacesInv
<1>4. OutInv
  <2>1. << >> \in Seq(Handed) /\ Len(<< >>) = 0
    OBVIOUS
  <2> QED BY <2>1, MaxOutAssumption DEF Init, OutInv
<1> QED BY <1>2, <1>3, <1>4 DEF KInv

-----------------------------------------------------------------------------
(* The ends of the stream.                                                 *)
LEMMA StreamStays ==
    ASSUME StreamInv, UNCHANGED <<given, plain, taken, arrived>>,
           isOpen' /\ ~tls' => isOpen /\ ~tls
    PROVE  StreamInv'
BY DEF StreamInv

LEMMA RecordEndIsNext ==
    ASSUME plain \in Nat, plain < Len(Stream)
    PROVE  RecordEnd \in RecordEnds /\ RecordEnd \in Nat /\ plain < RecordEnd
<1> DEFINE S == {e \in RecordEnds : e > plain}
<1>1. Len(Stream) \in Nat
  BY StreamAssumption
<1>2. RecordEnds \subseteq Nat /\ Len(Stream) \in S
  BY <1>1, RecordsAssumption
<1>3. \E x \in S : \A y \in S : x <= y
  <2>1. S \in SUBSET Nat /\ S # {}
    BY <1>2
  <2> HIDE DEF S
  <2> QED BY <2>1, LeastExists
<1>4. RecordEnd \in S
  <2>1. RecordEnd = CHOOSE x \in S : \A y \in S : x <= y
    BY DEF RecordEnd, Min
  <2> HIDE DEF S
  <2> QED BY <1>3, <2>1
<1> QED BY <1>2, <1>4

LEMMA StreamRead ==
    ASSUME BInv, SentInv, StreamInv, Read
    PROVE  StreamInv'
<1>1. Cap \in Nat
  BY SizesAssumption DEF Cap
<1>2. given \in Nat /\ (Reading => isOpen) /\ tls \in BOOLEAN /\ isOpen \in BOOLEAN
  BY DEF BInv, PartsInv, SentInv, Reading, Readers
<1>3. ASSUME NEW k, Got(k)
      PROVE  given' = given + k /\ UNCHANGED <<arrived, isOpen, tls>>
  BY <1>3 DEF Got, peerVars
<1>4. CASE PlainRecv
  <2>1. PICK k \in 1 .. Cap : k <= arrived - taken /\ taken' = taken + k /\ plain' = taken' /\ Got(k)
    BY <1>4 DEF PlainRecv
  <2>2. given = taken
    BY <1>2, <1>4 DEF PlainRecv, StreamInv
  <2> QED BY <1>1, <1>2, <1>3, <2>1, <2>2 DEF StreamInv
<1>5. CASE SslReadDeciphered
  <2>1. PICK k \in 1 .. Cap : k <= plain - given /\ Got(k)
    BY <1>5 DEF SslReadDeciphered
  <2>2. UNCHANGED <<taken, plain>>
    BY <1>5 DEF SslReadDeciphered
  <2>3. ~(isOpen' /\ ~tls')
    <3>1. tls /\ tls' = tls
      BY <1>3, <1>5, <2>1 DEF SslReadDeciphered
    <3> QED BY <3>1, Zenon
  <2>4. given' = given + k /\ arrived' = arrived
    BY <1>3, <2>1
  <2> QED BY <1>1, <1>2, <2>1, <2>2, <2>3, <2>4 DEF StreamInv
<1>6. CASE SslReadRecord
  <2>1. PICK k \in 1 .. Cap : k <= RecordEnd - given /\ Got(k)
    BY <1>6 DEF SslReadRecord
  <2>2. /\ tls /\ given = plain /\ plain < arrived /\ RecordEnd <= arrived
        /\ taken' = RecordEnd /\ plain' = RecordEnd
    BY <1>6 DEF SslReadRecord
  <2>3. RecordEnd \in Nat /\ plain < RecordEnd
    <3>1. Len(Stream) \in Nat
      BY StreamAssumption
    <3>2. plain \in Nat /\ plain < Len(Stream)
      BY <2>2, <3>1 DEF StreamInv
    <3> QED BY <3>2, RecordEndIsNext
  <2>4. ~(isOpen' /\ ~tls')
    <3>1. tls /\ tls' = tls
      BY <1>3, <2>1, <2>2
    <3> QED BY <3>1, Zenon
  <2>5. given' = given + k /\ arrived' = arrived
    BY <1>3, <2>1
  <2> QED BY <1>1, <1>2, <2>1, <2>2, <2>3, <2>4, <2>5 DEF StreamInv
<1>7. CASE SslReadIncomplete
  <2>1. tls /\ taken' = arrived /\ UNCHANGED <<given, plain, arrived, tls>>
    BY <1>7 DEF SslReadIncomplete, peerVars, sockVars
  <2> QED BY <1>2, <2>1 DEF StreamInv
<1>8. CASE ReadEof
  <2>1. UNCHANGED <<given, plain, taken, arrived, isOpen, tls>>
    BY <1>8 DEF ReadEof, Eof, sslVars, peerVars, sockVars
  <2> QED BY <2>1, StreamStays
<1>9. CASE ReadFails
  <2>1. UNCHANGED <<given, plain, taken, arrived, isOpen, tls>>
    BY <1>9 DEF ReadFails, Fail, sslVars, peerVars
  <2> QED BY <2>1, StreamStays
<1> QED BY <1>4, <1>5, <1>6, <1>7, <1>8, <1>9 DEF Read

LEMMA StreamKeeps ==
    ASSUME BInv, SentInv, StreamInv, [Next]_vars
    PROVE  StreamInv'
<1>1. CASE Read
  BY <1>1, StreamRead
<1>2. CASE PeerSends \/ PeerEnds \/ PeerReads
  <2>1. /\ UNCHANGED <<given, plain, taken, isOpen, tls>>
        /\ arrived' = arrived \/ (arrived < Len(Stream) /\ arrived' = arrived + 1)
    BY <1>2 DEF PeerSends, PeerEnds, PeerReads, sockVars, sslVars
  <2>2. given \in Nat /\ Len(Stream) \in Nat /\ tls \in BOOLEAN /\ isOpen \in BOOLEAN
    BY StreamAssumption DEF BInv, PartsInv, SentInv
  <2> QED BY <2>1, <2>2 DEF StreamInv
<1>3. CASE TimePasses \/ UNCHANGED vars
  <2>1. UNCHANGED <<given, plain, taken, arrived, isOpen, tls>>
    BY <1>3 DEF TimePasses, vars, sslVars, peerVars, sockVars
  <2> QED BY <2>1, StreamStays
<1>4. CASE Call
  <2>1. UNCHANGED <<given, plain, taken, arrived>> /\ (isOpen' /\ ~tls' => isOpen /\ ~tls)
    BY <1>4 DEF Call, StartRecvLine, StartRecv, StartTls, StartSend, SetTimeout, Close, sslVars,
                peerVars, sockVars
  <2> QED BY <2>1, StreamStays
<1>5. CASE Wait
  <2>1. UNCHANGED <<given, plain, taken, arrived, isOpen, tls>>
    BY <1>5 DEF Wait, PollReady, PollTimeout, PollInterrupted, Fail, sslVars, peerVars, sockVars
  <2> QED BY <2>1, StreamStays
<1>6. CASE Write \/ SslReadRenegotiates \/ SslWriteRenegotiates \/ SendInterrupted
  <2>1. UNCHANGED <<given, plain, taken, arrived, isOpen, tls>>
    BY <1>6 DEF Write, SendSome, SendBlocks, KernelAccepts, SendClosed, SslWrite, Flush, SslBadRetry,
                SslReadRenegotiates, SslWriteRenegotiates, SendInterrupted, Fail, sslVars, peerVars,
                sockVars
  <2> QED BY <2>1, StreamStays
<1>7. CASE Handshake
  <2>1. UNCHANGED <<given, plain, taken, arrived, isOpen>> /\ (tls' = tls \/ tls' = TRUE)
    BY <1>7 DEF Handshake, HandshakeDone, HandshakeTimeout, HandshakeFails, sslVars, peerVars, sockVars
  <2>2. isOpen' /\ ~tls' => isOpen /\ ~tls
    BY <2>1, Zenon
  <2> QED BY <2>1, <2>2, StreamStays
<1>8. CASE Renumber
  <2>1. given' = 0 /\ plain' = 0 /\ taken' = 0 /\ arrived' = 0
    BY <1>8 DEF Renumber
  <2>2. Len(Stream) \in Nat
    BY StreamAssumption
  <2> QED BY <2>1, <2>2 DEF StreamInv
<1> QED BY <1>1, <1>2, <1>3, <1>4, <1>5, <1>6, <1>7, <1>8 DEF Next, Peer, Gone

-----------------------------------------------------------------------------
(* The places of a call.                                                   *)
LEMMA PlacesReturn ==
    ASSUME PlacesInv, NEW res, Return(res), UNCHANGED <<fin, timed>>, broken' \in BOOLEAN
    PROVE  PlacesInv'
BY DEF PlacesInv, Return

LEMMA PlacesGoto ==
    ASSUME PlacesInv, pc' \in {"io", "sending"} \cup Polls,
           UNCHANGED <<fin, timed, broken, deadline, msg, addr>>
    PROVE  PlacesInv'
BY DEF PlacesInv

LEMMA PlacesRead ==
    ASSUME PlacesInv, Read \/ Wait
    PROVE  PlacesInv'
<1>1. CASE Wait
  <2>1. CASE PollReady
    <3>1. After(pc) \in {"io", "pollIn", "pollOut"}
      BY DEF After, ReadFrom
    <3> QED BY <2>1, <3>1, PlacesGoto DEF PollReady, Goto, peerVars, sockVars, ghosts, Polls
  <2>2. CASE PollTimeout \/ PollInterrupted
    BY <2>2, PlacesReturn DEF PollTimeout, PollInterrupted, Fail, peerVars, PlacesInv
  <2> QED BY <1>1, <2>1, <2>2 DEF Wait
<1>2. ASSUME NEW k, Got(k)
      PROVE  PlacesInv'
  <2>1. UNCHANGED <<fin, timed, broken>>
    BY <1>2 DEF Got, peerVars
  <2>2. CASE Return("ok") \/ Return("line too long")
    BY <2>1, <2>2, PlacesReturn DEF PlacesInv
  <2>3. CASE pc' = ReadFrom(tls, given', plain') /\ UNCHANGED <<deadline, msg, addr>>
    BY <2>1, <2>3, PlacesGoto DEF ReadFrom, Polls
  <2> QED BY <1>2, <2>2, <2>3 DEF Got
<1>3. CASE PlainRecv \/ SslReadDeciphered \/ SslReadRecord
  BY <1>2, <1>3 DEF PlainRecv, SslReadDeciphered, SslReadRecord
<1>4. CASE SslReadIncomplete
  BY <1>4, PlacesGoto DEF SslReadIncomplete, Goto, peerVars, sockVars, ghosts, Polls
<1>5. CASE ReadEof \/ ReadFails
  <2>1. (\E res : Return(res)) /\ UNCHANGED <<fin, timed, broken>>
    BY <1>5 DEF ReadEof, ReadFails, Eof, Fail, peerVars, sockVars
  <2> QED BY <2>1, PlacesReturn DEF PlacesInv
<1> QED BY <1>1, <1>3, <1>4, <1>5 DEF Read

LEMMA PlacesWrite ==
    ASSUME PlacesInv,
           Write \/ Handshake \/ SslReadRenegotiates \/ SslWriteRenegotiates \/ SendInterrupted
    PROVE  PlacesInv'
<1>1. CASE SendSome
  <2>1. UNCHANGED <<fin, timed, broken>>
    BY <1>1 DEF SendSome, peerVars, sockVars
  <2>2. PICK k \in {SmallerOf(Room, MsgLen - total)} : Sent(k)
    BY <1>1 DEF SendSome
  <2> QED BY <2>1, <2>2, PlacesReturn, PlacesGoto DEF Sent, PlacesInv, Polls
<1>2. CASE SendBlocks \/ SslReadRenegotiates \/ SslWriteRenegotiates \/ SendInterrupted
  BY <1>2, PlacesGoto DEF SendBlocks, SslReadRenegotiates, SslWriteRenegotiates, SendInterrupted, Goto,
                          peerVars, sockVars, ghosts, Polls
<1>3. CASE KernelAccepts
  <2>1. UNCHANGED <<fin, timed, broken>>
        /\ (Return("ok") \/ UNCHANGED <<pc, deadline, msg, addr>>)
    BY <1>3 DEF KernelAccepts, peerVars, sockVars
  <2> QED BY <2>1, PlacesReturn DEF PlacesInv
<1>4. CASE SendClosed \/ SslBadRetry
  BY <1>4, PlacesReturn DEF SendClosed, SslBadRetry, Fail, peerVars, PlacesInv
<1>5. CASE SslWrite
  <2>1. UNCHANGED <<fin, timed, broken>> /\ (Return("ok") \/ Goto("pollOut"))
    BY <1>5 DEF SslWrite, Flush, peerVars, sockVars
  <2> QED BY <2>1, PlacesReturn, PlacesGoto DEF Goto, PlacesInv, Polls
<1>6. CASE Handshake
  <2>1. UNCHANGED <<fin, timed>> /\ broken' \in {broken, TRUE} /\ (\E res : Return(res))
    BY <1>6 DEF Handshake, HandshakeDone, HandshakeTimeout, HandshakeFails, peerVars, sockVars, ghosts
  <2>2. broken' \in BOOLEAN
    BY <2>1 DEF PlacesInv
  <2> QED BY <2>1, <2>2, PlacesReturn
<1> QED BY <1>1, <1>2, <1>3, <1>4, <1>5, <1>6 DEF Write

LEMMA PlacesKeep ==
    ASSUME PlacesInv, [Next]_vars
    PROVE  PlacesInv'
<1>1. CASE Read \/ Wait
  BY <1>1, PlacesRead
<1>2. CASE Write \/ Handshake \/ SslReadRenegotiates \/ SslWriteRenegotiates \/ SendInterrupted
  BY <1>2, PlacesWrite
<1>3. CASE Peer \/ UNCHANGED vars
  <2>1. /\ UNCHANGED <<timed, broken, pc, deadline, msg, addr>>
        /\ fin' = fin \/ fin' \in {"eof", "reset"}
    BY <1>3 DEF Peer, PeerSends, PeerEnds, PeerReads, Renumber, vars, peerVars, sockVars, callVars, ghosts
  <2> QED BY <2>1 DEF PlacesInv
<1>4. CASE TimePasses
  <2>1. UNCHANGED <<fin, timed, broken, pc, msg, addr>> /\ deadline' = "passed"
    BY <1>4 DEF TimePasses, peerVars, sockVars, ghosts
  <2> QED BY <2>1 DEF PlacesInv
<1>5. CASE Call
  <2>1. CASE SetTimeout
    <3>1. UNCHANGED <<fin, broken, pc, deadline, msg, addr>> /\ timed' = ~timed
      BY <2>1 DEF SetTimeout, peerVars, callVars, ghosts
    <3> QED BY <3>1 DEF PlacesInv
  <2>2. CASE Close
    <3>1. UNCHANGED <<fin, broken, pc, deadline, msg, addr, timed>>
      BY <2>2 DEF Close, peerVars, callVars, ghosts
    <3> QED BY <3>1 DEF PlacesInv
  <2>3. CASE \/ StartRecvLine \/ StartRecv("recv") \/ StartRecv("recv_all") \/ StartTls
             \/ \E m \in Msgs, a \in Addrs : StartSend(m, a)
    <3>1. /\ UNCHANGED <<fin, timed, broken>> /\ deadline' \in {"none", "ahead"}
          /\ pc' \in {"io", "pollIn", "pollOut", "handshake"} /\ (msg' = msg \/ msg' \in Msgs)
          /\ (addr' = addr \/ addr' \in Addrs)
      BY <2>3 DEF StartRecvLine, StartRecv, StartTls, StartSend, Enter, MakeDeadline, ReadFrom, peerVars,
                  sockVars, ghosts
    <3> QED BY <3>1 DEF PlacesInv, Polls
  <2> QED BY <1>5, <2>1, <2>2, <2>3 DEF Call
<1> QED BY <1>1, <1>2, <1>3, <1>4, <1>5 DEF Next, Gone

-----------------------------------------------------------------------------
(* The bytes handed to the kernel.                                         *)
LEMMA OutStays ==
    ASSUME OutInv, UNCHANGED out, op' = "send" => UNCHANGED <<op, wpend, addr, total>>
    PROVE  OutInv'
BY DEF OutInv, StillToSend

LEMMA JoinTypes ==
    ASSUME NEW S, NEW s \in Seq(S), NEW t \in Seq(S)
    PROVE  s \o t \in Seq(S) /\ Len(s \o t) = Len(s) + Len(t)
OBVIOUS

LEMMA OutGrows ==
    ASSUME OutInv, NEW m \in Msgs, NEW a \in Nat, NEW k \in Nat, a + k <= MsgLen,
           out' = out \o Bytes(m, a, a + k)
    PROVE  out' \in Seq(Handed) /\ Len(out') = Len(out) + k
<1> DEFINE b == [i \in 1 .. k |-> <<m, a + i>>]
<1>1. Bytes(m, a, a + k) = b
  <2>1. (a + k) - a = k
    OBVIOUS
  <2> QED BY <2>1 DEF Bytes
<1>2. \A i \in 1 .. k : a + i \in 1 .. MsgLen
  BY Sizes
<1>3. b \in Seq(Handed) /\ Len(b) = k
  <2>1. \A i \in 1 .. k : <<m, a + i>> \in Handed
    BY <1>2 DEF Handed
  <2>2. b \in [1 .. k -> Handed]
    BY <2>1, Zenon
  <2> HIDE DEF b
  <2> QED BY <2>2
<1> HIDE DEF b
<1>4. out \in Seq(Handed)
  BY DEF OutInv
<1>5. out \o b \in Seq(Handed) /\ Len(out \o b) = Len(out) + k
  <2>1. out \o b \in Seq(Handed) /\ Len(out \o b) = Len(out) + Len(b)
    BY <1>3, <1>4, JoinTypes, Zenon
  <2> QED BY <1>3, <2>1, Zenon
<1>6. out' = out \o b
  BY <1>1
<1> QED BY <1>5, <1>6

LEMMA OutPlain ==
    ASSUME OutInv, SentInv, op = "send", pc # "idle", ~tls, NEW k \in Nat, k <= Room,
           total + k <= MsgLen, out' = out \o Bytes(msg, total, total + k),
           \/ total + k = MsgLen /\ Return("ok")
           \/ total + k # MsgLen /\ total' = total + k /\ UNCHANGED <<op, addr>>,
           UNCHANGED wpend
    PROVE  OutInv'
<1>1. wpend = NoPending /\ msg \in Msgs /\ addr # NoAddr /\ total \in Nat /\ Len(out) \in Nat
  BY MsgsAssumption DEF SentInv
<1>2. StillToSend = MsgLen - total /\ Len(out) + (MsgLen - total) <= MaxOut
  BY <1>1 DEF StillToSend, NoPending, OutInv
<1>3. out' \in Seq(Handed) /\ Len(out') = Len(out) + k
  BY <1>1, OutGrows
<1>4. Len(out') <= MaxOut
  BY <1>1, <1>2, <1>3, Sizes, MaxOutAssumption
<1>5. CASE Return("ok")
  <2>1. op' = "none"
    BY <1>5 DEF Return
  <2> QED BY <1>3, <1>4, <2>1 DEF OutInv
<1>6. CASE total' = total + k /\ UNCHANGED <<op, addr>>
  <2>1. StillToSend' = MsgLen - (total + k)
    BY <1>1, <1>6 DEF StillToSend, NoPending
  <2>2. Len(out') + StillToSend' <= MaxOut
    BY <1>1, <1>2, <1>3, <2>1, Sizes, MaxOutAssumption
  <2> QED BY <1>3, <1>4, <2>2 DEF OutInv
<1> QED BY <1>5, <1>6

LEMMA OutFlush ==
    ASSUME OutInv, SentInv, Writing, tls, NEW m \in Msgs, NEW left \in 1 .. MsgLen,
           StillToSend = left, Flush(m, left)
    PROVE  OutInv'
<1> DEFINE k == SmallerOf(Room, left)
           a == MsgLen - left
<1>1. /\ k \in Nat /\ k <= left /\ a \in Nat /\ a + k <= MsgLen
      /\ op = "send" /\ Len(out) \in Nat
  BY Sizes DEF SmallerOf, SentInv, Room, Writing
<1>2. out' = out \o Bytes(m, a, a + k)
  BY DEF Flush
<1>3. \/ k = left /\ Return("ok")
      \/ k # left /\ wpend' = [msg |-> m, addr |-> addr, left |-> left - k] /\ Goto("pollOut")
  BY DEF Flush
<1> HIDE DEF k
<1>4. out' \in Seq(Handed) /\ Len(out') = Len(out) + k
  <2> HIDE DEF a
  <2> QED BY <1>1, <1>2, OutGrows
<1>5. Len(out) + left <= MaxOut
  BY <1>1 DEF OutInv
<1>6. Len(out') <= MaxOut
  BY <1>1, <1>4, <1>5, Sizes, MaxOutAssumption
<1>7. CASE Return("ok")
  <2>1. op' = "none"
    BY <1>7 DEF Return
  <2> QED BY <1>4, <1>6, <2>1 DEF OutInv
<1>8. CASE wpend' = [msg |-> m, addr |-> addr, left |-> left - k] /\ Goto("pollOut")
  <2>1. StillToSend' = left - k
    BY <1>8 DEF StillToSend, Goto
  <2>2. Len(out') + StillToSend' <= MaxOut
    BY <1>1, <1>4, <1>5, <2>1, Sizes, MaxOutAssumption
  <2> QED BY <1>4, <1>6, <2>2 DEF OutInv
<1> QED BY <1>3, <1>7, <1>8

LEMMA OutWrite ==
    ASSUME BInv, SentInv, OutInv, Write
    PROVE  OutInv'
<1>1. CASE SendSome
  <2> DEFINE k == SmallerOf(Room, MsgLen - total)
  <2>1. k \in Nat /\ k <= Room /\ total + k <= MsgLen
    BY Sizes DEF SmallerOf, SentInv, Room
  <2>2. /\ out' = out \o Bytes(msg, total, total + k) /\ Sent(k) /\ op = "send" /\ pc # "idle" /\ ~tls
        /\ UNCHANGED wpend
    BY <1>1 DEF SendSome, Writing, sslVars
  <2> HIDE DEF k
  <2> QED BY <2>1, <2>2, OutPlain DEF Sent
<1>2. CASE KernelAccepts
  <2>1. op = "send" /\ ~tls /\ pc = "sending"
    BY <1>2 DEF KernelAccepts, BInv, ControlInv, SentInv
  <2>2. 1 \in Nat /\ 1 <= Room /\ total + 1 <= MsgLen
    BY <1>2, Sizes DEF KernelAccepts, SentInv, Room
  <2>3. /\ out' = out \o Bytes(msg, total, total + 1)
        /\ \/ total + 1 = MsgLen /\ Return("ok")
           \/ total + 1 # MsgLen /\ total' = total + 1 /\ UNCHANGED <<op, addr>>
        /\ UNCHANGED wpend
    BY <1>2 DEF KernelAccepts, sslVars
  <2> QED BY <2>1, <2>2, <2>3, OutPlain
<1>3. CASE SendBlocks
  BY <1>3, OutStays DEF SendBlocks, Goto, sslVars, ghosts
<1>4. CASE SendClosed \/ SslBadRetry
  <2>1. UNCHANGED out /\ op' = "none"
    BY <1>4 DEF SendClosed, SslBadRetry, Fail, Return
  <2> QED BY <2>1, OutStays
<1>5. CASE SslWrite
  <2>1. Writing /\ tls /\ addr \in Addrs /\ addr # NoAddr /\ total = 0
    BY <1>5, MsgsAssumption DEF SslWrite, Writing, SentInv
  <2>2. CASE wpend = NoPending /\ msg \in Msgs /\ MsgLen \in 1 .. MsgLen /\ Flush(msg, MsgLen)
    <3>1. StillToSend = MsgLen
      BY <2>1, <2>2, Sizes DEF StillToSend, NoPending
    <3> QED BY <2>1, <2>2, <3>1, OutFlush
  <2>3. CASE /\ wpend.addr = addr /\ wpend.msg \in Msgs /\ wpend.left \in 1 .. MsgLen
             /\ Flush(wpend.msg, wpend.left)
    <3>1. StillToSend = wpend.left
      BY <2>3 DEF StillToSend
    <3> QED BY <2>1, <2>3, <3>1, OutFlush
  <2> QED BY <1>5, <2>2, <2>3, WhatIsFlushed
<1> QED BY <1>1, <1>2, <1>3, <1>4, <1>5 DEF Write

LEMMA OutRead ==
    ASSUME OutInv, Read \/ Wait \/ Handshake
    PROVE  OutInv'
<1>1. CASE Wait
  <2>1. CASE PollReady
    BY <2>1, OutStays DEF PollReady, Goto, sslVars, ghosts
  <2>2. CASE PollTimeout \/ PollInterrupted
    BY <2>2, OutStays DEF PollTimeout, PollInterrupted, Fail, Return
  <2> QED BY <1>1, <2>1, <2>2 DEF Wait
<1>2. CASE Handshake
  BY <1>2, OutStays DEF Handshake, HandshakeDone, HandshakeTimeout, HandshakeFails, Return, ghosts
<1>3. ASSUME NEW k, Got(k), Reading
      PROVE  OutInv'
  <2>1. UNCHANGED out /\ op' # "send"
    BY <1>3 DEF Got, Return, Reading, Readers
  <2> QED BY <2>1, OutStays
<1>4. CASE PlainRecv \/ SslReadDeciphered \/ SslReadRecord
  BY <1>3, <1>4 DEF PlainRecv, SslReadDeciphered, SslReadRecord
<1>5. CASE SslReadIncomplete
  BY <1>5, OutStays DEF SslReadIncomplete, Goto, ghosts
<1>6. CASE ReadEof \/ ReadFails
  BY <1>6, OutStays DEF ReadEof, ReadFails, Eof, Fail, Return
<1> QED BY <1>1, <1>2, <1>4, <1>5, <1>6 DEF Read

LEMMA OutCall ==
    ASSUME SentInv, OutInv, Call
    PROVE  OutInv'
<1>1. CASE \E m \in Msgs, a \in Addrs : StartSend(m, a)
  <2>1. /\ UNCHANGED <<out, wpend>> /\ op' = "send" /\ addr' \in Addrs /\ total' = 0
        /\ Len(out) + MsgLen <= MaxOut
    BY <1>1 DEF StartSend, Enter, sslVars, ghosts
  <2>2. StillToSend' \in Nat /\ StillToSend' <= MsgLen
    <3>1. CASE wpend = NoPending
      <4>1. wpend.addr # addr'
        BY <2>1, <3>1, MsgsAssumption DEF NoPending
      <4> QED BY <2>1, <4>1, Sizes DEF StillToSend
    <3>2. CASE wpend \in [msg : Msgs, addr : Addrs, left : 1 .. MsgLen]
      BY <2>1, <3>2, Sizes DEF StillToSend
    <3> QED BY <3>1, <3>2 DEF SentInv
  <2>3. Len(out) \in Nat
    BY DEF SentInv
  <2> QED BY <2>1, <2>2, <2>3, Sizes, MaxOutAssumption DEF OutInv
<1>2. CASE StartRecvLine \/ StartRecv("recv") \/ StartRecv("recv_all") \/ StartTls
  <2>1. UNCHANGED out /\ op' # "send"
    BY <1>2 DEF StartRecvLine, StartRecv, StartTls, Enter, ghosts
  <2> QED BY <2>1, OutStays
<1>3. CASE SetTimeout \/ Close
  BY <1>3, OutStays DEF SetTimeout, Close, sslVars, callVars, ghosts
<1> QED BY <1>1, <1>2, <1>3 DEF Call

LEMMA OutKeeps ==
    ASSUME BInv, SentInv, OutInv, [Next]_vars
    PROVE  OutInv'
<1>1. CASE Write
  BY <1>1, OutWrite
<1>2. CASE Read \/ Wait \/ Handshake
  BY <1>2, OutRead
<1>3. CASE Call
  BY <1>3, OutCall
<1>4. CASE Peer \/ TimePasses \/ UNCHANGED vars
  BY <1>4, OutStays DEF Peer, PeerSends, PeerEnds, PeerReads, Renumber, TimePasses, vars, sslVars, callVars, ghosts
<1>5. CASE SslReadRenegotiates \/ SslWriteRenegotiates \/ SendInterrupted
  BY <1>5, OutStays DEF SslReadRenegotiates, SslWriteRenegotiates, SendInterrupted, Goto, sslVars, ghosts
<1> QED BY <1>1, <1>2, <1>3, <1>4, <1>5 DEF Next, Gone

LEMMA KKeeps == BInv /\ SentInv /\ KInv /\ [Next]_vars => KInv'
BY StreamKeeps, PlacesKeep, OutKeeps DEF KInv

(* Every variable of a connected socket has its type, the four ends of the *)
(* stream keep their order, and no call hands over more than MaxOut bytes, *)
(* after any calls, timeouts and failures.                                 *)
THEOREM SocketTypeCorrect == Spec => []TypeOK
<1>1. Spec => [](BInv /\ SentInv)
  BY InvariantHolds, SentInvariantHolds, PTL
<1>2. Spec => []KInv
  BY <1>1, KInit, KKeeps, PTL DEF Spec
<1> QED BY <1>1, <1>2, TypesFromParts, PTL

-----------------------------------------------------------------------------
(***************************************************************************)
(* The second part: who owns the descriptors and the SSL objects, and the  *)
(* shared TLS context, for any number of threads, descriptors and          *)
(* addresses.                                                              *)
(***************************************************************************)
Places == {"idle", "ctx", "creating", "resolve", "socket", "connect", "setup",
           "poll", "ssl", "options", "handshake", "await", "accepted"}
WithFd == {"connect", "setup", "poll", "ssl", "options", "handshake", "accepted"}
WithSsl == {"options", "handshake"}

Types ==
    /\ open \subseteq Fds /\ ssls \in Nat
    /\ socks \in [Threads -> SUBSET Socks]
    /\ ctx \in {"no", "busy", "ready", "failed"}
    /\ fd \in [Threads -> Fds \cup {NoFd}] /\ ssl \in [Threads -> BOOLEAN]
    /\ kind \in [Threads -> {"none", "connect", "connect_tls", "listen", "accept"}]
    /\ at \in [Threads -> Places]
    /\ hasTimeout \in [Threads -> BOOLEAN] /\ ai \in [Threads -> 0..Addresses]

(* What the locals of a call hold at each place of it.                     *)
LocalsInv == \A t \in Threads :
    /\ fd[t] # NoFd <=> at[t] \in WithFd
    /\ ssl[t] <=> at[t] \in WithSsl

(* The two parts of EverythingHasOneOwner.                                 *)
FdsInv ==
    /\ \A f \in Fds : f \in open <=> \E t \in Threads : f \in Held(t)
    /\ \A t, u \in Threads : t # u => Held(t) \cap Held(u) = {}
    /\ \A t \in Threads : /\ fd[t] \notin {s.fd : s \in socks[t]}
                          /\ \A s1, s2 \in socks[t] : s1.fd = s2.fd => s1 = s2

InCalls == {t \in Threads : ssl[t]}
InSocks == {ts \in Threads \X Socks : ts[2] \in socks[ts[1]] /\ ts[2].tls}

SslsInv ==
    /\ IsFiniteSet(InCalls) /\ IsFiniteSet(InSocks)
    /\ ssls = Cardinality(InCalls) + Cardinality(InSocks)

(* One thread creates the context; those past it found it ready.           *)
CtxInv ==
    /\ \A t, u \in Threads : at[t] = "creating" /\ at[u] = "creating" => t = u
    /\ \A t \in Threads : at[t] = "creating" => ctx = "busy"
    /\ \A t \in Threads : kind[t] = "connect_tls" /\ at[t] \notin {"ctx", "creating"} => ctx = "ready"
    /\ \A t \in Threads : at[t] \in {"ctx", "creating"} => kind[t] = "connect_tls"
    /\ \A t \in Threads : at[t] = "idle" <=> kind[t] = "none"

OInv == Types /\ LocalsInv /\ FdsInv /\ SslsInv /\ CtxInv

-----------------------------------------------------------------------------
(* The invariant's parts are what the property says.                       *)
LEMMA OwnersSame == OInv => EverythingHasOneOwner
<1> SUFFICES ASSUME OInv PROVE EverythingHasOneOwner
  OBVIOUS
<1>1. \A t \in Threads : Held(t) \subseteq Fds
  BY DEF OInv, Types, Held, Socks
<1>2. UNION {Held(t) : t \in Threads} = open
  BY <1>1 DEF OInv, FdsInv, Types
<1> QED BY <1>2 DEF OInv, FdsInv, SslsInv, InCalls, InSocks, EverythingHasOneOwner

(* A descriptor and an SSL object change hands in five ways.               *)
LEMMA OwnersStay ==
    ASSUME OInv, UNCHANGED <<open, socks, ssls, fd, ssl>>
    PROVE  FdsInv' /\ SslsInv'
<1>1. \A t \in Threads : Held(t)' = Held(t)
  BY DEF Held
<1>2. InCalls' = InCalls /\ InSocks' = InSocks
  BY DEF InCalls, InSocks
<1> QED BY <1>1, <1>2 DEF OInv, FdsInv, SslsInv

LEMMA NewFdOwned ==
    ASSUME OInv, NEW t \in Threads, fd[t] = NoFd, NewFd(t), UNCHANGED <<socks, ssls, ssl>>
    PROVE  /\ FdsInv' /\ SslsInv' /\ fd'[t] \in Fds /\ fd'[t] # NoFd /\ open' \subseteq Fds
           /\ fd' \in [Threads -> Fds \cup {NoFd}]
           /\ \A u \in Threads \ {t} : fd'[u] = fd[u]
<1> PICK new \in Fds \ open : open' = open \cup {new} /\ fd' = [fd EXCEPT ![t] = new]
  BY DEF NewFd
<1>1. new \in Fds \ open /\ new # NoFd
  BY FdsAssumption DEF NoFd
<1>2. fd' = [fd EXCEPT ![t] = new] /\ open' = open \cup {new}
  OBVIOUS
<1>3. /\ fd' \in [Threads -> Fds \cup {NoFd}] /\ fd'[t] = new
      /\ \A u \in Threads \ {t} : fd'[u] = fd[u]
  BY <1>1, <1>2 DEF OInv, Types
<1>4. Held(t)' = Held(t) \cup {new} /\ \A u \in Threads \ {t} : Held(u)' = Held(u)
  BY <1>1, <1>3 DEF Held
<1>5. \A u \in Threads : new \notin Held(u)
  BY <1>1 DEF OInv, FdsInv
<1>6. FdsInv'
  <2>1. \A f \in Fds : f \in open' <=> \E u \in Threads : f \in Held(u)'
    BY <1>2, <1>4 DEF OInv, FdsInv
  <2>2. \A u, v \in Threads : u # v => Held(u)' \cap Held(v)' = {}
    BY <1>4, <1>5 DEF OInv, FdsInv
  <2>3. new \notin {s.fd : s \in socks[t]}
    BY <1>5 DEF Held
  <2>4. \A u \in Threads : fd'[u] \notin {s.fd : s \in socks[u]}
    BY <1>3, <2>3 DEF OInv, FdsInv
  <2> QED BY <2>1, <2>2, <2>4 DEF OInv, FdsInv
<1>7. InCalls' = InCalls /\ InSocks' = InSocks
  BY DEF InCalls, InSocks
<1>8. open' \subseteq Fds
  BY <1>1, <1>2 DEF OInv, Types
<1> QED BY <1>1, <1>3, <1>6, <1>7, <1>8 DEF OInv, SslsInv

LEMMA FdClosed ==
    ASSUME OInv, NEW t \in Threads, fd[t] # NoFd, CloseFd(t), UNCHANGED socks
    PROVE  /\ FdsInv' /\ fd'[t] = NoFd /\ open' \subseteq Fds
           /\ fd' \in [Threads -> Fds \cup {NoFd}]
           /\ \A u \in Threads \ {t} : fd'[u] = fd[u]
<1>1. /\ fd' \in [Threads -> Fds \cup {NoFd}] /\ fd'[t] = NoFd
      /\ \A u \in Threads \ {t} : fd'[u] = fd[u]
  BY DEF CloseFd, OInv, Types
<1>2. open' = open \ {fd[t]} /\ open' \subseteq Fds
  BY DEF CloseFd, OInv, Types
<1>3. Held(t)' = Held(t) \ {fd[t]} /\ \A u \in Threads \ {t} : Held(u)' = Held(u)
  BY <1>1 DEF Held, OInv, FdsInv
<1>4. fd[t] \in Held(t)
  BY DEF Held
<1>5. \A u \in Threads \ {t} : fd[t] \notin Held(u)
  BY <1>4 DEF OInv, FdsInv
<1>6. \A f \in Fds : f \in open' <=> \E u \in Threads : f \in Held(u)'
  BY <1>2, <1>3, <1>5 DEF OInv, FdsInv
<1>7. \A u, v \in Threads : u # v => Held(u)' \cap Held(v)' = {}
  BY <1>3 DEF OInv, FdsInv
<1>8. NoFd \notin {s.fd : s \in socks[t]}
  BY FdsAssumption DEF OInv, Types, Socks, NoFd
<1>9. \A u \in Threads : fd'[u] \notin {s.fd : s \in socks[u]}
  BY <1>1, <1>8 DEF OInv, FdsInv
<1> QED BY <1>1, <1>2, <1>6, <1>7, <1>9 DEF OInv, FdsInv

LEMMA SslsStay ==
    ASSUME OInv, UNCHANGED <<socks, ssls, ssl>>
    PROVE  SslsInv'
<1>1. InCalls' = InCalls /\ InSocks' = InSocks
  BY DEF InCalls, InSocks
<1> QED BY <1>1 DEF OInv, SslsInv

LEMMA ReleaseOwned ==
    ASSUME OInv, NEW t \in Threads, fd[t] # NoFd, Release(t), UNCHANGED socks
    PROVE  /\ FdsInv' /\ SslsInv' /\ fd'[t] = NoFd /\ open' \subseteq Fds
           /\ fd' \in [Threads -> Fds \cup {NoFd}] /\ ssl' \in [Threads -> BOOLEAN]
           /\ ~ssl'[t] /\ ssls' \in Nat
           /\ \A u \in Threads \ {t} : fd'[u] = fd[u] /\ ssl'[u] = ssl[u]
<1>1. /\ FdsInv' /\ fd'[t] = NoFd /\ open' \subseteq Fds
      /\ fd' \in [Threads -> Fds \cup {NoFd}]
      /\ \A u \in Threads \ {t} : fd'[u] = fd[u]
  BY FdClosed DEF Release
<1>2. /\ ssl' \in [Threads -> BOOLEAN] /\ ~ssl'[t]
      /\ \A u \in Threads \ {t} : ssl'[u] = ssl[u]
      /\ ssls' = IF ssl[t] THEN ssls - 1 ELSE ssls
  BY DEF Release, OInv, Types
<1>3. InCalls' = InCalls \ {t} /\ InSocks' = InSocks
  BY <1>2 DEF InCalls, InSocks
<1>4. /\ IsFiniteSet(InCalls \ {t})
      /\ Cardinality(InCalls \ {t}) = IF ssl[t] THEN Cardinality(InCalls) - 1 ELSE Cardinality(InCalls)
  BY FS_RemoveElement DEF OInv, SslsInv, InCalls
<1>5. IsFiniteSet(InCalls') /\ IsFiniteSet(InSocks')
  BY <1>3, <1>4 DEF OInv, SslsInv
<1>6. Cardinality(InCalls') \in Nat /\ Cardinality(InSocks') \in Nat
      /\ Cardinality(InCalls) \in Nat
  BY <1>5, FS_CardinalityType DEF OInv, SslsInv
<1>7. ssls' = Cardinality(InCalls') + Cardinality(InSocks')
  BY <1>2, <1>3, <1>4, <1>6 DEF OInv, SslsInv
<1>8. ssls' \in Nat
  BY <1>6, <1>7
<1> QED BY <1>1, <1>2, <1>5, <1>7, <1>8 DEF SslsInv

LEMMA NewSslOwned ==
    ASSUME OInv, NEW t \in Threads, ~ssl[t],
           ssl' = [ssl EXCEPT ![t] = TRUE], ssls' = ssls + 1, UNCHANGED socks
    PROVE  /\ SslsInv' /\ ssl' \in [Threads -> BOOLEAN] /\ ssl'[t] /\ ssls' \in Nat
           /\ \A u \in Threads \ {t} : ssl'[u] = ssl[u]
<1>1. ssl' \in [Threads -> BOOLEAN] /\ ssl'[t] /\ \A u \in Threads \ {t} : ssl'[u] = ssl[u]
  BY DEF OInv, Types
<1>2. InCalls' = InCalls \cup {t} /\ InSocks' = InSocks /\ t \notin InCalls
  BY <1>1 DEF InCalls, InSocks
<1>3. /\ IsFiniteSet(InCalls \cup {t})
      /\ Cardinality(InCalls \cup {t}) = Cardinality(InCalls) + 1
  BY <1>2, FS_AddElement DEF OInv, SslsInv
<1>4. Cardinality(InCalls) \in Nat /\ Cardinality(InSocks) \in Nat
  BY FS_CardinalityType DEF OInv, SslsInv
<1> QED BY <1>1, <1>2, <1>3, <1>4 DEF OInv, SslsInv

(* The descriptor and the SSL object of a call become those of its socket. *)
LEMMA PublishOwned ==
    ASSUME OInv, NEW t \in Threads, fd[t] # NoFd, NEW b \in BOOLEAN, Publish(t, b)
    PROVE  /\ FdsInv' /\ SslsInv' /\ fd'[t] = NoFd /\ ~ssl'[t]
           /\ fd' \in [Threads -> Fds \cup {NoFd}] /\ ssl' \in [Threads -> BOOLEAN]
           /\ socks' \in [Threads -> SUBSET Socks]
           /\ \A u \in Threads \ {t} : fd'[u] = fd[u] /\ ssl'[u] = ssl[u]
<1> DEFINE new == [fd |-> fd[t], listening |-> b, tls |-> ssl[t]]
<1>1. new \in Socks /\ new.fd = fd[t] /\ new.tls = ssl[t] /\ fd[t] \in Fds
  BY DEF OInv, Types, Socks
<1>2. /\ fd' \in [Threads -> Fds \cup {NoFd}] /\ fd'[t] = NoFd
      /\ ssl' \in [Threads -> BOOLEAN] /\ ~ssl'[t]
      /\ \A u \in Threads \ {t} : fd'[u] = fd[u] /\ ssl'[u] = ssl[u]
      /\ UNCHANGED <<open, ssls>>
  BY DEF Publish, OInv, Types
<1>3. /\ socks' \in [Threads -> SUBSET Socks] /\ socks'[t] = socks[t] \cup {new}
      /\ \A u \in Threads \ {t} : socks'[u] = socks[u]
  BY <1>1 DEF Publish, OInv, Types
<1>4. fd[t] \in Held(t) /\ fd[t] \notin {s.fd : s \in socks[t]}
  BY DEF Held, OInv, FdsInv
<1>5. new \notin socks[t]
  BY <1>1, <1>4
<1> HIDE DEF new
<1>6. \A u \in Threads : Held(u)' = Held(u)
  <2>1. {s.fd : s \in socks'[t]} = {s.fd : s \in socks[t]} \cup {fd[t]}
    BY <1>1, <1>3
  <2>2. Held(t)' = Held(t)
    BY <1>2, <2>1 DEF Held
  <2> QED BY <1>2, <1>3, <2>2 DEF Held
<1>7. FdsInv'
  <2>1. \A s1, s2 \in socks'[t] : s1.fd = s2.fd => s1 = s2
    BY <1>1, <1>3, <1>4 DEF OInv, FdsInv
  <2>2. NoFd \notin {s.fd : s \in socks'[t]}
    BY <1>3, FdsAssumption DEF Socks, NoFd
  <2>3. \A u \in Threads : /\ fd'[u] \notin {s.fd : s \in socks'[u]}
                            /\ \A s1, s2 \in socks'[u] : s1.fd = s2.fd => s1 = s2
    BY <1>2, <1>3, <2>1, <2>2 DEF OInv, FdsInv
  <2> QED BY <1>2, <1>6, <2>3 DEF OInv, FdsInv
<1>8. SslsInv'
  <2>1. InCalls' = InCalls \ {t}
    BY <1>2 DEF InCalls
  <2>2. InSocks' = IF ssl[t] THEN InSocks \cup {<<t, new>>} ELSE InSocks
    BY <1>1, <1>3 DEF InSocks
  <2>3. <<t, new>> \notin InSocks
    BY <1>5 DEF InSocks
  <2>4. /\ IsFiniteSet(InCalls \ {t})
        /\ Cardinality(InCalls \ {t}) = IF ssl[t] THEN Cardinality(InCalls) - 1 ELSE Cardinality(InCalls)
    BY FS_RemoveElement DEF OInv, SslsInv, InCalls
  <2>5. /\ IsFiniteSet(InSocks \cup {<<t, new>>})
        /\ Cardinality(InSocks \cup {<<t, new>>}) = Cardinality(InSocks) + 1
    BY <2>3, FS_AddElement DEF OInv, SslsInv
  <2>6. Cardinality(InCalls) \in Nat /\ Cardinality(InSocks) \in Nat
    BY FS_CardinalityType DEF OInv, SslsInv
  <2>7. CASE ssl[t]
    BY <1>2, <2>1, <2>2, <2>4, <2>5, <2>6, <2>7 DEF OInv, SslsInv
  <2>8. CASE ~ssl[t]
    BY <1>2, <2>1, <2>2, <2>4, <2>6, <2>8 DEF OInv, SslsInv
  <2> QED BY <2>7, <2>8
<1> QED BY <1>2, <1>3, <1>7, <1>8

LEMMA CloseOwned ==
    ASSUME OInv, NEW t \in Threads, CloseSock(t)
    PROVE  /\ FdsInv' /\ SslsInv' /\ open' \subseteq Fds /\ ssls' \in Nat
           /\ socks' \in [Threads -> SUBSET Socks]
<1> PICK s \in socks[t] : /\ socks' = [socks EXCEPT ![t] = @ \ {s}]
                          /\ open' = open \ {s.fd}
                          /\ ssls' = IF s.tls THEN ssls - 1 ELSE ssls
  BY DEF CloseSock
<1>1. UNCHANGED <<fd, ssl>>
  BY DEF CloseSock
<1>2. s \in Socks /\ s.fd \in Fds
  BY DEF OInv, Types, Socks
<1>3. /\ socks' \in [Threads -> SUBSET Socks] /\ socks'[t] = socks[t] \ {s}
      /\ \A u \in Threads \ {t} : socks'[u] = socks[u]
  BY DEF OInv, Types
<1>4. \A r \in socks[t] : r.fd = s.fd => r = s
  BY DEF OInv, FdsInv
<1>5. s.fd \in Held(t) /\ fd[t] # s.fd
  BY DEF Held, OInv, FdsInv
<1>6. Held(t)' = Held(t) \ {s.fd} /\ \A u \in Threads \ {t} : Held(u)' = Held(u)
  <2>1. {r.fd : r \in socks'[t]} = {r.fd : r \in socks[t]} \ {s.fd}
    BY <1>3, <1>4
  <2> QED BY <1>1, <1>3, <1>5, <2>1 DEF Held
<1>7. \A u \in Threads \ {t} : s.fd \notin Held(u)
  BY <1>5 DEF OInv, FdsInv
<1>8. FdsInv'
  <2>1. \A f \in Fds : f \in open' <=> \E u \in Threads : f \in Held(u)'
    BY <1>6, <1>7 DEF OInv, FdsInv
  <2>2. \A u, v \in Threads : u # v => Held(u)' \cap Held(v)' = {}
    BY <1>6 DEF OInv, FdsInv
  <2>3. \A u \in Threads : /\ fd'[u] \notin {r.fd : r \in socks'[u]}
                            /\ \A s1, s2 \in socks'[u] : s1.fd = s2.fd => s1 = s2
    BY <1>1, <1>3 DEF OInv, FdsInv
  <2> QED BY <2>1, <2>2, <2>3 DEF FdsInv
<1>9. SslsInv' /\ ssls' \in Nat
  <2>1. InCalls' = InCalls
    BY <1>1 DEF InCalls
  <2>2. InSocks' = InSocks \ {<<t, s>>}
    BY <1>3 DEF InSocks
  <2>3. <<t, s>> \in InSocks <=> s.tls
    BY <1>2 DEF InSocks
  <2>4. /\ IsFiniteSet(InSocks \ {<<t, s>>})
        /\ Cardinality(InSocks \ {<<t, s>>}) = IF s.tls THEN Cardinality(InSocks) - 1 ELSE Cardinality(InSocks)
    BY <2>3, FS_RemoveElement DEF OInv, SslsInv
  <2>5. /\ Cardinality(InCalls) \in Nat /\ Cardinality(InSocks) \in Nat
        /\ Cardinality(InSocks \ {<<t, s>>}) \in Nat
    BY <2>4, FS_CardinalityType DEF OInv, SslsInv
  <2>6. ssls' = Cardinality(InCalls) + Cardinality(InSocks \ {<<t, s>>})
    BY <2>4, <2>5 DEF OInv, SslsInv
  <2> QED BY <2>1, <2>2, <2>4, <2>5, <2>6 DEF OInv, SslsInv
<1>10. open' \subseteq Fds
  BY DEF OInv, Types
<1> QED BY <1>3, <1>8, <1>9, <1>10

-----------------------------------------------------------------------------
(* The part of a step that moves its thread.                               *)
Moves(t, place, name) ==
    /\ at' \in [Threads -> Places] /\ at'[t] = place
    /\ kind' \in [Threads -> {"none", "connect", "connect_tls", "listen", "accept"}] /\ kind'[t] = name
    /\ \A u \in Threads \ {t} : at'[u] = at[u] /\ kind'[u] = kind[u]
    /\ hasTimeout' \in [Threads -> BOOLEAN] /\ ai' \in [Threads -> 0..Addresses]

LEMMA ReturnMoves ==
    ASSUME OInv, NEW t \in Threads, NEW res, Answer(t, res)
    PROVE  Moves(t, "idle", "none")
BY CountsAssumption DEF OInv, Types, Answer, Moves, Places

LEMMA GotoMoves ==
    ASSUME OInv, NEW t \in Threads, NEW place \in Places, MoveTo(t, place),
           UNCHANGED <<kind, hasTimeout>>, ai' \in [Threads -> 0..Addresses]
    PROVE  Moves(t, place, kind[t])
BY DEF OInv, Types, MoveTo, Moves

LEMMA NextAddressMoves ==
    ASSUME OInv, NEW t \in Threads, NextAddress(t)
    PROVE  Moves(t, "idle", "none") \/ Moves(t, "socket", kind[t])
<1>1. CASE ai[t] < Addresses
  <2>1. ai[t] + 1 \in 0..Addresses
    BY <1>1, CountsAssumption DEF OInv, Types
  <2>2. ai' \in [Threads -> 0..Addresses]
    BY <1>1, <2>1 DEF NextAddress, OInv, Types
  <2>3. MoveTo(t, "socket") /\ UNCHANGED <<kind, hasTimeout>>
    BY <1>1 DEF NextAddress, locals
  <2> QED BY <2>2, <2>3, GotoMoves DEF Places
<1>2. CASE ~(ai[t] < Addresses)
  BY <1>2, ReturnMoves DEF NextAddress
<1> QED BY <1>1, <1>2

(* A step that leaves the context alone keeps the invariant if owners and  *)
(* places agree after it.                                                  *)
LEMMA MoveKeeps ==
    ASSUME OInv, NEW t \in Threads, NEW place \in Places, NEW name, Moves(t, place, name),
           FdsInv', SslsInv', open' \subseteq Fds, ssls' \in Nat,
           socks' \in [Threads -> SUBSET Socks],
           fd' \in [Threads -> Fds \cup {NoFd}], ssl' \in [Threads -> BOOLEAN],
           \A u \in Threads \ {t} : fd'[u] = fd[u] /\ ssl'[u] = ssl[u],
           fd'[t] # NoFd <=> place \in WithFd, ssl'[t] <=> place \in WithSsl,
           UNCHANGED ctx, place # "creating",
           name = "connect_tls" /\ place # "ctx" => ctx = "ready",
           place = "ctx" => name = "connect_tls", place = "idle" <=> name = "none"
    PROVE  OInv'
<1>1. Types'
  BY DEF OInv, Types, Moves
<1>2. LocalsInv'
  BY DEF OInv, LocalsInv, Moves
<1>3. CtxInv'
  BY DEF OInv, CtxInv, Moves
<1> QED BY <1>1, <1>2, <1>3 DEF OInv

LEMMA SetupInitHolds == SetupInit => OInv
<1> SUFFICES ASSUME SetupInit PROVE OInv
  OBVIOUS
<1>1. Types
  BY CountsAssumption DEF SetupInit, Types, Places, NoFd
<1>2. LocalsInv
  BY DEF SetupInit, LocalsInv, WithFd, WithSsl
<1>3. \A t \in Threads : Held(t) = {}
  BY DEF SetupInit, Held
<1>4. FdsInv
  BY <1>3 DEF SetupInit, FdsInv
<1>5. InCalls = {} /\ InSocks = {}
  BY DEF SetupInit, InCalls, InSocks
<1>6. SslsInv
  BY <1>5, FS_EmptySet DEF SetupInit, SslsInv
<1>7. CtxInv
  BY DEF SetupInit, CtxInv
<1> QED BY <1>1, <1>2, <1>4, <1>6, <1>7 DEF OInv

-----------------------------------------------------------------------------
(* The calls of the script.                                                *)
LEMMA CallsKeep == ASSUME OInv, NEW t \in Threads, Calls(t) PROVE OInv'
<1>1. ASSUME NEW name \in {"connect", "connect_tls", "listen"}, NEW place \in {"resolve", "ctx"},
             Begin(t, name), MoveTo(t, place), name = "connect_tls" <=> place = "ctx"
      PROVE  OInv'
  <2>1. UNCHANGED <<open, socks, ssls, ctx, fd, ssl, ai>>
    BY <1>1 DEF Begin
  <2>2. Moves(t, place, name)
    BY <1>1 DEF OInv, Types, Begin, MoveTo, Moves, Places
  <2>3. at[t] = "idle" /\ fd[t] = NoFd /\ ~ssl[t]
    BY <1>1 DEF Begin, OInv, LocalsInv, WithFd, WithSsl
  <2>4. place \in Places /\ place \notin WithFd \cup WithSsl /\ place # "creating" /\ place # "idle"
    BY DEF Places, WithFd, WithSsl
  <2> QED BY <1>1, <2>1, <2>2, <2>3, <2>4, OwnersStay, MoveKeeps DEF OInv, Types
<1>2. CASE Connect(t) \/ ConnectTls(t) \/ Listen(t)
  BY <1>1, <1>2 DEF Connect, ConnectTls, Listen
<1>3. CASE Accept(t)
  <2>1. UNCHANGED <<open, socks, ssls, ctx, fd, ssl, ai>>
    BY <1>3 DEF Accept
  <2>2. Moves(t, "await", "accept")
    BY <1>3 DEF OInv, Types, Accept, MoveTo, Moves, Places
  <2>3. at[t] = "idle" /\ fd[t] = NoFd /\ ~ssl[t]
    BY <1>3 DEF Accept, OInv, LocalsInv, WithFd, WithSsl
  <2>4. "await" \in Places /\ "await" \notin WithFd \cup WithSsl
    BY DEF Places, WithFd, WithSsl
  <2> QED BY <2>1, <2>2, <2>3, <2>4, OwnersStay, MoveKeeps DEF OInv, Types
<1>4. CASE CloseSock(t)
  <2>1. UNCHANGED <<ctx, at, kind, hasTimeout, fd, ssl, ai>>
    BY <1>4 DEF CloseSock, locals
  <2>2. Types' /\ LocalsInv' /\ CtxInv'
    BY <1>4, <2>1, CloseOwned DEF OInv, Types, LocalsInv, CtxInv
  <2> QED BY <1>4, <2>2, CloseOwned DEF OInv
<1> QED BY <1>2, <1>3, <1>4 DEF Calls

-----------------------------------------------------------------------------
(* init_openssl_ctx.                                                       *)
LEMMA EnterOnceKeeps == ASSUME OInv, NEW t \in Threads, EnterOnce(t) PROVE OInv'
<1>1. /\ at[t] = "ctx" /\ ctx = "no" /\ ctx' = "busy" /\ at' = [at EXCEPT ![t] = "creating"]
      /\ UNCHANGED <<open, socks, ssls, kind, hasTimeout, fd, ssl, ai>>
  BY DEF EnterOnce, MoveTo, locals
<1>2. /\ at' \in [Threads -> Places] /\ at'[t] = "creating"
      /\ \A u \in Threads \ {t} : at'[u] = at[u]
  BY <1>1 DEF OInv, Types, Places
<1>3. Types'
  BY <1>1, <1>2 DEF OInv, Types
<1>4. LocalsInv'
  BY <1>1, <1>2 DEF OInv, LocalsInv, WithFd, WithSsl
<1>5. CtxInv'
  BY <1>1, <1>2 DEF OInv, CtxInv
<1> QED BY <1>1, <1>3, <1>4, <1>5, OwnersStay DEF OInv

LEMMA CreateContextKeeps == ASSUME OInv, NEW t \in Threads, CreateContext(t) PROVE OInv'
<1>1. /\ at[t] = "creating" /\ ctx' \in {"ready", "failed"} /\ at' = [at EXCEPT ![t] = "ctx"]
      /\ UNCHANGED <<open, socks, ssls, kind, hasTimeout, fd, ssl, ai>>
  BY DEF CreateContext, MoveTo, locals
<1>2. /\ at' \in [Threads -> Places] /\ at'[t] = "ctx"
      /\ \A u \in Threads \ {t} : at'[u] = at[u]
  BY <1>1 DEF OInv, Types, Places
<1>3. Types'
  BY <1>1, <1>2 DEF OInv, Types
<1>4. LocalsInv'
  BY <1>1, <1>2 DEF OInv, LocalsInv, WithFd, WithSsl
<1>5. CtxInv'
  <2>1. \A u \in Threads : at'[u] # "creating"
    BY <1>1, <1>2 DEF OInv, CtxInv
  <2>2. \A u \in Threads : kind[u] = "connect_tls" => at[u] \in {"ctx", "creating"}
    BY <1>1 DEF OInv, CtxInv
  <2> QED BY <1>1, <1>2, <2>1, <2>2 DEF OInv, CtxInv
<1> QED BY <1>1, <1>3, <1>4, <1>5, OwnersStay DEF OInv

LEMMA ContextKnownKeeps == ASSUME OInv, NEW t \in Threads, ContextKnown(t) PROVE OInv'
<1>1. at[t] = "ctx" /\ UNCHANGED <<open, socks, ssls, ctx, fd, ssl>>
  BY DEF ContextKnown, shared
<1>2. fd[t] = NoFd /\ ~ssl[t] /\ kind[t] = "connect_tls"
  BY <1>1 DEF OInv, LocalsInv, CtxInv, WithFd, WithSsl
<1>3. {"idle", "resolve"} \subseteq Places \ (WithFd \cup WithSsl)
  BY DEF Places, WithFd, WithSsl
<1>4. CASE ctx = "ready" /\ MoveTo(t, "resolve") /\ UNCHANGED <<locals, ai, outcome, clock>>
  <2>1. Moves(t, "resolve", "connect_tls")
    BY <1>2, <1>4, GotoMoves DEF Places, locals, OInv, Types
  <2> QED BY <1>1, <1>2, <1>3, <1>4, <2>1, OwnersStay, MoveKeeps DEF OInv, Types
<1>5. CASE Answer(t, "error")
  <2>1. Moves(t, "idle", "none")
    BY <1>5, ReturnMoves
  <2> QED BY <1>1, <1>2, <1>3, <2>1, OwnersStay, MoveKeeps DEF OInv, Types
<1> QED BY <1>4, <1>5 DEF ContextKnown

-----------------------------------------------------------------------------
(* The addresses.                                                          *)
LEMMA ResolveKeeps == ASSUME OInv, NEW t \in Threads, Resolve(t) PROVE OInv'
<1>1. at[t] = "resolve" /\ UNCHANGED <<open, socks, ssls, ctx, fd, ssl>>
  BY DEF Resolve, shared
<1>2. /\ fd[t] = NoFd /\ ~ssl[t] /\ kind[t] # "none"
      /\ kind[t] = "connect_tls" => ctx = "ready"
  BY <1>1 DEF OInv, LocalsInv, CtxInv, WithFd, WithSsl
<1>3. {"idle", "socket"} \subseteq Places \ (WithFd \cup WithSsl)
  BY DEF Places, WithFd, WithSsl
<1>4. CASE ai' = [ai EXCEPT ![t] = 1] /\ MoveTo(t, "socket") /\ UNCHANGED <<locals, outcome, clock>>
  <2>1. ai' \in [Threads -> 0..Addresses]
    BY <1>4, CountsAssumption DEF OInv, Types
  <2>2. Moves(t, "socket", kind[t])
    BY <1>4, <2>1, GotoMoves DEF Places, locals
  <2> QED BY <1>1, <1>2, <1>3, <2>2, OwnersStay, MoveKeeps DEF OInv, Types
<1>5. CASE Answer(t, "error")
  <2>1. Moves(t, "idle", "none")
    BY <1>5, ReturnMoves
  <2> QED BY <1>1, <1>2, <1>3, <2>1, OwnersStay, MoveKeeps DEF OInv, Types
<1> QED BY <1>4, <1>5 DEF Resolve

LEMMA NewSocketKeeps == ASSUME OInv, NEW t \in Threads, NewSocket(t) PROVE OInv'
<1>1. at[t] = "socket" /\ UNCHANGED <<socks, ssls, ctx, ssl>>
  BY DEF NewSocket, shared
<1>2. /\ fd[t] = NoFd /\ ~ssl[t] /\ kind[t] # "none"
      /\ kind[t] = "connect_tls" => ctx = "ready"
  BY <1>1 DEF OInv, LocalsInv, CtxInv, WithFd, WithSsl
<1>3. CASE /\ NewFd(t)
           /\ MoveTo(t, IF kind[t] = "listen" THEN "setup" ELSE "connect")
           /\ UNCHANGED <<locals, ai, outcome, clock>>
  <2> DEFINE place == IF kind[t] = "listen" THEN "setup" ELSE "connect"
  <2>1. place \in Places /\ place \in WithFd /\ place \notin WithSsl
        /\ place \notin {"creating", "ctx", "idle"}
    BY DEF Places, WithFd, WithSsl
  <2>2. Moves(t, place, kind[t])
    BY <1>3, <2>1, GotoMoves DEF locals, OInv, Types
  <2> HIDE DEF place
  <2>3. /\ FdsInv' /\ SslsInv' /\ fd'[t] # NoFd /\ open' \subseteq Fds
        /\ fd' \in [Threads -> Fds \cup {NoFd}]
        /\ \A u \in Threads \ {t} : fd'[u] = fd[u]
    BY <1>1, <1>2, <1>3, NewFdOwned
  <2> QED BY <1>1, <1>2, <2>1, <2>2, <2>3, MoveKeeps DEF OInv, Types
<1>4. CASE NextAddress(t) /\ UNCHANGED <<open, fd>>
  <2>1. {"idle", "socket"} \subseteq Places \ (WithFd \cup WithSsl)
    BY DEF Places, WithFd, WithSsl
  <2>2. Moves(t, "idle", "none") \/ Moves(t, "socket", kind[t])
    BY <1>4, NextAddressMoves
  <2> QED BY <1>1, <1>2, <1>4, <2>1, <2>2, OwnersStay, MoveKeeps DEF OInv, Types
<1> QED BY <1>3, <1>4 DEF NewSocket

(* What is known of a thread whose call has a descriptor.                  *)
LEMMA WithFdFacts ==
    ASSUME OInv, NEW t \in Threads, at[t] \in WithFd
    PROVE  /\ fd[t] # NoFd /\ kind[t] # "none" /\ (ssl[t] <=> at[t] \in WithSsl)
           /\ kind[t] = "connect_tls" => ctx = "ready"
           /\ "idle" \in Places \ (WithFd \cup WithSsl)
BY DEF OInv, LocalsInv, CtxInv, WithFd, Places, WithSsl

LEMMA AddressFailsKeeps ==
    ASSUME OInv, NEW t \in Threads, at[t] \in WithFd \ WithSsl, AddressFails(t)
    PROVE  OInv'
<1>1. /\ fd[t] # NoFd /\ ~ssl[t] /\ kind[t] # "none"
      /\ kind[t] = "connect_tls" => ctx = "ready"
  BY WithFdFacts
<1>2. CloseFd(t) /\ NextAddress(t) /\ UNCHANGED <<socks, ctx, ssls, ssl>>
  BY DEF AddressFails, shared
<1>3. {"idle", "socket"} \subseteq Places \ (WithFd \cup WithSsl)
  BY DEF Places, WithFd, WithSsl
<1>4. Moves(t, "idle", "none") \/ Moves(t, "socket", kind[t])
  BY <1>2, NextAddressMoves
<1>5. /\ FdsInv' /\ fd'[t] = NoFd /\ open' \subseteq Fds
      /\ fd' \in [Threads -> Fds \cup {NoFd}]
      /\ \A u \in Threads \ {t} : fd'[u] = fd[u]
  BY <1>1, <1>2, FdClosed
<1> QED BY <1>1, <1>2, <1>3, <1>4, <1>5, SslsStay, MoveKeeps DEF OInv, Types

LEMMA PublishKeeps ==
    ASSUME OInv, NEW t \in Threads, at[t] \in WithFd, NEW b \in BOOLEAN, Publish(t, b)
    PROVE  OInv'
<1>1. /\ fd[t] # NoFd /\ "idle" \in Places \ (WithFd \cup WithSsl)
  BY WithFdFacts
<1>2. Answer(t, "ok") /\ UNCHANGED <<open, ssls, ctx>>
  BY DEF Publish
<1>3. Moves(t, "idle", "none")
  BY <1>2, ReturnMoves
<1>4. /\ FdsInv' /\ SslsInv' /\ fd'[t] = NoFd /\ ~ssl'[t]
      /\ fd' \in [Threads -> Fds \cup {NoFd}] /\ ssl' \in [Threads -> BOOLEAN]
      /\ socks' \in [Threads -> SUBSET Socks]
      /\ \A u \in Threads \ {t} : fd'[u] = fd[u] /\ ssl'[u] = ssl[u]
  BY <1>1, PublishOwned
<1> QED BY <1>1, <1>2, <1>3, <1>4, MoveKeeps DEF OInv, Types

LEMMA ConnectedKeeps ==
    ASSUME OInv, NEW t \in Threads, at[t] \in WithFd \ WithSsl, Connected(t)
    PROVE  OInv'
<1>1. CASE kind[t] = "connect_tls"
  <2>1. MoveTo(t, "ssl") /\ UNCHANGED <<open, socks, ctx, ssls, kind, hasTimeout, fd, ssl, ai>>
    BY <1>1 DEF Connected, shared, locals
  <2>2. "ssl" \in Places /\ "ssl" \in WithFd /\ "ssl" \notin WithSsl
    BY DEF Places, WithFd, WithSsl
  <2>3. Moves(t, "ssl", "connect_tls")
    BY <1>1, <2>1, <2>2, GotoMoves DEF OInv, Types
  <2> QED BY <1>1, <2>1, <2>2, <2>3, WithFdFacts, OwnersStay, MoveKeeps DEF OInv, Types
<1>2. CASE kind[t] # "connect_tls"
  BY <1>2, PublishKeeps DEF Connected
<1> QED BY <1>1, <1>2

(* A step that changes the place and the deadline only.                    *)
LEMMA MoveToKeeps ==
    ASSUME OInv, NEW t \in Threads, at[t] \in WithFd, NEW place \in WithFd, MoveTo(t, place),
           place \in WithSsl <=> at[t] \in WithSsl,
           UNCHANGED <<open, socks, ctx, ssls, kind, hasTimeout, fd, ssl, ai>>
    PROVE  OInv'
<1>1. place \in Places /\ place \notin {"creating", "ctx", "idle"}
  BY DEF Places, WithFd
<1>2. Moves(t, place, kind[t])
  BY <1>1, GotoMoves DEF OInv, Types
<1> QED BY <1>1, <1>2, WithFdFacts, OwnersStay, MoveKeeps DEF OInv, Types

LEMMA StartConnectKeeps == ASSUME OInv, NEW t \in Threads, StartConnect(t) PROVE OInv'
<1>1. at[t] \in WithFd \ WithSsl /\ at[t] = "connect"
  BY DEF StartConnect, WithFd, WithSsl
<1>2. CASE Connected(t) \/ AddressFails(t)
  BY <1>1, <1>2, ConnectedKeeps, AddressFailsKeeps
<1>3. CASE MoveTo(t, "poll") /\ UNCHANGED <<open, shared, ssls, locals, fd, ssl, ai, outcome, spent>>
  BY <1>1, <1>3, MoveToKeeps DEF shared, locals, WithFd, WithSsl
<1> QED BY <1>2, <1>3 DEF StartConnect

LEMMA SetupKeeps == ASSUME OInv, NEW t \in Threads, Setup(t) PROVE OInv'
<1>1. at[t] \in WithFd \ WithSsl
  BY DEF Setup, WithFd, WithSsl
<1> QED BY <1>1, PublishKeeps, AddressFailsKeeps DEF Setup

LEMMA ConnectWaitsKeeps == ASSUME OInv, NEW t \in Threads, ConnectWaits(t) PROVE OInv'
<1>1. at[t] \in WithFd \ WithSsl
  BY DEF ConnectWaits, WithFd, WithSsl
<1>2. CASE Connected(t) \/ AddressFails(t)
  BY <1>1, <1>2, ConnectedKeeps, AddressFailsKeeps
<1>3. ASSUME NEW res, CloseFd(t), Answer(t, res), UNCHANGED <<shared, ssls, ssl>>
      PROVE  OInv'
  <2>1. UNCHANGED <<socks, ctx, ssls, ssl>>
    BY <1>3 DEF shared
  <2>2. fd[t] # NoFd /\ ~ssl[t] /\ "idle" \in Places \ (WithFd \cup WithSsl)
    BY <1>1, WithFdFacts
  <2>3. Moves(t, "idle", "none")
    BY <1>3, ReturnMoves
  <2>4. /\ FdsInv' /\ fd'[t] = NoFd /\ open' \subseteq Fds
        /\ fd' \in [Threads -> Fds \cup {NoFd}]
        /\ \A u \in Threads \ {t} : fd'[u] = fd[u]
    BY <1>3, <2>1, <2>2, FdClosed
  <2> QED BY <2>1, <2>2, <2>3, <2>4, SslsStay, MoveKeeps DEF OInv, Types
<1> QED BY <1>2, <1>3 DEF ConnectWaits

-----------------------------------------------------------------------------
(* The TLS object.                                                         *)
LEMMA ReleaseKeeps ==
    ASSUME OInv, NEW t \in Threads, at[t] \in WithFd, NEW res, Release(t), Answer(t, res),
           UNCHANGED <<socks, ctx>>
    PROVE  OInv'
<1>1. fd[t] # NoFd /\ "idle" \in Places \ (WithFd \cup WithSsl)
  BY WithFdFacts
<1>2. Moves(t, "idle", "none")
  BY ReturnMoves
<1>3. /\ FdsInv' /\ SslsInv' /\ fd'[t] = NoFd /\ open' \subseteq Fds
      /\ fd' \in [Threads -> Fds \cup {NoFd}] /\ ssl' \in [Threads -> BOOLEAN]
      /\ ~ssl'[t] /\ ssls' \in Nat
      /\ \A u \in Threads \ {t} : fd'[u] = fd[u] /\ ssl'[u] = ssl[u]
  BY <1>1, ReleaseOwned
<1> QED BY <1>1, <1>2, <1>3, MoveKeeps DEF OInv, Types

LEMMA NewSslKeeps == ASSUME OInv, NEW t \in Threads, NewSsl(t) PROVE OInv'
<1>1. at[t] = "ssl" /\ UNCHANGED <<socks, ctx>> /\ at[t] \in WithFd /\ at[t] \notin WithSsl
  BY DEF NewSsl, shared, WithFd, WithSsl
<1>2. CASE /\ ssl' = [ssl EXCEPT ![t] = TRUE] /\ ssls' = ssls + 1
           /\ MoveTo(t, "options") /\ UNCHANGED <<open, locals, fd, ai, outcome, clock>>
  <2>1. /\ fd[t] # NoFd /\ ~ssl[t] /\ kind[t] # "none"
        /\ kind[t] = "connect_tls" => ctx = "ready"
    BY <1>1, WithFdFacts
  <2>2. "options" \in Places /\ "options" \in WithFd /\ "options" \in WithSsl
    BY DEF Places, WithFd, WithSsl
  <2>3. UNCHANGED <<open, kind, hasTimeout, fd, ai>>
    BY <1>2 DEF locals
  <2>4. Moves(t, "options", kind[t])
    BY <1>2, <2>2, <2>3, GotoMoves DEF OInv, Types
  <2>5. /\ SslsInv' /\ ssl' \in [Threads -> BOOLEAN] /\ ssl'[t] /\ ssls' \in Nat
        /\ \A u \in Threads \ {t} : ssl'[u] = ssl[u]
    BY <1>1, <1>2, <2>1, NewSslOwned
  <2>6. FdsInv'
    BY <1>1, <2>3 DEF OInv, FdsInv, Held
  <2> QED BY <1>1, <2>1, <2>2, <2>3, <2>4, <2>5, <2>6, MoveKeeps DEF OInv, Types
<1>3. CASE Release(t) /\ Answer(t, "error")
  BY <1>1, <1>3, ReleaseKeeps
<1> QED BY <1>2, <1>3 DEF NewSsl

LEMMA ApplyOptionsKeeps == ASSUME OInv, NEW t \in Threads, ApplyOptions(t) PROVE OInv'
<1>1. at[t] = "options" /\ UNCHANGED <<socks, ctx>> /\ at[t] \in WithFd /\ at[t] \in WithSsl
  BY DEF ApplyOptions, shared, WithFd, WithSsl
<1>2. CASE MoveTo(t, "handshake") /\ UNCHANGED <<open, ssls, locals, fd, ssl, ai, outcome, spent>>
  BY <1>1, <1>2, MoveToKeeps DEF locals, WithFd, WithSsl
<1>3. CASE Release(t) /\ Answer(t, "error")
  BY <1>1, <1>3, ReleaseKeeps
<1> QED BY <1>2, <1>3 DEF ApplyOptions

LEMMA FirstHandshakeKeeps == ASSUME OInv, NEW t \in Threads, FirstHandshake(t) PROVE OInv'
<1>1. at[t] \in WithFd
  BY DEF FirstHandshake, WithFd
<1> QED BY <1>1, PublishKeeps, ReleaseKeeps DEF FirstHandshake, shared

-----------------------------------------------------------------------------
(* accept.                                                                 *)
LEMMA AwaitKeeps == ASSUME OInv, NEW t \in Threads, Await(t) PROVE OInv'
<1>1. at[t] = "await" /\ UNCHANGED <<socks, ssls, ctx, ssl>>
  BY DEF Await, shared
<1>2. /\ fd[t] = NoFd /\ ~ssl[t] /\ kind[t] # "none"
      /\ kind[t] = "connect_tls" => ctx = "ready"
  BY <1>1 DEF OInv, LocalsInv, CtxInv, WithFd, WithSsl
<1>3. CASE NewFd(t) /\ MoveTo(t, "accepted") /\ UNCHANGED <<locals, ai, outcome, clock>>
  <2>1. "accepted" \in Places /\ "accepted" \in WithFd /\ "accepted" \notin WithSsl
    BY DEF Places, WithFd, WithSsl
  <2>2. Moves(t, "accepted", kind[t])
    BY <1>3, <2>1, GotoMoves DEF locals, OInv, Types
  <2>3. /\ FdsInv' /\ SslsInv' /\ fd'[t] # NoFd /\ open' \subseteq Fds
        /\ fd' \in [Threads -> Fds \cup {NoFd}]
        /\ \A u \in Threads \ {t} : fd'[u] = fd[u]
    BY <1>1, <1>2, <1>3, NewFdOwned
  <2> QED BY <1>1, <1>2, <2>1, <2>2, <2>3, MoveKeeps DEF OInv, Types
<1>4. ASSUME NEW res, Answer(t, res), UNCHANGED <<open, fd>>
      PROVE  OInv'
  <2>1. "idle" \in Places \ (WithFd \cup WithSsl)
    BY DEF Places, WithFd, WithSsl
  <2>2. Moves(t, "idle", "none")
    BY <1>4, ReturnMoves
  <2> QED BY <1>1, <1>2, <1>4, <2>1, <2>2, OwnersStay, MoveKeeps DEF OInv, Types
<1> QED BY <1>3, <1>4 DEF Await

LEMMA AcceptedKeeps == ASSUME OInv, NEW t \in Threads, Accepted(t) PROVE OInv'
<1>1. at[t] \in WithFd
  BY DEF Accepted, WithFd
<1> QED BY <1>1, PublishKeeps DEF Accepted

LEMMA TickKeeps == ASSUME OInv, UNCHANGED <<open, socks, ssls, ctx, at, kind, hasTimeout, fd, ssl, ai>> PROVE OInv'
<1>1. Types' /\ LocalsInv' /\ CtxInv'
  BY DEF OInv, Types, LocalsInv, CtxInv
<1> QED BY <1>1, OwnersStay DEF OInv

-----------------------------------------------------------------------------
LEMMA SetupStepKeeps == OInv /\ [SetupNext]_setupVars => OInv'
<1> SUFFICES ASSUME OInv, [SetupNext]_setupVars PROVE OInv'
  OBVIOUS
<1>1. ASSUME NEW t \in Threads, Calls(t) PROVE OInv'
  BY <1>1, CallsKeep
<1>2. ASSUME NEW t \in Threads, Steps(t) PROVE OInv'
  BY <1>2, EnterOnceKeeps, CreateContextKeeps, ContextKnownKeeps, ResolveKeeps, NewSocketKeeps,
     StartConnectKeeps, SetupKeeps, NewSslKeeps, ApplyOptionsKeeps, AcceptedKeeps DEF Steps
<1>3. ASSUME NEW t \in Threads, Waits(t) PROVE OInv'
  BY <1>3, ConnectWaitsKeeps, FirstHandshakeKeeps, AwaitKeeps DEF Waits
<1>4. ASSUME NEW t \in Threads, Tick(t) PROVE OInv'
  BY <1>4, TickKeeps DEF Tick, locals, shared
<1>5. CASE UNCHANGED setupVars
  BY <1>5, TickKeeps DEF setupVars
<1> QED BY <1>1, <1>2, <1>3, <1>4, <1>5 DEF SetupNext

(* Who owns each descriptor and each SSL object, and who is creating the   *)
(* TLS context, in every state of any number of threads.                   *)
THEOREM SetupInvariantHolds == SetupSpec => []OInv
BY SetupInitHolds, SetupStepKeeps, PTL DEF SetupSpec

(* The Sock userdata, the locals of connect, listen and accept and the     *)
(* table of descriptors keep their types.                                  *)
THEOREM TypeCorrect == SetupSpec => []SetupTypeOK
<1>1. OInv => SetupTypeOK
  BY DEF OInv, Types, SetupTypeOK, Places
<1> QED BY <1>1, SetupInvariantHolds, PTL

(* On every path of connect, connect_tls, listen, accept and close every   *)
(* descriptor and SSL object has one owner, and no number that was closed  *)
(* is held by anybody.                                                     *)
THEOREM EverythingHasOneOwnerHolds == SetupSpec => []EverythingHasOneOwner
BY OwnersSame, SetupInvariantHolds, PTL

(* No thread gets past init_openssl_ctx before the context is ready.       *)
THEOREM ContextReadyWhenUsedHolds == SetupSpec => []ContextReadyWhenUsed
<1>1. OInv => ContextReadyWhenUsed
  BY DEF OInv, CtxInv, ContextReadyWhenUsed
<1> QED BY <1>1, SetupInvariantHolds, PTL
=============================================================================
