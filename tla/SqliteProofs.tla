---------------------------- MODULE SqliteProofs ----------------------------
(***************************************************************************)
(* Proofs about Sqlite, for any number of connections, of statements and   *)
(* of calls inside one another.                                            *)
(***************************************************************************)
EXTENDS Sqlite, TLAPS

Holders == {"nobody", "call", "iterator", "finalized", "lost"}
CallRecords == [fn : {"exec", "query"}, stmt : Stmts, table : BOOLEAN,
                at : {"check", "bind", "run"}]

(* A statement that SQLite knows belongs to a connection, and no call is   *)
(* in progress once the script has ended.                                  *)
Placed ==
    /\ \A s \in Stmts : Alive(s) => stmt[s].conn \in Conns
    /\ ended => calls = << >>

SInv == TypeOK /\ Placed /\ ConnectionOutlivesItsUsers /\ StatementsAreOwned

-----------------------------------------------------------------------------
(* The sequence of calls.                                                  *)

LEMMA Prefix ==
    ASSUME NEW S, NEW seq \in Seq(S), NEW keep \in 0..Len(seq)
    PROVE  /\ SubSeq(seq, 1, keep) \in Seq(S) /\ Len(SubSeq(seq, 1, keep)) = keep
           /\ \A i \in 1..keep : SubSeq(seq, 1, keep)[i] = seq[i]
OBVIOUS

LEMMA LastCall ==
    ASSUME calls \in Seq(CallRecords), calls # << >>
    PROVE  /\ Call = calls[Len(calls)] /\ Call \in CallRecords
           /\ Len(calls) \in DOMAIN calls
           /\ Outer \in Seq(CallRecords) /\ Len(Outer) = Len(calls) - 1
           /\ \A i \in 1..Len(calls) - 1 : Outer[i] = calls[i]
<1>1. Len(calls) \in Nat /\ Len(calls) # 0 /\ DOMAIN calls = 1..Len(calls)
  OBVIOUS
<1>2. Call = calls[Len(calls)]
  BY DEF Call, Last
<1>3. Outer = SubSeq(calls, 1, Len(calls) - 1)
  BY DEF Outer, Front
<1>4. Call \in CallRecords
  BY <1>1, <1>2
<1>5. Len(calls) - 1 \in 0..Len(calls)
  BY <1>1
<1> QED BY <1>1, <1>2, <1>3, <1>4, <1>5, Prefix

-----------------------------------------------------------------------------
(* What statements do to connections and to calls, whichever step moves    *)
(* them.                                                                   *)

(* The statements of S leave SQLite, which frees the zombies they were the *)
(* last of.                                                                *)
LEMMA StatementsLeave ==
    ASSUME TypeOK, Placed, ConnectionOutlivesItsUsers,
           NEW S, db' = db,
           \A x \in Stmts : /\ stmt'[x].conn = stmt[x].conn
                            /\ Alive(x)' <=> Alive(x) /\ x \notin S,
           lib' = [c \in Conns |-> IF lib[c] = "zombie" /\ AliveOn(c) \subseteq S
                                   THEN "freed" ELSE lib[c]]
    PROVE  /\ ConnectionOutlivesItsUsers'
           /\ lib' \in [Conns -> {"none", "open", "zombie", "freed"}]
           /\ \A s \in Stmts : Alive(s)' => stmt'[s].conn \in Conns
<1>1. lib' \in [Conns -> {"none", "open", "zombie", "freed"}]
  BY DEF TypeOK
<1>2. \A c \in Conns : AliveOn(c)' = AliveOn(c) \ S
  BY DEF AliveOn
<1>3. ASSUME NEW s \in Stmts, Alive(s)'
      PROVE  stmt'[s].conn \in Conns /\ lib'[stmt'[s].conn] \in {"open", "zombie"}
  <2>1. /\ Alive(s) /\ s \notin S /\ stmt'[s].conn = stmt[s].conn
        /\ stmt[s].conn \in Conns /\ lib[stmt[s].conn] \in {"open", "zombie"}
    BY <1>3 DEF Placed, ConnectionOutlivesItsUsers
  <2>2. s \in AliveOn(stmt[s].conn)
    BY <2>1 DEF AliveOn
  <2> QED BY <2>1, <2>2
<1>4. \A c \in Conns : db'[c] = "open" <=> lib'[c] = "open"
  BY DEF ConnectionOutlivesItsUsers
<1>5. ASSUME NEW c \in Conns, lib'[c] = "zombie" PROVE AliveOn(c)' # {}
  BY <1>2, <1>5 DEF ConnectionOutlivesItsUsers
<1> QED BY <1>1, <1>3, <1>4, <1>5 DEF ConnectionOutlivesItsUsers

(* No statement enters or leaves SQLite.                                   *)
LEMMA StatementsStay ==
    ASSUME TypeOK, Placed, ConnectionOutlivesItsUsers, UNCHANGED <<lib, db>>,
           \A x \in Stmts : stmt'[x].conn = stmt[x].conn /\ (Alive(x)' <=> Alive(x))
    PROVE  /\ ConnectionOutlivesItsUsers'
           /\ \A s \in Stmts : Alive(s)' => stmt'[s].conn \in Conns
<1>1. \A c \in Conns : AliveOn(c)' = AliveOn(c)
  BY DEF AliveOn
<1> QED BY <1>1 DEF Placed, ConnectionOutlivesItsUsers

(* All the calls after the first keep are over, and their statements are   *)
(* no longer theirs.                                                       *)
LEMMA CallsLeave ==
    ASSUME TypeOK, StatementsAreOwned,
           NEW keep \in 0..Len(calls),
           calls' \in Seq(CallRecords), Len(calls') = keep,
           \A i \in 1..keep : calls'[i].stmt = calls[i].stmt,
           \A x \in Stmts :
               IF \E i \in keep + 1..Len(calls) : calls[i].stmt = x
               THEN stmt'[x].holder # "call"
               ELSE stmt'[x].holder = "call" <=> stmt[x].holder = "call",
           \A x \in Stmts : stmt'[x].holder = "iterator" => iter'[x] = "live"
    PROVE  StatementsAreOwned'
<1> DEFINE Gone(x) == \E i \in keep + 1..Len(calls) : calls[i].stmt = x
<1>1. DOMAIN calls = 1..Len(calls) /\ DOMAIN calls' = 1..keep /\ Len(calls) \in Nat
  BY DEF TypeOK
<1>2. \A i, j \in 1..keep : calls'[i].stmt = calls'[j].stmt => i = j
  BY <1>1 DEF StatementsAreOwned
<1>3. ASSUME NEW x \in Stmts
      PROVE  stmt'[x].holder = "call" <=> \E i \in DOMAIN calls' : calls'[i].stmt = x
  <2>1. CASE Gone(x)
    <3>1. PICK i \in keep + 1..Len(calls) : calls[i].stmt = x
      BY <2>1
    <3>2. ~ \E j \in 1..keep : calls'[j].stmt = x
      BY <3>1, <1>1 DEF StatementsAreOwned
    <3> QED BY <2>1, <3>2, <1>1
  <2>2. CASE ~Gone(x)
    <3>1. stmt'[x].holder = "call" <=> \E i \in 1..Len(calls) : calls[i].stmt = x
      BY <2>2, <1>1 DEF StatementsAreOwned
    <3>2. (\E i \in 1..Len(calls) : calls[i].stmt = x) <=> \E i \in 1..keep : calls[i].stmt = x
      BY <2>2, <1>1
    <3> QED BY <3>1, <3>2, <1>1
  <2> QED BY <2>1, <2>2
<1> QED BY <1>1, <1>2, <1>3 DEF StatementsAreOwned

-----------------------------------------------------------------------------
(* The initial state and the steps.                                        *)

LEMMA InitHolds == Init => SInv
<1> SUFFICES ASSUME Init PROVE SInv
  OBVIOUS
<1>1. TypeOK
  <2>1. stmt \in [Stmts -> [conn : Nat, holder : Holders]]
    BY DEF Init, Holders
  <2>2. calls \in Seq(CallRecords)
    BY DEF Init
  <2> QED BY <2>1, <2>2 DEF Init, TypeOK, Holders, CallRecords
<1>2. \A s \in Stmts : ~Alive(s)
  BY DEF Init, Alive
<1>3. ConnectionOutlivesItsUsers
  BY <1>2 DEF Init, ConnectionOutlivesItsUsers
<1>4. StatementsAreOwned
  BY DEF Init, StatementsAreOwned
<1> QED BY <1>1, <1>2, <1>3, <1>4 DEF SInv, Placed, Init

(* The statement of the innermost call is finalised and the call returns:  *)
(* Refuse and Run.                                                         *)
LEMMA CallEnds ==
    ASSUME SInv, calls # << >>, Finalize({Call.stmt}), calls' = Outer, UNCHANGED <<db, iter, ended>>
    PROVE  SInv'
<1>1. /\ Call = calls[Len(calls)] /\ Call \in CallRecords /\ Len(calls) \in DOMAIN calls
      /\ Outer \in Seq(CallRecords) /\ Len(Outer) = Len(calls) - 1
      /\ \A i \in 1..Len(calls) - 1 : Outer[i] = calls[i]
  BY LastCall DEF SInv, TypeOK, CallRecords
<1>2. stmt' \in [Stmts -> [conn : Nat, holder : Holders]]
  BY DEF SInv, Finalize, TypeOK, Holders
<1>3. \A x \in Stmts : /\ stmt'[x].conn = stmt[x].conn
                       /\ Alive(x)' <=> Alive(x) /\ x \notin {Call.stmt}
  BY DEF SInv, Finalize, TypeOK, Alive
<1>4. /\ ConnectionOutlivesItsUsers'
      /\ lib' \in [Conns -> {"none", "open", "zombie", "freed"}]
      /\ \A s \in Stmts : Alive(s)' => stmt'[s].conn \in Conns
  BY <1>3, StatementsLeave DEF SInv, Finalize
<1>5. StatementsAreOwned'
  <2>1. Len(calls) \in Nat \ {0} /\ DOMAIN calls = 1..Len(calls)
    BY DEF SInv, TypeOK
  <2>2. Len(calls) - 1 \in 0..Len(calls)
    BY <2>1
  <2>3. ASSUME NEW x \in Stmts
        PROVE  /\ IF \E i \in Len(calls) - 1 + 1..Len(calls) : calls[i].stmt = x
                  THEN stmt'[x].holder # "call"
                  ELSE stmt'[x].holder = "call" <=> stmt[x].holder = "call"
               /\ stmt'[x].holder = "iterator" => iter'[x] = "live"
    <3>1. (\E i \in Len(calls) - 1 + 1..Len(calls) : calls[i].stmt = x) <=> x = Call.stmt
      BY <1>1, <2>1
    <3>2. stmt'[x] = IF x = Call.stmt THEN [stmt[x] EXCEPT !.holder = "finalized"] ELSE stmt[x]
      BY DEF Finalize
    <3>3. stmt[x] \in [conn : Nat, holder : Holders]
      BY DEF SInv, TypeOK, Holders
    <3> QED BY <3>1, <3>2, <3>3 DEF SInv, StatementsAreOwned
  <2> QED BY <1>1, <2>1, <2>2, <2>3, CallsLeave DEF SInv
<1>6. TypeOK'
  BY <1>1, <1>2, <1>4 DEF SInv, TypeOK, Holders, CallRecords
<1>7. Placed'
  BY <1>4, <1>1 DEF SInv, Placed
<1> QED BY <1>4, <1>5, <1>6, <1>7 DEF SInv

(* The innermost call moves on.                                            *)
LEMMA CallMovesOn ==
    ASSUME SInv, calls # << >>, NEW place \in {"check", "bind", "run"}, Advance(place),
           UNCHANGED <<lib, db, stmt, iter, ended>>
    PROVE  SInv'
<1>1. /\ Len(calls) \in DOMAIN calls /\ calls[Len(calls)] \in CallRecords
      /\ Len(calls) \in Nat /\ DOMAIN calls = 1..Len(calls)
  BY LastCall DEF SInv, TypeOK, CallRecords
<1>2. /\ calls' \in Seq(CallRecords) /\ Len(calls') = Len(calls)
      /\ \A i \in 1..Len(calls) : calls'[i].stmt = calls[i].stmt
  <2>1. calls \in Seq(CallRecords)
    BY DEF SInv, TypeOK, CallRecords
  <2>2. calls' = [calls EXCEPT ![Len(calls)] = [calls[Len(calls)] EXCEPT !.at = place]]
    BY DEF Advance
  <2>3. [calls[Len(calls)] EXCEPT !.at = place] \in CallRecords
        /\ [calls[Len(calls)] EXCEPT !.at = place].stmt = calls[Len(calls)].stmt
    BY <1>1 DEF CallRecords
  <2> QED BY <1>1, <2>1, <2>2, <2>3
<1>3. TypeOK'
  BY <1>2 DEF SInv, TypeOK, CallRecords
<1>4. ConnectionOutlivesItsUsers' /\ \A s \in Stmts : Alive(s)' => stmt'[s].conn \in Conns
  BY StatementsStay DEF SInv, Alive
<1>5. StatementsAreOwned'
  <2>1. Len(calls) \in 0..Len(calls) /\ Len(calls) + 1..Len(calls) = {}
    BY <1>1
  <2> QED BY <1>2, <2>1, CallsLeave DEF SInv, StatementsAreOwned
<1>6. Placed'
  BY <1>4, <1>1 DEF SInv, Placed
<1> QED BY <1>3, <1>4, <1>5, <1>6 DEF SInv

LEMMA PublishKeeps == SInv /\ Publish => SInv'
<1> SUFFICES ASSUME SInv, Publish PROVE SInv'
  OBVIOUS
<1>1. /\ calls # << >> /\ UNCHANGED <<lib, db, ended>> /\ calls' = Outer
      /\ stmt' = [stmt EXCEPT ![Call.stmt].holder = "iterator"]
      /\ iter' = [iter EXCEPT ![Call.stmt] = "live"]
  BY DEF Publish, At
<1>2. /\ Call = calls[Len(calls)] /\ Call \in CallRecords /\ Len(calls) \in DOMAIN calls
      /\ Outer \in Seq(CallRecords) /\ Len(Outer) = Len(calls) - 1
      /\ \A i \in 1..Len(calls) - 1 : Outer[i] = calls[i]
  BY <1>1, LastCall DEF SInv, TypeOK, CallRecords
<1>3. Call.stmt \in Stmts /\ stmt[Call.stmt].holder = "call"
  BY <1>2 DEF SInv, StatementsAreOwned, CallRecords
<1>4. /\ stmt' \in [Stmts -> [conn : Nat, holder : Holders]]
      /\ iter' \in [Stmts -> {"none", "live", "collected"}]
  BY <1>1, <1>3 DEF SInv, TypeOK, Holders
<1>5. \A x \in Stmts : /\ stmt'[x].conn = stmt[x].conn
                       /\ stmt'[x].holder = IF x = Call.stmt THEN "iterator" ELSE stmt[x].holder
  BY <1>1, <1>3 DEF SInv, TypeOK
<1>6. \A x \in Stmts : Alive(x)' <=> Alive(x)
  BY <1>3, <1>5 DEF Alive
<1>7. ConnectionOutlivesItsUsers' /\ \A s \in Stmts : Alive(s)' => stmt'[s].conn \in Conns
  BY <1>1, <1>5, <1>6, StatementsStay DEF SInv
<1>8. StatementsAreOwned'
  <2>1. Len(calls) \in Nat \ {0} /\ DOMAIN calls = 1..Len(calls)
    BY <1>1 DEF SInv, TypeOK
  <2>2. Len(calls) - 1 \in 0..Len(calls)
    BY <2>1
  <2>3. ASSUME NEW x \in Stmts
        PROVE  /\ IF \E i \in Len(calls) - 1 + 1..Len(calls) : calls[i].stmt = x
                  THEN stmt'[x].holder # "call"
                  ELSE stmt'[x].holder = "call" <=> stmt[x].holder = "call"
               /\ stmt'[x].holder = "iterator" => iter'[x] = "live"
    <3>1. (\E i \in Len(calls) - 1 + 1..Len(calls) : calls[i].stmt = x) <=> x = Call.stmt
      BY <1>2, <2>1
    <3> QED BY <1>1, <1>5, <3>1 DEF SInv, TypeOK, StatementsAreOwned
  <2> QED BY <1>1, <1>2, <2>1, <2>2, <2>3, CallsLeave DEF SInv
<1>9. TypeOK' /\ Placed'
  BY <1>1, <1>2, <1>4, <1>7 DEF SInv, TypeOK, Placed, Holders, CallRecords
<1> QED BY <1>7, <1>8, <1>9 DEF SInv

(* Calls are left by an error: their statements are lost, or, for the      *)
(* statement of a call or of an iterator that raised it, finalised.        *)
LEMMA ErrorLeaves ==
    ASSUME SInv, NEW keep \in 0..Len(calls), NEW S, UNCHANGED <<db, iter, ended>>,
           calls' = SubSeq(calls, 1, keep),
           \A x \in S : x \in Stmts => Alive(x) /\ (stmt[x].holder = "call" =>
                            \E i \in keep + 1..Len(calls) : calls[i].stmt = x),
           stmt' = [x \in Stmts |->
                       IF x \in S THEN [stmt[x] EXCEPT !.holder = "finalized"]
                       ELSE IF \E i \in keep + 1..Len(calls) : calls[i].stmt = x
                       THEN [stmt[x] EXCEPT !.holder = "lost"] ELSE stmt[x]],
           lib' = [c \in Conns |-> IF lib[c] = "zombie" /\ AliveOn(c) \subseteq S
                                   THEN "freed" ELSE lib[c]]
    PROVE  SInv'
<1>1. /\ calls' \in Seq(CallRecords) /\ Len(calls') = keep
      /\ \A i \in 1..keep : calls'[i] = calls[i]
  <2>1. calls \in Seq(CallRecords)
    BY DEF SInv, TypeOK, CallRecords
  <2> QED BY <2>1, Prefix
<1>2. Len(calls) \in Nat /\ DOMAIN calls = 1..Len(calls)
  BY DEF SInv, TypeOK
<1>3. ASSUME NEW x \in Stmts, \E i \in keep + 1..Len(calls) : calls[i].stmt = x
      PROVE  stmt[x].holder = "call"
  BY <1>2, <1>3 DEF SInv, StatementsAreOwned
<1>4. ASSUME NEW x \in Stmts
      PROVE  /\ stmt'[x] \in [conn : Nat, holder : Holders]
             /\ stmt'[x].conn = stmt[x].conn
             /\ stmt'[x].holder = IF x \in S THEN "finalized"
                                  ELSE IF \E i \in keep + 1..Len(calls) : calls[i].stmt = x
                                  THEN "lost" ELSE stmt[x].holder
  <2>1. stmt[x] \in [conn : Nat, holder : Holders]
    BY DEF SInv, TypeOK, Holders
  <2> QED BY <2>1 DEF Holders
<1>5. \A x \in Stmts : Alive(x)' <=> Alive(x) /\ x \notin S
  BY <1>3, <1>4 DEF Alive
<1>6. /\ ConnectionOutlivesItsUsers'
      /\ lib' \in [Conns -> {"none", "open", "zombie", "freed"}]
      /\ \A s \in Stmts : Alive(s)' => stmt'[s].conn \in Conns
  BY <1>4, <1>5, StatementsLeave DEF SInv
<1>7. StatementsAreOwned'
  <2>1. ASSUME NEW x \in Stmts
        PROVE  /\ IF \E i \in keep + 1..Len(calls) : calls[i].stmt = x
                  THEN stmt'[x].holder # "call"
                  ELSE stmt'[x].holder = "call" <=> stmt[x].holder = "call"
               /\ stmt'[x].holder = "iterator" => iter'[x] = "live"
    <3>1. /\ x \in S /\ stmt[x].holder = "call" =>
                \E i \in keep + 1..Len(calls) : calls[i].stmt = x
          /\ stmt[x].holder = "iterator" => iter'[x] = "live" \/ x \in S
      BY DEF SInv, StatementsAreOwned
    <3> QED BY <1>4, <3>1
  <2> QED BY <1>1, <2>1, CallsLeave DEF SInv
<1>8. stmt' \in [Stmts -> [conn : Nat, holder : Holders]]
  BY <1>4
<1>9. TypeOK'
  BY <1>1, <1>6, <1>8 DEF SInv, TypeOK, Holders, CallRecords
<1>10. Placed'
  <2>1. ended' => calls' = << >>
    BY <1>1, <1>2 DEF SInv, Placed
  <2> QED BY <2>1, <1>6 DEF Placed
<1> QED BY <1>6, <1>7, <1>9, <1>10 DEF SInv

(* An iterator finalises the statements of S, one or none, at its end or   *)
(* when it is collected.                                                   *)
LEMMA IteratorLeaves ==
    ASSUME SInv, NEW S, UNCHANGED <<db, calls, ended>>, Finalize(S),
           \A x \in S : x \in Stmts => stmt[x].holder = "iterator",
           iter' \in [Stmts -> {"none", "live", "collected"}],
           \A x \in Stmts : x \in S \/ iter'[x] = iter[x] \/ stmt[x].holder # "iterator"
    PROVE  SInv'
<1>1. stmt' \in [Stmts -> [conn : Nat, holder : Holders]]
  <2>1. \A x \in Stmts : stmt[x] \in [conn : Nat, holder : Holders]
    BY DEF SInv, TypeOK, Holders
  <2>2. \A x \in Stmts : [stmt[x] EXCEPT !.holder = "finalized"] \in [conn : Nat, holder : Holders]
    BY <2>1 DEF Holders
  <2> QED BY <2>1, <2>2 DEF Finalize
<1>2. \A x \in Stmts : /\ stmt'[x].conn = stmt[x].conn
                       /\ stmt'[x].holder = IF x \in S THEN "finalized" ELSE stmt[x].holder
  BY DEF SInv, Finalize, TypeOK
<1>3. \A x \in Stmts : Alive(x)' <=> Alive(x) /\ x \notin S
  BY <1>2 DEF Alive
<1>4. /\ ConnectionOutlivesItsUsers'
      /\ lib' \in [Conns -> {"none", "open", "zombie", "freed"}]
      /\ \A s \in Stmts : Alive(s)' => stmt'[s].conn \in Conns
  BY <1>2, <1>3, StatementsLeave DEF SInv, Finalize
<1>5. StatementsAreOwned'
  BY <1>2 DEF SInv, StatementsAreOwned
<1>6. TypeOK' /\ Placed'
  BY <1>1, <1>4 DEF SInv, TypeOK, Placed, Holders
<1> QED BY <1>4, <1>5, <1>6 DEF SInv

-----------------------------------------------------------------------------
(* Connections.                                                            *)

(* The handles of connections change, statements do not.                   *)
LEMMA HandlesMove ==
    ASSUME SInv, UNCHANGED <<stmt, iter, calls, ended>>,
           lib' \in [Conns -> {"none", "open", "zombie", "freed"}],
           db' \in [Conns -> {"none", "open", "closed", "collected"}],
           \A c \in Conns : /\ db'[c] = "open" <=> lib'[c] = "open"
                            /\ lib'[c] = "zombie" => AliveOn(c) # {}
                            /\ AliveOn(c) # {} => lib'[c] \in {"open", "zombie"}
    PROVE  SInv'
<1>1. /\ \A s \in Stmts : Alive(s)' <=> Alive(s)
      /\ \A c \in Conns : AliveOn(c)' = AliveOn(c)
  BY DEF Alive, AliveOn
<1>2. ASSUME NEW s \in Stmts, Alive(s)
      PROVE  stmt[s].conn \in Conns /\ lib'[stmt[s].conn] \in {"open", "zombie"}
  <2>1. stmt[s].conn \in Conns /\ s \in AliveOn(stmt[s].conn)
    BY <1>2 DEF SInv, Placed, AliveOn
  <2> QED BY <2>1
<1>3. ConnectionOutlivesItsUsers'
  BY <1>1, <1>2 DEF ConnectionOutlivesItsUsers
<1>4. TypeOK' /\ Placed' /\ StatementsAreOwned'
  BY <1>1, <1>2 DEF SInv, TypeOK, Placed, StatementsAreOwned
<1> QED BY <1>3, <1>4 DEF SInv

(* A connection in use by a statement is open or a zombie.                 *)
LEMMA UsedIsHeld ==
    ASSUME SInv, NEW c \in Conns, AliveOn(c) # {}
    PROVE  lib[c] \in {"open", "zombie"}
BY DEF SInv, AliveOn, ConnectionOutlivesItsUsers

LEMMA OpenKeeps ==
    ASSUME SInv, NEW c \in Conns, Open(c)
    PROVE  SInv'
<1>1. AliveOn(c) = {}
  BY UsedIsHeld DEF Open
<1>2. db[c] # "open"
  BY DEF SInv, ConnectionOutlivesItsUsers, Open
<1>3. /\ lib' \in [Conns -> {"none", "open", "zombie", "freed"}]
      /\ db' \in [Conns -> {"none", "open", "closed", "collected"}]
  BY DEF SInv, TypeOK, Open
<1>4. ASSUME NEW b \in Conns
      PROVE  /\ db'[b] = "open" <=> lib'[b] = "open"
             /\ lib'[b] = "zombie" => AliveOn(b) # {}
             /\ AliveOn(b) # {} => lib'[b] \in {"open", "zombie"}
  <2>1. /\ db[b] = "open" <=> lib[b] = "open"
        /\ lib[b] = "zombie" => AliveOn(b) # {}
        /\ AliveOn(b) # {} => lib[b] \in {"open", "zombie"}
    BY UsedIsHeld DEF SInv, ConnectionOutlivesItsUsers
  <2>2. CASE b = c
    <3>1. \/ lib'[c] = "open" /\ db'[c] = "open"
          \/ lib'[c] = "freed" /\ db'[c] = db[c]
      BY DEF SInv, TypeOK, Open
    <3> QED BY <1>1, <1>2, <2>2, <3>1
  <2>3. CASE b # c
    <3>1. lib'[b] = lib[b] /\ db'[b] = db[b]
      BY <2>3 DEF SInv, TypeOK, Open
    <3> QED BY <2>1, <3>1
  <2> QED BY <2>2, <2>3
<1> QED BY <1>3, <1>4, HandlesMove DEF Open

(* The handle goes to sqlite3_close_v2: Close, and CollectDb of an open Db. *)
LEMMA CloseV2Keeps ==
    ASSUME SInv, NEW c \in Conns, db[c] = "open", CloseV2(c),
           NEW after \in {"closed", "collected"}, db' = [db EXCEPT ![c] = after],
           UNCHANGED <<stmt, iter, calls, ended>>
    PROVE  SInv'
<1>1. /\ lib' \in [Conns -> {"none", "open", "zombie", "freed"}]
      /\ db' \in [Conns -> {"none", "open", "closed", "collected"}]
  BY DEF SInv, TypeOK, CloseV2
<1>2. ASSUME NEW b \in Conns
      PROVE  /\ db'[b] = "open" <=> lib'[b] = "open"
             /\ lib'[b] = "zombie" => AliveOn(b) # {}
             /\ AliveOn(b) # {} => lib'[b] \in {"open", "zombie"}
  BY UsedIsHeld DEF SInv, TypeOK, ConnectionOutlivesItsUsers, CloseV2
<1> QED BY <1>1, <1>2, HandlesMove

LEMMA CollectDbKeeps ==
    ASSUME SInv, NEW c \in Conns, CollectDb(c)
    PROVE  SInv'
<1>1. CASE db[c] = "open"
  BY <1>1, CloseV2Keeps DEF CollectDb
<1>2. CASE db[c] = "closed"
  <2>1. db' = [db EXCEPT ![c] = "collected"] /\ UNCHANGED <<lib, stmt, iter, calls, ended>>
    BY <1>2 DEF CollectDb
  <2>2. ASSUME NEW b \in Conns
        PROVE  /\ db'[b] = "open" <=> lib'[b] = "open"
               /\ lib'[b] = "zombie" => AliveOn(b) # {}
               /\ AliveOn(b) # {} => lib'[b] \in {"open", "zombie"}
    BY <1>2, <2>1, UsedIsHeld DEF SInv, TypeOK, ConnectionOutlivesItsUsers
  <2> QED BY <2>1, <2>2, HandlesMove DEF SInv, TypeOK
<1> QED BY <1>1, <1>2 DEF CollectDb

LEMMA PrepareKeeps ==
    ASSUME SInv, NEW c \in Conns, NEW s \in Stmts, NEW fn \in {"exec", "query"},
           NEW table \in BOOLEAN, Prepare(c, s, fn, table)
    PROVE  SInv'
<1>1. /\ db[c] = "open" /\ stmt[s].holder = "nobody"
      /\ stmt' = [stmt EXCEPT ![s] = [conn |-> c, holder |-> "call"]]
      /\ calls' = Append(calls, [fn |-> fn, stmt |-> s, table |-> table, at |-> "check"])
      /\ UNCHANGED <<lib, db, iter, ended>> /\ ~ended
  BY DEF Prepare, ScriptRuns
<1>2. Len(calls) \in Nat /\ DOMAIN calls = 1..Len(calls) /\ calls \in Seq(CallRecords)
  BY DEF SInv, TypeOK, CallRecords
<1>3. /\ calls' \in Seq(CallRecords) /\ DOMAIN calls' = 1..Len(calls) + 1
      /\ \A i \in 1..Len(calls) : calls'[i] = calls[i]
      /\ calls'[Len(calls) + 1].stmt = s
  <2>1. [fn |-> fn, stmt |-> s, table |-> table, at |-> "check"] \in CallRecords
    BY DEF CallRecords
  <2> QED BY <1>1, <1>2, <2>1
<1>4. c \in Nat
  BY DEF Conns
<1>5. stmt' \in [Stmts -> [conn : Nat, holder : Holders]]
  BY <1>1, <1>4 DEF SInv, TypeOK, Holders
<1>6. stmt'[s] = [conn |-> c, holder |-> "call"] /\ \A x \in Stmts \ {s} : stmt'[x] = stmt[x]
  BY <1>1 DEF SInv, TypeOK
<1>7. \A x \in Stmts : Alive(x)' <=> Alive(x) \/ x = s
  BY <1>6 DEF Alive
<1>8. \A b \in Conns : AliveOn(b) \subseteq AliveOn(b)'
  BY <1>1, <1>6, <1>7 DEF AliveOn, Alive
<1>9. ConnectionOutlivesItsUsers' /\ \A x \in Stmts : Alive(x)' => stmt'[x].conn \in Conns
  BY <1>1, <1>6, <1>7, <1>8 DEF SInv, Placed, ConnectionOutlivesItsUsers
<1>10. \A i \in 1..Len(calls) : calls[i].stmt # s
  BY <1>1, <1>2 DEF SInv, StatementsAreOwned
<1>11. StatementsAreOwned'
  <2>1. ASSUME NEW x \in Stmts
        PROVE  /\ stmt'[x].holder = "call" <=> \E i \in DOMAIN calls' : calls'[i].stmt = x
               /\ stmt'[x].holder = "iterator" => iter'[x] = "live"
    BY <1>1, <1>2, <1>3, <1>6, <1>10 DEF SInv, StatementsAreOwned
  <2>2. \A i, j \in DOMAIN calls' : calls'[i].stmt = calls'[j].stmt => i = j
    BY <1>2, <1>3, <1>10 DEF SInv, StatementsAreOwned
  <2> QED BY <2>1, <2>2 DEF StatementsAreOwned
<1>12. TypeOK' /\ Placed'
  BY <1>1, <1>3, <1>5, <1>9 DEF SInv, TypeOK, Placed, Holders, CallRecords
<1> QED BY <1>9, <1>11, <1>12 DEF SInv

-----------------------------------------------------------------------------
(* Errors.                                                                 *)

LEMMA MetamethodRaisesKeeps == SInv /\ MetamethodRaises => SInv'
<1> SUFFICES ASSUME SInv, MetamethodRaises PROVE SInv'
  OBVIOUS
<1>1. UNCHANGED <<lib, db, iter, ended>>
  BY DEF MetamethodRaises
<1>2. PICK keep \in 0..Len(calls) :
        /\ calls' = SubSeq(calls, 1, keep)
        /\ stmt' = [s \in Stmts |->
                       IF \E i \in keep + 1..Len(calls) : calls[i].stmt = s
                       THEN [stmt[s] EXCEPT !.holder = "lost"] ELSE stmt[s]]
  BY DEF MetamethodRaises, Unwound
<1>3. \A c \in Conns : lib[c] = "zombie" => ~(AliveOn(c) \subseteq {})
  BY DEF SInv, ConnectionOutlivesItsUsers
<1>4. lib' = [c \in Conns |-> IF lib[c] = "zombie" /\ AliveOn(c) \subseteq {}
                              THEN "freed" ELSE lib[c]]
  BY <1>1, <1>3 DEF SInv, TypeOK
<1>5. stmt' = [x \in Stmts |->
                  IF x \in {} THEN [stmt[x] EXCEPT !.holder = "finalized"]
                  ELSE IF \E i \in keep + 1..Len(calls) : calls[i].stmt = x
                  THEN [stmt[x] EXCEPT !.holder = "lost"] ELSE stmt[x]]
  BY <1>2
<1>6. \A x \in {} : x \in Stmts => Alive(x) /\ (stmt[x].holder = "call" =>
                           \E i \in keep + 1..Len(calls) : calls[i].stmt = x)
  OBVIOUS
<1> DEFINE S == {}
<1>7. /\ lib' = [c \in Conns |-> IF lib[c] = "zombie" /\ AliveOn(c) \subseteq S
                                 THEN "freed" ELSE lib[c]]
      /\ stmt' = [x \in Stmts |->
                     IF x \in S THEN [stmt[x] EXCEPT !.holder = "finalized"]
                     ELSE IF \E i \in keep + 1..Len(calls) : calls[i].stmt = x
                     THEN [stmt[x] EXCEPT !.holder = "lost"] ELSE stmt[x]]
      /\ \A x \in S : x \in Stmts => Alive(x) /\ (stmt[x].holder = "call" =>
                         \E i \in keep + 1..Len(calls) : calls[i].stmt = x)
  BY <1>4, <1>5, <1>6
<1> HIDE DEF S
<1> QED BY <1>1, <1>2, <1>7, ErrorLeaves

(* The statements of the calls after the first keep.                       *)
LEMMA GoneStatements ==
    ASSUME NEW seq, NEW keep, NEW x
    PROVE  x \in {seq[i].stmt : i \in keep + 1..Len(seq)}
              <=> \E i \in keep + 1..Len(seq) : seq[i].stmt = x
OBVIOUS

LEMMA IterationFailsKeeps ==
    ASSUME SInv, NEW s \in Stmts, IterationFails(s)
    PROVE  SInv'
<1>1. UNCHANGED <<db, iter, ended>> /\ stmt[s].holder = "iterator"
  BY DEF IterationFails
<1>2. PICK keep \in 0..Len(calls) :
        /\ calls' = SubSeq(calls, 1, keep)
        /\ stmt' = [x \in Stmts |->
                       CASE x = s -> [stmt[x] EXCEPT !.holder = "finalized"]
                         [] x \in {calls[i].stmt : i \in keep + 1..Len(calls)} ->
                               [stmt[x] EXCEPT !.holder = "lost"]
                         [] OTHER -> stmt[x]]
        /\ lib' = [c \in Conns |-> IF lib[c] = "zombie" /\ AliveOn(c) \subseteq {s}
                                   THEN "freed" ELSE lib[c]]
  BY DEF IterationFails, FinalizeAndRaise
<1>3. ASSUME NEW i \in keep + 1..Len(calls) PROVE calls[i].stmt # s
  BY <1>1 DEF SInv, TypeOK, StatementsAreOwned
<1>4. stmt' = [x \in Stmts |->
                  IF x \in {s} THEN [stmt[x] EXCEPT !.holder = "finalized"]
                  ELSE IF \E i \in keep + 1..Len(calls) : calls[i].stmt = x
                  THEN [stmt[x] EXCEPT !.holder = "lost"] ELSE stmt[x]]
  BY <1>2, <1>3, GoneStatements
<1>5. \A x \in {s} : x \in Stmts => Alive(x) /\ (stmt[x].holder = "call" =>
                            \E i \in keep + 1..Len(calls) : calls[i].stmt = x)
  BY <1>1 DEF Alive
<1> QED BY <1>1, <1>2, <1>4, <1>5, ErrorLeaves

LEMMA BindFailsKeeps == SInv /\ BindFails => SInv'
<1> SUFFICES ASSUME SInv, BindFails PROVE SInv'
  OBVIOUS
<1> DEFINE s == Call.stmt
<1>1. UNCHANGED <<db, iter, ended>> /\ calls # << >>
  BY DEF BindFails, At
<1>2. /\ Call = calls[Len(calls)] /\ Call \in CallRecords /\ Len(calls) \in DOMAIN calls
      /\ Outer \in Seq(CallRecords) /\ Len(Outer) = Len(calls) - 1
      /\ \A i \in 1..Len(calls) - 1 : Outer[i] = calls[i]
      /\ Len(calls) \in Nat \ {0} /\ DOMAIN calls = 1..Len(calls)
  BY <1>1, LastCall DEF SInv, TypeOK, CallRecords
<1>3. s \in Stmts /\ stmt[s].holder = "call"
  BY <1>2 DEF SInv, StatementsAreOwned, CallRecords
<1>4. PICK keep \in 0..Len(Outer) :
        /\ calls' = SubSeq(Outer, 1, keep)
        /\ stmt' = [x \in Stmts |->
                       CASE x = s -> [stmt[x] EXCEPT !.holder = "finalized"]
                         [] x \in {Outer[i].stmt : i \in keep + 1..Len(Outer)} ->
                               [stmt[x] EXCEPT !.holder = "lost"]
                         [] OTHER -> stmt[x]]
        /\ lib' = [c \in Conns |-> IF lib[c] = "zombie" /\ AliveOn(c) \subseteq {s}
                                   THEN "freed" ELSE lib[c]]
  BY DEF BindFails, FinalizeAndRaise
<1>5. keep \in 0..Len(calls) /\ keep <= Len(calls) - 1
  BY <1>2
<1>6. calls' = SubSeq(calls, 1, keep)
  <2>1. Outer = SubSeq(calls, 1, Len(calls) - 1)
    BY DEF Outer, Front
  <2>2. calls \in Seq(CallRecords)
    BY DEF SInv, TypeOK, CallRecords
  <2> QED BY <1>2, <1>4, <1>5, <2>1, <2>2
<1>7. ASSUME NEW x \in Stmts, x # s
      PROVE  x \in {Outer[i].stmt : i \in keep + 1..Len(Outer)}
                <=> \E i \in keep + 1..Len(calls) : calls[i].stmt = x
  <2>1. \A i \in keep + 1..Len(calls) : i = Len(calls) \/ i \in keep + 1..Len(Outer)
    BY <1>2
  <2>2. \A i \in keep + 1..Len(Outer) : i \in keep + 1..Len(calls) /\ Outer[i] = calls[i]
    BY <1>2
  <2>3. ASSUME NEW i \in keep + 1..Len(calls), calls[i].stmt = x
        PROVE  x \in {Outer[j].stmt : j \in keep + 1..Len(Outer)}
    <3>1. i # Len(calls)
      BY <1>2, <1>7, <2>3
    <3> QED BY <2>1, <2>2, <2>3, <3>1
  <2>4. ASSUME NEW i \in keep + 1..Len(Outer), Outer[i].stmt = x
        PROVE  \E j \in keep + 1..Len(calls) : calls[j].stmt = x
    BY <2>2, <2>4
  <2> QED BY <2>3, <2>4
<1>8. stmt' = [x \in Stmts |->
                  IF x \in {s} THEN [stmt[x] EXCEPT !.holder = "finalized"]
                  ELSE IF \E i \in keep + 1..Len(calls) : calls[i].stmt = x
                  THEN [stmt[x] EXCEPT !.holder = "lost"] ELSE stmt[x]]
  <2>0. s \notin {Outer[i].stmt : i \in keep + 1..Len(Outer)}
    <3>1. \A i \in 1..Len(Outer) : Outer[i].stmt # s
      <4>1. \A i \in 1..Len(calls) - 1 : calls[i].stmt # calls[Len(calls)].stmt
        BY <1>2 DEF SInv, StatementsAreOwned
      <4> QED BY <1>2, <4>1
    <3>2. keep + 1..Len(Outer) \subseteq 1..Len(Outer)
      BY <1>2, <1>5
    <3> QED BY <3>1, <3>2
  <2> HIDE DEF s
  <2>1. \A x \in Stmts :
          (CASE x = s -> [stmt[x] EXCEPT !.holder = "finalized"]
             [] x \in {Outer[i].stmt : i \in keep + 1..Len(Outer)} ->
                   [stmt[x] EXCEPT !.holder = "lost"]
             [] OTHER -> stmt[x])
          = IF x \in {s} THEN [stmt[x] EXCEPT !.holder = "finalized"]
            ELSE IF \E i \in keep + 1..Len(calls) : calls[i].stmt = x
            THEN [stmt[x] EXCEPT !.holder = "lost"] ELSE stmt[x]
    BY <1>7, <2>0
  <2> QED BY <1>4, <2>1, Zenon
<1>9. \A x \in {s} : x \in Stmts => Alive(x) /\ (stmt[x].holder = "call" =>
                            \E i \in keep + 1..Len(calls) : calls[i].stmt = x)
  <2>1. Len(calls) \in keep + 1..Len(calls)
    BY <1>2, <1>5
  <2> QED BY <1>2, <1>3, <2>1 DEF Alive
<1> QED BY <1>1, <1>4, <1>5, <1>6, <1>8, <1>9, ErrorLeaves

-----------------------------------------------------------------------------
(* Iterators.                                                              *)

LEMMA IterationEndsKeeps ==
    ASSUME SInv, NEW s \in Stmts, IterationEnds(s)
    PROVE  SInv'
<1>1. iter' \in [Stmts -> {"none", "live", "collected"}]
  BY DEF SInv, TypeOK, IterationEnds
<1> QED BY <1>1, IteratorLeaves DEF IterationEnds

LEMMA CollectIteratorKeeps ==
    ASSUME SInv, NEW s \in Stmts, CollectIterator(s)
    PROVE  SInv'
<1> DEFINE S == IF stmt[s].holder = "iterator" THEN {s} ELSE {}
<1>1. Finalize(S) /\ iter' = [iter EXCEPT ![s] = "collected"] /\ UNCHANGED <<db, calls, ended>>
  BY DEF CollectIterator
<1>2. iter' \in [Stmts -> {"none", "live", "collected"}]
  BY <1>1 DEF SInv, TypeOK
<1>3. \A x \in S : x \in Stmts => stmt[x].holder = "iterator"
  OBVIOUS
<1>4. \A x \in Stmts : x \in S \/ iter'[x] = iter[x] \/ stmt[x].holder # "iterator"
  BY <1>1 DEF SInv, TypeOK
<1> HIDE DEF S
<1> QED BY <1>1, <1>2, <1>3, <1>4, IteratorLeaves

-----------------------------------------------------------------------------
(* One step, and the specification.                                        *)

LEMMA StepKeeps == SInv /\ [Next]_vars => SInv'
<1> SUFFICES ASSUME SInv, [Next]_vars PROVE SInv'
  OBVIOUS
<1>1. ASSUME NEW c \in Conns, Open(c) PROVE SInv'
  BY <1>1, OpenKeeps
<1>2. ASSUME NEW c \in Conns, Close(c) PROVE SInv'
  BY <1>2, CloseV2Keeps DEF Close
<1>3. ASSUME NEW c \in Conns, CollectDb(c) PROVE SInv'
  BY <1>3, CollectDbKeeps
<1>4. ASSUME NEW c \in Conns, NEW s \in Stmts, NEW fn \in {"exec", "query"},
             NEW table \in BOOLEAN, Prepare(c, s, fn, table)
      PROVE  SInv'
  BY <1>4, PrepareKeeps
<1>5. CASE Refuse
  BY <1>5, CallEnds DEF Refuse, At
<1>6. CASE Accept
  <2>1. (IF Call.table THEN "bind" ELSE "run") \in {"check", "bind", "run"}
    OBVIOUS
  <2> QED BY <1>6, <2>1, CallMovesOn DEF Accept, At
<1>7. CASE Bound
  BY <1>7, CallMovesOn DEF Bound, At
<1>8. CASE BindFails
  BY <1>8, BindFailsKeeps
<1>9. CASE MetamethodRaises
  BY <1>9, MetamethodRaisesKeeps
<1>10. CASE Run
  BY <1>10, CallEnds DEF Run, At
<1>11. CASE Publish
  BY <1>11, PublishKeeps
<1>12. ASSUME NEW s \in Stmts, IterationEnds(s) PROVE SInv'
  BY <1>12, IterationEndsKeeps
<1>13. ASSUME NEW s \in Stmts, IterationFails(s) PROVE SInv'
  BY <1>13, IterationFailsKeeps
<1>14. ASSUME NEW s \in Stmts, CollectIterator(s) PROVE SInv'
  BY <1>14, CollectIteratorKeeps
<1>15. CASE ScriptEnds
  <2>1. UNCHANGED <<lib, db, stmt, iter, calls>> /\ calls = << >> /\ ended' = TRUE
    BY <1>15 DEF ScriptEnds
  <2>2. (\A s \in Stmts : Alive(s)' <=> Alive(s)) /\ \A c \in Conns : AliveOn(c)' = AliveOn(c)
    BY <2>1 DEF Alive, AliveOn
  <2> QED BY <2>1, <2>2 DEF SInv, TypeOK, Placed, ConnectionOutlivesItsUsers, StatementsAreOwned
<1>16. CASE UNCHANGED vars
  <2>1. (\A s \in Stmts : Alive(s)' <=> Alive(s)) /\ \A c \in Conns : AliveOn(c)' = AliveOn(c)
    BY <1>16 DEF vars, Alive, AliveOn
  <2> QED BY <1>16, <2>1 DEF vars, SInv, TypeOK, Placed, ConnectionOutlivesItsUsers, StatementsAreOwned
<1> QED
  BY <1>1, <1>2, <1>3, <1>4, <1>5, <1>6, <1>7, <1>8, <1>9, <1>10, <1>11, <1>12, <1>13,
     <1>14, <1>15, <1>16 DEF Next, Over

(* The types, the place of every statement, the life of every connection   *)
(* and the owner of every statement, in every state babet.sqlite can be    *)
(* in: the four parts need one another.                                    *)
THEOREM InvariantHolds == Spec => []SInv
BY InitHolds, StepKeeps, PTL DEF Spec

(* No Db and no statement of exec, query or an iterator ever uses a        *)
(* connection that sqlite3_close_v2 or the last finalize has freed.        *)
THEOREM ConnectionOutlivesItsUsersHolds == Spec => []ConnectionOutlivesItsUsers
BY InvariantHolds, PTL DEF SInv

(* Every statement that exec and query prepare has one owner who will      *)
(* finalise it, or was lost to an error of the script's own metamethods.   *)
THEOREM StatementsAreOwnedHolds == Spec => []StatementsAreOwned
BY InvariantHolds, PTL DEF SInv

(* After lua_close only a lost statement can hold a connection.            *)
THEOREM NothingIsLeftOpenHolds == Spec => []NothingIsLeftOpen
<1>1. SInv => NothingIsLeftOpen
  <2> SUFFICES ASSUME SInv, ended, AllCollected, NEW c \in Conns,
                      lib[c] \notin {"none", "freed"}
               PROVE  \E s \in AliveOn(c) : stmt[s].holder = "lost"
    BY DEF NothingIsLeftOpen
  <2>1. lib[c] = "zombie"
    BY DEF SInv, TypeOK, ConnectionOutlivesItsUsers, AllCollected
  <2>2. PICK s \in AliveOn(c) : TRUE
    BY <2>1 DEF SInv, ConnectionOutlivesItsUsers
  <2>3. s \in Stmts /\ stmt[s].holder \in {"call", "iterator", "lost"}
    BY <2>2 DEF AliveOn, Alive
  <2>4. stmt[s].holder # "call"
    BY <2>3 DEF SInv, Placed, StatementsAreOwned
  <2>5. stmt[s].holder # "iterator"
    BY <2>3 DEF SInv, StatementsAreOwned, AllCollected
  <2> QED BY <2>2, <2>3, <2>4, <2>5
<1> QED BY <1>1, InvariantHolds, PTL
=============================================================================
