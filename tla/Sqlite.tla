------------------------------- MODULE Sqlite -------------------------------
(***************************************************************************)
(* The lives of the connections, statements and iterators of babet.sqlite  *)
(* (src/src/lua_bindings/sqlite.cpp), in one Lua state.  SQLite is         *)
(* external: sqlite3_close_v2 keeps a connection alive, as a zombie, until *)
(* its last statement is finalised.                                        *)
(*                                                                         *)
(* A table of parameters may have a metatable: reading it then runs Lua    *)
(* code in the middle of db:exec or db:query, which may close the          *)
(* connection, start other calls, or raise an error that jumps over the    *)
(* C++ code without running it (Lua is compiled as C).                     *)
(***************************************************************************)
EXTENDS Naturals, Sequences, SequencesExt

CONSTANTS
    MaxConns,  \* bound: connections opened
    MaxStmts,  \* bound: statements prepared by exec with parameters and query
    MaxDepth   \* bound: calls inside one another

ASSUME BoundsAssumption == {MaxConns, MaxStmts, MaxDepth} \subseteq Nat

Conns == 1..MaxConns
Stmts == 1..MaxStmts

VARIABLES
    lib,     \* lib[c]: sqlite3 handle: "none", "open", "zombie", "freed"
    db,      \* db[c]: its Db userdata: "none", "open", "closed", "collected"
    stmt,    \* stmt[s]: sqlite3_stmt: its connection, and who will finalise it: "nobody"
             \* (not prepared), a "call", an "iterator"; else "finalized" or "lost"
    iter,    \* iter[s]: its Stmt userdata: "none", "live", "collected"
    calls,   \* exec and query in progress, the innermost last
    ended    \* the script ended: lua_close collects everything

vars == <<lib, db, stmt, iter, calls, ended>>

Init ==
    /\ lib = [c \in Conns |-> "none"] /\ db = [c \in Conns |-> "none"]
    /\ stmt = [s \in Stmts |-> [conn |-> 1, holder |-> "nobody"]]
    /\ iter = [s \in Stmts |-> "none"]
    /\ calls = << >> /\ ended = FALSE

-----------------------------------------------------------------------------
(* SQLite.                                                                 *)
Alive(s) == stmt[s].holder \in {"call", "iterator", "lost"}
AliveOn(c) == {s \in Stmts : Alive(s) /\ stmt[s].conn = c}

(* The statements of S are finalised; a zombie without statements is freed. *)
Finalize(S) ==
    /\ stmt' = [s \in Stmts |-> IF s \in S THEN [stmt[s] EXCEPT !.holder = "finalized"] ELSE stmt[s]]
    /\ lib' = [c \in Conns |-> IF lib[c] = "zombie" /\ AliveOn(c) \subseteq S THEN "freed" ELSE lib[c]]

MutantCloseV2(c) == lib' = [lib EXCEPT ![c] = "freed"]

CloseV2(c) == lib' = [lib EXCEPT ![c] = IF AliveOn(c) = {} THEN "freed" ELSE "zombie"]

-----------------------------------------------------------------------------
(* Where Lua code of the script runs: outside of every call, or inside the *)
(* metamethods of the parameters of the innermost.                         *)
ScriptRuns == ~ended /\ (calls # << >> => Last(calls).at = "bind")

InUse(c) == \E i \in DOMAIN calls : stmt[calls[i].stmt].conn = c

(* A Lua error reaches the pcall the script has put around it, somewhere:  *)
(* it leaves some of the calls that wait for a metamethod, the innermost   *)
(* first, and nobody finalises their statements.                           *)
Unwound(inner) ==
    \E keep \in 0..Len(inner) :
        /\ calls' = SubSeq(inner, 1, keep)
        /\ stmt' = [s \in Stmts |->
                       IF \E i \in keep + 1..Len(inner) : inner[i].stmt = s
                       THEN [stmt[s] EXCEPT !.holder = "lost"] ELSE stmt[s]]

(* Like Unwound, after the statement s was finalised.                      *)
FinalizeAndRaise(s, outer) ==
    \E keep \in 0..Len(outer) :
        LET gone == {outer[i].stmt : i \in keep + 1..Len(outer)}
        IN  /\ calls' = SubSeq(outer, 1, keep)
            /\ stmt' = [x \in Stmts |-> CASE x = s -> [stmt[x] EXCEPT !.holder = "finalized"]
                                          [] x \in gone -> [stmt[x] EXCEPT !.holder = "lost"]
                                          [] OTHER -> stmt[x]]
            /\ lib' = [c \in Conns |-> IF lib[c] = "zombie" /\ AliveOn(c) \subseteq {s}
                                       THEN "freed" ELSE lib[c]]

-----------------------------------------------------------------------------
(* sqlite.open: busy_timeout or WAL may fail after sqlite3_open, which     *)
(* makes a handle even when it fails.                                      *)
Open(c) ==
    /\ ScriptRuns /\ lib[c] = "none" /\ \A b \in Conns : b < c => lib[b] # "none"
    /\ \/ lib' = [lib EXCEPT ![c] = "open"] /\ db' = [db EXCEPT ![c] = "open"]
       \/ lib' = [lib EXCEPT ![c] = "freed"] /\ UNCHANGED db
    /\ UNCHANGED <<stmt, iter, calls, ended>>

(* db:close(), idempotent.                                                 *)
Close(c) ==
    /\ ScriptRuns /\ db[c] = "open"
    /\ db' = [db EXCEPT ![c] = "closed"]
    /\ CloseV2(c)
    /\ UNCHANGED <<stmt, iter, calls, ended>>

(* db_gc: Lua collects what is not on its stack.                           *)
CollectDb(c) ==
    /\ db[c] \in {"open", "closed"} /\ ~InUse(c)
    /\ db' = [db EXCEPT ![c] = "collected"]
    /\ IF db[c] = "open" THEN CloseV2(c) ELSE UNCHANGED lib
    /\ UNCHANGED <<stmt, iter, calls, ended>>

(* exec(sql, params) and query(sql, params?) prepare the first statement.  *)
(* (exec(sql) prepares, runs and finalises all of them within the call,    *)
(* where no Lua code can run: nothing of it is left.)                      *)
Prepare(c, s, fn, table) ==
    /\ ScriptRuns /\ db[c] = "open" /\ Len(calls) < MaxDepth
    /\ stmt[s].holder = "nobody" /\ \A r \in Stmts : r < s => stmt[r].holder # "nobody"
    /\ fn = "exec" => table
    /\ stmt' = [stmt EXCEPT ![s] = [conn |-> c, holder |-> "call"]]
    /\ calls' = Append(calls, [fn |-> fn, stmt |-> s, table |-> table, at |-> "check"])
    /\ UNCHANGED <<lib, db, iter, ended>>

Call == Last(calls)
Outer == Front(calls)
At(place) == calls # << >> /\ Call.at = place
Advance(place) == calls' = [calls EXCEPT ![Len(calls)].at = place]

(* Something but blanks and semicolons follows the statement, a comment    *)
(* included, or it has placeholders and there is no table.                 *)
MutantRefuse ==
    /\ At("check")
    /\ calls' = Outer
    /\ UNCHANGED <<lib, stmt, db, iter, ended>>

Refuse ==
    /\ At("check")
    /\ Finalize({Call.stmt}) /\ calls' = Outer
    /\ UNCHANGED <<db, iter, ended>>

Accept ==
    /\ At("check")
    /\ Advance(IF Call.table THEN "bind" ELSE "run")
    /\ UNCHANGED <<lib, db, stmt, iter, ended>>

Bound ==
    /\ At("bind")
    /\ Advance("run")
    /\ UNCHANGED <<lib, db, stmt, iter, ended>>

(* A parameter is missing, one too many, or of a type SQLite has not: the  *)
(* statement is finalised before the error is raised.                      *)
BindFails ==
    /\ At("bind")
    /\ FinalizeAndRaise(Call.stmt, Outer)
    /\ UNCHANGED <<db, iter, ended>>

(* A metamethod of the parameters raises an error.                         *)
MetamethodRaises ==
    /\ At("bind")
    /\ Unwound(calls) /\ calls' # calls
    /\ UNCHANGED <<lib, db, iter, ended>>

(* exec steps to the end, or to an error, and finalises.                   *)
Run ==
    /\ At("run") /\ Call.fn = "exec"
    /\ Finalize({Call.stmt}) /\ calls' = Outer
    /\ UNCHANGED <<db, iter, ended>>

(* query gives the statement to a userdata.                                *)
Publish ==
    /\ At("run") /\ Call.fn = "query"
    /\ stmt' = [stmt EXCEPT ![Call.stmt].holder = "iterator"]
    /\ iter' = [iter EXCEPT ![Call.stmt] = "live"]
    /\ calls' = Outer
    /\ UNCHANGED <<lib, db, ended>>

-----------------------------------------------------------------------------
(* The iterator: a row changes nothing here; the end finalises at once, an *)
(* error does and raises.  close, and __gc, finalise what is left.         *)
IterationEnds(s) ==
    /\ ScriptRuns /\ iter[s] = "live" /\ stmt[s].holder = "iterator"
    /\ Finalize({s})
    /\ UNCHANGED <<db, iter, calls, ended>>

IterationFails(s) ==
    /\ ScriptRuns /\ iter[s] = "live" /\ stmt[s].holder = "iterator"
    /\ FinalizeAndRaise(s, calls)
    /\ UNCHANGED <<db, iter, ended>>

CollectIterator(s) ==
    /\ iter[s] = "live"
    /\ iter' = [iter EXCEPT ![s] = "collected"]
    /\ Finalize(IF stmt[s].holder = "iterator" THEN {s} ELSE {})
    /\ UNCHANGED <<db, calls, ended>>

ScriptEnds ==
    /\ ~ended /\ calls = << >>
    /\ ended' = TRUE
    /\ UNCHANGED <<lib, db, stmt, iter, calls>>

AllCollected == (\A c \in Conns : db[c] \in {"none", "collected"})
                /\ \A s \in Stmts : iter[s] # "live"

Over == ended /\ AllCollected /\ UNCHANGED vars

Next ==
    \/ \E c \in Conns : \/ Open(c) \/ Close(c) \/ CollectDb(c)
                        \/ \E s \in Stmts, fn \in {"exec", "query"}, table \in BOOLEAN :
                              Prepare(c, s, fn, table)
    \/ Refuse \/ Accept \/ Bound \/ BindFails \/ MetamethodRaises \/ Run \/ Publish
    \/ \E s \in Stmts : IterationEnds(s) \/ IterationFails(s) \/ CollectIterator(s)
    \/ ScriptEnds \/ Over

Spec == Init /\ [][Next]_vars

-----------------------------------------------------------------------------
TypeOK ==
    /\ lib \in [Conns -> {"none", "open", "zombie", "freed"}]
    /\ db \in [Conns -> {"none", "open", "closed", "collected"}]
    /\ stmt \in [Stmts -> [conn : Nat,
                           holder : {"nobody", "call", "iterator", "finalized", "lost"}]]
    /\ iter \in [Stmts -> {"none", "live", "collected"}]
    /\ calls \in Seq([fn : {"exec", "query"}, stmt : Stmts, table : BOOLEAN,
                      at : {"check", "bind", "run"}])
    /\ ended \in BOOLEAN

(* Neither a Db nor a statement ever refers to a connection that SQLite    *)
(* has freed, in whatever order the script closes them and Lua collects    *)
(* them, and a Db that is closed holds its connection only through         *)
(* statements.                                                             *)
ConnectionOutlivesItsUsers ==
    /\ \A s \in Stmts : Alive(s) => lib[stmt[s].conn] \in {"open", "zombie"}
    /\ \A c \in Conns : db[c] = "open" <=> lib[c] = "open"
    /\ \A c \in Conns : lib[c] = "zombie" => AliveOn(c) # {}

(* Every statement has one owner who will finalise it, a call in progress  *)
(* or an iterator that is not collected, on every path out of exec and     *)
(* query; lost are only those an error raised by Lua code jumped over.     *)
StatementsAreOwned ==
    /\ \A s \in Stmts : /\ stmt[s].holder = "call" <=> \E i \in DOMAIN calls : calls[i].stmt = s
                        /\ stmt[s].holder = "iterator" => iter[s] = "live"
    /\ \A i, j \in DOMAIN calls : calls[i].stmt = calls[j].stmt => i = j

(* Once Lua has closed its state every connection is closed, but for those *)
(* that a lost statement holds.                                            *)
NothingIsLeftOpen ==
    (ended /\ AllCollected) =>
        \A c \in Conns : lib[c] \in {"none", "freed"} \/ \E s \in AliveOn(c) : stmt[s].holder = "lost"
=============================================================================
