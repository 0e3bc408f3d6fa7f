------------------------------ MODULE DeepCopy -------------------------------
(***************************************************************************)
(* babet.deepCopyTable (src/src/lua_bindings/deepCopyTable.cpp).  A heap   *)
(* gives each table its fields; a field is another table or Plain, a value *)
(* that is no table.  Copies are numbered as they are made.                *)
(*                                                                         *)
(* deepCopyTable calls itself for a field that is a table: the calls in    *)
(* progress are a stack.  lua_next gives the fields in any order.          *)
(***************************************************************************)
EXTENDS Naturals, Sequences, SequencesExt, FiniteSets

CONSTANTS Tables,   \* the tables of the program
          Fields,   \* the keys its tables use
          MaxDepth  \* MAX_DEPTH

Plain == "plain"

ASSUME TablesAssumption == IsFiniteSet(Tables) /\ Plain \notin Tables
ASSUME MaxDepthAssumption == MaxDepth \in Nat

Heaps == [Tables -> UNION {[S -> Tables \cup {Plain}] : S \in SUBSET Fields}]

VARIABLES
    heap, root,  \* the tables, and the one that is copied
    calls,       \* for each call its table, the keys still to copy, and the
                 \* key of its caller that its copy is for
    visited,     \* the number of the copy of a table that has one
    copies,      \* the fields of each copy
    outcome      \* "running", "ok" or "too deep"

copyVars == <<heap, root, calls, visited, copies, outcome>>

SetTable(f, k, value) == [x \in DOMAIN f \cup {k} |-> IF x = k THEN value ELSE f[x]]

EmptyTable == [k \in {} |-> Plain]

Call(t, k) == [table |-> t, todo |-> DOMAIN heap[t], key |-> k]

(* The first call, for the argument of babet.deepCopyTable.                *)
CopyInit ==
    /\ heap \in Heaps /\ root \in Tables
    /\ calls = << Call(root, Plain) >>
    /\ visited = [t \in {root} |-> 1]
    /\ copies = << EmptyTable >>
    /\ outcome = "running"

-----------------------------------------------------------------------------
Field(k) == heap[Last(calls).table][k]

(* The field k of the copy that this call makes is done.                   *)
Set(stack, k, value) ==
    LET n == Len(stack)
    IN  /\ copies' = [copies EXCEPT ![visited[stack[n].table]] = SetTable(@, k, value)]
        /\ calls' = [stack EXCEPT ![n].todo = @ \ {k}]

CopyPlain(k) ==
    /\ Field(k) = Plain
    /\ Set(calls, k, Plain)
    /\ UNCHANGED <<heap, root, visited, outcome>>

(* A call for a field would be too deep, also for one that has a copy.     *)
CopyTooDeep(k) ==
    /\ Field(k) # Plain /\ Len(calls) > MaxDepth
    /\ outcome' = "too deep" /\ calls' = << >>
    /\ UNCHANGED <<heap, root, visited, copies>>

(* A table met again is the copy made before.                              *)
CopyAgain(k) ==
    /\ Field(k) \in DOMAIN visited /\ Len(calls) <= MaxDepth
    /\ Set(calls, k, visited[Field(k)])
    /\ UNCHANGED <<heap, root, visited, outcome>>

MutantEnterTable(k) ==
    /\ Field(k) # Plain /\ Len(calls) <= MaxDepth
    /\ visited' = SetTable(visited, Field(k), Len(copies) + 1)
    /\ copies' = Append(copies, EmptyTable)
    /\ calls' = Append(calls, Call(Field(k), k))
    /\ UNCHANGED <<heap, root, outcome>>

(* A copy is registered before the fields of its table are visited.        *)
EnterTable(k) ==
    /\ Field(k) # Plain /\ Field(k) \notin DOMAIN visited /\ Len(calls) <= MaxDepth
    /\ visited' = SetTable(visited, Field(k), Len(copies) + 1)
    /\ copies' = Append(copies, EmptyTable)
    /\ calls' = Append(calls, Call(Field(k), k))
    /\ UNCHANGED <<heap, root, outcome>>

ReturnCopy ==
    /\ Last(calls).todo = {} /\ Len(calls) > 1
    /\ Set(Front(calls), Last(calls).key, visited[Last(calls).table])
    /\ UNCHANGED <<heap, root, visited, outcome>>

CopyEnds ==
    /\ Last(calls).todo = {} /\ Len(calls) = 1
    /\ outcome' = "ok" /\ calls' = << >>
    /\ UNCHANGED <<heap, root, visited, copies>>

CopyNext ==
    /\ outcome = "running"
    /\ \/ \E k \in Last(calls).todo :
             CopyPlain(k) \/ CopyTooDeep(k) \/ CopyAgain(k) \/ EnterTable(k)
       \/ ReturnCopy
       \/ CopyEnds

CopySpec == CopyInit /\ [][CopyNext]_copyVars

-----------------------------------------------------------------------------
(* The tables that the root leads to: those that every set has that has    *)
(* the root and, with a table, the tables in its fields.                   *)
Closed(S) == \A t \in S : \A k \in DOMAIN heap[t] : heap[t][k] \in S \cup {Plain}
Reachable == {t \in Tables : \A S \in SUBSET Tables : root \in S /\ Closed(S) => t \in S}

(* The copy has the shape of the original, shared tables and cycles        *)
(* included: one copy for each table that can be reached and no other, its *)
(* fields the copies of the fields.  It fails only for depth, which takes  *)
(* more tables than MAX_DEPTH.                                             *)
CopyIsIsomorphic ==
    LET Image(f) == IF f = Plain THEN Plain ELSE visited[f]
    IN  /\ outcome = "too deep" => Cardinality(Reachable) > MaxDepth
        /\ outcome = "ok" =>
              /\ DOMAIN visited = Reachable
              /\ \A t, u \in Reachable : visited[t] = visited[u] => t = u
              /\ {visited[t] : t \in Reachable} = DOMAIN copies
              /\ \A t \in Reachable :
                    copies[visited[t]] = [k \in DOMAIN heap[t] |-> Image(heap[t][k])]
=============================================================================
