----------------------------- MODULE LuaValues ------------------------------
(***************************************************************************)
(* Lua values written as JSON and read back: by babet.json (json.cpp) and, *)
(* with rules of their own, by the queues of the workers (workers.cpp).    *)
(* The text between is nlohmann's; what it keeps is the tree.              *)
(*                                                                         *)
(* A value is a tree: it gives a node to each path, a sequence of keys     *)
(* that leads to a part of it; << >> leads to the whole.  A node is a pair *)
(* of a type and, for a scalar, what it holds.  The keys of a Lua table    *)
(* are pairs too; the elements of a JSON array are numbered from 1 and the *)
(* members of an object have names, of which only a Lua key says the type. *)
(* "tagged" is a table with the metatable ARRAY_MT.                        *)
(***************************************************************************)
EXTENDS Integers, Sequences, SequencesExt, FiniteSets, FiniteSetsExt

CONSTANTS MaxNesting,  \* MAX_DEPTH, MAX_SERIALIZATION_DEPTH
          MaxInteger,  \* the largest lua_Integer
          Names,       \* of members: strings, none with a zero byte
          JsonLeaves,  \* the JSON and the Lua values that have no parts
          LuaLeaves,
          LuaKeys      \* the keys that tables use

Null      == <<"null", 0>>     \* JSON
Array     == <<"array", 0>>
Object    == <<"object", 0>>
Nil       == <<"nil", 0>>      \* Lua
Table     == <<"table", 0>>
Tagged    == <<"tagged", 0>>
JsonNull  == <<"sentinel", 0>> \* babet.json.null
JsonEmpty == <<"sentinel", 1>> \* babet.json.empty_array
Unfit     == <<"unfit", 0>>    \* what a conversion refuses

Scalars == {"boolean", "integer", "float", "string"}

(* A Lua integer fits in lua_Integer, a JSON one need not.                 *)
ASSUME LimitsAssumption == MaxNesting \in Nat /\ MaxInteger \in Nat
ASSUME LeavesAssumption ==
    /\ JsonLeaves \subseteq {Null} \cup (Scalars \X Int)
    /\ LuaLeaves \subseteq {JsonNull, JsonEmpty} \cup ((Scalars \cup {"function"}) \X Int)
    /\ \A n \in LuaLeaves : n[1] = "integer" => n[2] <= MaxInteger
ASSUME KeysAssumption ==
    LuaKeys \subseteq ({"integer", "float", "boolean"} \X Int) \cup ({"string"} \X Names)

-----------------------------------------------------------------------------
Keys(v, p) == {Last(q) : q \in {q \in DOMAIN v : q # << >> /\ Front(q) = p}}

Above(p) == {SubSeq(p, 1, i - 1) : i \in DOMAIN p}

(* A tree whose nodes become labels, at places.  It is refused if it goes  *)
(* too deep or a node has no label.                                        *)
Refused == [p \in {} |-> Unfit]

Moved(labels, places) ==
    IF \E p \in DOMAIN labels : Len(p) > MaxNesting \/ labels[p] = Unfit
    THEN Refused
    ELSE [q \in {places[p] : p \in DOMAIN labels} |->
            labels[CHOOSE p \in DOMAIN labels : places[p] = q]]

(* Between the keys of Lua tables and those of arrays and objects.         *)
Untyped(p) == [i \in DOMAIN p |-> p[i][2]]
Typed(j, p) ==
    [i \in DOMAIN p |-> <<IF j[SubSeq(p, 1, i - 1)] = Array THEN "integer" ELSE "string", p[i]>>]

ToJson(labels) == Moved(labels, [p \in DOMAIN labels |-> Untyped(p)])
ToLua(j, labels) == Moved(labels, [p \in DOMAIN j |-> Typed(j, p)])

IntKeys(keys) == {k[2] : k \in {k \in keys : k[1] = "integer" /\ k[2] >= 1}}
StrKeys(keys) == {k[2] : k \in {k \in keys : k[1] = "string"}}
HasBadKey(keys) == \E k \in keys : k[1] # "string" /\ ~(k[1] = "integer" /\ k[2] >= 1)

-----------------------------------------------------------------------------
(* babet.json.                                                             *)

(* classify_table: a table is empty for it as soon as it has neither       *)
(* positive integers nor strings as keys.                                  *)
Shape(keys) ==
    LET ints == IntKeys(keys)
        strs == StrKeys(keys)
    IN  CASE ints = {} /\ strs = {} -> "empty"
          [] ints = {} /\ strs # {} /\ ~HasBadKey(keys) -> "object"
          [] ints # {} /\ strs = {} /\ ~HasBadKey(keys) /\ Max(ints) = Cardinality(ints) -> "array"
          [] OTHER -> "bad"

Encoded(node, keys) ==
    CASE node \in {Nil, JsonNull} -> Null
      [] node = JsonEmpty -> Array
      [] node[1] \in Scalars -> node
      [] node \in {Table, Tagged} ->
            LET shape == Shape(keys)
            IN  CASE shape = "empty" -> IF node = Tagged THEN Array ELSE Object
                  [] shape = "array" -> Array
                  [] shape = "object" /\ node = Table -> Object
                  [] OTHER -> Unfit
      [] OTHER -> Unfit

(* What is under other keys of a table that is empty is not looked at.     *)
Visited(v) == {p \in DOMAIN v : \A q \in Above(p) : Shape(Keys(v, q)) # "empty"}

JsonOf(v) == ToJson([p \in Visited(v) |-> Encoded(v[p], Keys(v, p))])

MutantDecoded(node, keys) ==
    CASE node = Null -> JsonNull
      [] node[1] = "integer" /\ node[2] > MaxInteger -> <<"float", node[2]>>
      [] node \in {Array, Object} -> Table
      [] OTHER -> node

(* json_to_lua: null is the sentinel, an integer beyond lua_Integer a      *)
(* float, and an empty array is tagged so that it stays one.               *)
Decoded(node, keys) ==
    CASE node = Null -> JsonNull
      [] node[1] = "integer" /\ node[2] > MaxInteger -> <<"float", node[2]>>
      [] node = Array /\ keys = {} -> Tagged
      [] node = Object \/ (node = Array /\ keys # {}) -> Table
      [] OTHER -> node

LuaOf(j) == ToLua(j, [p \in DOMAIN j |-> Decoded(j[p], Keys(j, p))])

-----------------------------------------------------------------------------
(* The workers' queues: metatables and sentinels are not looked at, and a  *)
(* table is an array if its keys are 1..n with n > 0, else an object.      *)
(* (luaL_len would look at a __len: the tables here have none.)            *)
Sent(node, keys) ==
    CASE node = Nil -> Null
      [] node[1] \in Scalars -> node
      [] node \in {Table, Tagged, JsonNull, JsonEmpty} ->
            CASE keys # {} /\ keys = {"integer"} \X (1..Cardinality(keys)) -> Array
              [] \A k \in keys : k[1] = "string" -> Object
              [] OTHER -> Unfit
      [] OTHER -> Unfit

MessageOf(v) == ToJson([p \in DOMAIN v |-> Sent(v[p], Keys(v, p))])

(* Every JSON integer is taken as an int64_t, an unsigned one too.         *)
Wrapped(n) == IF n > MaxInteger THEN n - 2 * (MaxInteger + 1) ELSE n

Received(node) ==
    CASE node = Null -> Nil
      [] node[1] = "integer" -> <<"integer", Wrapped(node[2])>>
      [] node \in {Array, Object} -> Table
      [] OTHER -> node

ReceivedOf(j) == ToLua(j, [p \in DOMAIN j |-> Received(j[p])])

-----------------------------------------------------------------------------
(* The values: every tree that can be built part by part.                  *)
VARIABLES json, lua

valueVars == <<json, lua>>

JsonNodes == JsonLeaves \cup {Array, Object}
LuaNodes == LuaLeaves \cup {Table, Tagged}

One(node) == [p \in {<< >>} |-> node]

WithPart(v, p, k, node) ==
    [q \in DOMAIN v \cup {Append(p, k)} |-> IF q = Append(p, k) THEN node ELSE v[q]]

ValuesInit ==
    /\ json \in {One(node) : node \in JsonNodes}
    /\ lua \in {One(node) : node \in LuaNodes \cup {Nil}}

AddElement ==
    \E p \in DOMAIN json, node \in JsonNodes :
        /\ json[p] = Array
        /\ json' = WithPart(json, p, Cardinality(Keys(json, p)) + 1, node)
        /\ UNCHANGED lua

AddMember ==
    \E p \in DOMAIN json, node \in JsonNodes :
        /\ json[p] = Object
        /\ \E s \in Names \ Keys(json, p) : json' = WithPart(json, p, s, node)
        /\ UNCHANGED lua

AddField ==
    \E p \in DOMAIN lua, node \in LuaNodes :
        /\ lua[p] \in {Table, Tagged}
        /\ \E k \in LuaKeys \ Keys(lua, p) : lua' = WithPart(lua, p, k, node)
        /\ UNCHANGED json

ValuesNext == AddElement \/ AddMember \/ AddField

ValuesSpec == ValuesInit /\ [][ValuesNext]_valueVars

-----------------------------------------------------------------------------
(* An integer that no lua_Integer holds has become a float.                *)
Rounded(j) ==
    [p \in DOMAIN j |-> IF j[p][1] = "integer" /\ j[p][2] > MaxInteger
                        THEN <<"float", j[p][2]>> ELSE j[p]]

(* Without metatables a table is a table, a sentinel an empty one.         *)
Bare(v) ==
    [p \in DOMAIN v |-> IF v[p] \in {Tagged, JsonNull, JsonEmpty} THEN Table ELSE v[p]]

(* What babet.json decodes it encodes again as it was, empty arrays and    *)
(* nulls included; what it encodes it decodes, and encodes again the same; *)
(* and what a queue of the workers accepts arrives as it was sent.  What   *)
(* is accepted on one side is never refused on the other.                  *)
ValuesSurvive ==
    /\ LuaOf(json) # Refused => JsonOf(LuaOf(json)) = Rounded(json)
    /\ JsonOf(lua) # Refused => JsonOf(LuaOf(JsonOf(lua))) = JsonOf(lua)
    /\ MessageOf(lua) # Refused => ReceivedOf(MessageOf(lua)) = Bare(lua)
=============================================================================
