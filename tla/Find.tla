-------------------------------- MODULE Find --------------------------------
(***************************************************************************)
(* babet.find (src/src/lua_bindings/find.cpp): the walk, with mindepth,    *)
(* maxdepth and type.  A tree of files gives a kind to each path: << >> is *)
(* the root, and the entries of a directory are its path followed by 1, 2  *)
(* and so on, in the order the system gives them.  "locked" is a directory *)
(* that cannot be opened.  Names, and the patterns on them, only say       *)
(* whether an entry matches, as the type does.                             *)
(***************************************************************************)
EXTENDS Integers, Sequences, SequencesExt, FiniteSetsExt

CONSTANTS FileTrees,   \* the trees that are searched
          FindOptions  \* the options of the calls

(* Only the root may be missing; only a directory that can be opened has   *)
(* entries, numbered without gaps.                                         *)
IsFileTree(t) ==
    /\ DOMAIN t \subseteq Seq(Nat \ {0}) /\ << >> \in DOMAIN t
    /\ \A p \in DOMAIN t \ {<< >>} :
          /\ t[p] \in {"file", "dir", "locked"}
          /\ Front(p) \in DOMAIN t /\ t[Front(p)] = "dir"
          /\ Last(p) > 1 => Append(Front(p), Last(p) - 1) \in DOMAIN t

ASSUME FileTreesAssumption == \A t \in FileTrees : IsFileTree(t)
ASSUME FindOptionsAssumption ==
    \A o \in FindOptions : o.mindepth \in Int /\ o.maxdepth \in Int

VARIABLES tree, options,  \* the arguments
          it,             \* where the iterator is, or End
          found,          \* the entries found so far
          answer          \* "running", "ok" or "error"

findVars == <<tree, options, it, found, answer>>

-----------------------------------------------------------------------------
(* std::filesystem::recursive_directory_iterator.  It goes on in the       *)
(* deepest open directory that has another entry.                          *)
End == << >>

Sibling(p, k) == Append(SubSeq(p, 1, k - 1), p[k] + 1)

Advance(p) ==
    LET open == {k \in DOMAIN p : Sibling(p, k) \in DOMAIN tree}
    IN  IF open = {} THEN End ELSE Sibling(p, Max(open))

Increment(p) == IF Append(p, 1) \in DOMAIN tree THEN Append(p, 1) ELSE Advance(p)

(* pop goes on to the next entry of the directory above.                   *)
Pop(p) == Advance(Front(p))

Depth == Len(it) - 1

(* The ++ of the loop, from p.  It throws at the end, and where a          *)
(* directory cannot be opened.                                             *)
MoveOn(p) ==
    IF p = End \/ tree[p] = "locked"
    THEN answer' = "error" /\ UNCHANGED it
    ELSE it' = Increment(p) /\ UNCHANGED answer

-----------------------------------------------------------------------------
Matches(kind) == CASE options.type = "f" -> kind = "file"
                   [] options.type = "d" -> kind # "file"
                   [] OTHER -> TRUE

FindInit ==
    /\ tree \in FileTrees /\ options \in FindOptions
    /\ it = IF tree[<< >>] = "dir" THEN Increment(<< >>) ELSE End
    /\ answer = IF tree[<< >>] = "dir" THEN "running" ELSE "error"
    /\ found = << >>

MutantInRange == Depth > options.mindepth /\ Depth <= options.maxdepth
InRange == Depth >= options.mindepth /\ Depth <= options.maxdepth

VisitEntry ==
    /\ InRange
    /\ found' = IF Matches(tree[it]) THEN Append(found, it) ELSE found
    /\ MoveOn(it)
    /\ UNCHANGED <<tree, options>>

SkipShallow ==
    /\ ~InRange /\ Depth <= options.maxdepth
    /\ MoveOn(it)
    /\ UNCHANGED <<tree, options, found>>

(* Too deep, it pops and then, in continue, increments.                    *)
SkipDeep ==
    /\ ~InRange /\ Depth > options.maxdepth
    /\ MoveOn(Pop(it))
    /\ UNCHANGED <<tree, options, found>>

FindEnds ==
    /\ it = End
    /\ answer' = "ok"
    /\ UNCHANGED <<tree, options, it, found>>

FindNext ==
    /\ answer = "running"
    /\ \/ it # End /\ (VisitEntry \/ SkipShallow \/ SkipDeep)
       \/ FindEnds

FindSpec == FindInit /\ [][FindNext]_findVars

-----------------------------------------------------------------------------
(* The order of a walk: a directory before what is in it, and both before  *)
(* the entries that come after it.                                         *)
Precedes(p, q) ==
    \E k \in DOMAIN q :
        /\ \A i \in 1..(k - 1) : i \in DOMAIN p /\ p[i] = q[i]
        /\ k = Len(p) + 1 \/ (k \in DOMAIN p /\ p[k] < q[k])

Wanted(p) ==
    /\ p # << >>
    /\ Len(p) - 1 \in options.mindepth .. options.maxdepth
    /\ Matches(tree[p])

CannotOpen == tree[<< >>] # "dir" \/ \E p \in DOMAIN tree : tree[p] = "locked"

(* find gives the entries that are wanted, each once, in the order of the  *)
(* walk, and fails only where a directory cannot be opened.                *)
FindIsExact ==
    /\ answer = "ok" =>
          /\ \A i \in DOMAIN found, j \in DOMAIN found : i < j => Precedes(found[i], found[j])
          /\ {found[i] : i \in DOMAIN found} = {p \in DOMAIN tree : Wanted(p)}
    /\ answer = "error" => CannotOpen

(* So it is in trees that do not go deeper than maxdepth, and there it     *)
(* opens every directory.                                                  *)
FindIsExactInShallowTrees ==
    (\A p \in DOMAIN tree : Len(p) - 1 <= options.maxdepth) =>
        FindIsExact /\ (answer = "ok" => ~CannotOpen)
=============================================================================
