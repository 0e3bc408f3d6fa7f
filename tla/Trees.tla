------------------------------- MODULE Trees --------------------------------
(***************************************************************************)
(* babet.copyTree and babet.moveTree (copyTree.cpp, moveTree.cpp): one     *)
(* call, from the guards to its answer, with a failure possible at every   *)
(* system call.  Nobody else touches the two trees meanwhile.              *)
(*                                                                         *)
(* An entry is a path relative to the root of its tree, so that the same   *)
(* name stands for a place in the source and one in the destination.       *)
(***************************************************************************)
EXTENDS Naturals, Sequences, SequencesExt, FiniteSets

CONSTANTS
    Dirs, Files, Links, Specials,  \* the entries of the source, by type
    Root,                          \* the root of the tree
    Parent,                        \* Parent[e]: the directory e is in
    Intra                          \* the links whose absolute target is in the source

Entries == Dirs \cup Files \cup Links \cup Specials

ASSUME ParentAssumption == Root \notin Entries /\ Parent \in [Entries -> Dirs \cup {Root}]
ASSUME LinksAssumption == Intra \subseteq Links
ASSUME TypesAssumption == /\ Dirs \cap (Files \cup Links \cup Specials) = {}
                          /\ Links \cap (Files \cup Specials) = {}

VARIABLES
    op,        \* "copy", which goes on after an error, "copy!", which does not, "move"
    sameFs,    \* both trees are on one file system
    closed,    \* the directories that cannot be read
    existed,   \* the destination existed before the call
    src,       \* the entries the source has
    dst,       \* dst[e]: "none", "dir", "old" (there before), "part", "file", "link"
    target,    \* target[l]: where a link that was made points, "kept" or "moved"
    pc,
    open,      \* the directories being iterated, the deepest last
    seen,      \* the entries the iterator has given
    entry,     \* the one at hand
    mappings,  \* symlink_mappings: the links to make
    warned,    \* has_warnings
    answer     \* "none", "ok", "warnings", "error"

vars == <<op, sameFs, closed, existed, src, dst, target, pc, open, seen, entry, mappings, warned, answer>>
given == <<op, sameFs, closed, existed>>

None == Root
Stops == op # "copy"

(* A destination that existed may hold files and directories of its own.   *)
OldTrees == {d \in [Entries -> {"none", "dir", "old"}] :
                \A e \in Entries : d[e] # "none" => Parent[e] = Root \/ d[Parent[e]] = "dir"}

Init ==
    /\ op \in {"copy", "copy!", "move"} /\ sameFs \in BOOLEAN
    /\ closed \in {{}} \cup {{d} : d \in Dirs \cup {Root}}
    /\ existed \in BOOLEAN
    /\ src = Entries
    /\ dst \in (IF existed THEN OldTrees ELSE {[e \in Entries |-> "none"]})
    /\ target = [l \in Links |-> "none"]
    /\ pc = "guards" /\ open = << >> /\ seen = {} /\ entry = None
    /\ mappings = {} /\ warned = FALSE /\ answer = "none"

Return(a) == pc' = "done" /\ answer' = a /\ UNCHANGED <<open, seen, entry, mappings, warned>>

Goto(place) == pc' = place /\ UNCHANGED <<open, seen, entry, mappings, warned, answer>>

Trees == <<src, dst, target>>

-----------------------------------------------------------------------------
(* The source is missing, is no directory, or holds the destination.       *)
GuardsRefuse ==
    /\ pc = "guards"
    /\ Return("error")
    /\ UNCHANGED <<given, Trees>>

GuardsPass ==
    /\ pc = "guards"
    /\ Goto(IF op = "move" /\ ~existed THEN "rename" ELSE "create")
    /\ UNCHANGED <<given, Trees>>

(* rename(2) moves the whole tree, with its links as they are.             *)
Rename ==
    /\ pc = "rename" /\ sameFs
    /\ src' = {}
    /\ dst' = [e \in Entries |-> IF e \in Dirs THEN "dir" ELSE IF e \in Links THEN "link" ELSE "file"]
    /\ target' = [l \in Links |-> "kept"]
    /\ Return("ok")
    /\ UNCHANGED given

RenameFails ==
    /\ pc = "rename"
    /\ \/ ~sameFs /\ Goto("create")
       \/ Return("error")
    /\ UNCHANGED <<given, Trees>>

(* create_directories, then the iterator opens the source: one that cannot *)
(* be read is empty for it (skip_permission_denied).                       *)
Enter(d, stack) == IF d \in closed THEN stack ELSE Append(stack, d)

CreateDestination ==
    /\ pc = "create"
    /\ \/ /\ pc' = "next" /\ open' = Enter(Root, << >>)
          /\ UNCHANGED <<seen, entry, mappings, warned, answer>>
       \/ Return("error")
    /\ UNCHANGED <<given, Trees>>

-----------------------------------------------------------------------------
(* The walk.                                                               *)
Unseen(d) == {e \in src \ seen : Parent[e] = d}

Step == IF entry \in Dirs THEN Enter(entry, open) ELSE open

(* ++: into the directory just given, else the next of the deepest.        *)
NextEntry ==
    /\ pc = "next" /\ Step # << >> /\ Unseen(Last(Step)) # {}
    /\ \E e \in Unseen(Last(Step)) :
          /\ entry' = e /\ seen' = seen \cup {e}
          /\ \/ e \in Dirs /\ pc' = "mkdir"
             \/ e \in Links /\ pc' = "readlink"
             \/ e \in Files \cup Specials /\ pc' = "file"
    /\ open' = Step
    /\ UNCHANGED <<given, Trees, mappings, warned, answer>>

Ascend ==
    /\ pc = "next" /\ Step # << >> /\ Unseen(Last(Step)) = {}
    /\ open' = Front(Step) /\ entry' = None
    /\ UNCHANGED <<given, Trees, pc, seen, mappings, warned, answer>>

WalkEnds ==
    /\ pc = "next" /\ Step = << >>
    /\ Goto(IF op = "move" THEN "removeAll" ELSE "links")
    /\ UNCHANGED <<given, Trees>>

(* An exception of the iterator, of symlink_status or of read_symlink ends *)
(* the call, whatever continue_on_error says.                              *)
Throws ==
    /\ pc \in {"next", "mkdir", "readlink", "file"}
    /\ Return("error")
    /\ UNCHANGED <<given, Trees>>

(* The end of the body of the loop: what failed is reported at once, or    *)
(* is a warning.                                                           *)
Continue == Goto("next")
Failed ==
    IF Stops THEN Return("error")
    ELSE pc' = "next" /\ warned' = TRUE /\ UNCHANGED <<open, seen, entry, mappings, answer>>

(* A place can be filled if its directory is there.                        *)
Reachable(e) == Parent[e] # Root => dst[Parent[e]] = "dir"
SetDst(e, what) == dst' = [dst EXCEPT ![e] = what]

MakeDir ==
    /\ pc = "mkdir"
    /\ \/ /\ Reachable(entry) /\ dst[entry] \in {"none", "dir"}
          /\ SetDst(entry, "dir") /\ Continue
       \/ Failed /\ UNCHANGED dst
    /\ UNCHANGED <<given, src, target>>

(* copy_file over what is there; a copy that fails may leave a part.       *)
Writable(e) == Reachable(e) /\ dst[e] # "dir"

CopyFile ==
    /\ pc = "file" /\ op # "move" /\ entry \in Files
    /\ \/ Writable(entry) /\ SetDst(entry, "file") /\ Continue
       \/ Writable(entry) /\ SetDst(entry, "part") /\ Failed
       \/ Failed /\ UNCHANGED dst
    /\ UNCHANGED <<given, src, target>>

UnknownType ==
    /\ pc = "file" /\ op # "move" /\ entry \in Specials
    /\ Failed
    /\ UNCHANGED <<given, Trees>>

(* moveTree renames what is neither a directory nor a link, or copies it   *)
(* across file systems and removes it: copy_file takes regular files only. *)
RenameEntry ==
    /\ pc = "file" /\ op = "move"
    /\ \/ /\ sameFs /\ Writable(entry)
          /\ SetDst(entry, "file") /\ src' = src \ {entry} /\ Continue
       \/ ~sameFs /\ Goto("cross") /\ UNCHANGED <<src, dst>>
       \/ Return("error") /\ UNCHANGED <<src, dst>>
    /\ UNCHANGED <<given, target>>

MutantCopyAcross ==
    /\ pc = "cross"
    /\ \/ entry \in Files /\ Writable(entry) /\ SetDst(entry, "file") /\ Goto("remove")
       \/ entry \in Files /\ Writable(entry) /\ SetDst(entry, "part") /\ Goto("remove")
       \/ Return("error") /\ UNCHANGED dst
    /\ UNCHANGED <<given, src, target>>

CopyAcross ==
    /\ pc = "cross"
    /\ \/ entry \in Files /\ Writable(entry) /\ SetDst(entry, "file") /\ Goto("remove")
       \/ entry \in Files /\ Writable(entry) /\ SetDst(entry, "part") /\ Return("error")
       \/ Return("error") /\ UNCHANGED dst
    /\ UNCHANGED <<given, src, target>>

RemoveEntry ==
    /\ pc = "remove"
    /\ \/ src' = src \ {entry} /\ Continue
       \/ Return("error") /\ UNCHANGED src
    /\ UNCHANGED <<given, dst, target>>

(* A link is noted, to be made when all that it may point to is there.     *)
ReadLink ==
    /\ pc = "readlink"
    /\ mappings' = mappings \cup {entry}
    /\ pc' = "next"
    /\ UNCHANGED <<given, Trees, open, seen, entry, warned, answer>>

-----------------------------------------------------------------------------
(* What is below a directory that cannot be read: the largest set whose    *)
(* members are in such a directory or in one of the set.                   *)
Hidden == UNION {below \in SUBSET Entries : \A e \in below : Parent[e] \in closed \cup below}

(* remove_all: one entry after the other, the contents of a directory      *)
(* first; it cannot list a directory that is closed, nor remove it then.   *)
Removable(e) == /\ e \notin Hidden \cup closed
                /\ \A c \in src : Parent[c] # e

RemoveAll ==
    /\ pc = "removeAll"
    /\ \/ /\ \E e \in src : Removable(e) /\ src' = src \ {e}
          /\ UNCHANGED <<pc, open, seen, entry, mappings, warned, answer>>
       \/ src = {} /\ Root \notin closed /\ Goto("links") /\ UNCHANGED src
       \/ Return("error") /\ UNCHANGED src
    /\ UNCHANGED <<given, dst, target>>

(* The links, in any order: an absolute target in the source becomes the   *)
(* same place in the destination.                                          *)
MutantTargetOf(l) == "kept"

TargetOf(l) == IF l \in Intra THEN "moved" ELSE "kept"

MakeLink ==
    /\ pc = "links" /\ mappings # {}
    /\ \E l \in mappings :
          /\ mappings' = mappings \ {l}
          /\ \/ /\ Reachable(l) /\ dst[l] = "none"
                /\ SetDst(l, "link") /\ target' = [target EXCEPT ![l] = TargetOf(l)]
                /\ UNCHANGED <<pc, warned, answer>>
             \/ /\ Stops /\ pc' = "done" /\ answer' = "error"
                /\ UNCHANGED <<dst, target, warned>>
             \/ /\ ~Stops /\ warned' = TRUE
                /\ UNCHANGED <<dst, target, pc, answer>>
    /\ UNCHANGED <<given, src, open, seen, entry>>

Finish ==
    /\ pc = "links" /\ mappings = {}
    /\ Return(IF warned THEN "warnings" ELSE "ok")
    /\ UNCHANGED <<given, Trees>>

Over == pc = "done" /\ UNCHANGED vars

Next == \/ GuardsRefuse \/ GuardsPass \/ Rename \/ RenameFails \/ CreateDestination
        \/ NextEntry \/ Ascend \/ WalkEnds \/ Throws
        \/ MakeDir \/ CopyFile \/ UnknownType \/ RenameEntry \/ CopyAcross \/ RemoveEntry \/ ReadLink
        \/ RemoveAll \/ MakeLink \/ Finish \/ Over

Spec == Init /\ [][Next]_vars

-----------------------------------------------------------------------------
TypeOK ==
    /\ src \subseteq Entries /\ seen \subseteq Entries /\ mappings \subseteq Links
    /\ dst \in [Entries -> {"none", "dir", "old", "part", "file", "link"}]
    /\ target \in [Links -> {"none", "kept", "moved"}]
    /\ open \in Seq(Dirs \cup {Root}) /\ entry \in Entries \cup {None} /\ warned \in BOOLEAN
    /\ pc \in {"guards", "rename", "create", "next", "mkdir", "readlink", "file", "cross", "remove",
               "removeAll", "links", "done"}
    /\ answer \in {"none", "ok", "warnings", "error"}

Image(e) == IF e \in Dirs THEN "dir" ELSE IF e \in Links THEN "link" ELSE "file"

(* At every moment, whatever fails, what was in the source is there or     *)
(* whole in the destination; but the links, which a move that ends with an *)
(* error may have removed and not made again.                              *)
NothingLost ==
    \A e \in Entries : \/ e \in src
                       \/ dst[e] = Image(e)
                       \/ e \in Links /\ (e \in mappings \/ answer = "error")

(* A success means that the destination has all of the source, but what is *)
(* in directories that cannot be read, its links into the source lead into *)
(* the destination, and after a move the source is gone.  (A move that is  *)
(* one rename takes everything, and leaves links as they were.)            *)
OkMeansDone ==
    answer = "ok" =>
        \/ /\ \A e \in Entries \ Hidden : dst[e] = Image(e)
           /\ \A l \in Links \ Hidden : target[l] = (IF l \in Intra THEN "moved" ELSE "kept")
           /\ op = "move" => (src = {} /\ Hidden = {})
        \/ /\ op = "move" /\ ~existed /\ sameFs /\ src = {}
           /\ \A e \in Entries : dst[e] = Image(e)
=============================================================================
