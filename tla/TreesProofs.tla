---------------------------- MODULE TreesProofs -----------------------------
(***************************************************************************)
(* Proofs about copyTree and moveTree, for every source tree.  The         *)
(* invariant TInv follows the walk: what the iterator has not given yet is *)
(* below something it still has to open, and what it has given is in its   *)
(* place, is a link to make, or has been reported.                         *)
(***************************************************************************)
EXTENDS Trees, TLAPS

Body == {"mkdir", "readlink", "file", "cross", "remove"}
Walk == {"next"} \cup Body

(* The types, those of the call's arguments and of the file system too.    *)
Types ==
    /\ TypeOK
    /\ op \in {"copy", "copy!", "move"} /\ sameFs \in BOOLEAN /\ existed \in BOOLEAN
    /\ closed \subseteq Dirs \cup {Root}

BeforeInv == pc \in {"guards", "rename", "create"} =>
    src = Entries /\ seen = {} /\ mappings = {} /\ entry = None /\ open = << >> /\ ~warned

(* The iterator is in no directory it cannot read.                         *)
OpenInv == \A i \in DOMAIN open : open[i] \notin closed \cup Hidden

EntryInv ==
    /\ entry \in Entries => entry \in seen
    /\ pc \in Body => entry \in src
    /\ pc = "mkdir" => entry \in Dirs
    /\ pc = "readlink" => entry \in Links
    /\ pc \in {"file", "cross", "remove"} => entry \in Files \cup Specials
    /\ pc \in {"cross", "remove", "removeAll"} => op = "move"
    /\ pc = "remove" => dst[entry] = Image(entry)

(* The only call that does not walk the tree.                              *)
Renamed ==
    /\ pc = "done" /\ answer = "ok" /\ op = "move" /\ ~existed /\ sameFs /\ src = {}
    /\ \A e \in Entries : dst[e] = Image(e)

SourceInv ==
    /\ op # "move" => src = Entries
    /\ pc \in Walk => Entries \ src \subseteq seen /\ Dirs \subseteq src
    /\ pc = "links" /\ op = "move" => src = {}
    /\ Hidden \subseteq src \/ Renamed
    /\ seen \cap Hidden = {}

(* Rename is tried only when nothing is at the destination.                *)
RenameInv == pc = "rename" => op = "move" /\ ~existed

(* An entry the iterator will come to, or one it cannot see.               *)
Awaited(e) == \/ Parent[e] \in closed \cup (Dirs \ seen)
              \/ entry \in Dirs /\ Parent[e] = entry
              \/ \E i \in DOMAIN open : open[i] = Parent[e]

WalkInv ==
    /\ pc \in Walk => \A e \in src \ seen : Awaited(e)
    /\ pc \in {"removeAll", "links"} => Entries \ Hidden \subseteq seen

PlacedInv ==
    /\ mappings \subseteq seen
    /\ op # "copy" => ~warned
    /\ answer = "none" <=> pc # "done"
    /\ \A e \in seen : \/ dst[e] = Image(e) \/ e \in mappings
                       \/ warned \/ answer = "error" \/ (pc \in Body /\ e = entry)

TargetInv == \A l \in Links : dst[l] = "link" => target[l] = TargetOf(l) \/ Renamed

TInv == /\ Types /\ BeforeInv /\ RenameInv /\ OpenInv /\ EntryInv /\ SourceInv /\ WalkInv
        /\ PlacedInv /\ TargetInv /\ NothingLost /\ OkMeansDone

-----------------------------------------------------------------------------
(* The type of an entry decides what it is in the destination.             *)
LEMMA ImageFacts ==
    /\ \A e \in Dirs : Image(e) = "dir"
    /\ \A e \in Links : Image(e) = "link"
    /\ \A e \in Files \cup Specials : Image(e) = "file"
BY TypesAssumption DEF Image

(* Hidden is one of the sets it is the union of, and the largest.          *)
LEMMA HiddenFacts ==
    /\ Hidden \subseteq Entries
    /\ \A e \in Hidden : Parent[e] \in closed \cup Hidden
    /\ \A below \in SUBSET Entries :
           (\A e \in below : Parent[e] \in closed \cup below) => below \subseteq Hidden
BY DEF Hidden

LEMMA HiddenSame == UNCHANGED given => Hidden' = Hidden
BY DEF Hidden, given

(* ++ leaves the iterator in directories it can read, and forgets none.    *)
LEMMA StepFacts ==
    ASSUME Types, OpenInv, EntryInv, pc = "next", SourceInv
    PROVE  /\ Step \in Seq(Dirs \cup {Root})
           /\ \A i \in DOMAIN Step : Step[i] \notin closed \cup Hidden
           /\ \A i \in DOMAIN open : \E j \in DOMAIN Step : Step[j] = open[i]
           /\ entry \in Dirs \ closed => \E j \in DOMAIN Step : Step[j] = entry
<1>1. CASE entry \in Dirs \ closed
  <2>1. Step = Append(open, entry) /\ open \in Seq(Dirs \cup {Root}) /\ entry \notin Hidden
    BY <1>1 DEF Step, Enter, Types, TypeOK, EntryInv, SourceInv, Entries
  <2>2. /\ Step \in Seq(Dirs \cup {Root}) /\ Len(Step) = Len(open) + 1
        /\ Step[Len(open) + 1] = entry /\ \A i \in DOMAIN open : Step[i] = open[i]
    BY <1>1, <2>1
  <2>3. DOMAIN Step = 1 .. (Len(open) + 1) /\ DOMAIN open = 1 .. Len(open) /\ Len(open) \in Nat
    BY <2>1, <2>2
  <2>4. \A i \in DOMAIN Step : i = Len(open) + 1 \/ i \in DOMAIN open
    BY <2>3
  <2> QED BY <1>1, <2>1, <2>2, <2>3, <2>4 DEF OpenInv
<1>2. CASE entry \notin Dirs \ closed
  <2>1. Step = open /\ open \in Seq(Dirs \cup {Root})
    BY <1>2 DEF Step, Enter, Types, TypeOK
  <2> QED BY <1>2, <2>1 DEF OpenInv
<1> QED BY <1>1, <1>2

-----------------------------------------------------------------------------
LEMMA InitHolds == Init => TInv
<1> SUFFICES ASSUME Init PROVE TInv
  OBVIOUS
<1>1. Types
  <2>1. dst \in [Entries -> {"none", "dir", "old", "part", "file", "link"}]
    BY DEF Init, OldTrees
  <2>2. target \in [Links -> {"none", "kept", "moved"}]
    BY DEF Init
  <2>3. closed \subseteq Dirs \cup {Root} /\ open \in Seq(Dirs \cup {Root})
    BY DEF Init
  <2> QED BY <2>1, <2>2, <2>3 DEF Init, Types, TypeOK, None
<1>2. src = Entries /\ seen = {} /\ mappings = {} /\ entry = None /\ open = << >> /\ ~warned
      /\ pc = "guards" /\ answer = "none" /\ \A e \in Entries : dst[e] # "link"
  BY DEF Init, OldTrees
<1>3. BeforeInv /\ RenameInv /\ OpenInv /\ PlacedInv
  BY <1>2 DEF BeforeInv, RenameInv, OpenInv, PlacedInv
<1>4. EntryInv /\ WalkInv
  BY <1>2, ParentAssumption DEF EntryInv, WalkInv, None, Body, Walk
<1>5. SourceInv
  BY <1>2, HiddenFacts DEF SourceInv, Walk, Body
<1>6. TargetInv /\ NothingLost /\ OkMeansDone
  BY <1>2 DEF TargetInv, NothingLost, OkMeansDone, Entries
<1> QED BY <1>1, <1>3, <1>4, <1>5, <1>6 DEF TInv

(* A call that answers "error" leaves everything as it is.                 *)
LEMMA ErrorKeeps ==
    ASSUME TInv, pc # "done", Return("error"), UNCHANGED <<given, Trees>>
    PROVE  TInv'
<1>1. Hidden' = Hidden
  BY HiddenSame
<1>2. pc' = "done" /\ answer' = "error" /\ UNCHANGED <<open, seen, entry, mappings, warned>>
      /\ UNCHANGED <<src, dst, target>> /\ UNCHANGED <<op, sameFs, closed, existed>>
  BY DEF Return, Trees, given
<1>3. Types' /\ BeforeInv' /\ RenameInv' /\ OpenInv'
  BY <1>1, <1>2 DEF TInv, Types, TypeOK, BeforeInv, RenameInv, OpenInv
<1>4. EntryInv' /\ SourceInv' /\ WalkInv'
  BY <1>1, <1>2 DEF TInv, EntryInv, SourceInv, WalkInv, Body, Walk, Renamed
<1>5. PlacedInv' /\ TargetInv' /\ NothingLost' /\ OkMeansDone'
  BY <1>2 DEF TInv, PlacedInv, TargetInv, TargetOf, Renamed, NothingLost, OkMeansDone, Image
<1> QED BY <1>3, <1>4, <1>5 DEF TInv

(* From the guards to the first ++.                                        *)
LEMMA GuardsPassKeeps == TInv /\ GuardsPass => TInv'
<1> SUFFICES ASSUME TInv, GuardsPass PROVE TInv'
  OBVIOUS
<1>1. Hidden' = Hidden
  BY HiddenSame DEF GuardsPass
<1>2. /\ pc = "guards" /\ pc' \in {"rename", "create"}
      /\ pc' = "rename" => op = "move" /\ ~existed
      /\ UNCHANGED <<open, seen, entry, mappings, warned, answer>>
      /\ UNCHANGED <<src, dst, target>> /\ UNCHANGED <<op, sameFs, closed, existed>>
  BY DEF GuardsPass, Goto, Trees, given
<1>3. Types' /\ BeforeInv' /\ RenameInv' /\ OpenInv'
  BY <1>1, <1>2 DEF TInv, Types, TypeOK, BeforeInv, RenameInv, OpenInv
<1>4. EntryInv' /\ SourceInv' /\ WalkInv'
  BY <1>1, <1>2 DEF TInv, EntryInv, SourceInv, WalkInv, Body, Walk, Renamed
<1>5. PlacedInv' /\ TargetInv' /\ NothingLost' /\ OkMeansDone'
  BY <1>2 DEF TInv, PlacedInv, TargetInv, TargetOf, Renamed, NothingLost, OkMeansDone, Image, Body
<1> QED BY <1>3, <1>4, <1>5 DEF TInv

LEMMA RenameKeeps == TInv /\ Rename => TInv'
<1> SUFFICES ASSUME TInv, Rename PROVE TInv'
  OBVIOUS
<1>1. Hidden' = Hidden
  BY HiddenSame DEF Rename
<1>2. /\ pc = "rename" /\ pc' = "done" /\ answer' = "ok" /\ src' = {}
      /\ sameFs /\ UNCHANGED <<open, seen, entry, mappings, warned>>
      /\ UNCHANGED <<op, sameFs, closed, existed>>
      /\ src = Entries /\ seen = {} /\ mappings = {} /\ entry = None /\ open = << >> /\ ~warned
  BY DEF Rename, Return, given, TInv, BeforeInv
<1>3. dst' = [e \in Entries |-> Image(e)] /\ target' = [l \in Links |-> "kept"]
  BY DEF Rename, Image
<1>4. op = "move" /\ ~existed
  BY <1>2 DEF TInv, RenameInv
<1>5. Types'
  BY <1>2, <1>3 DEF TInv, Types, TypeOK, Image
<1>6. Renamed'
  BY <1>2, <1>3, <1>4 DEF Renamed, Image
<1>7. BeforeInv' /\ RenameInv' /\ OpenInv' /\ EntryInv' /\ SourceInv' /\ WalkInv'
  BY <1>1, <1>2, <1>4, <1>6, ParentAssumption
     DEF BeforeInv, RenameInv, OpenInv, EntryInv, SourceInv, WalkInv, Body, Walk, None
<1>8. PlacedInv' /\ TargetInv'
  BY <1>2, <1>6 DEF PlacedInv, TargetInv
<1>9. NothingLost' /\ OkMeansDone'
  BY <1>6 DEF NothingLost, OkMeansDone, Renamed
<1> QED BY <1>5, <1>7, <1>8, <1>9 DEF TInv

LEMMA CreateDestinationKeeps == TInv /\ CreateDestination => TInv'
<1> SUFFICES ASSUME TInv, CreateDestination, ~Return("error") PROVE TInv'
  BY ErrorKeeps DEF CreateDestination
<1>1. Hidden' = Hidden
  BY HiddenSame DEF CreateDestination
<1>2. /\ pc = "create" /\ pc' = "next" /\ open' = Enter(Root, << >>)
      /\ UNCHANGED <<seen, entry, mappings, warned, answer>>
      /\ UNCHANGED <<src, dst, target>> /\ UNCHANGED <<op, sameFs, closed, existed>>
      /\ src = Entries /\ seen = {} /\ mappings = {} /\ entry = None /\ open = << >> /\ ~warned
  BY DEF CreateDestination, Trees, given, TInv, BeforeInv
<1>3. open' = IF Root \in closed THEN << >> ELSE <<Root>>
  BY <1>2 DEF Enter
<1>4. open' \in Seq(Dirs \cup {Root})
  <2>1. << >> \in Seq(Dirs \cup {Root}) /\ <<Root>> \in Seq(Dirs \cup {Root})
    OBVIOUS
  <2> QED BY <1>3, <2>1
<1>5. Types'
  BY <1>2, <1>4 DEF TInv, Types, TypeOK
<1>6. Root \notin Hidden
  BY HiddenFacts, ParentAssumption
<1>7. BeforeInv' /\ RenameInv' /\ OpenInv'
  BY <1>1, <1>2, <1>3, <1>6 DEF BeforeInv, RenameInv, OpenInv
<1>8. EntryInv' /\ SourceInv'
  BY <1>1, <1>2, HiddenFacts, ParentAssumption DEF EntryInv, SourceInv, None, Body, Walk, Entries
<1>9. WalkInv'
  <2> SUFFICES ASSUME NEW e \in Entries PROVE Awaited(e)'
    BY <1>2 DEF WalkInv
  <2>1. Parent[e] \in Dirs \cup {Root}
    BY ParentAssumption
  <2>2. CASE Parent[e] = Root /\ Root \notin closed
    BY <1>2, <1>3, <2>2 DEF Awaited
  <2>3. CASE Parent[e] \in closed \cup Dirs
    BY <1>2, <2>3 DEF Awaited
  <2> QED BY <2>1, <2>2, <2>3
<1>10. PlacedInv' /\ TargetInv' /\ NothingLost' /\ OkMeansDone'
  BY <1>2 DEF TInv, PlacedInv, TargetInv, TargetOf, Renamed, NothingLost, OkMeansDone
<1> QED BY <1>5, <1>7, <1>8, <1>9, <1>10 DEF TInv

-----------------------------------------------------------------------------
(* The walk.                                                               *)
LEMMA NextEntryKeeps == TInv /\ NextEntry => TInv'
<1> SUFFICES ASSUME TInv, NextEntry PROVE TInv'
  OBVIOUS
<1>1. Hidden' = Hidden
  BY HiddenSame DEF NextEntry
<1> PICK e \in Unseen(Last(Step)) :
      /\ entry' = e /\ seen' = seen \cup {e}
      /\ \/ e \in Dirs /\ pc' = "mkdir"
         \/ e \in Links /\ pc' = "readlink"
         \/ e \in Files \cup Specials /\ pc' = "file"
  BY DEF NextEntry
<1>2. /\ pc = "next" /\ Step # << >> /\ open' = Step
      /\ UNCHANGED <<mappings, warned, answer>>
      /\ UNCHANGED <<src, dst, target>> /\ UNCHANGED <<op, sameFs, closed, existed>>
  BY DEF NextEntry, Trees, given
<1>3. e \in src \ seen /\ Parent[e] = Last(Step) /\ e \in Entries
  BY DEF Unseen, TInv, Types, TypeOK
<1>4. pc' \in Body
  BY DEF Body
<1>5. /\ Step \in Seq(Dirs \cup {Root})
      /\ \A i \in DOMAIN Step : Step[i] \notin closed \cup Hidden
      /\ \A i \in DOMAIN open : \E j \in DOMAIN Step : Step[j] = open[i]
      /\ entry \in Dirs \ closed => \E j \in DOMAIN Step : Step[j] = entry
  BY <1>2, StepFacts DEF TInv
<1>6. Len(Step) \in DOMAIN Step
  BY <1>2, <1>5
<1>7. e \notin Hidden
  BY <1>3, <1>5, <1>6, HiddenFacts DEF Last
<1>8. Types'
  BY <1>2, <1>3, <1>4, <1>5 DEF TInv, Types, TypeOK, Body
<1>9. BeforeInv' /\ RenameInv' /\ OpenInv'
  BY <1>1, <1>2, <1>4, <1>5 DEF BeforeInv, RenameInv, OpenInv, Body
<1>10. EntryInv'
  BY <1>2, <1>3, TypesAssumption DEF EntryInv, Body
<1>11. SourceInv'
  BY <1>1, <1>2, <1>3, <1>4, <1>7 DEF TInv, SourceInv, Walk, Body, Renamed
<1>12. WalkInv'
  <2>1. pc' \in Walk /\ pc' \notin {"removeAll", "links"}
    BY <1>4 DEF Walk, Body
  <2>2. ASSUME NEW x \in src \ seen, x # e PROVE Awaited(x)'
    <3>1. Awaited(x)
      BY <1>2 DEF TInv, WalkInv, Walk
    <3>2. CASE Parent[x] \in closed \cup (Dirs \ seen)
      BY <3>2, <1>2 DEF Awaited
    <3>3. CASE entry \in Dirs /\ Parent[x] = entry
      BY <3>3, <1>2, <1>5 DEF Awaited
    <3>4. CASE \E i \in DOMAIN open : open[i] = Parent[x]
      BY <3>4, <1>2, <1>5 DEF Awaited
    <3> QED BY <3>1, <3>2, <3>3, <3>4 DEF Awaited
  <2> QED BY <2>1, <2>2, <1>2 DEF WalkInv
<1>13. PlacedInv' /\ TargetInv' /\ NothingLost' /\ OkMeansDone'
  <2>1. Image(e)' = Image(e) /\ \A x \in Entries : Image(x)' = Image(x)
    BY DEF Image
  <2>2. pc \notin Body
    BY <1>2 DEF Body
  <2>3. PlacedInv'
    BY <1>2, <1>3, <1>4, <2>1, <2>2 DEF TInv, Types, TypeOK, PlacedInv, Body
  <2> QED BY <1>2, <1>4, <2>3 DEF TInv, TargetInv, TargetOf, Renamed, NothingLost, OkMeansDone, PlacedInv
<1> QED BY <1>8, <1>9, <1>10, <1>11, <1>12, <1>13 DEF TInv

LEMMA AscendKeeps == TInv /\ Ascend => TInv'
<1> SUFFICES ASSUME TInv, Ascend PROVE TInv'
  OBVIOUS
<1>1. Hidden' = Hidden
  BY HiddenSame DEF Ascend
<1>2. /\ pc = "next" /\ pc' = pc /\ Step # << >> /\ open' = Front(Step) /\ entry' = None
      /\ Unseen(Last(Step)) = {}
      /\ UNCHANGED <<seen, mappings, warned, answer>>
      /\ UNCHANGED <<src, dst, target>> /\ UNCHANGED <<op, sameFs, closed, existed>>
  BY DEF Ascend, Trees, given
<1>3. /\ Step \in Seq(Dirs \cup {Root})
      /\ \A i \in DOMAIN Step : Step[i] \notin closed \cup Hidden
      /\ \A i \in DOMAIN open : \E j \in DOMAIN Step : Step[j] = open[i]
      /\ entry \in Dirs \ closed => \E j \in DOMAIN Step : Step[j] = entry
  BY <1>2, StepFacts DEF TInv
<1>4. /\ open' \in Seq(Dirs \cup {Root}) /\ DOMAIN open' = 1 .. (Len(Step) - 1)
      /\ \A i \in DOMAIN open' : i \in DOMAIN Step /\ open'[i] = Step[i]
      /\ DOMAIN Step = 1 .. Len(Step) /\ Len(Step) \in Nat \ {0}
  BY <1>2, <1>3 DEF Front
<1>5. Types' /\ BeforeInv' /\ RenameInv' /\ OpenInv'
  BY <1>1, <1>2, <1>3, <1>4 DEF TInv, Types, TypeOK, BeforeInv, RenameInv, OpenInv
<1>6. EntryInv' /\ SourceInv'
  BY <1>1, <1>2, ParentAssumption DEF TInv, EntryInv, SourceInv, None, Body, Walk, Renamed
<1>7. WalkInv'
  <2> SUFFICES ASSUME NEW e \in src \ seen PROVE Awaited(e)'
    BY <1>2 DEF WalkInv
  <2>1. Awaited(e)
    BY <1>2 DEF TInv, WalkInv, Walk
  <2>2. CASE Parent[e] \in closed \cup (Dirs \ seen)
    BY <2>2, <1>2 DEF Awaited
  <2>3. CASE \E j \in DOMAIN Step : Step[j] = Parent[e]
    <3> PICK j \in DOMAIN Step : Step[j] = Parent[e]
      BY <2>3
    <3>1. Parent[e] # Last(Step)
      BY <1>2 DEF Unseen
    <3>2. j # Len(Step)
      BY <3>1 DEF Last
    <3>3. j \in DOMAIN open'
      BY <3>2, <1>4
    <3> QED BY <3>3, <1>4 DEF Awaited
  <2> QED BY <2>1, <2>2, <2>3, <1>3 DEF Awaited
<1>8. PlacedInv' /\ TargetInv' /\ NothingLost' /\ OkMeansDone'
  BY <1>2 DEF TInv, PlacedInv, TargetInv, TargetOf, Renamed, NothingLost, OkMeansDone, Image, Body
<1> QED BY <1>5, <1>6, <1>7, <1>8 DEF TInv

(* What the iterator has not given when it ends is hidden from it.         *)
LEMMA WalkEndsKeeps == TInv /\ WalkEnds => TInv'
<1> SUFFICES ASSUME TInv, WalkEnds PROVE TInv'
  OBVIOUS
<1>1. Hidden' = Hidden
  BY HiddenSame DEF WalkEnds
<1>2. /\ pc = "next" /\ Step = << >>
      /\ IF op = "move" THEN pc' = "removeAll" ELSE pc' = "links"
      /\ UNCHANGED <<open, seen, entry, mappings, warned, answer>>
      /\ UNCHANGED <<src, dst, target>> /\ UNCHANGED <<op, sameFs, closed, existed>>
  BY DEF WalkEnds, Goto, Trees, given
<1>3. Entries \ Hidden \subseteq seen
  <2>1. /\ \A i \in DOMAIN open : FALSE
        /\ entry \notin Dirs \ closed
    <3>1. DOMAIN Step = {}
      BY <1>2
    <3> QED BY <1>2, <3>1, StepFacts DEF TInv
  <2>2. \A e \in src \ seen : Awaited(e)
    BY <1>2 DEF TInv, WalkInv, Walk
  <2>3. \A e \in src \ seen : Parent[e] \in closed \cup (Dirs \ seen)
    BY <2>1, <2>2 DEF Awaited
  <2>4. Dirs \subseteq src /\ src \subseteq Entries /\ Entries \ src \subseteq seen
    BY <1>2 DEF TInv, SourceInv, Walk, Types, TypeOK
  <2>5. src \ seen \subseteq Hidden
    BY <2>3, <2>4, HiddenFacts
  <2> QED BY <2>4, <2>5
<1>4. Types' /\ BeforeInv' /\ RenameInv' /\ OpenInv'
  BY <1>1, <1>2 DEF TInv, Types, TypeOK, BeforeInv, RenameInv, OpenInv
<1>5. EntryInv' /\ SourceInv' /\ WalkInv'
  BY <1>1, <1>2, <1>3 DEF TInv, EntryInv, SourceInv, WalkInv, Walk, Body, Renamed
<1>6. PlacedInv' /\ TargetInv' /\ NothingLost' /\ OkMeansDone'
  BY <1>2 DEF TInv, PlacedInv, TargetInv, TargetOf, Renamed, NothingLost, OkMeansDone, Image, Body
<1> QED BY <1>4, <1>5, <1>6 DEF TInv

(* A step of the body of the loop changes the entry at hand only: it goes  *)
(* on, having placed it, noted it or reported it, or ends with an error.   *)
LEMMA BodyKeeps ==
    ASSUME TInv, pc \in Body, UNCHANGED <<given, target, open, seen, entry>>,
           dst' \in [Entries -> {"none", "dir", "old", "part", "file", "link"}],
           \A e \in Entries \ {entry} : dst'[e] = dst[e],
           dst'[entry] = dst[entry] \/ dst'[entry] # "link",
           src' \in {src, src \ {entry}},
           src' # src => op = "move" /\ entry \notin Dirs,
           entry \in src' \/ dst'[entry] = Image(entry),
           mappings' \in {mappings, mappings \cup {entry}},
           mappings' # mappings => entry \in Links,
           warned' \in BOOLEAN, warned => warned', warned' => warned \/ op = "copy",
           \/ pc' = "next" /\ answer' = "none"
              /\ (dst'[entry] = Image(entry) \/ entry \in mappings' \/ warned')
           \/ pc' = "done" /\ answer' = "error"
           \/ /\ pc' \in {"cross", "remove"} /\ answer' = "none" /\ op = "move"
              /\ entry \in src' /\ entry \in Files \cup Specials
              /\ pc' = "remove" => dst'[entry] = Image(entry)
    PROVE  TInv'
<1>1. Hidden' = Hidden
  BY HiddenSame
<1>2. UNCHANGED <<op, sameFs, closed, existed>>
  BY DEF given
<1>3. /\ entry \in src /\ entry \in seen /\ entry \in Entries /\ entry \notin Hidden
      /\ pc \notin {"guards", "rename", "create", "removeAll", "links", "done"} /\ pc \in Walk
  BY DEF TInv, Types, TypeOK, EntryInv, SourceInv, Body, Walk
<1>4. \A e \in Entries : Image(e)' = Image(e)
  BY DEF Image
<1>5. Types' /\ BeforeInv' /\ RenameInv' /\ OpenInv'
  BY <1>1, <1>2, <1>3 DEF TInv, Types, TypeOK, BeforeInv, RenameInv, OpenInv
<1>6. EntryInv'
  BY <1>2, <1>3, <1>4 DEF TInv, EntryInv, Body
<1>7. SourceInv'
  <2>1. ~Renamed
    BY <1>3 DEF Renamed
  <2> QED BY <1>1, <1>2, <1>3, <2>1 DEF TInv, SourceInv, Walk, Body
<1>8. WalkInv'
  BY <1>2, <1>3 DEF TInv, WalkInv, Walk, Body, Awaited
<1>9. PlacedInv'
  <2>1. seen \subseteq Entries
    BY DEF TInv, Types, TypeOK
  <2>2. mappings' \subseteq seen' /\ (op' # "copy" => ~warned') /\ (answer' = "none" <=> pc' # "done")
    BY <1>2, <1>3, <2>1 DEF TInv, PlacedInv
  <2>3. ASSUME NEW e \in seen, e # entry
        PROVE  \/ dst'[e] = Image(e) \/ e \in mappings' \/ warned' \/ answer' = "error"
    <3>1. answer # "error"
      BY <1>3 DEF TInv, PlacedInv
    <3>2. dst[e] = Image(e) \/ e \in mappings \/ warned
      BY <2>3, <3>1 DEF TInv, PlacedInv
    <3>3. dst'[e] = dst[e] /\ mappings \subseteq mappings'
      BY <2>1, <2>3
    <3> QED BY <3>2, <3>3
  <2>4. \/ dst'[entry] = Image(entry) \/ entry \in mappings' \/ warned' \/ answer' = "error"
        \/ pc' \in Body
    BY DEF Body
  <2> QED BY <1>2, <1>4, <2>1, <2>2, <2>3, <2>4 DEF PlacedInv
<1>10. TargetInv'
  <2>1. ~Renamed
    BY <1>3 DEF Renamed
  <2> QED BY <1>3, <2>1 DEF TInv, TargetInv, TargetOf, Entries
<1>11. NothingLost' /\ OkMeansDone'
  <2>1. answer # "error"
    BY <1>3 DEF TInv, PlacedInv
  <2> QED BY <1>3, <1>4, <2>1 DEF TInv, NothingLost, OkMeansDone
<1> QED BY <1>5, <1>6, <1>7, <1>8, <1>9, <1>10, <1>11 DEF TInv

LEMMA SetDstFacts ==
    ASSUME TInv, entry \in src, NEW what \in {"dir", "part", "file"}, SetDst(entry, what)
    PROVE  /\ dst' \in [Entries -> {"none", "dir", "old", "part", "file", "link"}]
           /\ dst'[entry] = what
           /\ \A e \in Entries \ {entry} : dst'[e] = dst[e]
<1>1. /\ dst \in [Entries -> {"none", "dir", "old", "part", "file", "link"}]
      /\ dst' = [dst EXCEPT ![entry] = what] /\ entry \in Entries
  BY DEF SetDst, TInv, Types, TypeOK
<1> QED BY <1>1

LEMMA MakeDirKeeps == TInv /\ MakeDir => TInv'
<1> SUFFICES ASSUME TInv, MakeDir PROVE TInv'
  OBVIOUS
<1>1. /\ pc = "mkdir" /\ entry \in Dirs /\ entry \in src /\ pc \in Body
      /\ answer = "none" /\ warned \in BOOLEAN /\ Image(entry) = "dir"
      /\ dst \in [Entries -> {"none", "dir", "old", "part", "file", "link"}]
  BY ImageFacts DEF MakeDir, TInv, EntryInv, Body, PlacedInv, Types, TypeOK
<1>2. UNCHANGED <<given, src, target, open, seen, entry, mappings>>
  BY DEF MakeDir, Failed, Continue, Goto, Return
<1>3. CASE SetDst(entry, "dir") /\ Continue
  BY <1>1, <1>2, <1>3, SetDstFacts, BodyKeeps DEF Continue, Goto, given
<1>4. CASE Failed /\ UNCHANGED dst
  BY <1>1, <1>2, <1>4, BodyKeeps DEF Failed, Stops, Return, given
<1> QED BY <1>3, <1>4 DEF MakeDir

LEMMA CopyFileKeeps == TInv /\ CopyFile => TInv'
<1> SUFFICES ASSUME TInv, CopyFile PROVE TInv'
  OBVIOUS
<1>1. /\ pc = "file" /\ entry \in Files /\ entry \in src /\ pc \in Body
      /\ answer = "none" /\ warned \in BOOLEAN /\ Image(entry) = "file"
      /\ dst \in [Entries -> {"none", "dir", "old", "part", "file", "link"}]
  BY ImageFacts DEF CopyFile, TInv, EntryInv, Body, PlacedInv, Types, TypeOK
<1>2. UNCHANGED <<given, src, target, open, seen, entry, mappings>>
  BY DEF CopyFile, Failed, Continue, Goto, Return
<1>3. CASE SetDst(entry, "file") /\ Continue
  BY <1>1, <1>2, <1>3, SetDstFacts, BodyKeeps DEF Continue, Goto, given
<1>4. CASE SetDst(entry, "part") /\ Failed
  BY <1>1, <1>2, <1>4, SetDstFacts, BodyKeeps DEF Failed, Stops, Return, given
<1>5. CASE Failed /\ UNCHANGED dst
  BY <1>1, <1>2, <1>5, BodyKeeps DEF Failed, Stops, Return, given
<1> QED BY <1>3, <1>4, <1>5 DEF CopyFile

LEMMA UnknownTypeKeeps == TInv /\ UnknownType => TInv'
<1> SUFFICES ASSUME TInv, UnknownType PROVE TInv'
  OBVIOUS
<1>1. /\ pc = "file" /\ entry \in src /\ pc \in Body
      /\ answer = "none" /\ warned \in BOOLEAN
      /\ dst \in [Entries -> {"none", "dir", "old", "part", "file", "link"}]
  BY DEF UnknownType, TInv, EntryInv, Body, PlacedInv, Types, TypeOK
<1>2. UNCHANGED <<given, src, dst, target, open, seen, entry, mappings>> /\ Failed
  BY DEF UnknownType, Failed, Return, Trees
<1> QED BY <1>1, <1>2, BodyKeeps DEF Failed, Stops, Return, given

LEMMA RenameEntryKeeps == TInv /\ RenameEntry => TInv'
<1> SUFFICES ASSUME TInv, RenameEntry PROVE TInv'
  OBVIOUS
<1>1. /\ pc = "file" /\ op = "move" /\ entry \in Files \cup Specials /\ entry \in src /\ pc \in Body
      /\ answer = "none" /\ warned \in BOOLEAN /\ Image(entry) = "file" /\ entry \notin Dirs
      /\ dst \in [Entries -> {"none", "dir", "old", "part", "file", "link"}]
  BY ImageFacts, TypesAssumption
     DEF RenameEntry, TInv, EntryInv, Body, PlacedInv, Types, TypeOK
<1>2. UNCHANGED <<given, target, open, seen, entry, mappings, warned>>
  BY DEF RenameEntry, Continue, Goto, Return
<1>3. CASE SetDst(entry, "file") /\ src' = src \ {entry} /\ Continue
  BY <1>1, <1>2, <1>3, SetDstFacts, BodyKeeps DEF Continue, Goto, given
<1>4. CASE Goto("cross") /\ UNCHANGED <<src, dst>>
  BY <1>1, <1>2, <1>4, BodyKeeps DEF Goto, given
<1>5. CASE Return("error") /\ UNCHANGED <<src, dst>>
  BY <1>1, <1>2, <1>5, BodyKeeps DEF Return, given
<1> QED BY <1>3, <1>4, <1>5 DEF RenameEntry

LEMMA CopyAcrossKeeps == TInv /\ CopyAcross => TInv'
<1> SUFFICES ASSUME TInv, CopyAcross PROVE TInv'
  OBVIOUS
<1>1. /\ pc = "cross" /\ op = "move" /\ entry \in Files \cup Specials /\ entry \in src /\ pc \in Body
      /\ answer = "none" /\ warned \in BOOLEAN /\ Image(entry) = "file"
      /\ dst \in [Entries -> {"none", "dir", "old", "part", "file", "link"}]
  BY ImageFacts DEF CopyAcross, TInv, EntryInv, Body, PlacedInv, Types, TypeOK
<1>2. UNCHANGED <<given, src, target, open, seen, entry, mappings, warned>>
  BY DEF CopyAcross, Goto, Return
<1>3. CASE SetDst(entry, "file") /\ Goto("remove")
  BY <1>1, <1>2, <1>3, SetDstFacts, BodyKeeps DEF Goto, given
<1>4. CASE SetDst(entry, "part") /\ Return("error")
  BY <1>1, <1>2, <1>4, SetDstFacts, BodyKeeps DEF Return, given
<1>5. CASE Return("error") /\ UNCHANGED dst
  BY <1>1, <1>2, <1>5, BodyKeeps DEF Return, given
<1> QED BY <1>3, <1>4, <1>5 DEF CopyAcross

LEMMA RemoveEntryKeeps == TInv /\ RemoveEntry => TInv'
<1> SUFFICES ASSUME TInv, RemoveEntry PROVE TInv'
  OBVIOUS
<1>1. /\ pc = "remove" /\ op = "move" /\ entry \notin Dirs /\ entry \in src /\ pc \in Body
      /\ answer = "none" /\ warned \in BOOLEAN /\ dst[entry] = Image(entry)
      /\ dst \in [Entries -> {"none", "dir", "old", "part", "file", "link"}]
  BY TypesAssumption DEF RemoveEntry, TInv, EntryInv, Body, PlacedInv, Types, TypeOK
<1>2. UNCHANGED <<given, dst, target, open, seen, entry, mappings, warned>>
  BY DEF RemoveEntry, Continue, Goto, Return
<1>3. CASE src' = src \ {entry} /\ Continue
  BY <1>1, <1>2, <1>3, BodyKeeps DEF Continue, Goto, given
<1>4. CASE Return("error") /\ UNCHANGED src
  BY <1>1, <1>2, <1>4, BodyKeeps DEF Return, given
<1> QED BY <1>3, <1>4 DEF RemoveEntry

LEMMA ReadLinkKeeps == TInv /\ ReadLink => TInv'
<1> SUFFICES ASSUME TInv, ReadLink PROVE TInv'
  OBVIOUS
<1>1. /\ pc = "readlink" /\ entry \in Links /\ entry \in src /\ pc \in Body
      /\ answer = "none" /\ warned \in BOOLEAN
      /\ dst \in [Entries -> {"none", "dir", "old", "part", "file", "link"}]
  BY DEF ReadLink, TInv, EntryInv, Body, PlacedInv, Types, TypeOK
<1>2. /\ UNCHANGED <<given, src, dst, target, open, seen, entry, warned, answer>>
      /\ mappings' = mappings \cup {entry} /\ pc' = "next"
  BY DEF ReadLink, Trees
<1> QED BY <1>1, <1>2, BodyKeeps DEF given

-----------------------------------------------------------------------------
(* After the walk.                                                         *)
LEMMA RemoveAllKeeps == TInv /\ RemoveAll => TInv'
<1> SUFFICES ASSUME TInv, RemoveAll, ~(Return("error") /\ UNCHANGED src) PROVE TInv'
  BY ErrorKeeps DEF RemoveAll, Trees
<1>1. Hidden' = Hidden
  BY HiddenSame DEF RemoveAll
<1>2. /\ pc = "removeAll" /\ pc' \in {"removeAll", "links"} /\ (pc' = "links" => src' = {})
      /\ UNCHANGED <<open, seen, entry, mappings, warned, answer>>
      /\ UNCHANGED <<dst, target>> /\ UNCHANGED <<op, sameFs, closed, existed>>
  BY DEF RemoveAll, Goto, given
<1>3. op = "move" /\ ~warned /\ answer = "none" /\ Entries \ Hidden \subseteq seen /\ ~Renamed
  BY <1>2 DEF TInv, EntryInv, PlacedInv, WalkInv, Renamed
<1>4. src' \subseteq src /\ src \ src' \subseteq Entries \ Hidden
  BY DEF RemoveAll, Removable, TInv, Types, TypeOK, Goto
<1>5. \A e \in Entries : Image(e)' = Image(e)
  BY DEF Image
<1>6. Types' /\ BeforeInv' /\ RenameInv' /\ OpenInv'
  BY <1>1, <1>2, <1>4 DEF TInv, Types, TypeOK, BeforeInv, RenameInv, OpenInv
<1>7. EntryInv' /\ SourceInv' /\ WalkInv'
  BY <1>1, <1>2, <1>3, <1>4 DEF TInv, EntryInv, SourceInv, WalkInv, Body, Walk
<1>8. PlacedInv' /\ TargetInv'
  BY <1>2, <1>3, <1>5 DEF TInv, PlacedInv, TargetInv, TargetOf, Body
<1>9. NothingLost'
  <2>1. ASSUME NEW e \in Entries, e \notin Hidden
        PROVE  dst[e] = Image(e) \/ e \in mappings
    BY <1>2, <1>3, <2>1 DEF TInv, PlacedInv, Body
  <2>2. mappings \subseteq Links
    BY DEF TInv, Types, TypeOK
  <2>3. ASSUME NEW e \in Entries
        PROVE  \/ e \in src' \/ dst[e] = Image(e)
               \/ e \in Links /\ e \in mappings
    <3>1. CASE e \in src \ src'
      <4>1. e \notin Hidden
        BY <1>4, <3>1
      <4> QED BY <2>1, <2>2, <4>1
    <3>2. CASE e \notin src
      <4>1. answer # "error"
        BY <1>3
      <4> QED BY <3>2, <4>1 DEF TInv, NothingLost
    <3> QED BY <3>1, <3>2
  <2> QED BY <1>2, <1>5, <2>3 DEF NothingLost
<1>10. OkMeansDone'
  BY <1>2, <1>3 DEF OkMeansDone
<1> QED BY <1>6, <1>7, <1>8, <1>9, <1>10 DEF TInv

LEMMA MakeLinkKeeps == TInv /\ MakeLink => TInv'
<1> SUFFICES ASSUME TInv, MakeLink PROVE TInv'
  OBVIOUS
<1>1. Hidden' = Hidden
  BY HiddenSame DEF MakeLink
<1> PICK l \in mappings :
      /\ mappings' = mappings \ {l}
      /\ \/ /\ dst[l] = "none" /\ SetDst(l, "link") /\ target' = [target EXCEPT ![l] = TargetOf(l)]
            /\ UNCHANGED <<pc, warned, answer>>
         \/ /\ Stops /\ pc' = "done" /\ answer' = "error"
            /\ UNCHANGED <<dst, target, warned>>
         \/ /\ ~Stops /\ warned' = TRUE
            /\ UNCHANGED <<dst, target, pc, answer>>
  BY DEF MakeLink
<1>2. /\ pc = "links" /\ UNCHANGED <<src, open, seen, entry>>
      /\ UNCHANGED <<op, sameFs, closed, existed>>
  BY DEF MakeLink, given
<1>3. /\ l \in Links /\ l \in Entries /\ l \in seen /\ Image(l) = "link" /\ seen \subseteq Entries
      /\ Links \subseteq Entries
      /\ answer = "none" /\ warned \in BOOLEAN /\ ~Renamed
      /\ dst \in [Entries -> {"none", "dir", "old", "part", "file", "link"}]
      /\ target \in [Links -> {"none", "kept", "moved"}]
  BY <1>2, ImageFacts DEF TInv, Types, TypeOK, PlacedInv, Renamed, Entries
<1>4. \A e \in Entries : Image(e)' = Image(e)
  BY DEF Image
<1>5. CASE SetDst(l, "link") /\ target' = [target EXCEPT ![l] = TargetOf(l)]
           /\ UNCHANGED <<pc, warned, answer>>
  <2>1. /\ dst' \in [Entries -> {"none", "dir", "old", "part", "file", "link"}]
        /\ dst'[l] = "link" /\ \A e \in Entries \ {l} : dst'[e] = dst[e]
    BY <1>3, <1>5 DEF SetDst
  <2>2. /\ target' \in [Links -> {"none", "kept", "moved"}]
        /\ target'[l] = TargetOf(l) /\ \A e \in Links \ {l} : target'[e] = target[e]
    BY <1>3, <1>5 DEF TargetOf
  <2>3. Types' /\ BeforeInv' /\ RenameInv' /\ OpenInv'
    BY <1>1, <1>2, <1>5, <2>1, <2>2 DEF TInv, Types, TypeOK, BeforeInv, RenameInv, OpenInv
  <2>4. EntryInv' /\ SourceInv' /\ WalkInv'
    BY <1>1, <1>2, <1>3, <1>5 DEF TInv, EntryInv, SourceInv, WalkInv, Body, Walk
  <2>5. PlacedInv'
    BY <1>2, <1>3, <1>4, <1>5, <2>1 DEF TInv, PlacedInv, Body
  <2>6. TargetInv'
    BY <1>2, <1>3, <1>5, <2>1, <2>2 DEF TInv, TargetInv, TargetOf
  <2>7. NothingLost' /\ OkMeansDone'
    BY <1>2, <1>3, <1>4, <1>5, <2>1 DEF TInv, NothingLost, OkMeansDone
  <2> QED BY <2>3, <2>4, <2>5, <2>6, <2>7 DEF TInv
<1>6. CASE Stops /\ pc' = "done" /\ answer' = "error" /\ UNCHANGED <<dst, target, warned>>
  <2>1. Types' /\ BeforeInv' /\ RenameInv' /\ OpenInv'
    BY <1>1, <1>2, <1>6 DEF TInv, Types, TypeOK, BeforeInv, RenameInv, OpenInv
  <2>2. EntryInv' /\ SourceInv' /\ WalkInv'
    BY <1>1, <1>2, <1>3, <1>6 DEF TInv, EntryInv, SourceInv, WalkInv, Body, Walk
  <2>3. PlacedInv' /\ TargetInv' /\ NothingLost' /\ OkMeansDone'
    BY <1>2, <1>3, <1>4, <1>6
       DEF TInv, PlacedInv, TargetInv, TargetOf, NothingLost, OkMeansDone
  <2> QED BY <2>1, <2>2, <2>3 DEF TInv
<1>7. CASE ~Stops /\ warned' = TRUE /\ UNCHANGED <<dst, target, pc, answer>>
  <2>1. Types' /\ BeforeInv' /\ RenameInv' /\ OpenInv'
    BY <1>1, <1>2, <1>7 DEF TInv, Types, TypeOK, BeforeInv, RenameInv, OpenInv
  <2>2. EntryInv' /\ SourceInv' /\ WalkInv'
    BY <1>1, <1>2, <1>3, <1>7 DEF TInv, EntryInv, SourceInv, WalkInv, Body, Walk
  <2>3. PlacedInv' /\ TargetInv'
    BY <1>2, <1>3, <1>4, <1>7 DEF TInv, PlacedInv, TargetInv, TargetOf, Stops
  <2>4. src = Entries
    BY <1>7 DEF TInv, SourceInv, Stops
  <2>5. NothingLost' /\ OkMeansDone'
    BY <1>2, <1>3, <1>7, <2>4 DEF NothingLost, OkMeansDone, Entries
  <2> QED BY <2>1, <2>2, <2>3, <2>5 DEF TInv
<1> QED BY <1>5, <1>6, <1>7

LEMMA FinishKeeps == TInv /\ Finish => TInv'
<1> SUFFICES ASSUME TInv, Finish PROVE TInv'
  OBVIOUS
<1>1. Hidden' = Hidden
  BY HiddenSame DEF Finish
<1>2. /\ pc = "links" /\ mappings = {} /\ pc' = "done"
      /\ answer' = IF warned THEN "warnings" ELSE "ok"
      /\ UNCHANGED <<open, seen, entry, mappings, warned>>
      /\ UNCHANGED <<src, dst, target>> /\ UNCHANGED <<op, sameFs, closed, existed>>
  BY DEF Finish, Return, Trees, given
<1>3. \A e \in Entries : Image(e)' = Image(e)
  BY DEF Image
<1>4. answer = "none" /\ ~Renamed
  BY <1>2 DEF TInv, PlacedInv, Renamed
<1>5. Types' /\ BeforeInv' /\ RenameInv' /\ OpenInv'
  BY <1>1, <1>2 DEF TInv, Types, TypeOK, BeforeInv, RenameInv, OpenInv
<1>6. EntryInv' /\ SourceInv' /\ WalkInv'
  BY <1>1, <1>2, <1>4 DEF TInv, EntryInv, SourceInv, WalkInv, Body, Walk
<1>7. ~warned => \A e \in seen : dst[e] = Image(e)
  BY <1>2, <1>4 DEF TInv, PlacedInv, Body
<1>8. PlacedInv' /\ TargetInv' /\ NothingLost'
  BY <1>2, <1>3, <1>4, <1>7 DEF TInv, PlacedInv, TargetInv, TargetOf, NothingLost, Body
<1>9. OkMeansDone'
  <2> SUFFICES ASSUME ~warned
               PROVE  /\ \A e \in Entries \ Hidden : dst[e] = Image(e)
                      /\ \A l \in Links \ Hidden : target[l] = (IF l \in Intra THEN "moved" ELSE "kept")
                      /\ op = "move" => (src = {} /\ Hidden = {})
    BY <1>1, <1>2, <1>3 DEF OkMeansDone
  <2>1. \A e \in Entries \ Hidden : dst[e] = Image(e)
    BY <1>2, <1>7 DEF TInv, WalkInv
  <2>2. ASSUME NEW l \in Links \ Hidden
        PROVE  target[l] = (IF l \in Intra THEN "moved" ELSE "kept")
    <3>1. dst[l] = "link"
      BY <2>1, ImageFacts DEF Entries
    <3> QED BY <3>1, <1>4 DEF TInv, TargetInv, TargetOf
  <2>3. op = "move" => (src = {} /\ Hidden = {})
    BY <1>2, <1>4 DEF TInv, SourceInv
  <2> QED BY <2>1, <2>2, <2>3
<1> QED BY <1>5, <1>6, <1>8, <1>9 DEF TInv

(* RenameFails and Throws only end the call, or go on to the copy.         *)
LEMMA RenameFailsKeeps == TInv /\ RenameFails => TInv'
<1> SUFFICES ASSUME TInv, RenameFails, ~Return("error") PROVE TInv'
  BY ErrorKeeps DEF RenameFails
<1>1. Hidden' = Hidden
  BY HiddenSame DEF RenameFails
<1>2. /\ pc = "rename" /\ pc' = "create"
      /\ UNCHANGED <<open, seen, entry, mappings, warned, answer>>
      /\ UNCHANGED <<src, dst, target>> /\ UNCHANGED <<op, sameFs, closed, existed>>
  BY DEF RenameFails, Goto, Trees, given
<1>3. Types' /\ BeforeInv' /\ RenameInv' /\ OpenInv'
  BY <1>1, <1>2 DEF TInv, Types, TypeOK, BeforeInv, RenameInv, OpenInv
<1>4. EntryInv' /\ SourceInv' /\ WalkInv'
  BY <1>1, <1>2 DEF TInv, EntryInv, SourceInv, WalkInv, Body, Walk, Renamed
<1>5. PlacedInv' /\ TargetInv' /\ NothingLost' /\ OkMeansDone'
  BY <1>2 DEF TInv, PlacedInv, TargetInv, TargetOf, Renamed, NothingLost, OkMeansDone, Image, Body
<1> QED BY <1>3, <1>4, <1>5 DEF TInv

LEMMA StutterKeeps == TInv /\ UNCHANGED vars => TInv'
<1> SUFFICES ASSUME TInv, UNCHANGED vars PROVE TInv'
  OBVIOUS
<1>1. Hidden' = Hidden
  BY HiddenSame DEF vars, given
<1>2. Types' /\ BeforeInv' /\ RenameInv' /\ OpenInv'
  BY <1>1 DEF vars, TInv, Types, TypeOK, BeforeInv, RenameInv, OpenInv
<1>3. EntryInv' /\ SourceInv' /\ WalkInv'
  BY <1>1 DEF vars, TInv, EntryInv, SourceInv, WalkInv, Awaited, Renamed, Image
<1>4. PlacedInv' /\ TargetInv'
  BY DEF vars, TInv, PlacedInv, TargetInv, TargetOf, Renamed, Image
<1>5. NothingLost' /\ OkMeansDone'
  BY <1>1 DEF vars, TInv, NothingLost, OkMeansDone, Image
<1> QED BY <1>2, <1>3, <1>4, <1>5 DEF TInv

-----------------------------------------------------------------------------
LEMMA StepKeeps == TInv /\ [Next]_vars => TInv'
<1> SUFFICES ASSUME TInv, [Next]_vars PROVE TInv'
  OBVIOUS
<1>1. CASE GuardsRefuse
  BY <1>1, ErrorKeeps DEF GuardsRefuse
<1>2. CASE Throws
  BY <1>2, ErrorKeeps DEF Throws
<1>3. CASE GuardsPass \/ Rename \/ RenameFails \/ CreateDestination
  BY <1>3, GuardsPassKeeps, RenameKeeps, RenameFailsKeeps, CreateDestinationKeeps
<1>4. CASE NextEntry \/ Ascend \/ WalkEnds
  BY <1>4, NextEntryKeeps, AscendKeeps, WalkEndsKeeps
<1>5. CASE MakeDir \/ CopyFile \/ UnknownType \/ ReadLink
  BY <1>5, MakeDirKeeps, CopyFileKeeps, UnknownTypeKeeps, ReadLinkKeeps
<1>6. CASE RenameEntry \/ CopyAcross \/ RemoveEntry
  BY <1>6, RenameEntryKeeps, CopyAcrossKeeps, RemoveEntryKeeps
<1>7. CASE RemoveAll \/ MakeLink \/ Finish
  BY <1>7, RemoveAllKeeps, MakeLinkKeeps, FinishKeeps
<1>8. CASE UNCHANGED vars
  BY <1>8, StutterKeeps
<1> QED BY <1>1, <1>2, <1>3, <1>4, <1>5, <1>6, <1>7, <1>8 DEF Next, Over

(* Where the walk is, what it still has to see and where everything it saw *)
(* is, at every step of copyTree and moveTree.                             *)
THEOREM InvariantHolds == Spec => []TInv
BY InitHolds, StepKeeps, PTL DEF Spec

(* The locals of the call and the two trees keep their types.              *)
THEOREM TypeCorrect == Spec => []TypeOK
BY InvariantHolds, PTL DEF TInv, Types

(* Whatever call fails, every entry is in the source or whole in the       *)
(* destination, but for the links of a move that answers with an error.    *)
THEOREM NothingLostHolds == Spec => []NothingLost
BY InvariantHolds, PTL DEF TInv

(* copyTree and moveTree answer true only when all that can be read has    *)
(* arrived and, after a move, nothing is left.                             *)
THEOREM OkMeansDoneHolds == Spec => []OkMeansDone
BY InvariantHolds, PTL DEF TInv
=============================================================================
