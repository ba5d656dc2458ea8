------------------------------- MODULE Fence -------------------------------
(***************************************************************************)
(* Geofence detection, fence.go.  A fence watches the objects of one key.  *)
(* Each command on the key is turned into notifications: what became of an *)
(* object with respect to the area of the fence, and a group that ties     *)
(* the notifications of one visit together.                                *)
(*                                                                         *)
(* The world is a line of cells.  An area is a set of neighbouring cells;  *)
(* a point is in it or not, and a straight move over it crosses it.        *)
(***************************************************************************)
EXTENDS Naturals, Sequences, FiniteSets, SequencesExt

CONSTANTS Objects,    \* ids of the objects of the key
          Cells,      \* the world, a range of numbers
          Area,       \* the cells of the fence
          Origin,     \* the cell of longitude 0 and latitude 0
          Near,       \* how far a roaming fence sees
          Fences,     \* the fences to look at
          MaxCmds,    \* commands in a behaviour
          NoObject, Text   \* no object; an object that is not a geometry

NoGroup == 0
AllDetects == {"inside", "outside", "enter", "exit", "cross", "roam"}

\* A fence: roaming or not, the ids its glob matches, the DETECT set, the
\* COMMANDS set (empty: all), NOFIELDS, and whether it has a WHERE.
FenceOf(roam, ids, detect, accept, nofields, where) ==
    [roam |-> roam, ids |-> ids, detect |-> detect, accept |-> accept,
     nofields |-> nofields, where |-> where]

VARIABLES fence,    \* the fence of this behaviour
          objs,     \* the objects of the key
          passes,   \* do the fields of an object satisfy a WHERE?
          groups,   \* fence.groups
          ngroups,  \* groups handed out by bsonID
          ncmds,
          msgs,     \* the notifications of the last command
          \* history
          visit,    \* the group of the last enter, until a cross
          view,     \* what a reader of the notifications believes
          calm      \* no object was replaced by text or flushed

fenceVars == <<fence, objs, passes, groups, ngroups, ncmds, msgs, visit, view, calm>>

(***************************************************************************)
(* Matching                                                                *)
(***************************************************************************)
IsGeometry(o) == o \notin {NoObject, Text}

\* fenceMatchObject: text and a missing object match nothing.
fenceMatchObject(o) == IsGeometry(o) /\ o \in Area

\* CalculatedPoint of an object that is not a geometry is the origin.
CalculatedPoint(o) == IF o = Text THEN Origin ELSE o

\* The line between two positions intersects the area.
Crosses(old, new) ==
    LET a == CalculatedPoint(old)
        b == CalculatedPoint(new)
    IN old # NoObject /\ \E c \in Area : (a < c /\ c < b) \/ (b < c /\ c < a) \/ c \in {a, b}

\* fenceMatchRoam: the other objects within the distance, by the current
\* content of the collection.
Distance(a, b) == IF a < b THEN b - a ELSE a - b
fenceMatchRoam(os, id) ==
    {x \in Objects \ {id} : IsGeometry(os[x]) /\ Distance(os[x], os[id]) <= Near}

(***************************************************************************)
(* fenceMatch.  d is the command's details: its name, the id, the object   *)
(* before (not set for FSET) and after, and whether its fields pass.       *)
(***************************************************************************)
Details(command, id, old, new, pass) ==
    [command |-> command, id |-> id, oldObj |-> old, obj |-> new, pass |-> pass]

Detect(d) ==
    LET match1 == fenceMatchObject(d.oldObj)
        match2 == fenceMatchObject(d.obj)
    IN CASE fence.roam -> "roam"
         [] match1 /\ match2 -> "inside"
         [] match1 /\ ~match2 -> "exit"
         [] ~match1 /\ match2 -> IF d.command = "fset" THEN "inside" ELSE "enter"
         [] OTHER -> IF d.command # "fset" /\ Crosses(d.oldObj, d.obj) THEN "cross" ELSE "outside"

\* Mutant: what is not asked for is dropped.
NotDowngraded(detect) == detect
\* An enter or exit that is not asked for is told as inside or outside.
Downgraded(detect) ==
    CASE detect = "enter" /\ "enter" \notin fence.detect -> "inside"
      [] detect = "exit" /\ "exit" \notin fence.detect -> "outside"
      [] OTHER -> detect

\* The early returns: nothing is told and no group changes.
Ignored(d) == d.id \notin fence.ids \/ ~IsGeometry(d.obj)
Silent(d, os) ==
    \/ Ignored(d)
    \/ d.command = "fset" /\ fence.nofields
    \/ fence.roam /\ (d.command # "set" \/ fenceMatchRoam(os, d.id) = {})
    \/ Downgraded(Detect(d)) \notin fence.detect
    \/ fence.where /\ ~d.pass      \* writeObject wrote nothing

Msg(command, detect, id, group, nearby) ==
    [command |-> command, detect |-> detect, id |-> id, group |-> group, nearby |-> nearby]

\* The group: new on enter, new and not kept on cross, else the one at hand.
GroupFor(d, detect) ==
    IF detect \in {"enter", "cross"} \/ groups[d.id] = NoGroup THEN ngroups + 1 ELSE groups[d.id]
\* Mutant: the group of an enter is not kept.
GroupsAfterEnterLost(d, detect) ==
    [groups EXCEPT ![d.id] = IF detect \in {"enter", "cross"} THEN NoGroup ELSE GroupFor(d, detect)]
GroupsAfter(d, detect) ==
    [groups EXCEPT ![d.id] = IF detect = "cross" THEN NoGroup ELSE GroupFor(d, detect)]

\* An enter is followed by an inside, an exit or a cross by an outside.
Messages(d, detect, os) ==
    LET g == GroupFor(d, detect)
        also == CASE detect = "enter" -> {"inside"} [] detect \in {"exit", "cross"} -> {"outside"}
                  [] OTHER -> {}
        first == Msg(d.command, detect, d.id, g, 0)
        more == {Msg(d.command, x, d.id, g, 0) : x \in also \cap fence.detect}
    IN IF detect = "roam"
       THEN SetToSeq({Msg(d.command, "roam", d.id, g, x) : x \in fenceMatchRoam(os, d.id)})
       ELSE <<first>> \o SetToSeq(more)

\* FenceMatch keeps the messages of the commands that were asked for.
Accepted(ms) ==
    SelectSeq(ms, LAMBDA m : fence.accept = {} \/ m.command \in fence.accept)

(***************************************************************************)
(* What a reader of the notifications knows of the object: told by the     *)
(* last word on it.                                                        *)
(***************************************************************************)
Told(ms, id) ==
    LET mine == SelectSeq(ms, LAMBDA m : m.id = id \/ m.command = "drop")
    IN CASE mine = <<>> -> view[id]
         [] OTHER -> CASE Last(mine).command \in {"del", "drop"} -> "gone"
                       [] Last(mine).detect \in {"enter", "inside"} -> "inside"
                       [] Last(mine).detect \in {"exit", "outside", "cross"} -> "outside"
                       [] OTHER -> view[id]

VisitAfter(ms, id) ==
    LET mine == {k \in DOMAIN ms : ms[k].id = id}
        enters == {k \in mine : ms[k].detect = "enter"}
    IN CASE enters # {} -> ms[CHOOSE k \in enters : TRUE].group
         [] \E k \in mine : ms[k].detect = "cross" -> NoGroup
         [] OTHER -> visit[id]

Notify(ms) ==
    /\ msgs' = Accepted(ms)
    /\ view' = [id \in Objects |-> Told(msgs', id)]
    /\ visit' = [id \in Objects |-> VisitAfter(msgs', id)]

\* FenceMatch for a command on one object; os are the objects after it.
FenceMatch(d, os) ==
    LET detect == Downgraded(Detect(d)) IN
    CASE d.command = "del" ->
            /\ Notify(IF Ignored(d) THEN <<>> ELSE <<Msg("del", "", d.id, NoGroup, 0)>>)
            /\ UNCHANGED <<groups, ngroups>>
      [] d.command # "del" /\ Silent(d, os) ->
            Notify(<<>>) /\ UNCHANGED <<groups, ngroups>>
      [] OTHER ->
            /\ Notify(Messages(d, detect, os))
            /\ groups' = GroupsAfter(d, detect)
            /\ ngroups' = IF GroupFor(d, detect) > ngroups THEN ngroups + 1 ELSE ngroups

(***************************************************************************)
(* The commands                                                            *)
(***************************************************************************)
Command == ncmds < MaxCmds /\ ncmds' = ncmds + 1 /\ UNCHANGED fence

Set(id, o, pass) ==
    /\ Command
    /\ objs' = [objs EXCEPT ![id] = o]
    /\ passes' = [passes EXCEPT ![id] = pass]
    /\ FenceMatch(Details("set", id, objs[id], o, pass), objs')
    /\ calm' = (calm /\ o # Text)

Fset(id, pass) ==
    /\ Command /\ objs[id] # NoObject
    /\ passes' = [passes EXCEPT ![id] = pass]
    /\ FenceMatch(Details("fset", id, NoObject, objs[id], pass), objs)
    /\ UNCHANGED <<objs, calm>>

Del(id) ==
    /\ Command /\ objs[id] # NoObject
    /\ objs' = [objs EXCEPT ![id] = NoObject]
    /\ FenceMatch(Details("del", id, NoObject, objs[id], TRUE), objs')
    /\ UNCHANGED <<passes, calm>>

Drop ==
    /\ Command /\ \E id \in Objects : objs[id] # NoObject
    /\ objs' = [id \in Objects |-> NoObject]
    /\ Notify(<<Msg("drop", "", 0, NoGroup, 0)>>)
    /\ UNCHANGED <<passes, groups, ngroups, calm>>

\* FLUSHDB names no key, so no fence hears of it.
Flush ==
    /\ Command
    /\ objs' = [id \in Objects |-> NoObject]
    /\ Notify(<<>>)
    /\ calm' = FALSE
    /\ UNCHANGED <<passes, groups, ngroups>>

FenceInit ==
    /\ fence \in Fences
    /\ objs = [id \in Objects |-> NoObject]
    /\ passes = [id \in Objects |-> FALSE]
    /\ groups = [id \in Objects |-> NoGroup]
    /\ ngroups = 0 /\ ncmds = 0 /\ msgs = <<>>
    /\ visit = [id \in Objects |-> NoGroup]
    /\ view = [id \in Objects |-> "gone"]
    /\ calm = TRUE

FenceNext ==
    \/ \E id \in Objects, pass \in BOOLEAN :
          \/ \E o \in Cells \cup {Text} : Set(id, o, pass)
          \/ Fset(id, pass)
    \/ \E id \in Objects : Del(id)
    \/ Drop \/ Flush

(***************************************************************************)
(* Properties                                                              *)
(***************************************************************************)
TellsEnough ==
    /\ ~fence.roam /\ ~fence.where /\ fence.accept = {}
    /\ \/ fence.detect = AllDetects
       \/ calm /\ ({"enter", "exit"} \subseteq fence.detect \/ {"inside", "outside"} \subseteq fence.detect)

\* A reader who goes by the last notification about an object knows whether
\* the object is in the area: always when every detection is asked for, and
\* with enter and exit alone, or inside and outside alone, as long as no
\* object was replaced by text or flushed behind the fence's back.
Informed ==
    TellsEnough =>
        \A id \in fence.ids : IsGeometry(objs[id]) => (view[id] = "inside" <=> objs[id] \in Area)

\* From an enter on, every notification about the object carries the group of
\* that enter until the next enter or cross, whatever the filters drop, and
\* visits of two objects never share a group.
OneGroupPerVisit ==
    /\ \A k \in DOMAIN msgs :
          LET m == msgs[k] IN
          m.command \notin {"del", "drop"} /\ visit[m.id] # NoGroup => m.group = visit[m.id]
    /\ \A a, b \in Objects : a # b /\ visit[a] = visit[b] => visit[a] = NoGroup
=============================================================================
