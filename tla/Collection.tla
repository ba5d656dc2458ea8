----------------------------- MODULE Collection -----------------------------
(***************************************************************************)
(* A collection (pkg/collection): the items by id, and beside them a       *)
(* spatial index of the geometries, a tree of the string values, the field *)
(* values, and counters that are kept up to date step by step.             *)
(*                                                                         *)
(* An object has its kind, its value in the order of strings, the number   *)
(* of its positions and its weight.  The spatial index finds an item by    *)
(* its identity, here the number of the write that made it; the tree of    *)
(* values finds it by value and id.  The server passes the names of the    *)
(* fields whenever it passes values, so that is how fields come in.        *)
(***************************************************************************)
EXTENDS Integers, Sequences, FiniteSets, SequencesExt, FiniteSetsExt

CONSTANTS ColIds, ColObjects, FieldNames, FieldVals,
          MaxColOps   \* bound on the operations that write

VARIABLES items,        \* ids to items
          values, index,
          fieldMap,     \* field names in the order of their indexes
          fieldValues,  \* ids to sequences of numbers
          weight, points, objects, nobjects,
          writes,       \* operations that wrote, so far
          steady,       \* no object replaced one of the other kind
          given         \* what each id was last given under each field name

colVars == <<items, values, index, fieldMap, fieldValues, weight, points, objects, nobjects,
             writes, steady, given>>

FieldBytes == 8
idLen == 1   \* length of an id
NoFields == <<>>

ColInit ==
    /\ items = [id \in {} |-> 0] /\ values = {} /\ index = {}
    /\ fieldMap = <<>> /\ fieldValues = [id \in {} |-> NoFields]
    /\ weight = 0 /\ points = 0 /\ objects = 0 /\ nobjects = 0
    /\ writes = 0 /\ steady = TRUE /\ given = [id \in {} |-> 0]

getFieldValues(fv, id) == IF id \in DOMAIN fv THEN fv[id] ELSE NoFields
Put(f, k, v) == [x \in DOMAIN f \cup {k} |-> IF x = k THEN v ELSE f[x]]
Drop(f, k) == [x \in DOMAIN f \ {k} |-> f[x]]

\* Delete of the tree of values: the item with that value and id.
DeleteValue(vs, item) == {x \in vs : ~(x.obj.val = item.obj.val /\ x.id = item.id)}

(***************************************************************************)
(* Fields.  A name gets the next index when it is first used.              *)
(***************************************************************************)
Fields(map, fv, w) == [map |-> map, fv |-> fv, weight |-> w]

IndexOf(map, f) == CHOOSE i \in DOMAIN map : map[i] = f

\* Mutant: a value is added behind the others, whatever its index.
setFieldBehind(s, id, f, v) ==
    LET map == IF \E i \in DOMAIN s.map : s.map[i] = f THEN s.map ELSE Append(s.map, f)
        idx == IndexOf(map, f)
        old == getFieldValues(s.fv, id)
        new == IF idx <= Len(old) THEN [old EXCEPT ![idx] = v] ELSE Append(old, v)
    IN Fields(map, Put(s.fv, id, new), s.weight - FieldBytes * Len(old) + FieldBytes * Len(new))
setField(s, id, f, v) ==
    LET map == IF \E i \in DOMAIN s.map : s.map[i] = f THEN s.map ELSE Append(s.map, f)
        idx == IndexOf(map, f)
        old == getFieldValues(s.fv, id)
        long == [i \in 1..Max({idx, Len(old)}) |-> IF i <= Len(old) THEN old[i] ELSE 0]
    IN Fields(map, Put(s.fv, id, [long EXCEPT ![idx] = v]),
              s.weight - FieldBytes * Len(old) + FieldBytes * Len(long))

setFields(s, id, fs) == FoldLeft(LAMBDA t, f : setField(t, id, f[1], f[2]), s, fs)

(***************************************************************************)
(* Operations                                                              *)
(***************************************************************************)
\* Mutant: the item that was replaced stays in the index or among the values.
RemoveNothing(old, obj) == <<index, values>>
\* The old item is taken out of the structure that suits the new object.
RemoveReplaced(old, obj) ==
    IF obj.geo THEN <<index \ {old}, values>> ELSE <<index, DeleteValue(values, old)>>

\* What a reader of the commands expects of the fields afterwards.
GivenAfter(id, fs) ==
    LET was == IF id \in DOMAIN given THEN given[id] ELSE [f \in FieldNames |-> 0]
    IN FoldLeft(LAMBDA g, f : [g EXCEPT ![f[1]] = f[2]], was, fs)

\* The new item adopts the fields of the old one.
ReplaceOrInsert(id, obj, fs) ==
    LET had == id \in DOMAIN items
        old == items[id]
        new == [id |-> id, obj |-> obj, n |-> writes + 1]
        left == IF had THEN RemoveReplaced(old, obj) ELSE <<index, values>>
        gone == IF had THEN 1 ELSE 0
        w == weight - (IF had THEN old.obj.weight + idLen ELSE 0) + obj.weight + idLen
        s == setFields(Fields(fieldMap, fieldValues, w), id, fs)
    IN /\ items' = Put(items, id, new)
       /\ index' = IF obj.geo THEN left[1] \cup {new} ELSE left[1]
       /\ values' = IF obj.geo THEN left[2] ELSE DeleteValue(left[2], new) \cup {new}
       /\ objects' = objects + (IF obj.geo THEN 1 - gone ELSE 0)
       /\ nobjects' = nobjects + (IF obj.geo THEN 0 ELSE 1 - gone)
       /\ points' = points - (IF had THEN old.obj.points ELSE 0) + obj.points
       /\ fieldMap' = s.map /\ fieldValues' = s.fv /\ weight' = s.weight
       /\ writes' = writes + 1 /\ given' = Put(given, id, GivenAfter(id, fs))
       /\ steady' = (steady /\ (had => old.obj.geo = obj.geo))

ColRemove(id) ==
    /\ id \in DOMAIN items
    /\ LET it == items[id] IN
       /\ items' = Drop(items, id)
       /\ index' = IF it.obj.geo THEN index \ {it} ELSE index
       /\ values' = IF it.obj.geo THEN values ELSE DeleteValue(values, it)
       /\ objects' = objects - (IF it.obj.geo THEN 1 ELSE 0)
       /\ nobjects' = nobjects - (IF it.obj.geo THEN 0 ELSE 1)
       /\ weight' = weight - FieldBytes * Len(getFieldValues(fieldValues, id)) - it.obj.weight - idLen
       /\ points' = points - it.obj.points
    /\ fieldValues' = Drop(fieldValues, id) /\ given' = Drop(given, id)
    /\ UNCHANGED <<fieldMap, writes, steady>>

\* SetField and SetFields; an id that is not there changes nothing.
ColSetFields(id, fs) ==
    /\ id \in DOMAIN items
    /\ LET s == setFields(Fields(fieldMap, fieldValues, weight), id, fs)
       IN fieldMap' = s.map /\ fieldValues' = s.fv /\ weight' = s.weight
    /\ writes' = writes + 1 /\ given' = Put(given, id, GivenAfter(id, fs))
    /\ UNCHANGED <<items, values, index, points, objects, nobjects, steady>>

FieldLists == {<<>>} \cup [{1} -> FieldNames \X FieldVals]

ColNext ==
    /\ writes < MaxColOps
    /\ \E id \in ColIds :
          \/ \E obj \in ColObjects, fs \in FieldLists : ReplaceOrInsert(id, obj, fs)
          \/ \E fs \in FieldLists \ {<<>>} : ColSetFields(id, fs)
          \/ ColRemove(id)

(***************************************************************************)
(* Properties                                                              *)
(***************************************************************************)
All == {items[id] : id \in DOMAIN items}
Total(f(_), S) == FoldSet(LAMBDA x, acc : f(x) + acc, 0, S)

\* As long as no SET replaces a geometry by a string or the other way round,
\* the spatial index holds exactly the geometries and the tree of values
\* exactly the strings, so every search answers from what GET would return.
\* Count, the number of positions and the weight, on which STATS and the memory
\* limit rest, are those of the items even when kinds change.
IndexesAgree ==
    /\ steady => /\ index = {it \in All : it.obj.geo}
                 /\ values = {it \in All : ~it.obj.geo}
                 /\ objects = Cardinality(index) /\ nobjects = Cardinality(values)
    /\ objects + nobjects = Cardinality(All)
    /\ points = Total(LAMBDA it : it.obj.points, All)
    /\ weight = Total(LAMBDA it : it.obj.weight + idLen
                                      + FieldBytes * Len(getFieldValues(fieldValues, it.id)), All)

\* The values lie by position and the positions are shared by the ids, yet
\* every id has under every name what it was last given under it, or 0: over
\* replacements, other ids' fields, and removal followed by a new SET.
FieldsExact ==
    \A id \in DOMAIN items : \A f \in FieldNames :
       LET vals == getFieldValues(fieldValues, id)
           at == {i \in DOMAIN fieldMap : fieldMap[i] = f /\ i <= Len(vals)}
       IN given[id][f] = IF at = {} THEN 0 ELSE vals[CHOOSE i \in at : TRUE]
=============================================================================
