------------------------------- MODULE Dataset -------------------------------
(***************************************************************************)
(* The dataset a tile38 server keeps in memory, and what each write        *)
(* command does to it (pkg/controller/crud.go, json.go, hooks.go).         *)
(*                                                                         *)
(* A dataset is one function from slots to slot states.  A slot is a place *)
(* a command can name: an object <<key, id>> of a collection, or a hook    *)
(* name.  A collection exists exactly when one of its objects does         *)
(* (cmdDel, cmdPdel and cmdDrop delete an empty one), so collections need  *)
(* no state of their own.                                                  *)
(*                                                                         *)
(* Data is abstracted to what the commands tell apart.  An object's JSON   *)
(* document gives each path a natural number, 0 for a path it does not     *)
(* have; an array is its length.  A field is a natural number, 0 by        *)
(* default, as in the code.  A timeout is "none", "live" (in the future)   *)
(* or "due" (passed, the object not yet purged).                           *)
(***************************************************************************)
EXTENDS Naturals

CONSTANTS Keys,       \* collection keys
          Ids,        \* object ids
          Fields,     \* field names
          Paths,      \* JSON paths inside an object
          ShapePaths, \* the paths that make a document a geometry: GeoJSON's
                      \* "type" and "coordinates"
          HookNames,
          HookDefs,   \* the endpoints and the fence command of a hook
          Metas,      \* the META pairs a hook can carry
          NoMeta,     \* no META pair at all
          NoArea,     \* a fence whose area is written in the command
          Absent      \* the state of a slot that holds nothing

Objects == Keys \X Ids

Slots == Objects \cup HookNames

Docs == [Paths -> Nat]

\* One object: collection.itemT and its entry in c.expires.  "geo" tells a
\* geometry from a string.
ObjectStates == [doc : Docs, geo : BOOLEAN, fields : [Fields -> Nat],
                 ex : {"none", "live", "due"}]

\* One hook.  "ref" is the object its fence names with GET key id, if it does;
\* "area" is the geometry that object had when SETHOOK ran.
HookStates == [def : HookDefs, meta : Metas \cup {NoMeta},
               ref : Objects \cup {NoArea}, area : Docs \cup {NoArea}]

Datasets == {d \in [Slots -> ObjectStates \cup HookStates \cup {Absent}] :
                /\ \A o \in Objects   : d[o] \in ObjectStates \cup {Absent}
                /\ \A h \in HookNames : d[h] \in HookStates \cup {Absent}}

ASSUME DatasetAssumption ==
    /\ Absent \notin ObjectStates \cup HookStates \cup Nat
    /\ NoMeta \notin Metas
    /\ NoArea \notin Docs \cup Objects
    /\ Objects \cap HookNames = {}

\* The state of a server that has run no command.
EmptyDataset == [s \in Slots |-> Absent]

----------------------------------------------------------------------------
(***************************************************************************)
(* Commands, as the parsers of the code hand them to the handlers.  A      *)
(* pattern is the set of names it matches; a field the command does not    *)
(* name has the value Absent.                                              *)
(***************************************************************************)
FieldValues == [Fields -> Nat \cup {Absent}]

SetCommands      == [op : {"set"}, slot : Objects, doc : Docs, geo : BOOLEAN,
                     fields : FieldValues, ex : BOOLEAN, cond : {"any", "nx", "xx"}]
\* "bad": a malformed field follows the well-formed ones.
FsetCommands     == [op : {"fset"}, slot : Objects, fields : FieldValues, bad : BOOLEAN]
DelCommands      == [op : {"del"}, slot : Objects]
PdelCommands     == [op : {"pdel"}, key : Keys, ids : SUBSET Ids]
DropCommands     == [op : {"drop"}, key : Keys]
FlushdbCommands  == [op : {"flushdb"}]
ExpireCommands   == [op : {"expire"}, slot : Objects]
PersistCommands  == [op : {"persist"}, slot : Objects]
\* "append": the path ends in -1, which appends to an array.
JsetCommands     == [op : {"jset"}, slot : Objects, path : Paths, val : Nat, append : BOOLEAN]
JdelCommands     == [op : {"jdel"}, slot : Objects, path : Paths]
\* "ref": the object a GET area names, or NoArea.
SethookCommands  == [op : {"sethook"}, hook : HookNames, def : HookDefs,
                     meta : Metas \cup {NoMeta}, ref : Objects \cup {NoArea}]
DelhookCommands  == [op : {"delhook"}, hook : HookNames]
PdelhookCommands == [op : {"pdelhook"}, hooks : SUBSET HookNames]

WriteCommands ==
    SetCommands \cup FsetCommands \cup DelCommands \cup PdelCommands \cup DropCommands
      \cup FlushdbCommands \cup ExpireCommands \cup PersistCommands \cup JsetCommands
      \cup JdelCommands \cup SethookCommands \cup DelhookCommands \cup PdelhookCommands

----------------------------------------------------------------------------
\* Collection.setField: named fields are overwritten, the others kept.
SetFields(old, new) ==
    [f \in Fields |-> IF new[f] = Absent THEN old[f] ELSE new[f]]

\* The fields a new item adopts from the item it replaces.
AdoptedFields(s) == IF s = Absent THEN [f \in Fields |-> 0] ELSE s.fields

\* SET: NX and XX can turn it into a no-op (the notok label).
SetAllowed(d, c) ==
    /\ c.cond = "nx" => d[c.slot] = Absent
    /\ c.cond = "xx" => d[c.slot] # Absent

cmdSet(d, c) ==
    IF SetAllowed(d, c)
    THEN [d EXCEPT ![c.slot] = [doc    |-> c.doc, geo |-> c.geo,
                                fields |-> SetFields(AdoptedFields(d[c.slot]), c.fields),
                                ex     |-> IF c.ex THEN "live" ELSE "none"]]
    ELSE d

cmdFset(d, c) ==
    IF d[c.slot] = Absent THEN d
    ELSE [d EXCEPT ![c.slot].fields = SetFields(d[c.slot].fields, c.fields)]

cmdDel(d, c) == [d EXCEPT ![c.slot] = Absent]

PdelSlots(c) == {c.key} \X c.ids

cmdPdel(d, c) == [s \in Slots |-> IF s \in PdelSlots(c) THEN Absent ELSE d[s]]

DropSlots(c) == {c.key} \X Ids

cmdDrop(d, c) == [s \in Slots |-> IF s \in DropSlots(c) THEN Absent ELSE d[s]]

cmdFlushDB(d, c) == EmptyDataset

\* Both timeout commands find only an object that hasExpired does not report.
Unexpired(d, o) == d[o] # Absent /\ d[o].ex # "due"

cmdExpire(d, c) ==
    IF Unexpired(d, c.slot) THEN [d EXCEPT ![c.slot].ex = "live"] ELSE d

cmdPersist(d, c) ==
    IF Unexpired(d, c.slot) THEN [d EXCEPT ![c.slot].ex = "none"] ELSE d

\* What sjson makes of the document: a missing object is an empty document.
DocOf(s) == IF s = Absent THEN [p \in Paths |-> 0] ELSE s.doc

JsonSet(doc, c) == [doc EXCEPT ![c.path] = IF c.append THEN doc[c.path] + 1 ELSE c.val]

\* A new document is a string.
IsGeo(s) == IF s = Absent THEN FALSE ELSE s.geo

\* A geometry is written back with SET OBJECT, which refuses a document that
\* is no longer GeoJSON.
BreaksShape(d, c) == IsGeo(d[c.slot]) /\ c.path \in ShapePaths

cmdJset(d, c) ==
    IF BreaksShape(d, c) THEN d
    ELSE [d EXCEPT ![c.slot] = [doc    |-> JsonSet(DocOf(d[c.slot]), c),
                                geo    |-> IsGeo(d[c.slot]),
                                fields |-> AdoptedFields(d[c.slot]),
                                ex     |-> "none"]]

\* JDEL writes the object only when the path was in the document.
JdelFinds(d, c) ==
    d[c.slot] # Absent /\ d[c.slot].doc[c.path] # 0 /\ ~BreaksShape(d, c)

cmdJdel(d, c) ==
    IF JdelFinds(d, c)
    THEN [d EXCEPT ![c.slot].doc = [d[c.slot].doc EXCEPT ![c.path] = 0],
                   ![c.slot].ex = "none"]
    ELSE d

\* A GET area that names no object is an error before anything changes.  A hook
\* that Equals the one in place (its area is not compared) changes nothing.
AreaKnown(d, c) == c.ref # NoArea => d[c.ref] # Absent

SameHook(d, c) ==
    /\ d[c.hook] # Absent
    /\ d[c.hook].def = c.def
    /\ d[c.hook].meta = c.meta
    /\ d[c.hook].ref = c.ref

PlaceHook(d, c) ==
    [d EXCEPT ![c.hook] = [def  |-> c.def, meta |-> c.meta, ref |-> c.ref,
                           area |-> IF c.ref = NoArea THEN NoArea ELSE d[c.ref].doc]]

cmdSetHook(d, c) ==
    IF AreaKnown(d, c) /\ ~SameHook(d, c) THEN PlaceHook(d, c) ELSE d

cmdDelHook(d, c) == [d EXCEPT ![c.hook] = Absent]

cmdPDelHook(d, c) == [s \in Slots |-> IF s \in c.hooks THEN Absent ELSE d[s]]

\* The dispatcher: the dataset after running command c on dataset d.
Command(d, c) ==
    CASE c.op = "set"      -> cmdSet(d, c)
      [] c.op = "fset"     -> cmdFset(d, c)
      [] c.op = "del"      -> cmdDel(d, c)
      [] c.op = "pdel"     -> cmdPdel(d, c)
      [] c.op = "drop"     -> cmdDrop(d, c)
      [] c.op = "flushdb"  -> cmdFlushDB(d, c)
      [] c.op = "expire"   -> cmdExpire(d, c)
      [] c.op = "persist"  -> cmdPersist(d, c)
      [] c.op = "jset"     -> cmdJset(d, c)
      [] c.op = "jdel"     -> cmdJdel(d, c)
      [] c.op = "sethook"  -> cmdSetHook(d, c)
      [] c.op = "delhook"  -> cmdDelHook(d, c)
      [] c.op = "pdelhook" -> cmdPDelHook(d, c)

\* The same while the append-only file is loaded.  A message read from the file
\* has no output type, and without one SETHOOK replaces even an equal hook.
LoadCommand(d, c) ==
    IF c.op = "sethook" /\ AreaKnown(d, c) THEN PlaceHook(d, c) ELSE Command(d, c)

\* commandDetailsT.updated: whether the handler reports a change to writeAOF.
Updated(d, c) ==
    CASE c.op = "set"      -> SetAllowed(d, c)
      [] c.op = "fset"     -> d[c.slot] # Absent /\ SetFields(d[c.slot].fields, c.fields) # d[c.slot].fields
      [] c.op = "del"      -> d[c.slot] # Absent
      [] c.op = "pdel"     -> \E s \in PdelSlots(c) : d[s] # Absent
      [] c.op = "drop"     -> \E s \in DropSlots(c) : d[s] # Absent
      [] c.op = "flushdb"  -> TRUE
      [] c.op = "expire"   -> Unexpired(d, c.slot)
      [] c.op = "persist"  -> Unexpired(d, c.slot) /\ d[c.slot].ex = "live"
      [] c.op = "jset"     -> ~BreaksShape(d, c)
      [] c.op = "jdel"     -> JdelFinds(d, c)
      [] c.op = "sethook"  -> AreaKnown(d, c) /\ ~SameHook(d, c)
      [] c.op = "delhook"  -> d[c.hook] # Absent
      [] c.op = "pdelhook" -> \E h \in c.hooks : d[h] # Absent

\* The handlers that change the dataset and still return an error: FSET ignores
\* the error of its argument parser until after the fields are set.
Fails(c) == c.op = "fset" /\ c.bad

\* The dataset as a restarted server sees it: timeouts are stored as seconds
\* from the time they are read, so one that has passed is in the future again.
Renewed(d) ==
    [s \in Slots |-> IF s \in Objects /\ d[s] # Absent /\ d[s].ex = "due"
                     THEN [d[s] EXCEPT !.ex = "live"] ELSE d[s]]
=============================================================================
