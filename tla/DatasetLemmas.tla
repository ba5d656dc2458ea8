---------------------------- MODULE DatasetLemmas ----------------------------
(***************************************************************************)
(* Facts about the commands of Dataset, for every dataset and command.     *)
(***************************************************************************)
EXTENDS Dataset, Sequences, TLAPS

\* A dataset gives every slot a state of its kind.
LEMMA DatasetSlots ==
    ASSUME NEW d \in Datasets
    PROVE  /\ d = [s \in Slots |-> d[s]]
           /\ \A o \in Objects : d[o] \in ObjectStates \cup {Absent}
           /\ \A h \in HookNames : d[h] \in HookStates \cup {Absent}
BY DEF Datasets

\* Replacing the state of one object by another object state, or of a hook by
\* another hook state, gives a dataset.
LEMMA PutObject ==
    ASSUME NEW d \in Datasets, NEW o \in Objects, NEW x \in ObjectStates \cup {Absent}
    PROVE  [d EXCEPT ![o] = x] \in Datasets
BY DatasetAssumption DEF Datasets, Slots

LEMMA PutHook ==
    ASSUME NEW d \in Datasets, NEW h \in HookNames, NEW x \in HookStates \cup {Absent}
    PROVE  [d EXCEPT ![h] = x] \in Datasets
BY DatasetAssumption DEF Datasets, Slots

LEMMA ClearSlots ==
    ASSUME NEW d \in Datasets, NEW S
    PROVE  [s \in Slots |-> IF s \in S THEN Absent ELSE d[s]] \in Datasets
BY DEF Datasets, Slots

LEMMA EmptyType == EmptyDataset \in Datasets
BY DEF Datasets, EmptyDataset, Slots

LEMMA SetFieldsType ==
    ASSUME NEW old \in [Fields -> Nat], NEW new \in FieldValues
    PROVE  SetFields(old, new) \in [Fields -> Nat]
BY DEF SetFields, FieldValues

\* The dispatcher runs the handler of the command's name.
LEMMA Dispatch ==
    ASSUME NEW d, NEW c
    PROVE  /\ c.op = "set"      => Command(d, c) = cmdSet(d, c)
           /\ c.op = "fset"     => Command(d, c) = cmdFset(d, c)
           /\ c.op = "del"      => Command(d, c) = cmdDel(d, c)
           /\ c.op = "pdel"     => Command(d, c) = cmdPdel(d, c)
           /\ c.op = "drop"     => Command(d, c) = cmdDrop(d, c)
           /\ c.op = "flushdb"  => Command(d, c) = cmdFlushDB(d, c)
           /\ c.op = "expire"   => Command(d, c) = cmdExpire(d, c)
           /\ c.op = "persist"  => Command(d, c) = cmdPersist(d, c)
           /\ c.op = "jset"     => Command(d, c) = cmdJset(d, c)
           /\ c.op = "jdel"     => Command(d, c) = cmdJdel(d, c)
           /\ c.op = "sethook"  => Command(d, c) = cmdSetHook(d, c)
           /\ c.op = "delhook"  => Command(d, c) = cmdDelHook(d, c)
           /\ c.op = "pdelhook" => Command(d, c) = cmdPDelHook(d, c)
BY DEF Command

\* Every command, run by a client or by loadAOF, leaves a dataset.
LEMMA CommandType ==
    ASSUME NEW d \in Datasets, NEW c \in WriteCommands
    PROVE  Command(d, c) \in Datasets
<1> USE DatasetSlots, Dispatch
<1>1. CASE c \in SetCommands
  <2>1. c.slot \in Objects /\ c.doc \in Docs /\ c.geo \in BOOLEAN /\ c.fields \in FieldValues
        /\ c.op = "set"
    BY <1>1 DEF SetCommands
  <2>2. AdoptedFields(d[c.slot]) \in [Fields -> Nat]
    BY <2>1 DEF AdoptedFields, ObjectStates
  <2>3. cmdSet(d, c) \in Datasets
    BY <2>1, <2>2, SetFieldsType, PutObject DEF cmdSet, ObjectStates
  <2> QED BY <2>1, <2>3
<1>2. CASE c \in FsetCommands
  <2>1. c.slot \in Objects /\ c.fields \in FieldValues /\ c.op = "fset"
    BY <1>2 DEF FsetCommands
  <2>2. CASE d[c.slot] = Absent
    BY <2>1, <2>2 DEF cmdFset
  <2>3. CASE d[c.slot] # Absent
    <3>1. d[c.slot] \in ObjectStates
      BY <2>1, <2>3
    <3>2. [d[c.slot] EXCEPT !.fields = SetFields(d[c.slot].fields, c.fields)] \in ObjectStates
      BY <2>1, <3>1, SetFieldsType DEF ObjectStates
    <3> QED BY <2>1, <2>3, <3>2, PutObject DEF cmdFset
  <2> QED BY <2>2, <2>3
<1>3. CASE c \in DelCommands
  <2>1. c.slot \in Objects /\ c.op = "del"
    BY <1>3 DEF DelCommands
  <2> QED BY <2>1, PutObject DEF cmdDel
<1>4. CASE c \in PdelCommands \cup DropCommands \cup FlushdbCommands \cup PdelhookCommands
  <2>1. c.op \in {"pdel", "drop", "flushdb", "pdelhook"}
    BY <1>4 DEF PdelCommands, DropCommands, FlushdbCommands, PdelhookCommands
  <2>2. cmdPdel(d, c) \in Datasets /\ cmdDrop(d, c) \in Datasets /\ cmdPDelHook(d, c) \in Datasets
    BY ClearSlots DEF cmdPdel, cmdDrop, cmdPDelHook
  <2> QED BY <2>1, <2>2, EmptyType DEF cmdFlushDB
<1>5. CASE c \in ExpireCommands \cup PersistCommands
  <2>1. c.slot \in Objects /\ c.op \in {"expire", "persist"}
    BY <1>5 DEF ExpireCommands, PersistCommands
  <2>2. CASE ~Unexpired(d, c.slot)
    BY <2>1, <2>2 DEF cmdExpire, cmdPersist
  <2>3. CASE Unexpired(d, c.slot)
    <3>1. d[c.slot] \in ObjectStates
      BY <2>1, <2>3 DEF Unexpired
    <3>2. \A e \in {"live", "none"} : [d[c.slot] EXCEPT !.ex = e] \in ObjectStates
      BY <3>1 DEF ObjectStates
    <3> QED BY <2>1, <2>3, <3>2, PutObject DEF cmdExpire, cmdPersist
  <2> QED BY <2>2, <2>3
<1>6. CASE c \in JsetCommands
  <2>1. c.slot \in Objects /\ c.path \in Paths /\ c.val \in Nat /\ c.append \in BOOLEAN /\ c.op = "jset"
    BY <1>6 DEF JsetCommands
  <2>2. AdoptedFields(d[c.slot]) \in [Fields -> Nat] /\ DocOf(d[c.slot]) \in Docs
    BY <2>1 DEF AdoptedFields, DocOf, ObjectStates, Docs
  <2>3. JsonSet(DocOf(d[c.slot]), c) \in Docs
    BY <2>1, <2>2 DEF JsonSet, Docs
  <2>4. IsGeo(d[c.slot]) \in BOOLEAN
    BY <2>1 DEF IsGeo, ObjectStates
  <2>5. [doc |-> JsonSet(DocOf(d[c.slot]), c), geo |-> IsGeo(d[c.slot]),
         fields |-> AdoptedFields(d[c.slot]), ex |-> "none"] \in ObjectStates
    BY <2>2, <2>3, <2>4 DEF ObjectStates
  <2> QED BY <2>1, <2>5, PutObject DEF cmdJset
<1>7. CASE c \in JdelCommands
  <2>1. c.slot \in Objects /\ c.path \in Paths /\ c.op = "jdel"
    BY <1>7 DEF JdelCommands
  <2>2. CASE ~JdelFinds(d, c)
    BY <2>1, <2>2 DEF cmdJdel
  <2>3. CASE JdelFinds(d, c)
    <3>1. d[c.slot] \in ObjectStates
      BY <2>1, <2>3 DEF JdelFinds
    <3> DEFINE x == [[d[c.slot] EXCEPT !.doc = [d[c.slot].doc EXCEPT ![c.path] = 0]] EXCEPT !.ex = "none"]
    <3>2. x \in ObjectStates
      BY <2>1, <3>1 DEF ObjectStates, Docs
    <3>3. cmdJdel(d, c) = [d EXCEPT ![c.slot] = x]
      BY <2>1, <2>3, <3>1 DEF cmdJdel, Slots
    <3> HIDE DEF x
    <3> QED BY <2>1, <3>2, <3>3, PutObject
  <2> QED BY <2>2, <2>3
<1>8. CASE c \in SethookCommands
  <2>1. c.hook \in HookNames /\ c.def \in HookDefs /\ c.meta \in Metas \cup {NoMeta}
        /\ c.ref \in Objects \cup {NoArea} /\ c.op = "sethook"
    BY <1>8 DEF SethookCommands
  <2>2. AreaKnown(d, c) => PlaceHook(d, c) \in Datasets
    BY <2>1, PutHook DEF AreaKnown, PlaceHook, HookStates, ObjectStates
  <2> QED BY <2>1, <2>2 DEF cmdSetHook
<1>9. CASE c \in DelhookCommands
  BY <1>9, PutHook DEF DelhookCommands, cmdDelHook
<1> QED
  BY <1>1, <1>2, <1>3, <1>4, <1>5, <1>6, <1>7, <1>8, <1>9 DEF WriteCommands

LEMMA LoadType ==
    ASSUME NEW d \in Datasets, NEW c \in WriteCommands
    PROVE  LoadCommand(d, c) \in Datasets
<1>1. CASE c.op = "sethook" /\ AreaKnown(d, c)
  <2>1. c \in SethookCommands
    BY <1>1 DEF WriteCommands, SetCommands, FsetCommands, DelCommands, PdelCommands, DropCommands,
         FlushdbCommands, ExpireCommands, PersistCommands, JsetCommands, JdelCommands,
         DelhookCommands, PdelhookCommands
  <2>2. c.hook \in HookNames /\ c.def \in HookDefs /\ c.meta \in Metas \cup {NoMeta}
        /\ c.ref \in Objects \cup {NoArea}
    BY <2>1 DEF SethookCommands
  <2>3. c.ref # NoArea => d[c.ref].doc \in Docs
    BY <1>1, <2>2, DatasetSlots DEF AreaKnown, ObjectStates
  <2> QED BY <1>1, <2>2, <2>3, PutHook DEF LoadCommand, PlaceHook, HookStates
<1>2. CASE ~(c.op = "sethook" /\ AreaKnown(d, c))
  BY <1>2, CommandType DEF LoadCommand
<1> QED BY <1>1, <1>2

LEMMA RenewedType ==
    ASSUME NEW d \in Datasets
    PROVE  Renewed(d) \in Datasets
<1>1. \A o \in Objects : d[o] # Absent => [d[o] EXCEPT !.ex = "live"] \in ObjectStates
  BY DatasetSlots DEF ObjectStates
<1> QED
  BY <1>1, DatasetSlots, DatasetAssumption DEF Renewed, Datasets, Slots

LEMMA EmptySeq ==
    ASSUME NEW S
    PROVE  <<>> \in Seq(S) /\ Len(<<>>) = 0
OBVIOUS

LEMMA Appended ==
    ASSUME NEW S, NEW q \in Seq(S), NEW e \in S
    PROVE  /\ Append(q, e) \in Seq(S) /\ Len(q) \in Nat /\ Len(Append(q, e)) = Len(q) + 1
           /\ \A n \in 1..Len(q) : Append(q, e)[n] = q[n]
           /\ Append(q, e)[Len(q) + 1] = e
OBVIOUS
=============================================================================
