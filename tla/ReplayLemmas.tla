---------------------------- MODULE ReplayLemmas -----------------------------
(***************************************************************************)
(* Why a shrunken file may hold an object as it was at one moment and then *)
(* replay commands logged before that moment.                              *)
(*                                                                         *)
(* Fix a slot.  Let b be its state when the shrinker wrote it, a its state *)
(* at an earlier command of the log, and x its state in the new file when  *)
(* the replay has reached that command.  "Between" relates the three, each *)
(* replayed command preserves it, and when the replay reaches the moment b *)
(* was written (a = b) it says that x = b.                                 *)
(***************************************************************************)
EXTENDS AOFSafe, DatasetLemmas

\* The slots a command empties.
Cleared(c) ==
    CASE c.op = "del"      -> {c.slot}
      [] c.op = "pdel"     -> PdelSlots(c)
      [] c.op = "drop"     -> DropSlots(c)
      [] c.op = "flushdb"  -> Slots
      [] c.op = "delhook"  -> {c.hook}
      [] c.op = "pdelhook" -> c.hooks
      [] OTHER             -> {}

\* No object of the dataset has outlived its timeout.
NotDue(d) == \A o \in Objects : d[o] # Absent => d[o].ex # "due"

\* Every part of object x is that part of a or of b.
Mixed(x, a, b) ==
    /\ \A p \in Paths  : x.doc[p] \in {a.doc[p], b.doc[p]}
    /\ \A f \in Fields : x.fields[f] \in {a.fields[f], b.fields[f]}
    /\ x.geo \in {a.geo, b.geo}
    /\ x.ex \in {a.ex, b.ex}

Between(x, a, b) ==
    /\ x = Absent => a = Absent
    /\ x # Absent /\ a = Absent => x = b
    /\ x # Absent /\ a # Absent => Mixed(x, a, b)

----------------------------------------------------------------------------
LEMMA ClearedIs ==
    ASSUME NEW c
    PROVE  /\ c.op = "del"      => Cleared(c) = {c.slot}
           /\ c.op = "pdel"     => Cleared(c) = PdelSlots(c)
           /\ c.op = "drop"     => Cleared(c) = DropSlots(c)
           /\ c.op = "flushdb"  => Cleared(c) = Slots
           /\ c.op = "delhook"  => Cleared(c) = {c.hook}
           /\ c.op = "pdelhook" => Cleared(c) = c.hooks
           /\ c.op \in {"set", "fset", "expire", "persist", "jset", "jdel", "sethook"} => Cleared(c) = {}
BY DEF Cleared

LEMMA UpdatedIs ==
    ASSUME NEW d, NEW c
    PROVE  /\ c.op = "set"     => (Updated(d, c) <=> SetAllowed(d, c))
           /\ c.op = "fset"    => (Updated(d, c) => d[c.slot] # Absent)
           /\ c.op = "expire"  => (Updated(d, c) <=> Unexpired(d, c.slot))
           /\ c.op = "persist" => (Updated(d, c) <=> Unexpired(d, c.slot) /\ d[c.slot].ex = "live")
           /\ c.op = "sethook" => (Updated(d, c) <=> AreaKnown(d, c) /\ ~SameHook(d, c))
BY Zenon DEF Updated

\* The commands fall into two kinds: those that empty slots, and those that
\* write one slot.
ClearingCommands == DelCommands \cup PdelCommands \cup DropCommands \cup FlushdbCommands
                      \cup DelhookCommands \cup PdelhookCommands

LEMMA Clearing ==
    ASSUME NEW d \in Datasets, NEW c \in ClearingCommands, NEW s \in Slots
    PROVE  LoadCommand(d, c)[s] = IF s \in Cleared(c) THEN Absent ELSE d[s]
<1>0. d = [t \in Slots |-> d[t]]
  BY DatasetSlots
<1>1. c.op # "sethook"
  BY DEF ClearingCommands, DelCommands, PdelCommands, DropCommands, FlushdbCommands,
         DelhookCommands, PdelhookCommands
<1>2. LoadCommand(d, c) = Command(d, c)
  BY <1>1 DEF LoadCommand
<1>3. CASE c \in DelCommands
  BY <1>0, <1>2, <1>3, Dispatch, ClearedIs DEF DelCommands, cmdDel, Slots
<1>4. CASE c \in PdelCommands
  BY <1>2, <1>4, Dispatch, ClearedIs DEF PdelCommands, cmdPdel
<1>5. CASE c \in DropCommands
  BY <1>2, <1>5, Dispatch, ClearedIs DEF DropCommands, cmdDrop
<1>6. CASE c \in FlushdbCommands
  BY <1>2, <1>6, Dispatch, ClearedIs DEF FlushdbCommands, cmdFlushDB, EmptyDataset
<1>7. CASE c \in DelhookCommands
  BY <1>0, <1>2, <1>7, Dispatch, ClearedIs DEF DelhookCommands, cmdDelHook, Slots
<1>8. CASE c \in PdelhookCommands
  BY <1>2, <1>8, Dispatch, ClearedIs DEF PdelhookCommands, cmdPDelHook
<1> QED
  BY <1>3, <1>4, <1>5, <1>6, <1>7, <1>8 DEF ClearingCommands

ObjectCommandSet == SetCommands \cup FsetCommands \cup ExpireCommands \cup PersistCommands
                      \cup JsetCommands

\* What a command that writes one object makes of its state x.
Written(x, c) ==
    CASE c.op = "set" ->
           IF (c.cond = "nx" => x = Absent) /\ (c.cond = "xx" => x # Absent)
           THEN [doc |-> c.doc, geo |-> c.geo, fields |-> SetFields(AdoptedFields(x), c.fields),
                 ex |-> IF c.ex THEN "live" ELSE "none"]
           ELSE x
      [] c.op = "fset" ->
           IF x = Absent THEN x ELSE [x EXCEPT !.fields = SetFields(x.fields, c.fields)]
      [] c.op = "expire" ->
           IF x # Absent /\ x.ex # "due" THEN [x EXCEPT !.ex = "live"] ELSE x
      [] c.op = "persist" ->
           IF x # Absent /\ x.ex # "due" THEN [x EXCEPT !.ex = "none"] ELSE x
      [] c.op = "jset" ->
           [doc |-> JsonSet(DocOf(x), c), geo |-> IsGeo(x), fields |-> AdoptedFields(x), ex |-> "none"]

LEMMA WrittenIs ==
    ASSUME NEW x, NEW c
    PROVE  /\ c.op = "set" => Written(x, c) =
                IF (c.cond = "nx" => x = Absent) /\ (c.cond = "xx" => x # Absent)
                THEN [doc |-> c.doc, geo |-> c.geo, fields |-> SetFields(AdoptedFields(x), c.fields),
                      ex |-> IF c.ex THEN "live" ELSE "none"]
                ELSE x
           /\ c.op = "fset" => Written(x, c) =
                IF x = Absent THEN x ELSE [x EXCEPT !.fields = SetFields(x.fields, c.fields)]
           /\ c.op = "expire" => Written(x, c) =
                IF x # Absent /\ x.ex # "due" THEN [x EXCEPT !.ex = "live"] ELSE x
           /\ c.op = "persist" => Written(x, c) =
                IF x # Absent /\ x.ex # "due" THEN [x EXCEPT !.ex = "none"] ELSE x
           /\ c.op = "jset" => Written(x, c) =
                [doc |-> JsonSet(DocOf(x), c), geo |-> IsGeo(x), fields |-> AdoptedFields(x), ex |-> "none"]
BY DEF Written

LEMMA WrittenFset ==
    ASSUME NEW x, NEW c, c.op = "fset", x # Absent
    PROVE  Written(x, c) = [x EXCEPT !.fields = SetFields(x.fields, c.fields)]
BY DEF Written

LEMMA Writing ==
    ASSUME NEW d \in Datasets, NEW c \in ObjectCommandSet, PlainCommand(c), NEW s \in Slots
    PROVE  /\ c.slot \in Objects
           /\ LoadCommand(d, c)[s] = IF s = c.slot THEN Written(d[s], c) ELSE d[s]
<1>0. d = [t \in Slots |-> d[t]]
  BY DatasetSlots
<1>1. c.op # "sethook" /\ c.slot \in Objects /\ c.slot \in Slots
  BY DEF ObjectCommandSet, SetCommands, FsetCommands, ExpireCommands, PersistCommands,
         JsetCommands, Slots
<1>2. LoadCommand(d, c) = Command(d, c)
  BY <1>1 DEF LoadCommand
<1>3. SUFFICES Command(d, c) = [d EXCEPT ![c.slot] = Written(d[c.slot], c)]
  BY <1>0, <1>1, <1>2
<1>4. d = [d EXCEPT ![c.slot] = d[c.slot]]
  BY <1>0
<1>5. CASE c \in SetCommands
  <2>1. c.op = "set"
    BY <1>5 DEF SetCommands
  <2>2. Command(d, c) = cmdSet(d, c)
    BY <2>1, Dispatch
  <2>3. CASE SetAllowed(d, c)
    <3>1. Written(d[c.slot], c) =
            [doc |-> c.doc, geo |-> c.geo, fields |-> SetFields(AdoptedFields(d[c.slot]), c.fields),
             ex |-> IF c.ex THEN "live" ELSE "none"]
      BY <2>1, <2>3, WrittenIs, Zenon DEF SetAllowed
    <3> QED BY <2>2, <2>3, <3>1, Zenon DEF cmdSet
  <2>4. CASE ~SetAllowed(d, c)
    <3>1. Written(d[c.slot], c) = d[c.slot]
      BY <2>1, <2>4, WrittenIs, Zenon DEF SetAllowed
    <3> QED BY <1>4, <2>2, <2>4, <3>1, Zenon DEF cmdSet
  <2> QED BY <2>3, <2>4
<1>6. CASE c \in FsetCommands
  <2>1. c.op = "fset"
    BY <1>6 DEF FsetCommands
  <2>2. Command(d, c) = cmdFset(d, c)
    BY <2>1, Dispatch
  <2>3. CASE d[c.slot] = Absent
    <3>1. Written(d[c.slot], c) = d[c.slot] /\ cmdFset(d, c) = d
      BY <2>1, <2>3, WrittenIs, Zenon DEF cmdFset
    <3> QED BY <1>4, <2>2, <3>1, Zenon
  <2>4. CASE d[c.slot] # Absent
    <3> DEFINE y == [d[c.slot] EXCEPT !.fields = SetFields(d[c.slot].fields, c.fields)]
    <3>1. Written(d[c.slot], c) = y
      BY <2>1, <2>4, WrittenFset, Zenon
    <3>2. cmdFset(d, c) = [d EXCEPT ![c.slot] = y]
      BY <2>4 DEF cmdFset
    <3> QED BY <2>2, <3>1, <3>2, Zenon
  <2> QED BY <2>3, <2>4
<1>7. CASE c \in ExpireCommands
  <2>1. c.op = "expire"
    BY <1>7 DEF ExpireCommands
  <2>2. Command(d, c) = cmdExpire(d, c)
    BY <2>1, Dispatch
  <2>3. CASE ~Unexpired(d, c.slot)
    <3>1. Written(d[c.slot], c) = d[c.slot] /\ cmdExpire(d, c) = d
      BY <2>1, <2>3, WrittenIs, Zenon DEF cmdExpire, Unexpired
    <3> QED BY <1>4, <2>2, <3>1, Zenon
  <2>4. CASE Unexpired(d, c.slot)
    <3> DEFINE y == [d[c.slot] EXCEPT !.ex = "live"]
    <3>1. Written(d[c.slot], c) = y
      BY <2>1, <2>4, WrittenIs, Zenon DEF Unexpired
    <3>2. cmdExpire(d, c) = [d EXCEPT ![c.slot] = y]
      BY <2>4 DEF cmdExpire
    <3> QED BY <2>2, <3>1, <3>2, Zenon
  <2> QED BY <2>3, <2>4
<1>8. CASE c \in PersistCommands
  <2>1. c.op = "persist"
    BY <1>8 DEF PersistCommands
  <2>2. Command(d, c) = cmdPersist(d, c)
    BY <2>1, Dispatch
  <2>3. CASE ~Unexpired(d, c.slot)
    <3>1. Written(d[c.slot], c) = d[c.slot] /\ cmdPersist(d, c) = d
      BY <2>1, <2>3, WrittenIs, Zenon DEF cmdPersist, Unexpired
    <3> QED BY <1>4, <2>2, <3>1, Zenon
  <2>4. CASE Unexpired(d, c.slot)
    <3> DEFINE y == [d[c.slot] EXCEPT !.ex = "none"]
    <3>1. Written(d[c.slot], c) = y
      BY <2>1, <2>4, WrittenIs, Zenon DEF Unexpired
    <3>2. cmdPersist(d, c) = [d EXCEPT ![c.slot] = y]
      BY <2>4 DEF cmdPersist
    <3> QED BY <2>2, <3>1, <3>2, Zenon
  <2> QED BY <2>3, <2>4
<1>9. CASE c \in JsetCommands
  <2>1. c.op = "jset" /\ c.path \notin ShapePaths
    BY <1>9 DEF JsetCommands, PlainCommand
  <2>2. Command(d, c) = cmdJset(d, c)
    BY <2>1, Dispatch
  <2> QED BY <1>4, <2>1, <2>2, WrittenIs, Zenon DEF cmdJset, BreaksShape
<1> QED
  BY <1>5, <1>6, <1>7, <1>8, <1>9 DEF ObjectCommandSet

\* What SETHOOK without a META pair and without GET writes.
HookWritten(c) == [def |-> c.def, meta |-> NoMeta, ref |-> NoArea, area |-> NoArea]

LEMMA Hooking ==
    ASSUME NEW d \in Datasets, NEW c \in SethookCommands, PlainCommand(c), NEW s \in Slots
    PROVE  /\ c.hook \in HookNames
           /\ LoadCommand(d, c)[s] = IF s = c.hook THEN HookWritten(c) ELSE d[s]
<1>1. d = [t \in Slots |-> d[t]]
  BY DatasetSlots
<1>2. c.op = "sethook" /\ c.hook \in HookNames /\ c.hook \in Slots /\ c.meta = NoMeta /\ c.ref = NoArea
  BY DEF SethookCommands, PlainCommand, Slots
<1>3. LoadCommand(d, c) = PlaceHook(d, c)
  BY <1>2 DEF LoadCommand, AreaKnown
<1> QED
  BY <1>1, <1>2, <1>3 DEF PlaceHook, HookWritten

\* A plain command is of one of the three kinds.
LEMMA PlainKinds ==
    ASSUME NEW c \in WriteCommands, PlainCommand(c)
    PROVE  c \in ClearingCommands \cup ObjectCommandSet \cup SethookCommands
BY DEF WriteCommands, PlainCommand, JdelCommands, ClearingCommands, ObjectCommandSet

----------------------------------------------------------------------------
\* What an effective command that writes one object says of the object before.
Effective(a, c) ==
    /\ c.op = "set" => (c.cond = "nx" => a = Absent) /\ (c.cond = "xx" => a # Absent)
    /\ c.op \in {"fset", "expire", "persist"} => a # Absent

\* An effective command keeps Between, run on the object in the log's past (a)
\* and in the new file (x).
LEMMA BetweenWritten ==
    ASSUME NEW x \in ObjectStates \cup {Absent}, NEW a \in ObjectStates \cup {Absent},
           NEW b \in ObjectStates, NEW c \in ObjectCommandSet, PlainCommand(c),
           a # Absent => a.ex # "due", b.ex # "due",
           Effective(a, c), Between(x, a, b)
    PROVE  Between(Written(x, c), Written(a, c), b)
<1>0. b # Absent /\ \A y \in ObjectStates : y # Absent
  BY DatasetAssumption
<1>1. CASE c \in SetCommands
  <2>1. c.op = "set" /\ c.doc \in Docs /\ c.geo \in BOOLEAN /\ c.fields \in FieldValues
    BY <1>1 DEF SetCommands
  <2> DEFINE New(y) == [doc |-> c.doc, geo |-> c.geo, fields |-> SetFields(AdoptedFields(y), c.fields),
                        ex |-> IF c.ex THEN "live" ELSE "none"]
  <2>2. /\ Written(a, c) = New(a)
        /\ Written(x, c) = New(x) \/ (Written(x, c) = x /\ a = Absent /\ x # Absent)
    BY <2>1, WrittenIs, <1>0 DEF Effective, Between
  <2>3. \A y \in ObjectStates \cup {Absent} : AdoptedFields(y) \in [Fields -> Nat]
    BY DEF AdoptedFields, ObjectStates
  <2>4. \A y \in ObjectStates \cup {Absent} : New(y) \in ObjectStates
    BY <2>1, <2>3, SetFieldsType DEF ObjectStates
  <2>5. CASE Written(x, c) = x /\ a = Absent /\ x # Absent
    <3>1. x = b
      BY <2>5 DEF Between
    <3> QED BY <2>2, <2>4, <2>5, <3>1, <1>0 DEF Between, Mixed
  <2>6. CASE Written(x, c) = New(x)
    <3>1. \A f \in Fields : AdoptedFields(x)[f] \in {AdoptedFields(a)[f], b.fields[f]}
      BY <1>0 DEF Between, Mixed, AdoptedFields
    <3>2. \A f \in Fields : New(x).fields[f] \in {New(a).fields[f], b.fields[f]}
      BY <3>1 DEF SetFields
    <3>3. Mixed(New(x), New(a), b)
      BY <3>2 DEF Mixed
    <3>4. New(x) # Absent /\ New(a) # Absent
      BY <1>0, <2>4
    <3> HIDE DEF New
    <3> QED BY <2>2, <2>6, <3>3, <3>4, <1>0 DEF Between
  <2> QED BY <2>2, <2>5, <2>6
<1>2. CASE c \in FsetCommands
  <2>1. c.op = "fset" /\ c.fields \in FieldValues
    BY <1>2 DEF FsetCommands
  <2>2. a \in ObjectStates /\ x \in ObjectStates /\ Mixed(x, a, b)
    BY <2>1, <1>0 DEF Effective, Between
  <2>3. /\ Written(a, c) = [a EXCEPT !.fields = SetFields(a.fields, c.fields)]
        /\ Written(x, c) = [x EXCEPT !.fields = SetFields(x.fields, c.fields)]
    BY <2>1, <2>2, <1>0, WrittenIs
  <2>4. Written(a, c) \in ObjectStates /\ Written(x, c) \in ObjectStates
    BY <2>1, <2>2, <2>3, SetFieldsType DEF ObjectStates
  <2>5. Mixed(Written(x, c), Written(a, c), b)
    BY <2>2, <2>3 DEF Mixed, ObjectStates, SetFields
  <2> QED BY <2>4, <2>5, <1>0 DEF Between
<1>3. CASE c \in ExpireCommands \cup PersistCommands
  <2>1. c.op \in {"expire", "persist"}
    BY <1>3 DEF ExpireCommands, PersistCommands
  <2>2. a \in ObjectStates /\ x \in ObjectStates /\ Mixed(x, a, b)
    BY <2>1, <1>0 DEF Effective, Between
  <2>3. a.ex # "due" /\ x.ex # "due"
    BY <2>2, <1>0 DEF Mixed
  <2>4. PICK e \in {"live", "none"} : /\ Written(a, c) = [a EXCEPT !.ex = e]
                                       /\ Written(x, c) = [x EXCEPT !.ex = e]
    BY <2>1, <2>2, <2>3, <1>0, WrittenIs
  <2>5. Written(a, c) \in ObjectStates /\ Written(x, c) \in ObjectStates
    BY <2>2, <2>4 DEF ObjectStates
  <2>6. Mixed(Written(x, c), Written(a, c), b)
    BY <2>2, <2>4 DEF Mixed, ObjectStates
  <2> QED BY <2>5, <2>6, <1>0 DEF Between
<1>4. CASE c \in JsetCommands
  <2>1. c.op = "jset" /\ c.path \in Paths /\ c.val \in Nat /\ ~c.append
    BY <1>4 DEF JsetCommands, PlainCommand
  <2> DEFINE New(y) == [doc |-> JsonSet(DocOf(y), c), geo |-> IsGeo(y), fields |-> AdoptedFields(y),
                        ex |-> "none"]
  <2>2. Written(a, c) = New(a) /\ Written(x, c) = New(x)
    BY <2>1, WrittenIs
  <2>3. \A y \in ObjectStates \cup {Absent} :
            /\ AdoptedFields(y) \in [Fields -> Nat] /\ DocOf(y) \in Docs /\ IsGeo(y) \in BOOLEAN
    BY Zenon DEF AdoptedFields, DocOf, IsGeo, ObjectStates, Docs
  <2>4. \A y \in ObjectStates \cup {Absent} : New(y) \in ObjectStates
    BY <2>1, <2>3 DEF ObjectStates, JsonSet, Docs
  <2>5. /\ \A f \in Fields : AdoptedFields(x)[f] \in {AdoptedFields(a)[f], b.fields[f]}
        /\ \A p \in Paths : DocOf(x)[p] \in {DocOf(a)[p], b.doc[p]}
        /\ IsGeo(x) \in {IsGeo(a), b.geo}
    BY <1>0, Zenon DEF Between, Mixed, AdoptedFields, DocOf, IsGeo
  <2>6. \A p \in Paths : New(x).doc[p] \in {New(a).doc[p], b.doc[p]}
    BY <2>1, <2>3, <2>5 DEF JsonSet, Docs
  <2>7. Mixed(New(x), New(a), b)
    BY <2>5, <2>6 DEF Mixed
  <2>8. New(x) # Absent /\ New(a) # Absent
    BY <1>0, <2>4
  <2> HIDE DEF New
  <2> QED BY <2>2, <2>7, <2>8, <1>0 DEF Between
<1> QED
  BY <1>1, <1>2, <1>3, <1>4 DEF ObjectCommandSet

----------------------------------------------------------------------------
\* What a load does to a slot depends on that slot only.
LEMMA EqualStep ==
    ASSUME NEW d \in Datasets, NEW e \in Datasets, NEW c \in WriteCommands, PlainCommand(c),
           NEW s \in Slots, d[s] = e[s]
    PROVE  LoadCommand(d, c)[s] = LoadCommand(e, c)[s]
<1>1. CASE c \in ClearingCommands
  BY <1>1, Clearing
<1>2. CASE c \in ObjectCommandSet
  BY <1>2, Writing
<1>3. CASE c \in SethookCommands
  BY <1>3, Hooking
<1> QED BY <1>1, <1>2, <1>3, PlainKinds

\* A written object stays an object.
LEMMA WrittenType ==
    ASSUME NEW x \in ObjectStates, NEW c \in ObjectCommandSet
    PROVE  Written(x, c) \in ObjectStates
<1>0. x # Absent
  BY DatasetAssumption
<1>1. CASE c \in SetCommands
  <2>1. c.op = "set" /\ c.doc \in Docs /\ c.geo \in BOOLEAN /\ c.fields \in FieldValues
    BY <1>1 DEF SetCommands
  <2>2. SetFields(x.fields, c.fields) \in [Fields -> Nat]
    BY <2>1, SetFieldsType DEF ObjectStates
  <2>3. [doc |-> c.doc, geo |-> c.geo, fields |-> SetFields(x.fields, c.fields),
         ex |-> IF c.ex THEN "live" ELSE "none"] \in ObjectStates
    BY <2>1, <2>2 DEF ObjectStates
  <2> QED BY <1>0, <2>1, <2>3, WrittenIs DEF AdoptedFields
<1>2. CASE c \in FsetCommands
  <2>1. c.op = "fset" /\ c.fields \in FieldValues
    BY <1>2 DEF FsetCommands
  <2>2. [x EXCEPT !.fields = SetFields(x.fields, c.fields)] \in ObjectStates
    BY <2>1, SetFieldsType DEF ObjectStates
  <2> QED BY <1>0, <2>1, <2>2, WrittenIs
<1>3. CASE c \in ExpireCommands \cup PersistCommands
  <2>1. c.op \in {"expire", "persist"}
    BY <1>3 DEF ExpireCommands, PersistCommands
  <2>2. \A v \in {"live", "none"} : [x EXCEPT !.ex = v] \in ObjectStates
    BY DEF ObjectStates
  <2> QED BY <2>1, <2>2, WrittenIs
<1>4. CASE c \in JsetCommands
  <2>1. c.op = "jset" /\ c.path \in Paths /\ c.val \in Nat /\ c.append \in BOOLEAN
    BY <1>4 DEF JsetCommands
  <2>2. x.doc \in Docs /\ x.geo \in BOOLEAN /\ x.fields \in [Fields -> Nat]
    BY DEF ObjectStates
  <2>3. JsonSet(x.doc, c) \in Docs
    BY <2>1, <2>2 DEF JsonSet, Docs
  <2>4. [doc |-> JsonSet(x.doc, c), geo |-> x.geo, fields |-> x.fields, ex |-> "none"] \in ObjectStates
    BY <2>2, <2>3 DEF ObjectStates
  <2> QED BY <1>0, <2>1, <2>4, WrittenIs, Zenon DEF DocOf, IsGeo, AdoptedFields
<1> QED
  BY <1>1, <1>2, <1>3, <1>4 DEF ObjectCommandSet

\* Only a command that clears a slot empties it, and it does so whatever the
\* slot holds.
LEMMA Vanish ==
    ASSUME NEW d \in Datasets, NEW c \in WriteCommands, PlainCommand(c), NEW s \in Slots
    PROVE  /\ s \in Cleared(c) => LoadCommand(d, c)[s] = Absent
           /\ d[s] # Absent /\ LoadCommand(d, c)[s] = Absent => s \in Cleared(c)
<1>1. CASE c \in ClearingCommands
  BY <1>1, Clearing
<1>2. CASE c \in ObjectCommandSet
  <2>1. Cleared(c) = {}
    BY <1>2, ClearedIs DEF ObjectCommandSet, SetCommands, FsetCommands, ExpireCommands,
         PersistCommands, JsetCommands
  <2>2. s = c.slot /\ d[s] # Absent => d[s] \in ObjectStates
    BY <1>2, Writing, DatasetSlots
  <2> QED BY <1>2, <2>1, <2>2, Writing, WrittenType, DatasetAssumption
<1>3. CASE c \in SethookCommands
  <2>1. Cleared(c) = {}
    BY <1>3, ClearedIs DEF SethookCommands
  <2>2. HookWritten(c) \in HookStates
    BY <1>3 DEF SethookCommands, HookWritten, HookStates
  <2>3. HookWritten(c) # Absent
    BY <2>2, DatasetAssumption
  <2> QED BY <1>3, <2>1, <2>3, Hooking
<1> QED
  BY <1>1, <1>2, <1>3, PlainKinds

\* A command that was effective in the past keeps Between for every object.
LEMMA ObjectStep ==
    ASSUME NEW d \in Datasets, NEW e \in Datasets, NotDue(e),
           NEW c \in WriteCommands, PlainCommand(c), Updated(e, c),
           NEW o \in Objects, NEW b \in ObjectStates, b.ex # "due",
           Between(d[o], e[o], b)
    PROVE  Between(LoadCommand(d, c)[o], LoadCommand(e, c)[o], b)
<1>0. o \in Slots /\ d[o] \in ObjectStates \cup {Absent} /\ e[o] \in ObjectStates \cup {Absent}
  BY DatasetSlots DEF Slots
<1>1. CASE c \in ClearingCommands
  BY <1>0, <1>1, Clearing DEF Between
<1>2. CASE c \in ObjectCommandSet
  <2>1. CASE o # c.slot
    BY <1>0, <1>2, <2>1, Writing
  <2>2. CASE o = c.slot
    <3>1. c.op \in {"set", "fset", "expire", "persist", "jset"}
      BY <1>2 DEF ObjectCommandSet, SetCommands, FsetCommands, ExpireCommands,
           PersistCommands, JsetCommands
    <3>2. Effective(e[o], c)
      BY <2>2, <3>1, UpdatedIs DEF Effective, SetAllowed, Unexpired
    <3>3. e[o] # Absent => e[o].ex # "due"
      BY DEF NotDue
    <3>4. Between(Written(d[o], c), Written(e[o], c), b)
      BY <1>0, <1>2, <3>2, <3>3, BetweenWritten
    <3> QED BY <1>0, <1>2, <2>2, <3>4, Writing
  <2> QED BY <2>1, <2>2
<1>3. CASE c \in SethookCommands
  <2>1. o # c.hook
    BY <1>3, DatasetAssumption DEF SethookCommands
  <2> QED BY <1>0, <1>3, <2>1, Hooking
<1> QED
  BY <1>1, <1>2, <1>3, PlainKinds

\* A hook in the new file is the one of the log's past, or the one written.
LEMMA HookStep ==
    ASSUME NEW d \in Datasets, NEW e \in Datasets, NEW c \in WriteCommands, PlainCommand(c),
           NEW h \in HookNames, NEW b, d[h] = e[h] \/ d[h] = b
    PROVE  \/ LoadCommand(d, c)[h] = LoadCommand(e, c)[h]
           \/ LoadCommand(d, c)[h] = b
<1>0. h \in Slots
  BY DEF Slots
<1>1. CASE c \in ClearingCommands
  BY <1>0, <1>1, Clearing
<1>2. CASE c \in ObjectCommandSet
  <2>1. h # c.slot
    BY <1>0, <1>2, Writing, DatasetAssumption
  <2> QED BY <1>0, <1>2, <2>1, Writing
<1>3. CASE c \in SethookCommands
  BY <1>0, <1>3, Hooking
<1> QED
  BY <1>1, <1>2, <1>3, PlainKinds

\* When the replay reaches the moment the object was written, it is done.
LEMMA BetweenEnd ==
    ASSUME NEW x \in ObjectStates \cup {Absent}, NEW b \in ObjectStates, Between(x, b, b)
    PROVE  x = b
<1>1. x # Absent /\ b # Absent
  BY DatasetAssumption DEF Between
<1>2. x \in ObjectStates /\ Mixed(x, b, b)
  BY <1>1 DEF Between
<1>3. x.doc = b.doc /\ x.fields = b.fields
  BY <1>2 DEF Mixed, ObjectStates, Docs
<1>4. x.geo = b.geo /\ x.ex = b.ex
  BY <1>2 DEF Mixed
<1> QED
  BY <1>2, <1>3, <1>4 DEF ObjectStates
=============================================================================
