----------------------------- MODULE AOFHistory ------------------------------
(***************************************************************************)
(* Files and the datasets that loading them goes through; the history of   *)
(* the dataset since a shrink began, and the replay of the shrink log.     *)
(***************************************************************************)
EXTENDS ReplayLemmas

PlainFile(file) == \A n \in 1..Len(file) : PlainCommand(file[n])

HooksPlain(d) ==
    \A h \in HookNames : d[h] # Absent => d[h].meta = NoMeta /\ d[h].ref = NoArea /\ d[h].area = NoArea

\* Loading the file gives d.
Loads(file, d) == \E run : IsRun(run, file) /\ run[Len(file)] = d

----------------------------------------------------------------------------
LEMMA LoadAgrees ==
    ASSUME NEW d \in Datasets, NEW c \in WriteCommands, Updated(d, c)
    PROVE  LoadCommand(d, c) = Command(d, c)
<1>1. CASE c.op = "sethook"
  BY <1>1, UpdatedIs, Dispatch DEF LoadCommand, cmdSetHook
<1>2. CASE c.op # "sethook"
  BY <1>2 DEF LoadCommand
<1> QED BY <1>1, <1>2

LEMMA NotDueStep ==
    ASSUME NEW d \in Datasets, NEW c \in WriteCommands, PlainCommand(c), NotDue(d)
    PROVE  NotDue(LoadCommand(d, c))
<1> SUFFICES ASSUME NEW o \in Objects, LoadCommand(d, c)[o] # Absent
             PROVE  LoadCommand(d, c)[o].ex # "due"
  BY DEF NotDue
<1>0. o \in Slots /\ d[o] \in ObjectStates \cup {Absent} /\ (d[o] # Absent => d[o].ex # "due")
  BY DatasetSlots DEF Slots, NotDue
<1>1. CASE c \in ClearingCommands
  BY <1>0, <1>1, Clearing
<1>2. CASE c \in SethookCommands
  <2>1. o # c.hook
    BY <1>2, DatasetAssumption DEF SethookCommands
  <2> QED BY <1>0, <1>2, <2>1, Hooking
<1>3. CASE c \in ObjectCommandSet
  <2>1. CASE o # c.slot
    BY <1>0, <1>3, <2>1, Writing
  <2>2. CASE o = c.slot
    <3>1. LoadCommand(d, c)[o] = Written(d[o], c)
      BY <1>0, <1>3, <2>2, Writing
    <3>2. CASE c \in SetCommands
      <4>1. c.op = "set"
        BY <3>2 DEF SetCommands
      <4> QED BY <1>0, <3>1, <4>1, WrittenIs
    <3>3. CASE c \in FsetCommands
      <4>1. c.op = "fset"
        BY <3>3 DEF FsetCommands
      <4> DEFINE y == [d[o] EXCEPT !.fields = SetFields(d[o].fields, c.fields)]
      <4>2. d[o] \in ObjectStates => y.ex = d[o].ex
        BY DEF ObjectStates
      <4>3. d[o] # Absent => Written(d[o], c) = y
        BY <4>1, WrittenIs
      <4>4. d[o] = Absent => Written(d[o], c) = Absent
        BY <4>1, WrittenIs
      <4> HIDE DEF y
      <4> QED BY <1>0, <3>1, <4>2, <4>3, <4>4
    <3>4. CASE c \in ExpireCommands \cup PersistCommands
      <4>1. c.op \in {"expire", "persist"}
        BY <3>4 DEF ExpireCommands, PersistCommands
      <4>2. d[o] \in ObjectStates => [d[o] EXCEPT !.ex = "live"].ex = "live"
                                     /\ [d[o] EXCEPT !.ex = "none"].ex = "none"
        BY DEF ObjectStates
      <4>3. d[o] # Absent => Written(d[o], c) \in {[d[o] EXCEPT !.ex = "live"], [d[o] EXCEPT !.ex = "none"]}
        BY <1>0, <4>1, WrittenIs
      <4>4. d[o] = Absent => Written(d[o], c) = Absent
        BY <4>1, WrittenIs
      <4> QED BY <1>0, <3>1, <4>2, <4>3, <4>4, Zenon
    <3>5. CASE c \in JsetCommands
      <4>1. c.op = "jset"
        BY <3>5 DEF JsetCommands
      <4> QED BY <1>0, <3>1, <4>1, WrittenIs
    <3> QED BY <1>3, <3>2, <3>3, <3>4, <3>5 DEF ObjectCommandSet
  <2> QED BY <2>1, <2>2
<1> QED BY <1>1, <1>2, <1>3, PlainKinds

LEMMA HooksPlainStep ==
    ASSUME NEW d \in Datasets, NEW c \in WriteCommands, PlainCommand(c), HooksPlain(d)
    PROVE  HooksPlain(LoadCommand(d, c))
<1> SUFFICES ASSUME NEW h \in HookNames, LoadCommand(d, c)[h] # Absent
             PROVE  LET x == LoadCommand(d, c)[h]
                    IN  x.meta = NoMeta /\ x.ref = NoArea /\ x.area = NoArea
  BY DEF HooksPlain
<1>0. h \in Slots /\ (d[h] # Absent => d[h].meta = NoMeta /\ d[h].ref = NoArea /\ d[h].area = NoArea)
  BY DEF Slots, HooksPlain
<1>1. CASE c \in ClearingCommands
  BY <1>0, <1>1, Clearing
<1>2. CASE c \in ObjectCommandSet
  <2>1. h # c.slot
    BY <1>0, <1>2, Writing, DatasetAssumption
  <2> QED BY <1>0, <1>2, <2>1, Writing
<1>3. CASE c \in SethookCommands
  <2>1. HookWritten(c).meta = NoMeta /\ HookWritten(c).ref = NoArea /\ HookWritten(c).area = NoArea
    BY DEF HookWritten
  <2>2. LoadCommand(d, c)[h] = IF h = c.hook THEN HookWritten(c) ELSE d[h]
    BY <1>0, <1>3, Hooking
  <2> QED BY <1>0, <2>1, <2>2
<1> QED BY <1>1, <1>2, <1>3, PlainKinds

LEMMA RenewedIs ==
    ASSUME NEW d \in Datasets, NotDue(d)
    PROVE  Renewed(d) = d
<1>1. d = [s \in Slots |-> d[s]]
  BY DatasetSlots
<1>2. \A s \in Slots : ~(s \in Objects /\ d[s] # Absent /\ d[s].ex = "due")
  BY DEF NotDue
<1> QED BY <1>1, <1>2 DEF Renewed

\* The command the shrinker writes for an object, or a hook, restores it in a
\* file that does not hold it yet.
LEMMA ShrinkSetLoads ==
    ASSUME NEW image \in Datasets, NEW o \in Objects, image[o] = Absent,
           NEW x \in ObjectStates, x.ex # "due", NEW s \in Slots
    PROVE  LoadCommand(image, ShrinkSet(o, x))[s] = IF s = o THEN x ELSE image[s]
<1> DEFINE c == ShrinkSet(o, x)
           fs == [f \in Fields |-> IF x.fields[f] = 0 THEN Absent ELSE x.fields[f]]
<1>1. fs \in FieldValues
  BY DEF ObjectStates, FieldValues
<1>2. c.op = "set" /\ c.slot = o /\ c.doc = x.doc /\ c.geo = x.geo /\ c.fields = fs
      /\ (c.ex <=> x.ex = "live") /\ c.cond = "any"
  BY Zenon DEF ShrinkSet
<1>3. c \in SetCommands
  BY <1>1 DEF ShrinkSet, SetCommands, ObjectStates
<1>4. SetFields(AdoptedFields(image[o]), fs) = x.fields
  BY DatasetAssumption DEF SetFields, AdoptedFields, ObjectStates
<1>5. (IF c.ex THEN "live" ELSE "none") = x.ex
  BY <1>2 DEF ObjectStates
<1> HIDE DEF c, fs
<1>6. Written(image[o], c) = [doc |-> x.doc, geo |-> x.geo, fields |-> x.fields, ex |-> x.ex]
  BY <1>2, <1>4, <1>5, WrittenIs
<1>7. Written(image[o], c) = x
  BY <1>6 DEF ObjectStates
<1>8. c \in ObjectCommandSet /\ PlainCommand(c)
  BY <1>2, <1>3 DEF ObjectCommandSet, PlainCommand
<1>9. LoadCommand(image, c)[s] = IF s = c.slot THEN Written(image[s], c) ELSE image[s]
  BY <1>8, Writing
<1> QED BY <1>2, <1>7, <1>9, Zenon DEF c

LEMMA ShrinkHookLoads ==
    ASSUME NEW image \in Datasets, NEW h \in HookNames, NEW x \in HookStates,
           x.meta = NoMeta, x.ref = NoArea, x.area = NoArea, NEW s \in Slots
    PROVE  LoadCommand(image, ShrinkSethook(h, x))[s] = IF s = h THEN x ELSE image[s]
<1> DEFINE c == ShrinkSethook(h, x)
<1>1. c.op = "sethook" /\ c.hook = h /\ c.def = x.def /\ c.meta = NoMeta /\ c.ref = NoArea
  BY DEF ShrinkSethook
<1>2. c \in SethookCommands
  BY DEF ShrinkSethook, SethookCommands, HookStates
<1>3. PlainCommand(c)
  BY <1>1 DEF PlainCommand
<1> HIDE DEF c
<1>4. HookWritten(c) = x
  BY <1>1 DEF HookWritten, HookStates
<1> QED BY <1>1, <1>2, <1>3, <1>4, Hooking DEF c
----------------------------------------------------------------------------
LEMMA LoadsEmpty == Loads(<<>>, EmptyDataset)
<1> DEFINE run == [n \in 0..0 |-> EmptyDataset]
<1>1. run \in [0..Len(<<>>) -> Datasets] /\ run[0] = EmptyDataset
  BY EmptyType, EmptySeq
<1>2. IsRun(run, <<>>)
  BY <1>1, EmptySeq DEF IsRun
<1> QED BY <1>1, <1>2, EmptySeq DEF Loads

LEMMA LoadsAppend ==
    ASSUME NEW file \in Seq(WriteCommands), NEW d, Loads(file, d), NEW c \in WriteCommands
    PROVE  Loads(Append(file, c), LoadCommand(d, c)) /\ d \in Datasets
<1>1. PICK run : IsRun(run, file) /\ run[Len(file)] = d
  BY DEF Loads
<1> DEFINE m    == Len(file)
           next == [n \in 0..m + 1 |-> IF n <= m THEN run[n] ELSE LoadCommand(d, c)]
           more == Append(file, c)
<1>2. m \in Nat /\ run \in [0..m -> Datasets] /\ d \in Datasets
  BY <1>1 DEF IsRun
<1>3. Len(more) = m + 1 /\ more[m + 1] = c /\ \A n \in 1..m : more[n] = file[n]
  BY Appended
<1> HIDE DEF more, m
<1>4. next \in [0..m + 1 -> Datasets]
  BY <1>2, LoadType
<1>5. next[0] = EmptyDataset /\ next[m + 1] = LoadCommand(d, c) /\ \A n \in 0..m : next[n] = run[n]
  BY <1>1, <1>2 DEF IsRun
<1> HIDE DEF next
<1>6. ASSUME NEW n \in 1..m + 1 PROVE next[n] = LoadCommand(next[n - 1], more[n])
  <2>1. CASE n = m + 1
    BY <1>1, <1>2, <1>3, <1>5, <2>1 DEF m
  <2>2. CASE n # m + 1
    <3>1. n \in 1..m /\ n - 1 \in 0..m /\ n \in 0..m
      BY <1>2, <2>2
    <3>2. run[n] = LoadCommand(run[n - 1], file[n])
      BY <1>1, <3>1 DEF IsRun, m
    <3> QED BY <1>3, <1>5, <3>1, <3>2
  <2> QED BY <2>1, <2>2
<1>7. IsRun(next, more)
  BY <1>3, <1>4, <1>5, <1>6 DEF IsRun
<1> QED BY <1>2, <1>3, <1>5, <1>7 DEF Loads, more

----------------------------------------------------------------------------
\* hist is the history of the dataset, now d, since a shrink began to log.
History(hist, log, d) ==
    /\ hist \in [0..Len(log) -> Datasets]
    /\ hist[Len(log)] = d
    /\ \A n \in 0..Len(log) : NotDue(hist[n])
    /\ \A n \in 1..Len(log) : /\ hist[n] = LoadCommand(hist[n - 1], log[n])
                              /\ Updated(hist[n - 1], log[n])
    /\ \A n \in 0..Len(log), r \in 0..Len(log), s \in Slots :
           r <= n /\ hist[n][s] = Absent =>
               hist[r][s] = Absent \/ \E e \in r + 1..n : s \in Cleared(log[e])

LEMMA HistoryStart ==
    ASSUME NEW d \in Datasets, NotDue(d)
    PROVE  \E hist : History(hist, <<>>, d)
<1> DEFINE hist == [n \in 0..0 |-> d]
<1>1. hist \in [0..0 -> Datasets] /\ hist[0] = d
  OBVIOUS
<1> HIDE DEF hist
<1>2. History(hist, <<>>, d)
  BY <1>1, EmptySeq DEF History
<1> QED BY <1>2

LEMMA HistoryStep ==
    ASSUME NEW log \in Seq(WriteCommands), NEW c \in WriteCommands, PlainCommand(c),
           NEW hist, NEW d \in Datasets, History(hist, log, d), Updated(d, c)
    PROVE  \E next : /\ History(next, Append(log, c), LoadCommand(d, c))
                     /\ \A n \in 0..Len(log) : next[n] = hist[n]
<1> DEFINE m    == Len(log)
           next == [n \in 0..m + 1 |-> IF n <= m THEN hist[n] ELSE LoadCommand(d, c)]
           more == Append(log, c)
<1> HIDE DEF next
<1>1. m \in Nat /\ hist \in [0..m -> Datasets] /\ hist[m] = d
  BY DEF History
<1>2. Len(more) = m + 1 /\ more[m + 1] = c /\ \A n \in 1..m : more[n] = log[n]
  BY Appended
<1>3. LoadCommand(d, c) \in Datasets /\ NotDue(LoadCommand(d, c))
  BY <1>1, LoadType, NotDueStep DEF History
<1> HIDE DEF more
<1> USE DEF next
<1>4. next \in [0..m + 1 -> Datasets] /\ next[m + 1] = LoadCommand(d, c)
      /\ \A n \in 0..m : next[n] = hist[n]
  BY <1>1, <1>3
<1> HIDE DEF next
<1>5. \A n \in 0..m + 1 : NotDue(next[n])
  <2> TAKE n \in 0..m + 1
  <2>1. n \in 0..m \/ n = m + 1
    BY <1>1
  <2> QED BY <1>3, <1>4, <2>1 DEF History
<1>6. \A n \in 1..m + 1 : next[n] = LoadCommand(next[n - 1], more[n]) /\ Updated(next[n - 1], more[n])
  <2> TAKE n \in 1..m + 1
  <2>1. CASE n = m + 1
    <3>1. n - 1 = m /\ m \in 0..m
      BY <1>1, <2>1
    <3> QED BY <1>1, <1>2, <1>4, <2>1, <3>1
  <2>2. CASE n # m + 1
    <3>1. n \in 1..m /\ n - 1 \in 0..m /\ n \in 0..m
      BY <1>1, <2>2
    <3> QED BY <1>2, <1>4, <3>1, SMTT(30) DEF History
  <2> QED BY <2>1, <2>2
<1>7. ASSUME NEW n \in 0..m + 1, NEW r \in 0..m + 1, NEW s \in Slots, r <= n, next[n][s] = Absent
      PROVE  next[r][s] = Absent \/ \E e \in r + 1..n : s \in Cleared(more[e])
  <2>1. CASE r = n
    BY <1>7, <2>1
  <2>2. CASE r # n
    <3>1. r \in 0..m /\ next[r] = hist[r] /\ r \in Nat
      BY <1>1, <1>4, <1>7, <2>2
    <3>2. ASSUME NEW q \in 0..m, r <= q, q <= n, hist[q][s] = Absent
          PROVE  next[r][s] = Absent \/ \E e \in r + 1..n : s \in Cleared(more[e])
      <4>1. hist[r][s] = Absent \/ \E e \in r + 1..q : s \in Cleared(log[e])
        BY <3>1, <3>2 DEF History
      <4>2. \A e \in r + 1..q : e \in r + 1..n /\ e \in 1..m
        BY <1>1, <3>1, <3>2
      <4>3. \A e \in r + 1..q : e \in r + 1..n /\ more[e] = log[e]
        BY <1>2, <4>2
      <4> QED BY <3>1, <4>1, <4>3
    <3>3. CASE n \in 0..m
      BY <1>4, <1>7, <3>2, <3>3
    <3>4. CASE n = m + 1
      <4>1. CASE s \in Cleared(c)
        <5>1. n \in r + 1..n
          BY <1>1, <3>1, <3>4
        <5> QED BY <1>2, <3>4, <4>1, <5>1
      <4>2. CASE s \notin Cleared(c)
        <5>1. hist[m][s] = Absent
          BY <1>1, <1>4, <1>7, <3>4, <4>2, Vanish, SMTT(30)
        <5> QED BY <1>1, <3>1, <3>2, <3>4, <5>1
      <4> QED BY <4>1, <4>2
    <3> QED BY <1>1, <3>3, <3>4
  <2> QED BY <2>1, <2>2
<1>8. History(next, more, LoadCommand(d, c))
  BY <1>2, <1>4, <1>5, <1>6, <1>7 DEF History
<1> QED BY <1>4, <1>8 DEF more

----------------------------------------------------------------------------
\* Slot s of the new file, now x, was written when the log had j commands; r of
\* them have been replayed since.
CaughtUp(x, hist, log, r, j, s) ==
    /\ j <= r => x = hist[r][s]
    /\ r < j /\ hist[j][s] = Absent =>
           x = hist[r][s] \/ \E e \in r + 1..j : s \in Cleared(log[e])
    /\ r < j /\ hist[j][s] # Absent =>
           IF s \in Objects THEN Between(x, hist[r][s], hist[j][s])
                            ELSE x = hist[r][s] \/ x = hist[j][s]

LEMMA ReplayStart ==
    ASSUME NEW log \in Seq(WriteCommands), NEW hist, NEW d, History(hist, log, d),
           NEW s \in Slots, NEW j \in 0..Len(log), NEW x, x = hist[j][s]
    PROVE  CaughtUp(x, hist, log, 0, j, s)
<1>1. Len(log) \in Nat /\ 0 \in 0..Len(log) /\ hist[0] \in Datasets /\ hist[j] \in Datasets
  BY DEF History
<1>2. j <= 0 => j = 0
  OBVIOUS
<1>3. x = Absent => hist[0][s] = Absent \/ \E e \in 0 + 1..j : s \in Cleared(log[e])
  <2>1. 0 <= j /\ j \in Nat
    BY <1>1
  <2>2. \A n \in 0..Len(log), r \in 0..Len(log) :
            r <= n /\ hist[n][s] = Absent =>
                hist[r][s] = Absent \/ \E e \in r + 1..n : s \in Cleared(log[e])
    BY DEF History
  <2> QED BY <1>1, <2>1, <2>2, Zenon
<1>4. x # Absent => Between(x, hist[0][s], x)
  BY DEF Between, Mixed
<1> QED BY <1>2, <1>3, <1>4 DEF CaughtUp

LEMMA ReplayStep ==
    ASSUME NEW log \in Seq(WriteCommands), PlainFile(log), NEW hist, NEW d, History(hist, log, d),
           NEW image \in Datasets, NEW r \in 0..Len(log), r < Len(log),
           NEW j \in 0..Len(log), NEW s \in Slots, CaughtUp(image[s], hist, log, r, j, s)
    PROVE  CaughtUp(LoadCommand(image, log[r + 1])[s], hist, log, r + 1, j, s)
<1> DEFINE c == log[r + 1]
           y == LoadCommand(image, c)[s]
<1>1. Len(log) \in Nat /\ r + 1 \in 1..Len(log) /\ r + 1 \in 0..Len(log) /\ (r + 1) - 1 = r
      /\ (r < j /\ j <= r + 1 => j = r + 1)
  OBVIOUS
<1>2. c \in WriteCommands /\ PlainCommand(c)
  BY <1>1 DEF PlainFile
<1>3. hist[r] \in Datasets /\ hist[j] \in Datasets /\ NotDue(hist[r]) /\ NotDue(hist[j])
      /\ hist[r + 1] = LoadCommand(hist[r], c) /\ Updated(hist[r], c)
  <2>1. hist[r] \in Datasets /\ hist[j] \in Datasets /\ NotDue(hist[r]) /\ NotDue(hist[j])
    BY Zenon DEF History
  <2>2. hist[r + 1] = LoadCommand(hist[(r + 1) - 1], log[r + 1]) /\ Updated(hist[(r + 1) - 1], log[r + 1])
    BY <1>1, Zenon DEF History
  <2> QED BY <1>1, <2>1, <2>2, Zenon
<1> HIDE DEF c
<1>4. image[s] = hist[r][s] => y = hist[r + 1][s]
  BY <1>2, <1>3, EqualStep
<1> SUFFICES CaughtUp(y, hist, log, r + 1, j, s)
  BY Zenon DEF y, c
<1> HIDE DEF y
<1>5. CASE j <= r
  <2>1. image[s] = hist[r][s]
    BY <1>5, Zenon DEF CaughtUp
  <2>0. ~(r + 1 < j)
    BY <1>5, <1>1
  <2> QED BY <1>4, <2>0, <2>1, Zenon DEF CaughtUp
<1>6. CASE r < j /\ hist[j][s] = Absent
  <2>1. CASE image[s] = hist[r][s]
    BY <1>4, <1>6, <2>1, Zenon DEF CaughtUp
  <2>2. ASSUME NEW e \in r + 1..j, s \in Cleared(log[e])
        PROVE  CaughtUp(y, hist, log, r + 1, j, s)
    <3>1. CASE e = r + 1
      <4>1. y = Absent /\ hist[r + 1][s] = Absent
        BY <1>2, <1>3, <2>2, <3>1, Vanish DEF c, y
      <4> QED BY <1>6, <4>1 DEF CaughtUp
    <3>2. CASE e # r + 1
      <4>1. e \in (r + 1) + 1..j /\ r + 1 < j
        BY <1>1, <3>2
      <4>2. ~(j <= r + 1)
        BY <1>1, <4>1, SMTT(30)
      <4> QED BY <1>6, <2>2, <4>1, <4>2, Zenon DEF CaughtUp
    <3> QED BY <3>1, <3>2, Zenon
  <2> QED BY <1>6, <2>1, <2>2, Zenon DEF CaughtUp
<1>7. CASE r < j /\ hist[j][s] # Absent /\ s \in Objects
  <2>1. Between(image[s], hist[r][s], hist[j][s])
    BY <1>7, Zenon DEF CaughtUp
  <2>2. hist[j][s] \in ObjectStates /\ hist[j][s].ex # "due"
    BY <1>3, <1>7, DatasetSlots DEF NotDue
  <2>3. Between(y, hist[r + 1][s], hist[j][s])
    BY <1>2, <1>3, <1>7, <2>1, <2>2, ObjectStep, Zenon DEF y
  <2>4. y \in ObjectStates \cup {Absent}
    BY <1>2, <1>7, LoadType, DatasetSlots DEF y
  <2>5. j = r + 1 => y = hist[r + 1][s]
    BY <2>2, <2>3, <2>4, BetweenEnd, Zenon
  <2>6. j <= r + 1 => j = r + 1
    BY <1>1, <1>7, Zenon
  <2> QED BY <1>7, <2>3, <2>5, <2>6, Zenon DEF CaughtUp
<1>8. CASE r < j /\ hist[j][s] # Absent /\ s \notin Objects
  <2>1. s \in HookNames
    BY <1>8, Zenon DEF Slots
  <2>2. image[s] = hist[r][s] \/ image[s] = hist[j][s]
    BY <1>8 DEF CaughtUp
  <2>3. y = LoadCommand(hist[r], c)[s] \/ y = hist[j][s]
    <3> DEFINE b == hist[j][s]
               a == hist[r]
    <3>1. image[s] = a[s] \/ image[s] = b
      BY <2>2
    <3>2. a \in Datasets
      BY <1>3
    <3> HIDE DEF a, b
    <3>3. LoadCommand(image, c)[s] = LoadCommand(a, c)[s] \/ LoadCommand(image, c)[s] = b
      BY <1>2, <2>1, <3>1, <3>2, HookStep, ZenonT(60)
    <3> QED BY <3>3, Zenon DEF a, b, y
  <2>4. j <= r + 1 => j = r + 1
    BY <1>1, <1>8, Zenon
  <2> QED BY <1>3, <1>8, <2>3, <2>4, SMTT(30) DEF CaughtUp
<1>9. j <= r \/ r < j
  BY <1>1
<1> QED BY <1>5, <1>6, <1>7, <1>8, <1>9, Zenon
=============================================================================
