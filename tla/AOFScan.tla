------------------------------- MODULE AOFScan -------------------------------
(***************************************************************************)
(* The invariant that makes the append-only file durable under the         *)
(* assumptions of AOFSafe, and why commands and the shrinker's scan, which *)
(* interleave, preserve it.                                                *)
(***************************************************************************)
EXTENDS AOFHistory, AOFType

(***************************************************************************)
(* The inductive invariant.                                                *)
(***************************************************************************)

\* The scan has not reached object <<k, i>>, or slot s, yet.
AheadObject(k, i) ==
    \/ k \in keys /\ (k = Least(keys) => nextid <= i)
    \/ k \notin keys /\ ~keysdone /\ nextkey <= k

Ahead(s) ==
    \/ pc = "scan" /\ (s \in Objects => AheadObject(s[1], s[2]))
    \/ pc = "hooks" /\ s \in hnames

\* Commands in the files are plain, and so is the dataset they make.
DataOK ==
    /\ PlainFile(aof) /\ PlainFile(shrunk) /\ PlainFile(shrinklog)
    /\ NotDue(db) /\ HooksPlain(db)
    /\ status = "up" => db = visible

\* The live file holds what clients last saw, except between the two renames.
DiskOK ==
    IF status = "loading"
    THEN \E run : IsRun(run, aof) /\ run[Len(aof)] = visible /\ run[pos] = db
    ELSE pc # "renamed" => Loads(aof, visible)

PositionsOK ==
    /\ pc = "scan" => /\ ~keysdone => \A k \in keys : k < nextkey
                      /\ keys = {} => nextid = Start(Ids)
    /\ pc \in {"scan", "hooks"} => replayed = 0
    /\ pc = "idle" => ShrinkIdle

\* What the scan has written is the past of its slot, the rest is not there.
Scanned(hist, image) ==
    /\ History(hist, shrinklog, db) /\ Loads(shrunk, image)
    /\ \A s \in Slots : Ahead(s) => image[s] = Absent
    /\ \A s \in Slots : ~Ahead(s) => \E j \in 0..Len(shrinklog) : image[s] = hist[j][s]

ScanOK == pc \in {"scan", "hooks"} => \E hist, image : Scanned(hist, image)

ReplayOK ==
    pc = "replay" =>
        \E hist, image :
            /\ History(hist, shrinklog, db) /\ Loads(shrunk, image)
            /\ \A s \in Slots : \E j \in 0..Len(shrinklog) :
                   CaughtUp(image[s], hist, shrinklog, replayed, j, s)

SwapOK == pc \in {"swap", "renamed"} => Loads(shrunk, db)

Safe == DataOK /\ DiskOK /\ PositionsOK /\ ScanOK /\ ReplayOK /\ SwapOK /\ LoadsCleanly

Inv == TypeOK /\ Serving /\ Safe

LEMMA LoadsType ==
    ASSUME NEW file, NEW d, file \in Seq(WriteCommands), Loads(file, d)
    PROVE  d \in Datasets
<1>1. PICK run : IsRun(run, file) /\ run[Len(file)] = d
  BY DEF Loads
<1> QED BY <1>1 DEF IsRun

LEMMA PlainAppend ==
    ASSUME NEW file \in Seq(WriteCommands), PlainFile(file), NEW c \in WriteCommands, PlainCommand(c)
    PROVE  PlainFile(Append(file, c))
<1> DEFINE more == Append(file, c)
<1>1. Len(more) = Len(file) + 1 /\ Len(file) \in Nat /\ more[Len(file) + 1] = c
      /\ \A n \in 1..Len(file) : more[n] = file[n]
  BY Appended
<1> HIDE DEF more
<1>2. ASSUME NEW n \in 1..Len(more) PROVE PlainCommand(more[n])
  <2>1. n \in 1..Len(file) \/ n = Len(file) + 1
    BY <1>1
  <2> QED BY <1>1, <2>1 DEF PlainFile
<1> QED BY <1>2 DEF PlainFile, more

LEMMA PlainEmpty == PlainFile(<<>>)
BY EmptySeq DEF PlainFile

----------------------------------------------------------------------------
LEMMA SafeInit == Init => Safe
<1> SUFFICES ASSUME Init PROVE Safe
  OBVIOUS
<1>1. PICK f \in InitialFiles : aof = f.file /\ visible = f.run[Len(f.file)]
  BY DEF Init
<1>2. IsRun(f.run, aof) /\ f.run[Len(aof)] = visible /\ f.run[0] = EmptyDataset
  BY <1>1, AOFAssumption DEF IsRun
<1>3. DiskOK
  BY <1>2 DEF Init, DiskOK
<1>4. PlainFile(aof)
  BY <1>1, SafeAssumption DEF PlainFile
<1>5. \A s \in Slots : EmptyDataset[s] = Absent
  BY DEF EmptyDataset
<1>6. NotDue(EmptyDataset) /\ HooksPlain(EmptyDataset)
  BY <1>5 DEF NotDue, HooksPlain, Slots
<1>7. DataOK
  BY <1>4, <1>6, PlainEmpty DEF Init, ShrinkIdle, DataOK
<1>8. pc = "idle" /\ status = "loading" /\ ShrinkIdle
  BY DEF Init, ShrinkIdle
<1> QED
  BY <1>3, <1>7, <1>8 DEF Safe, PositionsOK, ScanOK, ReplayOK, SwapOK, LoadsCleanly

\* A command runs, and is logged, while the shrinker does not hold the lock.
LEMMA LogStep ==
    ASSUME Inv, LockFree, NEW c \in WriteCommands, PlainCommand(c), Updated(db, c),
           db' = LoadCommand(db, c), visible' = Renewed(db'), writeAOF(c),
           UNCHANGED <<status, torn, pos, pc, shrunk, replayed, keys, nextkey, keysdone,
                       nextid, count, hnames>>
    PROVE  Safe'
<1> USE DEF Inv, Safe
<1>1. db \in Datasets /\ db' \in Datasets /\ NotDue(db) /\ NotDue(db') /\ HooksPlain(db')
  BY LoadType, NotDueStep, HooksPlainStep DEF TypeOK, DataOK
<1>2. visible' = db' /\ visible = db /\ status = "up" /\ pc \notin {"replay", "swap", "renamed"}
  BY <1>1, RenewedIs DEF LockFree, DataOK
<1>3. aof \in Seq(WriteCommands) /\ shrinklog \in Seq(WriteCommands)
  BY DEF TypeOK
<1>4. DataOK'
  <2>1. PlainFile(aof') /\ PlainFile(shrinklog')
    BY <1>3, PlainAppend DEF writeAOF, DataOK
  <2> QED BY <1>1, <1>2, <2>1 DEF DataOK
<1>5. DiskOK'
  <2>1. Loads(aof, db)
    BY <1>2 DEF DiskOK
  <2>2. Loads(aof', db')
    BY <1>3, <2>1, LoadsAppend DEF writeAOF
  <2> QED BY <1>2, <2>2 DEF DiskOK
<1>6. PositionsOK'
  BY DEF PositionsOK, ShrinkIdle, writeAOF, shrinking
<1>7. ScanOK'
  <2> SUFFICES ASSUME pc \in {"scan", "hooks"} PROVE ScanOK'
    BY DEF ScanOK
  <2>0. PICK hist, image : Scanned(hist, image)
    BY Zenon DEF ScanOK
  <2>1. /\ History(hist, shrinklog, db) /\ Loads(shrunk, image)
        /\ \A s \in Slots : Ahead(s) => image[s] = Absent
        /\ \A s \in Slots : ~Ahead(s) => \E j \in 0..Len(shrinklog) : image[s] = hist[j][s]
    BY <2>0, Zenon DEF Scanned
  <2>2. shrinklog' = Append(shrinklog, c)
    BY DEF writeAOF, shrinking
  <2>3. PICK next : /\ History(next, shrinklog', db')
                    /\ \A n \in 0..Len(shrinklog) : next[n] = hist[n]
    <3>1. \E next : /\ History(next, Append(shrinklog, c), LoadCommand(db, c))
                    /\ \A n \in 0..Len(shrinklog) : next[n] = hist[n]
      BY <1>1, <1>3, <2>1, HistoryStep
    <3> QED BY <2>2, <3>1
  <2>4. \A j \in 0..Len(shrinklog) : j \in 0..Len(shrinklog')
    <3>1. Len(shrinklog') = Len(shrinklog) + 1 /\ Len(shrinklog) \in Nat
      BY <1>3, <2>2, Appended
    <3> QED BY <3>1
  <2>5. \A s : Ahead(s)' <=> Ahead(s)
    BY DEF Ahead, AheadObject
  <2>6. \A s \in Slots : ~Ahead(s) => \E j \in 0..Len(shrinklog') : image[s] = next[j][s]
    BY <2>1, <2>3, <2>4
  <2>7. Scanned(next, image)'
    BY <2>1, <2>3, <2>5, <2>6, Zenon DEF Scanned
  <2> QED BY <2>7, Zenon DEF ScanOK
<1> QED
  BY <1>2, <1>4, <1>5, <1>6, <1>7, SMTT(30) DEF ReplayOK, SwapOK, LoadsCleanly

----------------------------------------------------------------------------
(***************************************************************************)
(* The shrinker's scan.                                                    *)
(***************************************************************************)

\* A batch of keys lies below the key the next batch starts at.
LEMMA LowestBelow ==
    ASSUME NEW S \in SUBSET Nat, IsFiniteSet(S), NEW n \in Nat,
           NEW x \in Lowest(S, n), NEW y \in S \ Lowest(S, n)
    PROVE  x < y
<1> SUFFICES ASSUME ~(x < y) PROVE FALSE
  OBVIOUS
<1> DEFINE below(z) == {w \in S : w < z}
<1>1. x \in S /\ x \in Nat /\ y \in Nat /\ y <= x
  BY DEF Lowest
<1>2. IsFiniteSet(below(x)) /\ below(y) \subseteq below(x)
  <2>1. \A w \in S : w \in Nat /\ (w < y => w < x)
    BY <1>1
  <2>2. below(x) \subseteq S /\ below(y) \subseteq below(x)
    BY <2>1, Zenon
  <2> QED BY <2>2, FS_Subset
<1>3. IsFiniteSet(below(y)) /\ Cardinality(below(y)) <= Cardinality(below(x))
  BY <1>2, FS_Subset
<1>4. Cardinality(below(x)) < n /\ ~(Cardinality(below(y)) < n)
  BY DEF Lowest
<1>5. Cardinality(below(x)) \in Nat /\ Cardinality(below(y)) \in Nat
  BY <1>2, <1>3, FS_CardinalityType
<1> HIDE DEF below
<1> QED BY <1>3, <1>4, <1>5

\* Slots are passed over only when there is nothing in them.
LEMMA SkipStep ==
    ASSUME Inv, pc \in {"scan", "hooks"}, pc' \in {"scan", "hooks"},
           UNCHANGED <<db, shrinklog, shrunk>>,
           \A s \in Slots : Ahead(s)' => Ahead(s),
           \A s \in Slots : Ahead(s) /\ ~Ahead(s)' => db[s] = Absent
    PROVE  ScanOK'
<1>0. PICK hist, image : Scanned(hist, image)
  BY Zenon DEF Inv, Safe, ScanOK
<1>1. /\ History(hist, shrinklog, db) /\ Loads(shrunk, image)
      /\ \A s \in Slots : Ahead(s) => image[s] = Absent
      /\ \A s \in Slots : ~Ahead(s) => \E j \in 0..Len(shrinklog) : image[s] = hist[j][s]
  BY <1>0, Zenon DEF Scanned
<1>2. hist[Len(shrinklog)] = db /\ Len(shrinklog) \in 0..Len(shrinklog)
  <2>1. shrinklog \in Seq(WriteCommands)
    BY DEF Inv, TypeOK
  <2>2. Len(shrinklog) \in 0..Len(shrinklog)
    BY <2>1
  <2> QED BY <1>1, <2>2 DEF History
<1>3. \A s \in Slots : ~Ahead(s)' => \E j \in 0..Len(shrinklog) : image[s] = hist[j][s]
  BY <1>1, <1>2, Zenon
<1>4. \A s \in Slots : Ahead(s)' => image[s] = Absent
  BY <1>1
<1>5. Scanned(hist, image)'
  BY <1>1, <1>3, <1>4, Zenon DEF Scanned
<1> QED BY <1>5, Zenon DEF ScanOK

\* One slot is written as it is now.
LEMMA EmitStep ==
    ASSUME Inv, pc \in {"scan", "hooks"}, pc' \in {"scan", "hooks"},
           UNCHANGED <<db, shrinklog>>,
           NEW c \in WriteCommands, shrunk' = Append(shrunk, c),
           NEW t \in Slots, Ahead(t), ~Ahead(t)',
           \A image \in Datasets : image[t] = Absent =>
               \A s \in Slots : LoadCommand(image, c)[s] = IF s = t THEN db[t] ELSE image[s],
           \A s \in Slots : Ahead(s)' => Ahead(s),
           \A s \in Slots : s # t /\ Ahead(s) /\ ~Ahead(s)' => db[s] = Absent
    PROVE  ScanOK'
<1>0. PICK hist, image : Scanned(hist, image)
  BY Zenon DEF Inv, Safe, ScanOK
<1>1. /\ History(hist, shrinklog, db) /\ Loads(shrunk, image)
      /\ \A s \in Slots : Ahead(s) => image[s] = Absent
      /\ \A s \in Slots : ~Ahead(s) => \E j \in 0..Len(shrinklog) : image[s] = hist[j][s]
  BY <1>0, Zenon DEF Scanned
<1>2. hist[Len(shrinklog)] = db /\ Len(shrinklog) \in 0..Len(shrinklog)
  <2>1. shrinklog \in Seq(WriteCommands)
    BY DEF Inv, TypeOK
  <2>2. Len(shrinklog) \in 0..Len(shrinklog)
    BY <2>1
  <2> QED BY <1>1, <2>2 DEF History
<1> DEFINE next == LoadCommand(image, c)
<1>3. shrunk \in Seq(WriteCommands)
  BY DEF Inv, TypeOK
<1>4. Loads(shrunk', next) /\ image \in Datasets
  BY <1>1, <1>3, LoadsAppend
<1>5. \A s \in Slots : next[s] = IF s = t THEN db[t] ELSE image[s]
  BY <1>1, <1>4
<1> HIDE DEF next
<1>6. \A s \in Slots : ~Ahead(s)' => \E j \in 0..Len(shrinklog) : next[s] = hist[j][s]
  <2> SUFFICES ASSUME NEW s \in Slots, ~Ahead(s)' PROVE \E j \in 0..Len(shrinklog) : next[s] = hist[j][s]
    OBVIOUS
  <2>1. CASE s = t
    BY <1>2, <1>5, <2>1, Zenon
  <2>2. CASE s # t /\ Ahead(s)
    <3>1. next[s] = Absent /\ db[s] = Absent
      BY <1>1, <1>5, <2>2, Zenon
    <3> QED BY <1>2, <3>1, Zenon
  <2>3. CASE s # t /\ ~Ahead(s)
    <3>1. next[s] = image[s]
      BY <1>5, <2>3, Zenon
    <3> QED BY <1>1, <2>3, <3>1, Zenon
  <2> QED BY <2>1, <2>2, <2>3
<1>7. \A s \in Slots : Ahead(s)' => next[s] = Absent
  BY <1>1, <1>5
<1>8. PICK image2 : image2 = next
  OBVIOUS
<1>9. Scanned(hist, image2)'
  BY <1>1, <1>4, <1>6, <1>7, <1>8, Zenon DEF Scanned
<1> QED BY <1>9, Zenon DEF ScanOK

\* What the shrinker's steps that leave the live file alone have in common.
LEMMA QuietStep ==
    ASSUME Inv, UNCHANGED <<status, db, aof, torn, pos, visible, shrinklog>>, PlainFile(shrunk'),
           pc # "renamed"
    PROVE  DataOK' /\ DiskOK' /\ LoadsCleanly'
BY DEF Inv, Safe, DataOK, DiskOK, LoadsCleanly

LEMMA ObjectParts ==
    ASSUME NEW s \in Objects
    PROVE  s[1] \in Keys /\ s[2] \in Ids /\ s = <<s[1], s[2]>> /\ s[1] \in Nat /\ s[2] \in Nat
<1>1. PICK k \in Keys, i \in Ids : s = <<k, i>>
  BY DEF Objects
<1> QED BY <1>1, AOFAssumption

LEMMA KeysStep == Inv /\ ShrinkKeys => Safe'
<1> SUFFICES ASSUME Inv, ShrinkKeys PROVE Safe'
  OBVIOUS
<1> DEFINE left  == {k \in PresentKeys : k >= nextkey}
           batch == Lowest(left, maxkeys)
<1>1. left \subseteq Keys /\ left \in SUBSET Nat /\ IsFiniteSet(left) /\ batch \subseteq left
  <2>1. left \subseteq Keys
    BY DEF PresentKeys
  <2>2. batch \subseteq left
    BY LowestIn
  <2> HIDE DEF left, batch
  <2>3. Keys \subseteq Nat /\ IsFiniteSet(Keys)
    BY AOFAssumption
  <2>4. IsFiniteSet(left)
    BY <2>1, <2>3, FS_Subset, Zenon
  <2> QED BY <2>1, <2>2, <2>3, <2>4
<1>2. \A k \in left : k >= nextkey
  OBVIOUS
<1>3. \A k \in Keys : nextkey <= k /\ k \notin left => \A i \in Ids : db[<<k, i>>] = Absent
  <2>1. \A k \in Keys : k \in Nat /\ nextkey \in Nat
    BY AOFAssumption DEF Inv, TypeOK
  <2>2. \A k \in Keys : nextkey <= k /\ k \notin left => Present(k) = {}
    BY <2>1 DEF PresentKeys
  <2> QED BY <2>2, Zenon DEF Present
<1>4. \A x \in batch, y \in left \ batch : x < y
  <2>1. maxkeys \in Nat
    BY AOFAssumption
  <2> HIDE DEF left
  <2> QED BY <1>1, <2>1, LowestBelow
<1>5. pc = "scan" /\ keys = {} /\ ~keysdone /\ keys' = batch /\ keysdone' = (left = batch)
      /\ nextkey' = (IF left = batch THEN nextkey ELSE Least(left \ batch))
      /\ UNCHANGED <<serverVars, pc, shrunk, shrinklog, replayed, nextid, count, hnames>>
  BY DEF ShrinkKeys
<1> HIDE DEF left, batch
<1>6. left # batch => nextkey' \in left \ batch /\ \A y \in left \ batch : nextkey' <= y
  <2> SUFFICES ASSUME left # batch PROVE nextkey' \in left \ batch /\ \A y \in left \ batch : nextkey' <= y
    OBVIOUS
  <2>1. left \ batch \in SUBSET Nat /\ left \ batch # {}
    BY <1>1, Zenon
  <2>2. nextkey' = Least(left \ batch)
    BY <1>5
  <2> QED BY <2>1, <2>2, LeastIn
<1>7. nextkey \in Nat /\ nextid = Start(Ids) /\ replayed = 0
  BY <1>5 DEF Inv, TypeOK, Safe, PositionsOK
<1>8. \A i \in Ids : nextid <= i
  BY <1>7, StartType, AOFAssumption
<1>9. PositionsOK'
  BY <1>4, <1>5, <1>6, <1>7, Zenon DEF PositionsOK
<1>10. ASSUME NEW s \in Objects
       PROVE  /\ AheadObject(s[1], s[2]) <=> nextkey <= s[1]
              /\ AheadObject(s[1], s[2])' <=> \/ s[1] \in batch
                                              \/ s[1] \notin batch /\ left # batch /\ nextkey' <= s[1]
  <2>1. nextid <= s[2]
    BY <1>8, ObjectParts
  <2>2. AheadObject(s[1], s[2]) <=> nextkey <= s[1]
    BY <1>5, Zenon DEF AheadObject
  <2>3. AheadObject(s[1], s[2])' <=> \/ s[1] \in batch
                                     \/ s[1] \notin batch /\ left # batch /\ nextkey' <= s[1]
    BY <1>5, <2>1, Zenon DEF AheadObject
  <2> QED BY <2>2, <2>3
<1>11. ASSUME NEW s \in Slots PROVE Ahead(s)' => Ahead(s)
  <2>1. CASE s \in Objects
    <3>1. s[1] \in Nat
      BY <2>1, ObjectParts
    <3>2. left # batch => nextkey' >= nextkey /\ nextkey' \in Nat
      <4>1. left # batch => nextkey' \in left
        BY <1>6
      <4> QED BY <1>1, <1>2, <4>1, Zenon
    <3>3. s[1] \in batch => nextkey <= s[1]
      BY <1>1, <1>2, <1>7, <3>1, SMTT(30)
    <3>4. left # batch /\ nextkey' <= s[1] => nextkey <= s[1]
      BY <1>7, <3>1, <3>2
    <3> QED BY <1>5, <1>10, <2>1, <3>3, <3>4, SMTT(30) DEF Ahead
  <2> QED BY <1>5, <2>1, SMTT(30) DEF Ahead
<1>12. ASSUME NEW s \in Slots, Ahead(s), ~Ahead(s)' PROVE db[s] = Absent
  <2>1. s \in Objects /\ nextkey <= s[1] /\ ~AheadObject(s[1], s[2])'
    BY <1>5, <1>10, <1>12, SMTT(30) DEF Ahead
  <2>2. s[1] \notin left
    BY <1>6, <1>10, <2>1, SMTT(30)
  <2> QED BY <1>3, <2>1, <2>2, ObjectParts, SMTT(30)
<1>13. ScanOK'
  BY <1>5, <1>11, <1>12, SkipStep, SMTT(30) DEF serverVars
<1>14. DataOK' /\ DiskOK' /\ LoadsCleanly'
  BY <1>5, QuietStep DEF serverVars, Inv, Safe, DataOK
<1> QED BY <1>5, <1>9, <1>13, <1>14 DEF Safe, ReplayOK, SwapOK

LEMMA IdsStep == Inv /\ ShrinkIds => Safe'
<1> SUFFICES ASSUME Inv, ShrinkIds PROVE Safe'
  OBVIOUS
<1> DEFINE k    == Least(keys)
           left == {i \in Present(k) : i >= nextid}
           i0   == Least(left)
           t    == <<k, i0>>
           c    == ShrinkSet(t, db[t])
<1>1. pc = "scan" /\ keys # {} /\ pc' = pc
      /\ UNCHANGED <<status, db, aof, torn, pos, visible, shrinklog, replayed, nextkey, keysdone>>
  BY DEF ShrinkIds, serverVars
<1>2. \/ left = {} /\ keys' = keys \ {k} /\ nextid' = Start(Ids) /\ shrunk' = shrunk
      \/ left # {} /\ keys' = keys /\ nextid' = i0 /\ shrunk' = shrunk
      \/ left # {} /\ keys' = keys /\ nextid' = i0 + 1 /\ shrunk' = Append(shrunk, c)
  BY Zenon DEF ShrinkIds, BatchFull, Resume
<1>3. k \in keys /\ k \in Keys /\ nextid \in Nat /\ nextkey \in Nat /\ k \in Nat
  <2>1. keys \in SUBSET Nat /\ keys \subseteq Keys
    BY AOFAssumption DEF Inv, TypeOK
  <2>2. k \in keys
    BY <1>1, <2>1, LeastIn
  <2>3. nextid \in Nat /\ nextkey \in Nat
    BY DEF Inv, TypeOK
  <2> HIDE DEF k
  <2> QED BY <2>1, <2>2, <2>3
<1>4. left \in SUBSET Nat /\ left \subseteq Ids /\ \A i \in Ids : nextid <= i /\ i \notin left => db[<<k, i>>] = Absent
  BY <1>3, AOFAssumption, Zenon DEF Present
<1>5. left # {} => i0 \in left /\ i0 \in Nat /\ i0 \in Ids /\ nextid <= i0 /\ db[t] # Absent
                   /\ \A i \in left : i0 <= i
  <2>1. left # {} => i0 \in left /\ \A i \in left : i0 <= i
    BY <1>4, LeastIn
  <2> HIDE DEF i0
  <2>2. left # {} => i0 \in Present(k) /\ i0 >= nextid
    BY <2>1
  <2>3. left # {} => i0 \in Ids /\ db[t] # Absent
    BY <2>2, SMTT(30) DEF Present
  <2>4. left # {} => i0 \in Nat /\ nextid <= i0
    BY <1>3, <1>4, <2>1, <2>2
  <2> HIDE DEF t, left
  <2> QED BY <2>1, <2>3, <2>4, SMTT(30)
<1> HIDE DEF k, left, i0
<1>6. \A s \in Objects : (s[1] = k => s = <<k, s[2]>>) /\ s[1] \in Nat /\ s[2] \in Nat /\ s[2] \in Ids
  BY ObjectParts
<1>7. \A i \in Ids : Start(Ids) <= i
  BY StartType, AOFAssumption
<1>8. ~keysdone => k < nextkey
  BY <1>1, <1>3 DEF Inv, Safe, PositionsOK
<1>9. \A s \in Slots : Ahead(s) <=> (s \in Objects => AheadObject(s[1], s[2]))
  BY <1>1 DEF Ahead
<1>10. \A s \in Slots : Ahead(s)' <=> (s \in Objects => AheadObject(s[1], s[2])')
  BY <1>1 DEF Ahead
<1>11. CASE left = {} /\ keys' = keys \ {k} /\ nextid' = Start(Ids) /\ shrunk' = shrunk
  <2>1. ASSUME NEW s \in Objects
        PROVE  /\ AheadObject(s[1], s[2])' => AheadObject(s[1], s[2])
               /\ AheadObject(s[1], s[2]) /\ ~AheadObject(s[1], s[2])' => s[1] = k /\ nextid <= s[2]
    <3>1. AheadObject(s[1], s[2])' <=> \/ s[1] \in keys \ {k}
                                       \/ s[1] \notin keys \ {k} /\ ~keysdone /\ nextkey <= s[1]
      BY <1>1, <1>6, <1>7, <1>11, SMTT(30) DEF AheadObject
    <3>2. AheadObject(s[1], s[2]) <=> \/ s[1] \in keys /\ (s[1] = k => nextid <= s[2])
                                      \/ s[1] \notin keys /\ ~keysdone /\ nextkey <= s[1]
      BY DEF AheadObject, k
    <3>3. s[1] = k => ~(~keysdone /\ nextkey <= s[1])
      BY <1>3, <1>8, SMTT(30)
    <3> QED BY <1>3, <3>1, <3>2, <3>3, SMTT(30)
  <2>2. ASSUME NEW s \in Slots, Ahead(s), ~Ahead(s)' PROVE db[s] = Absent
    <3>1. s \in Objects /\ s[1] = k /\ nextid <= s[2]
      BY <1>9, <1>10, <2>1, <2>2, SMTT(30)
    <3> QED BY <1>4, <1>6, <1>11, <3>1, SMTT(30)
  <2>3. ScanOK'
    BY <1>1, <1>9, <1>10, <1>11, <2>1, <2>2, SkipStep, SMTT(30)
  <2>4. PositionsOK'
    BY <1>1, <1>11, SMTT(30) DEF Inv, Safe, PositionsOK
  <2>5. DataOK' /\ DiskOK' /\ LoadsCleanly'
    BY <1>1, <1>11, QuietStep DEF Inv, Safe, DataOK
  <2> QED BY <1>1, <2>3, <2>4, <2>5, SMTT(30) DEF Safe, ReplayOK, SwapOK
<1>12. ASSUME left # {}, keys' = keys, nextid' \in {i0, i0 + 1}
       PROVE  /\ \A s \in Slots : Ahead(s)' => Ahead(s)
              /\ \A s \in Slots : Ahead(s) /\ ~Ahead(s)' =>
                     db[s] = Absent \/ (s = t /\ nextid' = i0 + 1)
              /\ nextid' = i0 + 1 => \A s \in Slots : s = t => Ahead(s) /\ ~Ahead(s)'
              /\ PositionsOK'
  <2>0. ASSUME NEW s \in Objects
        PROVE  /\ AheadObject(s[1], s[2]) <=>
                      (\/ s[1] \in keys /\ (s[1] = k => nextid <= s[2])
                       \/ s[1] \notin keys /\ ~keysdone /\ nextkey <= s[1])
               /\ AheadObject(s[1], s[2])' <=>
                      (\/ s[1] \in keys /\ (s[1] = k => nextid' <= s[2])
                       \/ s[1] \notin keys /\ ~keysdone /\ nextkey <= s[1])
    BY <1>1, <1>12 DEF AheadObject, k
  <2>1. \A s \in Objects : AheadObject(s[1], s[2]) <=>
            (\/ s[1] \in keys /\ (s[1] = k => nextid <= s[2])
             \/ s[1] \notin keys /\ ~keysdone /\ nextkey <= s[1])
    BY <2>0
  <2>2. \A s \in Objects : AheadObject(s[1], s[2])' <=>
            (\/ s[1] \in keys /\ (s[1] = k => nextid' <= s[2])
             \/ s[1] \notin keys /\ ~keysdone /\ nextkey <= s[1])
    BY <2>0
  <2>3. nextid' \in Nat /\ nextid <= nextid'
    BY <1>3, <1>5, <1>12, SMTT(30)
  <2>4. ASSUME NEW s \in Slots, Ahead(s)' PROVE Ahead(s)
    BY <1>3, <1>6, <1>9, <1>10, <2>1, <2>2, <2>3, <2>4, SMTT(30)
  <2>5. ASSUME NEW s \in Slots, Ahead(s), ~Ahead(s)'
        PROVE  db[s] = Absent \/ (s = t /\ nextid' = i0 + 1)
    <3>1. s \in Objects /\ s[1] = k /\ nextid <= s[2] /\ ~(nextid' <= s[2])
      BY <1>3, <1>9, <1>10, <2>1, <2>2, <2>5, SMTT(30)
    <3>2. CASE s[2] \in left
      <4>1. s[2] = i0 /\ nextid' = i0 + 1
        BY <1>5, <1>6, <1>12, <3>1, <3>2, SMTT(30)
      <4> QED BY <1>6, <3>1, <4>1, SMTT(30)
    <3>3. CASE s[2] \notin left
      BY <1>4, <1>6, <3>1, <3>3, SMTT(30)
    <3> QED BY <3>2, <3>3
  <2>6. ASSUME nextid' = i0 + 1, NEW s \in Slots, s = t PROVE Ahead(s) /\ ~Ahead(s)'
    <3>1. s \in Objects /\ s[1] = k /\ s[2] = i0
      BY <1>3, <1>5, <1>12, <2>6, SMTT(30) DEF Objects
    <3>2. nextid <= s[2] /\ ~(nextid' <= s[2])
      BY <1>5, <1>12, <2>6, <3>1, SMTT(30)
    <3>3. AheadObject(s[1], s[2]) /\ ~AheadObject(s[1], s[2])'
      BY <1>3, <2>1, <2>2, <3>1, <3>2, SMTT(30)
    <3> QED BY <1>9, <1>10, <3>1, <3>3, SMTT(30)
  <2>7. PositionsOK'
    BY <1>1, <1>12 DEF Inv, Safe, PositionsOK
  <2> HIDE DEF t
  <2> QED BY <2>4, <2>5, <2>6, <2>7, SMTT(30)
<1>13. CASE left # {} /\ keys' = keys /\ nextid' = i0 /\ shrunk' = shrunk
  <2>1. nextid' # i0 + 1
    BY <1>5, <1>13, SMTT(30)
  <2>2. ScanOK'
    BY <1>1, <1>12, <1>13, <2>1, SkipStep, SMTT(30)
  <2>3. DataOK' /\ DiskOK' /\ LoadsCleanly'
    BY <1>1, <1>13, QuietStep, SMTT(30) DEF Inv, Safe, DataOK
  <2> QED BY <1>1, <1>12, <1>13, <2>2, <2>3, Zenon DEF Safe, ReplayOK, SwapOK
<1>14. CASE left # {} /\ keys' = keys /\ nextid' = i0 + 1 /\ shrunk' = Append(shrunk, c)
  <2>1. t \in Objects /\ t \in Slots
    BY <1>3, <1>5, <1>14, SMTT(30) DEF Objects, Slots
  <2>2. db \in Datasets /\ NotDue(db) /\ PlainFile(shrunk) /\ shrunk \in Seq(WriteCommands)
    BY DEF Inv, TypeOK, Safe, DataOK
  <2>3. db[t] \in ObjectStates /\ db[t].ex # "due"
    BY <1>5, <1>14, <2>1, <2>2, DatasetSlots, SMTT(30) DEF NotDue
  <2>0. PICK o \in Slots : o = t
    BY <2>1
  <2> HIDE DEF t
  <2>4. c \in WriteCommands /\ PlainCommand(c)
    BY <2>1, <2>3, ShrinkSetType, Zenon DEF ShrinkSet, PlainCommand
  <2>5. \A image \in Datasets : image[o] = Absent =>
            \A s \in Slots : LoadCommand(image, c)[s] = IF s = o THEN db[o] ELSE image[s]
    <3>1. PICK x : x = db[t]
      OBVIOUS
    <3>2. o \in Objects /\ x \in ObjectStates /\ x.ex # "due" /\ db[o] = x /\ c = ShrinkSet(o, x)
      BY <2>0, <2>1, <2>3, <3>1, SMTT(30)
    <3> HIDE DEF c
    <3>3. ASSUME NEW image \in Datasets, image[o] = Absent, NEW s \in Slots
          PROVE  LoadCommand(image, ShrinkSet(o, x))[s] = IF s = o THEN x ELSE image[s]
      BY <3>2, <3>3, ShrinkSetLoads, SMTT(30)
    <3> QED BY <3>2, <3>3, Zenon
  <2> HIDE DEF c
  <2>6. /\ Ahead(o) /\ ~Ahead(o)' /\ \A s \in Slots : Ahead(s)' => Ahead(s)
        /\ \A s \in Slots : s # o /\ Ahead(s) /\ ~Ahead(s)' => db[s] = Absent
    BY <1>12, <1>14, <2>0
  <2>7. PICK e \in WriteCommands : e = c
    BY <2>4
  <2>8. ScanOK'
    BY <1>1, <1>14, <2>5, <2>6, <2>7, EmitStep, Zenon
  <2>9. PlainFile(shrunk')
    BY <1>14, <2>2, <2>4, PlainAppend, SMTT(30)
  <2>10. DataOK' /\ DiskOK' /\ LoadsCleanly'
    BY <1>1, <2>9, QuietStep
  <2> QED BY <1>1, <1>12, <1>14, <2>8, <2>10, SMTT(30) DEF Safe, ReplayOK, SwapOK
<1> HIDE DEF t, c
<1> QED BY <1>2, <1>11, <1>13, <1>14, SMTT(30)

LEMMA HooksStep ==
    ASSUME Inv, ShrinkHookNames \/ \E h \in HookNames : ShrinkHook(h)
    PROVE  Safe'
<1>0. HookNames \cap Objects = {} /\ HookNames \subseteq Slots
  BY DatasetAssumption DEF Slots
<1>1. CASE ShrinkHookNames
  <2>1. pc = "scan" /\ pc' = "hooks" /\ keys = {} /\ keysdone
        /\ hnames' = {h \in HookNames : db[h] # Absent}
        /\ UNCHANGED <<status, db, aof, torn, pos, visible, shrinklog, shrunk, replayed>>
    BY <1>1 DEF ShrinkHookNames, serverVars
  <2>2. \A s \in Slots : Ahead(s) <=> s \notin Objects
    BY <2>1 DEF Ahead, AheadObject
  <2>3. \A s \in Slots : Ahead(s)' <=> s \in HookNames /\ db[s] # Absent
    BY <2>1 DEF Ahead
  <2>4. ScanOK'
    BY <1>0, <2>1, <2>2, <2>3, SkipStep, SMTT(30) DEF Slots
  <2>5. DataOK' /\ DiskOK' /\ LoadsCleanly'
    BY <2>1, QuietStep DEF Inv, Safe, DataOK
  <2> QED BY <2>1, <2>4, <2>5, SMTT(30) DEF Inv, Safe, ReplayOK, SwapOK, PositionsOK
<1>2. ASSUME NEW h \in HookNames, ShrinkHook(h) PROVE Safe'
  <2> DEFINE c == ShrinkSethook(h, db[h])
  <2>1. pc = "hooks" /\ pc' = "hooks" /\ h \in hnames /\ hnames' = hnames \ {h} /\ h \in Slots
        /\ shrunk' = (IF db[h] = Absent THEN shrunk ELSE Append(shrunk, c))
        /\ UNCHANGED <<status, db, aof, torn, pos, visible, shrinklog, replayed>>
    BY <1>0, <1>2 DEF ShrinkHook, serverVars
  <2>2. \A s \in Slots : (Ahead(s) <=> s \in hnames) /\ (Ahead(s)' <=> s \in hnames /\ s # h)
    BY <2>1, Zenon DEF Ahead
  <2>3. db \in Datasets /\ HooksPlain(db) /\ PlainFile(shrunk) /\ shrunk \in Seq(WriteCommands)
    BY DEF Inv, TypeOK, Safe, DataOK
  <2>4. CASE db[h] = Absent
    <3>1. ScanOK'
      BY <2>1, <2>2, <2>4, SkipStep, SMTT(30)
    <3>2. DataOK' /\ DiskOK' /\ LoadsCleanly'
      BY <2>1, <2>3, <2>4, QuietStep, SMTT(30)
    <3> QED BY <2>1, <3>1, <3>2, SMTT(30) DEF Inv, Safe, ReplayOK, SwapOK, PositionsOK
  <2>5. CASE db[h] # Absent
    <3>1. db[h] \in HookStates /\ db[h].meta = NoMeta /\ db[h].ref = NoArea /\ db[h].area = NoArea
      BY <2>3, <2>5, DatasetSlots DEF HooksPlain
    <3>2. c \in WriteCommands
      BY <3>1, ShrinkSethookType
    <3>3. PlainCommand(c)
      BY <3>1, Zenon DEF ShrinkSethook, PlainCommand
    <3>4. \A image \in Datasets : image[h] = Absent =>
              \A s \in Slots : LoadCommand(image, c)[s] = IF s = h THEN db[h] ELSE image[s]
      <4>1. ASSUME NEW image \in Datasets, NEW s \in Slots
            PROVE  LoadCommand(image, ShrinkSethook(h, db[h]))[s] = IF s = h THEN db[h] ELSE image[s]
        BY <3>1, ShrinkHookLoads, SMTT(30)
      <4> QED BY <4>1, Zenon
    <3> HIDE DEF c
    <3>5. ScanOK'
      <4>1. PICK e \in WriteCommands : e = c
        BY <3>2
      <4> QED BY <2>1, <2>2, <2>5, <3>4, <4>1, EmitStep, Zenon
    <3>6. PlainFile(shrunk')
      BY <2>1, <2>3, <2>5, <3>2, <3>3, PlainAppend, SMTT(30)
    <3>7. DataOK' /\ DiskOK' /\ LoadsCleanly'
      BY <2>1, <3>6, QuietStep
    <3> QED BY <2>1, <3>5, <3>7 DEF Inv, Safe, ReplayOK, SwapOK, PositionsOK
  <2> QED BY <2>4, <2>5, SMTT(30)
<1> QED BY <1>1, <1>2
=============================================================================
