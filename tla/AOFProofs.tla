------------------------------ MODULE AOFProofs ------------------------------
(***************************************************************************)
(* Under the assumptions of AOFSafe, a server that is up holds what        *)
(* clients last saw, and only half a command stops one from starting: for  *)
(* every number of keys, ids, batches, commands, shrinks and crashes.      *)
(***************************************************************************)
EXTENDS AOFScan

(***************************************************************************)
(* The other steps of the shrinker.                                        *)
(***************************************************************************)
LEMMA BeginStep == Inv /\ ShrinkBegin => Safe'
<1> SUFFICES ASSUME Inv, ShrinkBegin PROVE Safe'
  OBVIOUS
<1>1. ShrinkIdle /\ pc' = "scan" /\ UNCHANGED <<serverVars, shrunk, shrinklog, replayed, scanVars>>
  BY DEF ShrinkBegin, shrinking, Inv, Safe, PositionsOK
<1>2. shrunk = <<>> /\ shrinklog = <<>> /\ replayed = 0 /\ keys = {} /\ nextkey = Start(Keys)
      /\ keysdone = FALSE /\ nextid = Start(Ids)
  BY <1>1 DEF ShrinkIdle
<1>3. PositionsOK'
  BY <1>1, <1>2 DEF PositionsOK, scanVars
<1>4. ScanOK'
  <2>1. \A s \in Slots : Ahead(s)'
    <3>1. \A k \in Keys : nextkey <= k
      BY <1>2, StartType, AOFAssumption
    <3>2. \A s \in Objects : AheadObject(s[1], s[2])'
      BY <1>1, <1>2, <3>1, ObjectParts DEF AheadObject, scanVars
    <3> QED BY <1>1, <3>2 DEF Ahead
  <2>2. PICK hist : History(hist, <<>>, db)
    BY HistoryStart DEF Inv, TypeOK, Safe, DataOK
  <2>3. \A s \in Slots : EmptyDataset[s] = Absent
    BY DEF EmptyDataset
  <2>4. History(hist, shrinklog', db') /\ Loads(shrunk', EmptyDataset)
    BY <1>1, <1>2, <2>2, LoadsEmpty DEF serverVars
  <2>5. Scanned(hist, EmptyDataset)'
    BY <2>1, <2>3, <2>4, Zenon DEF Scanned
  <2> QED BY <2>5, Zenon DEF ScanOK
<1>5. pc = "idle"
  BY <1>1 DEF ShrinkIdle
<1>6. DataOK' /\ DiskOK' /\ LoadsCleanly'
  BY <1>1, <1>5, QuietStep DEF Inv, Safe, DataOK, serverVars
<1> QED BY <1>1, <1>3, <1>4, <1>6 DEF Safe, ReplayOK, SwapOK

LEMMA LockStep == Inv /\ ShrinkLock => Safe'
<1> SUFFICES ASSUME Inv, ShrinkLock PROVE Safe'
  OBVIOUS
<1>1. pc = "hooks" /\ hnames = {} /\ pc' = "replay"
      /\ UNCHANGED <<serverVars, shrunk, shrinklog, replayed, scanVars>>
  BY DEF ShrinkLock
<1>0. PICK hist, image : Scanned(hist, image)
  BY <1>1, Zenon DEF Inv, Safe, ScanOK
<1>2. /\ History(hist, shrinklog, db) /\ Loads(shrunk, image)
      /\ \A s \in Slots : ~Ahead(s) => \E j \in 0..Len(shrinklog) : image[s] = hist[j][s]
  BY <1>0, Zenon DEF Scanned
<1>3. \A s \in Slots : ~Ahead(s)
  BY <1>1 DEF Ahead
<1>4. replayed = 0 /\ shrinklog \in Seq(WriteCommands)
  BY <1>1 DEF Inv, Safe, PositionsOK, TypeOK
<1>5. ASSUME NEW s \in Slots
      PROVE  \E j \in 0..Len(shrinklog) : CaughtUp(image[s], hist, shrinklog, replayed, j, s)
  <2>1. PICK j \in 0..Len(shrinklog) : image[s] = hist[j][s]
    BY <1>2, <1>3
  <2> QED BY <1>2, <1>4, <2>1, ReplayStart, Zenon
<1>6. ReplayOK'
  BY <1>1, <1>2, <1>5, Zenon DEF ReplayOK, serverVars
<1>7. DataOK' /\ DiskOK' /\ LoadsCleanly'
  BY <1>1, QuietStep DEF Inv, Safe, DataOK, serverVars
<1> QED BY <1>1, <1>6, <1>7, Zenon DEF Safe, ScanOK, SwapOK, PositionsOK

LEMMA CopyStep == Inv /\ ShrinkReplay => Safe'
<1> SUFFICES ASSUME Inv, ShrinkReplay PROVE Safe'
  OBVIOUS
<1>1. pc = "replay" /\ UNCHANGED <<status, db, aof, torn, pos, visible, shrinklog>>
  BY DEF ShrinkReplay, serverVars
<1>2. PICK hist, image :
          /\ History(hist, shrinklog, db) /\ Loads(shrunk, image)
          /\ \A s \in Slots : \E j \in 0..Len(shrinklog) :
                 CaughtUp(image[s], hist, shrinklog, replayed, j, s)
  BY <1>1 DEF Inv, Safe, ReplayOK
<1>3. /\ shrunk \in Seq(WriteCommands) /\ shrinklog \in Seq(WriteCommands)
      /\ replayed \in 0..Len(shrinklog) /\ Len(shrinklog) \in Nat /\ db \in Datasets
      /\ PlainFile(shrunk) /\ PlainFile(shrinklog)
  BY DEF Inv, TypeOK, Safe, DataOK
<1>4. image \in Datasets
  BY <1>2, <1>3, LoadsType
<1>5. CASE replayed < Len(shrinklog)
  <2> DEFINE c == shrinklog[replayed + 1]
  <2>1. c \in WriteCommands /\ PlainCommand(c)
    <3>1. replayed + 1 \in 1..Len(shrinklog)
      BY <1>3, <1>5
    <3> QED BY <1>3, <3>1 DEF PlainFile
  <2>2. shrunk' = Append(shrunk, c) /\ replayed' = replayed + 1 /\ pc' = "replay"
    BY <1>1, <1>5 DEF ShrinkReplay
  <2>3. ASSUME NEW s \in Slots
        PROVE  \E j \in 0..Len(shrinklog) :
                   CaughtUp(LoadCommand(image, c)[s], hist, shrinklog, replayed + 1, j, s)
    <3>1. PICK j \in 0..Len(shrinklog) : CaughtUp(image[s], hist, shrinklog, replayed, j, s)
      BY <1>2
    <3> QED BY <1>2, <1>3, <1>4, <1>5, <3>1, ReplayStep, Zenon
  <2> HIDE DEF c
  <2>4. Loads(shrunk', LoadCommand(image, c))
    BY <1>2, <1>3, <2>1, <2>2, LoadsAppend
  <2>5. PICK next : next = LoadCommand(image, c)
    OBVIOUS
  <2>6. \A s \in Slots : \E j \in 0..Len(shrinklog) :
            CaughtUp(next[s], hist, shrinklog, replayed', j, s)
    BY <2>2, <2>3, <2>5
  <2>7. ReplayOK'
    BY <1>1, <1>2, <2>2, <2>4, <2>5, <2>6 DEF ReplayOK
  <2>8. PlainFile(shrunk')
    BY <1>3, <2>1, <2>2, PlainAppend
  <2>9. DataOK' /\ DiskOK' /\ LoadsCleanly'
    BY <1>1, <2>8, QuietStep
  <2> QED BY <2>2, <2>7, <2>9 DEF Safe, ScanOK, SwapOK, PositionsOK
<1>6. CASE ~(replayed < Len(shrinklog))
  <2>1. replayed = Len(shrinklog)
    BY <1>3, <1>6
  <2>2. pc' = "swap" /\ shrunk' = shrunk
    BY <1>6 DEF ShrinkReplay
  <2>3. ASSUME NEW s \in Slots PROVE image[s] = db[s]
    <3>1. PICK j \in 0..Len(shrinklog) : CaughtUp(image[s], hist, shrinklog, replayed, j, s)
      BY <1>2
    <3>2. j <= replayed
      BY <1>3, <2>1, <3>1
    <3> QED BY <1>2, <2>1, <3>1, <3>2, Zenon DEF CaughtUp, History
  <2>4. image = db
    <3>1. image = [s \in Slots |-> image[s]] /\ db = [s \in Slots |-> db[s]]
      BY <1>3, <1>4, DatasetSlots
    <3> QED BY <2>3, <3>1
  <2>5. SwapOK'
    BY <1>1, <1>2, <2>2, <2>4 DEF SwapOK
  <2>6. DataOK' /\ DiskOK' /\ LoadsCleanly'
    BY <1>1, <1>3, <2>2, QuietStep
  <2> QED BY <2>2, <2>5, <2>6, Zenon DEF Safe, ScanOK, ReplayOK, PositionsOK
<1> QED BY <1>5, <1>6

LEMMA RenameStep == Inv /\ (ShrinkBackup \/ ShrinkInstall \/ ShrinkFail \/ ShrinkEnd) => Safe'
<1> SUFFICES ASSUME Inv, ShrinkBackup \/ ShrinkInstall \/ ShrinkFail \/ ShrinkEnd PROVE Safe'
  OBVIOUS
<1>0. pc # "idle" => status = "up" /\ db = visible
  BY DEF Inv, Serving, shrinking, Safe, DataOK
<1>1. CASE ShrinkBackup
  <2>1. pc = "swap" /\ pc' = "renamed" /\ aof' = <<>>
        /\ UNCHANGED <<status, db, torn, pos, visible, shrunk, shrinklog, replayed>>
    BY <1>1 DEF ShrinkBackup
  <2>2. PlainFile(aof')
    BY <2>1, PlainEmpty
  <2> QED BY <1>0, <2>1, <2>2, Zenon DEF Inv, Safe, DataOK, DiskOK, PositionsOK, ScanOK, ReplayOK, SwapOK, LoadsCleanly
<1>2. CASE ShrinkInstall
  <2>1. pc = "renamed" /\ pc' = "ending" /\ aof' = shrunk
        /\ UNCHANGED <<status, db, torn, pos, visible, shrunk, shrinklog, replayed>>
    BY <1>2 DEF ShrinkInstall
  <2>2. DiskOK'
    BY <1>0, <2>1 DEF DiskOK, Inv, Safe, SwapOK
  <2> QED BY <1>0, <2>1, <2>2, Zenon DEF Inv, Safe, DataOK, PositionsOK, ScanOK, ReplayOK, SwapOK, LoadsCleanly
<1>3. CASE ShrinkFail
  <2>1. pc # "renamed" /\ pc' = "ending" /\ UNCHANGED <<serverVars, shrunk, shrinklog>>
    BY <1>3 DEF ShrinkFail
  <2>2. DataOK' /\ DiskOK' /\ LoadsCleanly'
    BY <2>1, QuietStep DEF Inv, Safe, DataOK, serverVars
  <2> QED BY <2>1, <2>2, Zenon DEF Safe, PositionsOK, ScanOK, ReplayOK, SwapOK
<1>4. CASE ShrinkEnd
  <2>1. pc = "ending" /\ pc' = "idle" /\ UNCHANGED serverVars /\ ShrinkIdle'
        /\ shrunk' = <<>> /\ shrinklog' = <<>>
    BY <1>4 DEF ShrinkEnd, ShrinkReset, ShrinkIdle
  <2>2. DataOK' /\ DiskOK' /\ LoadsCleanly'
    BY <2>1, PlainEmpty DEF Inv, Safe, DataOK, DiskOK, LoadsCleanly, serverVars
  <2> QED BY <2>1, <2>2, Zenon DEF Safe, PositionsOK, ScanOK, ReplayOK, SwapOK
<1> QED BY <1>1, <1>2, <1>3, <1>4

----------------------------------------------------------------------------
(***************************************************************************)
(* Crash and restart.                                                      *)
(***************************************************************************)
LEMMA CrashStep == Inv /\ Crash => Safe'
<1> SUFFICES ASSUME Inv, Crash PROVE Safe'
  OBVIOUS
<1>1. status' = "loading" /\ db' = EmptyDataset /\ pos' = 0 /\ aof' = aof /\ visible' = visible
      /\ pc # "renamed"
  BY SafeAssumption, Zenon DEF Crash
<1>2. pc' = "idle" /\ ShrinkIdle' /\ shrunk' = <<>> /\ shrinklog' = <<>>
  BY DEF Crash, ShrinkReset, ShrinkIdle
<1>3. PICK run : IsRun(run, aof) /\ run[Len(aof)] = visible
  BY <1>1 DEF Inv, Safe, DiskOK, Loads
<1>4. DiskOK'
  BY <1>1, <1>3 DEF DiskOK, IsRun
<1>5. \A s \in Slots : EmptyDataset[s] = Absent
  BY DEF EmptyDataset
<1>6. NotDue(EmptyDataset) /\ HooksPlain(EmptyDataset)
  BY <1>5 DEF NotDue, HooksPlain, Slots
<1>7. DataOK'
  BY <1>1, <1>2, <1>6, PlainEmpty DEF Inv, Safe, DataOK
<1> QED BY <1>1, <1>2, <1>4, <1>7, Zenon DEF Safe, PositionsOK, ScanOK, ReplayOK, SwapOK, LoadsCleanly

\* A plain command never stops a server from starting.
LEMMA PlainLoads ==
    ASSUME NEW c \in WriteCommands, PlainCommand(c)
    PROVE  ~LoadFails(c)
<1>1. c.op = "set" => c.slot[1] # EmptyKey
  <2> SUFFICES ASSUME c.op = "set" PROVE c.slot[1] # EmptyKey
    OBVIOUS
  <2>1. c \in SetCommands
    BY PlainKinds, Zenon DEF ClearingCommands, ObjectCommandSet, SethookCommands, FsetCommands, DelCommands,
       PdelCommands, DropCommands, FlushdbCommands, ExpireCommands, PersistCommands, JsetCommands,
       DelhookCommands, PdelhookCommands
  <2>2. c.slot \in Objects
    BY <2>1 DEF SetCommands
  <2> QED BY <2>2, ObjectParts, SafeAssumption
<1>2. c.op = "jset" => ~BreaksShape(db, c)
  BY DEF PlainCommand, BreaksShape
<1> QED BY <1>1, <1>2 DEF LoadFails

LEMMA LoadingStep == Inv /\ (LoadStep \/ LoadEnd) => Safe'
<1> SUFFICES ASSUME Inv, LoadStep \/ LoadEnd PROVE Safe'
  OBVIOUS
<1>1. status = "loading" /\ pc = "idle" /\ UNCHANGED <<aof, torn, visible, shrinkVars>>
  BY DEF LoadStep, LoadEnd, Inv, Serving, shrinking
<1>2. PICK run : IsRun(run, aof) /\ run[Len(aof)] = visible /\ run[pos] = db
  BY <1>1 DEF Inv, Safe, DiskOK
<1>3. aof \in Seq(WriteCommands) /\ pos \in 0..Len(aof) /\ Len(aof) \in Nat /\ db \in Datasets
  BY DEF Inv, TypeOK
<1>4. PositionsOK' /\ ScanOK' /\ ReplayOK' /\ SwapOK'
  BY <1>1, Zenon DEF Inv, Safe, PositionsOK, ScanOK, ReplayOK, SwapOK, ShrinkIdle, shrinkVars, scanVars
<1>5. CASE LoadStep
  <2> DEFINE c == aof[pos + 1]
  <2>1. pos < Len(aof) /\ pos + 1 \in 1..Len(aof)
    <3>1. pos < Len(aof)
      BY <1>5, Zenon DEF LoadStep
    <3> QED BY <1>3, <3>1
  <2>2. c \in WriteCommands /\ PlainCommand(c)
    <3>1. PlainFile(aof)
      BY DEF Inv, Safe, DataOK
    <3> QED BY <1>3, <2>1, <3>1 DEF PlainFile
  <2>3. db' = LoadCommand(db, c) /\ pos' = pos + 1 /\ status' = "loading"
    BY <1>1, <1>5, <2>2, PlainLoads, SMTT(30) DEF LoadStep
  <2>4. NotDue(db') /\ HooksPlain(db')
    BY <1>3, <2>2, <2>3, NotDueStep, HooksPlainStep, SMTT(30) DEF Inv, Safe, DataOK
  <2>5. DataOK' /\ LoadsCleanly'
    BY <1>1, <2>3, <2>4 DEF Inv, Safe, DataOK, LoadsCleanly, shrinkVars
  <2>6. run[pos'] = db'
    <3>1. run[pos + 1] = LoadCommand(run[(pos + 1) - 1], c)
      BY <1>2, <2>1 DEF IsRun
    <3>2. (pos + 1) - 1 = pos
      BY <1>3
    <3> QED BY <1>2, <2>3, <3>1, <3>2, SMTT(30)
  <2>7. DiskOK'
    BY <1>1, <1>2, <2>3, <2>6, SMTT(30) DEF DiskOK
  <2> QED BY <1>4, <2>5, <2>7 DEF Safe
<1>6. CASE LoadEnd
  <2>1. pos = Len(aof) /\ status' = (IF torn THEN "refused" ELSE "up") /\ db' = db
    BY <1>6 DEF LoadEnd
  <2>2. db = visible
    BY <1>2, <2>1
  <2>3. Loads(aof', visible')
    BY <1>1, <1>2 DEF Loads
  <2>4. DiskOK'
    BY <2>1, <2>3 DEF DiskOK
  <2>5. DataOK' /\ LoadsCleanly'
    BY <1>1, <2>1, <2>2 DEF Inv, Safe, DataOK, LoadsCleanly, shrinkVars
  <2> QED BY <1>4, <2>4, <2>5 DEF Safe
<1> QED BY <1>5, <1>6

----------------------------------------------------------------------------
LEMMA CommandsStep ==
    ASSUME Inv, (\E c \in Commands : Write(c)) \/ (\E o \in Objects : Purge(o))
    PROVE  Safe'
<1>1. ASSUME NEW c \in Commands, Write(c) PROVE Safe'
  <2>1. c \in WriteCommands /\ PlainCommand(c)
    BY AOFAssumption, SafeAssumption, SMTT(30)
  <2>2. db' = LoadCommand(db, c) /\ Updated(db, c) /\ LockFree /\ visible' = Renewed(db')
    BY <1>1, <2>1, LoadAgrees DEF Write, Inv, TypeOK
  <2>3. Logged(c)
    BY <2>1 DEF Logged, Fails, PlainCommand
  <2>4. writeAOF(c) /\ UNCHANGED <<status, torn, pos, pc, shrunk, replayed, keys, nextkey, keysdone,
                                   nextid, count, hnames>>
    BY <1>1, <2>3 DEF Write, scanVars
  <2> QED BY <2>1, <2>2, <2>4, LogStep, SMTT(30)
<1>2. ASSUME NEW o \in Objects, Purge(o) PROVE Safe'
  <2>1. PICK c : c = [op |-> "del", slot |-> o]
    BY Zenon
  <2>2. c \in WriteCommands /\ PlainCommand(c) /\ c.op = "del" /\ c.slot = o
    BY <2>1 DEF WriteCommands, DelCommands, PlainCommand
  <2>3. Updated(db, c)
    BY <1>2, <2>2 DEF Purge, Updated
  <2>4. db' = LoadCommand(db, c)
    BY <1>2, <2>1, <2>2, <2>3, LoadAgrees, Dispatch, Zenon DEF Purge, Inv, TypeOK
  <2>5. LockFree /\ visible' = Renewed(db') /\ writeAOF(c)
        /\ UNCHANGED <<status, torn, pos, pc, shrunk, replayed, keys, nextkey, keysdone,
                       nextid, count, hnames>>
    BY <1>2, <2>1, Zenon DEF Purge, scanVars
  <2> QED BY <2>2, <2>3, <2>4, <2>5, LogStep, SMTT(30)
<1> QED BY <1>1, <1>2

LEMMA SafeStep == Inv /\ [Next]_vars => Safe'
<1> SUFFICES ASSUME Inv, [Next]_vars PROVE Safe'
  OBVIOUS
<1>1. ASSUME NEW o \in Objects, TimePasses(o) PROVE Safe'
  BY <1>1, SafeAssumption DEF TimePasses
<1>2. CASE UNCHANGED vars
  <2> USE <1>2 DEF vars, serverVars, shrinkVars, scanVars
  <2>1. DataOK' /\ DiskOK' /\ PositionsOK' /\ LoadsCleanly'
    BY DEF Inv, Safe, DataOK, DiskOK, PositionsOK, ShrinkIdle, LoadsCleanly
  <2>2. \A s : Ahead(s)' <=> Ahead(s)
    BY DEF Ahead, AheadObject
  <2>3. ScanOK'
    <3>1. CASE pc \in {"scan", "hooks"}
      BY <2>2, <3>1, SkipStep
    <3>2. CASE pc \notin {"scan", "hooks"}
      BY <3>2 DEF ScanOK
    <3> QED BY <3>1, <3>2
  <2>4. ReplayOK' /\ SwapOK'
    BY DEF Inv, Safe, ReplayOK, SwapOK
  <2> QED BY <2>1, <2>3, <2>4, SMTT(30) DEF Safe
<1> QED
  BY <1>1, <1>2, CommandsStep, BeginStep, KeysStep, IdsStep, HooksStep, LockStep, CopyStep, RenameStep,
     CrashStep, LoadingStep, SMTT(30) DEF Next, Shrink, Load

LEMMA InvCorrect == Spec => []Inv
<1>1. Init => Inv
  BY TypeInit, SafeInit DEF Inv
<1>2. Inv /\ [Next]_vars => Inv'
  BY TypeStep, SafeStep DEF Inv
<1>3. Init /\ [][Next]_vars => []Inv
  BY <1>1, <1>2, PTL
<1> QED BY <1>3, PTL DEF Spec

\* A server that is up holds exactly what clients last saw: no sequence of
\* crashes and restarts (loadAOF) and no shrink of the file beside running
\* commands (aofshrink, writeAOF) loses an acknowledged write or brings back
\* something deleted, as long as the conditions of AOFSafe hold.
THEOREM DurableCorrect == Spec => []Durable
<1>1. Inv => Durable
  BY RenewedIs DEF Inv, TypeOK, Safe, DataOK, Durable
<1> QED BY <1>1, InvCorrect, PTL

\* Under the same conditions loadAOF accepts every file that does not end in half
\* a command, shrunk ones included.
THEOREM LoadsCleanlyCorrect == Spec => []LoadsCleanly
<1>1. Inv => LoadsCleanly
  BY DEF Inv, Safe
<1> QED BY <1>1, InvCorrect, PTL

\* "we now have a shrunken aof file that is fully in-sync with the current
\* dataset" (aofshrink.go): when aofshrink swaps the files there is a run of
\* loadAOF over the new one that ends in the dataset in memory, whatever commands
\* ran beside the scan.
THEOREM ShrunkCorrect == Spec => []SwapOK
<1>1. Inv => SwapOK
  BY DEF Inv, Safe
<1> QED BY <1>1, InvCorrect, PTL
=============================================================================
