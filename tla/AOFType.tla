------------------------------- MODULE AOFType -------------------------------
(***************************************************************************)
(* Type correctness of AOF, for every value of its constants.              *)
(***************************************************************************)
EXTENDS AOF, DatasetLemmas, FiniteSetTheorems, WellFoundedInduction

\* A set of naturals that is not empty has a least element, and Least picks it.
LEMMA LeastIn ==
    ASSUME NEW S \in SUBSET Nat, S # {}
    PROVE  Least(S) \in S /\ \A y \in S : Least(S) <= y
<1> DEFINE less == OpToRel(<, Nat)
<1>1. IsWellFoundedOn(less, Nat)
  BY NatLessThanWellFounded, Zenon
<1>2. \A x, y \in Nat : x < y => <<x, y>> \in less
  BY DEF OpToRel
<1> HIDE DEF less
<1>3. PICK x \in S : \A y \in S : ~(<<y, x>> \in less)
  BY <1>1, WFMin, Zenon
<1>4. ASSUME NEW y \in S PROVE x <= y
  <2>1. x \in Nat /\ y \in Nat
    OBVIOUS
  <2>2. ~(y < x)
    BY <1>2, <1>3, <2>1, Zenon
  <2> QED BY <2>1, <2>2
<1>5. \E z \in S : \A y \in S : z <= y
  BY <1>4
<1> QED
  BY <1>5, Zenon DEF Least

LEMMA StartType ==
    ASSUME NEW S \in SUBSET Nat
    PROVE  Start(S) \in Nat /\ \A y \in S : Start(S) <= y
BY LeastIn, Zenon DEF Start

\* The commands the shrinker writes are commands.
LEMMA ShrinkSetType ==
    ASSUME NEW o \in Objects, NEW x \in ObjectStates
    PROVE  ShrinkSet(o, x) \in WriteCommands
<1>1. (x.ex = "live") \in BOOLEAN
  OBVIOUS
<1>2. [f \in Fields |-> IF x.fields[f] = 0 THEN Absent ELSE x.fields[f]] \in FieldValues
  BY DEF ObjectStates, FieldValues
<1>3. ShrinkSet(o, x) \in SetCommands
  BY <1>1, <1>2 DEF ShrinkSet, SetCommands, ObjectStates
<1> QED BY <1>3 DEF WriteCommands

LEMMA ShrinkSethookType ==
    ASSUME NEW h \in HookNames, NEW x \in HookStates
    PROVE  ShrinkSethook(h, x) \in WriteCommands
<1>1. ShrinkSethook(h, x) \in SethookCommands
  BY DEF ShrinkSethook, SethookCommands, HookStates
<1> QED BY <1>1 DEF WriteCommands

LEMMA LowestIn ==
    ASSUME NEW S, NEW n
    PROVE  Lowest(S, n) \subseteq S
BY DEF Lowest

LEMMA StartsType == Start(Keys) \in Nat /\ Start(Ids) \in Nat
<1>1. Keys \in SUBSET Nat /\ Ids \in SUBSET Nat
  BY AOFAssumption
<1> QED BY <1>1, StartType

----------------------------------------------------------------------------
\* The shrinker runs only in a server that is up, which reads its file no more.
Serving == (status = "up" => pos = 0) /\ (shrinking => status = "up")

LEMMA IdleType ==
    ASSUME ShrinkIdle
    PROVE  /\ shrunk \in Seq(WriteCommands) /\ shrinklog \in Seq(WriteCommands)
           /\ replayed \in 0..Len(shrinklog) /\ pc = "idle"
           /\ keys \subseteq Keys /\ nextkey \in Nat /\ keysdone \in BOOLEAN
           /\ nextid \in Nat /\ count \in 0..maxids /\ hnames \subseteq HookNames
<1>1. shrunk \in Seq(WriteCommands) /\ shrinklog \in Seq(WriteCommands)
  BY EmptySeq DEF ShrinkIdle
<1>2. replayed \in 0..Len(shrinklog)
  BY EmptySeq DEF ShrinkIdle
<1>3. keys \subseteq Keys /\ hnames \subseteq HookNames
  BY DEF ShrinkIdle
<1>4. nextkey \in Nat /\ nextid \in Nat
  BY StartsType DEF ShrinkIdle
<1>5. count \in 0..maxids
  BY AOFAssumption DEF ShrinkIdle
<1>6. keysdone \in BOOLEAN /\ pc = "idle"
  BY Zenon DEF ShrinkIdle
<1> QED BY <1>1, <1>2, <1>3, <1>4, <1>5, <1>6

LEMMA TypeInit == Init => TypeOK /\ Serving
<1> SUFFICES ASSUME Init PROVE TypeOK /\ Serving
  OBVIOUS
<1>1. PICK f \in InitialFiles : aof = f.file /\ visible = f.run[Len(f.file)]
  BY DEF Init
<1>2. aof \in Seq(WriteCommands) /\ f.run \in [0..Len(f.file) -> Datasets]
  BY <1>1, AOFAssumption DEF IsRun
<1>3. visible \in Datasets
  BY <1>1, <1>2
<1>4. QED
  <2>1. ShrinkIdle /\ pos = 0 /\ bak = <<>>
    BY DEF Init
  <2>2. pos \in 0..Len(aof) /\ bak \in Seq(WriteCommands)
    BY <1>2, <2>1, EmptySeq
  <2>3. db \in Datasets /\ torn \in BOOLEAN /\ status = "loading"
    BY EmptyType, Zenon DEF Init
  <2>4. writes \in 0..MaxWrites /\ shrinks \in 0..MaxShrinks /\ crashes \in 0..MaxCrashes
    BY AOFAssumption DEF Init
  <2> QED
    BY <1>2, <1>3, <2>1, <2>2, <2>3, <2>4, IdleType DEF TypeOK, Serving, shrinking

LEMMA ResetType ==
    ASSUME ShrinkReset
    PROVE  /\ shrunk' \in Seq(WriteCommands) /\ shrinklog' \in Seq(WriteCommands)
           /\ replayed' \in 0..Len(shrinklog') /\ pc' = "idle"
           /\ keys' \subseteq Keys /\ nextkey' \in Nat /\ keysdone' \in BOOLEAN
           /\ nextid' \in Nat /\ count' \in 0..maxids /\ hnames' \subseteq HookNames
<1>1. shrunk' \in Seq(WriteCommands) /\ shrinklog' \in Seq(WriteCommands)
  BY EmptySeq DEF ShrinkReset
<1>2. replayed' \in 0..Len(shrinklog')
  BY EmptySeq DEF ShrinkReset
<1>3. keys' \subseteq Keys /\ hnames' \subseteq HookNames
  BY DEF ShrinkReset
<1>4. nextkey' \in Nat /\ nextid' \in Nat
  BY StartsType DEF ShrinkReset
<1>5. count' \in 0..maxids
  BY AOFAssumption DEF ShrinkReset
<1>6. keysdone' \in BOOLEAN /\ pc' = "idle"
  BY Zenon DEF ShrinkReset
<1> QED BY <1>1, <1>2, <1>3, <1>4, <1>5, <1>6

LEMMA TypeStep == TypeOK /\ Serving /\ [Next]_vars => TypeOK' /\ Serving'
<1> SUFFICES ASSUME TypeOK, Serving, [Next]_vars PROVE TypeOK' /\ Serving'
  OBVIOUS
<1> USE AOFAssumption
<1>1. ASSUME NEW c \in Commands, Write(c) PROVE TypeOK' /\ Serving'
  <2>1. c \in WriteCommands
    OBVIOUS
  <2>2. db' \in Datasets /\ visible' \in Datasets
    BY <1>1, <2>1, CommandType, RenewedType DEF Write, TypeOK
  <2>3. aof' \in Seq(WriteCommands) /\ shrinklog' \in Seq(WriteCommands)
        /\ pos \in 0..Len(aof') /\ replayed \in 0..Len(shrinklog')
    <3>1. CASE aof' = Append(aof, c) /\ shrinklog' = IF shrinking THEN Append(shrinklog, c) ELSE shrinklog
      <4>1. aof' \in Seq(WriteCommands) /\ Len(aof') = Len(aof) + 1 /\ Len(aof) \in Nat
        BY <2>1, <3>1, Appended DEF TypeOK
      <4>2. CASE shrinking
        BY <2>1, <3>1, <4>1, <4>2, Appended DEF TypeOK
      <4>3. CASE ~shrinking
        BY <2>1, <3>1, <4>1, <4>3 DEF TypeOK
      <4> QED BY <4>2, <4>3
    <3>2. CASE UNCHANGED <<aof, shrinklog>>
      BY <3>2 DEF TypeOK
    <3> QED BY <1>1, <3>1, <3>2 DEF Write, writeAOF
  <2>4. writes' \in 0..MaxWrites
    BY <1>1 DEF Write, TypeOK
  <2> QED BY <1>1, <2>2, <2>3, <2>4 DEF Write, TypeOK, Serving, shrinking, LockFree, scanVars
<1>2. ASSUME NEW o \in Objects, TimePasses(o) PROVE TypeOK' /\ Serving'
  <2>1. db[o] \in ObjectStates
    BY <1>2, DatasetSlots, SMTT(30) DEF TimePasses, TypeOK
  <2>2. [db[o] EXCEPT !.ex = "due"] \in ObjectStates
    BY <2>1, SMTT(30) DEF ObjectStates
  <2>3. db' \in Datasets
    BY <1>2, <2>2, PutObject, Zenon DEF TimePasses, TypeOK
  <2> QED BY <1>2, <2>3, SMTT(30) DEF TimePasses, TypeOK, Serving, shrinking, LockFree, shrinkVars, scanVars, boundVars
<1>3. ASSUME NEW o \in Objects, Purge(o) PROVE TypeOK' /\ Serving'
  <2> DEFINE c == [op |-> "del", slot |-> o]
  <2>1. c \in WriteCommands
    BY DEF WriteCommands, DelCommands
  <2>2. db' \in Datasets
    BY <1>3, PutObject, Zenon DEF Purge, cmdDel, TypeOK
  <2>3. visible' \in Datasets
    BY <1>3, <2>2, RenewedType DEF Purge
  <2> HIDE DEF c
  <2>4. writeAOF(c)
    BY <1>3 DEF Purge, c
  <2>5. aof' \in Seq(WriteCommands) /\ shrinklog' \in Seq(WriteCommands)
        /\ pos \in 0..Len(aof') /\ replayed \in 0..Len(shrinklog')
    BY <2>1, <2>4, Appended DEF writeAOF, TypeOK
  <2> QED BY <1>3, <2>2, <2>3, <2>5 DEF Purge, TypeOK, Serving, shrinking, LockFree, scanVars, boundVars
<1>4. CASE ShrinkBegin
  BY <1>4 DEF ShrinkBegin, TypeOK, Serving, shrinking, LockFree, serverVars, scanVars
<1>5. CASE ShrinkKeys
  <2> DEFINE left  == {k \in PresentKeys : k >= nextkey}
             batch == Lowest(left, maxkeys)
  <2>1. batch \subseteq Keys /\ left \subseteq Nat
    BY LowestIn, Zenon DEF PresentKeys
  <2>2. left # batch => Least(left \ batch) \in Nat
    <3>1. batch \subseteq left
      BY LowestIn
    <3> HIDE DEF left, batch
    <3> QED BY <2>1, <3>1, LeastIn, Zenon
  <2> HIDE DEF left, batch
  <2>3. keys' = batch /\ keysdone' = (left = batch)
        /\ nextkey' = (IF left = batch THEN nextkey ELSE Least(left \ batch))
    BY <1>5 DEF ShrinkKeys, left, batch
  <2>4. keys' \subseteq Keys /\ keysdone' \in BOOLEAN /\ nextkey' \in Nat
    BY <2>1, <2>2, <2>3 DEF TypeOK
  <2> QED BY <1>5, <2>4 DEF ShrinkKeys, TypeOK, Serving, shrinking, LockFree, serverVars, boundVars
<1>6. CASE ShrinkIds
  <2> DEFINE k    == Least(keys)
             left == {i \in Present(k) : i >= nextid}
  <2>1. k \in Keys
    BY <1>6, LeastIn, Zenon DEF ShrinkIds, TypeOK
  <2>2. left # {} => Least(left) \in Present(k) /\ Least(left) \in Nat
    BY LeastIn, Zenon DEF Present
  <2>3. left # {} => ShrinkSet(<<k, Least(left)>>, db[<<k, Least(left)>>]) \in WriteCommands
    <3> SUFFICES ASSUME left # {} PROVE ShrinkSet(<<k, Least(left)>>, db[<<k, Least(left)>>]) \in WriteCommands
      OBVIOUS
    <3>1. <<k, Least(left)>> \in Objects
      BY <2>1, <2>2 DEF Present, Objects
    <3>2. db[<<k, Least(left)>>] \in ObjectStates
      BY <2>2, <3>1, DatasetSlots, Zenon DEF Present, TypeOK
    <3> QED BY <3>1, <3>2, ShrinkSetType
  <2>4. shrunk' \in Seq(WriteCommands) /\ keys' \subseteq Keys /\ nextid' \in Nat /\ count' \in 0..maxids
    <3>1. CASE left = {}
      <4>1. keys' = keys \ {k} /\ nextid' = Start(Ids) /\ count' = 0 /\ UNCHANGED shrunk
        BY <1>6, <3>1, Zenon DEF ShrinkIds, BatchFull, Resume
      <4>2. nextid' \in Nat
        BY <4>1, StartsType
      <4>3. count' \in 0..maxids
        BY <4>1
      <4> QED BY <4>1, <4>2, <4>3, Zenon DEF TypeOK
    <3>2. CASE left # {} /\ UNCHANGED <<keys, shrunk>>
               /\ nextid' = Least(left) /\ count' = 0
      <4>1. nextid' \in Nat
        BY <2>2, <3>2
      <4>2. count' \in 0..maxids
        BY <3>2
      <4> QED BY <3>2, <4>1, <4>2 DEF TypeOK
    <3>3. CASE /\ left # {} /\ count # maxids /\ UNCHANGED keys
               /\ shrunk' = Append(shrunk, ShrinkSet(<<k, Least(left)>>, db[<<k, Least(left)>>]))
               /\ nextid' = Least(left) + 1 /\ count' = count + 1
      <4>1. shrunk' \in Seq(WriteCommands)
        BY <2>3, <3>3, Appended DEF TypeOK
      <4>2. nextid' \in Nat
        BY <2>2, <3>3
      <4>3. count' \in 0..maxids
        BY <3>3 DEF TypeOK
      <4> QED BY <3>3, <4>1, <4>2, <4>3, SMTT(30) DEF TypeOK
    <3> QED BY <1>6, <3>1, <3>2, <3>3, Zenon DEF ShrinkIds, BatchFull, Resume
  <2> QED BY <1>6, <2>4 DEF ShrinkIds, TypeOK, Serving, shrinking, LockFree, serverVars, boundVars
<1>7. CASE ShrinkHookNames
  BY <1>7 DEF ShrinkHookNames, TypeOK, Serving, shrinking, LockFree, serverVars, boundVars
<1>8. ASSUME NEW h \in HookNames, ShrinkHook(h) PROVE TypeOK' /\ Serving'
  <2>1. db[h] # Absent => ShrinkSethook(h, db[h]) \in WriteCommands
    BY DatasetSlots, ShrinkSethookType, SMTT(30) DEF TypeOK
  <2>2. shrunk' \in Seq(WriteCommands) /\ hnames' \subseteq HookNames
    BY <1>8, <2>1, Appended DEF ShrinkHook, TypeOK
  <2> QED BY <1>8, <2>2 DEF ShrinkHook, TypeOK, Serving, shrinking, LockFree, serverVars, boundVars
<1>9. CASE ShrinkLock
  BY <1>9 DEF ShrinkLock, TypeOK, Serving, shrinking, LockFree, serverVars, scanVars, boundVars
<1>10. CASE ShrinkReplay
  <2>1. shrunk' \in Seq(WriteCommands) /\ replayed' \in 0..Len(shrinklog)
    <3>1. CASE replayed < Len(shrinklog)
      <4>1. shrinklog[replayed + 1] \in WriteCommands
        BY <3>1 DEF TypeOK
      <4>2. shrunk' = Append(shrunk, shrinklog[replayed + 1]) /\ replayed' = replayed + 1
        BY <1>10, <3>1 DEF ShrinkReplay
      <4>3. shrunk' \in Seq(WriteCommands)
        BY <4>1, <4>2, Appended DEF TypeOK
      <4>4. replayed' \in 0..Len(shrinklog)
        BY <3>1, <4>2 DEF TypeOK
      <4> QED BY <4>3, <4>4
    <3>2. CASE ~(replayed < Len(shrinklog))
      BY <1>10, <3>2 DEF ShrinkReplay, TypeOK
    <3> QED BY <3>1, <3>2
  <2> QED BY <1>10, <2>1 DEF ShrinkReplay, TypeOK, Serving, shrinking, LockFree, serverVars, scanVars, boundVars
<1>11. CASE ShrinkBackup
  <2>1. pos' \in 0..Len(aof') /\ aof' \in Seq(WriteCommands) /\ bak' \in Seq(WriteCommands)
    BY <1>11, EmptySeq DEF ShrinkBackup, TypeOK, Serving, shrinking
  <2> QED BY <1>11, <2>1 DEF ShrinkBackup, TypeOK, Serving, shrinking, LockFree, scanVars, boundVars
<1>12. CASE ShrinkInstall
  <2>1. pos' \in 0..Len(aof') /\ aof' \in Seq(WriteCommands) /\ bak' \in Seq(WriteCommands)
    BY <1>12, EmptySeq DEF ShrinkInstall, TypeOK, Serving, shrinking
  <2> QED BY <1>12, <2>1 DEF ShrinkInstall, TypeOK, Serving, shrinking, LockFree, scanVars, boundVars
<1>13. CASE ShrinkFail
  BY <1>13 DEF ShrinkFail, TypeOK, Serving, shrinking, LockFree, serverVars, scanVars, boundVars
<1>14. CASE ShrinkEnd
  BY <1>14, ResetType DEF ShrinkEnd, TypeOK, Serving, shrinking, LockFree, serverVars, boundVars
<1>15. CASE Crash
  <2>1. PICK t \in BOOLEAN : torn' = (torn \/ t)
    BY <1>15 DEF Crash
  <2>2. torn' \in BOOLEAN
    BY <2>1 DEF TypeOK
  <2>3. status' = "loading" /\ db' \in Datasets /\ pos' = 0 /\ ShrinkReset
        /\ UNCHANGED <<aof, bak, visible, writes, shrinks>>
    BY <1>15, EmptyType DEF Crash
  <2>4. crashes' \in 0..MaxCrashes
    BY <1>15 DEF Crash, TypeOK
  <2>5. pos' \in 0..Len(aof')
    BY <2>3 DEF TypeOK
  <2> QED BY <2>2, <2>3, <2>4, <2>5, ResetType, SMTT(30) DEF TypeOK, Serving, shrinking
<1>16. CASE LoadStep
  <2>1. aof[pos + 1] \in WriteCommands
    BY <1>16 DEF LoadStep, TypeOK
  <2>2. db' \in Datasets /\ pos' \in 0..Len(aof) /\ status' \in {"loading", "up", "refused"}
    BY <1>16, <2>1, LoadType, SMTT(30) DEF LoadStep, TypeOK
  <2> QED BY <1>16, <2>2 DEF LoadStep, TypeOK, Serving, shrinking, LockFree, shrinkVars, scanVars, boundVars
<1>17. CASE LoadEnd
  <2>1. pos' \in 0..Len(aof) /\ status' \in {"up", "refused"}
    BY <1>17 DEF LoadEnd, TypeOK
  <2> QED BY <1>17, <2>1 DEF LoadEnd, TypeOK, Serving, shrinking, shrinkVars, scanVars, boundVars
<1>18. CASE UNCHANGED vars
  BY <1>18 DEF TypeOK, Serving, shrinking, LockFree, vars, serverVars, shrinkVars, scanVars, boundVars
<1> QED
  BY <1>1, <1>2, <1>3, <1>4, <1>5, <1>6, <1>7, <1>8, <1>9, <1>10, <1>11, <1>12, <1>13, <1>14,
     <1>15, <1>16, <1>17, <1>18, Zenon DEF Next, Shrink, Load

\* Every variable keeps its type: in particular every dataset the server builds,
\* from clients' commands or from a file, is one, and every command the shrinker
\* writes is a command loadAOF can read.
THEOREM TypeCorrect == Spec => []TypeOK
<1>1. Init /\ [][Next]_vars => [](TypeOK /\ Serving)
  BY TypeInit, TypeStep, PTL
<1> QED
  BY <1>1, PTL DEF Spec
=============================================================================
