--------------------------------- MODULE AOF ---------------------------------
(***************************************************************************)
(* The append-only file: a server logs every effective write, rebuilds its *)
(* dataset from the file after a crash, and rewrites the file in the       *)
(* background (AOFSHRINK) while clients keep writing                       *)
(* (pkg/controller/aof.go, aofshrink.go, controller.go).                   *)
(*                                                                         *)
(* Commands run one at a time under the write lock c.mu, the append to the *)
(* file included, so a command is one action.  The shrinker takes the lock *)
(* for a batch of keys, a batch of ids, the hook names, each hook and the  *)
(* final section, and lets go of it in between: its steps interleave with  *)
(* the commands.  "LockFree" says when the shrinker does not hold c.mu.    *)
(***************************************************************************)
EXTENDS Dataset, Sequences, FiniteSets

CONSTANTS
    Commands,       \* the write commands clients send
    InitialFiles,   \* the files a server may be started on, each with the
                    \* datasets that loading it goes through
    maxkeys,        \* keys per batch
    maxids,         \* ids per batch
    EmptyKey,       \* the empty string as a key: SET refuses it, JSET does not
    LateExpiry,     \* may an object outlive its timeout before it is purged?
    CrashInSwap,    \* may the process die between the two renames?
    MaxWrites,      \* bound: commands that change the dataset
    MaxShrinks,     \* bound: shrinks started
    MaxCrashes      \* bound: crashes

\* run is the sequence of datasets that loading the commands of file produces.
IsRun(run, file) ==
    /\ run \in [0..Len(file) -> Datasets]
    /\ run[0] = EmptyDataset
    /\ \A n \in 1..Len(file) : run[n] = LoadCommand(run[n-1], file[n])

ASSUME AOFAssumption ==
    /\ Keys \subseteq Nat /\ IsFiniteSet(Keys)
    /\ Ids \subseteq Nat /\ IsFiniteSet(Ids)
    /\ \A c \in Commands : c \in WriteCommands
    /\ \A f \in InitialFiles : /\ f.file \in Seq(WriteCommands)
                               /\ IsRun(f.run, f.file)
    /\ maxkeys \in Nat \ {0} /\ maxids \in Nat \ {0}
    /\ LateExpiry \in BOOLEAN /\ CrashInSwap \in BOOLEAN
    /\ MaxWrites \in Nat /\ MaxShrinks \in Nat /\ MaxCrashes \in Nat

VARIABLES
    status,     \* "loading", "up", or "refused": loadAOF failed
    db,         \* the dataset in memory
    aof,        \* the commands in appendonly.aof; a missing file is an empty
                \* one, since the server opens it with O_CREATE
    torn,       \* the file ends in the middle of a command
    bak,        \* the commands in appendonly.aof-bak
    pos,        \* commands read so far by loadAOF
    visible,    \* history: the dataset clients could last read
    pc,         \* where the shrinker is
    shrunk,     \* the commands in appendonly.aof-shrink
    shrinklog,  \* the commands logged since the shrink began
    replayed,   \* how many of them the final section has copied
    keys,       \* the rest of the current batch of keys
    nextkey,    \* the key the next batch starts at
    keysdone,   \* there is no next batch
    nextid,     \* the id the current or next batch of ids starts at
    count,      \* ids written in the current batch
    hnames,     \* hooks not yet written
    writes, shrinks, crashes   \* counters for the bounds

serverVars == <<status, db, aof, torn, bak, pos, visible>>
scanVars   == <<keys, nextkey, keysdone, nextid, count, hnames>>
shrinkVars == <<pc, shrunk, shrinklog, replayed, scanVars>>
boundVars  == <<writes, shrinks, crashes>>
vars       == <<serverVars, shrinkVars, boundVars>>

----------------------------------------------------------------------------
\* Least element, and the n least elements, of a finite set of naturals.
Least(S) == CHOOSE x \in S : \A y \in S : x <= y

Lowest(S, n) == {x \in S : Cardinality({y \in S : y < x}) < n}

\* Keys and ids are strings in the code; every scan starts at the empty one.
Start(S) == IF S = {} THEN 0 ELSE Least(S)

\* The shrinker outside aofshrink: no flag, no log, fresh locals.
ShrinkIdle ==
    /\ pc = "idle"
    /\ shrunk = <<>> /\ shrinklog = <<>> /\ replayed = 0
    /\ keys = {} /\ nextkey = Start(Keys) /\ keysdone = FALSE
    /\ nextid = Start(Ids) /\ count = 0 /\ hnames = {}

ShrinkReset ==
    /\ pc' = "idle"
    /\ shrunk' = <<>> /\ shrinklog' = <<>> /\ replayed' = 0
    /\ keys' = {} /\ nextkey' = Start(Keys) /\ keysdone' = FALSE
    /\ nextid' = Start(Ids) /\ count' = 0 /\ hnames' = {}

Init ==
    /\ \E f \in InitialFiles : aof = f.file /\ visible = f.run[Len(f.file)]
    /\ status = "loading" /\ db = EmptyDataset /\ pos = 0
    /\ torn = FALSE /\ bak = <<>>
    /\ ShrinkIdle
    /\ writes = 0 /\ shrinks = 0 /\ crashes = 0

\* The shrinker holds c.mu inside a batch of ids and in its final section.
LockFree == status = "up" /\ count = 0 /\ pc \notin {"replay", "swap", "renamed"}

shrinking == pc # "idle"

----------------------------------------------------------------------------
(***************************************************************************)
(* Commands.                                                               *)
(***************************************************************************)

\* What the caller hands to writeAOF: not a command that returned an error, and
\* not JDEL, which handleInputCommand does not count among the writes.
Logged(c) == ~Fails(c) /\ c.op # "jdel"

\* Mutant: the command is not put in the shrink log.
WriteAOFOnly(c) == aof' = Append(aof, c) /\ UNCHANGED shrinklog

writeAOF(c) ==
    /\ aof' = Append(aof, c)
    /\ shrinklog' = IF shrinking THEN Append(shrinklog, c) ELSE shrinklog

\* handleInputCommand: a client's write.  A command whose handler does not
\* report an update changes nothing and is not logged.
Write(c) ==
    /\ LockFree
    /\ writes < MaxWrites
    /\ Updated(db, c)
    /\ db' = Command(db, c)
    /\ visible' = Renewed(db')
    /\ IF Logged(c) THEN writeAOF(c) ELSE UNCHANGED <<aof, shrinklog>>
    /\ writes' = writes + 1
    /\ UNCHANGED <<status, torn, bak, pos, pc, shrunk, replayed, scanVars, shrinks, crashes>>

\* An object's timeout passes.
TimePasses(o) ==
    /\ status = "up" /\ LateExpiry
    /\ db[o] # Absent /\ db[o].ex = "live"
    /\ db' = [db EXCEPT ![o].ex = "due"]
    /\ UNCHANGED <<status, aof, torn, bak, pos, visible, shrinkVars, boundVars>>

\* Mutant: the deletion is not logged.
PurgeUnlogged(o) ==
    /\ LockFree
    /\ db[o] # Absent /\ db[o].ex = IF LateExpiry THEN "due" ELSE "live"
    /\ db' = cmdDel(db, [op |-> "del", slot |-> o])
    /\ visible' = Renewed(db')
    /\ UNCHANGED <<status, aof, torn, bak, pos, shrinkVars, boundVars>>

\* backgroundExpiring: an object whose timeout has passed is deleted, and the
\* deletion logged.
Purge(o) ==
    /\ LockFree
    /\ db[o] # Absent /\ db[o].ex = IF LateExpiry THEN "due" ELSE "live"
    /\ db' = cmdDel(db, [op |-> "del", slot |-> o])
    /\ visible' = Renewed(db')
    /\ writeAOF([op |-> "del", slot |-> o])
    /\ UNCHANGED <<status, torn, bak, pos, pc, shrunk, replayed, scanVars, boundVars>>

----------------------------------------------------------------------------
(***************************************************************************)
(* Crash and restart.                                                      *)
(***************************************************************************)

\* The process dies.  A write in progress may leave part of its command at the
\* end of the file; the shrinker's file is never read again.
Crash ==
    /\ crashes < MaxCrashes
    /\ pc = "renamed" => CrashInSwap
    /\ \E t \in BOOLEAN : (t => LockFree) /\ torn' = (torn \/ t)
    /\ status' = "loading" /\ db' = EmptyDataset /\ pos' = 0
    /\ crashes' = crashes + 1
    /\ ShrinkReset
    /\ UNCHANGED <<aof, bak, visible, writes, shrinks>>


\* Mutant: JSET refuses an empty key as well, in files that already hold one.
LoadFailsEmpty(c) ==
    \/ c.op \in {"set", "jset"} /\ c.slot[1] = EmptyKey
    \/ c.op = "jset" /\ BreaksShape(db, c)

\* Errors loadAOF does not ignore (commandErrIsFatal): SET wants a key that is
\* not empty, JSET must leave a geometry a geometry.
LoadFails(c) ==
    \/ c.op = "set" /\ c.slot[1] = EmptyKey
    \/ c.op = "jset" /\ BreaksShape(db, c)

\* loadAOF reads the next command and runs it.
LoadStep ==
    /\ status = "loading" /\ pos < Len(aof)
    /\ IF LoadFails(aof[pos + 1])
       THEN status' = "refused" /\ UNCHANGED <<db, pos>>
       ELSE /\ db' = LoadCommand(db, aof[pos + 1])
            /\ pos' = pos + 1
            /\ UNCHANGED status
    /\ UNCHANGED <<aof, torn, bak, visible, shrinkVars, boundVars>>

\* loadAOF reaches the end of the file.  Half a command there is an unexpected
\* EOF, which ListenAndServeEx returns.
LoadEnd ==
    /\ status = "loading" /\ pos = Len(aof)
    /\ status' = IF torn THEN "refused" ELSE "up"
    /\ pos' = 0
    /\ UNCHANGED <<db, aof, torn, bak, visible, shrinkVars, boundVars>>

----------------------------------------------------------------------------
(***************************************************************************)
(* AOFSHRINK.                                                              *)
(***************************************************************************)
Present(k) == {i \in Ids : db[<<k, i>>] # Absent}

PresentKeys == {k \in Keys : Present(k) # {}}

\* The commands the shrinker writes for one object and for one hook.  The
\* timeout is written only when it is still in the future, and a hook without
\* its META pairs.
ShrinkSet(o, s) ==
    [op |-> "set", slot |-> o, doc |-> s.doc, geo |-> s.geo,
     fields |-> [f \in Fields |-> IF s.fields[f] = 0 THEN Absent ELSE s.fields[f]],
     ex |-> s.ex = "live", cond |-> "any"]

ShrinkSethook(h, s) ==
    [op |-> "sethook", hook |-> h, def |-> s.def, meta |-> NoMeta, ref |-> s.ref]

ShrinkBegin ==
    /\ LockFree /\ ~shrinking
    /\ shrinks < MaxShrinks
    /\ shrinks' = shrinks + 1
    /\ pc' = "scan"
    /\ UNCHANGED <<serverVars, shrunk, shrinklog, replayed, scanVars, writes, crashes>>

\* Load the next batch of keys under the lock.
ShrinkKeys ==
    /\ pc = "scan" /\ keys = {} /\ ~keysdone
    /\ LET left  == {k \in PresentKeys : k >= nextkey}
           batch == Lowest(left, maxkeys)
       IN  /\ keys' = batch
           /\ keysdone' = (left = batch)
           /\ nextkey' = IF left = batch THEN nextkey ELSE Least(left \ batch)
    /\ UNCHANGED <<serverVars, pc, shrunk, shrinklog, replayed, nextid, count, hnames, boundVars>>

\* Mutants: the batch of ids has no limit; the scan resumes after the id at which
\* it stopped, and not at that id.
NeverFull == FALSE

ResumeAfter(left) == Least(left) + 1

\* The scan stops before the first id that a full batch has no room for, and the
\* next batch resumes there.
BatchFull == count = maxids

Resume(left) == Least(left)

\* One turn of the id scan of the first key of the batch.  The lock is taken
\* with the first object of a batch of ids and kept to the end of the batch.
ShrinkIds ==
    /\ pc = "scan" /\ keys # {}
    /\ LET k    == Least(keys)
           left == {i \in Present(k) : i >= nextid}
       IN  \/ \* no more ids: on to the next key
              /\ left = {}
              /\ keys' = keys \ {k} /\ nextid' = Start(Ids) /\ count' = 0
              /\ UNCHANGED shrunk
           \/ \* the batch is full: release the lock, go on from here later
              /\ left # {} /\ BatchFull
              /\ nextid' = Resume(left) /\ count' = 0
              /\ UNCHANGED <<keys, shrunk>>
           \/ \* write one object
              /\ left # {} /\ ~BatchFull
              /\ shrunk' = Append(shrunk, ShrinkSet(<<k, Least(left)>>, db[<<k, Least(left)>>]))
              /\ nextid' = Least(left) + 1 /\ count' = count + 1
              /\ UNCHANGED keys
    /\ UNCHANGED <<serverVars, pc, shrinklog, replayed, nextkey, keysdone, hnames, boundVars>>

\* All keys are written: load the names of the hooks under the lock.
ShrinkHookNames ==
    /\ pc = "scan" /\ keys = {} /\ keysdone
    /\ hnames' = {h \in HookNames : db[h] # Absent}
    /\ pc' = "hooks"
    /\ UNCHANGED <<serverVars, shrunk, shrinklog, replayed, keys, nextkey, keysdone,
                   nextid, count, boundVars>>

\* Write one hook under the lock, unless it is gone by now.
ShrinkHook(h) ==
    /\ pc = "hooks" /\ h \in hnames
    /\ hnames' = hnames \ {h}
    /\ shrunk' = IF db[h] = Absent THEN shrunk ELSE Append(shrunk, ShrinkSethook(h, db[h]))
    /\ UNCHANGED <<serverVars, pc, shrinklog, replayed, keys, nextkey, keysdone,
                   nextid, count, boundVars>>

\* Everything is written and synced: take the lock for the final section.
ShrinkLock ==
    /\ pc = "hooks" /\ hnames = {}
    /\ pc' = "replay"
    /\ UNCHANGED <<serverVars, shrunk, shrinklog, replayed, scanVars, boundVars>>

\* Copy one command of the shrink log to the end of the new file.
ShrinkReplay ==
    /\ pc = "replay"
    /\ IF replayed < Len(shrinklog)
       THEN /\ shrunk' = Append(shrunk, shrinklog[replayed + 1])
            /\ replayed' = replayed + 1
            /\ UNCHANGED pc
       ELSE pc' = "swap" /\ UNCHANGED <<shrunk, replayed>>
    /\ UNCHANGED <<serverVars, shrinklog, scanVars, boundVars>>

\* Rename the live file to -bak: for now there is no live file.
ShrinkBackup ==
    /\ pc = "swap"
    /\ pc' = "renamed"
    /\ bak' = aof /\ aof' = <<>>
    /\ UNCHANGED <<status, db, torn, pos, visible, shrunk, shrinklog, replayed, scanVars, boundVars>>

\* Rename the new file to the live one, open it, remove -bak, release the lock.
ShrinkInstall ==
    /\ pc = "renamed"
    /\ pc' = "ending"
    /\ aof' = shrunk /\ bak' = <<>>
    /\ UNCHANGED <<status, db, torn, pos, visible, shrunk, shrinklog, replayed, scanVars, boundVars>>

\* Mutant: the error path leaves the flag set.
ShrinkFailStuck ==
    /\ pc \in {"scan", "hooks", "swap"} /\ count = 0
    /\ pc' = "stuck"
    /\ UNCHANGED <<serverVars, shrunk, shrinklog, replayed, scanVars, boundVars>>

\* A create, write or sync of the new file fails: give up, keep the live file.
ShrinkFail ==
    /\ pc \in {"scan", "hooks", "swap"} /\ count = 0
    /\ pc' = "ending"
    /\ UNCHANGED <<serverVars, shrunk, shrinklog, replayed, scanVars, boundVars>>

\* The deferred reset.
ShrinkEnd ==
    /\ pc = "ending"
    /\ ShrinkReset
    /\ UNCHANGED <<serverVars, boundVars>>

Shrink ==
    \/ ShrinkKeys \/ ShrinkIds \/ ShrinkHookNames \/ \E h \in HookNames : ShrinkHook(h)
    \/ ShrinkLock \/ ShrinkReplay \/ ShrinkBackup \/ ShrinkInstall \/ ShrinkFail \/ ShrinkEnd

Load == LoadStep \/ LoadEnd

Next ==
    \/ \E c \in Commands : Write(c)
    \/ \E o \in Objects : TimePasses(o) \/ Purge(o)
    \/ ShrinkBegin \/ Shrink
    \/ Crash \/ Load

\* Loading and the shrinker's goroutine are never blocked forever: c.mu is held
\* for bounded work only.
Fairness == WF_vars(Load) /\ WF_vars(Shrink)

Spec == Init /\ [][Next]_vars /\ Fairness

----------------------------------------------------------------------------
(***************************************************************************)
(* Properties.                                                             *)
(***************************************************************************)

\* Every variable has its type.
TypeOK ==
    /\ status \in {"loading", "up", "refused"}
    /\ db \in Datasets /\ visible \in Datasets
    /\ aof \in Seq(WriteCommands) /\ bak \in Seq(WriteCommands)
    /\ shrunk \in Seq(WriteCommands) /\ shrinklog \in Seq(WriteCommands)
    /\ torn \in BOOLEAN
    /\ pos \in 0..Len(aof) /\ replayed \in 0..Len(shrinklog)
    /\ pc \in {"idle", "scan", "hooks", "replay", "swap", "renamed", "ending"}
    /\ keys \subseteq Keys /\ nextkey \in Nat /\ keysdone \in BOOLEAN
    /\ nextid \in Nat /\ count \in 0..maxids /\ hnames \subseteq HookNames
    /\ writes \in 0..MaxWrites /\ shrinks \in 0..MaxShrinks /\ crashes \in 0..MaxCrashes

\* A server that is up, after any number of crashes, restarts and shrinks, holds
\* exactly the dataset clients last saw: nothing acknowledged is lost, nothing
\* deleted comes back (loadAOF, writeAOF and aofshrink together).
Durable == status = "up" => Renewed(db) = visible

\* The dataset that loading a file produces.
Replay(file) ==
    LET run[n \in 0..Len(file)] ==
          IF n = 0 THEN EmptyDataset ELSE LoadCommand(run[n - 1], file[n])
    IN  run[Len(file)]

\* "we now have a shrunken aof file that is fully in-sync with the current
\* dataset" (aofshrink.go): when the shrinker is about to swap the files, loading
\* the new one gives the dataset in memory, whatever ran beside the scan.
ShrunkInSync ==
    pc = "swap" => LET image == Replay(shrunk)
                   IN  \A s \in Slots : image[s] = Renewed(db)[s]

\* Only half a command at the end of the file stops a server from starting: a
\* file that is whole, written by commands or by a shrink, always loads.
LoadsCleanly == status = "refused" => torn

\* aofshrink always comes back: the flag is reset on its error paths too, so a
\* later AOFSHRINK is not turned away and the shrink log does not grow forever.
ShrinkEnds == shrinking ~> ~shrinking

\* Between the two renames of a shrink the store is what the new file holds.
Store ==
    INSTANCE DurableStore WITH
        Starts  <- {f.run[Len(f.file)] : f \in InitialFiles},
        serving <- (status = "up"),
        store   <- IF status = "up" THEN Renewed(db) ELSE Replay(aof)

\* The server implements a store that crashes, restarts and shrinks leave alone:
\* commands change it at once, and loading the file brings it back.
ImplementsStore == Store!Spec
=============================================================================
