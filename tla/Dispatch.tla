------------------------------ MODULE Dispatch ------------------------------
(***************************************************************************)
(* How commands of several connections share the server: the lock that     *)
(* each command takes (handleInputCommand, "choose the locking strategy"), *)
(* the refusals that depend on the role of the server, scripts and the     *)
(* calls inside them (luaTile38AtomicRW, AtomicRO, NonAtomic), the log of  *)
(* writes, and FOLLOW, which lets go of the lock while it dials.           *)
(*                                                                         *)
(* Commands are classes: "write" for SET to PDEL, "read" for GET to JGET,  *)
(* "plain" for those of the default case, "jdel" apart since it is in the  *)
(* default case and writes, "eval", "evalro", "evalna", "readonly",        *)
(* "follow" and "noone" (FOLLOW no one).  The data is the number of        *)
(* changes made to it.  Authentication and replies are in Connection.      *)
(***************************************************************************)
EXTENDS Integers, FiniteSets

CONSTANTS Callers, NoCaller,
          Orders,         \* the commands a connection may send
          MaxOrders,      \* commands of each connection
          MaxFollowed,    \* changes up to which the leader sends more
          MaxCalls        \* calls in a script

VARIABLES dbs, logged, unlogged,  \* changes: made, in the log, made and not logged
          jdels,                  \* changes by JDEL, under the read lock and not logged
          readOnly, following, caughtOnce,
          readers, writer, waiting,   \* of c.mu
          task, used,
          broken                  \* a goroutine unlocked what it did not hold

dispatchVars == <<dbs, logged, unlogged, jdels, readOnly, following, caughtOnce,
                  readers, writer, waiting, task, used, broken>>
dataVars == <<dbs, logged, unlogged, jdels>>
roleVars == <<readOnly, following, caughtOnce>>
lockVars == <<readers, writer, waiting>>

Free == [pc |-> "idle", cmd |-> "none", call |-> "none", calls |-> 0]
At(c, pc) == task[c].pc = pc
InCall(c) == task[c].call # "none"
Op(c) == IF InCall(c) THEN task[c].call ELSE task[c].cmd
Goto(c, pc) == task' = [task EXCEPT ![c].pc = pc]

DispatchInit ==
    /\ dbs = 0 /\ logged = 0 /\ unlogged = 0 /\ jdels = 0
    /\ readOnly = FALSE /\ following = FALSE /\ caughtOnce = FALSE
    /\ readers = {} /\ writer = NoCaller /\ waiting = {}
    /\ task = [c \in Callers |-> Free] /\ used = [c \in Callers |-> 0] /\ broken = FALSE

(***************************************************************************)
(* c.mu, a sync.RWMutex: a writer that waits keeps new readers out         *)
(***************************************************************************)
ReadLock(c) ==
    /\ At(c, "rlock") /\ writer = NoCaller /\ waiting = {}
    /\ readers' = readers \cup {c} /\ Goto(c, "run")
    /\ UNCHANGED <<dataVars, roleVars, writer, waiting, used>>

WriteLock(c) ==
    /\ At(c, "wlock") /\ writer = NoCaller /\ readers = {}
    /\ writer' = c /\ waiting' = waiting \ {c} /\ Goto(c, "run")
    /\ UNCHANGED <<dataVars, roleVars, readers, used>>

Unlock(c) ==
    /\ readers' = readers \ {c}
    /\ writer' = IF writer = c THEN NoCaller ELSE writer
    /\ UNCHANGED waiting

\* The locking strategy.
LockOf(op) == CASE op \in {"write", "eval", "readonly", "follow", "noone"} -> "wlock"
                [] op = "evalna" -> "run"
                [] OTHER -> "rlock"

\* Only the calls of a script without a lock take it.
CallLock(cmd, call) == IF cmd = "evalna" THEN LockOf(call) ELSE "run"

Waits(c, lock) == waiting' = IF lock = "wlock" THEN waiting \cup {c} ELSE waiting

Arrive(c) ==
    /\ At(c, "idle") /\ used[c] < MaxOrders[c]
    /\ \E cmd \in Orders :
          /\ task' = [task EXCEPT ![c] = [Free EXCEPT !.pc = LockOf(cmd), !.cmd = cmd]]
          /\ Waits(c, LockOf(cmd))
    /\ used' = [used EXCEPT ![c] = @ + 1]
    /\ UNCHANGED <<dataVars, roleVars, readers, writer>>

(***************************************************************************)
(* The end of a command or of a call.  A call that is over gives its own   *)
(* lock back, and the script goes on; a command gives back what it holds.  *)
(***************************************************************************)
Over(c) ==
    /\ task' = [task EXCEPT ![c] = IF InCall(c) THEN [@ EXCEPT !.pc = "run", !.call = "none"] ELSE Free]
    /\ IF InCall(c) /\ task[c].cmd # "evalna" THEN UNCHANGED lockVars ELSE Unlock(c)
    /\ UNCHANGED used

\* Refusals: the role of the server is looked at under the lock.
\* Mutant: a call of a script is not looked at.
RefusedOutside(c) ==
    \/ Op(c) \in {"write", "eval"} /\ ~InCall(c) /\ (following \/ readOnly)
    \/ Op(c) \in {"read", "evalro"} /\ following /\ ~caughtOnce
    \/ InCall(c) /\ Op(c) = "write" /\ task[c].cmd = "evalro"
    \/ InCall(c) /\ Op(c) \notin {"write", "read"}
Refused(c) ==
    \/ Op(c) \in {"write", "eval"} /\ (following \/ readOnly)
    \/ Op(c) \in {"read", "evalro"} /\ following /\ ~caughtOnce
    \/ InCall(c) /\ Op(c) = "write" /\ task[c].cmd = "evalro"
    \/ InCall(c) /\ Op(c) \notin {"write", "read"}

Refuse(c) ==
    /\ At(c, "run") /\ Refused(c)
    /\ task[c].calls = 0 \/ InCall(c)
    /\ Over(c) /\ UNCHANGED <<dataVars, roleVars>>

Runs(c, ops) == At(c, "run") /\ Op(c) \in ops /\ ~Refused(c)

(***************************************************************************)
(* Commands                                                                *)
(***************************************************************************)
\* A read, or a write that fails or changes nothing.
NoChange(c) ==
    /\ Runs(c, {"read", "plain", "write", "jdel", "readonly", "follow", "noone"})
    /\ Over(c) /\ UNCHANGED <<dataVars, roleVars>>

Change(c) ==
    /\ Runs(c, {"write"})
    /\ dbs' = dbs + 1 /\ Goto(c, "log")
    /\ UNCHANGED <<logged, unlogged, jdels, roleVars, lockVars, used>>

\* Mutant: the writes of scripts are left to the script command.
WriteLogPlain(c) ==
    /\ At(c, "log")
    /\ logged' = IF InCall(c) THEN logged ELSE logged + 1
    /\ UNCHANGED <<dbs, unlogged, jdels>>
    /\ Over(c) /\ UNCHANGED roleVars
\* writeAOF, which fails before it writes when the hooks cannot be queued.
WriteLog(c) ==
    /\ At(c, "log")
    /\ \/ logged' = logged + 1 /\ UNCHANGED <<dbs, unlogged, jdels>>
       \/ unlogged' = unlogged + 1 /\ UNCHANGED <<dbs, logged, jdels>>
    /\ Over(c) /\ UNCHANGED roleVars

cmdJdel(c) ==
    /\ Runs(c, {"jdel"})
    /\ jdels' = jdels + 1
    /\ Over(c) /\ UNCHANGED <<dbs, logged, unlogged, roleVars>>

cmdReadOnly(c) ==
    /\ Runs(c, {"readonly"})
    /\ readOnly' = ~readOnly
    /\ Over(c) /\ UNCHANGED <<dataVars, following, caughtOnce>>

cmdFollowNoOne(c) ==
    /\ Runs(c, {"noone"})
    /\ following' = FALSE
    /\ Over(c) /\ UNCHANGED <<dataVars, readOnly, caughtOnce>>

\* FOLLOW unlocks, dials, and waits for the lock again before it decides.
FollowUnlocks(c) ==
    /\ Runs(c, {"follow"}) /\ task[c].calls = 0
    /\ Unlock(c) /\ Goto(c, "dial")
    /\ UNCHANGED <<dataVars, roleVars, used>>

FollowDialed(c) ==
    /\ At(c, "dial")
    /\ task' = [task EXCEPT ![c].pc = "wlock", ![c].calls = 1]
    /\ Waits(c, "wlock")
    /\ UNCHANGED <<dataVars, roleVars, readers, writer, used>>

\* When the leader refuses the password, cmdFollow returns without the lock
\* and the deferred unlock finds it free, which is fatal, or held by another.
\* What comes after that is not modelled.
FollowAuthFails(c) ==
    /\ At(c, "dial")
    /\ broken' = TRUE /\ Goto(c, "idle")
    /\ UNCHANGED <<dataVars, roleVars, lockVars, used>>

FollowCommits(c) ==
    /\ Runs(c, {"follow"}) /\ task[c].calls = 1
    /\ following' \in {following, TRUE}
    /\ Over(c) /\ UNCHANGED <<dataVars, readOnly, caughtOnce>>

(***************************************************************************)
(* Scripts: after the checks of the script command, calls one by one       *)
(***************************************************************************)
ScriptCall(c) ==
    /\ At(c, "run") /\ ~InCall(c) /\ task[c].cmd \in {"eval", "evalro", "evalna"}
    /\ task[c].calls > 0 \/ ~Refused(c)
    /\ task[c].calls < MaxCalls
    /\ \E call \in {"write", "read", "plain"} :
          LET lock == IF call = "plain" THEN "run" ELSE CallLock(task[c].cmd, call) IN
          /\ task' = [task EXCEPT ![c].call = call, ![c].calls = @ + 1, ![c].pc = lock]
          /\ Waits(c, lock)
    /\ UNCHANGED <<dataVars, roleVars, readers, writer, used>>

\* The script returns, or a call that was refused raised an error.
ScriptEnd(c) ==
    /\ At(c, "run") /\ ~InCall(c) /\ task[c].cmd \in {"eval", "evalro", "evalna"}
    /\ task[c].calls > 0
    /\ Over(c) /\ UNCHANGED <<dataVars, roleVars>>

(***************************************************************************)
(* The goroutine that follows a leader (Follow)                            *)
(***************************************************************************)
\* Mutant: it takes the lock for reading.
followHandleSharing ==
    /\ following /\ writer = NoCaller /\ dbs < MaxFollowed
    /\ dbs' = dbs + 1 /\ logged' = logged + 1
    /\ UNCHANGED <<unlogged, jdels, roleVars, lockVars, task, used>>
followHandleCommand ==
    /\ following /\ writer = NoCaller /\ readers = {} /\ dbs < MaxFollowed
    /\ dbs' = dbs + 1 /\ logged' = logged + 1
    /\ UNCHANGED <<unlogged, jdels, roleVars, lockVars, task, used>>

CatchesUp ==
    /\ following /\ ~caughtOnce /\ writer = NoCaller /\ readers = {}
    /\ caughtOnce' = TRUE
    /\ UNCHANGED <<dataVars, readOnly, following, lockVars, task, used>>

\* What a connection does when it has started:
Undisturbed(c) ==
    \/ ReadLock(c) \/ WriteLock(c) \/ Refuse(c) \/ NoChange(c) \/ Change(c) \/ WriteLog(c)
    \/ cmdJdel(c) \/ cmdReadOnly(c) \/ cmdFollowNoOne(c)
    \/ FollowUnlocks(c) \/ FollowDialed(c) \/ FollowCommits(c)
    \/ ScriptCall(c) \/ ScriptEnd(c)

Proceed(c) ==
    /\ ~broken
    /\ \/ Undisturbed(c) /\ UNCHANGED broken
       \/ FollowAuthFails(c)

DispatchNext ==
    \/ \E c \in Callers : Proceed(c)
    \/ ~broken /\ UNCHANGED broken /\ ((\E c \in Callers : Arrive(c)) \/ followHandleCommand \/ CatchesUp)

(***************************************************************************)
(* Properties                                                              *)
(***************************************************************************)
\* A command or script that holds the lock has the data to itself: while it
\* reads nothing changes, and while it writes nobody else changes anything,
\* from its first call to its last.  EVALNA promises no more than this for
\* each of its calls.  Changes by JDEL are not counted.
Isolated ==
    [][\A c \in Callers :
          /\ c \in readers \cap readers' => dbs' = dbs
          /\ writer = c /\ writer' = c /\ dbs' # dbs => task'[c] # task[c]]_dispatchVars

\* The data changes on behalf of a connection only while it holds the lock for
\* writing and the server is neither read only nor a follower at that moment,
\* also in the middle of a script and with FOLLOW or READONLY racing it.
RoleRespected ==
    [][dbs' # dbs /\ task' # task => writer # NoCaller /\ ~readOnly /\ ~following]_dispatchVars

\* Whoever gets the lock finds every change in the log, those made by scripts
\* included; the exception is a change whose hooks could not be queued.
LoggedBeforeUnlock == writer = NoCaller => dbs = logged + unlogged

=============================================================================
