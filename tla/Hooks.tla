------------------------------- MODULE Hooks -------------------------------
(***************************************************************************)
(* The hook queue of hooks.go and aof.go, and the managers that empty it.  *)
(* A write command stores the messages of every hook it matches in the     *)
(* queue (a buntdb file), in one transaction, and signals those hooks with *)
(* c.mu held.  Each hook has a manager, a goroutine that holds the hook's  *)
(* mutex while it takes messages off the queue, sends them and puts back   *)
(* what it could not send, and gives it up only to sleep or to wait.       *)
(*                                                                         *)
(* A hook is an instance: SETHOOK over an existing hook closes the old one *)
(* and opens another, and FLUSHDB forgets hooks without closing them.      *)
(***************************************************************************)
EXTENDS Endpoint, Sequences, SequencesExt

CONSTANTS Names,          \* hook names, numbers in the order of the names
          EndpointLists,  \* the endpoints a SETHOOK may give
          MaxMsgs,        \* messages queued in a behaviour
          MaxHookCmds,    \* hook commands in a behaviour
          MaxCrashes,     \* crashes in a behaviour
          InitialLogs,    \* hook commands in the file of the first process
          FaultSets       \* what may go wrong in one behaviour

ASSUME NamesAreNumbers == Names \subseteq Nat \ {0}

Insts == Clients
NoHook == "no hook"
Ids == 1..MaxMsgs

VARIABLES hooks,    \* c.hooks: the instance of each name
          mgr,      \* the instances and their managers
          queue,    \* ids of the messages in the queue
          hookOf,   \* the hook of each message
          qidx,     \* c.qidx
          dead,     \* messages up to this id have outlived their TTL
          signals,  \* instances the writer that holds c.mu has yet to signal
          hooklog,  \* the hook commands in the append-only file
          loaded,   \* how many of them this process has executed
          crashes,
          faults,   \* what may go wrong in this behaviour
          \* history
          fate,     \* what became of each message
          last,     \* the last delivery of a message of each hook
          flushed   \* a FLUSHDB has left managers behind

hookVars == <<hooks, mgr, queue, hookOf, qidx, dead, signals, hooklog, loaded,
              crashes, faults, fate, last, flushed>>

hookAll == <<hookVars, epVars>>

Free == [st |-> "free", name |-> 0, eps |-> <<>>, batch |-> <<>>, at |-> 1]

\* Open: the manager is about to call proc.
Opened(n, eps) == [st |-> "ready", name |-> n, eps |-> eps, batch |-> <<>>, at |-> 1]

Loading == loaded < Len(hooklog)
Idle(i) == mgr[i].st # "sending"   \* the mutex of the instance can be taken

Nudge(m) == IF m.st = "wait" THEN [m EXCEPT !.st = "ready"] ELSE m
\* A manager that finds its hook closed returns and touches nothing.
Close(m) == Free

InitHooks ==
    /\ hooks = [n \in Names |-> NoHook]
    /\ mgr = [i \in Insts |-> Free]
    /\ queue = {} /\ qidx = 0 /\ dead = 0
    /\ hookOf = [m \in Ids |-> 0]
    /\ signals = {} /\ hooklog \in InitialLogs /\ loaded = 0 /\ crashes = 0
    /\ faults \in FaultSets
    /\ fate = [m \in Ids |-> "unborn"]
    /\ last = [n \in Names |-> [id |-> 0, ep |-> NoHook]]
    /\ flushed = FALSE

(***************************************************************************)
(* The hook commands.  They hold c.mu, and close a hook only with its      *)
(* mutex, which its manager keeps while it sends.                          *)
(***************************************************************************)
\* SETHOOK: an equal hook is only signalled, except while the file is loaded.
SetHook(n, eps) ==
    LET old == hooks[n] IN
    /\ old # NoHook => Idle(old)
    /\ IF old # NoHook /\ mgr[old].eps = eps /\ ~Loading
       THEN /\ mgr' = [mgr EXCEPT ![old] = Nudge(@)]
            /\ UNCHANGED hooks
       ELSE LET fresh == {i \in Insts : mgr[i].st = "free"}
                new == CHOOSE i \in fresh : TRUE
            IN /\ fresh # {}
               /\ mgr' = [i \in Insts |-> IF i = new THEN Opened(n, eps)
                                          ELSE IF i = old THEN Close(mgr[i])
                                          ELSE mgr[i]]
               /\ hooks' = [hooks EXCEPT ![n] = new]
    /\ UNCHANGED flushed

\* DELHOOK with one name, PDELHOOK with those its pattern matches.
DelHooks(S) ==
    LET gone == {hooks[n] : n \in {x \in S : hooks[x] # NoHook}} IN
    /\ \A i \in gone : Idle(i)
    /\ mgr' = [i \in Insts |-> IF i \in gone THEN Close(mgr[i]) ELSE mgr[i]]
    /\ hooks' = [n \in Names |-> IF n \in S THEN NoHook ELSE hooks[n]]
    /\ UNCHANGED flushed

\* FLUSHDB replaces the map of hooks and closes none of them.
FlushDB ==
    /\ hooks' = [n \in Names |-> NoHook]
    /\ flushed' = (flushed \/ \E n \in Names : hooks[n] # NoHook)
    /\ UNCHANGED mgr

HookCommands ==
    [op : {"sethook"}, names : {{n} : n \in Names}, eps : EndpointLists]
        \cup [op : {"delhook"}, names : SUBSET Names \ {{}}, eps : {<<>>}]
        \cup {[op |-> "flushdb", names |-> {}, eps |-> <<>>]}

Execute(c) ==
    CASE c.op = "sethook" -> \E n \in c.names : SetHook(n, c.eps)
      [] c.op = "delhook" -> DelHooks(c.names)
      [] c.op = "flushdb" -> FlushDB

\* A client's command changes the hooks and is logged when it changed them.
HookCommand(c) ==
    /\ signals = {} /\ ~Loading /\ Len(hooklog) < MaxHookCmds
    /\ c.op = "flushdb" => "flush" \in faults
    /\ Execute(c)
    /\ IF hooks' # hooks \/ c.op = "flushdb"
       THEN hooklog' = Append(hooklog, c) /\ loaded' = loaded + 1
       ELSE UNCHANGED <<hooklog, loaded>>
    /\ UNCHANGED <<queue, hookOf, qidx, dead, signals, crashes, faults, fate, last>>
    /\ UNCHANGED epVars

\* loadAOF executes the next hook command of the file; managers of hooks it
\* has opened are already at work.
LoadHook ==
    /\ Loading
    /\ Execute(hooklog[loaded + 1])
    /\ loaded' = loaded + 1
    /\ UNCHANGED <<queue, hookOf, qidx, dead, signals, hooklog, crashes, faults, fate, last>>
    /\ UNCHANGED epVars

(***************************************************************************)
(* queueHooks: the messages of one command, hook by hook, under new ids.   *)
(***************************************************************************)
MessageLists == [{1} -> Names] \cup [{1, 2} -> Names]

QueueHooks(ms) ==
    /\ signals = {} /\ ~Loading
    /\ \A k \in DOMAIN ms : hooks[ms[k]] # NoHook
    /\ qidx + Len(ms) <= MaxMsgs
    /\ LET new == (qidx + 1)..(qidx + Len(ms)) IN
       /\ queue' = queue \cup new
       /\ hookOf' = [m \in Ids |-> IF m \in new THEN ms[m - qidx] ELSE hookOf[m]]
       /\ fate' = [m \in Ids |-> IF m \in new THEN "pending" ELSE fate[m]]
    /\ qidx' = qidx + Len(ms)
    /\ signals' = {hooks[ms[k]] : k \in DOMAIN ms}
    /\ UNCHANGED <<hooks, mgr, dead, hooklog, loaded, crashes, faults, last, flushed>>
    /\ UNCHANGED epVars

\* Signal waits for the mutex of the hook.
Signal(i) ==
    /\ i \in signals /\ Idle(i)
    /\ signals' = signals \ {i}
    /\ mgr' = [mgr EXCEPT ![i] = Nudge(@)]
    /\ UNCHANGED <<hooks, queue, hookOf, qidx, dead, hooklog, loaded, crashes, faults, fate, last, flushed>>
    /\ UNCHANGED epVars

(***************************************************************************)
(* proc.  The index of the queue is ordered by hook name and then by id,   *)
(* and the scan that starts at the own name has no end.                    *)
(***************************************************************************)
Taken(i) == {m \in queue : hookOf[m] >= mgr[i].name}
\* Mutant: the newest message first.
BeforeByNewest(a, b) == a > b
Before(a, b) == hookOf[a] < hookOf[b] \/ (hookOf[a] = hookOf[b] /\ a < b)

\* Mutant: the messages are sent but not deleted first.
TakeKeeping(i) ==
    /\ mgr[i].st = "ready"
    /\ mgr' = [mgr EXCEPT ![i].st = IF Taken(i) = {} THEN "wait" ELSE "sending",
                          ![i].batch = SetToSortSeq(Taken(i), Before),
                          ![i].at = 1]
    /\ UNCHANGED <<hooks, queue, hookOf, qidx, dead, signals, hooklog, loaded, crashes, faults, fate, last, flushed>>
    /\ UNCHANGED epVars
Take(i) ==
    /\ mgr[i].st = "ready"
    /\ queue' = queue \ Taken(i)
    /\ mgr' = [mgr EXCEPT ![i].st = IF Taken(i) = {} THEN "wait" ELSE "sending",
                          ![i].batch = SetToSortSeq(Taken(i), Before),
                          ![i].at = 1]
    /\ UNCHANGED <<hooks, hookOf, qidx, dead, signals, hooklog, loaded, crashes, faults, fate, last, flushed>>
    /\ UNCHANGED epVars

Target(i) == mgr[i].eps[mgr[i].at]

Delivery(i, o) ==
    IF o.got THEN [last EXCEPT ![hookOf[Head(mgr[i].batch)]] =
                       [id |-> Head(mgr[i].batch), ep |-> Target(i)]]
    ELSE last

\* Send returned nil: on to the next message, or wait.
Sent(i, o) ==
    LET rest == Tail(mgr[i].batch) IN
    /\ ~o.err
    /\ fate' = [fate EXCEPT ![Head(mgr[i].batch)] = "sent"]
    /\ mgr' = [mgr EXCEPT ![i].batch = rest, ![i].at = 1,
                          ![i].st = IF rest = <<>> THEN "wait" ELSE "sending"]
    /\ UNCHANGED queue

\* An error, and there is another endpoint to try.
NextEndpoint(i, o) ==
    /\ o.err /\ mgr[i].at < Len(mgr[i].eps)
    /\ mgr' = [mgr EXCEPT ![i].at = @ + 1]
    /\ UNCHANGED <<queue, fate>>

\* No endpoint took the message: it and the rest go back with what is left of
\* their time, unless the transaction fails; then a quarter second's sleep.
PutBack(i, o) ==
    LET left == ToSet(mgr[i].batch)
        live == {m \in left : m > dead} IN
    /\ o.err /\ mgr[i].at = Len(mgr[i].eps)
    /\ \/ /\ queue' = queue \cup live
          /\ fate' = [m \in Ids |-> IF m \in left \ live THEN "expired" ELSE fate[m]]
       \/ /\ "disk" \in faults
          /\ queue' = queue
          /\ fate' = [m \in Ids |-> IF m \in left THEN "lost" ELSE fate[m]]
    /\ mgr' = [mgr EXCEPT ![i].st = "ready", ![i].batch = <<>>, ![i].at = 1]

SendOutcome(i, o) ==
    /\ mgr[i].st = "sending"
    /\ Deliver(i, Target(i), o)
    /\ Sent(i, o) \/ NextEndpoint(i, o) \/ PutBack(i, o)
    /\ last' = Delivery(i, o)
    /\ UNCHANGED <<hooks, hookOf, qidx, dead, signals, hooklog, loaded, crashes, faults, flushed>>

Outcomes == [err : BOOLEAN, got : BOOLEAN, sock : {"none", "open", "broken"}]

SendSome(i) == \E o \in Outcomes : SendOutcome(i, o)
SendOk(i) == \E o \in Outcomes : ~o.err /\ SendOutcome(i, o)

SendLookup(i) ==
    /\ mgr[i].st = "sending"
    /\ Lookup(i, Target(i))
    /\ UNCHANGED hookVars

SendAgain(i) == TryAgain(i) /\ UNCHANGED hookVars

(***************************************************************************)
(* Time, services and crashes.                                             *)
(***************************************************************************)
\* 30 seconds after the oldest message that has time left was queued.
Age ==
    /\ "age" \in faults /\ dead < qidx
    /\ dead' = dead + 1
    /\ UNCHANGED <<hooks, mgr, queue, hookOf, qidx, signals, hooklog, loaded, crashes, faults, fate, last, flushed>>
    /\ UNCHANGED epVars

\* The queue's own sweep of expired entries.
Sweep ==
    LET old == {m \in queue : m <= dead} IN
    /\ old # {}
    /\ queue' = queue \ old
    /\ fate' = [m \in Ids |-> IF m \in old THEN "expired" ELSE fate[m]]
    /\ UNCHANGED <<hooks, mgr, hookOf, qidx, dead, signals, hooklog, loaded, crashes, faults, last, flushed>>
    /\ UNCHANGED epVars

Service(e) ==
    /\ \/ RunSweep(e)
       \/ "idle" \in faults /\ IdleOut(e)
       \/ "down" \in faults /\ (GoesDown(e) \/ ComesUp(e))
    /\ UNCHANGED hookVars

\* The process dies and starts again: the queue and the file are what is left.
Crash ==
    /\ "crash" \in faults /\ crashes < MaxCrashes
    /\ crashes' = crashes + 1
    /\ hooks' = [n \in Names |-> NoHook]
    /\ mgr' = [i \in Insts |-> Free]
    /\ signals' = {} /\ loaded' = 0
    /\ fate' = [m \in Ids |-> IF fate[m] = "pending" /\ m \notin queue THEN "lost" ELSE fate[m]]
    /\ conns' = [e \in Endpoints |-> Absent]
    /\ holding' = [c \in Clients |-> NoConn]
    /\ UNCHANGED <<queue, hookOf, qidx, dead, hooklog, faults, last, flushed, proto, up>>

Manager(i) == Take(i) \/ SendLookup(i) \/ SendSome(i) \/ SendAgain(i)

HookNext ==
    \/ \E c \in HookCommands : HookCommand(c)
    \/ LoadHook
    \/ \E ms \in MessageLists : QueueHooks(ms)
    \/ \E i \in Insts : Signal(i) \/ Manager(i)
    \/ Age \/ Sweep \/ Crash
    \/ \E e \in Endpoints : Service(e)

(***************************************************************************)
(* Properties                                                              *)
(***************************************************************************)
\* The scan of proc has no end, so only the hook whose name comes first has a
\* queue of its own.
Least == CHOOSE n \in Names : \A x \in Names : n <= x

Places(m) == {i \in Insts : m \in ToSet(mgr[i].batch)}

\* Every message that was queued and not yet sent, expired or lost in a crash
\* is in exactly one place, the queue or the batch of one manager, whatever
\* managers take, send and put back at the same time; a message that is done
\* with is in none, so no manager sends it again.  None waits in the queue while
\* the manager of its hook, signalled by the writer, waits for a signal.
Conserved ==
    /\ \A m \in Ids :
          Cardinality(Places(m)) + (IF m \in queue THEN 1 ELSE 0)
              = IF fate[m] = "pending" THEN 1 ELSE 0
    /\ \A m \in queue : hookOf[m] = Least /\ ~flushed /\ hooks[Least] # NoHook
                            /\ mgr[hooks[Least]].st = "wait" => hooks[Least] \in signals

\* The messages of that hook reach services in the order in which they were
\* queued, across failures, retries, replacements of the hook and crashes.
InOrder == [][~flushed' => last'[Least].id >= last[Least].id]_hookAll

Reachable ==
    /\ ~flushed /\ hooks[Least] # NoHook
    /\ LET eps == mgr[hooks[Least]].eps
       IN up[eps[1]] /\ proto[eps[1]] # "amqp"
AllDone == \A m \in Ids : hookOf[m] = Least => fate[m] # "pending"


\* A message of a hook goes to an endpoint that a SETHOOK of that hook named.
RightEndpoint ==
    \A n \in Names : last[n].id # 0 =>
        \E k \in DOMAIN hooklog : n \in hooklog[k].names /\ last[n].ep \in ToSet(hooklog[k].eps)
=============================================================================
