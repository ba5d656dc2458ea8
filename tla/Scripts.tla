------------------------------ MODULE Scripts -------------------------------
(***************************************************************************)
(* The pool of Lua interpreters and the map of compiled scripts            *)
(* (pkg/controller/scripts.go), and those who take interpreters from it:   *)
(* EVAL and its variants, SCRIPT LOAD, and searches with WHEREEVAL, which  *)
(* hold one for each of their clauses (token.go).  SETHOOK and the live    *)
(* commands do so like any other search; that the fence they leave behind  *)
(* goes on using the interpreters of its clauses is not modelled.          *)
(*                                                                         *)
(* An interpreter is the number of its creation.  A script is a name; its  *)
(* sha is the same name.  What scripts do to the data is in Dispatch.      *)
(***************************************************************************)
EXTENDS Integers, Sequences, FiniteSets, SequencesExt, FiniteSetsExt

CONSTANTS iniLuaPoolSize, maxLuaPoolSize,
          LuaUsers,       \* connections that run scripts
          ScriptNames,
          MaxClauses      \* WHEREEVAL clauses of a search

VARIABLES saved,          \* the idle interpreters, the last one is used next
          total,
          user,           \* connections to what they are doing
          luascripts,     \* the compiled scripts
          globals,        \* interpreters to the globals that commands have set in them
          early,          \* interpreters whose last EVAL ended before the script ran
          leaked, pruned  \* interpreters

luaVars == <<saved, total, user, luascripts, globals, early, leaked, pruned>>

Interpreters == 1..maxLuaPoolSize
Quiet == [pc |-> "idle", kind |-> "none", held |-> <<>>, clauses |-> 0]
HeldBy(u) == Range(user[u].held)

\* NewPool fills the pool.
ScriptsInit ==
    /\ saved = [i \in 1..iniLuaPoolSize |-> i] /\ total = iniLuaPoolSize
    /\ user = [u \in LuaUsers |-> Quiet]
    /\ luascripts = {} /\ globals = [L \in Interpreters |-> {}]
    /\ early = {} /\ leaked = {} /\ pruned = {}

Doing(u, pc) == user[u].pc = pc
Is(u, kind) == user[u].kind = kind

\* Kinds: "eval", "load" for SCRIPT LOAD, "where" for a search.
LuaBegin(u) ==
    /\ Doing(u, "idle")
    /\ \E kind \in {"eval", "load", "where"}, n \in 1..MaxClauses :
          /\ kind \in {"eval", "load"} => n = 1
          /\ user' = [user EXCEPT ![u] = [pc |-> "get", kind |-> kind, held |-> <<>>, clauses |-> n]]
    /\ UNCHANGED <<saved, total, luascripts, globals, early, leaked, pruned>>

EvalGlobals == {"KEYS", "ARGV", "EVAL_CMD"}
ClauseGlobals == {"ARGV"}

Cleared(g, held, names) == [L \in Interpreters |-> IF L \in held THEN g[L] \ names ELSE g[L]]

\* The end of a command: Put of all that it holds, except what it leaks.  A
\* search closes its clauses and so clears their arguments; g are the globals.
Finish(u, lost, g) ==
    /\ globals' = IF Is(u, "where") THEN Cleared(g, HeldBy(u), ClauseGlobals) ELSE g
    /\ saved' = saved \o SelectSeq(user[u].held, LAMBDA L : L \notin lost)
    /\ leaked' = leaked \cup lost
    /\ user' = [user EXCEPT ![u] = Quiet]

(***************************************************************************)
(* Get                                                                     *)
(***************************************************************************)
\* Mutant: the interpreter that is handed out stays in the pool.
AfterGetPeeking == saved
AfterGet == Front(saved)

Hold(u, L) == user' = [user EXCEPT ![u].pc = "have", ![u].held = Append(@, L)]

GetIdle(u) ==
    /\ Doing(u, "get") /\ saved # <<>>
    /\ Hold(u, Last(saved)) /\ saved' = AfterGet
    /\ UNCHANGED <<total, luascripts, globals, early, leaked, pruned>>

GetNew(u) ==
    /\ Doing(u, "get") /\ saved = <<>> /\ total < maxLuaPoolSize
    /\ total' = total + 1 /\ Hold(u, total + 1)
    /\ UNCHANGED <<saved, luascripts, globals, early, leaked, pruned>>

\* "no interpreters available"; a search closes the clauses it has.
GetNone(u) ==
    /\ Doing(u, "get") /\ saved = <<>> /\ total >= maxLuaPoolSize
    /\ Finish(u, {}, globals)
    /\ UNCHANGED <<total, luascripts, early, pruned>>

(***************************************************************************)
(* Arguments and the script.  The clause that fails is not yet among those *)
(* that a search closes.                                                   *)
(***************************************************************************)
Current(u) == Last(user[u].held)
LostOnError(u) == IF Is(u, "where") THEN {Current(u)} ELSE {}

BadArguments(u) ==
    /\ Doing(u, "have") /\ ~Is(u, "load")
    /\ Finish(u, LostOnError(u), globals)
    /\ UNCHANGED <<total, luascripts, early, pruned>>

SetGlobals(u) ==
    [globals EXCEPT ![Current(u)] = @ \cup (IF Is(u, "eval") THEN EvalGlobals ELSE ClauseGlobals)]

\* No such sha, or a script that does not compile: EVAL has set its globals
\* already and has not yet arranged for their reset.
NoScript(u) ==
    /\ Doing(u, "have")
    /\ early' = IF Is(u, "eval") THEN early \cup {Current(u)} ELSE early
    /\ Finish(u, LostOnError(u), IF Is(u, "load") THEN globals ELSE SetGlobals(u))
    /\ UNCHANGED <<total, luascripts, pruned>>

\* Found by its sha, or compiled and remembered.
HasScript(u) ==
    /\ Doing(u, "have") /\ ~Is(u, "load")
    /\ \E s \in ScriptNames : luascripts' = luascripts \cup {s}
    /\ globals' = SetGlobals(u)
    /\ user' = [user EXCEPT ![u].pc = IF Len(user[u].held) < user[u].clauses THEN "get" ELSE "run"]
    /\ UNCHANGED <<saved, total, early, leaked, pruned>>

cmdScriptLoad(u) ==
    /\ Doing(u, "have") /\ Is(u, "load")
    /\ \E s \in ScriptNames : luascripts' = luascripts \cup {s}
    /\ Finish(u, {}, globals)
    /\ UNCHANGED <<total, early, pruned>>

(***************************************************************************)
(* The script runs and ends, well or with an error that is recovered       *)
(***************************************************************************)
LuaRun(u) ==
    /\ Doing(u, "run")
    /\ early' = IF Is(u, "eval") THEN early \ HeldBy(u) ELSE early
    /\ Finish(u, {}, IF Is(u, "eval") THEN Cleared(globals, HeldBy(u), EvalGlobals) ELSE globals)
    /\ UNCHANGED <<total, luascripts, pruned>>

cmdScriptFlush ==
    /\ luascripts # {}
    /\ luascripts' = {}
    /\ UNCHANGED <<saved, total, user, globals, early, leaked, pruned>>

\* Half of the idle ones above the minimum, and at least one; total stays.
DropNum == Max({1, (Len(saved) - iniLuaPoolSize) \div 2})

Prune ==
    /\ Len(saved) > iniLuaPoolSize
    /\ saved' = SubSeq(saved, DropNum + 1, Len(saved))
    /\ pruned' = pruned \cup Range(SubSeq(saved, 1, DropNum))
    /\ UNCHANGED <<total, user, luascripts, globals, early, leaked>>

ScriptsNext ==
    \/ \E u \in LuaUsers :
          \/ LuaBegin(u) \/ GetIdle(u) \/ GetNew(u) \/ GetNone(u)
          \/ BadArguments(u) \/ NoScript(u) \/ HasScript(u) \/ cmdScriptLoad(u) \/ LuaRun(u)
    \/ cmdScriptFlush \/ Prune

(***************************************************************************)
(* Properties                                                              *)
(***************************************************************************)
\* The pool is one: an interpreter is idle, in the hands of one command,
\* dropped by Prune, or lost by a failed WHEREEVAL clause, and never two of
\* these, so commands never run in the same one; and total counts them all,
\* the dropped and the lost ones included.  An idle one holds no arguments of the
\* command that had it last, when that command got as far as running its script.
ExclusiveUse ==
    /\ IsInjective(saved)
    /\ \A u \in LuaUsers : /\ IsInjective(user[u].held)
                           /\ HeldBy(u) \cap (Range(saved) \cup pruned \cup leaked) = {}
                           /\ \A v \in LuaUsers \ {u} : HeldBy(u) \cap HeldBy(v) = {}
    /\ Range(saved) \cap (pruned \cup leaked) = {} /\ pruned \cap leaked = {}
    /\ 1..total = Range(saved) \cup pruned \cup leaked \cup UNION {HeldBy(u) : u \in LuaUsers}
    /\ \A L \in Range(saved) \ early : globals[L] = {}
=============================================================================
