----------------------------- MODULE MCGeofence -----------------------------
(***************************************************************************)
(* From a command to a notification: detection (Fence), live connections   *)
(* (Live), and the hook queue with its managers and endpoints (Hooks,      *)
(* Endpoint).  The three parts share no state, so each behaviour is one of *)
(* one part, the others at rest.                                           *)
(***************************************************************************)
EXTENDS Fence, Live, Hooks

VARIABLE part

vars == <<part, fenceVars, liveVars, hookAll>>

MCEndpointLists == {<<"b">>, <<"a", "b">>}
SetHookCmd(n, eps) == [op |-> "sethook", names |-> {n}, eps |-> eps]
DelHookCmd(n) == [op |-> "delhook", names |-> {n}, eps |-> <<>>]
TwoHooks == <<SetHookCmd(1, <<"a", "b">>), SetHookCmd(2, <<"b">>)>>
Rehooked == <<SetHookCmd(1, <<"b">>), SetHookCmd(2, <<"b">>), SetHookCmd(1, <<"a", "b">>)>>
OneHook == <<SetHookCmd(1, <<"b">>), DelHookCmd(1), SetHookCmd(1, <<"a", "b">>)>>
MCInitialLogs == {<<>>, TwoHooks, Rehooked, OneHook}
MCFaultSets == {{}, {"age"}, {"crash"}, {"flush"}, {"disk"}, {"idle", "down"}}

PlainFence == FenceOf(FALSE, Objects, AllDetects, {}, FALSE, FALSE)
MCFences ==
    {PlainFence,
     FenceOf(FALSE, {1}, AllDetects, {}, FALSE, TRUE),
     FenceOf(FALSE, Objects, {"enter", "exit"}, {}, FALSE, FALSE),
     FenceOf(FALSE, Objects, {"inside", "outside"}, {}, TRUE, FALSE),
     FenceOf(TRUE, Objects, AllDetects, {"set"}, FALSE, FALSE)}

\* Which part a behaviour is about.  One more hook command meets FLUSHDB; the
\* log that is loaded again after a crash replaces a hook whose manager may be
\* sending; endpoint "a" speaks every protocol where services come and go.
Init ==
    /\ part \in {"fence", "live", "hooks"}
    /\ FenceInit /\ LiveInit /\ InitHooks /\ InitEndpoint
    /\ up = [e \in Endpoints |-> TRUE]
    /\ proto["b"] = "http"
    /\ part # "fence" => fence = PlainFence
    /\ part # "live" => watch = [c \in Conns |-> CHOOSE k \in Keys : TRUE]
    /\ hooklog = CASE part # "hooks" -> <<>>
                   [] faults = {"flush"} -> TwoHooks
                   [] faults \in {{"age"}, {"disk"}, {"crash"}} -> Rehooked
                   [] OTHER -> OneHook
    /\ part # "hooks" <=> faults = {}
    /\ faults # {"idle", "down"} => proto["a"] = "redis"

OfFence(A) == part = "fence" /\ A /\ UNCHANGED <<part, liveVars, hookAll>>
OfLive(A) == part = "live" /\ A /\ UNCHANGED <<part, fenceVars, hookAll>>
OfHooks(A) == part = "hooks" /\ A /\ UNCHANGED <<part, fenceVars, liveVars>>

Next == OfFence(FenceNext) \/ OfLive(LiveNext) \/ OfHooks(HookNext)

\* Goroutines run, mutexes and condition variables serve those that wait, and
\* a service that is asked again and again while it is up answers in the end.
Fairness ==
    /\ WF_vars(OfLive(ProcessLives))
    /\ \A c \in Conns : WF_vars(OfLive(GoLive(c)))
    /\ WF_vars(OfHooks(LoadHook))
    /\ \A i \in Insts :
          /\ WF_vars(OfHooks(Signal(i)))
          /\ WF_vars(OfHooks(Manager(i)))
          /\ SF_vars(OfHooks(SendOk(i)))

Spec == Init /\ [][Next]_vars /\ Fairness
=============================================================================
