---------------------------- MODULE MCConcurrent ----------------------------
(***************************************************************************)
(* What goes on beside one another: a follower and its leader, commands    *)
(* under the lock of the controller, and timeouts with the goroutine that  *)
(* purges.  Each behaviour is one of one part, the others at rest.         *)
(***************************************************************************)
EXTENDS MCFollow, Expire, Dispatch

CONSTANTS c1, c2

VARIABLE part

vars == <<part, followVars, ttlVars, dispatchVars>>

\* One connection sends two commands, the other one.
MCMaxOrders == [c \in Callers |-> IF c = c1 THEN 2 ELSE 1]

Init ==
    /\ part \in {"follow", "expire", "dispatch"}
    /\ FollowInit /\ (part # "follow" => world = World({l1}, 5, 1, 2, 0))
    /\ ExpireInit /\ DispatchInit

OfFollow(A) == part = "follow" /\ A /\ UNCHANGED <<part, ttlVars, dispatchVars>>
OfExpire(A) == part = "expire" /\ A /\ UNCHANGED <<part, followVars, dispatchVars>>
OfDispatch(A) == part = "dispatch" /\ A /\ UNCHANGED <<part, followVars, ttlVars>>

Next == OfFollow(FollowNext) \/ OfExpire(ExpireNext) \/ OfDispatch(DispatchNext)

\* Goroutines run and locks serve those that wait; a purger that samples at
\* random again and again meets every object in the end.
Fairness ==
    /\ \A i \in Gs : WF_vars(OfFollow(FollowStep(i))) /\ WF_vars(OfFollow(LiveAOF(i)))
    /\ WF_vars(OfExpire(backgroundExpiring))
    /\ \A o \in TtlObjects : SF_vars(OfExpire(PurgeFinds(o)))
    /\ \A c \in Callers : WF_vars(OfDispatch(Proceed(c)))

Spec == Init /\ [][Next]_vars /\ Fairness
=============================================================================
