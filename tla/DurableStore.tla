---------------------------- MODULE DurableStore -----------------------------
(***************************************************************************)
(* What the append-only file promises: "In-memory database that persists   *)
(* on disk" (README.md).  A dataset changes only by whole commands, one at *)
(* a time, and stopping, restarting or rewriting the file never changes it.*)
(***************************************************************************)
EXTENDS Dataset

CONSTANTS Commands,  \* the write commands clients send
          Starts     \* the datasets a server may be started on

VARIABLES store,     \* the dataset
          serving    \* whether clients can reach it

Init == store \in Starts /\ serving = FALSE

\* A client's command, or the deletion of an object whose timeout has passed.
Do(c) ==
    /\ serving
    /\ store' = Command(store, c)
    /\ UNCHANGED serving

Stop == serving' = FALSE /\ UNCHANGED store

Recover == serving' = TRUE /\ UNCHANGED store

Next ==
    \/ \E c \in Commands \cup DelCommands : Do(c)
    \/ Stop \/ Recover

Spec == Init /\ [][Next]_<<store, serving>>
=============================================================================
