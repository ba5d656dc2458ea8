------------------------------- MODULE AOFSafe -------------------------------
(***************************************************************************)
(* The conditions under which the append-only file keeps its promises.     *)
(* Each one excludes a behaviour of the code that breaks one of them.      *)
(***************************************************************************)
EXTENDS AOF

PlainCommand(c) ==
    /\ c.op # "jdel"                                  \* changes the dataset unlogged
    /\ c.op = "fset" => ~c.bad                        \* an error after half the work
    /\ c.op = "jset" => /\ ~c.append                  \* not idempotent
                        /\ c.path \notin ShapePaths   \* fails on a later object
    /\ c.op = "sethook" => /\ c.meta = NoMeta         \* not written by a shrink
                           /\ c.ref = NoArea          \* looked up again on load

ASSUME SafeAssumption ==
    /\ \A c \in Commands : PlainCommand(c)
    /\ \A f \in InitialFiles : \A n \in 1..Len(f.file) : PlainCommand(f.file[n])
    /\ EmptyKey \notin Keys   \* JSET accepts it, SET refuses it on load
    /\ LateExpiry = FALSE     \* a shrink writes a timeout that has passed as none
    /\ CrashInSwap = FALSE    \* no live file between the two renames
=============================================================================
