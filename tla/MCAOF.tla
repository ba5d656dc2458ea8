-------------------------------- MODULE MCAOF --------------------------------
(* Small instances of AOF for TLC. *)
EXTENDS AOF, TLC

CONSTANTS h1, d1, d2, m1

MCHookNames == {h1}
MCHookDefs == {d1, d2}

NoFields == [f \in Fields |-> Absent]
Set(k, i, v, fs, x, w) ==
    [op |-> "set", slot |-> <<k, i>>, doc |-> [p \in Paths |-> v], geo |-> FALSE,
     fields |-> fs, ex |-> x, cond |-> w]
Point(k, i, v) == [Set(k, i, v, NoFields, FALSE, "any") EXCEPT !.geo = TRUE]
Fset(k, i, v, b) == [op |-> "fset", slot |-> <<k, i>>, fields |-> [f \in Fields |-> v], bad |-> b]
Obj(o, k, i) == [op |-> o, slot |-> <<k, i>>]
Jset(k, i, p, v, a) == [op |-> "jset", slot |-> <<k, i>>, path |-> p, val |-> v, append |-> a]
Sethook(h, d, m, r) == [op |-> "sethook", hook |-> h, def |-> d, meta |-> m, ref |-> r]

Field(v) == [f \in Fields |-> v]

\* A file and the datasets that loading it goes through.
WithRun(file) ==
    [file |-> file,
     run  |-> LET r[n \in 0..Len(file)] ==
                    IF n = 0 THEN EmptyDataset ELSE LoadCommand(r[n - 1], file[n])
              IN  [n \in 0..Len(file) |-> r[n]]]

\* Two objects, one with a field and a timeout, and a hook.
Populated == WithRun(<<Set(1, 1, 1, Field(1), TRUE, "any"), Set(2, 1, 1, NoFields, FALSE, "any"),
                       Sethook(h1, d1, NoMeta, NoArea)>>)

MCInitialFiles == {Populated}

\* Every kind of command, on two keys.
AllCommands ==
    { Set(1, 1, 2, NoFields, FALSE, "nx"), Set(1, 1, 2, Field(2), TRUE, "xx"),
      Point(2, 1, 2), Set(1, 2, 1, Field(1), FALSE, "any"),
      Fset(1, 1, 2, FALSE), Obj("del", 1, 1), Obj("del", 2, 1),
      [op |-> "pdel", key |-> 1, ids |-> {1, 2}], [op |-> "drop", key |-> 2],
      [op |-> "flushdb"], Obj("expire", 2, 1), Obj("persist", 1, 1),
      Jset(1, 1, "p", 2, FALSE), Jset(2, 1, "q", 2, FALSE),
      Sethook(h1, d2, NoMeta, NoArea), [op |-> "delhook", hook |-> h1],
      [op |-> "pdelhook", hooks |-> {h1}] }

\* The commands on one object that depend on its state, for longer runs.
ObjectCommands ==
    { Set(1, 1, 2, NoFields, FALSE, "nx"), Set(1, 1, 3, Field(2), FALSE, "xx"),
      Set(1, 1, 4, NoFields, TRUE, "any"), Fset(1, 1, 3, FALSE), Obj("del", 1, 1),
      Obj("expire", 1, 1), Obj("persist", 1, 1), Jset(1, 1, "p", 5, FALSE) }

\* A few commands on two objects, for the refinement and for liveness.
FewCommands ==
    { Set(1, 1, 2, NoFields, FALSE, "nx"), Obj("del", 1, 1), Fset(1, 1, 2, FALSE),
      Point(2, 1, 2), [op |-> "flushdb"] }

\* One command that breaks a promise, each with the commands it needs.
MetaCommands     == {Sethook(h1, d2, m1, NoArea)}
AreaCommands     == {Sethook(h1, d2, NoMeta, <<1, 1>>), Obj("del", 1, 1), Set(1, 1, 2, NoFields, FALSE, "any")}
AppendCommands   == {Jset(1, 1, "p", 0, TRUE)}
ShapeCommands    == {Jset(2, 1, "p", 2, FALSE), Point(2, 1, 2)}
JdelCommand      == {[op |-> "jdel", slot |-> <<1, 1>>, path |-> "p"]}
BadFsetCommand   == {Fset(1, 1, 2, TRUE)}
EmptyKeyCommands == {Jset(0, 1, "q", 2, FALSE)}
ExpireCommand    == {Obj("expire", 2, 1)}

\* All of these together, but for the two that are not logged.
LoggedCommands ==
    AllCommands \cup MetaCommands \cup AreaCommands \cup AppendCommands \cup ShapeCommands
      \cup EmptyKeyCommands
=============================================================================
