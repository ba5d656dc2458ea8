------------------------------ MODULE MCServer ------------------------------
(***************************************************************************)
(* The parts of the server that a command passes through: a connection,    *)
(* the interpreters, the collection and its tree of rectangles, patterns,  *)
(* searches, and the configuration.  They share no state here, so each     *)
(* behaviour is one of one part, the others at rest.                       *)
(***************************************************************************)
EXTENDS RTree, Search, Collection, Connection, Config, Scripts

VARIABLE part

vars == <<part, treeVars, globVars, searchVars, colVars, connVars, configVars, luaVars>>

\* Tree: points, overlapping and equal boxes on a grid of four by four, and
\* trees of one, two and three levels to begin with.
R(a, b, c, d) == Box(<<a, b>>, <<c, d>>)
MCItems == 1..12
MCRect == <<R(0,0,0,0), R(3,3,3,3), R(0,3,1,3), R(2,0,3,1), R(1,1,2,2), R(0,0,3,3),
            R(1,0,1,0), R(2,3,2,3), R(3,0,3,2), R(0,1,0,2), R(2,2,2,2), R(0,0,0,0)>>
MCQueries == {R(a, b, a + c, b + c) : a \in {0, 2}, b \in {0, 1}, c \in {0, 1, 3}}
MCPoints == {<<0, 0>>, <<2, 1>>, <<3, 2>>}
MCSeeds == {<<>>, <<1, 2, 3, 4, 5>>, <<6, 7, 8, 9, 10, 11, 12>>, <<12, 1, 7, 2, 9, 4, 5, 8, 3, 11>>}

\* Patterns: every one of up to three bytes, and of four without classes.
MCPatterns ==
    UNION {[1..n -> {Star, 3, Query, 5, Slash, Top}] : n \in 0..4} \cup UNION {[1..n -> 0..Top] : n \in 0..3}
MCStrings == UNION {[1..n -> {0, 3, 5, Close, Top}] : n \in 1..3}
MCKeys == UNION {[1..n -> {0, 3, 5}] : n \in 1..2} \cup {<<5, 5, 5>>, <<5, 3, 0>>}

\* Searches: strings and geometries, one of which has expired.
Text(id, val, f) ==
    [id |-> id, val |-> val, geo |-> FALSE, hit |-> FALSE, boxed |-> FALSE, parts |-> {}, pos |-> 0,
     near |-> 0, dist |-> 0, f |-> f, z |-> f, dead |-> FALSE]
Shape(id, pos, prts, hit, near, dist, f, dead) ==
    [id |-> id, val |-> <<>>, geo |-> TRUE, hit |-> hit, boxed |-> TRUE, parts |-> prts, pos |-> pos,
     near |-> near, dist |-> dist, f |-> f, z |-> f, dead |-> dead]
Texts == {Text(<<3>>, <<5>>, 0), Text(<<3, 3>>, <<3, 5>>, 1), Text(<<3, 5>>, <<3>>, 1)}
Shapes == {Shape(<<5>>, 1, {1, 2}, TRUE, 3, 3, 1, FALSE), Shape(<<5, 3>>, 2, {1}, TRUE, 1, 1, 1, FALSE),
           Shape(<<5, 5>>, 3, {1}, FALSE, 2, 5, 1, FALSE), Shape(<<3, 5, 5>>, 4, {2}, TRUE, 4, 4, 0, TRUE)}
MCPool == Texts \cup Shapes
MCCollections == {MCPool, Texts} \cup {s \cup t : s \in kSubset(3, Shapes), t \in kSubset(2, Texts)}

Asks(cmds, areas, sparses, matches, conds, ins, evals, limits, descs, outs) ==
    [cmd : cmds, area : areas, sparse : sparses, match : matches, wheres : conds, whereins : ins,
     whereevals : evals, limit : limits, desc : descs, output : outs]
Conds == {{}, {Where("f", 0, TRUE, 1, FALSE)}}
Walks == {"scan", "search"}
MCQuestions ==
    Asks(Walks, {"near"}, {FALSE}, {<<>>, <<Star>>, <<3, Star>>, <<3>>, <<3, Query>>}, Conds, {{}}, {{}},
         {0, 1, 2}, BOOLEAN, {"ids", "count"})
    \cup Asks(Walks, {"near"}, {FALSE}, {<<>>}, {{}}, {{}, {{1}}}, {{}, {{1}}}, {0}, {FALSE}, {"count"})
    \cup Asks({"region"}, {"near"}, {FALSE}, {<<>>, <<5, Star>>}, Conds, {{}}, {{}}, {0, 1, 2}, {FALSE}, {"ids"})
    \cup Asks({"region"}, {"bounds", "near", "object"}, {TRUE}, {<<>>, <<5>>}, Conds, {{}}, {{}},
              {Everything}, {FALSE}, {"ids"})
    \cup Asks({"knn"}, {"near"}, {FALSE}, {<<>>, <<5, Star>>, <<5>>}, Conds, {{}}, {{}}, {1, 2}, {FALSE}, {"ids"})

\* Collection: two shapes and a string.
Obj(geo, val, pts, w) == [geo |-> geo, val |-> val, points |-> pts, weight |-> w]
MCColObjects == {Obj(TRUE, 0, 1, 16), Obj(TRUE, 0, 3, 30), Obj(FALSE, 1, 0, 2)}

\* Connection: every pair of messages of these kinds.
Message(k, p, w, z) == [kind |-> k, proto |-> p, pw |-> w, size |-> z]
Messages ==
    {Message(k, "resp", "none", 1) : k \in {"ping", "silent", "json", "live", "kill", "quit", "blank", "unnamed"}}
    \cup {Message("auth", "resp", "right", 2), Message("auth", "resp", "wrong", 1), Message("cmd", "resp", "none", 2),
          Message("cmd", "native", "none", 1), Message("resp", "native", "none", 1), Message("bad", "resp", "none", 2),
          Message("cmd", "http", "right", 2), Message("cmd", "http", "none", 1)}
MCStreams == [1..2 -> Messages]
Pings == [i \in 1..2 |-> Message("ping", "resp", "none", 1)]

\* Configuration: with units of four and words of eight bits, 3gb overflows
\* and 31kb is not a whole number of mb.
MCConfigTexts ==
    {Empty, Word("yes"), Word("no"), Num(7, "b"), Num(31, "kb"), Num(3, "gb"), Num(5, "mb"), Num(100, "b")}

Init ==
    /\ part \in {"tree", "glob", "search", "collection", "connection", "config", "scripts"}
    /\ IF part = "tree" THEN TRUE ELSE present = {}
    /\ IF part = "glob" THEN TRUE ELSE pattern = <<Open>>
    /\ IF part = "search" THEN TRUE ELSE col = Texts /\ query = CHOOSE q \in Questions : TRUE
    /\ IF part = "connection" THEN TRUE ELSE stream = Pings /\ pass = TRUE /\ remote = TRUE
    /\ TreeInit /\ GlobInit /\ SearchInit /\ ConnInit /\ ColInit /\ ConfigInit /\ ScriptsInit

Next ==
    \/ /\ part = "tree" /\ TreeNext
       /\ UNCHANGED <<part, globVars, searchVars, colVars, connVars, configVars, luaVars>>
    \/ /\ part = "search" /\ SearchNext
       /\ UNCHANGED <<part, treeVars, globVars, colVars, connVars, configVars, luaVars>>
    \/ /\ part = "collection" /\ ColNext
       /\ UNCHANGED <<part, treeVars, globVars, searchVars, connVars, configVars, luaVars>>
    \/ /\ part = "connection" /\ ConnNext
       /\ UNCHANGED <<part, treeVars, globVars, searchVars, colVars, configVars, luaVars>>
    \/ /\ part = "config" /\ ConfigNext
       /\ UNCHANGED <<part, treeVars, globVars, searchVars, colVars, connVars, luaVars>>
    \/ /\ part = "scripts" /\ ScriptsNext
       /\ UNCHANGED <<part, treeVars, globVars, searchVars, colVars, connVars, configVars>>

Spec == Init /\ [][Next]_vars
=============================================================================
