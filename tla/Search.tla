------------------------------- MODULE Search -------------------------------
(***************************************************************************)
(* SCAN, SEARCH, NEARBY, WITHIN and INTERSECTS (scan.go, search.go,        *)
(* scanner.go, token.go and the walks of collection.go), and a client that *)
(* reads a result page by page with CURSOR and LIMIT.                      *)
(*                                                                         *)
(* An object has an id and, as a string value, val; geo says whether it is *)
(* a geometry, hit whether it is what a NEARBY, WITHIN or INTERSECTS asks  *)
(* for, boxed whether it is in the bounding box of that, parts which parts *)
(* of the box it touches, pos its place in the order of the spatial index, *)
(* near its box distance and dist its true distance to the point of a      *)
(* NEARBY, f and z a field and the z coordinate, dead whether its time is  *)
(* over although it has not been purged.                                   *)
(***************************************************************************)
EXTENDS Glob, FiniteSetsExt

CONSTANTS Pool,          \* objects there may be
          Collections,   \* sets of objects a behaviour starts from
          Questions,     \* queries that clients ask
          Everything,    \* math.MaxUint64
          limitItems,    \* the limit when none is given
          MaxInserts     \* objects that arrive while the client reads

VARIABLES col,      \* the objects of the collection
          query,    \* the query of the client
          cursor,   \* where its next page begins
          read,     \* the ids it has got
          reply,    \* the last reply
          first,    \* the objects there were when it began
          inserts

searchVars == <<col, query, cursor, read, reply, first, inserts>>

\* A condition on a field or on z, with bounds that may be excluded.
Where(field, min, minx, max, maxx) ==
    [field |-> field, min |-> min, minx |-> minx, max |-> max, maxx |-> maxx]

(***************************************************************************)
(* The conditions of a query on one object                                 *)
(***************************************************************************)
whereMatch(w, v) ==
    /\ IF w.minx THEN v > w.min ELSE v >= w.min
    /\ IF w.maxx THEN v < w.max ELSE v <= w.max

fieldMatch(q, e) ==
    /\ \A w \in q.wheres : whereMatch(w, IF w.field = "z" THEN e.z ELSE e.f)
    /\ \A vals \in q.whereins : e.f \in vals
    /\ \A vals \in q.whereevals : e.f \in vals

GlobEverything(q) == q.match \in {<<>>, <<Star>>}
GlobSingle(q) == ~GlobEverything(q) /\ ~IsGlob(q.match)

\* The pattern is an id; SEARCH matches values once it has limits.
Exact(q) == GlobSingle(q) /\ (q.cmd # "search" \/ Parse(q.match, q.desc) = NoLimits)

globMatch(q, e) ==
    \/ GlobEverything(q)
    \/ IF Exact(q) THEN q.match = e.id
       ELSE Match(q.match, IF q.cmd = "search" THEN e.val ELSE e.id)

\* Whether the walk goes on after an object that was written.
KeepGoing(q) == ~Exact(q)

(***************************************************************************)
(* scanWriter                                                              *)
(***************************************************************************)
\* Mutant: a page that begins at a cursor begins one object late.
NewScanWriterLate(q, cur) ==
    [cursor |-> IF cur > 0 THEN cur + 1 ELSE 0, count |-> 0, ids |-> <<>>, hitLimit |-> FALSE, stop |-> FALSE,
     limit |-> IF q.limit # 0 THEN q.limit
               ELSE IF q.output = "count" THEN Everything ELSE limitItems]
NewScanWriter(q, cur) ==
    [cursor |-> cur, count |-> 0, ids |-> <<>>, hitLimit |-> FALSE, stop |-> FALSE,
     limit |-> IF q.limit # 0 THEN q.limit
               ELSE IF q.output = "count" THEN Everything ELSE limitItems]

Passes(q, e, ignoreGlob) == (ignoreGlob \/ globMatch(q, e)) /\ fieldMatch(q, e)

\* An object that is written; the walk stops at the limit, and after the one
\* object that a pattern without wildcards can mean.
Written(q, sw, ids, ignoreGlob) ==
    [sw EXCEPT !.ids = ids, !.hitLimit = (Len(ids) = sw.limit),
               !.stop = Len(ids) = sw.limit \/ ~(ignoreGlob \/ KeepGoing(q))]
\* An object that passes and has been counted.
Counted(q, sw, e, ignoreGlob) ==
    CASE sw.count <= sw.cursor -> [sw EXCEPT !.stop = FALSE]
      [] sw.count > sw.cursor /\ q.output = "count" -> [sw EXCEPT !.stop = (sw.count >= sw.limit)]
      [] OTHER -> Written(q, sw, Append(sw.ids, e.id), ignoreGlob)

\* Mutant: the cursor skips objects before they are tested.
writeObjectUntested(q, sw, e, ignoreGlob) ==
    CASE sw.count < sw.cursor -> [sw EXCEPT !.count = @ + 1]
      [] sw.count >= sw.cursor /\ Passes(q, e, ignoreGlob) ->
            Counted(q, [sw EXCEPT !.count = @ + 1], e, ignoreGlob)
      [] OTHER -> sw
\* One object of a walk; stop is the negation of what writeObject returns.
writeObject(q, sw, e, ignoreGlob) ==
    IF Passes(q, e, ignoreGlob) THEN Counted(q, [sw EXCEPT !.count = @ + 1], e, ignoreGlob)
    ELSE [sw EXCEPT !.stop = FALSE]

Walk(q, sw, es, ignoreGlob) ==
    FoldLeft(LAMBDA w, e : IF w.stop THEN w ELSE writeObject(q, w, e, ignoreGlob), sw, es)

\* Mutant: the cursor of a reply is the number of objects on the page.
writeFootPage(sw) ==
    [cursor |-> IF sw.hitLimit THEN Len(sw.ids) ELSE 0, count |-> sw.count, ids |-> sw.ids]
writeFoot(sw) ==
    [cursor |-> IF sw.hitLimit THEN sw.cursor + Len(sw.ids) ELSE 0, count |-> sw.count, ids |-> sw.ids]

(***************************************************************************)
(* The walks                                                               *)
(***************************************************************************)
\* The elements of a set in an order.
Ranked(es, before(_, _)) ==
    [i \in 1..Cardinality(es) |->
        CHOOSE e \in es : Cardinality({x \in es : before(x, e)}) = i - 1]

\* By id, or by value and then by id; DESC is the reverse.
IdLess(a, b) == Less(a.id, b.id)
ValueLess(a, b) == Less(a.val, b.val) \/ (a.val = b.val /\ Less(a.id, b.id))
Turned(q, es) == IF q.desc THEN Reverse(es) ELSE es

ById(q, c) == Turned(q, Ranked({e \in c : InLimits(e.id, Parse(q.match, q.desc), q.desc)}, IdLess))
ByValue(q, c) ==
    Turned(q, Ranked({e \in c : ~e.geo /\ InLimits(e.val, Parse(q.match, q.desc), q.desc)}, ValueLess))
BySpace(c) == Ranked({e \in c : e.geo}, LAMBDA a, b : a.pos < b.pos)

\* COUNT without conditions is answered from the counters of the collection;
\* SCAN does not look at WHEREEVAL here, SEARCH not at WHEREIN either.
Shortcut(q) ==
    /\ q.output = "count" /\ q.wheres = {} /\ GlobEverything(q)
    /\ q.cmd = "scan" => q.whereins = {}
CountOf(sw, n) == [sw EXCEPT !.count = IF n >= sw.cursor THEN n - sw.cursor ELSE 0]

cmdScan(q, sw, c) == IF Shortcut(q) THEN CountOf(sw, Cardinality(c)) ELSE Walk(q, sw, ById(q, c), FALSE)
cmdSearch(q, sw, c) == IF Shortcut(q) THEN CountOf(sw, Cardinality(c)) ELSE Walk(q, sw, ByValue(q, c), FALSE)

\* WITHIN, INTERSECTS and NEARBY with a distance pass over what has expired.
Wanted(q, e) == IF q.area = "bounds" THEN e.boxed ELSE e.hit
Region(q, sw, c) == Walk(q, sw, SelectSeq(BySpace(c), LAMBDA e : Wanted(q, e) /\ ~e.dead), FALSE)

\* SPARSE: part by part, first what the query asks for and then, unless it is
\* a NEARBY, what lies in the box of the part.  A walk ends with the first
\* object after which the writer would go on, and with it everything.
Sparse(q, sw, c) ==
    LET pass(k, boxed) == SelectSeq(BySpace(c), LAMBDA e : k \in e.parts /\ IF boxed THEN e.boxed ELSE e.hit)
        part(k) == (IF q.area = "bounds" THEN <<>> ELSE pass(k, FALSE))
                       \o (IF q.area = "near" THEN <<>> ELSE pass(k, TRUE))
        after(x) == [sw |-> x, ended |-> ~x.stop]
        step(w, e) ==
            CASE w.ended -> w
              [] ~w.ended /\ e.dead -> [w EXCEPT !.ended = TRUE]
              [] OTHER -> after(writeObject(q, w.sw, e, FALSE))
    IN FoldLeft(step, [sw |-> sw, ended |-> FALSE], part(1) \o part(2)).sw

\* nearestNeighbors: the nearest by box distance, as many as the page needs,
\* then in the order of the true distance; expired ones are passed over last.
Nearest(s, n) == SubSeq(s, 1, Min({Len(s), n}))
nearestNeighbors(q, sw, c) ==
    LET byBox == Ranked({e \in c : e.geo}, LAMBDA a, b : a.near < b.near)
        fit == SelectSeq(byBox, LAMBDA e : fieldMatch(q, e) /\ globMatch(q, e))
        most == IF KeepGoing(q) THEN sw.cursor + sw.limit ELSE 1
        byDist == SortSeq(Nearest(fit, most), LAMBDA a, b : a.dist < b.dist)
    IN Walk(q, sw, SelectSeq(byDist, LAMBDA e : ~e.dead), TRUE)

Answer(q, cur, c) ==
    LET sw == NewScanWriter(q, cur)
    IN writeFoot(CASE q.cmd = "scan" -> cmdScan(q, sw, c)
                   [] q.cmd = "search" -> cmdSearch(q, sw, c)
                   [] q.cmd = "region" /\ q.sparse -> Sparse(q, sw, c)
                   [] q.cmd = "region" /\ ~q.sparse -> Region(q, sw, c)
                   [] q.cmd = "knn" -> nearestNeighbors(q, sw, c))

(***************************************************************************)
(* A client, and other clients that add objects meanwhile                  *)
(***************************************************************************)
NoReply == [got |-> FALSE, count |-> 0, ids |-> <<>>]

SearchInit ==
    /\ col \in Collections /\ query \in Questions
    /\ cursor = 0 /\ read = <<>> /\ reply = NoReply /\ first = col /\ inserts = 0

Done == reply.got /\ cursor = 0

Got(r) ==
    /\ reply' = [got |-> TRUE, count |-> r.count, ids |-> r.ids]
    /\ cursor' = r.cursor
    /\ read' = read \o r.ids

Page ==
    /\ ~Done
    /\ Got(Answer(query, cursor, col))
    /\ UNCHANGED <<col, query, first, inserts>>

Arrive(e) ==
    /\ inserts < MaxInserts /\ e \notin col /\ reply.got /\ ~Done
    /\ \A x \in col : x.id # e.id
    /\ col' = col \cup {e}
    /\ inserts' = inserts + 1
    /\ UNCHANGED <<query, cursor, read, reply, first>>

SearchNext == Page \/ \E e \in Pool : Arrive(e)

(***************************************************************************)
(* Properties                                                              *)
(***************************************************************************)
\* What a query asks for, whatever index answers it.
Asked(q, e) ==
    /\ GlobEverything(q) \/ Means(q.match, IF q.cmd = "search" THEN e.val ELSE e.id)
    /\ fieldMatch(q, e)
    /\ q.cmd = "search" => ~e.geo
    /\ q.cmd = "region" => e.geo /\ Wanted(q, e) /\ ~e.dead
    /\ q.cmd = "knn" => e.geo /\ ~e.dead
Ids(es) == {e.id : e \in es}

\* The walks that promise everything: not those of SPARSE; a pattern whose
\* limits are right; and for neighbours nothing expired that still takes a
\* place in a page, and box distances in the order of the true ones.
Complete(q, c) ==
    /\ ~q.sparse /\ Limited(q.match) /\ q.output # "count"
    /\ q.cmd = "knn" =>
          /\ \A e \in c : ~e.dead
          /\ \A a, b \in c : a.near < b.near => a.dist < b.dist

\* The counts that have no condition to overlook: no WHEREEVAL for SCAN, and for
\* SEARCH neither that nor WHEREIN nor geometries.
Countable(q, c) ==
    /\ q.output = "count" /\ q.cmd \in {"scan", "search"} /\ Limited(q.match)
    /\ q.limit = 0 /\ q.whereevals = {}
    /\ q.cmd = "search" => q.whereins = {} /\ \A e \in c : ~e.geo

\* A client that reads a quiet collection to the end gets every object that
\* the query asks for, and gets it once; and COUNT says how many that would be.
PagesComplete ==
    Done /\ inserts = 0 =>
        /\ Complete(query, col) => /\ ToSet(read) = Ids({e \in col : Asked(query, e)})
                                  /\ Len(read) = Cardinality(ToSet(read))
        /\ Countable(query, col) => reply.count = Cardinality({e \in col : Asked(query, e)})

\* If objects arrive while it reads, SCAN and SEARCH may repeat an object but
\* skip none that was there from the start.
NoneSkipped ==
    Done /\ query.cmd \in {"scan", "search"} /\ Complete(query, col) =>
        Ids({e \in first : Asked(query, e)}) \subseteq ToSet(read)


\* Every page but the last moves the cursor on, and never past the objects
\* there are, so a client comes to an end.
CursorAdvances ==
    [][cursor' # 0 /\ read' # read => cursor' > cursor /\ cursor' <= Cardinality(col)]_searchVars
=============================================================================
