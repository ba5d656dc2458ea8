-------------------------------- MODULE Glob --------------------------------
(***************************************************************************)
(* Patterns (pkg/glob): matching, and the range of names a scan has to     *)
(* look at.  A string is a sequence of bytes 0..Top, in the order of their *)
(* codes; a rune is one byte.                                              *)
(***************************************************************************)
EXTENDS Naturals, Sequences, FiniteSets, SequencesExt

CONSTANTS Top, Star, Query, Open, Close, Caret, Dash, Slash

ASSUME BytesInOrder ==
    Cardinality({Star, Query, Open, Close, Caret, Dash, Slash}) = 7
        /\ {Star, Query, Open, Close, Caret, Dash, Slash} \subseteq 1..(Top - 1)

From(s, k) == SubSeq(s, k, Len(s))

RECURSIVE Less(_, _)
Less(s, t) ==
    CASE t = <<>> -> FALSE
      [] t # <<>> /\ s = <<>> -> TRUE
      [] OTHER -> s[1] < t[1] \/ (s[1] = t[1] /\ Less(Tail(s), Tail(t)))

(***************************************************************************)
(* match.go                                                                *)
(***************************************************************************)
Bad == [ok |-> FALSE, err |-> TRUE, rest |-> <<>>]
No == [ok |-> FALSE, err |-> FALSE, rest |-> <<>>]
Yes(rest) == [ok |-> TRUE, err |-> FALSE, rest |-> rest]

\* Where the chunk that starts at i ends: before the next star that is neither
\* escaped nor in a class.
RECURSIVE ChunkEnd(_, _, _)
ChunkEnd(p, i, inrange) ==
    CASE i > Len(p) -> Len(p)
      [] i <= Len(p) /\ p[i] = Star /\ ~inrange -> i - 1
      [] i < Len(p) /\ p[i] = Slash -> ChunkEnd(p, i + 2, inrange)
      [] OTHER -> ChunkEnd(p, i + 1, p[i] = Open \/ (inrange /\ p[i] # Close))

scanChunk(p) ==
    LET stars == CHOOSE k \in 0..Len(p) :
                     /\ \A j \in 1..k : p[j] = Star
                     /\ k < Len(p) => p[k + 1] # Star
        end == ChunkEnd(p, stars + 1, FALSE)
    IN [star |-> stars > 0, chunk |-> SubSeq(p, stars + 1, end), rest |-> From(p, end + 1)]

\* A character of a class, and what follows it.
getEsc(c) ==
    LET d == IF c # <<>> /\ c[1] = Slash THEN Tail(c) ELSE c IN
    IF c = <<>> \/ d = <<>> \/ c[1] \in {Dash, Close} \/ Len(d) = 1
    THEN [err |-> TRUE, r |-> 0, rest |-> <<>>]
    ELSE [err |-> FALSE, r |-> d[1], rest |-> Tail(d)]

\* The ranges of a class, up to the bracket that closes it.
RECURSIVE Ranges(_, _, _, _)
Ranges(c, r, match, n) ==
    IF c # <<>> /\ c[1] = Close /\ n > 0
    THEN [err |-> FALSE, in |-> match, rest |-> Tail(c)]
    ELSE LET lo == getEsc(c)
             dash == ~lo.err /\ lo.rest[1] = Dash
             hi == IF dash THEN getEsc(Tail(lo.rest)) ELSE lo
         IN IF lo.err \/ hi.err THEN [err |-> TRUE, in |-> FALSE, rest |-> <<>>]
            ELSE Ranges(hi.rest, r, match \/ (lo.r <= r /\ r <= hi.r), n + 1)

Class(c, r) ==
    LET negated == c # <<>> /\ c[1] = Caret
        k == Ranges(IF negated THEN Tail(c) ELSE c, r, FALSE, 0)
    IN [k EXCEPT !.in = (@ # negated)]

RECURSIVE matchChunk(_, _)
matchChunk(c, s) ==
    CASE c = <<>> -> Yes(s)
      [] c # <<>> /\ s = <<>> -> No
      [] c # <<>> /\ s # <<>> /\ c[1] = Open ->
            LET k == Class(Tail(c), s[1])
            IN IF k.err THEN Bad ELSE IF k.in THEN matchChunk(k.rest, Tail(s)) ELSE No
      [] c # <<>> /\ s # <<>> /\ c[1] = Query -> matchChunk(Tail(c), Tail(s))
      [] c = <<Slash>> /\ s # <<>> -> Bad
      [] OTHER -> LET lit == IF c[1] = Slash THEN Tail(c) ELSE c
                  IN IF lit[1] = s[1] THEN matchChunk(Tail(lit), Tail(s)) ELSE No

\* Mutant: a last chunk need not reach the end of the name.
EndsNever(t, rest) == TRUE
\* The chunk matched; if it is the last one, nothing of the name may be left.
Ends(t, rest) == t.rest = <<>> \/ rest # <<>>

\* The rest of the pattern follows the first place where its chunk matches;
\* after a star, places further on are tried as well.
RECURSIVE wildcardMatch(_, _)
RECURSIVE TryAt(_, _, _)
Tried(k, s, i, t) ==
    CASE t.ok /\ Ends(t, k.rest) -> wildcardMatch(k.rest, t.rest)
      [] t.err -> Bad
      [] ~(t.ok /\ Ends(t, k.rest)) /\ ~t.err /\ k.star /\ i < Len(s) -> TryAt(k, s, i + 1)
      [] OTHER -> No
TryAt(k, s, i) == Tried(k, s, i, matchChunk(k.chunk, From(s, i + 1)))
FromChunk(k, s) == IF k.star /\ k.chunk = <<>> THEN Yes(<<>>) ELSE TryAt(k, s, 0)
wildcardMatch(p, s) ==
    IF p # <<>> THEN FromChunk(scanChunk(p), s)
    ELSE IF s = <<>> THEN Yes(s) ELSE No

Match(p, s) == wildcardMatch(p, s).ok

\* "whatever" stands for a name longer than any pattern here.
Whatever == [i \in 1..8 |-> Top - 1]
Special == {Open, Star, Query}
IsGlob(p) == (\E i \in DOMAIN p : p[i] \in Special) /\ ~wildcardMatch(p, Whatever).err

(***************************************************************************)
(* glob.go: the names a pattern can match lie between two limits.  Both    *)
(* are empty for a pattern that begins with a star.                        *)
(***************************************************************************)
Succ(a) == IF Last(a) = Top THEN Append(a, 0) ELSE Append(Front(a), Last(a) + 1)

RECURSIVE LowerThanZero(_)
LowerThanZero(b) ==
    CASE b = <<>> \/ Last(b) # 0 -> b
      [] b = <<0>> -> <<>>
      [] OTHER -> LET c == Front(b)
                  IN IF Last(c) = 0 THEN LowerThanZero(c)
                     ELSE Append(Append(Front(c), Last(c) - 1), Top)
Pred(a) == IF Last(a) = 0 THEN LowerThanZero(a) ELSE Append(Front(a), Last(a) - 1)

\* The part of a pattern before its first special byte.
Literal(p) ==
    SubSeq(p, 1, CHOOSE k \in 0..Len(p) :
                     /\ \A j \in 1..k : p[j] \notin Special
                     /\ k < Len(p) => p[k + 1] \in Special)

\* Mutant: descending limits are those of an ascending scan, swapped.
ParseSwapped(p, desc) ==
    LET lit == Literal(p) IN
    CASE p = <<>> \/ p[1] = Star -> <<<<>>, <<>>>>
      [] p # <<>> /\ p[1] # Star /\ lit = <<>> -> <<p, p>>
      [] OTHER -> IF desc THEN <<Succ(lit), lit>> ELSE <<lit, Succ(lit)>>
Parse(p, desc) ==
    LET lit == Literal(p) IN
    CASE p = <<>> \/ p[1] = Star -> <<<<>>, <<>>>>
      [] p # <<>> /\ p[1] # Star /\ lit = <<>> -> <<p, p>>
      [] OTHER -> IF desc THEN <<Succ(lit), Pred(lit)>> ELSE <<lit, Succ(lit)>>

NoLimits == <<<<>>, <<>>>>
\* AscendRange and DescendRange of the B-tree.
InLimits(s, limits, desc) ==
    \/ limits = NoLimits
    \/ IF desc THEN ~Less(limits[1], s) /\ Less(limits[2], s)
       ELSE ~Less(s, limits[1]) /\ Less(s, limits[2])

(***************************************************************************)
(* KEYS.  A pattern without a wildcard, or one whose only wildcard is a    *)
(* star at its end, is a prefix: from the first key that is not less, up   *)
(* to one without it.                                                      *)
(***************************************************************************)
Greater(pivot, keys) ==
    LET NotLess == {k \in keys : ~Less(k, pivot)}
        Ahead(k) == {j \in NotLess : ~Less(k, j)}
    IN {k \in NotLess : \A j \in Ahead(k) : IsPrefix(pivot, j)}

cmdKeys(p, keys) ==
    LET pivot == IF p # <<>> /\ Last(p) = Star THEN Front(p) ELSE p
    IN CASE p = <<Star>> -> keys
         [] p # <<Star>> /\ ~IsGlob(pivot) -> Greater(pivot, keys)
         [] OTHER -> {k \in keys : Match(p, k)}

(***************************************************************************)
(* What patterns mean                                                      *)
(***************************************************************************)
RECURSIVE Means(_, _)
Means(p, s) ==
    CASE p = <<>> -> s = <<>>
      [] p # <<>> /\ p[1] = Star -> \E k \in 0..Len(s) : Means(Tail(p), From(s, k + 1))
      [] p # <<>> /\ p[1] = Query -> s # <<>> /\ Means(Tail(p), Tail(s))
      [] OTHER -> LET lit == IF p[1] = Slash THEN Tail(p) ELSE p
                  IN s # <<>> /\ lit[1] = s[1] /\ Means(Tail(lit), Tail(s))

\* Patterns that Means explains: no class, and every backslash escapes
\* something.
WellFormed(p) ==
    /\ \A i \in DOMAIN p : p[i] # Open
    /\ \A i \in DOMAIN p : p[i] = Slash => i < Len(p) /\ p[i + 1] # Slash

\* Patterns whose limits are known to be right: a literal beginning without
\* backslash or the greatest byte, or a star.
Limited(p) ==
    /\ p # <<>> => p[1] \notin {Query, Open}
    /\ \A i \in DOMAIN Literal(p) : p[i] \notin {Slash, Top}

VARIABLE pattern
CONSTANTS Patterns, Strings, KeysOfServer

globVars == <<pattern>>
GlobInit == pattern \in Patterns

\* The chunk-wise match with its first-fit search for each chunk finds a match
\* whenever there is one, and never more; and KEYS, which walks from a prefix
\* where it can, selects what the pattern means once it has a wildcard.
MatchExact ==
    WellFormed(pattern) =>
        /\ \A s \in Strings : Match(pattern, s) <=> Means(pattern, s)
        /\ (\E i \in DOMAIN pattern : pattern[i] \in Special) /\ (\A i \in DOMAIN pattern : pattern[i] # Slash)
              => cmdKeys(pattern, KeysOfServer) = {k \in KeysOfServer : Means(pattern, k)}

\* A scan between the limits meets every name that the pattern matches, in
\* either direction.
LimitsCover ==
    Limited(pattern) /\ WellFormed(pattern) =>
        \A s \in Strings, desc \in BOOLEAN :
            Means(pattern, s) => InLimits(s, Parse(pattern, desc), desc)
=============================================================================
