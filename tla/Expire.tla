------------------------------- MODULE Expire -------------------------------
(***************************************************************************)
(* Timeouts of objects (pkg/controller/expire.go).  c.expires says when an *)
(* object is due; c.exlist holds one entry for every call of expireAt, and *)
(* entries outlive the timeout they were made for.  A goroutine samples    *)
(* exlist under its own mutex, then takes the lock of the server and       *)
(* deletes what has expired; between the two, commands may change anything.*)
(*                                                                         *)
(* exlist is a bag: the position of an entry only matters to the random    *)
(* choice.  Times are whole ticks, and an object is due strictly after its *)
(* time (time.Now().After).  The log of the deletions is in AOF.           *)
(***************************************************************************)
EXTENDS Integers, Sequences, FiniteSets, Bags, BagsExt

CONSTANTS TtlKeys, TtlIds,
          Ttls,          \* seconds that SET EX and EXPIRE are given
          SampleSize,    \* entries looked at in a round (20 in the code)
          BusyRound,     \* more than this many found: no pause (5 in the code)
          MaxClock, MaxEntries   \* bounds: time, and entries of exlist

VARIABLES clock, present,
          expires,       \* objects to times
          exlist, purgelist,
          purger,        \* where backgroundExpiring is
          now            \* its reading of the clock while it samples, or 0

ttlVars == <<clock, present, expires, exlist, purgelist, purger, now>>

TtlObjects == TtlKeys \X TtlIds
NoTimes == [o \in {} |-> 0]
TtlEntry(o, at) == [obj |-> o, at |-> at]

ExpireInit ==
    /\ clock = 0 /\ present = {} /\ expires = NoTimes
    /\ exlist = EmptyBag /\ purgelist = EmptyBag
    /\ purger = "top" /\ now = 0

(***************************************************************************)
(* Helpers of the commands                                                 *)
(***************************************************************************)
hasExpired(o) == o \in DOMAIN expires /\ clock > expires[o]

\* clearIDExpires and clearKeyExpires, for all of the objects of a set.
clearExpires(S) == [o \in DOMAIN expires \ S |-> expires[o]]

\* Mutant: a second timeout of an object is not put on the list.
expireAtOnce(o, at) ==
    /\ expires' = [x \in DOMAIN expires \cup {o} |-> IF x = o THEN at ELSE expires[x]]
    /\ exlist' = IF o \in DOMAIN expires THEN exlist ELSE exlist (+) SetToBag({TtlEntry(o, at)})
expireAt(o, at) ==
    /\ expires' = [x \in DOMAIN expires \cup {o} |-> IF x = o THEN at ELSE expires[x]]
    /\ exlist' = exlist (+) SetToBag({TtlEntry(o, at)})

Room == BagCardinality(exlist) < MaxEntries

(***************************************************************************)
(* Commands, each under the lock of the server                             *)
(***************************************************************************)
TtlSet(o) ==
    /\ present' = present \cup {o}
    /\ expires' = clearExpires({o})
    /\ UNCHANGED exlist

TtlSetEx(o, ttl) ==
    /\ Room
    /\ present' = present \cup {o}
    /\ expireAt(o, clock + ttl)

TtlExpire(o, ttl) ==
    /\ Room
    /\ o \in present /\ ~hasExpired(o)
    /\ expireAt(o, clock + ttl)
    /\ UNCHANGED present

TtlPersist(o) ==
    /\ o \in present /\ ~hasExpired(o)
    /\ expires' = clearExpires({o})
    /\ UNCHANGED <<present, exlist>>

\* DEL of one object, PDEL of some of a key, DROP of all of a key.
TtlDel(S) ==
    /\ present' = present \ S
    /\ expires' = clearExpires(S)
    /\ UNCHANGED exlist

\* FLUSHDB, and reset when a follower starts over.
TtlFlush ==
    /\ present' = {} /\ expires' = NoTimes /\ exlist' = EmptyBag

Removals == UNION {SUBSET ({k} \X TtlIds) : k \in TtlKeys}

TtlCommand ==
    /\ \/ \E o \in TtlObjects : TtlSet(o) \/ TtlPersist(o)
       \/ \E o \in TtlObjects, ttl \in Ttls : TtlSetEx(o, ttl) \/ TtlExpire(o, ttl)
       \/ \E S \in Removals : TtlDel(S)
       \/ TtlFlush
    /\ UNCHANGED <<clock, purgelist, purger, now>>

(***************************************************************************)
(* backgroundExpiring                                                      *)
(***************************************************************************)
\* The top of the loop reads the clock and empties the list of the last round.
PurgeTop ==
    /\ purger = "top"
    /\ purger' = "sample" /\ now' = clock /\ purgelist' = EmptyBag
    /\ UNCHANGED <<clock, present, expires, exlist>>

Overdue == {e \in BagToSet(exlist) : now > e.at}
Smaller(a, b) == IF a < b THEN a ELSE b

\* Mutant: entries that are due are looked at and left.
NothingFound == {EmptyBag}
\* What the random picks can find: an entry that is not due uses up its pick;
\* when all of them are due every pick finds one.
Found ==
    {b \in SubBag([e \in Overdue |-> exlist[e]]) :
        /\ BagCardinality(b) <= SampleSize
        /\ Overdue = BagToSet(exlist) => BagCardinality(b) = Smaller(SampleSize, BagCardinality(exlist))}

PurgeSample(found) ==
    /\ purgelist' = found /\ exlist' = exlist (-) found
    /\ purger' = IF found = EmptyBag THEN "sleep" ELSE "purge"
    /\ now' = 0
    /\ UNCHANGED <<clock, present, expires>>

\* Mutant: what was found is deleted without a second look.
StillDueUnchecked == {e.obj : e \in BagToSet(purgelist)}
StillDue == {e.obj : e \in {x \in BagToSet(purgelist) : hasExpired(x.obj)}}

PurgeDelete ==
    /\ purger = "purge"
    /\ present' = present \ StillDue
    /\ expires' = clearExpires(StillDue)
    /\ purger' = IF BagCardinality(purgelist) > BusyRound THEN "top" ELSE "sleep"
    /\ purgelist' = EmptyBag
    /\ UNCHANGED <<clock, exlist, now>>

PurgeWake ==
    /\ purger = "sleep"
    /\ purger' = "top"
    /\ UNCHANGED <<clock, present, expires, exlist, purgelist, now>>

(***************************************************************************)
(* Time, and a restart: the log gives every timeout anew, counted from the *)
(* time of loading, and fillExpiresList makes exlist from c.expires.       *)
(***************************************************************************)
TtlTick ==
    /\ clock < MaxClock /\ clock' = clock + 1
    /\ UNCHANGED <<present, expires, exlist, purgelist, purger, now>>

TtlRestart ==
    /\ purger' = "top" /\ purgelist' = EmptyBag /\ now' = 0
    /\ \E left \in [DOMAIN expires -> Ttls] :
          /\ expires' = [o \in DOMAIN expires |-> clock + left[o]]
          /\ exlist' = SetToBag({TtlEntry(o, clock + left[o]) : o \in DOMAIN expires})
    /\ UNCHANGED <<clock, present>>

PurgeSamples == purger = "sample" /\ \E found \in Found : PurgeSample(found)

backgroundExpiring == PurgeTop \/ PurgeSamples \/ PurgeDelete \/ PurgeWake

ExpireNext == TtlCommand \/ TtlTick \/ TtlRestart \/ backgroundExpiring

\* A round that finds an entry of o.
PurgeFinds(o) ==
    /\ purger = "sample" /\ purger' = "purge"
    /\ \E found \in Found : (\E e \in BagToSet(found) : e.obj = o) /\ PurgeSample(found)

(***************************************************************************)
(* Properties                                                              *)
(***************************************************************************)
\* An object that has a timeout exists, and the timeout that is in force has
\* an entry that the goroutine will still meet, on exlist or in its hands;
\* without one, the object would be hidden from reads and never be purged.
TimeoutsTracked ==
    /\ DOMAIN expires \subseteq present
    /\ \A o \in DOMAIN expires :
          TtlEntry(o, expires[o]) \in BagToSet(exlist) \cup BagToSet(purgelist)

\* The goroutine deletes an object only when the timeout in force at that
\* moment has passed, whatever commands ran since it sampled the entry.
NeverEarly == [][purger = "purge" /\ purger' # "purge" =>
                    \A o \in present \ present' : hasExpired(o)]_ttlVars

\* An object that is past its timeout does not stay so: it is purged unless a
\* command or a restart gives it another life.
EventuallyPurged == \A o \in TtlObjects : (o \in present /\ hasExpired(o)) ~> ~hasExpired(o)
=============================================================================
