-------------------------------- MODULE Live --------------------------------
(***************************************************************************)
(* Live fence connections, live.go.  writeAOF puts what a command did on   *)
(* lstack under lcond.L; processLives hands it to the buffer of every live *)
(* connection on that key; goLive takes it out, matches the fence with the *)
(* buffer unlocked, and writes to the client.  Three goroutines wait on    *)
(* two condition variables, and a fourth notices that the client has gone. *)
(***************************************************************************)
EXTENDS Naturals, Sequences, SequencesExt

CONSTANTS Conns,      \* live connections
          Keys,       \* keys they may watch
          MaxWrites   \* write commands in a behaviour

VARIABLES lstack,     \* c.lstack: numbers of write commands
          keyOf,      \* the key of each write
          lives,      \* c.lives
          watch,      \* liveBuffer.key
          details,    \* liveBuffer.details
          mustQuit,
          pl,         \* processLives: "ready", "drain" with lcond.L, "wait"
          live,       \* goLive of each connection
          item,       \* the write goLive is at with its buffer unlocked
          \* history
          told,       \* the writes goLive has finished, in its order
          since       \* writes before the connection was registered

liveVars == <<lstack, keyOf, lives, watch, details, mustQuit, pl, live, item, told, since>>

NoItem == 0
Written == DOMAIN keyOf

LiveInit ==
    /\ lstack = <<>> /\ keyOf = <<>> /\ lives = {}
    /\ watch \in [Conns -> Keys]
    /\ details = [c \in Conns |-> <<>>]
    /\ mustQuit = [c \in Conns |-> FALSE]
    /\ pl = "ready"
    /\ live = [c \in Conns |-> "new"]
    /\ item = [c \in Conns |-> NoItem]
    /\ told = [c \in Conns |-> <<>>]
    /\ since = [c \in Conns |-> 0]

\* lcond.L is free: processLives keeps it until the stack is empty.
Unlocked == pl # "drain"

\* The end of writeAOF.
LiveWrite(k) ==
    /\ Unlocked /\ Len(keyOf) < MaxWrites
    /\ keyOf' = Append(keyOf, k)
    /\ lstack' = Append(lstack, Len(keyOf'))
    /\ pl' = IF pl = "wait" THEN "ready" ELSE pl
    /\ UNCHANGED <<lives, watch, details, mustQuit, live, item, told, since>>

ProcessLock ==
    /\ pl = "ready"
    /\ pl' = "drain"
    /\ UNCHANGED <<lstack, keyOf, lives, watch, details, mustQuit, live, item, told, since>>

\* One item to every live buffer on its key, with a broadcast.
Hears(c) == c \in lives /\ watch[c] = keyOf[Head(lstack)]
Distribute ==
    /\ pl = "drain" /\ lstack # <<>>
    /\ lstack' = Tail(lstack)
    /\ details' = [c \in Conns |-> IF Hears(c) THEN Append(details[c], Head(lstack)) ELSE details[c]]
    /\ live' = [c \in Conns |-> IF Hears(c) /\ live[c] = "wait" THEN "loop" ELSE live[c]]
    /\ UNCHANGED <<keyOf, lives, watch, mustQuit, pl, item, told, since>>

\* Mutant: processLives returns when the stack is empty.
ProcessReturns ==
    /\ pl = "drain" /\ lstack = <<>>
    /\ pl' = "returned"
    /\ UNCHANGED <<lstack, keyOf, lives, watch, details, mustQuit, live, item, told, since>>
ProcessWait ==
    /\ pl = "drain" /\ lstack = <<>>
    /\ pl' = "wait"
    /\ UNCHANGED <<lstack, keyOf, lives, watch, details, mustQuit, live, item, told, since>>

\* goLive: the buffer joins the map, then the client is told that it is live.
Register(c) ==
    /\ live[c] = "new" /\ Unlocked
    /\ lives' = lives \cup {c}
    /\ since' = [since EXCEPT ![c] = Len(keyOf) - Len(lstack)]
    /\ live' = [live EXCEPT ![c] = "greet"]
    /\ UNCHANGED <<lstack, keyOf, watch, details, mustQuit, pl, item, told>>
Greet(c) ==
    /\ live[c] = "greet"
    /\ \/ live' = [live EXCEPT ![c] = "loop"]
       \/ mustQuit[c] /\ live' = [live EXCEPT ![c] = "leaving"]
    /\ UNCHANGED <<lstack, keyOf, lives, watch, details, mustQuit, pl, item, told, since>>

\* Mutant: the newest entry of the buffer first.
LoopTopNewest(c) ==
    /\ live[c] = "loop"
    /\ IF mustQuit[c]
       THEN live' = [live EXCEPT ![c] = "leaving"] /\ UNCHANGED <<details, item>>
       ELSE IF details[c] = <<>>
       THEN live' = [live EXCEPT ![c] = "wait"] /\ UNCHANGED <<details, item>>
       ELSE /\ live' = [live EXCEPT ![c] = "busy"]
            /\ item' = [item EXCEPT ![c] = Last(details[c])]
            /\ details' = [details EXCEPT ![c] = Front(@)]
    /\ UNCHANGED <<lstack, keyOf, lives, watch, mustQuit, pl, told, since>>
\* At the top of the loop mustQuit is tested; after an item only the buffer is.
LoopTop(c) ==
    /\ live[c] = "loop"
    /\ IF mustQuit[c]
       THEN live' = [live EXCEPT ![c] = "leaving"] /\ UNCHANGED <<details, item>>
       ELSE IF details[c] = <<>>
       THEN live' = [live EXCEPT ![c] = "wait"] /\ UNCHANGED <<details, item>>
       ELSE /\ live' = [live EXCEPT ![c] = "busy"]
            /\ item' = [item EXCEPT ![c] = Head(details[c])]
            /\ details' = [details EXCEPT ![c] = Tail(@)]
    /\ UNCHANGED <<lstack, keyOf, lives, watch, mustQuit, pl, told, since>>

\* FenceMatch and the writes, then the buffer again.
AfterItem(c) ==
    IF details[c] = <<>>
    THEN live' = [live EXCEPT ![c] = "wait"] /\ item' = [item EXCEPT ![c] = NoItem] /\ UNCHANGED details
    ELSE /\ item' = [item EXCEPT ![c] = Head(details[c])]
         /\ details' = [details EXCEPT ![c] = Tail(@)]
         /\ UNCHANGED live
Match(c) ==
    /\ live[c] = "busy"
    /\ told' = [told EXCEPT ![c] = Append(@, item[c])]
    /\ AfterItem(c)
    /\ UNCHANGED <<lstack, keyOf, lives, watch, mustQuit, pl, since>>

\* A write to a client that has closed its side fails.
WriteFails(c) ==
    /\ live[c] = "busy" /\ mustQuit[c]
    /\ live' = [live EXCEPT ![c] = "leaving"]
    /\ UNCHANGED <<lstack, keyOf, lives, watch, details, mustQuit, pl, item, told, since>>

\* The reader goroutine: QUIT, anything else, or the end of the connection.
Quit(c) ==
    /\ c \in lives /\ ~mustQuit[c]
    /\ mustQuit' = [mustQuit EXCEPT ![c] = TRUE]
    /\ live' = [live EXCEPT ![c] = IF @ = "wait" THEN "loop" ELSE @]
    /\ UNCHANGED <<lstack, keyOf, lives, watch, details, pl, item, told, since>>

Unregister(c) ==
    /\ live[c] = "leaving" /\ Unlocked
    /\ lives' = lives \ {c}
    /\ live' = [live EXCEPT ![c] = "gone"]
    /\ UNCHANGED <<lstack, keyOf, watch, details, mustQuit, pl, item, told, since>>

ProcessLives == ProcessLock \/ Distribute \/ ProcessWait
GoLive(c) == Greet(c) \/ LoopTop(c) \/ Match(c) \/ WriteFails(c) \/ Unregister(c)
LiveNext ==
    \/ ProcessLives
    \/ \E k \in Keys : LiveWrite(k)
    \/ \E c \in Conns : Register(c) \/ GoLive(c) \/ Quit(c)

(***************************************************************************)
(* Properties                                                              *)
(***************************************************************************)
OnKey(c, s) == SelectSeq(s, LAMBDA w : keyOf[w] = watch[c])
At(c) == IF item[c] = NoItem THEN <<>> ELSE <<item[c]>>

\* What a registered connection has told its client, the write it is at, what
\* waits in its buffer and what waits on the stack are together exactly the
\* writes on its key from the moment it was registered, in order: no write
\* is skipped, doubled or overtaken between the three goroutines, and none of
\* them sleeps on its condition variable while a write waits for it.
LivePipeline ==
    /\ \A c \in lives :
          told[c] \o At(c) \o details[c] \o OnKey(c, lstack)
              = OnKey(c, [k \in 1..(Len(keyOf) - since[c]) |-> since[c] + k])
    /\ pl = "wait" => lstack = <<>>
    /\ \A c \in Conns : live[c] = "wait" => details[c] = <<>>

AllTold(c) == \A w \in Written : w > since[c] /\ keyOf[w] = watch[c] => w \in ToSet(told[c])

\* A live client that stays is told of every write on its key in the end.
LiveDelivers == \A c \in Conns : <>[](c \in lives /\ ~mustQuit[c]) => <>[]AllTold(c)
=============================================================================
