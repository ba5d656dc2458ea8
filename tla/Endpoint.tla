------------------------------ MODULE Endpoint ------------------------------
(***************************************************************************)
(* The endpoint manager of pkg/endpoint: one cached connection per         *)
(* endpoint, shared by every hook that sends to it.  A connection that has *)
(* not been used for 30 seconds expires.  It may do so between the lookup  *)
(* in Manager.Send and the call of its own Send, which then answers        *)
(* errExpired and is tried again.                                          *)
(*                                                                         *)
(* An expired connection leaves the map in the step that expires it, so    *)
(* conns holds only connections that have not expired, and a client holds  *)
(* either the one in the map or one that has expired.                      *)
(***************************************************************************)
EXTENDS Naturals, FiniteSets

CONSTANTS Endpoints,  \* the addresses hooks send to
          Clients     \* the goroutines that call Manager.Send

Protocols == {"http", "disque", "grpc", "redis", "kafka", "mqtt", "amqp", "sqs"}

Absent == [sock |-> "absent", idle |-> FALSE]
NoConn == "no connection"
Expired == "expired connection"

VARIABLES proto,    \* the protocol of each endpoint
          up,       \* is the service behind the endpoint reachable?
          conns,    \* Manager.conns
          holding   \* the connection each client got from the map

epVars == <<proto, up, conns, holding>>

(***************************************************************************)
(* The Send of each protocol.  sock is the client side of the connection   *)
(* before the call: "none", "open", or "broken" when the other side has    *)
(* gone.  An outcome says whether Send returned an error, whether the      *)
(* service got the message, and the connection that is left.               *)
(***************************************************************************)
Outcome(err, got, sock) == [err |-> err, got |-> got, sock |-> sock]

\* Dial when there is no connection, then write and read a reply; every
\* error after the dial closes the connection.
Exchange(sock, isUp, replies) ==
    IF sock = "none" /\ ~isUp THEN {Outcome(TRUE, FALSE, "none")}
    ELSE IF sock = "broken" \/ ~isUp THEN {Outcome(TRUE, FALSE, "none")}
    ELSE replies \cup {Outcome(TRUE, FALSE, "none"), Outcome(TRUE, TRUE, "none")}

\* PUBLISH answers the number of subscribers, of which the code reads the
\* first digit: any number that does not start with a 1 is an error.
SubscriberCounts == {0, 1, 2, 10}
FirstDigit(n) == IF n < 10 THEN n ELSE n \div 10
RedisReply(n) ==
    IF FirstDigit(n) = 1 THEN Outcome(FALSE, n > 0, "open")
    ELSE Outcome(TRUE, n > 0, "none")
RedisSend(sock, isUp) ==
    Exchange(sock, isUp, {RedisReply(n) : n \in SubscriberCounts})

\* ADDJOB answers a line that starts with + or - and holds a job id.
DisqueSend(sock, isUp) == Exchange(sock, isUp, {Outcome(FALSE, TRUE, "open")})

\* Dial does not connect; the call does, and a reply that is not Ok closes.
GRPCSend(sock, isUp) == Exchange(sock, isUp, {Outcome(FALSE, TRUE, "open")})

KafkaSend(sock, isUp) == Exchange(sock, isUp, {Outcome(FALSE, TRUE, "open")})

\* A message published with quality of service 0 is not confirmed.
MQTTSend(sock, isUp) ==
    Exchange(sock, isUp, {Outcome(FALSE, got, "open") : got \in BOOLEAN})

\* A publish is not confirmed, and an error leaves the connection in place,
\* so a broken one stays until it expires.
AMQPSend(sock, isUp) ==
    CASE sock = "none" /\ ~isUp -> {Outcome(TRUE, FALSE, "none")}
      [] sock = "none" /\ isUp -> {Outcome(TRUE, FALSE, "none"), Outcome(FALSE, TRUE, "open")}
      [] sock = "open" -> {Outcome(FALSE, TRUE, "open")}
      [] sock = "broken" -> {Outcome(TRUE, FALSE, "broken"), Outcome(FALSE, FALSE, "broken")}

\* Each request is a connection of its own.
Request(sock, isUp) ==
    IF isUp THEN {Outcome(err, TRUE, sock) : err \in BOOLEAN} \cup {Outcome(TRUE, FALSE, sock)}
    ELSE {Outcome(TRUE, FALSE, sock)}
HTTPSend(sock, isUp) == Request(sock, isUp)
SQSSend(sock, isUp) == Request(sock, isUp)

ProtocolSend(e) ==
    LET sock == conns[e].sock
    IN CASE proto[e] = "http"   -> HTTPSend(sock, up[e])
         [] proto[e] = "disque" -> DisqueSend(sock, up[e])
         [] proto[e] = "grpc"   -> GRPCSend(sock, up[e])
         [] proto[e] = "redis"  -> RedisSend(sock, up[e])
         [] proto[e] = "kafka"  -> KafkaSend(sock, up[e])
         [] proto[e] = "mqtt"   -> MQTTSend(sock, up[e])
         [] proto[e] = "amqp"   -> AMQPSend(sock, up[e])
         [] proto[e] = "sqs"    -> SQSSend(sock, up[e])

(***************************************************************************)
(* The connection an expired one becomes, and what those that hold it are  *)
(* left with.                                                              *)
(***************************************************************************)
NewConn == [sock |-> "none", idle |-> FALSE]

\* Expired: an http connection never does.
HasExpired(e) == proto[e] # "http" /\ conns[e].idle

Revoke(e) == [c \in Clients |-> IF holding[c] = e THEN Expired ELSE holding[c]]

InitEndpoint ==
    /\ proto \in [Endpoints -> Protocols]
    /\ up \in [Endpoints -> BOOLEAN]
    /\ conns = [e \in Endpoints |-> Absent]
    /\ holding = [c \in Clients |-> NoConn]

\* Manager.Send under epc.mu: the connection in the map, or a new one.
Lookup(c, e) ==
    /\ holding[c] = NoConn
    /\ IF conns[e] = Absent \/ HasExpired(e)
       THEN /\ conns' = [conns EXCEPT ![e] = NewConn]
            /\ holding' = [Revoke(e) EXCEPT ![c] = e]
       ELSE /\ holding' = [holding EXCEPT ![c] = e]
            /\ UNCHANGED conns
    /\ UNCHANGED <<proto, up>>

\* The connection's own Send under its mutex, with outcome o.
Deliver(c, e, o) ==
    /\ holding[c] = e
    /\ o \in ProtocolSend(e)
    /\ conns' = [conns EXCEPT ![e] = [sock |-> o.sock, idle |-> FALSE]]
    /\ holding' = [holding EXCEPT ![c] = NoConn]
    /\ UNCHANGED <<proto, up>>

\* errExpired: once more from the top.
TryAgain(c) ==
    /\ holding[c] = Expired
    /\ holding' = [holding EXCEPT ![c] = NoConn]
    /\ UNCHANGED <<proto, up, conns>>

\* Manager.Run, once a second.
RunSweep(e) ==
    /\ conns[e] # Absent /\ HasExpired(e)
    /\ conns' = [conns EXCEPT ![e] = Absent]
    /\ holding' = Revoke(e)
    /\ UNCHANGED <<proto, up>>

\* 30 seconds pass without a Send.
IdleOut(e) ==
    /\ conns[e] # Absent /\ ~conns[e].idle /\ proto[e] # "http"
    /\ conns' = [conns EXCEPT ![e].idle = TRUE]
    /\ UNCHANGED <<proto, up, holding>>

\* The service goes away, with every connection to it, and comes back.
GoesDown(e) ==
    /\ up[e]
    /\ up' = [up EXCEPT ![e] = FALSE]
    /\ conns' = [conns EXCEPT ![e].sock = IF @ = "open" THEN "broken" ELSE @]
    /\ UNCHANGED <<proto, holding>>
ComesUp(e) ==
    /\ ~up[e]
    /\ up' = [up EXCEPT ![e] = TRUE]
    /\ UNCHANGED <<proto, conns, holding>>
=============================================================================
