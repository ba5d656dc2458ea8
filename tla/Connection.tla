----------------------------- MODULE Connection -----------------------------
(***************************************************************************)
(* One connection, from the bytes that arrive to the replies that leave:   *)
(* the reader of pipelined messages (pkg/server/reader.go), the loop of    *)
(* handleConn (pkg/server/server.go), and what handleInputCommand does     *)
(* before it takes a lock: PING, the password, the format of the output.   *)
(*                                                                         *)
(* A client sends a stream of messages; a message is some units long and   *)
(* the network cuts the stream anywhere.  A message has a kind:            *)
(*   "ping", "auth", "quit"                                                *)
(*   "cmd"     a command with a reply                                      *)
(*   "silent"  a command whose result is empty: nothing is written         *)
(*   "json", "resp"   OUTPUT                                               *)
(*   "live"    a command that turns the connection into a live one         *)
(*   "kill"    CLIENT KILL of this very connection                         *)
(*   "blank"   no arguments;  "unnamed"  an empty name                     *)
(*   "bad"     what readNextCommand refuses                                *)
(* a protocol, which says in which format replies are at first, and the    *)
(* password it carries, by AUTH or by a header of HTTP.                    *)
(***************************************************************************)
EXTENDS Integers, Sequences, FiniteSets, SequencesExt

CONSTANTS Streams,       \* what clients send
          MaxPassSets    \* times that CONFIG SET changes requirepass

VARIABLES stream, arrived,   \* the units that have arrived
          rdbuf,             \* rd.buf
          batch,             \* messages read and not handled
          outputType, authenticated,
          wr, got,           \* replies: in the buffer, and with the client
          phase,             \* of the connection
          remote, http, pass, passSets,   \* http: the transport is switched on
          handled, ran, gave,   \* messages handled; run; whether a right password was given
          bypassed           \* something went to the client past the buffer

connVars == <<stream, arrived, rdbuf, batch, outputType, authenticated, wr, got, phase, remote, http,
              pass, passSets, handled, ran, gave, bypassed>>

Null == "null"
Format(m) == IF m.proto = "resp" THEN "resp" ELSE "json"
HttpLike(m) == m.proto = "http"

Units(s) == FlattenSeq([i \in DOMAIN s |-> [j \in 1..s[i].size |-> <<i, j>>]])

ConnInit ==
    /\ stream \in Streams /\ remote \in BOOLEAN /\ pass \in BOOLEAN
    /\ http \in BOOLEAN /\ ((\A i \in DOMAIN stream : ~HttpLike(stream[i])) => http)
    /\ arrived = 0 /\ rdbuf = <<>> /\ batch = <<>> /\ outputType = Null /\ authenticated = FALSE
    /\ wr = <<>> /\ got = <<>> /\ phase = "accepted" /\ passSets = 0
    /\ handled = <<>> /\ ran = {} /\ gave = FALSE /\ bypassed = FALSE

(***************************************************************************)
(* Opening: a server without a password talks to the loopback only         *)
(***************************************************************************)
ConnOpened ==
    /\ phase = "accepted"
    /\ IF remote /\ ~pass
       THEN phase' = "closed" /\ got' = <<[of |-> 0, as |-> "denied"]>>
       ELSE phase' = "read" /\ UNCHANGED got
    /\ UNCHANGED <<stream, arrived, rdbuf, batch, outputType, authenticated, wr, remote, http, pass, passSets,
                   handled, ran, gave, bypassed>>

(***************************************************************************)
(* ReadMessages                                                            *)
(***************************************************************************)
\* readNextCommand: whether the data starts with a complete message, and one
\* that it accepts.  Data that does not start at a message is refused too.
IsComplete(data) ==
    LET i == data[1][1] IN
    /\ data[1][2] = 1 /\ stream[i].kind # "bad"
    /\ Len(data) >= stream[i].size
    /\ \A j \in 1..stream[i].size : data[j] = <<i, j>>

\* The messages at the start of the data, by number, and what is left over.
\* Blank ones are passed over.
ParseAll[data \in Seq(Nat \X Nat)] ==
    IF data = <<>> \/ ~IsComplete(data) THEN [msgs |-> <<>>, left |-> data]
    ELSE LET i == data[1][1]
             rest == ParseAll[SubSeq(data, stream[i].size + 1, Len(data))]
         IN [rest EXCEPT !.msgs = IF stream[i].kind = "blank" THEN @ ELSE <<i>> \o @]

\* Mutant: what is left over is forgotten.
LeftOverForgotten(left) == <<>>
\* What is left over replaces the buffer.
LeftOver(left) == left

ReadMessages ==
    /\ phase = "read"
    /\ \E n \in 1..(Len(Units(stream)) - arrived) :
          LET parsed == ParseAll[rdbuf \o SubSeq(Units(stream), arrived + 1, arrived + n)] IN
          /\ arrived' = arrived + n
          /\ batch' = parsed.msgs /\ rdbuf' = LeftOver(parsed.left)
    /\ phase' = "handle" /\ wr' = <<>>
    /\ UNCHANGED <<stream, outputType, authenticated, got, remote, http, pass, passSets,
                   handled, ran, gave, bypassed>>

(***************************************************************************)
(* One message of a batch                                                  *)
(***************************************************************************)
Msg == stream[Head(batch)]
\* The first message sets the format, OUTPUT changes it.
OutType == IF outputType # Null THEN outputType ELSE Format(Msg)


\* The reply is written to the buffer; HTTP and WebSocket end after one.
Reply(as, t) ==
    /\ wr' = Append(wr, [of |-> Head(batch), as |-> as])
    /\ outputType' = t
    /\ phase' = IF HttpLike(Msg) THEN "flush" ELSE "handle"
    /\ UNCHANGED <<got, bypassed>>

Step(kinds) ==
    /\ phase = "handle" /\ batch # <<>> /\ Msg.kind \in kinds
    /\ HttpLike(Msg) => http
    /\ batch' = Tail(batch) /\ handled' = Append(handled, Head(batch))
    /\ UNCHANGED <<stream, arrived, rdbuf, remote, http, pass, passSets>>

\* The transport of the message is switched off.
HttpRefused ==
    /\ phase = "handle" /\ batch # <<>> /\ HttpLike(Msg) /\ ~http
    /\ phase' = "flush"
    /\ UNCHANGED <<stream, arrived, rdbuf, batch, outputType, authenticated, wr, got, remote, http,
                   pass, passSets, handled, ran, gave, bypassed>>

Unnamed ==
    /\ Step({"unnamed"})
    /\ wr' = Append(wr, [of |-> Head(batch), as |-> "500"])
    /\ phase' = "flush"
    /\ UNCHANGED <<outputType, authenticated, got, ran, gave, bypassed>>

Ping ==
    /\ Step({"ping"}) /\ Reply(OutType, OutType)
    /\ UNCHANGED <<authenticated, ran, gave>>

QuitCommand ==
    /\ Step({"quit"})
    /\ wr' = IF OutType = "resp" THEN Append(wr, [of |-> Head(batch), as |-> "resp"]) ELSE wr
    /\ phase' = "flush"
    /\ UNCHANGED <<outputType, authenticated, got, ran, gave, bypassed>>

\* Whether the password stands between the message and its command.
Checked == pass /\ (~authenticated \/ Msg.kind = "auth")

Admitted == Msg.pw = "right"

Others == {"auth", "cmd", "silent", "json", "resp", "live", "kill"}

\* No password, a wrong one, or AUTH when there is none to give.
AuthRefused ==
    /\ Step(Others)
    /\ (Checked /\ ~Admitted) \/ (~pass /\ Msg.kind = "auth")
    /\ Reply(OutType, OutType)
    /\ UNCHANGED <<authenticated, ran, gave>>

AuthAccepted ==
    /\ Step({"auth"})
    /\ Checked /\ Admitted
    /\ authenticated' = TRUE /\ gave' = (gave \/ Msg.pw = "right")
    /\ Reply(OutType, OutType)
    /\ UNCHANGED ran

\* A command gets through; over HTTP the password may have come with it.
Through(kinds) ==
    /\ Step(kinds) /\ Msg.kind # "auth"
    /\ Checked => Admitted
    /\ authenticated' = (authenticated \/ Checked)
    /\ gave' = (gave \/ (Checked /\ Msg.pw = "right"))
    /\ ran' = ran \cup {[of |-> Head(batch), free |-> ~pass, gave |-> gave']}

RunCommand == Through({"cmd"}) /\ Reply(OutType, OutType)

\* isRespValueEmptyString: an empty result is not written at all.
RunSilent ==
    /\ Through({"silent"})
    /\ outputType' = OutType
    /\ phase' = IF HttpLike(Msg) THEN "flush" ELSE "handle"
    /\ UNCHANGED <<wr, got, bypassed>>

\* The reply to OUTPUT is in the new format already.
cmdOutput == Through({"json", "resp"}) /\ Reply(Msg.kind, Msg.kind)

\* Both write to the connection itself and close it, with earlier replies of
\* the batch still in the buffer.
PastBuffer ==
    /\ Through({"live", "kill"})
    /\ got' = Append(got, [of |-> Head(batch), as |-> OutType])
    /\ bypassed' = TRUE
    /\ phase' = "closed" /\ wr' = <<>>
    /\ UNCHANGED outputType

\* The end of a batch writes the buffer; then the next read or the end.
ConnFlush ==
    /\ phase = "flush" \/ (phase = "handle" /\ batch = <<>>)
    /\ got' = got \o wr /\ wr' = <<>>
    /\ phase' = IF phase = "flush" THEN "closed" ELSE "read"
    /\ UNCHANGED <<stream, arrived, rdbuf, batch, outputType, authenticated, remote, http, pass, passSets,
                   handled, ran, gave, bypassed>>

(***************************************************************************)
(* Others: CONFIG SET requirepass, and CLIENT KILL or a broken connection  *)
(***************************************************************************)
PassChanges ==
    /\ passSets < MaxPassSets /\ phase # "closed"
    /\ pass' = ~pass /\ passSets' = passSets + 1
    /\ UNCHANGED <<stream, arrived, rdbuf, batch, outputType, authenticated, wr, got, phase, remote, http,
                   handled, ran, gave, bypassed>>

ConnLost ==
    /\ phase # "closed"
    /\ phase' = "closed" /\ wr' = <<>>
    /\ UNCHANGED <<stream, arrived, rdbuf, batch, outputType, authenticated, got, remote, http, pass, passSets,
                   handled, ran, gave, bypassed>>

ConnNext ==
    \/ ConnOpened \/ ReadMessages \/ HttpRefused \/ Unnamed \/ Ping \/ QuitCommand \/ AuthRefused \/ AuthAccepted
    \/ RunCommand \/ RunSilent \/ cmdOutput \/ PastBuffer \/ ConnFlush \/ PassChanges \/ ConnLost

(***************************************************************************)
(* Properties                                                              *)
(***************************************************************************)
Visible == {i \in DOMAIN stream : stream[i].kind # "blank"}

\* The format that the client expects of a reply: what it last asked for with
\* OUTPUT, or else that of its first message.
Expected(i) ==
    LET asked == {r.of : r \in {x \in ran : x.of <= i /\ stream[x.of].kind \in {"json", "resp"}}}
    IN IF asked = {} THEN Format(stream[handled[1]])
       ELSE stream[CHOOSE x \in asked : \A y \in asked : y <= x].kind

\* Handled in the order they were sent, each once and none left out.
HandledOnce ==
    /\ \A k \in DOMAIN handled : handled[k] \in Visible
    /\ \A k \in 1..(Len(handled) - 1) :
          /\ handled[k] < handled[k + 1]
          /\ \A i \in Visible : ~(handled[k] < i /\ i < handled[k + 1])
    /\ handled # <<>> => \A i \in Visible : i >= handled[1]

\* However the network cuts the stream, every message is handled once and in
\* order, and the replies, those in the buffer included, are in that order, one
\* for each, and in the format the client expects; only an empty result, a QUIT
\* in JSON, an empty name, and what goes past the buffer make exceptions.
RepliesMatch ==
    LET replies == got \o wr
        due == SelectSeq(handled, LAMBDA i :
                  \/ stream[i].kind \notin {"silent", "quit"}
                  \/ stream[i].kind = "silent" /\ i \notin {r.of : r \in ran}
                  \/ stream[i].kind = "quit" /\ Expected(i) = "resp")
    IN /\ HandledOnce
       /\ ~bypassed /\ phase \in {"read", "handle", "flush"} =>
             /\ [k \in DOMAIN replies |-> replies[k].of] = due
             /\ \A k \in DOMAIN replies : replies[k].as \in {Expected(replies[k].of), "500"}

=============================================================================
