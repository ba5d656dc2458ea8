------------------------------- MODULE Follow -------------------------------
(***************************************************************************)
(* Replication: follow.go, checksum.go and the sending side in aof.go.     *)
(*                                                                         *)
(* A follower asks its leader for the append-only file from a position on, *)
(* executes what it receives and appends it to its own file.  The position *)
(* comes from comparing checksums of windows of the two files.  Every      *)
(* FOLLOW starts a goroutine of its own; a counter, followc, retires the   *)
(* ones before it.                                                         *)
(*                                                                         *)
(* A command takes CmdSize bytes of a file.  Commands are numbered in the  *)
(* order in which leaders execute them, and a dataset is the sequence of   *)
(* commands that led to it.                                                *)
(***************************************************************************)
EXTENDS Naturals, Sequences, FiniteSets, SequencesExt

CONSTANTS Leaders,
          NoOne,
          CmdSize,     \* bytes of a command
          checksumsz,  \* bytes of a window
          MaxWrites,   \* commands leaders execute in a behaviour, at most
          MaxFollows,  \* FOLLOW commands, at most
          Worlds       \* what may happen in one behaviour: the leaders there are,
                       \* writes, FOLLOWs, breaks of a connection and shrinks

ASSUME SizesArePositive == CmdSize \in Nat \ {0} /\ checksumsz \in Nat \ {0}

Gs == 1..MaxFollows

VARIABLES
    lfile,     \* the file of each leader
    written,   \* commands executed by leaders
    \* the follower
    ffile,     \* its file
    aofsz,     \* c.aofsz
    fdata,     \* its dataset
    host,      \* config.followHost
    followc,   \* c.followc
    fcup,      \* c.fcup
    fcuponce,  \* c.fcuponce
    dialing,   \* leaders that a FOLLOW is dialing, without c.mu
    g,         \* the follow goroutine of each value of followc
    \* the connection of each goroutine
    net,       \* commands on their way to the follower
    sender,    \* liveAOF on the leader
    \* faults and history
    world, drops, shrinks,
    missed,    \* a broadcast found liveAOF between the end of the file and Wait
    clean      \* neither a shrink, nor a new leader, nor a file too short to compare

leaderVars == <<lfile, written, shrinks, world>>
fileVars == <<ffile, aofsz, fdata, clean>>
flagVars == <<host, followc, fcup, fcuponce, dialing>>
netVars == <<net, sender, missed, drops>>
followVars == <<leaderVars, fileVars, flagVars, g, netVars>>

Cmds == Leaders \X (1..MaxWrites)   \* the leader that executed it, and its number
Size(file) == CmdSize * Len(file)
NoStep == [st |-> "none", leader |-> NoOne, aofSize |-> 0, pos |-> 0, caughtUp |-> FALSE]
Off == [st |-> "off", pos |-> 0]

FollowInit ==
    /\ lfile = [l \in Leaders |-> <<>>] /\ written = 0
    /\ ffile = <<>> /\ aofsz = 0 /\ fdata = <<>>
    /\ host = NoOne /\ followc = 0 /\ fcup = FALSE /\ fcuponce = FALSE /\ dialing = {}
    /\ g = [i \in Gs |-> NoStep]
    /\ net = [i \in Gs |-> <<>>] /\ sender = [i \in Gs |-> Off]
    /\ world \in Worlds /\ drops = 0 /\ shrinks = 0 /\ missed = [i \in Gs |-> FALSE] /\ clean = TRUE

(***************************************************************************)
(* The leader                                                              *)
(***************************************************************************)
Sends(i, l) == g[i].leader = l /\ sender[i].st # "off"


\* writeAOF: append, then broadcast on fcond.  A sender that has seen the end
\* of the file but does not wait yet does not hear it.
LeaderWrite(l) ==
    /\ written < world.writes
    /\ written' = written + 1
    /\ lfile' = [lfile EXCEPT ![l] = Append(@, <<l, written'>>)]
    /\ sender' = [i \in Gs |-> IF Sends(i, l) /\ sender[i].st = "wait"
                               THEN [sender[i] EXCEPT !.st = "read"] ELSE sender[i]]
    /\ missed' = [i \in Gs |-> missed[i] \/ (Sends(i, l) /\ sender[i].st = "eof")]
    /\ UNCHANGED <<shrinks, world, fileVars, flagVars, g, net, drops>>

\* aofshrink puts a file of another shape in place and closes the connections
\* registered in aofconnM; one that was accepted but not registered stays.
Shrink(l) ==
    /\ shrinks < world.shrinks /\ Len(lfile[l]) > 1 /\ written < world.writes
    /\ shrinks' = shrinks + 1 /\ written' = written + 1
    /\ lfile' = [lfile EXCEPT ![l] = <<<<l, written'>>>>]
    /\ sender' = [i \in Gs |-> IF Sends(i, l) /\ sender[i].st # "accepted" THEN Off ELSE sender[i]]
    /\ clean' = FALSE
    /\ UNCHANGED <<world, ffile, aofsz, fdata, flagVars, g, net, missed, drops>>


\* liveAOF registers the connection, then opens and positions the file.
SenderOpens(i) ==
    /\ sender[i].st = "accepted"
    /\ sender' = [sender EXCEPT ![i].st = "read"]
    /\ UNCHANGED <<leaderVars, fileVars, flagVars, g, net, missed, drops>>

\* io.Copy and the read loop.
SenderReads(i) ==
    LET file == lfile[g[i].leader] IN
    /\ sender[i].st = "read"
    /\ IF sender[i].pos < Size(file)
       THEN /\ net' = [net EXCEPT ![i] = Append(@, file[sender[i].pos \div CmdSize + 1])]
            /\ sender' = [sender EXCEPT ![i].pos = @ + CmdSize]
       ELSE /\ sender' = [sender EXCEPT ![i].st = "eof"]
            /\ UNCHANGED net
    /\ missed' = [missed EXCEPT ![i] = FALSE]
    /\ UNCHANGED <<leaderVars, fileVars, flagVars, g, drops>>

SenderWaits(i) ==
    /\ sender[i].st = "eof"
    /\ sender' = [sender EXCEPT ![i].st = "wait"]
    /\ UNCHANGED <<leaderVars, fileVars, flagVars, g, net, missed, drops>>

\* The connection breaks; what is on its way may still arrive.
Drop(i) ==
    /\ drops < world.drops /\ sender[i].st # "off"
    /\ drops' = drops + 1
    /\ sender' = [sender EXCEPT ![i] = Off]
    /\ UNCHANGED <<leaderVars, fileVars, flagVars, g, net, missed>>

(***************************************************************************)
(* FOLLOW                                                                  *)
(***************************************************************************)
\* cmdFollow gives up c.mu while it dials the new leader.
FollowDial(l) ==
    /\ host # l /\ l \notin dialing
    /\ followc + Cardinality(dialing) < world.follows
    /\ dialing' = dialing \cup {l}
    /\ UNCHANGED <<leaderVars, fileVars, host, followc, fcup, fcuponce, g, netVars>>

\* The leader cannot be reached, is this server, or follows another.
FollowRefused(l) ==
    /\ l \in dialing
    /\ dialing' = dialing \ {l}
    /\ UNCHANGED <<leaderVars, fileVars, host, followc, fcup, fcuponce, g, netVars>>

FollowCommit(l) ==
    /\ l \in dialing
    /\ dialing' = dialing \ {l}
    /\ host' = l
    /\ followc' = followc + 1
    /\ g' = [g EXCEPT ![followc'] = [NoStep EXCEPT !.st = "start", !.leader = l]]
    /\ clean' = (clean /\ followc = 0)
    /\ UNCHANGED <<leaderVars, ffile, aofsz, fdata, fcup, fcuponce, netVars>>

\* FOLLOW no one.
FollowNoOne ==
    /\ host # NoOne /\ followc + Cardinality(dialing) < world.follows
    /\ host' = NoOne
    /\ followc' = followc + 1
    /\ UNCHANGED <<leaderVars, fileVars, fcup, fcuponce, dialing, g, netVars>>

(***************************************************************************)
(* followCheckSome                                                         *)
(***************************************************************************)
Byte(file, p) == <<file[p \div CmdSize + 1], p % CmdSize>>
\* checksum fails at the end of the file, by aofsz or by what there is.
Readable(file, size, p) == p + checksumsz <= size /\ p + checksumsz <= Size(file)
matchChecksums(file, p) ==
    /\ Readable(ffile, aofsz, p) /\ Readable(file, Size(file), p)
    /\ \A b \in p..(p + checksumsz - 1) : Byte(ffile, b) = Byte(file, b)

\* Halve the gap between the window that matched and the one that did not.
RECURSIVE Narrow(_, _, _, _)
Narrow(file, min, max, limit) ==
    IF max < min \/ max + checksumsz > limit THEN min
    ELSE LET m == matchChecksums(file, max)
             min2 == IF m THEN max + checksumsz ELSE min
             limit2 == IF m THEN limit ELSE max
         IN Narrow(file, min2, (limit2 - min2) \div 2 + min2 - checksumsz \div 2, limit2)

FullPos(file) ==
    IF matchChecksums(file, 0)
    THEN Narrow(file, checksumsz, aofsz - checksumsz, aofsz)
    ELSE 0

\* The end of the command that the byte before p belongs to.
getEndOfLastValuePositionInFile(p) == CmdSize * ((p + CmdSize - 1) \div CmdSize)

\* The position to ask for, and what is left of file, size and dataset.  A file
\* shorter than a window is left alone; one whose first window differs is
\* emptied, but neither aofsz nor the dataset is.
Resume(pos, file, size, data) == [pos |-> pos, file |-> file, size |-> size, data |-> data]
followCheckSome(file) ==
    LET full == FullPos(file)
        pos == getEndOfLastValuePositionInFile(full)
        kept == SubSeq(ffile, 1, pos \div CmdSize)
    IN CASE aofsz < checksumsz -> Resume(0, ffile, aofsz, fdata)
         [] aofsz >= checksumsz /\ full = 0 -> Resume(0, <<>>, aofsz, fdata)
         [] aofsz >= checksumsz /\ full > 0 /\ pos = full -> Resume(pos, ffile, aofsz, fdata)
         [] OTHER -> Resume(pos, kept, pos, kept)

\* The sizes at which the search is known to find where an intact file ends.
Comparable(size) ==
    \/ size = 0
    \/ size >= 2 * checksumsz
    \/ size >= checksumsz /\ checksumsz % CmdSize # 0

(***************************************************************************)
(* follow: one attempt after the other, until followc has moved on         *)
(***************************************************************************)
\* Mutant: only FOLLOW no one retires a goroutine.
RetiredByNoOne(i) == host = NoOne
Retired(i) == followc # i


\* The top of followStep: dial, and the leader's size from SERVER.
StepStart(i) ==
    /\ g[i].st = "start"
    /\ IF Retired(i)
       THEN g' = [g EXCEPT ![i].st = "done"] /\ UNCHANGED fcup
       ELSE /\ fcup' = FALSE
            /\ g' = [g EXCEPT ![i].st = "check", ![i].aofSize = Size(lfile[g[i].leader]),
                              ![i].caughtUp = FALSE]
    /\ UNCHANGED <<leaderVars, fileVars, host, followc, fcuponce, dialing, netVars>>

StepCheck(i) ==
    LET r == followCheckSome(lfile[g[i].leader]) IN
    /\ g[i].st = "check"
    /\ IF Retired(i)
       THEN g' = [g EXCEPT ![i].st = "done"] /\ UNCHANGED fileVars
       ELSE /\ g' = [g EXCEPT ![i].st = "request", ![i].pos = r.pos]
            /\ ffile' = r.file /\ aofsz' = r.size /\ fdata' = r.data
            /\ clean' = (clean /\ Comparable(aofsz))
    /\ UNCHANGED <<leaderVars, flagVars, netVars>>

\* AOF pos: refused when the leader's file is shorter.  The flags are set
\* whether or not this goroutine has been retired.
StepRequest(i) ==
    LET up == g[i].pos >= g[i].aofSize IN
    /\ g[i].st = "request"
    /\ IF Size(lfile[g[i].leader]) < g[i].pos
       THEN g' = [g EXCEPT ![i].st = "start"] /\ UNCHANGED <<fcup, fcuponce, net, sender>>
       ELSE /\ g' = [g EXCEPT ![i].st = "stream", ![i].caughtUp = up]
            /\ fcup' = (fcup \/ up) /\ fcuponce' = (fcuponce \/ up)
            /\ sender' = [sender EXCEPT ![i] = [st |-> "accepted", pos |-> g[i].pos]]
            /\ net' = [net EXCEPT ![i] = <<>>]
    /\ UNCHANGED <<leaderVars, fileVars, host, followc, dialing, missed, drops>>

\* followHandleCommand, and the flags after it.
StepHandle(i) ==
    /\ g[i].st = "stream" /\ net[i] # <<>>
    /\ IF Retired(i)
       THEN /\ g' = [g EXCEPT ![i].st = "done"]
            /\ sender' = [sender EXCEPT ![i] = Off]
            /\ UNCHANGED <<fileVars, fcup, fcuponce, net>>
       ELSE /\ fdata' = Append(fdata, Head(net[i]))
            /\ ffile' = Append(ffile, Head(net[i]))
            /\ aofsz' = aofsz + CmdSize
            /\ net' = [net EXCEPT ![i] = Tail(@)]
            /\ LET up == aofsz' >= g[i].aofSize IN
               /\ g' = [g EXCEPT ![i].caughtUp = @ \/ up]
               /\ fcup' = (fcup \/ (up /\ ~g[i].caughtUp))
               /\ fcuponce' = (fcuponce \/ up)
            /\ UNCHANGED <<clean, sender>>
    /\ UNCHANGED <<leaderVars, host, followc, dialing, missed, drops>>

\* The end of the stream; a second later, from the top.
StepEOF(i) ==
    /\ g[i].st = "stream" /\ net[i] = <<>> /\ sender[i].st = "off"
    /\ g' = [g EXCEPT ![i].st = "start"]
    /\ UNCHANGED <<leaderVars, fileVars, flagVars, netVars>>

FollowStep(i) == StepStart(i) \/ StepCheck(i) \/ StepRequest(i) \/ StepHandle(i) \/ StepEOF(i)
LiveAOF(i) == SenderOpens(i) \/ SenderReads(i) \/ SenderWaits(i)

FollowNext ==
    \/ \E l \in world.leaders : LeaderWrite(l) \/ Shrink(l) \/ FollowDial(l) \/ FollowRefused(l) \/ FollowCommit(l)
    \/ FollowNoOne
    \/ \E i \in Gs : FollowStep(i) \/ LiveAOF(i) \/ Drop(i)

FollowFairness == \A i \in Gs : WF_followVars(FollowStep(i)) /\ WF_followVars(LiveAOF(i))

FollowSpec == FollowInit /\ [][FollowNext]_followVars /\ FollowFairness



\* A command is executed only when it comes from the leader that the last
\* FOLLOW named, whatever goroutines of earlier ones are still about.
OnlyFromLeader ==
    [][Len(ffile') > Len(ffile) => host # NoOne /\ Last(ffile')[1] = host]_followVars


\* followCheckSome finds "the correct position to start at": the follower's
\* file is what precedes it in the leader's.
StartsRight ==
    \A i \in Gs : g[i].st = "request" /\ followc = i =>
        ffile = SubSeq(lfile[g[i].leader], 1, g[i].pos \div CmdSize)
=============================================================================
