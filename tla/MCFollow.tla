------------------------------ MODULE MCFollow ------------------------------
(***************************************************************************)
(* Instances of Follow.  With windows of three bytes and commands of two,  *)
(* a file of one command is too short to compare, one of two is between    *)
(* one window and two, and longer ones go through the search.              *)
(***************************************************************************)
EXTENDS Follow

CONSTANTS l1, l2

World(ls, writes, follows, drps, shrnks) ==
    [leaders |-> ls, writes |-> writes, follows |-> follows, drops |-> drps, shrinks |-> shrnks]

\* One leader whose connection breaks; one that shrinks; a change of leader
\* with a break.
MCWorlds == {World({l1}, 5, 1, 2, 0), World({l1}, 4, 1, 1, 1), World({l1, l2}, 2, 2, 1, 0)}
=============================================================================
