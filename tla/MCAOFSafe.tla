------------------------------ MODULE MCAOFSafe ------------------------------
(* Small instances of AOF that satisfy the conditions of AOFSafe. *)
EXTENDS MCAOF, AOFSafe
=============================================================================
