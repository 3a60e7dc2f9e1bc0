------------------------------ MODULE MCTools ------------------------------
EXTENDS ToolsSafety

(* Files that fit into the log with the other blocks of their transaction,  *)
(* and files that fill it or exceed it, by the directory they are put in.   *)
MixedFiles == {[n \in 1 .. len |-> Zero] : len \in {1, 3}}
=============================================================================
