-------------------------- MODULE MCJournalHistory --------------------------
EXTENDS JournalHistory, TLC

(* The home blocks are interchangeable, and so are the jfs_checklog         *)
(* processes: no action treats one apart.                                   *)
Symmetry == Permutations(Block) \cup Permutations(Checker)
=============================================================================
