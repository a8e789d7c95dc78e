-------------------------- MODULE MC_BPlusTreeCrash --------------------------
(* The crash composition with the constants of MC_BPlusTree; four keys   *)
(* are enough for a root split after a Sync.                             *)
EXTENDS BPlusTreeCrash

CONSTANTS v1

KeysCrash == 1..4
ValsOne == {v1}
=============================================================================
