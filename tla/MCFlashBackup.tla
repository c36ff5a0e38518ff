---------------------------- MODULE MCFlashBackup ----------------------------
(* Small instances of FlashBackup for TLC.                                 *)
EXTENDS FlashBackup, TLC

(* Calls are interchangeable.                                              *)
Symmetry == Permutations(Calls)
=============================================================================
