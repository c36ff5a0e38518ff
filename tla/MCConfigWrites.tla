----------------------------- MODULE MCConfigWrites -----------------------------
(* Two calls on one share, and then on the autostart list of three         *)
(* containers: the two configurations have nothing in common.              *)
EXTENDS ConfigWrites, TLC

CONSTANTS c1, c2, a, b, d

ContainersDef == <<a, b, d>>
Symmetry == Permutations(Calls)

=============================================================================
