---------------------------- MODULE MCShellChannel ----------------------------
(* Instances of ShellChannel for TLC.                                      *)
EXTENDS ShellChannel, TLC

CONSTANTS c1, c2

CallerSymmetry == Permutations(Callers)
=============================================================================
