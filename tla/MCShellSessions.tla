--------------------------- MODULE MCShellSessions ---------------------------
(* Instances of ShellSessions for TLC.                                     *)
EXTENDS ShellSessions, TLC

CONSTANTS s1, s2, u1, c1, c2, web, padded, yamlCfg

Registered == [h \in Hosts |-> yamlCfg]
Stripped == [n \in RawNames |-> web]

Symmetries == Permutations(Callers) \cup Permutations(Sessions)
=============================================================================
