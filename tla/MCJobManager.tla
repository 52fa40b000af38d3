---------------------------- MODULE MCJobManager ----------------------------
(* Job manager instances for TLC.                                          *)
EXTENDS JobManager, TLC

CONSTANTS s1, s2, s3, j1, j2, q1, q2

ThreeServers == {s1, s2, s3}
TwoJobs == {j1, j2}
TwoOps == {q1, q2}

JobSymmetry == Permutations(Servers) \cup Permutations(Jobs) \cup Permutations(Ops)

\* The bounds of the run: one job under a succession of server processes, or
\* two jobs under the first one while it lives, both of which succeed and one
\* of which has replies cut off.  PIDs are reused with one job and server.
Begun == {j \in Jobs : proc[j] # "none" \/ \E q \in Ops : op[q].at = "spawn" /\ op[q].job = j}
RestartsOrJobs ==
    /\ Cardinality(Begun) > 1 =>
          /\ starts = 1 /\ \E p \in Servers : server[p] # "down"
          /\ Cardinality(misread) <= 1
          /\ \A j \in Jobs : meta[j] # "failed"
    /\ Cardinality(Begun) > 1 \/ starts > 1 => \A j \in Jobs : ~reused[j]
=============================================================================
