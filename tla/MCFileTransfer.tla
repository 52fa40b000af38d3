--------------------------- MODULE MCFileTransfer ---------------------------
(* File transfer instances for TLC.                                        *)
EXTENDS FileTransfer, TLC

CONSTANTS f1, f2, c1, c2

FileAndLink == <<f1, f2>>
TheLink == {f2}
TwoCalls == {c1, c2}
TwoVersions == {<<1, 2>>, <<2, 2>>}

\* The bound of the run: two calls, of which no two batches run at once (a
\* batch copies as the single-file calls do) and no two run past the first
\* second, or three uploads (whose steps read no clock), so that two of them
\* meet what a third one left.
RetriesOrBatches ==
    \/ /\ made <= 2
       /\ Cardinality({c \in Calls : Running(c) /\ call[c].op \in Batches}) <= 1
       /\ now = 0 \/ Cardinality({c \in Calls : Running(c)}) <= 1
    \/ now = 0 /\ \A c \in Calls : call[c].op \in {"none", "upload"}

CallSymmetry == Permutations(Calls)
=============================================================================
