-------------------------- MODULE MCConnectionPool --------------------------
(* Instances of ConnectionPool for TLC.                                    *)
EXTENDS ConnectionPool, TLC

CONSTANTS t1, t2, t3, web, padded, yamlCfg, aliasCfg

Registered == [h \in Hosts |-> yamlCfg]
Stripped == [n \in RawNames |-> web]

TaskSymmetry == Permutations(Tasks)

\* The bound of the safety run: three operations and two reconfigurations with
\* normalized names, or two and one with a name in two spellings.
RawOrThree ==
    (\E t \in Tasks : op[t] # Idle /\ op[t].name \in RawNames) \/ (\E c \in ConnIds : missed[c] > 0)
        => /\ Cardinality({t \in Tasks : op[t] # Idle}) <= 2
           /\ \A h \in Hosts : generation[h] <= 1
=============================================================================
