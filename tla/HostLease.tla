------------------------------ MODULE HostLease ------------------------------
(***************************************************************************)
(* What the connection pool promises its callers, without pools, locks or  *)
(* dials: a host has at most one configuration at a time; an operation     *)
(* that is given a connection to a host is given one to the configuration  *)
(* the host has at that moment, and keeps it, unchanged by any later       *)
(* reconfiguration, until the operation ends.                              *)
(***************************************************************************)
CONSTANTS Tasks, Hosts, Configs, NoConfig

VARIABLES
    current,    \* the configuration of each host
    lease       \* the host and configuration each operation works on

NoLease == [host |-> "none", cfg |-> "none"]
LeaseTo(h) == [host |-> h, cfg |-> current[h]]

LeaseInit ==
    /\ current \in [Hosts -> Configs \cup {NoConfig}]
    /\ lease = [t \in Tasks |-> NoLease]

\* Registration, removal, or discovery of an ssh-config alias.
Configure(h) ==
    /\ \E cfg \in Configs \cup {NoConfig} : current' = [current EXCEPT ![h] = cfg]
    /\ UNCHANGED lease

Grant(t, h) ==
    /\ lease[t] = NoLease
    /\ current[h] # NoConfig
    /\ lease' = [lease EXCEPT ![t] = LeaseTo(h)]
    /\ UNCHANGED current

End(t) ==
    /\ lease' = [lease EXCEPT ![t] = NoLease]
    /\ UNCHANGED current

LeaseNext ==
    \/ \E h \in Hosts : Configure(h)
    \/ \E t \in Tasks, h \in Hosts : Grant(t, h)
    \/ \E t \in Tasks : End(t)

LeaseSpec == LeaseInit /\ [][LeaseNext]_<<current, lease>>
=============================================================================
