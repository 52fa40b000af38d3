-------------------------- MODULE MCCredentialAgent --------------------------
(* Credential agent instances for TLC.                                     *)
EXTENDS CredentialAgent, TLC

CONSTANTS a1, a2, t1, t2, h1, v1, v2, pw

TwoAgents == {a1, a2}
TwoClients == {t1, t2}
OneHost == {h1}
SshAndSudo == {"ssh", "sudo"}
TwoValues == {v1, v2}
Commands == [k \in Keys |-> IF k[1] = "sudo" THEN pw ELSE NoVal]

AgentSymmetry == Permutations(Agents) \cup Permutations(Clients) \cup Permutations(TwoValues)
=============================================================================
