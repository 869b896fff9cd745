--------------------------- MODULE MC_DockerCollect ---------------------------
(* Small instances of DockerCollect for TLC: three containers.               *)
EXTENDS DockerCollect

CONSTANTS c1, c2, c3, w1, w2, w3

\* Every container is a workload of its own.
Distinct == [c \in {c1, c2, c3} |-> CASE c = c1 -> w1 [] c = c2 -> w2 [] c = c3 -> w3]

\* c1 and c2 were made for the same Swarm slot, one after the other.
Recreated == [c \in {c1, c2, c3} |-> IF c = c3 THEN w2 ELSE w1]

\* An engine runs at most one container of a slot.
OneRuns == ~(state[c1] = "running" /\ state[c2] = "running")
=============================================================================
