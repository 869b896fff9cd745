---------------------------- MODULE MC_Delivery ----------------------------
(* Small instances of Delivery for TLC. *)
EXTENDS Delivery, TLC

\* Resources, clients and payload contents are interchangeable.
Symmetry == Permutations(Resource) \cup Permutations(Client) \cup Permutations(Info)
=============================================================================
