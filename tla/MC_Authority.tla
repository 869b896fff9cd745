---------------------------- MODULE MC_Authority ----------------------------
(* Small instances of Authority for TLC: three keys and the four providers   *)
(* of a configuration that is accepted.                                     *)
EXTENDS Authority, Configuration

CONSTANTS k1, k2, k3

\* agentless_ssh is attached to k1, which windows_wsl discovers later in the cycle
\* with the same priority; windows_ssh is attached to k2, which proxmox discovers,
\* and discovers k3 under it.
AttachedTarget == <<{}, {k1}, {}, {k2}>>
AttachedEmits  == <<{k2}, {k1}, {k1}, {k2, k3}>>
AttachedParent == <<{k2}, {}, {k1}, {k3}>>
AttachedPrio   == <<10, 100, 100, 100>>

-----------------------------------------------------------------------------
(* The configuration of that instance *)

Plain       == [complete |-> TRUE, nvidia |-> FALSE, slurm |-> FALSE,
                attach |-> [given |-> {}, key |-> None]]
AttachTo(k) == [Plain EXCEPT !.attach = [given |-> Parts, key |-> k]]

Attached ==
    [komari |-> TRUE, interval |-> 0, timeout |-> 0,
     providers |-> [t \in Types |->
                      CASE t \in {"proxmox", "windows_wsl"} -> <<Plain>>
                        [] t = "agentless_ssh" -> <<AttachTo(k1)>>
                        [] t = "windows_ssh" -> <<AttachTo(k2)>>
                        [] OTHER -> <<>>]]

\* It is accepted, and gives the targets and the priorities above.
ASSUME AttachedAssumption ==
    /\ Valid(WithDefaults(Attached))
    /\ Cardinality(Providers(Attached)) = N
    /\ \A p \in 1..N :
        /\ AttachedTarget[p] = MetricTargets(Attached, Built(Attached, p))
        /\ AttachedPrio[p] = Rank(Built(Attached, p))

\* With a second provider attached to a key, a key given in part, host options
\* for slurm, or an interval that Komari would not wait for, it is not.
ASSUME RefusedAssumption ==
    \A cfg \in {[Attached EXCEPT !.providers["linux_ssh"] = <<AttachTo(k1)>>],
                [Attached EXCEPT !.providers["windows_ssh"] = <<AttachTo(k2), AttachTo(k2)>>],
                [Attached EXCEPT !.providers["docker"] =
                    <<[Plain EXCEPT !.attach.given = {"source"}]>>],
                [Attached EXCEPT !.providers["slurm"] = <<[Plain EXCEPT !.nvidia = TRUE]>>],
                [Attached EXCEPT !.interval = PresenceTTL]} :
        ~Valid(WithDefaults(cfg))
=============================================================================
