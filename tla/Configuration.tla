---------------------------- MODULE Configuration ----------------------------
(***************************************************************************)
(* What internal/config accepts, and what buildProviders of                *)
(* cmd/komari-bridge makes of it: which providers there are, in which      *)
(* order they are collected, and whose metrics each of them owns.          *)
(*                                                                         *)
(* A provider of the file is [complete, nvidia, slurm, attach].  complete  *)
(* says that its required names and credentials are there (and, for        *)
(* Proxmox, that every guest_memory is qga; for Docker, that the TLS files *)
(* are a pair).  attach is [given, key]: which parts of attach_to are not  *)
(* empty, and the key that joining the parts gives.  Durations are in      *)
(* seconds, and a duration that is not given is 0.                         *)
(***************************************************************************)
EXTENDS Integers, FiniteSets

\* The keys of providers:, in the order in which buildProviders reads them.
Order == <<"proxmox", "docker", "agentless_ssh", "slurm", "windows_wsl",
           "linux_ssh", "windows_ssh">>
Types == {Order[n] : n \in 1..7}

PresenceTTL == 35

\* The parts of an identity; Identity.Valid asks for all of them.
Parts == {"type", "source", "external"}

\* The providers of a configuration, each by its key and its index there.
Providers(cfg) == UNION {{t} \X DOMAIN cfg.providers[t] : t \in Types}

Configured(cfg, r) == cfg.providers[r[1]][r[2]]

-----------------------------------------------------------------------------
(* Load *)

WithDefaults(cfg) ==
    [cfg EXCEPT !.interval = IF @ = 0 THEN 20 ELSE @,
                !.timeout = IF @ = 0 THEN 10 ELSE @]

\* Of attach_to, everything is given or nothing.
ValidAttach(attach) == attach.given \in {{}, Parts}

\* The checks of one provider; those of proxmox have no attach_to.
ValidProvider(type, p) ==
    /\ p.complete
    /\ type # "proxmox" => ValidAttach(p.attach)
    /\ type = "agentless_ssh" => ~p.slurm
    /\ type = "slurm" => ~p.nvidia /\ "type" \notin p.attach.given
    /\ type = "windows_wsl" => ~p.nvidia

\* The providers that validateUniqueMetricAuthorities looks at.
Owners(cfg) ==
    {r \in Providers(cfg) : /\ r[1] \in {"agentless_ssh", "linux_ssh", "windows_ssh"}
                            /\ "type" \in Configured(cfg, r).attach.given}

UniqueAuthorities(cfg) ==
    \A r, s \in Owners(cfg) :
        Configured(cfg, r).attach.key = Configured(cfg, s).attach.key => r = s

\* komari says that endpoint and auto_discovery_key are there.
Valid(cfg) ==
    /\ cfg.komari
    /\ cfg.interval < PresenceTTL
    /\ \A r \in Providers(cfg) : ValidProvider(r[1], Configured(cfg, r))
    /\ UniqueAuthorities(cfg)

-----------------------------------------------------------------------------
(* The providers that are built *)

\* r is built, and collected in every cycle, before s.
Before(r, s) ==
    \E m, n \in 1..7 :
        /\ Order[m] = r[1] /\ Order[n] = s[1]
        /\ m < n \/ (m = n /\ r[2] < s[2])

\* The p-th provider.
Built(cfg, p) ==
    CHOOSE r \in Providers(cfg) :
        Cardinality({s \in Providers(cfg) : Before(s, r)}) = p - 1

\* MetricTargets: a slurm provider has no host report and a windows_wsl provider
\* reports no host; those of proxmox and docker own no metrics.
MetricTargets(cfg, r) ==
    IF /\ r[1] \notin {"proxmox", "docker", "slurm", "windows_wsl"}
       /\ "type" \in Configured(cfg, r).attach.given
    THEN {Configured(cfg, r).attach.key}
    ELSE {}

\* The priority of its snapshots.
Rank(r) ==
    CASE r[1] = "proxmox" -> 10
      [] r[1] = "docker" -> 20
      [] OTHER -> 100
=============================================================================
