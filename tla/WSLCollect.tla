----------------------------- MODULE WSLCollect -----------------------------
(***************************************************************************)
(* What Collect of windowsssh makes of the output of its script, for the   *)
(* Windows host and for each WSL distribution, with the cache that stands  *)
(* in for a GPU probe that failed (providers/windowsssh/windowsssh.go).    *)
(* The connection and the rerun are in SSHCollect.                         *)
(*                                                                         *)
(* A GPU probe fails, finds none ("none") or finds some ("some").  A GPU   *)
(* shown is a Probe: what was found, and when.                             *)
(***************************************************************************)
EXTENDS Integers

CONSTANTS
    Distro,    \* registered distributions
    EmitHost,  \* the provider reports the Windows host (windows_ssh)
    NVIDIA,    \* EnableNVIDIA; never set for windows_wsl
    Discover,  \* DiscoverWSL; always set for windows_wsl
    Grace,     \* wslGPUGracePeriod
    MaxTime,   \* bound on the clock
    None       \* nothing cached, no snapshot, nothing known of a GPU

ASSUME WSLAssumption ==
    /\ Grace \in Nat /\ MaxTime \in Nat
    /\ EmitHost \in BOOLEAN /\ NVIDIA \in BOOLEAN /\ Discover \in BOOLEAN
    /\ ~EmitHost => Discover /\ ~NVIDIA

Time  == 0..MaxTime
Found == {"none", "some"}
Probe == [found : Found, probed : Time, savedAt : Time]
Shown == [found : Found, age : Time]

\* What the script says of the host and of a distribution: whether the
\* validation accepts the data, and how the GPU probe went.
Data   == [valid : BOOLEAN, gpu : Found \cup {"failed"}]
Absent == [valid |-> FALSE, gpu |-> "absent"]   \* stopped, or no output at all

\* A snapshot that is online shows a GPU probe, or None after one that failed.
Snapshot == [online : BOOLEAN, gpu : Shown \cup {None}]

ASSUME NothingAssumption == None \notin Probe \cup Shown \cup Snapshot \cup Found

VARIABLES
    now,      \* the clock
    cache,    \* previousWGPU
    host,     \* the host's snapshot of the last Collect, or None
    distros,  \* the distributions' snapshots of the last Collect, or None
    stored,   \* history: the GPU that the last online snapshot left in Komari
    sound     \* history: the host's data was valid and its GPU probe worked

vars == <<now, cache, host, distros, stored, sound>>

\* Every variable has its type.
TypeOK ==
    /\ now \in Time
    /\ cache \in [Distro -> Probe \cup {None}]
    /\ host \in Snapshot \cup {None}
    /\ distros \in [Distro -> Snapshot \cup {None}]
    /\ stored \in [Distro -> Found \cup {None}]
    /\ sound \in BOOLEAN

Init ==
    /\ now = 0
    /\ cache = [d \in Distro |-> None]
    /\ host = None
    /\ distros = [d \in Distro |-> None]
    /\ stored = [d \in Distro |-> None]
    /\ sound = FALSE

-----------------------------------------------------------------------------
(* stabilizeWSLGPU *)

Offline == [online |-> FALSE, gpu |-> None]

\* A cached probe that may still stand in for a failed one.
StillGood(probe) == probe # None /\ now - probe.savedAt <= Grace

\* The GPU of a distribution that is up: probed, or cached if its probe failed.
\* Without EnableNVIDIA a failed probe is not told from one that found none.
GPU(data, entry) ==
    IF data.gpu \in Found THEN [found |-> data.gpu, age |-> 0]
    ELSE IF NVIDIA /\ StillGood(entry) THEN [found |-> entry.found, age |-> now - entry.probed]
    ELSE None

\* mutant: a failed probe does not take the distribution offline (GPUNotCleared)
UpAnyway(data, entry) == data # Absent

\* Online after the GPU was stabilised.
Up(data, entry) == data # Absent /\ (NVIDIA => GPU(data, entry) # None)

\* mutant: a cached probe that stood in counts as a new one (GPUAgeBounded)
SavedAgain(data, entry) ==
    IF NVIDIA /\ data.gpu \in Found
    THEN [found |-> data.gpu, probed |-> now, savedAt |-> now]
    ELSE IF NVIDIA /\ data # Absent /\ StillGood(entry)
    THEN [found |-> entry.found, probed |-> entry.probed, savedAt |-> now]
    ELSE entry

\* previousWGPU afterwards.
Saved(data, entry) ==
    IF NVIDIA /\ data.gpu \in Found
    THEN [found |-> data.gpu, probed |-> now, savedAt |-> now] ELSE entry

-----------------------------------------------------------------------------
(* Collect *)

\* Distributions whose GPUs may be shown for the host's: the first of them in
\* the order of the registry is.
Lenders(seen, entries) ==
    {d \in Distro : /\ Up(seen[d], entries[d])
                    /\ GPU(seen[d], entries[d]) # None
                    /\ GPU(seen[d], entries[d]).found = "some"}

\* What the host's snapshot may show of a GPU.
HostGPU(own, seen, entries) ==
    IF NVIDIA /\ own.gpu # "some" /\ Lenders(seen, entries) # {}
    THEN {GPU(seen[d], entries[d]) : d \in Lenders(seen, entries)}
    ELSE {GPU(own, None)}

\* mutant: a host without a GPU counts as a failed probe (HostStands)
HostFailsEmpty(gpu) == EmitHost /\ NVIDIA /\ (gpu = None \/ gpu.found = "none")

\* Collect fails for a host whose GPU is wanted and not known.
HostFails(gpu) == EmitHost /\ NVIDIA /\ gpu = None

\* wslSnapshot of a distribution.
Reported(data, entry) ==
    IF Up(data, entry) /\ data.valid
    THEN [online |-> TRUE, gpu |-> GPU(data, entry)] ELSE Offline

NoDistros == [d \in Distro |-> None]

NoSnapshots == host' = None /\ distros' = NoDistros

\* The script ran.  A registered distribution that is stopped has an offline
\* snapshot.
Collect(own, seen) ==
    /\ sound' = (own.valid /\ own.gpu \in Found)
    /\ IF EmitHost /\ ~own.valid
       THEN NoSnapshots /\ cache' = cache
       ELSE /\ cache' = [d \in Distro |-> Saved(seen[d], cache[d])]
            /\ \E gpu \in HostGPU(own, seen, cache) :
                IF HostFails(gpu) THEN NoSnapshots
                ELSE /\ host' = IF EmitHost THEN [online |-> TRUE, gpu |-> gpu] ELSE None
                     /\ distros' = IF Discover
                                   THEN [d \in Distro |-> Reported(seen[d], cache[d])]
                                   ELSE NoDistros
    /\ stored' = [d \in Distro |->
                    IF distros'[d] = None \/ ~distros'[d].online THEN stored[d]
                    ELSE IF distros'[d].gpu = None THEN None
                    ELSE distros'[d].gpu.found]
    /\ UNCHANGED now

\* The script did not run, or what it printed cannot be decoded.
CollectFails ==
    /\ NoSnapshots /\ sound' = FALSE
    /\ UNCHANGED <<now, cache, stored>>

Tick ==
    /\ now < MaxTime /\ now' = now + 1
    /\ UNCHANGED <<cache, host, distros, stored, sound>>

\* A new bridge process.
Restart ==
    /\ cache' = [d \in Distro |-> None]
    /\ NoSnapshots /\ sound' = FALSE
    /\ UNCHANGED <<now, stored>>

Next ==
    \/ \E own \in Data : \E seen \in [Distro -> Data \cup {Absent}] : Collect(own, seen)
    \/ CollectFails \/ Tick \/ Restart

Spec == Init /\ [][Next]_vars

-----------------------------------------------------------------------------
\* A GPU that is shown, for the host or a distribution, was probed at most the
\* grace period before: neither reuse of a cached probe nor lending it to the
\* host makes it look newer than it is.
GPUAgeBounded ==
    /\ host # None /\ host.gpu # None => host.gpu.age <= Grace
    /\ \A d \in Distro : distros[d] # None /\ distros[d].gpu # None =>
        distros[d].gpu.age <= Grace

\* A GPU that Komari has stored for a distribution is not cleared by a probe
\* that fails; also not right after a restart.
GPUNotCleared == [][\A d \in Distro : stored[d] = "some" => stored'[d] # None]_vars

\* Whatever becomes of the distributions, valid metrics of the host with a GPU
\* probe that did not fail are reported.
HostStands == EmitHost /\ sound => host # None
=============================================================================
