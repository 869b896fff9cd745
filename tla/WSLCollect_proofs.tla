-------------------------- MODULE WSLCollect_proofs --------------------------
(* Theorems about WSLCollect: the age of the GPU that is shown, and what      *)
(* Komari keeps of it, for any number of distributions and any grace period.  *)
EXTENDS WSLCollect, TLAPS

\* What a failed or absent probe and the registry say of a distribution.
Seen == Data \cup {Absent}

\* A GPU of unknown or bounded age.
BoundedAge(gpu) == gpu # None => gpu.age <= Grace

\* A cached probe was cached when it was made, so that its age is the time since
\* it was cached, and a grace period after caching bounds it.
ProbeTrue(probe) == probe # None => probe.savedAt = probe.probed /\ probe.probed <= now

\* The inductive invariant.
AgeInv ==
    /\ now \in Time
    /\ cache \in [Distro -> Probe \cup {None}]
    /\ \A d \in Distro : ProbeTrue(cache[d])
    /\ GPUAgeBounded

-----------------------------------------------------------------------------
LEMMA WSLFacts ==
    /\ None \notin Probe /\ None \notin Shown /\ None \notin Snapshot
    /\ Grace \in Nat /\ MaxTime \in Nat
BY WSLAssumption, NothingAssumption DEF WSLAssumption, NothingAssumption

\* The GPU of a distribution or of the host is one that was found at an age
\* within the grace period, or None.
LEMMA GPUFacts ==
    ASSUME now \in Time, NEW data, NEW entry \in Probe \cup {None}, ProbeTrue(entry)
    PROVE  /\ GPU(data, entry) \in Shown \cup {None}
           /\ BoundedAge(GPU(data, entry))
<1>. USE WSLFacts
<1>1. CASE data.gpu \in Found
  <2>1. GPU(data, entry) = [found |-> data.gpu, age |-> 0]
    BY <1>1 DEF GPU
  <2>. QED
    BY <1>1, <2>1 DEF Shown, BoundedAge, Time
<1>2. CASE data.gpu \notin Found /\ NVIDIA /\ StillGood(entry)
  <2>1. GPU(data, entry) = [found |-> entry.found, age |-> now - entry.probed]
    BY <1>2 DEF GPU
  <2>2. entry # None /\ entry \in Probe
    BY <1>2 DEF StillGood
  <2>3. entry.found \in Found /\ now - entry.probed \in Time /\ now - entry.probed <= Grace
    BY <1>2, <2>2 DEF StillGood, Probe, Time, ProbeTrue
  <2>. QED
    BY <2>1, <2>3 DEF Shown, BoundedAge
<1>3. CASE data.gpu \notin Found /\ ~(NVIDIA /\ StillGood(entry))
  BY <1>3 DEF GPU, BoundedAge
<1>. QED
  BY <1>1, <1>2, <1>3

\* What is cached was probed now, or was cached before.
LEMMA SavedFacts ==
    ASSUME now \in Time, NEW data, NEW entry \in Probe \cup {None}, ProbeTrue(entry)
    PROVE  Saved(data, entry) \in Probe \cup {None} /\ ProbeTrue(Saved(data, entry))
<1>1. CASE NVIDIA /\ data.gpu \in Found
  <2>1. Saved(data, entry) = [found |-> data.gpu, probed |-> now, savedAt |-> now]
    BY <1>1 DEF Saved
  <2>. QED
    BY <1>1, <2>1 DEF Probe, ProbeTrue, Time
<1>2. CASE ~(NVIDIA /\ data.gpu \in Found)
  BY <1>2 DEF Saved
<1>. QED
  BY <1>1, <1>2

\* The host shows its own GPU or one of a distribution.
LEMMA HostGPUFacts ==
    ASSUME AgeInv, NEW own, NEW seen, NEW gpu \in HostGPU(own, seen, cache)
    PROVE  gpu \in Shown \cup {None} /\ BoundedAge(gpu)
<1>1. CASE gpu = GPU(own, None)
  BY <1>1, GPUFacts DEF AgeInv, ProbeTrue
<1>2. CASE \E d \in Distro : gpu = GPU(seen[d], cache[d])
  BY <1>2, GPUFacts DEF AgeInv
<1>. QED
  BY <1>1, <1>2 DEF HostGPU, Lenders

-----------------------------------------------------------------------------
LEMMA NoSnapshotsBounded == ASSUME NoSnapshots PROVE GPUAgeBounded'
BY DEF NoSnapshots, NoDistros, GPUAgeBounded

\* The cache after a Collect.
LEMMA CacheKept ==
    ASSUME AgeInv, NEW seen, now' = now,
           cache' = [d \in Distro |-> Saved(seen[d], cache[d])] \/ cache' = cache
    PROVE  /\ cache' \in [Distro -> Probe \cup {None}]
           /\ \A d \in Distro : ProbeTrue(cache[d])'
<1>1. \A d \in Distro : /\ Saved(seen[d], cache[d]) \in Probe \cup {None}
                        /\ ProbeTrue(Saved(seen[d], cache[d]))
  BY SavedFacts DEF AgeInv
<1>. QED
  BY <1>1 DEF AgeInv, ProbeTrue

\* What a Collect shows.
LEMMA ShownBounded ==
    ASSUME AgeInv, NEW own \in Data, NEW seen \in [Distro -> Seen], Collect(own, seen)
    PROVE  GPUAgeBounded'
<1>1. CASE NoSnapshots
  BY <1>1, NoSnapshotsBounded
<1>2. CASE ~NoSnapshots
  <2>1. PICK gpu \in HostGPU(own, seen, cache) :
          /\ host' = IF EmitHost THEN [online |-> TRUE, gpu |-> gpu] ELSE None
          /\ distros' = IF Discover
                        THEN [d \in Distro |-> Reported(seen[d], cache[d])]
                        ELSE NoDistros
    BY <1>2 DEF Collect
  <2>2. BoundedAge(gpu)
    BY <2>1, HostGPUFacts
  <2>3. host' # None => host'.gpu = gpu
    BY <2>1
  <2>4. ASSUME NEW d \in Distro, distros'[d] # None
        PROVE  BoundedAge(distros'[d].gpu)
    <3>1. distros'[d] = Reported(seen[d], cache[d])
      BY <2>1, <2>4 DEF NoDistros
    <3>2. BoundedAge(GPU(seen[d], cache[d]))
      BY GPUFacts DEF AgeInv
    <3>3. BoundedAge(None)
      BY DEF BoundedAge
    <3>4. Reported(seen[d], cache[d]).gpu \in {None, GPU(seen[d], cache[d])}
      BY DEF Reported, Offline
    <3>. QED
      BY <3>1, <3>2, <3>3, <3>4
  <2>. QED
    BY <2>2, <2>3, <2>4 DEF GPUAgeBounded, BoundedAge
<1>. QED
  BY <1>1, <1>2

LEMMA InitAge == Init => AgeInv
BY WSLFacts DEF Init, AgeInv, GPUAgeBounded, ProbeTrue, Time

LEMMA NextAge == AgeInv /\ [Next]_vars => AgeInv'
<1>. SUFFICES ASSUME AgeInv, [Next]_vars PROVE AgeInv'
  OBVIOUS
<1>. USE WSLFacts
<1>1. ASSUME NEW own \in Data, NEW seen \in [Distro -> Seen], Collect(own, seen)
      PROVE  AgeInv'
  <2>1. now' = now
    BY <1>1 DEF Collect
  <2>2. cache' = [d \in Distro |-> Saved(seen[d], cache[d])] \/ cache' = cache
    BY <1>1 DEF Collect
  <2>3. GPUAgeBounded'
    BY <1>1, ShownBounded
  <2>. QED
    BY <2>1, <2>2, <2>3, CacheKept DEF AgeInv
<1>2. CASE CollectFails
  BY <1>2, NoSnapshotsBounded DEF CollectFails, AgeInv, ProbeTrue
<1>3. CASE Tick
  <2>1. now' \in Time /\ now <= now' /\ now \in Time
    BY <1>3 DEF Tick, AgeInv, Time
  <2>2. \A e \in Probe \cup {None} : ProbeTrue(e) => ProbeTrue(e)'
    BY <2>1 DEF ProbeTrue, Probe, Time
  <2>3. cache' = cache /\ GPUAgeBounded'
    BY <1>3 DEF Tick, AgeInv, GPUAgeBounded
  <2>. QED
    BY <2>1, <2>2, <2>3 DEF AgeInv, ProbeTrue
<1>4. CASE Restart
  BY <1>4, NoSnapshotsBounded DEF Restart, AgeInv, ProbeTrue
<1>5. CASE UNCHANGED vars
  BY <1>5 DEF vars, AgeInv, ProbeTrue, GPUAgeBounded
<1>. QED
  BY <1>1, <1>2, <1>3, <1>4, <1>5 DEF Next, Seen

-----------------------------------------------------------------------------
\* Whatever is probed, fails, is reused or lent, no GPU is shown that was found
\* more than the grace period before.
THEOREM AgeKept == Spec => []GPUAgeBounded
<1>1. AgeInv => GPUAgeBounded
  BY DEF AgeInv
<1>. QED
  BY <1>1, InitAge, NextAge, PTL DEF Spec

\* A host whose own probe did not fail has a GPU to show, its own or a lent one.
LEMMA SoundHost ==
    ASSUME NEW own \in Data, own.gpu \in Found,
           NEW seen, NEW gpu \in HostGPU(own, seen, cache), AgeInv
    PROVE  gpu # None
<1>1. CASE gpu = GPU(own, None)
  <2>1. gpu = [found |-> own.gpu, age |-> 0]
    BY <1>1 DEF GPU
  <2>2. gpu \in Shown
    BY <2>1, WSLFacts DEF Shown, Time
  <2>. QED
    BY <2>2, WSLFacts
<1>2. CASE gpu \in {GPU(seen[d], cache[d]) : d \in Lenders(seen, cache)}
  BY <1>2 DEF Lenders
<1>. QED
  BY <1>1, <1>2 DEF HostGPU

\* The failure of a distribution never takes a sound host with it.
THEOREM HostKept == Spec => []HostStands
<1>1. Init => HostStands
  BY DEF Init, HostStands
<1>2. AgeInv /\ HostStands /\ [Next]_vars => HostStands'
  <2>. SUFFICES ASSUME AgeInv, HostStands, [Next]_vars PROVE HostStands'
    OBVIOUS
  <2>1. ASSUME NEW own \in Data, NEW seen \in [Distro -> Seen], Collect(own, seen),
               EmitHost, sound'
        PROVE  host' # None
    <3>1. own.valid /\ own.gpu \in Found
      BY <2>1 DEF Collect
    <3>2. PICK gpu \in HostGPU(own, seen, cache) :
            IF HostFails(gpu) THEN NoSnapshots
            ELSE host' = IF EmitHost THEN [online |-> TRUE, gpu |-> gpu] ELSE None
      BY <2>1, <3>1 DEF Collect
    <3>3. gpu # None
      BY <3>1, SoundHost
    <3>4. host' = [online |-> TRUE, gpu |-> gpu]
      BY <2>1, <3>2, <3>3 DEF HostFails
    <3>5. gpu \in Shown \cup {None}
      BY HostGPUFacts
    <3>6. host' \in Snapshot
      <4>1. \A b \in BOOLEAN, g \in Shown \cup {None} : [online |-> b, gpu |-> g] \in Snapshot
        BY DEF Snapshot
      <4>2. TRUE \in BOOLEAN
        OBVIOUS
      <4>. QED
        BY <3>4, <3>5, <4>1, <4>2, Zenon
    <3>. QED
      BY <3>6, WSLFacts
  <2>2. CASE CollectFails \/ Restart
    BY <2>2 DEF CollectFails, Restart, HostStands
  <2>3. CASE Tick \/ UNCHANGED vars
    BY <2>3 DEF Tick, vars, HostStands
  <2>. QED
    BY <2>1, <2>2, <2>3 DEF Next, Seen, HostStands
<1>. QED
  BY <1>1, <1>2, InitAge, NextAge, PTL DEF Spec

\* With EnableNVIDIA, what Komari has of a distribution's GPU stays: a probe that
\* fails takes the distribution offline or is replaced by the cached one.
THEOREM GPUKept == ASSUME NVIDIA PROVE Spec => GPUNotCleared
<1>1. AgeInv /\ [Next]_vars =>
        [\A d \in Distro : stored[d] = "some" => stored'[d] # None]_vars
  <2>. SUFFICES ASSUME AgeInv, [Next]_vars, NEW d \in Distro, stored[d] = "some"
                PROVE  UNCHANGED vars \/ stored'[d] # None
    BY Zenon
  <2>0. stored[d] # None
    BY NothingAssumption DEF NothingAssumption, Found
  <2>1. ASSUME NEW own \in Data, NEW seen \in [Distro -> Seen], Collect(own, seen)
        PROVE  stored'[d] # None
    <3>1. CASE distros'[d] = None \/ ~distros'[d].online
      BY <2>0, <2>1, <3>1 DEF Collect
    <3>2. CASE distros'[d] # None /\ distros'[d].online
      <4>1. distros'[d] = Reported(seen[d], cache[d])
        BY <2>1, <3>2 DEF Collect, NoSnapshots, NoDistros
      <4>2. Up(seen[d], cache[d]) /\ distros'[d].gpu = GPU(seen[d], cache[d])
        BY <3>2, <4>1 DEF Reported, Offline
      <4>3. GPU(seen[d], cache[d]) # None
        BY <4>2 DEF Up
      <4>4. GPU(seen[d], cache[d]) \in Shown
        BY <4>3, GPUFacts DEF AgeInv
      <4>5. stored'[d] = distros'[d].gpu.found
        BY <2>1, <3>2, <4>2, <4>3 DEF Collect
      <4>6. stored'[d] \in Found
        BY <4>2, <4>4, <4>5 DEF Shown
      <4>. QED
        BY <4>6, NothingAssumption DEF NothingAssumption
    <3>. QED
      BY <3>1, <3>2
  <2>2. CASE CollectFails \/ Tick \/ Restart
    BY <2>0, <2>2 DEF CollectFails, Tick, Restart
  <2>. QED
    BY <2>1, <2>2 DEF Next, Seen
<1>. QED
  BY <1>1, InitAge, NextAge, PTL DEF Spec, GPUNotCleared

-----------------------------------------------------------------------------
(* Types *)

\* A snapshot with a GPU of the right type has the right type itself.
LEMMA SnapshotType ==
    ASSUME NEW gpu \in Shown \cup {None}
    PROVE  /\ [online |-> TRUE, gpu |-> gpu] \in Snapshot
           /\ [online |-> FALSE, gpu |-> gpu] \in Snapshot
<1>1. \A b \in BOOLEAN : [online |-> b, gpu |-> gpu] \in Snapshot
  BY DEF Snapshot
<1>2. TRUE \in BOOLEAN /\ FALSE \in BOOLEAN
  OBVIOUS
<1>. QED
  BY <1>1, <1>2, Zenon

\* What a distribution is reported as.
LEMMA ReportedType ==
    ASSUME AgeInv, NEW seen, NEW d \in Distro
    PROVE  Reported(seen[d], cache[d]) \in Snapshot
<1>1. GPU(seen[d], cache[d]) \in Shown \cup {None}
  BY GPUFacts DEF AgeInv
<1>2. Reported(seen[d], cache[d]) \in {[online |-> TRUE, gpu |-> GPU(seen[d], cache[d])], Offline}
  BY DEF Reported
<1>3. Offline \in Snapshot
  BY SnapshotType DEF Offline
<1>. QED
  BY <1>1, <1>2, <1>3, SnapshotType

\* The types of what is shown.
ShownType ==
    /\ host \in Snapshot \cup {None}
    /\ distros \in [Distro -> Snapshot \cup {None}]

LEMMA NoSnapshotsType == ASSUME NoSnapshots PROVE ShownType'
BY DEF NoSnapshots, NoDistros, ShownType

LEMMA CollectType ==
    ASSUME AgeInv, NEW own, NEW seen, Collect(own, seen)
    PROVE  ShownType'
<1>1. CASE NoSnapshots
  BY <1>1, NoSnapshotsType
<1>2. CASE ~NoSnapshots
  <2>1. PICK gpu \in HostGPU(own, seen, cache) :
          /\ host' = IF EmitHost THEN [online |-> TRUE, gpu |-> gpu] ELSE None
          /\ distros' = IF Discover
                        THEN [d \in Distro |-> Reported(seen[d], cache[d])]
                        ELSE NoDistros
    BY <1>2 DEF Collect
  <2>2. host' \in Snapshot \cup {None}
    BY <2>1, HostGPUFacts, SnapshotType
  <2>3. distros' \in [Distro -> Snapshot \cup {None}]
    BY <2>1, ReportedType DEF NoDistros
  <2>. QED
    BY <2>2, <2>3 DEF ShownType
<1>. QED
  BY <1>1, <1>2

\* What Komari has of a GPU afterwards.
LEMMA StoredType ==
    ASSUME stored \in [Distro -> Found \cup {None}], ShownType',
           NEW own, NEW seen, Collect(own, seen)
    PROVE  stored' \in [Distro -> Found \cup {None}]
<1>1. ASSUME NEW d \in Distro, distros'[d] # None, distros'[d].gpu # None
      PROVE  distros'[d].gpu.found \in Found
  BY <1>1 DEF ShownType, Snapshot, Shown
<1>. QED
  BY <1>1 DEF Collect

\* Every variable keeps its type, for any distributions and any grace period.
THEOREM TypeCorrect == Spec => []TypeOK
<1>1. Init => TypeOK
  <2>. SUFFICES ASSUME Init PROVE TypeOK
    OBVIOUS
  <2>1. now \in Time
    BY WSLFacts DEF Init, Time
  <2>2. /\ cache \in [Distro -> Probe \cup {None}]
        /\ host \in Snapshot \cup {None}
        /\ distros \in [Distro -> Snapshot \cup {None}]
        /\ stored \in [Distro -> Found \cup {None}]
    BY DEF Init
  <2>3. sound \in BOOLEAN
    BY DEF Init
  <2>. QED
    BY <2>1, <2>2, <2>3 DEF TypeOK
<1>2. TypeOK /\ AgeInv /\ AgeInv' /\ [Next]_vars => TypeOK'
  <2>. SUFFICES ASSUME TypeOK, AgeInv, AgeInv', [Next]_vars PROVE TypeOK'
    OBVIOUS
  <2>1. now' \in Time /\ cache' \in [Distro -> Probe \cup {None}]
    BY DEF AgeInv
  <2>2. ASSUME NEW own \in Data, NEW seen \in [Distro -> Seen], Collect(own, seen)
        PROVE  TypeOK'
    <3>1. ShownType' /\ stored' \in [Distro -> Found \cup {None}]
      BY <2>2, CollectType, StoredType DEF TypeOK
    <3>2. sound' \in BOOLEAN
      BY <2>2, Zenon DEF Collect
    <3>. QED
      BY <2>1, <3>1, <3>2 DEF TypeOK, ShownType
  <2>3. CASE CollectFails \/ Restart
    <3>1. ShownType' /\ stored' = stored /\ sound' \in BOOLEAN
      BY <2>3, NoSnapshotsType DEF CollectFails, Restart
    <3>. QED
      BY <2>1, <3>1 DEF TypeOK, ShownType
  <2>4. CASE Tick \/ UNCHANGED vars
    BY <2>1, <2>4 DEF Tick, vars, TypeOK
  <2>. QED
    BY <2>2, <2>3, <2>4 DEF Next, Seen
<1>. QED
  BY <1>1, <1>2, InitAge, NextAge, PTL DEF Spec
=============================================================================
