# Verification of komari-bridge

TLA+ models of the bridge, the TLC runs that check them on small instances, and
theorems about them that TLAPS checks for every value of the constants. All
paths are relative to the repository; `runner.go` is `internal/bridge/runner.go`.

## 1. The system

komari-bridge is one Go process. A scheduler runs one cycle after another; a
cycle collects snapshots from providers, merges those of the same resource,
groups them by site, and delivers each to the Komari server under a virtual
client. Beside it, an HTTP server answers queries for Slurm data.

```
 providers --Collect--> Cycle: merge, cache, apply authorities --> decorate --> process
 (proxmox, docker,        (authorityCache)                        (topology)     | |
  agentless_ssh, slurm,                                                          | +--> Komari: register,
  windows_wsl, legacy)                                                           |      basic info, report
        |                                                                        +----> SQLite: resources
        +--Set--> slurm.Store <--Get/All-- HTTP handlers                                 (binding, last_reported)
```

| Component | State it keeps | Operations | What makes it correct |
|---|---|---|---|
| delivery (`runner.go` `process`) | hash of the last basic info per client, in memory | observe, look up, register, bind, upload, report, mark | one client per resource for ever; reports go to that client; nothing is sent that a crash would orphan; reports stand beside their own basic info |
| resource store (`internal/store`) | table `resources` in SQLite | `Observe`, `Binding`, `Bind`, `MarkReported` | the upsert leaves the binding alone; a row is bound once |
| Komari client (`internal/komari`) | request counter | `Register`, `UploadBasicInfo`, `Report` | an error does not mean that nothing happened |
| collection and authority (`runner.go` `Cycle`, `applyMetricAuthorities`, `mergeSnapshots`) | `authorityCache`, the merged map of the cycle | collect, merge, apply | an owned resource shows its authority's latest valid sample, for at most the grace period, and nothing else |
| topology (`runner.go` `decorateTopology`, `topologySite`) | none | climb the parents | the climb ends; the site is stable and of the right source |
| scheduler (`runner.go` `Run`, `main.go`) | ticker | run cycles, stop | a cycle at a time; often enough for the presence TTL |
| Proxmox provider | node status, guest OS, memory and disk caches, network samples | `Collect` | memory contract: guest values at most 60 s and their requests old, never process memory |
| Docker provider | network samples | `Collect` with up to 8 workers | one snapshot per workload, running workloads online, with figures of this collection only |
| Linux SSH provider | SSH connection, previous counters | `Collect` for three provider types | no stale Slurm state; failures do not hang the cycle |
| Windows SSH / WSL provider | SSH connection, previous counters, GPU cache | `Collect` with one retry | GPU data at most 60 s old |
| Slurm store, HTTP API | map of Slurm snapshots | `Set`, `Get`, `All` | readers see whole snapshots |
| configuration | none | defaults, validation | what it accepts keeps the others correct |

Where the behaviour is hard: a call that returns an error may have had its
effect, now or later; the process can die between any two statements; two
processes can share the database during an upgrade; collectors fail and recover
independently; merging depends on collection order and on the iteration order
of Go maps; Go maps are shared by assignment; and everything in a cycle waits
for one provider after the other.

## 2. Modules

| Module | Models | Of it |
|---|---|---|
| `Delivery` | `process`, store, Komari client | state machine, properties |
| `ClientRegistry` | what delivery promises | abstract specification |
| `Delivery_proofs` | | theorems about `Delivery` |
| `Authority` | first half of `Cycle`, authority cache, merge | state machine, properties |
| `Authority_proofs` | | theorems about `Authority` |
| `Topology` | `decorateTopology`, `topologySite` | state machine, properties |
| `Topology_proofs` | | theorems about `Topology` |
| `SSHCollect` | `Collect`, `run`, `clientLocked` of both SSH providers, the Slurm store | state machine, properties |
| `SSHCollect_proofs` | | theorems about `SSHCollect` and about `Figures`, on which it computes |
| `GuestCache` | `Collect` of the Proxmox provider and its caches | state machine, properties |
| `GuestCache_proofs` | | theorems about `GuestCache` |
| `DockerCollect` | `Collect` of the Docker provider, the merge of equal identities | state machine, properties |
| `DockerCollect_proofs` | | theorems about `DockerCollect` |
| `WSLCollect` | what `Collect` of windowsssh makes of a script's output | state machine, properties |
| `WSLCollect_proofs` | | theorems about `WSLCollect` |
| `Figures` | `validateSnapshot`, and what each provider computes and validates | operators |
| `Sampling` | the counters a SSH provider remembers, and the machine behind them | part of `SSHCollect` |
| `Filesystems` | `summarizeGuestFilesystems` of the Proxmox provider | operators and their reference definition |
| `Presence` | `Run`, its ticker and one resource against the presence TTL | state machine, properties |
| `Presence_proofs` | | theorems about `Presence` |
| `Configuration` | `internal/config`, `buildProviders`, `MetricTargets` | operators |
| `MC_*` | | instances for TLC; `MC_Authority` and `MC_GuestCache` also evaluate `Configuration` and `Filesystems` |

A definition marked `mutant:` is not part of the model. It is the definition
after it with a plausible mistake, and says which property would notice.

### Delivery

`row[r]` is the row of resource `r`: absent, not bound (`None`) or its client;
`reported` the rows with a `last_reported`. Per bridge process `b`, `pc[b]` is
the statement of `process` it is about to execute, `pending[b]` the merged
snapshots of the cycle it has not visited, `job[b]` the local variables
`snapshot` and `binding`, `hash[b]` the map `basicInfoHashes` (the content
itself stands for its SHA-256). `owner`, `deleted`, `shown`, `last` are the
server, which is external and modelled from what `client.go` sends to it:
every registration creates a client, a request under a client's token replaces
that client's basic info or report, and is refused for a deleted client.

Each SQL statement and each request is an action (`Observe`, `LookUp`,
`Register`, `Bind`, `UploadBasicInfo`, `Report`, `MarkReported`), with its error
path: `StatementFails` leaves the database alone and ends `process`; `Fails`
ends it with a request that either had no effect or is left in `flight`, from
where `Arrive` may apply it at any later time or never. `Crash` throws away the
memory of a process and keeps the database. `StartCycle`, `Drop` and `Take` are
the loop over the merged snapshots, in any order, with `validateSnapshot` as a
choice. A snapshot is whether it is online and which basic info it carries.

`ClientRegistry` forgets all of that: a resource adopts a client once, and its
display is replaced only by its own reports. `Registry` in `Delivery` maps rows
and server to it.

### Authority

Providers `1..N` are collected in the order of `buildProviders`. A snapshot
records who took it (`by`), when (`at`), whether `validateSnapshot` accepts it,
whose `metrics_source` its tags carry, who named its parent, and whether its
tag map is the one the cache entry of its key holds (`shared`): in Go the map
is shared by assignment, and `mergeSnapshots` writes into the map of its base,
so merging can rewrite a cached snapshot. `Retag` is that effect. `Collect` is
one provider's turn of the loop, all its snapshots at once (no other code runs
in between); `CollectFails` its error; `Apply` is `applyMetricAuthorities`;
`Tick` lets time pass anywhere. `latest`, `located` and `appliedAt` record what
the properties speak of and guard nothing.

### Topology

One snapshot's climb, done twice over the same snapshots, as two cycles would:
the candidates for a parent come from a list filled by ranging over a map, so
`Climb` takes any that the code's preference for the start's group allows.
`MC_Topology` gives the inventories.

### SSHCollect

The connection of one provider: `conn` is `p.client` and what the peer makes of
it, `armed` the deadline on `p.conn`, `pc` the operation that `Collect` is at.
Each operation that can block is an action with its failure; `RunFails` is the
way out of `run` with an error, through `closeLocked` and, for the Windows
kinds, into the one rerun of `runWithReconnect`. `CommandEnds` is the arrival of the
output and `RunReturns` the return of `run` with it, which is when the deferred
`SetDeadline` resets the deadline: in between (`returning`) it can still pass, and
`run` then returns the output and keeps a connection that is dead. The code does that;
the next keepalive fails and a new connection is dialled. `HealthyKept` therefore says
that no deadline ends a connection *after* the run that set it, until the next
keepalive has been answered. `PeerChanges`, `DeadlineExpires` and `Cancel` happen at
any time. `Evaluate`, `Undecodable` and
`InvalidReport` are what `Collect` does with output that arrived; `store` is the
provider's entry in `slurm.Store`, whose age counts collections. `kind` is the
source type: it decides the rerun, whether a host report must validate and
whether the store is fed. `spoiled`, `lost` and `failed` are history.

### GuestCache

One `Collect` after the other: `List`, then `Take` for one item at a time, and
for it the requests in the order of the code, each of which may fail: node
status, guest OS, file systems, and for guests under `guest_memory: qga` the
command and its polls. The item's snapshot is `job` until `Append`. `known` are
the keys of `nodeStatus` and `guestOS`, which never expire; `memory` and `disk`
are the caches with the grace period.

The contracts bound how old a sample is, counted from when the guest was read, and
that is not when the code dates it: `storeGuestMemory` reads the clock after the last
poll was answered, `/proc/meminfo` was read at any time after the command was sent.
`GuestReads` is that moment, anywhere in a request, and `read` the time since; `waited`
is the time since the request was sent, at most `Request`, the timeout of the HTTP
client with the 100 ms before a poll. A cache entry keeps both ages: `saved`, from the
answer, which the code tests, and `taken`, from the read, which only the properties
look at. So a cached sample may be shown with the age
`Oldest = Grace + (MaxPolls + 1) * Request` and, for file systems, `Grace + Request`;
the run reaches both bounds. Were an entry renewed when it is reused, it would get
older than that. Storing an answer and putting it into the snapshot is one instant.
Ages stop at one more than the bound.

### DockerCollect

One goroutine per listed container behind a semaphore of `Slots`, two requests
each, cancellation at any point, `Return` after the last has ended. `stats` and
`failed` are what the goroutines leave in `results`: nothing, when a slot was given up;
an error beside what was decoded before it (`Unanswered`); or an answer (`Answered`),
which may be an empty one. `answer` is history, what the engine fully answered in this
collection, and `OnlineMeasured` compares what is shown with it and not with the
variables that `Online` reads. Of the figures the model has the memory, the only one
that `snapshot` tests. `Return`
also does what `Cycle` makes of the slice: containers are sorted by identity
with an unstable sort, equal identities have equal priority, so any of them may
be the one whose metrics stay.

### WSLCollect

One step per `Collect`: all combinations of valid and invalid data and of GPU
probes that failed, found none or found some, for the host and each
distribution. A GPU shown carries the age of its probe. `stored` is what the
last online snapshot of a distribution left in Komari, `sound` whether the host
has what it needs; both are history.

### Figures

`Deliverable` is `validateSnapshot` of an online snapshot: a snapshot it refuses
is not reported, and the resource goes offline. For each provider there is the
validation it does itself (`ValidData`, `ValidWindows`, `PlausibleMemory`,
`AcceptedMemory`) and the figures it computes (`DataFigures`, `WindowsFigures`,
`DockerFigures`, `GuestFigures`). uint64 wraps at `Wrap`, and conversions to
int64 do what they do in the code: `linuxssh` lets the top bit become the sign,
`docker` saturates. Texts are one flag per report. float64 is rounded down to an
integer, and elapsed time is in whole seconds: for a fraction of a second the
code divides by the fraction.

### Sampling

`SSHCollect` extends `Sampling`: `host` are the counters of the observed machine,
which works and restarts (`MachineRuns`) while a command runs; nothing is lost by
letting it happen only then, since it counts only when the counters are read.
`previous` are the counters the provider remembers, `shown` what it returned. A
failed collection returns before it remembers anything, except that windowsssh
remembers a report whose GPU figures then turn out to be missing. `since` and
`restarted` are history. One tick of the machine is a busy one that also sends a
byte, or an idle one that also receives a byte, so one pair of counters stands
for CPU and network.

### Filesystems

The loop of `summarizeGuestFilesystems` as a fold, with the sums in int64, and
beside it what it is to compute: each device counted once, a mount for each, and
a list without usable file systems refused. Texts may be empty or blank: the key of a
device is trimmed, its mountpoint is not, so a mountpoint of blanks passes the provider
and makes the runner refuse the whole snapshot. `SummaryCorrect` names that exception.

### Presence

The clock, `Run` and its ticker: `due` is when it fires next, `ticks` what its
channel holds (at most one), and it exists only after the first cycle. A cycle
goes through `collect`, `apply`, `process` and `rest` (the other resources), and
takes at most `Cycle` in all. Two caches lie behind each other: `own` is that of
the collector, as `stabilizeWSLGPU` keeps probes, and `cache` the authority's entry,
each with the time its figures were read and the time it was saved. `Reused` puts
figures from the first into a snapshot that enters the second as new: there its age
counts from zero again, and that of its figures does not. `hand` is what the cycle
has of the resource, `shown` what Komari has. `NotSampled`, `NotDelivered` and
`Restart` are the faults; a collection that fails may still have renewed `own`.
`missed` and `lastGood` are history: a report that Komari did not get by a fault, and
the last valid snapshot of the authority.

### Configuration

A configuration is its providers under their keys, each with `attach_to` and the
options that `validate` looks at; names and credentials that must be there are
one flag. `Valid` is `validate`, `Built` the p-th provider of `buildProviders`,
`MetricTargets` and `Rank` what `Authority` has as `Target` and `Priority`.

## 3. Runs

| Run | Instance | Shows |
|---|---|---|
| `Delivery_safety` | 1 bridge, 2 resources, 2 infos, 3 clients, all 5 kinds of fault, at most 2 | types, ownership, the registry refinement (a client for ever) |
| `Delivery_settles` | 1 bridge, fair, 2 infos, no unanswered request | reports stand beside their own basic info, the server ends up with the current one, and a resource that keeps being collected gets reported |
| `Delivery_lostreply` | with an unanswered request | **violation**: finding 1 |
| `Authority_attached` | the 4 providers of an accepted configuration: proxmox, agentless_ssh attached to a key that windows_wsl returns later with the same priority, windows_ssh attached to a guest with a child; grace 1, clock to 3 | authority, latest sample, parents, collector name |
| `Topology_sites` | two sites with equal ids and own groups, any snapshot missing; and four snapshots with any parents | the climb goes up and ends; the site is stable and of its own source |
| `SSHCollect_kinds` | the four SSH kinds beside linux_ssh, over a machine with up to 3 ticks between samples, `Wrap` 8 | no reuse after a failure, no connection ended by a deadline after its run, Slurm state current, usage and rates honest, `Collect` returns |
| `SSHCollect_legacy` | linux_ssh with Slurm | **violation**: finding 2 |
| `GuestCache_contract` | 1 node, 1 guest under the memory contract, 2 polls, a request takes up to 2, grace 2 | both contracts on age, identities, `Collect` ends; file systems summed up right |
| `DockerCollect_online` | 3 containers, 2 slots, own identities, memory figures of 0 and 1 | online means answered in full, answered plausibly means online, every goroutine ends |
| `DockerCollect_recreated` | 2 of 3 containers share an identity, one runs at a time | **violation**: finding 3 |
| `WSLCollect_host` | windows_ssh with NVIDIA, 2 distributions, grace 1, clock to 2 | age of GPUs, stored GPUs stay, the host stands |
| `Presence_ticker` | interval 1, cycles up to 2, both graces 1, TTL 2, clock to 11 | the time between reports, the age of what is online |

Bounds. Two resources are enough for a report or a binding to go to the wrong
one, three clients for one to be lost and another to take its place; two infos
let a content change and change back; two faults let one recovery be disturbed
by another fault. `MaxFaults` bounds behaviours, never a recovery: the liveness
run has the same bound, which says that faults stop. With a grace period of
one or two ticks a cached sample is fresh, on the edge, expired and made anew within a
few ticks. Three containers over two slots let one wait while the others
hold theirs; two distributions let either lend its GPU to the host, in the order
the registry has them. Memory figures of 0 and 1 make a limit missing, a usage above it, and
answers that differ. One guest is enough for the contracts: guests share nothing but time,
which the model lets pass between any two steps; a guest that is not under the memory
contract and a second guest are left to the theorems, for want of states (a second guest
makes them ten times as many). Entries of the Slurm store age up to "older than the
collection before", beyond which nothing changes. Eight values of a counter and
three ticks let a sample be taken before, between and after restarts, with more
or less than before and with an idle counter that went back while the total did
not. In `Presence` a cycle may take longer than the interval, so ticks are held and
dropped, and the clock runs past 8, the age that the two caches, two cycles and the
TTL add up to; a snapshot of that age is reached. `MC_Topology` also checks that its
sites are inventories as the theorem about them assumes (`SitesAssumption`). `MC_Authority` evaluates
its configuration and five that must be refused, and `MC_GuestCache` every list of
up to two file systems of 108 kinds, and every list of three of one device with
sizes up to the largest int64 of `Wrap` 16; TLC refuses to start when one of these
assumptions fails. Resources and clients that play the same part are permuted by `Symmetry`, in runs of safety properties only.

Fairness.
- Delivery: the ticker fires again and every call returns, with an answer or an
  error, because the HTTP client has a timeout and SQLite calls end. Not
  assumed: successes, late requests that arrive, any order of snapshots. In
  `EventuallyReported` the premise is that the resource keeps being processed
  online.
- Topology: the loop goes on.
- SSHCollect: `Collect`'s own steps, `RunReturns` among them, and a deadline passes. A remote command need
  not end. The keepalive request and the handshake run with neither deadline nor
  context; that the peer, or the kernel in its place, reacts to them is an
  assumption the code does not discharge, and listed as a hazard.
- Presence, Authority, WSLCollect: none; their properties are safety. That a
  report comes in time is bounded by the clock, not promised by fairness.
- GuestCache, DockerCollect: every request returns, at the latest with the
  timeout of the HTTP client; `Tick` and `Restart` are not fair.

Findings.
1. `Delivery_lostreply`: README.md says that changed basic information is
   uploaded again. When the answer to an upload is lost after the server applied
   it and the content changes back, the hash of the last answered upload matches
   and nothing is uploaded: Komari keeps totals that belong to no current report.
2. `SSHCollect_legacy`: README.md says that a failed Slurm command refreshes the
   API with `available: false`. linux_ssh validates the host report first and
   returns, and the API goes on serving the queue of an earlier collection.
3. `DockerCollect_recreated`: README.md says that running workloads are reported
   and that `include_stopped` adds stopped ones. A stopped container of an earlier
   task of the same Swarm slot has the identity of the running one and may take
   its place, offline.

## 4. Theorems

All are for every value of the constants that the named assumptions allow.

`Delivery_proofs`. `BindingsOwn` and `ReportsOwn` hold for any number of
bridges, so also when a new process starts before the old one ended; the runs have
one bridge. Their invariant says that a binding in hand, a row and a request in
flight each carry a client together with the resource it was registered for;
registration takes a client without an owner, and owners never change. The
others are for one bridge (`SingleBridge`): `ClientsKept`, `HistoryKept`,
`MarksAreTrue`, `BindingsPermanent`. Their invariant adds what the bridge has in
hand at each statement: after `LookUp` the client in hand is the row's, between
`Register` and `Bind` it is a client nothing was sent to yet and the row is not
bound. Without that part `Bind` could overwrite a binding. `RegistryImplemented`
shows every step to be a step of `ClientRegistry` or a stutter.
`InfoMatchesReports` is for one bridge and no unanswered request
(`AllAnswered`): a marked hash is then what the server shows. `CyclesAdvance`, for any
number of bridges, says that a cycle is over after finitely many steps of its own, at
most seven for each snapshot.

`Authority_proofs`. `AuthorityInv` says that a cache entry is a valid snapshot
of the key's authority taken at `savedAt`, which is the time of its last valid
collection, and that until authorities are applied a merged snapshot comes from
a provider that may return its key. Applying an entry then wins the merge,
because no provider that returns an authority's key ranks above it
(`AuthorityAssumption`), whatever came later with the same priority. From it:
`AuthorityOnly`, `LatestShown` and, with an invariant on parents, `ParentsKept`.
`CollectorsNamed` needs `TagInv`: a merge writes into the tag map of its base, and for
a key that no two providers return with one priority the base is never a snapshot whose
map the cache entry holds (`UntiedMerge`), so an entry's tags go on naming the
collector that took it.
`AcceptedAuthorities` is about `Configuration`: whatever is accepted gives targets
and priorities as `AuthorityAssumption` asks for, so `validateUniqueMetricAuthorities`
checks enough although it leaves out slurm, windows_wsl, docker and proxmox.

`SSHCollect_proofs`. The invariant ties `conn`, `armed`, `spoiled` and `lost` to
`pc`: a deadline is set only while a session is opened or a command runs, and no
failed connection survives `run`. `ConnectionKept` is an action property and follows
from when a deadline can be set: not after the return of `run`. `NothingAfterFailure` and `ConnectionKept` are
for every kind, `SlurmCurrent` and `SlurmFailureShown` for every kind but
linux_ssh, which finding 2 shows to be needed. `RatesAreHonest` and `UsageIsHonest`
rest on an invariant that the counters are the remembered ones and what happened
since, or, after a restart, at most what happened since.

`DeadlineExact` says when the deadline is set, which is neither more nor less than
needed: always while a session or the command is waited for and until `run` returns,
and never otherwise.
`CollectIsShort` counts the operations ahead of a `Collect`, at most fourteen, its
rerun included;
each lowers the count, and nothing the peer does raises it.

`Topology_proofs`. `TypeCorrect` has the types. `SitesStable` is about two climbs
that may be given different candidates wherever several snapshots have the id of a
parent. `TrailInv` says that there is a trail, places and the ids left behind at each,
that the first climb laid and on which the second one is; no variable records it, so
the proof extends it step by step. When of several snapshots with one id exactly one
has the start's group (`GroupsDecide`), there is one candidate for each parent
(`OneParent`, by cardinalities), so the second climb cannot leave the trail.
`SitesOfOwnSource` has the premise `OwnGroups`: a source lists the parents of its
snapshots in their group, and another source that has a parent's id has it in another
group. A climb then stays among the snapshots of the start's source. The first half
is what the Proxmox provider does; the second is up to the configuration.
`ClimbsAreShort` bounds the steps by the ids not yet visited, whatever the parents.

`GuestCache_proofs`. `CacheInv` adds to the two contracts that a read happened no
earlier than its request was sent (`read` against `waited` and `polls`), that an entry
was read at most the time of its requests before it was put into its cache
(`CachesTrue`), that the item at hand fits the
step (`AtHand`), and what the snapshot at hand already keeps (`JobHonest`): its
disk is honest all the time, its memory only once it is complete, since until
then it still holds PVE's figure. From it: `MemoryKept`, `DiskKept`. `IdentitiesKept`
adds that an item still to be collected has no snapshot (`Pend`), so that learning its
identity now contradicts nothing collected before. `CollectAdvances`: each step is
done with an item or lowers the stage of the one at hand, its polls counted in.

`WSLCollect_proofs`. `TypeCorrect` has the types. `AgeInv` is the same argument for
GPU probes, with the age bounded wherever a probe is shown, by its own distribution
or by the host (`AgeKept`). `HostKept` and `GPUKept` follow from it by steps; the
second has the premise `NVIDIA`, without which a failed probe does clear the name
(section 6).

`DockerCollect_proofs`. `PoolInv` says that free slots and holders add up to the
capacity, that goroutines exist for the listed containers and for no others, and
that all are done between collections; the proof counts holders with
`FiniteSetTheorems`. From it: `TypeCorrect` (the semaphore keeps its bounds).
`Answers` says what `results` means at each stage of a goroutine: before its request
nothing was answered; afterwards there is an error, or the stats are the full answer. On
both rest `OnlyMeasuredOnline`, and `RunningKept` with the premise that containers do
not share identities, which finding 3 shows to be needed. `NeverStuck`: as long as a
goroutine has not ended, one of them is not waiting or a slot is free.
`CollectIsShort` counts the goroutines that are still to get a slot, to ask and to
inspect; each step of one takes it out of a set for good.

Figures, in the first part of `SSHCollect_proofs`. One theorem per provider: data it
accepts makes a snapshot that the runner delivers. Their premises are what the provider leaves to the runner, so
they say what can hide a resource although its provider was content.
- `LinuxDeliverable`: sizes fit an int64 after the multiplication and network
  totals fit one; physical cores, mounts, GPUs and the counts are sound
  (`Unchecked`).
- `WindowsDeliverable`: in addition the usage (`UncheckedWindows`).
- `DockerDeliverable`: only that the count of processes is not negative. Counters
  may be anything, also the missing ones of a one-shot answer.
- `GuestDeliverable`: PVE's CPU share and counters (`ListedGuest`), and file systems
  that `summarizeGuestFilesystems` returned, none with a mountpoint of blanks. KiB times
  1024 may overflow: a total that became negative is refused by the provider and an
  available memory is not used, but a swap that became negative is only found by the
  runner, so the premise excludes it.

`Presence_proofs`. `PresenceInv` says when the next tick is due, how old the cache
entries, the snapshot in hand and the shown report can be at each step of a cycle,
each stage adding its own grace period or the rest of a cycle, and how long the cycle
under way can have been waited for. From it: `ReportsInTime`
(the gap), `ShownIsFresh`, and `PresenceIsKept`, which shows how much room the
interval must leave: `Interval + 2 * Cycle <= TTL`. The configuration accepts every
interval below the TTL, and nothing bounds a cycle, so that premise is up to the
deployment: with the default interval of 20 s and a TTL of 35 s a cycle may take
7.5 s.

The assumptions: each module's `...Assumption` says that constants have their
types and that `None` is none of the values; `AuthorityAssumption` adds what
configuration guarantees, that no two providers own a key (proved of
`Configuration` as `AcceptedAuthorities`), and what the providers fix, that an
owner returns its key with the highest priority; `WSLAssumption` what `NewWSL`
fixes; `PresenceAssumption` that the interval is positive, which `validate` does
not check, and that `Cycle` bounds a cycle; `WrapAssumption` that `Wrap` is even.

Every safety property of a passing run is stated by a theorem. Only model-checked:
- liveness. Of `Terminates`, `CollectReturns` and both `CollectEnds` the safety half
  is proved: `ClimbsAreShort`, `CollectIsShort` and `CollectAdvances` give a measure
  that every step of the code lowers and that nothing else raises, `NeverStuck` that
  a goroutine can always go on, `DeadlineExact` that no wait for a session or a
  command goes without a deadline. What remains is fairness, that the next step is
  taken, which needs ENABLED. `EventuallyReported` and `InfoConverges` speak of
  what fails and recurs over many cycles; of them only `CyclesAdvance` is proved, that
  each cycle comes to its end;
- `SummaryCorrect`, a fold over a list, which needs induction over lists.

## 5. Plan

Done: delivery, authority, topology, the collection of every provider, the figures
of every provider against the runner's validation, the scheduler with the caches
before it against the presence TTL, the configuration; a theorem for every safety
property that a run checks.

1. The network samples of the Docker and Proxmox providers as variables, with
   containers that are recreated under their identity.
2. Theorems: the Slurm store of linux_ssh where its host report is valid, the bound
   of a cycle from those of its collections, an inventory's groups from an accepted
   configuration.

## 6. Not modelled

- What the metrics are: in the state machines `validateSnapshot` is a choice and
  fields are data, except the counters of `Sampling`; `Figures` has the figures
  themselves. Load averages and texts are nowhere.
- The network samples of Docker and Proxmox, kept by identity, as state: `Figures`
  has what is computed from two samples, not which two.
- Reading the configuration file and resolving secrets.
- The remote collector scripts, PVE, Docker Engine, SSH and Komari: external,
  every answer that the code accepts being possible.
- `buildinfo`, logging, tag encoding, names, file permissions, flags, signals.
- The HTTP handlers: each is one read of the store under its lock.
- `CollectorNamed` has the premise that no two providers of equal priority return
  the key: otherwise the later one's tags are written into the cached snapshot.
  The documentation describes attaching to Proxmox guests only, where this
  cannot happen, so this is recorded as a hazard.
- `SiteStable` has the premise that groups tell sources with equal ids apart.
  Without groups the site depends on the iteration order of a map; recorded as a
  hazard.
- In `windows_wsl` mode NVIDIA is off and a failed GPU probe clears the GPU name
  that is shown; recorded as a hazard, and `GPUNotCleared` is checked with
  `EnableNVIDIA`.
