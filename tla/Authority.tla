----------------------------- MODULE Authority -----------------------------
(***************************************************************************)
(* Collection and merging: the first half of Cycle, NewRunner's            *)
(* authoritative targets, the authority cache and mergeSnapshots, all of   *)
(* internal/bridge/runner.go.                                              *)
(*                                                                         *)
(* The providers are collected one after another in the order of           *)
(* buildProviders.  A key may be seen by several of them; one may be the   *)
(* metric authority of the key, and then only its metrics may be reported, *)
(* from this cycle or from its last valid snapshot while that is not older *)
(* than the grace period.                                                  *)
(*                                                                         *)
(* A snapshot keeps, of its payload, which provider took it and when and   *)
(* whether validateSnapshot accepts it; of its tags, whose metrics_source  *)
(* they carry; of its discovery metadata, who supplied the parent.  Tags   *)
(* are a Go map: "shared" says it is the very map the cache entry of the   *)
(* key holds, so that writing to the one writes to the other.              *)
(***************************************************************************)
EXTENDS Integers

CONSTANTS
    Key,        \* resource keys
    N,          \* number of providers; they are collected in the order 1..N
    Target,     \* Target[p]: the keys whose metrics provider p owns
    Emits,      \* Emits[p]: the keys provider p may return a snapshot of
    Priority,   \* Priority[p]: the priority of p's snapshots
    Parented,   \* Parented[p]: the keys for which p's snapshots name a parent
    Grace,      \* authorityGracePeriod
    MaxTime,    \* bound on the clock
    None        \* absence of a snapshot, a cache entry, a parent or a time

Provider == 1..N
Targets  == UNION {Target[p] : p \in Provider}

\* An authority owns metrics it can collect (MetricTargets is the identity of
\* its own snapshot), no two own the same key (validateUniqueMetricAuthorities),
\* and no snapshot ranks above an authority's (100 in linuxssh and windowsssh).
ASSUME AuthorityAssumption ==
    /\ N \in Nat /\ Grace \in Nat /\ MaxTime \in Nat
    /\ Target \in [Provider -> SUBSET Key]
    /\ Emits \in [Provider -> SUBSET Key]
    /\ Priority \in [Provider -> Nat]
    /\ Parented \in [Provider -> SUBSET Key]
    /\ \A p \in Provider : Target[p] \subseteq Emits[p]
    /\ \A p, q \in Provider : p # q => Target[p] \cap Target[q] = {}
    /\ \A p, q \in Provider :
        Target[p] \cap Emits[q] # {} => Priority[q] <= Priority[p]

Snapshot == [by : Provider, at : 0..MaxTime, valid : BOOLEAN, tag : Provider,
             parent : Provider \cup {None}, shared : BOOLEAN]
Cached   == [snap : Snapshot, savedAt : 0..MaxTime]

ASSUME NoneAssumption == None \notin Snapshot \cup Cached \cup Provider \cup 0..MaxTime

VARIABLES
    now,        \* the clock
    pc,         \* "wait", "collect" or "process"
    next,       \* the provider collected next
    merged,     \* merged[k]: the snapshot of k in this cycle, or None
    cache,      \* authorityCache
    appliedAt,  \* history: the time applyMetricAuthorities looked at
    latest,     \* history: time of the last valid snapshot of k's authority
    located     \* history: keys whose parent was named in this cycle

vars == <<now, pc, next, merged, cache, appliedAt, latest, located>>

\* Clock, snapshots and cache entries have their types.
TypeOK ==
    /\ now \in 0..MaxTime /\ appliedAt \in 0..MaxTime
    /\ pc \in {"wait", "collect", "process"}
    /\ next \in 1..(N + 1)
    /\ merged \in [Key -> Snapshot \cup {None}]
    /\ cache \in [Key -> Cached \cup {None}]
    /\ latest \in [Key -> 0..MaxTime \cup {None}]
    /\ located \subseteq Key

Init ==
    /\ now = 0 /\ appliedAt = 0
    /\ pc = "wait" /\ next = 1
    /\ merged = [k \in Key |-> None]
    /\ cache = [k \in Key |-> None]
    /\ latest = [k \in Key |-> None]
    /\ located = {}

-----------------------------------------------------------------------------
(* mergeSnapshots *)

Base(a, b)       == IF Priority[a.by] > Priority[b.by] THEN b ELSE a
Enrichment(a, b) == IF Priority[a.by] > Priority[b.by] THEN a ELSE b

\* mutant: the earlier snapshot wins a tie
MergeFirst(a, b) ==
    IF Priority[a.by] >= Priority[b.by]
    THEN [b EXCEPT !.by = a.by, !.at = a.at, !.valid = a.valid, !.tag = a.tag]
    ELSE [a EXCEPT !.by = b.by, !.at = b.at, !.valid = b.valid, !.tag = b.tag]

\* mutant: the parent is taken from the enrichment even when it names none
MergeParent(a, b) ==
    LET e == Enrichment(a, b)
    IN  [e EXCEPT !.shared = Base(a, b).shared]

\* mutant: the tags of the base win
MergeTags(a, b) ==
    LET e == Enrichment(a, b)
    IN  [e EXCEPT !.shared = Base(a, b).shared,
                  !.tag = Base(a, b).tag,
                  !.parent = IF @ # None THEN @ ELSE Base(a, b).parent]

\* The payload and the tags of the enrichment, over the metadata of the base
\* where the enrichment has none; the map of tags is the base's.
Merge(a, b) ==
    LET e == Enrichment(a, b)
        d == Base(a, b)
    IN  [by |-> e.by, at |-> e.at, valid |-> e.valid, tag |-> e.tag,
         parent |-> IF e.parent # None THEN e.parent ELSE d.parent,
         shared |-> d.shared]

\* What merging a with b makes of the cache entry c of their key: writing the
\* tags of the enrichment into the base's map writes them into the entry too
\* when it is the same map.
Retag(c, a, b) ==
    IF Base(a, b).shared THEN [c EXCEPT !.snap.tag = Enrichment(a, b).tag] ELSE c

-----------------------------------------------------------------------------
StartCycle ==
    /\ pc = "wait"
    /\ pc' = "collect" /\ next' = 1
    /\ merged' = [k \in Key |-> None]
    /\ located' = {}
    /\ UNCHANGED <<now, cache, appliedAt, latest>>

CollectFails ==
    /\ pc = "collect" /\ next \in Provider
    /\ next' = next + 1
    /\ UNCHANGED <<now, pc, merged, cache, appliedAt, latest, located>>

\* The snapshot of k that provider p takes; those of the keys vs are valid.
Taken(p, k, vs) ==
    [by |-> p, at |-> now, valid |-> k \in vs, tag |-> p,
     parent |-> IF k \in Parented[p] THEN p ELSE None,
     shared |-> k \in Target[p]]

\* mutant: an invalid snapshot of an authority is used like any other
UsedUnchecked(p, ks, vs) == ks

\* The snapshots provider p returned for the keys ks, those of vs being valid.
\* An invalid snapshot of a key that p owns is left out.
Used(p, ks, vs) == {k \in ks : k \in Target[p] => k \in vs}

\* mutant: the entry of a key is made once and never renewed
CachedOnce(p, k, vs) ==
    IF k \in Target[p] /\ cache[k] = None
    THEN [snap |-> Taken(p, k, vs), savedAt |-> now]
    ELSE cache[k]

\* What authorityCache holds for k when p has returned a used snapshot of it.
Entry(p, k, vs) ==
    IF k \in Target[p]
    THEN [snap |-> Taken(p, k, vs), savedAt |-> now]
    ELSE cache[k]

Collect(p, ks, vs) ==
    LET used == Used(p, ks, vs)
        T(k) == Taken(p, k, vs)
    IN  /\ pc = "collect" /\ next = p
        /\ next' = next + 1
        /\ merged' = [k \in Key |->
                        IF k \notin used THEN merged[k]
                        ELSE IF merged[k] = None THEN T(k) ELSE Merge(merged[k], T(k))]
        /\ cache' = [k \in Key |->
                        IF k \notin used THEN cache[k]
                        ELSE IF merged[k] = None THEN Entry(p, k, vs)
                        ELSE Retag(Entry(p, k, vs), merged[k], T(k))]
        /\ latest' = [k \in Key |-> IF k \in ks \cap vs \cap Target[p] THEN now ELSE latest[k]]
        /\ located' = located \cup (used \cap Parented[p])
        /\ UNCHANGED <<now, pc, appliedAt>>

\* mutant: an entry is used however old it is
UsableForEver(k) == cache[k] # None

\* The cache entry of k is there and not older than the grace period.
Usable(k) == cache[k] # None /\ now - cache[k].savedAt <= Grace

\* applyMetricAuthorities: an owned key shows its authority's entry, over what
\* this cycle discovered of it, or nothing.
Apply ==
    /\ pc = "collect" /\ next = N + 1
    /\ merged' = [k \in Key |->
                    IF k \notin Targets THEN merged[k]
                    ELSE IF ~Usable(k) THEN None
                    ELSE IF merged[k] = None THEN cache[k].snap
                    ELSE Merge(merged[k], cache[k].snap)]
    /\ cache' = [k \in Key |->
                    IF k \in Targets /\ Usable(k) /\ merged[k] # None
                    THEN Retag(cache[k], merged[k], cache[k].snap)
                    ELSE cache[k]]
    /\ appliedAt' = now
    /\ pc' = "process"
    /\ UNCHANGED <<now, next, latest, located>>

\* The snapshots were delivered: module Delivery.
Finish ==
    /\ pc = "process"
    /\ pc' = "wait"
    /\ UNCHANGED <<now, next, merged, cache, appliedAt, latest, located>>

\* Collecting, delivering and waiting for the ticker all take time.
Tick ==
    /\ now < MaxTime
    /\ now' = now + 1
    /\ UNCHANGED <<pc, next, merged, cache, appliedAt, latest, located>>

Next ==
    \/ StartCycle
    \/ CollectFails
    \/ \E p \in Provider : \E ks \in SUBSET Emits[p] : \E vs \in SUBSET ks : Collect(p, ks, vs)
    \/ Apply
    \/ Finish
    \/ Tick

Spec == Init /\ [][Next]_vars

-----------------------------------------------------------------------------
(* Safety *)

\* What Cycle hands to process for key k.
Handed(k) == pc = "process" /\ merged[k] # None

Owns(p, k) == k \in Target[p]

\* The metrics handed on for an owned key are a valid snapshot of its authority,
\* whatever the other providers saw, failed to see or returned later in the same
\* cycle with the same priority (runner.go:96-118, 293-313).
OnlyAuthorityShown ==
    \A k \in Targets : Handed(k) => Owns(merged[k].by, k) /\ merged[k].valid

\* An owned key is handed on exactly while its authority's last valid snapshot
\* is within the grace period, and then with that snapshot: no older one, no
\* report before the first one, none after the grace (runner.go:104-110, 293-307).
LatestSampleShown ==
    pc = "process" => \A k \in Targets :
        IF latest[k] # None /\ appliedAt - latest[k] <= Grace
        THEN merged[k] # None /\ merged[k].at = latest[k]
        ELSE merged[k] = None

\* A snapshot keeps the parent that discovery named in this cycle when the
\* metrics of a collector that knows no parent replace the payload
\* (runner.go:315-316, 337-339).
ParentKept == \A k \in located : Handed(k) => merged[k].parent # None

\* No two providers return k with the same priority.
Untied(k) ==
    \A p, q \in Provider :
        p # q /\ k \in Emits[p] \cap Emits[q] => Priority[p] # Priority[q]

\* The collector named in the client version is the one that took the metrics,
\* where no other provider returns the key with the same priority
\* (runner.go:124, 208-216, 343-345).
CollectorNamed == \A k \in Key : Handed(k) /\ Untied(k) => merged[k].tag = merged[k].by
=============================================================================
