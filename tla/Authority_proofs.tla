-------------------------- MODULE Authority_proofs --------------------------
(***************************************************************************)
(* Theorems about Authority, for every number of providers, all keys,      *)
(* targets and priorities the assumptions allow, and every grace period.   *)
(***************************************************************************)
EXTENDS Authority, Configuration, TLAPS

-----------------------------------------------------------------------------
(* Merging *)

LEMMA ConstantFacts ==
    /\ N \in Nat /\ Grace \in Nat /\ MaxTime \in Nat
    /\ \A p \in Provider : Target[p] \subseteq Key /\ Emits[p] \subseteq Key
                           /\ Parented[p] \subseteq Key
                           /\ Target[p] \subseteq Emits[p] /\ Priority[p] \in Nat
    /\ \A p, q \in Provider, k \in Key :
        k \in Target[p] /\ k \in Emits[q] => Priority[q] <= Priority[p]
    /\ None \notin Snapshot /\ None \notin Cached /\ None \notin 0..MaxTime
  BY AuthorityAssumption, NoneAssumption DEF AuthorityAssumption, NoneAssumption

LEMMA SnapshotFields ==
    ASSUME NEW s \in Snapshot
    PROVE  /\ s.by \in Provider /\ s.at \in 0..MaxTime /\ s.valid \in BOOLEAN
           /\ s.tag \in Provider /\ s.parent \in Provider \cup {None} /\ s.shared \in BOOLEAN
  BY DEF Snapshot

\* A merge is a snapshot whose payload is one of the two, the second when it
\* ranks at least as high.
LEMMA MergeResult ==
    ASSUME NEW a \in Snapshot, NEW b \in Snapshot
    PROVE  /\ Merge(a, b) \in Snapshot
           /\ Merge(a, b).by \in {a.by, b.by}
           /\ Merge(a, b).shared => a.shared \/ b.shared
           /\ a.parent # None \/ b.parent # None => Merge(a, b).parent # None
           /\ Priority[a.by] <= Priority[b.by] =>
                /\ Merge(a, b).by = b.by
                /\ Merge(a, b).at = b.at
                /\ Merge(a, b).valid = b.valid
  <1> DEFINE e == Enrichment(a, b)
             d == Base(a, b)
             parent == IF e.parent # None THEN e.parent ELSE d.parent
  <1>1. e \in Snapshot /\ d \in Snapshot /\ e.by \in {a.by, b.by} /\ d \in {a, b}
    BY DEF Enrichment, Base
  <1>2. Merge(a, b) = [by |-> e.by, at |-> e.at, valid |-> e.valid, tag |-> e.tag,
                       parent |-> parent, shared |-> d.shared]
    BY DEF Merge
  <1>3. Priority[a.by] <= Priority[b.by] => e = b
    BY SnapshotFields, ConstantFacts DEF Enrichment
  <1>4. e.by \in Provider /\ e.at \in 0..MaxTime /\ e.valid \in BOOLEAN /\ e.tag \in Provider
        /\ parent \in Provider \cup {None} /\ d.shared \in BOOLEAN
    BY <1>1, SnapshotFields
  <1>5. a.parent # None \/ b.parent # None => parent # None
    BY DEF Enrichment, Base
  <1> HIDE DEF e, d, parent
  <1> QED
    BY <1>1, <1>2, <1>3, <1>4, <1>5 DEF Snapshot

\* Writing tags into a cache entry leaves its payload and its time alone.
LEMMA RetagResult ==
    ASSUME NEW c \in Cached, NEW a \in Snapshot, NEW b \in Snapshot
    PROVE  /\ Retag(c, a, b) \in Cached /\ Retag(c, a, b) # None
           /\ Retag(c, a, b).savedAt = c.savedAt
           /\ Retag(c, a, b).snap.by = c.snap.by
           /\ Retag(c, a, b).snap.at = c.snap.at
           /\ Retag(c, a, b).snap.valid = c.snap.valid
  <1>1. Enrichment(a, b).tag \in Provider
    BY SnapshotFields DEF Enrichment
  <1> QED
    BY <1>1, ConstantFacts DEF Retag, Cached, Snapshot

-----------------------------------------------------------------------------
(* The inductive invariant.  A cache entry is the last valid snapshot of   *)
(* the key's authority; until the authorities are applied, a merged        *)
(* snapshot comes from some provider that emits its key.                   *)

EntryOf(k) ==
    cache[k] # None =>
        /\ k \in Targets
        /\ cache[k].snap.by \in Provider /\ Owns(cache[k].snap.by, k)
        /\ cache[k].snap.valid
        /\ cache[k].snap.at = cache[k].savedAt
        /\ latest[k] = cache[k].savedAt

CacheInv  == \A k \in Key : EntryOf(k) /\ (latest[k] # None => cache[k] # None)
MergedInv == \A k \in Key : merged[k] # None =>
                /\ k \in Emits[merged[k].by]
                /\ merged[k].shared => cache[k] # None

AuthorityInv ==
    /\ TypeOK
    /\ CacheInv
    /\ pc = "collect" => MergedInv
    /\ OnlyAuthorityShown
    /\ LatestSampleShown

LEMMA InitInv == Init => AuthorityInv
  BY ConstantFacts
  DEF Init, AuthorityInv, TypeOK, CacheInv, EntryOf, MergedInv, OnlyAuthorityShown,
      LatestSampleShown, Handed

LEMMA TakenResult ==
    ASSUME TypeOK, NEW p \in Provider, NEW k \in Key, NEW vs
    PROVE  /\ Taken(p, k, vs) \in Snapshot
           /\ Taken(p, k, vs).by = p /\ Taken(p, k, vs).at = now /\ Taken(p, k, vs).valid = (k \in vs)
           /\ Taken(p, k, vs).shared = (k \in Target[p])
  BY DEF Taken, Snapshot, TypeOK

\* The entry of k is the one it was, but for the tags in it.
SameEntry(k) ==
    \/ cache'[k] = cache[k]
    \/ /\ cache[k] # None /\ cache'[k] # None
       /\ cache'[k] \in Cached
       /\ cache'[k].savedAt = cache[k].savedAt
       /\ cache'[k].snap.by = cache[k].snap.by
       /\ cache'[k].snap.at = cache[k].snap.at
       /\ cache'[k].snap.valid = cache[k].snap.valid

LEMMA CollectInv ==
    ASSUME AuthorityInv, NEW p \in Provider, NEW ks \in SUBSET Emits[p], NEW vs \in SUBSET ks,
           Collect(p, ks, vs)
    PROVE  AuthorityInv'
  <1> DEFINE used == Used(p, ks, vs)
             T(k) == Taken(p, k, vs)
             E(k) == Entry(p, k, vs)
  <1>1. /\ pc = "collect" /\ pc' = "collect" /\ now' = now /\ appliedAt' = appliedAt
        /\ next = p /\ next' = next + 1
        /\ merged' = [k \in Key |->
                        IF k \notin used THEN merged[k]
                        ELSE IF merged[k] = None THEN T(k) ELSE Merge(merged[k], T(k))]
        /\ cache' = [k \in Key |->
                        IF k \notin used THEN cache[k]
                        ELSE IF merged[k] = None THEN E(k)
                        ELSE Retag(E(k), merged[k], T(k))]
        /\ latest' = [k \in Key |-> IF k \in ks \cap vs \cap Target[p] THEN now ELSE latest[k]]
        /\ located' = located \cup (used \cap Parented[p])
    BY DEF Collect
  <1>2. used \subseteq ks /\ ks \subseteq Emits[p] /\ ks \subseteq Key
        /\ \A k \in used : k \in Target[p] => k \in vs
    BY ConstantFacts DEF Used
  <1>3. \A k \in Key :
            /\ T(k) \in Snapshot /\ T(k).by = p
            /\ T(k).shared = (k \in Target[p])
    BY TakenResult DEF AuthorityInv
  <1>4. \A k \in Key : merged[k] # None => merged[k] \in Snapshot
    BY DEF AuthorityInv, TypeOK
  <1>5. \A k \in used : k \in Target[p] =>
            /\ E(k) \in Cached
            /\ E(k).savedAt = now /\ E(k).snap.by = p /\ E(k).snap.at = now /\ E(k).snap.valid
    <2> TAKE k \in used
    <2> HAVE k \in Target[p]
    <2>1. k \in Key /\ k \in vs
      BY <1>2
    <2>2. E(k) = [snap |-> Taken(p, k, vs), savedAt |-> now]
      BY <2>1 DEF Entry
    <2>3. /\ Taken(p, k, vs) \in Snapshot /\ now \in 0..MaxTime
          /\ Taken(p, k, vs).by = p /\ Taken(p, k, vs).at = now
          /\ Taken(p, k, vs).valid = (k \in vs)
      BY <2>1, TakenResult DEF AuthorityInv, TypeOK
    <2>4. Taken(p, k, vs).valid
      BY <2>1, <2>3, Zenon
    <2> HIDE DEF E
    <2> QED
      BY <2>2, <2>3, <2>4 DEF Cached
  <1>6. \A k \in Key : k \notin Target[p] => E(k) = cache[k]
    BY DEF Entry
  <1>7. \A k \in Key : cache[k] # None => cache[k] \in Cached
    BY DEF AuthorityInv, TypeOK
  <1> HIDE DEF used, T, E
  <1>8. \A k \in Key : merged'[k] # None =>
            /\ merged'[k] \in Snapshot /\ k \in Emits[merged'[k].by]
            /\ merged'[k].shared => cache[k] # None \/ (k \in used /\ k \in Target[p])
    <2> TAKE k \in Key
    <2> HAVE merged'[k] # None
    <2>1. CASE k \notin used
      BY <1>1, <1>4, <2>1 DEF AuthorityInv, MergedInv
    <2>2. CASE k \in used /\ merged[k] = None
      BY <1>1, <1>2, <1>3, <2>2
    <2>3. CASE k \in used /\ merged[k] # None
      <3>1. merged'[k] = Merge(merged[k], T(k))
        BY <1>1, <2>3
      <3>2. /\ Merge(merged[k], T(k)) \in Snapshot
            /\ Merge(merged[k], T(k)).by \in {merged[k].by, T(k).by}
            /\ Merge(merged[k], T(k)).shared => merged[k].shared \/ T(k).shared
        BY <1>3, <1>4, <2>3, MergeResult
      <3> QED
        BY <1>1, <1>2, <1>3, <2>3, <3>1, <3>2 DEF AuthorityInv, MergedInv
    <2> QED
      BY <2>1, <2>2, <2>3
  <1>9. \A k \in Key : k \in used /\ k \in Target[p] =>
            /\ cache'[k] \in Cached
            /\ cache'[k].savedAt = now /\ cache'[k].snap.by = p
            /\ cache'[k].snap.at = now /\ cache'[k].snap.valid
    <2> TAKE k \in Key
    <2> HAVE k \in used /\ k \in Target[p]
    <2>1. CASE merged[k] = None
      BY <1>1, <1>5, <2>1
    <2>2. CASE merged[k] # None
      <3>1. cache'[k] = Retag(E(k), merged[k], T(k))
        BY <1>1, <2>2
      <3>2. E(k) \in Cached /\ merged[k] \in Snapshot /\ T(k) \in Snapshot
        BY <1>3, <1>4, <1>5, <2>2
      <3>3. /\ cache'[k] \in Cached
            /\ cache'[k].savedAt = E(k).savedAt /\ cache'[k].snap.by = E(k).snap.by
            /\ cache'[k].snap.at = E(k).snap.at /\ cache'[k].snap.valid = E(k).snap.valid
        <4>1. LET r == Retag(E(k), merged[k], T(k)) IN
                /\ r \in Cached
                /\ r.savedAt = E(k).savedAt /\ r.snap.by = E(k).snap.by
                /\ r.snap.at = E(k).snap.at /\ r.snap.valid = E(k).snap.valid
          BY <3>2, RetagResult
        <4> QED
          BY <3>1, <4>1
      <3>4. /\ E(k).savedAt = now /\ E(k).snap.by = p
            /\ E(k).snap.at = now /\ E(k).snap.valid
        BY <1>5, Zenon
      <3> QED
        BY <3>3, <3>4, Zenon
    <2> QED
      BY <2>1, <2>2
  <1>10. \A k \in Key : ~(k \in used /\ k \in Target[p]) => SameEntry(k)
    <2> TAKE k \in Key
    <2> HAVE ~(k \in used /\ k \in Target[p])
    <2>1. CASE k \notin used \/ merged[k] = None
      BY <1>1, <1>6, <2>1 DEF SameEntry
    <2>2. CASE k \in used /\ merged[k] # None
      <3>1. cache'[k] = Retag(cache[k], merged[k], T(k))
        BY <1>1, <1>6, <2>2
      <3>2. CASE cache[k] = None
        <4>1. ~merged[k].shared /\ ~T(k).shared
          BY <1>1, <1>3, <2>2, <3>2 DEF AuthorityInv, MergedInv
        <4> QED
          BY <3>1, <4>1 DEF Retag, Base, SameEntry
      <3>3. CASE cache[k] # None
        <4>1. cache[k] \in Cached /\ merged[k] \in Snapshot /\ T(k) \in Snapshot
          BY <1>3, <1>4, <1>7, <2>2, <3>3
        <4> QED
          BY <3>1, <3>3, <4>1, RetagResult DEF SameEntry
      <3> QED
        BY <3>2, <3>3
    <2> QED
      BY <2>1, <2>2
  <1>11. \A k \in Key :
            /\ cache'[k] # None => cache'[k] \in Cached
            /\ cache[k] # None \/ (k \in used /\ k \in Target[p]) => cache'[k] # None
    BY <1>7, <1>9, <1>10, ConstantFacts DEF SameEntry
  <1>12. TypeOK'
    <2>1. merged' \in [Key -> Snapshot \cup {None}]
      BY <1>1, <1>8
    <2>2. cache' \in [Key -> Cached \cup {None}]
      BY <1>1, <1>11
    <2>3. latest' \in [Key -> 0..MaxTime \cup {None}]
      BY <1>1 DEF AuthorityInv, TypeOK
    <2>4. next' \in 1..(N + 1) /\ located' \subseteq Key
      BY <1>1, <1>2, ConstantFacts DEF AuthorityInv, TypeOK, Provider
    <2> QED
      BY <1>1, <2>1, <2>2, <2>3, <2>4 DEF AuthorityInv, TypeOK
  <1>13. CacheInv'
    <2> SUFFICES ASSUME NEW k \in Key
                 PROVE  EntryOf(k)' /\ (latest'[k] # None => cache'[k] # None)
      BY DEF CacheInv
    <2>1. CASE k \in used /\ k \in Target[p]
      <3>1. latest'[k] = now
        BY <1>1, <1>2, <2>1
      <3>2. k \in Targets
        BY <2>1 DEF Targets
      <3> QED
        BY <1>9, <1>11, <2>1, <3>1, <3>2 DEF EntryOf, Owns
    <2>2. CASE ~(k \in used /\ k \in Target[p])
      <3>1. latest'[k] = latest[k]
        <4>1. ~(k \in ks \cap vs \cap Target[p])
          BY <2>2 DEF used, Used
        <4> QED
          BY <1>1, <4>1
      <3>2. EntryOf(k) /\ (latest[k] # None => cache[k] # None)
        BY DEF AuthorityInv, CacheInv
      <3>3. SameEntry(k)
        BY <1>10, <2>2
      <3> QED
        BY <1>11, <3>1, <3>2, <3>3 DEF EntryOf, Owns, SameEntry
    <2> QED
      BY <2>1, <2>2
  <1>14. MergedInv'
    BY <1>8, <1>11 DEF MergedInv
  <1> QED
    BY <1>1, <1>12, <1>13, <1>14 DEF AuthorityInv, OnlyAuthorityShown, LatestSampleShown, Handed

\* Applying the authorities gives each owned key its cache entry, which ranks at
\* least as high as anything another provider returned for the key.
LEMMA ApplyInv == ASSUME AuthorityInv, Apply PROVE AuthorityInv'
  <1>1. /\ pc = "collect" /\ pc' = "process" /\ now' = now /\ appliedAt' = now
        /\ next' = next /\ latest' = latest /\ located' = located
        /\ merged' = [k \in Key |->
                        IF k \notin Targets THEN merged[k]
                        ELSE IF ~Usable(k) THEN None
                        ELSE IF merged[k] = None THEN cache[k].snap
                        ELSE Merge(merged[k], cache[k].snap)]
        /\ cache' = [k \in Key |->
                        IF k \in Targets /\ Usable(k) /\ merged[k] # None
                        THEN Retag(cache[k], merged[k], cache[k].snap)
                        ELSE cache[k]]
    BY DEF Apply
  <1>2. /\ \A k \in Key : merged[k] # None =>
                merged[k] \in Snapshot /\ k \in Emits[merged[k].by]
        /\ \A k \in Key : cache[k] # None => cache[k] \in Cached /\ cache[k].snap \in Snapshot
        /\ now \in 0..MaxTime /\ latest \in [Key -> 0..MaxTime \cup {None}]
    BY <1>1 DEF AuthorityInv, TypeOK, MergedInv, Cached
  <1>3. \A k \in Key : EntryOf(k) /\ (latest[k] # None => cache[k] # None)
    BY DEF AuthorityInv, CacheInv
  <1>4. \A k \in Key : Usable(k) => cache[k] # None
    BY DEF Usable
  <1>5. \A k \in Key : SameEntry(k)
    <2> TAKE k \in Key
    <2>1. CASE k \in Targets /\ Usable(k) /\ merged[k] # None
      <3>1. cache'[k] = Retag(cache[k], merged[k], cache[k].snap)
        BY <1>1, <2>1
      <3>2. /\ cache[k] # None /\ cache[k] \in Cached
            /\ merged[k] \in Snapshot /\ cache[k].snap \in Snapshot
        BY <1>2, <1>4, <2>1
      <3> QED
        BY <3>1, <3>2, RetagResult DEF SameEntry
    <2>2. CASE ~(k \in Targets /\ Usable(k) /\ merged[k] # None)
      BY <1>1, <2>2 DEF SameEntry
    <2> QED
      BY <2>1, <2>2
  <1>6. \A k \in Key : cache'[k] # None => cache'[k] \in Cached
    BY <1>2, <1>5 DEF SameEntry
  <1>7. \A k \in Targets : Usable(k) =>
            /\ merged'[k] \in Snapshot /\ merged'[k] # None
            /\ merged'[k].by = cache[k].snap.by
            /\ merged'[k].at = cache[k].snap.at
            /\ merged'[k].valid = cache[k].snap.valid
    <2> TAKE k \in Targets
    <2> HAVE Usable(k)
    <2>1. k \in Key /\ cache[k] # None /\ cache[k].snap \in Snapshot
      BY <1>2, <1>4, ConstantFacts DEF Targets
    <2>2. CASE merged[k] = None
      BY <1>1, <2>1, <2>2, ConstantFacts
    <2>3. CASE merged[k] # None
      <3>1. merged[k] \in Snapshot /\ k \in Emits[merged[k].by] /\ merged[k].by \in Provider
        BY <1>2, <2>1, <2>3, SnapshotFields
      <3>2. cache[k].snap.by \in Provider /\ k \in Target[cache[k].snap.by]
        BY <1>3, <2>1 DEF EntryOf, Owns
      <3>3. Priority[merged[k].by] <= Priority[cache[k].snap.by]
        BY <2>1, <3>1, <3>2, ConstantFacts
      <3>4. merged'[k] = Merge(merged[k], cache[k].snap)
        BY <1>1, <2>1, <2>3
      <3> DEFINE m == Merge(merged[k], cache[k].snap)
      <3>5. /\ m \in Snapshot /\ m.by = cache[k].snap.by
            /\ m.at = cache[k].snap.at /\ m.valid = cache[k].snap.valid
        BY <2>1, <3>1, <3>3, MergeResult
      <3>6. merged'[k] = m /\ m # None
        BY <3>4, <3>5, ConstantFacts
      <3> HIDE DEF m
      <3> QED
        BY <3>5, <3>6
    <2> QED
      BY <2>2, <2>3
  <1>8. TypeOK'
    <2>1. merged' \in [Key -> Snapshot \cup {None}]
      <3> SUFFICES ASSUME NEW k \in Key PROVE merged'[k] \in Snapshot \cup {None}
        BY <1>1
      <3> QED
        BY <1>1, <1>2, <1>7
    <2>2. cache' \in [Key -> Cached \cup {None}]
      BY <1>1, <1>6
    <2> QED
      BY <1>1, <2>1, <2>2 DEF AuthorityInv, TypeOK
  <1>9. CacheInv'
    <2> SUFFICES ASSUME NEW k \in Key
                 PROVE  EntryOf(k)' /\ (latest'[k] # None => cache'[k] # None)
      BY DEF CacheInv
    <2> QED
      BY <1>1, <1>3, <1>5 DEF EntryOf, Owns, SameEntry
  <1>10. OnlyAuthorityShown'
    <2> SUFFICES ASSUME NEW k \in Targets, merged'[k] # None
                 PROVE  Owns(merged'[k].by, k) /\ merged'[k].valid
      BY DEF OnlyAuthorityShown, Handed, Owns
    <2>1. k \in Key /\ Usable(k)
      BY <1>1, ConstantFacts DEF Targets
    <2> QED
      BY <1>3, <1>4, <1>7, <2>1 DEF EntryOf
  <1>11. LatestSampleShown'
    <2> SUFFICES ASSUME NEW k \in Targets
                 PROVE  IF latest[k] # None /\ now - latest[k] <= Grace
                        THEN merged'[k] # None /\ merged'[k].at = latest[k]
                        ELSE merged'[k] = None
      BY <1>1 DEF LatestSampleShown
    <2>1. k \in Key
      BY ConstantFacts DEF Targets
    <2>2. Usable(k) <=> latest[k] # None /\ now - latest[k] <= Grace
      <3>1. CASE cache[k] = None
        BY <1>3, <2>1, <3>1 DEF Usable
      <3>2. CASE cache[k] # None
        <4>1. cache[k].savedAt \in 0..MaxTime /\ latest[k] = cache[k].savedAt
          BY <1>2, <1>3, <2>1, <3>2 DEF EntryOf, Cached
        <4> QED
          BY <3>2, <4>1, ConstantFacts DEF Usable
      <3> QED
        BY <3>1, <3>2
    <2>3. CASE Usable(k)
      BY <1>3, <1>4, <1>7, <2>1, <2>2, <2>3 DEF EntryOf
    <2>4. CASE ~Usable(k)
      BY <1>1, <2>1, <2>2, <2>4
    <2> QED
      BY <2>3, <2>4
  <1> QED
    BY <1>1, <1>8, <1>9, <1>10, <1>11 DEF AuthorityInv

LEMMA StepInv == AuthorityInv /\ [Next]_vars => AuthorityInv'
  <1> SUFFICES ASSUME AuthorityInv, [Next]_vars PROVE AuthorityInv'
    OBVIOUS
  <1> USE DEF AuthorityInv, OnlyAuthorityShown, LatestSampleShown, Handed, CacheInv, MergedInv,
              EntryOf, Owns
  <1>1. CASE StartCycle
    BY <1>1, ConstantFacts DEF StartCycle, TypeOK
  <1>2. CASE CollectFails
    BY <1>2, ConstantFacts DEF CollectFails, TypeOK, Provider
  <1>3. CASE \E p \in Provider : \E ks \in SUBSET Emits[p] : \E vs \in SUBSET ks :
                Collect(p, ks, vs)
    BY <1>3, CollectInv
  <1>4. CASE Apply
    BY <1>4, ApplyInv
  <1>5. CASE Finish
    BY <1>5 DEF Finish, TypeOK
  <1>6. CASE Tick
    BY <1>6, ConstantFacts DEF Tick, TypeOK
  <1>7. CASE UNCHANGED vars
    BY <1>7 DEF vars, TypeOK
  <1> QED
    BY <1>1, <1>2, <1>3, <1>4, <1>5, <1>6, <1>7 DEF Next

LEMMA Invariance == Spec => []AuthorityInv
  BY InitInv, StepInv, PTL DEF Spec

-----------------------------------------------------------------------------
(* The theorems *)

\* Clock, snapshots and cache entries keep their types (runner.go:23-36).
THEOREM TypeCorrect == Spec => []TypeOK
  <1>1. AuthorityInv => TypeOK
    BY DEF AuthorityInv
  <1> QED
    BY <1>1, Invariance, PTL

\* Whatever the providers return, fail to return or return late, the metrics of
\* an owned key are a valid snapshot of its authority (runner.go:96-118).
THEOREM AuthorityOnly == Spec => []OnlyAuthorityShown
  <1>1. AuthorityInv => OnlyAuthorityShown
    BY DEF AuthorityInv
  <1> QED
    BY <1>1, Invariance, PTL

\* An owned key is handed on exactly while the last valid snapshot of its
\* authority is within the grace period, and with it (runner.go:293-307).
THEOREM LatestShown == Spec => []LatestSampleShown
  <1>1. AuthorityInv => LatestSampleShown
    BY DEF AuthorityInv
  <1> QED
    BY <1>1, Invariance, PTL

-----------------------------------------------------------------------------
(* The parent *)

\* Until the authorities are applied, a key whose parent was named has a merged
\* snapshot with a parent.
ParentInv ==
    /\ pc = "collect" => \A k \in located : merged[k] # None /\ merged[k].parent # None
    /\ ParentKept

LEMMA CollectParent ==
    ASSUME AuthorityInv, ParentInv,
           NEW p \in Provider, NEW ks \in SUBSET Emits[p], NEW vs \in SUBSET ks,
           Collect(p, ks, vs)
    PROVE  ParentInv'
  <1> DEFINE used == Used(p, ks, vs)
             T(k) == Taken(p, k, vs)
  <1>1. /\ pc = "collect" /\ pc' = "collect"
        /\ merged' = [k \in Key |->
                        IF k \notin used THEN merged[k]
                        ELSE IF merged[k] = None THEN T(k) ELSE Merge(merged[k], T(k))]
        /\ located' = located \cup (used \cap Parented[p])
    BY DEF Collect
  <1>2. \A k \in Key :
            /\ T(k) \in Snapshot /\ T(k) # None
            /\ k \in Parented[p] => T(k).parent # None
    BY TakenResult, NoneAssumption DEF AuthorityInv, NoneAssumption, Taken
  <1>3. /\ located \subseteq Key /\ Parented[p] \subseteq Key
        /\ \A k \in Key : merged[k] # None => merged[k] \in Snapshot
    BY ConstantFacts DEF AuthorityInv, TypeOK
  <1>4. \A k \in located : merged[k] # None /\ merged[k].parent # None
    BY <1>1 DEF ParentInv
  <1> HIDE DEF used, T
  <1>5. ASSUME NEW k \in located'
        PROVE  merged'[k] # None /\ merged'[k].parent # None
    <2>1. k \in Key /\ (k \in located \/ (k \in used /\ k \in Parented[p]))
      BY <1>1, <1>3
    <2>2. CASE k \notin used
      BY <1>1, <1>4, <2>1, <2>2
    <2>3. CASE k \in used /\ merged[k] = None
      BY <1>1, <1>2, <1>4, <2>1, <2>3
    <2>4. CASE k \in used /\ merged[k] # None
      <3> DEFINE m == Merge(merged[k], T(k))
      <3>1. merged[k] \in Snapshot /\ T(k) \in Snapshot
        BY <1>2, <1>3, <2>1, <2>4
      <3>2. merged[k].parent # None \/ T(k).parent # None
        BY <1>2, <1>4, <2>1
      <3>3. m \in Snapshot /\ m.parent # None
        BY <3>1, <3>2, MergeResult
      <3>4. merged'[k] = m
        BY <1>1, <2>1, <2>4
      <3> HIDE DEF m
      <3> QED
        BY <3>3, <3>4, ConstantFacts
    <2> QED
      BY <2>2, <2>3, <2>4
  <1> QED
    BY <1>1, <1>5 DEF ParentInv, ParentKept, Handed

LEMMA ApplyParent == ASSUME AuthorityInv, ParentInv, Apply PROVE ParentInv'
  <1>1. /\ pc = "collect" /\ pc' = "process" /\ located' = located
        /\ merged' = [k \in Key |->
                        IF k \notin Targets THEN merged[k]
                        ELSE IF ~Usable(k) THEN None
                        ELSE IF merged[k] = None THEN cache[k].snap
                        ELSE Merge(merged[k], cache[k].snap)]
    BY DEF Apply
  <1>2. /\ located \subseteq Key
        /\ \A k \in Key : merged[k] # None => merged[k] \in Snapshot
        /\ \A k \in Key : cache[k] # None => cache[k].snap \in Snapshot
    BY DEF AuthorityInv, TypeOK, Cached
  <1>3. \A k \in located : merged[k] # None /\ merged[k].parent # None
    BY <1>1 DEF ParentInv
  <1>4. ASSUME NEW k \in located, merged'[k] # None
        PROVE  merged'[k].parent # None
    <2>1. k \in Key /\ merged[k] # None /\ merged[k] \in Snapshot /\ merged[k].parent # None
      BY <1>2, <1>3
    <2>2. CASE k \notin Targets
      BY <1>1, <2>1, <2>2
    <2>3. CASE k \in Targets
      <3> DEFINE m == Merge(merged[k], cache[k].snap)
      <3>1. Usable(k)
        BY <1>1, <1>4, <2>1, <2>3
      <3>2. merged'[k] = m
        BY <1>1, <2>1, <2>3, <3>1
      <3>3. cache[k].snap \in Snapshot
        BY <1>2, <2>1, <3>1 DEF Usable
      <3>4. m.parent # None
        BY <2>1, <3>3, MergeResult
      <3> HIDE DEF m
      <3> QED
        BY <3>2, <3>4
    <2> QED
      BY <2>2, <2>3
  <1> QED
    BY <1>1, <1>4 DEF ParentInv, ParentKept, Handed

\* Once a provider named the parent of a key in a cycle, the snapshot handed on
\* for the key has a parent (runner.go:337-339).
THEOREM ParentsKept == Spec => []ParentKept
  <1>1. Init => ParentInv
    BY DEF Init, ParentInv, ParentKept, Handed
  <1>2. AuthorityInv /\ ParentInv /\ [Next]_vars => ParentInv'
    <2> SUFFICES ASSUME AuthorityInv, ParentInv, [Next]_vars PROVE ParentInv'
      OBVIOUS
    <2> USE DEF ParentInv, ParentKept, Handed
    <2>1. CASE StartCycle
      BY <2>1 DEF StartCycle
    <2>2. CASE CollectFails
      BY <2>2 DEF CollectFails
    <2>3. CASE \E p \in Provider : \E ks \in SUBSET Emits[p] : \E vs \in SUBSET ks :
                  Collect(p, ks, vs)
      BY <2>3, CollectParent
    <2>4. CASE Apply
      BY <2>4, ApplyParent
    <2>5. CASE Finish
      BY <2>5 DEF Finish
    <2>6. CASE Tick
      BY <2>6 DEF Tick
    <2>7. CASE UNCHANGED vars
      BY <2>7 DEF vars
    <2> QED
      BY <2>1, <2>2, <2>3, <2>4, <2>5, <2>6, <2>7 DEF Next
  <1>3. ParentInv => ParentKept
    BY DEF ParentInv
  <1> QED
    BY <1>1, <1>2, <1>3, Invariance, PTL DEF Spec

-----------------------------------------------------------------------------
(* The collector named in the tags *)

\* Of two snapshots of a key that no two providers return with one priority, the
\* owner's is the enrichment, so the map of tags it shares with its cache entry is
\* never the one that is written to: the merged snapshot carries the tags of the
\* provider whose payload it has, and shares no map.
LEMMA UntiedMerge ==
    ASSUME NEW k \in Key, Untied(k),
           NEW a \in Snapshot, NEW b \in Snapshot, a.by # b.by,
           k \in Emits[a.by], k \in Emits[b.by],
           a.tag = a.by, b.tag = b.by,
           a.shared => Owns(a.by, k), b.shared => Owns(b.by, k)
    PROVE  /\ ~Base(a, b).shared
           /\ Merge(a, b).tag = Merge(a, b).by
           /\ ~Merge(a, b).shared
  <1>1. a.by \in Provider /\ b.by \in Provider
    BY SnapshotFields
  <1>2. Priority[a.by] \in Nat /\ Priority[b.by] \in Nat /\ Priority[a.by] # Priority[b.by]
    BY <1>1, ConstantFacts DEF Untied
  <1>3. CASE Priority[a.by] > Priority[b.by]
    <2>1. Base(a, b) = b /\ Enrichment(a, b) = a
      BY <1>3 DEF Base, Enrichment
    <2>2. ~(k \in Target[b.by])
      BY <1>1, <1>2, <1>3, ConstantFacts
    <2>3. ~b.shared
      BY <2>2 DEF Owns
    <2> QED
      BY <2>1, <2>3 DEF Merge
  <1>4. CASE ~(Priority[a.by] > Priority[b.by])
    <2>1. Base(a, b) = a /\ Enrichment(a, b) = b
      BY <1>4 DEF Base, Enrichment
    <2>2. ~(k \in Target[a.by])
      BY <1>1, <1>2, <1>4, ConstantFacts
    <2>3. ~a.shared
      BY <2>2 DEF Owns
    <2> QED
      BY <2>1, <2>3 DEF Merge
  <1> QED
    BY <1>3, <1>4

\* The entry of an untied key and its merged snapshot carry the tags of the
\* provider that took them; until the authorities are applied, that provider has
\* been collected, and owns the key if the map of tags is the entry's.
TagOf(k) ==
    /\ cache[k] # None => cache[k].snap.tag = cache[k].snap.by
    /\ pc # "wait" /\ merged[k] # None => merged[k].tag = merged[k].by
    /\ pc = "collect" /\ merged[k] # None =>
        /\ merged[k].by < next
        /\ merged[k].shared => Owns(merged[k].by, k)

TagInv == \A k \in Key : Untied(k) => TagOf(k)

LEMMA CollectTag ==
    ASSUME AuthorityInv, TagInv,
           NEW p \in Provider, NEW ks \in SUBSET Emits[p], NEW vs \in SUBSET ks,
           Collect(p, ks, vs)
    PROVE  TagInv'
  <1> SUFFICES ASSUME NEW k \in Key, Untied(k) PROVE TagOf(k)'
    BY DEF TagInv, Untied
  <1> DEFINE used == Used(p, ks, vs)
             t == Taken(p, k, vs)
             entry == Entry(p, k, vs)
             m == Merge(merged[k], t)
  <1>1. /\ pc = "collect" /\ pc' = "collect" /\ next = p /\ next' = p + 1
        /\ merged'[k] = IF k \notin used THEN merged[k]
                        ELSE IF merged[k] = None THEN t ELSE m
        /\ cache'[k] = IF k \notin used THEN cache[k]
                       ELSE IF merged[k] = None THEN entry
                       ELSE Retag(entry, merged[k], t)
    BY DEF Collect
  <1>2. /\ t \in Snapshot /\ t.by = p /\ t.tag = p
        /\ t.shared => Owns(p, k)
    BY TakenResult DEF AuthorityInv, Taken, Owns
  <1>3. /\ cache[k] # None => cache[k].snap.tag = cache[k].snap.by
        /\ merged[k] # None =>
              /\ merged[k] \in Snapshot /\ k \in Emits[merged[k].by]
              /\ merged[k].by \in Provider
              /\ merged[k].tag = merged[k].by /\ merged[k].by < p
              /\ merged[k].shared => Owns(merged[k].by, k)
    BY <1>1, SnapshotFields DEF AuthorityInv, TypeOK, MergedInv, TagInv, TagOf
  <1>4. k \in used => k \in Emits[p]
    BY DEF Used
  <1>5. entry = cache[k] \/ entry.snap.tag = entry.snap.by
    BY <1>2 DEF Entry
  <1>6. p \in Int /\ p < p + 1 /\ \A q \in Provider : q < p => q < p + 1 /\ q # p
    BY ConstantFacts DEF Provider
  <1> HIDE DEF used, t, entry, m
  <1>7. CASE k \notin used
    BY <1>1, <1>3, <1>6, <1>7 DEF TagOf, Owns
  <1>8. CASE k \in used /\ merged[k] = None
    BY <1>1, <1>2, <1>3, <1>5, <1>6, <1>8 DEF TagOf, Owns
  <1>9. CASE k \in used /\ merged[k] # None
    <2>1. /\ ~Base(merged[k], t).shared
          /\ m.tag = m.by
          /\ ~m.shared
      BY <1>2, <1>3, <1>4, <1>6, <1>9, UntiedMerge DEF m
    <2>2. m.by \in {merged[k].by, t.by}
      BY <1>2, <1>3, <1>9, MergeResult DEF m
    <2>3. merged'[k] = m /\ cache'[k] = entry
      BY <1>1, <1>9, <2>1 DEF Retag
    <2> QED
      BY <1>1, <1>2, <1>3, <1>5, <1>6, <1>9, <2>1, <2>2, <2>3 DEF TagOf
  <1> QED
    BY <1>7, <1>8, <1>9

LEMMA ApplyTag == ASSUME AuthorityInv, TagInv, Apply PROVE TagInv'
  <1> SUFFICES ASSUME NEW k \in Key, Untied(k) PROVE TagOf(k)'
    BY DEF TagInv, Untied
  <1> DEFINE c == cache[k]
             m == Merge(merged[k], c.snap)
  <1>1. /\ pc = "collect" /\ pc' = "process"
        /\ merged'[k] = IF k \notin Targets THEN merged[k]
                        ELSE IF ~Usable(k) THEN None
                        ELSE IF merged[k] = None THEN c.snap
                        ELSE m
        /\ cache'[k] = IF k \in Targets /\ Usable(k) /\ merged[k] # None
                       THEN Retag(c, merged[k], c.snap)
                       ELSE c
    BY DEF Apply
  <1>2. /\ c # None => c.snap.tag = c.snap.by /\ c.snap \in Snapshot /\ c \in Cached
        /\ merged[k] # None =>
              merged[k] \in Snapshot /\ k \in Emits[merged[k].by] /\ merged[k].tag = merged[k].by
    BY <1>1 DEF AuthorityInv, TypeOK, Cached, MergedInv, TagInv, TagOf
  <1>3. Usable(k) => c # None
    BY DEF Usable
  <1>4. c # None => c.snap.by \in Provider /\ k \in Target[c.snap.by]
    BY DEF AuthorityInv, CacheInv, EntryOf, Owns
  <1>5. CASE k \notin Targets \/ ~Usable(k) \/ merged[k] = None
    BY <1>1, <1>2, <1>3, <1>5 DEF TagOf
  <1>6. CASE k \in Targets /\ Usable(k) /\ merged[k] # None
    <2>1. Priority[merged[k].by] <= Priority[c.snap.by]
      BY <1>2, <1>3, <1>4, <1>6, ConstantFacts, SnapshotFields
    <2>2. Enrichment(merged[k], c.snap) = c.snap
      <3>1. Priority[merged[k].by] \in Nat /\ Priority[c.snap.by] \in Nat
        BY <1>2, <1>3, <1>4, <1>6, ConstantFacts, SnapshotFields
      <3> QED
        BY <2>1, <3>1 DEF Enrichment
    <2>3. m.tag = c.snap.tag /\ m.by = c.snap.by
      BY <2>2 DEF Merge
    <2>4. Retag(c, merged[k], c.snap) \in {c, [c EXCEPT !.snap.tag = c.snap.tag]}
      BY <2>2 DEF Retag
    <2>5. [c EXCEPT !.snap.tag = c.snap.tag] = c
      BY <1>2, <1>3, <1>6 DEF Cached, Snapshot
    <2> HIDE DEF m, c
    <2> QED
      BY <1>1, <1>2, <1>3, <1>6, <2>3, <2>4, <2>5 DEF TagOf, c
  <1> QED
    BY <1>5, <1>6

\* The collector that the client version names is the one whose metrics are
\* reported, for every key that no two providers return with the same priority
\* (runner.go:124, 208-216, 343-345).
THEOREM CollectorsNamed == Spec => []CollectorNamed
  <1>1. Init => TagInv
    BY DEF Init, TagInv, TagOf
  <1>2. AuthorityInv /\ TagInv /\ [Next]_vars => TagInv'
    <2> SUFFICES ASSUME AuthorityInv, TagInv, [Next]_vars PROVE TagInv'
      OBVIOUS
    <2>1. CASE StartCycle
      BY <2>1 DEF StartCycle, TagInv, TagOf
    <2>2. CASE CollectFails
      <3>1. next \in Int /\ N \in Nat
        BY ConstantFacts DEF AuthorityInv, TypeOK
      <3>2. \A k \in Key : pc = "collect" /\ merged[k] # None => merged[k].by \in Int
        BY ConstantFacts, SnapshotFields DEF AuthorityInv, TypeOK, Provider
      <3> QED
        BY <2>2, <3>1, <3>2 DEF CollectFails, TagInv, TagOf, Untied, Owns
    <2>3. CASE \E p \in Provider : \E ks \in SUBSET Emits[p] : \E vs \in SUBSET ks :
                  Collect(p, ks, vs)
      BY <2>3, CollectTag
    <2>4. CASE Apply
      BY <2>4, ApplyTag
    <2>5. CASE Finish
      BY <2>5 DEF Finish, TagInv, TagOf, Untied, Owns
    <2>6. CASE Tick
      BY <2>6 DEF Tick, TagInv, TagOf, Untied, Owns
    <2>7. CASE UNCHANGED vars
      BY <2>7 DEF vars, TagInv, TagOf, Untied, Owns
    <2> QED
      BY <2>1, <2>2, <2>3, <2>4, <2>5, <2>6, <2>7 DEF Next
  <1>3. TagInv => CollectorNamed
    BY DEF TagInv, TagOf, CollectorNamed, Handed
  <1> QED
    BY <1>1, <1>2, <1>3, Invariance, PTL DEF Spec

-----------------------------------------------------------------------------
(* Where the assumptions about targets and priorities come from *)

LEMMA RankBounded ==
    ASSUME NEW r
    PROVE  Rank(r) \in Nat /\ Rank(r) <= 100
  BY DEF Rank

\* Of an accepted configuration, however many providers it has: each provider
\* owns only whole identities, no two own the same, and none ranks above one that
\* owns.  This is what AuthorityAssumption asks of Target and Priority, and what
\* validateUniqueMetricAuthorities is for (config.go:246-281; it need not look at
\* slurm and windows_wsl, which own nothing).
THEOREM AcceptedAuthorities ==
    ASSUME NEW cfg, Valid(cfg), NEW r \in Providers(cfg), NEW s \in Providers(cfg)
    PROVE  /\ MetricTargets(cfg, r) # {} => Configured(cfg, r).attach.given = Parts
           /\ r # s => MetricTargets(cfg, r) \cap MetricTargets(cfg, s) = {}
           /\ MetricTargets(cfg, r) # {} => Rank(s) <= Rank(r)
  <1>1. ASSUME NEW x \in Providers(cfg), MetricTargets(cfg, x) # {}
        PROVE  /\ x \in Owners(cfg) /\ MetricTargets(cfg, x) = {Configured(cfg, x).attach.key}
               /\ Rank(x) = 100 /\ x[1] # "proxmox"
    <2>1. PICK t \in Types : x \in {t} \X DOMAIN cfg.providers[t]
      BY DEF Providers
    <2>2. x[1] \in Types
      BY <2>1
    <2>3. x[1] \in {"agentless_ssh", "linux_ssh", "windows_ssh"}
      BY <1>1, <2>2 DEF MetricTargets, Types, Order
    <2>4. "type" \in Configured(cfg, x).attach.given
          /\ MetricTargets(cfg, x) = {Configured(cfg, x).attach.key}
      BY <1>1 DEF MetricTargets
    <2> QED
      BY <1>1, <2>3, <2>4 DEF Owners, Rank
  <1>2. ASSUME MetricTargets(cfg, r) # {} PROVE Configured(cfg, r).attach.given = Parts
    <2>1. ValidProvider(r[1], Configured(cfg, r))
      BY Valid(cfg), r \in Providers(cfg) DEF Valid
    <2>2. r \in Owners(cfg) /\ r[1] # "proxmox"
      BY <1>2, <1>1
    <2>3. "type" \in Configured(cfg, r).attach.given
      BY <2>2 DEF Owners
    <2> QED
      BY <2>1, <2>2, <2>3 DEF ValidProvider, ValidAttach
  <1>3. ASSUME r # s PROVE MetricTargets(cfg, r) \cap MetricTargets(cfg, s) = {}
    <2>1. UniqueAuthorities(cfg)
      BY Valid(cfg) DEF Valid
    <2> QED
      BY <1>1, <1>3, <2>1 DEF UniqueAuthorities
  <1>4. ASSUME MetricTargets(cfg, r) # {} PROVE Rank(s) <= Rank(r)
    BY <1>1, <1>4, RankBounded
  <1> QED
    BY <1>2, <1>3, <1>4
=============================================================================
