-------------------------- MODULE GuestCache_proofs --------------------------
(* Theorems about GuestCache: the memory contract and the bound on the age   *)
(* of what is shown of a guest, for any cluster, grace period and timeout.   *)
EXTENDS GuestCache, TLAPS

\* What is at hand at each step of Collect.
AtHand ==
    /\ pc = "status" => item \in Node
    /\ pc \in {"os", "disk"} => item \in Guest
    /\ pc \in {"exec", "poll"} => item \in Qga
    /\ pc \in {"status", "os", "disk", "exec", "poll", "append"} =>
        item \in Item /\ job \in Snapshot
    /\ pc \in {"idle", "next"} => job = None

\* The types but that of the flags in snapshots, which AtHand and the type of
\* the collected snapshots have.
Typed ==
    /\ pc \in {"idle", "next", "status", "os", "disk", "exec", "poll", "append"}
    /\ status \in [Item -> {"up", "down", "hidden"}]
    /\ todo \subseteq Item
    /\ item \in Item \cup {None}
    /\ job \in Snapshot \cup {None}
    /\ polls \in 0..(MaxPolls - 1)
    /\ waited \in 0..Request
    /\ known \subseteq Item
    /\ memory \in [Guest -> Cached \cup {None}]
    /\ disk \in [Guest -> Cached \cup {None}]
    /\ snapshots \in [Item -> Snapshot \cup {None}]
    /\ AtHand

\* A sample for the request at hand was read since that was sent, or, while the
\* memory command is polled, since it was started.
ReadTrue ==
    /\ read \in Nat \cup {None}
    /\ pc \notin Asking => read = None /\ waited = 0
    /\ pc \in {"disk", "exec"} /\ read # None => read <= waited
    /\ pc = "poll" /\ read # None => read <= (polls + 1) * Request + waited

\* A sample that may still be used was read at most the time the request took
\* before it entered the cache: reuse renews nothing.
EntryTrue(entry, took) ==
    entry # None /\ entry.saved <= Grace => entry.taken <= entry.saved + took

CachesTrue ==
    \A g \in Guest : EntryTrue(memory[g], Command) /\ EntryTrue(disk[g], Request)

\* What the contracts say of one snapshot.
MemoryHonest(i, s) == i \in Qga /\ s.online => s.memory \in 0..Oldest
DiskHonest(i, s)   == i \in Guest => s.disk \in 0..(Grace + Request) \cup {None}

\* The snapshot at hand keeps the contract on memory once it is complete, and
\* the one on disks all the time.
JobHonest ==
    /\ pc = "append" => MemoryHonest(item, job)
    /\ job # None => DiskHonest(item, job)

\* The inductive invariant.
CacheInv ==
    /\ Typed /\ ReadTrue /\ CachesTrue /\ JobHonest
    /\ MemoryContract /\ DiskContract

-----------------------------------------------------------------------------
\* None and the samples of a cache are apart, and guests are not nodes.
LEMMA ConstantFacts ==
    /\ None \notin Snapshot /\ None \notin Cached /\ None \notin Item /\ None \notin Int
    /\ Node \cap Guest = {} /\ Qga \subseteq Guest
    /\ Grace \in Nat /\ MaxPolls \in Nat \ {0} /\ Request \in Nat
BY GuestAssumption, NothingAssumption DEF GuestAssumption, NothingAssumption

\* A request is part of the memory command, and so are the polls done so far
\* with one more.
LEMMA CommandTime ==
    /\ Command \in Nat /\ Request <= Command /\ Oldest = Grace + Command /\ Oldest \in Nat
    /\ \A n \in 0..(MaxPolls - 1) : (n + 1) * Request \in Nat
                                   /\ (n + 1) * Request + Request <= Command
    /\ \A n \in Nat : (n + 1) * Request + Request = (n + 1 + 1) * Request
<1>. USE ConstantFacts
<1>1. \A n \in Nat : (n + 1) * Request + Request = (n + 1 + 1) * Request
                   /\ (n + 1) * Request \in Nat
  OBVIOUS
<1>2. ASSUME NEW n \in 0..(MaxPolls - 1) PROVE (n + 1) * Request + Request <= Command
  <2>1. n + 1 <= MaxPolls /\ n + 1 \in Nat
    OBVIOUS
  <2>2. \A a, b, r \in Nat : a <= b => a * r <= b * r
    OBVIOUS
  <2>3. (n + 1) * Request <= MaxPolls * Request
    BY <2>1, <2>2
  <2>4. MaxPolls * Request + Request = (MaxPolls + 1) * Request
    OBVIOUS
  <2>. QED
    BY <2>3, <2>4, <1>1 DEF Command
<1>3. Command \in Nat
  BY DEF Command
<1>4. Request <= Command
  BY <1>1, <1>2, <1>3
<1>. QED
  BY <1>1, <1>2, <1>3, <1>4 DEF Oldest

\* A sample that is read within the time its request took is as old as allowed,
\* and true when it enters the cache.
LEMMA FreshFacts ==
    ASSUME NEW took \in {Request, Command}, read # None, read \in 0..took
    PROVE  Fresh \in Cached /\ EntryTrue(Fresh, took) /\ read \in Source
<1>1. read \in SampleAge /\ 0 \in 0..(Grace + 1)
  BY ConstantFacts, CommandTime DEF SampleAge
<1>. QED
  BY <1>1, ConstantFacts, CommandTime DEF Fresh, Cached, EntryTrue, Source

\* The age of a sample that may be used is within the grace period and the time
\* its request took.
LEMMA UsableAge ==
    ASSUME NEW took \in {Request, Command},
           NEW entry \in Cached \cup {None}, EntryTrue(entry, took), Usable(entry)
    PROVE  entry.taken \in 0..(Grace + took) /\ entry.taken \in Source
BY ConstantFacts, CommandTime DEF SampleAge, Source, Cached, EntryTrue, Usable

\* Time keeps a sample true.
LEMMA OlderFacts ==
    ASSUME NEW took \in {Request, Command},
           NEW entry \in Cached \cup {None}, EntryTrue(entry, took)
    PROVE  Older(entry) \in Cached \cup {None} /\ EntryTrue(Older(entry), took)
<1>. USE ConstantFacts, CommandTime
<1>1. CASE entry = None
  BY <1>1 DEF Older, EntryTrue
<1>2. CASE entry # None /\ entry.saved >= Grace
  BY <1>2 DEF Older, Expired, EntryTrue, Cached, SampleAge
<1>3. CASE entry # None /\ ~(entry.saved >= Grace)
  <2>1. /\ entry.taken \in SampleAge /\ entry.saved \in 0..(Grace + 1)
        /\ entry.saved < Grace /\ entry.taken <= entry.saved + took
    BY <1>3 DEF Cached, EntryTrue
  <2>2. entry.taken + 1 \in SampleAge /\ entry.saved + 1 \in 0..(Grace + 1)
        /\ entry.taken + 1 <= entry.saved + 1 + took
    BY <2>1 DEF SampleAge
  <2>3. Older(entry) = [taken |-> entry.taken + 1, saved |-> entry.saved + 1]
    BY <1>3 DEF Older
  <2>. QED
    BY <2>2, <2>3 DEF Cached, EntryTrue
<1>. QED
  BY <1>1, <1>2, <1>3

\* Completing a snapshot keeps its type, and changes one field.
LEMMA WithFlags ==
    ASSUME NEW s \in Snapshot
    PROVE  /\ [s EXCEPT !.identified = TRUE] \in Snapshot
           /\ [s EXCEPT !.identified = TRUE].disk = s.disk
           /\ [s EXCEPT !.online = FALSE] \in Snapshot
           /\ [s EXCEPT !.online = FALSE].disk = s.disk
BY DEF Snapshot

LEMMA WithDisk ==
    ASSUME NEW s \in Snapshot, NEW d \in Source
    PROVE  [s EXCEPT !.disk = d] \in Snapshot /\ [s EXCEPT !.disk = d].disk = d
BY DEF Snapshot

LEMMA WithMemory ==
    ASSUME NEW s \in Snapshot, NEW m \in Source
    PROVE  /\ [s EXCEPT !.memory = m] \in Snapshot
           /\ [s EXCEPT !.memory = m].memory = m /\ [s EXCEPT !.memory = m].disk = s.disk
BY DEF Snapshot

-----------------------------------------------------------------------------
\* The initial state keeps the invariant.
LEMMA InitInv == Init => CacheInv
<1>. SUFFICES ASSUME Init PROVE CacheInv
  OBVIOUS
<1>. USE ConstantFacts DEF Init
<1>1. Typed
  BY DEF Typed, AtHand
<1>2. ReadTrue /\ CachesTrue /\ JobHonest
  BY DEF ReadTrue, Asking, CachesTrue, EntryTrue, JobHonest
<1>3. MemoryContract /\ DiskContract
  BY DEF MemoryContract, DiskContract, Item
<1>. QED
  BY <1>1, <1>2, <1>3 DEF CacheInv

\* A listing starts a collection.
LEMMA ListInv == ASSUME CacheInv, List PROVE CacheInv'
<1>. USE ConstantFacts DEF List, CacheInv, caches
<1>1. Typed'
  BY DEF Typed, AtHand
<1>2. ReadTrue' /\ CachesTrue' /\ JobHonest'
  BY DEF ReadTrue, Asking, CachesTrue, EntryTrue, JobHonest, Typed, AtHand
<1>3. MemoryContract' /\ DiskContract'
  BY DEF MemoryContract, DiskContract, Item
<1>. QED
  BY <1>1, <1>2, <1>3

\* What the listing says of an item has its type, and is honest of its disk.
LEMMA ListedFacts ==
    ASSUME NEW i \in Item
    PROVE  /\ Listed(i) \in Snapshot
           /\ DiskHonest(i, Listed(i))
           /\ Listed(i).online = (status[i] = "up")
<1>1. \A b \in BOOLEAN, f \in BOOLEAN, d \in Source :
        [online |-> b, identified |-> f, memory |-> Pve, disk |-> d] \in Snapshot
  BY DEF Snapshot, Source
<1>2. (status[i] = "up") \in BOOLEAN /\ FALSE \in BOOLEAN
      /\ (IF i \in Node THEN Pve ELSE None) \in Source
  BY DEF Source
<1>3. Listed(i) \in Snapshot
  BY <1>1, <1>2, Zenon DEF Listed
<1>4. DiskHonest(i, Listed(i))
  BY ConstantFacts DEF DiskHonest, Listed
<1>. QED
  BY <1>3, <1>4 DEF Listed

\* An item is taken up.
LEMMA TakeInv == ASSUME CacheInv, NEW i \in Item, Take(i) PROVE CacheInv'
<1>. USE ConstantFacts DEF CacheInv, caches
<1>1. /\ item' = i /\ job' = Listed(i) /\ pc = "next"
      /\ pc' = CASE i \in Node -> "status"
                 [] i \in Guest /\ status[i] = "up" -> "os"
                 [] OTHER -> "append"
      /\ UNCHANGED <<status, todo, polls, waited, read, known, memory, disk, snapshots>>
  BY DEF Take
<1>2. Typed'
  BY <1>1, ListedFacts DEF Typed, AtHand
<1>3. ReadTrue' /\ CachesTrue'
  BY <1>1 DEF ReadTrue, Asking, CachesTrue, EntryTrue
<1>4. JobHonest'
  <2>1. pc' = "append" /\ i \in Qga => ~(status[i] = "up")
    BY <1>1
  <2>2. Listed(i).online = (status[i] = "up")
    BY ListedFacts
  <2>3. pc' = "append" => MemoryHonest(item', job')
    BY <1>1, <2>1, <2>2 DEF MemoryHonest
  <2>4. DiskHonest(item', job')
    BY <1>1, ListedFacts
  <2>. QED
    BY <2>3, <2>4 DEF JobHonest
<1>5. MemoryContract' /\ DiskContract'
  BY <1>1 DEF MemoryContract, DiskContract
<1>. QED
  BY <1>2, <1>3, <1>4, <1>5

\* An identity is learned, or not: the disk that the snapshot shows stays.
LEMMA NodeStatusInv == ASSUME CacheInv, NodeStatus PROVE CacheInv'
<1>. USE ConstantFacts DEF CacheInv, caches
<1>1. /\ item \in Node /\ item \in Item /\ job \in Snapshot
      /\ pc = "status" /\ pc' = "append"
      /\ UNCHANGED <<status, todo, item, polls, waited, read, memory, disk, snapshots>>
  BY DEF NodeStatus, Typed, AtHand
<1>2. known' \subseteq Item /\ (job' = Identified \/ job' = UnknownNode)
  BY <1>1 DEF NodeStatus, Typed
<1>3. job' \in Snapshot /\ job'.disk = job.disk
  BY <1>1, <1>2, WithFlags DEF Identified, UnknownNode
<1>4. Typed'
  BY <1>1, <1>2, <1>3 DEF Typed, AtHand
<1>5. ReadTrue' /\ CachesTrue'
  BY <1>1 DEF ReadTrue, Asking, CachesTrue, EntryTrue
<1>6. JobHonest'
  <2>1. item \notin Qga /\ item \notin Guest
    BY <1>1
  <2>. QED
    BY <1>1, <2>1 DEF JobHonest, MemoryHonest, DiskHonest
<1>7. MemoryContract' /\ DiskContract'
  BY <1>1 DEF MemoryContract, DiskContract
<1>. QED
  BY <1>4, <1>5, <1>6, <1>7

\* The same of a guest.
LEMMA GuestOSInv == ASSUME CacheInv, GuestOS PROVE CacheInv'
<1>. USE ConstantFacts DEF CacheInv, caches
<1>1. /\ item \in Guest /\ item \in Item /\ job \in Snapshot
      /\ pc = "os" /\ pc' = "disk"
      /\ UNCHANGED <<status, todo, item, polls, waited, read, memory, disk, snapshots>>
  BY DEF GuestOS, Typed, AtHand
<1>2. known' \subseteq Item /\ (job' = Identified \/ job' = job)
  BY <1>1 DEF GuestOS, Typed
<1>3. job' \in Snapshot /\ job'.disk = job.disk
  BY <1>1, <1>2, WithFlags DEF Identified
<1>4. Typed'
  BY <1>1, <1>2, <1>3 DEF Typed, AtHand
<1>5. ReadTrue' /\ CachesTrue'
  BY <1>1 DEF ReadTrue, Asking, CachesTrue, EntryTrue
<1>6. JobHonest'
  <2>1. job # None /\ DiskHonest(item, job)
    BY <1>1 DEF JobHonest
  <2>. QED
    BY <1>1, <1>3, <2>1 DEF JobHonest, DiskHonest
<1>7. MemoryContract' /\ DiskContract'
  BY <1>1 DEF MemoryContract, DiskContract
<1>. QED
  BY <1>4, <1>5, <1>6, <1>7

\* Whatever a cache returns for a guest is young enough.
LEMMA DiskCached ==
    ASSUME CacheInv, NEW g \in Guest, Usable(disk[g])
    PROVE  disk[g].taken \in 0..(Grace + Request) /\ disk[g].taken \in Source
<1>1. disk[g] \in Cached \cup {None} /\ EntryTrue(disk[g], Request)
  BY DEF CacheInv, Typed, CachesTrue
<1>. QED
  BY <1>1, UsableAge

LEMMA MemoryCached ==
    ASSUME CacheInv, NEW g \in Guest, Usable(memory[g])
    PROVE  memory[g].taken \in 0..Oldest /\ memory[g].taken \in Source
<1>1. memory[g] \in Cached \cup {None} /\ EntryTrue(memory[g], Command)
  BY DEF CacheInv, Typed, CachesTrue
<1>. QED
  BY <1>1, UsableAge, CommandTime

\* The guest is read while a request waits for it.
LEMMA GuestReadsInv == ASSUME CacheInv, GuestReads PROVE CacheInv'
<1>. USE ConstantFacts DEF caches
<1>1. /\ pc \in Asking /\ read' = 0
      /\ UNCHANGED <<pc, status, todo, item, job, polls, waited, known, memory, disk, snapshots>>
  BY DEF GuestReads
<1>2. Typed' /\ CachesTrue' /\ JobHonest'
  BY <1>1 DEF CacheInv, Typed, AtHand, CachesTrue, EntryTrue, JobHonest, MemoryHonest, DiskHonest
<1>3. ReadTrue'
  <2>1. waited \in Nat /\ (pc = "poll" => (polls + 1) * Request \in Nat)
    BY CommandTime DEF CacheInv, Typed
  <2>. QED
    BY <1>1, <2>1 DEF ReadTrue
<1>4. MemoryContract' /\ DiskContract'
  BY <1>1 DEF CacheInv, MemoryContract, DiskContract
<1>. QED
  BY <1>2, <1>3, <1>4 DEF CacheInv

\* The file systems are read, or the cached ones stand in for them.
LEMMA GuestDiskInv == ASSUME CacheInv, GuestDisk PROVE CacheInv'
<1>. USE ConstantFacts DEF caches
<1>1. /\ item \in Guest /\ item \in Item /\ job \in Snapshot
      /\ pc = "disk" /\ pc' = IF item \in Qga THEN "exec" ELSE "append"
      /\ waited' = 0 /\ read' = None
      /\ UNCHANGED <<status, todo, item, polls, known, memory, snapshots>>
  BY DEF GuestDisk, CacheInv, Typed, AtHand
<1>2. \/ /\ read # None
         /\ disk' = [disk EXCEPT ![item] = Fresh] /\ job' = [job EXCEPT !.disk = read]
      \/ disk' = disk /\ Usable(disk[item]) /\ job' = [job EXCEPT !.disk = disk[item].taken]
      \/ disk' = disk /\ job' = job
  BY DEF GuestDisk
<1>3. DiskHonest(item, job)
  BY <1>1 DEF CacheInv, JobHonest
<1>4. ASSUME read # None
      PROVE  /\ Fresh \in Cached /\ EntryTrue(Fresh, Request)
             /\ read \in Source /\ read \in 0..(Grace + Request)
  <2>1. read \in 0..Request
    BY <1>1, <1>4 DEF CacheInv, Typed, ReadTrue
  <2>. QED
    BY <1>4, <2>1, FreshFacts
<1>5. job' \in Snapshot /\ DiskHonest(item, job')
  <2>1. CASE read # None /\ job' = [job EXCEPT !.disk = read]
    <3>1. job' \in Snapshot /\ job'.disk = read
      BY <1>1, <1>4, <2>1, WithDisk
    <3>. QED
      BY <1>4, <2>1, <3>1 DEF DiskHonest
  <2>2. CASE Usable(disk[item]) /\ job' = [job EXCEPT !.disk = disk[item].taken]
    <3>1. disk[item].taken \in 0..(Grace + Request) /\ disk[item].taken \in Source
      BY <1>1, <2>2, DiskCached
    <3>2. job' \in Snapshot /\ job'.disk = disk[item].taken
      BY <1>1, <2>2, <3>1, WithDisk
    <3>. QED
      BY <3>1, <3>2 DEF DiskHonest
  <2>. QED
    BY <1>1, <1>2, <1>3, <2>1, <2>2
<1>6. disk' \in [Guest -> Cached \cup {None}] /\ \A g \in Guest : EntryTrue(disk'[g], Request)
  <2>1. disk \in [Guest -> Cached \cup {None}] /\ \A g \in Guest : EntryTrue(disk[g], Request)
    BY DEF CacheInv, Typed, CachesTrue
  <2>2. CASE disk' = disk
    BY <2>1, <2>2
  <2>3. CASE read # None /\ disk' = [disk EXCEPT ![item] = Fresh]
    BY <1>1, <1>4, <2>1, <2>3
  <2>. QED
    BY <1>2, <2>2, <2>3
<1>7. Typed'
  BY <1>1, <1>5, <1>6 DEF CacheInv, Typed, AtHand
<1>8. ReadTrue' /\ CachesTrue'
  BY <1>1, <1>6 DEF CacheInv, ReadTrue, CachesTrue, EntryTrue
<1>9. JobHonest'
  BY <1>1, <1>5 DEF JobHonest, MemoryHonest, DiskHonest
<1>10. MemoryContract' /\ DiskContract'
  BY <1>1 DEF CacheInv, MemoryContract, DiskContract
<1>. QED
  BY <1>7, <1>8, <1>9, <1>10 DEF CacheInv

\* The memory is read in the guest.
LEMMA MemoryReadInv == ASSUME CacheInv, MemoryRead PROVE CacheInv'
<1>. USE ConstantFacts DEF caches
<1>1. /\ item \in Qga /\ item \in Guest /\ item \in Item /\ job \in Snapshot
      /\ pc = "poll" /\ read # None
      /\ pc' = "append" /\ polls' = 0 /\ waited' = 0 /\ read' = None
      /\ memory' = [memory EXCEPT ![item] = Fresh]
      /\ job' = [job EXCEPT !.memory = read]
      /\ UNCHANGED <<status, todo, item, known, disk, snapshots>>
  BY DEF MemoryRead, CacheInv, Typed, AtHand
<1>2. /\ Fresh \in Cached /\ EntryTrue(Fresh, Command)
      /\ read \in Source /\ read \in 0..Oldest
  <2>1. polls \in 0..(MaxPolls - 1) /\ waited \in 0..Request /\ read \in Nat
        /\ read <= (polls + 1) * Request + waited
    BY <1>1 DEF CacheInv, Typed, ReadTrue
  <2>2. (polls + 1) * Request \in Nat /\ (polls + 1) * Request + Request <= Command
    BY <2>1, CommandTime
  <2>3. read \in 0..Command
    BY <2>1, <2>2, CommandTime
  <2>. QED
    BY <1>1, <2>3, FreshFacts, CommandTime
<1>3. job' \in Snapshot /\ job'.memory = read /\ job'.disk = job.disk
  BY <1>1, <1>2, WithMemory
<1>4. memory' \in [Guest -> Cached \cup {None}]
      /\ \A g \in Guest : EntryTrue(memory'[g], Command)
  <2>1. memory \in [Guest -> Cached \cup {None}]
        /\ \A g \in Guest : EntryTrue(memory[g], Command)
    BY DEF CacheInv, Typed, CachesTrue
  <2>. QED
    BY <1>1, <1>2, <2>1
<1>5. Typed'
  BY <1>1, <1>3, <1>4 DEF CacheInv, Typed, AtHand
<1>6. ReadTrue' /\ CachesTrue'
  BY <1>1, <1>4 DEF CacheInv, ReadTrue, Asking, CachesTrue, EntryTrue
<1>7. JobHonest'
  <2>1. DiskHonest(item, job)
    BY <1>1 DEF CacheInv, JobHonest
  <2>. QED
    BY <1>1, <1>2, <1>3, <2>1 DEF JobHonest, MemoryHonest, DiskHonest
<1>8. MemoryContract' /\ DiskContract'
  BY <1>1 DEF CacheInv, MemoryContract, DiskContract
<1>. QED
  BY <1>5, <1>6, <1>7, <1>8 DEF CacheInv

\* A guest without an observation is not online, and keeps its disk.
LEMMA UnobservedFacts ==
    ASSUME job \in Snapshot
    PROVE  Unobserved \in Snapshot /\ Unobserved.online = FALSE /\ Unobserved.disk = job.disk
<1>1. \A b \in BOOLEAN, f \in BOOLEAN, d \in Source :
        [online |-> b, identified |-> f, memory |-> None, disk |-> d] \in Snapshot
  BY DEF Snapshot, Source
<1>2. FALSE \in BOOLEAN /\ job.identified \in BOOLEAN /\ job.disk \in Source
  BY DEF Snapshot
<1>3. Unobserved \in Snapshot
  BY <1>1, <1>2, Zenon DEF Unobserved
<1>. QED
  BY <1>3 DEF Unobserved

\* The memory cannot be read: the cached sample, or nothing, is shown.
LEMMA MemoryFailsInv == ASSUME CacheInv, MemoryFails PROVE CacheInv'
<1>. USE ConstantFacts DEF caches
<1>1. /\ item \in Qga /\ item \in Guest /\ item \in Item /\ job \in Snapshot
      /\ pc \in {"exec", "poll"}
      /\ pc' = "append" /\ polls' = 0 /\ waited' = 0 /\ read' = None
      /\ UNCHANGED <<status, todo, item, known, memory, disk, snapshots>>
  BY DEF MemoryFails, CacheInv, Typed, AtHand
<1>2. \/ Usable(memory[item]) /\ job' = [job EXCEPT !.memory = memory[item].taken]
      \/ job' = Unobserved
  BY DEF MemoryFails, CachedMemory
<1>3. job' \in Snapshot /\ job'.disk = job.disk /\ MemoryHonest(item, job')
  <2>1. CASE job' = Unobserved
    BY <1>1, <2>1, UnobservedFacts DEF MemoryHonest
  <2>2. CASE Usable(memory[item]) /\ job' = [job EXCEPT !.memory = memory[item].taken]
    <3>1. memory[item].taken \in 0..Oldest /\ memory[item].taken \in Source
      BY <1>1, <2>2, MemoryCached
    <3>. QED
      <4>1. job' \in Snapshot /\ job'.memory = memory[item].taken /\ job'.disk = job.disk
        BY <1>1, <2>2, <3>1, WithMemory
      <4>. QED
        BY <3>1, <4>1 DEF MemoryHonest
  <2>. QED
    BY <1>2, <2>1, <2>2
<1>4. Typed'
  BY <1>1, <1>3 DEF CacheInv, Typed, AtHand
<1>5. ReadTrue' /\ CachesTrue'
  BY <1>1 DEF CacheInv, ReadTrue, Asking, CachesTrue, EntryTrue
<1>6. JobHonest'
  <2>1. DiskHonest(item, job)
    BY <1>1 DEF CacheInv, JobHonest
  <2>. QED
    BY <1>1, <1>3, <2>1 DEF JobHonest, MemoryHonest, DiskHonest
<1>7. MemoryContract' /\ DiskContract'
  BY <1>1 DEF CacheInv, MemoryContract, DiskContract
<1>. QED
  BY <1>4, <1>5, <1>6, <1>7 DEF CacheInv

\* The command is started, or is still running: nothing is learned.
LEMMA WaitInv == ASSUME CacheInv, Exec \/ Pending PROVE CacheInv'
<1>. USE ConstantFacts DEF caches
<1>1. /\ pc \in {"exec", "poll"} /\ pc' = "poll" /\ waited' = 0
      /\ UNCHANGED <<status, todo, item, job, read, known, memory, disk, snapshots>>
  BY DEF Exec, Pending
<1>2. polls' \in 0..(MaxPolls - 1)
  BY DEF Exec, Pending, CacheInv, Typed
<1>3. Typed'
  BY <1>1, <1>2 DEF CacheInv, Typed, AtHand
<1>4. ASSUME read # None PROVE read <= (polls' + 1) * Request
  <2>0. waited \in 0..Request /\ read \in Nat /\ polls \in Nat
    BY <1>4 DEF CacheInv, Typed, ReadTrue
  <2>1. CASE Exec
    <3>1. read <= waited /\ polls' = 0
      BY <1>4, <2>1 DEF Exec, CacheInv, ReadTrue
    <3>2. (0 + 1) * Request = Request
      OBVIOUS
    <3>. QED
      BY <2>0, <3>1, <3>2
  <2>2. CASE Pending
    <3>1. read <= (polls + 1) * Request + waited /\ polls' = polls + 1
      BY <1>4, <2>2 DEF Pending, CacheInv, ReadTrue
    <3>2. (polls + 1) * Request + Request = (polls + 1 + 1) * Request
      BY <2>0, CommandTime
    <3>3. (polls + 1) * Request \in Nat
      BY <2>0
    <3>. QED
      BY <2>0, <3>1, <3>2, <3>3
  <2>. QED
    BY <2>1, <2>2
<1>5. ReadTrue'
  <2>1. read \in Nat \cup {None}
    BY DEF CacheInv, ReadTrue
  <2>2. read # None => read <= (polls' + 1) * Request + 0
    <3>1. \A n \in 0..(MaxPolls - 1) : (n + 1) * Request \in Nat
      BY CommandTime
    <3>. QED
      BY <1>2, <1>4, <3>1
  <2>. QED
    BY <1>1, <2>1, <2>2 DEF ReadTrue, Asking
<1>6. CachesTrue' /\ JobHonest'
  BY <1>1 DEF CacheInv, CachesTrue, EntryTrue, JobHonest, DiskHonest
<1>7. MemoryContract' /\ DiskContract'
  BY <1>1 DEF CacheInv, MemoryContract, DiskContract
<1>. QED
  BY <1>3, <1>5, <1>6, <1>7 DEF CacheInv

\* A complete snapshot is collected.
LEMMA AppendInv == ASSUME CacheInv, Append PROVE CacheInv'
<1>. USE ConstantFacts DEF caches
<1>1. /\ pc = "append" /\ pc' = "next" /\ item' = None /\ job' = None
      /\ snapshots' = [snapshots EXCEPT ![item] = job] /\ todo' = todo \ {item}
      /\ UNCHANGED <<status, polls, waited, read, known, memory, disk>>
  BY DEF Append
<1>2. item \in Item /\ job \in Snapshot /\ job # None
  BY <1>1 DEF CacheInv, Typed, AtHand
<1>3. Typed'
  BY <1>1, <1>2 DEF CacheInv, Typed, AtHand
<1>4. ReadTrue' /\ CachesTrue' /\ JobHonest'
  BY <1>1 DEF CacheInv, ReadTrue, Asking, CachesTrue, EntryTrue, JobHonest
<1>5. MemoryHonest(item, job) /\ DiskHonest(item, job)
  BY <1>1, <1>2 DEF CacheInv, JobHonest
<1>6. snapshots \in [Item -> Snapshot \cup {None}]
  BY DEF CacheInv, Typed
<1>7. MemoryContract'
  BY <1>1, <1>5, <1>6 DEF CacheInv, MemoryContract, MemoryHonest, Item
<1>8. DiskContract'
  BY <1>1, <1>5, <1>6 DEF CacheInv, DiskContract, DiskHonest, Item
<1>. QED
  BY <1>3, <1>4, <1>7, <1>8 DEF CacheInv

\* The steps that do not touch snapshots: the end of a collection, time, and a
\* new process, which starts with empty caches.
LEMMA ReturnInv == ASSUME CacheInv, Return PROVE CacheInv'
BY ConstantFacts DEF Return, CacheInv, caches, Typed, AtHand, ReadTrue, Asking, CachesTrue,
     EntryTrue, JobHonest, MemoryContract, DiskContract

LEMMA TickInv == ASSUME CacheInv, Tick PROVE CacheInv'
<1>. USE ConstantFacts
<1>1. /\ UNCHANGED <<pc, status, todo, item, job, polls, known, snapshots>>
      /\ pc \in Asking => waited < Request
      /\ waited' = IF pc \in Asking THEN waited + 1 ELSE waited
      /\ read' = IF read = None THEN None ELSE read + 1
      /\ memory' = [g \in Guest |-> Older(memory[g])]
      /\ disk' = [g \in Guest |-> Older(disk[g])]
  BY DEF Tick
<1>2. \A g \in Guest : /\ memory'[g] \in Cached \cup {None} /\ EntryTrue(memory'[g], Command)
                       /\ disk'[g] \in Cached \cup {None} /\ EntryTrue(disk'[g], Request)
  <2>. SUFFICES ASSUME NEW g \in Guest
                PROVE  /\ memory'[g] \in Cached \cup {None} /\ EntryTrue(memory'[g], Command)
                       /\ disk'[g] \in Cached \cup {None} /\ EntryTrue(disk'[g], Request)
    OBVIOUS
  <2>1. /\ memory[g] \in Cached \cup {None} /\ EntryTrue(memory[g], Command)
        /\ disk[g] \in Cached \cup {None} /\ EntryTrue(disk[g], Request)
    BY DEF CacheInv, Typed, CachesTrue
  <2>2. memory'[g] = Older(memory[g]) /\ disk'[g] = Older(disk[g])
    BY <1>1
  <2>. QED
    BY <2>1, <2>2, OlderFacts
<1>3. memory' \in [Guest -> Cached \cup {None}] /\ disk' \in [Guest -> Cached \cup {None}]
  BY <1>1, <1>2
<1>4. waited' \in 0..Request
  BY <1>1 DEF CacheInv, Typed
<1>5. Typed'
  BY <1>1, <1>3, <1>4 DEF CacheInv, Typed, AtHand
<1>6. CachesTrue'
  BY <1>2 DEF CachesTrue, EntryTrue
<1>7. ReadTrue'
  <2>1. waited \in Nat /\ read \in Nat \cup {None} /\ (polls + 1) * Request \in Nat
    BY CommandTime DEF CacheInv, Typed, ReadTrue
  <2>2. CASE pc \notin Asking
    BY <1>1, <2>2 DEF CacheInv, ReadTrue, Asking
  <2>3. CASE pc \in Asking /\ read = None
    BY <1>1, <2>3 DEF CacheInv, ReadTrue
  <2>4. CASE pc \in Asking /\ read # None
    <3>1. waited' = waited + 1 /\ read' = read + 1 /\ read' \in Nat
      BY <1>1, <2>1, <2>4
    <3>2. pc \in {"disk", "exec"} => read' <= waited'
      BY <2>1, <2>4, <3>1 DEF CacheInv, ReadTrue
    <3>3. pc = "poll" => read' <= (polls + 1) * Request + waited'
      BY <2>1, <2>4, <3>1 DEF CacheInv, ReadTrue
    <3>. QED
      BY <1>1, <2>4, <3>1, <3>2, <3>3 DEF ReadTrue
  <2>. QED
    BY <2>2, <2>3, <2>4
<1>8. JobHonest' /\ MemoryContract' /\ DiskContract'
  BY <1>1 DEF CacheInv, JobHonest, MemoryHonest, DiskHonest, MemoryContract, DiskContract
<1>. QED
  BY <1>5, <1>6, <1>7, <1>8 DEF CacheInv

LEMMA RestartInv == ASSUME CacheInv, Restart PROVE CacheInv'
<1>. USE ConstantFacts DEF Restart
<1>1. Typed'
  BY DEF CacheInv, Typed, AtHand
<1>2. ReadTrue' /\ CachesTrue' /\ JobHonest'
  BY DEF ReadTrue, Asking, CachesTrue, EntryTrue, JobHonest
<1>3. MemoryContract' /\ DiskContract'
  BY DEF MemoryContract, DiskContract, Item
<1>. QED
  BY <1>1, <1>2, <1>3 DEF CacheInv

LEMMA StutterInv == ASSUME CacheInv, UNCHANGED vars PROVE CacheInv'
BY DEF CacheInv, vars, Typed, AtHand, ReadTrue, CachesTrue, EntryTrue, JobHonest,
       MemoryHonest, DiskHonest, MemoryContract, DiskContract

LEMMA NextInv == CacheInv /\ [Next]_vars => CacheInv'
<1>. SUFFICES ASSUME CacheInv, [Next]_vars PROVE CacheInv'
  OBVIOUS
<1>1. CASE List
  BY <1>1, ListInv
<1>2. CASE \E i \in Item : Take(i)
  BY <1>2, TakeInv
<1>3. CASE NodeStatus \/ GuestOS \/ GuestReads \/ GuestDisk
  BY <1>3, NodeStatusInv, GuestOSInv, GuestReadsInv, GuestDiskInv
<1>4. CASE Exec \/ Pending
  BY <1>4, WaitInv
<1>5. CASE MemoryRead \/ MemoryFails
  BY <1>5, MemoryReadInv, MemoryFailsInv
<1>6. CASE Append \/ Return
  BY <1>6, AppendInv, ReturnInv
<1>7. CASE Tick \/ Restart
  BY <1>7, TickInv, RestartInv
<1>8. CASE UNCHANGED vars
  BY <1>8, StutterInv
<1>. QED
  BY <1>1, <1>2, <1>3, <1>4, <1>5, <1>6, <1>7, <1>8 DEF Next, Step

LEMMA Invariant == Spec => []CacheInv
BY InitInv, NextInv, PTL DEF Spec

-----------------------------------------------------------------------------
\* Every variable keeps its type.
THEOREM TypeCorrect == Spec => []TypeOK
<1>1. CacheInv => TypeOK
  <2>. SUFFICES ASSUME CacheInv PROVE TypeOK
    OBVIOUS
  <2>1. polls \in 0..(MaxPolls - 1) /\ waited \in 0..Request /\ read \in Nat \cup {None}
    BY DEF CacheInv, Typed, ReadTrue
  <2>2. ASSUME read # None PROVE read \in 0..Command
    <3>1. read \in Nat /\ (read <= waited \/ read <= (polls + 1) * Request + waited)
      BY <2>1, <2>2 DEF CacheInv, ReadTrue, Asking
    <3>2. (polls + 1) * Request \in Nat /\ (polls + 1) * Request + Request <= Command
      BY <2>1, CommandTime
    <3>. QED
      BY <2>1, <3>1, <3>2, ConstantFacts, CommandTime
  <2>. QED
    BY <2>2 DEF CacheInv, Typed, TypeOK
<1>. QED
  BY <1>1, Invariant, PTL

\* For any set of guests, any grace period, number of polls and timeout: whatever
\* is read, fails, is reused or is lost in a restart, a guest under the memory
\* contract is online only with memory that was read in it, at most the grace period
\* and the time of the command before (proxmox.go:273-341, 498-512).
THEOREM MemoryKept == Spec => []MemoryContract
<1>1. CacheInv => MemoryContract
  BY DEF CacheInv
<1>. QED
  BY <1>1, Invariant, PTL

\* The same of disks: never the capacity of a virtual disk, never older than the
\* grace period and one request.
THEOREM DiskKept == Spec => []DiskContract
<1>1. CacheInv => DiskContract
  BY DEF CacheInv
<1>. QED
  BY <1>1, Invariant, PTL

-----------------------------------------------------------------------------
\* An item that is still to be collected has no snapshot yet; that is how learning
\* its identity now cannot contradict a snapshot collected before.
Pend == /\ \A i \in todo : snapshots[i] = None
        /\ pc \in {"status", "os", "disk", "exec", "poll", "append"} => item \in todo

\* A snapshot does not hide an identity that the bridge knows.
Shows(i, s) == i \in Node \cup known /\ s # None /\ s.online => s.identified

\* What is inductive of the identities: beside the collected snapshots, the one at
\* hand, once its identity has been looked up.
IdentityInv ==
    /\ Pend
    /\ pc \in {"disk", "exec", "poll", "append"} => Shows(item, job)
    /\ \A i \in Item : Shows(i, snapshots[i])

\* Completing a snapshot leaves the two flags alone, or takes it offline.
LEMMA FlagsAlone ==
    ASSUME NEW s \in Snapshot, NEW v
    PROVE  /\ [s EXCEPT !.disk = v].online = s.online
           /\ [s EXCEPT !.disk = v].identified = s.identified
           /\ [s EXCEPT !.memory = v].online = s.online
           /\ [s EXCEPT !.memory = v].identified = s.identified
BY DEF Snapshot

LEMMA FlagsSet ==
    ASSUME NEW s \in Snapshot
    PROVE  /\ [s EXCEPT !.identified = TRUE].identified
           /\ ~[s EXCEPT !.online = FALSE].online
BY DEF Snapshot

\* A step on the item at hand that learns nothing of any identity.
LEMMA CompleteIdentity ==
    ASSUME CacheInv, IdentityInv,
           GuestReads \/ GuestDisk \/ Exec \/ MemoryRead \/ Pending \/ MemoryFails
    PROVE  IdentityInv'
<1>1. /\ pc \in {"disk", "exec", "poll"} /\ pc' \in {"disk", "exec", "poll", "append"}
      /\ UNCHANGED <<todo, item, known, snapshots>>
  BY DEF GuestReads, Asking, GuestDisk, Exec, MemoryRead, Pending, MemoryFails, caches
<1>2. job \in Snapshot /\ Shows(item, job) /\ job # None
  BY <1>1, ConstantFacts DEF CacheInv, Typed, AtHand, IdentityInv
<1>3. \/ \E v : job' = [job EXCEPT !.disk = v]
      \/ \E v : job' = [job EXCEPT !.memory = v]
      \/ job' = job
      \/ job' = Unobserved
  BY DEF GuestReads, GuestDisk, Exec, MemoryRead, Pending, MemoryFails, CachedMemory
<1>4. job'.online => job.online /\ job'.identified = job.identified
  <2>1. CASE \E v : job' = [job EXCEPT !.disk = v]
    BY <1>2, <2>1, FlagsAlone
  <2>2. CASE \E v : job' = [job EXCEPT !.memory = v]
    BY <1>2, <2>2, FlagsAlone
  <2>3. CASE job' = Unobserved
    BY <2>3 DEF Unobserved
  <2>. QED
    BY <1>3, <2>1, <2>2, <2>3
<1>5. Shows(item, job)'
  BY <1>1, <1>2, <1>4 DEF Shows
<1>6. Pend' /\ \A i \in Item : Shows(i, snapshots[i])'
  BY <1>1 DEF IdentityInv, Pend, Shows
<1>. QED
  BY <1>5, <1>6 DEF IdentityInv

\* The identity is looked up: from then on the snapshot shows it, if it is known,
\* or is not online.
LEMMA LookupIdentity ==
    ASSUME CacheInv, IdentityInv, NodeStatus \/ GuestOS
    PROVE  IdentityInv'
<1>1. /\ item \in Item /\ job \in Snapshot /\ item \in todo /\ snapshots[item] = None
      /\ UNCHANGED <<todo, item, snapshots>>
  BY DEF NodeStatus, GuestOS, CacheInv, Typed, AtHand, IdentityInv, Pend
<1>3. ASSUME GuestOS PROVE Shows(item, job)'
  <2>1. /\ item \in Guest /\ item \notin Node
    BY <1>3, ConstantFacts DEF GuestOS, CacheInv, Typed, AtHand
  <2>2. job' = Identified \/ item \notin known'
    BY <1>3 DEF GuestOS
  <2>3. Identified.identified
    BY <1>1, FlagsSet DEF Identified
  <2>. QED
    BY <1>1, <2>1, <2>2, <2>3 DEF Shows
<1>4. ASSUME NodeStatus PROVE Shows(item, job)'
  <2>1. job' = Identified \/ job' = UnknownNode
    BY <1>4 DEF NodeStatus
  <2>2. Identified.identified /\ ~UnknownNode.online
    BY <1>1, FlagsSet DEF Identified, UnknownNode
  <2>. QED
    BY <2>1, <2>2 DEF Shows
<1>5. known' \subseteq known \cup {item}
  BY DEF NodeStatus, GuestOS
<1>6. \A i \in Item : Shows(i, snapshots[i])'
  BY <1>1, <1>5 DEF IdentityInv, Shows
<1>7. Pend'
  BY <1>1 DEF IdentityInv, Pend
<1>. QED
  BY <1>3, <1>4, <1>6, <1>7 DEF IdentityInv

\* An item is taken up: one that is not asked for its identity is not online.
LEMMA TakeIdentity ==
    ASSUME CacheInv, IdentityInv, NEW i \in Item, Take(i) PROVE IdentityInv'
<1>1. /\ i \in todo /\ item' = i /\ job' = Listed(i)
      /\ pc' = CASE i \in Node -> "status"
                 [] i \in Guest /\ status[i] = "up" -> "os"
                 [] OTHER -> "append"
      /\ UNCHANGED <<todo, known, snapshots>>
  BY DEF Take, caches
<1>2. pc' \in {"disk", "exec", "poll", "append"} => i \notin Node /\ ~(status[i] = "up")
  BY <1>1 DEF Item
<1>3. Listed(i).online = (status[i] = "up")
  BY ListedFacts
<1>4. pc' \in {"disk", "exec", "poll", "append"} => Shows(item, job)'
  BY <1>1, <1>2, <1>3 DEF Shows
<1>5. Pend' /\ \A j \in Item : Shows(j, snapshots[j])'
  BY <1>1 DEF IdentityInv, Pend, Shows
<1>. QED
  BY <1>4, <1>5 DEF IdentityInv

LEMMA AppendIdentity == ASSUME CacheInv, IdentityInv, Append PROVE IdentityInv'
<1>1. /\ pc = "append" /\ pc' = "next" /\ item \in Item /\ todo' = todo \ {item}
      /\ snapshots' = [snapshots EXCEPT ![item] = job] /\ known' = known
      /\ snapshots \in [Item -> Snapshot \cup {None}] /\ todo \subseteq Item
  BY DEF Append, caches, CacheInv, Typed, AtHand
<1>2. Shows(item, job)
  BY <1>1 DEF IdentityInv
<1>3. \A i \in Item : snapshots'[i] = IF i = item THEN job ELSE snapshots[i]
  BY <1>1
<1>4. \A i \in Item : Shows(i, snapshots[i])'
  BY <1>1, <1>2, <1>3 DEF IdentityInv, Shows
<1>5. Pend'
  BY <1>1, <1>3 DEF IdentityInv, Pend
<1>. QED
  BY <1>1, <1>4, <1>5 DEF IdentityInv

LEMMA IdentityKeeps == ASSUME CacheInv, IdentityInv, [Next]_vars PROVE IdentityInv'
<1>. USE DEF IdentityInv, Pend, Shows
<1>1. CASE List
  BY <1>1 DEF List, caches, CacheInv, Typed
<1>2. CASE \E i \in Item : Take(i)
  BY <1>2, TakeIdentity
<1>3. CASE NodeStatus \/ GuestOS
  BY <1>3, LookupIdentity
<1>4. CASE GuestReads \/ GuestDisk \/ Exec \/ MemoryRead \/ Pending \/ MemoryFails
  BY <1>4, CompleteIdentity
<1>5. CASE Append
  BY <1>5, AppendIdentity
<1>6. CASE Return
  BY <1>6 DEF Return, caches
<1>7. CASE Tick
  BY <1>7 DEF Tick, caches
<1>8. CASE Restart
  BY <1>8 DEF Restart
<1>9. CASE UNCHANGED vars
  BY <1>9 DEF vars
<1>. QED
  BY <1>1, <1>2, <1>3, <1>4, <1>5, <1>6, <1>7, <1>8, <1>9 DEF Next, Step

\* Whatever requests fail and whenever: while the process runs, a guest's operating
\* system or a node's version, once learned, is in every online snapshot of it, and
\* a node is online only with it (proxmox.go:218-253).
THEOREM IdentitiesKept == Spec => IdentityKept
<1>1. Init => IdentityInv
  BY DEF Init, IdentityInv, Pend, Shows
<1>2. CacheInv /\ IdentityInv /\ [Next]_vars => IdentityInv'
  BY IdentityKeeps
<1>3. CacheInv /\ IdentityInv /\ IdentityInv' /\ [Next]_vars =>
        [\A i \in Node \cup known : snapshots'[i] # None /\ snapshots'[i].online =>
            snapshots'[i].identified]_snapshots
  <2>. SUFFICES ASSUME CacheInv, IdentityInv, IdentityInv', [Next]_vars,
                       snapshots' # snapshots, NEW i \in Node \cup known,
                       snapshots'[i] # None, snapshots'[i].online
                PROVE  snapshots'[i].identified
    OBVIOUS
  <2>1. i \in Item
    BY DEF CacheInv, Typed, Item
  <2>2. CASE known' = known
    BY <2>1, <2>2 DEF IdentityInv, Shows
  <2>3. CASE List \/ Restart
    BY <2>1, <2>3 DEF List, Restart
  <2>4. List \/ Restart \/ known' = known
    BY DEF Next, Step, List, Take, NodeStatus, GuestOS, GuestReads, GuestDisk, Exec,
           MemoryRead, Pending, MemoryFails, Append, Return, Tick, caches, vars
  <2>. QED
    BY <2>2, <2>3, <2>4
<1>. QED
  BY <1>1, <1>2, <1>3, Invariant, PTL DEF Spec, IdentityKept

-----------------------------------------------------------------------------
\* What is left of the work on the item at hand, polls of a running memory command
\* included; between two items the whole of the next one, or the return, is ahead.
Stage ==
    CASE pc = "idle"            -> 0
      [] pc = "append"          -> 1
      [] pc = "poll"            -> MaxPolls + 1 - polls
      [] pc = "exec"            -> MaxPolls + 2
      [] pc = "disk"            -> MaxPolls + 3
      [] pc \in {"os", "status"} -> MaxPolls + 4
      [] pc = "next"            -> MaxPolls + 5

\* An item is done with, or what is left of the one at hand becomes less.
Advances == \/ todo' \subseteq todo /\ todo' # todo
            \/ todo' = todo /\ Stage' < Stage

LEMMA StageBounded == ASSUME Typed PROVE Stage \in 0..(MaxPolls + 5)
BY ConstantFacts DEF Typed, Stage

\* The steps that go on with an item do not touch the list.
LEMMA ItemAdvances ==
    ASSUME Typed, NodeStatus \/ GuestOS \/ GuestDisk \/ Exec \/ MemoryRead \/ Pending \/ MemoryFails
    PROVE  Advances
<1>. USE ConstantFacts DEF Typed, Stage
<1>1. todo' = todo
  BY DEF NodeStatus, GuestOS, GuestDisk, Exec, MemoryRead, Pending, MemoryFails, caches
<1>2. /\ MaxPolls \in Nat \ {0} /\ polls \in 0..(MaxPolls - 1)
      /\ \/ pc \in {"os", "status"} /\ pc' \in {"disk", "append"}
         \/ pc = "disk" /\ pc' \in {"exec", "append"}
         \/ pc = "exec" /\ pc' = "poll" /\ polls' = 0
         \/ pc = "poll" /\ pc' = pc /\ polls' = polls + 1
         \/ pc \in {"exec", "poll"} /\ pc' = "append"
  BY DEF NodeStatus, GuestOS, GuestDisk, Exec, MemoryRead, Pending, MemoryFails
<1>3. Stage' < Stage
  BY <1>2
<1>. QED
  BY <1>1, <1>3 DEF Advances

\* A collection cannot go on for ever: every step of it is done with a listed item,
\* or brings the item at hand closer to its end, by one of at most MaxPolls + 5
\* stages, however often the memory command is found still running and whatever
\* fails; only the next listing gives it more to do (proxmox.go:91-144, 349-402).
THEOREM CollectAdvances ==
    Spec => /\ [](Stage \in 0..(MaxPolls + 5))
            /\ [][/\ Step => Advances
                  /\ pc # "idle" => todo' \subseteq todo]_vars
<1>1. CacheInv => Stage \in 0..(MaxPolls + 5)
  BY StageBounded DEF CacheInv
<1>2. CacheInv /\ IdentityInv /\ [Next]_vars =>
        [/\ Step => Advances
         /\ pc # "idle" => todo' \subseteq todo]_vars
  <2>. SUFFICES ASSUME CacheInv, IdentityInv, Next
                PROVE  /\ Step => Advances
                       /\ pc # "idle" => todo' \subseteq todo
    OBVIOUS
  <2>. USE ConstantFacts DEF CacheInv
  <2>1. ASSUME NEW i \in Item, Take(i) PROVE Advances
    <3>1. pc = "next" /\ pc' \in {"status", "os", "append"} /\ todo' = todo
      BY <2>1 DEF Take
    <3>2. Stage' < Stage
      BY <3>1 DEF Stage
    <3>. QED
      BY <3>1, <3>2 DEF Advances
  <2>2. ASSUME Append PROVE Advances
    BY <2>2 DEF Append, IdentityInv, Pend, Advances
  <2>3. ASSUME Return PROVE Advances
    <3>1. pc = "next" /\ pc' = "idle" /\ todo' = todo
      BY <2>3 DEF Return
    <3>2. Stage' < Stage
      BY <3>1 DEF Stage
    <3>. QED
      BY <3>1, <3>2 DEF Advances
  <2>4. Step => Advances
    BY <2>1, <2>2, <2>3, ItemAdvances DEF Step
  <2>5. Tick \/ GuestReads \/ Restart => todo' \subseteq todo
    BY DEF Tick, GuestReads, Restart
  <2>6. List => pc = "idle"
    BY DEF List
  <2>7. Advances => todo' \subseteq todo
    BY DEF Advances
  <2>. QED
    BY <2>4, <2>5, <2>6, <2>7 DEF Next
<1>3. Init => IdentityInv
  BY DEF Init, IdentityInv, Pend, Shows
<1>4. CacheInv /\ IdentityInv /\ [Next]_vars => IdentityInv'
  BY IdentityKeeps
<1>. QED
  BY <1>1, <1>2, <1>3, <1>4, Invariant, PTL DEF Spec
=============================================================================
