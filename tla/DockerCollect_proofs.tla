------------------------ MODULE DockerCollect_proofs ------------------------
(* Theorems about DockerCollect: the semaphore, and what is shown online, for *)
(* any number of containers and slots.                                        *)
EXTENDS DockerCollect, FiniteSetTheorems, TLAPS

\* The goroutines that hold a slot.
Holders == {c \in Container : worker[c] \in {"stats", "inspect"}}

\* Everything but the range of free.
Typed ==
    /\ pc \in {"idle", "collect"}
    /\ state \in [Container -> {"running", "stopped", "absent"}]
    /\ worker \in [Container -> {"none", "waiting", "stats", "inspect", "done"}]
    /\ stats \in [Container -> Memory]
    /\ failed \subseteq Container
    /\ answer \in [Container -> Memory \cup {None}]
    /\ cancelled \in BOOLEAN
    /\ shown \in [Workload -> Snapshot \cup {None}]

\* A goroutine exists for every listed container and no other; all of them are
\* done between collections.
WorkersMatch ==
    /\ \A c \in Container : worker[c] = "none" <=> c \notin Listed
    /\ pc = "idle" => \A c \in Container : worker[c] \in {"none", "done"}

\* Each slot is free or held.
SlotsAddUp == free \in Nat /\ free + Cardinality(Holders) = Slots

\* The inductive invariant.
PoolInv == Typed /\ WorkersMatch /\ SlotsAddUp

-----------------------------------------------------------------------------
LEMMA DockerFacts ==
    /\ IsFiniteSet(Container) /\ Slots \in Nat \ {0}
    /\ None \notin Snapshot /\ None \notin Memory /\ NoMemory \in Memory
BY DockerAssumption, NoSnapshotAssumption
DEF DockerAssumption, NoSnapshotAssumption, Memory, NoMemory

LEMMA HoldersFinite == IsFiniteSet(Holders) /\ Cardinality(Holders) \in Nat
<1>1. Holders \subseteq Container
  BY DEF Holders
<1>. QED
  BY <1>1, DockerFacts, FS_Subset, FS_CardinalityType

\* No goroutine holds a slot when none exists or all are done or waiting.
LEMMA NobodyHolds ==
    ASSUME NEW w, \A c \in Container : w[c] \in {"none", "done", "waiting"}
    PROVE  {c \in Container : w[c] \in {"stats", "inspect"}} = {}
OBVIOUS

LEMMA InitPool == Init => PoolInv
<1>. SUFFICES ASSUME Init PROVE PoolInv
  OBVIOUS
<1>. USE DockerFacts
<1>1. Typed /\ WorkersMatch
  BY DEF Init, Typed, WorkersMatch, Listed
<1>2. Holders = {}
  BY NobodyHolds DEF Init, Holders
<1>. QED
  BY <1>1, <1>2, FS_EmptySet DEF Init, SlotsAddUp, PoolInv

-----------------------------------------------------------------------------
\* A step of one goroutine, of which the type and the existence of goroutines
\* do not change.
LEMMA WorkKeepsTypes ==
    ASSUME PoolInv, NEW c \in Container, Work(c) PROVE Typed' /\ WorkersMatch'
<1>. USE DEF PoolInv, Typed, WorkersMatch, Listed, results
<1>1. CASE Acquire(c)
  BY <1>1 DEF Acquire
<1>2. CASE GiveUp(c)
  BY <1>2 DEF GiveUp
<1>3. CASE Stats(c)
  <2>1. PICK m \in Memory : Answered(c, m) \/ Unanswered(c, m)
    BY <1>3 DEF Stats
  <2>. QED
    BY <1>3, <2>1 DEF Stats, Answered, Unanswered
<1>4. CASE Inspect(c)
  BY <1>4 DEF Inspect
<1>. QED
  BY <1>1, <1>2, <1>3, <1>4 DEF Work

\* A slot is taken, kept or given back.
LEMMA WorkKeepsSlots ==
    ASSUME PoolInv, NEW c \in Container, Work(c) PROVE SlotsAddUp'
<1>. USE HoldersFinite, DockerFacts DEF PoolInv
<1>0. worker \in [Container -> {"none", "waiting", "stats", "inspect", "done"}]
      /\ free \in Nat /\ free + Cardinality(Holders) = Slots
  BY DEF Typed, SlotsAddUp
<1>1. CASE Acquire(c)
  <2>1. c \notin Holders /\ Holders' = Holders \cup {c}
    BY <1>0, <1>1 DEF Acquire, Holders
  <2>2. Cardinality(Holders') = Cardinality(Holders) + 1
    BY <2>1, FS_AddElement
  <2>3. free' = free - 1 /\ free > 0
    BY <1>1 DEF Acquire
  <2>. QED
    BY <1>0, <2>2, <2>3 DEF SlotsAddUp
<1>2. CASE GiveUp(c) \/ Stats(c)
  <2>1. Holders' = Holders
    BY <1>0, <1>2 DEF GiveUp, Stats, Holders
  <2>2. free' = free
    BY <1>2 DEF GiveUp, Stats
  <2>. QED
    BY <1>0, <2>1, <2>2 DEF SlotsAddUp
<1>3. CASE Inspect(c)
  <2>1. c \in Holders /\ Holders' = Holders \ {c}
    BY <1>0, <1>3 DEF Inspect, Holders
  <2>2. Cardinality(Holders') = Cardinality(Holders) - 1
    BY <2>1, FS_RemoveElement
  <2>3. free' = free + 1
    BY <1>3 DEF Inspect
  <2>. QED
    BY <1>0, <2>2, <2>3 DEF SlotsAddUp
<1>. QED
  BY <1>1, <1>2, <1>3 DEF Work

\* What Return shows of a workload.
LEMMA Merged ==
    ASSUME PoolInv, Return, NEW w \in Workload
    PROVE  \E c \in Container :
             /\ Logical[c] = w
             /\ \A d \in Listed : Logical[d] = w => c \in Listed
             /\ shown'[w] = IF c \in Listed THEN Shown(c) ELSE None
<1>1. PICK last \in [Workload -> Container] :
        /\ \A v \in Workload : Logical[last[v]] = v
        /\ \A d \in Listed : last[Logical[d]] \in Listed
        /\ shown' = [v \in Workload |->
                        IF last[v] \in Listed THEN Shown(last[v]) ELSE None]
  BY DEF Return
<1>. QED
  BY <1>1

\* The snapshot of a container is one.
LEMMA ShownFacts ==
    ASSUME PoolInv, NEW c \in Container
    PROVE  Shown(c) \in Snapshot /\ Shown(c) # None
<1>1. \A b \in BOOLEAN, m \in Memory : [of |-> c, online |-> b, ram |-> m] \in Snapshot
  BY DEF Snapshot
<1>2. Online(c) \in BOOLEAN /\ (IF Online(c) THEN stats[c] ELSE NoMemory) \in Memory
  BY DockerFacts DEF Online, PoolInv, Typed
<1>3. Shown(c) \in Snapshot
  BY <1>1, <1>2, Zenon DEF Shown
<1>. QED
  BY <1>3, DockerFacts

LEMMA ReturnPool == ASSUME PoolInv, Return PROVE PoolInv'
<1>. USE DockerFacts
<1>1. pc' = "idle" /\ UNCHANGED <<state, worker, free, stats, failed, answer, cancelled>> /\ Waited
  BY DEF Return, results
<1>2. ASSUME NEW w \in Workload PROVE shown'[w] \in Snapshot \cup {None}
  <2>1. PICK c \in Container : shown'[w] = IF c \in Listed THEN Shown(c) ELSE None
    BY <1>2, Merged
  <2>. QED
    BY <2>1, ShownFacts
<1>3. shown' \in [Workload -> Snapshot \cup {None}]
  <2>1. shown' = [w \in Workload |-> shown'[w]]
    BY DEF Return
  <2>. QED
    BY <1>2, <2>1
<1>4. Typed'
  BY <1>1, <1>3 DEF PoolInv, Typed
<1>5. WorkersMatch'
  BY <1>1 DEF PoolInv, WorkersMatch, Waited, Listed
<1>6. SlotsAddUp'
  BY <1>1 DEF PoolInv, SlotsAddUp, Holders
<1>. QED
  BY <1>4, <1>5, <1>6 DEF PoolInv

LEMMA ListPool == ASSUME PoolInv, List \/ ListFails PROVE PoolInv'
<1>. USE DockerFacts
<1>1. Typed' /\ WorkersMatch'
  <2>1. CASE List
    <3>1. state' \in [Container -> {"running", "stopped", "absent"}]
      BY <2>1 DEF List
    <3>. QED
      BY <2>1, <3>1 DEF List, NewResults, PoolInv, Typed, WorkersMatch, Listed
  <2>2. CASE ListFails
    BY <2>2 DEF ListFails, NewResults, PoolInv, Typed, WorkersMatch, Listed
  <2>. QED
    BY <2>1, <2>2
<1>2. \A c \in Container : worker'[c] \in {"none", "done", "waiting"}
  BY DEF List, ListFails
<1>3. Holders' = {}
  BY <1>2, NobodyHolds DEF Holders
<1>4. free' = Slots
  <2>1. CASE List
    BY <2>1 DEF List
  <2>2. CASE ListFails
    <3>1. \A c \in Container : worker[c] \in {"none", "done", "waiting"}
      BY <2>2 DEF ListFails, PoolInv, WorkersMatch
    <3>2. Holders = {}
      BY <3>1, NobodyHolds DEF Holders
    <3>. QED
      BY <2>2, <3>2, FS_EmptySet DEF ListFails, PoolInv, SlotsAddUp
  <2>. QED
    BY <2>1, <2>2
<1>. QED
  BY <1>1, <1>3, <1>4, FS_EmptySet DEF SlotsAddUp, PoolInv

LEMMA NextPool == PoolInv /\ [Next]_vars => PoolInv'
<1>. SUFFICES ASSUME PoolInv, [Next]_vars PROVE PoolInv'
  OBVIOUS
<1>1. CASE List \/ ListFails
  BY <1>1, ListPool
<1>2. CASE \E c \in Container : Work(c)
  BY <1>2, WorkKeepsTypes, WorkKeepsSlots DEF PoolInv
<1>3. CASE Return
  BY <1>3, ReturnPool
<1>4. CASE Cancel \/ UNCHANGED vars
  BY <1>4 DEF Cancel, vars, results, PoolInv, Typed, WorkersMatch, Listed, SlotsAddUp, Holders
<1>. QED
  BY <1>1, <1>2, <1>3, <1>4 DEF Next

LEMMA Pool == Spec => []PoolInv
BY InitPool, NextPool, PTL DEF Spec

-----------------------------------------------------------------------------
\* Every variable keeps its type; in particular the semaphore never has more
\* than its slots nor less than none.
THEOREM TypeCorrect == Spec => []TypeOK
<1>1. PoolInv => TypeOK
  <2>1. PoolInv => free \in 0..Slots
    BY HoldersFinite, DockerFacts DEF PoolInv, SlotsAddUp
  <2>. QED
    BY <2>1 DEF PoolInv, Typed, TypeOK
<1>. QED
  BY <1>1, Pool, PTL

\* What results says of the containers: a container has an answer only if its
\* goroutine asked, and got one to the end; and once a goroutine has asked for the
\* stats of a running container, results holds the answer or an error.
Answers ==
    \A c \in Container :
        /\ worker[c] = "stats" => state[c] = "running"
        /\ c \in failed => worker[c] \in {"inspect", "done"}
        /\ answer[c] # None =>
            /\ worker[c] \in {"inspect", "done"}
            /\ state[c] = "running" /\ c \notin failed
        /\ worker[c] \in {"inspect", "done"} /\ state[c] = "running" /\ c \notin failed =>
            answer[c] = stats[c]

\* A goroutine's step says nothing of another container.
LEMMA WorkAnswers == ASSUME PoolInv, Answers, NEW c \in Container, Work(c) PROVE Answers'
<1>0. /\ worker \in [Container -> {"none", "waiting", "stats", "inspect", "done"}]
      /\ stats \in [Container -> Memory] /\ answer \in [Container -> Memory \cup {None}]
      /\ state' = state
  BY DEF PoolInv, Typed, Work, Acquire, GiveUp, Stats, Inspect
<1>. USE DEF Answers, results
<1>1. CASE Acquire(c)
  BY <1>0, <1>1 DEF Acquire
<1>2. CASE GiveUp(c)
  BY <1>0, <1>2 DEF GiveUp
<1>3. CASE Stats(c)
  <2>1. PICK m \in Memory : Answered(c, m) \/ Unanswered(c, m)
    BY <1>3 DEF Stats
  <2>. QED
    BY <1>0, <1>3, <2>1, DockerFacts DEF Stats, Answered, Unanswered
<1>4. CASE Inspect(c)
  BY <1>0, <1>4 DEF Inspect
<1>. QED
  BY <1>1, <1>2, <1>3, <1>4 DEF Work

LEMMA AnswersKept == ASSUME PoolInv, Answers, [Next]_vars PROVE Answers'
<1>1. CASE List \/ ListFails
  BY <1>1, DockerFacts DEF List, ListFails, NewResults, Answers
<1>2. CASE \E c \in Container : Work(c)
  BY <1>2, WorkAnswers
<1>3. CASE Return \/ Cancel \/ UNCHANGED vars
  BY <1>3 DEF Return, Cancel, vars, results, Answers
<1>. QED
  BY <1>1, <1>2, <1>3 DEF Next

\* It holds in every state.
LEMMA AnswersHold == Spec => []Answers
<1>1. Init => Answers
  BY DockerFacts DEF Init, Answers
<1>. QED
  BY <1>1, AnswersKept, Pool, PTL DEF Spec

\* Between collections nothing of what the snapshots were made from changes.
LEMMA IdleStep ==
    ASSUME PoolInv, pc = "idle", [Next]_vars
    PROVE  \/ pc' = "collect"
           \/ ListFails
           \/ UNCHANGED <<pc, state, answer, shown>>
<1>1. CASE List
  BY <1>1 DEF List
<1>2. CASE ListFails
  BY <1>2
<1>3. CASE \E c \in Container : Work(c)
  BY <1>3 DEF Work, Acquire, GiveUp, Stats, Inspect, PoolInv, WorkersMatch
<1>4. CASE Return
  BY <1>4 DEF Return
<1>5. CASE Cancel \/ UNCHANGED vars
  BY <1>5 DEF Cancel, vars, results
<1>. QED
  BY <1>1, <1>2, <1>3, <1>4, <1>5 DEF Next

\* During a collection only its end changes pc.
LEMMA CollectStep ==
    ASSUME PoolInv, pc = "collect", [Next]_vars PROVE pc' = "collect" \/ Return
BY DEF Next, List, ListFails, Work, Acquire, GiveUp, Stats, Inspect, Cancel, vars

\* Once all goroutines are done, what results holds of a running container without an
\* error is what the engine answered of it.
LEMMA DoneAnswers ==
    ASSUME PoolInv, Answers, Waited, NEW c \in Listed
    PROVE  /\ Online(c) => answer[c] # None /\ answer[c] = stats[c] /\ Plausible(answer[c])
           /\ answer[c] # None /\ Plausible(answer[c]) => Online(c)
<1>1. c \in Container /\ worker[c] = "done" /\ stats[c] \in Memory
  BY DEF Listed, Waited, PoolInv, Typed
<1>2. ASSUME Online(c) PROVE answer[c] # None /\ answer[c] = stats[c] /\ Plausible(answer[c])
  BY <1>1, <1>2, DockerFacts DEF Answers, Online
<1>3. ASSUME answer[c] # None, Plausible(answer[c]) PROVE Online(c)
  BY <1>1, <1>3 DEF Answers, Online
<1>. QED
  BY <1>2, <1>3

\* However goroutines, failing requests and cancellations interleave, for any number
\* of containers and slots and with identities that containers share: an online
\* workload shows the answer to the stats request of its own container in this
\* Collect, complete and plausible (docker.go:131-161, 195-252).
THEOREM OnlyMeasuredOnline == Spec => []OnlineMeasured
<1>1. Init => OnlineMeasured
  BY DEF Init, OnlineMeasured
<1>2. PoolInv /\ Answers /\ OnlineMeasured /\ [Next]_vars => OnlineMeasured'
  <2>. SUFFICES ASSUME PoolInv, Answers, OnlineMeasured, [Next]_vars PROVE OnlineMeasured'
    OBVIOUS
  <2>1. CASE pc = "idle"
    BY <2>1, IdleStep DEF ListFails, OnlineMeasured
  <2>2. CASE pc = "collect" /\ Return
    <3>. SUFFICES ASSUME NEW w \in Workload, shown'[w] # None, shown'[w].online
                  PROVE  /\ answer'[shown'[w].of] # None
                         /\ Plausible(answer'[shown'[w].of])
                         /\ shown'[w].ram = answer'[shown'[w].of]
      BY DEF OnlineMeasured, Plausible
    <3>1. PICK c \in Listed : shown'[w] = Shown(c)
      BY <2>2, Merged
    <3>2. Online(c) /\ shown'[w].of = c /\ shown'[w].ram = stats[c]
      BY <3>1 DEF Shown
    <3>3. answer' = answer /\ Waited
      BY <2>2 DEF Return, results
    <3>. QED
      BY <3>2, <3>3, DoneAnswers
  <2>3. CASE pc' = "collect"
    BY <2>3 DEF OnlineMeasured
  <2>. QED
    BY <2>1, <2>2, <2>3, CollectStep DEF PoolInv, Typed
<1>. QED
  BY <1>1, <1>2, Pool, AnswersHold, PTL DEF Spec

\* If containers do not share identities, a container of which the engine answered
\* plausible stats is shown online, for any number of goroutines and slots.
THEOREM RunningKept ==
    ASSUME \A c, d \in Container : Logical[c] = Logical[d] => c = d
    PROVE  Spec => []RunningShown
<1>1. Init => RunningShown
  BY DEF Init, RunningShown, Listed
<1>2. PoolInv /\ Answers /\ RunningShown /\ [Next]_vars => RunningShown'
  <2>. SUFFICES ASSUME PoolInv, Answers, RunningShown, [Next]_vars PROVE RunningShown'
    OBVIOUS
  <2>1. CASE List \/ ListFails
    BY <2>1 DEF List, ListFails, NewResults, RunningShown, Listed
  <2>2. CASE pc = "collect" /\ Return
    <3>0. state' = state /\ answer' = answer /\ Waited
      BY <2>2 DEF Return, results
    <3>. SUFFICES ASSUME NEW c \in Listed, answer[c] # None, Plausible(answer[c])
                  PROVE  shown'[Logical[c]] # None /\ shown'[Logical[c]].online
      BY <3>0 DEF RunningShown, Listed, Plausible
    <3>1. c \in Container /\ Logical[c] \in Workload
      BY DEF Listed, Workload
    <3>2. PICK d \in Container :
            /\ Logical[d] = Logical[c]
            /\ \A e \in Listed : Logical[e] = Logical[c] => d \in Listed
            /\ shown'[Logical[c]] = IF d \in Listed THEN Shown(d) ELSE None
      BY <2>2, <3>1, Merged
    <3>3. d = c
      BY <3>1, <3>2
    <3>4. shown'[Logical[c]] = Shown(c) /\ Online(c)
      BY <3>0, <3>2, <3>3, DoneAnswers
    <3>5. Shown(c) # None /\ Shown(c).online = Online(c)
      BY <3>1, ShownFacts DEF Shown
    <3>. QED
      BY <3>4, <3>5
  <2>3. CASE pc' = "collect"
    BY <2>3 DEF RunningShown
  <2>4. CASE pc = "idle" /\ UNCHANGED <<pc, state, answer, shown>>
    BY <2>4 DEF RunningShown, Listed
  <2>. QED
    BY <2>1, <2>2, <2>3, <2>4, IdleStep, CollectStep DEF PoolInv, Typed
<1>. QED
  BY <1>1, <1>2, Pool, AnswersHold, PTL DEF Spec

-----------------------------------------------------------------------------
(* Why a collection ends                                                     *)

\* The goroutines that are still at one of the steps S.
At(S) == {c \in Container : worker[c] \in S}

\* The goroutines that have a slot to wait for, a stats request or an inspection
\* before them: how many steps they have left at most.
ToAcquire == At({"waiting"})
ToAsk     == At({"waiting", "stats"})
ToInspect == At({"waiting", "stats", "inspect"})
Left      == Cardinality(ToAcquire) + Cardinality(ToAsk) + Cardinality(ToInspect)

\* Some goroutine can take a step whether the context is done or not: it holds a
\* slot, or waits for one that is free.
SomeoneRuns ==
    \E c \in Container : worker[c] \in {"stats", "inspect"} \/ (worker[c] = "waiting" /\ free > 0)

\* The wait group never waits for goroutines that wait for each other: as long as
\* one is not done, one can go on, however few the slots are (docker.go:131-154).
THEOREM NeverStuck == Spec => [](pc = "collect" => Waited \/ SomeoneRuns)
<1>1. PoolInv /\ pc = "collect" => Waited \/ SomeoneRuns
  <2>. SUFFICES ASSUME PoolInv, ~Waited, \A c \in Container : worker[c] \notin {"stats", "inspect"}
                PROVE  \E c \in Container : worker[c] = "waiting" /\ free > 0
    BY DEF SomeoneRuns
  <2>1. PICK c \in Listed : worker[c] # "done"
    BY DEF Waited
  <2>2. c \in Container /\ worker[c] = "waiting"
    BY <2>1 DEF PoolInv, Typed, WorkersMatch, Listed
  <2>3. Holders = {}
    BY DEF Holders
  <2>4. free > 0
    BY <2>3, FS_EmptySet, DockerFacts DEF PoolInv, SlotsAddUp
  <2>. QED
    BY <2>2, <2>4
<1>. QED
  BY <1>1, Pool, PTL

LEMMA AtFinite ==
    ASSUME NEW S
    PROVE  /\ IsFiniteSet(At(S)) /\ Cardinality(At(S)) \in Nat
           /\ Cardinality(Container) \in Nat /\ Cardinality(At(S)) <= Cardinality(Container)
<1>1. At(S) \subseteq Container
  BY DEF At
<1>. QED
  BY <1>1, DockerFacts, FS_Subset, FS_CardinalityType

\* A set of goroutines that only loses some has fewer or as many.
LEMMA Fewer ==
    ASSUME NEW S, At(S)' \subseteq At(S)
    PROVE  /\ Cardinality(At(S)') \in Nat /\ Cardinality(At(S)) \in Nat
           /\ Cardinality(At(S)') <= Cardinality(At(S))
           /\ At(S)' # At(S) => Cardinality(At(S)') < Cardinality(At(S))
<1>1. IsFiniteSet(At(S)) /\ Cardinality(At(S)) \in Nat
  BY AtFinite
<1>2. PICK T : T = At(S)'
  OBVIOUS
<1>3. IsFiniteSet(T) /\ Cardinality(T) <= Cardinality(At(S))
      /\ (Cardinality(At(S)) = Cardinality(T) => At(S) = T)
  BY <1>1, <1>2, FS_Subset
<1>4. Cardinality(T) \in Nat
  BY <1>3, FS_CardinalityType
<1>. QED
  BY <1>1, <1>2, <1>3, <1>4

\* A step of a goroutine is behind it for good.
LEMMA WorkLeaves ==
    ASSUME Typed, NEW c \in Container, Work(c)
    PROVE  /\ ToAcquire' \subseteq ToAcquire /\ ToAsk' \subseteq ToAsk /\ ToInspect' \subseteq ToInspect
           /\ \/ ToAcquire' # ToAcquire \/ ToAsk' # ToAsk \/ ToInspect' # ToInspect
<1>. USE DEF Typed, ToAcquire, ToAsk, ToInspect, At
<1>1. CASE Acquire(c)
  <2>1. c \in ToAcquire /\ c \notin ToAcquire'
    BY <1>1 DEF Acquire
  <2>. QED
    BY <1>1, <2>1 DEF Acquire
<1>2. CASE GiveUp(c)
  <2>1. c \in ToAcquire /\ c \notin ToAcquire'
    BY <1>2 DEF GiveUp
  <2>. QED
    BY <1>2, <2>1 DEF GiveUp
<1>3. CASE Stats(c)
  <2>1. c \in ToAsk /\ c \notin ToAsk'
    BY <1>3 DEF Stats
  <2>. QED
    BY <1>3, <2>1 DEF Stats
<1>4. CASE Inspect(c)
  <2>1. c \in ToInspect /\ c \notin ToInspect'
    BY <1>4 DEF Inspect
  <2>. QED
    BY <1>4, <2>1 DEF Inspect
<1>. QED
  BY <1>1, <1>2, <1>3, <1>4 DEF Work

LEMMA WorkLowers == ASSUME Typed, NEW c \in Container, Work(c)
                    PROVE  Left' < Left /\ Left' <= Left
<1>1. /\ At({"waiting"})' \subseteq At({"waiting"})
      /\ At({"waiting", "stats"})' \subseteq At({"waiting", "stats"})
      /\ At({"waiting", "stats", "inspect"})' \subseteq At({"waiting", "stats", "inspect"})
      /\ \/ At({"waiting"})' # At({"waiting"})
         \/ At({"waiting", "stats"})' # At({"waiting", "stats"})
         \/ At({"waiting", "stats", "inspect"})' # At({"waiting", "stats", "inspect"})
  BY WorkLeaves DEF ToAcquire, ToAsk, ToInspect
<1>. HIDE DEF At
<1>. QED
  BY <1>1, Fewer DEF Left, ToAcquire, ToAsk, ToInspect

\* A collection takes at most three steps for each container: every step of a
\* goroutine lowers Left, which is never negative, and nothing raises it before the
\* collection has returned, a cancellation included (docker.go:133-154).
THEOREM CollectIsShort ==
    Spec => /\ [](Left \in 0..(3 * Cardinality(Container)))
            /\ [][/\ (\E c \in Container : Work(c)) => Left' < Left
                  /\ pc = "collect" => Left' <= Left]_vars
<1>1. Left \in 0..(3 * Cardinality(Container))
  <2>1. \A S : /\ Cardinality(At(S)) \in Nat /\ Cardinality(Container) \in Nat
               /\ Cardinality(At(S)) <= Cardinality(Container)
    BY AtFinite
  <2>. QED
    BY <2>1 DEF Left, ToAcquire, ToAsk, ToInspect
<1>2. PoolInv /\ [Next]_vars =>
        [/\ (\E c \in Container : Work(c)) => Left' < Left
         /\ pc = "collect" => Left' <= Left]_vars
  <2>. SUFFICES ASSUME PoolInv, Next
                PROVE  /\ (\E c \in Container : Work(c)) => Left' < Left
                       /\ pc = "collect" => Left' <= Left
    OBVIOUS
  <2>1. (\E c \in Container : Work(c)) => Left' < Left /\ Left' <= Left
    BY WorkLowers DEF PoolInv
  <2>2. Left \in Int
    BY <1>1, AtFinite
  <2>3. CASE pc = "collect" /\ ~(\E c \in Container : Work(c))
    <3>1. worker' = worker
      BY <2>3 DEF Next, List, ListFails, Return, Cancel
    <3>. QED
      BY <2>2, <2>3, <3>1 DEF Left, ToAcquire, ToAsk, ToInspect, At
  <2>. QED
    BY <2>1, <2>2, <2>3
<1>. QED
  BY <1>1, <1>2, Pool, PTL DEF Spec
=============================================================================
