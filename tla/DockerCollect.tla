---------------------------- MODULE DockerCollect ----------------------------
(***************************************************************************)
(* Collect of the Docker provider (providers/docker/docker.go): one        *)
(* listing, then one goroutine per container, of which a semaphore lets    *)
(* some ask the engine at a time, then one snapshot per container, which   *)
(* the loop of Cycle merges by logical identity.                           *)
(*                                                                         *)
(* Logical is workloadIdentity: several containers have one identity when  *)
(* an engine keeps the stopped containers of earlier tasks of a Swarm      *)
(* slot, or a Compose service has a one-off container.  Of the stats the   *)
(* model keeps the memory.  What results holds of them need not be what    *)
(* the engine measured: a goroutine that gave up leaves the zero value, an *)
(* answer that cannot be decoded to its end leaves some of its fields, and *)
(* an empty answer is decoded to the zero value without an error.          *)
(***************************************************************************)
EXTENDS Integers, FiniteSets

CONSTANTS
    Container,       \* containers the engine may list
    Logical,         \* Logical[c]: the identity of the workload of c
    Slots,           \* capacity of the semaphore
    IncludeStopped,  \* include_stopped
    Amount,          \* what memory may amount to
    None             \* no snapshot, no answer

ASSUME DockerAssumption ==
    /\ IsFiniteSet(Container)
    /\ Slots \in Nat \ {0}
    /\ IncludeStopped \in BOOLEAN
    /\ Amount \subseteq Nat /\ 0 \in Amount

Workload == {Logical[c] : c \in Container}

\* MemoryStats, as far as the provider reads them.
Memory == [limit : Amount, usage : Amount]

NoMemory == [limit |-> 0, usage |-> 0]

\* What Cycle keeps of a snapshot: the container it shows, whether online, and RAM.
Snapshot == [of : Container, online : BOOLEAN, ram : Memory]

ASSUME NoSnapshotAssumption == None \notin Snapshot \cup Memory

VARIABLES
    pc,         \* "idle", "collect"
    state,      \* State of each container in the listing, "absent" if not selected
    worker,     \* the goroutine of each container
    free,       \* free slots of the semaphore
    stats,      \* results[index].stats
    failed,     \* the containers with an error in results[index].err
    answer,     \* history: what the engine fully answered in this Collect
    cancelled,  \* ctx is done
    shown       \* shown[w]: the merged snapshot of workload w

results == <<stats, failed, answer>>
vars == <<pc, state, worker, free, results, cancelled, shown>>

Listed == {c \in Container : state[c] # "absent"}

\* Every variable has its type.
TypeOK ==
    /\ pc \in {"idle", "collect"}
    /\ state \in [Container -> {"running", "stopped", "absent"}]
    /\ worker \in [Container -> {"none", "waiting", "stats", "inspect", "done"}]
    /\ free \in 0..Slots
    /\ stats \in [Container -> Memory]
    /\ failed \subseteq Container
    /\ answer \in [Container -> Memory \cup {None}]
    /\ cancelled \in BOOLEAN
    /\ shown \in [Workload -> Snapshot \cup {None}]

Init ==
    /\ pc = "idle" /\ free = Slots /\ cancelled = FALSE
    /\ state = [c \in Container |-> "absent"]
    /\ worker = [c \in Container |-> "none"]
    /\ stats = [c \in Container |-> NoMemory] /\ failed = {}
    /\ answer = [c \in Container |-> None]
    /\ shown = [w \in Workload |-> None]

-----------------------------------------------------------------------------
\* results, made anew by every Collect.
NewResults ==
    /\ stats' = [c \in Container |-> NoMemory] /\ failed' = {}
    /\ answer' = [c \in Container |-> None]

\* The engine lists containers, and stopped ones only when it is asked to; the
\* containers without the label are absent unless all are wanted.
List ==
    /\ pc = "idle" /\ ~cancelled /\ pc' = "collect"
    /\ state' \in [Container -> IF IncludeStopped
                                THEN {"running", "stopped", "absent"}
                                ELSE {"running", "absent"}]
    /\ worker' = [c \in Container |-> IF state'[c] = "absent" THEN "none" ELSE "waiting"]
    /\ free' = Slots
    /\ NewResults
    /\ shown' = [w \in Workload |-> None]
    /\ UNCHANGED cancelled

ListFails ==
    /\ pc = "idle"
    /\ state' = [c \in Container |-> "absent"]
    /\ worker' = [c \in Container |-> "none"]
    /\ NewResults
    /\ shown' = [w \in Workload |-> None]
    /\ UNCHANGED <<pc, free, cancelled>>

Acquire(c) ==
    /\ worker[c] = "waiting" /\ free > 0
    /\ free' = free - 1
    /\ worker' = [worker EXCEPT ![c] = IF state[c] = "running" THEN "stats" ELSE "inspect"]
    /\ UNCHANGED <<pc, state, results, cancelled, shown>>

\* mutant: a goroutine that gives up frees a slot it does not have (TypeOK)
GiveUpReleasing(c) ==
    /\ worker[c] = "waiting" /\ cancelled
    /\ worker' = [worker EXCEPT ![c] = "done"]
    /\ free' = free + 1
    /\ failed' = failed \cup {c}
    /\ UNCHANGED <<pc, state, stats, answer, cancelled, shown>>

\* ctx.Done was the case that select took, which may be so beside a free slot.
GiveUp(c) ==
    /\ worker[c] = "waiting" /\ cancelled
    /\ worker' = [worker EXCEPT ![c] = "done"]
    /\ failed' = failed \cup {c}
    /\ UNCHANGED <<pc, state, free, stats, answer, cancelled, shown>>

\* getJSON into results[index].stats: the engine answers m, be it the zero value of
\* an empty answer, or the request fails and m is what was decoded before.
Answered(c, m) ==
    /\ ~cancelled
    /\ stats' = [stats EXCEPT ![c] = m] /\ answer' = [answer EXCEPT ![c] = m]
    /\ UNCHANGED failed

Unanswered(c, m) ==
    /\ stats' = [stats EXCEPT ![c] = m] /\ failed' = failed \cup {c}
    /\ UNCHANGED answer

\* mutant: a failed stats request ends the goroutine without its slot (CollectEnds)
StatsLeaking(c) ==
    /\ worker[c] = "stats"
    /\ \E m \in Memory :
        \/ Answered(c, m) /\ worker' = [worker EXCEPT ![c] = "inspect"]
        \/ Unanswered(c, m) /\ worker' = [worker EXCEPT ![c] = "done"]
    /\ UNCHANGED <<pc, state, free, cancelled, shown>>

Stats(c) ==
    /\ worker[c] = "stats"
    /\ \E m \in Memory : Answered(c, m) \/ Unanswered(c, m)
    /\ worker' = [worker EXCEPT ![c] = "inspect"]
    /\ UNCHANGED <<pc, state, free, cancelled, shown>>

\* What inspection answers does not decide whether the workload is online.
Inspect(c) ==
    /\ worker[c] = "inspect"
    /\ worker' = [worker EXCEPT ![c] = "done"]
    /\ free' = free + 1
    /\ UNCHANGED <<pc, state, results, cancelled, shown>>

\* The memory of a container that is measured has a limit, and fits in it.
Plausible(m) == m.limit > 0 /\ m.usage <= m.limit

\* mutant: the error of the request is not looked at (OnlineMeasured)
OnlineUnchecked(c) == state[c] = "running" /\ Plausible(stats[c])

\* Whether the container is reported online.
Online(c) == state[c] = "running" /\ c \notin failed /\ Plausible(stats[c])

\* snapshot(): a container that is not online has no figures.
Shown(c) ==
    [of |-> c, online |-> Online(c), ram |-> IF Online(c) THEN stats[c] ELSE NoMemory]

\* mutant: does not wait for the last goroutine (RunningShown)
AllButOneDone == Cardinality({c \in Listed : worker[c] # "done"}) <= 1

\* wg.Wait returns.
Waited == \A c \in Listed : worker[c] = "done"

\* The snapshots have equal priority, so the last one of an identity replaces
\* the others; the sort is by identity and not stable, so that is any of them.
Return ==
    /\ pc = "collect" /\ Waited
    /\ pc' = "idle"
    /\ \E last \in [Workload -> Container] :
        /\ \A w \in Workload : Logical[last[w]] = w
        /\ \A c \in Listed : last[Logical[c]] \in Listed
        /\ shown' = [w \in Workload |->
                        IF last[w] \in Listed THEN Shown(last[w]) ELSE None]
    /\ UNCHANGED <<state, worker, free, results, cancelled>>

Cancel ==
    /\ ~cancelled /\ cancelled' = TRUE
    /\ UNCHANGED <<pc, state, worker, free, results, shown>>

Work(c) == Acquire(c) \/ GiveUp(c) \/ Stats(c) \/ Inspect(c)

Next == List \/ ListFails \/ (\E c \in Container : Work(c)) \/ Return \/ Cancel

Spec == Init /\ [][Next]_vars

\* Goroutines run, and requests return, at the latest with the HTTP timeout.
FairSpec == Spec /\ (\A c \in Container : WF_vars(Work(c))) /\ WF_vars(Return)

-----------------------------------------------------------------------------
\* A workload that is shown online shows what the engine fully answered of the
\* container in this very Collect, and that is plausible: never the zero value of a
\* request that was given up, what was decoded of one that failed, an empty answer
\* or figures of another container.
OnlineMeasured ==
    pc = "idle" => \A w \in Workload : shown[w] # None /\ shown[w].online =>
        LET measured == answer[shown[w].of]
        IN  measured # None /\ Plausible(measured) /\ shown[w].ram = measured

\* A workload with a container of which the engine answered plausible stats is
\* shown online: it is not lost among the goroutines nor in merging.
RunningShown ==
    pc = "idle" => \A c \in Listed : answer[c] # None /\ Plausible(answer[c]) =>
        shown[Logical[c]] # None /\ shown[Logical[c]].online

\* Collect ends, with more containers than slots and with requests that fail.
CollectEnds == pc = "collect" ~> pc = "idle"
=============================================================================
