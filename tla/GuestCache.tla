----------------------------- MODULE GuestCache -----------------------------
(***************************************************************************)
(* Collect of the Proxmox provider (providers/proxmox/proxmox.go): one     *)
(* listing of the cluster, then one resource after the other, each         *)
(* completed by requests that may fail, and by caches that stand in for    *)
(* them: node status and guest OS for ever, guest memory and file systems  *)
(* for the grace period.                                                   *)
(*                                                                         *)
(* Of a snapshot the model keeps whether it is online, whether its         *)
(* identity is the real one (node status, guest OS), and where its memory  *)
(* and disk come from: Pve for what the listing says, None for nothing, or *)
(* the age a guest sample had when it was put into the snapshot, counted   *)
(* from the moment it was read in the guest: that is when the command or   *)
(* the agent runs, some time before the answer that brings it.             *)
(***************************************************************************)
EXTENDS Integers

CONSTANTS
    Node,      \* nodes of the cluster
    Guest,     \* QEMU guests
    Qga,       \* guests configured with guest_memory: qga
    Grace,     \* guestEnrichmentGracePeriod
    MaxPolls,  \* polls of collectGuestMemory
    Request,   \* the longest a request takes (the HTTP client's timeout), with
               \* the wait that precedes a poll
    Pve, None

ASSUME GuestAssumption ==
    /\ Node \cap Guest = {} /\ Qga \subseteq Guest
    /\ Grace \in Nat /\ MaxPolls \in Nat \ {0} /\ Request \in Nat
    /\ Pve # None /\ {Pve, None} \cap Int = {}

Item == Node \cup Guest

\* The longest the memory command takes: to start it, and every poll.
Command == (MaxPolls + 1) * Request

\* The oldest sample of a guest's memory that may be shown.
Oldest == Grace + Command

\* Ages of a sample; one that is older than Oldest is of age Oldest + 1.
SampleAge == 0..(Oldest + 1)

Source == SampleAge \cup {Pve, None}

Snapshot == [online : BOOLEAN, identified : BOOLEAN, memory : Source, disk : Source]

\* A cached sample: how long ago the guest was read, and since savedAt, at most
\* Grace + 1.
Cached == [taken : SampleAge, saved : 0..(Grace + 1)]

ASSUME NothingAssumption == None \notin Snapshot \cup Cached \cup Item

VARIABLES
    pc,         \* what Collect does next
    status,     \* what the listing says of each item
    todo,       \* listed items that are not yet done
    item,       \* the item at hand
    job,        \* its snapshot
    polls,      \* unanswered polls of the memory command
    waited,     \* time since the request to the guest was sent
    read,       \* how long ago the guest was read for it, None if it was not yet
    known,      \* keys of nodeStatus and guestOS
    memory,     \* guestMemory
    disk,       \* guestDisk
    snapshots   \* the snapshots collected

caches == <<known, memory, disk>>
vars == <<pc, status, todo, item, job, polls, waited, read, known, memory, disk, snapshots>>

\* The requests that read the guest: each takes its time.
Asking == {"disk", "exec", "poll"}

\* Every variable has its type.
TypeOK ==
    /\ pc \in {"idle", "next", "status", "os", "disk", "exec", "poll", "append"}
    /\ status \in [Item -> {"up", "down", "hidden"}]
    /\ todo \subseteq Item
    /\ item \in Item \cup {None}
    /\ job \in Snapshot \cup {None}
    /\ polls \in 0..(MaxPolls - 1)
    /\ waited \in 0..Request
    /\ read \in 0..Command \cup {None}
    /\ known \subseteq Item
    /\ memory \in [Guest -> Cached \cup {None}]
    /\ disk \in [Guest -> Cached \cup {None}]
    /\ snapshots \in [Item -> Snapshot \cup {None}]

Init ==
    /\ pc = "idle" /\ polls = 0 /\ waited = 0 /\ read = None
    /\ status = [i \in Item |-> "hidden"] /\ todo = {}
    /\ item = None /\ job = None
    /\ known = {}
    /\ memory = [g \in Guest |-> None] /\ disk = [g \in Guest |-> None]
    /\ snapshots = [i \in Item |-> None]

-----------------------------------------------------------------------------
(* The caches *)

\* storeGuestMemory and storeGuestDisk date the sample with the answer.
Fresh == [taken |-> read, saved |-> 0]

\* loadGuestMemory and loadGuestDisk find the entry.
Usable(entry) == entry # None /\ entry.saved <= Grace

-----------------------------------------------------------------------------
(* Collect *)

\* "hidden" stands for absent, a template, excluded, and stopped when stopped
\* items are skipped.
List ==
    /\ pc = "idle" /\ pc' = "next"
    /\ status' \in [Item -> {"up", "down", "hidden"}]
    /\ todo' = {i \in Item : status'[i] # "hidden"}
    /\ snapshots' = [i \in Item |-> None]
    /\ UNCHANGED <<item, job, polls, waited, read, caches>>

\* mutant: the virtual disk's capacity is taken for the guest's (DiskContract)
ListedDisk(i) ==
    [online |-> status[i] = "up", identified |-> FALSE, memory |-> Pve, disk |-> Pve]

\* snapshot(): the disk of a guest is left out, that of a node is PVE's.
Listed(i) ==
    [online |-> status[i] = "up", identified |-> FALSE, memory |-> Pve,
     disk |-> IF i \in Node THEN Pve ELSE None]

Take(i) ==
    /\ pc = "next" /\ i \in todo
    /\ item' = i /\ job' = Listed(i)
    /\ pc' = CASE i \in Node -> "status"
               [] i \in Guest /\ status[i] = "up" -> "os"
               [] OTHER -> "append"
    /\ UNCHANGED <<status, todo, polls, waited, read, caches, snapshots>>

Identified == [job EXCEPT !.identified = TRUE]

\* A node without a status is not published.
UnknownNode == [job EXCEPT !.online = FALSE]

NodeStatus ==
    /\ pc = "status" /\ pc' = "append"
    /\ \/ known' = known \cup {item} /\ job' = Identified
       \/ known' = known /\ job' = IF item \in known THEN Identified ELSE UnknownNode
    /\ UNCHANGED <<status, todo, item, polls, waited, read, memory, disk, snapshots>>

\* mutant: the cached guest OS is not used (IdentityKept)
GuestOSUncached ==
    /\ pc = "os" /\ pc' = "disk"
    /\ \/ known' = known \cup {item} /\ job' = Identified
       \/ known' = known /\ job' = job
    /\ UNCHANGED <<status, todo, item, polls, waited, read, memory, disk, snapshots>>

GuestOS ==
    /\ pc = "os" /\ pc' = "disk"
    /\ \/ known' = known \cup {item} /\ job' = Identified
       \/ known' = known /\ job' = IF item \in known THEN Identified ELSE job
    /\ UNCHANGED <<status, todo, item, polls, waited, read, memory, disk, snapshots>>

\* The agent reads the file systems, or the command the memory.
GuestReads ==
    /\ pc \in Asking /\ read = None /\ read' = 0
    /\ UNCHANGED <<pc, status, todo, item, job, polls, waited, caches, snapshots>>

\* get-fsinfo answered with file systems, or did not.
GuestDisk ==
    /\ pc = "disk" /\ pc' = IF item \in Qga THEN "exec" ELSE "append"
    /\ \/ /\ read # None
          /\ disk' = [disk EXCEPT ![item] = Fresh] /\ job' = [job EXCEPT !.disk = read]
       \/ /\ disk' = disk
          /\ job' = IF Usable(disk[item])
                    THEN [job EXCEPT !.disk = disk[item].taken] ELSE job
    /\ waited' = 0 /\ read' = None
    /\ UNCHANGED <<status, todo, item, polls, known, memory, snapshots>>

\* The memory command is started in the guest.
Exec ==
    /\ pc = "exec" /\ pc' = "poll" /\ polls' = 0 /\ waited' = 0
    /\ UNCHANGED <<status, todo, item, job, read, caches, snapshots>>

\* What the snapshot shows is as old as the read of the guest, not as the answer.
MemoryRead ==
    /\ pc = "poll" /\ read # None
    /\ pc' = "append" /\ polls' = 0 /\ waited' = 0 /\ read' = None
    /\ memory' = [memory EXCEPT ![item] = Fresh]
    /\ job' = [job EXCEPT !.memory = read]
    /\ UNCHANGED <<status, todo, item, known, disk, snapshots>>

\* mutant: one poll too many (TypeOK)
PendingOnceMore ==
    /\ pc = "poll"
    /\ polls' = polls + 1 /\ waited' = 0
    /\ UNCHANGED <<pc, status, todo, item, job, read, caches, snapshots>>

\* mutant: polls for ever (CollectEnds)
PendingForEver ==
    /\ pc = "poll"
    /\ polls' = (polls + 1) % MaxPolls /\ waited' = 0
    /\ UNCHANGED <<pc, status, todo, item, job, read, caches, snapshots>>

\* The command is still running.
Pending ==
    /\ pc = "poll" /\ polls + 1 < MaxPolls
    /\ polls' = polls + 1 /\ waited' = 0
    /\ UNCHANGED <<pc, status, todo, item, job, read, caches, snapshots>>

\* No compatible observation of the memory: the guest is not reported.
Unobserved ==
    [online |-> FALSE, identified |-> job.identified, memory |-> None, disk |-> job.disk]

\* The cached memory, if it is not too old.
CachedMemory ==
    IF Usable(memory[item])
    THEN [job EXCEPT !.memory = memory[item].taken] ELSE Unobserved

\* mutant: a cached sample that is used counts as new (MemoryContract)
MemoryFailsSaving ==
    /\ pc \in {"exec", "poll"}
    /\ pc' = "append" /\ polls' = 0 /\ waited' = 0 /\ read' = None
    /\ job' = CachedMemory
    /\ memory' = IF Usable(memory[item])
                 THEN [memory EXCEPT ![item].saved = 0] ELSE memory
    /\ UNCHANGED <<status, todo, item, known, disk, snapshots>>

\* The command could not be started, failed, was truncated, printed something
\* invalid, or was still running after the last poll.
MemoryFails ==
    /\ pc \in {"exec", "poll"}
    /\ pc' = "append" /\ polls' = 0 /\ waited' = 0 /\ read' = None
    /\ job' = CachedMemory
    /\ UNCHANGED <<status, todo, item, caches, snapshots>>

Append ==
    /\ pc = "append" /\ pc' = "next"
    /\ snapshots' = [snapshots EXCEPT ![item] = job]
    /\ todo' = todo \ {item}
    /\ item' = None /\ job' = None
    /\ UNCHANGED <<status, polls, waited, read, caches>>

Return ==
    /\ pc = "next" /\ todo = {} /\ pc' = "idle"
    /\ status' = [i \in Item |-> "hidden"]
    /\ UNCHANGED <<todo, item, job, polls, waited, read, caches, snapshots>>

Expired == [taken |-> Oldest + 1, saved |-> Grace + 1]

\* Once its grace period is over, the age of an entry no longer matters.
Older(entry) ==
    IF entry = None THEN None
    ELSE IF entry.saved >= Grace THEN Expired
    ELSE [taken |-> entry.taken + 1, saved |-> entry.saved + 1]

\* Time passes, but no request takes longer than Request.
Tick ==
    /\ pc \in Asking => waited < Request
    /\ waited' = IF pc \in Asking THEN waited + 1 ELSE waited
    /\ read' = IF read = None THEN None ELSE read + 1
    /\ memory' = [g \in Guest |-> Older(memory[g])]
    /\ disk' = [g \in Guest |-> Older(disk[g])]
    /\ UNCHANGED <<pc, status, todo, item, job, polls, known, snapshots>>

\* A new bridge process: the caches are in memory only.
Restart ==
    /\ pc' = "idle" /\ polls' = 0 /\ waited' = 0 /\ read' = None
    /\ status' = [i \in Item |-> "hidden"] /\ todo' = {}
    /\ item' = None /\ job' = None /\ known' = {}
    /\ memory' = [g \in Guest |-> None] /\ disk' = [g \in Guest |-> None]
    /\ snapshots' = [i \in Item |-> None]

Step == \/ \E i \in Item : Take(i)
        \/ NodeStatus \/ GuestOS \/ GuestDisk \/ Exec
        \/ MemoryRead \/ Pending \/ MemoryFails \/ Append \/ Return

Next == List \/ Step \/ GuestReads \/ Tick \/ Restart

Spec == Init /\ [][Next]_vars

\* Every request returns, at the latest with the timeout of the HTTP client.
FairSpec == Spec /\ WF_vars(Step)

-----------------------------------------------------------------------------
\* guest_memory: qga is a contract: a snapshot that says the guest is online
\* shows memory read in the guest and never what PVE sees of the process.  When it
\* was put into the snapshot it was at most the grace period and the time the
\* command may take old, counted from when the guest was read, however reads,
\* failures, reuse of the cached sample and restarts follow each other.
MemoryContract ==
    \A g \in Qga : snapshots[g] # None /\ snapshots[g].online =>
        snapshots[g].memory \in 0..Oldest

\* A guest's disk is unknown or was read in the guest, at most the grace period
\* and one request before; the capacity of its virtual disk is never shown.
DiskContract ==
    \A g \in Guest : snapshots[g] # None =>
        snapshots[g].disk \in 0..(Grace + Request) \cup {None}

\* Once the bridge knows a guest's operating system or a node's processor and
\* version, an online snapshot shows it, and an online node shows it from the
\* first sample on: basic info does not go back to the generic one and forth.
IdentityKept ==
    [][\A i \in Node \cup known : snapshots'[i] # None /\ snapshots'[i].online =>
         snapshots'[i].identified]_snapshots

\* Collect ends: the polls of a memory command that does not end are bounded.
CollectEnds == pc # "idle" ~> pc = "idle"
=============================================================================
