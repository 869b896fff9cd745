------------------------------ MODULE Presence ------------------------------
(***************************************************************************)
(* Run of internal/bridge/runner.go against the clock, for one resource    *)
(* that an authority is attached to: the cycles, the ticker that starts    *)
(* them, the two caches a figure passes on its way, that of the collector  *)
(* and the authority cache, each with its grace period, and the presence   *)
(* TTL by which Komari shows the resource online.                          *)
(*                                                                         *)
(* The ticker is a Go time.Ticker: it is made after the first cycle, fires *)
(* every interval and holds one tick that was not yet received.  Nothing   *)
(* in the code bounds a cycle as a whole; Cycle is the time it takes.      *)
(***************************************************************************)
EXTENDS Integers

CONSTANTS
    Interval,  \* scheduler.interval
    Cycle,     \* assumed: the longest a cycle takes
    Grace,     \* authorityGracePeriod
    Stale,     \* wslGPUGracePeriod, the grace period of the collector's own cache
    TTL,       \* Komari's presence TTL
    MaxTime,   \* bound on the clock
    None       \* no ticker, no cache entry, no snapshot, no report

ASSUME PresenceAssumption ==
    /\ Interval \in Nat \ {0} /\ Cycle \in Nat /\ Grace \in Nat
    /\ Stale \in Nat /\ TTL \in Nat /\ MaxTime \in Nat

Time   == 0..MaxTime
Cached == [at : Time, savedAt : Time]
Report == [at : Time, received : Time, first : BOOLEAN]

ASSUME NoTimeAssumption == None \notin Int \cup Cached \cup Report

VARIABLES
    now,       \* the clock
    pc,        \* "collect", "apply", "process" or "rest" of a cycle, or "wait"
    began,     \* when the cycle began
    due,       \* when the ticker fires
    ticks,     \* ticks that the ticker's channel holds
    own,       \* the collector's entry (previousWGPU): when the figures were read,
               \* and when they were saved
    cache,     \* the authority's entry: when the oldest of its figures was read, and
               \* when it was saved
    hand,      \* the snapshot of the resource in this cycle: when it was read
    shown,     \* the last report Komari has: when it was read, when it came, and
               \* whether in the first cycle of a process
    missed,    \* history: since then, a fault kept a report from Komari
    lastGood   \* history: when the authority last returned a valid snapshot

memory == <<due, ticks, own, cache, hand>>
vars == <<now, pc, began, shown, missed, lastGood, memory>>

\* Every variable has its type.
TypeOK ==
    /\ now \in Time /\ began \in Time
    /\ pc \in {"collect", "apply", "process", "rest", "wait"}
    /\ due \in Int \cup {None} /\ ticks \in 0..1
    /\ own \in Cached \cup {None}
    /\ cache \in Cached \cup {None}
    /\ hand \in Time \cup {None}
    /\ shown \in Report \cup {None}
    /\ missed \in BOOLEAN
    /\ lastGood \in Time \cup {None}

\* Run starts with a cycle.
Init ==
    /\ now = 0 /\ began = 0 /\ pc = "collect"
    /\ due = None /\ ticks = 0
    /\ own = None /\ cache = None /\ hand = None
    /\ shown = None /\ missed = FALSE /\ lastGood = None

-----------------------------------------------------------------------------
(* A cycle *)

\* Figures read in this cycle.
ReadNow == {[at |-> at, savedAt |-> now] : at \in began..now}

\* The authority returned a valid snapshot of figures read in this cycle; its own
\* cache keeps them too, unless none of them is of the kind it keeps.
Sampled ==
    /\ pc = "collect" /\ pc' = "apply"
    /\ cache' \in ReadNow /\ own' \in {own, cache'}
    /\ lastGood' = now
    /\ UNCHANGED <<now, began, due, ticks, hand, shown, missed>>

\* mutant: a probe that is reused counts as made again
ReusedSaving ==
    /\ pc = "collect" /\ pc' = "apply"
    /\ own # None /\ now - own.savedAt <= Stale
    /\ own' = [at |-> own.at, savedAt |-> now]
    /\ cache' = own'
    /\ lastGood' = now
    /\ UNCHANGED <<now, began, due, ticks, hand, shown, missed>>

\* One probe failed; the collector's cache stands in for it, and its figures go into
\* the authority cache as part of a new snapshot.
Reused ==
    /\ pc = "collect" /\ pc' = "apply"
    /\ own # None /\ now - own.savedAt <= Stale
    /\ cache' = [at |-> own.at, savedAt |-> now]
    /\ lastGood' = now
    /\ UNCHANGED <<now, began, due, ticks, own, hand, shown, missed>>

\* It failed, or what it returned is invalid, though a probe may have worked.
NotSampled ==
    /\ pc = "collect" /\ pc' = "apply"
    /\ own' \in {own} \cup ReadNow
    /\ UNCHANGED <<now, began, due, ticks, cache, hand, shown, missed, lastGood>>

\* The authority has been silent for more than the grace period.
Silent == lastGood = None \/ now - lastGood > Grace

\* mutant: an entry that is used counts as saved again
ApplySaving ==
    /\ pc = "apply" /\ pc' = "process"
    /\ LET usable == cache # None /\ now - cache.savedAt <= Grace
       IN  /\ hand' = IF usable THEN cache.at ELSE None
           /\ cache' = IF usable THEN [at |-> cache.at, savedAt |-> now] ELSE cache
    /\ missed' = (missed \/ Silent)
    /\ UNCHANGED <<now, began, due, ticks, own, shown, lastGood>>

\* applyMetricAuthorities.
Apply ==
    /\ pc = "apply" /\ pc' = "process"
    /\ hand' = IF cache # None /\ now - cache.savedAt <= Grace THEN cache.at ELSE None
    /\ missed' = (missed \/ Silent)
    /\ UNCHANGED <<now, began, due, ticks, own, cache, shown, lastGood>>

\* process: the report reached Komari.
Deliver ==
    /\ pc = "process" /\ hand # None /\ pc' = "rest"
    /\ shown' = [at |-> hand, received |-> now, first |-> due = None]
    /\ missed' = FALSE
    /\ UNCHANGED <<now, began, lastGood, memory>>

\* A step of process failed.
NotDelivered ==
    /\ pc = "process" /\ hand # None /\ pc' = "rest"
    /\ missed' = TRUE
    /\ UNCHANGED <<now, began, shown, lastGood, memory>>

\* There is nothing of the resource to process.
Withheld ==
    /\ pc = "process" /\ hand = None /\ pc' = "rest"
    /\ UNCHANGED <<now, began, shown, missed, lastGood, memory>>

-----------------------------------------------------------------------------
(* Run *)

\* The other resources are processed; after the first cycle the ticker is made.
EndCycle ==
    /\ pc = "rest" /\ pc' = "wait"
    /\ due' = IF due = None THEN now + Interval ELSE due
    /\ UNCHANGED <<now, began, ticks, own, cache, hand, shown, missed, lastGood>>

\* mutant: a tick that fires while a cycle runs is lost
FireUnheld ==
    /\ now = due
    /\ ticks' = (IF pc = "wait" THEN 1 ELSE ticks) /\ due' = now + Interval
    /\ UNCHANGED <<now, pc, began, own, cache, hand, shown, missed, lastGood>>

\* A tick that finds the channel full is dropped.
Fire ==
    /\ now = due
    /\ ticks' = 1 /\ due' = now + Interval
    /\ UNCHANGED <<now, pc, began, own, cache, hand, shown, missed, lastGood>>

StartCycle ==
    /\ pc = "wait" /\ ticks = 1
    /\ pc' = "collect" /\ began' = now
    /\ ticks' = 0 /\ hand' = None
    /\ UNCHANGED <<now, due, own, cache, shown, missed, lastGood>>

\* A new process: of the old one Komari's record is left.
Restart ==
    /\ pc' = "collect" /\ began' = now
    /\ due' = None /\ ticks' = 0 /\ own' = None /\ cache' = None /\ hand' = None
    /\ missed' = TRUE
    /\ UNCHANGED <<now, shown, lastGood>>

\* Time passes while a cycle takes it and no tick is due or waited for.
Tick ==
    /\ now < MaxTime /\ now' = now + 1
    /\ IF pc = "wait" THEN ticks = 0 ELSE now < began + Cycle
    /\ now # due
    /\ UNCHANGED <<pc, began, shown, missed, lastGood, memory>>

Work == \/ Sampled \/ Reused \/ NotSampled \/ Apply
        \/ Deliver \/ NotDelivered \/ Withheld

Next == Work \/ EndCycle \/ Fire \/ StartCycle \/ Restart \/ Tick

Spec == Init /\ [][Next]_vars

-----------------------------------------------------------------------------
Larger(a, b) == IF a > b THEN a ELSE b

\* The time to the next cycle after a report that came in the first one, before
\* there was a ticker, or after any other; and to the next report.
Pause(first) == IF first THEN Interval + Cycle ELSE Larger(Interval, Cycle)
Gap(first)   == Pause(first) + Cycle

\* While requests are answered and the authority is never silent for longer than
\* its grace period, however often it fails in between and however many ticks are
\* dropped, a report follows the last one within the gap (runner.go:66-82, 293-307).
ReportedInTime ==
    shown # None /\ ~missed => now - shown.received <= Gap(shown.first)

\* Komari shows the resource online.
Online == shown # None /\ now - shown.received <= TTL

\* What Komari shows online was read in the host at most this long ago, over
\* reuse of both caches, of one's figures in the other, over restarts and reports
\* that failed (windowsssh.go:343-351, runner.go:107, 293-307; README.md:112-116).
ShownFresh == Online => now - shown.at <= TTL + Grace + Stale + 2 * Cycle

\* With enough room between the interval and the TTL, no resource goes offline
\* without a fault (README.md:46-47).
PresenceKept ==
    Interval + 2 * Cycle <= TTL => (shown # None /\ ~missed => Online)
=============================================================================
