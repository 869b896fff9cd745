--------------------------- MODULE Presence_proofs ---------------------------
(* Theorems about Presence, for every interval, cycle time, presence TTL and *)
(* grace period of either cache.                                             *)
EXTENDS Presence, TLAPS

\* Every step keeps the types.
LEMMA TypeKept == ASSUME TypeOK, [Next]_vars PROVE TypeOK'
<1>. USE PresenceAssumption DEF PresenceAssumption, TypeOK, memory
<1>1. CASE Sampled \/ Reused \/ NotSampled
  <2>1. ReadNow \subseteq Cached
    BY DEF ReadNow, Cached, Time
  <2>. QED
    BY <1>1, <2>1 DEF Sampled, Reused, NotSampled, Cached
<1>2. CASE Withheld
  BY <1>2 DEF Withheld
<1>3. CASE Apply
  <2>1. hand' \in Time \cup {None}
    BY <1>3 DEF Apply, Cached
  <2>2. missed' \in BOOLEAN
    BY <1>3, Zenon DEF Apply
  <2>. QED
    BY <1>3, <2>1, <2>2 DEF Apply
<1>4. CASE Deliver
  <2>1. hand \in Time
    BY <1>4 DEF Deliver
  <2>2. \A b \in BOOLEAN : [at |-> hand, received |-> now, first |-> b] \in Report
    BY <2>1 DEF Report
  <2>3. (due = None) \in BOOLEAN
    OBVIOUS
  <2>4. shown' \in Report
    BY <1>4, <2>2, <2>3, Zenon DEF Deliver
  <2>. QED
    BY <1>4, <2>4 DEF Deliver
<1>5. CASE NotDelivered
  BY <1>5 DEF NotDelivered
<1>6. CASE EndCycle
  BY <1>6 DEF EndCycle, Time
<1>7. CASE Fire
  BY <1>7 DEF Fire, Time
<1>8. CASE StartCycle
  BY <1>8 DEF StartCycle
<1>9. CASE Restart
  BY <1>9 DEF Restart
<1>10. CASE Tick
  BY <1>10 DEF Tick, Time
<1>11. CASE UNCHANGED vars
  BY <1>11 DEF vars
<1>. QED
  BY <1>1, <1>2, <1>3, <1>4, <1>5, <1>6, <1>7, <1>8, <1>9, <1>10, <1>11 DEF Next, Work

\* The first state is typed.
LEMMA InitTyped == ASSUME Init PROVE TypeOK
<1>1. now \in Time /\ began \in Time
  BY PresenceAssumption DEF PresenceAssumption, Init, Time
<1>2. missed \in BOOLEAN
  BY DEF Init
<1>. QED
  BY <1>1, <1>2 DEF Init, TypeOK

\* Every variable has its type in every state.
THEOREM TypeCorrect == Spec => []TypeOK
<1>1. Init => TypeOK
  BY InitTyped
<1>. QED
  BY <1>1, TypeKept, PTL DEF Spec

\* The clock, a cycle and the ticker: a cycle takes at most Cycle, and a tick not
\* yet there comes within an interval of the cycle's start.
Clock ==
    /\ began <= now
    /\ pc # "wait" => now <= began + Cycle
    /\ due # None => now <= due /\ due <= now + Interval
    /\ due = None => ticks = 0 /\ pc # "wait"
    /\ pc # "wait" /\ due # None /\ ticks = 0 => due <= began + Interval

\* The caches, the snapshot at hand and the report shown are not too old: what one
\* cache adds is there in all that come after it.
Ages ==
    /\ own # None => own.savedAt <= own.at + Cycle
    /\ cache # None =>
         /\ lastGood = cache.savedAt
         /\ cache.savedAt <= cache.at + Stale + Cycle
    /\ pc = "process" /\ hand # None =>
         cache # None /\ began <= hand + Grace + Stale + Cycle
    /\ shown # None => shown.received <= now
    /\ shown # None => shown.received <= shown.at + Grace + Stale + 2 * Cycle

Unbroken == shown # None /\ missed = FALSE

\* When the cycle begins that brings the next report.
NextCycle == shown.received + Pause(shown.first)

\* How far the next report has come.
Timely ==
    Unbroken =>
      /\ cache # None
      /\ pc \in {"collect", "apply", "process"} => began <= NextCycle
      /\ pc = "process" => hand # None
      /\ pc = "rest" => began <= shown.received /\ shown.first = (due = None)
      /\ pc = "wait" => IF ticks = 0 THEN due <= NextCycle ELSE now <= NextCycle

PresenceInv == TypeOK /\ Clock /\ Ages /\ Timely

\* Every step keeps the clock's part.
LEMMA ClockKept == ASSUME TypeOK, Clock, [Next]_vars PROVE Clock'
<1>. USE PresenceAssumption, NoTimeAssumption
     DEF PresenceAssumption, NoTimeAssumption, TypeOK, Clock, memory, Time
<1>1. CASE Work
  BY <1>1 DEF Work, Sampled, Reused, NotSampled, Apply, Deliver, NotDelivered, Withheld
<1>2. CASE EndCycle
  BY <1>2 DEF EndCycle
<1>3. CASE Fire
  BY <1>3 DEF Fire
<1>4. CASE StartCycle
  BY <1>4 DEF StartCycle
<1>5. CASE Restart
  BY <1>5 DEF Restart
<1>6. CASE Tick
  BY <1>6 DEF Tick
<1>7. CASE UNCHANGED vars
  BY <1>7 DEF vars
<1>. QED
  BY <1>1, <1>2, <1>3, <1>4, <1>5, <1>6, <1>7 DEF Next

\* What is read in a cycle is at most a cycle old when it is saved.
LEMMA ReadNowAge ==
    ASSUME TypeOK, Clock, pc = "collect", NEW entry \in ReadNow
    PROVE  entry.savedAt = now /\ entry.savedAt <= entry.at + Cycle /\ entry.at \in Nat
BY PresenceAssumption DEF PresenceAssumption, TypeOK, Clock, ReadNow, Time

\* Every step keeps what is known of ages.
LEMMA AgesKept == ASSUME TypeOK, Clock, Ages, [Next]_vars PROVE Ages'
<1>. USE PresenceAssumption, NoTimeAssumption
     DEF PresenceAssumption, NoTimeAssumption, TypeOK, Ages, memory, Time
<1>1. CASE Sampled
  <2>1. pc = "collect" /\ cache' \in ReadNow /\ own' \in {own, cache'}
    BY <1>1 DEF Sampled
  <2>2. cache'.savedAt = now /\ cache'.savedAt <= cache'.at + Cycle /\ cache'.at \in Nat
    BY <2>1, ReadNowAge
  <2>3. own' # None => own'.savedAt <= own'.at + Cycle
    BY <2>1, <2>2
  <2>. QED
    BY <1>1, <2>2, <2>3 DEF Sampled
<1>9. CASE Reused
  <2>1. cache'.at = own.at /\ cache'.savedAt = now /\ own' = own
    BY <1>9 DEF Reused
  <2>2. own.savedAt <= own.at + Cycle /\ now <= own.savedAt + Stale
        /\ own.savedAt \in Nat /\ own.at \in Nat
    BY <1>9 DEF Reused, Cached
  <2>3. now <= own.at + Stale + Cycle
    BY <2>2
  <2>. QED
    BY <1>9, <2>1, <2>3 DEF Reused
<1>2. CASE Withheld \/ NotDelivered
  BY <1>2 DEF Withheld, NotDelivered
<1>10. CASE NotSampled
  <2>1. pc = "collect" /\ own' \in {own} \cup ReadNow
    BY <1>10 DEF NotSampled
  <2>2. own' # None => own'.savedAt <= own'.at + Cycle
    BY <2>1, ReadNowAge
  <2>. QED
    BY <1>10, <2>2 DEF NotSampled
<1>3. CASE Apply
  <2>1. cache' = cache /\ shown' = shown /\ lastGood' = lastGood /\ now' = now /\ began' = began
        /\ own' = own
    BY <1>3 DEF Apply
  <2>2. hand' # None => cache # None /\ hand' = cache.at /\ now - cache.savedAt <= Grace
    BY <1>3 DEF Apply
  <2>3. hand' # None => cache # None /\ began <= hand' + Grace + Stale + Cycle
    BY <2>2 DEF Clock, Cached
  <2>. QED
    BY <1>3, <2>1, <2>3
<1>4. CASE Deliver
  <2>1. shown'.at = hand /\ shown'.received = now
    BY <1>4 DEF Deliver
  <2>2. now <= hand + Grace + Stale + 2 * Cycle
    BY <1>4 DEF Deliver, Clock
  <2>. QED
    BY <1>4, <2>1, <2>2 DEF Deliver
<1>5. CASE EndCycle \/ Fire \/ StartCycle
  BY <1>5 DEF EndCycle, Fire, StartCycle
<1>6. CASE Restart
  BY <1>6 DEF Restart
<1>7. CASE Tick
  BY <1>7 DEF Tick, Report
<1>8. CASE UNCHANGED vars
  BY <1>8 DEF vars
<1>. QED
  BY <1>1, <1>2, <1>3, <1>4, <1>5, <1>6, <1>7, <1>8, <1>9, <1>10 DEF Next, Work

\* A pause is at least an interval and a cycle.
LEMMA PauseBounds ==
    ASSUME NEW first
    PROVE  Pause(first) \in Nat /\ Interval <= Pause(first) /\ Cycle <= Pause(first)
BY PresenceAssumption DEF PresenceAssumption, Pause, Larger

\* Every step keeps the next report in time.
LEMMA TimelyKept == ASSUME PresenceInv, [Next]_vars PROVE Timely'
<1>. USE PresenceAssumption, NoTimeAssumption
     DEF PresenceAssumption, NoTimeAssumption, PresenceInv, TypeOK, Timely, Unbroken,
         memory, Time
<1>0. shown # None => /\ shown.received \in Nat
                      /\ Interval <= Pause(shown.first) /\ Pause(shown.first) \in Nat
                      /\ Cycle <= Pause(shown.first)
  BY PauseBounds DEF Report
<1>1. CASE Sampled \/ Reused
  <2>1. cache' # None
    BY <1>1 DEF Sampled, Reused, ReadNow, Cached
  <2>. QED
    BY <1>1, <2>1 DEF Sampled, Reused, NextCycle
<1>2. CASE NotSampled
  BY <1>2 DEF NotSampled, NextCycle
<1>3. CASE Apply
  <2>. SUFFICES ASSUME Unbroken' PROVE Timely'
    OBVIOUS
  <2>1. Unbroken /\ ~Silent
    BY <1>3 DEF Apply
  <2>2. hand' # None
    BY <1>3, <2>1 DEF Apply, Silent, Ages, Cached
  <2>. QED
    BY <1>3, <2>1, <2>2 DEF Apply, NextCycle
<1>4. CASE Deliver
  <2>1. cache' # None /\ pc' = "rest"
    BY <1>4 DEF Deliver, Ages
  <2>2. shown'.received = now /\ shown'.first = (due = None)
    BY <1>4 DEF Deliver
  <2>3. began' = began /\ began <= now /\ due' = due
    BY <1>4 DEF Deliver, Clock
  <2>. QED
    BY <2>1, <2>2, <2>3
<1>5. CASE NotDelivered \/ Restart
  BY <1>5 DEF NotDelivered, Restart
<1>6. CASE Withheld
  BY <1>6 DEF Withheld
<1>7. CASE EndCycle
  <2>. SUFFICES ASSUME Unbroken PROVE IF ticks = 0 THEN due' <= NextCycle ELSE now <= NextCycle
    BY <1>7 DEF EndCycle, NextCycle
  <2>1. pc = "rest" /\ began <= shown.received /\ now <= began + Cycle
    BY <1>7 DEF EndCycle, Clock
  <2>2. CASE due = None
    <3>1. shown.first = TRUE
      BY <1>7, <2>2 DEF EndCycle
    <3>2. NextCycle = shown.received + (Interval + Cycle)
      BY <3>1 DEF NextCycle, Pause
    <3>3. due' = now + Interval /\ ticks = 0
      BY <1>7, <2>2 DEF EndCycle, Clock
    <3>. QED
      BY <1>0, <2>1, <3>2, <3>3
  <2>3. CASE due # None
    <3>1. due' = due /\ (ticks = 0 => due <= began + Interval)
      BY <1>7, <2>3 DEF EndCycle, Clock
    <3>. QED
      BY <1>0, <2>1, <3>1 DEF NextCycle
  <2>. QED
    BY <2>2, <2>3
<1>8. CASE Fire
  <2>. SUFFICES ASSUME Unbroken PROVE Timely'
    BY <1>8 DEF Fire
  <2>1. due # None /\ due' # None
    BY <1>8 DEF Fire
  <2>2. NextCycle' = NextCycle
    BY <1>8 DEF Fire, NextCycle
  <2>3. pc = "wait" => now <= NextCycle
    BY <1>8 DEF Fire
  <2>. QED
    BY <1>8, <2>1, <2>2, <2>3 DEF Fire
<1>9. CASE StartCycle
  BY <1>9 DEF StartCycle, NextCycle
<1>10. CASE Tick
  BY <1>10 DEF Tick, NextCycle
<1>11. CASE UNCHANGED vars
  BY <1>11 DEF vars, NextCycle
<1>. QED
  BY <1>1, <1>2, <1>3, <1>4, <1>5, <1>6, <1>7, <1>8, <1>9, <1>10, <1>11 DEF Next, Work

\* The invariant holds in every state.
LEMMA PresenceInvariant == Spec => []PresenceInv
<1>1. Init => PresenceInv
  <2>. SUFFICES ASSUME Init PROVE PresenceInv
    OBVIOUS
  <2>1. TypeOK
    BY InitTyped
  <2>2. Clock
    BY PresenceAssumption DEF PresenceAssumption, Init, Clock
  <2>3. Ages /\ Timely
    BY DEF Init, Ages, Timely, Unbroken
  <2>. QED
    BY <2>1, <2>2, <2>3 DEF PresenceInv
<1>2. PresenceInv /\ [Next]_vars => PresenceInv'
  BY TypeKept, ClockKept, AgesKept, TimelyKept DEF PresenceInv
<1>. QED
  BY <1>1, <1>2, PTL DEF Spec

\* What the invariant says of the time since the last report.
LEMMA InTime == ASSUME PresenceInv PROVE ReportedInTime
<1>. SUFFICES ASSUME Unbroken PROVE now - shown.received <= Gap(shown.first)
  BY DEF ReportedInTime, Unbroken, PresenceInv, TypeOK
<1>1. /\ shown.received \in Nat /\ Pause(shown.first) \in Nat
      /\ now \in Nat /\ began \in Nat /\ Cycle \in Nat
  BY PauseBounds, PresenceAssumption
  DEF PresenceAssumption, PresenceInv, TypeOK, Unbroken, Report, Time
<1>2. CASE pc \in {"collect", "apply", "process"}
  BY <1>1, <1>2 DEF PresenceInv, Clock, Timely, NextCycle, Gap
<1>3. CASE pc = "rest"
  BY <1>1, <1>3 DEF PresenceInv, Clock, Timely, Gap
<1>4. CASE pc = "wait"
  <2>1. due # None
    BY <1>4 DEF PresenceInv, Clock
  <2>2. now <= NextCycle
    BY <1>1, <1>4, <2>1 DEF PresenceInv, TypeOK, Clock, Timely, NextCycle
  <2>. QED
    BY <1>1, <2>2 DEF NextCycle, Gap
<1>. QED
  BY <1>2, <1>3, <1>4 DEF PresenceInv, TypeOK

\* Reports follow each other within the gap while nothing else fails than
\* collections, for less than the grace period.
THEOREM ReportsInTime == Spec => []ReportedInTime
<1>. QED
  BY PresenceInvariant, InTime, PTL

\* What is shown online is at most this old.
THEOREM ShownIsFresh == Spec => []ShownFresh
<1>1. PresenceInv => ShownFresh
  <2>. SUFFICES ASSUME PresenceInv, Online PROVE now - shown.at <= TTL + Grace + Stale + 2 * Cycle
    BY DEF ShownFresh
  <2>1. shown.at \in Nat /\ shown.received \in Nat /\ now \in Nat
    BY PresenceAssumption DEF PresenceAssumption, PresenceInv, TypeOK, Online, Report, Time
  <2>2. shown.received <= shown.at + Grace + Stale + 2 * Cycle /\ now - shown.received <= TTL
    BY DEF PresenceInv, Ages, Online
  <2>. QED
    BY <2>1, <2>2, PresenceAssumption DEF PresenceAssumption
<1>. QED
  BY <1>1, PresenceInvariant, PTL

\* An interval with two cycles of room to the TTL keeps a resource online.
THEOREM PresenceIsKept == Spec => []PresenceKept
<1>1. PresenceInv => PresenceKept
  <2>. SUFFICES ASSUME PresenceInv, Interval + 2 * Cycle <= TTL, shown # None, ~missed
                PROVE  now - shown.received <= TTL
    BY DEF PresenceKept, Online
  <2>1. now - shown.received <= Gap(shown.first)
    BY InTime DEF ReportedInTime
  <2>2. Gap(shown.first) <= Interval + 2 * Cycle /\ Gap(shown.first) \in Nat
    BY PresenceAssumption DEF PresenceAssumption, Gap, Pause, Larger
  <2>3. now \in Nat /\ shown.received \in Nat
    BY PresenceAssumption DEF PresenceAssumption, PresenceInv, TypeOK, Report, Time
  <2>. QED
    BY <2>1, <2>2, <2>3, PresenceAssumption DEF PresenceAssumption
<1>. QED
  BY <1>1, PresenceInvariant, PTL
=============================================================================
