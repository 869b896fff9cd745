------------------------------ MODULE Sampling ------------------------------
(***************************************************************************)
(* The counters of an observed machine and what a provider of linuxssh or  *)
(* windowsssh derives from two samples of them: the CPU usage and the      *)
(* network rates it shows.  The machine may restart, so that its counters  *)
(* begin at zero again, and any number of collections may fail in between. *)
(*                                                                         *)
(* One pair of counters stands for both: a tick in which the CPU is busy   *)
(* sends a byte, an idle one receives a byte.                              *)
(***************************************************************************)
EXTENDS Figures

CONSTANTS
    MaxTicks,  \* bound: ticks of a machine between restarts or samples
    None       \* nothing is shown, not even figures

ASSUME TicksAssumption == MaxTicks \in Nat /\ MaxTicks < Wrap

VARIABLES
    host,       \* counters of the machine since it started
    previous,   \* p.previousNet and p.previousCPU; zero before the first sample
    since,      \* history: what the machine did since the previous sample
    restarted,  \* history: it restarted since the previous sample
    shown       \* usage and rates of the snapshot that Collect returned

sampleVars == <<host, previous, since, restarted, shown>>

Plus(a, b) == [up |-> a.up + b.up, down |-> a.down + b.down]
Ticks(c)   == c.up + c.down
CPU(c)     == [total |-> Ticks(c), idle |-> c.down]

Counters == [up : 0..MaxTicks, down : 0..MaxTicks]
Shown    == [usage : 0..100 \cup {None}, rate : Counters]

\* The part of the type invariant that is about figures.
SampleTypeOK ==
    /\ host \in Counters /\ previous \in Counters /\ since \in Counters
    /\ restarted \in BOOLEAN
    /\ shown \in Shown \cup {None}

SampleInit ==
    /\ host = NoTraffic /\ previous = NoTraffic /\ since = NoTraffic
    /\ restarted = FALSE
    /\ shown = None

HostWorks ==
    /\ Ticks(host) < MaxTicks /\ Ticks(since) < MaxTicks
    /\ \E tick \in {[up |-> 1, down |-> 0], [up |-> 0, down |-> 1]} :
        host' = Plus(host, tick) /\ since' = Plus(since, tick)
    /\ UNCHANGED <<previous, restarted, shown>>

HostRestarts ==
    /\ host' = NoTraffic /\ restarted' = TRUE
    /\ UNCHANGED <<previous, since, shown>>

\* The sample becomes the previous one.
Remember ==
    /\ previous' = host
    /\ since' = NoTraffic /\ restarted' = FALSE
    /\ UNCHANGED host

\* elapsed is what the wall clock says, in seconds; it may have been set back.
Show(elapsed, usage) ==
    /\ shown' = [usage |-> usage, rate |-> Rates(host, previous, elapsed)]
    /\ Remember

-----------------------------------------------------------------------------
\* A figure of the snapshot that is being returned.
NewFigures == shown = None /\ shown' # None

\* A rate is never more than what the machine sent and received since the sample
\* before, whatever restarts and failed collections lie between.
RateHonest ==
    [][NewFigures =>
         shown'.rate.up <= since.up /\ shown'.rate.down <= since.down]_sampleVars

\* Usage is a percentage whatever the counters do, and that of all the time since
\* the sample before unless the machine restarted.
UsageHonest ==
    [][NewFigures /\ shown'.usage # None =>
         /\ shown'.usage \in 0..100
         /\ ~restarted /\ Ticks(previous) > 0 /\ Ticks(since) > 0 =>
                shown'.usage = (since.up * 100) \div Ticks(since)]_sampleVars
=============================================================================
