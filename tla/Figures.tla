------------------------------ MODULE Figures ------------------------------
(***************************************************************************)
(* What the providers compute from the counters and sizes they read, and   *)
(* validateSnapshot of internal/bridge/runner.go, which decides whether a  *)
(* snapshot is delivered.  A snapshot that is refused is not reported at   *)
(* all: a provider that lets a bad figure through makes its resource go    *)
(* offline.                                                                *)
(*                                                                         *)
(* uint64 is 0..Wrap-1 and subtracts modulo Wrap; float64 is rounded down. *)
(* Names, addresses and messages are left out; "named" says that the texts *)
(* a report must have are there.                                           *)
(***************************************************************************)
EXTENDS Integers, FiniteSets

CONSTANT Wrap  \* 2^64

ASSUME WrapAssumption == Wrap \in Nat \ {0} /\ Wrap % 2 = 0

UInt  == 0..(Wrap - 1)
Max64 == Wrap \div 2 - 1

\* uint64 subtraction, and the conversion to int64.
Sub(a, b) == (a - b) % Wrap
ToInt(u)  == IF u <= Max64 THEN u ELSE u - Wrap

\* The conversion of docker.go, which saturates.
Signed(u) == IF u > Max64 THEN Max64 ELSE u

AtLeastOne(n) == IF n > 1 THEN n ELSE 1

-----------------------------------------------------------------------------
(* Counters: of the CPU, [total, idle], and of the network, [up, down] *)

\* mutant: the difference of idle times without wrap-around
CounterPercentSigned(current, previous) ==
    IF previous.total = 0 \/ current.total <= previous.total THEN 0
    ELSE LET total == current.total - previous.total
             idle  == current.idle - previous.idle
         IN  IF idle > total THEN 0 ELSE ((total - idle) * 100) \div total

\* The share of the time since the previous sample that was not idle.
CounterPercent(current, previous) ==
    IF previous.total = 0 \/ current.total <= previous.total THEN 0
    ELSE LET total == current.total - previous.total
             idle  == Sub(current.idle, previous.idle)
         IN  IF idle > total THEN 0 ELSE ((total - idle) * 100) \div total

NoTraffic == [up |-> 0, down |-> 0]

\* Traffic per second, unless a counter went back or the clock did not advance.
Traffic(current, previous, elapsed) ==
    IF elapsed <= 0 \/ current.up < previous.up \/ current.down < previous.down
    THEN NoTraffic
    ELSE [up   |-> (current.up - previous.up) \div elapsed,
          down |-> (current.down - previous.down) \div elapsed]

\* mutant: a counter that went back counts from zero, whatever the other did
RatesFromZero(current, previous, elapsed) ==
    IF elapsed <= 0 \/ previous.up = 0 THEN NoTraffic
    ELSE [up   |-> (IF current.up < previous.up THEN current.up
                    ELSE current.up - previous.up) \div elapsed,
          down |-> Sub(current.down, previous.down) \div elapsed]

\* rates of the SSH providers: a previous sample without traffic is none.
Rates(current, previous, elapsed) ==
    IF previous.up = 0 THEN NoTraffic ELSE Traffic(current, previous, elapsed)

-----------------------------------------------------------------------------
(* validateSnapshot of an online snapshot *)

ValidUsage(u) == 0 <= u.total /\ 0 <= u.used /\ u.used <= u.total
ValidMount(m) == m.named /\ ValidUsage(m)
ValidGPU(g)   == ValidUsage(g) /\ g.utilization \in 0..100

\* s.memory, s.swapTotal and s.diskTotal are of the basic info; s.counts are
\* uptime, processes, connections, and the rates and totals of the network.
Deliverable(s) ==
    /\ 0 <= s.cores /\ 0 <= s.physical
    /\ s.cpu \in 0..100
    /\ 0 < s.memory /\ s.memory = s.ram.total /\ ValidUsage(s.ram)
    /\ s.swapTotal = s.swap.total /\ ValidUsage(s.swap)
    /\ s.diskTotal = s.disk.total /\ ValidUsage(s.disk)
    /\ \A m \in s.mounts : ValidMount(m)
    /\ \A n \in s.counts : 0 <= n
    /\ \A g \in s.gpus : ValidGPU(g)

-----------------------------------------------------------------------------
(* Linux hosts and WSL distributions *)

ClampUsed(total, free) == IF free < 0 \/ free > total THEN 0 ELSE total - free

\* Sizes of /proc/meminfo are in KiB, uint64 until they are multiplied.
Bytes(kib) == ToInt((kib * 1024) % Wrap)

Memory(total, free) == [total |-> Bytes(total), used |-> ClampUsed(Bytes(total), Bytes(free))]

\* validateRemoteReport of linuxssh, and validateWSLData of windowsssh.
ValidData(raw, requireGPU) ==
    /\ raw.named /\ raw.cores > 0 /\ raw.counters.total > 0
    /\ raw.mem.total > 0 /\ raw.mem.available <= raw.mem.total
    /\ raw.disk.total > 0 /\ ValidUsage(raw.disk)
    /\ raw.uptime > 0
    /\ requireGPU => raw.gpuOK

\* What Collect of linuxssh and wslSnapshot of windowsssh make of a report.
DataFigures(raw, previous, elapsed) ==
    LET rate == Rates(raw.net, previous.net, elapsed)
    IN  [cores |-> raw.cores, physical |-> raw.physical,
         cpu |-> CounterPercent(raw.counters, previous.counters),
         memory |-> Bytes(raw.mem.total),
         ram |-> Memory(raw.mem.total, raw.mem.available),
         swapTotal |-> Bytes(raw.mem.swap),
         swap |-> Memory(raw.mem.swap, raw.mem.swapFree),
         diskTotal |-> raw.disk.total, disk |-> raw.disk, mounts |-> raw.mounts,
         counts |-> raw.counts \cup
             {raw.uptime, rate.up, rate.down, ToInt(raw.net.up), ToInt(raw.net.down)},
         gpus |-> raw.gpus]

-----------------------------------------------------------------------------
(* Windows hosts *)

\* validateWindowsReport; sizes are int64 of the report.
ValidWindows(raw) ==
    /\ raw.named /\ raw.cores > 0
    /\ raw.mem.total > 0 /\ 0 <= raw.mem.free /\ raw.mem.free <= raw.mem.total
    /\ raw.disk.total > 0 /\ 0 <= raw.disk.free /\ raw.disk.free <= raw.disk.total
    /\ raw.uptime > 0

WindowsFigures(raw, previous, elapsed) ==
    LET rate == Rates(raw.net, previous, elapsed)
        U(size) == [total |-> size.total, used |-> ClampUsed(size.total, size.free)]
    IN  [cores |-> raw.cores, physical |-> raw.physical, cpu |-> raw.usage,
         memory |-> raw.mem.total, ram |-> U(raw.mem),
         swapTotal |-> 0, swap |-> [total |-> 0, used |-> 0],
         diskTotal |-> raw.disk.total, disk |-> U(raw.disk), mounts |-> raw.mounts,
         counts |-> raw.counts \cup
             {raw.uptime, rate.up, rate.down, ToInt(raw.net.up), ToInt(raw.net.down)},
         gpus |-> raw.gpus]

-----------------------------------------------------------------------------
(* Docker workloads *)

\* cpuSetCount of the well-formed ranges of a CPU set, [first, last].
CPUSetCount(ranges) ==
    Cardinality(UNION {r.first..r.last : r \in {q \in ranges : q.first >= 0}})

\* effectiveCPUCores: the CPU set, else the quota rounded up, else the host's
\* CPUs.  A quota is a fraction; without one it is 0.
EffectiveCores(hostCPUs, cpuset, quota) ==
    IF cpuset > 0 THEN cpuset
    ELSE IF quota.num > 0 THEN AtLeastOne((quota.num + quota.den - 1) \div quota.den)
    ELSE AtLeastOne(hostCPUs)

\* The difference of two counters, none when the later is the smaller one.
Since(current, previous) == IF previous <= current THEN current - previous ELSE 0

\* normalizedCPU: a one-shot answer may lack the earlier reading, whose counters
\* are then 0, and the share is one since the container and the host started.
NormalizedCPU(now, before, hostCPUs, cores) ==
    LET cpu    == Since(now.usage, before.usage)
        system == Since(now.system, before.system)
        share  == (cpu * hostCPUs * 100) \div (system * cores)
    IN  IF cpu = 0 \/ system = 0 \/ hostCPUs <= 0 THEN 0
        ELSE IF share > 100 THEN 100 ELSE share

\* containerMemoryUsed: the page cache is not the workload's.
ContainerMemory(mem) ==
    IF mem.usage >= mem.cache THEN mem.usage - mem.cache ELSE mem.usage

\* The memory test of snapshot in docker.go; without it, the workload is offline.
PlausibleMemory(mem) ==
    Signed(mem.limit) > 0 /\ Signed(ContainerMemory(mem)) <= Signed(mem.limit)

\* snapshot of docker.go; previous is the sample of the same identity, or none.
DockerFigures(stats, cores, previous, elapsed) ==
    LET rate  == IF previous.known THEN Traffic(stats.net, previous.net, elapsed)
                 ELSE NoTraffic
        limit == Signed(stats.mem.limit)
    IN  [cores |-> cores, physical |-> 0,
         cpu |-> NormalizedCPU(stats.now, stats.before, stats.hostCPUs, cores),
         memory |-> limit,
         ram |-> [total |-> limit, used |-> Signed(ContainerMemory(stats.mem))],
         swapTotal |-> 0, swap |-> [total |-> 0, used |-> 0],
         diskTotal |-> 0, disk |-> [total |-> 0, used |-> 0], mounts |-> {},
         counts |-> {stats.uptime, stats.pids, Signed(rate.up), Signed(rate.down),
                     Signed(stats.net.up), Signed(stats.net.down)},
         gpus |-> {}]

-----------------------------------------------------------------------------
(* Proxmox guests *)

UsedMemory(total, available) ==
    IF total <= 0 \/ available < 0 \/ available > total THEN 0 ELSE total - available

\* parseGuestMemory accepts the figures of /proc/meminfo; a guest without swap
\* lines has 0 of both.
AcceptedMemory(m) ==
    /\ m.total > 0 /\ m.available <= m.total
    /\ m.swapFree <= m.swap

\* applyGuestMemory and applyGuestDisk over what snapshot made of a list entry:
\* its CPU share in percent, sizes of disks only if they are the guest's.
GuestFigures(item, m, disk, previous, elapsed) ==
    LET rate == IF previous.known THEN Traffic(item.net, previous.net, elapsed)
                ELSE NoTraffic
    IN  [cores |-> IF item.cores < 0 THEN 0 ELSE item.cores, physical |-> 0,
         cpu |-> item.cpu,
         memory |-> m.total,
         ram |-> [total |-> m.total, used |-> UsedMemory(m.total, m.available)],
         swapTotal |-> m.swap,
         swap |-> [total |-> m.swap, used |-> UsedMemory(m.swap, m.swapFree)],
         diskTotal |-> disk.total, disk |-> [total |-> disk.total, used |-> disk.used],
         mounts |-> disk.mounts,
         counts |-> {item.uptime, rate.up, rate.down, item.net.up, item.net.down},
         gpus |-> {}]
=============================================================================
