-------------------------- MODULE SSHCollect_proofs --------------------------
(***************************************************************************)
(* Theorems about what the providers compute (Figures), and about the      *)
(* collection over SSH that computes with it, for linuxssh and windowsssh  *)
(* alike.                                                                  *)
(***************************************************************************)
EXTENDS SSHCollect, TLAPS

-----------------------------------------------------------------------------
(* What the providers compute is in range, and what they accept is          *)
(* delivered.                                                               *)

\* A part of something is between no and a hundred percent of it.
LEMMA PercentInRange ==
    ASSUME NEW whole \in Nat \ {0}, NEW part \in 0..whole
    PROVE  (part * 100) \div whole \in 0..100
<1>. DEFINE q == (part * 100) \div whole
<1>1. q \in Int /\ whole * q <= part * 100 /\ part * 100 < whole * (q + 1)
  OBVIOUS
<1>2. whole * q <= whole * 100
  BY <1>1
<1>3. 0 < whole * (q + 1)
  BY <1>1
<1>. HIDE DEF q
<1>4. q <= 100
  BY <1>1, <1>2
<1>5. 0 <= q
  BY <1>1, <1>3
<1>. QED
  BY <1>1, <1>4, <1>5 DEF q

\* A difference of uint64 is one.
LEMMA SubInRange ==
    ASSUME NEW a \in Int, NEW b \in Int PROVE Sub(a, b) \in UInt
<1>1. Wrap \in Nat \ {0}
  BY WrapAssumption DEF WrapAssumption
<1>. QED
  BY <1>1 DEF Sub, UInt

\* Usage is a percentage, whatever the two samples are.
LEMMA UsageInRange ==
    ASSUME NEW c \in [total : Nat, idle : Nat], NEW p \in [total : Nat, idle : Nat]
    PROVE  CounterPercent(c, p) \in 0..100
<1>. DEFINE total == c.total - p.total
            idle  == Sub(c.idle, p.idle)
<1>1. idle \in UInt
  BY SubInRange
<1>2. CASE p.total = 0 \/ c.total <= p.total \/ idle > total
  BY <1>2 DEF CounterPercent
<1>3. CASE ~(p.total = 0 \/ c.total <= p.total \/ idle > total)
  <2>0. Wrap \in Nat \ {0}
    BY WrapAssumption DEF WrapAssumption
  <2>1. total \in Nat \ {0} /\ idle \in 0..total
    BY <1>1, <1>3, <2>0 DEF UInt
  <2>2. CounterPercent(c, p) = ((total - idle) * 100) \div total
    BY <1>3 DEF CounterPercent
  <2>. HIDE DEF total, idle
  <2>3. total - idle \in 0..total
    BY <2>1
  <2>. QED
    BY <2>1, <2>2, <2>3, PercentInRange
<1>. QED
  BY <1>2, <1>3

Pair == [up : Nat, down : Nat]

\* Neither rate exceeds what its counter says, in either direction.
LEMMA RatesBounded ==
    ASSUME NEW c \in Pair, NEW p \in Pair, NEW elapsed \in 0..1,
           NEW r, r = Rates(c, p, elapsed)
    PROVE  /\ r \in Pair
           /\ r.up = 0 \/ (p.up <= c.up /\ r.up = c.up - p.up)
           /\ r.down = 0 \/ (p.down <= c.down /\ r.down = c.down - p.down)
<1>1. CASE p.up = 0 \/ elapsed <= 0 \/ c.up < p.up \/ c.down < p.down
  BY <1>1 DEF Rates, Traffic, NoTraffic, Pair
<1>2. CASE ~(p.up = 0 \/ elapsed <= 0 \/ c.up < p.up \/ c.down < p.down)
  <2>1. r = [up |-> (c.up - p.up) \div elapsed, down |-> (c.down - p.down) \div elapsed]
    BY <1>2 DEF Rates, Traffic
  <2>2. elapsed = 1 /\ c.up - p.up \in Nat /\ c.down - p.down \in Nat
    BY <1>2 DEF Pair
  <2>3. r = [up |-> c.up - p.up, down |-> c.down - p.down]
    BY <2>1, <2>2
  <2>. QED
    BY <1>2, <2>2, <2>3 DEF Pair
<1>. QED
  BY <1>1, <1>2

-----------------------------------------------------------------------------
(* What is shown is delivered *)

\* Remote data by its Go types.
RemoteData(raw) ==
    /\ raw.cores \in Int /\ raw.uptime \in Int
    /\ raw.disk.total \in Int /\ raw.disk.used \in Int
    /\ raw.mem.total \in UInt /\ raw.mem.available \in UInt
    /\ raw.mem.swap \in UInt /\ raw.mem.swapFree \in UInt
    /\ raw.net \in [up : UInt, down : UInt]
    /\ raw.counters \in [total : UInt, idle : UInt]

\* What validateRemoteReport and validateWSLData do not look at.
Unchecked(raw) ==
    /\ 0 <= raw.physical
    /\ raw.mem.total * 1024 <= Max64 /\ raw.mem.swap * 1024 <= Max64
    /\ raw.net.up <= Max64 /\ raw.net.down <= Max64
    /\ \A m \in raw.mounts : ValidMount(m)
    /\ \A g \in raw.gpus : ValidGPU(g)
    /\ \A n \in raw.counts : n \in Nat

\* Half the numbers of 64 bits are those of int64 that are not negative.
LEMMA HalfOfWrap == Wrap \in Nat /\ Max64 \in Nat /\ Wrap = 2 * Max64 + 2
BY WrapAssumption DEF WrapAssumption, Max64

\* A size in KiB that fits is multiplied by 1024 without loss.
LEMMA BytesFit ==
    ASSUME NEW kib \in UInt, kib * 1024 <= Max64 PROVE Bytes(kib) = kib * 1024
<1>1. kib * 1024 \in Nat /\ kib * 1024 < Wrap
  BY HalfOfWrap DEF UInt
<1>. HIDE DEF Max64
<1>2. (kib * 1024) % Wrap = kib * 1024
  BY <1>1, HalfOfWrap
<1>. QED
  BY <1>2 DEF Bytes, ToInt

\* Any 64 bits are some int64.
LEMMA BytesInt == ASSUME NEW kib \in UInt PROVE Bytes(kib) \in Int
<1>1. (kib * 1024) % Wrap \in 0..(Wrap - 1) /\ Wrap \in Nat
  BY HalfOfWrap, WrapAssumption DEF WrapAssumption, UInt
<1>. QED
  BY <1>1 DEF Bytes, ToInt

\* clampUsed keeps usage within its total.
LEMMA ClampValid ==
    ASSUME NEW total \in Nat, NEW free \in Int
    PROVE  ValidUsage([total |-> total, used |-> ClampUsed(total, free)])
BY DEF ValidUsage, ClampUsed

\* Rates are never negative, whatever the clock says.
LEMMA RatesNat ==
    ASSUME NEW c \in Pair, NEW p \in Pair, NEW elapsed \in Int
    PROVE  Rates(c, p, elapsed).up \in Nat /\ Rates(c, p, elapsed).down \in Nat
<1>1. CASE p.up = 0 \/ elapsed <= 0 \/ c.up < p.up \/ c.down < p.down
  BY <1>1 DEF Rates, Traffic, NoTraffic
<1>2. CASE ~(p.up = 0 \/ elapsed <= 0 \/ c.up < p.up \/ c.down < p.down)
  <2>1. elapsed \in Nat \ {0} /\ c.up - p.up \in Nat /\ c.down - p.down \in Nat
    BY <1>2 DEF Pair
  <2>2. (c.up - p.up) \div elapsed \in Nat /\ (c.down - p.down) \div elapsed \in Nat
    BY <2>1
  <2>. QED
    BY <1>2, <2>2 DEF Rates, Traffic
<1>. QED
  BY <1>1, <1>2

\* Linux data that the provider accepts makes a snapshot the runner delivers, for
\* any previous sample and any time measured, if what the provider does not check
\* is sound.
THEOREM LinuxDeliverable ==
    ASSUME NEW raw, NEW gpu, RemoteData(raw), ValidData(raw, gpu), Unchecked(raw),
           NEW earlier, earlier.net \in [up : UInt, down : UInt],
           earlier.counters \in [total : UInt, idle : UInt],
           NEW elapsed \in Int
    PROVE  Deliverable(DataFigures(raw, earlier, elapsed))
<1>. DEFINE rate == Rates(raw.net, earlier.net, elapsed)
            f    == DataFigures(raw, earlier, elapsed)
<1>1. /\ f.cores = raw.cores /\ f.physical = raw.physical
      /\ f.cpu = CounterPercent(raw.counters, earlier.counters)
      /\ f.memory = Bytes(raw.mem.total)
      /\ f.ram = Memory(raw.mem.total, raw.mem.available)
      /\ f.swapTotal = Bytes(raw.mem.swap)
      /\ f.swap = Memory(raw.mem.swap, raw.mem.swapFree)
      /\ f.diskTotal = raw.disk.total /\ f.disk = raw.disk /\ f.mounts = raw.mounts
      /\ f.counts = raw.counts \cup
           {raw.uptime, rate.up, rate.down, ToInt(raw.net.up), ToInt(raw.net.down)}
      /\ f.gpus = raw.gpus
  BY DEF DataFigures
<1>2. f.cpu \in 0..100
  <2>1. UInt \subseteq Nat
    BY HalfOfWrap DEF UInt
  <2>2. raw.counters \in [total : Nat, idle : Nat]
    BY <2>1 DEF RemoteData
  <2>3. earlier.counters \in [total : Nat, idle : Nat]
    BY <2>1
  <2>4. CounterPercent(raw.counters, earlier.counters) \in 0..100
    BY <2>2, <2>3, UsageInRange
  <2>. QED
    BY <1>1, <2>4
<1>3. 0 < f.memory /\ f.memory = f.ram.total /\ ValidUsage(f.ram)
  <2>1. Bytes(raw.mem.total) = raw.mem.total * 1024
    BY BytesFit DEF RemoteData, Unchecked
  <2>2. raw.mem.total * 1024 \in Nat \ {0}
    BY DEF RemoteData, ValidData, UInt
  <2>3. Bytes(raw.mem.available) \in Int
    BY BytesInt DEF RemoteData
  <2>. QED
    BY <1>1, <2>1, <2>2, <2>3, ClampValid DEF Memory
<1>4. f.swapTotal = f.swap.total /\ ValidUsage(f.swap)
  <2>1. Bytes(raw.mem.swap) = raw.mem.swap * 1024
    BY BytesFit DEF RemoteData, Unchecked
  <2>2. raw.mem.swap * 1024 \in Nat
    BY DEF RemoteData, UInt
  <2>3. Bytes(raw.mem.swapFree) \in Int
    BY BytesInt DEF RemoteData
  <2>. QED
    BY <1>1, <2>1, <2>2, <2>3, ClampValid DEF Memory
<1>5. \A n \in f.counts : 0 <= n
  <2>1. raw.net \in Pair /\ earlier.net \in Pair
    BY HalfOfWrap DEF RemoteData, UInt, Pair
  <2>2. rate.up \in Nat /\ rate.down \in Nat
    BY <2>1, RatesNat
  <2>3. ToInt(raw.net.up) \in Nat /\ ToInt(raw.net.down) \in Nat
    BY <2>1 DEF Unchecked, ToInt, Pair
  <2>4. raw.uptime \in Nat
    BY DEF RemoteData, ValidData
  <2>. HIDE DEF rate
  <2>. QED
    BY <1>1, <2>2, <2>3, <2>4 DEF Unchecked
<1>6. 0 <= f.cores /\ 0 <= f.physical
  BY <1>1 DEF RemoteData, ValidData, Unchecked
<1>7. f.diskTotal = f.disk.total /\ ValidUsage(f.disk)
  BY <1>1 DEF ValidData
<1>8. (\A m \in f.mounts : ValidMount(m)) /\ (\A g \in f.gpus : ValidGPU(g))
  BY <1>1 DEF Unchecked
<1>. HIDE DEF f
<1>9. Deliverable(f)
  BY <1>2, <1>3, <1>4, <1>5, <1>6, <1>7, <1>8 DEF Deliverable
<1>. QED
  BY <1>9 DEF f

\* A Windows host's report by its Go types.
WindowsData(raw) ==
    /\ raw.cores \in Int /\ raw.uptime \in Int
    /\ raw.mem.total \in Int /\ raw.mem.free \in Int
    /\ raw.disk.total \in Int /\ raw.disk.free \in Int
    /\ raw.net \in [up : UInt, down : UInt]

\* What validateWindowsReport does not look at: more than validateRemoteReport.
UncheckedWindows(raw) ==
    /\ 0 <= raw.physical /\ raw.usage \in 0..100
    /\ raw.net.up <= Max64 /\ raw.net.down <= Max64
    /\ \A m \in raw.mounts : ValidMount(m)
    /\ \A g \in raw.gpus : ValidGPU(g)
    /\ \A n \in raw.counts : n \in Nat

\* A Windows report that the provider accepts makes a snapshot the runner delivers,
\* if what the provider does not check is sound, the usage itself among it.
THEOREM WindowsDeliverable ==
    ASSUME NEW raw, WindowsData(raw), ValidWindows(raw), UncheckedWindows(raw),
           NEW earlier \in [up : UInt, down : UInt], NEW elapsed \in Int
    PROVE  Deliverable(WindowsFigures(raw, earlier, elapsed))
<1>. DEFINE rate == Rates(raw.net, earlier, elapsed)
            U(size) == [total |-> size.total, used |-> ClampUsed(size.total, size.free)]
            f    == WindowsFigures(raw, earlier, elapsed)
<1>1. /\ f.cores = raw.cores /\ f.physical = raw.physical /\ f.cpu = raw.usage
      /\ f.memory = raw.mem.total /\ f.ram = U(raw.mem)
      /\ f.swapTotal = 0 /\ f.swap = [total |-> 0, used |-> 0]
      /\ f.diskTotal = raw.disk.total /\ f.disk = U(raw.disk) /\ f.mounts = raw.mounts
      /\ f.counts = raw.counts \cup
           {raw.uptime, rate.up, rate.down, ToInt(raw.net.up), ToInt(raw.net.down)}
      /\ f.gpus = raw.gpus
  BY DEF WindowsFigures
<1>2. 0 < f.memory /\ f.memory = f.ram.total /\ ValidUsage(f.ram)
  BY <1>1, ClampValid DEF WindowsData, ValidWindows
<1>3. f.diskTotal = f.disk.total /\ ValidUsage(f.disk)
  BY <1>1, ClampValid DEF WindowsData, ValidWindows
<1>4. f.swapTotal = f.swap.total /\ ValidUsage(f.swap)
  BY <1>1 DEF ValidUsage
<1>5. \A n \in f.counts : 0 <= n
  <2>1. raw.net \in Pair /\ earlier \in Pair
    BY HalfOfWrap DEF WindowsData, UInt, Pair
  <2>2. rate.up \in Nat /\ rate.down \in Nat
    BY <2>1, RatesNat
  <2>3. ToInt(raw.net.up) \in Nat /\ ToInt(raw.net.down) \in Nat
    BY <2>1 DEF UncheckedWindows, ToInt, Pair
  <2>4. raw.uptime \in Nat
    BY DEF WindowsData, ValidWindows
  <2>. HIDE DEF rate
  <2>. QED
    BY <1>1, <2>2, <2>3, <2>4 DEF UncheckedWindows
<1>6. 0 <= f.cores /\ 0 <= f.physical /\ f.cpu \in 0..100
  BY <1>1 DEF WindowsData, ValidWindows, UncheckedWindows
<1>7. (\A m \in f.mounts : ValidMount(m)) /\ (\A g \in f.gpus : ValidGPU(g))
  BY <1>1 DEF UncheckedWindows
<1>. HIDE DEF f
<1>8. Deliverable(f)
  BY <1>2, <1>3, <1>4, <1>5, <1>6, <1>7 DEF Deliverable
<1>. QED
  BY <1>8 DEF f

-----------------------------------------------------------------------------
(* Docker workloads *)

\* Signed is never negative.
LEMMA SignedNat == ASSUME NEW u \in UInt PROVE Signed(u) \in Nat
BY HalfOfWrap DEF Signed, UInt

\* Every workload has a CPU to be measured against.
LEMMA CoresPositive ==
    ASSUME NEW cpus \in Int, NEW cpuset \in Nat,
           NEW quota \in [num : Int, den : Nat \ {0}]
    PROVE  EffectiveCores(cpus, cpuset, quota) \in Nat \ {0}
<1>1. \A n \in Int : AtLeastOne(n) \in Nat \ {0}
  BY DEF AtLeastOne
<1>2. (quota.num + quota.den - 1) \div quota.den \in Int
  OBVIOUS
<1>. QED
  BY <1>1, <1>2 DEF EffectiveCores

\* The quotient of natural numbers is one.
LEMMA QuotientNat == ASSUME NEW a \in Nat, NEW b \in Nat \ {0} PROVE a \div b \in Nat
OBVIOUS

\* Usage of a workload is a percentage, whatever the two readings are.
LEMMA NormalizedInRange ==
    ASSUME NEW now \in [usage : UInt, system : UInt],
           NEW before \in [usage : UInt, system : UInt],
           NEW cpus \in Int, NEW cores \in Nat \ {0}
    PROVE  NormalizedCPU(now, before, cpus, cores) \in 0..100
<1>. DEFINE cpu    == Since(now.usage, before.usage)
            system == Since(now.system, before.system)
            share  == (cpu * cpus * 100) \div (system * cores)
<1>1. cpu \in Nat /\ system \in Nat
  BY HalfOfWrap DEF Since, UInt
<1>2. NormalizedCPU(now, before, cpus, cores) =
        IF cpu = 0 \/ system = 0 \/ cpus <= 0 THEN 0
        ELSE IF share > 100 THEN 100 ELSE share
  BY DEF NormalizedCPU
<1>3. ASSUME ~(cpu = 0 \/ system = 0 \/ cpus <= 0) PROVE share \in Nat
  <2>. HIDE DEF cpu, system
  <2>1. cpus \in Nat /\ system \in Nat \ {0}
    BY <1>1, <1>3
  <2>2. cpu * cpus \in Nat
    BY <1>1, <2>1
  <2>3. cpu * cpus * 100 \in Nat
    BY <2>2
  <2>4. system * cores \in Nat \ {0}
    BY <2>1
  <2>. QED
    BY <2>3, <2>4, QuotientNat
<1>. HIDE DEF cpu, system, share
<1>. QED
  BY <1>2, <1>3

\* Traffic per second is never negative.
LEMMA TrafficNat ==
    ASSUME NEW c \in Pair, NEW p \in Pair, NEW elapsed \in Int
    PROVE  Traffic(c, p, elapsed) \in Pair
<1>1. CASE elapsed <= 0 \/ c.up < p.up \/ c.down < p.down
  BY <1>1 DEF Traffic, NoTraffic, Pair
<1>2. CASE ~(elapsed <= 0 \/ c.up < p.up \/ c.down < p.down)
  <2>1. elapsed \in Nat \ {0} /\ c.up - p.up \in Nat /\ c.down - p.down \in Nat
    BY <1>2 DEF Pair
  <2>2. (c.up - p.up) \div elapsed \in Nat /\ (c.down - p.down) \div elapsed \in Nat
    BY <2>1
  <2>. QED
    BY <1>2, <2>2 DEF Traffic, Pair
<1>. QED
  BY <1>1, <1>2

\* What the Engine answers, by its Go types; the uptime is computed.
DockerData(stats) ==
    /\ stats.now \in [usage : UInt, system : UInt]
    /\ stats.before \in [usage : UInt, system : UInt]
    /\ stats.hostCPUs \in Int
    /\ stats.mem \in [limit : UInt, usage : UInt, cache : UInt]
    /\ stats.net \in [up : UInt, down : UInt]
    /\ stats.uptime \in Nat /\ stats.pids \in Int

\* Whatever counters the Engine answers, a workload that snapshot leaves online is
\* delivered: beside the count of processes nothing is left unchecked.
THEOREM DockerDeliverable ==
    ASSUME NEW stats, DockerData(stats), PlausibleMemory(stats.mem), 0 <= stats.pids,
           NEW cores \in Nat \ {0}, NEW elapsed \in Int,
           NEW earlier \in [known : BOOLEAN, net : [up : UInt, down : UInt]]
    PROVE  Deliverable(DockerFigures(stats, cores, earlier, elapsed))
<1>. DEFINE rate == IF earlier.known THEN Traffic(stats.net, earlier.net, elapsed)
                    ELSE NoTraffic
            f    == DockerFigures(stats, cores, earlier, elapsed)
<1>1. /\ f.cores = cores /\ f.physical = 0
      /\ f.cpu = NormalizedCPU(stats.now, stats.before, stats.hostCPUs, cores)
      /\ f.memory = Signed(stats.mem.limit)
      /\ f.ram = [total |-> Signed(stats.mem.limit),
                  used |-> Signed(ContainerMemory(stats.mem))]
      /\ f.swapTotal = 0 /\ f.swap = [total |-> 0, used |-> 0]
      /\ f.diskTotal = 0 /\ f.disk = [total |-> 0, used |-> 0] /\ f.mounts = {}
      /\ f.counts = {stats.uptime, stats.pids, Signed(rate.up), Signed(rate.down),
                     Signed(stats.net.up), Signed(stats.net.down)}
      /\ f.gpus = {}
  BY DEF DockerFigures
<1>2. f.cpu \in 0..100
  BY <1>1, NormalizedInRange DEF DockerData
<1>3. 0 < f.memory /\ f.memory = f.ram.total /\ ValidUsage(f.ram)
  <2>1. ContainerMemory(stats.mem) \in UInt
    BY HalfOfWrap DEF ContainerMemory, DockerData, UInt
  <2>2. Signed(ContainerMemory(stats.mem)) \in Nat /\ Signed(stats.mem.limit) \in Nat
    BY <2>1, SignedNat DEF DockerData
  <2>. QED
    BY <1>1, <2>2 DEF PlausibleMemory, ValidUsage
<1>4. f.swapTotal = f.swap.total /\ ValidUsage(f.swap) /\ f.diskTotal = f.disk.total
      /\ ValidUsage(f.disk)
  BY <1>1 DEF ValidUsage
<1>5. \A n \in f.counts : 0 <= n
  <2>1. stats.net \in Pair /\ earlier.net \in Pair
    BY HalfOfWrap DEF DockerData, UInt, Pair
  <2>2. rate \in Pair
    <3>1. NoTraffic \in Pair
      BY DEF NoTraffic, Pair
    <3>2. Traffic(stats.net, earlier.net, elapsed) \in Pair
      BY <2>1, TrafficNat
    <3>. QED
      BY <3>1, <3>2
  <2>. HIDE DEF rate
  <2>3. \A n \in Nat : Signed(n) \in Nat
    BY HalfOfWrap DEF Signed
  <2>4. /\ Signed(rate.up) \in Nat /\ Signed(rate.down) \in Nat
        /\ Signed(stats.net.up) \in Nat /\ Signed(stats.net.down) \in Nat
    BY <2>1, <2>2, <2>3 DEF Pair
  <2>. QED
    BY <1>1, <2>4 DEF DockerData
<1>6. 0 <= f.cores /\ 0 <= f.physical
  BY <1>1
<1>7. (\A m \in f.mounts : ValidMount(m)) /\ (\A g \in f.gpus : ValidGPU(g))
  BY <1>1
<1>. HIDE DEF f
<1>8. Deliverable(f)
  BY <1>2, <1>3, <1>4, <1>5, <1>6, <1>7 DEF Deliverable
<1>. QED
  BY <1>8 DEF f

-----------------------------------------------------------------------------
(* Proxmox guests *)

\* What PVE lists of a guest, as far as the provider passes it on unchecked.
ListedGuest(item) ==
    /\ item.cores \in Int /\ item.cpu \in 0..100 /\ item.uptime \in Nat
    /\ item.net \in Pair

\* What summarizeGuestFilesystems returns of file systems whose mountpoints do not
\* consist of blanks: only those within their size, and their sums.
GuestDisk(disk) ==
    /\ disk.total \in Nat /\ disk.used \in Nat /\ disk.used <= disk.total
    /\ \A m \in disk.mounts : ValidMount(m)

\* A guest whose memory command printed something the provider accepts is
\* delivered, with or without file systems, if PVE's share of a CPU is one.  The
\* figures are KiB times 1024 in int64, so any of them may have become negative:
\* the provider refuses such a total, an available memory is then not used, but a
\* swap that overflowed passes the provider, and has to be excluded here.
THEOREM GuestDeliverable ==
    ASSUME NEW item, ListedGuest(item), NEW disk, GuestDisk(disk),
           NEW m \in [total : Int, available : Int, swap : Int, swapFree : Int],
           AcceptedMemory(m), m.swap >= 0, NEW elapsed \in Int,
           NEW earlier \in [known : BOOLEAN, net : Pair]
    PROVE  Deliverable(GuestFigures(item, m, disk, earlier, elapsed))
<1>. DEFINE rate == IF earlier.known THEN Traffic(item.net, earlier.net, elapsed)
                    ELSE NoTraffic
            f    == GuestFigures(item, m, disk, earlier, elapsed)
<1>1. /\ f.cores = (IF item.cores < 0 THEN 0 ELSE item.cores) /\ f.physical = 0
      /\ f.cpu = item.cpu /\ f.memory = m.total
      /\ f.ram = [total |-> m.total, used |-> UsedMemory(m.total, m.available)]
      /\ f.swapTotal = m.swap
      /\ f.swap = [total |-> m.swap, used |-> UsedMemory(m.swap, m.swapFree)]
      /\ f.diskTotal = disk.total /\ f.disk = [total |-> disk.total, used |-> disk.used]
      /\ f.mounts = disk.mounts
      /\ f.counts = {item.uptime, rate.up, rate.down, item.net.up, item.net.down}
      /\ f.gpus = {}
  BY DEF GuestFigures
<1>2. rate \in Pair
  <2>1. NoTraffic \in Pair
    BY DEF NoTraffic, Pair
  <2>2. Traffic(item.net, earlier.net, elapsed) \in Pair
    BY TrafficNat DEF ListedGuest
  <2>. QED
    BY <2>1, <2>2
<1>. HIDE DEF rate
<1>3. \A n \in f.counts : 0 <= n
  BY <1>1, <1>2 DEF ListedGuest, Pair
<1>4. 0 < f.memory /\ f.memory = f.ram.total /\ ValidUsage(f.ram)
  BY <1>1 DEF AcceptedMemory, UsedMemory, ValidUsage
<1>5. f.swapTotal = f.swap.total /\ ValidUsage(f.swap)
  BY <1>1 DEF AcceptedMemory, UsedMemory, ValidUsage
<1>6. f.diskTotal = f.disk.total /\ ValidUsage(f.disk)
  BY <1>1 DEF GuestDisk, ValidUsage
<1>7. 0 <= f.cores /\ 0 <= f.physical /\ f.cpu \in 0..100
  BY <1>1 DEF ListedGuest
<1>8. (\A n \in f.mounts : ValidMount(n)) /\ (\A g \in f.gpus : ValidGPU(g))
  BY <1>1 DEF GuestDisk
<1>. HIDE DEF f
<1>9. Deliverable(f)
  BY <1>3, <1>4, <1>5, <1>6, <1>7, <1>8 DEF Deliverable
<1>. QED
  BY <1>9 DEF f

-----------------------------------------------------------------------------
(* The connection of SSHCollect and its samples                              *)

\* A deadline is set only until run returns.
DeadlineInRun == armed => pc \in {"session", "command", "returning"}

\* What is inductive of the connection: a deadline that could kill an idle
\* connection is never left behind, and a connection on which something failed is
\* never kept.
ConnInv == DeadlineInRun /\ ~spoiled

\* The types but those of the Boolean variables, which are theirs whatever they
\* are set to.
Typed ==
    /\ kind \in Kind
    /\ pc \in {"idle", "client", "dial", "handshake", "session", "command",
               "returning", "output"}
    /\ conn \in {"none", "up", "silent", "dead"}
    /\ attempt \in 0..Retry
    /\ store \in Entry \cup {None}

\* The flags are Boolean.
Flags ==
    /\ armed \in BOOLEAN /\ cancelled \in BOOLEAN /\ spoiled \in BOOLEAN
    /\ lost \in BOOLEAN /\ failed \in BOOLEAN

\* Every step keeps the types.
LEMMA TypedKept == ASSUME Typed, [Next]_vars PROVE Typed'
<1>. USE DEF Typed, Retry, connVars, CloseLocked
<1>a. Unavailable \in Entry
  <2>1. \A b \in BOOLEAN : [available |-> b, age |-> 0] \in Entry
    BY DEF Entry
  <2>2. FALSE \in BOOLEAN
    OBVIOUS
  <2>. QED
    BY <2>1, <2>2, Zenon DEF Unavailable
<1>b. ASSUME NEW timedOut, RunFails(timedOut) PROVE Typed'
  BY <1>a, <1>b DEF RunFails, Rerun, MarkUnavailable
<1>1. CASE Environment
  BY <1>1 DEF Environment, PeerChanges, DeadlineExpires, Cancel, MachineRuns
<1>2. CASE Collect
  BY <1>2 DEF Collect, Older, Entry
<1>3. CASE Keepalive \/ Dial \/ Handshake \/ NewSession \/ CommandEnds \/ RunReturns
  BY <1>3 DEF Keepalive, Dial, Handshake, NewSession, CommandEnds, RunReturns
<1>4. CASE DialFails \/ HandshakeFails \/ NewSessionFails \/ CommandFails
  BY <1>4, <1>b DEF DialFails, HandshakeFails, NewSessionFails, CommandFails
<1>5. CASE Undecodable \/ InvalidReport
  BY <1>5, <1>a DEF Undecodable, InvalidReport, MarkUnavailable
<1>6. CASE Evaluate
  BY <1>6 DEF Evaluate, Entry
<1>7. CASE UNCHANGED vars
  BY <1>7 DEF vars
<1>. QED
  BY <1>1, <1>2, <1>3, <1>4, <1>5, <1>6, <1>7 DEF Next, Run

\* Every step keeps the flags Boolean.
LEMMA FlagsKept == ASSUME Flags, [Next]_vars PROVE Flags'
<1>. USE DEF Flags, connVars, CloseLocked, NoteFailure, SetDeadline, ClearDeadline
<1>a. ASSUME NEW timedOut, RunFails(timedOut) PROVE Flags'
  BY <1>a DEF RunFails
<1>1. CASE Environment
  BY <1>1 DEF Environment, PeerChanges, DeadlineExpires, Cancel, MachineRuns
<1>2. CASE Collect
  BY <1>2 DEF Collect
<1>3. CASE Keepalive \/ Dial \/ Handshake \/ NewSession \/ CommandEnds \/ RunReturns
  BY <1>3 DEF Keepalive, Dial, Handshake, NewSession, CommandEnds, RunReturns
<1>4. CASE DialFails \/ HandshakeFails \/ NewSessionFails \/ CommandFails
  BY <1>4, <1>a DEF DialFails, HandshakeFails, NewSessionFails, CommandFails
<1>5. CASE Undecodable \/ InvalidReport \/ Evaluate
  BY <1>5 DEF Undecodable, InvalidReport, Evaluate
<1>6. CASE UNCHANGED vars
  BY <1>6 DEF vars
<1>. QED
  BY <1>1, <1>2, <1>3, <1>4, <1>5, <1>6 DEF Next, Run

-----------------------------------------------------------------------------
(* Usage and rates *)

Bounded(c) == c \in Pair /\ Ticks(c) <= MaxTicks

\* What is known of the counters: unless it restarted, the machine counted on
\* from the previous sample; if it did, it did all it counts since that sample.
Counted ==
    /\ ~restarted => host.up = previous.up + since.up /\ host.down = previous.down + since.down
    /\ restarted => host.up <= since.up /\ host.down <= since.down

SampleInv ==
    /\ Bounded(host) /\ Bounded(previous) /\ Bounded(since)
    /\ Counted
    /\ restarted \in BOOLEAN /\ shown \in Shown \cup {None}

\* A bounded pair is one of counters.
LEMMA BoundedCounters == ASSUME NEW c, Bounded(c) PROVE c \in Counters
BY TicksAssumption DEF TicksAssumption, Bounded, Ticks, Pair, Counters

\* The rates between two samples are at most what the machine did in between.
LEMMA RatesCounted ==
    ASSUME SampleInv, NEW elapsed \in 0..1
    PROVE  /\ Rates(host, previous, elapsed) \in Counters
           /\ Rates(host, previous, elapsed).up <= since.up
           /\ Rates(host, previous, elapsed).down <= since.down
<1>. DEFINE r == Rates(host, previous, elapsed)
<1>1. host \in Pair /\ previous \in Pair /\ since \in Pair /\ since \in Counters
  BY BoundedCounters DEF SampleInv, Bounded
<1>2. /\ r \in Pair
      /\ r.up = 0 \/ (previous.up <= host.up /\ r.up = host.up - previous.up)
      /\ r.down = 0 \/ (previous.down <= host.down /\ r.down = host.down - previous.down)
  BY <1>1, RatesBounded
<1>. HIDE DEF r
<1>3. r.up <= since.up /\ r.down <= since.down
  <2>1. CASE restarted
    <3>1. host.up <= since.up /\ host.down <= since.down
      BY <2>1 DEF SampleInv, Counted
    <3>. QED
      BY <1>1, <1>2, <3>1 DEF Pair
  <2>2. CASE ~restarted
    <3>1. host.up = previous.up + since.up /\ host.down = previous.down + since.down
      BY <2>2 DEF SampleInv, Counted
    <3>. QED
      BY <1>1, <1>2, <3>1 DEF Pair
  <2>. QED
    BY <2>1, <2>2
<1>4. r \in Counters
  BY <1>1, <1>2, <1>3, TicksAssumption DEF TicksAssumption, Pair, Counters
<1>. QED
  BY <1>3, <1>4 DEF r

\* The CPU counters of a pair are counters.
LEMMA CPUCounters ==
    ASSUME NEW c \in Pair PROVE CPU(c) \in [total : Nat, idle : Nat]
BY DEF CPU, Ticks, Pair

\* The machine's steps keep what is known of its counters.
LEMMA MachineKept ==
    ASSUME SampleInv, HostWorks \/ HostRestarts PROVE SampleInv'
<1>1. CASE HostWorks
  <2>1. PICK tick \in {[up |-> 1, down |-> 0], [up |-> 0, down |-> 1]} :
          host' = Plus(host, tick) /\ since' = Plus(since, tick)
    BY <1>1 DEF HostWorks
  <2>2. Bounded(host') /\ Bounded(since') /\ Bounded(previous')
    BY <1>1, <2>1, TicksAssumption
    DEF TicksAssumption, HostWorks, SampleInv, Bounded, Ticks, Pair, Plus
  <2>3. CASE restarted
    <3>1. host.up <= since.up /\ host.down <= since.down
      BY <2>3 DEF SampleInv, Counted
    <3>2. host'.up <= since'.up /\ host'.down <= since'.down
      BY <2>1, <3>1 DEF SampleInv, Bounded, Pair, Plus
    <3>3. restarted' = restarted /\ shown' = shown
      BY <1>1 DEF HostWorks
    <3>. QED
      BY <2>2, <2>3, <3>2, <3>3 DEF SampleInv, Counted
  <2>4. CASE ~restarted
    <3>1. host.up = previous.up + since.up /\ host.down = previous.down + since.down
      BY <2>4 DEF SampleInv, Counted
    <3>2. previous' = previous /\ restarted' = restarted /\ shown' = shown
      BY <1>1 DEF HostWorks
    <3>3. host'.up = previous'.up + since'.up /\ host'.down = previous'.down + since'.down
      BY <2>1, <3>1, <3>2 DEF SampleInv, Bounded, Pair, Plus
    <3>. QED
      BY <2>2, <2>4, <3>2, <3>3 DEF SampleInv, Counted
  <2>. QED
    BY <2>3, <2>4
<1>2. CASE HostRestarts
  <2>1. restarted' = TRUE /\ previous' = previous /\ since' = since /\ shown' = shown
    BY <1>2 DEF HostRestarts
  <2>2. host' = NoTraffic
    BY <1>2 DEF HostRestarts
  <2>3. Bounded(NoTraffic)
    BY TicksAssumption DEF TicksAssumption, Bounded, NoTraffic, Ticks, Pair
  <2>4. NoTraffic.up <= since.up /\ NoTraffic.down <= since.down
    BY DEF SampleInv, Bounded, NoTraffic, Pair
  <2>. QED
    BY <2>1, <2>2, <2>3, <2>4 DEF SampleInv, Counted
<1>. QED
  BY <1>1, <1>2

\* Remembering a sample starts the account anew.
LEMMA RememberKept ==
    ASSUME SampleInv, Remember, shown' \in Shown \cup {None} PROVE SampleInv'
<1>1. previous' = host /\ host' = host /\ since' = NoTraffic /\ restarted' = FALSE
  BY DEF Remember
<1>2. Bounded(NoTraffic)
  BY TicksAssumption DEF TicksAssumption, Bounded, NoTraffic, Ticks, Pair
<1>3. host.up = host.up + NoTraffic.up /\ host.down = host.down + NoTraffic.down
  BY DEF SampleInv, Bounded, NoTraffic, Pair
<1>. QED
  BY <1>1, <1>2, <1>3 DEF SampleInv, Counted

\* What is shown has its type.
LEMMA ShowKept ==
    ASSUME SampleInv, NEW elapsed \in 0..1, Show(elapsed, Usage)
    PROVE  SampleInv' /\ shown'.usage = Usage /\ shown'.rate = Rates(host, previous, elapsed)
<1>1. shown' = [usage |-> Usage, rate |-> Rates(host, previous, elapsed)]
  BY DEF Show
<1>2. Rates(host, previous, elapsed) \in Counters
  BY RatesCounted
<1>3. Usage \in 0..100 \cup {None}
  <2>1. CPU(host) \in [total : Nat, idle : Nat] /\ CPU(previous) \in [total : Nat, idle : Nat]
    BY CPUCounters DEF SampleInv, Bounded
  <2>. QED
    BY <2>1, UsageInRange DEF Usage
<1>4. shown' \in Shown
  BY <1>1, <1>2, <1>3 DEF Shown
<1>5. SampleInv'
  BY <1>4, RememberKept DEF Show
<1>. QED
  BY <1>1, <1>5

\* Every step keeps what is known of the samples.
LEMMA SampleInvKept == ASSUME SampleInv, [Next]_vars PROVE SampleInv'
<1>a. ASSUME UNCHANGED sampleVars PROVE SampleInv'
  BY <1>a DEF SampleInv, Counted, sampleVars
<1>b. ASSUME NEW timedOut, RunFails(timedOut) PROVE SampleInv'
  BY <1>a, <1>b DEF RunFails
<1>1. CASE Environment
  BY <1>1, <1>a, MachineKept
  DEF Environment, PeerChanges, DeadlineExpires, Cancel, MachineRuns
<1>2. CASE Collect
  BY <1>2 DEF Collect, SampleInv, Counted
<1>3. CASE Keepalive \/ Dial \/ Handshake \/ NewSession \/ CommandEnds \/ RunReturns
  BY <1>3, <1>a DEF Keepalive, Dial, Handshake, NewSession, CommandEnds, RunReturns
<1>4. CASE DialFails \/ HandshakeFails \/ NewSessionFails \/ CommandFails
  BY <1>4, <1>b DEF DialFails, HandshakeFails, NewSessionFails, CommandFails
<1>5. CASE Undecodable
  BY <1>5, <1>a DEF Undecodable
<1>6. CASE InvalidReport
  <2>1. CASE UNCHANGED sampleVars
    BY <2>1, <1>a
  <2>2. CASE Remember /\ UNCHANGED shown
    BY <2>2, RememberKept DEF SampleInv
  <2>. QED
    BY <1>6, <2>1, <2>2 DEF InvalidReport
<1>7. CASE Evaluate
  BY <1>7, <1>a, ShowKept DEF Evaluate, Sample
<1>8. CASE UNCHANGED vars
  BY <1>8, <1>a DEF vars
<1>. QED
  BY <1>1, <1>2, <1>3, <1>4, <1>5, <1>6, <1>7, <1>8 DEF Next, Run

\* It holds in every state.
LEMMA SampleInvariant == Spec => []SampleInv
<1>1. Init => SampleInv
  <2>1. Bounded(NoTraffic)
    BY TicksAssumption DEF TicksAssumption, Bounded, NoTraffic, Ticks, Pair
  <2>2. NoTraffic.up = NoTraffic.up + NoTraffic.up
        /\ NoTraffic.down = NoTraffic.down + NoTraffic.down
    BY DEF NoTraffic
  <2>. QED
    BY <2>1, <2>2 DEF Init, SampleInit, SampleInv, Counted
<1>2. SampleInv /\ [Next]_vars => SampleInv'
  BY SampleInvKept
<1>. QED
  BY <1>1, <1>2, PTL DEF Spec

\* Only Evaluate shows new figures.
LEMMA FiguresAreSampled ==
    ASSUME [Next]_vars, NewFigures
    PROVE  \E elapsed \in 0..1 : Show(elapsed, Usage)
<1>. USE DEF NewFigures
<1>a. ~UNCHANGED sampleVars
  BY DEF sampleVars
<1>b. ASSUME NEW timedOut, RunFails(timedOut) PROVE FALSE
  BY <1>a, <1>b DEF RunFails
<1>1. ~Environment
  BY <1>a DEF Environment, PeerChanges, DeadlineExpires, Cancel, MachineRuns,
              HostWorks, HostRestarts
<1>2. ~Collect
  BY DEF Collect
<1>3. ~(Keepalive \/ Dial \/ Handshake \/ NewSession \/ CommandEnds \/ RunReturns)
  BY <1>a DEF Keepalive, Dial, Handshake, NewSession, CommandEnds, RunReturns
<1>4. ~(DialFails \/ HandshakeFails \/ NewSessionFails \/ CommandFails)
  BY <1>b DEF DialFails, HandshakeFails, NewSessionFails, CommandFails
<1>5. ~Undecodable /\ ~InvalidReport
  BY <1>a DEF Undecodable, InvalidReport
<1>6. ~UNCHANGED vars
  BY <1>a DEF vars
<1>7. Evaluate
  BY <1>1, <1>2, <1>3, <1>4, <1>5, <1>6 DEF Next, Run
<1>. QED
  BY <1>7, <1>a DEF Evaluate, Sample

\* No rate shows more than the machine did since the sample before.
THEOREM RatesAreHonest == Spec => RateHonest
<1>1. SampleInv /\ [Next]_vars =>
        [NewFigures => shown'.rate.up <= since.up /\ shown'.rate.down <= since.down]_sampleVars
  <2>. SUFFICES ASSUME SampleInv, [Next]_vars, NewFigures
                PROVE  shown'.rate.up <= since.up /\ shown'.rate.down <= since.down
    OBVIOUS
  <2>1. PICK elapsed \in 0..1 : Show(elapsed, Usage)
    BY FiguresAreSampled
  <2>2. shown'.rate = Rates(host, previous, elapsed)
    BY <2>1, ShowKept
  <2>. QED
    BY <2>2, RatesCounted
<1>. QED
  BY <1>1, SampleInvariant, PTL DEF Spec, RateHonest

\* Between samples of a machine that did not restart, usage is the busy share.
LEMMA UsageCounted ==
    ASSUME SampleInv, ~restarted, Ticks(previous) > 0, Ticks(since) > 0
    PROVE  CounterPercent(CPU(host), CPU(previous)) = (since.up * 100) \div Ticks(since)
<1>. DEFINE total == CPU(host).total - CPU(previous).total
            idle  == Sub(CPU(host).idle, CPU(previous).idle)
<1>0. since \in Pair /\ previous \in Pair /\ host \in Pair
  BY DEF SampleInv, Bounded
<1>1. host.up = previous.up + since.up /\ host.down = previous.down + since.down
  BY DEF SampleInv, Counted
<1>2. CPU(previous).total = Ticks(previous) /\ CPU(host).total = Ticks(host)
  BY DEF CPU
<1>3. total = Ticks(since) /\ Ticks(host) > Ticks(previous)
  BY <1>0, <1>1, <1>2 DEF Ticks, Pair
<1>4. since.down < Wrap /\ Wrap \in Nat \ {0}
  BY <1>0, TicksAssumption, WrapAssumption
  DEF TicksAssumption, WrapAssumption, SampleInv, Bounded, Ticks, Pair
<1>5. idle = since.down % Wrap
  BY <1>0, <1>1 DEF Sub, CPU, Pair
<1>6. idle = since.down
  BY <1>0, <1>4, <1>5 DEF Pair
<1>7. idle <= total /\ total - idle = since.up
  BY <1>0, <1>3, <1>6 DEF Ticks, Pair
<1>8. ~(CPU(previous).total = 0 \/ CPU(host).total <= CPU(previous).total \/ idle > total)
  BY <1>0, <1>2, <1>3, <1>6 DEF Ticks, Pair
<1>9. CounterPercent(CPU(host), CPU(previous)) = ((total - idle) * 100) \div total
  BY <1>8 DEF CounterPercent
<1>. HIDE DEF total, idle
<1>. QED
  BY <1>3, <1>7, <1>9

\* Usage is a percentage, and that of the time since the sample before unless the
\* machine restarted.
THEOREM UsageIsHonest == Spec => UsageHonest
<1>1. ASSUME SampleInv, [Next]_vars, NewFigures, shown'.usage # None
      PROVE  /\ shown'.usage \in 0..100
             /\ ~restarted /\ Ticks(previous) > 0 /\ Ticks(since) > 0 =>
                    shown'.usage = (since.up * 100) \div Ticks(since)
  <2>1. PICK elapsed \in 0..1 : Show(elapsed, Usage)
    BY <1>1, FiguresAreSampled
  <2>2. shown'.usage = Usage
    BY <1>1, <2>1, ShowKept
  <2>3. Usage = CounterPercent(CPU(host), CPU(previous))
    BY <1>1, <2>2 DEF Usage
  <2>4. CPU(host) \in [total : Nat, idle : Nat] /\ CPU(previous) \in [total : Nat, idle : Nat]
    BY <1>1, CPUCounters DEF SampleInv, Bounded
  <2>5. shown'.usage \in 0..100
    BY <2>2, <2>3, <2>4, UsageInRange
  <2>. QED
    BY <1>1, <2>2, <2>3, <2>5, UsageCounted
<1>2. SampleInv /\ [Next]_vars =>
        [NewFigures /\ shown'.usage # None =>
           /\ shown'.usage \in 0..100
           /\ ~restarted /\ Ticks(previous) > 0 /\ Ticks(since) > 0 =>
                  shown'.usage = (since.up * 100) \div Ticks(since)]_sampleVars
  BY <1>1
<1>. QED
  BY <1>2, SampleInvariant, PTL DEF Spec, UsageHonest

\* Every variable has its type in every state.
THEOREM TypeCorrect == Spec => []TypeOK
<1>1. Init => Typed
  BY DEF Init, Typed, Retry
<1>2. Init => Flags
  BY DEF Init, Flags
<1>3. Typed /\ Flags /\ SampleTypeOK <=> TypeOK
  BY DEF Typed, Flags, TypeOK
<1>4. SampleInv => SampleTypeOK
  BY BoundedCounters DEF SampleInv, SampleTypeOK
<1>. QED
  BY <1>1, <1>2, <1>3, <1>4, TypedKept, FlagsKept, SampleInvariant, PTL DEF Spec

\* A failed run leaves neither a connection nor a deadline.
LEMMA FailureCleans ==
    ASSUME NEW timedOut, RunFails(timedOut)
    PROVE  conn' = "none" /\ armed' = FALSE /\ spoiled' = FALSE
BY DEF RunFails, CloseLocked, NoteFailure

\* The connection invariant holds in every state.
LEMMA ConnInvariant == Spec => []ConnInv
<1>1. Init => ConnInv
  BY DEF Init, ConnInv, DeadlineInRun
<1>2. ConnInv /\ [Next]_vars => ConnInv'
  <2>. SUFFICES ASSUME ConnInv, [Next]_vars PROVE ConnInv'
    OBVIOUS
  <2>. USE DEF ConnInv, DeadlineInRun, FreshAfterFailure, connVars,
               CloseLocked, NoteFailure, SetDeadline, ClearDeadline
  <2>1. CASE Environment
    BY <2>1 DEF Environment, PeerChanges, DeadlineExpires, Cancel, MachineRuns
  <2>2. CASE Collect
    BY <2>2 DEF Collect
  <2>3. CASE Keepalive
    BY <2>3 DEF Keepalive
  <2>4. CASE Dial \/ Handshake \/ NewSession \/ CommandEnds \/ RunReturns
    BY <2>4 DEF Dial, Handshake, NewSession, CommandEnds, RunReturns
  <2>5. CASE DialFails \/ HandshakeFails \/ NewSessionFails \/ CommandFails
    BY <2>5, FailureCleans
    DEF DialFails, HandshakeFails, NewSessionFails, CommandFails
  <2>6. CASE Undecodable \/ InvalidReport \/ Evaluate
    BY <2>6 DEF Undecodable, InvalidReport, Evaluate
  <2>7. CASE UNCHANGED vars
    BY <2>7 DEF vars
  <2>. QED
    BY <2>1, <2>2, <2>3, <2>4, <2>5, <2>6, <2>7 DEF Next, Run
<1>. QED
  BY <1>1, <1>2, PTL DEF Spec

\* No operation follows a failed one on the same connection.
THEOREM NothingAfterFailure == Spec => []FreshAfterFailure
<1>1. ConnInv => FreshAfterFailure
  BY DEF ConnInv, FreshAfterFailure
<1>. QED
  BY <1>1, ConnInvariant, PTL

\* Once run has returned, the connection it keeps outlives the deadline of that
\* run: nothing but the peer or the network ends it (the deferred reset of run).
THEOREM ConnectionKept == Spec => HealthyKept
<1>1. ConnInv /\ [Next]_vars =>
        [(pc \in {"output", "idle", "client"} /\ conn # "dead" /\ conn' = "dead")
            => lost']_vars
  <2>. SUFFICES ASSUME ConnInv, Next,
                       pc \in {"output", "idle", "client"}, conn # "dead", conn' = "dead"
                PROVE  lost'
    OBVIOUS
  <2>. USE DEF connVars, CloseLocked
  <2>1. ~DeadlineExpires
    BY DEF DeadlineExpires, ConnInv, DeadlineInRun
  <2>2. CASE PeerChanges
    BY <2>2 DEF PeerChanges
  <2>3. ~Cancel /\ ~MachineRuns /\ ~Collect
    BY DEF Cancel, MachineRuns, Collect
  <2>4. ~Keepalive
    BY DEF Keepalive
  <2>5. ~(Dial \/ Handshake \/ NewSession \/ CommandEnds \/ RunReturns)
    BY DEF Dial, Handshake, NewSession, CommandEnds, RunReturns
  <2>6. ~(DialFails \/ HandshakeFails \/ NewSessionFails \/ CommandFails)
    BY FailureCleans DEF DialFails, HandshakeFails, NewSessionFails, CommandFails
  <2>7. ~(Undecodable \/ InvalidReport \/ Evaluate)
    BY DEF Undecodable, InvalidReport, Evaluate
  <2>. QED
    BY <2>1, <2>2, <2>3, <2>4, <2>5, <2>6, <2>7 DEF Next, Run, Environment
<1>. QED
  BY <1>1, ConnInvariant, PTL DEF Spec, HealthyKept

-----------------------------------------------------------------------------
(* A collection comes to an end. *)

\* While a session is opened, while the command runs and until run returns, the
\* deadline is set.
DeadlineSet == pc \in {"session", "command", "returning"} => armed

\* Whenever the bridge waits for a session or for the command, it does so with a
\* deadline on the connection, and no run leaves one behind: however the peer
\* behaves, no wait of run is unbounded and no later collection inherits its
\* deadline (run of both providers: SetDeadline and the deferred reset).
THEOREM DeadlineExact == Spec => [](armed <=> pc \in {"session", "command", "returning"})
<1>1. Init => DeadlineSet
  BY DEF Init, DeadlineSet
<1>2. DeadlineSet /\ [Next]_vars => DeadlineSet'
  <2>. SUFFICES ASSUME DeadlineSet, [Next]_vars PROVE DeadlineSet'
    OBVIOUS
  <2>. USE DEF DeadlineSet, connVars, SetDeadline
  <2>a. ASSUME NEW timedOut, RunFails(timedOut) PROVE DeadlineSet'
    BY <2>a DEF RunFails
  <2>1. CASE Environment
    BY <2>1 DEF Environment, PeerChanges, DeadlineExpires, Cancel, MachineRuns
  <2>2. CASE Collect
    BY <2>2 DEF Collect
  <2>3. CASE Keepalive \/ Dial \/ Handshake \/ NewSession \/ CommandEnds \/ RunReturns
    BY <2>3 DEF Keepalive, Dial, Handshake, NewSession, CommandEnds, RunReturns
  <2>4. CASE DialFails \/ HandshakeFails \/ NewSessionFails \/ CommandFails
    BY <2>4, <2>a DEF DialFails, HandshakeFails, NewSessionFails, CommandFails
  <2>5. CASE Undecodable \/ InvalidReport \/ Evaluate
    BY <2>5 DEF Undecodable, InvalidReport, Evaluate
  <2>6. CASE UNCHANGED vars
    BY <2>6 DEF vars
  <2>. QED
    BY <2>1, <2>2, <2>3, <2>4, <2>5, <2>6 DEF Next, Run
<1>3. Init => Flags
  BY DEF Init, Flags
<1>4. ConnInv /\ DeadlineSet /\ Flags => (armed <=> pc \in {"session", "command", "returning"})
  BY DEF ConnInv, DeadlineInRun, DeadlineSet, Flags
<1>. QED
  BY <1>1, <1>2, <1>3, <1>4, FlagsKept, ConnInvariant, PTL DEF Spec

\* The operations a Collect still has ahead, those of its reruns included.
Ahead ==
    CASE pc = "idle"      -> 0
      [] pc = "output"    -> 1
      [] pc = "returning" -> 2 + 7 * (Retry - attempt)
      [] pc = "command"   -> 3 + 7 * (Retry - attempt)
      [] pc = "session"   -> 4 + 7 * (Retry - attempt)
      [] pc = "handshake" -> 5 + 7 * (Retry - attempt)
      [] pc = "dial"      -> 6 + 7 * (Retry - attempt)
      [] OTHER            -> 7 + 7 * (Retry - attempt)

LEMMA AheadBounded == ASSUME Typed PROVE Ahead \in 0..14 /\ Retry \in 0..1
<1>1. Retry \in 0..1
  BY DEF Retry
<1>2. Retry - attempt \in 0..1
  BY <1>1 DEF Typed
<1>. QED
  BY <1>1, <1>2 DEF Ahead

\* A failed run is one rerun less, or the end.
LEMMA FailureLowers ==
    ASSUME Typed, pc \in {"dial", "handshake", "session", "command", "returning"},
           NEW timedOut, RunFails(timedOut)
    PROVE  Ahead' < Ahead /\ Ahead' <= Ahead
<1>1. /\ \/ pc' = "client" /\ attempt' = attempt + 1 /\ attempt < Retry
         \/ pc' = "idle"
      /\ Retry' = Retry
  BY DEF RunFails, Rerun, Retry
<1>2. Retry \in 0..1 /\ attempt \in 0..Retry
  BY AheadBounded DEF Typed
<1>. QED
  BY <1>1, <1>2 DEF Ahead

\* An operation that works out is behind for good.
LEMMA OperationLowers ==
    ASSUME Typed,
           \/ Keepalive \/ Dial \/ Handshake \/ NewSession \/ CommandEnds \/ RunReturns
           \/ Undecodable \/ InvalidReport \/ Evaluate
    PROVE  Ahead' < Ahead /\ Ahead' <= Ahead
<1>1. /\ \/ pc = "client" /\ pc' \in {"session", "dial"}
         \/ pc = "dial" /\ pc' = "handshake"
         \/ pc = "handshake" /\ pc' = "session"
         \/ pc = "session" /\ pc' = "command"
         \/ pc = "command" /\ pc' = "returning"
         \/ pc = "returning" /\ pc' = "output"
         \/ pc = "output" /\ pc' = "idle"
      /\ attempt' = attempt /\ Retry' = Retry
  BY DEF Keepalive, Dial, Handshake, NewSession, CommandEnds, RunReturns, Undecodable,
         InvalidReport, Evaluate, Retry
<1>2. Retry - attempt \in 0..1 /\ Retry' - attempt' = Retry - attempt
  <2>1. Retry \in 0..1 /\ attempt \in 0..Retry
    BY AheadBounded DEF Typed
  <2>. QED
    BY <1>1, <2>1
<1>3. CASE pc \in {"client", "dial", "handshake"}
  BY <1>1, <1>2, <1>3 DEF Ahead
<1>4. CASE pc \in {"session", "command", "returning", "output"}
  BY <1>1, <1>2, <1>4 DEF Ahead
<1>. QED
  BY <1>1, <1>3, <1>4

\* A Collect is at most fourteen operations, its rerun included: each of them, whether
\* it works or fails and whatever the peer does in between, brings it closer to its
\* end, and neither the peer, a deadline, a cancellation nor the observed machine
\* sets it back.
THEOREM CollectIsShort ==
    Spec => /\ [](Ahead \in 0..14)
            /\ [][/\ Run \/ Undecodable \/ InvalidReport \/ Evaluate => Ahead' < Ahead
                  /\ pc # "idle" => Ahead' <= Ahead]_vars
<1>1. Typed => Ahead \in 0..14
  BY AheadBounded
<1>2. Typed /\ [Next]_vars =>
        [/\ Run \/ Undecodable \/ InvalidReport \/ Evaluate => Ahead' < Ahead
         /\ pc # "idle" => Ahead' <= Ahead]_vars
  <2>. SUFFICES ASSUME Typed, Next
                PROVE  /\ Run \/ Undecodable \/ InvalidReport \/ Evaluate => Ahead' < Ahead
                       /\ pc # "idle" => Ahead' <= Ahead
    OBVIOUS
  <2>1. DialFails \/ HandshakeFails \/ NewSessionFails \/ CommandFails =>
        Ahead' < Ahead /\ Ahead' <= Ahead
    BY FailureLowers DEF DialFails, HandshakeFails, NewSessionFails, CommandFails
  <2>2. Run \/ Undecodable \/ InvalidReport \/ Evaluate =>
        Ahead' < Ahead /\ Ahead' <= Ahead
    BY <2>1, OperationLowers DEF Run
  <2>3. Ahead \in 0..14
    BY AheadBounded
  <2>4. Environment => Ahead' = Ahead
    BY DEF Environment, PeerChanges, DeadlineExpires, Cancel, MachineRuns, Ahead, Retry
  <2>5. Collect => pc = "idle"
    BY DEF Collect
  <2>. QED
    BY <2>2, <2>3, <2>4, <2>5 DEF Next
<1>3. Init => Typed
  BY DEF Init, Typed, Retry
<1>. QED
  BY <1>1, <1>2, <1>3, TypedKept, PTL DEF Spec

-----------------------------------------------------------------------------
(* What the Slurm store shows. *)

\* The kind of a provider is one of Kind, and only kinds that feed Slurm have an
\* entry in the store.
StoreInv == kind \in Kind /\ (store # None => FeedsSlurm)

\* Every step keeps StoreInv.
LEMMA StoreInvKept == ASSUME StoreInv, [Next]_vars PROVE StoreInv'
<1>. USE DEF StoreInv, FeedsSlurm, connVars
<1>a. ASSUME NEW timedOut, RunFails(timedOut) PROVE StoreInv'
  BY <1>a DEF RunFails, MarkUnavailable
<1>1. CASE Environment
  BY <1>1 DEF Environment, PeerChanges, DeadlineExpires, Cancel, MachineRuns
<1>2. CASE Collect
  BY <1>2 DEF Collect, Older
<1>3. CASE Keepalive \/ Dial \/ Handshake \/ NewSession \/ CommandEnds \/ RunReturns
  BY <1>3 DEF Keepalive, Dial, Handshake, NewSession, CommandEnds, RunReturns
<1>4. CASE DialFails \/ HandshakeFails \/ NewSessionFails \/ CommandFails
  BY <1>4, <1>a DEF DialFails, HandshakeFails, NewSessionFails, CommandFails
<1>5. CASE Undecodable \/ InvalidReport \/ Evaluate
  BY <1>5 DEF Undecodable, InvalidReport, Evaluate, MarkUnavailable
<1>6. CASE UNCHANGED vars
  BY <1>6 DEF vars
<1>. QED
  BY <1>1, <1>2, <1>3, <1>4, <1>5, <1>6 DEF Next, Run

\* What the store shows is current, and not available after a failure.
SlurmInv == StoreInv /\ QueueIsCurrent /\ FailureShown

\* Without linux_ssh, every step keeps the Slurm invariant: no provider both
\* validates a host report and feeds Slurm.
LEMMA SlurmInvKept ==
    ASSUME "linux_ssh" \notin Kind, SlurmInv, [Next]_vars PROVE SlurmInv'
<1>. USE DEF SlurmInv, QueueIsCurrent, FailureShown, connVars
<1>k. StoreInv' /\ kind' = kind /\ (ReportsHost => store = None)
  <2>1. StoreInv'
    BY StoreInvKept
  <2>2. ReportsHost => store = None
    BY DEF StoreInv, ReportsHost, FeedsSlurm
  <2>3. kind' = kind
    BY DEF Next, vars, Run, Environment, PeerChanges, DeadlineExpires, Cancel, MachineRuns,
           Collect, Keepalive, Dial, DialFails, Handshake, HandshakeFails, NewSession,
           NewSessionFails, CommandEnds, CommandFails, RunReturns, RunFails, Undecodable,
           InvalidReport, Evaluate
  <2>. QED
    BY <2>1, <2>2, <2>3
<1>u. ~Unavailable.available
  BY DEF Unavailable
<1>s. FeedsSlurm' = FeedsSlurm /\ (store # None => FeedsSlurm)
  BY <1>k DEF FeedsSlurm, StoreInv
<1>a. ASSUME NEW timedOut, RunFails(timedOut) PROVE SlurmInv'
  BY <1>k, <1>u, <1>s, <1>a DEF RunFails, MarkUnavailable
<1>1. CASE Environment
  BY <1>k, <1>s, <1>1 DEF Environment, PeerChanges, DeadlineExpires, Cancel, MachineRuns
<1>2. CASE Collect
  <2>1. store # None =>
          /\ store'.available = store.available
          /\ store.age = 0 => store'.age = 1
    BY <1>2 DEF Collect, Older
  <2>2. store' # None => store # None
    BY <1>2 DEF Collect, Older
  <2>3. pc = "idle" /\ pc' = "client"
    BY <1>2 DEF Collect
  <2>. QED
    BY <1>k, <2>1, <2>2, <2>3
<1>3. CASE Keepalive \/ Dial \/ Handshake \/ NewSession \/ CommandEnds \/ RunReturns
  BY <1>k, <1>s, <1>3 DEF Keepalive, Dial, Handshake, NewSession, CommandEnds, RunReturns
<1>4. CASE DialFails \/ HandshakeFails \/ NewSessionFails \/ CommandFails
  BY <1>4, <1>a DEF DialFails, HandshakeFails, NewSessionFails, CommandFails
<1>5. CASE Undecodable
  BY <1>k, <1>u, <1>s, <1>5 DEF Undecodable, MarkUnavailable
<1>6. CASE InvalidReport
  BY <1>k, <1>6 DEF InvalidReport
<1>7. CASE Evaluate
  <2>1. PICK a \in BOOLEAN :
          /\ failed' = ~a
          /\ store' = IF FeedsSlurm THEN [available |-> a, age |-> 0] ELSE store
    BY <1>7 DEF Evaluate
  <2>2. CASE FeedsSlurm
    <3>1. store'.age = 0 /\ store'.available = a
      BY <2>1, <2>2
    <3>. QED
      BY <1>k, <2>1, <3>1
  <2>3. CASE ~FeedsSlurm
    BY <1>k, <1>s, <2>1, <2>3
  <2>. QED
    BY <2>2, <2>3
<1>8. CASE UNCHANGED vars
  BY <1>k, <1>s, <1>8 DEF vars
<1>. QED
  BY <1>1, <1>2, <1>3, <1>4, <1>5, <1>6, <1>7, <1>8 DEF Next, Run

\* The Slurm invariant holds in every state.
LEMMA SlurmInvariant == ASSUME "linux_ssh" \notin Kind PROVE Spec => []SlurmInv
<1>1. Init => SlurmInv
  BY DEF Init, SlurmInv, StoreInv, QueueIsCurrent, FailureShown
<1>2. SlurmInv /\ [Next]_vars => SlurmInv'
  BY SlurmInvKept
<1>. QED
  BY <1>1, <1>2, PTL DEF Spec

\* But for linux_ssh, no provider leaves queue state of an earlier collection
\* looking current.
THEOREM SlurmCurrent == ASSUME "linux_ssh" \notin Kind PROVE Spec => []QueueIsCurrent
<1>1. SlurmInv => QueueIsCurrent
  BY DEF SlurmInv
<1>. QED
  BY <1>1, SlurmInvariant, PTL

\* But for linux_ssh, a failed SSH or Slurm command is shown as unavailable.
THEOREM SlurmFailureShown == ASSUME "linux_ssh" \notin Kind PROVE Spec => []FailureShown
<1>1. SlurmInv => FailureShown
  BY DEF SlurmInv
<1>. QED
  BY <1>1, SlurmInvariant, PTL
=============================================================================
