------------------------------ MODULE VRAMMonitor ------------------------------
(***************************************************************************)
(* What the router sees of the VRAM that is there: the memory the backends *)
(* of the vendors report (router/gpu_backends), the samples VRAMMonitor    *)
(* takes of it (router/vram_monitor.py), the budget the startup makes of   *)
(* them (router/lifecycle.py), and what is told about them (GET            *)
(* /admin/vram and /health).                                               *)
(*                                                                         *)
(* Memory is in GB, rounded down.  What a tool or a file of the driver     *)
(* says is given: None where there is no such file, it cannot be read or   *)
(* has no number.  A query that fails is an empty sequence of GPUs.        *)
(***************************************************************************)
EXTENDS Integers, SequencesExt

None == -1

OrZero(x) == IF x = None THEN 0 ELSE x

NotBelowZero(x) == IF x < 0 THEN 0 ELSE x

GPU(total, used, free) == [total |-> total, used |-> used, free |-> free]

-------------------------------------------------------------------------------
(* The backends                                                            *)

\* A line of nvidia-smi without its three numbers is skipped.
NVIDIA(lines) == SelectSeq(lines, LAMBDA g : None \notin {g.total, g.used, g.free})

\* A GPU in use to the last is taken for one whose use is not known, and so for free.
RocmGPU(entry) ==
    GPU(entry.total, OrZero(entry.used),
        IF entry.used \in {None, entry.total} THEN entry.total ELSE entry.total - entry.used)

QueryRocm(entries) ==
    LET known == SelectSeq(entries, LAMBDA e : e.total > 0)
    IN  [i \in DOMAIN known |-> RocmGPU(known[i])]

\* Less VRAM of its own makes a GPU an APU, which shares the memory of the system (GTT).
VRAMCutoff == 4

\* _query_single_device: the memory the user has set stands for that of each device.
AMDDevice(device, unified) ==
    LET whole(total, used) == GPU(total, used, total - used)
        used == IF device.used > 0 THEN device.used ELSE OrZero(device.misses)
    IN  IF unified # None THEN whole(unified, 0)
        ELSE IF OrZero(device.vram) < VRAMCutoff /\ device.gtt > 0
             THEN whole(device.gtt, OrZero(device.gttUsed))
        ELSE whole(OrZero(device.vram), used)

QuerySysfs(devices, unified) ==
    LET known == SelectSeq(devices, LAMBDA d : d.vram # None \/ d.gtt # None)
    IN  [i \in DOMAIN known |-> AMDDevice(known[i], unified)]

\* rocm-smi is believed if there is no APU among its GPUs.
AMD(entries, devices, unified) ==
    LET gpus == QueryRocm(entries)
        apus == {i \in DOMAIN gpus : gpus[i].total < VRAMCutoff}
    IN  IF unified = None /\ gpus # <<>> /\ apus = {} THEN gpus
                                                     ELSE QuerySysfs(devices, unified)

\* Cards of Intel: with the xe driver, or with memory of their own.
Dedicated(card) == card.xe \/ card.lmem > 0

XeTotal(card) == IF card.tile # None THEN card.tile ELSE card.fdinfo

IntelKnown(card) == Dedicated(card) /\ ((card.xe /\ XeTotal(card) > 0) \/ card.lmem # None)

IntelCard(card) ==
    LET total == IF card.xe /\ XeTotal(card) > 0 THEN XeTotal(card) ELSE card.lmem
        used == IF card.xe /\ XeTotal(card) > 0 THEN OrZero(card.tileUsed)
                                                ELSE OrZero(card.lmemUsed)
    IN  GPU(total, used, NotBelowZero(total - used))

\* The cards that intel_gpu_top lists, or else all of them.
Intel(cards) ==
    LET all == SelectSeq(cards, IntelKnown)
        listed == SelectSeq(all, LAMBDA c : c.listed)
        known == IF listed # <<>> THEN listed ELSE all
    IN  [i \in DOMAIN known |-> IntelCard(known[i])]

\* A share, in percent, of the memory of the system; what is used is not measured.
Apple(ram, share, estimated) ==
    LET total == (ram * share) \div 100
    IN  <<GPU(total, estimated, NotBelowZero(total - estimated))>>

\* GPUBackendManager: the GPUs of all vendors; those of one that fails are missing.
AllMemoryInfo(answers) == FlattenSeq(answers)

-------------------------------------------------------------------------------
(* VRAMMonitor                                                             *)

SumOf(gpus, field) == FoldLeft(LAMBDA sum, g : sum + g[field], 0, gpus)

\* Without GPUs the configured memory counts as free.
Sample(gpus, configured, loaded) ==
    LET total == SumOf(gpus, "total")
    IN  IF gpus = <<>>
        THEN [total |-> OrZero(configured), used |-> 0, free |-> OrZero(configured),
              percent |-> 0, models |-> {}]
        ELSE [total |-> total, used |-> SumOf(gpus, "used"), free |-> SumOf(gpus, "free"),
              percent |-> IF total > 0 THEN (100 * SumOf(gpus, "used")) \div total ELSE 0,
              models |-> loaded]

\* total_vram_gb is that of the first sample, if it is not configured.
TotalVRAM(configured, gpus) ==
    IF configured = None /\ gpus # <<>> THEN SumOf(gpus, "total") ELSE configured

\* The last samples are kept.
Keep(samples, sample, atMost) ==
    IF Len(samples) < atMost THEN Append(samples, sample) ELSE Append(Tail(samples), sample)

\* startup_event: the configured budget, or 90% of what the last sample has, or 24 GB.
BudgetOfSamples(configured, samples) ==
    LET total == samples[Len(samples)].total
        budget == IF configured # None THEN configured
                  ELSE IF samples # <<>> THEN (9 * total) \div 10
                  ELSE None
    IN  IF budget > 0 THEN budget ELSE 24

\* start has created the task that takes the samples, and nothing been awaited since
\* that would have let it run.
BudgetAtStartup(configured) == BudgetOfSamples(configured, <<>>)

-------------------------------------------------------------------------------
(* What is told                                                            *)

\* The level at which the monitor logs.
LogLevel(percent) ==
    CASE percent >= 95                   -> "critical"
      [] percent >= 85 /\ percent < 95   -> "high"
      [] OTHER                           -> "none"

\* GET /admin/vram
Warnings(percent, autoUnload, threshold) ==
    {level \in {"critical", "warning", "notice"} :
        CASE level = "critical" -> percent >= 95
          [] level = "warning"  -> percent \in 85 .. 94
          [] level = "notice"   -> percent \in 75 .. 84}
      \cup (IF autoUnload /\ percent >= threshold THEN {"threshold"} ELSE {})

\* GET /health: GPUs, background tasks and the dead letter queue are only reported.
Healthy(database, backend, redis) == database /\ backend /\ redis # "failed"
===============================================================================
