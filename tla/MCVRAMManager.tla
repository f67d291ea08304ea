---------------------------- MODULE MCVRAMManager ----------------------------
(* Instances of VRAMManager for TLC.                                       *)
EXTENDS VRAMManager, FiniteSetsExt, TLC

\* Of four units: two models of two units must both go for one of four.
MCEstimates == {2, 4}

\* Dictionaries with estimates of any size, for the sum.
SmallDicts == UNION {[S -> 1 .. 4] : S \in SUBSET Models}

\* The cardinality that defines Allocated is the sum Python computes.
ASSUME AllocatedIsTheSum ==
    \A d \in SmallDicts : Allocated(d) = MapThenSumSet(LAMBDA m : d[m], DOMAIN d)

-------------------------------------------------------------------------------
(* What the monitor computes, over bounded inputs.                         *)
Monitor == INSTANCE VRAMMonitor

Unread == Monitor!None

Amounts == {Unread, 0, 2, 8, 16}

GPUs == [total : {2, 8, 16}, used : {0, 2}, free : {0, 6}]

Measured == {<<>>} \cup {<<g>> : g \in GPUs} \cup {<<g, h>> : g, h \in GPUs}

\* The memory of the GPUs is never detected: without a configured one the budget is
\* that of a GPU of 24 GB, whatever there is, and more than a smaller one has.
ASSUME NeverDetected ==
    \A gpus \in Measured \ {<<>>} :
        LET sample == Monitor!Sample(gpus, Unread, {})
        IN  /\ Monitor!BudgetAtStartup(Unread) = 24
            /\ Monitor!BudgetOfSamples(Unread, <<sample>>) <= sample.total

\* rocm-smi: a GPU that is full is reported as free, any other with what it has left.
ASSUME FullLooksFree ==
    \A total \in {2, 8, 16}, used \in 0 .. 16 :
        LET gpu == Monitor!QueryRocm(<<[total |-> total, used |-> used]>>)[1]
        IN  gpu.used + gpu.free = IF used = total THEN 2 * total ELSE total

\* With the memory set by the user no AMD GPU is ever in use, so nothing is warned of,
\* and each counts as much as is set.
ASSUME OverrideHidesUse ==
    \A vram, gtt, used \in Amounts, n \in 1 .. 2 :
        LET device == [vram |-> vram, gtt |-> gtt, gttUsed |-> used, used |-> used,
                       misses |-> Unread]
            sample == Monitor!Sample(Monitor!AMD(<<>>, [i \in 1 .. n |-> device], 16), Unread, {})
        IN  /\ Monitor!Warnings(sample.percent, TRUE, 80) = {}
            /\ ~(vram = Unread /\ gtt = Unread) => sample.total = 16 * n

\* An APU that rocm-smi lists has the others read from the files of the driver too.
ASSUME OneAPUForAll ==
    \A vram \in {8, 16} :
        LET devices == <<[vram |-> vram, gtt |-> 16, gttUsed |-> 0, used |-> 2,
                          misses |-> Unread]>>
        IN  Monitor!AMD(<<[total |-> vram, used |-> 0], [total |-> 2, used |-> 0]>>,
                        devices, Unread) = Monitor!QuerySysfs(devices, Unread)

\* Where every query fails nothing seems to be in use; where those of one vendor fail,
\* the rest may seem critical although the whole is not.
ASSUME FailureLooksIdle ==
    /\ \A configured \in Amounts :
           Monitor!Warnings(Monitor!Sample(<<>>, configured, {}).percent, TRUE, 80) = {}
    /\ LET full == <<Monitor!GPU(2, 2, 0)>>
           idle == <<Monitor!GPU(16, 0, 16)>>
           Level(answers) ==
               Monitor!LogLevel(Monitor!Sample(Monitor!AllMemoryInfo(answers), Unread, {}).percent)
       IN  Level(<<full, idle>>) = "none" /\ Level(<<full, <<>>>>) = "critical"

\* What the monitor logs, the administrator is warned of.
ASSUME WarnsOfWhatIsLogged ==
    \A percent \in 0 .. 120, auto \in BOOLEAN :
        Monitor!LogLevel(percent) # "none" =>
            Monitor!Warnings(percent, auto, 80) \cap {"critical", "warning"} # {}

\* An Intel card with the xe driver that tells nothing is left out, unless it has the
\* file of the other driver; no card is listed with less than nothing free.
ASSUME IntelCards ==
    \A xe, listed \in BOOLEAN, tile, info, lmem \in Amounts :
        LET card == [xe |-> xe, listed |-> listed, tile |-> tile, fdinfo |-> info,
                     tileUsed |-> 8, lmem |-> lmem, lmemUsed |-> 8]
            gpus == Monitor!Intel(<<card>>)
        IN  /\ xe /\ tile = Unread /\ info = Unread /\ lmem = Unread => gpus = <<>>
            /\ ~xe /\ lmem \in {Unread, 0} => gpus = <<>>
            /\ \A i \in DOMAIN gpus : gpus[i].free >= 0
===============================================================================
