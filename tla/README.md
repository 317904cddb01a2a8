# vNAMS in TLA+

vNAMS ("nuiod") is a daemon for NUMA hosts that run KVM virtual machines. Every
`monitor_interval` seconds it looks at the VMs libvirt knows, decides for each
on which NUMA node its (only) vCPU should run, and pins the vCPU to a free cpu
of that node. This directory holds TLA+ models of the daemon, the TLC runs that
check them, and proofs for TLAPS.

## 1. The system

| part | code | state it keeps | operations |
|---|---|---|---|
| daemon | `src/Nuiod.cpp` | `vm_infos_map` (VM id -> `VM_info`), `cpu_vm_mapping` (cpu -> VM id), `cpu_node_mapping`, `numa_nodes`, `numa_latency` | `init`, `init_vminfo`, `virVMEventCallBack`, `refresh_cpu_mapping`, `monitor`, `perform` |
| strategy | `src/SimpleStrategy.cpp`, interface `include/ScheduleStrategy.h` | none between calls; per call `vmStateMap`, `vm_on_node`, `node_vm_vec` | `schedule` (`analyze`, `analyzeIOState`) |
| latency matrix | `init_numa_info`, `init_numa_latency`, `cal_and_create_numa_lat` in `src/Nuiod.cpp` | `numa_latency`, `/etc/nuiod.latency` | read, or measure and create the file; runs in a thread of its own |
| latency probe | `src/mgen.cpp` | `s_rand_arr`, `s_buf`, the signal handlers | `get_numa_latency`, `rand_array_init`, `rand_buf_init`, `dependent_read` |
| network rates | `src/IOMonitor.cpp` | packet and byte counters in each `VM_info` | `monitorIO` |
| cpu usage | `src/Cpu_monitor.cpp` | `cpu_stat_array` | `init_cpu_monitor`, `get_cpu_usage` |
| memory | `src/Mem_monitor.cpp` | none | `get_node_freemem`, `get_proc_mem_numa_distribution` |
| perf counters | `src/PerfMonitor.cpp` | counters in each `VM_info`, read by no one | `monitorPerfEvent` |
| pinning | `src/Thread_migrate.cpp` | a cpu mask | `pin_vcpu_to` |
| memory migration | `src/Memory_migrate.cpp` | two node masks | `migrate_mem_to`, never called |
| entry, configuration | `src/main.cpp`, `parse_conf`, `nuiod.conf` | constants | read once |

The main thread runs `init` and then, for ever, *deliver events - refresh -
monitor - schedule - perform - sleep*. libvirt's callback runs inside
`virEventRunDefaultImpl`, on the same thread, so the daemon's own steps do not
interleave with each other. What interleaves is the **host**: domains start,
pause, shut down and end, and Linux moves their vCPUs, between any two libvirt
calls. The one other thread measures memory latencies during `init`, which
joins it at its end. The only thing that outlives the process is the latency file.

What is hard here, and what has to hold in spite of it:

* *Daemon.* Events arrive late and describe domains that have changed since.
  Two maps describe the same fact in two directions and are updated by three
  different rules (insert if absent, overwrite, erase if it is one's own). A
  pin may fail. The maps must agree, no running VM may be missed, a VM that is
  gone must be forgotten, and decisions of a pass must not undo each other.
* *Strategy.* A loop moves VMs between lists on counts that one of its branches
  leaves stale, with an unsigned subtraction in its condition and an
  uninitialised local. It must end, lose no VM, and leave the nodes balanced
  except for what the netdev node is allowed to keep.
* *Latency matrix.* Failures of `init`, signals and kills while the file is
  being measured or written; the next start must not be misled by the remains.
* *Latency probe.* Following pointers through the buffer must visit every cache
  line before it repeats, whatever `rand()` draws. A call leaves its statics to
  the next one: the clock, the handlers and a pointer to a buffer already freed,
  which a signal handler will free once more.
* *Monitors.* Files are read one after the other while their contents go on
  changing, any `fopen` may fail after earlier counters were overwritten, and
  counters wrap, are reset or step back. The rates and the verdicts drawn from
  them must be about the period they claim to be about.
* *Daemon and strategy together.* A decision may not be carried out (no free cpu,
  a failing pin) and is then made again with a changed picture: the daemon must
  come to rest when nothing changes.

## 2. The modules

| module | models |
|---|---|
| `Libvirt` | the host, as the daemon meets it (external): the phase of each domain, its vCPU's cpu and affinity, the queue of undelivered events |
| `VmRegistry` | abstract specification: what `vm_infos_map` promises about the domains of the host |
| `ScheduleStrategy` | abstract specification: which decisions `schedule` may return. The contract `Nuiod` relies on and `SimpleStrategy` is shown to keep |
| `Nuiod`, `NuiodProperties` | start-up, event callback, refresh, perform; it extends `Libvirt`, takes any strategy that keeps the contract, and implements `VmRegistry` |
| `SimpleStrategy`, `SimpleStrategyProperties` | the calls of the strategy the program ships |
| `Vnams` | `Nuiod` composed with `SimpleStrategy`; implements `Nuiod` |
| `NumaLatency` | start-up across restarts: main thread, latency thread, file. A measurement is one step |
| `Mgen` | the probe's pointer chain and its copies in the buffer |
| `LatencyProbe` | `NumaLatency` with the whole of `get_numa_latency`, filling `Mgen`'s buffer, in place of that step; implements `NumaLatency` |
| `IOMonitor` | one VM's packet rates, from the VF's counters to the verdict of `analyzeIOState` |
| `CpuMonitor` | one line of `/proc/stat`, from the counters to a usage |
| `MCNuiod`, `MCSimpleStrategy`, `MCVnams` | constants of the instances for TLC |
| `NuiodProofs`, `SimpleStrategyProofs`, `SimpleStrategyBalanceProofs`, `VnamsProofs`, `MgenProofs`, `LatencyProbeProofs`, `IOMonitorProofs`, `CpuMonitorProofs` | theorems and their proofs; each about the module it is named after, `LatencyProbeProofs` about `NumaLatency` too |

Which module stands on which:

    VmRegistry <= Nuiod (+ Libvirt) <= Vnams = Nuiod + SimpleStrategy
    NumaLatency <= LatencyProbe = NumaLatency + Mgen
    IOMonitor, CpuMonitor: the inputs of SimpleStrategy, each for one VM or line

(`A <= B`: B implements A, checked as a property of a run and proved.)

### From code to model

**Nuiod.** `std::map` is a total function: `cpu_vm_mapping[c] = NoVM` is a missing
key, `vms` are the keys of `vm_infos_map`, and the fields of `VM_info` that
control anything are functions (`real_cpu_no`, `vm_event_state`) or a set
(`homeless`: VMs for which `numa_maps` showed no page, so that
`mem_main_node_id` was never assigned). `pc` is the place of the main thread. A
step is what the daemon does between two libvirt calls whose results other steps
of the host can change: counting, listing, the look-up of one domain together
with `set_vm_info`, one event, one VM of the refresh, one decision of `perform`.
Within `set_vm_info` and within one decision several calls are made about the
same domain; the model takes them as one step, so a domain that ends in between
is seen as ended before or after. `monitor` changes no variable of this module,
but the exception of `monitorPerfEvent` ends the process in the middle of a pass
(`MonitorThrows`). `perform` takes the least loaded free cpu; loads are left out,
so any free cpu may be taken. Names, pids and the vf number are left out, except
that each of them may make `set_vm_info` return -1.

`placed`, `reinit` and `unlisted` are history variables: where this pass pinned
each VM, which VMs had their record replaced by a second STARTED event, and
which domains `init_vminfo` will not visit, because the listing failed or the
size of `running_dom_ids` cut them off, with no STARTED event to come.

Of libvirt the model assumes: ids are handed out in ascending order and never
reused; a domain that ended is listed, looked up and answered for no more;
events are queued, in order, from the registration on; the STOPPED event carries
the id the domain had (the removal branch of the callback presumes it); `vcpu`
is some cpu of the affinity whenever the domain runs. A wakeup from
suspend-to-RAM is reported as STARTED, a destroyed domain as STOPPED without
SHUTDOWN. Any call may fail. Counting the domains then ends the daemon (`new
int[-1]` throws: `NumOfDomainsFails`), listing them leaves it blind to those that run
(`ListDomainsFails`), a look-up ends it (`strlen(NULL)`: `InitVmNull`,
`EventStartedNull`), and asking for the vCPU's cpu or pinning it is answered by -1. That
`virEventRunDefaultImpl` fails is not modelled apart: the loop prints a line and
goes on, as if no event had come.

**SimpleStrategy.** A behaviour is any number of calls (`Call` ... `Return`). A step
is one VM of the classifying loop or one iteration of the balancing loop. What
the monitors say is a choice: a smoothed rate (`Pps`, against `io_threshold`; a
rate equal to it leaves the VM without a key in `vmStateMap`, and a later
`operator[]` makes it I/O intensive) and whether the VM's cpu is idle. `vm_state`
is declared without a value: it starts as anything and keeps its content from one
iteration to the next, which is what a build does that reuses the stack slot.
Idleness
is a choice whatever `CpuMonitor` says: it is computed from `VM_info.real_cpu_usage`
too, which nothing ever assigns. `std::sort` may leave ties in any
order. Local variables that the code always reads off `node_vm_vec` are
operators. `turns` is a history variable, the iterations of a call.

**Vnams.** `Nuiod`'s abstract step `Schedule` becomes a call of `SimpleStrategy`
with the records the daemon has at that moment; its decisions go to `perform`.
What the strategy asks of each VM, its home node, rate and idleness, is fixed
for a behaviour (`load`), to see where the daemon settles. While the call runs the
host stands still: the call reads nothing but its arguments, so whatever happens
meanwhile might as well have happened before it.

**NumaLatency.** `main` and `thread` are the two threads; `disk` is the file,
`buffer` what the C library will write when the file is closed, or when `exit`
flushes it. Before the first start there is no file, one of a host with other
nodes, or a complete one of this host. A file that cannot be opened, or whose first number
cannot be read, is taken for missing (`NothingToRead`), a read may break off at any
entry (`ReadFile`); the history variable `misread` says that this happened to a
file that was good. A start may end in a failing `init`, in `sigint_handler`'s `exit`, or in a
kill. Values are "latency", "zero", "failed" (the -1 of `get_numa_latency`) or
"garbage" (an element of `new double[]` never assigned).

**Mgen.** A step is one draw of `rand_array_init`'s outer loop (its inner loop
draws until it hits a free element) or one line of `rand_buf_init`. Lines are
numbered; a pointer is a line's number.

**LatencyProbe.** `step` is the place of the latency thread in `get_numa_latency`;
`s_buf` is what the static pointer points at, `freed` after a `buf_release` that does
not reset it; `calibrated` is the clock that all three ways of calibrating may
fail to set. `HandleSignal` is `sigint_handler`, installed by the first call: it
releases what `s_buf` points at, and if that was released before, or is being
read, the process may fault before `exit` flushes the file. Releasing a range
twice does nothing unless it was mapped anew; both are covered by that choice.
`EnterFails` is the exit taken when `signal` fails, before there is a buffer: it
releases the address of an earlier one a second time, with the same consequences,
which `Killed` covers. The two exits before it, for a missing `-a` or `-c`, are the same
step; the daemon, whose nodes and cpus are not negative, never takes them.

**IOMonitor.** Counters are modulo `Width`. A rate is a pair of packets and ticks,
so that no division is needed; smoothing and comparison cross-multiply. Each file
read is a step, between which the clock ticks and packets arrive. Its `fscanf` may
find nothing (`FoundNothing`): nobody notices, the old counter stays and the call goes
on. Any open after the first may fail (`OpenFails`; a first one that fails changes nothing). A
timestamp is an age, `Epoch` that of the initial 0. The byte counters are only files
that may fail. The history variables say what really happened: `passed` packets
over `span` ticks since the read of the last complete sample, `fresh` ones that
came after this call's read, the counters this call has found (`got`), packets of
earlier samples whose reads found nothing (`owed`), counters stored before a reset
(`spoilt`, `torn`) or by a failed call (`skewed`). `real` is the truth about the last
two samples: the packets of the period, and those the rate is due to carry.

**CpuMonitor.** Four counters stand for ten: `user` and `guest` for those that
are compared before they are subtracted, `iowait` (which the kernel lets
decrease) and `idle` for those that are not. A percent is a pair, busy over all.
`spent` is the history of jiffies since the last sample, `disturbed` what else
happened to the line: a wrap of a compared counter, a decrease of iowait, a line that
became another cpu's because a cpu went off or on.

## 3. Runs

Every run ends within five minutes on two workers. Deadlock is not checked where
the modelled thing really stops: the daemon's process ends (`exited`, `crashed`)
or the starts are used up.

| run | instance | shows |
|---|---|---|
| `Nuiod_lifecycle` | 2 domains, 2 cpus on 2 nodes, starts, shutdowns, ends, one undelivered event | types; the maps agree; no running VM is missed but by the listing; entries are erased by their owner only; no decision of a pass undoes another; the map of VMs is a `VmRegistry` |
| `Nuiod_shutdown` | 1 domain, all seven kinds of event, two undelivered, fair | a VM that was shut down is forgotten, an active one becomes known, unless the listing left it out |
| `Strategy_decide` | up to 5 VMs, 4 nodes in a ring, NIC on node 1, rates below and at the threshold (a VM at it counts as I/O intensive), idle VMs | one decision per counted VM, none lost, never takes from an empty list, ends after at most one iteration per VM and one skip, never raises the peak, netdev VMs stay, the other nodes end level |
| `Vnams_settles` | 2 VMs of one home, 3 cpus on 2 nodes, rates below, at and above the threshold, fair | the composition is the daemon of `Nuiod`; while nothing changes it stops moving VMs, each being where the strategy wants it or finding no free cpu there |
| `IOMonitor_rate` | counters modulo 5, up to 2 ticks and 2 packets each way per period, two resets, failures or empty reads | every packet is in the rate of its period or of the next sample that finds the counter; the verdict is no artefact of smoothing |
| `CpuMonitor_usage` | counters modulo 7, up to 3 jiffies between samples | a usage is about the time since the last sample; above 100% for two reasons only |
| `LatencyProbe_restart` | 2 nodes, 2 starts, from no file, another host's or a complete one, buffers of 3 blocks of 4 lines, failures, signals and kills anywhere, fair | a complete file is only replaced by a start that could not read it, with every entry measured; garbage comes from a cut file or a read that broke off; one chain and one cycle through the buffer; no freed buffer is filled or read; zeros come first; drawing and joining end; the probe implements `NumaLatency` |

Each of these properties has a mutant of the code in `PROJECT.json` that breaks it.

Five runs state what a comment of the code says, and TLC refutes it:

| run | comment | what happens |
|---|---|---|
| `Nuiod_init` | `Nuiod.cpp:335` "return -1 if failed" | a domain ends between listing and look-up: `strlen(NULL)`. Or `virConnectListDomains` fails: the loop over -1 domains succeeds, and the daemon runs without the VMs that were there. TLC reports the one it meets first; each half of the property is violated by itself |
| `Nuiod_ended` | `Nuiod.h:96` "all running vm" | a destroyed domain (STOPPED without SHUTDOWN) is never removed |
| `Nuiod_unassigned` | `Nuiod.cpp:680` "not assigned to other VM" | two VMs were recorded on one cpu, the later one owned the entry and took it away; the cpu looks free |
| `Strategy_idle` | `SimpleStrategy.cpp:108` "do not count the idle vm" | a busy VM behind an idle one is not counted either |
| `NumaLatency_cut` | `Nuiod.cpp:784` "initialize the numa_latency matrix" | the process exits while writing the file; the next start reads a short file |

Observations on the code that have no run of their own:

* `virConnectListDomains` gets an array sized by an earlier
  `virConnectNumOfDomains`, so a domain that starts in between may push an older
  one out of the list (`unlisted`); a wakeup leaves the VM's old entry in
  `cpu_vm_mapping` (`reinit`).
* The strategy compares with its own threshold of 100000; the configured
  `io_threshold` is only printed.
* After a move off the netdev node the counts are stale: two VMs that are not I/O
  intensive may both leave it, for one node.
* Two VMs on full nodes that want each other's cpus wait for ever (`Settles` allows
  for it: the node has no free cpu). A VM already recorded on the wanted node is
  never pinned, so Linux may move it away again.
* A VM at exactly the threshold counts as I/O intensive in balancing.
* Guest time is counted in user time and again in itself, so a busy guest's usage
  comes out too high (`UsageTrue` says by how much).
* A failed call of `monitorIO` drops the packets of its interval but not the time. An
  empty read, which it does not notice, puts them into the next rate, over that one's
  time only: a VM below the threshold may then be judged I/O intensive (`VerdictSound`
  names this as its one exception in that direction).
* A kernel that knows no node for the NIC answers -1, which `init` accepts and the
  strategy uses as an index. The models assume that `netdev_numanode` is a node.

**Bounds.** `Dom` and `Cpu` (two VMs suffice for one to overwrite, erase or
displace the other's entry; in `Vnams_settles` and `Nuiod_unassigned` a third cpu
gives a node two cpus to choose from); `Happens` (the kinds of event that occur in a run: each run
leaves out those that its properties cannot tell from others; in `Vnams_settles`
no event happens, since settling is about a host at rest, but VMs' vCPUs still
move; the composition under events is what `StrategyFitsDaemon` proves);
`MaxPending` (events queued; two are needed for SHUTDOWN and STOPPED, or two STARTEDs,
to wait together; `Nuiod_lifecycle` makes do with one, and its properties are
proved for any number); `Pps` and `Idle` (one value on each side of every comparison, and
one on it; a rate above the threshold and one at it differ only in the key of
`vmStateMap`); five VMs on four nodes (a node with five to two VMs, with others at zero to
two, meets every branch of the loop and the second and third iteration of each);
`MaxBoots` (a start that leaves a file and one that meets it; the files an older
start may have left are initial states; `NumaLatency_cut` has three); `other_number` (the node count in a file from another host);
`RAND_ARRAY_SIZE` and `nblk` (all orders of four lines, more than two blocks);
`Width`, `MaxAge`, `MaxPassed`, `MaxJiffies`, `Epoch`, `Traffic` (every counter can
wrap in every period, but, like the real ones, not twice; packets of empty reads
count towards `MaxPassed` too; two ticks tell a rate above the threshold from one
below it, and a sample's time from the moment of its reads); `MaxTrouble` (failed
calls, empty reads and resets of a behaviour: one in each direction, or one after the
other in the same; the invariant was also checked with three).

**Fairness.** `Nuiod`: the main thread waits for nothing but libvirt, so its
steps are weakly fair. `virEventRunDefaultImpl` dispatches a read event on the
next iteration at the latest; between two calls the callback is not enabled,
hence strong fairness for it. The host is not fair: nothing needs to happen.
`Vnams`: the main loop and the strategy go on (weak); of the pins libvirt is asked
for not all fail for ever (strong, since a pass comes and goes); and Linux does
move a vCPU out of the cpus its affinity forbids (weak). `LatencyProbe`: both threads get
their turns and a failed `init` exits; neither signals nor kills are assumed;
some draw that hits a free element other than the last one comes, `rand()`
being assumed not to avoid the free elements for ever.

## 4. Proofs

The theorems hold for every value of the constants, under the assumptions the
modules state: domain ids are finitely many naturals, nodes are numbered from 0
without gap and include the netdev node, every cpu has a node, each list
of `Lat` names every node (`Nuiod.cpp:765` pushes all of them), sizes and bounds are positive, counters
move by less than half their width between two samples that find them. TLC evaluates these
assumptions in every run of an instance. Every invariant that a run checks is proved.

| module | theorem | says, of every behaviour |
|---|---|---|
| `NuiodProofs` | `TypeCorrect` | `TypeOK`; its strong part is `acts \in Schedules(vms)`: decisions in `perform` are about VMs still known |
| | `MapsAgree` | `MappingConsistent` |
| | `EntriesErasedByOwner` | `ErasesOwnEntry` |
| | `PlacementsKept` | `PassKeepsPlacements` |
| | `EveryVmWatched` | `NoVmMissed` |
| | `DaemonImplementsRegistry` | `ImplementsRegistry`: the daemon implements `VmRegistry` |
| `SimpleStrategyProofs` | `StrategyTyped` | `TypeOK` |
| | `OneDecisionEach` | `DecidesOnce` |
| | `NoVmLost` | `LosesNoVm` |
| | `NeverTakesFromEmpty` | `TakesFromNonEmpty` |
| `SimpleStrategyBalanceProofs` | `BalanceInvariant` | `BalanceInv`: what the loop keeps, with true counts or stale ones |
| | `LoopEndsSoon` | `LoopBounded` |
| | `PeakNotRaised` | `NeverRaisesPeak` |
| | `SmallNetdevKeepsVms` | `NetdevVmsStay` |
| | `OthersEndLevel` | `OthersLevel` |
| `VnamsProofs` | `StrategyFitsDaemon` | `ImplementsDaemon`: the daemon with its real strategy implements `Nuiod` |
| | `VnamsTyped` | `VnamsTypeOK` |
| `MgenProofs` | `ChainIsOne` | `OneChain`, for blocks of any size |
| | `BufferIsOneCycle` | `VisitsEveryLine`, for any number of blocks of any size |
| `LatencyProbeProofs` | `LatencyTyped` | `TypeOK` |
| | `GarbageHasOneSource` | `GarbageOnlyFromCutFile` |
| | `CompleteFilesSurvive` | `CompleteFileKept` |
| | `ProbeTyped` | `TypeOK`, `ProbeTypeOK` |
| | `ProbeImplementsStartup` | `ImplementsStartup`: the probe implements `NumaLatency` |
| | `BufferIsOwn` | `OwnBufferOnly` |
| | `ClockKept` | `ZerosFirst` |
| | `BufferTyped` | `BufferTypeOK`, in every call |
| | `EveryCallChains` | `OneChain`, for the buffer of every call |
| | `EveryCallReadsAll` | `ReadsWholeBuffer`: every call walks through all of its buffer |
| `IOMonitorProofs` | `IOTyped` | `TypeOK` |
| | `RatesAreReal` | `RatesReal` |
| | `VerdictIsSound` | `VerdictSound` |
| `CpuMonitorProofs` | `CpuTyped` | `TypeOK` |
| | `UsageIsTrue` | `UsageTrue` |
| | `PercentsBounded` | `PercentBounded` |

How the arguments go:

* `TypeOK` of the daemon is inductive. That no decision becomes stale needs that VMs are added
  and removed by the callback alone, which is not called from `schedule` to the end
  of `perform`: the type invariant therefore says that `acts` is empty elsewhere.
* `MappingConsistent` is inductive next to `TypeOK`. Its steps, and those of
  `ErasesOwnEntry`, are four, not twenty: lemma `MapSteps` shows that the maps
  change by `set_vm_info`, `remove_vm`, `change_cpu_vm_mapping` or not at all.
* `PassKeepsPlacements` is not inductive. A pinned VM could be moved by a second
  decision about it, and its affinity could change if it had not started yet;
  `Placements` adds that neither is so. No other VM can displace it, because
  `FreeCpus` leaves out its cpu and erasing is by owner only.
* `NoVmMissed` is not inductive. A removal would hit an active domain if the queue
  held a STOPPED event about it (`StoppedAreGone`: ids are never reused), and a
  start would go unannounced without a registered callback (`Listens`). The domains
that a short or failed listing leaves out are excepted by name (`unlisted`): the
theorem says that there is no other way to miss one, and `Nuiod_init` that this one
is open. The same
  invariant makes `remove_vm` a step of the registry.
* `StrategyInv` says that no VM is in two places of the lists, that all in them
  belong to the input and have been visited, and that after sorting, as long as
  there was no iteration, the counts are those of the lists. That is what lets a
  VM be moved, erased and decided about by its place. `Listed` stays the same
  because `Moved` erases and appends the same VM (`MovedKeepsMembers`).
* `TakesFromNonEmpty` is not inductive, since the counts may be stale. `CountsLow`
  says that only those of a netdev node with at most two VMs can be too high: a
  move off that node makes every other list longer or leaves it, and every
  other move recounts.
* `BalanceInv` is what the four theorems about balancing share. As long as no VM
  has left a small netdev node the counts are true (`Fresh`), and a node that was
  given a VM is among the least busy (`Settled`), which makes each move lower the
  maximum or leave it. The first move off such a node makes them wrong (`Stale`):
  the netdev node's two is too high from then on, and a zero may stand for a node
  with one VM or, once every other node has one, with two; nowhere else, and only
  while zero is the lowest count. `Peak` and `Stay` follow from where a VM can go
  (`MoveKeepsPeak`, `MoveKeepsStay`), and when the loop stops, the counts of the
  other nodes say `Level`. The bound of the iterations is a measure: every move
  takes one more VM away from its home (`MoveAway`), and an iteration that only skips
  the netdev node is paid for by the move that follows it, among nodes of at most two
  VMs, which leaves another VM alone at home (`MoveLeft`). No VM is in both
  sets, so there are at most as many iterations as VMs, and one skip more. TLC found `BalanceInv` to hold on the instance of `Strategy_decide`, and on six
  VMs with three and with four nodes, before it was proved.
* `StrategyFitsDaemon` joins both: during a call the daemon waits, so the input are
  the VMs it knows, and `DecidesOnce` is the contract `Nuiod`'s `Schedule` demands.
  All theorems about `Nuiod` therefore hold of the composition.
* `OneChain` speaks of the finished chain; `Growing` says what is true of the part
  linked so far: its elements are numbered without repeat, the newest has the
  largest number and is the only one without a successor. The last draw leaves
  nothing else free, so then all elements are on it.
* `VisitsEveryLine` speaks of `walk`, a recursive function, but needs no induction
  over what it computes. `Numbered` says that no number is left out on the chain,
  so its last element has the number `RAND_ARRAY_SIZE - 1`; `Copied` and `EndFound`
  that each line written so far points where its element does, within
  its block, and that the end of the last block is found. The finished buffer
  therefore has an explicit walk (`Visit`: block after block, each in the order of the chain).
  That function solves `walk`'s equation; were `walk` different there would be a
  first read at which it differs, and that read contradicts the equation (`WalkVisits`).
* `LatencyInv` says what each place of the thread implies: it measures only if the
  file is of no use or was misread, writes only with a full matrix and an emptied
  file, and has finished once the daemon runs. Each start begins with nothing
  measured and nothing misread. A matrix with garbage was therefore read.
* `ProbeInv` adds what a call knows: it is under way only for a pair still to be
  measured, its buffer is its own, and a latency in the matrix, or about to get
  there, implies a clock. Its steps up to the last are stutters of `NumaLatency`,
  and the last is its `Measure`.
* `IOInv`: a counter this call has found is as far ahead of its stored value as
  packets have passed since; any other at most as far as packets have passed or are
  owed by earlier samples, and exactly so if no failed call has stored it in between;
  and what was stored when the call began is behind what it has found by what the sample
  is due to carry (`Counting`). A
  difference modulo `Width` is exact because less than half of the width passes
  in a period (`SumFits`). For `VerdictSound` a smoothed rate is brought to a common
  denominator, over which it is a weighted mean and lies between its terms
  (`Weighted`, `SmoothedBetween`); the products are split into lemmas of
  their own, since SMT reasons about one product of variables at a time.
* `CpuInv`: a counter is its stored value and the jiffies since, less `Width` if it
  wrapped. Subtraction modulo `Width` undoes the wrap (`SeesSpent`).

Checked by TLC only: the liveness properties (`ShutdownForgotten`,
`ActiveLearned`, `JoinReturns`, `Ready`, `Settles`), which are beyond TLAPS
here.

## 5. Not modelled, and the plan

Not modelled:

* `Mem_monitor`: parses text of `/proc` and asks libvirt. Its one result used
  elsewhere, the home node of a VM, is a choice in `set_vm_info`. (It does not
  close `numa_maps`: a descriptor per started VM.)
* `PerfMonitor`, except for its exception: the counters are read by nothing else.
* `Memory_migrate`: never called.
* `parse_conf`, `main`: constants, read once. The error and close callbacks
  print. The destructor is not reached.
* In `Cpu_monitor` the array of lines and its end, and the loads by which
  `perform` picks a cpu among the free ones; in `NumaLatency` the order of
  `sorted_lat_node_list`, which is the constant `Lat` of the strategy; in
  `mgen.cpp` the figures themselves, times over counts; steps of the wall clock.

Plan:

1. Proofs: the theorems about balancing for the calls that the composition
   makes, by a simulation of `SimpleStrategy` by `Vnams`; a bound on what the
   smoothing of `analyzeIOState` remembers of an older rate.
2. `Settles` with three VMs, and with loads that change finitely often.
3. The array of `/proc/stat` lines, with cpus that come and go.
