# azpbs: a TLA+ verification project

This directory holds TLA+ models of the CycleCloud/OpenPBS integration in this
repository (`azpbs`, its cluster-init scripts and its hooks), the TLC
configurations that check them on small instances, and proofs checked by TLAPS.
`PROJECT.json` lists the runs, the theorems, the hazards and, for every
definition, the source lines it stands for.

    tlc -workers 2 -config AutoscaleSafety.cfg MCPbsAutoscale    # one run
    tlapm PbsAutoscale_proofs.tla                                # one proof module

## 1. Inventory

| Component | Source | State it keeps | Operations |
|---|---|---|---|
| Autoscale iteration | `pbspro/src/pbspro/autoscaler.py` | copies of the job list, the node table and the CycleCloud nodes, for one iteration; a node history between iterations (scalelib) | read, match (scalelib), handle failed nodes, join, boot up, boot and idle timeouts, delete |
| PBS driver | `pbspro/src/pbspro/driver.py` | marks on the copies (`_marked_offline_this_iteration_`, `pbs_state`, `closed`, assignments) | `preprocess_node_mgr`, `handle_failed_nodes`, `add_nodes_to_cluster`, `handle_boot_timeout`, `handle_draining`, `handle_post_delete`, `validate_nodes`, parsing of jobs and nodes |
| PBS server | external, through `pbscmd.py` | node table (offline mark, comment, resources, ccnodeid), jobs and holds | `pbsnodes -o/-r`, `qmgr create/set/delete/list`, job scheduling |
| CycleCloud | external (scalelib) | instances and their states | create, boot, fail, delete |
| Execute node installer | `specs/execute/cluster-init/stages/install.sh`, `activate.sh` | guard file, converge retries | wait for the node definition, mark itself offline, start pbs |
| Operator commands | `cli.py` (`offline`, `online`, `validate`), scalelib's `join_nodes`, `remove_nodes`, `delete_nodes` | none | hold a node offline, release it; join, drain and remove it by hand |
| Submit and periodic hooks | `specs/master/cluster-init/files/eq_submit_hook.py` | hold types, select and place of a job (in PBS) | hold on submit, adjust and release held jobs |
| Prologue/epilogue runner | `specs/master/cluster-init/files/run_pelog_shell.py` | one child process, deadlines | run, terminate, kill, give up, accept or reject the job |
| Node health check | `specs/execute/cluster-init/files/cc-health-mom.sh` | a state file | watch jobs, slot type and mom; ask for termination |
| Shared resources and requests | `parser.py`, `pbsqueue.py`, `scheduler.py`, `resource.py`, `driver.parse_jobs` | the counters of the resources of server and queues, for one iteration | read server, queues and jobs; add each chunk of each job to the demand |
| Deployment | `package.py`, `install.sh`, `initialize_*.sh`, `specs/**/scripts` | files | installation, backup, mail, cron |

How they interact. A PBS hook starts `azpbs autoscale` every 15 seconds. One
iteration reads PBS (`qstat`, `pbsnodes -a`) and CycleCloud, decides on these
copies, and then issues commands one by one: `pbsnodes -o` and `-r`, `qmgr`, and
CycleCloud's create and delete. Nothing locks PBS meanwhile: jobs start and end,
moms come and go, an installer marks its own node offline, an operator uses
`azpbs offline` and `azpbs online`, or calls the driver's handlers on a node of his choice by
`azpbs join_nodes`, `remove_nodes` and `delete_nodes` (`README.md:167-175`, `234-235`). The installer waits for the entry the
autoscaler writes, and the autoscaler waits for the hostname of the instance.
The submit hook holds a job and leaves the rest to the periodic hook, which works
on a list it read earlier with one `qalter` and one `qrls` per job. The pelog
runner races its script against the alarm PBS sets on the hook.

What is hard in this:

- every decision of an iteration is taken on a copy that ages while it is used,
  and the handlers of one iteration write over each other's copies;
- any command can fail and the process can die between any two of them; what it
  was doing is to be recognised from the PBS entry by the next iteration;
- two parties mark the same entry offline and online (autoscaler, installer) and
  a third one (an operator) expects to be obeyed;
- hostnames are reused, so an entry may be about an earlier instance;
- jobs change under the periodic hook, which must not let them go too early, nor
  take off a hold that is not its own, nor forget one;
- three deadlines, two signals, a pipe and an alarm decide on one job.

What makes each component correct:

- *iteration and driver*: no job is killed by scale-down; a drain is not undone by
  the same iteration; an operator's hold is obeyed; capacity comes when there is
  demand and goes when there is none; PBS entries of vanished instances go;
- *node join*: an entry says "joined" only when it has all its resources, and an
  instance that stays ends up serving;
- *hooks*: a held job is let go rewritten, once, with the dependency it has, and in
  the end;
- *pelog*: a verdict before the alarm, time to react to SIGTERM, never a verdict on
  a running script, and the verdict the documentation promises;
- *health check*: a node is only given up if its mom has gone or its join was never
  finished, and an instance that is not given up serves;
- *shared resources and requests*: nothing is promised twice, and demand is what the
  jobs ask for.

## 2. Modules

    PbsWorld <- PbsAutoscale <- AutoscaleLease <- MCPbsAutoscale
                             <- PbsAutoscale_proofs <- AutoscaleLease_proofs
    NodeLease                <- NodeLease_proofs
    NodeJoin                 <- NodeHealth <- MCNodeHealth
                             <- NodeJoin_proofs <- NodeHealth_proofs
    HoldRelease              <- MCHoldRelease, HoldRelease_proofs
    Demand                   <- MCDemand, Demand_proofs
    Pelog                    <- Pelog_proofs

`A <- B`: B extends A. `NodeHealth_proofs` extends `NodeHealth` and `NodeJoin_proofs`, and
`AutoscaleLease_proofs` extends `AutoscaleLease` and `PbsAutoscale_proofs`. The abstract
specifications are instances under a refinement mapping:

| Abstract specification | What it promises | Implemented by |
|---|---|---|
| `NodeLease` | an instance is handed back closed and free, or excused | `AutoscaleLease` (`Lease`) |
| `NodeEntry` | an entry of the node table shows all or nothing | `NodeHealth` (`Entry`), `PbsAutoscale` (`Entry(n)`, one per node) |
| `JobGate` | a job is rewritten, then let through, and waits as long as it has to | `HoldRelease` (`Gate`) |
| `LicencePool` | nothing is granted that was not left at the look | `Demand` (`Pool`) |
| `TimeLimit` | a script has its time, a warning and a grace | `Pelog` (`Limit`) |

### PbsWorld, PbsAutoscale: one autoscaler against the cluster

`PbsWorld` is what the autoscaler acts on. A node is one hostname; the sets
`known`, `joined` and `offline` and the functions `note` and `mom` are the PBS node
table (entry, ccnodeid, offline mark, comment by the prefix the driver tests, what
the server knows of the mom), `busy` and `queued` the jobs, `cc` the instance states,
`guard` the installer's `pbs.nodecreated`. Its operators are the commands the
repository issues, by their effect on one entry, and what jobs, instances, moms
and installers do by themselves.

`PbsAutoscale` adds the iteration. `pc` is the position in `autoscale_pbspro`; `snap`,
`seenCC` and `seenJobs` are the three reads, taken in the code's order (`ReadJobs`,
`ReadNodes`, `ReadCloud`); `matched` and `wanted` are the outcome of the match; `marked` is
`_marked_offline_this_iteration_`; `held` is the `keep_offline` assignment; `toDelete` is
what the drain handlers return. Every command of the code is a step of its own, so
that the world moves between any two: draining the failed nodes (`DrainFailed`),
removing them (`DeleteFailed`), joining (`JoinInspect` is `qmgr list node` with the
decision on its answer, then `JoinRestore`, or `JoinCreate`, `JoinSetId`, `JoinOnline`),
`Bootup`, the two drains (`DrainBootTimeout`, `DrainIdle`, both through `Drain`, which is
`_handle_draining`), `DeleteInstances` and `PostDelete`. `JoinFails` is a reverse lookup that fails
(`NameFails`) or the `except` of the join loop, reached by a command that fails (`CommandFails`) or
that the server refuses because an operator created or removed the entry meanwhile
(`CommandRefused`); `Abort` is an exception or the death of the process anywhere.

Operators act between any two commands of an iteration. `OperatorOffline` and `OperatorOnline` are
`azpbs offline` and `online`. `azpbs join_nodes`, `remove_nodes` and `delete_nodes` run the driver's
`add_nodes_to_cluster`, `handle_draining` and `handle_post_delete` in a process of their own; the
model has the `pbsnodes` and `qmgr` commands of these handlers as steps (`OperatorCreate`, `OperatorSetId`,
`OperatorOnline`; `OperatorDrain`, `OperatorRemove`), in any order and number, which covers every
interleaving with the iteration and a command line that is interrupted; the instance that
`delete_nodes` takes away goes by `Evict`. `onlined` remembers the entries an operator opened, or
made anew, during the iteration. `azpbs create_nodes` and `retry_failed_nodes`, which bring instances
up apart from any demand, are left out, and so are two iterations at a time.

What the model takes for granted, and why:

- scalelib is not in the repository. It may give the queued jobs any maximal
  choice of nodes: existing ones that are not failed, not held and not busy first,
  new ones next. The metadata set through `pbs_env.scheduler_nodes` is seen through
  the compute nodes of the node manager, as `preprocess_node_mgr` and `_handle_draining`
  require;
- a timeout is real time: any candidate may be found late in any iteration
  (`\E late \in SUBSET ...`), which covers every setting of the timeouts;
- `ReadTimeouts` follows the two `int()` calls: the form of the timeouts in
  `autoscale.json` is the constant `TimeoutForms`, and an iteration may find a dictionary;
- only matched nodes are joined (`autoscaler.py:75-83`), `find_unmatched_for` leaves out
  nodes created with keep_alive, and a deletion that CycleCloud refuses deletes
  nothing (`Abort`);
- the node lists scalelib makes: `find_booting` yields instances that are not ready,
  `find_unmatched_for` ready ones without a matched job (`BootCandidates`, `IdleCandidates`), so that
  no node is on both lists; `MarkedInv` (section 4) relies on it;
- PBS refuses to delete an entry with a job on it, to create one it has, and to set or open
  one it has not;
- one job per node, a hostname is one slot of the cluster; `validate_nodes` has no
  caller in the repository and is left out.

### NodeLease, AutoscaleLease: what an iteration comes to

`NodeLease` is the abstract specification of scale-down: jobs start on open nodes, nodes
are opened and closed, one *look* takes note of closed and free nodes (`quiet`) and of
nodes it excuses (unreachable, without a hostname, or opened by an operator), and a later
step releases nodes on the strength of that look alone, without reading the table again. The one
thing the cluster owes in between is not to open a node it counts as quiet (`Open`).
`LeavesIdle` is what follows: an instance that is handed back has no job, or was excused.

`AutoscaleLease` maps the iteration to it: `up` and `here` are the moms heard and the instances;
`quiet` the nodes the copy shows offline and free that are not assigned, as long as nobody
put them online; `excused` the nodes read as down or new, and those put online by an
operator; `leaving` is `toDelete` once the filter on assignments has run (`pc = "delete"`).
The reads become looks, `IdleDrained` with its filter the release, `DeleteInstances` the
taking, `Abort` and the end of an iteration forget; drains, joins, `qmgr` commands and all of
`PbsWorld` become the steps of the node table, of jobs and of instances. `NodeLease` has no
phases, timeouts, marks, matching or failed-node handling: `ImplementsLease` says that in
all of these together nothing more happens to the instances than that.

### NodeEntry: one entry, as its users see it

`NodeEntry` is a table entry without the commands that make it: it is created, joined in
one step that shows everything at once (`Join`), closed and opened, and dropped, while a
mom is heard through it and a job runs on it. Only a joined entry is opened, unless
operators are there (`Operator`), and none goes under a job. It has no autoscaler, no
installer and no copies. `NodeHealth` maps to it what the entry shows under a
ccnodeid: the values of all resources the instance defines (`EntryShown`), and nothing before
ccnodeid is written; `PbsAutoscale`, which leaves resources out, whether it is joined. A step
of `PbsAutoscale` may take the moms of many nodes at once (`DeleteInstances`), so that
`EntriesImplemented` speaks of all nodes in each step.

### NodeJoin: one entry, its resources and its installer

One hostname, owned by instance 1, 2, ... in turn. `known`, `ccnodeid`, `res`, `offline` are
its PBS entry, each value by the instance it came from; `pc`, `seen`, `todo` the
autoscaler in `add_nodes_to_cluster`, one `qmgr set` per resource and ccnodeid last;
`stage`, `attempt`, `found`, `guard`, `running` the installer, with `Counted` the test after
the loop and `Converge` CycleCloud's retry of a failed script. `Begin` deletes a down entry
also undrained once its instance has gone, when its name may not resolve any more
(`driver.py:239`); a deletion that fails is logged and the join goes on (`RemoveFails`). The node is matched
to a job throughout, which is when the code joins nodes; operators are in
`PbsAutoscale`. `pbsnodes <host>` prints the name of an entry twice or more (name and
Mom) and once in an error message, which is all that `NNAMES` tells apart. `Written` is
what a join writes for a value: `"1" if bool else "0"` (`driver.py:419`) makes 1 of False as
well, since it tests the type. `NodeJoin` has no run of its own; it is checked as part of
`NodeHealth`.

### NodeHealth: the health check of a joining node

`NodeHealth` puts `cc-health-mom.sh` beside `NodeJoin`, with jobs and moms that die. `check` is where
the script is, `last` what its state file says of the last run, `old` that the instance is
up for more than eight minutes. `FindMom` is the `pgrep`: without a mom and with a state
file the node is dismissed, and while `install.sh` restarts pbs there may be no mom
(`Restarting`). `AskServer` is `pbsnodes` with the tests on its answer and on that of the last
run; a server that does not answer leaves a blank state. `Dismiss` is exit status 254: the
instance goes (`InstanceGone`), its entry stays to the autoscaler, as with any instance
lost. `JoinStep` takes a step of `NodeJoin`, except that PBS refuses to delete an entry with a
job on it (`RemoveRefused`). A dismissal may come at any time after the script's decision,
and the script may run at any time.

### HoldRelease: the queuejob hook and the periodic hook

A job carries its request (`legacy`: no select syntax), its current `select` and `place`
by the spellings and parts the code tests, its `depend` attribute by prefix, and its
`hold` types. `Submit` is the queuejob hook. `QSelect`, `QStat`, `Evaluate` (qalter) and
`Release` (qrls) are the commands of the periodic hook on a batch, `HookEnds` what an
exception in `run_cmd` does to the rest of the batch, `HookAborted` a kill. Users and
the server submit, delete, start, hold (`UserHold`) and make jobs dependent
(`AddDependency`, `DependencyMet`) at any point. External behaviour used: `qselect -h so`
is an exact match, and PBS takes the system hold off when a dependency is met. Not
covered: `qsub -h`, and users' own `qalter` of select or place.

`JobGate` is what both hooks together promise. `here` are the queued jobs, `unfit` those of
them whose request the code would still rewrite (`Adjusted` says what its `qalter` leaves
behind), `kept` the ones with an operator hold, `waits` the ones the server holds for another
job that their `depend` attribute names first (not those that name it behind a `before`: the hook
lifts their hold although it has read the attribute), `fresh` those that became dependent after the hook looked (`late`). There is one step to
rewrite a job at the gate, one to let it through, which may cut a wait only if it is fresh,
and the users' steps. Copies, batches, `qselect`, failing commands and a killed hook are not
in it.

### Pelog: one prologue or epilogue against its alarm

Time is counted in half seconds, the shortest sleep of the code. `case` fixes the
kind of event, mom and script; `child`, `pipe`, `held`, `status` are the script and its
output pipe; `direct` says that its output goes to `sys.stdout` or `sys.stderr` (an interactive job,
or errors on a sister mom); `Poll` and `LeaveLoop` are the three waiting loops with `Until` their
deadlines; `CollectOutput` and `Collected` are `communicate()`; `VerdictOf` the exit codes;
`AlarmRings` PBS. Steps of the hook other than sleeping and waiting take no time,
and SIGKILL works at once unless the script is unkillable.

`TimeLimit` is a script under a limit, without loops and clock: it runs and ends, its time
and its grace pass at some moment, it is warned once its time is over, killed once its grace
is, and the job is accepted or refused on how it ended. `spent` is mapped to the last five
seconds before the alarm, `graced` to one second after SIGTERM, and `defiant` to a script
that survives SIGKILL or leaves its pipe to a child: the one case in which the
alarm may come first (`Cut`).

### Demand: what one iteration reads and promises

`PbsAutoscale` leaves open which jobs get nodes; `Demand` is that part of an iteration.
`ReadServer`, `ReadQueues` and `ReadJobs` are the three commands (`qmgr list sched, server`,
`qmgr list queue`, `qstat -f -t`), between which PBS goes on (`Submit`, `Start`, `End`).
`counter[o]` is the `SharedConsumableResource` made for owner `o` (the server or a queue), and
`lists[o]` the owners whose counters are in `shared_resources["lic"]` of `o`: the list holds
references, so a set of owners is the object structure of the code. `todo` are the Job
objects, one for each job and each chunk of its select; `Slots`, `NcpusOf`, `NgpusOf` and `Share`
are the fields `parse_jobs` gives them. `AddJob` is one call of `add_job`: scalelib, which
is not in the repository, finds room for any number of the slots, and each takes its
share from every counter on the list. `ReadJobsRaises` is an exception on one job's
request, which ends the iteration for all. `seen` and `promised` are history: what was in
use when an owner was read, and what its jobs were promised, counted by job and not by
counter. One consumable and one non-consumable resource at server and queues and two on
hosts stand for all; amounts are exact, in parts of `1/Scale`.

`LicencePool` is the shared resource alone: units PBS uses and gets back at all owners of a
path (server and one queue), looks at owners, each at most once in a round, and grants that
take the same share from each owner of a path that has a limit, from none but these, and
only while all of them have it. `looked` are the owners read so far in the iteration
(`LookedAt`), `left` their counters, or 0 for an owner that is not read or has no limit (`PoolLeft`).
Which jobs, which chunks, the lists of references and the matching are left out.

## 3. Runs

| Run | Instance | What it shows |
|---|---|---|
| `autoscale_safety` | one node, one job, one fault, operators, timeouts of both forms; 1,256,000 states | `ImplementsLease`: every step is one of `NodeLease` under the mapping of `AutoscaleLease`. `DeletesIdle`: nothing with a job on it is deleted unless it was read as down, had no hostname, or its entry was opened by an operator meanwhile. `DrainedStaysOffline`: a drain is not undone by the join of the same iteration. `HeldIsLeftAlone`: an operator's hold that the iteration saw is obeyed. `JoinOpensJoined`: what the join comes to open has its ccnodeid, is gone, or was opened by an operator, though operators remove and make entries behind its back. `JoinLeavesServing`: a node the join leaves without a failed or refused command is joined and, unless someone else closed or opened it, open. |
| `autoscale_liveness` | one node, one job, one fault, no operators; fair; 27,000 states | `ScalesToZero`, `DemandServed`, `OrphansReaped`: idle instances are given back, a waiting job gets a node, the entry of a vanished instance goes. `EntriesImplemented`: every step is one of `NodeEntry` at each node; checked here because beside operators `NodeEntry` allows any opening (the theorem holds for both). |
| `node_health` | three instances on one hostname, two resources, three attempts, two faults, health check, jobs; fair; 664,000 states | `JoinedIsComplete`: an entry with a ccnodeid has all that was to be written. `WatchedInstanceServes`: an instance that stays, and did not lose its mom before any check saw it, ends up joined, online and heard. `SettledStays`: an instance that serves, with no verdict pending, is lost to a fault or to CycleCloud only; installer, iterations and health check leave it alone. `ImplementsEntry`: the join of many commands is the one step of `NodeEntry`. |
| `hold_safety` | two jobs, five kinds of request, every dependency, one fault; 1,540,000 states | `AdjustedBeforeRelease`: a job of the hooks' that is let go has been rewritten. `DependencyHonoured`: no pending dependency that the hook read at the head of the attribute loses its hold. `UserPlaceKept`: a select job keeps the place its user chose. `SystemHoldOwned`: a system hold stands beside the operator hold that makes the hook look, or belongs to a pending dependency. `ImplementsGate`: every step is one of `JobGate`. |
| `hold_liveness` | three jobs, batches of two, two kinds of request, one fault; fair; 543,000 states | `Released`: every held job is let go, however long the list, unless a job before it makes the hook raise `TypeError` |
| `pelog_safety` | the default alarm of 30 seconds, every case; deadlock checked; 454,000 states | `DecidedInTime`: a verdict before the alarm. `GraceGiven`: a second between the signals. `NoScriptLeftRunning`: no verdict on a running script. `ImplementsLimit`: every step is one of `TimeLimit`. |
| `demand` | three jobs of six kinds, two queues, four configurations; deadlock checked; 1,540,000 states | `NotOverdrawn`: nothing is promised twice. `ChunksCovered`: a job served in full has all its chunks. `SiteRespected`: its site is that of the queue, or of the server. `ImplementsPool`: every step is one of `LicencePool`. |

Five runs show a disagreement between the code and what the repository says
(section 5): `drain_returns_idle`, `timeouts_per_nodearray`, `boot_timeout`,
`hold_dependency`, `pelog_default`.

Every property of a passing run has one mutant or two: an operator beside the original with a
plausible mistake, with which TLC finds the property violated.

Bounds, and why they are enough.

- *One node.* Every handler treats nodes one by one, in loops that do not look at
  other nodes; what is shared is the phase, the match and the demand. One node takes
  every step of the module and meets the world in every order. What several nodes add is
  their interplay through phases and matching; the safety theorems hold for any number
  of nodes.
- *Faults*: failed commands, aborts, lost or dying moms, evictions and failed instances each
  spend one unit of `MaxFaults`. Two, in `node_health`, allow a fault inside the recovery from
  another one. One is enough in `autoscale_safety`, where unreadable timeouts end iterations
  and operators spoil or undo any step at no charge; its theorems hold for any number.
- *Three instances*: one that leaves its entry behind half written, one of fewer
  resources that finds it, one that finds what both left.
- *Two jobs, or three in batches of two*: a failure at the first job falls on the second,
  and the third waits for the next run of the hook. One of the two kinds of request
  raises `TypeError`.
- *Three jobs, two queues*: two jobs compete for the last licence, of one queue or of two,
  while the third one starts or ends; the limits of 1 to 3 make each of server and queue
  the tighter one; the selects have equal and unequal chunks, and chunks that leave out
  what others mention. The queues of one configuration are ignored or stopped.
- *Pipe of size 1*: a script that writes never, once, or more than the pipe takes.
- `CHECK_DEADLOCK FALSE` where the bounds or the system itself end: a cluster without
  jobs has nothing to do, and the number of instances is bounded.

Fairness, and why the code justifies it. PBS starts the autoscaler and the periodic
hook again and again, and a script runs on: weak fairness of their steps. A timeout
is a time, so a node that is a candidate again and again is at last found late:
strong fairness of the three steps that look at timeouts. Jobs end, instances get
hostnames and boot (except those of `StuckBoot`), moms that run are heard, PBS
requeues what it lost: weak fairness. The PBS scheduler starts a job that could be
started again and again: strong fairness, since an iteration may mark the node
offline and restore it over and over. Nothing is assumed of faults, operators,
submissions, evictions, users, or the moment an installer marks its node. CycleCloud runs
the health check every few minutes: weak fairness of its steps.
`WatchedInstanceServes` and `Released` suppose what their formulas say: that the
instance stays and no mom died unseen, that the user does not hold the job and no
job before it raises.

## 4. Proofs

| Theorem | Module | Statement |
|---|---|---|
| `TypeCorrect` | `PbsAutoscale_proofs` | `Spec => []TypeOK` |
| `DeletionIsIdle` | `PbsAutoscale_proofs` | `Spec => []DeletesIdle` |
| `DrainHolds` | `PbsAutoscale_proofs` | `Spec => []DrainedStaysOffline` |
| `HoldIsRespected` | `PbsAutoscale_proofs` | `Spec => HeldIsLeftAlone` |
| `JoinOpensOnlyJoined` | `PbsAutoscale_proofs` | `Spec => []JoinOpensJoined` |
| `JoinPassesOverNone` | `PbsAutoscale_proofs` | `Spec => JoinLeavesServing` |
| `AutoscaleImplementsEntries` | `PbsAutoscale_proofs` | `Spec => EntriesImplemented` |
| `LeaseLeavesIdle` | `NodeLease_proofs` | `Spec => []LeavesIdle` |
| `AutoscaleImplementsLease` | `AutoscaleLease_proofs` | `Spec => ImplementsLease` |
| `JoinTypes` | `NodeJoin_proofs` | `Spec => []TypeOK` |
| `CompleteOnceJoined` | `NodeJoin_proofs` | `Spec => []JoinedIsComplete` |
| `HealthTypes` | `NodeHealth_proofs` | `HealthSpec => []HealthTypeOK` |
| `CompleteBesideChecks` | `NodeHealth_proofs` | `HealthSpec => []JoinedIsComplete` |
| `SettledNodeStays` | `NodeHealth_proofs` | `HealthSpec => SettledStays` |
| `JoinImplementsEntry` | `NodeHealth_proofs` | `HealthSpec => ImplementsEntry` |
| `JobsKeepImage` | `NodeHealth_proofs` | `HealthSpec => Entry!JobKeepsImage` |
| `HoldTypes` | `HoldRelease_proofs` | `Spec => []TypeOK` |
| `PlaceStaysTheUsers` | `HoldRelease_proofs` | `Spec => []UserPlaceKept` |
| `LetGoAdjusted` | `HoldRelease_proofs` | `Spec => []AdjustedBeforeRelease` |
| `DependencyKept` | `HoldRelease_proofs` | `Spec => DependencyHonoured` |
| `HoldsOwned` | `HoldRelease_proofs` | `Spec => []SystemHoldOwned` |
| `HoldImplementsGate` | `HoldRelease_proofs` | `Spec => ImplementsGate` |
| `GateCloses` | `HoldRelease_proofs` | `Gate!Spec => []Gate!NothingUnfitPasses` |
| `DemandTypes` | `Demand_proofs` | `Spec => []TypeOK` |
| `NothingOverdrawn` | `Demand_proofs` | `Spec => []NotOverdrawn` |
| `ChunksServed` | `Demand_proofs` | `Spec => []ChunksCovered` |
| `SiteHolds` | `Demand_proofs` | `Spec => []SiteRespected` |
| `DemandImplementsPool` | `Demand_proofs` | `Spec => ImplementsPool` |
| `LeftIsOnlyTaken` | `Demand_proofs` | `Spec => Pool!OnlyTaken` |
| `PelogTypes` | `Pelog_proofs` | `Spec => []TypeOK` |
| `VerdictInTime` | `Pelog_proofs` | `Spec => []DecidedInTime` |
| `TermBeforeKill` | `Pelog_proofs` | `Spec => []GraceGiven` |
| `ScriptIsOver` | `Pelog_proofs` | `Spec => []NoScriptLeftRunning` |
| `PelogImplementsLimit` | `Pelog_proofs` | `Spec => ImplementsLimit` |
| `HookKeepsLimit` | `Pelog_proofs` | `Spec => []Limit!LimitKept` |

They hold for every value of the constants the assumptions allow:
`WorldAssumption` (a finite set of nodes, natural bounds), `AutoscaleAssumption` (any
keep_alive nodes, any forms of timeouts), `JoinAssumption` (finite resources, any
definition of them per instance, at least two attempts), `HealthAssumption` (every instance
has a slot_type, which `generate_autoscale_json.sh` sets for every node), `HoldAssumption` (job ids are
natural numbers, any requests, dependencies, queue default and batch),
`DemandAssumption` (any requests, settings and scheduled resources), `ResourceListAssumption`
(PBS makes the totals of a job from its chunks) and `PelogAssumption` (an alarm of at least
five seconds: the first deadline lies as many before it; any pipe and configuration).

*Autoscale.* `DeletesIdle` is not inductive: it speaks of the moment of deletion, and
what makes a node safe happened two reads and two drains earlier. `IInv` carries it
through the iteration. `PhasesInv` says which nodes each loop can still visit.
`SeenInv` says that a node read offline and free, and not assigned, is `Quiet` ever
since: without an entry, or offline and without a job, so that PBS can start nothing
on it. `MarkedInv` says that a node this iteration drained, and that was not down, is
not met a second time (the boot and idle candidates are disjoint), which is where the
write to `pbs_state` would otherwise be taken for an observation. `JoinInv` says that the
join works on no node that is drained or held. `ToDeleteInv` concludes.
`DrainedStaysOffline` is a conjunct, `HeldIsLeftAlone` follows step by step. The proof has
a step per action; nodes other than the one acted on keep their facts by lemmas
about the commands.

The join decides on an answer of `qmgr list node` that ages while it works, and operators may
remove, create and complete the entry meanwhile. `CurInv` says why it may: an entry never loses
its ccnodeid but with the entry, and a new one is made by an operator, who then opened it
(`OpensKept`) or leaves the join a command that the server refuses. So the entry the join comes to
open is joined, gone or an operator's (`JoinOpensJoined`); that the join works on one node at a time
is part of `CurInv`. From `IInv` and `CurInv` follow `JoinLeavesServing`, the case where a command fails
or is refused apart, and the refinement of `NodeEntry`: a step is one command or event at one entry and leaves the
others alone (`EntryCommand`), or touches none, though it may take any number of moms away
(`EntriesAside`).

*Lease.* What `NodeLease` demands of a release, that the node was closed and free at the
look and was not opened since, is what `IInv` says of `QuietNodes`. `RInv` adds what the mapping
needs besides: a mom is only heard of where there is an instance (`UpHasInstance`), each
node in `toDelete` is assigned, excused, unknown or quiet by the copy (`ReturnedInv`), and what
an iteration has not read or has forgotten excuses nothing (`UnreadInv`, `ForgottenInv`). The
proof maps each action to one abstract action or to a stutter.

*Node join.* `NInv` adds `WritingInv`: while resources are written the entry has no
ccnodeid, and every resource that is not in `todo` has the value of the instance the
iteration works for. This is why writing ccnodeid last is enough. `HealthInv` is `NInv` with the
types of the check: every step of `NodeHealth` is one of `NodeJoin` or leaves its invariant alone.
`SettledNodeStays` says that the instances that serve are closed under everything but faults and
CycleCloud: the installer has come to its end, an iteration that reads such an entry finds
nothing to do, and the check finds a slot_type, since by `JoinedIsComplete` a joined entry has one.
It is the safety half of `WatchedInstanceServes`. It says nothing of a verdict that fell before:
the code carries it out without another look, and so does the model.
For the refinement of `NodeEntry`, `EntryInv` adds what the position of the autoscaler says of the
entry: there is one while it is drained or removed, and it is joined when it is put online. What
the entry shows is `Unjoined` at every `qmgr set` before ccnodeid; the step that writes ccnodeid
shows all the values of the instance, by `WritingInv`. `JobsKeepImage` is proved of `NodeEntry` alone
(a job has an entry, an entry with a job is not dropped, a joined one is not joined again) and
carried over.

*Hooks.* `HInv` adds that the job whose qrls comes next is adjusted (`AdjustedInv`, at
`pc = "release"`), and that what qstat showed of a dependency is still so unless the
job is in `late` (`SeenInv`). `SystemHoldOwned` needs more (`GInv`): what is on the hook's list still
has its operator hold, since only the hook takes it off, and if qstat showed a dependency
then a system hold belongs to it (`ListedInv`); before qstat the hook knows of no
dependency (`UnseenInv`). With these, a `qrls` that leaves a system hold behind leaves it to a
dependency. In the refinement of `JobGate`, `Evaluate` is the rewrite, `Release` the
passing, for which `AdjustedInv` says that the job is fit, and `SeenInv` that a wait it cuts is fresh (the wait of a job whose attribute starts with a
`before` is no wait of the gate: the hook cuts it knowingly); the two
readings and everything that ends a run are a look or nothing.

*Demand.* `DInv` says that a counter, the promises charged to it and what was in use make
up the limit (`Balanced`), which needs that whatever is limited for a queue's jobs is on
the queue's list (`Listed`), that nothing is promised before everything is read
(`PromisedLast`), and that PBS keeps its own limits (`Capped`). `NotOverdrawn` follows, since
a counter is never negative (`TypeOK`). `SInv` says that the value a queue was read with is still
its own or else the server's (`SitesRead`); a promise then respects it. `ChunksCovered` is
arithmetic on a request and needs no invariant but `TypeOK`. In the refinement of `LicencePool`, `Listed`
is what makes a promise take from all limited owners of the path and from no other, and
`PromisedLast` what keeps looks and grants apart. `LeftIsOnlyTaken` is proved of the pool: with limits kept by
PBS, what is left at a look is not negative, and no later step of the round adds to it.

*Pelog.* `PInv` bounds the sleeps by the deadlines: one begun before a deadline ends at most
half a second late (`ClockInv`), so that SIGTERM comes 4.5 seconds before the alarm at the latest
and SIGKILL 3 seconds before it at the earliest (`SignalInv`); a script that can be killed and
leaves its pipe to nobody is over a second before the alarm (`KillableInv`); and the verdict
comes after `communicate()`, which waits for the script (`ChildInv`). In the refinement of `TimeLimit`,
`ClockInv` and `SignalInv` place each signal after the end of the time it waits for, `ChildInv` says that
a loop waits for a script that was started, and `KillableInv` that the alarm finds the hook waiting only for
a script that defies the kill. `HookKeepsLimit` is proved of the limit and carried over.

Only model-checked: the five liveness properties, since fairness and ENABLED are outside what
the prover treats (`ScalesToZero`, `DemandServed`, `OrphansReaped`, `WatchedInstanceServes`, `Released`).
Every other property of a passing run is stated by a theorem.

## 5. Where code and documentation part

Each is a run with a counterexample.

1. `drain_returns_idle`. `driver.py:491` hands a node back with "ok - it is offline _and_
   no jobs are running on it". It may be offline only because `handle_failed_nodes`
   drained it a moment ago as down, while its mom came back and PBS started a job in
   between; the idle or boot drain of the same iteration reads the mark as an
   observation. `DeletesIdle` states what does hold.
2. `timeouts_per_nodearray`. `README.md:281-283` shows timeouts per nodearray;
   `autoscaler.py:90-91` calls `int()` on the dictionary and the iteration ends before any
   scale-down.
3. `boot_timeout`. `handle_boot_timeout` ignores presumed jobs on purpose
   (`driver.py:462-463`), `autoscaler.py:122-128` then drops every node that has some.
4. `hold_dependency`. A job whose dependency is met before the periodic hook gets to it
   has lost its system hold to PBS, is not listed by `qselect -h so`, and stays held.
5. `pelog_default`. `DEFAULT_ACTION` is not used for a script that ran out of time.

Seen while modelling, present in the models, and not given a run of their own:

- a held node that goes down is removed from PBS by `handle_failed_nodes`, and with it
  the comment that is the only record of the hold (`driver.py:235-251`);
- an entry without ccnodeid, or with a mom PBS never heard from, is never removed by
  `handle_failed_nodes` (`driver.py:217-227`), so `OrphansReaped` is about the others;
- `install.sh:72` fails an installer that found its entry at the last attempt (`Counted`);
- `install.sh:85-88` speaks of a stale entry, but counts names, so that an instance
  joins by the entry of its predecessor (`CheckEntry`);
- the periodic hook raises `TypeError` for upper case vmem without mem, which blocks
  the jobs behind it as well (`RaisesTypeError`); leaves the memory of several chunks as
  it is (`summed`); lower-cases the values that follow the memory (`label`); and drops
  the grouping of a job without select syntax when the queue has a default place;
- `run_pelog_shell.py` reads the script's output only after the script is dead, so a
  script that fills the pipe is terminated as slow (`Write`, `CollectOutput`); the output of
  an interactive job's script, and on a sister mom the error output of any, raises
  `TypeError` (`Conclude`);
- `place=group=host` is not taken for an SMP job: `parse_place` keeps `group=host`,
  `parse_jobs` compares with `host` (`IsSmp`), and the job asks for slots that may be on
  several hosts, where `specs/server/cluster-init/tests/test_submit.py:161` expects one;
- the health check speaks of no slot_type "twice" (`cc-health-mom.sh:51`), but a missing state file,
  or a blank one left by a server that was down, counts as the first time; a mom that
  died before any check saw it is never noticed (line 64); a check in the middle of the
  installer's restart of pbs dismisses a node that is only waiting for its entry;
- its verdict on the slot_type is carried out by a later step without another look: if the join
  was finished and a job started in between, instance and job are lost all the same
  (`Dismiss`; `SettledStays` is about verdicts still to come);
- a `depend` attribute that starts with a `before` and goes on with an `after` counts as a
  `before` alone (`eq_submit_hook.py:136`): the hook takes the hold of the pending dependency off
  (`"mixed"`, which `DependencyHonoured` and `Waits` leave out);
- a resource whose value is False is written as 1 (`driver.py:419`, `Written`);
- `driver.py:907` skips the nodes that are *not* on premises if `ignore_onprem` is set;
- PBS is read before the lock that keeps a second autoscaler out is taken
  (`autoscaler.py:45`, `171`): a second process may act on a copy older than the first one's
  actions; the models have one iteration at a time;
- each kind of chunk of a job becomes a Job object of its own with the node count and
  the licences of the whole job: a job of two kinds is charged twice and may be served
  in part; a chunk that does not mention a resource inherits the job's total, so that
  the chunks beside a GPU chunk ask for a GPU as well (`Slots`, `NgpusOf`, `Share`);
- one job that asks for a resource neither its queue nor the server has set ends the
  iteration for all (`ReadJobsRaises`);
- shares are floats: subtracting 1/9 from 1 eight times leaves less than 1/9, so that a
  job of nine nodes that asks for the one licence left is not served in full. `Demand`
  counts exactly;
- `PBSProQueue.uses_placement` is true of the queues without a `node_group_key`;
- `calculate_demand` hands its context handler to `new_demand_calculator` by position, where
  the driver is expected (`autoscaler.py:150-152`, `206-208`); `main()` has such a handler. The models
  describe the iteration without one.

## 6. Not modelled, and why

Listed with reasons under "components": deployment, packaging, templates, mail, cron,
backup and restore are straight-line or one-shot I/O; older hooks and patches are
superseded copies; `pbscmd.py` is a subprocess per command. In the modelled parts:
the choice of nodes and buckets, packing and placement groups belong to scalelib; printing, logging and
configuration files carry no state the properties tell apart.

## 7. Plan

All components with state of their own are modelled, and all safety properties,
action properties and refinements the runs check are proved. What could be added:

1. a second `azpbs` that waits for the lock with an old copy, once the behaviour of
   scalelib's lock and node history can be read from a source;
2. *Demand*, further: the free resources of nodes (`parse_scheduler_node`) beside the shared
   ones, files of `server_dyn_res`, and the float shares of a licence;
3. users who alter the select or place of a held job while the periodic hook works on it.
