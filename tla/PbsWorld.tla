------------------------------ MODULE PbsWorld ------------------------------
(***************************************************************************)
(* What the autoscaler acts on: the node table of the PBS server, the jobs *)
(* PBS runs, the CycleCloud instances and the installer that runs on each  *)
(* of them.  A node is one hostname: the CycleCloud node that owns it and  *)
(* the entry of that name in the PBS node table.                           *)
(*                                                                         *)
(* Covered: the pbsnodes and qmgr commands the repository issues, by their *)
(* effect on one entry; the self-offline of an execute node; jobs          *)
(* starting, ending and being requeued; instances booting, failing and     *)
(* being evicted.  The commands of operators are in PbsAutoscale.          *)
(* Not covered: resources of an entry (see NodeJoin), several jobs on one  *)
(* node, jobs spanning nodes.                                              *)
(***************************************************************************)
EXTENDS Naturals, FiniteSets

CONSTANTS
    Node,             \* hostnames the cluster may use
    MaxJobs,          \* bound: jobs waiting or running at one time
    MaxFaults,        \* bound: failed commands, crashes, lost moms and instances
    OperatorActive,   \* whether anybody uses azpbs by hand
    StuckBoot         \* instances that never finish booting

ASSUME WorldAssumption ==
    /\ IsFiniteSet(Node)
    /\ MaxJobs \in Nat
    /\ MaxFaults \in Nat
    /\ OperatorActive \in BOOLEAN
    /\ StuckBoot \subseteq Node

VARIABLES
    known,     \* nodes with an entry in the PBS node table
    joined,    \* entries whose resources_available.ccnodeid is set
    offline,   \* entries marked offline
    note,      \* comment of an entry, by the prefix the driver tests
    mom,       \* what the server knows of the node's pbs_mom
    busy,      \* nodes running a job
    queued,    \* number of jobs waiting to run
    cc,        \* CycleCloud state of the instance behind a node
    guard,     \* nodes whose installer has left its pbs.nodecreated file
    faults     \* faults so far

table == <<known, joined, offline, note, mom>>
load  == <<busy, queued>>
cloud == <<cc, guard>>
world == <<known, joined, offline, note, mom, busy, queued, cc, guard, faults>>

\* "cc" stands for the comments that start with "cyclecloud offline",
\* "cyclecloud joined" or "cyclecloud restored": the driver treats the three
\* alike.  "keep" is "cyclecloud keep offline[: text]".
Notes      == {"none", "cc", "keep"}
\* A server that never heard from a mom reports "state-unknown,down", one
\* that lost it "down".
MomStates  == {"unknown", "down", "up"}
\* "new" is an instance CycleCloud has not given a hostname yet.
CloudStates == {"absent", "new", "booting", "ready", "failed"}

WorldTypeOK ==
    /\ known \subseteq Node
    /\ joined \subseteq known
    /\ offline \subseteq known
    /\ note \in [Node -> Notes]
    /\ mom \in [Node -> MomStates]
    /\ busy \subseteq known
    /\ queued \in 0..MaxJobs
    /\ cc \in [Node -> CloudStates]
    /\ guard \subseteq Node
    /\ faults \in 0..MaxFaults

WorldInit ==
    /\ known = {}
    /\ joined = {}
    /\ offline = {}
    /\ note = [n \in Node |-> "none"]
    /\ mom = [n \in Node |-> "unknown"]
    /\ busy = {}
    /\ queued = 0
    /\ cc = [n \in Node |-> "absent"]
    /\ guard = {}
    /\ faults = 0

Fault == faults < MaxFaults /\ faults' = faults + 1

HasHostname(n) == cc[n] \in {"booting", "ready", "failed"}
Down(n) == mom[n] # "up"

-----------------------------------------------------------------------------
(* Commands: the effect of one invocation of pbsnodes or qmgr that succeeds. *)

\* pbsnodes -o n -C c
SetOffline(n, c) ==
    /\ n \in known
    /\ offline' = offline \cup {n}
    /\ note' = [note EXCEPT ![n] = c]
    /\ UNCHANGED <<known, joined, mom>>

\* pbsnodes -r n -C c
SetOnline(n, c) ==
    /\ n \in known
    /\ offline' = offline \ {n}
    /\ note' = [note EXCEPT ![n] = c]
    /\ UNCHANGED <<known, joined, mom>>

\* qmgr create node n
CreateEntry(n) ==
    /\ n \notin known
    /\ known' = known \cup {n}
    /\ UNCHANGED <<joined, offline, note, mom>>

\* qmgr set node n resources_available.ccnodeid=<id>
SetNodeId(n) ==
    /\ n \in known
    /\ joined' = joined \cup {n}
    /\ UNCHANGED <<known, offline, note, mom>>

\* Mutant: the entry goes, its ccnodeid stays in the books.
DeleteEntryKeepsId(n) ==
    /\ n \in known \ busy
    /\ known' = known \ {n}
    /\ offline' = offline \ {n}
    /\ note' = [note EXCEPT ![n] = "none"]
    /\ mom' = [mom EXCEPT ![n] = "unknown"]
    /\ UNCHANGED joined

\* qmgr delete node n: the server refuses to delete a node with a job on it
DeleteEntry(n) ==
    /\ n \in known \ busy
    /\ known' = known \ {n}
    /\ joined' = joined \ {n}
    /\ offline' = offline \ {n}
    /\ note' = [note EXCEPT ![n] = "none"]
    /\ mom' = [mom EXCEPT ![n] = "unknown"]

-----------------------------------------------------------------------------
(* Jobs. *)

Submit ==
    /\ queued + Cardinality(busy) < MaxJobs
    /\ queued' = queued + 1
    /\ UNCHANGED <<table, busy, cloud, faults>>

\* The PBS scheduler starts a job on a node that is free: up, not offline.
StartJob(n) ==
    /\ queued > 0
    /\ n \in known \ (offline \cup busy)
    /\ mom[n] = "up"
    /\ queued' = queued - 1
    /\ busy' = busy \cup {n}
    /\ UNCHANGED <<table, cloud, faults>>

EndJob(n) ==
    /\ n \in busy
    /\ mom[n] = "up"
    /\ busy' = busy \ {n}
    /\ UNCHANGED <<table, queued, cloud, faults>>

\* The server gives up on a node it lost and requeues its job.
Requeue(n) ==
    /\ n \in busy
    /\ mom[n] = "down"
    /\ queued < MaxJobs
    /\ busy' = busy \ {n}
    /\ queued' = queued + 1
    /\ UNCHANGED <<table, cloud, faults>>

-----------------------------------------------------------------------------
(* Instances. *)

GetHostname(n) ==
    /\ cc[n] = "new"
    /\ cc' = [cc EXCEPT ![n] = "booting"]
    /\ UNCHANGED <<table, load, guard, faults>>

BecomeReady(n) ==
    /\ cc[n] = "booting"
    /\ n \notin StuckBoot
    /\ cc' = [cc EXCEPT ![n] = "ready"]
    /\ UNCHANGED <<table, load, guard, faults>>

\* specs/execute install.sh restarts pbs until the server knows the host, so
\* the mom of an instance with an entry comes up while it boots or later.
MomUp(n) ==
    /\ n \in known \ StuckBoot
    /\ cc[n] \in {"booting", "ready"}
    /\ Down(n)
    /\ mom' = [mom EXCEPT ![n] = "up"]
    /\ UNCHANGED <<known, joined, offline, note, load, cloud, faults>>

MomLost(n) ==
    /\ mom[n] = "up"
    /\ Fault
    /\ mom' = [mom EXCEPT ![n] = "down"]
    /\ UNCHANGED <<known, joined, offline, note, load, cloud>>

\* The execute node marks itself offline the first time the server knows it.
SelfOffline(n) ==
    /\ cc[n] = "booting"
    /\ n \notin guard
    /\ SetOffline(n, "cc")
    /\ guard' = guard \cup {n}
    /\ UNCHANGED <<load, cc, faults>>

\* A converge that fails for good.
FailInstance(n) ==
    /\ cc[n] = "booting"
    /\ Fault
    /\ cc' = [cc EXCEPT ![n] = "failed"]
    /\ UNCHANGED <<table, load, guard>>

\* The effect on moms and instances of taking the instances S away.
Terminate(S) ==
    /\ cc' = [n \in Node |-> IF n \in S THEN "absent" ELSE cc[n]]
    /\ guard' = guard \ S
    /\ mom' = [n \in Node |-> IF n \in S /\ mom[n] = "up" THEN "down" ELSE mom[n]]

\* A spot eviction, a termination from the CycleCloud pages, or the half of
\* `azpbs delete_nodes' that takes the instance away.
Evict(n) ==
    /\ cc[n] # "absent"
    /\ Fault
    /\ Terminate({n})
    /\ UNCHANGED <<known, joined, offline, note, load>>

\* CycleCloud itself disposes of failed instances; the autoscaler never does.
ReapFailed(n) ==
    /\ cc[n] = "failed"
    /\ Terminate({n})
    /\ UNCHANGED <<known, joined, offline, note, load, faults>>
=============================================================================
