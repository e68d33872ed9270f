---------------------------- MODULE PbsAutoscale ----------------------------
(***************************************************************************)
(* One autoscaler (`azpbs autoscale', run by a PBS hook every 15 seconds)  *)
(* against the world of PbsWorld.  An iteration reads the jobs, then the   *)
(* node table, then CycleCloud, and works on these copies; every command   *)
(* it issues afterwards meets the world as it is by then.  A step of this  *)
(* module is one read or one command, so that jobs, moms, instances,       *)
(* installers and operators move between any two of them.                  *)
(*                                                                         *)
(* Covered: autoscale_pbspro and the handlers it calls, the failure of     *)
(* each command and of the whole process, both timeouts (a timeout may     *)
(* elapse in any iteration); the azpbs commands that change entries by     *)
(* hand (offline, online, join_nodes, remove_nodes, delete_nodes), one     *)
(* pbsnodes or qmgr command at a time, in any order and number.  Not       *)
(* covered: how demand is matched to nodes (the scalelib library: any      *)
(* maximal choice), buckets and limits of new nodes, node resources,       *)
(* ignored nodes, hostname validation; azpbs create_nodes and              *)
(* retry_failed_nodes, which bring instances up apart from any demand; two *)
(* autoscale processes at a time.                                          *)
(***************************************************************************)
EXTENDS PbsWorld

CONSTANTS
    KeepAlive,            \* nodes created with keep_alive
    TimeoutForms          \* what the timeouts of autoscale.json may be

ASSUME AutoscaleAssumption ==
    /\ KeepAlive \subseteq Node
    /\ TimeoutForms \subseteq {"number", "dictionary"}

VARIABLES
    pc,        \* the step of the iteration to take next
    todo,      \* nodes the current loop has not visited
    cur,       \* the nodes (at most one) the join loop is working on
    seenJobs,  \* queued jobs this iteration read
    snap,      \* the node table this iteration read (pbs_env.scheduler_nodes)
    seenCC,    \* the instance states this iteration read
    held,      \* nodes assigned "keep_offline" by preprocess_node_mgr
    matched,   \* existing nodes presumed to run the queued jobs
    wanted,    \* nodes the demand asks CycleCloud to create
    marked,    \* nodes with _marked_offline_this_iteration_
    toDelete,  \* nodes the drain handlers returned
    onlined    \* history: nodes an operator opened during this iteration

plan == <<seenJobs, snap, seenCC, held, matched, wanted>>
iter == <<pc, todo, cur, seenJobs, snap, seenCC, held, matched, wanted, marked,
          toDelete, onlined>>
vars == <<known, joined, offline, note, mom, busy, queued, cc, guard, faults,
          pc, todo, cur, seenJobs, snap, seenCC, held, matched, wanted, marked,
          toDelete, onlined>>

Phases == {"idle", "nodes", "cloud", "failed", "faildrain", "faildelete",
           "join", "create", "setid", "joined", "restore", "bootup",
           "timeouts", "bootdrain", "idledrain", "delete", "post"}

\* The phases in which the join loop works on a node.
JoinPhases == {"create", "setid", "joined", "restore"}

Snapshots == [known : SUBSET Node, joined : SUBSET Node, offline : SUBSET Node,
              busy : SUBSET Node, down : SUBSET Node, unknown : SUBSET Node,
              dns : SUBSET Node]
NoSnapshot == [known |-> {}, joined |-> {}, offline |-> {}, busy |-> {},
               down |-> {}, unknown |-> {}, dns |-> {}]

TypeOK ==
    /\ WorldTypeOK
    /\ pc \in Phases
    /\ todo \subseteq Node
    /\ cur \subseteq Node
    /\ seenJobs \in 0..MaxJobs
    /\ snap \in Snapshots
    /\ seenCC \in [Node -> CloudStates]
    /\ held \subseteq Node
    /\ matched \subseteq Node
    /\ wanted \subseteq Node
    /\ marked \subseteq Node
    /\ toDelete \subseteq Node
    /\ onlined \subseteq Node

\* What the program forgets when it ends; the next iteration is a new process.
FreshIteration ==
    /\ pc' = "idle"
    /\ todo' = {}
    /\ cur' = {}
    /\ seenJobs' = 0
    /\ snap' = NoSnapshot
    /\ seenCC' = [n \in Node |-> "absent"]
    /\ held' = {}
    /\ matched' = {}
    /\ wanted' = {}
    /\ marked' = {}
    /\ toDelete' = {}
    /\ onlined' = {}

Init ==
    /\ WorldInit
    /\ pc = "idle"
    /\ todo = {}
    /\ cur = {}
    /\ seenJobs = 0
    /\ snap = NoSnapshot
    /\ seenCC = [n \in Node |-> "absent"]
    /\ held = {}
    /\ matched = {}
    /\ wanted = {}
    /\ marked = {}
    /\ toDelete = {}
    /\ onlined = {}

-----------------------------------------------------------------------------
(* Reading the world. *)

ReadJobs ==
    /\ pc = "idle"
    /\ pc' = "nodes"
    /\ seenJobs' = queued
    /\ UNCHANGED <<world, todo, cur, snap, seenCC, held, matched, wanted, marked,
                   toDelete, onlined>>

\* pbsnodes -a.  A hostname whose instance is gone may or may not still
\* resolve (private_ip); one with an instance does.
ReadNodes ==
    /\ pc = "nodes"
    /\ pc' = "cloud"
    /\ \E stale \in SUBSET {n \in known : ~HasHostname(n)} :
         snap' = [known |-> known, joined |-> joined, offline |-> offline,
                  busy |-> busy, down |-> {n \in known : Down(n)},
                  unknown |-> {n \in known : mom[n] = "unknown"},
                  dns |-> stale \cup {n \in Node : HasHostname(n)}]
    /\ UNCHANGED <<world, todo, cur, seenJobs, seenCC, held, matched, wanted, marked,
                   toDelete, onlined>>

\* Nodes scalelib may give a queued job: preprocess_node_mgr has closed the
\* failed ones and those the operator holds; running jobs fill a node.
Matchable(holds) ==
    {n \in Node : /\ cc[n] \notin {"absent", "failed"}
                  /\ n \notin holds
                  /\ n \notin snap.busy}

AtMost(S, k) == {T \in SUBSET S : Cardinality(T) = k}
Least(a, b) == IF a <= b THEN a ELSE b

\* The CycleCloud nodes, a second pbsnodes -a for the comments of held nodes,
\* then the match: queued jobs go to existing nodes first, to new ones next.
ReadCloud ==
    /\ pc = "cloud"
    /\ pc' = "failed"
    /\ seenCC' = cc
    /\ held' = {n \in Node : HasHostname(n) /\ n \in joined /\ note[n] = "keep"}
    /\ LET old == Matchable(held')
           new == {n \in Node : cc[n] = "absent"}
           m   == Least(seenJobs, Cardinality(old))
       IN /\ \E M \in AtMost(old, m) : matched' = M
          /\ \E W \in AtMost(new, Least(seenJobs - m, Cardinality(new))) :
               wanted' = W
    /\ seenJobs' = 0
    /\ UNCHANGED <<world, todo, cur, snap, marked, toDelete, onlined>>

-----------------------------------------------------------------------------
(* Draining and removing nodes. *)

\* Mutant: pbs_state is consulted for this iteration's own drains only.
SeenOfflineMarksOnly(n) == n \in marked
\* node.metadata["pbs_state"]: what was read, or what a drain wrote over it.
SeenOffline(n) == n \in snap.offline \cup marked
\* Mutant: preprocess_node_mgr does not assign "keep_offline".
AssignedWithoutHold(n) == n \in snap.busy \cup matched
\* node.assignments: running jobs, presumed jobs and "keep_offline".
Assigned(n) == n \in snap.busy \cup matched \cup held

\* Mutant: a node is handed back as soon as it is marked offline.
DrainOnePhase(n, ignoreAssignments, returned) ==
    \/ /\ SeenOffline(n)
       /\ returned = (/\ Assigned(n) => ignoreAssignments
                      /\ n \notin snap.busy)
       /\ UNCHANGED <<table, faults, marked>>
    \/ /\ ~SeenOffline(n)
       /\ SetOffline(n, "cc")
       /\ marked' = marked \cup {n}
       /\ returned = TRUE
       /\ UNCHANGED faults

\* _handle_draining for one node that has a hostname; `returned' says whether
\* the node is among the ones handed back as safe to delete.
Drain(n, ignoreAssignments, returned) ==
    \/ /\ SeenOffline(n)
       /\ returned = (/\ Assigned(n) => ignoreAssignments
                      /\ n \notin snap.busy)
       /\ UNCHANGED <<table, faults, marked>>
    \/ /\ ~SeenOffline(n)
       /\ n \notin known
       /\ returned = TRUE
       /\ UNCHANGED <<table, faults, marked>>
    \/ /\ ~SeenOffline(n)
       /\ SetOffline(n, "cc")
       /\ marked' = marked \cup {n}
       /\ returned = FALSE
       /\ UNCHANGED faults
    \/ /\ ~SeenOffline(n)
       /\ n \in known
       /\ Fault
       /\ returned = FALSE
       /\ UNCHANGED <<table, marked>>

\* handle_post_delete for one node.
RemoveEntry(n) ==
    \/ DeleteEntry(n) /\ UNCHANGED faults
    \/ n \notin known \ busy /\ UNCHANGED <<table, faults>>
    \/ n \in known /\ Fault /\ UNCHANGED table

\* handle_failed_nodes sorts the nodes that were down into two lists.
FailedNodes == {n \in snap.joined \cap snap.down : n \notin KeepAlive /\ seenCC[n] # "failed"}
\* Mutant: both signs are asked for instead of either.
FailedToDeleteBoth ==
    {n \in FailedNodes \ snap.unknown : n \in snap.offline /\ n \notin snap.dns}
FailedToDelete ==
    {n \in FailedNodes \ snap.unknown : n \in snap.offline \/ n \notin snap.dns}
FailedToDrain == (FailedNodes \ snap.unknown) \ FailedToDelete

\* Any of the candidates may have been down for more than down_timeout.
HandleFailedNodes(late) ==
    /\ pc = "failed"
    /\ late \subseteq FailedToDrain
    /\ pc' = "faildrain"
    /\ todo' = late
    /\ UNCHANGED <<world, cur, plan, marked, toDelete, onlined>>

DrainFailed(n) ==
    /\ pc = "faildrain"
    /\ n \in todo
    /\ \E returned \in BOOLEAN : Drain(n, FALSE, returned)
    /\ todo' = todo \ {n}
    /\ UNCHANGED <<load, cloud, pc, cur, plan, toDelete, onlined>>

FailedDrained ==
    /\ pc = "faildrain"
    /\ todo = {}
    /\ pc' = "faildelete"
    /\ todo' = FailedToDelete
    /\ UNCHANGED <<world, cur, plan, marked, toDelete, onlined>>

DeleteFailed(n) ==
    /\ pc = "faildelete"
    /\ n \in todo
    /\ RemoveEntry(n)
    /\ todo' = todo \ {n}
    /\ UNCHANGED <<load, cloud, pc, cur, plan, marked, toDelete, onlined>>

-----------------------------------------------------------------------------
(* Joining nodes: add_nodes_to_cluster over the nodes jobs are matched to. *)

FailedDeleted ==
    /\ pc = "faildelete"
    /\ todo = {}
    /\ pc' = "join"
    /\ todo' = matched
    /\ UNCHANGED <<world, cur, plan, marked, toDelete, onlined>>

\* Mutant: the mark of this iteration's drains is not looked at.
JoinableDespiteMark(n) == n \notin held /\ seenCC[n] \in {"booting", "ready"}
Joinable(n) == n \notin marked \cup held /\ seenCC[n] \in {"booting", "ready"}

\* Mutant: an entry that is there is taken for one that has its ccnodeid.
JoinToOpening(n, step) ==
    /\ pc' = IF step = "setid" THEN "joined" ELSE step
    /\ cur' = {n}
    /\ UNCHANGED <<world, todo, plan, marked, toDelete, onlined>>

JoinTo(n, step) ==
    /\ pc' = step
    /\ cur' = {n}
    /\ UNCHANGED <<world, todo, plan, marked, toDelete, onlined>>

\* The loop leaves node n, done with it or giving up on it for this cycle.
JoinNext(n) ==
    /\ pc' = "join"
    /\ cur' = {}
    /\ todo' = todo \ {n}
    /\ UNCHANGED <<load, cloud, plan, marked, toDelete, onlined>>

\* Mutant: a joined node that is offline is skipped like any joined node.
JoinInspectNoRestore(n) ==
    /\ pc = "join"
    /\ n \in todo
    /\ \/ /\ ~Joinable(n) \/ n \in joined
          /\ JoinNext(n)
          /\ UNCHANGED <<table, faults>>
       \/ /\ Joinable(n)
          /\ n \in known \ joined
          /\ JoinTo(n, "setid")
       \/ /\ Joinable(n)
          /\ n \notin known
          /\ JoinTo(n, "create")

\* qmgr list node, and the decision that hangs on its answer.
JoinInspect(n) ==
    /\ pc = "join"
    /\ n \in todo
    /\ \/ /\ \/ ~Joinable(n)
             \/ n \in joined \ offline
             \/ n \in joined /\ note[n] # "cc"
          /\ JoinNext(n)
          /\ UNCHANGED <<table, faults>>
       \/ /\ Joinable(n)
          /\ n \in joined \cap offline
          /\ note[n] = "cc"
          /\ JoinTo(n, "restore")
       \/ /\ Joinable(n)
          /\ n \in known \ joined
          /\ JoinTo(n, "setid")
       \/ /\ Joinable(n)
          /\ n \notin known
          /\ JoinTo(n, "create")

JoinRestore(n) ==
    /\ pc = "restore"
    /\ n \in cur
    /\ SetOnline(n, "cc")
    /\ UNCHANGED faults
    /\ JoinNext(n)

JoinCreate(n) ==
    /\ pc = "create"
    /\ n \in cur
    /\ CreateEntry(n)
    /\ pc' = "setid"
    /\ UNCHANGED <<load, cloud, faults, todo, cur, plan, marked, toDelete, onlined>>

\* The resources of the node are set before ccnodeid: see NodeJoin.
JoinSetId(n) ==
    /\ pc = "setid"
    /\ n \in cur
    /\ SetNodeId(n)
    /\ pc' = "joined"
    /\ UNCHANGED <<load, cloud, faults, todo, cur, plan, marked, toDelete, onlined>>

JoinOnline(n) ==
    /\ pc = "joined"
    /\ n \in cur
    /\ SetOnline(n, "cc")
    /\ UNCHANGED faults
    /\ JoinNext(n)

\* The address does not look up, or as another name: skipped before any command.
NameFails(n) == pc = "join" /\ n \in todo

\* "Could not fully add ... Will attempt next cycle."
CommandFails(n) == pc \in JoinPhases /\ n \in cur

\* The server refuses to create an entry it has, and to set or to open one it
\* has not: an operator was there after `qmgr list node'.
CommandRefused(n) ==
    /\ n \in cur
    /\ \/ pc = "create" /\ n \in known
       \/ pc \in JoinPhases \ {"create"} /\ n \notin known

JoinFails(n) ==
    /\ \/ (NameFails(n) \/ CommandFails(n)) /\ Fault
       \/ CommandRefused(n) /\ UNCHANGED faults
    /\ UNCHANGED table
    /\ JoinNext(n)

JoinDone ==
    /\ pc = "join"
    /\ todo = {}
    /\ pc' = "bootup"
    /\ UNCHANGED <<world, todo, cur, plan, marked, toDelete, onlined>>

-----------------------------------------------------------------------------
(* Scaling. *)

Bootup ==
    /\ pc = "bootup"
    /\ pc' = "timeouts"
    /\ cc' = [n \in Node |-> IF n \in wanted /\ cc[n] = "absent" THEN "new" ELSE cc[n]]
    /\ UNCHANGED <<table, load, guard, faults, todo, cur, plan, marked, toDelete,
                   onlined>>

\* The instances that may have reached the boot timeout, and the ready nodes
\* without jobs that may have reached the idle timeout.  Both lists are made by
\* scalelib (find_booting, find_unmatched_for); that an unmatched node is a
\* ready one, so that no node is on both, is taken for granted.
BootCandidates == {n \in Node : seenCC[n] \in {"new", "booting"} /\ n \notin KeepAlive}
IdleCandidates == {n \in Node : seenCC[n] = "ready" /\ n \notin KeepAlive /\ ~Assigned(n)}

\* The configuration is read by every iteration.  A timeout given per nodearray
\* is a dictionary, for which int() raises TypeError: see TimeoutsRaise.
ReadTimeouts(late) ==
    /\ pc = "timeouts"
    /\ "number" \in TimeoutForms
    /\ late \subseteq BootCandidates
    /\ pc' = "bootdrain"
    /\ todo' = late
    /\ UNCHANGED <<world, cur, plan, marked, toDelete, onlined>>

TimeoutsRaise ==
    /\ pc = "timeouts"
    /\ "dictionary" \in TimeoutForms
    /\ FreshIteration
    /\ UNCHANGED world

\* A node without a hostname is handed back at once.
DrainStep(n, ignoreAssignments) ==
    /\ n \in todo
    /\ todo' = todo \ {n}
    /\ \/ /\ seenCC[n] = "new"
          /\ toDelete' = toDelete \cup {n}
          /\ UNCHANGED <<table, faults, marked>>
       \/ /\ seenCC[n] # "new"
          /\ \E returned \in BOOLEAN :
               /\ Drain(n, ignoreAssignments, returned)
               /\ toDelete' = IF returned THEN toDelete \cup {n} ELSE toDelete
    /\ UNCHANGED <<load, cloud, pc, cur, plan, onlined>>

DrainBootTimeout(n) == pc = "bootdrain" /\ DrainStep(n, TRUE)
DrainIdle(n) == pc = "idledrain" /\ DrainStep(n, FALSE)

BootDrained(idle) ==
    /\ pc = "bootdrain"
    /\ todo = {}
    /\ idle \subseteq IdleCandidates
    /\ pc' = "idledrain"
    /\ todo' = idle
    /\ UNCHANGED <<world, cur, plan, marked, toDelete, onlined>>

\* Mutant: what the drains return is deleted as it is.
DeletableUnfiltered == toDelete

\* "... has jobs assigned to it so we will take no action."
Deletable == {n \in toDelete : ~Assigned(n)}

IdleDrained ==
    /\ pc = "idledrain"
    /\ todo = {}
    /\ UNCHANGED world
    /\ \/ /\ Deletable # {}
          /\ pc' = "delete"
          /\ toDelete' = Deletable
          /\ UNCHANGED <<todo, cur, plan, marked, onlined>>
       \/ /\ Deletable = {}
          /\ FreshIteration

DeleteInstances ==
    /\ pc = "delete"
    /\ Terminate(toDelete)
    /\ pc' = "post"
    /\ todo' = toDelete
    /\ UNCHANGED <<known, joined, offline, note, load, faults, cur, plan, marked,
                   toDelete, onlined>>

\* A node that had no hostname is passed over.
PostDelete(n) ==
    /\ pc = "post"
    /\ n \in todo
    /\ \/ seenCC[n] = "new" /\ UNCHANGED <<table, faults>>
       \/ seenCC[n] # "new" /\ RemoveEntry(n)
    /\ todo' = todo \ {n}
    /\ UNCHANGED <<load, cloud, pc, cur, plan, marked, toDelete, onlined>>

EndIteration ==
    /\ pc = "post"
    /\ todo = {}
    /\ FreshIteration
    /\ UNCHANGED world

\* The process dies, or an exception ends the iteration: the deletion that
\* CycleCloud refuses is one ("will retry on next iteration").
Abort ==
    /\ pc # "idle"
    /\ Fault
    /\ FreshIteration
    /\ UNCHANGED <<table, load, cloud>>

-----------------------------------------------------------------------------
(* Operators.  The commands besides offline and online are in scalelib's   *)
(* command line, which calls the driver's handlers in a process of its own: *)
(* each action is one pbsnodes or qmgr command of such a handler.           *)

\* The entry of n is open from now on, and the iteration has not opened it.
OperatorOpens(n) ==
    /\ onlined' = IF pc = "idle" THEN onlined ELSE onlined \cup {n}
    /\ UNCHANGED <<load, cloud, faults, pc, todo, cur, plan, marked, toDelete>>

\* azpbs offline
OperatorOffline(n) ==
    /\ OperatorActive
    /\ HasHostname(n)
    /\ SetOffline(n, "keep")
    /\ UNCHANGED <<load, cloud, faults, iter>>

\* azpbs online, and the last command of azpbs join_nodes
OperatorOnline(n) ==
    /\ OperatorActive
    /\ HasHostname(n)
    /\ SetOnline(n, "cc")
    /\ OperatorOpens(n)

\* azpbs remove_nodes or delete_nodes: handle_draining
OperatorDrain(n) ==
    /\ OperatorActive
    /\ HasHostname(n)
    /\ n \notin offline
    /\ SetOffline(n, "cc")
    /\ UNCHANGED <<load, cloud, faults, iter>>

\* azpbs remove_nodes or delete_nodes: handle_post_delete
OperatorRemove(n) ==
    /\ OperatorActive
    /\ HasHostname(n)
    /\ DeleteEntry(n)
    /\ UNCHANGED <<load, cloud, faults, iter>>

\* azpbs join_nodes: add_nodes_to_cluster creates the entry, which is open.
OperatorCreate(n) ==
    /\ OperatorActive
    /\ HasHostname(n)
    /\ CreateEntry(n)
    /\ OperatorOpens(n)

\* azpbs join_nodes: add_nodes_to_cluster completes it.
OperatorSetId(n) ==
    /\ OperatorActive
    /\ HasHostname(n)
    /\ SetNodeId(n)
    /\ UNCHANGED <<load, cloud, faults, iter>>

OperatorStep(n) ==
    \/ OperatorOffline(n) \/ OperatorOnline(n)
    \/ OperatorDrain(n) \/ OperatorRemove(n)
    \/ OperatorCreate(n) \/ OperatorSetId(n)

-----------------------------------------------------------------------------
WorldStep(n) ==
    /\ \/ StartJob(n) \/ EndJob(n) \/ Requeue(n)
       \/ GetHostname(n) \/ BecomeReady(n) \/ FailInstance(n)
       \/ MomUp(n) \/ MomLost(n) \/ SelfOffline(n)
       \/ Evict(n) \/ ReapFailed(n)
    /\ UNCHANGED iter

NodeStep(n) ==
    \/ DrainFailed(n) \/ DeleteFailed(n)
    \/ JoinInspect(n) \/ JoinRestore(n) \/ JoinCreate(n) \/ JoinSetId(n)
    \/ JoinOnline(n)
    \/ DrainBootTimeout(n) \/ DrainIdle(n) \/ PostDelete(n)

PlainStep ==
    \/ ReadJobs \/ ReadNodes \/ ReadCloud
    \/ FailedDrained \/ FailedDeleted \/ JoinDone \/ Bootup
    \/ TimeoutsRaise \/ IdleDrained \/ DeleteInstances \/ EndIteration

TimeoutStep ==
    \E late \in SUBSET Node :
        HandleFailedNodes(late) \/ ReadTimeouts(late) \/ BootDrained(late)

Next ==
    \/ Submit /\ UNCHANGED iter
    \/ PlainStep
    \/ TimeoutStep
    \/ Abort
    \/ \E n \in Node : \/ WorldStep(n) \/ NodeStep(n) \/ JoinFails(n) \/ OperatorStep(n)

Spec == Init /\ [][Next]_vars

(***************************************************************************)
(* Fairness.  The hook starts an iteration every 15 seconds and the        *)
(* iteration runs to its end.  A timeout is a time: a node that stays a    *)
(* candidate long enough is found late.  Jobs end, instances and moms come *)
(* up, CycleCloud disposes of what failed, PBS requeues what it lost, and  *)
(* its scheduler starts a job if one could start again and again.  Nothing *)
(* is assumed of faults, operators, submissions and installers.            *)
(***************************************************************************)
IterationFairness ==
    /\ WF_vars(PlainStep \/ TimeoutStep \/ \E n \in Node : NodeStep(n))
    /\ SF_vars(HandleFailedNodes(FailedToDrain))
    /\ SF_vars(ReadTimeouts(BootCandidates))
    /\ SF_vars(BootDrained(IdleCandidates))

WorldFairness ==
    \A n \in Node :
        /\ WF_vars(EndJob(n) /\ UNCHANGED iter)
        /\ WF_vars(Requeue(n) /\ UNCHANGED iter)
        /\ WF_vars(GetHostname(n) /\ UNCHANGED iter)
        /\ WF_vars(BecomeReady(n) /\ UNCHANGED iter)
        /\ WF_vars(MomUp(n) /\ UNCHANGED iter)
        /\ WF_vars(ReapFailed(n) /\ UNCHANGED iter)
        /\ SF_vars(StartJob(n) /\ UNCHANGED iter)

FairSpec == Spec /\ IterationFairness /\ WorldFairness

-----------------------------------------------------------------------------
(* The entry of node n as the users of the table see it. *)
Entry(n) == INSTANCE NodeEntry WITH
    Image <- {"ccnodeid"}, Blank <- "none", Operator <- OperatorActive,
    present <- n \in known, shown <- IF n \in joined THEN "ccnodeid" ELSE "none",
    closed <- n \in offline, heard <- mom[n] = "up", job <- n \in busy

-----------------------------------------------------------------------------
(* Properties. *)

\* An instance is handed to CycleCloud for deletion with a job on it only if
\* the table this iteration read showed its mom down or the instance had no
\* hostname yet, or if an operator opened its entry meanwhile.  This is what
\* the two phases of draining are for: a node found free is only marked
\* offline, and goes in a later iteration that finds it offline and free.
DeletesIdle ==
    pc = "delete" =>
        \A n \in toDelete \cap busy :
            n \in snap.down \/ seenCC[n] = "new" \/ n \in onlined

\* A node drained in this iteration stays offline to the end of it, whatever
\* jobs were matched to it: add_nodes_to_cluster must not restore it.
DrainedStaysOffline ==
    \A n \in marked \cap known : n \in offline \/ n \in onlined

\* A node that the operator holds (azpbs offline), and that this iteration saw
\* both offline and held, is left alone by it: not restored, not drained over,
\* not removed from PBS, not deleted, unless PBS reported it down.
HeldIsLeftAlone ==
    [][\A n \in held :
         /\ pc' = "delete" => n \notin toDelete'
         /\ /\ iter' # iter
            /\ note[n] = "keep"
            /\ n \in snap.offline \ snap.down
            => note'[n] = "keep" \/ n \in onlined']_vars

\* The entries of all nodes, of which some steps move many at once, are entries
\* as NodeEntry describes them: between two iterations and between the commands
\* of one, nobody but an operator opens an entry that is not joined, and no
\* entry is removed under a job, whatever was read of it before.
EntriesImplemented ==
    /\ \A n \in Node : Entry(n)!Init
    /\ [][\A n \in Node : [Entry(n)!Next]_(Entry(n)!vars)]_vars

\* What the join loop is about to open has its ccnodeid, although an operator
\* may have taken the entry away and made it anew since `qmgr list node': then
\* there is no entry, and the command is refused, or the entry is one that an
\* operator opened in the meantime.
JoinOpensJoined ==
    pc \in {"restore", "joined"} => cur \subseteq joined \cup onlined \cup (Node \ known)

\* A node that the join loop leaves, no command having failed or been refused,
\* is joined and open, or closed by somebody else, or an operator has been at
\* its entry in this iteration: one that was left half joined, or closed by its
\* own installer or an earlier drain, is not passed over.
JoinLeavesServing ==
    [][\A n \in todo \ todo' :
         /\ pc \in JoinPhases \cup {"join"}
         /\ Joinable(n)
         /\ UNCHANGED faults
         /\ ~CommandRefused(n)
         => \/ n \in joined' /\ (n \in offline' => note'[n] # "cc")
            \/ n \in onlined]_vars

\* The claim of _handle_draining for a node it hands back because its
\* pbs_state says offline: "ok - it is offline _and_ no jobs are running on it."
\* pbs_state is a copy, and handle_failed_nodes has written over it.
ReturnedIsIdle ==
    pc = "delete" => \A n \in toDelete : SeenOffline(n) => n \notin busy

\* Once there is no demand any more every instance is given back, those that
\* are drained, half joined, still booting or orphaned in PBS included.
ScalesToZero ==
    <>[](queued = 0 /\ busy = {}) => <>[](\A n \in Node \ KeepAlive : cc[n] = "absent")

\* A waiting job is never starved: some node comes to run a job.
DemandServed == queued > 0 ~> busy # {}

\* An entry whose instance is gone leaves the PBS table, unless the instance
\* comes back; a partly joined entry (no ccnodeid) or one whose mom the server
\* never heard from is outside what handle_failed_nodes looks at.
OrphansReaped ==
    \A n \in Node \ KeepAlive :
        (n \in joined /\ mom[n] = "down" /\ cc[n] = "absent")
            ~> (n \notin known \/ cc[n] # "absent")

\* An instance does not stay booting for ever without running a job: its boot
\* timeout removes it, the jobs the autoscaler only presumes on it being ignored
\* ("we do not ignore actual running jobs, only presumed to run jobs").
BootTimeoutReaps ==
    \A n \in Node \ KeepAlive : []<>(cc[n] # "booting" \/ n \in busy)

-----------------------------------------------------------------------------
(***************************************************************************)
(* The inductive invariant behind DeletesIdle, DrainedStaysOffline and     *)
(* HeldIsLeftAlone (proved in PbsAutoscale_proofs).                        *)
(***************************************************************************)
DrainPhases == {"bootdrain", "idledrain", "delete", "post"}

\* Which nodes each loop may still visit, and when the working sets are empty.
PhasesInv ==
    /\ pc \in {"idle", "nodes", "cloud"} => held = {} /\ matched = {}
    /\ pc \in {"idle", "nodes", "cloud", "failed"} => todo = {} /\ marked = {}
    /\ pc \in {"idle", "nodes"} => snap = NoSnapshot
    /\ pc \notin DrainPhases => toDelete = {}
    /\ pc \notin JoinPhases => cur = {}
    /\ pc \in JoinPhases \cup {"join"} => todo \subseteq matched
    /\ pc \in {"faildrain", "faildelete"} => todo \subseteq snap.down
    /\ pc = "bootdrain" => todo \subseteq BootCandidates
    /\ pc = "idledrain" => todo \subseteq IdleCandidates
    /\ pc \in {"delete", "post"} => \A n \in toDelete : ~Assigned(n)
    /\ pc = "post" => todo \subseteq toDelete

\* The join loop works on a matched node that is neither drained nor held.
JoinInv ==
    /\ cur \subseteq matched
    /\ cur \cap (marked \cup held) = {}

\* A mark set on a node that was not down is met once only.
MarkedInv ==
    \A n \in marked :
        \/ n \in snap.down
        \/ /\ pc \in DrainPhases
           /\ pc = "bootdrain" => n \in BootCandidates \ todo
           /\ pc = "idledrain" => n \notin todo

\* PBS can start nothing on n until somebody puts it online.
Quiet(n) == n \notin known \/ n \in offline \ busy

\* What was read offline and free, and is not assigned, is still quiet.
SeenInv ==
    \A n \in snap.offline \ snap.busy : Assigned(n) \/ n \in onlined \/ Quiet(n)

ToDeleteInv ==
    \A n \in toDelete :
        \/ Assigned(n)
        \/ n \in snap.down \/ seenCC[n] = "new" \/ n \in onlined
        \/ Quiet(n)

IInv ==
    /\ TypeOK
    /\ PhasesInv
    /\ JoinInv
    /\ MarkedInv
    /\ SeenInv
    /\ ToDeleteInv
    /\ DrainedStaysOffline

\* With IInv, what EntriesImplemented and JoinLeavesServing need: the join works
\* on one node at a time, and opens without its ccnodeid no entry but one that an
\* operator made.
CurInv ==
    /\ JoinOpensJoined
    /\ \A m, n \in cur : m = n
    /\ onlined # {} => OperatorActive
=============================================================================
