------------------------------ MODULE NodeJoin ------------------------------
(***************************************************************************)
(* One hostname and the instances that come to own it one after the other: *)
(* how the autoscaler writes the entry of the hostname in the PBS node      *)
(* table, one qmgr command at a time, while the installer of the instance   *)
(* waits for that entry, and what an instance finds that its predecessor    *)
(* left.                                                                    *)
(*                                                                          *)
(* Covered: add_nodes_to_cluster with its resources, handle_failed_nodes    *)
(* and handle_post_delete on this entry, the death of the autoscaler        *)
(* between any two commands, install.sh with its attempts, its guard file   *)
(* and its retry by the next converge.  Not covered: jobs (PbsAutoscale),   *)
(* the commands of operators on the entry, azpbs join_nodes, remove_nodes   *)
(* and delete_nodes among them (PbsAutoscale), several hostnames for one    *)
(* node id.                                                                 *)
(***************************************************************************)
EXTENDS Naturals, FiniteSets

CONSTANTS
    Resource,      \* resource definitions of the server, ccnodeid aside
    MaxInstance,   \* bound: instances that come to own the hostname
    Defined,       \* the resources whose value is not None, for each instance
    Negative,      \* of these, the ones whose value is False
    MaxRetries,    \* MAX_RETRIES of install.sh
    MaxFaults      \* bound: iterations that die and commands that fail

ASSUME JoinAssumption ==
    /\ IsFiniteSet(Resource)
    /\ MaxInstance \in Nat \ {0}
    /\ Defined \in [1..MaxInstance -> SUBSET Resource]
    /\ Negative \in [1..MaxInstance -> SUBSET Resource]
    /\ MaxRetries \in Nat \ {0, 1}
    /\ MaxFaults \in Nat

Instance == 1..MaxInstance
\* 0 stands for no instance and for a value that is not set.
Owner == 0..MaxInstance
\* The value 1, which is what `"1" if bool else "0"' makes of False.
Yes == MaxInstance + 1
Texts == Owner \cup {Yes}
\* The text that stands for i's value of resource r.
Written(r, i) == IF r \in Negative[i] THEN Yes ELSE i

VARIABLES
    inst,     \* the instance that owns the hostname, 0 if none does
    made,     \* instances so far
    known,    \* whether the server has an entry of the hostname
    ccnodeid, \* its resources_available.ccnodeid, by the instance it names
    res,      \* its other resources, by the instance whose value it is
    offline,  \* whether the entry is marked offline
    mom,      \* what the server knows of the mom: unknown, down or up
    pc,       \* the next command of the autoscaler
    seen,     \* the instance this iteration works for
    todo,     \* resources the iteration has still to set
    stage,    \* what the installer of inst does next
    running,  \* whether pbs has been started on inst
    attempt,  \* ATTEMPT of install.sh
    found,    \* whether the last pbsnodes of install.sh found the entry
    guard,    \* pbs.nodecreated
    faults

entry     == <<known, ccnodeid, res, offline>>
installer == <<stage, running, attempt, found, guard>>
scaler    == <<pc, seen, todo>>
vars == <<inst, made, known, ccnodeid, res, offline, mom, pc, seen, todo,
          stage, running, attempt, found, guard, faults>>

Steps  == {"idle", "join", "create", "resources", "ccnodeid", "online", "restore",
           "drain", "remove"}
Stages == {"off", "await", "retry", "counted", "gaveup", "guard", "offline", "touch",
           "activate", "failed", "done"}

TypeOK ==
    /\ inst \in Owner
    /\ made \in Owner
    /\ known \in BOOLEAN
    /\ ccnodeid \in Owner
    /\ res \in [Resource -> Texts]
    /\ offline \in BOOLEAN
    /\ mom \in {"unknown", "down", "up"}
    /\ pc \in Steps
    /\ seen \in Owner
    /\ todo \subseteq Resource
    /\ stage \in Stages
    /\ running \in BOOLEAN
    /\ attempt \in 1..MaxRetries
    /\ found \in BOOLEAN
    /\ guard \in BOOLEAN
    /\ faults \in 0..MaxFaults

Unset == [r \in Resource |-> 0]

Init ==
    /\ inst = 0 /\ made = 0
    /\ known = FALSE /\ ccnodeid = 0 /\ res = Unset /\ offline = FALSE
    /\ mom = "unknown"
    /\ pc = "idle" /\ seen = 0 /\ todo = {}
    /\ stage = "off" /\ running = FALSE /\ attempt = 1 /\ found = FALSE /\ guard = FALSE
    /\ faults = 0

-----------------------------------------------------------------------------
(* Instances. *)

\* CycleCloud gives the hostname to a new instance, whose converge starts.
Boot ==
    /\ inst = 0
    /\ made < MaxInstance
    /\ made' = made + 1
    /\ inst' = made + 1
    /\ stage' = "await"
    /\ attempt' = 1
    /\ UNCHANGED <<entry, mom, scaler, running, found, guard, faults>>

\* Deleted by the autoscaler, evicted or terminated by somebody: its disk goes
\* with it, the entry stays.
Gone ==
    /\ inst # 0
    /\ inst' = 0
    /\ mom' = IF mom = "up" THEN "down" ELSE mom
    /\ stage' = "off"
    /\ running' = FALSE
    /\ attempt' = 1
    /\ found' = FALSE
    /\ guard' = FALSE
    /\ UNCHANGED <<made, entry, scaler, faults>>

-----------------------------------------------------------------------------
(* install.sh and activate.sh. *)

InstallerStep == UNCHANGED <<inst, made, known, ccnodeid, res, mom, scaler, faults>>

\* The first await_node_definition: if it succeeds the loop is never entered.
Await ==
    /\ stage = "await"
    /\ found' = known
    /\ stage' = IF known THEN "guard" ELSE "retry"
    /\ UNCHANGED <<offline, running, attempt, guard>>
    /\ InstallerStep

\* Mutant: the loop goes on while ATTEMPT is at most MAX_RETRIES.
RetryOnceMore ==
    /\ stage = "retry"
    /\ attempt <= MaxRetries
    /\ running' = TRUE
    /\ attempt' = attempt + 1
    /\ found' = known
    /\ stage' = IF known \/ attempt' > MaxRetries THEN "counted" ELSE "retry"
    /\ UNCHANGED <<offline, guard>>
    /\ InstallerStep

\* One turn of the loop: restart pbs, sleep, count, ask again.
Retry ==
    /\ stage = "retry"
    /\ attempt < MaxRetries
    /\ running' = TRUE
    /\ attempt' = attempt + 1
    /\ found' = known
    /\ stage' = IF known \/ attempt' = MaxRetries THEN "counted" ELSE "retry"
    /\ UNCHANGED <<offline, guard>>
    /\ InstallerStep

\* After the loop the number of attempts is all that is looked at.
Counted ==
    /\ stage = "counted"
    /\ stage' = IF attempt = MaxRetries THEN "gaveup" ELSE "guard"
    /\ UNCHANGED <<offline, running, attempt, found, guard>>
    /\ InstallerStep

\* pbsnodes prints the name of an entry at least twice, and once in the error
\* message if there is no entry: NNAMES tells nothing else apart.
CheckEntry ==
    /\ stage = "guard"
    /\ stage' = IF guard THEN "activate" ELSE IF known THEN "offline" ELSE "failed"
    /\ UNCHANGED <<offline, running, attempt, found, guard>>
    /\ InstallerStep

\* pbsnodes -o, which fails if the entry has gone meanwhile.
SelfOffline ==
    /\ stage = "offline"
    /\ stage' = IF known THEN "touch" ELSE "failed"
    /\ offline' = (known \/ offline)
    /\ UNCHANGED <<running, attempt, found, guard>>
    /\ InstallerStep

Touch ==
    /\ stage = "touch"
    /\ guard' = TRUE
    /\ stage' = "activate"
    /\ UNCHANGED <<offline, running, attempt, found>>
    /\ InstallerStep

\* systemctl start pbs
Activate ==
    /\ stage = "activate"
    /\ running' = TRUE
    /\ stage' = "done"
    /\ UNCHANGED <<offline, attempt, found, guard>>
    /\ InstallerStep

\* The next converge runs the script again.
Converge ==
    /\ stage \in {"gaveup", "failed"}
    /\ stage' = "await"
    /\ attempt' = 1
    /\ UNCHANGED <<offline, running, found, guard>>
    /\ InstallerStep

\* A pbs_mom that runs is heard by a server that has its entry.
MomUp ==
    /\ known
    /\ running
    /\ mom # "up"
    /\ mom' = "up"
    /\ UNCHANGED <<inst, made, entry, scaler, installer, faults>>

MomLost ==
    /\ mom = "up"
    /\ faults < MaxFaults
    /\ faults' = faults + 1
    /\ mom' = "down"
    /\ UNCHANGED <<inst, made, entry, scaler, installer>>

-----------------------------------------------------------------------------
(* The autoscaler. *)

Ends == pc' = "idle" /\ seen' = 0 /\ todo' = {}

ScalerStep(step) ==
    /\ pc' = step
    /\ UNCHANGED <<inst, made, mom, installer, seen, todo, faults>>

\* handle_failed_nodes deletes a joined entry that is down and offline, and
\* drains one that is down for long enough; the join comes next.  The name of an
\* instance that has gone may resolve or not: without an address its entry is
\* deleted undrained.
Failed == known /\ ccnodeid # 0 /\ mom = "down"

Begin ==
    /\ pc = "idle"
    /\ seen' = inst
    /\ \/ Failed /\ (offline \/ inst = 0) /\ pc' = "remove"
       \/ Failed /\ ~offline /\ pc' = "drain"
       \/ ~(Failed /\ offline) /\ inst # 0 /\ pc' = "join"
    /\ UNCHANGED <<inst, made, entry, mom, installer, todo, faults>>

\* pbsnodes -o -C "cyclecloud offline"; the mark keeps the join off this node.
Drain ==
    /\ pc = "drain"
    /\ Ends
    /\ offline' = known
    /\ UNCHANGED <<inst, made, known, ccnodeid, res, mom, installer, faults>>

Forget ==
    /\ known' = FALSE
    /\ ccnodeid' = 0
    /\ res' = Unset
    /\ offline' = FALSE
    /\ mom' = "unknown"

\* qmgr delete node
Remove ==
    /\ pc = "remove"
    /\ Forget
    /\ pc' = IF seen = 0 THEN "idle" ELSE "join"
    /\ UNCHANGED <<inst, made, installer, seen, todo, faults>>

\* A deletion that fails is logged; the iteration goes on to the join.
RemoveFails ==
    /\ pc = "remove"
    /\ faults < MaxFaults
    /\ faults' = faults + 1
    /\ pc' = IF seen = 0 THEN "idle" ELSE "join"
    /\ UNCHANGED <<inst, made, entry, mom, installer, seen, todo>>

\* Mutant: an entry that exists is taken to have its resources.
ListNodeTrustsEntry ==
    /\ pc = "join"
    /\ UNCHANGED <<inst, made, entry, mom, installer, faults>>
    /\ \/ known /\ ccnodeid # 0 /\ offline /\ pc' = "restore" /\ UNCHANGED <<seen, todo>>
       \/ known /\ ccnodeid # 0 /\ ~offline /\ Ends
       \/ known /\ ccnodeid = 0 /\ pc' = "ccnodeid" /\ UNCHANGED <<seen, todo>>
       \/ ~known /\ pc' = "create" /\ UNCHANGED <<seen, todo>>

\* Mutant: a joined entry is left as it is, offline or not.
ListNodeNoRestore ==
    /\ pc = "join"
    /\ UNCHANGED <<inst, made, entry, mom, installer, faults>>
    /\ \/ known /\ ccnodeid # 0 /\ Ends
       \/ known /\ ccnodeid = 0 /\ pc' = "resources" /\ todo' = Defined[seen]
             /\ UNCHANGED seen
       \/ ~known /\ pc' = "create" /\ UNCHANGED <<seen, todo>>

\* qmgr list node: what is there decides what is left to do.
ListNode ==
    /\ pc = "join"
    /\ UNCHANGED <<inst, made, entry, mom, installer, faults>>
    /\ \/ known /\ ccnodeid # 0 /\ offline /\ pc' = "restore" /\ UNCHANGED <<seen, todo>>
       \/ known /\ ccnodeid # 0 /\ ~offline /\ Ends
       \/ known /\ ccnodeid = 0 /\ pc' = "resources" /\ todo' = Defined[seen]
             /\ UNCHANGED seen
       \/ ~known /\ pc' = "create" /\ UNCHANGED <<seen, todo>>

CreateNode ==
    /\ pc = "create"
    /\ known' = TRUE
    /\ pc' = "resources"
    /\ todo' = Defined[seen]
    /\ UNCHANGED <<inst, made, ccnodeid, res, offline, mom, installer, seen, faults>>

\* qmgr set node resources_available.r
SetResource(r) ==
    /\ pc = "resources"
    /\ r \in todo
    /\ res' = [res EXCEPT ![r] = Written(r, seen)]
    /\ todo' = todo \ {r}
    /\ UNCHANGED <<inst, made, known, ccnodeid, offline, mom, pc, seen, installer, faults>>

ResourcesSet ==
    /\ pc = "resources"
    /\ todo = {}
    /\ ScalerStep("ccnodeid")
    /\ UNCHANGED entry

SetNodeId ==
    /\ pc = "ccnodeid"
    /\ ccnodeid' = seen
    /\ ScalerStep("online")
    /\ UNCHANGED <<known, res, offline>>

\* pbsnodes -r -C "cyclecloud joined" or "cyclecloud restored"
Online ==
    /\ pc \in {"online", "restore"}
    /\ offline' = FALSE
    /\ Ends
    /\ UNCHANGED <<inst, made, known, ccnodeid, res, mom, installer, faults>>

\* handle_post_delete, for an instance the autoscaler has deleted.
PostDelete ==
    /\ pc = "idle"
    /\ inst = 0
    /\ known
    /\ pc' = "remove"
    /\ UNCHANGED <<inst, made, entry, mom, installer, seen, todo, faults>>

\* The process dies, or a command of the join fails and the node waits for the
\* next cycle.
Abort ==
    /\ pc # "idle"
    /\ faults < MaxFaults
    /\ faults' = faults + 1
    /\ Ends
    /\ UNCHANGED <<inst, made, entry, mom, installer>>

-----------------------------------------------------------------------------
Iteration ==
    \/ Begin \/ Drain \/ Remove
    \/ ListNode \/ CreateNode \/ ResourcesSet \/ SetNodeId \/ Online
    \/ \E r \in Resource : SetResource(r)

Installer ==
    \/ Await \/ Retry \/ Counted \/ CheckEntry
    \/ SelfOffline \/ Touch \/ Activate \/ Converge

Next ==
    \/ Boot \/ Gone \/ MomUp \/ MomLost
    \/ Iteration \/ PostDelete \/ RemoveFails \/ Abort
    \/ Installer

Spec == Init /\ [][Next]_vars

-----------------------------------------------------------------------------
(* Properties. *)

\* "ccnodeid is set last, so that ...": an entry that names instance i carries
\* what a join of i writes for every resource i defines, whatever an interrupted
\* join or an earlier owner of the hostname left in it.
JoinedIsComplete ==
    ccnodeid # 0 => \A r \in Defined[ccnodeid] : res[r] = Written(r, ccnodeid)

-----------------------------------------------------------------------------
(* The inductive invariant behind JoinedIsComplete (NodeJoin_proofs). *)

\* While the resources are written there is an entry without ccnodeid, and
\* what is not to do is done.
WritingInv ==
    /\ pc \in {"join", "create", "resources", "ccnodeid"} => seen # 0
    /\ pc \in {"create", "resources", "ccnodeid"} => ccnodeid = 0
    /\ pc \in {"resources", "ccnodeid"} =>
         /\ known
         /\ todo \subseteq Defined[seen]
         /\ \A r \in Defined[seen] \ todo : res[r] = Written(r, seen)
    /\ pc = "ccnodeid" => todo = {}
    /\ ~known => ccnodeid = 0

NInv == TypeOK /\ WritingInv /\ JoinedIsComplete
=============================================================================
