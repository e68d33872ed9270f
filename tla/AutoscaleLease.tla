---------------------------- MODULE AutoscaleLease ----------------------------
(***************************************************************************)
(* The autoscaler of PbsAutoscale implements NodeLease.  A node the copy   *)
(* of the table shows offline and free counts as quiet unless the iteration*)
(* has a use for it, since the join loop may put it online then.           *)
(***************************************************************************)
EXTENDS PbsAutoscale

HeardNodes    == {n \in Node : mom[n] = "up"}
InstanceNodes == {n \in Node : cc[n] # "absent"}
QuietNodes    == {n \in snap.offline \ snap.busy : ~Assigned(n) /\ n \notin onlined}
ExcusedNodes  == snap.down \cup {n \in Node : seenCC[n] = "new"} \cup onlined
LeavingNodes  == IF pc = "delete" THEN toDelete ELSE {}

Lease == INSTANCE NodeLease WITH
    up <- HeardNodes, here <- InstanceNodes,
    quiet <- QuietNodes, excused <- ExcusedNodes, leaving <- LeavingNodes

\* Every step of an iteration, of PBS, of the operators and of the instances is
\* a step of the lease or leaves it alone: what the handlers of driver.py and
\* the two passes of autoscale_pbspro read, mark, match and filter comes to one
\* look and one release.
ImplementsLease == Lease!Spec

-----------------------------------------------------------------------------
(* What the refinement needs beyond IInv. *)

\* A mom is only heard of where there is an instance with a hostname.
UpHasInstance == \A n \in Node : mom[n] = "up" => HasHostname(n)

\* Why each node to delete may be handed back, in terms of what was read.
ReturnedInv ==
    \A n \in toDelete :
        \/ Assigned(n)
        \/ n \in ExcusedNodes
        \/ n \notin known
        \/ n \in snap.offline \ snap.busy

\* The instances are read after the nodes.
UnreadInv == pc \in {"idle", "nodes", "cloud"} => \A n \in Node : seenCC[n] = "absent"

\* Nothing is left of an iteration that has ended.
ForgottenInv == pc = "idle" => onlined = {}

RInv == IInv /\ UpHasInstance /\ ReturnedInv /\ UnreadInv /\ ForgottenInv
=============================================================================
