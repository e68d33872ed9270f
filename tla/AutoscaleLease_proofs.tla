------------------------ MODULE AutoscaleLease_proofs ------------------------
(* The autoscaler implements NodeLease, for any set of nodes and any bounds. *)
EXTENDS AutoscaleLease, PbsAutoscale_proofs

-----------------------------------------------------------------------------
(* The invariant of the refinement. *)

\* What the moms and the instances do to each other.
LEMMA UpStep ==
    ASSUME TypeOK, UpHasInstance, [Next]_vars
    PROVE  UpHasInstance'
<1> USE DEF UpHasInstance, HasHostname, TypeOK, WorldTypeOK
<1>1. CASE UNCHANGED <<mom, cc>>
  BY <1>1
<1>2. CASE PlainStep
  BY <1>2 DEF PlainStep, ReadJobs, ReadNodes, ReadCloud, FailedDrained, FailedDeleted,
              JoinDone, Bootup, TimeoutsRaise, IdleDrained, DeleteInstances, EndIteration,
              Terminate, world, table
<1>3. ASSUME NEW n \in Node, WorldStep(n)
      PROVE  UpHasInstance'
  BY <1>3 DEF WorldStep, StartJob, EndJob, Requeue, GetHostname, BecomeReady, FailInstance,
              MomUp, MomLost, SelfOffline, SetOffline, Evict, ReapFailed, Terminate, table,
              cloud
<1>4. ASSUME NEW n \in Node, NodeStep(n), ~UNCHANGED <<mom, cc>>
      PROVE  UpHasInstance'
  <2>1. UNCHANGED cc /\ (DeleteFailed(n) \/ PostDelete(n))
    BY <1>4 DEF NodeStep, DrainFailed, DeleteFailed, JoinInspect, JoinTo, JoinRestore,
                JoinCreate, JoinSetId, JoinOnline, JoinNext, DrainBootTimeout, DrainIdle,
                DrainStep, Drain, PostDelete, SetOffline, SetOnline, CreateEntry, SetNodeId,
                world, table, cloud
  <2> QED
    BY <1>4, <2>1 DEF DeleteFailed, PostDelete, RemoveEntry, DeleteEntry, table
<1>5. CASE \/ Submit \/ TimeoutStep \/ Abort \/ UNCHANGED vars
           \/ \E n \in Node : JoinFails(n)
  BY <1>1, <1>5 DEF Submit, TimeoutStep, HandleFailedNodes, ReadTimeouts, BootDrained, Abort,
                    JoinFails, JoinNext, vars, world, table, cloud
<1>6. ASSUME NEW n \in Node, OperatorStep(n)
      PROVE  UpHasInstance'
  <2>1. UNCHANGED cloud
    BY <1>6, OperatorCommand
  <2>2. UNCHANGED mom \/ DeleteEntry(n)
    BY <1>6, OperatorCommand DEF SetOffline, SetOnline, CreateEntry, SetNodeId
  <2>3. CASE DeleteEntry(n)
    BY <2>1, <2>3 DEF DeleteEntry, cloud
  <2> QED
    BY <1>1, <2>1, <2>2, <2>3 DEF cloud
<1> QED
  BY <1>1, <1>2, <1>3, <1>4, <1>5, <1>6 DEF Next

\* What a scale-down loop has just handed back.
LEMMA ReturnedNew ==
    ASSUME IInv, NEW n \in toDelete' \ toDelete, NEW ignore \in BOOLEAN,
           DrainStep(n, ignore), pc \in {"bootdrain", "idledrain"}
    PROVE  \/ Assigned(n)' \/ (n \in ExcusedNodes)'
           \/ n \notin known' \/ n \in snap'.offline \ snap'.busy
<1> UNCHANGED <<snap, seenCC, held, matched, onlined>> /\ n \in Node
  BY DEF DrainStep, plan, IInv, TypeOK
<1>1. CASE seenCC[n] = "new"
  BY <1>1 DEF ExcusedNodes
<1>2. CASE seenCC[n] # "new"
  <2>1. Drain(n, ignore, TRUE)
    BY <1>2 DEF DrainStep
  <2>2. UNCHANGED known
    BY <2>1 DEF Drain, table
  <2>3. CASE SeenOffline(n)
    <3>1. n \notin snap.busy
      BY <2>1, <2>3 DEF Drain
    <3>2. CASE n \in marked
      BY <3>2 DEF IInv, MarkedInv, DrainStep, TypeOK, ExcusedNodes
    <3> QED
      BY <2>3, <3>1, <3>2 DEF SeenOffline
  <2> QED
    BY <2>1, <2>2, <2>3 DEF Drain
<1> QED
  BY <1>1, <1>2

\* Why a node may be handed back is not forgotten before it is.
LEMMA ReturnedStep2 ==
    ASSUME IInv, ReturnedInv, [Next]_vars
    PROVE  ReturnedInv'
<1> SUFFICES ASSUME NEW n \in toDelete'
             PROVE  \/ Assigned(n)' \/ (n \in ExcusedNodes)'
                    \/ n \notin known' \/ n \in snap'.offline \ snap'.busy
  BY DEF ReturnedInv
<1>1. CASE n \notin toDelete
  BY <1>1, NextToDelete, ReturnedNew DEF IInv, CursorInv
<1>2. CASE n \in toDelete
  <2>1. pc \in DrainPhases /\ n \in Node /\ cur = {}
    BY <1>2 DEF IInv, PhasesInv, TypeOK, DrainPhases, JoinPhases
  <2>2. Keeps /\ UNCHANGED <<snap, seenCC, matched, held>>
    BY <1>2, <2>1, NextKeeps
       DEF Keeps, FreshIteration, ReadNodes, IInv, CursorInv, DrainPhases
  <2>3. n \notin known => n \notin known' \/ n \in onlined'
    BY <2>1, NextTable
       DEF TableStep, SetOnline, SetOffline, CreateEntry, SetNodeId, DeleteEntry,
           OperatorOpens, DrainPhases, IInv, TypeOK, WorldTypeOK
  <2> QED
    BY <1>2, <2>2, <2>3 DEF ReturnedInv, Assigned, ExcusedNodes, Keeps
<1> QED
  BY <1>1, <1>2

\* The copies are taken in order and dropped together.
LEMMA UnreadStep ==
    ASSUME IInv, UnreadInv, ForgottenInv, [Next]_vars
    PROVE  UnreadInv' /\ ForgottenInv'
<1> USE DEF UnreadInv, ForgottenInv, plan
<1>1. CASE FreshIteration
  BY <1>1 DEF FreshIteration
<1>2. CASE PlainStep
  BY <1>1, <1>2 DEF PlainStep, ReadJobs, ReadNodes, ReadCloud, FailedDrained, FailedDeleted,
              JoinDone, Bootup, TimeoutsRaise, IdleDrained, DeleteInstances, EndIteration
<1>3. CASE TimeoutStep
  BY <1>3 DEF TimeoutStep, HandleFailedNodes, ReadTimeouts, BootDrained
<1>4. ASSUME NEW n \in Node, NodeStep(n) \/ JoinFails(n)
      PROVE  UnreadInv' /\ ForgottenInv'
  BY <1>4 DEF NodeStep, DrainFailed, DeleteFailed, JoinInspect, JoinTo, JoinRestore,
              JoinCreate, JoinSetId, JoinOnline, JoinFails, NameFails, CommandFails,
              JoinNext, DrainBootTimeout,
              DrainIdle, DrainStep, PostDelete
<1>5. CASE UNCHANGED iter \/ UNCHANGED vars \/ \E n \in Node : OperatorOpens(n)
  BY <1>5 DEF iter, vars, OperatorOpens
<1> QED
  BY <1>1, <1>2, <1>3, <1>4, <1>5, OperatorCommand DEF Next, Abort, WorldStep

\* The invariant of the refinement holds throughout.
LEMMA RefinementInvariance == Spec => []RInv
<1>1. Init => RInv
  BY InitIInv DEF Init, WorldInit, RInv, UpHasInstance, ReturnedInv, UnreadInv, ForgottenInv
<1>2. RInv /\ [Next]_vars => RInv'
  BY NextIInv, UpStep, ReturnedStep2, UnreadStep DEF RInv, IInv
<1> QED
  BY <1>1, <1>2, PTL DEF Spec

-----------------------------------------------------------------------------
(* Each step of the autoscaler is a step of the lease. *)

LeaseStep == [Lease!Next]_(Lease!vars)

\* The lease of an iteration depends on its copies and on where it stands.
LEMMA CopiesFrame ==
    ASSUME UNCHANGED <<snap, seenCC, held, matched, onlined>>
    PROVE  UNCHANGED <<QuietNodes, ExcusedNodes>>
BY DEF QuietNodes, ExcusedNodes, Assigned

\* Outside the two steps around a deletion nothing is leaving.
LEMMA LeavingFrame ==
    ASSUME pc' = pc \/ (pc # "delete" /\ pc' # "delete"),
           toDelete' = toDelete \/ pc # "delete"
    PROVE  UNCHANGED LeavingNodes
BY DEF LeavingNodes

\* Jobs, moms and instances.
LEMMA WorldStepLease ==
    ASSUME RInv, NEW n \in Node, WorldStep(n)
    PROVE  LeaseStep
<1>1. UNCHANGED <<QuietNodes, ExcusedNodes, LeavingNodes>>
  BY CopiesFrame, LeavingFrame DEF WorldStep, iter
<1> USE <1>1 DEF LeaseStep, Lease!Next, Lease!vars, HeardNodes, InstanceNodes, table, load,
                 cloud, RInv, IInv, TypeOK, WorldTypeOK
<1>2. CASE StartJob(n)
  <2>1. Lease!Start(n)
    BY <1>2 DEF StartJob, Lease!Start
  <2> QED
    BY <2>1
<1>3. CASE EndJob(n) \/ Requeue(n)
  <2>1. Lease!Finish(n)
    BY <1>3 DEF EndJob, Requeue, Lease!Finish
  <2> QED
    BY <2>1
<1>4. CASE GetHostname(n) \/ BecomeReady(n) \/ FailInstance(n)
  <2>1. UNCHANGED InstanceNodes
    BY <1>4 DEF GetHostname, BecomeReady, FailInstance
  <2> QED
    BY <1>4, <2>1 DEF GetHostname, BecomeReady, FailInstance
<1>5. CASE MomUp(n)
  <2>1. Lease!Contact(n)
    BY <1>5 DEF MomUp, Lease!Contact
  <2> QED
    BY <2>1
<1>6. CASE MomLost(n)
  <2>1. Lease!LoseContact(n)
    BY <1>6 DEF MomLost, Lease!LoseContact
  <2> QED
    BY <2>1
<1>7. CASE SelfOffline(n)
  <2>1. Lease!Close(n)
    BY <1>7 DEF SelfOffline, SetOffline, Lease!Close
  <2> QED
    BY <2>1
<1>8. CASE Evict(n) \/ ReapFailed(n)
  <2>1. Lease!Depart(n)
    BY <1>8 DEF Evict, ReapFailed, Terminate, Lease!Depart
  <2> QED
    BY <2>1
<1> QED
  BY <1>2, <1>3, <1>4, <1>5, <1>6, <1>7, <1>8 DEF WorldStep

\* A command on the table of one node, by the iteration.
LEMMA NodeStepLease ==
    ASSUME RInv, NEW n \in Node, NodeStep(n) \/ JoinFails(n)
    PROVE  LeaseStep
<1>1. UNCHANGED <<QuietNodes, ExcusedNodes, LeavingNodes, InstanceNodes, busy>>
  <2>1. /\ UNCHANGED <<snap, seenCC, held, matched, onlined, cc, busy>>
        /\ pc' = pc \/ (pc # "delete" /\ pc' # "delete")
        /\ toDelete' = toDelete \/ pc # "delete"
    BY DEF NodeStep, DrainFailed, DeleteFailed, JoinInspect, JoinTo, JoinRestore, JoinCreate,
           JoinSetId, JoinOnline, JoinFails, NameFails, CommandFails, CommandRefused,
           JoinPhases, JoinNext, DrainBootTimeout, DrainIdle, DrainStep,
           PostDelete, plan, world, cloud, load
  <2> QED
    BY <2>1, CopiesFrame, LeavingFrame DEF InstanceNodes
<1> USE <1>1 DEF LeaseStep, Lease!Next, Lease!vars, HeardNodes
<1>2. CASE UNCHANGED <<known, offline, mom>>
  BY <1>2
<1>3. CASE SetOffline(n, "cc")
  <2>1. Lease!Close(n)
    BY <1>3 DEF SetOffline, Lease!Close
  <2> QED
    BY <2>1
<1>4. CASE DeleteEntry(n)
  <2>1. Lease!Drop(n)
    BY <1>4 DEF DeleteEntry, Lease!Drop, RInv, IInv, TypeOK, WorldTypeOK
  <2> QED
    BY <2>1
<1>5. CASE (SetOnline(n, "cc") \/ CreateEntry(n)) /\ n \in cur
  <2>1. n \notin QuietNodes \cup LeavingNodes
    BY <1>5 DEF RInv, IInv, JoinInv, PhasesInv, JoinPhases, QuietNodes, LeavingNodes, Assigned
  <2>2. offline \subseteq known
    BY DEF RInv, IInv, TypeOK, WorldTypeOK
  <2>3. Lease!Open(n)
    BY <1>5, <2>1, <2>2 DEF SetOnline, CreateEntry, Lease!Open
  <2> QED
    BY <2>3
<1>6. \/ UNCHANGED <<known, offline, mom>>
      \/ SetOffline(n, "cc")
      \/ DeleteEntry(n)
      \/ (SetOnline(n, "cc") \/ CreateEntry(n)) /\ n \in cur
  BY DEF NodeStep, DrainFailed, DeleteFailed, JoinInspect, JoinTo, JoinRestore, JoinCreate,
         JoinSetId, JoinOnline, JoinFails, NameFails, CommandFails,
         JoinNext, DrainBootTimeout, DrainIdle, DrainStep,
         Drain, PostDelete, RemoveEntry, SetNodeId, world, table
<1> QED
  BY <1>2, <1>3, <1>4, <1>5, <1>6

\* A process that ends forgets what it looked at.
LEMMA FreshLease ==
    ASSUME FreshIteration, UNCHANGED <<table, load, cloud>>
    PROVE  LeaseStep
<1>1. Lease!Forget
  BY DEF FreshIteration, NoSnapshot, Lease!Forget, QuietNodes, ExcusedNodes, LeavingNodes,
         HeardNodes, InstanceNodes, table, load, cloud
<1> QED
  BY <1>1 DEF LeaseStep, Lease!Next

\* The steps of the iteration that concern no single node.
LEMMA PlainStepLease ==
    ASSUME RInv, PlainStep
    PROVE  LeaseStep
<1> USE DEF LeaseStep, Lease!Next, Lease!vars, world, table, load, cloud, plan
<1>1. CASE ReadJobs \/ FailedDrained \/ FailedDeleted \/ JoinDone
  <2>1. UNCHANGED <<QuietNodes, ExcusedNodes, LeavingNodes>>
    BY <1>1, CopiesFrame, LeavingFrame DEF ReadJobs, FailedDrained, FailedDeleted, JoinDone
  <2> QED
    BY <1>1, <2>1 DEF ReadJobs, FailedDrained, FailedDeleted, JoinDone, HeardNodes,
                      InstanceNodes
<1>2. CASE ReadNodes
  <2>1. /\ UNCHANGED <<known, offline, busy, HeardNodes, InstanceNodes>>
        /\ LeavingNodes = {} /\ LeavingNodes' = {}
    BY <1>2 DEF ReadNodes, HeardNodes, InstanceNodes, LeavingNodes
  <2>2. snap'.offline = offline /\ snap'.busy = busy /\ snap'.down = {n \in known : Down(n)}
    BY <1>2 DEF ReadNodes
  <2>3. QuietNodes' \subseteq offline \ busy
    BY <2>2 DEF QuietNodes
  <2>4. ExcusedNodes' \subseteq ExcusedNodes \cup (Node \ HeardNodes)
    BY <1>2, <2>2 DEF ReadNodes, ExcusedNodes, HeardNodes, Down, RInv, IInv, TypeOK,
                      WorldTypeOK
  <2>5. Lease!Look
    BY <2>1, <2>3, <2>4 DEF Lease!Look
  <2> QED
    BY <2>5
<1>3. CASE ReadCloud
  <2>1. /\ UNCHANGED <<known, offline, busy, HeardNodes, InstanceNodes, snap, onlined>>
        /\ LeavingNodes = {} /\ LeavingNodes' = {}
    BY <1>3 DEF ReadCloud, HeardNodes, InstanceNodes, LeavingNodes
  <2>2. matched = {} /\ held = {} /\ seenCC' = cc
    BY <1>3 DEF ReadCloud, RInv, IInv, PhasesInv
  <2>3. QuietNodes' \subseteq QuietNodes
    BY <2>1, <2>2 DEF QuietNodes, Assigned
  <2>4. ExcusedNodes' \subseteq ExcusedNodes \cup (Node \ HeardNodes)
    BY <2>1, <2>2 DEF ExcusedNodes, HeardNodes, RInv, UpHasInstance, HasHostname
  <2>5. Lease!Look
    BY <2>1, <2>3, <2>4 DEF Lease!Look
  <2> QED
    BY <2>5
<1>4. CASE Bootup
  <2>1. UNCHANGED <<QuietNodes, ExcusedNodes, LeavingNodes, HeardNodes>>
    BY <1>4, CopiesFrame, LeavingFrame DEF Bootup, HeardNodes
  <2>2. PICK S \in SUBSET Node : InstanceNodes' = InstanceNodes \cup S
    <3>1. InstanceNodes' = InstanceNodes \cup {n \in wanted \cap Node : cc[n] = "absent"}
      BY <1>4 DEF Bootup, InstanceNodes, RInv, IInv, TypeOK
    <3> QED
      BY <3>1
  <2>3. Lease!Arrive(S)
    BY <1>4, <2>1, <2>2 DEF Bootup, Lease!Arrive
  <2> QED
    BY <2>3
<1>5. CASE IdleDrained
  <2>1. CASE FreshIteration
    BY <1>5, <2>1, FreshLease DEF IdleDrained
  <2>2. CASE /\ toDelete' = Deletable /\ pc' = "delete"
             /\ UNCHANGED <<todo, cur, plan, marked, onlined>>
    <3>1. UNCHANGED <<QuietNodes, ExcusedNodes>>
      BY <2>2, CopiesFrame
    <3>2. LeavingNodes = {} /\ LeavingNodes' = Deletable
      BY <1>5, <2>2 DEF IdleDrained, LeavingNodes
    <3>3. Deletable \subseteq QuietNodes \cup ExcusedNodes \cup (Node \ known)
      BY DEF RInv, IInv, TypeOK, ReturnedInv, Deletable, QuietNodes, ExcusedNodes
    <3>4. Deletable \subseteq Node
      BY DEF RInv, IInv, TypeOK, Deletable
    <3>5. Lease!Release(Deletable)
      BY <1>5, <3>1, <3>2, <3>3 DEF IdleDrained, Lease!Release, HeardNodes, InstanceNodes
    <3> QED
      BY <3>4, <3>5
  <2> QED
    BY <1>5, <2>1, <2>2 DEF IdleDrained
<1>6. CASE DeleteInstances
  <2>1. UNCHANGED <<QuietNodes, ExcusedNodes>>
    BY <1>6, CopiesFrame DEF DeleteInstances
  <2>2. LeavingNodes = toDelete /\ LeavingNodes' = {}
    BY <1>6 DEF DeleteInstances, LeavingNodes
  <2>3. InstanceNodes' = InstanceNodes \ toDelete /\ HeardNodes' = HeardNodes \ toDelete
    BY <1>6 DEF DeleteInstances, Terminate, InstanceNodes, HeardNodes
  <2>4. Lease!Take
    BY <1>6, <2>1, <2>2, <2>3 DEF DeleteInstances, Lease!Take
  <2> QED
    BY <2>4
<1>7. CASE TimeoutsRaise \/ EndIteration
  BY <1>7, FreshLease DEF TimeoutsRaise, EndIteration
<1> QED
  BY <1>1, <1>2, <1>3, <1>4, <1>5, <1>6, <1>7 DEF PlainStep

\* An operator closes or removes a node, or opens it and answers for it.
LEMMA OperatorLease ==
    ASSUME RInv, NEW n \in Node, OperatorStep(n)
    PROVE  LeaseStep
<1> USE DEF LeaseStep, Lease!Next, Lease!vars, load, cloud
<1>1. UNCHANGED <<busy, InstanceNodes>>
  BY OperatorCommand DEF InstanceNodes
<1>2. CASE /\ UNCHANGED iter
           /\ \/ \E c \in {"cc", "keep"} : SetOffline(n, c)
              \/ DeleteEntry(n) \/ SetNodeId(n)
  <2>1. UNCHANGED <<QuietNodes, ExcusedNodes, LeavingNodes>>
    BY <1>2, CopiesFrame, LeavingFrame DEF iter
  <2>2. CASE \E c \in {"cc", "keep"} : SetOffline(n, c)
    <3>1. Lease!Close(n)
      BY <1>1, <2>1, <2>2 DEF SetOffline, HeardNodes, Lease!Close
    <3> QED
      BY <3>1
  <2>3. CASE DeleteEntry(n)
    <3>1. Lease!Drop(n)
      BY <1>1, <2>1, <2>3
         DEF DeleteEntry, HeardNodes, Lease!Drop, RInv, IInv, TypeOK, WorldTypeOK
    <3> QED
      BY <3>1
  <2>4. CASE SetNodeId(n)
    BY <1>1, <2>1, <2>4 DEF SetNodeId, HeardNodes
  <2> QED
    BY <1>2, <2>2, <2>3, <2>4
<1>3. CASE OperatorOpens(n) /\ (SetOnline(n, "cc") \/ CreateEntry(n))
  <2>1. UNCHANGED <<LeavingNodes, HeardNodes>>
    BY <1>3, LeavingFrame DEF OperatorOpens, SetOnline, CreateEntry, HeardNodes
  <2>2. known' = known \cup {n} /\ offline' = offline \ {n}
    BY <1>3 DEF SetOnline, CreateEntry, RInv, IInv, TypeOK, WorldTypeOK
  <2>3. CASE pc = "idle"
    <3>1. UNCHANGED <<QuietNodes, ExcusedNodes>>
      BY <1>3, <2>3, CopiesFrame DEF OperatorOpens, plan
    <3>2. n \notin QuietNodes \cup LeavingNodes
      BY <2>3 DEF RInv, IInv, PhasesInv, NoSnapshot, QuietNodes, LeavingNodes
    <3>3. Lease!Open(n)
      BY <1>1, <2>1, <2>2, <3>1, <3>2 DEF Lease!Open
    <3> QED
      BY <3>3
  <2>4. CASE pc # "idle"
    <3>1. onlined' = onlined \cup {n} /\ UNCHANGED <<snap, seenCC, held, matched>>
      BY <1>3, <2>4 DEF OperatorOpens, plan
    <3>2. QuietNodes' = QuietNodes \ {n} /\ ExcusedNodes' = ExcusedNodes \cup {n}
      BY <3>1 DEF QuietNodes, ExcusedNodes, Assigned
    <3>3. Lease!Reopen(n)
      BY <1>1, <2>1, <2>2, <3>2 DEF Lease!Reopen
    <3> QED
      BY <3>3
  <2> QED
    BY <2>3, <2>4
<1> QED
  BY <1>2, <1>3, OperatorCommand

\* Every step of the autoscaler and its world is a step of the lease.
LEMMA NextLease ==
    ASSUME RInv, [Next]_vars
    PROVE  LeaseStep
<1>1. CASE \/ Submit /\ UNCHANGED iter
           \/ TimeoutStep
           \/ UNCHANGED vars
  <2>1. /\ UNCHANGED <<snap, seenCC, held, matched, onlined>>
        /\ pc' = pc \/ (pc # "delete" /\ pc' # "delete")
        /\ toDelete' = toDelete
        /\ UNCHANGED <<known, offline, busy, mom, cc>>
    BY <1>1 DEF Submit, TimeoutStep, HandleFailedNodes, ReadTimeouts, BootDrained, vars, iter,
                world, plan, table, cloud
  <2>2. UNCHANGED <<QuietNodes, ExcusedNodes, LeavingNodes, HeardNodes, InstanceNodes>>
    BY <2>1, CopiesFrame, LeavingFrame DEF HeardNodes, InstanceNodes
  <2> QED
    BY <2>1, <2>2 DEF LeaseStep, Lease!vars
<1>2. CASE Abort
  BY <1>2, FreshLease DEF Abort
<1> QED
  BY <1>1, <1>2, WorldStepLease, NodeStepLease, PlainStepLease, OperatorLease DEF Next

\* The autoscaler with its world implements the lease: whatever is shown of
\* NodeLease, LeavesIdle first, holds of every behaviour of the autoscaler.
THEOREM AutoscaleImplementsLease == Spec => ImplementsLease
<1>1. Init => Lease!Init
  BY DEF Init, WorldInit, NoSnapshot, Lease!Init, HeardNodes, InstanceNodes, QuietNodes,
         ExcusedNodes, LeavingNodes
<1>2. RInv /\ [Next]_vars => [Lease!Next]_(Lease!vars)
  BY NextLease DEF LeaseStep
<1> QED
  BY <1>1, <1>2, RefinementInvariance, PTL DEF Spec, ImplementsLease, Lease!Spec
=============================================================================
