------------------------ MODULE PbsAutoscale_proofs ------------------------
(***************************************************************************)
(* Safety of the autoscaler for any set of nodes and any bounds: the       *)
(* invariants and the action property that AutoscaleSafety.cfg checks on   *)
(* one node, from the inductive invariant IInv of PbsAutoscale.            *)
(***************************************************************************)
EXTENDS PbsAutoscale, FiniteSetTheorems, TLAPS

TableOK ==
    /\ known \subseteq Node
    /\ joined \subseteq known
    /\ offline \subseteq known
    /\ note \in [Node -> Notes]
    /\ mom \in [Node -> MomStates]
    /\ busy \subseteq known

-----------------------------------------------------------------------------
(* Types. *)

\* A command leaves a well-formed PBS table.
LEMMA CommandsType ==
    ASSUME TableOK, busy' = busy, NEW n \in Node, NEW c \in Notes,
           \/ SetOffline(n, c) \/ SetOnline(n, c) \/ CreateEntry(n)
           \/ SetNodeId(n) \/ DeleteEntry(n) \/ UNCHANGED table
    PROVE  TableOK'
<1>1. CASE SetOffline(n, c)
  BY <1>1 DEF SetOffline, TableOK
<1>2. CASE SetOnline(n, c)
  BY <1>2 DEF SetOnline, TableOK
<1>3. CASE CreateEntry(n)
  BY <1>3 DEF CreateEntry, TableOK
<1>4. CASE SetNodeId(n)
  BY <1>4 DEF SetNodeId, TableOK
<1>5. CASE DeleteEntry(n)
  BY <1>5 DEF DeleteEntry, TableOK, Notes, MomStates
<1>6. CASE UNCHANGED table
  BY <1>6 DEF table, TableOK
<1> QED
  BY <1>1, <1>2, <1>3, <1>4, <1>5, <1>6

\* Taking instances away leaves the types alone.
LEMMA TerminateType ==
    ASSUME TypeOK, NEW S \in SUBSET Node, Terminate(S)
    PROVE  /\ cc' \in [Node -> CloudStates]
           /\ guard' \subseteq Node
           /\ mom' \in [Node -> MomStates]
BY DEF Terminate, TypeOK, WorldTypeOK, CloudStates, MomStates

\* One fault more stays within the bound.
LEMMA FaultType ==
    ASSUME faults \in 0..MaxFaults, Fault
    PROVE  faults' \in 0..MaxFaults
BY WorldAssumption DEF Fault

\* A step of the jobs, moms, instances or installers keeps the world's types.
LEMMA WorldStepType ==
    ASSUME TypeOK, NEW n \in Node, WorldStep(n)
    PROVE  TypeOK'
<1>1. UNCHANGED iter
  BY DEF WorldStep
<1>2. WorldTypeOK'
  <2> USE DEF TypeOK, WorldTypeOK, table, load, cloud
  <2>1. CASE StartJob(n)
    BY <2>1, WorldAssumption DEF StartJob
  <2>2. CASE EndJob(n)
    BY <2>2 DEF EndJob
  <2>3. CASE Requeue(n)
    BY <2>3, WorldAssumption DEF Requeue
  <2>4. CASE GetHostname(n)
    BY <2>4 DEF GetHostname, CloudStates
  <2>5. CASE BecomeReady(n)
    BY <2>5 DEF BecomeReady, CloudStates
  <2>6. CASE FailInstance(n)
    BY <2>6, FaultType DEF FailInstance, CloudStates
  <2>7. CASE MomUp(n)
    BY <2>7 DEF MomUp, MomStates
  <2>8. CASE MomLost(n)
    BY <2>8, FaultType DEF MomLost, MomStates
  <2>9. CASE SelfOffline(n)
    BY <2>9 DEF SelfOffline, SetOffline, Notes
  <2>10. CASE Evict(n)
    BY <2>10, FaultType, TerminateType DEF Evict
  <2>11. CASE ReapFailed(n)
    BY <2>11, TerminateType DEF ReapFailed
  <2> QED
    BY <2>1, <2>2, <2>3, <2>4, <2>5, <2>6, <2>7, <2>8, <2>9, <2>10, <2>11
       DEF WorldStep
<1> QED
  BY <1>1, <1>2 DEF TypeOK, iter

\* A new process starts from well-typed empty variables.
LEMMA FreshType ==
    ASSUME FreshIteration
    PROVE  /\ pc' \in Phases
           /\ todo' \subseteq Node
           /\ cur' \subseteq Node
           /\ seenJobs' = 0
           /\ snap' \in Snapshots
           /\ seenCC' \in [Node -> CloudStates]
           /\ held' \subseteq Node
           /\ matched' \subseteq Node
           /\ wanted' \subseteq Node
           /\ marked' \subseteq Node
           /\ toDelete' \subseteq Node
           /\ onlined' \subseteq Node
BY DEF FreshIteration, Phases, Snapshots, NoSnapshot, CloudStates

\* Reading, advancing and ending an iteration keep the types.
LEMMA PlainStepType ==
    ASSUME TypeOK, PlainStep
    PROVE  TypeOK'
<1> USE DEF TypeOK, WorldTypeOK, world, plan, table, load, cloud
<1>1. CASE ReadJobs
  BY <1>1 DEF ReadJobs, Phases
<1>2. CASE ReadNodes
  <2>1. snap' \in Snapshots
    BY <1>2 DEF ReadNodes, Snapshots
  <2> QED
    BY <1>2, <2>1 DEF ReadNodes, Phases
<1>3. CASE ReadCloud
  <2>1. held' \subseteq Node
    BY <1>3 DEF ReadCloud
  <2>2. matched' \subseteq Node /\ wanted' \subseteq Node
    BY <1>3 DEF ReadCloud, AtMost, Matchable
  <2> QED
    BY <1>3, <2>1, <2>2, WorldAssumption DEF ReadCloud, Phases
<1>4. CASE FailedDrained
  BY <1>4 DEF FailedDrained, FailedToDelete, FailedNodes, Snapshots, Phases
<1>5. CASE FailedDeleted
  BY <1>5 DEF FailedDeleted, Phases
<1>6. CASE JoinDone
  BY <1>6 DEF JoinDone, Phases
<1>7. CASE Bootup
  BY <1>7 DEF Bootup, Phases, CloudStates
<1>8. CASE TimeoutsRaise
  BY <1>8, FreshType, WorldAssumption DEF TimeoutsRaise
<1>9. CASE IdleDrained
  <2>1. CASE FreshIteration
    BY <1>9, <2>1, FreshType, WorldAssumption DEF IdleDrained
  <2>2. CASE toDelete' = Deletable /\ pc' = "delete" /\ UNCHANGED <<todo, cur, plan, marked, onlined>>
    BY <1>9, <2>2 DEF IdleDrained, Deletable, Phases
  <2> QED
    BY <1>9, <2>1, <2>2 DEF IdleDrained
<1>10. CASE DeleteInstances
  BY <1>10, TerminateType DEF DeleteInstances, Phases
<1>11. CASE EndIteration
  BY <1>11, FreshType, WorldAssumption DEF EndIteration
<1> QED
  BY <1>1, <1>2, <1>3, <1>4, <1>5, <1>6, <1>7, <1>8, <1>9, <1>10, <1>11
     DEF PlainStep

\* So do the steps that start a loop over nodes that are late.
LEMMA TimeoutStepType ==
    ASSUME TypeOK, TimeoutStep
    PROVE  TypeOK'
<1> USE DEF TypeOK, WorldTypeOK, world, plan, Phases
<1> PICK late \in SUBSET Node :
      HandleFailedNodes(late) \/ ReadTimeouts(late) \/ BootDrained(late)
  BY DEF TimeoutStep
<1>1. CASE HandleFailedNodes(late)
  BY <1>1 DEF HandleFailedNodes
<1>2. CASE ReadTimeouts(late)
  BY <1>2 DEF ReadTimeouts
<1>3. CASE BootDrained(late)
  BY <1>3 DEF BootDrained
<1> QED
  BY <1>1, <1>2, <1>3

\* Draining a node is at most one pbsnodes command and one mark.
LEMMA DrainType ==
    ASSUME TypeOK, NEW n \in Node, NEW ignore \in BOOLEAN, NEW returned \in BOOLEAN,
           Drain(n, ignore, returned), UNCHANGED load
    PROVE  TableOK' /\ marked' \subseteq Node /\ faults' \in 0..MaxFaults
<1>1. TableOK /\ busy' = busy
  BY DEF TypeOK, WorldTypeOK, TableOK, load
<1>2. UNCHANGED table \/ SetOffline(n, "cc")
  BY DEF Drain
<1>3. TableOK'
  BY <1>1, <1>2, CommandsType DEF Notes
<1> QED
  BY <1>3, FaultType DEF Drain, TypeOK, WorldTypeOK

\* Removing an entry is at most one qmgr command.
LEMMA RemoveType ==
    ASSUME TypeOK, NEW n \in Node, RemoveEntry(n), UNCHANGED load
    PROVE  TableOK' /\ faults' \in 0..MaxFaults
<1>1. TableOK /\ busy' = busy
  BY DEF TypeOK, WorldTypeOK, TableOK, load
<1>2. UNCHANGED table \/ DeleteEntry(n)
  BY DEF RemoveEntry
<1>3. TableOK'
  BY <1>1, <1>2, CommandsType DEF Notes
<1> QED
  BY <1>3, FaultType DEF RemoveEntry, TypeOK, WorldTypeOK

\* Every step of a loop keeps the types.
LEMMA NodeStepType ==
    ASSUME TypeOK, NEW n \in Node, NodeStep(n)
    PROVE  TypeOK'
<1>1. TableOK
  BY DEF TypeOK, WorldTypeOK, TableOK
<1> USE DEF TypeOK, WorldTypeOK, plan, load, cloud, Phases
<1>2. CASE DrainFailed(n)
  <2>1. TableOK' /\ marked' \subseteq Node /\ faults' \in 0..MaxFaults
    BY <1>2, DrainType DEF DrainFailed
  <2> QED
    BY <1>2, <2>1 DEF DrainFailed, TableOK
<1>3. CASE DeleteFailed(n)
  BY <1>3, RemoveType DEF DeleteFailed, TableOK
<1>4. CASE JoinInspect(n)
  BY <1>4 DEF JoinInspect, JoinTo, JoinNext, world, table
<1>5. CASE JoinRestore(n)
  <2>1. TableOK'
    BY <1>1, <1>5, CommandsType DEF JoinRestore, JoinNext, Notes
  <2> QED
    BY <1>5, <2>1 DEF JoinRestore, JoinNext, TableOK
<1>6. CASE JoinCreate(n)
  <2>1. TableOK'
    BY <1>1, <1>6, CommandsType DEF JoinCreate, Notes
  <2> QED
    BY <1>6, <2>1 DEF JoinCreate, TableOK
<1>7. CASE JoinSetId(n)
  <2>1. TableOK'
    BY <1>1, <1>7, CommandsType DEF JoinSetId, Notes
  <2> QED
    BY <1>7, <2>1 DEF JoinSetId, TableOK
<1>8. CASE JoinOnline(n)
  <2>1. TableOK'
    BY <1>1, <1>8, CommandsType DEF JoinOnline, JoinNext, Notes
  <2> QED
    BY <1>8, <2>1 DEF JoinOnline, JoinNext, TableOK
<1>9. ASSUME NEW ignore \in BOOLEAN, DrainStep(n, ignore)
      PROVE  TypeOK'
  <2>1. CASE /\ toDelete' = toDelete \cup {n}
             /\ UNCHANGED <<table, faults, marked>>
    BY <1>9, <2>1 DEF DrainStep, table
  <2>2. ASSUME NEW returned \in BOOLEAN,
               Drain(n, ignore, returned),
               toDelete' = IF returned THEN toDelete \cup {n} ELSE toDelete
        PROVE  TypeOK'
    <3>1. TableOK' /\ marked' \subseteq Node /\ faults' \in 0..MaxFaults
      BY <1>9, <2>2, DrainType DEF DrainStep
    <3> QED
      BY <1>9, <2>2, <3>1 DEF DrainStep, TableOK
  <2> QED
    BY <1>9, <2>1, <2>2 DEF DrainStep
<1>10. CASE DrainBootTimeout(n)
  BY <1>9, <1>10 DEF DrainBootTimeout
<1>11. CASE DrainIdle(n)
  BY <1>9, <1>11 DEF DrainIdle
<1>12. CASE PostDelete(n)
  <2>1. TableOK' /\ faults' \in 0..MaxFaults
    BY <1>1, <1>12, RemoveType DEF PostDelete, TableOK, table
  <2> QED
    BY <1>12, <2>1 DEF PostDelete, TableOK
<1> QED
  BY <1>2, <1>3, <1>4, <1>5, <1>6, <1>7, <1>8, <1>10, <1>11, <1>12 DEF NodeStep

\* An operator's step is one command on one entry, and leaves the iteration
\* alone but for the history.
LEMMA OperatorCommand ==
    ASSUME NEW n \in Node, OperatorStep(n)
    PROVE  /\ OperatorActive
           /\ UNCHANGED <<load, cloud, faults>>
           /\ \/ UNCHANGED iter
                 /\ \/ \E c \in {"cc", "keep"} : SetOffline(n, c)
                    \/ DeleteEntry(n) \/ SetNodeId(n)
              \/ OperatorOpens(n) /\ (SetOnline(n, "cc") \/ CreateEntry(n))
<1>1. CASE OperatorOffline(n) \/ OperatorDrain(n)
  BY <1>1 DEF OperatorOffline, OperatorDrain
<1>2. CASE OperatorRemove(n) \/ OperatorSetId(n)
  BY <1>2 DEF OperatorRemove, OperatorSetId
<1>3. CASE OperatorOnline(n) \/ OperatorCreate(n)
  BY <1>3 DEF OperatorOnline, OperatorCreate, OperatorOpens
<1> QED
  BY <1>1, <1>2, <1>3 DEF OperatorStep

LEMMA OperatorStepType ==
    ASSUME TypeOK, NEW n \in Node, OperatorStep(n)
    PROVE  TypeOK'
<1>1. TableOK /\ busy' = busy
  BY OperatorCommand DEF load, TypeOK, WorldTypeOK, TableOK
<1>2. \/ \E c \in Notes : SetOffline(n, c) \/ SetOnline(n, c)
      \/ DeleteEntry(n) \/ SetNodeId(n) \/ CreateEntry(n)
  BY OperatorCommand DEF Notes
<1>3. TableOK'
  BY <1>1, <1>2, CommandsType DEF Notes
<1>4. UNCHANGED iter \/ OperatorOpens(n)
  BY OperatorCommand
<1>5. onlined' \subseteq Node
  BY <1>4 DEF OperatorOpens, iter, TypeOK
<1> QED
  BY <1>3, <1>4, <1>5, OperatorCommand
     DEF OperatorOpens, TypeOK, WorldTypeOK, TableOK, iter, plan, load, cloud

\* The initial state is well typed.
LEMMA InitType == Init => TypeOK
BY WorldAssumption
   DEF Init, WorldInit, TypeOK, WorldTypeOK, Phases, Snapshots, NoSnapshot, Notes,
       MomStates, CloudStates

\* Every step keeps the types.
LEMMA NextType ==
    ASSUME TypeOK, [Next]_vars
    PROVE  TypeOK'
<1>1. CASE Submit /\ UNCHANGED iter
  <2>1. Cardinality(busy) \in Nat
    BY WorldAssumption, FS_Subset, FS_CardinalityType DEF TypeOK, WorldTypeOK
  <2>2. queued' \in 0..MaxJobs
    BY <1>1, <2>1, WorldAssumption DEF Submit, TypeOK, WorldTypeOK
  <2> QED
    BY <1>1, <2>2 DEF Submit, TypeOK, WorldTypeOK, iter, table, cloud
<1>2. CASE PlainStep
  BY <1>2, PlainStepType
<1>3. CASE TimeoutStep
  BY <1>3, TimeoutStepType
<1>4. CASE Abort
  BY <1>4, FreshType, FaultType, WorldAssumption
     DEF Abort, TypeOK, WorldTypeOK, table, load, cloud
<1>5. ASSUME NEW n \in Node, WorldStep(n)
      PROVE  TypeOK'
  BY <1>5, WorldStepType
<1>6. ASSUME NEW n \in Node, NodeStep(n)
      PROVE  TypeOK'
  BY <1>6, NodeStepType
<1>7. ASSUME NEW n \in Node, JoinFails(n)
      PROVE  TypeOK'
  BY <1>7, FaultType
     DEF JoinFails, NameFails, CommandFails,
         JoinNext, TypeOK, WorldTypeOK, Phases, table, load, cloud, plan
<1>8. ASSUME NEW n \in Node, OperatorStep(n)
      PROVE  TypeOK'
  BY <1>8, OperatorStepType
<1>9. CASE UNCHANGED vars
  BY <1>9 DEF vars, TypeOK, WorldTypeOK
<1> QED
  BY <1>1, <1>2, <1>3, <1>4, <1>5, <1>6, <1>7, <1>8, <1>9 DEF Next

\* Every reachable state of the autoscaler and its world is well typed: in
\* particular nothing is offline, joined or busy that PBS does not know.
THEOREM TypeCorrect == Spec => []TypeOK
<1>1. Init => TypeOK
  BY InitType
<1>2. TypeOK /\ [Next]_vars => TypeOK'
  BY NextType
<1> QED
  BY <1>1, <1>2, PTL DEF Spec

-----------------------------------------------------------------------------
(* What one step may do to the PBS entry of a node. *)

Barred(n) == n \notin known \/ n \in offline

\* A step leaves the table alone, or applies one command to one node: only the
\* join loop and operators create entries, put nodes online or give them their
\* ccnodeid.
TableStep(n) ==
    \/ UNCHANGED <<known, joined, offline, note>>
    \/ n \in cur /\ (SetOnline(n, "cc") \/ SetNodeId(n))
    \/ n \in cur /\ pc = "create" /\ CreateEntry(n)
    \/ n \in todo /\ ~SeenOffline(n) /\ SetOffline(n, "cc")
    \/ n \in todo /\ pc \in {"faildelete", "post"} /\ DeleteEntry(n)
    \/ iter' = iter /\ \E c \in {"cc", "keep"} : SetOffline(n, c)
    \/ iter' = iter /\ (DeleteEntry(n) \/ SetNodeId(n))
    \/ OperatorOpens(n) /\ (SetOnline(n, "cc") \/ CreateEntry(n))

\* StartJob is the only step that makes a node busy.
LoadStep(n) ==
    \/ busy' \subseteq busy
    \/ n \in known \ offline /\ busy' = busy \cup {n} /\ UNCHANGED table

\* What a drain may do to the PBS table: mark its own node offline, or nothing.
LEMMA DrainTable ==
    ASSUME NEW n \in Node, NEW ignore, NEW returned, Drain(n, ignore, returned), n \in todo
    PROVE  TableStep(n)
BY DEF Drain, TableStep, table

\* What a removal may do to the PBS table: take its own entry away, or nothing.
LEMMA RemoveTable ==
    ASSUME NEW n \in Node, RemoveEntry(n), n \in todo, pc \in {"faildelete", "post"}
    PROVE  TableStep(n)
BY DEF RemoveEntry, TableStep, table

\* What one command of the iteration may do to the PBS table.
LEMMA NodeStepTable ==
    ASSUME NEW n \in Node, NodeStep(n)
    PROVE  TableStep(n) /\ busy' = busy
<1> USE DEF load
<1>1. CASE DrainFailed(n)
  BY <1>1, DrainTable DEF DrainFailed
<1>2. CASE DeleteFailed(n)
  BY <1>2, RemoveTable DEF DeleteFailed
<1>3. CASE JoinInspect(n)
  BY <1>3 DEF JoinInspect, JoinTo, JoinNext, world, table, TableStep
<1>4. CASE JoinRestore(n) \/ JoinOnline(n)
  BY <1>4 DEF JoinRestore, JoinOnline, JoinNext, TableStep
<1>5. CASE JoinCreate(n)
  BY <1>5 DEF JoinCreate, TableStep
<1>6. CASE JoinSetId(n)
  BY <1>6 DEF JoinSetId, TableStep
<1>7. ASSUME NEW ignore, DrainStep(n, ignore)
      PROVE  TableStep(n) /\ busy' = busy
  <2>1. CASE UNCHANGED <<table, faults, marked>>
    BY <1>7, <2>1 DEF DrainStep, TableStep, table
  <2>2. CASE \E returned \in BOOLEAN : Drain(n, ignore, returned)
    BY <1>7, <2>2, DrainTable DEF DrainStep
  <2> QED
    BY <1>7, <2>1, <2>2 DEF DrainStep
<1>8. CASE DrainBootTimeout(n) \/ DrainIdle(n)
  BY <1>7, <1>8 DEF DrainBootTimeout, DrainIdle
<1>9. CASE PostDelete(n)
  <2>1. CASE UNCHANGED <<table, faults>>
    BY <1>9, <2>1 DEF PostDelete, TableStep, table
  <2> QED
    BY <1>9, <2>1, RemoveTable DEF PostDelete
<1> QED
  BY <1>1, <1>2, <1>3, <1>4, <1>5, <1>6, <1>8, <1>9 DEF NodeStep

\* What jobs, instances, moms and installers may do to the PBS table.
LEMMA WorldStepTable ==
    ASSUME NEW n \in Node, WorldStep(n)
    PROVE  TableStep(n) /\ LoadStep(n)
BY DEF WorldStep, StartJob, EndJob, Requeue, GetHostname, BecomeReady, FailInstance,
       MomUp, MomLost, SelfOffline, Evict, ReapFailed, TableStep, LoadStep, table, load

\* The steps without a node of their own leave the PBS table alone.
LEMMA PlainStepTable ==
    ASSUME PlainStep
    PROVE  UNCHANGED <<known, joined, offline, note, busy>>
BY DEF PlainStep, ReadJobs, ReadNodes, ReadCloud, FailedDrained, FailedDeleted, JoinDone,
       Bootup, TimeoutsRaise, IdleDrained, DeleteInstances, EndIteration, world, table,
       load

\* Every step is one command on one node, or none.
LEMMA NextTable ==
    ASSUME [Next]_vars
    PROVE  \/ UNCHANGED <<known, joined, offline, note, busy>>
           \/ \E n \in Node : TableStep(n) /\ LoadStep(n)
<1>1. CASE Submit
  BY <1>1 DEF Submit, table
<1>2. CASE PlainStep
  BY <1>2, PlainStepTable
<1>3. CASE TimeoutStep
  BY <1>3 DEF TimeoutStep, HandleFailedNodes, ReadTimeouts, BootDrained, world
<1>4. CASE Abort
  BY <1>4 DEF Abort, table, load
<1>5. ASSUME NEW n \in Node, WorldStep(n)
      PROVE  TableStep(n) /\ LoadStep(n)
  BY <1>5, WorldStepTable
<1>6. ASSUME NEW n \in Node, NodeStep(n)
      PROVE  TableStep(n) /\ LoadStep(n)
  BY <1>6, NodeStepTable DEF LoadStep
<1>7. ASSUME NEW n \in Node, JoinFails(n)
      PROVE  UNCHANGED <<known, joined, offline, note, busy>>
  BY <1>7 DEF JoinFails, NameFails, CommandFails, JoinNext, table, load
<1>8. ASSUME NEW n \in Node, OperatorStep(n)
      PROVE  TableStep(n) /\ LoadStep(n)
  BY <1>8, OperatorCommand DEF TableStep, LoadStep, load
<1>9. CASE UNCHANGED vars
  BY <1>9 DEF vars
<1> QED
  BY <1>1, <1>2, <1>3, <1>4, <1>5, <1>6, <1>7, <1>8, <1>9 DEF Next

\* A node PBS cannot use, for want of an entry or because it is offline, stays
\* so unless the join loop works on it or the operator puts it online.
LEMMA BarredStable ==
    ASSUME TypeOK, [Next]_vars, NEW n \in Node, Barred(n),
           n \notin cur, n \notin onlined', pc # "idle"
    PROVE  Barred(n)'
<1>1. CASE UNCHANGED <<known, joined, offline, note, busy>>
  BY <1>1 DEF Barred
<1>2. ASSUME NEW m \in Node, TableStep(m)
      PROVE  Barred(n)'
  BY <1>2 DEF TableStep, Barred, SetOnline, SetOffline, CreateEntry, SetNodeId,
              DeleteEntry, OperatorOpens
<1> QED
  BY <1>1, <1>2, NextTable

\* And nothing starts on it.
LEMMA QuietStable ==
    ASSUME TypeOK, [Next]_vars, NEW n \in Node, Quiet(n),
           n \notin cur, n \notin onlined', pc # "idle"
    PROVE  Quiet(n)'
<1>1. Barred(n)'
  BY BarredStable DEF Barred, Quiet
<1>2. n \notin busy
  BY DEF Quiet, TypeOK, WorldTypeOK
<1>3. n \notin busy'
  BY <1>2, NextTable DEF LoadStep, Quiet
<1> QED
  BY <1>1, <1>3 DEF Barred, Quiet

-----------------------------------------------------------------------------
(* What one step may do to the iteration's own variables. *)

CursorInv == PhasesInv /\ JoinInv /\ MarkedInv

\* Before the first iteration every loop is empty.
LEMMA InitCursor == Init => CursorInv
BY DEF Init, CursorInv, PhasesInv, JoinInv, MarkedInv, NoSnapshot, JoinPhases, DrainPhases

\* A fresh process satisfies every invariant about its own variables.
LEMMA FreshCursor ==
    ASSUME FreshIteration
    PROVE  CursorInv'
BY DEF FreshIteration, CursorInv, PhasesInv, JoinInv, MarkedInv, JoinPhases, DrainPhases

\* Steps that leave the iteration where it is.
LEMMA StillCursor ==
    ASSUME CursorInv,
           UNCHANGED <<pc, todo, cur, snap, seenCC, held, matched, marked, toDelete>>
    PROVE  CursorInv'
BY DEF CursorInv, PhasesInv, JoinInv, MarkedInv, BootCandidates, IdleCandidates, Assigned

\* The steps between two loops fill the next loop as PhasesInv says.
LEMMA PlainStepCursor ==
    ASSUME TypeOK, CursorInv, PlainStep
    PROVE  CursorInv'
<1> USE DEF CursorInv, PhasesInv, JoinInv, MarkedInv, JoinPhases, DrainPhases, plan, Phases
<1>1. CASE ReadJobs
  BY <1>1 DEF ReadJobs
<1>2. CASE ReadNodes
  BY <1>2 DEF ReadNodes
<1>3. CASE ReadCloud
  BY <1>3 DEF ReadCloud
<1>4. CASE FailedDrained
  BY <1>4 DEF FailedDrained, FailedToDelete, FailedNodes
<1>5. CASE FailedDeleted
  BY <1>5 DEF FailedDeleted
<1>6. CASE JoinDone
  BY <1>6 DEF JoinDone
<1>7. CASE Bootup
  BY <1>7 DEF Bootup
<1>8. CASE TimeoutsRaise
  BY <1>8, FreshCursor DEF TimeoutsRaise
<1>9. CASE IdleDrained
  <2>1. CASE FreshIteration
    BY <2>1, FreshCursor
  <2>2. CASE /\ toDelete' = Deletable
             /\ pc' = "delete"
             /\ UNCHANGED <<todo, cur, plan, marked, onlined>>
    BY <1>9, <2>2 DEF IdleDrained, Deletable, Assigned
  <2> QED
    BY <1>9, <2>1, <2>2 DEF IdleDrained
<1>10. CASE DeleteInstances
  BY <1>10 DEF DeleteInstances, Assigned
<1>11. CASE EndIteration
  BY <1>11, FreshCursor DEF EndIteration
<1> QED
  BY <1>1, <1>2, <1>3, <1>4, <1>5, <1>6, <1>7, <1>8, <1>9, <1>10, <1>11
     DEF PlainStep

\* The steps that find nodes late put candidates on the list only.
LEMMA TimeoutStepCursor ==
    ASSUME TypeOK, CursorInv, TimeoutStep
    PROVE  CursorInv'
<1> USE DEF CursorInv, PhasesInv, JoinInv, MarkedInv, JoinPhases, DrainPhases, plan
<1> PICK late \in SUBSET Node :
      HandleFailedNodes(late) \/ ReadTimeouts(late) \/ BootDrained(late)
  BY DEF TimeoutStep
<1>1. CASE HandleFailedNodes(late)
  BY <1>1 DEF HandleFailedNodes, FailedToDrain, FailedNodes
<1>2. CASE ReadTimeouts(late)
  BY <1>2 DEF ReadTimeouts, BootCandidates
<1>3. CASE BootDrained(late)
  BY <1>3 DEF BootDrained, BootCandidates, IdleCandidates, Assigned
<1> QED
  BY <1>1, <1>2, <1>3

\* The loop goes on to its next node.
LEMMA LoopCursor ==
    ASSUME TypeOK, CursorInv, NEW n \in Node, n \in todo, todo' = todo \ {n},
           marked' = marked \/ (marked' = marked \cup {n} /\ pc # "join"),
           toDelete' = toDelete \/ pc \in {"bootdrain", "idledrain"},
           UNCHANGED <<pc, cur, snap, seenCC, held, matched>>,
           pc \in {"faildrain", "faildelete", "join", "bootdrain", "idledrain", "post"}
    PROVE  CursorInv'
BY DEF CursorInv, PhasesInv, JoinInv, MarkedInv, JoinPhases, DrainPhases, Assigned,
       BootCandidates, IdleCandidates, TypeOK

\* A step of a loop takes its node off the list.
LEMMA NodeStepCursor ==
    ASSUME TypeOK, CursorInv, NEW n \in Node, NodeStep(n) \/ JoinFails(n)
    PROVE  CursorInv'
<1> USE DEF plan
<1>1. CASE DrainFailed(n)
  BY <1>1, LoopCursor DEF DrainFailed, Drain
<1>2. CASE DeleteFailed(n)
  BY <1>2, LoopCursor DEF DeleteFailed
<1>3. CASE JoinInspect(n) \/ JoinRestore(n) \/ JoinOnline(n) \/ JoinFails(n)
  BY <1>3 DEF JoinInspect, JoinRestore, JoinOnline, JoinFails, NameFails, CommandFails,
              CommandRefused, JoinNext, JoinTo, Joinable,
              CursorInv, PhasesInv, JoinInv, MarkedInv, JoinPhases, DrainPhases
<1>4. CASE JoinCreate(n) \/ JoinSetId(n)
  BY <1>4 DEF JoinCreate, JoinSetId,
              CursorInv, PhasesInv, JoinInv, MarkedInv, JoinPhases, DrainPhases
<1>5. CASE DrainBootTimeout(n) \/ DrainIdle(n)
  BY <1>5, LoopCursor DEF DrainBootTimeout, DrainIdle, DrainStep, Drain
<1>6. CASE PostDelete(n)
  BY <1>6, LoopCursor DEF PostDelete
<1> QED
  BY <1>1, <1>2, <1>3, <1>4, <1>5, <1>6 DEF NodeStep

\* Every step keeps the bounds of the loops.
LEMMA NextCursor ==
    ASSUME TypeOK, CursorInv, [Next]_vars
    PROVE  CursorInv'
<1>1. CASE PlainStep
  BY <1>1, PlainStepCursor
<1>2. CASE TimeoutStep
  BY <1>2, TimeoutStepCursor
<1>3. CASE Abort
  BY <1>3, FreshCursor DEF Abort
<1>4. ASSUME NEW n \in Node, NodeStep(n) \/ JoinFails(n)
      PROVE  CursorInv'
  BY <1>4, NodeStepCursor
<1>5. CASE UNCHANGED iter \/ UNCHANGED vars \/ \E n \in Node : OperatorOpens(n)
  BY <1>5, StillCursor DEF iter, vars, OperatorOpens, plan
<1> QED
  BY <1>1, <1>2, <1>3, <1>4, <1>5, OperatorCommand DEF Next, WorldStep

\* What an iteration has read, presumed, marked and been told it keeps to its
\* end; after ReadCloud its copies do not change at all.
Keeps ==
    /\ snap' = snap
    /\ matched \subseteq matched'
    /\ held \subseteq held'
    /\ onlined \subseteq onlined'
    /\ pc # "cloud" => UNCHANGED <<seenCC, matched, held>>

\* An iteration keeps its copies unless it ends, or reads the node table.
LEMMA NextKeeps ==
    ASSUME TypeOK, CursorInv, [Next]_vars
    PROVE  FreshIteration \/ ReadNodes \/ Keeps
<1> USE DEF Keeps, plan, iter
<1>1. CASE PlainStep
  BY <1>1 DEF PlainStep, ReadJobs, ReadCloud, FailedDrained, FailedDeleted, JoinDone, Bootup,
              TimeoutsRaise, IdleDrained, DeleteInstances, EndIteration, CursorInv, PhasesInv
<1>2. CASE TimeoutStep
  BY <1>2 DEF TimeoutStep, HandleFailedNodes, ReadTimeouts, BootDrained
<1>3. CASE Abort
  BY <1>3 DEF Abort
<1>4. ASSUME NEW n \in Node, NodeStep(n) \/ JoinFails(n)
      PROVE  Keeps
  BY <1>4 DEF NodeStep, DrainFailed, DeleteFailed, JoinInspect, JoinTo, JoinRestore,
              JoinCreate, JoinSetId, JoinOnline, JoinFails, NameFails, CommandFails,
              JoinNext, DrainBootTimeout,
              DrainIdle, DrainStep, PostDelete
<1>5. CASE UNCHANGED iter \/ UNCHANGED vars \/ \E n \in Node : OperatorOpens(n)
  BY <1>5 DEF vars, OperatorOpens
<1> QED
  BY <1>1, <1>2, <1>3, <1>4, <1>5, OperatorCommand DEF Next, WorldStep

\* Only the drain loops mark a node, and only by making it offline.
LEMMA NextMarks ==
    ASSUME TypeOK, CursorInv, [Next]_vars, NEW n \in marked' \ marked
    PROVE  n \in offline'
<1>1. ASSUME NEW m \in Node, NodeStep(m)
      PROVE  n \in offline'
  BY <1>1 DEF NodeStep, DrainFailed, DeleteFailed, JoinInspect, JoinTo, JoinRestore,
              JoinCreate, JoinSetId, JoinOnline, JoinNext, DrainBootTimeout,
              DrainIdle, DrainStep, Drain, SetOffline, PostDelete
<1>2. ~PlainStep
  BY DEF PlainStep, ReadJobs, ReadNodes, ReadCloud, FailedDrained, FailedDeleted, JoinDone,
         Bootup, TimeoutsRaise, IdleDrained, DeleteInstances, EndIteration, FreshIteration,
         plan
<1>3. ~TimeoutStep
  BY DEF TimeoutStep, HandleFailedNodes, ReadTimeouts, BootDrained
<1>4. ~Abort
  BY DEF Abort, FreshIteration
<1>5. /\ ~UNCHANGED iter
      /\ ~UNCHANGED vars
      /\ ~\E m \in Node : OperatorOpens(m) \/ JoinFails(m)
  BY DEF iter, vars, OperatorOpens, JoinFails, NameFails, CommandFails, JoinNext
<1> QED
  BY <1>1, <1>2, <1>3, <1>4, <1>5, OperatorCommand DEF Next, WorldStep

\* A drained node stays offline.
LEMMA DrainedStep ==
    ASSUME IInv, [Next]_vars
    PROVE  DrainedStaysOffline'
<1> SUFFICES ASSUME NEW n \in marked', n \in known', n \notin onlined'
             PROVE  n \in offline'
  BY DEF DrainedStaysOffline
<1>1. CASE n \notin marked
  BY <1>1, NextMarks DEF IInv, CursorInv
<1>2. CASE n \in marked
  <2>1. ~FreshIteration /\ ~ReadNodes
    BY <1>2 DEF FreshIteration, ReadNodes, IInv, PhasesInv
  <2>2. n \notin onlined
    BY <2>1, NextKeeps DEF Keeps, IInv, CursorInv
  <2>3. Barred(n) /\ n \in Node
    BY <1>2, <2>2 DEF Barred, DrainedStaysOffline, IInv, TypeOK
  <2>4. n \notin cur /\ pc # "idle"
    BY <1>2 DEF IInv, JoinInv, PhasesInv
  <2>5. Barred(n)'
    BY <2>3, <2>4, BarredStable DEF IInv
  <2> QED
    BY <2>5 DEF Barred
<1> QED
  BY <1>1, <1>2

\* A node that was read offline and free stays quiet.
LEMMA SeenStep ==
    ASSUME IInv, [Next]_vars
    PROVE  SeenInv'
<1>1. CASE FreshIteration
  BY <1>1 DEF FreshIteration, NoSnapshot, SeenInv
<1>2. CASE ReadNodes
  BY <1>2 DEF ReadNodes, SeenInv, Quiet, world
<1>3. CASE Keeps
  <2> SUFFICES ASSUME NEW n \in snap'.offline \ snap'.busy, ~Assigned(n)', n \notin onlined'
               PROVE  Quiet(n)'
    BY DEF SeenInv
  <2>1. n \in snap.offline \ snap.busy /\ ~Assigned(n) /\ n \notin onlined
    BY <1>3 DEF Keeps, Assigned
  <2>2. Quiet(n)
    BY <2>1 DEF IInv, SeenInv
  <2>3. n \in Node /\ pc # "idle" /\ n \notin cur
    BY <2>1 DEF IInv, TypeOK, Snapshots, PhasesInv, NoSnapshot, JoinInv, Assigned
  <2> QED
    BY <2>2, <2>3, QuietStable DEF IInv
<1> QED
  BY <1>1, <1>2, <1>3, NextKeeps DEF IInv, CursorInv

\* Nodes are added to toDelete by the scale-down loops, shrunk by the filter on
\* assignments, and forgotten at the end.
LEMMA NextToDelete ==
    ASSUME TypeOK, CursorInv, [Next]_vars, NEW n \in toDelete' \ toDelete
    PROVE  \E ignore \in BOOLEAN :
              /\ DrainStep(n, ignore)
              /\ pc \in {"bootdrain", "idledrain"}
<1>1. ASSUME NEW m \in Node, NodeStep(m) \/ JoinFails(m)
      PROVE  \E ignore \in BOOLEAN : DrainStep(n, ignore) /\ pc \in {"bootdrain", "idledrain"}
  <2>1. PICK ignore \in BOOLEAN : DrainStep(m, ignore) /\ pc \in {"bootdrain", "idledrain"}
    BY <1>1 DEF NodeStep, DrainFailed, DeleteFailed, JoinInspect, JoinTo, JoinRestore,
                JoinCreate, JoinSetId, JoinOnline, JoinNext, JoinFails, NameFails, CommandFails,
                DrainBootTimeout,
                DrainIdle, PostDelete
  <2>2. m = n
    BY <2>1 DEF DrainStep
  <2> QED
    BY <2>1, <2>2
<1>2. ~PlainStep
  BY DEF PlainStep, ReadJobs, ReadNodes, ReadCloud, FailedDrained, FailedDeleted, JoinDone,
         Bootup, TimeoutsRaise, IdleDrained, DeleteInstances, EndIteration, FreshIteration,
         Deletable
<1>3. ~TimeoutStep
  BY DEF TimeoutStep, HandleFailedNodes, ReadTimeouts, BootDrained
<1>4. ~Abort
  BY DEF Abort, FreshIteration
<1>5. /\ ~UNCHANGED iter
      /\ ~UNCHANGED vars
      /\ ~\E m \in Node : OperatorOpens(m)
  BY DEF iter, vars, OperatorOpens
<1> QED
  BY <1>1, <1>2, <1>3, <1>4, <1>5, OperatorCommand DEF Next, WorldStep

\* What a scale-down loop returns is assigned (and filtered out later), or was
\* down or nameless, or is quiet: a node marked in this very iteration is met a
\* second time only if it was down.
LEMMA ReturnedStep ==
    ASSUME IInv, NEW n \in toDelete' \ toDelete, NEW ignore \in BOOLEAN,
           DrainStep(n, ignore), pc \in {"bootdrain", "idledrain"}
    PROVE  \/ Assigned(n)'
           \/ n \in snap'.down \/ seenCC'[n] = "new" \/ n \in onlined'
           \/ Quiet(n)'
<1> UNCHANGED <<snap, seenCC, held, matched, onlined, busy>>
  BY DEF DrainStep, plan, load
<1>1. CASE seenCC[n] = "new"
  BY <1>1
<1>2. CASE seenCC[n] # "new"
  <2>1. Drain(n, ignore, TRUE)
    BY <1>2 DEF DrainStep
  <2>2. UNCHANGED table
    BY <2>1 DEF Drain
  <2>3. CASE SeenOffline(n)
    <3>1. n \notin snap.busy
      BY <2>1, <2>3 DEF Drain
    <3>2. CASE n \in snap.offline
      BY <2>2, <3>1, <3>2 DEF IInv, SeenInv, Quiet, Assigned, table
    <3>3. CASE n \in marked
      BY <3>3 DEF IInv, MarkedInv, DrainStep, TypeOK
    <3> QED
      BY <2>3, <3>2, <3>3 DEF SeenOffline
  <2>4. CASE ~SeenOffline(n)
    BY <2>1, <2>2, <2>4 DEF Drain, Quiet, table
  <2> QED
    BY <2>3, <2>4
<1> QED
  BY <1>1, <1>2

\* Every step keeps what makes the nodes on the deletion list safe.
LEMMA ToDeleteStep ==
    ASSUME IInv, [Next]_vars
    PROVE  ToDeleteInv'
<1> SUFFICES ASSUME NEW n \in toDelete'
             PROVE  \/ Assigned(n)'
                    \/ n \in snap'.down \/ seenCC'[n] = "new" \/ n \in onlined'
                    \/ Quiet(n)'
  BY DEF ToDeleteInv
<1>1. CASE n \notin toDelete
  BY <1>1, NextToDelete, ReturnedStep DEF IInv, CursorInv
<1>2. CASE n \in toDelete
  <2>1. pc \in DrainPhases /\ n \in Node
    BY <1>2 DEF IInv, PhasesInv, TypeOK
  <2>2. ~FreshIteration /\ ~ReadNodes
    BY <2>1 DEF FreshIteration, ReadNodes, DrainPhases
  <2>3. Keeps /\ UNCHANGED <<snap, seenCC, matched, held>>
    BY <2>1, <2>2, NextKeeps DEF Keeps, IInv, CursorInv, DrainPhases
  <2>4. n \notin cur /\ pc # "idle"
    BY <2>1 DEF IInv, PhasesInv, DrainPhases, JoinPhases
  <2>5. CASE Quiet(n) /\ n \notin onlined'
    BY <2>1, <2>4, <2>5, QuietStable DEF IInv
  <2> QED
    BY <1>2, <2>3, <2>5 DEF IInv, ToDeleteInv, Assigned, Keeps
<1> QED
  BY <1>1, <1>2

-----------------------------------------------------------------------------
(* The theorems. *)

\* The inductive invariant holds at the start.
LEMMA InitIInv == Init => IInv
BY InitType, InitCursor
   DEF IInv, CursorInv, Init, SeenInv, ToDeleteInv, DrainedStaysOffline, NoSnapshot

\* Every step keeps the inductive invariant.
LEMMA NextIInv ==
    ASSUME IInv, [Next]_vars
    PROVE  IInv'
BY NextType, NextCursor, DrainedStep, SeenStep, ToDeleteStep DEF IInv, CursorInv

\* IInv is an invariant of the autoscaler against its world.
LEMMA Invariance == Spec => []IInv
BY InitIInv, NextIInv, PTL DEF Spec

\* No instance is handed to CycleCloud for deletion with a job on it, except
\* for a node read as down, an instance read without a hostname, or a node an
\* operator put online meanwhile: for any set of nodes, jobs and faults.
THEOREM DeletionIsIdle == Spec => []DeletesIdle
<1>1. IInv => DeletesIdle
  BY DEF IInv, ToDeleteInv, PhasesInv, DeletesIdle, Quiet, TypeOK, WorldTypeOK
<1> QED
  BY <1>1, Invariance, PTL

\* add_nodes_to_cluster never restores a node that the same iteration drained.
THEOREM DrainHolds == Spec => []DrainedStaysOffline
<1>1. IInv => DrainedStaysOffline
  BY DEF IInv
<1> QED
  BY <1>1, Invariance, PTL

\* An iteration leaves alone the nodes it saw held by the operator.
LEMMA HeldStep ==
    ASSUME IInv, IInv', [Next]_vars, NEW n \in held
    PROVE  /\ pc' = "delete" => n \notin toDelete'
           /\ /\ iter' # iter
              /\ note[n] = "keep"
              /\ n \in snap.offline \ snap.down
              => note'[n] = "keep" \/ n \in onlined'
<1>1. ASSUME pc' = "delete"
      PROVE  n \notin toDelete'
  <2>1. ~FreshIteration /\ ~ReadNodes
    BY <1>1 DEF FreshIteration, ReadNodes
  <2>2. n \in held'
    BY <2>1, NextKeeps DEF Keeps, IInv, CursorInv
  <2> QED
    BY <1>1, <2>2 DEF IInv, PhasesInv, Assigned
<1>2. ASSUME iter' # iter, note[n] = "keep", n \in snap.offline \ snap.down
      PROVE  note'[n] = "keep" \/ n \in onlined'
  <2>1. n \in Node /\ n \notin cur /\ SeenOffline(n) /\ pc # "idle"
    BY <1>2 DEF IInv, TypeOK, JoinInv, SeenOffline, PhasesInv
  <2>2. ~(n \in todo /\ pc \in {"faildelete", "post"})
    BY <1>2 DEF IInv, PhasesInv, Assigned
  <2>3. ASSUME NEW m \in Node, TableStep(m)
        PROVE  note'[n] = "keep" \/ n \in onlined'
    BY <1>2, <2>1, <2>2, <2>3
       DEF TableStep, SetOnline, SetOffline, CreateEntry, SetNodeId, DeleteEntry,
           OperatorOpens, IInv, TypeOK, WorldTypeOK
  <2> QED
    BY <1>2, <2>3, NextTable
<1> QED
  BY <1>1, <1>2

\* The same, as a property of every behaviour.
THEOREM HoldIsRespected == Spec => HeldIsLeftAlone
<1>1. IInv /\ IInv' /\ [Next]_vars =>
        [\A n \in held :
           /\ pc' = "delete" => n \notin toDelete'
           /\ /\ iter' # iter
              /\ note[n] = "keep"
              /\ n \in snap.offline \ snap.down
              => note'[n] = "keep" \/ n \in onlined']_vars
  BY HeldStep
<1> QED
  BY <1>1, Invariance, PTL DEF Spec, HeldIsLeftAlone

-----------------------------------------------------------------------------
(* The entries, node by node. *)

\* Whoever else is at the entry of the node the join works on, the join finds it
\* gone, or joined, or made by an operator.
LEMMA OpensKept ==
    ASSUME IInv, CurInv, [Next]_vars, ~FreshIteration,
           pc \in {"restore", "joined"}, NEW n \in cur
    PROVE  n \in joined' \cup onlined' \cup (Node \ known')
<1>1. n \in Node /\ n \in joined \cup onlined \cup (Node \ known)
  BY DEF IInv, TypeOK, CurInv, JoinOpensJoined
<1>2. onlined \subseteq onlined'
  <2>1. ~ReadNodes
    BY DEF ReadNodes
  <2> QED
    BY <2>1, NextKeeps DEF Keeps, IInv, CursorInv
<1>3. CASE UNCHANGED <<known, joined>>
  BY <1>1, <1>2, <1>3
<1>4. ASSUME NEW m \in Node, TableStep(m)
      PROVE  n \in joined' \cup onlined' \cup (Node \ known')
  <2>1. CASE SetNodeId(m)
    BY <1>1, <1>2, <2>1 DEF SetNodeId
  <2>2. CASE DeleteEntry(m)
    BY <1>1, <1>2, <2>2 DEF DeleteEntry
  <2>3. CASE OperatorOpens(m) /\ CreateEntry(m)
    BY <1>1, <1>2, <2>3 DEF OperatorOpens, CreateEntry
  <2>4. CASE SetOnline(m, "cc") \/ \E c \in {"cc", "keep"} : SetOffline(m, c)
    BY <1>3, <2>4 DEF SetOnline, SetOffline
  <2>5. pc # "create"
    OBVIOUS
  <2> QED
    BY <1>3, <1>4, <2>1, <2>2, <2>3, <2>4, <2>5 DEF TableStep
<1> QED
  BY <1>3, <1>4, NextTable

\* Only operators enter nodes in the history.
LEMMA NextOnlined ==
    ASSUME TypeOK, CursorInv, [Next]_vars
    PROVE  onlined' \subseteq onlined \/ OperatorActive
<1> USE DEF plan, iter
<1>1. CASE FreshIteration
  BY <1>1 DEF FreshIteration
<1>2. CASE PlainStep
  BY <1>1, <1>2 DEF PlainStep, ReadJobs, ReadNodes, ReadCloud, FailedDrained, FailedDeleted,
     JoinDone, Bootup, TimeoutsRaise, IdleDrained, DeleteInstances, EndIteration
<1>3. CASE TimeoutStep
  BY <1>3 DEF TimeoutStep, HandleFailedNodes, ReadTimeouts, BootDrained
<1>4. ASSUME NEW n \in Node, NodeStep(n) \/ JoinFails(n)
      PROVE  onlined' = onlined
  BY <1>4 DEF NodeStep, DrainFailed, DeleteFailed, JoinInspect, JoinTo, JoinRestore,
              JoinCreate, JoinSetId, JoinOnline, JoinFails, JoinNext, DrainBootTimeout,
              DrainIdle, DrainStep, PostDelete
<1>5. CASE UNCHANGED iter \/ UNCHANGED vars
  BY <1>5 DEF vars
<1> QED
  BY <1>1, <1>2, <1>3, <1>4, <1>5, OperatorCommand DEF Next, Abort, WorldStep

\* What one step may do to the place of the join loop.
CurStep ==
    \/ cur' = {}
    \/ UNCHANGED <<pc, cur>>
    \/ \E n \in Node : \E step \in {"create", "setid", "restore"} :
          /\ JoinTo(n, step)
          /\ step = "restore" => n \in joined
    \/ \E n \in cur : JoinCreate(n) \/ JoinSetId(n)

LEMMA NextCur ==
    ASSUME TypeOK, CursorInv, [Next]_vars
    PROVE  CurStep
<1> USE DEF CurStep
<1>1. CASE FreshIteration
  BY <1>1 DEF FreshIteration
<1>2. CASE PlainStep
  <2>1. cur' = cur \/ FreshIteration
    BY <1>2 DEF PlainStep, ReadJobs, ReadNodes, ReadCloud, FailedDrained, FailedDeleted,
       JoinDone, Bootup, TimeoutsRaise, IdleDrained, DeleteInstances, EndIteration, plan
  <2>2. pc \notin JoinPhases
    BY <1>2 DEF PlainStep, ReadJobs, ReadNodes, ReadCloud, FailedDrained, FailedDeleted,
       JoinDone, Bootup, TimeoutsRaise, IdleDrained, DeleteInstances, EndIteration, JoinPhases
  <2> QED
    BY <1>1, <2>1, <2>2 DEF CursorInv, PhasesInv
<1>3. CASE TimeoutStep
  <2>1. cur' = cur /\ pc \notin JoinPhases
    BY <1>3 DEF TimeoutStep, HandleFailedNodes, ReadTimeouts, BootDrained, JoinPhases
  <2> QED
    BY <2>1 DEF CursorInv, PhasesInv
<1>4. CASE Abort
  BY <1>1, <1>4 DEF Abort
<1>5. ASSUME NEW n \in Node, NodeStep(n) \/ JoinFails(n)
      PROVE  CurStep
  <2>1. CASE DrainFailed(n) \/ DeleteFailed(n) \/ DrainBootTimeout(n) \/ DrainIdle(n)
             \/ PostDelete(n)
    BY <2>1 DEF DrainFailed, DeleteFailed, DrainBootTimeout, DrainIdle, DrainStep, PostDelete
  <2>2. CASE JoinRestore(n) \/ JoinOnline(n) \/ JoinFails(n)
    BY <2>2 DEF JoinRestore, JoinOnline, JoinFails, JoinNext
  <2>3. CASE JoinInspect(n)
    BY <2>3 DEF JoinInspect, JoinNext
  <2>4. CASE JoinCreate(n) \/ JoinSetId(n)
    BY <2>4 DEF JoinCreate, JoinSetId
  <2> QED
    BY <1>5, <2>1, <2>2, <2>3, <2>4 DEF NodeStep
<1>6. CASE UNCHANGED iter \/ UNCHANGED vars \/ \E n \in Node : OperatorOpens(n)
  BY <1>6 DEF iter, vars, OperatorOpens
<1> QED
  BY <1>2, <1>3, <1>4, <1>5, <1>6, OperatorCommand DEF Next, WorldStep

\* The join works on one node, and no step of anybody has it open an entry
\* without ccnodeid, but one that an operator made.
LEMMA CurKept ==
    ASSUME IInv, CurInv, [Next]_vars
    PROVE  CurInv'
<1>1. onlined' # {} => OperatorActive
  BY NextOnlined DEF CurInv, IInv, CursorInv
<1> SUFFICES JoinOpensJoined' /\ \A m, n \in cur' : m = n
  BY <1>1 DEF CurInv
<1> USE DEF CurInv, JoinOpensJoined
<1>2. CurStep
  BY NextCur DEF IInv, CursorInv
<1>3. CASE cur' = {}
  BY <1>3
<1>4. CASE UNCHANGED <<pc, cur>>
  <2>1. CASE FreshIteration
    BY <1>3, <2>1 DEF FreshIteration
  <2>2. CASE ~FreshIteration
    BY <1>4, <2>2, OpensKept
  <2> QED
    BY <2>1, <2>2
<1>5. ASSUME NEW n \in Node, NEW step \in {"create", "setid", "restore"}, JoinTo(n, step),
             step = "restore" => n \in joined
      PROVE  JoinOpensJoined' /\ \A m, k \in cur' : m = k
  BY <1>5 DEF JoinTo, world
<1>6. ASSUME NEW n \in cur, JoinCreate(n)
      PROVE  JoinOpensJoined' /\ \A m, k \in cur' : m = k
  BY <1>6 DEF JoinCreate
<1>7. ASSUME NEW n \in cur, JoinSetId(n)
      PROVE  JoinOpensJoined' /\ \A m, k \in cur' : m = k
  BY <1>7 DEF JoinSetId, SetNodeId
<1> QED
  BY <1>2, <1>3, <1>4, <1>5, <1>6, <1>7 DEF CurStep

LEMMA CurInvariance == Spec => [](IInv /\ CurInv)
<1>1. Init => IInv /\ CurInv
  BY InitIInv DEF Init, CurInv, JoinOpensJoined
<1>2. IInv /\ CurInv /\ [Next]_vars => (IInv /\ CurInv)'
  BY NextIInv, CurKept
<1> QED
  BY <1>1, <1>2, PTL DEF Spec

\* add_nodes_to_cluster opens an entry without ccnodeid only if an operator put
\* it there while the join was under way.
THEOREM JoinOpensOnlyJoined == Spec => []JoinOpensJoined
<1>1. CurInv => JoinOpensJoined
  BY DEF CurInv
<1> QED
  BY <1>1, CurInvariance, PTL

\* One command or event at the entry of node m, as every step is or none.
EntryCommand(m) ==
    \/ UNCHANGED busy /\ \E c \in Notes : SetOffline(m, c)
    \/ /\ UNCHANGED busy
       /\ m \in joined \/ OperatorActive
       /\ \E c \in Notes : SetOnline(m, c)
    \/ UNCHANGED busy /\ (CreateEntry(m) \/ SetNodeId(m) \/ DeleteEntry(m))
    \/ MomUp(m) \/ StartJob(m) \/ EndJob(m) \/ Requeue(m)

\* No entry is touched, and no mom comes up.
EntriesAside ==
    /\ UNCHANGED <<known, joined, offline, busy>>
    /\ \A n \in Node : mom'[n] = mom[n] \/ (mom[n] = "up" /\ mom'[n] # "up")

LEMMA TerminateAside ==
    ASSUME TypeOK, NEW S \in SUBSET Node, Terminate(S),
           UNCHANGED <<known, joined, offline, busy>>
    PROVE  EntriesAside
BY DEF Terminate, EntriesAside, TypeOK, WorldTypeOK

LEMMA NodeStepEntry ==
    ASSUME IInv, CurInv, NEW n \in Node, NodeStep(n)
    PROVE  EntriesAside \/ EntryCommand(n)
<1> USE DEF EntryCommand, load
<1>1. CASE UNCHANGED table /\ UNCHANGED busy
  BY <1>1 DEF EntriesAside, table
<1>2. CASE UNCHANGED busy /\ SetOffline(n, "cc")
  BY <1>2 DEF Notes
<1>3. CASE DrainFailed(n)
  BY <1>1, <1>2, <1>3 DEF DrainFailed, Drain
<1>4. CASE DeleteFailed(n)
  BY <1>1, <1>4 DEF DeleteFailed, RemoveEntry
<1>5. CASE JoinInspect(n)
  <2>1. UNCHANGED table /\ UNCHANGED busy
    BY <1>5 DEF JoinInspect, JoinTo, JoinNext, world, table
  <2> QED
    BY <1>1, <2>1
<1>6. CASE JoinRestore(n) \/ JoinOnline(n)
  <2>1. SetOnline(n, "cc") /\ UNCHANGED busy
    BY <1>6 DEF JoinRestore, JoinOnline, JoinNext
  <2>2. n \in joined \/ OperatorActive
    BY <1>6, <2>1 DEF JoinRestore, JoinOnline, SetOnline, CurInv, JoinOpensJoined
  <2> QED
    BY <2>1, <2>2 DEF Notes
<1>7. CASE JoinCreate(n) \/ JoinSetId(n)
  BY <1>7 DEF JoinCreate, JoinSetId
<1>8. CASE DrainBootTimeout(n) \/ DrainIdle(n)
  BY <1>1, <1>2, <1>8 DEF DrainBootTimeout, DrainIdle, DrainStep, Drain
<1>9. CASE PostDelete(n)
  BY <1>1, <1>9 DEF PostDelete, RemoveEntry
<1> QED
  BY <1>3, <1>4, <1>5, <1>6, <1>7, <1>8, <1>9 DEF NodeStep

LEMMA WorldStepEntry ==
    ASSUME TypeOK, NEW n \in Node, WorldStep(n)
    PROVE  EntriesAside \/ EntryCommand(n)
<1>1. CASE StartJob(n) \/ EndJob(n) \/ Requeue(n) \/ MomUp(n)
  BY <1>1 DEF EntryCommand
<1>2. CASE GetHostname(n) \/ BecomeReady(n) \/ FailInstance(n)
  BY <1>2 DEF GetHostname, BecomeReady, FailInstance, EntriesAside, table, load
<1>3. CASE MomLost(n)
  BY <1>3 DEF MomLost, EntriesAside, TypeOK, WorldTypeOK, load
<1>4. CASE SelfOffline(n)
  BY <1>4 DEF SelfOffline, EntryCommand, Notes, load
<1>5. CASE Evict(n) \/ ReapFailed(n)
  BY <1>5, TerminateAside DEF Evict, ReapFailed, load
<1> QED
  BY <1>1, <1>2, <1>3, <1>4, <1>5 DEF WorldStep

LEMMA NextEntry ==
    ASSUME IInv, CurInv, [Next]_vars
    PROVE  EntriesAside \/ \E n \in Node : EntryCommand(n)
<1> TypeOK
  BY DEF IInv
<1>1. CASE UNCHANGED <<table, busy>>
  BY <1>1 DEF EntriesAside, table
<1>2. CASE PlainStep
  <2>1. CASE DeleteInstances
    <3>1. toDelete \in SUBSET Node
      BY DEF TypeOK
    <3> QED
      BY <2>1, <3>1, TerminateAside DEF DeleteInstances, load
  <2>2. CASE ~DeleteInstances
    BY <1>1, <1>2, <2>2 DEF PlainStep, ReadJobs, ReadNodes, ReadCloud, FailedDrained,
       FailedDeleted, JoinDone, Bootup, TimeoutsRaise, IdleDrained, EndIteration, world,
       table, load
  <2> QED
    BY <2>1, <2>2
<1>3. CASE Submit \/ TimeoutStep \/ Abort \/ UNCHANGED vars
  BY <1>1, <1>3 DEF Submit, TimeoutStep, HandleFailedNodes, ReadTimeouts, BootDrained, world,
     Abort, load, vars, table
<1>4. ASSUME NEW n \in Node, JoinFails(n)
      PROVE  UNCHANGED <<table, busy>>
  BY <1>4 DEF JoinFails, JoinNext, load
<1>5. ASSUME NEW n \in Node, OperatorStep(n)
      PROVE  EntryCommand(n)
  BY <1>5, OperatorCommand DEF EntryCommand, Notes, load
<1> QED
  BY <1>1, <1>2, <1>3, <1>4, <1>5, NodeStepEntry, WorldStepEntry DEF Next

\* A command at one entry is a step of that entry and none of another.
LEMMA CommandAtEntry ==
    ASSUME TypeOK, NEW m \in Node, EntryCommand(m), NEW n \in Node
    PROVE  [Entry(n)!Next]_(Entry(n)!vars)
<1> USE DEF TypeOK, WorldTypeOK
<1>1. CASE n # m
  <2>1. /\ (n \in known') = (n \in known) /\ (n \in joined') = (n \in joined)
        /\ (n \in offline') = (n \in offline) /\ (n \in busy') = (n \in busy)
        /\ mom'[n] = mom[n]
    BY <1>1 DEF EntryCommand, SetOffline, SetOnline, CreateEntry, SetNodeId, DeleteEntry,
       MomUp, StartJob, EndJob, Requeue, table, load
  <2> QED
    BY <2>1 DEF Entry!vars
<1>2. CASE n = m
  <2>1. ASSUME NEW c \in Notes, SetOffline(m, c), UNCHANGED busy
        PROVE  Entry(n)!Close
    BY <1>2, <2>1 DEF SetOffline, Entry!Close
  <2>2. ASSUME NEW c \in Notes, SetOnline(m, c), UNCHANGED busy, m \in joined \/ OperatorActive
        PROVE  Entry(n)!Open
    <3>1. n \in known /\ n \notin offline' /\ UNCHANGED <<known, joined, mom, busy>>
      BY <1>2, <2>2 DEF SetOnline
    <3> QED
      BY <1>2, <2>2, <3>1 DEF Entry!Open
  <2>3. ASSUME CreateEntry(m), UNCHANGED busy
        PROVE  Entry(n)!Create
    BY <1>2, <2>3 DEF CreateEntry, Entry!Create
  <2>4. ASSUME SetNodeId(m), UNCHANGED busy
        PROVE  Entry(n)!Join \/ UNCHANGED Entry(n)!vars
    <3>1. n \in known /\ n \in joined' /\ UNCHANGED <<known, offline, mom, busy>>
      BY <1>2, <2>4 DEF SetNodeId
    <3> QED
      BY <3>1 DEF Entry!Join, Entry!vars
  <2>5. ASSUME DeleteEntry(m), UNCHANGED busy
        PROVE  Entry(n)!Drop
    BY <1>2, <2>5 DEF DeleteEntry, Entry!Drop
  <2>6. ASSUME MomUp(m)
        PROVE  Entry(n)!MomTurns
    BY <1>2, <2>6 DEF MomUp, Down, load, Entry!MomTurns
  <2>7. ASSUME StartJob(m)
        PROVE  Entry(n)!StartJob
    BY <1>2, <2>7 DEF StartJob, table, Entry!StartJob
  <2>8. ASSUME EndJob(m) \/ Requeue(m)
        PROVE  Entry(n)!EndJob
    BY <1>2, <2>8 DEF EndJob, Requeue, table, Entry!EndJob
  <2> QED
    BY <2>1, <2>2, <2>3, <2>4, <2>5, <2>6, <2>7, <2>8 DEF EntryCommand, Entry!Next
<1> QED
  BY <1>1, <1>2

\* Every step is one of each entry, or leaves it alone.
LEMMA NextAtEntries ==
    ASSUME IInv, CurInv, [Next]_vars, NEW n \in Node
    PROVE  [Entry(n)!Next]_(Entry(n)!vars)
<1>1. CASE EntriesAside
  BY <1>1 DEF EntriesAside, Entry!Next, Entry!MomTurns, Entry!vars
<1>2. ASSUME NEW m \in Node, EntryCommand(m)
      PROVE  [Entry(n)!Next]_(Entry(n)!vars)
  BY <1>2, CommandAtEntry DEF IInv
<1> QED
  BY <1>1, <1>2, NextEntry

\* The entry of each node behaves as NodeEntry describes, for any set of nodes
\* whose entries, moms and jobs move between any two commands of an iteration.
THEOREM AutoscaleImplementsEntries == Spec => EntriesImplemented
<1>1. Init => \A n \in Node : Entry(n)!Init
  BY DEF Init, WorldInit, Entry!Init
<1>2. IInv /\ CurInv /\ [Next]_vars =>
        [\A n \in Node : [Entry(n)!Next]_(Entry(n)!vars)]_vars
  BY NextAtEntries
<1> QED
  BY <1>1, <1>2, CurInvariance, PTL DEF Spec, EntriesImplemented

\* The join loop leaves a node by one command, or by one that fails.
LEMMA JoinLeaves ==
    ASSUME IInv, CurInv, [Next]_vars, NEW n \in todo \ todo',
           pc \in JoinPhases \cup {"join"}, Joinable(n), UNCHANGED faults, ~CommandRefused(n)
    PROVE  \/ n \in joined' /\ (n \in offline' => note'[n] # "cc")
           \/ n \in onlined
<1> DEFINE Serving == \/ n \in joined' /\ (n \in offline' => note'[n] # "cc")
                      \/ n \in onlined
<1>1. ASSUME NEW m \in Node, NodeStep(m)
      PROVE  Serving
  <2>1. JoinInspect(m) \/ JoinRestore(m) \/ JoinOnline(m)
    BY <1>1 DEF NodeStep, DrainFailed, DeleteFailed, DrainBootTimeout, DrainIdle, PostDelete,
       JoinCreate, JoinSetId, JoinPhases
  <2>2. m = n
    BY <2>1 DEF JoinInspect, JoinRestore, JoinOnline, JoinNext, JoinTo
  <2>3. CASE JoinInspect(n)
    BY <2>3 DEF JoinInspect, JoinTo, JoinNext, table
  <2>4. CASE JoinRestore(n) \/ JoinOnline(n)
    BY <2>4 DEF JoinRestore, JoinOnline, SetOnline, CurInv, JoinOpensJoined
  <2> QED
    BY <2>1, <2>2, <2>3, <2>4
<1>2. ~PlainStep
  BY DEF PlainStep, ReadJobs, ReadNodes, ReadCloud, FailedDrained, FailedDeleted, JoinDone,
     Bootup, TimeoutsRaise, IdleDrained, DeleteInstances, EndIteration, JoinPhases
<1>3. ~TimeoutStep
  BY DEF TimeoutStep, HandleFailedNodes, ReadTimeouts, BootDrained, JoinPhases
<1>4. ~Fault
  BY WorldAssumption DEF Fault, IInv, TypeOK, WorldTypeOK
<1>5. ~Abort
  BY <1>4 DEF Abort
<1>6. ~\E m \in Node : JoinFails(m)
  <2> SUFFICES ASSUME NEW m \in Node, JoinFails(m)
               PROVE  FALSE
    OBVIOUS
  <2>1. CommandRefused(m) /\ m = n
    BY <1>4 DEF JoinFails, JoinNext
  <2> QED
    BY <2>1
<1>7. ~(UNCHANGED iter \/ UNCHANGED vars \/ \E m \in Node : OperatorOpens(m))
  BY DEF iter, vars, OperatorOpens
<1> QED
  BY <1>1, <1>2, <1>3, <1>5, <1>6, <1>7, OperatorCommand DEF Next, WorldStep

\* add_nodes_to_cluster passes over no matched node it could restore or finish.
THEOREM JoinPassesOverNone == Spec => JoinLeavesServing
<1>1. IInv /\ CurInv /\ [Next]_vars =>
        [\A n \in todo \ todo' :
           /\ pc \in JoinPhases \cup {"join"}
           /\ Joinable(n)
           /\ UNCHANGED faults
           /\ ~CommandRefused(n)
           => \/ n \in joined' /\ (n \in offline' => note'[n] # "cc")
              \/ n \in onlined]_vars
  BY JoinLeaves
<1> QED
  BY <1>1, CurInvariance, PTL DEF Spec, JoinLeavesServing
=============================================================================
