-------------------------- MODULE NodeJoin_proofs --------------------------
(***************************************************************************)
(* Proofs about NodeJoin, for any resources, any number of instances that   *)
(* use the hostname and any number of faults.                               *)
(***************************************************************************)
EXTENDS NodeJoin, TLAPS

USE DEF Owner, Instance

\* The invariant holds before the first instance.
LEMMA InitNInv == Init => NInv
<1> SUFFICES ASSUME Init PROVE NInv
  OBVIOUS
<1>1. /\ 0 \in 0..MaxInstance
      /\ 1 \in 1..MaxRetries
      /\ 0 \in 0..MaxFaults
  BY JoinAssumption
<1>2. Unset \in [Resource -> Texts]
  BY <1>1 DEF Unset, Texts
<1>3. TypeOK
  BY <1>1, <1>2 DEF Init, TypeOK, Steps, Stages
<1>4. WritingInv /\ JoinedIsComplete
  BY DEF Init, WritingInv, JoinedIsComplete
<1> QED
  BY <1>3, <1>4 DEF NInv

\* An installer changes nothing of an entry but its mark, nor the autoscaler.
LEMMA InstallerKeeps == NInv /\ Installer => NInv'
<1> SUFFICES ASSUME NInv, Installer PROVE NInv'
  OBVIOUS
<1>1. UNCHANGED <<inst, made, known, ccnodeid, res, mom, scaler, faults>>
  BY DEF Installer, InstallerStep, Await, Retry, Counted, CheckEntry, SelfOffline, Touch,
         Activate, Converge
<1>2. /\ stage' \in Stages /\ running' \in BOOLEAN
      /\ found' \in BOOLEAN /\ guard' \in BOOLEAN /\ offline' \in BOOLEAN
  BY DEF NInv, TypeOK, Stages, Installer, Await, Retry, Counted, CheckEntry, SelfOffline,
         Touch, Activate, Converge
<1>3. attempt' \in 1..MaxRetries
  BY JoinAssumption DEF NInv, TypeOK, Installer, Await, Retry, Counted, CheckEntry,
     SelfOffline, Touch, Activate, Converge
<1>4. TypeOK'
  BY <1>1, <1>2, <1>3 DEF NInv, TypeOK, scaler
<1> QED
  BY <1>1, <1>4 DEF NInv, WritingInv, JoinedIsComplete, scaler

\* The life of instances and moms changes nothing of an entry.
LEMMA WorldKeeps == NInv /\ (Boot \/ Gone \/ MomUp \/ MomLost) => NInv'
<1> SUFFICES ASSUME NInv, Boot \/ Gone \/ MomUp \/ MomLost PROVE NInv'
  OBVIOUS
<1>1. UNCHANGED <<entry, scaler>>
  BY DEF Boot, Gone, MomUp, MomLost
<1>2. inst' \in Owner /\ made' \in Owner
  BY JoinAssumption DEF NInv, TypeOK, Boot, Gone, MomUp, MomLost
<1>3. attempt' \in 1..MaxRetries /\ faults' \in 0..MaxFaults
  BY JoinAssumption DEF NInv, TypeOK, Boot, Gone, MomUp, MomLost, installer
<1>4. /\ stage' \in Stages /\ running' \in BOOLEAN /\ mom' \in {"unknown", "down", "up"}
      /\ found' \in BOOLEAN /\ guard' \in BOOLEAN
  BY DEF NInv, TypeOK, Stages, Boot, Gone, MomUp, MomLost, installer
<1>5. TypeOK'
  BY <1>1, <1>2, <1>3, <1>4 DEF NInv, TypeOK, entry, scaler
<1> QED
  BY <1>1, <1>5 DEF NInv, WritingInv, JoinedIsComplete, entry, scaler

\* A step of the autoscaler keeps the types if it keeps those of what it writes.
LEMMA ScalerTypes ==
    ASSUME TypeOK, UNCHANGED <<inst, made, installer>>,
           known' \in BOOLEAN, ccnodeid' \in Owner, res' \in [Resource -> Texts],
           offline' \in BOOLEAN, mom' \in {"unknown", "down", "up"},
           pc' \in Steps, seen' \in Owner, todo' \subseteq Resource,
           faults' \in 0..MaxFaults
    PROVE  TypeOK'
BY DEF TypeOK, installer

\* The resources an instance defines are resources of the server.
LEMMA DefinedTyped == ASSUME NEW i \in Owner, i # 0 PROVE Defined[i] \subseteq Resource
<1>1. i \in 1..MaxInstance
  BY JoinAssumption
<1> QED
  BY <1>1, JoinAssumption

\* The steps that leave ccnodeid and the resources as they are.
LEMMA PlainKeeps ==
    NInv /\ (Begin \/ Drain \/ ListNode \/ ResourcesSet \/ Online \/ PostDelete \/ RemoveFails
               \/ Abort) => NInv'
<1> SUFFICES ASSUME NInv,
                    \/ Begin \/ Drain \/ ListNode \/ ResourcesSet \/ Online
                    \/ PostDelete \/ RemoveFails \/ Abort
             PROVE  NInv'
  OBVIOUS
<1>1. UNCHANGED <<inst, made, known, ccnodeid, res, mom, installer>>
  BY DEF Begin, Drain, ListNode, ResourcesSet, Online, PostDelete, RemoveFails, Abort, ScalerStep,
         entry
<1>2. pc' \in Steps /\ offline' \in BOOLEAN
  BY DEF NInv, TypeOK, Steps, Begin, Drain, ListNode, ResourcesSet, Online, PostDelete,
         RemoveFails, Abort, ScalerStep, Ends, entry
<1>3. seen' \in Owner
  BY JoinAssumption DEF NInv, TypeOK, Begin, Drain, ListNode, ResourcesSet, Online, PostDelete,
     RemoveFails, Abort, ScalerStep, Ends
<1>4. faults' \in 0..MaxFaults
  BY JoinAssumption DEF NInv, TypeOK, Begin, Drain, ListNode, ResourcesSet, Online, PostDelete,
     RemoveFails, Abort, ScalerStep
<1>5. todo' \subseteq Resource
  <2>1. CASE ListNode
    BY <2>1, DefinedTyped DEF NInv, TypeOK, WritingInv, ListNode, Ends
  <2>2. CASE ~ListNode
    BY <2>2 DEF NInv, TypeOK, Begin, Drain, ResourcesSet, Online, PostDelete, RemoveFails, Abort,
       ScalerStep, Ends
  <2> QED
    BY <2>1, <2>2
<1>6. TypeOK'
  BY <1>1, <1>2, <1>3, <1>4, <1>5, ScalerTypes DEF NInv, TypeOK
<1>7. WritingInv'
  <2>1. CASE Begin \/ PostDelete \/ RemoveFails
    BY <1>1, <2>1 DEF NInv, WritingInv, Begin, PostDelete, RemoveFails
  <2>2. CASE Drain \/ Online \/ Abort
    BY <1>1, <2>2 DEF NInv, WritingInv, Drain, Online, Abort, Ends
  <2>3. CASE ListNode
    BY <1>1, <2>3 DEF NInv, WritingInv, ListNode, Ends
  <2>4. CASE ResourcesSet
    BY <1>1, <2>4 DEF NInv, WritingInv, ResourcesSet, ScalerStep
  <2> QED
    BY <2>1, <2>2, <2>3, <2>4
<1>8. JoinedIsComplete'
  BY <1>1 DEF NInv, JoinedIsComplete
<1> QED
  BY <1>6, <1>7, <1>8 DEF NInv

\* The steps that write the entry.
LEMMA RemoveKeeps == NInv /\ Remove => NInv'
<1> SUFFICES ASSUME NInv, Remove PROVE NInv'
  OBVIOUS
<1>1. 0 \in 0..MaxInstance
  BY JoinAssumption
<1>2. TypeOK'
  BY <1>1, ScalerTypes DEF NInv, TypeOK, Remove, Forget, Unset, Texts, Steps
<1>3. WritingInv' /\ JoinedIsComplete'
  BY DEF Remove, Forget, WritingInv, JoinedIsComplete
<1> QED
  BY <1>2, <1>3 DEF NInv

\* A new entry has no ccnodeid and all its resources still to be set.
LEMMA CreateKeeps == NInv /\ CreateNode => NInv'
<1> SUFFICES ASSUME NInv, CreateNode PROVE NInv'
  OBVIOUS
<1>1. seen # 0 /\ seen \in Owner
  BY DEF NInv, TypeOK, WritingInv, CreateNode
<1>2. TypeOK'
  BY <1>1, DefinedTyped, ScalerTypes DEF NInv, TypeOK, CreateNode, Steps
<1>3. JoinedIsComplete'
  BY DEF NInv, JoinedIsComplete, CreateNode
<1> QED
  BY <1>1, <1>2, <1>3 DEF NInv, WritingInv, CreateNode

\* One qmgr sets one resource and takes it off the list.
LEMMA SetResourceKeeps ==
    ASSUME NInv, NEW r \in Resource, SetResource(r)
    PROVE  NInv'
<1>1. TypeOK'
  <2>1. Written(r, seen) \in Texts
    BY DEF NInv, TypeOK, Written, Texts
  <2> QED
    BY <2>1, ScalerTypes DEF NInv, TypeOK, SetResource
<1>2. ccnodeid' = 0
  BY DEF NInv, WritingInv, SetResource
<1>3. \A q \in Defined[seen] \ todo' : res'[q] = Written(q, seen)
  <2> SUFFICES ASSUME NEW q \in Defined[seen] \ todo' PROVE res'[q] = Written(q, seen)
    OBVIOUS
  <2>1. CASE q = r
    BY <2>1 DEF NInv, TypeOK, SetResource
  <2>2. CASE q # r
    BY <2>2 DEF NInv, TypeOK, WritingInv, SetResource
  <2> QED
    BY <2>1, <2>2
<1>4. WritingInv'
  BY <1>2, <1>3 DEF NInv, WritingInv, SetResource
<1> QED
  BY <1>1, <1>2, <1>4 DEF NInv, JoinedIsComplete

\* ccnodeid is written when nothing is left to do.
LEMMA SetNodeIdKeeps == NInv /\ SetNodeId => NInv'
<1> SUFFICES ASSUME NInv, SetNodeId PROVE NInv'
  OBVIOUS
<1>1. /\ UNCHANGED <<inst, made, mom, installer, seen, todo, faults, known, res, offline>>
      /\ pc' = "online" /\ ccnodeid' = seen /\ pc = "ccnodeid"
  BY DEF SetNodeId, ScalerStep
<1>2. TypeOK'
  BY <1>1, ScalerTypes DEF NInv, TypeOK, Steps
<1>3. JoinedIsComplete'
  BY <1>1 DEF NInv, WritingInv, JoinedIsComplete
<1>4. known
  BY <1>1 DEF NInv, WritingInv
<1> QED
  BY <1>1, <1>2, <1>3, <1>4 DEF NInv, WritingInv

\* Every step keeps the invariant.
LEMMA NextKeepsNInv == NInv /\ [Next]_vars => NInv'
<1> SUFFICES ASSUME NInv, [Next]_vars PROVE NInv'
  OBVIOUS
<1>1. CASE UNCHANGED vars
  BY <1>1 DEF vars, NInv, TypeOK, WritingInv, JoinedIsComplete
<1>2. CASE Next
  BY <1>2, WorldKeeps, InstallerKeeps, PlainKeeps, RemoveKeeps, CreateKeeps,
     SetResourceKeeps, SetNodeIdKeeps DEF Next, Iteration
<1> QED
  BY <1>1, <1>2

\* NInv is an invariant of the join.
LEMMA JoinInvariance == Spec => []NInv
<1>1. Init => NInv
  BY InitNInv
<1>2. NInv /\ [Next]_vars => NInv'
  BY NextKeepsNInv
<1> QED
  BY <1>1, <1>2, PTL DEF Spec

\* Entries, installer and autoscaler stay within their types; attempts stay
\* within MAX_RETRIES.
THEOREM JoinTypes == Spec => []TypeOK
<1>1. NInv => TypeOK
  BY DEF NInv
<1> QED
  BY <1>1, JoinInvariance, PTL

\* Every reachable entry that names an instance carries the resources this
\* instance defines, whoever owned the hostname before and wherever the
\* autoscaler died (add_nodes_to_cluster sets ccnodeid last).
THEOREM CompleteOnceJoined == Spec => []JoinedIsComplete
<1>1. NInv => JoinedIsComplete
  BY DEF NInv
<1> QED
  BY <1>1, JoinInvariance, PTL
=============================================================================
