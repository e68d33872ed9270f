------------------------- MODULE NodeHealth_proofs -------------------------
(***************************************************************************)
(* Proofs about NodeHealth: what is proved of the join in NodeJoin_proofs   *)
(* stays true beside the health check, dying moms and a server that refuses *)
(* to delete an entry with a job, and an instance that serves is left to    *)
(* serve by all of them.                                                    *)
(***************************************************************************)
EXTENDS NodeHealth, NodeJoin_proofs

USE DEF Owner, Instance

Checks == /\ job \in BOOLEAN /\ check \in {"idle", "ask", "dismiss"}
          /\ last \in {"none", "blank", "slot"} /\ old \in BOOLEAN

HealthInv == NInv /\ Checks

\* Before the first instance.
LEMMA InitHealth == HealthInit => HealthInv
BY InitNInv DEF HealthInit, HealthInv, Checks

\* What the check and the jobs change is no part of the join.
LEMMA AsideKeeps ==
    HealthInv /\ (JobStarts \/ JobEnds \/ Age \/ FindMom) => HealthInv'
<1> SUFFICES ASSUME HealthInv, JobStarts \/ JobEnds \/ Age \/ FindMom PROVE HealthInv'
  OBVIOUS
<1>1. UNCHANGED vars
  BY DEF JobStarts, JobEnds, Age, FindMom
<1>2. NInv'
  BY <1>1, NextKeepsNInv DEF HealthInv
<1>3. Checks'
  BY DEF HealthInv, Checks, JobStarts, JobEnds, Age, FindMom
<1> QED
  BY <1>2, <1>3 DEF HealthInv

\* pbsnodes reads the entry and counts a failure at most.
LEMMA AskKeeps == HealthInv /\ AskServer => HealthInv'
<1> SUFFICES ASSUME HealthInv, AskServer PROVE HealthInv'
  OBVIOUS
<1>1. UNCHANGED <<inst, made, entry, mom, scaler, installer>>
  BY DEF AskServer
<1>2. faults' \in 0..MaxFaults
  BY JoinAssumption DEF AskServer, HealthInv, NInv, TypeOK
<1>3. TypeOK'
  BY <1>1, <1>2 DEF HealthInv, NInv, TypeOK, entry, scaler, installer
<1>4. Checks'
  BY DEF HealthInv, Checks, AskServer
<1> QED
  BY <1>1, <1>3, <1>4 DEF HealthInv, NInv, WritingInv, JoinedIsComplete, entry, scaler

\* A mom that dies changes nothing of the entry.
LEMMA MomDiesKeeps == HealthInv /\ MomDies => HealthInv'
<1> SUFFICES ASSUME HealthInv, MomDies PROVE HealthInv'
  OBVIOUS
<1>1. UNCHANGED <<inst, made, entry, scaler, stage, attempt, found, guard>>
  BY DEF MomDies
<1>2. faults' \in 0..MaxFaults
  BY JoinAssumption DEF MomDies, HealthInv, NInv, TypeOK
<1>3. running' \in BOOLEAN /\ mom' \in {"unknown", "down", "up"}
  BY DEF MomDies, HealthInv, NInv, TypeOK
<1>4. TypeOK'
  BY <1>1, <1>2, <1>3 DEF HealthInv, NInv, TypeOK, entry, scaler
<1>5. Checks'
  BY DEF HealthInv, Checks, MomDies
<1> QED
  BY <1>1, <1>4, <1>5 DEF HealthInv, NInv, WritingInv, JoinedIsComplete, entry, scaler

\* A refused deletion leaves the entry to the join of the same iteration.
LEMMA RefusedKeeps == HealthInv /\ RemoveRefused => HealthInv'
<1> SUFFICES ASSUME HealthInv, RemoveRefused PROVE HealthInv'
  OBVIOUS
<1>1. UNCHANGED <<inst, made, entry, mom, installer, seen, todo, faults>>
  BY DEF RemoveRefused
<1>2. pc' \in {"idle", "join"} /\ (pc' = "join" => seen # 0)
  BY DEF RemoveRefused
<1>3. TypeOK'
  BY <1>1, <1>2 DEF HealthInv, NInv, TypeOK, Steps, entry, installer
<1>4. WritingInv' /\ JoinedIsComplete'
  BY <1>1, <1>2 DEF HealthInv, NInv, WritingInv, JoinedIsComplete, entry
<1>5. Checks'
  BY DEF HealthInv, Checks, RemoveRefused
<1> QED
  BY <1>3, <1>4, <1>5 DEF HealthInv, NInv

\* A step of the join is one of NodeJoin, and so is the end of the instance.
LEMMA JoinStepKeeps ==
    ASSUME HealthInv, Next, UNCHANGED <<job, check, last, old>>
    PROVE  HealthInv'
BY NextKeepsNInv DEF HealthInv, Checks

LEMMA GoneKeeps == HealthInv /\ InstanceGone => HealthInv'
<1> SUFFICES ASSUME HealthInv, InstanceGone PROVE HealthInv'
  OBVIOUS
<1>1. NInv'
  BY WorldKeeps DEF HealthInv, InstanceGone
<1>2. Checks'
  BY DEF HealthInv, Checks, InstanceGone
<1> QED
  BY <1>1, <1>2 DEF HealthInv

\* Every step keeps the invariant.
LEMMA HealthNextKeeps == HealthInv /\ [HealthNext]_hvars => HealthInv'
<1> SUFFICES ASSUME HealthInv, [HealthNext]_hvars PROVE HealthInv'
  OBVIOUS
<1>1. CASE UNCHANGED hvars
  <2>1. UNCHANGED vars /\ UNCHANGED <<job, check, last, old>>
    BY <1>1 DEF hvars
  <2>2. NInv'
    BY <2>1, NextKeepsNInv DEF HealthInv
  <2> QED
    BY <2>1, <2>2 DEF HealthInv, Checks
<1>2. CASE CheckStep
  BY <1>2, AsideKeeps, AskKeeps, GoneKeeps DEF CheckStep, Dismiss
<1>3. CASE JobStarts \/ JobEnds \/ MomDies \/ Age \/ InstanceGone \/ RemoveRefused
  BY <1>3, AsideKeeps, MomDiesKeeps, GoneKeeps, RefusedKeeps
<1>4. CASE \/ JoinStep(Boot) \/ JoinStep(MomUp) \/ JoinStep(MomLost)
           \/ JoinStep(Iteration) \/ JoinStep(PostDelete) \/ JoinStep(RemoveFails)
           \/ JoinStep(Abort) \/ JoinStep(Installer)
  <2>1. Next /\ UNCHANGED <<job, check, last, old>>
    BY <1>4 DEF JoinStep, Next
  <2> QED
    BY <2>1, JoinStepKeeps
<1> QED
  BY <1>1, <1>2, <1>3, <1>4 DEF HealthNext

LEMMA HealthInvariance == HealthSpec => []HealthInv
<1>1. HealthInit => HealthInv
  BY InitHealth
<1>2. HealthInv /\ [HealthNext]_hvars => HealthInv'
  BY HealthNextKeeps
<1> QED
  BY <1>1, <1>2, PTL DEF HealthSpec

\* Entry, installer, autoscaler and health check stay within their types.
THEOREM HealthTypes == HealthSpec => []HealthTypeOK
<1>1. HealthInv => HealthTypeOK
  BY DEF HealthInv, NInv, Checks, HealthTypeOK
<1> QED
  BY <1>1, HealthInvariance, PTL

\* Dying moms, refused deletions and dismissals leave no entry joined without
\* the resources of the instance it names.
THEOREM CompleteBesideChecks == HealthSpec => []JoinedIsComplete
<1>1. HealthInv => JoinedIsComplete
  BY DEF HealthInv, NInv
<1> QED
  BY <1>1, HealthInvariance, PTL

\* An entry with a ccnodeid has a slot_type, since ccnodeid is written last: a
\* mom that asks is never told otherwise.
LEMMA JoinedHasSlotType == HealthInv /\ ccnodeid # 0 => res[SlotType] # 0
<1> SUFFICES ASSUME HealthInv, ccnodeid # 0 PROVE res[SlotType] # 0
  OBVIOUS
<1>1. ccnodeid \in 1..MaxInstance
  BY JoinAssumption DEF HealthInv, NInv, TypeOK
<1>2. res[SlotType] = Written(SlotType, ccnodeid)
  BY <1>1, HealthAssumption DEF HealthInv, NInv, JoinedIsComplete
<1> QED
  BY <1>1, <1>2, JoinAssumption DEF Written, Yes

-----------------------------------------------------------------------------
(* NodeHealth implements NodeEntry. *)

EInv == HealthInv /\ EntryInv

\* What the entry is opened or removed for was there when the autoscaler looked,
\* and nobody but the autoscaler takes it away.
LEMMA EntryInvKept == HealthInv /\ EntryInv /\ [HealthNext]_hvars => EntryInv'
<1> SUFFICES ASSUME HealthInv, EntryInv, [HealthNext]_hvars PROVE EntryInv'
  OBVIOUS
<1>1. CASE UNCHANGED <<known, ccnodeid, pc>>
  BY <1>1 DEF EntryInv
<1>2. CASE Begin \/ Drain \/ Remove \/ ListNode \/ Online \/ PostDelete \/ Abort
           \/ RemoveFails \/ RemoveRefused
  BY <1>2 DEF EntryInv, Begin, Failed, Drain, Remove, ListNode, Online, PostDelete, Abort,
     RemoveFails, RemoveRefused, Ends, entry
<1>3. CASE CreateNode \/ ResourcesSet \/ SetNodeId
  BY <1>3 DEF EntryInv, CreateNode, ResourcesSet, SetNodeId, ScalerStep, entry, HealthInv,
     NInv, WritingInv
<1>4. ASSUME NEW r \in Resource, SetResource(r) PROVE EntryInv'
  BY <1>4, <1>1 DEF SetResource
<1>5. CASE UNCHANGED hvars \/ CheckStep \/ JobStarts \/ JobEnds \/ MomDies \/ Age
           \/ InstanceGone
  BY <1>5, <1>1 DEF hvars, vars, entry, scaler, CheckStep, FindMom, AskServer, Dismiss,
     InstanceGone, Gone, JobStarts, JobEnds, MomDies, Age
<1>6. CASE Boot \/ MomUp \/ MomLost \/ Installer
  BY <1>6, <1>1 DEF Boot, MomUp, MomLost, Installer, InstallerStep, Await, Retry, Counted,
     CheckEntry, SelfOffline, Touch, Activate, Converge, entry, scaler
<1> QED
  BY <1>2, <1>3, <1>4, <1>5, <1>6 DEF HealthNext, JoinStep, Iteration

\* What an entry shows hangs on its ccnodeid and its resources only.
LEMMA ShownFollows == UNCHANGED <<ccnodeid, res>> => UNCHANGED EntryShown
BY DEF EntryShown, Shown

\* An entry that names an instance shows something.
LEMMA JoinedShows == ccnodeid # 0 => EntryShown # Unjoined
BY DEF EntryShown, Shown, Unjoined

\* Before an instance is named nothing shows, whatever is written.
LEMMA WritingIsUnseen ==
    ccnodeid = 0 /\ ccnodeid' = 0 => EntryShown = Unjoined /\ EntryShown' = Unjoined
BY DEF EntryShown, Unjoined

\* The step that names the instance shows all its values.
LEMMA JoinShowsImage ==
    ASSUME HealthInv, SetNodeId
    PROVE  EntryShown = Unjoined /\ EntryShown' \in Images
<1>1. /\ known /\ ccnodeid = 0 /\ seen # 0 /\ seen \in Instance
      /\ \A r \in Defined[seen] : res[r] = Written(r, seen)
  BY JoinAssumption DEF SetNodeId, HealthInv, NInv, TypeOK, WritingInv
<1>2. Defined[seen] \subseteq Resource
  BY <1>1, JoinAssumption
<1>3. EntryShown' = Shown(seen, res)
  BY <1>1 DEF SetNodeId, EntryShown, Shown
<1>4. [r \in Defined[seen] |-> res[r]]
        = [r \in Defined[seen] |-> [q \in Resource |-> Written(q, seen)][r]]
  BY <1>1, <1>2
<1>5. Shown(seen, res) = Shown(seen, [q \in Resource |-> Written(q, seen)])
  BY <1>4 DEF Shown
<1> QED
  BY <1>1, <1>3, <1>5 DEF Images, EntryShown

\* What neither writes the entry nor starts, ends or loses anything on it.
LEMMA UnseenSteps ==
    UNCHANGED <<known, ccnodeid, res, offline, mom, job>> => UNCHANGED Entry!vars
BY ShownFollows DEF Entry!vars

\* Jobs, moms and the instance's own mark.
LEMMA OthersAtEntry ==
    ASSUME EInv, JobStarts \/ JobEnds \/ MomDies \/ InstanceGone
                 \/ JoinStep(MomUp) \/ JoinStep(MomLost) \/ JoinStep(Installer)
    PROVE  [Entry!Next]_(Entry!vars)
<1>1. UNCHANGED EntryShown /\ UNCHANGED known
  BY ShownFollows DEF JobStarts, JobEnds, MomDies, InstanceGone, Gone, JoinStep, MomUp,
     MomLost, vars, entry, Installer, InstallerStep, Await, Retry, Counted, CheckEntry,
     SelfOffline, Touch, Activate, Converge
<1>2. CASE JobStarts
  BY <1>1, <1>2 DEF JobStarts, vars, Entry!Next, Entry!StartJob
<1>3. CASE JobEnds
  BY <1>1, <1>3 DEF JobEnds, vars, Entry!Next, Entry!EndJob
<1>4. CASE MomDies \/ InstanceGone \/ JoinStep(MomUp) \/ JoinStep(MomLost)
  <2>1. UNCHANGED <<offline, job>>
    BY <1>4 DEF MomDies, InstanceGone, Gone, JoinStep, MomUp, MomLost, entry
  <2>2. \/ mom' = mom
        \/ mom = "up" /\ mom' # "up"
        \/ known /\ mom # "up" /\ mom' = "up"
    BY <1>4 DEF MomDies, InstanceGone, Gone, JoinStep, MomUp, MomLost
  <2> QED
    BY <1>1, <2>1, <2>2 DEF Entry!Next, Entry!MomTurns, Entry!vars
<1>5. CASE JoinStep(Installer)
  <2>1. UNCHANGED <<mom, job>>
    BY <1>5 DEF JoinStep, Installer, InstallerStep, Await, Retry, Counted, CheckEntry,
       SelfOffline, Touch, Activate, Converge
  <2>2. offline' = offline \/ (known /\ offline')
    BY <1>5 DEF EInv, HealthInv, NInv, TypeOK, JoinStep, Installer, Await, Retry, Counted,
       CheckEntry, SelfOffline, Touch, Activate, Converge
  <2>3. offline' = offline \/ (known /\ offline' = TRUE)
    BY <2>2, HealthNextKeeps, <1>5 DEF EInv, HealthInv, NInv, TypeOK, HealthNext
  <2> QED
    BY <1>1, <2>1, <2>3 DEF Entry!Next, Entry!Close, Entry!vars
<1> QED
  BY <1>2, <1>3, <1>4, <1>5

\* The commands of an iteration, in the order of a join.
LEMMA ScalerAtEntry ==
    ASSUME EInv, JoinStep(Iteration)
    PROVE  [Entry!Next]_(Entry!vars)
<1> DEFINE Goal == [Entry!Next]_(Entry!vars)
<1>1. UNCHANGED job
  BY DEF JoinStep
<1>2. CASE Begin \/ ListNode \/ ResourcesSet
  BY <1>1, <1>2, UnseenSteps DEF Begin, ListNode, ResourcesSet, ScalerStep, entry
<1>3. CASE CreateNode
  <2>1. UNCHANGED EntryShown
    BY <1>3, ShownFollows DEF CreateNode
  <2> QED
    BY <1>1, <1>3, <2>1 DEF CreateNode, EInv, HealthInv, NInv, TypeOK, Entry!Next,
       Entry!Create, Entry!vars
<1>4. ASSUME NEW r \in Resource, SetResource(r) PROVE Goal
  <2>1. UNCHANGED <<known, ccnodeid, offline, mom>> /\ ccnodeid = 0
    BY <1>4 DEF SetResource, EInv, HealthInv, NInv, WritingInv
  <2>2. UNCHANGED EntryShown
    BY <2>1, WritingIsUnseen
  <2> QED
    BY <1>1, <2>1, <2>2 DEF Entry!vars
<1>5. CASE SetNodeId
  <2>1. EntryShown = Unjoined /\ EntryShown' \in Images
    BY <1>5, JoinShowsImage DEF EInv
  <2>2. known /\ UNCHANGED <<known, offline, mom>>
    BY <1>5 DEF SetNodeId, ScalerStep, EInv, HealthInv, NInv, WritingInv
  <2> QED
    BY <1>1, <2>1, <2>2 DEF Entry!Next, Entry!Join
<1>6. CASE Online
  <2>1. known /\ ccnodeid # 0
    BY <1>6 DEF Online, EInv, EntryInv
  <2>2. UNCHANGED EntryShown /\ EntryShown # Unjoined
    BY <1>6, <2>1, ShownFollows, JoinedShows DEF Online
  <2> QED
    BY <1>1, <1>6, <2>1, <2>2 DEF Online, Entry!Next, Entry!Open
<1>7. CASE Drain
  <2>1. known /\ offline' = TRUE /\ UNCHANGED <<known, ccnodeid, res, mom>>
    BY <1>7 DEF Drain, EInv, EntryInv, HealthInv, NInv, TypeOK
  <2>2. UNCHANGED EntryShown
    BY <2>1, ShownFollows
  <2> QED
    BY <1>1, <2>1, <2>2 DEF Entry!Next, Entry!Close
<1>8. CASE Remove
  <2>1. known /\ ~job
    BY <1>8 DEF Remove, Forget, JoinStep, EInv, EntryInv
  <2>2. EntryShown' = Unjoined
    BY <1>8 DEF Remove, Forget, EntryShown, Unjoined
  <2> QED
    BY <1>1, <1>8, <2>1, <2>2 DEF Remove, Forget, Entry!Next, Entry!Drop
<1> QED
  BY <1>2, <1>3, <1>4, <1>5, <1>6, <1>7, <1>8 DEF JoinStep, Iteration

\* Every step is one of the entry or leaves it alone.
LEMMA HealthAtEntry ==
    ASSUME EInv, [HealthNext]_hvars
    PROVE  [Entry!Next]_(Entry!vars)
<1>1. CASE UNCHANGED hvars \/ FindMom \/ AskServer \/ Age \/ RemoveRefused
           \/ JoinStep(Boot) \/ JoinStep(PostDelete) \/ JoinStep(RemoveFails)
           \/ JoinStep(Abort)
  BY <1>1, UnseenSteps DEF hvars, vars, entry, FindMom, AskServer, Age, RemoveRefused,
     JoinStep, Boot, PostDelete, RemoveFails, Abort
<1> QED
  BY <1>1, OthersAtEntry, ScalerAtEntry DEF HealthNext, CheckStep, Dismiss

LEMMA EntryInvariance == HealthSpec => []EInv
<1>1. HealthInit => EInv
  BY InitHealth DEF EInv, EntryInv, HealthInit, Init
<1>2. EInv /\ [HealthNext]_hvars => EInv'
  BY HealthNextKeeps, EntryInvKept DEF EInv
<1> QED
  BY <1>1, <1>2, PTL DEF HealthSpec

\* The join of add_nodes_to_cluster, one qmgr command at a time and with an
\* autoscaler that may die after each, is the one-step join of NodeEntry: the
\* table shows all the values of one instance or none, and opens no entry else.
THEOREM JoinImplementsEntry == HealthSpec => ImplementsEntry
<1>1. HealthInit => Entry!Init
  BY DEF HealthInit, Init, EntryShown, Entry!Init
<1>2. EInv /\ [HealthNext]_hvars => [Entry!Next]_(Entry!vars)
  BY HealthAtEntry
<1> QED
  BY <1>1, <1>2, EntryInvariance, PTL DEF HealthSpec, ImplementsEntry, Entry!Spec

\* An entry as NodeEntry describes it keeps what it shows under a running job.
LEMMA EntryKeepsImage == Entry!Spec => Entry!JobKeepsImage
<1>1. Entry!Init => Entry!JobsHaveEntries
  BY DEF Entry!Init, Entry!JobsHaveEntries
<1>2. Entry!JobsHaveEntries /\ [Entry!Next]_(Entry!vars) => Entry!JobsHaveEntries'
  BY DEF Entry!Next, Entry!vars, Entry!JobsHaveEntries, Entry!Create, Entry!Join, Entry!Close,
     Entry!Open, Entry!Drop, Entry!MomTurns, Entry!StartJob, Entry!EndJob
<1>3. Entry!JobsHaveEntries /\ [Entry!Next]_(Entry!vars) =>
        [job /\ job' => known' /\ (EntryShown # Unjoined => EntryShown' = EntryShown)]_(Entry!vars)
  BY DEF Entry!Next, Entry!vars, Entry!JobsHaveEntries, Entry!Create, Entry!Join, Entry!Close,
     Entry!Open, Entry!Drop, Entry!MomTurns, Entry!StartJob, Entry!EndJob
<1> QED
  BY <1>1, <1>2, <1>3, PTL DEF Entry!Spec, Entry!JobKeepsImage

\* No removal, no second join and no new owner of the hostname changes what an
\* entry shows of its instance while a job goes on on it.
THEOREM JobsKeepImage == HealthSpec => Entry!JobKeepsImage
BY JoinImplementsEntry, EntryKeepsImage, PTL DEF ImplementsEntry

-----------------------------------------------------------------------------
(* An instance that serves. *)

\* The autoscaler finds nothing to do but to open what is open.
LEMMA ScalerSettled ==
    ASSUME EInv, Settled, inst' = inst, Iteration, UNCHANGED check
    PROVE  Settled'
<1>1. pc \notin {"create", "resources", "ccnodeid"}
  BY DEF EInv, HealthInv, NInv, WritingInv, Settled
<1>2. CASE Begin
  BY <1>2 DEF Settled, Begin, Failed, entry, installer
<1>3. CASE ListNode
  BY <1>3 DEF Settled, ListNode, Ends, entry, installer
<1>4. CASE Online
  BY <1>4 DEF Settled, Online, Ends, installer
<1> QED
  BY <1>1, <1>2, <1>3, <1>4 DEF Settled, Iteration, Drain, Remove, CreateNode, ResourcesSet,
     SetNodeId, SetResource

\* The check finds its mom, and the slot_type in the answer of the server.
LEMMA CheckSettled ==
    ASSUME EInv, Settled, inst' = inst, CheckStep
    PROVE  Settled'
<1>1. res[SlotType] # 0
  BY JoinedHasSlotType DEF EInv, Settled
<1>2. CASE FindMom
  BY <1>2 DEF Settled, FindMom, Restarting, vars
<1>3. CASE AskServer
  <2>1. check' = "idle"
    BY <1>1, <1>3 DEF AskServer, Settled
  <2> QED
    BY <1>3, <2>1 DEF Settled, AskServer, entry, scaler, installer
<1> QED
  BY <1>2, <1>3 DEF CheckStep, Dismiss, Settled

\* The installer of an instance that serves has come to its end.
LEMMA InstallerSettled == ~(Settled /\ Installer)
BY DEF Settled, Installer, Await, Retry, Counted, CheckEntry, SelfOffline, Touch, Activate,
   Converge

\* What counts as a fault.
LEMMA FaultsCount ==
    ASSUME EInv, faults' = faults
    PROVE  ~(MomDies \/ MomLost \/ RemoveFails \/ Abort)
BY DEF EInv, HealthInv, NInv, TypeOK, MomDies, MomLost, RemoveFails, Abort

\* For any resources, instances and jobs, and after any faults: an instance
\* that serves goes on serving until a fault or CycleCloud takes it away.  The
\* installer has come to its end, the iterations find nothing to do and the
\* health check finds the slot_type.
THEOREM SettledNodeStays == HealthSpec => SettledStays
<1>1. EInv /\ [HealthNext]_hvars =>
        [Settled /\ faults' = faults /\ inst' = inst => Settled']_hvars
  <2> SUFFICES ASSUME EInv, HealthNext, Settled, faults' = faults, inst' = inst
               PROVE  Settled'
    OBVIOUS
  <2>1. CASE CheckStep
    BY <2>1, CheckSettled
  <2>2. CASE JoinStep(Iteration)
    BY <2>2, ScalerSettled DEF JoinStep
  <2>3. CASE JobStarts \/ JobEnds \/ Age
    <3>1. UNCHANGED <<vars, check>>
      BY <2>3 DEF JobStarts, JobEnds, Age
    <3> QED
      BY <3>1 DEF Settled, vars
  <2>4. CASE InstanceGone \/ RemoveRefused \/ JoinStep(Boot) \/ JoinStep(MomUp)
             \/ JoinStep(PostDelete)
    BY <2>4 DEF Settled, InstanceGone, Gone, RemoveRefused, JoinStep, Boot, MomUp, PostDelete
  <2> QED
    BY <2>1, <2>2, <2>3, <2>4, InstallerSettled, FaultsCount DEF HealthNext, JoinStep
<1> QED
  BY <1>1, EntryInvariance, PTL DEF HealthSpec, SettledStays
=============================================================================
