---------------------------- MODULE HoldRelease ----------------------------
(***************************************************************************)
(* The queuejob hook and the periodic hook of eq_submit_hook.py.  The first *)
(* holds a job that does not use select syntax, or whose select has upper   *)
(* case after its memory; the second looks for jobs held exactly "so",      *)
(* rewrites their select and place and releases them, a batch at a time,    *)
(* one qalter and one qrls per job.                                         *)
(*                                                                          *)
(* Covered: both hooks, with jobs deleted, held, released, made dependent   *)
(* and freed from a dependency by others between any two commands, and a    *)
(* hook that is killed or whose command fails at any command.  Not covered: *)
(* a user's own qalter of select or place, arrays, holds set by qsub -h.    *)
(***************************************************************************)
EXTENDS Naturals, FiniteSets

CONSTANTS
    Job,         \* job ids; qselect lists them in this order
    Batch,       \* held_jobs_per_iteration
    Requests,    \* what users ask for
    Depends,     \* the dependencies jobs come with
    QueuePlace,  \* resources_default.place of the queue, NoPlace for none
    MaxFaults    \* bound: hooks killed or commands failing for other reasons

\* One select statement: the spelling of its memory ("vmem" if it asks, in upper
\* case, for virtual memory only), whether the job-wide sum of the memory is a number
\* the text does not hold, and the spelling of a value after the memory.
Spelling == {"none", "lower", "upper"}
Selects  == [mem : Spelling \cup {"vmem"}, summed : BOOLEAN, label : Spelling]

Places == [arrangement : {"none", "free", "pack", "scatter"},
           sharing     : {"none", "excl", "shared"},
           grouping    : {"none", "own", "queue", "group_id"}]
NoPlace == [arrangement |-> "none", sharing |-> "none", grouping |-> "none"]

\* legacy: "select" does not occur in Submit_arguments.
AnyRequest == [legacy : BOOLEAN, skipcycle : BOOLEAN, select : Selects, place : Places]

\* The depend attribute: "before" names other jobs only, "after" is still to
\* be met by others, "mixed" starts with a before and goes on with an after.
Dependencies == {"none", "before", "after", "mixed"}
Pending(d) == d \in {"after", "mixed"}

ASSUME HoldAssumption ==
    /\ IsFiniteSet(Job) /\ Job \subseteq Nat
    /\ Batch \in Nat \ {0}
    /\ Requests \subseteq AnyRequest
    /\ Depends \subseteq Dependencies
    /\ QueuePlace \in Places
    /\ MaxFaults \in Nat

VARIABLES
    phase,     \* "absent", "queued" or "left" (running, finished or deleted)
    request,   \* what the user asked for
    select,    \* Resource_List.select as PBS has it now
    place,     \* Resource_List.place
    depend,    \* the depend attribute
    hold,      \* Hold_Types
    pc,        \* the next command of the periodic hook
    batch,     \* the jobs the hook has still to treat
    seen,      \* depend as qstat -f showed it
    late,      \* history: jobs made dependent after the hook's qstat
    faults

jobs == <<phase, request, select, place, depend, hold>>
hook == <<pc, batch, seen>>
vars == <<phase, request, select, place, depend, hold, pc, batch, seen, late, faults>>

NoRequest == [legacy |-> TRUE, skipcycle |-> FALSE, place |-> NoPlace,
              select |-> [mem |-> "none", summed |-> FALSE, label |-> "none"]]

TypeOK ==
    /\ phase \in [Job -> {"absent", "queued", "left"}]
    /\ request \in [Job -> Requests \cup {NoRequest}]
    /\ select \in [Job -> Selects]
    /\ place \in [Job -> Places]
    /\ depend \in [Job -> Dependencies]
    /\ hold \in [Job -> SUBSET {"u", "o", "s"}]
    /\ pc \in {"idle", "stat", "job", "release"}
    /\ batch \subseteq Job
    /\ seen \in [Job -> Dependencies]
    /\ late \subseteq Job
    /\ faults \in 0..MaxFaults

Init ==
    /\ phase = [j \in Job |-> "absent"]
    /\ request = [j \in Job |-> NoRequest]
    /\ select = [j \in Job |-> NoRequest.select]
    /\ place = [j \in Job |-> NoPlace]
    /\ depend = [j \in Job |-> "none"]
    /\ hold = [j \in Job |-> {}]
    /\ pc = "idle"
    /\ batch = {}
    /\ seen = [j \in Job |-> "none"]
    /\ late = {}
    /\ faults = 0

-----------------------------------------------------------------------------
(* The queuejob hook. *)

\* No select, or upper case from "mem=" (or the end of "vmem=") onwards: the value
\* "vmem" stands for upper case; vmem in lower case is not held, like "none".
HeldOnSubmit(r) ==
    \/ r.legacy
    \/ r.select.mem = "upper"
    \/ r.select.mem = "vmem"
    \/ r.select.mem = "lower" /\ r.select.label = "upper"

DependencyHold(d) == IF Pending(d) THEN {"s"} ELSE {}

Submit(j, r, d) ==
    /\ phase[j] = "absent"
    /\ \A i \in Job : i < j => phase[i] # "absent"
    /\ phase' = [phase EXCEPT ![j] = "queued"]
    /\ request' = [request EXCEPT ![j] = r]
    /\ select' = [select EXCEPT ![j] = r.select]
    /\ place' = [place EXCEPT ![j] = r.place]
    /\ depend' = [depend EXCEPT ![j] = d]
    /\ hold' = [hold EXCEPT ![j] =
                    DependencyHold(d) \cup (IF HeldOnSubmit(r) THEN {"o", "s"} ELSE {})]
    /\ UNCHANGED <<hook, late, faults>>

-----------------------------------------------------------------------------
(* What others do to the jobs. *)

\* The server meets an after dependency and takes the system hold off.
DependencyMet(j) ==
    /\ phase[j] = "queued"
    /\ Pending(depend[j])
    /\ depend' = [depend EXCEPT ![j] = IF @ = "mixed" THEN "before" ELSE "none"]
    /\ hold' = [hold EXCEPT ![j] = @ \ {"s"}]
    /\ UNCHANGED <<phase, request, select, place, hook, late, faults>>

\* qalter -W depend=after...
AddDependency(j) ==
    /\ "after" \in Depends
    /\ phase[j] = "queued"
    /\ depend[j] = "none"
    /\ depend' = [depend EXCEPT ![j] = "after"]
    /\ hold' = [hold EXCEPT ![j] = @ \cup {"s"}]
    /\ late' = IF pc \in {"job", "release"} THEN late \cup {j} ELSE late
    /\ UNCHANGED <<phase, request, select, place, hook, faults>>

\* qhold -h u and qrls -h u
UserHold(j) ==
    /\ phase[j] = "queued"
    /\ \/ "u" \notin hold[j] /\ hold' = [hold EXCEPT ![j] = @ \cup {"u"}]
       \/ "u" \in hold[j] /\ hold' = [hold EXCEPT ![j] = @ \ {"u"}]
    /\ UNCHANGED <<phase, request, select, place, depend, hook, late, faults>>

\* PBS starts a job nobody holds; qdel removes any job.
Leave(j) ==
    /\ phase[j] = "queued"
    /\ phase' = [phase EXCEPT ![j] = "left"]
    /\ UNCHANGED <<request, select, place, depend, hold, hook, late, faults>>

-----------------------------------------------------------------------------
(* The periodic hook. *)

HookEnds ==
    /\ pc' = "idle"
    /\ batch' = {}
    /\ seen' = [j \in Job |-> "none"]
    /\ late' = {}

\* qselect -h so lists the jobs with exactly these two holds.
SelectedJobs == {j \in Job : phase[j] = "queued" /\ hold[j] = {"o", "s"}}

FirstOf(S) == {j \in S : Cardinality({i \in S : i < j}) < Batch}

QSelect ==
    /\ pc = "idle"
    /\ SelectedJobs # {}
    /\ pc' = "stat"
    /\ batch' = FirstOf(SelectedJobs)
    /\ UNCHANGED <<jobs, seen, late, faults>>

\* qstat -f fails as a whole if one of the jobs is not there any more.
QStat ==
    /\ pc = "stat"
    /\ UNCHANGED <<jobs, faults>>
    /\ \/ /\ \A j \in batch : phase[j] = "queued"
          /\ pc' = "job"
          /\ seen' = [j \in Job |-> IF j \in batch THEN depend[j] ELSE "none"]
          /\ UNCHANGED <<batch, late>>
       \/ /\ \E j \in batch : phase[j] # "queued"
          /\ HookEnds

Current(j) == j \in batch /\ \A i \in batch : j <= i

\* Mutant: a job that uses select syntax loses its own arrangement.
NewPlaceAlwaysDefault(p, legacy) ==
    [k \in DOMAIN p |->
        IF QueuePlace[k] # "none" THEN QueuePlace[k]
        ELSE IF k = "grouping" /\ p[k] = "none" THEN "group_id" ELSE p[k]]

\* Mutant: group_id is written into the arrangement.
NewPlaceAppends(p, legacy) ==
    IF p.grouping = "none" THEN [p EXCEPT !.arrangement = "group_id"] ELSE p

\* The user's place completed from the default of the queue: the arrangement
\* and the sharing as one, the grouping on its own, group_id if all else fails.
NewPlace(p, legacy) ==
    LET defaults == QueuePlace # NoPlace
        mine   == IF defaults /\ legacy THEN NoPlace ELSE p
        chosen == mine.arrangement # "none" \/ mine.sharing # "none"
        offer  == IF chosen THEN [NoPlace EXCEPT !.grouping = QueuePlace.grouping]
                            ELSE QueuePlace
        merged == [k \in DOMAIN p |-> IF mine[k] = "none" THEN offer[k] ELSE mine[k]]
        placed == IF /\ defaults /\ legacy
                     /\ merged.arrangement = "none" /\ merged.sharing = "none"
                  THEN [merged EXCEPT !.arrangement = "scatter"]
                  ELSE merged
    IN IF placed.grouping = "none" THEN [placed EXCEPT !.grouping = "group_id"] ELSE placed

Lower(spelling) == IF spelling = "upper" THEN "lower" ELSE spelling

\* Mutant: the memory is looked for in the text as it is.
NewSelectLookedForAsIs(s) ==
    IF s.mem = "lower" /\ ~s.summed THEN [s EXCEPT !.label = Lower(@)] ELSE s

\* The text from the memory on is put in lower case, if the job-wide memory
\* without its last letter is found in it.
NewSelect(s) ==
    IF s.mem \in {"lower", "upper"} /\ ~s.summed
    THEN [s EXCEPT !.mem = Lower(@), !.label = Lower(@)]
    ELSE s

\* j_mem[:-1] of a job without job-wide memory
RaisesTypeError(s) == s.mem = "vmem"

\* Mutant: a qalter that fails does not end the hook.
EvaluateIgnoresFailure(j) ==
    /\ pc = "job"
    /\ Current(j)
    /\ UNCHANGED <<phase, request, depend, hold, batch, seen, late, faults>>
    /\ pc' = "release"
    /\ \/ UNCHANGED <<select, place>>
       \/ /\ ~request[j].skipcycle
          /\ select' = [select EXCEPT ![j] = NewSelect(@)]
          /\ place' = [place EXCEPT ![j] = NewPlace(@, request[j].legacy)]

Evaluate(j) ==
    /\ pc = "job"
    /\ Current(j)
    /\ UNCHANGED <<phase, request, depend, hold, faults>>
    /\ \/ /\ request[j].skipcycle
          /\ pc' = "release"
          /\ UNCHANGED <<select, place, batch, seen, late>>
       \/ /\ ~request[j].skipcycle
          /\ \/ RaisesTypeError(select[j])
             \/ phase[j] # "queued"
          /\ HookEnds
          /\ UNCHANGED <<select, place>>
       \/ /\ ~request[j].skipcycle
          /\ ~RaisesTypeError(select[j])
          /\ phase[j] = "queued"
          /\ select' = [select EXCEPT ![j] = NewSelect(@)]
          /\ place' = [place EXCEPT ![j] = NewPlace(@, request[j].legacy)]
          /\ pc' = "release"
          /\ UNCHANGED <<batch, seen, late>>

\* Mutant: every job is released from both holds.
ReleasedHoldsAlwaysBoth(d) == {"o", "s"}
\* Mutant: any dependency keeps the system hold.
ReleasedHoldsAnyDepend(d) == IF d # "none" THEN {"o"} ELSE {"o", "s"}
\* What unset_hold_so hands to qrls -h.
ReleasedHolds(d) == IF d \in {"none", "before", "mixed"} THEN {"o", "s"} ELSE {"o"}

Release(j) ==
    /\ pc = "release"
    /\ Current(j)
    /\ UNCHANGED <<phase, request, select, place, depend, faults>>
    /\ \/ /\ phase[j] = "queued"
          /\ hold' = [hold EXCEPT ![j] = @ \ ReleasedHolds(seen[j])]
          /\ pc' = "job"
          /\ batch' = batch \ {j}
          /\ UNCHANGED <<seen, late>>
       \/ /\ phase[j] # "queued"
          /\ HookEnds
          /\ UNCHANGED hold

EndOfBatch ==
    /\ pc = "job"
    /\ batch = {}
    /\ HookEnds
    /\ UNCHANGED <<jobs, faults>>

\* The hook is killed (its alarm, a server restart) or a command fails.
HookAborted ==
    /\ pc # "idle"
    /\ faults < MaxFaults
    /\ faults' = faults + 1
    /\ HookEnds
    /\ UNCHANGED jobs

-----------------------------------------------------------------------------
HookStep ==
    \/ QSelect \/ QStat \/ EndOfBatch
    \/ \E j \in Job : Evaluate(j) \/ Release(j)

Next ==
    \/ HookStep
    \/ HookAborted
    \/ \E j \in Job :
        \/ \E r \in Requests, d \in Depends : Submit(j, r, d)
        \/ DependencyMet(j) \/ AddDependency(j) \/ UserHold(j) \/ Leave(j)

Spec == Init /\ [][Next]_vars

\* PBS runs the hook every 15 seconds and dependencies come to be met.
FairSpec ==
    /\ Spec
    /\ WF_vars(HookStep)
    /\ \A j \in Job : WF_vars(DependencyMet(j))

-----------------------------------------------------------------------------
(* Properties. *)

HookHeld(j) == HeldOnSubmit(request[j])

\* No job is let go before the hook has treated it: once the hold the queuejob
\* hook set is gone, the place has a grouping, and the memory is in lower case
\* if it could be found, whatever command failed or whenever the hook was
\* killed (periodic_release_hook runs qalter before unset_hold_so).
AdjustedBeforeRelease ==
    \A j \in Job :
        phase[j] = "queued" /\ HookHeld(j) /\ "o" \notin hold[j]
                /\ ~request[j].skipcycle =>
            /\ place[j].grouping # "none"
            /\ select[j].mem = "upper" => select[j].summed

\* A job whose depend attribute starts with what it waits for keeps its system
\* hold when the hook lets it go (unset_hold_so), unless it became dependent
\* after the hook's qstat.  Not so a "mixed" job, which waits as well: its
\* attribute starts with "before", and the hook lifts the hold it has read of.
DependencyHonoured ==
    [][\A j \in Job :
         phase[j] = "queued" /\ depend[j] = "after" /\ "s" \in hold[j] /\ j \notin late
         => "s" \in hold'[j] \/ depend'[j] # "after"]_vars

\* What a job with select syntax asks for in its place stays its own: the
\* arrangement and the sharing, with nothing of the queue's added ("if the user
\* specifies either arrangement or sharing, ignore them as far as defaults are
\* concerned"), and the grouping ("Do not override grouping").
UserPlaceKept ==
    \A j \in Job :
        phase[j] = "queued" /\ ~request[j].legacy =>
            LET asked == request[j].place
            IN /\ asked.arrangement # "none" \/ asked.sharing # "none" =>
                    /\ place[j].arrangement = asked.arrangement
                    /\ place[j].sharing = asked.sharing
               /\ asked.grouping # "none" => place[j].grouping = asked.grouping

\* Every job the hook holds is let go in the end, however long the list of
\* held jobs and whatever becomes of the others on it, unless its user holds
\* it: "It will be updated and released shortly."  The one exception is a job
\* on the list whose TypeError ends every run of the hook: it and the jobs
\* behind it are never reached.
Released ==
    \A j \in Job :
        phase[j] = "queued" /\ HookHeld(j)
            ~> \/ phase[j] = "left" \/ "u" \in hold[j] \/ hold[j] = {}
               \/ \E i \in SelectedJobs : i <= j /\ RaisesTypeError(select[i])

\* A system hold is always somebody's to take off: the periodic hook finds the
\* job by its operator hold as well, or the job waits for another one and the
\* server takes the hold off.  Whatever changes between the hook's qstat and its
\* qrls, the holds it leaves behind are not for ever.
SystemHoldOwned ==
    \A j \in Job :
        phase[j] = "queued" /\ "s" \in hold[j] => "o" \in hold[j] \/ Pending(depend[j])

-----------------------------------------------------------------------------
(* HoldRelease implements JobGate.  A job is unfit as long as what it asks for
   is not what a qalter of the hook leaves behind. *)

Adjusted(j) ==
    /\ place[j].grouping # "none"
    /\ select[j].mem = "upper" => select[j].summed

Here  == {j \in Job : phase[j] = "queued"}
Unfit == {j \in Here : HookHeld(j) /\ ~request[j].skipcycle /\ ~Adjusted(j)}
Kept  == {j \in Here : "o" \in hold[j]}
\* The pending jobs of which the hook lifts no wait it has read; it does of the
\* "mixed" ones, whose hold is therefore no wait of the gate.
Waits == {j \in Here : depend[j] = "after" /\ "s" \in hold[j]}

Gate == INSTANCE JobGate WITH
    here <- Here, unfit <- Unfit, kept <- Kept, waits <- Waits, fresh <- late

\* The five commands of a run, on copies and lists, with jobs that move and a
\* hook that dies between any two of them, come to one rewrite and one release
\* of each job, in this order, that lift no wait the hook could have known of,
\* but for the dependencies written behind a "before".
ImplementsGate == Gate!Spec

-----------------------------------------------------------------------------
(* The inductive invariant behind AdjustedBeforeRelease and DependencyHonoured
   (proved in HoldRelease_proofs). *)

\* A job of the hook's that was let go has been adjusted; so has the job whose
\* qrls comes next.
AdjustedInv ==
    \A j \in Job :
        /\ phase[j] = "queued"
        /\ HookHeld(j)
        /\ ~request[j].skipcycle
        /\ "o" \notin hold[j] \/ (pc = "release" /\ Current(j))
        => Adjusted(j)

\* What the hook read of a dependency is still true, or the job is in late.
SeenInv ==
    pc \in {"job", "release"} =>
        \A j \in batch : depend[j] = "after" => seen[j] = "after" \/ j \in late

\* The jobs of the batch were submitted.
BatchInv == \A j \in batch : phase[j] # "absent"

HInv == TypeOK /\ AdjustedInv /\ SeenInv /\ BatchInv

(* What SystemHoldOwned and the refinement need besides. *)

\* The hook has the operator hold of what is on its list still to take off, and
\* a system hold it will leave on belongs to a dependency.
ListedInv ==
    \A j \in batch :
        phase[j] = "queued" =>
            /\ "o" \in hold[j]
            /\ seen[j] = "after" /\ "s" \in hold[j] => Pending(depend[j])

\* Before its qstat the hook knows of no dependency.
UnseenInv == pc \in {"idle", "stat"} => \A j \in Job : seen[j] = "none"

GInv == HInv /\ SystemHoldOwned /\ ListedInv /\ UnseenInv
=============================================================================
