------------------------- MODULE HoldRelease_proofs -------------------------
(***************************************************************************)
(* Proofs about the queuejob and periodic hooks of HoldRelease, for any     *)
(* jobs, batch size, requests, dependencies and number of faults.           *)
(***************************************************************************)
EXTENDS HoldRelease, TLAPS

\* What the hook does to a place and a select leaves values PBS may hold.
LEMMA NewPlaceType ==
    ASSUME NEW p \in Places, NEW legacy \in BOOLEAN
    PROVE  NewPlace(p, legacy) \in Places
<1>1. QueuePlace \in Places
  BY HoldAssumption
<1> QED
  BY <1>1 DEF NewPlace, Places, NoPlace

\* The place the hook writes always has a grouping.
LEMMA NewPlaceGrouped ==
    ASSUME NEW p \in Places, NEW legacy \in BOOLEAN
    PROVE  NewPlace(p, legacy).grouping # "none"
<1>1. QueuePlace \in Places
  BY HoldAssumption
<1> QED
  BY <1>1 DEF NewPlace, Places, NoPlace

\* The select the hook writes has upper case memory only if the job-wide
\* memory could not be found in it.
LEMMA NewSelectLower ==
    ASSUME NEW s \in Selects
    PROVE  /\ NewSelect(s) \in Selects
           /\ NewSelect(s).mem = "upper" => NewSelect(s).summed
BY DEF NewSelect, Selects, Spelling, Lower

\* What was asked for is a request, of a job not submitted yet as well.
LEMMA RequestTyped ==
    ASSUME TypeOK, NEW j \in Job
    PROVE  /\ request[j] \in AnyRequest
           /\ request[j].legacy \in BOOLEAN
           /\ request[j].skipcycle \in BOOLEAN
           /\ select[j] \in Selects
           /\ place[j] \in Places
<1>1. NoRequest \in AnyRequest
  BY DEF NoRequest, AnyRequest, Selects, Spelling, Places, NoPlace
<1>2. request[j] \in AnyRequest
  BY <1>1, HoldAssumption DEF TypeOK
<1>3. request[j].legacy \in BOOLEAN /\ request[j].skipcycle \in BOOLEAN
  BY <1>2 DEF AnyRequest
<1> QED
  BY <1>2, <1>3 DEF TypeOK

\* The invariant holds before the first job.
LEMMA InitHInv == Init => HInv
<1> SUFFICES ASSUME Init PROVE HInv
  OBVIOUS
<1>1. NoRequest.select \in Selects /\ NoPlace \in Places
  BY DEF NoRequest, Selects, Spelling, Places, NoPlace
<1>2. TypeOK
  BY <1>1, HoldAssumption DEF Init, TypeOK, Dependencies
<1> QED
  BY <1>2 DEF Init, HInv, AdjustedInv, SeenInv, BatchInv

\* The hook ends and leaves the jobs alone.
LEMMA EndsKeeps ==
    ASSUME HInv, HookEnds, UNCHANGED jobs, faults' \in 0..MaxFaults
    PROVE  HInv'
<1>1. TypeOK'
  BY DEF HInv, TypeOK, HookEnds, jobs, Dependencies
<1>2. AdjustedInv'
  BY DEF HInv, AdjustedInv, HookEnds, jobs, HookHeld, Adjusted
<1>3. SeenInv' /\ BatchInv'
  BY DEF HookEnds, SeenInv, BatchInv
<1> QED
  BY <1>1, <1>2, <1>3 DEF HInv

\* A job comes in with its request as it is and, if the queuejob hook holds it, with
\* the operator hold: nothing of the hook's is let go.
LEMMA SubmitKeeps ==
    ASSUME HInv, NEW j \in Job, NEW r \in Requests, NEW d \in Depends, Submit(j, r, d)
    PROVE  HInv'
<1>1. r \in AnyRequest /\ d \in Dependencies
  BY HoldAssumption
<1>2. r.select \in Selects /\ r.place \in Places
  BY <1>1 DEF AnyRequest
<1>3. TypeOK'
  BY <1>1, <1>2 DEF HInv, TypeOK, Submit, hook, DependencyHold
<1>4. j \notin batch
  BY DEF HInv, BatchInv, Submit
<1>5. AdjustedInv'
  <2> SUFFICES ASSUME NEW i \in Job,
                      phase'[i] = "queued", HookHeld(i)', ~request'[i].skipcycle,
                      "o" \notin hold'[i] \/ (pc' = "release" /\ Current(i)')
               PROVE  Adjusted(i)'
    BY DEF AdjustedInv
  <2>1. CASE i = j
    <3>1. "o" \notin hold'[j]
      BY <1>4, <2>1 DEF Submit, hook, Current
    <3>2. request'[j] = r
      BY DEF HInv, TypeOK, Submit
    <3>3. HeldOnSubmit(r)
      BY <2>1, <3>2 DEF HookHeld
    <3>4. "o" \in hold'[j]
      BY <3>3 DEF HInv, TypeOK, Submit
    <3> QED
      BY <3>1, <3>4
  <2>2. CASE i # j
    BY <2>2 DEF HInv, TypeOK, AdjustedInv, Submit, hook, HookHeld, Current, Adjusted
  <2> QED
    BY <2>1, <2>2
<1>6. SeenInv' /\ BatchInv'
  BY <1>4 DEF HInv, TypeOK, SeenInv, BatchInv, Submit, hook
<1> QED
  BY <1>3, <1>5, <1>6 DEF HInv

\* What others do never takes the hook's own hold off, nor changes what the
\* hook has written.
LEMMA OthersKeep ==
    ASSUME HInv, NEW j \in Job,
           DependencyMet(j) \/ AddDependency(j) \/ UserHold(j) \/ Leave(j)
    PROVE  HInv'
<1>1. CASE DependencyMet(j)
  <2>1. TypeOK'
    BY <1>1 DEF HInv, TypeOK, DependencyMet, hook, Dependencies
  <2>2. AdjustedInv'
    BY <1>1 DEF HInv, TypeOK, AdjustedInv, DependencyMet, hook, HookHeld, Current, Adjusted
  <2>3. SeenInv' /\ BatchInv'
    BY <1>1 DEF HInv, TypeOK, SeenInv, BatchInv, DependencyMet, hook
  <2> QED
    BY <2>1, <2>2, <2>3 DEF HInv
<1>2. CASE AddDependency(j)
  <2>1. TypeOK'
    BY <1>2 DEF HInv, TypeOK, AddDependency, hook, Dependencies
  <2>2. AdjustedInv'
    BY <1>2 DEF HInv, TypeOK, AdjustedInv, AddDependency, hook, HookHeld, Current, Adjusted
  <2>3. SeenInv' /\ BatchInv'
    BY <1>2 DEF HInv, TypeOK, SeenInv, BatchInv, AddDependency, hook
  <2> QED
    BY <2>1, <2>2, <2>3 DEF HInv
<1>3. CASE UserHold(j)
  <2>1. TypeOK'
    BY <1>3 DEF HInv, TypeOK, UserHold, hook
  <2>2. AdjustedInv'
    BY <1>3 DEF HInv, TypeOK, AdjustedInv, UserHold, hook, HookHeld, Current, Adjusted
  <2>3. SeenInv' /\ BatchInv'
    BY <1>3 DEF HInv, TypeOK, SeenInv, BatchInv, UserHold, hook
  <2> QED
    BY <2>1, <2>2, <2>3 DEF HInv
<1>4. CASE Leave(j)
  <2>1. TypeOK'
    BY <1>4 DEF HInv, TypeOK, Leave, hook
  <2>2. AdjustedInv'
    BY <1>4 DEF HInv, TypeOK, AdjustedInv, Leave, hook, HookHeld, Current, Adjusted
  <2>3. SeenInv' /\ BatchInv'
    BY <1>4 DEF HInv, TypeOK, SeenInv, BatchInv, Leave, hook
  <2> QED
    BY <2>1, <2>2, <2>3 DEF HInv
<1> QED
  BY <1>1, <1>2, <1>3, <1>4

\* The list of a batch holds submitted jobs only.
LEMMA QSelectKeeps == HInv /\ QSelect => HInv'
<1> SUFFICES ASSUME HInv, QSelect PROVE HInv'
  OBVIOUS
<1>1. FirstOf(SelectedJobs) \subseteq SelectedJobs
  BY DEF FirstOf
<1>2. \A j \in batch' : j \in Job /\ phase'[j] = "queued"
  BY <1>1 DEF QSelect, SelectedJobs, jobs
<1>3. TypeOK'
  BY <1>2 DEF HInv, TypeOK, QSelect, jobs
<1>4. AdjustedInv'
  BY DEF HInv, AdjustedInv, QSelect, jobs, HookHeld, Adjusted
<1>5. SeenInv' /\ BatchInv'
  BY <1>2 DEF QSelect, SeenInv, BatchInv
<1> QED
  BY <1>3, <1>4, <1>5 DEF HInv

\* What qstat shows is true when it is read.
LEMMA QStatKeeps == HInv /\ QStat => HInv'
<1> SUFFICES ASSUME HInv, QStat PROVE HInv'
  OBVIOUS
<1>1. CASE HookEnds
  <2>1. faults' \in 0..MaxFaults
    BY DEF HInv, TypeOK, QStat
  <2> QED
    BY <1>1, <2>1, EndsKeeps DEF QStat
<1>2. CASE ~HookEnds
  <2>1. /\ pc' = "job"
        /\ seen' = [j \in Job |-> IF j \in batch THEN depend[j] ELSE "none"]
        /\ UNCHANGED <<batch, late, jobs, faults>>
    BY <1>2 DEF QStat
  <2>2. TypeOK'
    BY <2>1 DEF HInv, TypeOK, jobs, Dependencies
  <2>3. AdjustedInv'
    BY <2>1 DEF HInv, AdjustedInv, jobs, HookHeld, Adjusted
  <2>4. SeenInv' /\ BatchInv'
    BY <2>1 DEF HInv, TypeOK, SeenInv, BatchInv, jobs
  <2> QED
    BY <2>2, <2>3, <2>4 DEF HInv
<1> QED
  BY <1>1, <1>2
\* There is one current job.
LEMMA CurrentUnique ==
    ASSUME TypeOK, NEW i \in Job, NEW j \in Job, Current(i), Current(j)
    PROVE  i = j
<1>1. i \in Nat /\ j \in Nat
  BY HoldAssumption
<1>2. i <= j /\ j <= i
  BY DEF Current
<1> QED
  BY <1>1, <1>2

\* After its qalter a job is adjusted, so that its qrls may come next.
LEMMA EvaluateKeeps ==
    ASSUME HInv, NEW j \in Job, Evaluate(j)
    PROVE  HInv'
<1>1. TypeOK
  BY DEF HInv
<1>2. CASE HookEnds /\ UNCHANGED <<select, place>>
  <2>1. UNCHANGED jobs /\ faults' \in 0..MaxFaults
    BY <1>1, <1>2 DEF Evaluate, jobs, TypeOK
  <2> QED
    BY <1>2, <2>1, EndsKeeps
<1>3. CASE /\ request[j].skipcycle
           /\ pc' = "release"
           /\ UNCHANGED <<select, place, batch, seen, late>>
  <2>1. UNCHANGED <<jobs, batch, seen, late, faults>> /\ pc = "job" /\ Current(j)
    BY <1>3 DEF Evaluate, jobs
  <2>2. TypeOK'
    BY <1>1, <1>3, <2>1 DEF TypeOK, jobs
  <2>3. AdjustedInv'
    <3> SUFFICES ASSUME NEW i \in Job,
                        phase'[i] = "queued", HookHeld(i)', ~request'[i].skipcycle,
                        "o" \notin hold'[i] \/ (pc' = "release" /\ Current(i)')
                 PROVE  Adjusted(i)'
      BY DEF AdjustedInv
    <3>1. i # j
      BY <1>3, <2>1 DEF jobs
    <3>2. ~Current(i)'
      BY <1>1, <2>1, <3>1, CurrentUnique DEF Current
    <3> QED
      BY <2>1, <3>2 DEF HInv, AdjustedInv, jobs, HookHeld, Adjusted
  <2>4. SeenInv' /\ BatchInv'
    BY <1>3, <2>1 DEF HInv, SeenInv, BatchInv, jobs
  <2> QED
    BY <2>2, <2>3, <2>4 DEF HInv
<1>4. CASE /\ select' = [select EXCEPT ![j] = NewSelect(@)]
           /\ place' = [place EXCEPT ![j] = NewPlace(@, request[j].legacy)]
           /\ pc' = "release"
           /\ UNCHANGED <<batch, seen, late>>
  <2>1. /\ UNCHANGED <<phase, request, depend, hold, batch, seen, late, faults>>
        /\ pc = "job" /\ Current(j)
    BY <1>4 DEF Evaluate
  <2>2. /\ NewSelect(select[j]) \in Selects
        /\ NewSelect(select[j]).mem = "upper" => NewSelect(select[j]).summed
        /\ NewPlace(place[j], request[j].legacy) \in Places
        /\ NewPlace(place[j], request[j].legacy).grouping # "none"
    BY <1>1, RequestTyped, NewSelectLower, NewPlaceType, NewPlaceGrouped
  <2>3. TypeOK'
    BY <1>1, <1>4, <2>1, <2>2 DEF TypeOK
  <2>4. Adjusted(j)'
    BY <1>1, <1>4, <2>2 DEF TypeOK, Adjusted
  <2>5. AdjustedInv'
    <3> SUFFICES ASSUME NEW i \in Job,
                        phase'[i] = "queued", HookHeld(i)', ~request'[i].skipcycle,
                        "o" \notin hold'[i] \/ (pc' = "release" /\ Current(i)')
                 PROVE  Adjusted(i)'
      BY DEF AdjustedInv
    <3>1. CASE i = j
      BY <2>4, <3>1
    <3>2. CASE i # j
      <4>1. ~Current(i)'
        BY <1>1, <2>1, <3>2, CurrentUnique DEF Current
      <4>2. select'[i] = select[i] /\ place'[i] = place[i]
        BY <1>1, <1>4, <3>2 DEF TypeOK
      <4> QED
        BY <2>1, <4>1, <4>2 DEF HInv, AdjustedInv, HookHeld, Adjusted
    <3> QED
      BY <3>1, <3>2
  <2>6. SeenInv' /\ BatchInv'
    BY <1>4, <2>1 DEF HInv, SeenInv, BatchInv
  <2> QED
    BY <2>3, <2>5, <2>6 DEF HInv
<1> QED
  BY <1>2, <1>3, <1>4 DEF Evaluate

\* The qrls is given for the job whose qalter came before.
LEMMA ReleaseKeeps ==
    ASSUME HInv, NEW j \in Job, Release(j)
    PROVE  HInv'
<1>1. TypeOK
  BY DEF HInv
<1>2. CASE HookEnds /\ UNCHANGED hold
  <2>1. UNCHANGED jobs /\ faults' \in 0..MaxFaults
    BY <1>1, <1>2 DEF Release, jobs, TypeOK
  <2> QED
    BY <1>2, <2>1, EndsKeeps
<1>3. CASE /\ phase[j] = "queued"
           /\ hold' = [hold EXCEPT ![j] = @ \ ReleasedHolds(seen[j])]
           /\ pc' = "job"
           /\ batch' = batch \ {j}
           /\ UNCHANGED <<seen, late>>
  <2>1. /\ UNCHANGED <<phase, request, select, place, depend, seen, late, faults>>
        /\ pc = "release" /\ Current(j)
    BY <1>3 DEF Release
  <2>2. TypeOK'
    BY <1>1, <1>3, <2>1 DEF TypeOK
  <2>3. AdjustedInv'
    <3> SUFFICES ASSUME NEW i \in Job,
                        phase'[i] = "queued", HookHeld(i)', ~request'[i].skipcycle,
                        "o" \notin hold'[i]
                 PROVE  Adjusted(i)'
      BY <1>3 DEF AdjustedInv
    <3>1. i = j \/ "o" \notin hold[i]
      BY <1>1, <1>3 DEF TypeOK
    <3> QED
      BY <2>1, <3>1 DEF HInv, AdjustedInv, HookHeld, Adjusted
  <2>4. SeenInv' /\ BatchInv'
    BY <1>3, <2>1 DEF HInv, SeenInv, BatchInv
  <2> QED
    BY <2>2, <2>3, <2>4 DEF HInv
<1> QED
  BY <1>2, <1>3 DEF Release

\* Every step keeps the invariant.
LEMMA NextKeepsHInv == HInv /\ [Next]_vars => HInv'
<1> SUFFICES ASSUME HInv, [Next]_vars PROVE HInv'
  OBVIOUS
<1>1. CASE HookStep
  <2>1. CASE EndOfBatch
    <3>1. faults' \in 0..MaxFaults
      BY <2>1 DEF EndOfBatch, HInv, TypeOK
    <3> QED
      BY <2>1, <3>1, EndsKeeps DEF EndOfBatch
  <2> QED
    BY <1>1, <2>1, QSelectKeeps, QStatKeeps, EvaluateKeeps, ReleaseKeeps DEF HookStep
<1>2. CASE HookAborted
  <2>1. faults' \in 0..MaxFaults
    BY <1>2, HoldAssumption DEF HookAborted, HInv, TypeOK
  <2> QED
    BY <1>2, <2>1, EndsKeeps DEF HookAborted
<1>3. CASE UNCHANGED vars
  BY <1>3 DEF vars, HInv, TypeOK, AdjustedInv, SeenInv, BatchInv, HookHeld, Current, Adjusted
<1>4. ASSUME NEW j \in Job,
             \/ \E r \in Requests, d \in Depends : Submit(j, r, d)
             \/ DependencyMet(j) \/ AddDependency(j) \/ UserHold(j) \/ Leave(j)
      PROVE  HInv'
  BY <1>4, SubmitKeeps, OthersKeep
<1> QED
  BY <1>1, <1>2, <1>3, <1>4 DEF Next

\* HInv, the reason why the hook's jobs are let go adjusted and dependent jobs keep
\* their hold, is an invariant of both hooks, the users and the server.
THEOREM HoldInvariant == Spec => []HInv
<1>1. Init => HInv
  BY InitHInv
<1>2. HInv /\ [Next]_vars => HInv'
  BY NextKeepsHInv
<1> QED
  BY <1>1, <1>2, PTL DEF Spec

\* Jobs, holds and the hook stay within their types.
THEOREM HoldTypes == Spec => []TypeOK
<1>1. HInv => TypeOK
  BY DEF HInv
<1> QED
  BY <1>1, HoldInvariant, PTL

\* What a select job asked for is in the place it has.
KeptIn(asked, p) ==
    /\ asked.arrangement # "none" \/ asked.sharing # "none" =>
         /\ p.arrangement = asked.arrangement
         /\ p.sharing = asked.sharing
    /\ asked.grouping # "none" => p.grouping = asked.grouping

\* The hook completes such a place and changes nothing of it.
LEMMA NewPlaceKeeps ==
    ASSUME NEW asked \in Places, NEW p \in Places, KeptIn(asked, p)
    PROVE  KeptIn(asked, NewPlace(p, FALSE))
<1>1. QueuePlace \in Places
  BY HoldAssumption
<1>2. p.arrangement # "none" \/ p.sharing # "none" =>
        /\ NewPlace(p, FALSE).arrangement = p.arrangement
        /\ NewPlace(p, FALSE).sharing = p.sharing
  BY <1>1 DEF NewPlace, Places, NoPlace
<1>3. p.grouping # "none" => NewPlace(p, FALSE).grouping = p.grouping
  BY <1>1 DEF NewPlace, Places, NoPlace
<1> QED
  BY <1>2, <1>3 DEF KeptIn

\* A step changes the place of a job only if the job is submitted or rewritten.
LEMMA PlaceOfOthers ==
    ASSUME TypeOK, [Next]_vars, NEW j \in Job, phase'[j] = "queued",
           ~Evaluate(j), \A r \in Requests, d \in Depends : ~Submit(j, r, d)
    PROVE  phase[j] = "queued" /\ request'[j] = request[j] /\ place'[j] = place[j]
<1>1. ASSUME NEW i \in Job, Evaluate(i)
      PROVE  phase[j] = "queued" /\ request'[j] = request[j] /\ place'[j] = place[j]
  <2>1. i # j
    BY <1>1
  <2> QED
    BY <1>1, <2>1 DEF Evaluate, TypeOK
<1>2. ASSUME NEW i \in Job, NEW r \in Requests, NEW d \in Depends, Submit(i, r, d)
      PROVE  phase[j] = "queued" /\ request'[j] = request[j] /\ place'[j] = place[j]
  <2>1. i # j
    BY <1>2
  <2> QED
    BY <1>2, <2>1 DEF Submit, TypeOK
<1>3. ASSUME NEW i \in Job,
             DependencyMet(i) \/ AddDependency(i) \/ UserHold(i) \/ Leave(i) \/ Release(i)
      PROVE  phase[j] = "queued" /\ request'[j] = request[j] /\ place'[j] = place[j]
  BY <1>3 DEF DependencyMet, AddDependency, UserHold, Leave, Release, TypeOK
<1>4. CASE QSelect \/ QStat \/ EndOfBatch \/ HookAborted \/ UNCHANGED vars
  BY <1>4 DEF QSelect, QStat, EndOfBatch, HookAborted, vars, jobs
<1> QED
  BY <1>1, <1>2, <1>3, <1>4 DEF Next, HookStep

\* A step leaves what the user asked for in the place.
LEMMA NextKeepsPlace ==
    TypeOK /\ UserPlaceKept /\ [Next]_vars => UserPlaceKept'
<1> SUFFICES ASSUME TypeOK, UserPlaceKept, [Next]_vars,
                    NEW j \in Job, phase'[j] = "queued", ~request'[j].legacy
             PROVE  KeptIn(request'[j].place, place'[j])
  BY DEF UserPlaceKept, KeptIn
<1>1. phase[j] = "queued" /\ ~request[j].legacy => KeptIn(request[j].place, place[j])
  BY DEF UserPlaceKept, KeptIn
<1>2. CASE Evaluate(j)
  <2>1. phase[j] = "queued" /\ request'[j] = request[j]
    BY <1>2 DEF Evaluate
  <2>2. place'[j] = place[j] \/ place'[j] = NewPlace(place[j], request[j].legacy)
    BY <1>2 DEF Evaluate, TypeOK
  <2>3. request[j].legacy = FALSE /\ request[j].place \in Places /\ place[j] \in Places
    BY <2>1, RequestTyped DEF AnyRequest
  <2> QED
    BY <1>1, <2>1, <2>2, <2>3, NewPlaceKeeps
<1>3. CASE \E r \in Requests, d \in Depends : Submit(j, r, d)
  <2>1. PICK r \in Requests, d \in Depends : Submit(j, r, d)
    BY <1>3
  <2>2. request'[j] = r /\ place'[j] = r.place
    BY <2>1 DEF Submit, TypeOK
  <2> QED
    BY <2>2 DEF KeptIn
<1>4. CASE ~Evaluate(j) /\ \A r \in Requests, d \in Depends : ~Submit(j, r, d)
  BY <1>1, <1>4, PlaceOfOthers
<1> QED
  BY <1>2, <1>3, <1>4

\* Whatever the queue's default place: what a job with select syntax asks for in
\* its place is never replaced (periodic_release_hook).
THEOREM PlaceStaysTheUsers == Spec => []UserPlaceKept
<1>1. Init => UserPlaceKept
  BY DEF Init, UserPlaceKept
<1>2. TypeOK /\ UserPlaceKept /\ [Next]_vars => UserPlaceKept'
  BY NextKeepsPlace
<1> QED
  BY <1>1, <1>2, HoldTypes, PTL DEF Spec

\* Whatever jobs, holds and dependencies there are, and wherever the hook dies:
\* a job it held is let go only after its place and its memory were rewritten
\* (periodic_release_hook: qalter comes before unset_hold_so).
THEOREM LetGoAdjusted == Spec => []AdjustedBeforeRelease
<1>1. HInv => AdjustedBeforeRelease
  BY DEF HInv, AdjustedInv, AdjustedBeforeRelease, Adjusted
<1> QED
  BY <1>1, HoldInvariant, PTL

\* A step that takes the system hold off a job whose depend attribute starts with
\* what it waits for is the server's, or the job became dependent after the
\* hook's qstat (unset_hold_so).
THEOREM DependencyKept == Spec => DependencyHonoured
<1> DEFINE Honoured ==
      \A j \in Job :
        phase[j] = "queued" /\ depend[j] = "after" /\ "s" \in hold[j] /\ j \notin late
        => "s" \in hold'[j] \/ depend'[j] # "after"
<1>1. HInv /\ [Next]_vars => [Honoured]_vars
  <2> SUFFICES ASSUME HInv, Next, NEW j \in Job, phase[j] = "queued",
                      depend[j] = "after", "s" \in hold[j], j \notin late
               PROVE  "s" \in hold'[j] \/ depend'[j] # "after"
    OBVIOUS
  <2>1. TypeOK
    BY DEF HInv
  <2>2. CASE HookStep
    <3>1. ASSUME NEW i \in Job, Release(i) PROVE "s" \in hold'[j]
      <4>1. CASE i = j
        <5>1. seen[j] = "after"
          BY <3>1, <4>1 DEF HInv, SeenInv, Release, Current
        <5>2. ReleasedHolds(seen[j]) = {"o"}
          BY <5>1 DEF ReleasedHolds
        <5> QED
          BY <2>1, <3>1, <4>1, <5>2 DEF Release, TypeOK
      <4>2. CASE i # j
        BY <2>1, <3>1, <4>2 DEF Release, TypeOK
      <4> QED
        BY <4>1, <4>2
    <3> QED
      BY <2>2, <3>1 DEF HookStep, QSelect, QStat, EndOfBatch, Evaluate, jobs
  <2>3. CASE HookAborted
    BY <2>3 DEF HookAborted, jobs
  <2>4. ASSUME NEW i \in Job, NEW r \in Requests, NEW d \in Depends, Submit(i, r, d)
        PROVE  "s" \in hold'[j]
    BY <2>1, <2>4 DEF Submit, TypeOK
  <2>5. ASSUME NEW i \in Job,
               DependencyMet(i) \/ AddDependency(i) \/ UserHold(i) \/ Leave(i)
        PROVE  "s" \in hold'[j] \/ depend'[j] # "after"
    <3>1. CASE DependencyMet(i)
      BY <2>1, <3>1 DEF DependencyMet, TypeOK
    <3>2. CASE AddDependency(i)
      BY <2>1, <3>2 DEF AddDependency, TypeOK
    <3>3. CASE UserHold(i)
      BY <2>1, <3>3 DEF UserHold, TypeOK
    <3>4. CASE Leave(i)
      BY <3>4 DEF Leave
    <3> QED
      BY <2>5, <3>1, <3>2, <3>3, <3>4
  <2> QED
    BY <2>2, <2>3, <2>4, <2>5 DEF Next
<1> QED
  BY <1>1, HoldInvariant, PTL DEF Spec, DependencyHonoured

-----------------------------------------------------------------------------
(* Holds that are always somebody's, and the refinement of JobGate. *)

\* A hook that ends leaves no list and no copy behind.
LEMMA EndsKeepOwned ==
    ASSUME SystemHoldOwned, HookEnds, UNCHANGED jobs
    PROVE  SystemHoldOwned' /\ ListedInv' /\ UnseenInv'
BY DEF SystemHoldOwned, ListedInv, UnseenInv, HookEnds, jobs, Pending

\* What others do to a job leaves its system hold an owner.
LEMMA OthersKeepOwned ==
    ASSUME GInv, NEW j \in Job,
           \/ \E r \in Requests, d \in Depends : Submit(j, r, d)
           \/ DependencyMet(j) \/ AddDependency(j) \/ UserHold(j) \/ Leave(j)
    PROVE  SystemHoldOwned' /\ ListedInv' /\ UnseenInv'
<1> USE DEF hook, Pending, GInv, HInv, TypeOK, SystemHoldOwned, ListedInv, UnseenInv
<1>1. ASSUME NEW r \in Requests, NEW d \in Depends, Submit(j, r, d)
      PROVE  SystemHoldOwned' /\ ListedInv' /\ UnseenInv'
  <2>1. j \notin batch
    BY <1>1 DEF BatchInv, Submit
  <2> QED
    BY <1>1, <2>1 DEF Submit, DependencyHold
<1>2. CASE DependencyMet(j)
  BY <1>2 DEF DependencyMet
<1>3. CASE AddDependency(j)
  BY <1>3 DEF AddDependency
<1>4. CASE UserHold(j)
  BY <1>4 DEF UserHold
<1>5. CASE Leave(j)
  BY <1>5 DEF Leave
<1> QED
  BY <1>1, <1>2, <1>3, <1>4, <1>5

\* The hook takes both holds off a job, or leaves the system hold to the
\* dependency qstat showed it.
LEMMA HookKeepsOwned ==
    ASSUME GInv, HookStep \/ HookAborted
    PROVE  SystemHoldOwned' /\ ListedInv' /\ UnseenInv'
<1>1. SystemHoldOwned /\ ListedInv /\ UnseenInv /\ TypeOK
  BY DEF GInv, HInv
<1>2. CASE HookEnds /\ UNCHANGED jobs
  BY <1>1, <1>2, EndsKeepOwned
<1>3. CASE QSelect
  <2>1. batch' \subseteq SelectedJobs /\ UNCHANGED <<jobs, seen>> /\ pc = "idle"
    BY <1>3 DEF QSelect, FirstOf
  <2> QED
    BY <1>1, <2>1
       DEF SystemHoldOwned, ListedInv, UnseenInv, SelectedJobs, jobs, TypeOK, Pending
<1>4. CASE QStat /\ ~HookEnds
  BY <1>1, <1>4
     DEF QStat, SystemHoldOwned, ListedInv, UnseenInv, jobs, TypeOK, Pending
<1>5. ASSUME NEW j \in Job, Evaluate(j), ~HookEnds
      PROVE  SystemHoldOwned' /\ ListedInv' /\ UnseenInv'
  BY <1>1, <1>5 DEF Evaluate, SystemHoldOwned, ListedInv, UnseenInv, Pending
<1>6. ASSUME NEW j \in Job, Release(j), ~HookEnds
      PROVE  SystemHoldOwned' /\ ListedInv' /\ UnseenInv'
  <2>1. /\ phase[j] = "queued"
        /\ hold' = [hold EXCEPT ![j] = @ \ ReleasedHolds(seen[j])]
        /\ pc' = "job"
        /\ batch' = batch \ {j}
        /\ j \in batch
        /\ UNCHANGED <<phase, depend, seen>>
    BY <1>6 DEF Release, Current
  <2>2. "s" \in hold'[j] => Pending(depend[j])
    <3>1. seen[j] # "after" => "s" \in ReleasedHolds(seen[j])
      BY <1>1 DEF TypeOK, Dependencies, ReleasedHolds
    <3> QED
      BY <1>1, <2>1, <3>1 DEF TypeOK, ListedInv
  <2>3. \A i \in Job \ {j} : hold'[i] = hold[i]
    BY <1>1, <2>1 DEF TypeOK
  <2> QED
    BY <1>1, <2>1, <2>2, <2>3 DEF SystemHoldOwned, ListedInv, UnseenInv, Pending
<1>7. ASSUME NEW j \in Job, Evaluate(j) \/ Release(j), HookEnds
      PROVE  UNCHANGED jobs
  BY <1>7 DEF Evaluate, Release, HookEnds, jobs
<1> QED
  BY <1>2, <1>3, <1>4, <1>5, <1>6, <1>7
     DEF HookStep, HookAborted, EndOfBatch, QStat

\* GInv, the reason why no system hold is left without an owner, is an invariant.
LEMMA OwnedInvariant == Spec => []GInv
<1>1. Init => GInv
  BY InitHInv DEF Init, GInv, SystemHoldOwned, ListedInv, UnseenInv
<1>2. GInv /\ [Next]_vars => GInv'
  <2> SUFFICES ASSUME GInv, [Next]_vars
               PROVE  SystemHoldOwned' /\ ListedInv' /\ UnseenInv'
    BY NextKeepsHInv DEF GInv
  <2>1. CASE UNCHANGED vars
    BY <2>1 DEF vars, GInv, SystemHoldOwned, ListedInv, UnseenInv, Pending
  <2> QED
    BY <2>1, OthersKeepOwned, HookKeepsOwned DEF Next
<1> QED
  BY <1>1, <1>2, PTL DEF Spec

\* For any jobs and dependencies, and wherever the hook dies between its qstat
\* and its qrls (unset_hold_so): a system hold it leaves behind belongs to a
\* dependency that is still to be met.
THEOREM HoldsOwned == Spec => []SystemHoldOwned
<1>1. GInv => SystemHoldOwned
  BY DEF GInv
<1> QED
  BY <1>1, OwnedInvariant, PTL

-----------------------------------------------------------------------------
(* The refinement. *)

\* Others bring jobs to the gate, make them wait, end their waits, take them away.
LEMMA OthersAtGate ==
    ASSUME GInv, NEW j \in Job,
           \/ \E r \in Requests, d \in Depends : Submit(j, r, d)
           \/ DependencyMet(j) \/ AddDependency(j) \/ UserHold(j) \/ Leave(j)
    PROVE  Gate!Next \/ UNCHANGED Gate!vars
<1> USE DEF hook, GInv, HInv, TypeOK, Here, Unfit, Kept, Waits, HookHeld, Adjusted
<1>1. ASSUME NEW r \in Requests, NEW d \in Depends, Submit(j, r, d)
      PROVE  Gate!Arrive(j)
  <2>1. \A i \in Job \ {j} :
          /\ phase'[i] = phase[i] /\ request'[i] = request[i] /\ select'[i] = select[i]
          /\ place'[i] = place[i] /\ depend'[i] = depend[i] /\ hold'[i] = hold[i]
    BY <1>1 DEF Submit
  <2>2. /\ phase[j] = "absent" /\ phase'[j] = "queued" /\ request'[j] = r
        /\ HeldOnSubmit(r) => "o" \in hold'[j]
        /\ ~HeldOnSubmit(r) => "o" \notin hold'[j]
    BY <1>1 DEF Submit, DependencyHold
  <2>3. j \notin Here /\ Here' = Here \cup {j}
    BY <2>1, <2>2
  <2>4. Waits' \in {Waits, Waits \cup {j}}
    BY <2>1, <2>2
  <2>5. \/ Kept' = Kept \cup {j} /\ Unfit' \in {Unfit, Unfit \cup {j}}
        \/ Kept' = Kept /\ Unfit' = Unfit
    <3>1. CASE HeldOnSubmit(r)
      <4>1. Kept' = Kept \cup {j}
        BY <2>1, <2>2, <3>1
      <4>2. Unfit' \in {Unfit, Unfit \cup {j}}
        BY <2>1, <2>2, <3>1
      <4> QED
        BY <4>1, <4>2
    <3>2. CASE ~HeldOnSubmit(r)
      BY <2>1, <2>2, <3>2
    <3> QED
      BY <3>1, <3>2
  <2> QED
    BY <1>1, <2>3, <2>4, <2>5 DEF Gate!Arrive, Submit
<1>2. CASE DependencyMet(j)
  <2>1. UNCHANGED <<Here, Unfit, Kept, late>>
    BY <1>2 DEF DependencyMet
  <2>2. Waits' = Waits \ {j}
    BY <1>2 DEF DependencyMet
  <2> QED
    BY <2>1, <2>2 DEF Gate!EndWait, Gate!Next, Gate!vars
<1>3. CASE AddDependency(j)
  <2>1. UNCHANGED <<Here, Unfit, Kept>>
    BY <1>3 DEF AddDependency
  <2>2. j \in Here \ Waits /\ Waits' = Waits \cup {j} /\ late' \in {late, late \cup {j}}
    BY <1>3 DEF AddDependency
  <2> QED
    BY <2>1, <2>2 DEF Gate!BeginWait, Gate!Next
<1>4. CASE UserHold(j)
  BY <1>4 DEF UserHold, Gate!vars
<1>5. CASE Leave(j)
  <2>1. j \in Here /\ Here' = Here \ {j} /\ Unfit' = Unfit \ {j} /\ UNCHANGED late
    BY <1>5 DEF Leave
  <2>2. Kept' = Kept \ {j} /\ Waits' = Waits \ {j}
    BY <1>5 DEF Leave
  <2> QED
    BY <2>1, <2>2 DEF Gate!Leave, Gate!Next
<1> QED
  BY <1>1, <1>2, <1>3, <1>4, <1>5 DEF Gate!Next

\* A hook that ends, at whichever command, is a look to come.
LEMMA EndsIsLook ==
    ASSUME HookEnds, UNCHANGED jobs
    PROVE  Gate!Look
BY DEF HookEnds, jobs, Gate!Look, Here, Unfit, Kept, Waits, HookHeld, Adjusted

\* A qalter rewrites one job, or finds nothing left to rewrite.
LEMMA EvaluateIsRewrite ==
    ASSUME GInv, NEW j \in Job, Evaluate(j), ~HookEnds
    PROVE  Gate!Rewrite(j) \/ UNCHANGED Gate!vars
<1>1. TypeOK
  BY DEF GInv, HInv
<1>2. CASE UNCHANGED <<select, place>>
  BY <1>2 DEF Evaluate, HookEnds, Gate!vars, Here, Unfit, Kept, Waits, HookHeld, Adjusted
<1>3. CASE /\ phase[j] = "queued"
           /\ select' = [select EXCEPT ![j] = NewSelect(@)]
           /\ place' = [place EXCEPT ![j] = NewPlace(@, request[j].legacy)]
           /\ UNCHANGED late
  <2>1. UNCHANGED <<phase, request, depend, hold, late>> /\ j \in batch
    BY <1>3 DEF Evaluate, Current
  <2>2. j \in Kept
    BY <1>3, <2>1 DEF GInv, ListedInv, Kept, Here
  <2>3. Adjusted(j)'
    BY <1>1, <1>3, RequestTyped, NewSelectLower, NewPlaceGrouped DEF TypeOK, Adjusted
  <2>4. \A i \in Job \ {j} : select'[i] = select[i] /\ place'[i] = place[i]
    BY <1>1, <1>3 DEF TypeOK
  <2>5. Unfit' = Unfit \ {j}
    BY <2>1, <2>3, <2>4 DEF Unfit, Here, HookHeld, Adjusted
  <2>6. UNCHANGED <<Here, Kept, Waits>>
    BY <2>1 DEF Here, Kept, Waits
  <2> QED
    BY <2>1, <2>2, <2>5, <2>6 DEF Gate!Rewrite, Gate!vars
<1> QED
  BY <1>2, <1>3 DEF Evaluate

\* A qrls lets one job through that is fit, and lifts no wait known to it.
LEMMA ReleaseLetsThrough ==
    ASSUME GInv, NEW j \in Job, Release(j), ~HookEnds
    PROVE  Gate!LetThrough(j)
<1>1. TypeOK /\ HInv
  BY DEF GInv, HInv
<1>2. /\ pc = "release" /\ Current(j) /\ phase[j] = "queued"
      /\ hold' = [hold EXCEPT ![j] = @ \ ReleasedHolds(seen[j])]
      /\ UNCHANGED <<phase, request, select, place, depend, late>>
  BY DEF Release
<1>3. UNCHANGED <<Here, Unfit, late>>
  BY <1>2 DEF Here, Unfit, HookHeld, Adjusted
<1>4. \A i \in Job \ {j} : hold'[i] = hold[i]
  BY <1>1, <1>2 DEF TypeOK
<1>5. j \in Kept \ Unfit
  <2>1. j \in Kept
    BY <1>2 DEF GInv, ListedInv, Kept, Here, Current
  <2>2. j \notin Unfit
    BY <1>1, <1>2 DEF HInv, AdjustedInv, Unfit
  <2> QED
    BY <2>1, <2>2
<1>6. Kept' = Kept \ {j}
  <2>1. "o" \notin hold'[j]
    BY <1>1, <1>2 DEF TypeOK, ReleasedHolds
  <2> QED
    BY <1>2, <1>4, <2>1 DEF Kept, Here
<1>7. Waits' \in {Waits, Waits \ ({j} \cap late)}
  <2>1. CASE j \in late
    <3>1. "s" \in hold'[j] => "s" \in hold[j]
      BY <1>1, <1>2 DEF TypeOK
    <3> QED
      BY <1>2, <1>4, <2>1, <3>1 DEF Waits, Here
  <2>2. CASE j \in Waits \ late
    <3>1. ReleasedHolds(seen[j]) = {"o"}
      BY <1>1, <1>2, <2>2 DEF HInv, SeenInv, Waits, Current, ReleasedHolds
    <3>2. hold'[j] = hold[j] \ {"o"}
      BY <1>1, <1>2, <3>1 DEF TypeOK
    <3> QED
      BY <1>2, <1>4, <3>2 DEF Waits, Here
  <2>3. CASE j \notin Waits
    <3>1. "s" \in hold'[j] => "s" \in hold[j]
      BY <1>1, <1>2 DEF TypeOK
    <3> QED
      BY <1>2, <1>4, <2>3, <3>1 DEF Waits, Here
  <2> QED
    BY <2>1, <2>2, <2>3
<1> QED
  BY <1>3, <1>5, <1>6, <1>7 DEF Gate!LetThrough

\* Each command of a run is one step at the gate, or none.
LEMMA HookAtGate ==
    ASSUME GInv, HookStep \/ HookAborted
    PROVE  Gate!Next \/ UNCHANGED Gate!vars
<1>1. CASE HookEnds /\ UNCHANGED jobs
  BY <1>1, EndsIsLook DEF Gate!Next
<1>2. CASE QSelect \/ (QStat /\ ~HookEnds)
  BY <1>2
     DEF QSelect, QStat, jobs, Gate!vars, Here, Unfit, Kept, Waits, HookHeld, Adjusted
<1>3. ASSUME NEW j \in Job, (Evaluate(j) \/ Release(j)) /\ ~HookEnds
      PROVE  Gate!Next \/ UNCHANGED Gate!vars
  BY <1>3, EvaluateIsRewrite, ReleaseLetsThrough DEF Gate!Next
<1>4. ASSUME NEW j \in Job, Evaluate(j) \/ Release(j), HookEnds
      PROVE  UNCHANGED jobs
  BY <1>4 DEF Evaluate, Release, HookEnds, jobs
<1> QED
  BY <1>1, <1>2, <1>3, <1>4 DEF HookStep, HookAborted, EndOfBatch, QStat

\* For any jobs, requests, dependencies and batch, whatever others do and wherever
\* the hook is killed: both hooks together are the gate of JobGate.
THEOREM HoldImplementsGate == Spec => ImplementsGate
<1>1. Init => Gate!Init
  BY DEF Init, Gate!Init, Here, Unfit, Kept, Waits
<1>2. GInv /\ [Next]_vars => [Gate!Next]_(Gate!vars)
  <2> SUFFICES ASSUME GInv, [Next]_vars
               PROVE  Gate!Next \/ UNCHANGED Gate!vars
    OBVIOUS
  <2>1. CASE UNCHANGED vars
    BY <2>1 DEF vars, Gate!vars, Here, Unfit, Kept, Waits, HookHeld, Adjusted
  <2> QED
    BY <2>1, OthersAtGate, HookAtGate DEF Next
<1> QED
  BY <1>1, <1>2, OwnedInvariant, PTL DEF Spec, ImplementsGate, Gate!Spec

\* The gate is closed to whatever has still to be rewritten, whoever implements it.
THEOREM GateCloses == Gate!Spec => []Gate!NothingUnfitPasses
<1>1. Gate!Init => Gate!NothingUnfitPasses
  BY DEF Gate!Init, Gate!NothingUnfitPasses
<1>2. Gate!NothingUnfitPasses /\ [Gate!Next]_(Gate!vars) => Gate!NothingUnfitPasses'
  BY DEF Gate!NothingUnfitPasses, Gate!Next, Gate!vars, Gate!Arrive, Gate!Rewrite,
         Gate!LetThrough, Gate!BeginWait, Gate!EndWait, Gate!Leave, Gate!Look
<1> QED
  BY <1>1, <1>2, PTL DEF Gate!Spec
=============================================================================
