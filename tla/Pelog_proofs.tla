---------------------------- MODULE Pelog_proofs ----------------------------
(***************************************************************************)
(* Proofs about the prologue and epilogue runner, for any alarm of at least *)
(* five seconds, any pipe and any configuration.                            *)
(***************************************************************************)
EXTENDS Pelog, TLAPS

\* The flags of a case are Boolean, and so is what follows from them.
LEMMA CaseTyped ==
    ASSUME TypeOK
    PROVE  /\ case.unkillable \in BOOLEAN /\ case.keepsPipe \in BOOLEAN
           /\ case.script \in {"missing", "mode", "noshell", "ok"}
           /\ case.event \in {"prologue", "epilogue"}
BY DEF TypeOK, Cases

\* The invariant holds when the hook starts.
LEMMA InitPInv == Init => PInv
<1> SUFFICES ASSUME Init PROVE PInv
  OBVIOUS
<1>1. /\ now \in 0..Alarm /\ wake \in 0..(Alarm + 2) /\ pipe \in 0..PipeSize
      /\ status \in {-15, -9, 0, 1, 2} /\ termAt \in -1..Alarm /\ killAt \in -1..Alarm
  BY PelogAssumption DEF Init
<1>2. printed \in BOOLEAN /\ held \in BOOLEAN
  BY Zenon DEF Init
<1>3. TypeOK
  BY <1>1, <1>2 DEF Init, TypeOK, Loops, Verdicts
<1> QED
  BY <1>3, PelogAssumption
     DEF Init, PInv, ClockInv, SignalInv, ChildInv, KillableInv, Loops, GraceGiven,
         NoScriptLeftRunning

\* What the script does by itself leaves the hook and its clock alone.
LEMMA ScriptKeeps == PInv /\ ScriptStep => PInv'
<1> SUFFICES ASSUME PInv, ScriptStep PROVE PInv'
  OBVIOUS
<1>1. UNCHANGED <<case, pc, now, wake, termAt, killAt, verdict>> /\ verdict = "none"
  BY DEF ScriptStep, Write, Exit, DieOfTerm, DieOfKill, Die, PipeClosed
<1>2. /\ child' \in {"none", "running", "blocked", "dead"}
      /\ child' = child \/ child \in {"running", "blocked"}
      /\ child = "dead" => child' = "dead"
      /\ child # "none" => child' # "none"
  BY DEF PInv, TypeOK, ScriptStep, Write, Exit, DieOfTerm, DieOfKill, Die, PipeClosed
<1>3. status' \in {-15, -9, 0, 1, 2}
  BY DEF PInv, TypeOK, ScriptStep, Write, Exit, DieOfTerm, DieOfKill, Die, PipeClosed
<1>3a. printed' \in BOOLEAN
  BY Zenon DEF PInv, TypeOK, ScriptStep, Write, Exit, DieOfTerm, DieOfKill, Die, PipeClosed
<1>4. pipe' \in 0..PipeSize
  BY PelogAssumption
     DEF PInv, TypeOK, ScriptStep, Write, Exit, DieOfTerm, DieOfKill, Die, PipeClosed
<1>5. held' \in BOOLEAN /\ (held' = held \/ held' = FALSE \/ held' = case.keepsPipe)
  BY CaseTyped DEF PInv, TypeOK, ScriptStep, Write, Exit, DieOfTerm, DieOfKill, Die, PipeClosed
<1>6. TypeOK'
  BY <1>1, <1>2, <1>3, <1>3a, <1>4, <1>5 DEF PInv, TypeOK
<1>7. ClockInv' /\ SignalInv'
  BY <1>1, <1>2 DEF PInv, ClockInv, SignalInv, GraceGiven
<1>8. ChildInv'
  BY <1>1, <1>2 DEF PInv, ChildInv, Loops, NoScriptLeftRunning
<1>9. KillableInv'
  BY <1>1, <1>5 DEF PInv, TypeOK, KillableInv
<1> QED
  BY <1>6, <1>7, <1>8, <1>9 DEF PInv

\* A verdict changes nothing else.
LEMMA DecideKeeps ==
    ASSUME PInv, NEW v \in Verdicts \ {"none"}, Decide(v),
           v # "alarm" => child \in {"none", "dead"}
    PROVE  PInv'
<1>1. /\ UNCHANGED <<case, now, wake, child, status, pipe, printed, held, termAt, killAt>>
      /\ pc' = "done" /\ verdict' = v
  BY DEF Decide, script
<1>2. TypeOK'
  BY <1>1 DEF PInv, TypeOK
<1> QED
  BY <1>1, <1>2 DEF PInv, ClockInv, SignalInv, ChildInv, KillableInv, Loops, GraceGiven,
     NoScriptLeftRunning, Verdicts

\* The script is started when nothing stands against it.
LEMMA ExamineKeeps == PInv /\ Examine => PInv'
<1> SUFFICES ASSUME PInv, Examine PROVE PInv'
  OBVIOUS
<1>1. CASE Decide("accept") \/ Decide("rerun")
  BY <1>1, DecideKeeps DEF Examine, PInv, ChildInv, Verdicts
<1>2. CASE ~(Decide("accept") \/ Decide("rerun"))
  <2>1. /\ pc = "examine" /\ pc' = "wait" /\ child' = "running"
        /\ UNCHANGED <<case, now, wake, status, pipe, printed, held, termAt, killAt, verdict>>
    BY <1>2 DEF Examine
  <2>2. TypeOK'
    BY <2>1 DEF PInv, TypeOK, Loops
  <2> QED
    BY <2>1, <2>2, PelogAssumption
       DEF PInv, TypeOK, ClockInv, SignalInv, ChildInv, KillableInv, Loops, GraceGiven,
           NoScriptLeftRunning
<1> QED
  BY <1>1, <1>2

\* A loop sleeps once more.
LEMMA PollKeeps == ASSUME PInv, NEW loop \in Loops, Poll(loop) PROVE PInv'
<1>1. /\ pc = loop /\ now < Until(loop) /\ wake' = now + Pause(loop)
      /\ UNCHANGED <<case, pc, now, child, status, pipe, printed, held, termAt, killAt, verdict>>
  BY DEF Poll, script
<1>2. /\ now \in Nat /\ Alarm \in Nat /\ Alarm >= 10
      /\ wake' \in 0..(Alarm + 2) /\ now <= wake'
      /\ pc = "wait" => wake' <= Alarm - 9
      /\ pc = "term" => wake' <= Alarm - 6
      /\ pc = "kill" => wake' <= Alarm - 2
  BY <1>1, PelogAssumption DEF Loops, Until, Pause, PInv, TypeOK
<1>3. TypeOK'
  BY <1>1, <1>2 DEF PInv, TypeOK
<1>4. ClockInv'
  BY <1>1, <1>2 DEF PInv, ClockInv, Loops
<1> QED
  BY <1>1, <1>3, <1>4 DEF PInv, SignalInv, ChildInv, KillableInv, GraceGiven,
     NoScriptLeftRunning

\* A loop ends: the next signal is sent, or the output is collected.
LEMMA LeaveKeeps == ASSUME PInv, NEW loop \in Loops, LeaveLoop(loop) PROVE PInv'
<1>1. /\ pc = loop /\ wake <= now /\ now <= wake /\ now \in 0..Alarm /\ wake \in Nat
      /\ termAt \in Int /\ killAt \in Int /\ Alarm \in Nat /\ Alarm >= 10
      /\ UNCHANGED <<case, now, wake, child, status, pipe, printed, held, verdict>>
  BY PelogAssumption DEF LeaveLoop, script, PInv, TypeOK, ClockInv
<1>2. pc # "done" /\ verdict = "none"
  BY <1>1 DEF Loops, PInv, ChildInv
<1>3. CASE child # "dead" /\ loop = "wait"
  <2>1. pc' = "term" /\ termAt' = now /\ killAt' = killAt /\ now <= Alarm - 9
    BY <1>1, <1>3 DEF LeaveLoop, PInv, ClockInv
  <2>2. TypeOK'
    BY <1>1, <2>1 DEF PInv, TypeOK, Loops
  <2> QED
    BY <1>1, <1>2, <1>3, <2>1, <2>2
       DEF PInv, ClockInv, SignalInv, ChildInv, KillableInv, Loops, GraceGiven,
           NoScriptLeftRunning
<1>4. CASE child # "dead" /\ loop = "term"
  <2>1. pc' = "kill" /\ killAt' = now /\ termAt' = termAt
    BY <1>4 DEF LeaveLoop
  <2>2. now >= Alarm - 6 /\ now <= Alarm - 6 /\ termAt <= Alarm - 9
    BY <1>1, <1>4 DEF LeaveLoop, Until, PInv, ClockInv, SignalInv
  <2>3. TypeOK'
    BY <1>1, <2>1 DEF PInv, TypeOK, Loops
  <2> QED
    BY <1>1, <1>2, <1>4, <2>1, <2>2, <2>3
       DEF PInv, ClockInv, SignalInv, ChildInv, KillableInv, Loops, GraceGiven,
           NoScriptLeftRunning
<1>5. CASE child = "dead" \/ loop = "kill"
  <2>1. pc' = "collect" /\ killAt' = killAt /\ termAt' = termAt
    BY <1>5 DEF LeaveLoop
  <2>2. TypeOK'
    BY <1>1, <2>1 DEF PInv, TypeOK, Loops
  <2> QED
    BY <1>1, <1>2, <1>5, <2>1, <2>2
       DEF PInv, ClockInv, SignalInv, ChildInv, KillableInv, Loops, GraceGiven,
           NoScriptLeftRunning
<1> QED
  BY <1>1, <1>3, <1>4, <1>5 DEF Loops

\* communicate() reads, and returns when the script is dead.
LEMMA CollectKeeps == PInv /\ (CollectOutput \/ Collected) => PInv'
<1> SUFFICES ASSUME PInv, CollectOutput \/ Collected PROVE PInv'
  OBVIOUS
<1>1. CASE CollectOutput
  <2>1. /\ pc = "collect" /\ pipe' = 0
        /\ child' = IF child = "blocked" THEN "running" ELSE child
        /\ UNCHANGED <<case, pc, now, wake, status, printed, held, termAt, killAt, verdict>>
    BY <1>1 DEF CollectOutput
  <2>2. TypeOK'
    BY <2>1, PelogAssumption DEF PInv, TypeOK
  <2> QED
    BY <2>1, <2>2 DEF PInv, ClockInv, SignalInv, ChildInv, KillableInv, Loops, GraceGiven,
       NoScriptLeftRunning
<1>2. CASE Collected
  <2>1. /\ pc = "collect" /\ pc' = "verdict" /\ child = "dead"
        /\ UNCHANGED <<case, now, wake, child, status, pipe, printed, held, termAt, killAt,
                       verdict>>
    BY <1>2 DEF Collected, script
  <2>2. TypeOK'
    BY <2>1 DEF PInv, TypeOK
  <2> QED
    BY <2>1, <2>2 DEF PInv, ClockInv, SignalInv, ChildInv, KillableInv, Loops, GraceGiven,
       NoScriptLeftRunning
<1> QED
  BY <1>1, <1>2

\* The exit status becomes a verdict over a dead script.
LEMMA ConcludeKeeps == PInv /\ Conclude => PInv'
<1> SUFFICES ASSUME PInv, Conclude PROVE PInv'
  OBVIOUS
<1>1. VerdictOf(case.event, status) \in {"accept", "delete", "rerun"}
  BY CaseTyped DEF VerdictOf, PInv, TypeOK
<1>2. PICK v \in Verdicts \ {"none"} : Decide(v)
  BY <1>1 DEF Conclude, Verdicts
<1>3. child = "dead"
  BY DEF Conclude, PInv, ChildInv
<1> QED
  BY <1>2, <1>3, DecideKeeps

\* Time passes only in a sleep, or while communicate() waits for a script that
\* cannot be killed or for its pipe.
LEMMA TickKeeps == PInv /\ Tick => PInv'
<1> SUFFICES ASSUME PInv, Tick PROVE PInv'
  OBVIOUS
<1>1. /\ now' = now + 1 /\ now < Alarm /\ now \in Nat /\ Alarm \in Nat /\ wake \in Nat
      /\ UNCHANGED <<case, pc, wake, child, status, pipe, printed, held, termAt, killAt,
                     verdict>>
  BY PelogAssumption DEF Tick, script, PInv, TypeOK
<1>2. pc \in Loops \cup {"collect"} /\ (pc \in Loops => now' <= wake)
  BY <1>1 DEF Tick, Loops
<1>3. TypeOK'
  BY <1>1 DEF PInv, TypeOK
<1>4. ClockInv'
  BY <1>1, <1>2 DEF PInv, ClockInv, Loops
<1>5. KillableInv'
  <2> SUFFICES ASSUME ~case.unkillable, ~case.keepsPipe
               PROVE  ~held /\ now' <= Alarm - 2
    BY <1>1 DEF KillableInv
  <2>1. ~held
    BY DEF PInv, KillableInv
  <2>2. pc # "collect"
    BY <2>1 DEF Tick, Dying, PInv, SignalInv, Loops
  <2>3. wake <= Alarm - 2
    BY <1>1, <1>2, <2>2 DEF PInv, ClockInv, Loops
  <2> QED
    BY <1>1, <1>2, <2>1, <2>2, <2>3
<1> QED
  BY <1>1, <1>3, <1>4, <1>5 DEF PInv, SignalInv, ChildInv, GraceGiven, NoScriptLeftRunning

\* Every step keeps the invariant.
LEMMA NextKeepsPInv == PInv /\ [Next]_vars => PInv'
<1> SUFFICES ASSUME PInv, [Next]_vars PROVE PInv'
  OBVIOUS
<1>1. CASE HookStep
  BY <1>1, ExamineKeeps, PollKeeps, LeaveKeeps, CollectKeeps, ConcludeKeeps DEF HookStep
<1>2. CASE AlarmRings
  BY <1>2, DecideKeeps DEF AlarmRings, Verdicts
<1>3. CASE UNCHANGED vars
  BY <1>3 DEF vars, PInv, TypeOK, ClockInv, SignalInv, ChildInv, KillableInv, GraceGiven,
     NoScriptLeftRunning
<1> QED
  BY <1>1, <1>2, <1>3, ScriptKeeps, TickKeeps DEF Next, Done

\* PInv is an invariant of the hook, its script and the clock.
LEMMA PelogInvariance == Spec => []PInv
<1>1. Init => PInv
  BY InitPInv
<1>2. PInv /\ [Next]_vars => PInv'
  BY NextKeepsPInv
<1> QED
  BY <1>1, <1>2, PTL DEF Spec

\* Hook, script and clock stay within their types.
THEOREM PelogTypes == Spec => []TypeOK
<1>1. PInv => TypeOK
  BY DEF PInv
<1> QED
  BY <1>1, PelogInvariance, PTL

\* Whatever the alarm (of at least five seconds): the verdict is the hook's own
\* and not the alarm's, unless the script cannot be killed or its pipe is held
\* (the three deadlines of run_pelog_shell.py).
THEOREM VerdictInTime == Spec => []DecidedInTime
<1> DEFINE RungInv == PInv /\ DecidedInTime
<1>1. Init => RungInv
  BY InitPInv DEF Init, DecidedInTime
<1>2. RungInv /\ [Next]_vars => RungInv'
  <2> SUFFICES ASSUME RungInv, [Next]_vars PROVE DecidedInTime'
    BY NextKeepsPInv
  <2>1. case' = case
    BY DEF Next, HookStep, Examine, Poll, LeaveLoop, CollectOutput, Collected, Conclude,
           ScriptStep, Write, Exit, DieOfTerm, DieOfKill, Die, PipeClosed, Tick, AlarmRings,
           Done, Decide, vars
  <2>2. CASE verdict' = "alarm" /\ verdict # "alarm"
    <3>1. AlarmRings
      <4>1. VerdictOf(case.event, status) # "alarm"
        BY CaseTyped DEF VerdictOf, PInv, TypeOK
      <4> QED
        BY <2>2, <4>1
           DEF Next, HookStep, Examine, Poll, LeaveLoop, CollectOutput, Collected, Conclude,
               ScriptStep, Write, Exit, DieOfTerm, DieOfKill, Die, PipeClosed, Tick, Done,
               Decide, vars
    <3>2. ~(now <= Alarm - 2)
      BY <3>1, PelogAssumption DEF AlarmRings
    <3> QED
      BY <2>1, <3>2, CaseTyped DEF PInv, KillableInv, DecidedInTime
  <2> QED
    BY <2>1, <2>2 DEF DecidedInTime
<1> QED
  BY <1>1, <1>2, PTL DEF Spec

\* Between SIGTERM and SIGKILL there is a second at least.
THEOREM TermBeforeKill == Spec => []GraceGiven
<1>1. PInv => GraceGiven
  BY DEF PInv, SignalInv
<1> QED
  BY <1>1, PelogInvariance, PTL

\* No verdict is given over a script that still runs (communicate() waits).
THEOREM ScriptIsOver == Spec => []NoScriptLeftRunning
<1>1. PInv => NoScriptLeftRunning
  BY DEF PInv, ChildInv
<1> QED
  BY <1>1, PelogInvariance, PTL
-----------------------------------------------------------------------------
(* The hook enforces a time limit. *)

\* A step of the script is an end of it or nothing that its author would call a
\* change.
LEMMA ScriptAtLimit == PInv /\ ScriptStep => [Limit!Next]_(Limit!vars)
<1> SUFFICES ASSUME PInv, ScriptStep PROVE [Limit!Next]_(Limit!vars)
  OBVIOUS
<1>1. UNCHANGED <<case, now, termAt, killAt, verdict>> /\ verdict = "none"
  BY DEF ScriptStep, Write, Exit, DieOfTerm, DieOfKill, Die, PipeClosed
<1>2. UNCHANGED <<case.unkillable \/ case.keepsPipe, now >= Until("wait"),
                  termAt >= 0 /\ now >= termAt + 2, SignalSent, Outcome>>
  BY <1>1 DEF SignalSent, Outcome, Until
<1>3. Outcome = "none"
  BY <1>1 DEF Outcome
<1>4. CASE \E s \in {-15, -9, 0, 1, 2} : Die(s) /\ child \in {"running", "blocked"}
  <2>1. ScriptState = "running" /\ ScriptState' \in {"fine", "failed"}
    BY <1>4 DEF ScriptState, Die
  <2> QED
    BY <1>2, <1>3, <2>1 DEF Limit!Next, Limit!End
<1>5. CASE Write \/ PipeClosed
  <2>1. UNCHANGED ScriptState
    BY <1>5 DEF ScriptState, Write, PipeClosed
  <2> QED
    BY <1>2, <2>1 DEF Limit!vars
<1> QED
  BY <1>4, <1>5 DEF ScriptStep, Exit, DieOfTerm, DieOfKill

\* A verdict is a decision on a script that is over, or a cut.
LEMMA VerdictAtLimit ==
    ASSUME PInv, NEW v \in Verdicts \ {"none"}, Decide(v), verdict = "none",
           v = "alarm" => case.unkillable \/ case.keepsPipe,
           v # "alarm" => child \in {"none", "dead"},
           v = "accept" /\ child = "dead" => status = 0
    PROVE  [Limit!Next]_(Limit!vars)
<1>1. /\ UNCHANGED <<case, now, child, status, termAt, killAt>>
      /\ verdict' = v
  BY DEF Decide, script
<1>2. UNCHANGED <<case.unkillable \/ case.keepsPipe, now >= Until("wait"),
                  termAt >= 0 /\ now >= termAt + 2, SignalSent, ScriptState>>
  BY <1>1 DEF SignalSent, ScriptState, Until
<1>3. Outcome = "none" /\ (Outcome' = "cut" <=> v = "alarm")
      /\ (Outcome' = "accepted" <=> v = "accept")
      /\ (v # "alarm" => Outcome' \in {"accepted", "refused"})
  BY <1>1 DEF Outcome, Verdicts
<1>4. CASE v = "alarm"
  BY <1>2, <1>3, <1>4 DEF Limit!Next, Limit!Cut
<1>5. CASE v # "alarm"
  <2>1. ScriptState # "running" /\ (v = "accept" => ScriptState # "failed")
    BY <1>5 DEF ScriptState
  <2> QED
    BY <1>2, <1>3, <1>5, <2>1 DEF Limit!Next, Limit!Decide
<1> QED
  BY <1>4, <1>5

\* The start of the script, the sleeps and signals, and the reading of its
\* output: a signal is sent when its time has come.
LEMMA HookAtLimit == PInv /\ HookStep => [Limit!Next]_(Limit!vars)
<1> SUFFICES ASSUME PInv, HookStep PROVE [Limit!Next]_(Limit!vars)
  OBVIOUS
<1> USE PelogAssumption
<1>0. /\ now \in Nat /\ wake \in Nat /\ Alarm \in Nat /\ termAt \in Int /\ killAt \in Int
      /\ child \in {"none", "running", "blocked", "dead"}
  BY DEF PInv, TypeOK
<1>1. CASE Examine
  <2>1. pc = "examine" /\ child = "none" /\ verdict = "none"
    BY <1>1 DEF Examine, PInv, ChildInv
  <2>2. CASE Decide("accept") \/ Decide("rerun")
    BY <2>1, <2>2, VerdictAtLimit DEF Verdicts
  <2>3. CASE ~(Decide("accept") \/ Decide("rerun"))
    <3>1. /\ child' = "running"
          /\ UNCHANGED <<case, now, termAt, killAt, verdict>>
      BY <1>1, <2>3 DEF Examine
    <3>2. UNCHANGED <<case.unkillable \/ case.keepsPipe, now >= Until("wait"),
                      termAt >= 0 /\ now >= termAt + 2, SignalSent, Outcome>>
      BY <3>1 DEF SignalSent, Outcome, Until
    <3>3. ScriptState = "none" /\ ScriptState' = "running" /\ Outcome = "none"
      BY <2>1, <3>1 DEF ScriptState, Outcome
    <3> QED
      BY <3>2, <3>3 DEF Limit!Next, Limit!Run
  <2> QED
    BY <2>2, <2>3
<1>2. CASE CollectOutput \/ Collected \/ \E loop \in Loops : Poll(loop)
  <2>1. UNCHANGED <<case, now, termAt, killAt, verdict, ScriptState>>
    BY <1>2 DEF CollectOutput, Collected, Poll, ScriptState, script
  <2>2. UNCHANGED <<case.unkillable \/ case.keepsPipe, now >= Until("wait"),
                    termAt >= 0 /\ now >= termAt + 2, SignalSent, Outcome>>
    BY <2>1 DEF SignalSent, Outcome, Until
  <2> QED
    BY <2>1, <2>2 DEF Limit!vars
<1>3. CASE Conclude
  <2>1. PICK v \in Verdicts \ {"none", "alarm"} : Decide(v) /\ (v = "accept" => status = 0)
    <3>1. status \in {-15, -9, 0, 1, 2}
      BY DEF PInv, TypeOK
    <3>2. /\ VerdictOf(case.event, status) \in {"accept", "delete", "rerun"}
          /\ VerdictOf(case.event, status) = "accept" => status = 0
      BY <3>1, CaseTyped DEF VerdictOf, PInv
    <3> QED
      BY <1>3, <3>2 DEF Conclude, Verdicts
  <2>2. child = "dead" /\ verdict = "none"
    BY <1>3 DEF Conclude, PInv, ChildInv
  <2> QED
    BY <2>1, <2>2, VerdictAtLimit
<1>4. ASSUME NEW loop \in Loops, LeaveLoop(loop)
      PROVE  [Limit!Next]_(Limit!vars)
  <2>1. /\ pc = loop /\ wake <= now /\ now <= wake
        /\ UNCHANGED <<case, now, child, status, verdict>>
    BY <1>4 DEF LeaveLoop, script, PInv, ClockInv
  <2>2. UNCHANGED <<case.unkillable \/ case.keepsPipe, now >= Until("wait"),
                    ScriptState, Outcome>>
    BY <2>1 DEF ScriptState, Outcome, Until
  <2>3. child # "none" /\ verdict = "none"
    BY <2>1 DEF Loops, PInv, ChildInv
  <2>4. CASE child # "dead" /\ loop = "wait"
    <3>1. now >= Until("wait") /\ termAt = -1 /\ killAt = -1 /\ termAt' = now /\ killAt' = killAt
      BY <1>4, <2>1, <2>4 DEF LeaveLoop, PInv, SignalInv
    <3>2. SignalSent = "none" /\ SignalSent' = "term"
      BY <1>0, <3>1 DEF SignalSent
    <3>3. /\ ~(termAt >= 0 /\ now >= termAt + 2)
          /\ ~(termAt >= 0 /\ now >= termAt + 2)'
      BY <1>0, <2>1, <3>1
    <3>4. ScriptState = "running"
      BY <1>0, <2>3, <2>4 DEF ScriptState
    <3> QED
      BY <2>2, <3>1, <3>2, <3>3, <3>4 DEF Limit!Next, Limit!Warn
  <2>5. CASE child # "dead" /\ loop = "term"
    <3>1. /\ now >= Until("term") /\ killAt = -1 /\ termAt' = termAt /\ killAt' = now
          /\ 0 <= termAt /\ termAt <= Alarm - 9
      BY <1>4, <2>1, <2>5 DEF LeaveLoop, PInv, SignalInv
    <3>2. now >= termAt + 2 /\ now' = now
      BY <1>0, <2>1, <3>1 DEF Until
    <3>3. SignalSent = "term" /\ SignalSent' = "kill"
      BY <1>0, <2>1, <3>1 DEF SignalSent
    <3>4. ScriptState = "running"
      BY <1>0, <2>3, <2>5 DEF ScriptState
    <3> QED
      BY <2>2, <3>1, <3>2, <3>3, <3>4 DEF Limit!Next, Limit!Kill
  <2>6. CASE child = "dead" \/ loop = "kill"
    <3>1. UNCHANGED <<termAt, killAt>>
      BY <1>4, <2>6 DEF LeaveLoop
    <3>2. UNCHANGED <<termAt >= 0 /\ now >= termAt + 2, SignalSent>>
      BY <2>1, <3>1 DEF SignalSent
    <3> QED
      BY <2>2, <3>2 DEF Limit!vars
  <2> QED
    BY <2>4, <2>5, <2>6 DEF Loops
<1> QED
  BY <1>1, <1>2, <1>3, <1>4 DEF HookStep

\* Time only ever runs out.
LEMMA TickAtLimit == PInv /\ Tick => [Limit!Next]_(Limit!vars)
<1> SUFFICES ASSUME PInv, Tick PROVE [Limit!Next]_(Limit!vars)
  OBVIOUS
<1> USE PelogAssumption
<1>1. /\ now' = now + 1 /\ now \in Nat /\ Alarm \in Nat /\ termAt \in Int /\ verdict = "none"
      /\ UNCHANGED <<case, child, status, termAt, killAt, verdict>>
  BY DEF Tick, script, PInv, TypeOK, ChildInv, Loops
<1>2. UNCHANGED <<case.unkillable \/ case.keepsPipe, ScriptState, SignalSent, Outcome>>
  BY <1>1 DEF ScriptState, SignalSent, Outcome
<1>3. now >= Until("wait") => (now >= Until("wait"))'
  BY <1>1 DEF Until
<1>4. /\ termAt >= 0 /\ now >= termAt + 2 => (termAt >= 0 /\ now >= termAt + 2)'
      /\ (termAt >= 0 /\ now >= termAt + 2)' => SignalSent # "none"
  BY <1>1 DEF SignalSent
<1>5. /\ (now >= Until("wait"))' \in BOOLEAN
      /\ (termAt >= 0 /\ now >= termAt + 2)' \in BOOLEAN
  OBVIOUS
<1>6. Outcome = "none"
  BY <1>1 DEF Outcome
<1> QED
  BY <1>2, <1>3, <1>4, <1>5, <1>6 DEF Limit!Next, Limit!TimePasses

\* Hook, script, clock and alarm come to a time limit, for any alarm of at least
\* five seconds, any pipe and any configuration (run_pelog_shell).
THEOREM PelogImplementsLimit == Spec => ImplementsLimit
<1>1. Init => Limit!Init
  <2> SUFFICES ASSUME Init PROVE Limit!Init
    OBVIOUS
  <2>1. case \in Cases /\ now = 0 /\ termAt = -1 /\ killAt = -1 /\ child = "none"
        /\ verdict = "none"
    BY DEF Init
  <2>2. ScriptState = "none" /\ SignalSent = "none" /\ Outcome = "none"
    BY <2>1 DEF ScriptState, SignalSent, Outcome
  <2>3. ~(termAt >= 0 /\ now >= termAt + 2)
    BY <2>1
  <2>4. (case.unkillable \/ case.keepsPipe) \in BOOLEAN /\ (now >= Until("wait")) \in BOOLEAN
    OBVIOUS
  <2> QED
    BY <2>2, <2>3, <2>4 DEF Limit!Init
<1>2. PInv /\ [Next]_vars => [Limit!Next]_(Limit!vars)
  <2> SUFFICES ASSUME PInv, [Next]_vars PROVE [Limit!Next]_(Limit!vars)
    OBVIOUS
  <2>1. CASE AlarmRings
    <3>1. now = Alarm /\ verdict = "none" /\ Decide("alarm")
      BY <2>1 DEF AlarmRings
    <3>2. ~(now <= Alarm - 2)
      BY <3>1, PelogAssumption
    <3>3. case.unkillable \/ case.keepsPipe
      BY <3>2 DEF PInv, KillableInv
    <3> QED
      BY <3>1, <3>3, VerdictAtLimit DEF Verdicts
  <2>2. CASE UNCHANGED vars
    <3>1. UNCHANGED <<case, now, child, status, termAt, killAt, verdict>>
      BY <2>2 DEF vars, script
    <3>2. UNCHANGED <<case.unkillable \/ case.keepsPipe, now >= Until("wait"),
                      termAt >= 0 /\ now >= termAt + 2, ScriptState, SignalSent, Outcome>>
      BY <3>1 DEF ScriptState, SignalSent, Outcome, Until
    <3> QED
      BY <3>2 DEF Limit!vars
  <2> QED
    BY <2>1, <2>2, HookAtLimit, ScriptAtLimit, TickAtLimit DEF Next, Done
<1> QED
  BY <1>1, <1>2, PelogInvariance, PTL DEF Spec, ImplementsLimit, Limit!Spec

\* The abstract time limit keeps its promise.
LEMMA LimitKeeps == Limit!Spec => []Limit!LimitKept
<1> DEFINE Kept == Limit!LimitKept /\ ScriptState \in {"none", "running", "fine", "failed"}
<1>1. Limit!Init => Kept
  BY DEF Limit!Init, Limit!LimitKept
<1>2. Kept /\ [Limit!Next]_(Limit!vars) => Kept'
  <2> SUFFICES ASSUME Kept, [Limit!Next]_(Limit!vars) PROVE Kept'
    OBVIOUS
  <2> USE DEF Limit!LimitKept
  <2>1. CASE Limit!Run
    BY <2>1 DEF Limit!Run
  <2>2. CASE Limit!End
    BY <2>2 DEF Limit!End
  <2>3. CASE Limit!TimePasses
    BY <2>3 DEF Limit!TimePasses
  <2>4. CASE Limit!Warn
    BY <2>4 DEF Limit!Warn
  <2>5. CASE Limit!Kill
    BY <2>5 DEF Limit!Kill
  <2>6. CASE Limit!Decide
    BY <2>6 DEF Limit!Decide
  <2>7. CASE Limit!Cut
    BY <2>7 DEF Limit!Cut
  <2>8. CASE UNCHANGED Limit!vars
    BY <2>8 DEF Limit!vars
  <2> QED
    BY <2>1, <2>2, <2>3, <2>4, <2>5, <2>6, <2>7, <2>8 DEF Limit!Next
<1> QED
  BY <1>1, <1>2, PTL DEF Limit!Spec

\* And so does the hook, by way of it: a script that was sent a signal had had its
\* time, one that was killed its grace, and the job is accepted on a script that
\* ended with 0 or on none (run_pelog_shell).
THEOREM HookKeepsLimit == Spec => []Limit!LimitKept
BY PelogImplementsLimit, LimitKeeps DEF ImplementsLimit
=============================================================================
