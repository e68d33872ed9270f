------------------------------- MODULE Pelog -------------------------------
(***************************************************************************)
(* run_pelog_shell.py: the hook that runs a shell prologue or epilogue, for *)
(* one job on one host, against the clock of the hook's alarm.  Time is     *)
(* counted in half seconds, the shortest sleep of the hook.                 *)
(*                                                                          *)
(* Covered: the checks before the script runs, the three waiting loops and  *)
(* the signals between them, communicate(), the verdict, the alarm of PBS;  *)
(* scripts that exit, write more than a pipe takes, catch or survive a      *)
(* signal or leave a child that keeps the pipe open.  Not covered: the      *)
(* arguments and the environment of the script, Windows.  Commands of the   *)
(* hook other than sleeping and waiting are taken to need no time.          *)
(***************************************************************************)
EXTENDS Integers

CONSTANTS
    Alarm,          \* hook_alarm, in half seconds
    PipeSize,       \* writes a pipe takes before it blocks the writer
    EnableParallel, \* ENABLE_PARALLEL of run_pelog_shell.ini
    DefaultAction   \* DEFAULT_ACTION of run_pelog_shell.ini

ASSUME PelogAssumption ==
    /\ Alarm \in Nat
    /\ Alarm >= 10          \* 5 seconds: the first loop ends as many before it
    /\ PipeSize \in Nat
    /\ EnableParallel \in BOOLEAN
    /\ DefaultAction \in {"rerun", "delete"}

\* A case: which moms and scripts there are, and what the script is like.
\* direct: what it prints goes to sys.stdout or sys.stderr, because the job is
\* interactive, or because the mom is a sister and it prints errors.
Cases == [event : {"prologue", "epilogue"}, mom : {"superior", "sister"},
          script : {"missing", "mode", "noshell", "ok"}, direct : BOOLEAN,
          unkillable : BOOLEAN, keepsPipe : BOOLEAN]

VARIABLES
    case,     \* the case this hook meets
    pc,       \* where the hook is
    now,      \* half seconds since start_time
    wake,     \* when the hook's sleep ends
    child,    \* "none", "running", "blocked" in a write, or "dead"
    status,   \* exit status of the script, the negative of a signal
    pipe,     \* writes not read yet
    printed,  \* whether the script wrote anything
    held,     \* whether somebody but the script has the pipe open
    termAt, killAt,   \* when the signals were sent, -1 for never
    verdict   \* what becomes of the job

script == <<child, status, pipe, printed, held>>
vars == <<case, pc, now, wake, child, status, pipe, printed, held, termAt, killAt, verdict>>

Loops    == {"wait", "term", "kill"}
Verdicts == {"none", "accept", "rerun", "delete", "error", "alarm"}

TypeOK ==
    /\ case \in Cases
    /\ pc \in Loops \cup {"examine", "collect", "verdict", "done"}
    /\ now \in 0..Alarm
    /\ wake \in 0..(Alarm + 2)
    /\ child \in {"none", "running", "blocked", "dead"}
    /\ status \in {-15, -9, 0, 1, 2}
    /\ pipe \in 0..PipeSize
    /\ printed \in BOOLEAN
    /\ held \in BOOLEAN
    /\ termAt \in -1..Alarm
    /\ killAt \in -1..Alarm
    /\ verdict \in Verdicts

Init ==
    /\ case \in Cases
    /\ pc = "examine" /\ now = 0 /\ wake = 0
    /\ child = "none" /\ status = 0 /\ pipe = 0 /\ printed = FALSE /\ held = FALSE
    /\ termAt = -1 /\ killAt = -1
    /\ verdict = "none"

-----------------------------------------------------------------------------
(* The script and its children. *)

Write ==
    /\ child = "running"
    /\ printed' = TRUE
    /\ IF pipe < PipeSize THEN pipe' = pipe + 1 /\ UNCHANGED child
                          ELSE child' = "blocked" /\ UNCHANGED pipe
    /\ UNCHANGED <<case, pc, now, wake, status, held, termAt, killAt, verdict>>

Die(s) ==
    /\ child' = "dead"
    /\ status' = s
    /\ held' = case.keepsPipe
    /\ UNCHANGED <<case, pc, now, wake, pipe, printed, termAt, killAt, verdict>>

\* Of its own accord, a handler of SIGTERM included.
Exit == child = "running" /\ \E s \in 0..2 : Die(s)

DieOfTerm ==
    /\ child \in {"running", "blocked"}
    /\ termAt >= 0
    /\ Die(-15)

DieOfKill ==
    /\ child \in {"running", "blocked"}
    /\ killAt >= 0
    /\ ~case.unkillable
    /\ Die(-9)

PipeClosed ==
    /\ held
    /\ held' = FALSE
    /\ UNCHANGED <<case, pc, now, wake, child, status, pipe, printed, termAt, killAt, verdict>>

-----------------------------------------------------------------------------
(* The hook. *)

Decide(v) ==
    /\ verdict' = v
    /\ pc' = "done"
    /\ UNCHANGED <<case, now, wake, script, termAt, killAt>>

\* Which script, whether it may run, and by which interpreter.
Skipped == \/ case.mom = "sister" /\ ~EnableParallel
           \/ case.script = "missing"

Examine ==
    /\ pc = "examine"
    /\ \/ Skipped /\ Decide("accept")
       \/ ~Skipped /\ case.script \in {"mode", "noshell"} /\ Decide("rerun")
       \/ /\ ~Skipped /\ case.script = "ok"
          /\ pc' = "wait"
          /\ child' = "running"
          /\ UNCHANGED <<case, now, wake, status, pipe, printed, held, termAt, killAt, verdict>>

\* Mutant: the script may run until the alarm itself.
UntilNoReserve(loop) ==
    CASE loop = "wait" -> Alarm
      [] loop = "term" -> Alarm
      [] loop = "kill" -> Alarm
\* Mutant: a terminated script is killed at once.
UntilNoGrace(loop) ==
    CASE loop = "wait" -> Alarm - 10
      [] loop = "term" -> Alarm - 10
      [] loop = "kill" -> Alarm - 2
\* When each loop ends: 5, 3 and 1 seconds before the alarm.
Until(loop) ==
    CASE loop = "wait" -> Alarm - 10
      [] loop = "term" -> Alarm - 6
      [] loop = "kill" -> Alarm - 2

Pause(loop) == IF loop = "wait" THEN 2 ELSE 1

Poll(loop) ==
    /\ pc = loop
    /\ wake <= now
    /\ child # "dead"
    /\ now < Until(loop)
    /\ wake' = now + Pause(loop)
    /\ UNCHANGED <<case, pc, now, script, termAt, killAt, verdict>>

\* The loop is over; unless the script is dead the next signal is sent.
LeaveLoop(loop) ==
    /\ pc = loop
    /\ wake <= now
    /\ child = "dead" \/ now >= Until(loop)
    /\ UNCHANGED <<case, now, wake, script, verdict>>
    /\ \/ /\ child # "dead" /\ loop = "wait"
          /\ pc' = "term"
          /\ termAt' = now
          /\ UNCHANGED killAt
       \/ /\ child # "dead" /\ loop = "term"
          /\ pc' = "kill"
          /\ killAt' = now
          /\ UNCHANGED termAt
       \/ /\ child = "dead" \/ loop = "kill"
          /\ pc' = "collect"
          /\ UNCHANGED <<termAt, killAt>>

\* communicate() reads on, so that a blocked script can go on writing, and
\* returns when the script is dead and nobody has its pipe open.
CollectOutput ==
    /\ pc = "collect"
    /\ pipe > 0 \/ child = "blocked"
    /\ pipe' = 0
    /\ child' = IF child = "blocked" THEN "running" ELSE child
    /\ UNCHANGED <<case, pc, now, wake, status, printed, held, termAt, killAt, verdict>>

\* Mutant: the output is taken without waiting for the script.
CollectedEarly ==
    /\ pc = "collect"
    /\ pipe = 0
    /\ pc' = "verdict"
    /\ UNCHANGED <<case, now, wake, script, termAt, killAt, verdict>>

Collected ==
    /\ pc = "collect"
    /\ child = "dead"
    /\ ~held
    /\ pipe = 0
    /\ pc' = "verdict"
    /\ UNCHANGED <<case, now, wake, script, termAt, killAt, verdict>>

\* Mutant: the status itself is handed to rejectjob.
VerdictOfStatus(event, s) == IF s = 0 THEN "accept" ELSE "reject"
\* Mutant: the negative status of a script that a signal ended is no failure.
VerdictOfCode(event, s) ==
    CASE s <= 0 -> "accept"
      [] s > 0 /\ event = "prologue" -> IF s = 1 THEN "delete" ELSE "rerun"
      [] s > 0 /\ event = "epilogue" -> IF s = 2 THEN "rerun" ELSE "delete"
\* The exit codes of the PBS Administrator's Guide.
VerdictOf(event, s) ==
    CASE s = 0 -> "accept"
      [] s # 0 /\ event = "prologue" -> IF s = 1 THEN "delete" ELSE "rerun"
      [] s # 0 /\ event = "epilogue" -> IF s = 2 THEN "rerun" ELSE "delete"

\* sys.stdout and sys.stderr take no bytes: output that goes there raises
\* TypeError, and trace_hook another exception on the way out.
Conclude ==
    /\ pc = "verdict"
    /\ Decide(IF case.direct /\ printed THEN "error"
              ELSE VerdictOf(case.event, status))

-----------------------------------------------------------------------------
(* Time. *)

\* A signal takes effect before the next half second, if it ever does.
Dying == child \in {"running", "blocked"} /\ killAt >= 0 /\ ~case.unkillable

Tick ==
    /\ now < Alarm
    /\ ~Dying
    /\ \/ pc \in Loops /\ wake > now
       \/ pc = "collect" /\ pipe = 0 /\ (child \in {"running", "blocked"} \/ held)
    /\ now' = now + 1
    /\ UNCHANGED <<case, pc, wake, script, termAt, killAt, verdict>>

\* PBS ends a hook whose alarm has come.
AlarmRings ==
    /\ now = Alarm
    /\ verdict = "none"
    /\ Decide("alarm")

Done == verdict # "none" /\ UNCHANGED vars

HookStep ==
    \/ Examine \/ CollectOutput \/ Collected \/ Conclude
    \/ \E loop \in Loops : Poll(loop) \/ LeaveLoop(loop)

ScriptStep ==
    /\ verdict = "none"
    /\ Write \/ Exit \/ DieOfTerm \/ DieOfKill \/ PipeClosed

Next == HookStep \/ ScriptStep \/ Tick \/ AlarmRings \/ Done

Spec == Init /\ [][Next]_vars

-----------------------------------------------------------------------------
(* The hook as the enforcement of a time limit. *)

ScriptState ==
    CASE child = "none" -> "none"
      [] child \in {"running", "blocked"} -> "running"
      [] child = "dead" -> IF status = 0 THEN "fine" ELSE "failed"

SignalSent == IF killAt >= 0 THEN "kill" ELSE IF termAt >= 0 THEN "term" ELSE "none"

Outcome ==
    CASE verdict = "none" -> "none"
      [] verdict = "accept" -> "accepted"
      [] verdict = "alarm" -> "cut"
      [] OTHER -> "refused"

\* Five seconds before the alarm a script has had its time, and a second is the
\* grace it is given.
Limit == INSTANCE TimeLimit WITH
    defiant <- case.unkillable \/ case.keepsPipe, script <- ScriptState,
    spent <- now >= Until("wait"), graced <- termAt >= 0 /\ now >= termAt + 2,
    signal <- SignalSent, outcome <- Outcome

-----------------------------------------------------------------------------
(* Properties. *)

\* The hook comes to its own verdict before PBS cuts it off, unless the script
\* cannot be killed or its output pipe is held open: the three deadlines leave
\* enough time for one another.
DecidedInTime ==
    verdict = "alarm" => case.unkillable \/ case.keepsPipe

\* A script that is killed had at least a second to heed SIGTERM.
GraceGiven == killAt >= 0 => killAt >= termAt + 2

\* No verdict on a job while its script is still running.
NoScriptLeftRunning ==
    verdict \in {"accept", "rerun", "delete", "error"} => child \in {"none", "dead"}

\* "The hook will kill the prologue/epilogue ... At this point the job will be
\* requeued/deleted depending on the value of DEFAULT_ACTION".
TimeoutTakesDefaultAction ==
    termAt >= 0 /\ verdict \notin {"none", "alarm", "error"} => verdict = DefaultAction

\* Loops, signals, pipe and alarm come to a time limit as TimeLimit describes
\* it: no signal to a script whose time is not over, no kill without a warning
\* and a second after it, no job accepted on a script that failed or was ended
\* by a signal, and no alarm but for a script that defies the kill.
ImplementsLimit == Limit!Spec
-----------------------------------------------------------------------------
(***************************************************************************)
(* The inductive invariant behind DecidedInTime, GraceGiven and            *)
(* NoScriptLeftRunning (proved in Pelog_proofs).                           *)
(***************************************************************************)
\* A sleep begun before a deadline ends at most half a second too late; the
\* clock does not pass the end of the sleep.
ClockInv ==
    /\ pc = "examine" => now = 0 /\ wake = 0
    /\ pc \in Loops => now <= wake
    /\ pc = "wait" => wake <= Alarm - 9
    /\ pc = "term" => wake <= Alarm - 6
    /\ pc = "kill" => wake <= Alarm - 2

SignalInv ==
    /\ pc \in {"examine", "wait"} => termAt = -1
    /\ pc \in {"examine", "wait", "term"} => killAt = -1
    /\ pc = "term" => 0 <= termAt /\ termAt <= Alarm - 9
    /\ pc = "kill" => killAt >= 0
    /\ pc = "collect" => child = "dead" \/ killAt >= 0
    /\ GraceGiven

ChildInv ==
    /\ pc = "examine" => child = "none"
    /\ pc \in Loops => child # "none"
    /\ pc = "verdict" => child = "dead"
    /\ pc = "done" <=> verdict # "none"
    /\ NoScriptLeftRunning

\* Nothing is waited for after a kill that works.
KillableInv == ~case.unkillable /\ ~case.keepsPipe => ~held /\ now <= Alarm - 2

PInv == TypeOK /\ ClockInv /\ SignalInv /\ ChildInv /\ KillableInv
=============================================================================
