------------------------------ MODULE TimeLimit ------------------------------
(***************************************************************************)
(* A script that may hold up a job, under a time limit, as its author and   *)
(* the owner of the job may count on it: it has its time to itself, is told *)
(* when that is over, has a grace to end by itself, and is killed only      *)
(* then; the job is accepted on the word of a script that ended well, or of *)
(* none; and the limit has to be enforced from outside only on a script     *)
(* that defies a kill.  Pelog implements this with three loops that sleep.  *)
(***************************************************************************)
VARIABLES
    defiant,  \* whether the script survives SIGKILL, or something it left does
    script,   \* "none", "running", or how it ended: "fine", "failed"
    spent,    \* whether its time is over
    graced,   \* whether the grace after the warning is over
    signal,   \* the last one sent: "none", "term", "kill"
    outcome   \* "none", "accepted", "refused", "cut"

vars == <<defiant, script, spent, graced, signal, outcome>>

\* The limit may be so short that there is no time at all.
Init ==
    /\ defiant \in BOOLEAN
    /\ script = "none"
    /\ spent \in BOOLEAN
    /\ ~graced
    /\ signal = "none"
    /\ outcome = "none"

Run ==
    /\ script = "none"
    /\ outcome = "none"
    /\ script' = "running"
    /\ UNCHANGED <<defiant, spent, graced, signal, outcome>>

End ==
    /\ script = "running"
    /\ outcome = "none"
    /\ script' \in {"fine", "failed"}
    /\ UNCHANGED <<defiant, spent, graced, signal, outcome>>

TimePasses ==
    /\ outcome = "none"
    /\ spent' \in BOOLEAN /\ (spent => spent')
    /\ graced' \in BOOLEAN /\ (graced => graced')
    /\ graced' => signal # "none"
    /\ UNCHANGED <<defiant, script, signal, outcome>>

Warn ==
    /\ script = "running" /\ spent /\ signal = "none"
    /\ signal' = "term"
    /\ UNCHANGED <<defiant, script, spent, graced, outcome>>

Kill ==
    /\ script = "running" /\ graced /\ signal = "term"
    /\ signal' = "kill"
    /\ UNCHANGED <<defiant, script, spent, graced, outcome>>

Decide ==
    /\ outcome = "none"
    /\ script # "running"
    /\ outcome' \in {"accepted", "refused"}
    /\ outcome' = "accepted" => script # "failed"
    /\ UNCHANGED <<defiant, script, spent, graced, signal>>

Cut ==
    /\ outcome = "none"
    /\ defiant
    /\ outcome' = "cut"
    /\ UNCHANGED <<defiant, script, spent, graced, signal>>

Next == Run \/ End \/ TimePasses \/ Warn \/ Kill \/ Decide \/ Cut

Spec == Init /\ [][Next]_vars

-----------------------------------------------------------------------------
(* Properties. *)

\* The limit is kept on both sides: whoever was told to stop had had its time,
\* whoever was killed had had its grace, an accepted job has a script that ended
\* well or none, and whoever was cut off from outside defies a kill.
LimitKept ==
    /\ signal # "none" => spent
    /\ signal = "kill" => graced
    /\ outcome = "accepted" => script \in {"none", "fine"}
    /\ outcome = "cut" => defiant
=============================================================================
