------------------------------- MODULE JobGate -------------------------------
(***************************************************************************)
(* What the two hooks of eq_submit_hook.py promise for the jobs of a        *)
(* server, without their lists, copies and commands: a job that still needs *)
(* its request rewritten is kept at a gate, each job is rewritten and let   *)
(* through in one step, and passing the gate does not cut a wait for        *)
(* another job.  HoldRelease implements this, wherever its hook is killed.  *)
(***************************************************************************)
CONSTANT Job

VARIABLES
    here,    \* jobs that are queued
    unfit,   \* of these, the ones whose request has still to be rewritten
    kept,    \* jobs at the gate
    waits,   \* jobs the server holds until other jobs are done
    fresh    \* jobs whose wait the gate need not know of

vars == <<here, unfit, kept, waits, fresh>>

Init == here = {} /\ unfit = {} /\ kept = {} /\ waits = {} /\ fresh = {}

\* Whatever has to be rewritten is kept from the start.
Arrive(j) ==
    /\ j \notin here
    /\ here' = here \cup {j}
    /\ \/ kept' = kept \cup {j} /\ unfit' \in {unfit, unfit \cup {j}}
       \/ UNCHANGED <<kept, unfit>>
    /\ waits' \in {waits, waits \cup {j}}
    /\ UNCHANGED fresh

Rewrite(j) ==
    /\ j \in kept \cap unfit
    /\ unfit' = unfit \ {j}
    /\ UNCHANGED <<here, kept, waits, fresh>>

LetThrough(j) ==
    /\ j \in kept \ unfit
    /\ kept' = kept \ {j}
    /\ waits' \in {waits, waits \ ({j} \cap fresh)}
    /\ UNCHANGED <<here, unfit, fresh>>

BeginWait(j) ==
    /\ j \in here \ waits
    /\ waits' = waits \cup {j}
    /\ fresh' \in {fresh, fresh \cup {j}}
    /\ UNCHANGED <<here, unfit, kept>>

EndWait(j) ==
    /\ j \in waits
    /\ waits' = waits \ {j}
    /\ UNCHANGED <<here, unfit, kept, fresh>>

Leave(j) ==
    /\ j \in here
    /\ here' = here \ {j}
    /\ unfit' = unfit \ {j}
    /\ kept' = kept \ {j}
    /\ waits' = waits \ {j}
    /\ UNCHANGED fresh

\* The gate knows of every wait from its next look on.
Look == fresh' = {} /\ UNCHANGED <<here, unfit, kept, waits>>

Next ==
    \/ Look
    \/ \E j \in Job : \/ Arrive(j) \/ Rewrite(j) \/ LetThrough(j)
                      \/ BeginWait(j) \/ EndWait(j) \/ Leave(j)

Spec == Init /\ [][Next]_vars

-----------------------------------------------------------------------------
(* Properties. *)

\* Nothing that has to be rewritten is past the gate (hold_on_submit and
\* periodic_release_hook taken together).
NothingUnfitPasses == unfit \subseteq kept
=============================================================================
