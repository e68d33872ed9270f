----------------------------- MODULE LicencePool -----------------------------
(***************************************************************************)
(* A consumable resource with limits at several owners (the server and its  *)
(* queues), as the jobs of a queue may count on it: who looks at an owner   *)
(* knows what is left there, and what is granted from then on is taken from *)
(* every owner on the path of the job, from no other, and only if all of    *)
(* them have it, while PBS goes on using and returning units.  Demand       *)
(* implements this with one counter object per owner, shared by lists.      *)
(***************************************************************************)
EXTENDS Integers

CONSTANTS
    Owner,
    Path,       \* the sets of owners a job draws on
    Unlimited,  \* the limit of an owner that has none
    Scale       \* parts of a unit

VARIABLES
    limit,      \* never changes
    used,       \* units PBS has given out
    looked,     \* owners looked at in this round
    left        \* parts still to be granted at the owners looked at, or 0

vars == <<limit, used, looked, left>>

Limited(o) == limit[o] # Unlimited

Init ==
    /\ limit \in [Owner -> Nat \cup {Unlimited}]
    /\ used = [o \in Owner |-> 0]
    /\ looked = {}
    /\ left = [o \in Owner |-> 0]

\* f changes by d at the owners of a set, and nowhere else.
Changes(f, g, S, d) == g = [o \in Owner |-> IF o \in S THEN f[o] + d ELSE f[o]]

\* PBS takes what it gives a job from all owners on a path, within their limits.
Use(p) ==
    /\ used' \in [Owner -> Nat]
    /\ \E d \in {used'[o] - used[o] : o \in p} : d >= 0 /\ Changes(used, used', p, d)
    /\ \A o \in p : Limited(o) => used'[o] <= limit[o]
    /\ UNCHANGED <<limit, looked, left>>

Return(p) ==
    /\ used' \in [Owner -> Nat]
    /\ \E d \in {used'[o] - used[o] : o \in p} : d <= 0 /\ Changes(used, used', p, d)
    /\ UNCHANGED <<limit, looked, left>>

\* Each owner is looked at once in a round.
Look(S) ==
    /\ S \cap looked = {}
    /\ looked' = looked \cup S
    /\ left' = [o \in Owner |-> IF o \in S
                                THEN IF Limited(o) THEN Scale * (limit[o] - used[o]) ELSE 0
                                ELSE left[o]]
    /\ UNCHANGED <<limit, used>>

Grant(p) ==
    /\ p \subseteq looked
    /\ left' \in [Owner -> Nat]
    /\ \E d \in {left'[o] - left[o] : o \in p} :
         d <= 0 /\ Changes(left, left', {o \in p : Limited(o)}, d)
    /\ UNCHANGED <<limit, used, looked>>

NextRound ==
    /\ looked' = {}
    /\ left' = [o \in Owner |-> 0]
    /\ UNCHANGED <<limit, used>>

Next ==
    \/ \E p \in Path : Use(p) \/ Return(p) \/ Grant(p)
    \/ \E S \in SUBSET Owner : Look(S)
    \/ NextRound

Spec == Init /\ [][Next]_vars

-----------------------------------------------------------------------------
(* Properties. *)

\* What was left at the look is only ever taken from until the round is over:
\* what PBS gets back in the meantime is not granted on the strength of it.
OnlyTaken ==
    [][\A o \in Owner :
         o \in looked /\ o \in looked' => 0 <= left'[o] /\ left'[o] <= left[o]]_vars
=============================================================================
