------------------------------ MODULE NodeLease ------------------------------
(***************************************************************************)
(* What the autoscaler promises for the instances of a cluster, without    *)
(* its loops, timeouts and copies: an instance is handed back in a step of *)
(* its own, on the strength of one earlier look that found its node closed *)
(* and free, and PBS, the operators and the instances move in between.     *)
(* PbsAutoscale is shown to implement this in AutoscaleLease.              *)
(***************************************************************************)
CONSTANT Node

VARIABLES
    known,     \* nodes in the PBS node table
    offline,   \* of these, the ones PBS starts nothing on
    busy,      \* nodes running a job
    up,        \* nodes whose mom PBS hears
    here,      \* nodes with an instance
    quiet,     \* nodes the last look found closed and free, none put back since
    excused,   \* nodes the look excuses: unreachable, or reopened by an operator
    leaving    \* nodes being handed back

vars == <<known, offline, busy, up, here, quiet, excused, leaving>>

Init ==
    /\ known = {} /\ offline = {} /\ busy = {}
    /\ up = {} /\ here = {}
    /\ quiet = {} /\ excused = {} /\ leaving = {}

-----------------------------------------------------------------------------
(* Jobs, moms and instances. *)

Start(n) ==
    /\ n \in (known \ (offline \cup busy)) \cap up
    /\ busy' = busy \cup {n}
    /\ UNCHANGED <<known, offline, up, here, quiet, excused, leaving>>

Finish(n) ==
    /\ busy' = busy \ {n}
    /\ UNCHANGED <<known, offline, up, here, quiet, excused, leaving>>

\* Only a node that has an instance is heard.
Contact(n) ==
    /\ n \in here
    /\ up' = up \cup {n}
    /\ UNCHANGED <<known, offline, busy, here, quiet, excused, leaving>>

LoseContact(n) ==
    /\ up' = up \ {n}
    /\ UNCHANGED <<known, offline, busy, here, quiet, excused, leaving>>

Arrive(S) ==
    /\ here' = here \cup S
    /\ UNCHANGED <<known, offline, busy, up, quiet, excused, leaving>>

\* An instance goes without being handed back.
Depart(n) ==
    /\ here' = here \ {n}
    /\ up' = up \ {n}
    /\ UNCHANGED <<known, offline, busy, quiet, excused, leaving>>

-----------------------------------------------------------------------------
(* The node table. *)

\* The cluster opens a node only if it does not count on it being quiet.
Open(n) ==
    /\ n \notin quiet \cup leaving
    /\ known' = known \cup {n}
    /\ offline' = offline \ {n}
    /\ UNCHANGED <<busy, up, here, quiet, excused, leaving>>

\* An operator may open or create any node at any time, and answers for it.
Reopen(n) ==
    /\ known' = known \cup {n}
    /\ offline' = offline \ {n}
    /\ quiet' = quiet \ {n}
    /\ excused' = excused \cup {n}
    /\ UNCHANGED <<busy, up, here, leaving>>

Close(n) ==
    /\ n \in known
    /\ offline' = offline \cup {n}
    /\ UNCHANGED <<known, busy, up, here, quiet, excused, leaving>>

Drop(n) ==
    /\ n \in known \ busy
    /\ known' = known \ {n}
    /\ offline' = offline \ {n}
    /\ up' = up \ {n}
    /\ UNCHANGED <<busy, here, quiet, excused, leaving>>

-----------------------------------------------------------------------------
(* Handing instances back. *)

\* Some closed and free nodes, and some that nobody hears, are taken note of.
Look ==
    /\ leaving = {}
    /\ quiet' \subseteq quiet \cup (offline \ busy)
    /\ excused' \subseteq excused \cup (Node \ up)
    /\ UNCHANGED <<known, offline, busy, up, here, leaving>>

\* The process ends, done or not.
Forget ==
    /\ quiet' = {} /\ excused' = {} /\ leaving' = {}
    /\ UNCHANGED <<known, offline, busy, up, here>>

\* The look may be long ago: this step does not read offline or busy.
Release(S) ==
    /\ leaving = {}
    /\ S \subseteq quiet \cup excused \cup (Node \ known)
    /\ leaving' = S
    /\ UNCHANGED <<known, offline, busy, up, here, quiet, excused>>

Take ==
    /\ here' = here \ leaving
    /\ up' = up \ leaving
    /\ leaving' = {}
    /\ UNCHANGED <<known, offline, busy, quiet, excused>>

Next ==
    \/ \E n \in Node :
         \/ Finish(n) \/ Start(n) \/ Contact(n) \/ LoseContact(n) \/ Depart(n)
         \/ Open(n) \/ Reopen(n) \/ Close(n) \/ Drop(n)
    \/ Look \/ Forget \/ Take
    \/ \E S \in SUBSET Node : Arrive(S) \/ Release(S)

Spec == Init /\ [][Next]_vars

-----------------------------------------------------------------------------
(* Properties. *)

\* No instance is handed back under a job, unless the look excused it: what the
\* two phases of draining (_handle_draining of driver.py) are for.
LeavesIdle == leaving \cap busy \subseteq excused

\* What the look found stays so until it is acted upon.
Barred(n) == n \notin known \/ n \in offline
LInv ==
    /\ busy \subseteq known
    /\ known \subseteq Node
    /\ offline \subseteq known
    /\ quiet \cup leaving \subseteq Node
    /\ \A n \in quiet \cup (leaving \ excused) : Barred(n) /\ n \notin busy
=============================================================================
