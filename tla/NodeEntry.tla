------------------------------ MODULE NodeEntry ------------------------------
(***************************************************************************)
(* One entry of the PBS node table, as its users see it: what the entry     *)
(* shows of a node appears at once and stays until the entry goes, nobody   *)
(* but an operator opens an entry that shows nothing, and an entry with a   *)
(* job does not go.  NodeHealth implements this with a join of many         *)
(* commands that may die between any two; PbsAutoscale does for each node.  *)
(***************************************************************************)
CONSTANTS
    Image,      \* what a joined entry may show
    Blank,      \* what it shows before it is joined
    Operator    \* whether operators open and close entries

VARIABLES
    present,    \* whether the table has the entry
    shown,      \* what the entry shows
    closed,     \* whether it is marked offline
    heard,      \* whether the server hears its mom
    job         \* whether a job runs on it

vars == <<present, shown, closed, heard, job>>

Init == ~present /\ shown = Blank /\ ~closed /\ ~heard /\ ~job

Create ==
    /\ ~present
    /\ present' = TRUE
    /\ UNCHANGED <<shown, closed, heard, job>>

Join ==
    /\ present
    /\ shown = Blank
    /\ shown' \in Image
    /\ UNCHANGED <<present, closed, heard, job>>

Close ==
    /\ present
    /\ closed' = TRUE
    /\ UNCHANGED <<present, shown, heard, job>>

Open ==
    /\ present
    /\ shown # Blank \/ Operator
    /\ closed' = FALSE
    /\ UNCHANGED <<present, shown, heard, job>>

Drop ==
    /\ present /\ ~job
    /\ present' = FALSE /\ shown' = Blank /\ closed' = FALSE /\ heard' = FALSE
    /\ UNCHANGED job

\* A mom is heard through its entry only, and may be lost.
MomTurns ==
    /\ present \/ heard
    /\ heard' = ~heard
    /\ UNCHANGED <<present, shown, closed, job>>

StartJob ==
    /\ present /\ ~closed /\ heard /\ ~job
    /\ job' = TRUE
    /\ UNCHANGED <<present, shown, closed, heard>>

EndJob ==
    /\ job
    /\ job' = FALSE
    /\ UNCHANGED <<present, shown, closed, heard>>

Next == Create \/ Join \/ Close \/ Open \/ Drop \/ MomTurns \/ StartJob \/ EndJob

Spec == Init /\ [][Next]_vars

-----------------------------------------------------------------------------
(* Properties. *)

\* A job that runs has an entry.
JobsHaveEntries == job => present

\* The entry of a job that goes on stays, and goes on showing what it showed
\* when the job was placed on it.
JobKeepsImage ==
    [][job /\ job' => present' /\ (shown # Blank => shown' = shown)]_vars
=============================================================================
