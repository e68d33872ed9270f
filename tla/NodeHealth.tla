------------------------------ MODULE NodeHealth ------------------------------
(***************************************************************************)
(* cc-health-mom.sh on the instance that owns the hostname of NodeJoin: it  *)
(* looks for pbs_mom, asks the server for the entry and tells CycleCloud to *)
(* dismiss the instance if its mom has gone or its entry never gets a       *)
(* slot_type, while the installer restarts the mom, the autoscaler writes   *)
(* the entry and jobs come and go.                                          *)
(***************************************************************************)
EXTENDS NodeJoin

CONSTANT SlotType      \* the resource slot_type

\* generate_autoscale_json.sh gives every node a slot_type, its nodearray.
ASSUME HealthAssumption ==
    /\ SlotType \in Resource
    /\ \A i \in Instance : SlotType \in Defined[i]

VARIABLES
    job,      \* whether a job runs on the entry
    check,    \* where the health check is
    last,     \* STATEFILE: none, blank (no slot_type in it) or slot
    old       \* whether the instance is up for more than 8 minutes

hvars == <<vars, job, check, last, old>>

HealthTypeOK ==
    /\ TypeOK
    /\ job \in BOOLEAN
    /\ check \in {"idle", "ask", "dismiss"}
    /\ last \in {"none", "blank", "slot"}
    /\ old \in BOOLEAN

HealthInit == Init /\ job = FALSE /\ check = "idle" /\ last = "none" /\ old = FALSE

-----------------------------------------------------------------------------
(* Jobs and instances. *)

JobStarts ==
    /\ ~job /\ known /\ ~offline /\ mom = "up"
    /\ job' = TRUE
    /\ UNCHANGED <<vars, check, last, old>>

\* It ends, or the server requeues the job of a mom it lost.
JobEnds ==
    /\ job
    /\ job' = FALSE
    /\ UNCHANGED <<vars, check, last, old>>

MomDies ==
    /\ running
    /\ faults < MaxFaults
    /\ faults' = faults + 1
    /\ running' = FALSE
    /\ mom' = IF mom = "up" THEN "down" ELSE mom
    /\ UNCHANGED <<inst, made, entry, scaler, stage, attempt, found, guard,
                   job, check, last, old>>

Age ==
    /\ inst # 0
    /\ ~old
    /\ old' = TRUE
    /\ UNCHANGED <<vars, job, check, last>>

\* The disk goes with the instance, and STATEFILE with it.
InstanceGone ==
    /\ Gone
    /\ check' = "idle" /\ last' = "none" /\ old' = FALSE
    /\ UNCHANGED job

\* A step of NodeJoin; the server refuses to delete an entry with a job.
JoinStep(A) ==
    /\ A
    /\ job => known' = known
    /\ UNCHANGED <<job, check, last, old>>

RemoveRefused ==
    /\ pc = "remove"
    /\ job
    /\ pc' = IF seen = 0 THEN "idle" ELSE "join"
    /\ UNCHANGED <<inst, made, entry, mom, installer, seen, todo, faults,
                   job, check, last, old>>

-----------------------------------------------------------------------------
(* The health check. *)

\* Between the two halves of `systemctl restart pbs' there is no mom.
Restarting == stage = "retry" /\ running

\* Mutant: a mom that is not there has not started yet.
FindMomPatient ==
    /\ inst # 0
    /\ check = "idle"
    /\ running
    /\ check' = "ask"
    /\ UNCHANGED <<vars, job, last, old>>

\* pgrep.  Without a mom and without STATEFILE nothing is done.
FindMom ==
    /\ inst # 0
    /\ check = "idle"
    /\ \/ running /\ check' = "ask"
       \/ (~running \/ Restarting) /\ last # "none" /\ check' = "dismiss"
    /\ UNCHANGED <<vars, job, last, old>>

\* pbsnodes, and what its answer and the one of the last run come to.
AskServer ==
    /\ check = "ask"
    /\ \/ /\ last' = IF known /\ res[SlotType] # 0 THEN "slot" ELSE "blank"
          /\ check' = IF known /\ ~job /\ last' # "slot" /\ last # "slot" /\ old
                      THEN "dismiss" ELSE "idle"
          /\ UNCHANGED faults
       \/ /\ faults < MaxFaults
          /\ faults' = faults + 1
          /\ last' = "blank"
          /\ check' = "idle"
    /\ UNCHANGED <<inst, made, entry, mom, scaler, installer, job, old>>

\* Exit status 254: CycleCloud terminates the instance.
Dismiss == check = "dismiss" /\ InstanceGone

-----------------------------------------------------------------------------
CheckStep == FindMom \/ AskServer \/ Dismiss

HealthNext ==
    \/ CheckStep
    \/ JobStarts \/ JobEnds \/ MomDies \/ Age \/ InstanceGone \/ RemoveRefused
    \/ JoinStep(Boot) \/ JoinStep(MomUp) \/ JoinStep(MomLost)
    \/ JoinStep(Iteration) \/ JoinStep(PostDelete) \/ JoinStep(RemoveFails)
    \/ JoinStep(Abort) \/ JoinStep(Installer)

HealthSpec == HealthInit /\ [][HealthNext]_hvars

\* As in NodeJoin; CycleCloud runs the check every few minutes and jobs end.
HealthFairSpec ==
    /\ HealthSpec
    /\ WF_hvars(JoinStep(Iteration) \/ RemoveRefused)
    /\ WF_hvars(JoinStep(Installer))
    /\ WF_hvars(JoinStep(MomUp))
    /\ WF_hvars(CheckStep)
    /\ WF_hvars(JobEnds)

-----------------------------------------------------------------------------
(* The entry as the users of the table see it. *)

\* The values a joined entry shows of the instance it names.
Shown(i, values) == [owner |-> i, values |-> [r \in Defined[i] |-> values[r]]]
Unjoined == [owner |-> 0, values |-> <<>>]
EntryShown == IF ccnodeid = 0 THEN Unjoined ELSE Shown(ccnodeid, res)
Images == {Shown(i, [r \in Resource |-> Written(r, i)]) : i \in Instance}

Entry == INSTANCE NodeEntry WITH
    Image <- Images, Blank <- Unjoined, Operator <- FALSE,
    present <- known,
    shown <- EntryShown,
    closed <- offline, heard <- mom = "up"

-----------------------------------------------------------------------------
(* Properties. *)

\* A mom that died before any check saw it leaves no trace the check looks for.
DiedUnseen == stage = "done" /\ ~running /\ last = "none"

\* An instance that stays ends up serving, whatever its mom does: its entry
\* joined, online, its mom heard.  The installer and the autoscaler wait for
\* each other, mark the entry offline and online independently, die and start
\* again; and an instance whose mom died does not stay.
WatchedInstanceServes ==
    <>[](inst # 0) /\ []<>~DiedUnseen
        => <>[](known /\ ccnodeid # 0 /\ ~offline /\ mom = "up")

\* An instance that serves, with nothing decided against it.
Settled ==
    /\ inst # 0 /\ stage = "done" /\ running
    /\ known /\ ccnodeid # 0 /\ ~offline /\ mom = "up"
    /\ check # "dismiss" /\ pc \notin {"drain", "remove"}

\* Installer, autoscaler and health check are content with what they brought
\* about: an instance that serves, its job with it, is lost to a fault or to
\* CycleCloud only, and never dismissed for a slot_type, drained, removed or
\* marked offline.  This is said of verdicts still to come: the one of a check
\* that asked before the join was finished is carried out, whatever happened
\* since.
SettledStays ==
    [][Settled /\ faults' = faults /\ inst' = inst => Settled']_hvars

\* "ccnodeid is set last, so that ..." as the table shows it: a join that takes
\* one command per resource, that dies anywhere and finds what a dead one or an
\* earlier owner left, shows all the values of one instance at once; only a
\* joined entry is opened, and none is removed under a job.
ImplementsEntry == Entry!Spec

-----------------------------------------------------------------------------
(* With NInv, the inductive invariant behind ImplementsEntry. *)
EntryInv ==
    /\ pc \in {"online", "restore"} => known /\ ccnodeid # 0
    /\ pc \in {"drain", "remove"} => known
=============================================================================
