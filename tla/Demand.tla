------------------------------- MODULE Demand -------------------------------
(***************************************************************************)
(* How the autoscaler turns what PBS says into demand: the shared           *)
(* resources of the server and of the queues (parser.parse_resource_state), *)
(* the queued jobs with the chunks of their select (driver.parse_jobs), and *)
(* the promises made to them one after the other (calculate_demand).  The   *)
(* four commands that read PBS run one after the other while PBS goes on    *)
(* starting and ending jobs.                                                *)
(*                                                                          *)
(* Resources: lic is consumed at the server or a queue (flag q), site is a  *)
(* value of the server or a queue (no flag), ncpus and ngpus are consumed   *)
(* on a host (flag nh).  Placing a chunk on nodes is the scale library's    *)
(* business: it places any number of the slots the shared resources allow.  *)
(* Placement groups, exclusive use and packing are left to it as well.      *)
(* rvalue / nodect is a float in the code; here amounts of lic are counted  *)
(* in parts of 1/Scale and exact.                                           *)
(***************************************************************************)
EXTENDS Integers, Sequences

CONSTANTS
    Job,        \* job ids, numbers: qstat lists them in this order
    Queue,
    Server,
    Requests,   \* what jobs ask for
    Settings,   \* what the administrator configured
    Scheduled,  \* the resources: line of sched_config
    MaxKinds,   \* kinds of chunks in a select
    MaxSlots,   \* nodect of the largest job
    Scale

Owner == Queue \cup {Server}
Kinds == 1..MaxKinds
Unset == -1

\* A chunk with 0 of a resource does not mention it.
Chunk   == [count : 1..MaxSlots, ncpus : Nat, ngpus : Nat]
\* The Resource_List PBS makes of a request: nodect and the totals; and the
\* schedselect.
Request == [queue : Queue, array : BOOLEAN, chunks : Seq(Chunk),
            nodect : 1..MaxSlots, ncpus : Nat, ngpus : Nat, lic : Nat,
            site : {"none", "a", "b"}, grouping : {"none", "group=group_id", "group=host"}]
Setting == [lic : [Owner -> Nat \cup {Unset}], site : [Owner -> {"unset", "a", "b"}],
            queue : [Queue -> {"open", "ignored", "disabled", "stopped"}]]

ASSUME DemandAssumption ==
    /\ Job \subseteq Nat
    /\ Server \notin Queue
    /\ Requests \subseteq Request
    /\ \A r \in Requests : Len(r.chunks) \in Kinds
    /\ Settings \subseteq Setting
    /\ Scheduled \subseteq {"ncpus", "ngpus", "lic", "site"}
    /\ MaxKinds \in Nat \ {0}
    /\ MaxSlots \in Nat \ {0}
    /\ Scale \in Nat \ {0}

\* Shares of a licence are whole parts, and the totals of a job are those of
\* its chunks: no less than those of one chunk, and the same if it is alone.
ASSUME ResourceListAssumption ==
    /\ \A n \in 1..MaxSlots : Scale % n = 0
    /\ \A r \in Requests, k \in Kinds :
         k \in DOMAIN r.chunks =>
             LET c == r.chunks[k]
             IN /\ c.count <= r.nodect
                /\ c.count * c.ncpus <= r.ncpus
                /\ c.count * c.ngpus <= r.ngpus
                /\ DOMAIN r.chunks = {1} => c.count = r.nodect /\ c.count * c.ngpus = r.ngpus

VARIABLES
    setting, request,   \* fixed
    phase,      \* of a job in PBS: "none", "queued", "running", "begun", "ended"
    assigned,   \* resources_assigned.lic
    pc,         \* where the iteration is
    counter,    \* current_value of the SharedConsumableResource made for an owner
    lists,      \* the owners whose counters are in shared_resources["lic"]
    sites,      \* the value in shared_resources["site"]
    todo,       \* Job objects not added yet, a job id and the number of its chunk
    placed,     \* slots promised to a Job object
    seen,       \* resources_assigned.lic as it was read (history)
    promised    \* parts of lic promised to the jobs of an owner (history)

pbs       == <<setting, request, phase, assigned>>
shared    == <<counter, lists, sites, seen>>
promises  == <<todo, placed, promised>>
vars      == <<pbs, pc, shared, promises>>

TypeOK ==
    /\ setting \in Settings
    /\ request \in [Job -> Requests]
    /\ phase \in [Job -> {"none", "queued", "running", "begun", "ended"}]
    /\ assigned \in [Owner -> Nat]
    /\ pc \in {"server", "queues", "jobs", "demand", "raised"}
    /\ counter \in [Owner -> Nat]
    /\ lists \in [Owner -> SUBSET Owner]
    /\ \A o \in Owner : lists[o] \subseteq {Server, o}
    /\ sites \in [Owner -> {"unset", "a", "b"}]
    /\ todo \subseteq Job \X Kinds
    /\ placed \in [Job \X Kinds -> 0..MaxSlots]
    /\ seen \in [Owner -> Nat]
    /\ promised \in [Owner -> Nat]

NoPromises ==
    /\ todo' = {}
    /\ placed' = [x \in Job \X Kinds |-> 0]
    /\ promised' = [o \in Owner |-> 0]

\* One process per iteration: the driver's caches start empty.
Init ==
    /\ setting \in Settings
    /\ request \in [Job -> Requests]
    /\ phase = [j \in Job |-> "none"]
    /\ assigned = [o \in Owner |-> 0]
    /\ pc = "server"
    /\ counter = [o \in Owner |-> 0]
    /\ lists = [o \in Owner |-> {}]
    /\ sites = [o \in Owner |-> "unset"]
    /\ seen = [o \in Owner |-> 0]
    /\ todo = {}
    /\ placed = [x \in Job \X Kinds |-> 0]
    /\ promised = [o \in Owner |-> 0]

-----------------------------------------------------------------------------
(* PBS. *)

OwnersOf(r) == {Server, r.queue}

Submit(j) ==
    /\ phase[j] = "none"
    /\ phase' = [phase EXCEPT ![j] = "queued"]
    /\ UNCHANGED <<setting, request, assigned, pc, shared, promises>>

\* A job starts if its licences are there; an unset limit is none.  An array
\* job begins, and only its subjobs run.
Start(j) ==
    LET r == request[j]
    IN /\ phase[j] = "queued"
       /\ setting.queue[r.queue] # "stopped"
       /\ IF r.array
          THEN /\ phase' = [phase EXCEPT ![j] = "begun"]
               /\ UNCHANGED assigned
          ELSE /\ \A o \in OwnersOf(r) :
                    setting.lic[o] # Unset => assigned[o] + r.lic <= setting.lic[o]
               /\ phase' = [phase EXCEPT ![j] = "running"]
               /\ assigned' = [o \in Owner |->
                                 IF o \in OwnersOf(r) THEN assigned[o] + r.lic ELSE assigned[o]]
       /\ UNCHANGED <<setting, request, pc, shared, promises>>

End(j) ==
    LET r == request[j]
    IN /\ phase[j] = "running"
       /\ \A o \in OwnersOf(r) : r.lic <= assigned[o]
       /\ phase' = [phase EXCEPT ![j] = "ended"]
       /\ assigned' = [o \in Owner |->
                         IF o \in OwnersOf(r) THEN assigned[o] - r.lic ELSE assigned[o]]
       /\ UNCHANGED <<setting, request, pc, shared, promises>>

-----------------------------------------------------------------------------
(* Shared resources: parse_resource_state, for the server without a parent,
   for the queues with the server's. *)

\* As if the server's list itself were extended: all owners share it.
ListOfInPlace(o, parent) ==
    parent \cup {p \in Owner : setting.lic[p] # Unset /\ (o # Server \/ p = Server)}

\* As if a queue's counter replaced the server's.
ListOfOverride(o, parent) == IF setting.lic[o] = Unset THEN parent ELSE {o}

\* The list of the parent, copied, with the same counters in it, and a counter
\* of one's own.
ListOf(o, parent) == parent \cup (IF setting.lic[o] = Unset THEN {} ELSE {o})

\* As if the server's value replaced the queue's.
SiteOfServer(o, parent) == IF parent = "unset" THEN setting.site[o] ELSE parent

\* A queue's value replaces the server's.
SiteOf(o, parent) == IF setting.site[o] = "unset" THEN parent ELSE setting.site[o]

\* current_value of a new counter: initial_value - assigned_value
LeftAt(o) == IF setting.lic[o] = Unset THEN 0 ELSE Scale * (setting.lic[o] - assigned[o])

\* read_schedulers: qmgr list sched, qmgr list server
ReadServer ==
    /\ pc = "server"
    /\ pc' = "queues"
    /\ counter' = [counter EXCEPT ![Server] = LeftAt(Server)]
    /\ lists' = [lists EXCEPT ![Server] = ListOf(Server, {})]
    /\ sites' = [sites EXCEPT ![Server] = SiteOf(Server, "unset")]
    /\ seen' = [seen EXCEPT ![Server] = assigned[Server]]
    /\ UNCHANGED <<pbs, promises>>

\* read_queues: qmgr list queue, for all queues at once
ReadQueues ==
    /\ pc = "queues"
    /\ pc' = "jobs"
    /\ counter' = [o \in Owner |-> IF o = Server THEN counter[o] ELSE LeftAt(o)]
    /\ lists' = [o \in Owner |-> IF o = Server THEN lists[o] ELSE ListOf(o, lists[Server])]
    /\ sites' = [o \in Owner |-> IF o = Server THEN sites[o] ELSE SiteOf(o, sites[Server])]
    /\ seen' = [o \in Owner |-> IF o = Server THEN seen[o] ELSE assigned[o]]
    /\ UNCHANGED <<pbs, promises>>

-----------------------------------------------------------------------------
(* Jobs: parse_jobs. *)

\* parse_place keeps the token, parse_jobs compares it with the name.
IsSmp(r) == r.grouping = "host"

\* node_count of every Job object of a job, whatever the chunk's own count:
\* parse_select drops it.
Slots(r) == IF IsSmp(r) THEN 1 ELSE r.nodect

\* As if the division were made for every chunk.
NcpusOfDivided(r, k) == r.ncpus \div Slots(r)

\* What one slot takes from a host.  A chunk that does not mention a resource
\* inherits the total of the job; only ncpus is divided.
NcpusOf(r, k) ==
    LET c == r.chunks[k]
    IN IF c.ncpus = 0 THEN r.ncpus \div Slots(r)
       ELSE IF IsSmp(r) THEN c.ncpus * r.nodect ELSE c.ncpus

NgpusOf(r, k) ==
    LET c == r.chunks[k]
    IN IF c.ngpus = 0 THEN r.ngpus
       ELSE IF IsSmp(r) THEN c.ngpus * r.nodect ELSE c.ngpus

AsksLic(r)  == r.lic > 0 /\ "lic" \in Scheduled
AsksSite(r) == r.site # "none" /\ "site" \in Scheduled

\* What one slot takes of the licences: rvalue / nodect.
Share(r) == IF AsksLic(r) THEN (Scale * r.lic) \div Slots(r) ELSE 0

\* Jobs that are looked at: queued, no array parent (its subjobs are listed, -t),
\* in a queue that is enabled, started and not ignored.
Waiting(j) ==
    /\ phase[j] = "queued"
    /\ setting.queue[request[j].queue] = "open"
    /\ ~request[j].array

\* get_non_host_constraints does not know the resource, or there is no ncpus to
\* divide.
Raises(j) ==
    LET r == request[j]
    IN \/ AsksLic(r) /\ lists[r.queue] = {}
       \/ AsksSite(r) /\ sites[r.queue] = "unset"
       \/ r.ncpus = 0 /\ \E k \in DOMAIN r.chunks : r.chunks[k].ncpus = 0

\* qstat -f -t
ReadJobs ==
    /\ pc = "jobs"
    /\ \A j \in Job : Waiting(j) => ~Raises(j)
    /\ pc' = "demand"
    /\ todo' = {x \in Job \X Kinds : Waiting(x[1]) /\ x[2] \in DOMAIN request[x[1]].chunks}
    /\ UNCHANGED <<pbs, shared, placed, promised>>

\* An exception ends the iteration, for all jobs.
ReadJobsRaises ==
    /\ pc = "jobs"
    /\ \E j \in Job : Waiting(j) /\ Raises(j)
    /\ pc' = "raised"
    /\ UNCHANGED <<pbs, shared, promises>>

-----------------------------------------------------------------------------
(* Demand: calculate_demand. *)

Before(x, y) == x[1] < y[1] \/ (x[1] = y[1] /\ x[2] < y[2])

\* The constraints: what is left everywhere on the list, and the value.
Admits(r, m) ==
    /\ \A o \in lists[r.queue] : m * Share(r) <= counter[o]
    /\ AsksSite(r) => sites[r.queue] = r.site

\* add_job: m slots for the Job object x; each takes its share from every
\* counter on the list.
Promise(x, m) ==
    LET r == request[x[1]]
    IN /\ todo' = todo \ {x}
       /\ m > 0 => Admits(r, m)
       /\ placed' = [placed EXCEPT ![x] = m]
       /\ counter' = [o \in Owner |->
                        IF AsksLic(r) /\ o \in lists[r.queue]
                        THEN counter[o] - m * Share(r) ELSE counter[o]]
       /\ promised' = [o \in Owner |->
                         IF o \in OwnersOf(r) THEN promised[o] + m * Share(r) ELSE promised[o]]

\* The first of the objects not added yet.
AddJob ==
    /\ pc = "demand"
    /\ \E x \in todo :
         /\ \A y \in todo \ {x} : Before(x, y)
         /\ \E m \in 0..Slots(request[x[1]]) : Promise(x, m)
    /\ UNCHANGED <<pbs, pc, lists, sites, seen>>

\* The process ends; the next one starts from nothing.
NextIteration ==
    /\ pc = "raised" \/ (pc = "demand" /\ todo = {})
    /\ pc' = "server"
    /\ counter' = [o \in Owner |-> 0]
    /\ lists' = [o \in Owner |-> {}]
    /\ sites' = [o \in Owner |-> "unset"]
    /\ seen' = [o \in Owner |-> 0]
    /\ NoPromises
    /\ UNCHANGED pbs

-----------------------------------------------------------------------------
Next ==
    \/ ReadServer \/ ReadQueues \/ ReadJobs \/ ReadJobsRaises
    \/ AddJob \/ NextIteration
    \/ \E j \in Job : Submit(j) \/ Start(j) \/ End(j)

Spec == Init /\ [][Next]_vars

-----------------------------------------------------------------------------
(* The counters of one iteration as a pool that the jobs of all queues share. *)

\* A queue's counter stays what it is when the iteration is over with an error.
LookedAt == {o \in Owner : pc # "server" /\ (o # Server => pc # "queues")}

\* What a limited owner's counter says; an owner without a limit has none.
PoolLeft ==
    [o \in Owner |->
       IF o \in LookedAt /\ setting.lic[o] # Unset THEN counter[o] ELSE 0]

Pool == INSTANCE LicencePool WITH
    Path <- {{Server, q} : q \in Queue}, Unlimited <- Unset,
    limit <- setting.lic, used <- assigned, looked <- LookedAt, left <- PoolLeft

-----------------------------------------------------------------------------
(* Properties. *)

Read(o) == IF o = Server THEN pc # "server" ELSE pc \in {"jobs", "demand"}

\* Licences are not promised twice: whatever the jobs of the several queues are
\* promised in one iteration, together with what was in use when the server
\* (the queue) was read, is there.  A queue's list holds the server's counters
\* themselves and not copies of their values (parse_resource_state).
NotOverdrawn ==
    \A o \in Owner :
        Read(o) /\ setting.lic[o] # Unset =>
            Scale * seen[o] + promised[o] <= Scale * setting.lic[o]

\* A job that gets all it is parsed to gets all it asked for: for every chunk
\* of its select there are slots as large as the chunk, and enough of them,
\* although the parsing loses the counts of the chunks; and if its chunks are
\* all of one kind that names its cores, it gets no more than that.
ChunksCovered ==
    \A j \in Job :
        LET r == request[j]
        IN \A k \in DOMAIN r.chunks :
             LET c == r.chunks[k]
                 slots == placed[<<j, k>>]
             IN slots = Slots(r) =>
                  /\ NcpusOf(r, k) >= c.ncpus
                  /\ NgpusOf(r, k) >= c.ngpus
                  /\ slots * NcpusOf(r, k) >= c.count * c.ncpus
                  /\ slots * NgpusOf(r, k) >= c.count * c.ngpus
                  /\ DOMAIN r.chunks = {1} /\ c.ncpus > 0 =>
                       /\ slots * NcpusOf(r, k) = c.count * c.ncpus
                       /\ slots * NgpusOf(r, k) = c.count * c.ngpus

\* A job that insists on a site is promised nodes only if that is the site of
\* its queue, or the server's if the queue has none ("queue level overrides
\* scheduler level").
SiteRespected ==
    \A j \in Job :
        LET r == request[j]
            q == r.queue
        IN \A k \in Kinds :
             placed[<<j, k>>] > 0 /\ AsksSite(r) =>
                 \/ setting.site[q] = r.site
                 \/ setting.site[q] = "unset" /\ setting.site[Server] = r.site

\* A job's licences are charged to the server and to its own queue, where these
\* have a limit, to both of them or to none, and to no other queue; what PBS
\* takes or gets back after the reading changes no counter of the iteration.
ImplementsPool == Pool!Spec
-----------------------------------------------------------------------------
(* The inductive invariant behind NotOverdrawn (proved in Demand_proofs). *)

Limited(o) == setting.lic[o] # Unset

\* PBS does not overdraw either.
Capped == \A o \in Owner : Limited(o) => assigned[o] <= setting.lic[o]

\* Promises are made after everything has been read.
PromisedLast == pc # "demand" => \A o \in Owner : promised[o] = 0

\* What is limited where a queue's jobs are is on the list of the queue.
Listed ==
    \A o \in Owner :
        /\ Read(o) /\ Limited(o) => o \in lists[o]
        /\ Read(o) /\ Limited(Server) => Server \in lists[o]

\* A counter, the promises charged to it and what was in use are the limit.
Balanced ==
    \A o \in Owner :
        Read(o) /\ Limited(o) =>
            counter[o] + promised[o] + Scale * seen[o] = Scale * setting.lic[o]

DInv == TypeOK /\ Capped /\ PromisedLast /\ Listed /\ Balanced

-----------------------------------------------------------------------------
(* The inductive invariant behind SiteRespected (proved in Demand_proofs). *)

\* What has been read is still what the administrator configured.
SitesRead == \A o \in Owner : Read(o) => sites[o] = SiteOf(o, setting.site[Server])

PlacedLast == pc # "demand" => \A x \in Job \X Kinds : placed[x] = 0

SInv == SitesRead /\ PlacedLast /\ SiteRespected
=============================================================================
