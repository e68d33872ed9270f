--------------------------- MODULE Demand_proofs ---------------------------
(***************************************************************************)
(* Licences are not promised twice, chunks are covered and sites respected, *)
(* for any jobs, queues, requests and settings.                             *)
(***************************************************************************)
EXTENDS Demand, TLAPS

\* Dividing and multiplying stay in Nat.
LEMMA NatArithmetic ==
    /\ \A a \in Nat, b \in Nat \ {0} : a \div b \in Nat
    /\ \A a \in Nat, b \in Nat : a * b \in Nat
OBVIOUS

\* What a request gives: its slots and the share of each of them.
LEMMA RequestFacts ==
    ASSUME NEW r \in Requests
    PROVE  /\ r.queue \in Owner /\ r.queue # Server
           /\ r.lic \in Nat
           /\ Slots(r) \in 1..MaxSlots
           /\ Share(r) \in Nat
           /\ ~AsksLic(r) => Share(r) = 0
<1>1. r \in Request
    BY DemandAssumption
<1>2. /\ r.queue \in Owner /\ r.queue # Server
      /\ r.lic \in Nat
      /\ r.nodect \in 1..MaxSlots
    BY <1>1, DemandAssumption DEF Request, Owner
<1>3. Slots(r) \in 1..MaxSlots /\ Slots(r) \in Nat \ {0}
    BY <1>2, DemandAssumption DEF Slots
<1>4. Scale * r.lic \in Nat
    BY <1>2, NatArithmetic, DemandAssumption
<1>5. (Scale * r.lic) \div Slots(r) \in Nat
    BY <1>3, <1>4, NatArithmetic
<1> QED
    BY <1>2, <1>3, <1>5 DEF Share

\* What the settings give.
LEMMA SettingFacts ==
    ASSUME TypeOK, NEW o \in Owner
    PROVE  /\ setting.lic[o] \in Nat \cup {Unset}
           /\ setting.site[o] \in {"unset", "a", "b"}
<1>1. setting \in Setting
    BY DemandAssumption DEF TypeOK
<1> QED
    BY <1>1 DEF Setting

\* What is left of a resource is no less than nothing.
LEMMA LeftFacts ==
    ASSUME TypeOK, Capped, NEW o \in Owner
    PROVE  /\ LeftAt(o) \in Nat
           /\ Limited(o) => LeftAt(o) + Scale * assigned[o] = Scale * setting.lic[o]
<1>1. CASE setting.lic[o] = Unset
    BY <1>1 DEF LeftAt, Limited
<1>2. CASE setting.lic[o] # Unset
  <2>1. /\ setting.lic[o] \in Nat /\ assigned[o] \in Nat
        /\ setting.lic[o] - assigned[o] \in Nat
      BY <1>2, SettingFacts DEF TypeOK, Capped, Limited
  <2>2. LeftAt(o) = Scale * (setting.lic[o] - assigned[o])
      BY <1>2 DEF LeftAt
  <2>3. LeftAt(o) \in Nat
      BY <2>1, <2>2, NatArithmetic, DemandAssumption
  <2>4. Scale * (setting.lic[o] - assigned[o]) + Scale * assigned[o] = Scale * setting.lic[o]
      BY <2>1, DemandAssumption
  <2> QED
      BY <2>2, <2>3, <2>4
<1> QED
    BY <1>1, <1>2

\* The iteration starts balanced.
LEMMA InitDInv == Init => DInv
<1> SUFFICES ASSUME Init PROVE DInv
    OBVIOUS
<1> USE DemandAssumption
<1>1. TypeOK
    BY DEF Init, TypeOK, Owner
<1>2. Capped
    BY <1>1, SettingFacts DEF Init, Capped, Limited, Unset
<1>3. PromisedLast /\ Listed /\ Balanced
    BY DEF Init, PromisedLast, Listed, Balanced, Read
<1> QED
    BY <1>1, <1>2, <1>3 DEF DInv

-----------------------------------------------------------------------------
(* Every step keeps the balance. *)

\* PBS starts and ends jobs; the iteration has read what it has read.
LEMMA PbsStep ==
    ASSUME DInv, NEW j \in Job, Submit(j) \/ Start(j) \/ End(j)
    PROVE  DInv'
<1> USE DemandAssumption
<1>1. request[j] \in Requests
    BY DEF DInv, TypeOK
<1>2. request[j].lic \in Nat
    BY <1>1, RequestFacts
<1>3. UNCHANGED <<setting, request, pc, shared, promises>>
    BY DEF Submit, Start, End
<1>4. /\ phase' \in [Job -> {"none", "queued", "running", "begun", "ended"}]
      /\ assigned' \in [Owner -> Nat]
  <2>1. CASE Submit(j)
      BY <2>1 DEF DInv, TypeOK, Submit
  <2>2. CASE Start(j)
    <3>1. \A o \in Owner : assigned[o] \in Nat /\ assigned[o] + request[j].lic \in Nat
        BY <1>2 DEF DInv, TypeOK
    <3>2. CASE request[j].array
      <4>1. phase' = [phase EXCEPT ![j] = "begun"] /\ UNCHANGED assigned
          BY <2>2, <3>2, Zenon DEF Start
      <4> QED
          BY <4>1 DEF DInv, TypeOK
    <3>3. CASE ~request[j].array
      <4>1. /\ phase' = [phase EXCEPT ![j] = "running"]
            /\ assigned' = [o \in Owner |-> IF o \in OwnersOf(request[j])
                                            THEN assigned[o] + request[j].lic
                                            ELSE assigned[o]]
          BY <2>2, <3>3, Zenon DEF Start
      <4>2. assigned' \in [Owner -> Nat]
          BY <3>1, <4>1
      <4> QED
          BY <4>1, <4>2 DEF DInv, TypeOK
    <3> QED
        BY <3>2, <3>3
  <2>3. CASE End(j)
    <3>1. \A o \in Owner :
            /\ assigned[o] \in Nat
            /\ o \in OwnersOf(request[j]) => assigned[o] - request[j].lic \in Nat
        BY <1>2, <2>3 DEF DInv, TypeOK, End
    <3>2. /\ phase' = [phase EXCEPT ![j] = "ended"]
          /\ assigned' = [o \in Owner |-> IF o \in OwnersOf(request[j])
                                          THEN assigned[o] - request[j].lic
                                          ELSE assigned[o]]
        BY <2>3, Zenon DEF End
    <3>3. assigned' \in [Owner -> Nat]
        BY <3>1, <3>2
    <3> QED
        BY <3>2, <3>3 DEF DInv, TypeOK
  <2> QED
      BY <2>1, <2>2, <2>3
<1>5. TypeOK'
    BY <1>3, <1>4 DEF DInv, TypeOK, shared, promises
<1>6. Capped'
  <2> SUFFICES ASSUME NEW o \in Owner, Limited(o)' PROVE (assigned[o] <= setting.lic[o])'
      BY DEF Capped
  <2>1. Limited(o) /\ assigned[o] <= setting.lic[o] /\ setting.lic[o]' = setting.lic[o]
      BY <1>3 DEF DInv, Capped, Limited
  <2>2. setting.lic[o] \in Nat /\ assigned[o] \in Nat
      BY <2>1, SettingFacts DEF DInv, TypeOK, Limited
  <2>3. CASE UNCHANGED assigned
      BY <2>1, <2>3
  <2>4. CASE Start(j) /\ assigned' # assigned
      BY <1>2, <2>1, <2>2, <2>4 DEF Start, Limited
  <2>5. CASE End(j)
      BY <1>2, <2>1, <2>2, <2>5 DEF End
  <2> QED
      BY <2>3, <2>4, <2>5 DEF Submit
<1>7. PromisedLast' /\ Listed' /\ Balanced'
    BY <1>3 DEF DInv, PromisedLast, Listed, Balanced, Read, Limited, shared, promises
<1> QED
    BY <1>5, <1>6, <1>7 DEF DInv

\* The server is read.
LEMMA ReadServerStep ==
    ASSUME DInv, ReadServer
    PROVE  DInv'
<1> USE DemandAssumption
<1>1. /\ pc = "server" /\ pc' = "queues"
      /\ counter' = [counter EXCEPT ![Server] = LeftAt(Server)]
      /\ lists' = [lists EXCEPT ![Server] = ListOf(Server, {})]
      /\ sites' = [sites EXCEPT ![Server] = SiteOf(Server, "unset")]
      /\ seen' = [seen EXCEPT ![Server] = assigned[Server]]
      /\ UNCHANGED <<setting, request, phase, assigned, todo, placed, promised>>
    BY DEF ReadServer, pbs, promises
<1>2. Server \in Owner
    BY DEF Owner
<1>3. /\ LeftAt(Server) \in Nat
      /\ Limited(Server) => LeftAt(Server) + Scale * assigned[Server] = Scale * setting.lic[Server]
      /\ setting.site[Server] \in {"unset", "a", "b"}
    BY <1>2, LeftFacts, SettingFacts DEF DInv
<1>4. TypeOK'
    BY <1>1, <1>2, <1>3 DEF DInv, TypeOK, ListOf, SiteOf
<1>5. Capped' /\ PromisedLast'
    BY <1>1 DEF DInv, Capped, Limited, PromisedLast
<1>6. \A o \in Owner : Read(o)' <=> o = Server
    BY <1>1 DEF Read
<1>7. Listed'
    BY <1>1, <1>2, <1>6 DEF DInv, TypeOK, Listed, Limited, ListOf
<1>8. Balanced'
  <2> SUFFICES ASSUME Limited(Server)
               PROVE  counter'[Server] + promised[Server] + Scale * seen'[Server]
                          = Scale * setting.lic[Server]
      BY <1>1, <1>2, <1>6 DEF Balanced, Limited
  <2>1. counter'[Server] = LeftAt(Server) /\ seen'[Server] = assigned[Server]
      BY <1>1, <1>2 DEF DInv, TypeOK
  <2>2. promised[Server] = 0
      BY <1>1, <1>2 DEF DInv, PromisedLast
  <2> QED
      BY <1>3, <2>1, <2>2
<1> QED
    BY <1>4, <1>5, <1>7, <1>8 DEF DInv

\* The queues are read.
LEMMA ReadQueuesStep ==
    ASSUME DInv, ReadQueues
    PROVE  DInv'
<1> USE DemandAssumption
<1>1. /\ pc = "queues" /\ pc' = "jobs"
      /\ UNCHANGED <<setting, request, phase, assigned, todo, placed, promised>>
    BY DEF ReadQueues, pbs, promises
<1>2. /\ counter' = [o \in Owner |-> IF o = Server THEN counter[o] ELSE LeftAt(o)]
      /\ lists' = [o \in Owner |-> IF o = Server THEN lists[o] ELSE ListOf(o, lists[Server])]
      /\ sites' = [o \in Owner |-> IF o = Server THEN sites[o] ELSE SiteOf(o, sites[Server])]
      /\ seen' = [o \in Owner |-> IF o = Server THEN seen[o] ELSE assigned[o]]
    BY DEF ReadQueues
<1>3. Server \in Owner
    BY DEF Owner
<1>4. \A o \in Owner :
        /\ LeftAt(o) \in Nat
        /\ Limited(o) => LeftAt(o) + Scale * assigned[o] = Scale * setting.lic[o]
        /\ setting.site[o] \in {"unset", "a", "b"}
    BY LeftFacts, SettingFacts DEF DInv
<1>5. TypeOK'
  <2>1. lists' \in [Owner -> SUBSET Owner] /\ \A o \in Owner : lists'[o] \subseteq {Server, o}
      BY <1>2, <1>3 DEF DInv, TypeOK, ListOf
  <2>2. counter' \in [Owner -> Nat] /\ seen' \in [Owner -> Nat]
      BY <1>2, <1>4 DEF DInv, TypeOK
  <2>3. sites' \in [Owner -> {"unset", "a", "b"}]
      BY <1>2, <1>3, <1>4 DEF DInv, TypeOK, SiteOf
  <2> QED
      BY <1>1, <2>1, <2>2, <2>3 DEF DInv, TypeOK
<1>6. Capped' /\ PromisedLast'
    BY <1>1 DEF DInv, Capped, Limited, PromisedLast
<1>7. \A o \in Owner : Read(o)' /\ (Read(o) <=> o = Server)
    BY <1>1 DEF Read
<1>8. Listed'
    BY <1>1, <1>2, <1>3, <1>7 DEF DInv, Listed, Limited, ListOf
<1>9. Balanced'
  <2> SUFFICES ASSUME NEW o \in Owner, Limited(o)
               PROVE  counter'[o] + promised[o] + Scale * seen'[o] = Scale * setting.lic[o]
      BY <1>1 DEF Balanced, Limited
  <2>1. CASE o = Server
      BY <1>2, <1>7, <2>1 DEF DInv, Balanced
  <2>2. CASE o # Server
    <3>1. counter'[o] = LeftAt(o) /\ seen'[o] = assigned[o]
        BY <1>2, <2>2
    <3>2. promised[o] = 0
        BY <1>1 DEF DInv, PromisedLast
    <3> QED
        BY <1>4, <3>1, <3>2
  <2> QED
      BY <2>1, <2>2
<1> QED
    BY <1>5, <1>6, <1>8, <1>9 DEF DInv

\* The jobs are read; nothing is promised yet.
LEMMA ReadJobsStep ==
    ASSUME DInv, ReadJobs \/ ReadJobsRaises
    PROVE  DInv'
<1>1. /\ pc = "jobs" /\ pc' \in {"demand", "raised"}
      /\ UNCHANGED <<setting, request, phase, assigned, counter, lists, sites, seen,
                     placed, promised>>
      /\ todo' \subseteq Job \X Kinds
    BY DEF ReadJobs, ReadJobsRaises, pbs, shared, promises, DInv, TypeOK
<1>2. TypeOK'
    BY <1>1 DEF DInv, TypeOK
<1>3. Capped' /\ PromisedLast'
    BY <1>1 DEF DInv, Capped, Limited, PromisedLast
<1>4. \A o \in Owner : Read(o)' => Read(o)
    BY <1>1 DEF Read
<1>5. Listed' /\ Balanced'
    BY <1>1, <1>4 DEF DInv, Listed, Balanced, Limited
<1> QED
    BY <1>2, <1>3, <1>5 DEF DInv

\* A job is promised slots: what the counters of its queue's list lose, the
\* promises of those owners gain.
LEMMA AddJobStep ==
    ASSUME DInv, AddJob
    PROVE  DInv'
<1> USE DemandAssumption
<1>1. PICK x \in todo : \E m \in 0..Slots(request[x[1]]) : Promise(x, m)
    BY Zenon DEF AddJob, Promise
<1>2. PICK m \in 0..Slots(request[x[1]]) : Promise(x, m)
    BY <1>1
<1>3. /\ pc = "demand"
      /\ UNCHANGED <<setting, request, phase, assigned, pc, lists, sites, seen>>
    BY DEF AddJob, pbs
<1> DEFINE r == request[x[1]]
           taken == m * Share(r)
<1>4. r \in Requests
    BY <1>1 DEF DInv, TypeOK
<1>5. /\ r.queue \in Owner
      /\ Slots(r) \in 1..MaxSlots
      /\ Share(r) \in Nat
      /\ ~AsksLic(r) => Share(r) = 0
    BY <1>4, RequestFacts
<1>6. m \in Nat /\ m \in 0..MaxSlots
    BY <1>2, <1>5, DemandAssumption
<1>7. /\ taken \in Nat
      /\ (~AsksLic(r) \/ m = 0) => taken = 0
    BY <1>5, <1>6, NatArithmetic
<1>8. \A o \in lists[r.queue] : taken <= counter[o]
  <2> SUFFICES ASSUME NEW o \in lists[r.queue] PROVE taken <= counter[o]
      OBVIOUS
  <2>1. counter[o] \in Nat
      BY <1>5 DEF DInv, TypeOK
  <2>2. CASE m = 0
      BY <1>7, <2>1, <2>2
  <2>3. CASE m > 0
      BY <1>2, <2>3 DEF Admits, Promise
  <2> QED
      BY <1>6, <2>2, <2>3
<1> HIDE DEF taken
<1>9. /\ counter' = [o \in Owner |->
                       IF AsksLic(r) /\ o \in lists[r.queue]
                       THEN counter[o] - taken ELSE counter[o]]
      /\ promised' = [o \in Owner |->
                        IF o \in OwnersOf(r) THEN promised[o] + taken ELSE promised[o]]
      /\ todo' \subseteq todo
      /\ placed' = [placed EXCEPT ![x] = m]
    BY <1>2 DEF taken, Promise
<1> HIDE DEF r
<1>10. counter' \in [Owner -> Nat] /\ promised' \in [Owner -> Nat]
  <2>1. \A o \in Owner : counter[o] \in Nat /\ promised[o] \in Nat
      BY DEF DInv, TypeOK
  <2>2. \A o \in lists[r.queue] : counter[o] - taken \in Nat
    <3>1. lists[r.queue] \subseteq Owner
        BY <1>5 DEF DInv, TypeOK
    <3> QED
        BY <1>7, <1>8, <2>1, <3>1
  <2>3. \A o \in Owner : promised[o] + taken \in Nat
      BY <1>7, <2>1
  <2> QED
      BY <1>9, <2>1, <2>2, <2>3
<1>11. TypeOK'
  <2>1. placed' \in [Job \X Kinds -> 0..MaxSlots]
      BY <1>6, <1>9 DEF DInv, TypeOK
  <2> QED
      BY <1>3, <1>9, <1>10, <2>1 DEF DInv, TypeOK
<1>12. Capped' /\ PromisedLast' /\ Listed'
    BY <1>3 DEF DInv, Capped, Limited, PromisedLast, Listed, Read
<1>13. Balanced'
  <2> SUFFICES ASSUME NEW o \in Owner, Limited(o)
               PROVE  counter'[o] + promised'[o] + Scale * seen[o] = Scale * setting.lic[o]
      BY <1>3 DEF Balanced, Limited
  <2>1. Read(o) /\ Read(r.queue)
      BY <1>3 DEF Read
  <2>2. counter[o] + promised[o] + Scale * seen[o] = Scale * setting.lic[o]
      BY <2>1 DEF DInv, Balanced
  <2>3. o \in lists[r.queue] <=> o \in OwnersOf(r)
    <3>1. lists[r.queue] \subseteq {Server, r.queue}
        BY <1>5 DEF DInv, TypeOK
    <3>2. o \in OwnersOf(r) => o \in lists[r.queue]
        BY <1>5, <2>1 DEF DInv, Listed, OwnersOf
    <3> QED
        BY <3>1, <3>2 DEF OwnersOf
  <2>4. /\ counter[o] \in Nat /\ promised[o] \in Nat
        /\ Scale * seen[o] \in Nat
      BY NatArithmetic DEF DInv, TypeOK
  <2>5. counter'[o] + promised'[o] = counter[o] + promised[o]
    <3>1. CASE AsksLic(r) /\ o \in OwnersOf(r)
      <4>1. counter'[o] = counter[o] - taken /\ promised'[o] = promised[o] + taken
          BY <1>9, <2>3, <3>1
      <4> QED
          BY <1>7, <2>4, <4>1
    <3>2. CASE ~(AsksLic(r) /\ o \in OwnersOf(r))
      <4>1. counter'[o] = counter[o] /\ (promised'[o] = promised[o] \/ promised'[o] = promised[o] + 0)
        <5>1. o \in OwnersOf(r) => taken = 0
            BY <1>7, <3>2
        <5> QED
            BY <1>9, <2>3, <3>2, <5>1
      <4> QED
          BY <2>4, <4>1
    <3> QED
        BY <3>1, <3>2
  <2> QED
      BY <2>2, <2>5
<1> QED
    BY <1>11, <1>12, <1>13 DEF DInv

\* The next process starts from nothing.
LEMMA NextIterationStep ==
    ASSUME DInv, NextIteration
    PROVE  DInv'
<1>1. /\ pc' = "server"
      /\ UNCHANGED <<setting, request, phase, assigned>>
      /\ counter' = [o \in Owner |-> 0]
      /\ lists' = [o \in Owner |-> {}]
      /\ sites' = [o \in Owner |-> "unset"]
      /\ seen' = [o \in Owner |-> 0]
      /\ todo' = {}
      /\ placed' = [x \in Job \X Kinds |-> 0]
      /\ promised' = [o \in Owner |-> 0]
    BY DEF NextIteration, NoPromises, pbs
<1>2. TypeOK'
    BY <1>1, DemandAssumption DEF DInv, TypeOK
<1>3. Capped' /\ PromisedLast' /\ Listed' /\ Balanced'
    BY <1>1 DEF DInv, Capped, Limited, PromisedLast, Listed, Balanced, Read
<1> QED
    BY <1>2, <1>3 DEF DInv

\* A step that changes nothing.
LEMMA DStutter ==
    ASSUME DInv, UNCHANGED vars
    PROVE  DInv'
BY DEF DInv, TypeOK, Capped, PromisedLast, Listed, Balanced, Limited, Read,
       vars, pbs, shared, promises

\* The balance holds of every behaviour.
LEMMA DInvAlways == Spec => []DInv
<1>1. Init => DInv
    BY InitDInv
<1>2. DInv /\ [Next]_vars => DInv'
  <2> SUFFICES ASSUME DInv, [Next]_vars PROVE DInv'
      OBVIOUS
  <2>1. CASE ReadServer
      BY <2>1, ReadServerStep
  <2>2. CASE ReadQueues
      BY <2>2, ReadQueuesStep
  <2>3. CASE ReadJobs \/ ReadJobsRaises
      BY <2>3, ReadJobsStep
  <2>4. CASE AddJob
      BY <2>4, AddJobStep
  <2>5. CASE NextIteration
      BY <2>5, NextIterationStep
  <2>6. CASE \E j \in Job : Submit(j) \/ Start(j) \/ End(j)
      BY <2>6, PbsStep
  <2>7. CASE UNCHANGED vars
      BY <2>7, DStutter
  <2> QED
      BY <2>1, <2>2, <2>3, <2>4, <2>5, <2>6, <2>7 DEF Next
<1> QED
    BY <1>1, <1>2, PTL DEF Spec

\* Licences are not promised twice, for any jobs, queues and settings: a queue's
\* list shares the server's counters (parse_resource_state).
THEOREM NothingOverdrawn == Spec => []NotOverdrawn
<1>1. DInv => NotOverdrawn
  <2> SUFFICES ASSUME DInv, NEW o \in Owner, Read(o), Limited(o)
               PROVE  Scale * seen[o] + promised[o] <= Scale * setting.lic[o]
      BY DEF NotOverdrawn, Limited
  <2>1. counter[o] + promised[o] + Scale * seen[o] = Scale * setting.lic[o]
      BY DEF DInv, Balanced
  <2>2. counter[o] \in Nat /\ promised[o] \in Nat /\ Scale * seen[o] \in Nat
      BY NatArithmetic, DemandAssumption DEF DInv, TypeOK
  <2> QED
      BY <2>1, <2>2
<1> QED
    BY <1>1, DInvAlways, PTL

\* Every reachable state is well typed: counters and assigned amounts are never
\* negative, and no queue's list reaches another queue's counter.
THEOREM DemandTypes == Spec => []TypeOK
<1>1. DInv => TypeOK
    BY DEF DInv
<1> QED
    BY <1>1, DInvAlways, PTL

-----------------------------------------------------------------------------
(* Sites. *)

\* A step that reads and promises nothing keeps what is known of sites.
LEMMA SiteKept ==
    ASSUME SInv, UNCHANGED <<setting, request, sites, placed>>,
           \A o \in Owner : Read(o)' => Read(o),
           pc' = "demand" \/ \A x \in Job \X Kinds : placed[x] = 0
    PROVE  SInv'
<1>1. SitesRead'
    BY DEF SInv, SitesRead, SiteOf
<1>2. PlacedLast'
    BY DEF SInv, PlacedLast
<1>3. SiteRespected'
    BY DEF SInv, SiteRespected, AsksSite
<1> QED
    BY <1>1, <1>2, <1>3 DEF SInv

\* A job is placed by the value of its queue.
LEMMA SitePromised ==
    ASSUME DInv, SInv, AddJob
    PROVE  SInv'
<1>1. PICK x \in todo : \E m \in 0..Slots(request[x[1]]) : Promise(x, m)
    BY Zenon DEF AddJob, Promise
<1>2. PICK m \in 0..Slots(request[x[1]]) : Promise(x, m)
    BY <1>1
<1>3. /\ pc = "demand" /\ pc' = "demand"
      /\ UNCHANGED <<setting, request, sites>>
    BY DEF AddJob, pbs
<1>4. /\ placed' = [placed EXCEPT ![x] = m]
      /\ m > 0 => Admits(request[x[1]], m)
    BY <1>2 DEF Promise
<1>5. SitesRead' /\ PlacedLast'
    BY <1>3 DEF SInv, SitesRead, SiteOf, PlacedLast, Read
<1>6. SiteRespected'
  <2> SUFFICES ASSUME NEW j \in Job, NEW k \in Kinds,
                      placed'[<<j, k>>] > 0, AsksSite(request[j])
               PROVE  \/ setting.site[request[j].queue] = request[j].site
                      \/ /\ setting.site[request[j].queue] = "unset"
                         /\ setting.site[Server] = request[j].site
      BY <1>3 DEF SiteRespected, AsksSite
  <2>1. CASE <<j, k>> # x
    <3>1. placed'[<<j, k>>] = placed[<<j, k>>]
        BY <1>4, <2>1 DEF DInv, TypeOK
    <3> QED
        BY <3>1 DEF SInv, SiteRespected
  <2>2. CASE <<j, k>> = x
    <3>1. x[1] = j /\ x \in Job \X Kinds
        BY <2>2
    <3>2. placed'[<<j, k>>] = m
        BY <1>4, <2>2, <3>1 DEF DInv, TypeOK
    <3>3. sites[request[j].queue] = request[j].site
        BY <1>4, <3>1, <3>2 DEF Admits
    <3>4. request[j] \in Requests
        BY DEF DInv, TypeOK
    <3>5. request[j].queue \in Owner
        BY <3>4, RequestFacts
    <3>6. request[j].queue # Server /\ Read(request[j].queue)
        BY <1>3, <3>4, RequestFacts DEF Read
    <3>7. sites[request[j].queue] = SiteOf(request[j].queue, setting.site[Server])
        BY <3>5, <3>6 DEF SInv, SitesRead
    <3> QED
        BY <3>3, <3>7 DEF SiteOf
  <2> QED
      BY <2>1, <2>2
<1> QED
    BY <1>5, <1>6 DEF SInv

\* A job is promised nodes only where its site is, for any queues and settings:
\* the queue's value replaces the server's (parse_resource_state).
THEOREM SiteHolds == Spec => []SiteRespected
<1>1. Init => SInv
  <2> SUFFICES ASSUME Init PROVE SInv
      OBVIOUS
  <2>1. SitesRead
      BY DemandAssumption DEF Init, SitesRead, Read
  <2>2. PlacedLast
      BY DEF Init, PlacedLast
  <2>3. SiteRespected
      BY DEF Init, SiteRespected
  <2> QED
      BY <2>1, <2>2, <2>3 DEF SInv
<1>2. DInv /\ SInv /\ [Next]_vars => SInv'
  <2> SUFFICES ASSUME DInv, SInv, [Next]_vars PROVE SInv'
      OBVIOUS
  <2>1. CASE ReadServer
    <3>1. /\ pc' = "queues" /\ pc = "server"
          /\ UNCHANGED <<setting, request, placed>>
          /\ sites' = [sites EXCEPT ![Server] = SiteOf(Server, "unset")]
        BY <2>1 DEF ReadServer, pbs, promises
    <3>2. \A o \in Owner : Read(o)' <=> o = Server
        BY <3>1 DEF Read
    <3>3. sites'[Server] = SiteOf(Server, setting.site[Server])
        BY <3>1 DEF DInv, TypeOK, SiteOf, Owner
    <3>4. SitesRead'
        BY <3>1, <3>2, <3>3 DEF SitesRead, SiteOf
    <3>5. PlacedLast' /\ SiteRespected'
        BY <3>1 DEF SInv, PlacedLast, SiteRespected, AsksSite
    <3> QED
        BY <3>4, <3>5 DEF SInv
  <2>2. CASE ReadQueues
    <3>1. /\ pc' = "jobs" /\ pc = "queues"
          /\ UNCHANGED <<setting, request, placed>>
          /\ sites' = [o \in Owner |-> IF o = Server THEN sites[o]
                                       ELSE SiteOf(o, sites[Server])]
        BY <2>2 DEF ReadQueues, pbs, promises
    <3>2. Server \in Owner /\ Read(Server)
        BY <3>1, DemandAssumption DEF Owner, Read
    <3>3. sites[Server] = SiteOf(Server, setting.site[Server])
        BY <3>2 DEF SInv, SitesRead
    <3>4. sites[Server] = setting.site[Server]
        BY <3>3 DEF SiteOf
    <3>5. SitesRead'
        BY <3>1, <3>3, <3>4 DEF SitesRead, SiteOf
    <3>6. PlacedLast' /\ SiteRespected'
        BY <3>1 DEF SInv, PlacedLast, SiteRespected, AsksSite
    <3> QED
        BY <3>5, <3>6 DEF SInv
  <2>3. CASE ReadJobs \/ ReadJobsRaises
    <3>1. /\ pc = "jobs" /\ pc' \in {"demand", "raised"}
          /\ UNCHANGED <<setting, request, sites, placed>>
        BY <2>3 DEF ReadJobs, ReadJobsRaises, pbs, shared, promises
    <3>2. \A o \in Owner : Read(o)' => Read(o)
        BY <3>1 DEF Read
    <3>3. \A x \in Job \X Kinds : placed[x] = 0
        BY <3>1 DEF SInv, PlacedLast
    <3> QED
        BY <3>1, <3>2, <3>3, SiteKept
  <2>4. CASE AddJob
      BY <2>4, SitePromised
  <2>5. CASE NextIteration
    <3>1. /\ pc' = "server"
          /\ placed' = [x \in Job \X Kinds |-> 0]
        BY <2>5 DEF NextIteration, NoPromises
    <3>2. SitesRead'
        BY <3>1, DemandAssumption DEF SitesRead, Read
    <3>3. PlacedLast' /\ SiteRespected'
        BY <3>1 DEF PlacedLast, SiteRespected
    <3> QED
        BY <3>2, <3>3 DEF SInv
  <2>6. CASE \E j \in Job : Submit(j) \/ Start(j) \/ End(j)
    <3>1. UNCHANGED <<setting, request, pc, sites, placed>>
        BY <2>6 DEF Submit, Start, End, shared, promises
    <3> QED
        BY <3>1, SiteKept DEF Read, SInv, PlacedLast
  <2>7. CASE UNCHANGED vars
    <3>1. UNCHANGED <<setting, request, pc, sites, placed>>
        BY <2>7 DEF vars, pbs, shared, promises
    <3> QED
        BY <3>1, SiteKept DEF Read, SInv, PlacedLast
  <2> QED
      BY <2>1, <2>2, <2>3, <2>4, <2>5, <2>6, <2>7 DEF Next
<1>3. SInv => SiteRespected
    BY DEF SInv
<1> QED
    BY <1>1, <1>2, <1>3, DInvAlways, PTL DEF Spec

-----------------------------------------------------------------------------
(* Chunks. *)

LEMMA Products ==
    /\ \A a, b, c \in Nat : a <= b => a * c <= b * c
    /\ \A a, b \in Nat : a * b = b * a
    /\ \A a \in Nat : a * 0 = 0 /\ 1 * a = a
    /\ \A a \in Nat, b \in Nat \ {0} : a <= a * b
OBVIOUS

\* What a request says of one of its chunks.
LEMMA ChunkFacts ==
    ASSUME NEW r \in Requests, NEW k \in DOMAIN r.chunks
    PROVE  /\ r.nodect \in Nat \ {0} /\ r.ncpus \in Nat /\ r.ngpus \in Nat
           /\ r.chunks[k].count \in Nat
           /\ r.chunks[k].ncpus \in Nat
           /\ r.chunks[k].ngpus \in Nat
           /\ r.chunks[k].count <= r.nodect
           /\ DOMAIN r.chunks = {1} =>
                /\ r.chunks[k].count = r.nodect
                /\ r.chunks[k].count * r.chunks[k].ngpus = r.ngpus
<1>1. r \in Request /\ Len(r.chunks) \in Kinds
    BY DemandAssumption
<1>2. /\ r.nodect \in 1..MaxSlots /\ r.ncpus \in Nat /\ r.ngpus \in Nat
      /\ r.chunks \in Seq(Chunk)
    BY <1>1 DEF Request
<1>3. DOMAIN r.chunks = 1..Len(r.chunks) /\ r.chunks[k] \in Chunk
    BY <1>2
<1>4. k \in Kinds
    BY <1>1, <1>3, DemandAssumption DEF Kinds
<1>5. /\ r.chunks[k].count \in Nat
      /\ r.chunks[k].ncpus \in Nat
      /\ r.chunks[k].ngpus \in Nat
    BY <1>3, DemandAssumption DEF Chunk
<1> QED
    BY <1>2, <1>4, <1>5, DemandAssumption, ResourceListAssumption

\* As many slots as the job has are enough for a chunk, in size and in number.
LEMMA ChunkCovered ==
    ASSUME NEW r \in Requests, NEW k \in DOMAIN r.chunks
    PROVE  /\ NcpusOf(r, k) >= r.chunks[k].ncpus
           /\ NgpusOf(r, k) >= r.chunks[k].ngpus
           /\ Slots(r) * NcpusOf(r, k) >= r.chunks[k].count * r.chunks[k].ncpus
           /\ Slots(r) * NgpusOf(r, k) >= r.chunks[k].count * r.chunks[k].ngpus
           /\ DOMAIN r.chunks = {1} /\ r.chunks[k].ncpus > 0 =>
                /\ Slots(r) * NcpusOf(r, k) = r.chunks[k].count * r.chunks[k].ncpus
                /\ Slots(r) * NgpusOf(r, k) = r.chunks[k].count * r.chunks[k].ngpus
<1> DEFINE n == r.nodect
           count == r.chunks[k].count
           cpus == r.chunks[k].ncpus
           gpus == r.chunks[k].ngpus
<1>1. /\ n \in Nat \ {0} /\ count \in Nat /\ cpus \in Nat /\ gpus \in Nat
      /\ r.ncpus \in Nat /\ r.ngpus \in Nat
      /\ count <= n
      /\ DOMAIN r.chunks = {1} => count = n /\ count * gpus = r.ngpus
    BY ChunkFacts
<1>2. /\ Slots(r) \in Nat \ {0}
      /\ IsSmp(r) => Slots(r) = 1
      /\ ~IsSmp(r) => Slots(r) = n
    BY <1>1 DEF Slots
<1>3. /\ cpus = 0 => NcpusOf(r, k) = r.ncpus \div Slots(r)
      /\ cpus # 0 /\ IsSmp(r) => NcpusOf(r, k) = cpus * n
      /\ cpus # 0 /\ ~IsSmp(r) => NcpusOf(r, k) = cpus
    BY DEF NcpusOf
<1>4. /\ gpus = 0 => NgpusOf(r, k) = r.ngpus
      /\ gpus # 0 /\ IsSmp(r) => NgpusOf(r, k) = gpus * n
      /\ gpus # 0 /\ ~IsSmp(r) => NgpusOf(r, k) = gpus
    BY DEF NgpusOf
<1> HIDE DEF n, count, cpus, gpus
<1>5. r.ncpus \div Slots(r) \in Nat /\ cpus * n \in Nat /\ gpus * n \in Nat
    BY <1>1, <1>2, NatArithmetic
<1>6. count * cpus <= n * cpus /\ count * gpus <= n * gpus
    BY <1>1, Products
<1>7. cpus <= cpus * n /\ gpus <= gpus * n
    BY <1>1, Products
<1>8. n * cpus = cpus * n /\ n * gpus = gpus * n
    BY <1>1, Products
<1>9. /\ NcpusOf(r, k) >= cpus
      /\ Slots(r) * NcpusOf(r, k) >= count * cpus
      /\ count = n /\ cpus # 0 => Slots(r) * NcpusOf(r, k) = count * cpus
  <2>1. CASE cpus = 0
    <3>1. count * cpus = 0
        BY <1>1, <2>1, Products
    <3>2. Slots(r) * NcpusOf(r, k) \in Nat /\ NcpusOf(r, k) \in Nat
        BY <1>2, <1>3, <1>5, <2>1, NatArithmetic
    <3> QED
        BY <2>1, <3>1, <3>2
  <2>2. CASE cpus # 0 /\ IsSmp(r)
    <3>1. NcpusOf(r, k) = cpus * n /\ Slots(r) * NcpusOf(r, k) = n * cpus
        BY <1>2, <1>3, <1>5, <1>8, <2>2, Products
    <3> QED
        BY <1>1, <1>5, <1>6, <1>7, <1>8, <3>1, NatArithmetic
  <2>3. CASE cpus # 0 /\ ~IsSmp(r)
    <3>1. NcpusOf(r, k) = cpus /\ Slots(r) * NcpusOf(r, k) = n * cpus
        BY <1>2, <1>3, <2>3
    <3> QED
        BY <1>1, <1>6, <3>1, NatArithmetic
  <2> QED
      BY <2>1, <2>2, <2>3
<1>10. /\ NgpusOf(r, k) >= gpus
       /\ Slots(r) * NgpusOf(r, k) >= count * gpus
       /\ count = n /\ count * gpus = r.ngpus => Slots(r) * NgpusOf(r, k) = count * gpus
  <2>1. CASE gpus = 0
    <3>1. count * gpus = 0
        BY <1>1, <2>1, Products
    <3>2. /\ NgpusOf(r, k) = r.ngpus
          /\ Slots(r) * r.ngpus \in Nat
          /\ Slots(r) * 0 = 0
        BY <1>1, <1>2, <1>4, <2>1, NatArithmetic, Products
    <3> QED
        BY <1>1, <2>1, <3>1, <3>2
  <2>2. CASE gpus # 0 /\ IsSmp(r)
    <3>1. NgpusOf(r, k) = gpus * n /\ Slots(r) * NgpusOf(r, k) = n * gpus
        BY <1>2, <1>4, <1>5, <1>8, <2>2, Products
    <3> QED
        BY <1>1, <1>5, <1>6, <1>7, <1>8, <3>1, NatArithmetic
  <2>3. CASE gpus # 0 /\ ~IsSmp(r)
    <3>1. NgpusOf(r, k) = gpus /\ Slots(r) * NgpusOf(r, k) = n * gpus
        BY <1>2, <1>4, <2>3
    <3> QED
        BY <1>1, <1>6, <3>1, NatArithmetic
  <2> QED
      BY <2>1, <2>2, <2>3
<1>11. DOMAIN r.chunks = {1} /\ cpus > 0 => count = n /\ count * gpus = r.ngpus /\ cpus # 0
    BY <1>1
<1> QED
    BY <1>9, <1>10, <1>11 DEF n, count, cpus, gpus

\* A job that is served in full gets all its chunks, for any select: parse_jobs
\* gives every chunk the node count of the job and no less than it asked for.
THEOREM ChunksServed == Spec => []ChunksCovered
<1>1. DInv => ChunksCovered
  <2> SUFFICES ASSUME DInv, NEW j \in Job, NEW k \in DOMAIN request[j].chunks,
                      placed[<<j, k>>] = Slots(request[j])
               PROVE  LET r == request[j]
                          c == r.chunks[k]
                          slots == placed[<<j, k>>]
                      IN /\ NcpusOf(r, k) >= c.ncpus
                         /\ NgpusOf(r, k) >= c.ngpus
                         /\ slots * NcpusOf(r, k) >= c.count * c.ncpus
                         /\ slots * NgpusOf(r, k) >= c.count * c.ngpus
                         /\ DOMAIN r.chunks = {1} /\ c.ncpus > 0 =>
                              /\ slots * NcpusOf(r, k) = c.count * c.ncpus
                              /\ slots * NgpusOf(r, k) = c.count * c.ngpus
      BY DEF ChunksCovered
  <2>1. request[j] \in Requests
      BY DEF DInv, TypeOK
  <2> QED
      BY <2>1, ChunkCovered
<1> QED
    BY <1>1, DInvAlways, PTL
-----------------------------------------------------------------------------
(* The counters are one pool. *)

\* PBS changes what is in use, within the limits, and no counter.
LEMMA PbsAtPool ==
    ASSUME DInv, NEW j \in Job, Submit(j) \/ Start(j) \/ End(j)
    PROVE  [Pool!Next]_(Pool!vars)
<1> DEFINE p == {Server, request[j].queue}
           k == request[j].lic
<1> USE DemandAssumption
<1>1. request[j] \in Requests
    BY DEF DInv, TypeOK
<1>2. /\ k \in Nat /\ request[j].queue \in Queue /\ p \subseteq Owner
      /\ OwnersOf(request[j]) = p
  <2>1. request[j] \in Request
      BY <1>1
  <2> QED
      BY <2>1, <1>1, RequestFacts DEF OwnersOf, Request, Owner
<1>3. p \in {{Server, q} : q \in Queue} /\ request[j].queue \in p
    BY <1>2
<1>4. UNCHANGED <<setting, setting.lic, pc, counter, LookedAt, PoolLeft>>
  <2>1. UNCHANGED <<setting, pc, counter>>
      BY DEF Submit, Start, End, shared, promises
  <2> QED
      BY <2>1 DEF LookedAt, PoolLeft
<1>5. assigned \in [Owner -> Nat] /\ assigned' \in [Owner -> Nat]
    BY PbsStep DEF DInv, TypeOK
<1> HIDE DEF p, k
<1>6. CASE UNCHANGED assigned
    BY <1>4, <1>6 DEF Pool!vars
<1>7. CASE Start(j) /\ assigned' # assigned
  <2>1. /\ assigned' = [o \in Owner |-> IF o \in p THEN assigned[o] + k ELSE assigned[o]]
        /\ \A o \in p : setting.lic[o] # Unset => assigned[o] + k <= setting.lic[o]
      BY <1>2, <1>7, Zenon DEF Start, k
  <2>2. \A o \in p : assigned'[o] = assigned[o] + k /\ assigned'[o] - assigned[o] = k
      BY <1>2, <1>5, <2>1
  <2>3. k \in {assigned'[o] - assigned[o] : o \in p}
      BY <1>3, <2>2
  <2>4. Pool!Changes(assigned, assigned', p, k)
      BY <2>1 DEF Pool!Changes
  <2>5. \A o \in p : Pool!Limited(o) => assigned'[o] <= setting.lic[o]
      BY <2>1, <2>2 DEF Pool!Limited
  <2>6. Pool!Use(p)
      BY <1>2, <1>4, <1>5, <2>3, <2>4, <2>5 DEF Pool!Use
  <2> QED
      BY <1>3, <2>6 DEF Pool!Next
<1>8. CASE End(j)
  <2>1. assigned' = [o \in Owner |-> IF o \in p THEN assigned[o] - k ELSE assigned[o]]
      BY <1>2, <1>8, Zenon DEF End, k
  <2>2. \A o \in p : assigned'[o] - assigned[o] = -k
      BY <1>2, <1>5, <2>1
  <2>3. -k \in {assigned'[o] - assigned[o] : o \in p} /\ -k <= 0
      BY <1>2, <1>3, <2>2
  <2>4. Pool!Changes(assigned, assigned', p, -k)
      BY <1>2, <1>5, <2>1 DEF Pool!Changes
  <2>5. Pool!Return(p)
      BY <1>4, <1>5, <2>3, <2>4 DEF Pool!Return
  <2> QED
      BY <1>3, <2>5 DEF Pool!Next
<1> QED
    BY <1>6, <1>7, <1>8 DEF Submit

\* What the server's and the queues' reading look at.
LEMMA LooksAtPool ==
    ASSUME DInv, NEW S \in SUBSET Owner, S \cap LookedAt = {},
           LookedAt' = LookedAt \cup S,
           UNCHANGED <<setting, assigned>>,
           \A o \in Owner : counter'[o] = IF o \in S THEN LeftAt(o) ELSE counter[o]
    PROVE  [Pool!Next]_(Pool!vars)
<1>1. \A o \in Owner :
        PoolLeft'[o] = IF o \in S
                       THEN IF setting.lic[o] # Unset
                            THEN Scale * (setting.lic[o] - assigned[o]) ELSE 0
                       ELSE PoolLeft[o]
    BY DEF PoolLeft, LeftAt
<1>2. PoolLeft' = [o \in Owner |-> PoolLeft'[o]]
    BY DEF PoolLeft
<1>3. PoolLeft' = [o \in Owner |->
                     IF o \in S
                     THEN IF Pool!Limited(o)
                          THEN Scale * (setting.lic[o] - assigned[o]) ELSE 0
                     ELSE PoolLeft[o]]
    BY <1>1, <1>2 DEF Pool!Limited
<1>4. Pool!Look(S)
    BY <1>3 DEF Pool!Look
<1> QED
    BY <1>4 DEF Pool!Next

\* A promise is charged to the owners on the path of the job that have a limit,
\* since these are the ones whose counters are on the list of its queue.
LEMMA PromiseAtPool ==
    ASSUME DInv, AddJob
    PROVE  [Pool!Next]_(Pool!vars)
<1> USE DemandAssumption
<1>1. PICK x \in todo : \E m \in 0..Slots(request[x[1]]) : Promise(x, m)
    BY Zenon DEF AddJob, Promise
<1>2. PICK m \in 0..Slots(request[x[1]]) : Promise(x, m)
    BY <1>1
<1> DEFINE r == request[x[1]]
           p == {Server, r.queue}
           d == m * Share(r)
           L == lists[r.queue]
<1>3. r \in Requests
    BY DEF DInv, TypeOK
<1>4. /\ r.queue \in Queue /\ r.queue \in Owner /\ r.queue # Server
      /\ Slots(r) \in 1..MaxSlots /\ Share(r) \in Nat
      /\ ~AsksLic(r) => Share(r) = 0
  <2>1. r \in Request
      BY <1>3
  <2> QED
      BY <2>1, <1>3, RequestFacts DEF Request
<1>5. m \in Nat /\ d \in Nat /\ (~AsksLic(r) => d = 0) /\ (m = 0 => d = 0)
    BY <1>2, <1>4, NatArithmetic
<1>6. /\ pc = "demand" /\ pc' = "demand"
      /\ UNCHANGED <<setting, assigned, lists>>
    BY DEF AddJob, pbs
<1>7. /\ m > 0 => \A o \in L : d <= counter[o]
      /\ counter' = [o \in Owner |->
                       IF AsksLic(r) /\ o \in L THEN counter[o] - d ELSE counter[o]]
    BY <1>2, Zenon DEF Promise, Admits
<1>8. p \subseteq Owner /\ r.queue \in p /\ p \in {{Server, q} : q \in Queue}
    BY <1>4 DEF Owner
<1>9. /\ LookedAt = Owner /\ LookedAt' = Owner
      /\ PoolLeft = [o \in Owner |-> IF setting.lic[o] # Unset THEN counter[o] ELSE 0]
      /\ PoolLeft' = [o \in Owner |-> IF setting.lic[o] # Unset THEN counter'[o] ELSE 0]
    BY <1>6 DEF LookedAt, PoolLeft
<1>10. \A o \in Owner : setting.lic[o] # Unset => (o \in L <=> o \in p)
    BY <1>4, <1>6 DEF DInv, TypeOK, Listed, Read, Limited, Owner
<1>11. counter \in [Owner -> Nat] /\ counter' \in [Owner -> Int]
    BY <1>5, <1>7 DEF DInv, TypeOK
<1> DEFINE H == {o \in p : setting.lic[o] # Unset}
<1>12. \A o \in Owner : /\ o \in H => PoolLeft[o] = counter[o]
                        /\ o \notin p => (setting.lic[o] = Unset \/ o \notin L)
                        /\ o \in p \ H => PoolLeft[o] = 0
    BY <1>9, <1>10
<1> HIDE DEF r, p, d, L
<1>13. PoolLeft' = [o \in Owner |-> IF o \in H THEN PoolLeft[o] + (-d) ELSE PoolLeft[o]]
  <2>1. \A o \in Owner : PoolLeft'[o] = IF o \in H THEN PoolLeft[o] + (-d) ELSE PoolLeft[o]
    <3> SUFFICES ASSUME NEW o \in Owner
                 PROVE  PoolLeft'[o] = IF o \in H THEN PoolLeft[o] + (-d) ELSE PoolLeft[o]
        OBVIOUS
    <3>1. CASE setting.lic[o] = Unset
        BY <1>9, <3>1
    <3>2. CASE setting.lic[o] # Unset /\ o \in L
        BY <1>5, <1>7, <1>9, <1>10, <1>11, <3>2
    <3>3. CASE setting.lic[o] # Unset /\ o \notin L
        BY <1>7, <1>9, <1>10, <3>3
    <3> QED
        BY <3>1, <3>2, <3>3
  <2> QED
      BY <1>9, <2>1
<1>14. PoolLeft' \in [Owner -> Nat]
  <2>1. counter' \in [Owner -> Nat]
      BY AddJobStep DEF DInv, TypeOK
  <2> QED
      BY <1>9, <2>1
<1>15. \E e \in {PoolLeft'[o] - PoolLeft[o] : o \in p} :
          e <= 0 /\ Pool!Changes(PoolLeft, PoolLeft', {o \in p : Pool!Limited(o)}, e)
  <2>0. {o \in p : Pool!Limited(o)} = H
      BY DEF Pool!Limited
  <2>1. CASE H = {}
    <3>1. PoolLeft'[r.queue] - PoolLeft[r.queue] = 0
        BY <1>8, <1>9, <1>12, <1>13, <2>1
    <3>2. Pool!Changes(PoolLeft, PoolLeft', H, 0)
        BY <1>13, <2>1 DEF Pool!Changes
    <3>3. 0 \in {PoolLeft'[o] - PoolLeft[o] : o \in p} /\ 0 <= 0
        BY <1>8, <3>1
    <3>4. Pool!Changes(PoolLeft, PoolLeft', {o \in p : Pool!Limited(o)}, 0)
        BY <2>0, <3>2, Zenon
    <3> QED
        BY <3>3, <3>4, Zenon
  <2>2. CASE H # {}
    <3>1. PICK o \in H : TRUE
        BY <2>2
    <3>2. o \in p /\ o \in Owner
        BY <1>8, <3>1
    <3>3. PoolLeft'[o] - PoolLeft[o] = -d
        BY <1>5, <1>11, <1>12, <1>13, <3>1, <3>2
    <3>4. Pool!Changes(PoolLeft, PoolLeft', H, -d)
        BY <1>13 DEF Pool!Changes
    <3>5. -d \in {PoolLeft'[q] - PoolLeft[q] : q \in p} /\ -d <= 0
        BY <1>5, <3>2, <3>3
    <3>6. Pool!Changes(PoolLeft, PoolLeft', {q \in p : Pool!Limited(q)}, -d)
        BY <2>0, <3>4, Zenon
    <3> QED
        BY <3>5, <3>6, Zenon
  <2> QED
      BY <2>1, <2>2
<1>16. Pool!Grant(p)
    BY <1>6, <1>8, <1>9, <1>14, <1>15 DEF Pool!Grant
<1> QED
    BY <1>8, <1>16 DEF Pool!Next

\* The counters of an iteration are one pool for the jobs of all queues, for any
\* queues, limits and requests (the lists of parse_resource_state hold the
\* counters themselves).
THEOREM DemandImplementsPool == Spec => ImplementsPool
<1> USE DemandAssumption
<1>1. Init => Pool!Init
  <2> SUFFICES ASSUME Init PROVE Pool!Init
      OBVIOUS
  <2>1. pc = "server" /\ assigned = [o \in Owner |-> 0]
      BY DEF Init
  <2>2. LookedAt = {}
      BY <2>1 DEF LookedAt
  <2>3. setting.lic \in [Owner -> Nat \cup {Unset}]
      BY DEF Init, Setting
  <2> QED
      BY <2>1, <2>2, <2>3 DEF PoolLeft, Pool!Init
<1>2. DInv /\ [Next]_vars => [Pool!Next]_(Pool!vars)
  <2> SUFFICES ASSUME DInv, [Next]_vars PROVE [Pool!Next]_(Pool!vars)
      OBVIOUS
  <2>1. CASE ReadServer
    <3>1. /\ pc = "server" /\ pc' = "queues" /\ UNCHANGED <<setting, assigned>>
          /\ counter' = [counter EXCEPT ![Server] = LeftAt(Server)]
        BY <2>1 DEF ReadServer, pbs
    <3>2. {Server} \in SUBSET Owner /\ LookedAt = {} /\ LookedAt' = {Server}
        BY <3>1 DEF LookedAt, Owner
    <3>3. \A o \in Owner : counter'[o] = IF o \in {Server} THEN LeftAt(o) ELSE counter[o]
        BY <3>1 DEF DInv, TypeOK
    <3> HIDE DEF LookedAt
    <3> QED
        BY <3>1, <3>2, <3>3, LooksAtPool
  <2>2. CASE ReadQueues
    <3>1. /\ pc = "queues" /\ pc' = "jobs" /\ UNCHANGED <<setting, assigned>>
          /\ counter' = [o \in Owner |-> IF o = Server THEN counter[o] ELSE LeftAt(o)]
        BY <2>2 DEF ReadQueues, pbs
    <3>2. /\ Owner \ {Server} \in SUBSET Owner
          /\ LookedAt = {Server} /\ LookedAt' = Owner
          /\ (Owner \ {Server}) \cap LookedAt = {}
          /\ LookedAt' = LookedAt \cup (Owner \ {Server})
        BY <3>1 DEF LookedAt, Owner
    <3>3. \A o \in Owner :
            counter'[o] = IF o \in Owner \ {Server} THEN LeftAt(o) ELSE counter[o]
        BY <3>1
    <3> QED
        BY <3>1, <3>2, <3>3, LooksAtPool
  <2>3. CASE ReadJobs \/ ReadJobsRaises
    <3>1. /\ pc = "jobs" /\ pc' \in {"demand", "raised"}
          /\ UNCHANGED <<setting, assigned, counter>>
        BY <2>3 DEF ReadJobs, ReadJobsRaises, pbs, shared
    <3>2. UNCHANGED <<LookedAt, PoolLeft, setting.lic, assigned>>
        BY <3>1 DEF LookedAt, PoolLeft
    <3> QED
        BY <3>2 DEF Pool!vars
  <2>4. CASE AddJob
      BY <2>4, PromiseAtPool
  <2>5. CASE NextIteration
    <3>1. pc' = "server" /\ UNCHANGED <<setting, assigned>>
        BY <2>5 DEF NextIteration, pbs
    <3>2. LookedAt' = {}
        BY <3>1 DEF LookedAt
    <3>3. PoolLeft' = [o \in Owner |-> 0]
        BY <3>2 DEF PoolLeft
    <3>4. Pool!NextRound
        BY <3>1, <3>2, <3>3 DEF Pool!NextRound
    <3> QED
        BY <3>4 DEF Pool!Next
  <2>6. CASE \E j \in Job : Submit(j) \/ Start(j) \/ End(j)
      BY <2>6, PbsAtPool
  <2>7. CASE UNCHANGED vars
    <3>1. UNCHANGED <<LookedAt, PoolLeft, setting.lic, assigned>>
        BY <2>7 DEF vars, pbs, shared, LookedAt, PoolLeft
    <3> QED
        BY <3>1 DEF Pool!vars
  <2> QED
      BY <2>1, <2>2, <2>3, <2>4, <2>5, <2>6, <2>7 DEF Next
<1> QED
    BY <1>1, <1>2, DInvAlways, PTL DEF Spec, ImplementsPool, Pool!Spec
\* What the pool keeps to: PBS is within the limits, and what is left is there.
PoolInv ==
    /\ setting.lic \in [Owner -> Nat \cup {Unset}]
    /\ assigned \in [Owner -> Nat]
    /\ \A o \in Owner : setting.lic[o] # Unset => assigned[o] <= setting.lic[o]
    /\ PoolLeft \in [Owner -> Nat]

\* PBS uses and returns units.
LEMMA PoolUse ==
    ASSUME PoolInv, NEW p \in SUBSET Owner, Pool!Use(p) \/ Pool!Return(p)
    PROVE  PoolInv' /\ PoolLeft' = PoolLeft
<1>1. /\ UNCHANGED <<setting.lic, PoolLeft>>
      /\ assigned' \in [Owner -> Nat]
    BY DEF Pool!Use, Pool!Return
<1>2. PICK d \in {assigned'[o] - assigned[o] : o \in p} :
             /\ Pool!Changes(assigned, assigned', p, d)
             /\ Pool!Return(p) => d <= 0
             /\ Pool!Use(p) \/ d <= 0
    BY Zenon DEF Pool!Use, Pool!Return
<1>3. /\ d \in Int
      /\ assigned' = [o \in Owner |-> IF o \in p THEN assigned[o] + d ELSE assigned[o]]
    BY <1>1, <1>2 DEF PoolInv, Pool!Changes
<1>4. ASSUME NEW o \in Owner, setting.lic[o] # Unset
      PROVE  assigned'[o] <= setting.lic[o]
  <2>1. /\ setting.lic[o] \in Nat /\ assigned[o] \in Nat /\ assigned'[o] \in Nat
        /\ assigned[o] <= setting.lic[o]
      BY <1>1, <1>4 DEF PoolInv
  <2>2. CASE o \notin p
      BY <1>3, <2>1, <2>2
  <2>3. CASE o \in p /\ d <= 0
      BY <1>3, <2>1, <2>3
  <2>4. CASE o \in p /\ Pool!Use(p)
      BY <1>4, <2>4 DEF Pool!Use, Pool!Limited
  <2> QED
      BY <1>2, <2>2, <2>3, <2>4
<1> QED
    BY <1>1, <1>4 DEF PoolInv

\* A grant takes from what is left.
LEMMA PoolGrant ==
    ASSUME PoolInv, NEW p \in SUBSET Owner, Pool!Grant(p)
    PROVE  PoolInv' /\ \A o \in Owner : PoolLeft'[o] <= PoolLeft[o]
<1>1. UNCHANGED <<setting.lic, assigned>> /\ PoolLeft' \in [Owner -> Nat]
    BY DEF Pool!Grant
<1>2. PoolInv'
    BY <1>1 DEF PoolInv
<1> DEFINE H == {o \in p : Pool!Limited(o)}
<1>3. PICK d \in {PoolLeft'[o] - PoolLeft[o] : o \in p} :
             d <= 0 /\ Pool!Changes(PoolLeft, PoolLeft', H, d)
    BY Zenon DEF Pool!Grant
<1>4. /\ d \in Int
      /\ PoolLeft' = [o \in Owner |-> IF o \in H THEN PoolLeft[o] + d ELSE PoolLeft[o]]
    BY <1>1, <1>3 DEF PoolInv, Pool!Changes
<1> HIDE DEF H
<1>5. \A o \in Owner : PoolLeft'[o] <= PoolLeft[o]
    BY <1>1, <1>3, <1>4 DEF PoolInv
<1> QED
    BY <1>2, <1>5

\* A look at owners not looked at before leaves the others as they are.
LEMMA PoolLook ==
    ASSUME PoolInv, NEW S \in SUBSET Owner, Pool!Look(S)
    PROVE  PoolInv' /\ \A o \in LookedAt : o \in Owner => PoolLeft'[o] = PoolLeft[o]
<1> USE DemandAssumption
<1>1. /\ UNCHANGED <<setting.lic, assigned>>
      /\ S \cap LookedAt = {}
      /\ PoolLeft' = [o \in Owner |->
                        IF o \in S
                        THEN IF Pool!Limited(o)
                             THEN Scale * (setting.lic[o] - assigned[o]) ELSE 0
                        ELSE PoolLeft[o]]
    BY DEF Pool!Look
<1>2. ASSUME NEW o \in Owner, setting.lic[o] # Unset
      PROVE  Scale * (setting.lic[o] - assigned[o]) \in Nat
  <2>1. setting.lic[o] - assigned[o] \in Nat
      BY <1>2 DEF PoolInv
  <2> QED
      BY <2>1, NatArithmetic
<1>3. PoolLeft' \in [Owner -> Nat]
    BY <1>1, <1>2 DEF PoolInv, Pool!Limited
<1>4. PoolInv'
    BY <1>1, <1>3 DEF PoolInv
<1> QED
    BY <1>1, <1>4

\* The abstract pool keeps its promise.
LEMMA PoolOnlyTakes == Pool!Spec => Pool!OnlyTaken
<1> DEFINE Taken == \A o \in Owner : o \in LookedAt /\ o \in LookedAt'
                      => 0 <= PoolLeft'[o] /\ PoolLeft'[o] <= PoolLeft[o]
<1>1. Pool!Init => PoolInv
    BY DemandAssumption DEF Pool!Init, PoolInv
<1>2. PoolInv /\ [Pool!Next]_(Pool!vars) => PoolInv' /\ [Taken]_(Pool!vars)
  <2> SUFFICES ASSUME PoolInv, [Pool!Next]_(Pool!vars)
               PROVE  PoolInv' /\ [Taken]_(Pool!vars)
      OBVIOUS
  <2>1. \A o \in Owner : PoolLeft[o] \in Nat
      BY DEF PoolInv
  <2>2. CASE \E p \in {{Server, q} : q \in Queue} :
               Pool!Use(p) \/ Pool!Return(p) \/ Pool!Grant(p)
    <3>1. PICK p \in SUBSET Owner : Pool!Use(p) \/ Pool!Return(p) \/ Pool!Grant(p)
        BY <2>2 DEF Owner
    <3>2. PoolInv' /\ \A o \in Owner : PoolLeft'[o] <= PoolLeft[o]
        BY <2>1, <3>1, PoolUse, PoolGrant
    <3>3. \A o \in Owner : PoolLeft'[o] \in Nat
        BY <3>2 DEF PoolInv
    <3> QED
        BY <3>2, <3>3
  <2>3. CASE \E S \in SUBSET Owner : Pool!Look(S)
    <3>1. PoolInv' /\ \A o \in LookedAt : o \in Owner => PoolLeft'[o] = PoolLeft[o]
        BY <2>3, PoolLook
    <3> QED
        BY <2>1, <3>1
  <2>4. CASE Pool!NextRound
    <3>1. UNCHANGED <<setting.lic, assigned>> /\ PoolLeft' = [o \in Owner |-> 0]
          /\ LookedAt' = {}
        BY <2>4 DEF Pool!NextRound
    <3> QED
        BY <3>1 DEF PoolInv
  <2>5. CASE UNCHANGED Pool!vars
    <3>1. UNCHANGED <<setting.lic, assigned, LookedAt, PoolLeft>>
        BY <2>5 DEF Pool!vars
    <3> QED
        BY <3>1, <2>5 DEF PoolInv
  <2> QED
      BY <2>2, <2>3, <2>4, <2>5 DEF Pool!Next
<1> QED
    BY <1>1, <1>2, PTL DEF Pool!Spec, Pool!OnlyTaken

\* Of the counters of one iteration: what was read as left is only ever taken
\* from until the next iteration, whatever PBS gets back in the meantime.
THEOREM LeftIsOnlyTaken == Spec => Pool!OnlyTaken
BY DemandImplementsPool, PoolOnlyTakes, PTL DEF ImplementsPool
=============================================================================
