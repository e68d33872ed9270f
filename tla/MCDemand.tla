----------------------------- MODULE MCDemand -----------------------------
(* Small instances of Demand for TLC. *)
EXTENDS Demand, SequencesExt

CONSTANTS q1, q2

ThreeJobs == 1..3
TwoQueues == {q1, q2}
AllFour   == {"ncpus", "ngpus", "lic", "site"}

C(n, cpus, gpus) == [count |-> n, ncpus |-> cpus, ngpus |-> gpus]

\* The Resource_List PBS makes of a select.
Job1(q, chunks, lic, site, grouping) ==
    [queue |-> q, array |-> FALSE, chunks |-> chunks,
     nodect |-> FoldLeft(LAMBDA n, c : n + c.count, 0, chunks),
     ncpus |-> FoldLeft(LAMBDA n, c : n + c.count * c.ncpus, 0, chunks),
     ngpus |-> FoldLeft(LAMBDA n, c : n + c.count * c.ngpus, 0, chunks),
     lic |-> lic, site |-> site, grouping |-> grouping]

Plain   == Job1(q1, <<C(2, 1, 0)>>, 1, "none", "group=group_id")
Sited   == Job1(q1, <<C(1, 1, 0)>>, 1, "b", "none")
Uneven  == Job1(q2, <<C(1, 3, 0), C(1, 1, 0)>>, 1, "none", "group=host")
Gpu     == Job1(q2, <<C(1, 1, 1), C(2, 0, 0)>>, 2, "a", "none")
NoCores == Job1(q1, <<C(1, 0, 1)>>, 0, "none", "none")
Array   == [Plain EXCEPT !.array = TRUE]

Usual == {Plain, Sited, Uneven, Gpu, NoCores, Array}

By(a, b, c) == [o \in {Server, q1, q2} |-> IF o = q1 THEN b ELSE IF o = q2 THEN c ELSE a]
Set(lic, site, s1, s2) ==
    [lic |-> lic, site |-> site, queue |-> [q \in TwoQueues |-> IF q = q1 THEN s1 ELSE s2]]

Configured == {
    Set(By(2, 1, Unset), By("a", "b", "unset"), "open", "open"),
    Set(By(2, 2, 2), By("a", "unset", "b"), "open", "open"),
    Set(By(Unset, 2, Unset), By("unset", "b", "unset"), "open", "open"),
    Set(By(3, Unset, Unset), By("a", "a", "a"), "ignored", "stopped") }
=============================================================================
