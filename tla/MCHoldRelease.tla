--------------------------- MODULE MCHoldRelease ---------------------------
(* Small instances of HoldRelease for TLC. *)
EXTENDS HoldRelease

Sel(m, summed, label) == [mem |-> m, summed |-> summed, label |-> label]
Plc(a, s, g) == [arrangement |-> a, sharing |-> s, grouping |-> g]
Req(legacy, s, p) == [legacy |-> legacy, skipcycle |-> FALSE, select |-> s, place |-> p]

\* -l nodes=...: PBS adds place=scatter of its own accord
Nodes    == Req(TRUE, Sel("none", FALSE, "none"), Plc("scatter", "none", "none"))
Skip     == [Nodes EXCEPT !.skipcycle = TRUE]
\* -l select=1:mem=4GB, and in two chunks
Upper1   == Req(FALSE, Sel("upper", FALSE, "none"), Plc("none", "excl", "none"))
Upper2   == Req(FALSE, Sel("upper", TRUE, "none"), Plc("pack", "none", "own"))
\* -l select=1:vmem=4GB
Vmem     == Req(FALSE, Sel("vmem", FALSE, "none"), NoPlace)
\* -l place=group=rack alone
Grouped  == Req(TRUE, Sel("none", FALSE, "none"), Plc("none", "none", "own"))

TwoJobs   == 1..2
ThreeJobs == 1..3
Usual     == {Nodes, Skip, Upper1, Upper2, Vmem}
Few       == {Grouped, Vmem}
AllDepends == {"none", "before", "after", "mixed"}
NoAfter    == {"none", "before"}
OnlyAfter  == {"none", "after"}
Scatter    == Plc("free", "none", "queue")
=============================================================================
