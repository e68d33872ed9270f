---------------------------- MODULE MCNodeHealth ----------------------------
(* Small instances of NodeHealth, and with it of NodeJoin, for TLC. *)
EXTENDS NodeHealth

CONSTANTS group, slots

TwoResources == {group, slots}
\* The second instance is in no placement group, the third is.
Values == [i \in 1..MaxInstance |-> IF i = 2 THEN {slots} ELSE {group, slots}]
\* A value of the first instance is False.
Negatives == [i \in 1..MaxInstance |-> IF i = 1 THEN {group} ELSE {}]
=============================================================================
