--------------------------- MODULE NodeLease_proofs ---------------------------
(* The promise of the lease, for any set of nodes. *)
EXTENDS NodeLease, TLAPS

\* At the start nothing runs and nothing leaves.
LEMMA InitLInv == Init => LInv
BY DEF Init, LInv

\* Steps of jobs, moms, instances and of the node table of one node.
LEMMA NodeStepLInv ==
    ASSUME LInv, NEW n \in Node,
           \/ Start(n) \/ Finish(n) \/ Contact(n) \/ LoseContact(n) \/ Depart(n)
           \/ Open(n) \/ Reopen(n) \/ Close(n) \/ Drop(n)
    PROVE  LInv'
<1> USE DEF LInv, Barred
<1>1. CASE Start(n)
  BY <1>1 DEF Start
<1>2. CASE Finish(n)
  BY <1>2 DEF Finish
<1>3. CASE Contact(n) \/ LoseContact(n) \/ Depart(n)
  BY <1>3 DEF Contact, LoseContact, Depart
<1>4. CASE Open(n)
  BY <1>4 DEF Open
<1>5. CASE Reopen(n)
  BY <1>5 DEF Reopen
<1>6. CASE Close(n)
  BY <1>6 DEF Close
<1>7. CASE Drop(n)
  BY <1>7 DEF Drop
<1> QED
  BY <1>1, <1>2, <1>3, <1>4, <1>5, <1>6, <1>7

\* What a look found closed and free is so until somebody reopens it, and a
\* release takes no other node that PBS may use.
LEMMA NextLInv ==
    ASSUME LInv, [Next]_vars
    PROVE  LInv'
<1> USE DEF LInv, Barred
<1>1. CASE Look
  BY <1>1 DEF Look
<1>2. CASE Forget
  BY <1>2 DEF Forget
<1>3. CASE Take
  BY <1>3 DEF Take
<1>4. ASSUME NEW S \in SUBSET Node, Arrive(S) \/ Release(S)
      PROVE  LInv'
  BY <1>4 DEF Arrive, Release
<1>5. CASE UNCHANGED vars
  BY <1>5 DEF vars
<1> QED
  BY <1>1, <1>2, <1>3, <1>4, <1>5, NodeStepLInv DEF Next

\* An instance is handed back under a job only if the look excused it.
THEOREM LeaseLeavesIdle == Spec => []LeavesIdle
<1>1. LInv => LeavesIdle
  BY DEF LInv, LeavesIdle
<1> QED
  BY <1>1, InitLInv, NextLInv, PTL DEF Spec
=============================================================================
