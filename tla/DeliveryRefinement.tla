------------------------- MODULE DeliveryRefinement ------------------------
(***************************************************************************)
(* DeliveryQueue implements LeaseQueue.  A leased job is an active row     *)
(* some worker holds; an active row nobody holds is a lost job.            *)
(***************************************************************************)
EXTENDS DeliveryQueue

Owned(i) == \E w \in Workers : pc[w] \in Holding /\ item[w] = i

LeaseState(i) ==
  CASE status[i] = "new"                   -> "absent"
    [] status[i] = "pending"               -> "waiting"
    [] status[i] = "active" /\ Owned(i)    -> "leased"
    [] status[i] = "active" /\ ~Owned(i)   -> "lost"
    [] status[i] = "gone"                  -> "done"

Lease == INSTANCE LeaseQueue WITH
           Jobs <- Items, MaxTries <- MaxRetries + 1,
           state <- [i \in Items |-> LeaseState(i)], tries <- claims

\* Every step of the workers, the administrator, the mail clients and the
\* process is a step of the abstract lease queue or invisible to it.
ImplementsLeaseQueue == Lease!Spec
=============================================================================
