------------------------ MODULE DeliveryQueueProofs ------------------------
(***************************************************************************)
(* Theorems about DeliveryQueue, for any number of items, workers and      *)
(* retries, either blob backend, with or without crashes and faults; the   *)
(* last part proves that it implements LeaseQueue.                         *)
(***************************************************************************)
EXTENDS DeliveryRefinement, FiniteSetTheorems, TLAPS

-----------------------------------------------------------------------------
(* Type correctness.                                                       *)

\* The backoff of nextAttempt stays inside the schedule.
LEMMA BackoffType ==
  ASSUME NEW k \in Nat
  PROVE  Backoff(k) \in Nat
  BY DelaysAssumption DEF Backoff

\* What the body of deliverNext does to a worker's local state keeps the
\* types: every step goes to a known place with its claim, or drops both.
LEMMA DeliverType ==
  ASSUME TypeOK, NEW w \in Workers, Deliver(w)
  PROVE  TypeOK'
  <1> USE ItemsAssumption, BoundsAssumption DEF TypeOK, Goto, Return, Steps,
          Accept, DropRow, Status, rowVars, procVars, histVars
  <1>1. CASE LoadMessage(w)
    BY <1>1 DEF LoadMessage
  <1>2. CASE ReadBlob(w)
    BY <1>2 DEF ReadBlob
  <1>3. CASE Route(w)
    BY <1>3, SwitchAssumption DEF Route
  <1>4. CASE LocalPut(w)
    BY <1>4 DEF LocalPut, BlobPut
  <1>5. CASE LocalInsert(w)
    BY <1>5 DEF LocalInsert
  <1>6. CASE LocalCleanup(w)
    BY <1>6 DEF LocalCleanup, BlobDelete
  <1>7. CASE Relay(w)
    BY <1>7 DEF Relay, Refused
  <1>8. CASE LookupMX(w)
    BY <1>8 DEF LookupMX
  <1>9. CASE TryMX(w)
    BY <1>9 DEF TryMX, Refused
  <1>10. CASE Complete(w)
    BY <1>10 DEF Complete
  <1>11. CASE FailSilent(w)
    BY <1>11, BackoffType DEF FailSilent, Fail, FailError, RetriesUsedUp, Queued
  <1>12. CASE FailNotify(w)
    BY <1>12, BackoffType DEF FailNotify, Fail, FailError, RetriesUsedUp, Queued
  <1>13. CASE BounceMessage(w)
    BY <1>13 DEF BounceMessage
  <1> QED
    BY <1>1, <1>2, <1>3, <1>4, <1>5, <1>6, <1>7, <1>8, <1>9, <1>10, <1>11,
       <1>12, <1>13 DEF Deliver

\* Every step of the system keeps the types.
LEMMA NextType ==
  ASSUME TypeOK, [Next]_vars
  PROVE  TypeOK'
  <1> USE ItemsAssumption, BoundsAssumption DEF TypeOK, Steps, ProdSteps, Status,
          DropRow, rowVars, procVars, histVars
  <1>1. ASSUME NEW S \in SUBSET Items, StoreBody(S)
        PROVE  TypeOK'
    BY <1>1 DEF StoreBody, BlobPut
  <1>2. ASSUME NEW i \in Items, Submit(i)
        PROVE  TypeOK'
    BY <1>2 DEF Submit, InsertMessage, UndoStore, Enqueue, ProdGoto, BlobDelete
  <1>3. ASSUME NEW i \in Items, AdminDelete(i)
        PROVE  TypeOK'
    BY <1>3 DEF AdminDelete
  <1>4. ASSUME NEW i \in Items, DeleteMessage(i) \/ MoveSender(i)
        PROVE  TypeOK'
    BY <1>4 DEF DeleteMessage, MoveSender
  <1>5. ASSUME NEW w \in Workers, NEW i \in Items, ClaimNext(w, i)
        PROVE  TypeOK'
    BY <1>5 DEF ClaimNext, Claimable, Goto
  <1>6. ASSUME NEW w \in Workers, Deliver(w)
        PROVE  TypeOK'
    BY <1>6, DeliverType
  <1>7. CASE Tick
    BY <1>7 DEF Tick
  <1>8. CASE Shutdown
    BY <1>8 DEF Shutdown
  <1>9. CASE Exit
    BY <1>9 DEF Exit
  <1>10. CASE Restart
    BY <1>10 DEF Restart
  <1>11. CASE UNCHANGED vars
    BY <1>11 DEF vars
  <1> QED
    BY <1>1, <1>2, <1>3, <1>4, <1>5, <1>6, <1>7, <1>8, <1>9, <1>10, <1>11
    DEF Next

\* Every variable of the queue model keeps its type: attempt_count never
\* passes MaxRetries, and a busy worker always has a claim.
THEOREM TypeCorrect == Spec => []TypeOK
  <1>1. Init => TypeOK
    BY ItemsAssumption, BoundsAssumption DEF Init, TypeOK, Status, Steps, ProdSteps
  <1> QED
    BY <1>1, NextType, PTL DEF Spec
-----------------------------------------------------------------------------
(* What the steps of a delivery do, for the invariants.                    *)

\* Everything the invariants about rows and outcomes read, but pc and item.
ledger == <<status, attempts, messages, prod, claims, accepts, ndrs, removed>>

Trying == Holding \ {"complete"}

\* A step inside an attempt that decides nothing.
Quiet(w) ==
  /\ pc[w] \in Trying
  /\ \E s \in Trying : pc' = [pc EXCEPT ![w] = s]
  /\ UNCHANGED <<item, ledger, procVars>>

\* The recipient's server or INBOX has taken the body.
Handover(w) ==
  /\ pc[w] \in Trying
  /\ \E s \in Holding : /\ s # "complete" => LateErrors
                        /\ pc' = [pc EXCEPT ![w] = s]
  /\ Accept(w)
  /\ UNCHANGED <<item, status, attempts, messages, prod, claims, ndrs, removed,
                 procVars>>

\* The worker leaves deliverNext.
Leave(w) ==
  /\ pc[w] \in Trying
  /\ pc' = [pc EXCEPT ![w] = "idle"]
  /\ item' = [item EXCEPT ![w] = NoItem]

\* Fail puts the row back.
Requeued(w) ==
  /\ Leave(w)
  /\ status[item[w]] \in Queued
  /\ attempts[item[w]] < MaxRetries
  /\ status' = [status EXCEPT ![item[w]] = "pending"]
  /\ attempts' = [attempts EXCEPT ![item[w]] = @ + 1]
  /\ UNCHANGED <<messages, prod, claims, accepts, ndrs, removed, procVars>>

\* Fail deletes the row after the last attempt.
Exhausted(w) ==
  /\ pc[w] \in Trying
  /\ \/ Leave(w)
     \/ pc' = [pc EXCEPT ![w] = "bounce"] /\ UNCHANGED item
  /\ status[item[w]] \in Queued
  /\ attempts[item[w]] = MaxRetries
  /\ DropRow(item[w])
  /\ UNCHANGED <<attempts, messages, prod, claims, accepts, ndrs, removed,
                 procVars>>

\* Fail returns an error and changes nothing.
GivenUp(w) ==
  /\ Leave(w)
  /\ DbFails \/ status[item[w]] \notin Queued
  /\ UNCHANGED <<ledger, procVars>>

\* deliverNext, sorted by what a step means for the queue.
LEMMA DeliverKinds ==
  ASSUME TypeOK, NEW w \in Workers, Deliver(w)
  PROVE  \/ Quiet(w) \/ Handover(w)
         \/ Requeued(w) \/ Exhausted(w) \/ GivenUp(w)
         \/ Complete(w) \/ BounceMessage(w)
  <1> USE BoundsAssumption DEF TypeOK, Goto, Holding, Trying, Steps, ledger, rowVars, procVars,
              histVars, Quiet, Handover
  <1>1. CASE LoadMessage(w)
    BY <1>1 DEF LoadMessage
  <1>2. CASE ReadBlob(w)
    BY <1>2 DEF ReadBlob
  <1>3. CASE Route(w)
    BY <1>3, SwitchAssumption DEF Route
  <1>4. CASE LocalPut(w)
    BY <1>4 DEF LocalPut
  <1>5. CASE LocalInsert(w)
    BY <1>5 DEF LocalInsert
  <1>6. CASE LocalCleanup(w)
    BY <1>6 DEF LocalCleanup
  <1>7. CASE Relay(w)
    BY <1>7 DEF Relay, Refused
  <1>8. CASE LookupMX(w)
    BY <1>8 DEF LookupMX
  <1>9. CASE TryMX(w)
    BY <1>9 DEF TryMX, Refused
  <1>10. ASSUME NEW from \in {"failSilent", "failNotify"}, NEW last,
                Fail(w, from, last), UNCHANGED <<messages, prod, procVars, histVars>>
         PROVE  Requeued(w) \/ Exhausted(w)
    BY <1>10 DEF Fail, RetriesUsedUp, Return, Leave, Requeued, Exhausted
  <1>11. ASSUME NEW from \in {"failSilent", "failNotify"},
                FailError(w, from), UNCHANGED <<messages, prod, procVars, histVars>>
         PROVE  GivenUp(w)
    BY <1>11 DEF FailError, Return, Leave, GivenUp
  <1>12. CASE FailSilent(w)
    BY <1>10, <1>11, <1>12 DEF FailSilent
  <1>13. CASE FailNotify(w)
    BY <1>10, <1>11, <1>13 DEF FailNotify
  <1> QED
    BY <1>1, <1>2, <1>3, <1>4, <1>5, <1>6, <1>7, <1>8, <1>9, <1>12, <1>13
    DEF Deliver

\* A row is held by the one worker that made it active.
LEMMA OwnerStep ==
  ASSUME TypeOK, OwnerInv, BudgetInv, [Next]_vars
  PROVE  OwnerInv'
  <1> USE ItemsAssumption, BoundsAssumption DEF TypeOK, Goto, Return, Holding,
          Steps, Status, Queued, DropRow, rowVars, procVars, histVars, ledger,
          OwnerInv, ExclusiveClaim
  <1>1. ASSUME NEW S \in SUBSET Items, StoreBody(S)
        PROVE  OwnerInv'
    BY <1>1 DEF StoreBody
  <1>2. ASSUME NEW i \in Items, Submit(i)
        PROVE  OwnerInv'
    BY <1>2 DEF Submit, InsertMessage, UndoStore, Enqueue, ProdGoto, BudgetInv
  <1>3. ASSUME NEW i \in Items, AdminDelete(i)
        PROVE  OwnerInv'
    BY <1>3 DEF AdminDelete
  <1>4. ASSUME NEW i \in Items, DeleteMessage(i) \/ MoveSender(i)
        PROVE  OwnerInv'
    BY <1>4 DEF DeleteMessage, MoveSender
  <1>5. ASSUME NEW w \in Workers, NEW i \in Items, ClaimNext(w, i)
        PROVE  OwnerInv'
    BY <1>5 DEF ClaimNext, Claimable
  <1>6. ASSUME NEW w \in Workers, Deliver(w)
        PROVE  OwnerInv'
    <2>1. CASE Quiet(w)
      BY <2>1 DEF Quiet, Trying
    <2>2. CASE Handover(w)
      BY <2>2 DEF Handover, Trying, Accept
    <2>3. CASE Complete(w)
      BY <2>3 DEF Complete
    <2>4. CASE Requeued(w)
      BY <2>4 DEF Requeued, Leave, Trying
    <2>5. CASE Exhausted(w)
      BY <2>5 DEF Exhausted, Leave, Trying
    <2>6. CASE GivenUp(w)
      BY <2>6 DEF GivenUp, Leave, Trying
    <2>7. CASE BounceMessage(w)
      BY <2>7 DEF BounceMessage
    <2> QED
      BY <1>6, <2>1, <2>2, <2>3, <2>4, <2>5, <2>6, <2>7, DeliverKinds
  <1>7. CASE Tick
    BY <1>7 DEF Tick
  <1>8. CASE Shutdown
    BY <1>8 DEF Shutdown
  <1>9. CASE Exit
    BY <1>9 DEF Exit
  <1>10. CASE Restart
    BY <1>10 DEF Restart
  <1>11. CASE UNCHANGED vars
    BY <1>11 DEF vars
  <1> QED
    BY <1>1, <1>2, <1>3, <1>4, <1>5, <1>6, <1>7, <1>8, <1>9, <1>10, <1>11
    DEF Next

\* Claims and attempt_count move together.
LEMMA BudgetStep ==
  ASSUME TypeOK, OwnerInv, BudgetInv, [Next]_vars
  PROVE  BudgetInv'
  <1> USE ItemsAssumption, BoundsAssumption DEF TypeOK, Goto, Return, Holding,
          Steps, Status, Queued, DropRow, rowVars, procVars, histVars, ledger,
          OwnerInv, ExclusiveClaim, BudgetInv, AttemptBudget
  <1>1. ASSUME NEW S \in SUBSET Items, StoreBody(S)
        PROVE  BudgetInv'
    BY <1>1 DEF StoreBody
  <1>2. ASSUME NEW i \in Items, Submit(i)
        PROVE  BudgetInv'
    BY <1>2 DEF Submit, InsertMessage, UndoStore, Enqueue, ProdGoto
  <1>3. ASSUME NEW i \in Items, AdminDelete(i)
        PROVE  BudgetInv'
    BY <1>3 DEF AdminDelete
  <1>4. ASSUME NEW i \in Items, DeleteMessage(i) \/ MoveSender(i)
        PROVE  BudgetInv'
    BY <1>4 DEF DeleteMessage, MoveSender
  <1>5. ASSUME NEW w \in Workers, NEW i \in Items, ClaimNext(w, i)
        PROVE  BudgetInv'
    BY <1>5 DEF ClaimNext, Claimable
  <1>6. ASSUME NEW w \in Workers, Deliver(w)
        PROVE  BudgetInv'
    <2>1. CASE Quiet(w)
      BY <2>1 DEF Quiet, Trying
    <2>2. CASE Handover(w)
      BY <2>2 DEF Handover, Trying, Accept
    <2>3. CASE Complete(w)
      BY <2>3 DEF Complete
    <2>4. CASE Requeued(w)
      BY <2>4 DEF Requeued, Leave, Trying
    <2>5. CASE Exhausted(w)
      BY <2>5 DEF Exhausted, Leave, Trying
    <2>6. CASE GivenUp(w)
      BY <2>6 DEF GivenUp, Leave, Trying
    <2>7. CASE BounceMessage(w)
      BY <2>7 DEF BounceMessage
    <2> QED
      BY <1>6, <2>1, <2>2, <2>3, <2>4, <2>5, <2>6, <2>7, DeliverKinds
  <1>7. CASE Tick
    BY <1>7 DEF Tick
  <1>8. CASE Shutdown
    BY <1>8 DEF Shutdown
  <1>9. CASE Exit
    BY <1>9 DEF Exit
  <1>10. CASE Restart
    BY <1>10 DEF Restart
  <1>11. CASE UNCHANGED vars
    BY <1>11 DEF vars
  <1> QED
    BY <1>1, <1>2, <1>3, <1>4, <1>5, <1>6, <1>7, <1>8, <1>9, <1>10, <1>11
    DEF Next

\* Rows leave, and bounces appear, only with their reasons.
LEMMA OutcomeStep ==
  ASSUME TypeOK, OwnerInv, BudgetInv, OutcomeInv, [Next]_vars
  PROVE  OutcomeInv'
  <1> USE ItemsAssumption, BoundsAssumption DEF TypeOK, Goto, Return, Holding,
          Steps, Status, Queued, DropRow, rowVars, procVars, histVars, ledger,
          OwnerInv, ExclusiveClaim, BudgetInv, AttemptBudget,
          OutcomeInv, NothingVanishes
  <1>1. ASSUME NEW S \in SUBSET Items, StoreBody(S)
        PROVE  OutcomeInv'
    BY <1>1 DEF StoreBody
  <1>2. ASSUME NEW i \in Items, Submit(i)
        PROVE  OutcomeInv'
    BY <1>2 DEF Submit, InsertMessage, UndoStore, Enqueue, ProdGoto
  <1>3. ASSUME NEW i \in Items, AdminDelete(i)
        PROVE  OutcomeInv'
    BY <1>3 DEF AdminDelete
  <1>4. ASSUME NEW i \in Items, DeleteMessage(i) \/ MoveSender(i)
        PROVE  OutcomeInv'
    BY <1>4 DEF DeleteMessage, MoveSender
  <1>5. ASSUME NEW w \in Workers, NEW i \in Items, ClaimNext(w, i)
        PROVE  OutcomeInv'
    BY <1>5 DEF ClaimNext, Claimable
  <1>6. ASSUME NEW w \in Workers, Deliver(w)
        PROVE  OutcomeInv'
    <2>1. CASE Quiet(w)
      BY <2>1 DEF Quiet, Trying
    <2>2. CASE Handover(w)
      BY <2>2 DEF Handover, Trying, Accept
    <2>3. CASE Complete(w)
      BY <2>3 DEF Complete
    <2>4. CASE Requeued(w)
      BY <2>4 DEF Requeued, Leave, Trying
    <2>5. CASE Exhausted(w)
      BY <2>5 DEF Exhausted, Leave, Trying
    <2>6. CASE GivenUp(w)
      BY <2>6 DEF GivenUp, Leave, Trying
    <2>7. CASE BounceMessage(w)
      BY <2>7 DEF BounceMessage
    <2> QED
      BY <1>6, <2>1, <2>2, <2>3, <2>4, <2>5, <2>6, <2>7, DeliverKinds
  <1>7. CASE Tick
    BY <1>7 DEF Tick
  <1>8. CASE Shutdown
    BY <1>8 DEF Shutdown
  <1>9. CASE Exit
    BY <1>9 DEF Exit
  <1>10. CASE Restart
    BY <1>10 DEF Restart
  <1>11. CASE UNCHANGED vars
    BY <1>11 DEF vars
  <1> QED
    BY <1>1, <1>2, <1>3, <1>4, <1>5, <1>6, <1>7, <1>8, <1>9, <1>10, <1>11
    DEF Next

\* Without late errors no body is handed over twice.
LEMMA OnceStep ==
  ASSUME TypeOK, OwnerInv, BudgetInv, OutcomeInv, OnceInv, [Next]_vars
  PROVE  OnceInv'
  <1> USE ItemsAssumption, BoundsAssumption DEF TypeOK, Goto, Return, Holding,
          Steps, Status, Queued, DropRow, rowVars, procVars, histVars, ledger,
          OwnerInv, ExclusiveClaim, OutcomeInv, OnceInv
  <1>1. ASSUME NEW S \in SUBSET Items, StoreBody(S)
        PROVE  OnceInv'
    BY <1>1 DEF StoreBody
  <1>2. ASSUME NEW i \in Items, Submit(i)
        PROVE  OnceInv'
    BY <1>2 DEF Submit, InsertMessage, UndoStore, Enqueue, ProdGoto, BudgetInv
  <1>3. ASSUME NEW i \in Items, AdminDelete(i)
        PROVE  OnceInv'
    BY <1>3 DEF AdminDelete
  <1>4. ASSUME NEW i \in Items, DeleteMessage(i) \/ MoveSender(i)
        PROVE  OnceInv'
    BY <1>4 DEF DeleteMessage, MoveSender
  <1>5. ASSUME NEW w \in Workers, NEW i \in Items, ClaimNext(w, i)
        PROVE  OnceInv'
    BY <1>5 DEF ClaimNext, Claimable
  <1>6. ASSUME NEW w \in Workers, Deliver(w)
        PROVE  OnceInv'
    <2>1. CASE Quiet(w)
      BY <2>1 DEF Quiet, Trying
    <2>2. CASE Handover(w)
      BY <2>2 DEF Handover, Trying, Accept
    <2>3. CASE Complete(w)
      BY <2>3 DEF Complete
    <2>4. CASE Requeued(w)
      BY <2>4 DEF Requeued, Leave, Trying
    <2>5. CASE Exhausted(w)
      BY <2>5 DEF Exhausted, Leave, Trying
    <2>6. CASE GivenUp(w)
      BY <2>6 DEF GivenUp, Leave, Trying
    <2>7. CASE BounceMessage(w)
      BY <2>7 DEF BounceMessage
    <2> QED
      BY <1>6, <2>1, <2>2, <2>3, <2>4, <2>5, <2>6, <2>7, DeliverKinds
  <1>7. CASE Tick
    BY <1>7 DEF Tick
  <1>8. CASE Shutdown
    BY <1>8 DEF Shutdown
  <1>9. CASE Exit
    BY <1>9 DEF Exit
  <1>10. CASE Restart
    BY <1>10 DEF Restart
  <1>11. CASE UNCHANGED vars
    BY <1>11 DEF vars
  <1> QED
    BY <1>1, <1>2, <1>3, <1>4, <1>5, <1>6, <1>7, <1>8, <1>9, <1>10, <1>11
    DEF Next
\* The invariants hold when the server first starts.
LEMMA InitInv == Init => TypeOK /\ OwnerInv /\ BudgetInv /\ OutcomeInv /\ OnceInv
  BY ItemsAssumption, BoundsAssumption
  DEF Init, TypeOK, Status, Steps, ProdSteps, Holding, OwnerInv, ExclusiveClaim, BudgetInv,
      AttemptBudget, OutcomeInv, NothingVanishes, OnceInv

\* The inductive invariant: types, ownership, retry budget, outcomes and,
\* without late errors, at most one handover.
THEOREM Inductive ==
  Spec => [](TypeOK /\ OwnerInv /\ BudgetInv /\ OutcomeInv /\ OnceInv)
  <1> DEFINE I == TypeOK /\ OwnerInv /\ BudgetInv /\ OutcomeInv /\ OnceInv
  <1>1. I /\ [Next]_vars => I'
    BY NextType, OwnerStep, BudgetStep, OutcomeStep, OnceStep
  <1> QED
    BY InitInv, <1>1, PTL DEF Spec

\* ClaimNext, Fail, Complete, the admin API and restarts together never give
\* one queue row to two workers.
THEOREM ClaimsAreExclusive == Spec => []ExclusiveClaim
  <1>1. OwnerInv => ExclusiveClaim
    BY DEF OwnerInv
  <1> QED
    BY Inductive, <1>1, PTL

\* Fail bounds the work spent on an item: MaxRetries + 1 claims, counted
\* exactly by attempt_count.
THEOREM BudgetIsKept == Spec => []AttemptBudget
  <1>1. BudgetInv => AttemptBudget
    BY DEF BudgetInv
  <1> QED
    BY Inductive, <1>1, PTL

\* A row leaves the queue only delivered, exhausted or deleted by somebody.
THEOREM NoRowVanishes == Spec => []NothingVanishes
  <1>1. OutcomeInv => NothingVanishes
    BY DEF OutcomeInv
  <1> QED
    BY Inductive, <1>1, PTL

\* Without late errors a body is handed over at most once, whatever crashes.
THEOREM DeliveredAtMostOnce == Spec => []AtMostOnce
  <1>1. OnceInv => AtMostOnce
    BY DEF OnceInv, AtMostOnce
  <1> QED
    BY Inductive, <1>1, PTL

\* A bounce is sent once, after the last attempt, for a row that is gone and
\* (late errors aside) for a message nobody received.
THEOREM BouncesAreHonest == Spec => []HonestBounce
  <1>1. TypeOK /\ OutcomeInv /\ OnceInv => HonestBounce
    BY DEF TypeOK, Status, OutcomeInv, OnceInv, HonestBounce
  <1> QED
    BY Inductive, <1>1, PTL
\* Until the first shutdown no worker abandons an active row.
LEMMA OwnedStep ==
  ASSUME TypeOK, OwnerInv, OwnedInv, [Next]_vars
  PROVE  OwnedInv'
  <1> USE ItemsAssumption, BoundsAssumption DEF TypeOK, Goto, Return, Holding,
          Steps, Status, Queued, DropRow, rowVars, procVars, histVars, ledger,
          OwnerInv, ExclusiveClaim, OwnedInv, ActiveHasOwner, Undisturbed, DbWorks, DbFails
  <1>1. ASSUME NEW S \in SUBSET Items, StoreBody(S)
        PROVE  OwnedInv'
    BY <1>1 DEF StoreBody
  <1>2. ASSUME NEW i \in Items, Submit(i)
        PROVE  OwnedInv'
    BY <1>2 DEF Submit, InsertMessage, UndoStore, Enqueue, ProdGoto
  <1>3. ASSUME NEW i \in Items, AdminDelete(i)
        PROVE  OwnedInv'
    BY <1>3 DEF AdminDelete
  <1>4. ASSUME NEW i \in Items, DeleteMessage(i) \/ MoveSender(i)
        PROVE  OwnedInv'
    BY <1>4 DEF DeleteMessage, MoveSender
  <1>5. ASSUME NEW w \in Workers, NEW i \in Items, ClaimNext(w, i)
        PROVE  OwnedInv'
    BY <1>5 DEF ClaimNext, Claimable
  <1>6. ASSUME NEW w \in Workers, Deliver(w)
        PROVE  OwnedInv'
    <2>1. CASE Quiet(w)
      BY <2>1 DEF Quiet, Trying
    <2>2. CASE Handover(w)
      BY <2>2 DEF Handover, Trying, Accept
    <2>3. CASE Complete(w)
      BY <2>3 DEF Complete
    <2>4. CASE Requeued(w)
      BY <2>4 DEF Requeued, Leave, Trying
    <2>5. CASE Exhausted(w)
      BY <2>5 DEF Exhausted, Leave, Trying
    <2>6. CASE GivenUp(w)
      BY <2>6 DEF GivenUp, Leave, Trying
    <2>7. CASE BounceMessage(w)
      BY <2>7 DEF BounceMessage
    <2> QED
      BY <1>6, <2>1, <2>2, <2>3, <2>4, <2>5, <2>6, <2>7, DeliverKinds
  <1>7. CASE Tick
    BY <1>7 DEF Tick
  <1>8. CASE Shutdown
    BY <1>8 DEF Shutdown
  <1>9. CASE Exit
    BY <1>9 DEF Exit
  <1>10. CASE Restart
    BY <1>10 DEF Restart
  <1>11. CASE UNCHANGED vars
    BY <1>11 DEF vars
  <1> QED
    BY <1>1, <1>2, <1>3, <1>4, <1>5, <1>6, <1>7, <1>8, <1>9, <1>10, <1>11
    DEF Next

\* Ownership is an invariant.
LEMMA OwnedInvariant == Spec => []OwnedInv
  <1>1. Init => OwnedInv
    BY DEF Init, OwnedInv, ActiveHasOwner, Undisturbed
  <1>2. TypeOK /\ OwnerInv /\ OwnedInv /\ [Next]_vars => OwnedInv'
    BY OwnedStep
  <1> QED
    BY Inductive, <1>1, <1>2, PTL DEF Spec

\* Until the first shutdown, and while statements do not fail, deliverNext
\* never returns with its row still active: every path ends in Complete or
\* Fail.
THEOREM ActiveRowsAreOwned == Spec => []ActiveHasOwner
  <1>1. OwnedInv => ActiveHasOwner
    BY DEF OwnedInv
  <1> QED
    BY OwnedInvariant, <1>1, PTL
-----------------------------------------------------------------------------
(* Bodies and their reference counts.                                      *)

\* Borrowers are workers and depositors items, so they can be counted.
LEMMA OwedType ==
  ASSUME NEW b
  PROVE  /\ IsFiniteSet(Borrowers(b)) /\ IsFiniteSet(Depositors(b))
         /\ Cardinality(Borrowers(b)) \in Nat /\ Cardinality(Depositors(b)) \in Nat
         /\ Owed(b) \in Nat
  <1>1. Borrowers(b) \subseteq Workers /\ Depositors(b) \subseteq Items
    BY DEF Borrowers, Depositors
  <1>2. IsFiniteSet(Borrowers(b)) /\ IsFiniteSet(Depositors(b))
    BY <1>1, WorkersAssumption, ItemsAssumption, FS_Subset
  <1>3. Cardinality(Borrowers(b)) \in Nat /\ Cardinality(Depositors(b)) \in Nat
    BY <1>2, FS_CardinalityType
  <1> QED
    BY <1>2, <1>3 DEF Owed

\* The same for the next state.
LEMMA NextOwedType ==
  ASSUME NEW b
  PROVE  /\ IsFiniteSet(Borrowers(b)') /\ IsFiniteSet(Depositors(b)')
         /\ Cardinality(Borrowers(b)') \in Nat /\ Cardinality(Depositors(b)') \in Nat
         /\ Owed(b)' \in Nat
  <1>1. Borrowers(b)' \subseteq Workers /\ Depositors(b)' \subseteq Items
    BY DEF Borrowers, Depositors
  <1>2. IsFiniteSet(Borrowers(b)') /\ IsFiniteSet(Depositors(b)')
    BY <1>1, WorkersAssumption, ItemsAssumption, FS_Subset
  <1>3. Cardinality(Borrowers(b)') \in Nat /\ Cardinality(Depositors(b)') \in Nat
    BY <1>2, FS_CardinalityType
  <1> QED
    BY <1>2, <1>3 DEF Owed

\* Nothing more is owed for a body that keeps its borrowers and depositors,
\* unless it comes to be kept.
LEMMA OwedFrame ==
  ASSUME NEW b,
         Borrowers(b)' = Borrowers(b), Depositors(b)' = Depositors(b)
  PROVE  /\ Owed(b)' <= Owed(b) + 1
         /\ (Kept(b)' => Kept(b)) => Owed(b)' <= Owed(b)
  BY OwedType DEF Owed

\* One more or one fewer of a finite set.
LEMMA OneMore ==
  ASSUME NEW S, NEW x, IsFiniteSet(S)
  PROVE  /\ Cardinality(S) \in Nat
         /\ x \notin S => Cardinality(S \cup {x}) = Cardinality(S) + 1
         /\ x \in S => Cardinality(S \ {x}) = Cardinality(S) - 1
  <1>1. Cardinality(S) \in Nat
    BY FS_CardinalityType
  <1>2. ASSUME x \notin S PROVE Cardinality(S \cup {x}) = Cardinality(S) + 1
    BY <1>2, FS_AddElement
  <1>3. ASSUME x \in S PROVE Cardinality(S \ {x}) = Cardinality(S) - 1
    BY <1>3, FS_RemoveElement
  <1> QED
    BY <1>1, <1>2, <1>3

\* Steps that touch no body, no message row and no submission.
LEMMA CountFrame ==
  ASSUME TypeOK, TypeOK', CountInv,
         \A b \in Blobs : Borrowers(b)' = Borrowers(b),
         messages' \subseteq messages, UNCHANGED <<refs, prod>>
  PROVE  CountInv'
  <1>1. \A b \in Blobs : Depositors(b)' = Depositors(b) /\ (Kept(b)' => Kept(b))
    BY DEF Depositors, Kept
  <1>2. \A b \in Blobs : Owed(b)' <= Owed(b)
    BY <1>1, OwedFrame
  <1> QED
    BY <1>2, OwedType, NextOwedType DEF CountInv, TypeOK

\* A worker enters a local delivery with its Put.
LEMMA CountEnter ==
  ASSUME TypeOK, TypeOK', CountInv, NEW w \in Workers, LocalPut(w)
  PROVE  CountInv'
  <1> DEFINE b0 == BlobOf[item[w]]
  <1>1. item[w] \in Items /\ b0 \in Blobs /\ UNCHANGED <<item, messages, prod>>
    BY ItemsAssumption DEF TypeOK, LocalPut, Goto
  <1>2. CASE Goto(w, "put", "failNotify") /\ UNCHANGED refs
    <2>1. \A b \in Blobs : Borrowers(b)' = Borrowers(b)
      BY <1>1, <1>2 DEF Borrowers, Goto, TypeOK
    <2> QED
      BY <1>1, <1>2, <2>1, CountFrame
  <1>3. CASE Goto(w, "put", "find") /\ refs' = BlobPut(b0)
    <2>1. w \notin Borrowers(b0) /\ Borrowers(b0)' = Borrowers(b0) \cup {w}
      BY <1>1, <1>3 DEF Borrowers, Goto, TypeOK
    <2>2. Cardinality(Borrowers(b0)') = Cardinality(Borrowers(b0)) + 1
      BY <2>1, OwedType, OneMore
    <2>3. \A b \in Blobs : b # b0 => Borrowers(b)' = Borrowers(b)
      BY <1>1, <1>3 DEF Borrowers, Goto, TypeOK
    <2>4. \A b \in Blobs : Depositors(b)' = Depositors(b) /\ (Kept(b)' <=> Kept(b))
      BY <1>1 DEF Depositors, Kept
    <2>5. Owed(b0)' = Owed(b0) + 1
      BY <1>1, <2>2, <2>4, OwedType DEF Owed
    <2>6. \A b \in Blobs : b # b0 => Owed(b)' <= Owed(b)
      BY <2>3, <2>4, OwedFrame
    <2>7. Backend = "sqlite" => refs' = [refs EXCEPT ![b0] = @ + 1]
      BY <1>3 DEF BlobPut
    <2> QED
      BY <1>1, <2>5, <2>6, <2>7, OwedType, NextOwedType DEF CountInv, TypeOK
  <1> QED
    BY <1>2, <1>3 DEF LocalPut

\* Delete takes one reference at most, from one body.
LEMMA DeleteTakesOne ==
  ASSUME TypeOK, NEW b0 \in Blobs, UNCHANGED refs \/ refs' = BlobDelete(b0),
         Backend = "sqlite"
  PROVE  \A b \in Blobs : /\ b # b0 => refs'[b] = refs[b]
                          /\ refs'[b] >= refs[b] - 1
  BY DEF BlobDelete, TypeOK

\* A worker leaves a local delivery, giving back at most its own reference.
LEMMA CountLeave ==
  ASSUME TypeOK, TypeOK', CountInv, NEW w \in Workers,
         pc[w] \in {"find", "cleanup"},
         pc'[w] \notin {"find", "cleanup"},
         \A v \in Workers \ {w} : pc'[v] = pc[v],
         UNCHANGED <<item, messages, prod>>,
         UNCHANGED refs \/ refs' = BlobDelete(BlobOf[item[w]])
  PROVE  CountInv'
  <1> DEFINE b0 == BlobOf[item[w]]
  <1>1. item[w] \in Items /\ b0 \in Blobs
    BY ItemsAssumption DEF TypeOK
  <1>2. w \in Borrowers(b0) /\ Borrowers(b0)' = Borrowers(b0) \ {w}
    BY <1>1 DEF Borrowers
  <1>3. Cardinality(Borrowers(b0)') = Cardinality(Borrowers(b0)) - 1
    BY <1>2, OwedType, OneMore
  <1>4. \A b \in Blobs : b # b0 => Borrowers(b)' = Borrowers(b)
    BY <1>1 DEF Borrowers
  <1>5. \A b \in Blobs : Depositors(b)' = Depositors(b) /\ (Kept(b)' <=> Kept(b))
    BY DEF Depositors, Kept
  <1>6. Owed(b0)' = Owed(b0) - 1
    BY <1>1, <1>3, <1>5, OwedType DEF Owed
  <1>7. \A b \in Blobs : b # b0 => Owed(b)' <= Owed(b)
    BY <1>4, <1>5, OwedFrame
  <1>8. Backend = "sqlite" =>
          \A b \in Blobs : /\ b # b0 => refs'[b] = refs[b]
                           /\ refs'[b] >= refs[b] - 1
    BY <1>1, DeleteTakesOne
  <1> QED
    BY <1>1, <1>6, <1>7, <1>8, OwedType, NextOwedType DEF CountInv, TypeOK

\* deliverNext never gives back more references than it took.
LEMMA CountDeliver ==
  ASSUME TypeOK, TypeOK', CountInv, NEW w \in Workers, Deliver(w)
  PROVE  CountInv'
  <1> USE DEF Goto, Return, rowVars, procVars, histVars
  <1>1. ASSUME NEW from \in {"load", "read", "route", "relay", "lookup", "mx",
                             "complete", "failSilent", "failNotify", "bounce"},
               NEW to \in Steps \ {"find", "cleanup"},
               pc[w] = from, pc' = [pc EXCEPT ![w] = to],
               \A v \in Workers \ {w} : item'[v] = item[v],
               UNCHANGED <<messages, refs, prod>>
        PROVE  CountInv'
    <2>1. \A b \in Blobs : Borrowers(b)' = Borrowers(b)
      BY <1>1 DEF Borrowers, TypeOK
    <2> QED
      BY <1>1, <2>1, CountFrame
  <1>2. CASE LoadMessage(w)
    BY <1>1, <1>2 DEF LoadMessage, Steps
  <1>3. CASE ReadBlob(w)
    BY <1>1, <1>3 DEF ReadBlob, Steps
  <1>4. CASE Route(w)
    <2>1. pc[w] = "route" /\ \E to \in {"put", "relay", "lookup", "failSilent"} :
                                pc' = [pc EXCEPT ![w] = to]
      BY <1>4, SwitchAssumption DEF Route
    <2> QED
      BY <1>1, <1>4, <2>1 DEF Route, Steps
  <1>5. CASE LocalPut(w)
    BY <1>5, CountEnter
  <1>6. CASE LocalInsert(w)
    <2>1. CASE pc' = [pc EXCEPT ![w] = "complete"]
      BY <1>6, <2>1, CountLeave DEF LocalInsert, TypeOK
    <2>2. CASE pc' = [pc EXCEPT ![w] = "cleanup"]
      <3>1. \A b \in Blobs : Borrowers(b)' = Borrowers(b)
        BY <1>6, <2>2 DEF LocalInsert, Borrowers, TypeOK
      <3> QED
        BY <1>6, <3>1, CountFrame DEF LocalInsert
    <2> QED
      BY <1>6, <2>1, <2>2 DEF LocalInsert
  <1>7. CASE LocalCleanup(w)
    BY <1>7, CountLeave DEF LocalCleanup, TypeOK
  <1>8. CASE Relay(w)
    BY <1>1, <1>8 DEF Relay, Refused, Steps
  <1>9. CASE LookupMX(w)
    BY <1>1, <1>9 DEF LookupMX, Steps
  <1>10. CASE TryMX(w)
    BY <1>1, <1>10 DEF TryMX, Refused, Steps
  <1>11. ASSUME pc[w] \in {"complete", "failSilent", "failNotify", "bounce"},
                item' = [item EXCEPT ![w] = NoItem] \/ UNCHANGED item,
                \E to \in {"idle", "bounce"} : pc' = [pc EXCEPT ![w] = to],
                UNCHANGED <<messages, refs, prod>>
         PROVE  CountInv'
    BY <1>1, <1>11 DEF TypeOK, Steps
  <1>12. CASE Complete(w)
    BY <1>11, <1>12 DEF Complete
  <1>13. CASE FailSilent(w)
    BY <1>11, <1>13 DEF FailSilent, Fail, FailError
  <1>14. CASE FailNotify(w)
    BY <1>11, <1>14 DEF FailNotify, Fail, FailError
  <1>15. CASE BounceMessage(w)
    BY <1>11, <1>15 DEF BounceMessage
  <1> QED
    BY <1>2, <1>3, <1>4, <1>5, <1>6, <1>7, <1>8, <1>9, <1>10, <1>12, <1>13,
       <1>14, <1>15 DEF Deliver

\* A submission of the API becomes or ceases to be a depositor of its body.
LEMMA CountSubmit ==
  ASSUME TypeOK, TypeOK', CountInv, NEW i \in Items, Origin[i] = "sent",
         UNCHANGED <<pc, item>>,
         \A j \in Items \ {i} : prod'[j] = prod[j],
         messages' \subseteq messages \cup {i},
         \/ /\ prod[i] = "start" /\ prod'[i] = "stored"
            /\ UNCHANGED messages /\ refs' = BlobPut(BlobOf[i])
         \/ /\ prod[i] = "stored" /\ prod'[i] = "inserted" /\ UNCHANGED refs
         \/ /\ prod[i] = "undo" /\ prod'[i] = "done" /\ UNCHANGED messages
            /\ UNCHANGED refs \/ refs' = BlobDelete(BlobOf[i])
  PROVE  CountInv'
  <1> DEFINE b0 == BlobOf[i]
  <1>1. b0 \in Blobs
    BY ItemsAssumption
  <1>2. \A b \in Blobs : Borrowers(b)' = Borrowers(b)
    BY DEF Borrowers
  <1>3. \A b \in Blobs : b # b0 => Depositors(b)' = Depositors(b) /\ (Kept(b)' => Kept(b))
    BY DEF Depositors, Kept
  <1>4. \A b \in Blobs : b # b0 => Owed(b)' <= Owed(b)
    BY <1>2, <1>3, OwedFrame
  <1>5. CASE prod[i] = "start"
    <2>1. i \notin Depositors(b0) /\ Depositors(b0)' = Depositors(b0) \cup {i}
      BY <1>5 DEF Depositors
    <2>2. Cardinality(Depositors(b0)') = Cardinality(Depositors(b0)) + 1
      BY <2>1, OwedType, OneMore
    <2>3. Kept(b0)' => Kept(b0)
      BY <1>5 DEF Kept
    <2>4. Owed(b0)' <= Owed(b0) + 1
      BY <1>1, <1>2, <2>2, <2>3, OwedType DEF Owed
    <2>5. Backend = "sqlite" => refs' = [refs EXCEPT ![b0] = @ + 1]
      BY <1>5 DEF BlobPut
    <2> QED
      BY <1>1, <1>4, <2>4, <2>5, OwedType, NextOwedType DEF CountInv, TypeOK
  <1>6. CASE prod[i] \in {"stored", "undo"}
    <2>1. i \in Depositors(b0) /\ Depositors(b0)' = Depositors(b0) \ {i}
      BY <1>6 DEF Depositors
    <2>2. Cardinality(Depositors(b0)') = Cardinality(Depositors(b0)) - 1
      BY <2>1, OwedType, OneMore
    <2>3. CASE prod[i] = "stored"
      <3>1. Owed(b0)' <= Owed(b0)
        BY <1>1, <1>2, <2>2, OwedType DEF Owed
      <3> QED
        BY <1>1, <1>4, <2>3, <3>1, OwedType, NextOwedType DEF CountInv, TypeOK
    <2>4. CASE prod[i] = "undo"
      <3>1. Kept(b0)' => Kept(b0)
        BY <2>4 DEF Kept
      <3>2. Owed(b0)' <= Owed(b0) - 1
        BY <1>1, <1>2, <2>2, <3>1, OwedType DEF Owed
      <3>3. Backend = "sqlite" =>
              \A b \in Blobs : /\ b # b0 => refs'[b] = refs[b]
                               /\ refs'[b] >= refs[b] - 1
        BY <1>1, <2>4, DeleteTakesOne
      <3> QED
        BY <1>1, <1>4, <3>2, <3>3, OwedType, NextOwedType DEF CountInv, TypeOK
    <2> QED
      BY <1>6, <2>3, <2>4
  <1> QED
    BY <1>5, <1>6

\* Steps that may make one body kept, and no body owe its depositors more.
LEMMA CountKeep ==
  ASSUME TypeOK, TypeOK', CountInv, UNCHANGED <<pc, item>>,
         \A b \in Blobs : Depositors(b)' = Depositors(b),
         NEW b0 \in Blobs,
         \A b \in Blobs : Kept(b)' => Kept(b) \/ (b = b0 /\ refs' = BlobPut(b0)),
         UNCHANGED refs \/ refs' = BlobPut(b0)
  PROVE  CountInv'
  <1>1. \A b \in Blobs : Borrowers(b)' = Borrowers(b)
    BY DEF Borrowers
  <1>2. \A b \in Blobs : Owed(b)' <= Owed(b) + 1 /\ ((Kept(b)' => Kept(b)) => Owed(b)' <= Owed(b))
    BY <1>1, OwedFrame
  <1>3. Backend = "sqlite" => UNCHANGED refs \/ refs' = [refs EXCEPT ![b0] = @ + 1]
    BY DEF BlobPut
  <1>4. CASE refs' = BlobPut(b0)
    <2>1. \A b \in Blobs : b # b0 => Owed(b)' <= Owed(b)
      BY <1>2
    <2>2. Backend = "sqlite" => refs' = [refs EXCEPT ![b0] = @ + 1]
      BY <1>4 DEF BlobPut
    <2> QED
      BY <1>2, <2>1, <2>2, OwedType, NextOwedType DEF CountInv, TypeOK
  <1>5. CASE refs' # BlobPut(b0)
    <2>1. \A b \in Blobs : Owed(b)' <= Owed(b)
      BY <1>2, <1>5
    <2> QED
      BY <1>5, <2>1, OwedType, NextOwedType DEF CountInv, TypeOK
  <1> QED
    BY <1>4, <1>5

\* No step of the system loses the reference a message row stands for.
LEMMA CountStep ==
  ASSUME TypeOK, TypeOK', BudgetInv, CountInv, [Next]_vars
  PROVE  CountInv'
  <1> USE DEF rowVars, procVars, histVars
  <1>1. ASSUME UNCHANGED <<pc, item>>
        PROVE  \A b \in Blobs : Borrowers(b)' = Borrowers(b)
    BY <1>1 DEF Borrowers
  <1>2. ASSUME NEW S \in SUBSET Items, StoreBody(S)
        PROVE  CountInv'
    <2>1. PICK b0 \in Blobs : (\A i \in S : BlobOf[i] = b0) /\ refs' = BlobPut(b0)
      BY <1>2 DEF StoreBody
    <2>2. /\ UNCHANGED <<pc, item, messages>>
          /\ S # {} /\ \A i \in S : prod[i] = "start" /\ prod'[i] = "stored"
          /\ \A i \in Items \ S : prod'[i] = prod[i]
      BY <1>2 DEF StoreBody
    <2>3. CASE \E i \in S : Origin[i] = "sent"
      <3>1. PICK i \in S : Origin[i] = "sent"
        BY <2>3
      <3>2. \A j \in S : j = i
        BY <1>2, <3>1 DEF StoreBody
      <3>3. /\ i \in Items /\ \A j \in Items \ {i} : prod'[j] = prod[j]
            /\ prod[i] = "start" /\ prod'[i] = "stored" /\ refs' = BlobPut(BlobOf[i])
        BY <2>1, <2>2, <3>2
      <3> QED
        BY <2>2, <3>1, <3>3, CountSubmit
    <2>4. CASE ~\E i \in S : Origin[i] = "sent"
      <3>1. \A b \in Blobs : Depositors(b)' = Depositors(b)
        BY <2>2, <2>4 DEF Depositors
      <3>2. \A b \in Blobs : Kept(b)' => Kept(b) \/ (b = b0 /\ refs' = BlobPut(b0))
        BY <2>1, <2>2 DEF Kept
      <3> QED
        BY <2>1, <2>2, <3>1, <3>2, CountKeep
    <2> QED
      BY <2>3, <2>4
  <1>3. ASSUME NEW i \in Items, Submit(i)
        PROVE  CountInv'
    <2> USE DEF ProdGoto, TypeOK
    <2>0. UNCHANGED <<pc, item>> /\ \A j \in Items \ {i} : prod'[j] = prod[j]
      BY <1>3 DEF Submit, InsertMessage, UndoStore, Enqueue
    <2>1. CASE /\ prod[i] \in {"stored", "inserted"} /\ UNCHANGED refs
               /\ messages' = messages
                  \/ (messages' = messages \cup {i} /\ Origin[i] # "sent" /\ prod[i] = "stored")
               /\ prod[i] = "stored" /\ Origin[i] = "sent" => prod'[i] = "undo"
               /\ prod'[i] \notin {"start", "stored"}
               /\ prod[i] = "inserted" => prod'[i] = "done"
      <3>1. \A b \in Blobs : Depositors(b)' = Depositors(b)
        BY <2>0, <2>1 DEF Depositors
      <3>2. \A b \in Blobs : Kept(b)' => Kept(b)
        BY <2>0, <2>1 DEF Kept
      <3>3. BlobOf[i] \in Blobs
        BY ItemsAssumption
      <3> QED
        BY <2>0, <2>1, <3>1, <3>2, <3>3, CountKeep
    <2>2. CASE Enqueue(i)
      BY <2>1, <2>2 DEF Enqueue
    <2>3. CASE UndoStore(i)
      <3>1. Origin[i] = "sent"
        BY <2>3 DEF UndoStore, BudgetInv
      <3> QED
        BY <2>0, <2>3, <3>1, CountSubmit DEF UndoStore
    <2>4. CASE InsertMessage(i)
      <3>1. CASE prod'[i] = "inserted" /\ Origin[i] = "sent"
        BY <2>0, <2>4, <3>1, CountSubmit DEF InsertMessage
      <3>2. CASE ~(prod'[i] = "inserted" /\ Origin[i] = "sent")
        BY <2>1, <2>4, <3>2 DEF InsertMessage
      <3> QED
        BY <3>1, <3>2
    <2> QED
      BY <1>3, <2>2, <2>3, <2>4 DEF Submit
  <1>4. ASSUME NEW i \in Items, AdminDelete(i) \/ DeleteMessage(i) \/ MoveSender(i)
        PROVE  CountInv'
    BY <1>1, <1>4, CountFrame DEF AdminDelete, DeleteMessage, MoveSender
  <1>5. ASSUME NEW w \in Workers, NEW i \in Items, ClaimNext(w, i)
        PROVE  CountInv'
    <2>1. \A b \in Blobs : Borrowers(b)' = Borrowers(b)
      BY <1>5 DEF ClaimNext, Goto, Borrowers, TypeOK
    <2> QED
      BY <1>5, <2>1, CountFrame DEF ClaimNext
  <1>6. ASSUME NEW w \in Workers, Deliver(w)
        PROVE  CountInv'
    BY <1>6, CountDeliver
  <1>7. CASE Tick \/ Shutdown \/ Restart \/ UNCHANGED vars
    BY <1>1, <1>7, CountFrame DEF Tick, Shutdown, Restart, vars
  <1>8. CASE Exit
    <2>1. \A b \in Blobs : Borrowers(b)' = {} /\ Depositors(b)' = {} /\ (Kept(b)' => Kept(b))
      BY <1>8 DEF Exit, Borrowers, Depositors, Kept
    <2>2. \A b \in Blobs : Owed(b)' <= Owed(b)
      <3>1. \A b \in Blobs : Cardinality(Borrowers(b)') = 0 /\ Cardinality(Depositors(b)') = 0
        BY <2>1, FS_EmptySet
      <3> QED
        BY <2>1, <3>1, OwedType DEF Owed
    <2> QED
      BY <1>8, <2>2, OwedType, NextOwedType DEF Exit, CountInv, TypeOK
  <1> QED
    BY <1>2, <1>3, <1>4, <1>5, <1>6, <1>7, <1>8 DEF Next

\* The file of a stored body goes only with its entry in `discarded`.
LEMMA FileStep ==
  ASSUME TypeOK, FileInv, [Next]_vars
  PROVE  FileInv'
  <1> USE ItemsAssumption DEF TypeOK, FileInv, rowVars, procVars, histVars
  <1>1. ASSUME NEW S \in SUBSET Items, StoreBody(S)
        PROVE  FileInv'
    <2>1. PICK b0 \in Blobs : (\A i \in S : BlobOf[i] = b0) /\ refs' = BlobPut(b0)
      BY <1>1 DEF StoreBody
    <2>2. Backend = "fs" => refs' = [refs EXCEPT ![b0] = 1]
      BY <2>1 DEF BlobPut
    <2> QED
      BY <1>1, <2>1, <2>2 DEF StoreBody
  <1>2. ASSUME NEW i \in Items, Submit(i)
        PROVE  FileInv'
    BY <1>2 DEF Submit, InsertMessage, UndoStore, Enqueue, ProdGoto, BlobDelete
  <1>3. ASSUME NEW i \in Items, AdminDelete(i) \/ DeleteMessage(i) \/ MoveSender(i)
        PROVE  FileInv'
    BY <1>3 DEF AdminDelete, DeleteMessage, MoveSender
  <1>4. ASSUME NEW w \in Workers, NEW i \in Items, ClaimNext(w, i)
        PROVE  FileInv'
    BY <1>4 DEF ClaimNext
  <1>5. ASSUME NEW w \in Workers, Deliver(w)
        PROVE  FileInv'
    <2>1. CASE LocalPut(w)
      BY <2>1 DEF LocalPut, BlobPut, Goto
    <2>2. CASE LocalCleanup(w)
      BY <2>2 DEF LocalCleanup, BlobDelete, Goto
    <2>3. CASE ~LocalPut(w) /\ ~LocalCleanup(w)
      <3>1. UNCHANGED <<messages, refs, prod, discarded>>
        BY <1>5, <2>3 DEF Deliver, LoadMessage, ReadBlob, Route, LocalInsert,
           Relay, LookupMX, TryMX, Complete, FailSilent, FailNotify, BounceMessage
      <3> QED
        BY <3>1
    <2> QED
      BY <2>1, <2>2, <2>3
  <1>6. CASE Tick \/ Shutdown \/ Restart \/ UNCHANGED vars
    BY <1>6 DEF Tick, Shutdown, Restart, vars
  <1>7. CASE Exit
    BY <1>7 DEF Exit
  <1> QED
    BY <1>1, <1>2, <1>3, <1>4, <1>5, <1>6, <1>7 DEF Next

\* Both stores keep their books.
LEMMA BlobInvariant == Spec => [](CountInv /\ FileInv)
  <1>1. Init => CountInv /\ FileInv
    <2> SUFFICES ASSUME Init PROVE CountInv /\ FileInv
      OBVIOUS
    <2>1. \A b \in Blobs : Borrowers(b) = {} /\ Depositors(b) = {} /\ ~Kept(b)
      BY DEF Init, Borrowers, Depositors, Kept
    <2>2. \A b \in Blobs : Owed(b) = 0
      BY <2>1, FS_EmptySet DEF Owed
    <2> QED
      BY <2>2 DEF Init, CountInv, FileInv
  <1>2. TypeOK /\ TypeOK' /\ BudgetInv /\ CountInv /\ FileInv /\ [Next]_vars
          => CountInv' /\ FileInv'
    BY CountStep, FileStep
  <1> QED
    BY <1>1, <1>2, Inductive, PTL DEF Spec

\* A count that covers a message row is not zero.
LEMMA CountedExists ==
  ASSUME TypeOK, CountInv, FileInv
  PROVE  ReferencedBlobExists
  <1> SUFFICES ASSUME NEW i \in messages
               PROVE  refs[BlobOf[i]] > 0 \/ (Backend = "fs" /\ BlobOf[i] \in discarded)
    BY DEF ReferencedBlobExists
  <1>1. i \in Items /\ BlobOf[i] \in Blobs
    BY ItemsAssumption DEF TypeOK
  <1>2. CASE Backend = "fs"
    BY <1>1, <1>2 DEF FileInv
  <1>3. CASE Backend = "sqlite"
    <2>1. Kept(BlobOf[i])
      BY <1>1 DEF Kept
    <2>2. Owed(BlobOf[i]) >= 1
      BY <2>1, OwedType DEF Owed
    <2> QED
      BY <1>1, <1>3, <2>2, OwedType DEF CountInv, TypeOK
  <1> QED
    BY <1>2, <1>3, SwitchAssumption

\* With the reference-counting store no message row ever loses its body to a
\* failed local delivery or an abandoned submission, whoever shares that
\* body; with the file store it loses it to nothing else.
THEOREM BodiesSurvive == Spec => []ReferencedBlobExists
  <1>1. TypeOK /\ CountInv /\ FileInv => ReferencedBlobExists
    BY CountedExists
  <1> QED
    BY <1>1, BlobInvariant, TypeCorrect, PTL
-----------------------------------------------------------------------------
(* Bounces.                                                                *)

\* Nothing repairs a disturbed process: the next run starts with its crash
\* on record.
LEMMA StaysUndisturbed ==
  ASSUME TypeOK, OwnedInv, [Next]_vars, Undisturbed'
  PROVE  Undisturbed
  <1>1. proc = "running" \/ Restart
    <2>1. ASSUME NEW w \in Workers, Deliver(w) PROVE UNCHANGED proc
      BY <2>1 DEF Deliver, LoadMessage, ReadBlob, Route, LocalPut, LocalInsert, LocalCleanup,
           Relay, LookupMX, TryMX, Complete, FailSilent, FailNotify, BounceMessage, procVars
    <2> QED
      BY <2>1 DEF Next, Undisturbed, StoreBody, Submit, InsertMessage, UndoStore, Enqueue,
           AdminDelete, DeleteMessage, MoveSender, ClaimNext,
           Tick, Shutdown, Exit, vars, procVars
  <1>2. crashes = 0
    <2>1. ASSUME NEW w \in Workers, Deliver(w) PROVE UNCHANGED crashes
      BY <2>1 DEF Deliver, LoadMessage, ReadBlob, Route, LocalPut, LocalInsert, LocalCleanup,
           Relay, LookupMX, TryMX, Complete, FailSilent, FailNotify, BounceMessage, procVars
    <2> QED
      BY <2>1 DEF Next, Undisturbed, StoreBody, Submit, InsertMessage, UndoStore, Enqueue,
           AdminDelete, DeleteMessage, MoveSender, ClaimNext,
           Tick, Shutdown, Exit, Restart, vars, procVars
  <1> QED
    BY <1>1, <1>2 DEF Restart, OwnedInv, Undisturbed, TypeOK

\* What SilentInv says of a worker that gives up silently.
Unheard(w) ==
  item[w] \notin messages \/ (Backend = "fs" /\ BlobOf[item[w]] \in discarded)

\* A step of deliverNext gives up silently only without a message row or a
\* body.
LEMMA SilentEntry ==
  ASSUME TypeOK, Undisturbed, ReferencedBlobExists, NEW w \in Workers, Deliver(w),
         pc'[w] = "failSilent"
  PROVE  Unheard(w)
  <1> USE DEF TypeOK, Goto, Undisturbed, DbFails, Unheard
  <1>1. CASE LoadMessage(w)
    BY <1>1 DEF LoadMessage
  <1>2. CASE ReadBlob(w)
    BY <1>2 DEF ReadBlob, BlobFails, ReferencedBlobExists
  <1>3. CASE Route(w)
    BY <1>3 DEF Route
  <1>4. CASE LocalPut(w) \/ LocalInsert(w) \/ LocalCleanup(w)
    BY <1>4 DEF LocalPut, LocalInsert, LocalCleanup
  <1>5. CASE Relay(w) \/ LookupMX(w) \/ TryMX(w)
    BY <1>5 DEF Relay, LookupMX, TryMX
  <1>6. CASE Complete(w) \/ FailSilent(w) \/ FailNotify(w) \/ BounceMessage(w)
    BY <1>6 DEF Complete, FailSilent, FailNotify, BounceMessage, Fail, FailError, Return
  <1> QED
    BY <1>1, <1>2, <1>3, <1>4, <1>5, <1>6 DEF Deliver

\* Silent failures stay without a message row.
LEMMA SilentStep ==
  ASSUME TypeOK, OwnerInv, BudgetInv, OwnedInv, ReferencedBlobExists, SilentInv, [Next]_vars
  PROVE  SilentInv'
  <1> SUFFICES ASSUME Undisturbed', NEW w \in Workers, pc'[w] = "failSilent"
               PROVE  Unheard(w)'
    BY DEF SilentInv, Unheard
  <1>0. Undisturbed
    BY StaysUndisturbed
  <1> USE DEF TypeOK, Unheard, rowVars, procVars, histVars
  <1>1. ASSUME NEW i \in Items, Submit(i)
        PROVE  Unheard(w)'
    <2>1. /\ UNCHANGED <<pc, item>> /\ discarded \subseteq discarded'
          /\ UNCHANGED messages \/ (messages' = messages \cup {i} /\ prod[i] = "stored")
      BY <1>1 DEF Submit, InsertMessage, UndoStore, Enqueue, ProdGoto
    <2>2. Unheard(w) /\ status[item[w]] # "new"
      BY <1>0, <2>1 DEF SilentInv, OwnerInv, Holding, Steps
    <2>3. prod[i] = "stored" => status[i] = "new"
      BY DEF BudgetInv
    <2> QED
      BY <2>1, <2>2, <2>3
  <1>7. ASSUME NEW S \in SUBSET Items, StoreBody(S)
        PROVE  Unheard(w)'
    BY <1>0, <1>7 DEF StoreBody, SilentInv
  <1>2. ASSUME NEW i \in Items, AdminDelete(i) \/ DeleteMessage(i) \/ MoveSender(i)
        PROVE  Unheard(w)'
    BY <1>0, <1>2 DEF AdminDelete, DeleteMessage, MoveSender, SilentInv
  <1>3. ASSUME NEW v \in Workers, NEW i \in Items, ClaimNext(v, i)
        PROVE  Unheard(w)'
    BY <1>0, <1>3 DEF ClaimNext, Goto, SilentInv
  <1>4. ASSUME NEW v \in Workers, Deliver(v)
        PROVE  Unheard(w)'
    <2>1. UNCHANGED messages /\ discarded \subseteq discarded'
      BY <1>4 DEF Deliver, LoadMessage, ReadBlob, Route, LocalPut, LocalInsert, LocalCleanup,
             Relay, LookupMX, TryMX, Complete, FailSilent, FailNotify, BounceMessage
    <2>2. CASE v = w
      <3>1. Unheard(w)
        BY <1>0, <1>4, <2>2, SilentEntry
      <3>2. UNCHANGED item
        <4>1. ~Complete(w) /\ ~FailSilent(w) /\ ~FailNotify(w) /\ ~BounceMessage(w)
          BY DEF Complete, FailSilent, FailNotify, BounceMessage, Fail, FailError, Return, Goto
        <4> QED
          BY <1>4, <2>2, <4>1 DEF Deliver, LoadMessage, ReadBlob, Route, LocalPut, LocalInsert,
             LocalCleanup, Relay, LookupMX, TryMX
      <3> QED
        BY <2>1, <3>1, <3>2
    <2>3. CASE v # w
      <3>1. pc'[w] = pc[w] /\ item'[w] = item[w]
        <4>1. Quiet(v) \/ Handover(v) \/ Requeued(v) \/ Exhausted(v) \/ GivenUp(v)
              \/ Complete(v) \/ BounceMessage(v)
          BY <1>4, DeliverKinds
        <4> QED
          BY <2>3, <4>1 DEF Quiet, Handover, Requeued, Exhausted, GivenUp, Leave, Complete,
             BounceMessage, Return, Goto
      <3> QED
        BY <1>0, <2>1, <3>1 DEF SilentInv
    <2> QED
      BY <2>2, <2>3
  <1>5. CASE Tick \/ UNCHANGED vars
    BY <1>0, <1>5 DEF Tick, vars, SilentInv
  <1>6. ~Shutdown /\ ~Exit /\ ~Restart
    BY <1>0 DEF Undisturbed, Shutdown, Exit, Restart
  <1> QED
    BY <1>1, <1>2, <1>3, <1>4, <1>5, <1>6, <1>7 DEF Next

\* Item i, from a Sent folder, was tried in vain and no worker is about to
\* tell its sender.
InVain(i) ==
  /\ i \in messages /\ Origin[i] = "sent"
  /\ status[i] = "gone" /\ i \notin removed /\ accepts[i] = 0
  /\ \A w \in Workers : ~(pc[w] = "bounce" /\ item[w] = i)
  /\ i \notin untold
  /\ Backend = "fs" => BlobOf[i] \notin discarded

\* Nothing but a bounce makes an attempt vain for good.
LEMMA BounceStep ==
  ASSUME TypeOK, OwnerInv, BudgetInv, OutcomeInv, OwnedInv, SilentInv, ExhaustedIsBounced,
         [Next]_vars
  PROVE  ExhaustedIsBounced'
  <1> SUFFICES ASSUME Undisturbed', NEW i \in Items, InVain(i)'
               PROVE  ndrs'[i] = 1
    BY NextType DEF ExhaustedIsBounced, InVain, TypeOK
  <1>0. Undisturbed
    BY StaysUndisturbed
  <1>1. InVain(i) => ndrs[i] = 1
    BY <1>0 DEF ExhaustedIsBounced, InVain
  <1> USE ItemsAssumption DEF TypeOK, InVain, Status, Queued, DropRow, rowVars, procVars, histVars
  <1>2. ASSUME NEW j \in Items, Submit(j)
        PROVE  ndrs'[i] = 1
    <2>1. /\ UNCHANGED <<pc, item, accepts, ndrs, removed, untold>>
          /\ discarded \subseteq discarded'
      BY <1>2 DEF Submit, InsertMessage, UndoStore, Enqueue
    <2>2. status[i] = "gone"
      BY <1>2 DEF Submit, InsertMessage, UndoStore, Enqueue
    <2>3. i \in messages
      BY <1>2, <2>2 DEF Submit, InsertMessage, UndoStore, Enqueue, ProdGoto, BudgetInv
    <2> QED
      BY <1>1, <2>1, <2>2, <2>3
  <1>9. ASSUME NEW S \in SUBSET Items, StoreBody(S)
        PROVE  ndrs'[i] = 1
    BY <1>1, <1>9 DEF StoreBody
  <1>3. ASSUME NEW j \in Items, AdminDelete(j)
        PROVE  ndrs'[i] = 1
    BY <1>1, <1>3 DEF AdminDelete
  <1>4. ASSUME NEW j \in Items, DeleteMessage(j) \/ MoveSender(j)
        PROVE  ndrs'[i] = 1
    BY <1>1, <1>4 DEF DeleteMessage, MoveSender
  <1>5. ASSUME NEW w \in Workers, NEW j \in Items, ClaimNext(w, j)
        PROVE  ndrs'[i] = 1
    BY <1>1, <1>5 DEF ClaimNext, Claimable, Goto
  <1>6. ASSUME NEW w \in Workers, Deliver(w)
        PROVE  ndrs'[i] = 1
    <2>0. /\ UNCHANGED prod /\ discarded \subseteq discarded'
          /\ untold \subseteq untold'
      BY <1>6 DEF Deliver, LoadMessage, ReadBlob, Route, LocalPut, LocalInsert, LocalCleanup,
         Relay, LookupMX, TryMX, Complete, FailSilent, FailNotify, BounceMessage
    <2>1. CASE Quiet(w)
      BY <1>1, <2>0, <2>1 DEF Quiet, Trying, Holding, ledger
    <2>2. CASE Handover(w)
      BY <1>1, <2>0, <2>2 DEF Handover, Trying, Holding, Accept
    <2>3. CASE Requeued(w)
      BY <1>1, <2>0, <2>3 DEF Requeued, Leave, Trying, Holding
    <2>4. CASE GivenUp(w)
      BY <1>1, <2>0, <2>4 DEF GivenUp, Leave, Trying, Holding, ledger
    <2>5. CASE Complete(w)
      BY <1>1, <2>0, <2>5 DEF Complete, Return, Goto, OutcomeInv
    <2>6. CASE Exhausted(w)
      <3>1. CASE item[w] # i
        BY <1>1, <2>0, <2>6, <3>1 DEF Exhausted, Leave, Trying, Holding
      <3>2. CASE item[w] = i /\ pc' = [pc EXCEPT ![w] = "bounce"] /\ UNCHANGED item
        BY <3>2
      <3>3. CASE item[w] = i /\ Leave(w)
        <4>1. FailSilent(w) \/ FailNotify(w)
          <5>1. status'[i] # status[i]
            BY <2>6, <3>3 DEF Exhausted
          <5> QED
            BY <1>6, <2>6, <3>3, <5>1 DEF Deliver, Exhausted, Trying, Holding, LoadMessage,
               ReadBlob, Route, LocalPut, LocalInsert, LocalCleanup, Relay, LookupMX, TryMX,
               Complete, Return, Goto, BounceMessage
        <4>2. ~FailNotify(w)
          BY <2>6, <3>3 DEF Exhausted, Leave, FailNotify, Fail, FailError, RetriesUsedUp, Goto,
                            Return
        <4>3. pc[w] = "failSilent"
          BY <4>1, <4>2 DEF FailSilent, Fail, FailError, Return, Goto
        <4> QED
          BY <1>0, <2>0, <2>6, <3>3, <4>3 DEF SilentInv, Exhausted
      <3> QED
        BY <2>6, <3>1, <3>2, <3>3 DEF Exhausted
    <2>7. CASE BounceMessage(w)
      <3>1. CASE item[w] # i
        BY <1>1, <2>0, <2>7, <3>1 DEF BounceMessage, Return, Goto
      <3>2. CASE item[w] = i
        <4>1. ndrs[i] = 0
          BY <2>7, <3>2 DEF BounceMessage, Return, Goto, OutcomeInv
        <4>2. ndrs' = [ndrs EXCEPT ![i] = @ + 1]
          BY <1>0, <2>7, <3>2 DEF BounceMessage, Undisturbed
        <4> QED
          BY <4>1, <4>2
      <3> QED
        BY <3>1, <3>2
    <2> QED
      BY <1>6, <2>1, <2>2, <2>3, <2>4, <2>5, <2>6, <2>7, DeliverKinds
  <1>7. CASE Tick \/ UNCHANGED vars
    BY <1>1, <1>7 DEF Tick, vars
  <1>8. ~Shutdown /\ ~Exit /\ ~Restart
    BY <1>0 DEF Undisturbed, Shutdown, Exit, Restart
  <1> QED
    BY <1>2, <1>3, <1>4, <1>5, <1>6, <1>7, <1>8, <1>9 DEF Next

\* A user whose message was tried as often as configured, in vain, is told
\* so, until the first shutdown and as long as statements work, if there was
\* an INBOX to write to: the branches of deliverNext that ignore ErrMaxRetries
\* are reached only for a message row that is gone, or for a body the file
\* store has lost.
THEOREM VainAttemptsAreBounced == Spec => []ExhaustedIsBounced
  <1> DEFINE J == SilentInv /\ ExhaustedIsBounced
  <1>1. Init => J
    BY DEF Init, SilentInv, ExhaustedIsBounced
  <1>2. /\ TypeOK /\ OwnerInv /\ BudgetInv /\ OutcomeInv /\ OwnedInv /\ ReferencedBlobExists
        /\ J /\ [Next]_vars
        => J'
    BY SilentStep, BounceStep
  <1> QED
    BY Inductive, OwnedInvariant, BodiesSurvive, <1>1, <1>2, PTL DEF Spec
-----------------------------------------------------------------------------
(* Refinement: DeliveryQueue implements LeaseQueue.                        *)

leaseState == [i \in Items |-> LeaseState(i)]

\* The abstract state of a job, case by case.
LEMMA LeaseStates ==
  ASSUME NEW i \in Items
  PROVE  /\ status[i] = "new"     => LeaseState(i) = "absent"
         /\ status[i] = "pending" => LeaseState(i) = "waiting"
         /\ status[i] = "gone"    => LeaseState(i) = "done"
         /\ status[i] = "active" /\ Owned(i)  => LeaseState(i) = "leased"
         /\ status[i] = "active" /\ ~Owned(i) => LeaseState(i) = "lost"
  BY DEF LeaseState, Owned

\* The same for the next state.
LEMMA NextLeaseStates ==
  ASSUME NEW i \in Items
  PROVE  /\ status'[i] = "new"     => LeaseState(i)' = "absent"
         /\ status'[i] = "pending" => LeaseState(i)' = "waiting"
         /\ status'[i] = "gone"    => LeaseState(i)' = "done"
         /\ status'[i] = "active" /\ Owned(i)'  => LeaseState(i)' = "leased"
         /\ status'[i] = "active" /\ ~Owned(i)' => LeaseState(i)' = "lost"
  BY DEF LeaseState, Owned

\* It depends on the row's status and on whether the row is owned.
LEMMA LeaseStateFrame ==
  ASSUME TypeOK, NEW i \in Items, status'[i] = status[i],
         status[i] = "active" => (Owned(i)' <=> Owned(i))
  PROVE  LeaseState(i)' = LeaseState(i)
  BY LeaseStates, NextLeaseStates DEF TypeOK, Status

\* A step that touches no row and no ownership is invisible.
LEMMA LeaseStutter ==
  ASSUME TypeOK, UNCHANGED <<status, claims>>,
         \A i \in Items : status[i] = "active" => (Owned(i)' <=> Owned(i))
  PROVE  UNCHANGED Lease!vars
  <1>1. \A i \in Items : LeaseState(i)' = LeaseState(i)
    BY LeaseStateFrame
  <1> QED
    BY <1>1 DEF Lease!vars

\* A step that touches the row of one job moves that job.
LEMMA LeaseMove ==
  ASSUME TypeOK, NEW i \in Items,
         \A j \in Items \ {i} : /\ status'[j] = status[j]
                                /\ status[j] = "active" => (Owned(j)' <=> Owned(j))
  PROVE  leaseState' = [leaseState EXCEPT ![i] = LeaseState(i)']
  <1>1. \A j \in Items \ {i} : LeaseState(j)' = LeaseState(j)
    BY LeaseStateFrame
  <1> QED
    BY <1>1 DEF leaseState

\* One worker moves: the other rows keep their owners.
LEMMA OwnedOthers ==
  ASSUME NEW w \in Workers,
         \A v \in Workers \ {w} : pc'[v] = pc[v] /\ item'[v] = item[v],
         NEW j,
         ~(pc[w] \in Holding /\ item[w] = j),
         ~(pc'[w] \in Holding /\ item'[w] = j)
  PROVE  Owned(j)' <=> Owned(j)
  BY DEF Owned
\* Nobody else holds what worker w holds.
LEMMA SoleOwner ==
  ASSUME TypeOK, OwnerInv, NEW w \in Workers, NEW i \in Items,
         pc[w] # "idle", item[w] = i, pc'[w] \notin Holding,
         \A v \in Workers \ {w} : pc'[v] = pc[v] /\ item'[v] = item[v]
  PROVE  ~Owned(i)'
  BY DEF OwnerInv, ExclusiveClaim, Owned, Holding

\* A worker that leaves deliverNext without touching its row loses the
\* lease, if the row is still there.
LEMMA LeaseLost ==
  ASSUME TypeOK, OwnerInv, NEW w \in Workers, pc[w] \in Holding,
         pc' = [pc EXCEPT ![w] = "idle"],
         item' = [item EXCEPT ![w] = NoItem],
         UNCHANGED <<status, claims>>
  PROVE  [Lease!Next]_(Lease!vars)
  <1>1. PICK i \in Items : i = item[w] /\ status[i] \in {"active", "gone"}
    BY DEF TypeOK, OwnerInv, Holding
  <1>2. \A j \in Items \ {i} : Owned(j)' <=> Owned(j)
    BY <1>1, OwnedOthers DEF TypeOK, Holding
  <1>3. CASE status[i] = "gone"
    BY <1>1, <1>2, <1>3, LeaseStutter
  <1>4. CASE status[i] = "active"
    <2>1. LeaseState(i) = "leased"
      BY <1>1, <1>4, LeaseStates DEF Owned
    <2>2. LeaseState(i)' = "lost"
      BY <1>1, <1>4, NextLeaseStates, SoleOwner DEF TypeOK, Holding
    <2>3. leaseState' = [leaseState EXCEPT ![i] = "lost"]
      BY <1>1, <1>2, <2>2, LeaseMove
    <2>4. Lease!Lose({i})
      BY <1>1, <2>1, <2>3 DEF Lease!Lose, leaseState
    <2> QED
      BY <1>1, <2>4 DEF Lease!Next
  <1> QED
    BY <1>1, <1>3, <1>4

\* A worker that ends its attempt by writing its row finishes the job or
\* gives it back; if the row was removed meanwhile nothing happens.
LEMMA LeaseEnded ==
  ASSUME TypeOK, OwnerInv, BudgetInv, NEW w \in Workers, pc[w] \in Holding,
         pc'[w] \notin Holding,
         \A v \in Workers \ {w} : pc'[v] = pc[v] /\ item'[v] = item[v],
         NEW to \in {"pending", "gone"},
         status' = [status EXCEPT ![item[w]] = to],
         to = "pending" => /\ status[item[w]] = "active"
                           /\ attempts[item[w]] < MaxRetries,
         UNCHANGED claims
  PROVE  [Lease!Next]_(Lease!vars)
  <1>1. PICK i \in Items : i = item[w] /\ status[i] \in {"active", "gone"}
    BY DEF TypeOK, OwnerInv, Holding
  <1>2. \A j \in Items \ {i} : Owned(j)' <=> Owned(j)
    BY <1>1, OwnedOthers DEF TypeOK, Holding
  <1>3. status'[i] = to /\ \A j \in Items \ {i} : status'[j] = status[j]
    BY <1>1 DEF TypeOK
  <1>4. CASE status[i] = "gone"
    <2>1. UNCHANGED status
      BY <1>1, <1>4 DEF TypeOK
    <2> QED
      BY <1>1, <1>2, <1>4, <2>1, LeaseStutter
  <1>5. CASE status[i] = "active"
    <2>1. LeaseState(i) = "leased"
      BY <1>1, <1>5, LeaseStates DEF Owned
    <2>2. leaseState' = [leaseState EXCEPT ![i] = LeaseState(i)']
      BY <1>1, <1>2, <1>3, LeaseMove
    <2>3. CASE to = "gone"
      <3>1. Lease!Finish(i)
        BY <1>1, <1>3, <2>1, <2>2, <2>3, NextLeaseStates
        DEF Lease!Finish, Lease!Move, leaseState
      <3> QED
        BY <1>1, <3>1 DEF Lease!Next
    <2>4. CASE to = "pending"
      <3>1. claims[i] < MaxRetries + 1
        BY <1>1, <1>5, <2>4, BoundsAssumption DEF BudgetInv, AttemptBudget, TypeOK
      <3>2. Lease!GiveBack(i)
        BY <1>1, <1>3, <2>1, <2>2, <2>4, <3>1, NextLeaseStates
        DEF Lease!GiveBack, Lease!Move, leaseState
      <3> QED
        BY <1>1, <3>2 DEF Lease!Next
    <2> QED
      BY <2>3, <2>4
  <1> QED
    BY <1>1, <1>4, <1>5

\* deliverNext, seen from the abstract queue.
LEMMA LeaseDeliver ==
  ASSUME TypeOK, OwnerInv, BudgetInv, NEW w \in Workers, Deliver(w)
  PROVE  [Lease!Next]_(Lease!vars)
  <1> USE DEF ledger, procVars, rowVars, histVars
  <1>1. CASE Quiet(w) \/ Handover(w)
    <2>1. pc[w] \in Holding /\ pc'[w] \in Holding /\ UNCHANGED <<item, status, claims>>
          /\ \A v \in Workers \ {w} : pc'[v] = pc[v]
      BY <1>1 DEF Quiet, Handover, Trying, TypeOK
    <2>2. \A j \in Items : Owned(j)' <=> Owned(j)
      BY <2>1 DEF Owned
    <2> QED
      BY <2>1, <2>2, LeaseStutter
  <1>2. CASE Requeued(w)
    <2>1. item[w] \in Items /\ status[item[w]] = "active"
      BY <1>2 DEF Requeued, Leave, Trying, Holding, OwnerInv, Queued, TypeOK
    <2> QED
      BY <1>2, <2>1, LeaseEnded
      DEF Requeued, Leave, Trying, Holding, Steps, TypeOK
  <1>3. CASE Exhausted(w)
    BY <1>3, LeaseEnded
    DEF Exhausted, Leave, Trying, Holding, Steps, TypeOK, DropRow
  <1>4. CASE GivenUp(w)
    BY <1>4, LeaseLost DEF GivenUp, Leave, Trying
  <1>5. CASE Complete(w)
    <2>1. CASE DropRow(item[w])
      BY <1>5, <2>1, LeaseEnded
      DEF Complete, Return, Goto, DropRow, Holding, Steps, TypeOK
    <2>2. CASE UNCHANGED status
      BY <1>5, <2>2, LeaseLost DEF Complete, Return, Goto, Holding, Steps
    <2> QED
      BY <1>5, <2>1, <2>2 DEF Complete
  <1>6. CASE BounceMessage(w)
    <2>1. \A j \in Items : Owned(j)' <=> Owned(j)
      BY <1>6, OwnedOthers
      DEF BounceMessage, Return, Goto, Holding, Steps, TypeOK
    <2> QED
      BY <1>6, <2>1, LeaseStutter DEF BounceMessage
  <1> QED
    BY <1>1, <1>2, <1>3, <1>4, <1>5, <1>6, DeliverKinds
\* Every step of the implementation is an abstract step or a stutter.
LEMMA LeaseStep ==
  ASSUME TypeOK, OwnerInv, BudgetInv, [Next]_vars
  PROVE  [Lease!Next]_(Lease!vars)
  <1> USE DEF procVars, rowVars, histVars
  <1>1. ASSUME UNCHANGED <<pc, item>>
        PROVE  \A j \in Items : Owned(j)' <=> Owned(j)
    BY <1>1 DEF Owned
  <1>2. ASSUME NEW i \in Items, Submit(i)
        PROVE  [Lease!Next]_(Lease!vars)
    <2>0. UNCHANGED <<pc, item, claims>>
      BY <1>2 DEF Submit, InsertMessage, UndoStore, Enqueue
    <2>1. CASE UNCHANGED status
      BY <1>1, <2>0, <2>1, LeaseStutter
    <2>2. CASE status' = [status EXCEPT ![i] = "pending"] /\ prod[i] = "inserted"
      <3>1. /\ status[i] = "new" /\ status'[i] = "pending"
            /\ \A j \in Items \ {i} : status'[j] = status[j]
        BY <2>2 DEF BudgetInv, TypeOK
      <3>2. leaseState' = [leaseState EXCEPT ![i] = LeaseState(i)']
        BY <1>1, <2>0, <3>1, LeaseMove
      <3>3. Lease!Add(i)
        BY <2>0, <3>1, <3>2, LeaseStates, NextLeaseStates
        DEF Lease!Add, Lease!Move, leaseState
      <3> QED
        BY <3>3 DEF Lease!Next
    <2> QED
      BY <1>2, <2>1, <2>2 DEF Submit, InsertMessage, UndoStore, Enqueue, ProdGoto
  <1>8. ASSUME NEW S \in SUBSET Items, StoreBody(S)
        PROVE  [Lease!Next]_(Lease!vars)
    BY <1>1, <1>8, LeaseStutter DEF StoreBody
  <1>3. ASSUME NEW i \in Items, AdminDelete(i) \/ DeleteMessage(i) \/ MoveSender(i)
        PROVE  [Lease!Next]_(Lease!vars)
    <2>0. UNCHANGED <<pc, item, claims>>
      BY <1>3 DEF AdminDelete, DeleteMessage, MoveSender
    <2>1. CASE UNCHANGED status
      BY <1>1, <2>0, <2>1, LeaseStutter
    <2>2. CASE status[i] \in Queued /\ status' = [status EXCEPT ![i] = "gone"]
      <3>1. status'[i] = "gone" /\ \A j \in Items \ {i} : status'[j] = status[j]
        BY <2>2 DEF TypeOK
      <3>2. leaseState' = [leaseState EXCEPT ![i] = LeaseState(i)']
        BY <1>1, <2>0, <3>1, LeaseMove
      <3>3. LeaseState(i) \in {"waiting", "leased", "lost"}
        BY <2>2, LeaseStates DEF Queued
      <3>4. Lease!Withdraw(i)
        BY <2>0, <3>1, <3>2, <3>3, NextLeaseStates
        DEF Lease!Withdraw, Lease!Move, leaseState
      <3> QED
        BY <3>4 DEF Lease!Next
    <2> QED
      BY <1>3, <2>1, <2>2 DEF AdminDelete, DeleteMessage, MoveSender, DropRow, TypeOK
  <1>4. ASSUME NEW w \in Workers, NEW i \in Items, ClaimNext(w, i)
        PROVE  [Lease!Next]_(Lease!vars)
    <2>1. /\ status[i] = "pending" /\ status'[i] = "active"
          /\ \A j \in Items \ {i} : status'[j] = status[j]
          /\ pc[w] = "idle" /\ pc'[w] = "load" /\ item'[w] = i
          /\ \A v \in Workers \ {w} : pc'[v] = pc[v] /\ item'[v] = item[v]
          /\ claims' = [claims EXCEPT ![i] = @ + 1]
      BY <1>4 DEF ClaimNext, Claimable, Goto, TypeOK
    <2>2. \A j \in Items \ {i} : Owned(j)' <=> Owned(j)
      BY <2>1, OwnedOthers DEF Holding
    <2>3. leaseState' = [leaseState EXCEPT ![i] = LeaseState(i)']
      BY <2>1, <2>2, LeaseMove
    <2>4. Owned(i)'
      BY <2>1 DEF Owned, Holding, Steps
    <2>5. claims[i] < MaxRetries + 1
      BY <2>1, BoundsAssumption DEF BudgetInv, AttemptBudget, TypeOK
    <2>6. Lease!Lease(i)
      BY <2>1, <2>3, <2>4, <2>5, LeaseStates, NextLeaseStates
      DEF Lease!Lease, Lease!Move, leaseState
    <2> QED
      BY <2>6 DEF Lease!Next
  <1>5. ASSUME NEW w \in Workers, Deliver(w)
        PROVE  [Lease!Next]_(Lease!vars)
    BY <1>5, LeaseDeliver
  <1>6. CASE Tick \/ Shutdown \/ Restart \/ UNCHANGED vars
    BY <1>1, <1>6, LeaseStutter DEF Tick, Shutdown, Restart, vars
  <1>7. CASE Exit
    <2> DEFINE S == {i \in Items : LeaseState(i) = "leased"}
    <2>1. \A i \in Items : ~Owned(i)'
      BY <1>7 DEF Exit, Owned, Holding
    <2>2. UNCHANGED <<status, claims>>
      BY <1>7 DEF Exit
    <2>3. \A i \in Items :
            LeaseState(i)' = IF i \in S THEN "lost" ELSE LeaseState(i)
      BY <2>1, <2>2, LeaseStates, NextLeaseStates DEF TypeOK, Status
    <2>4. CASE S = {}
      BY <2>2, <2>3, <2>4 DEF Lease!vars
    <2>5. CASE S # {}
      <3>1. Lease!Lose(S)
        BY <2>2, <2>3, <2>5 DEF Lease!Lose
      <3> QED
        BY <3>1 DEF Lease!Next
    <2> QED
      BY <2>4, <2>5
  <1> QED
    BY <1>2, <1>3, <1>4, <1>5, <1>6, <1>7, <1>8 DEF Next

\* The queue table and its workers, with their crashes, failing statements
\* and deletions, implement the abstract lease queue.
THEOREM Refinement == Spec => ImplementsLeaseQueue
  <1>1. Init => Lease!Init
    BY LeaseStates DEF Init, Lease!Init
  <1>2. TypeOK /\ OwnerInv /\ BudgetInv /\ [Next]_vars
          => [Lease!Next]_(Lease!vars)
    BY LeaseStep
  <1> QED
    BY <1>1, <1>2, Inductive, PTL DEF Spec, ImplementsLeaseQueue, Lease!Spec
-----------------------------------------------------------------------------
(* How a delivery ends.                                                    *)

\* Whether a step keeps to AttemptsEnd for one worker.
Advances(w) ==
  pc[w] # "idle" /\ (pc'[w] # pc[w] \/ mx'[w] # mx[w]) =>
    \/ /\ pc'[w] # "idle" /\ item'[w] = item[w]
       /\ \/ Ahead(pc'[w]) < Ahead(pc[w])
          \/ pc'[w] = pc[w] /\ mx'[w] < mx[w]
    \/ /\ pc'[w] = "idle"
       /\ proc = "running" /\ proc' = "running" /\ ~DbFaults =>
            \/ status'[item[w]] = "gone"
            \/ /\ status'[item[w]] = "pending"
               /\ attempts'[item[w]] = attempts[item[w]] + 1

\* Each branch of deliverNext leads to a later one or returns with its row
\* settled: deleted, found deleted, or put back by Fail.
LEMMA DeliverAdvances ==
  ASSUME TypeOK, OwnerInv, NEW w \in Workers, Deliver(w)
  PROVE  Advances(w)
  <1> USE BoundsAssumption DEF TypeOK, Goto, Return, Steps, rowVars, procVars, histVars, Advances, Ahead
  <1>1. CASE LoadMessage(w)
    BY <1>1 DEF LoadMessage
  <1>2. CASE ReadBlob(w)
    BY <1>2 DEF ReadBlob
  <1>3. CASE Route(w)
    BY <1>3, SwitchAssumption DEF Route
  <1>4. CASE LocalPut(w)
    BY <1>4 DEF LocalPut
  <1>5. CASE LocalInsert(w)
    BY <1>5 DEF LocalInsert
  <1>6. CASE LocalCleanup(w)
    BY <1>6 DEF LocalCleanup
  <1>7. CASE Relay(w)
    <2>1. /\ pc[w] = "relay" /\ pc'[w] \in {"complete", "failNotify"}
          /\ item' = item
      BY <1>7 DEF Relay
    <2> QED
      BY <2>1
  <1>8. CASE LookupMX(w)
    BY <1>8 DEF LookupMX
  <1>9. CASE TryMX(w)
    BY <1>9 DEF TryMX
  <1>10. CASE Complete(w)
    BY <1>10 DEF Complete, DropRow, DbFails
  <1>11. ASSUME NEW from \in {"failSilent", "failNotify"}, NEW last \in {"idle", "bounce"},
                Fail(w, from, last), UNCHANGED mx
         PROVE  Advances(w)
    BY <1>11 DEF Fail, DropRow
  <1>12. ASSUME NEW from \in {"failSilent", "failNotify"},
                FailError(w, from), UNCHANGED mx
         PROVE  Advances(w)
    <2>1. status[item[w]] \in {"active", "gone"}
      BY <1>12 DEF FailError, OwnerInv, Holding
    <2> QED
      BY <1>12, <2>1 DEF FailError, DbFails, Queued
  <1>13. CASE FailSilent(w)
    BY <1>11, <1>12, <1>13 DEF FailSilent
  <1>14. CASE FailNotify(w)
    BY <1>11, <1>12, <1>14 DEF FailNotify
  <1>15. CASE BounceMessage(w)
    BY <1>15 DEF BounceMessage, OwnerInv
  <1> QED
    BY <1>1, <1>2, <1>3, <1>4, <1>5, <1>6, <1>7, <1>8, <1>9, <1>10, <1>13, <1>14, <1>15
    DEF Deliver

\* Nobody else moves a worker, but for the end of the process.
LEMMA NextAdvances ==
  ASSUME TypeOK, OwnerInv, Next, NEW v \in Workers
  PROVE  Advances(v)
  <1>0. ASSUME pc'[v] = pc[v], mx'[v] = mx[v] PROVE Advances(v)
    BY <1>0 DEF Advances
  <1>1. ASSUME NEW i \in Items, Submit(i) \/ AdminDelete(i) \/ DeleteMessage(i) \/ MoveSender(i)
        PROVE  Advances(v)
    BY <1>0, <1>1 DEF Submit, InsertMessage, UndoStore, Enqueue, AdminDelete, DeleteMessage,
       MoveSender
  <1>6. ASSUME NEW S \in SUBSET Items, StoreBody(S) PROVE Advances(v)
    BY <1>0, <1>6 DEF StoreBody
  <1>2. ASSUME NEW w \in Workers, NEW i \in Items, ClaimNext(w, i) PROVE Advances(v)
    BY <1>0, <1>2 DEF ClaimNext, Goto, TypeOK, Advances
  <1>3. ASSUME NEW w \in Workers, Deliver(w) PROVE Advances(v)
    <2>1. CASE v = w
      BY <1>3, <2>1, DeliverAdvances
    <2>2. CASE v # w
      <3>1. pc'[v] = pc[v]
        BY <1>3, <2>2 DEF Deliver, LoadMessage, ReadBlob, Route, LocalPut, LocalInsert,
          LocalCleanup, Relay, LookupMX, TryMX, Complete, FailSilent, FailNotify, Fail, FailError,
          BounceMessage, Return, Goto, TypeOK
      <3>2. mx'[v] = mx[v]
        BY <1>3, <2>2 DEF Deliver, LoadMessage, ReadBlob, Route, LocalPut, LocalInsert,
          LocalCleanup, Relay, LookupMX, TryMX, Complete, FailSilent, FailNotify, BounceMessage, TypeOK
      <3> QED
        BY <1>0, <3>1, <3>2
    <2> QED
      BY <2>1, <2>2
  <1>4. CASE Tick \/ Shutdown \/ Restart
    BY <1>0, <1>4 DEF Tick, Shutdown, Restart
  <1>5. CASE Exit
    BY <1>5 DEF Exit, Advances
  <1> QED
    BY <1>1, <1>2, <1>3, <1>4, <1>5, <1>6 DEF Next

\* deliverNext comes to an end on every path, and on each that the database
\* lets finish it settles its row or spends one of its bounded attempts: the
\* safety half of EventuallyLeaves.
THEOREM AttemptsComeToAnEnd == Spec => AttemptsEnd
  <1>1. TypeOK /\ OwnerInv /\ [Next]_vars => [\A w \in Workers : Advances(w)]_vars
    BY NextAdvances
  <1>2. [\A w \in Workers : Advances(w)]_vars =>
          [\A w \in Workers :
             pc[w] # "idle" /\ (pc'[w] # pc[w] \/ mx'[w] # mx[w]) =>
               \/ /\ pc'[w] # "idle" /\ item'[w] = item[w]
                  /\ \/ Ahead(pc'[w]) < Ahead(pc[w])
                     \/ pc'[w] = pc[w] /\ mx'[w] < mx[w]
               \/ /\ pc'[w] = "idle"
                  /\ proc = "running" /\ proc' = "running" /\ ~DbFaults =>
                       \/ status'[item[w]] = "gone"
                       \/ /\ status'[item[w]] = "pending"
                          /\ attempts'[item[w]] = attempts[item[w]] + 1]_vars
    BY DEF Advances
  <1> QED
    BY <1>1, <1>2, Inductive, PTL DEF Spec, AttemptsEnd
=============================================================================
