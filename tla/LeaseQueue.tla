---------------------------- MODULE LeaseQueue -----------------------------
(***************************************************************************)
(* What the delivery queue promises its users, without workers, rows or    *)
(* blobs: each job is leased to one party at a time, at most MaxTries      *)
(* times, and leaves for good by being finished or withdrawn.  A lease may *)
(* be lost (the process ended, or the row could not be updated): marco has *)
(* no lease timeout, so a lost job is never leased again.                  *)
(***************************************************************************)
EXTENDS Naturals

CONSTANTS Jobs, MaxTries

VARIABLES
  state,   \* "absent", "waiting", "leased", "lost" or "done"
  tries    \* leases granted so far

vars == <<state, tries>>

Init == /\ state = [j \in Jobs |-> "absent"]
        /\ tries = [j \in Jobs |-> 0]

Move(j, from, to) ==
  /\ state[j] \in from
  /\ state' = [state EXCEPT ![j] = to]

Add(j)      == Move(j, {"absent"}, "waiting") /\ UNCHANGED tries
Lease(j)    == /\ tries[j] < MaxTries
               /\ Move(j, {"waiting"}, "leased")
               /\ tries' = [tries EXCEPT ![j] = @ + 1]
GiveBack(j) == /\ tries[j] < MaxTries
               /\ Move(j, {"leased"}, "waiting")
               /\ UNCHANGED tries
Finish(j)   == Move(j, {"leased"}, "done") /\ UNCHANGED tries
Withdraw(j) == Move(j, {"waiting", "leased", "lost"}, "done") /\ UNCHANGED tries
\* Any set of leases is lost at once.
Lose(S)     == /\ S # {} /\ \A j \in S : state[j] = "leased"
               /\ state' = [j \in Jobs |-> IF j \in S THEN "lost" ELSE state[j]]
               /\ UNCHANGED tries

Next == \/ \E j \in Jobs : \/ Add(j) \/ Lease(j) \/ GiveBack(j) \/ Finish(j)
                           \/ Withdraw(j)
        \/ \E S \in SUBSET Jobs : Lose(S)

Spec == Init /\ [][Next]_vars
=============================================================================
