------------------------------ MODULE TtlCache ------------------------------
(***************************************************************************)
(* The generic cache of pkg/cache/cache.go, as operators on its state: a   *)
(* function from keys to the time an entry has left.  Values are left out. *)
(* Set and Delete hold the lock throughout; Get looks under the read lock  *)
(* and takes the write lock only to remove an expired entry.               *)
(***************************************************************************)
EXTENDS Integers, FiniteSets

CONSTANTS
  TTL,        \* lifetime of an entry, in ticks
  MaxSize     \* largest number of entries, 0 for no limit

ASSUME CacheAssumption == TTL \in Nat \ {0} /\ MaxSize \in Nat

Absent  == -2       \* no entry
Expired == -1       \* an entry whose time is over, not yet removed

Present(c) == {k \in DOMAIN c : c[k] # Absent}

\* Mutant: Get does not look at the time.
HitAlways(c, k) == c[k] # Absent

\* Get finds an entry up to and including the moment it expires.
Hit(c, k) == c[k] >= 0

\* Get's second look, under the write lock, at an entry it found expired.
AfterMiss(c, k) == [c EXCEPT ![k] = IF c[k] = Expired THEN Absent ELSE c[k]]

AfterDelete(c, k) == [c EXCEPT ![k] = Absent]

\* evictOne: an expired entry if there is one, else any.
Victims(c) ==
  IF \E k \in DOMAIN c : c[k] = Expired THEN {k \in DOMAIN c : c[k] = Expired}
                                        ELSE Present(c)

\* Mutant: the limit is tested with > instead of >=.
AfterSetLate(c, k, d) ==
  IF MaxSize > 0 /\ Cardinality(Present(c)) > MaxSize
    THEN \E v \in Victims(c) : d = [[c EXCEPT ![v] = Absent] EXCEPT ![k] = TTL]
    ELSE d = [c EXCEPT ![k] = TTL]

\* d is a possible result of Set(k): a full cache makes room first, even if
\* it holds k already.
AfterSet(c, k, d) ==
  IF MaxSize > 0 /\ Cardinality(Present(c)) >= MaxSize
    THEN \E v \in Victims(c) : d = [[c EXCEPT ![v] = Absent] EXCEPT ![k] = TTL]
    ELSE d = [c EXCEPT ![k] = TTL]

\* A tick of the clock.
Aged(c) == [k \in DOMAIN c |-> IF c[k] >= 0 THEN c[k] - 1 ELSE c[k]]
=============================================================================
