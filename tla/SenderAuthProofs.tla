-------------------------- MODULE SenderAuthProofs --------------------------
(***************************************************************************)
(* Proofs about DmarcReport: types, and the two promises about each        *)
(* result, for any results, domains and addresses and any number of faults *)
(* and crashes.                                                            *)
(* Proofs about Spf: cidrMatch compares prefixes, and a verdict is the one *)
(* the recursive reference after RFC 7208 gives, for any zones, addresses, *)
(* depth and size of a byte.  What the reference computes is shown by      *)
(* induction over sets of natural numbers.                                 *)
(***************************************************************************)
EXTENDS DmarcReport, Spf, WellFoundedInduction, TLAPS

-----------------------------------------------------------------------------
(* DmarcReport.                                                            *)

\* The entries of a domain's list are entries.
LEMMA RuaUris == \A d \in Domains : Rua[d] \subseteq Uris
BY DEF Uris

\* Types: a cycle of the generator goes from step to step with its domain,
\* whatever fails.
LEMMA TypeStep ==
  ASSUME TypeOK, CycleInv, [Next]_vars
  PROVE  TypeOK'
<1> USE DomainAssumption, RuaUris DEF TypeOK, local, history
<1>1. ASSUME NEW r \in Results, InsertDMARCResult(r) PROVE TypeOK'
  BY <1>1 DEF InsertDMARCResult
<1>2. CASE Start \/ Tick \/ Stop \/ Leave
  BY <1>2 DEF Start, Tick, Stop, Leave
<1>3. CASE GetDMARCDomains
  BY <1>3 DEF GetDMARCDomains, Fault
<1>4. ASSUME NEW d \in Domains, NextDomain(d) PROVE TypeOK'
  BY <1>4 DEF NextDomain
<1>5. CASE Lookup
  BY <1>5 DEF Lookup, DomainDone, Fault, CycleInv
<1>6. CASE GetUnsentDMARCResults
  BY <1>6 DEF GetUnsentDMARCResults, DomainDone, Fault, Unsent, CycleInv
<1>7. ASSUME NEW u \in Uris, sendReport(u) PROVE TypeOK'
  BY <1>7 DEF sendReport, Queued
<1>8. CASE Sent
  BY <1>8 DEF Sent, DomainDone, CycleInv
<1>9. CASE MarkDMARCResultsSent
  BY <1>9 DEF MarkDMARCResultsSent, Idle, Fault, Forgotten
<1>10. CASE Crash
  <2>1. stopping' \in BOOLEAN
    BY <1>10, Zenon DEF Crash
  <2> QED
    BY <1>10, <2>1 DEF Crash, Idle, Fault, Forgotten
<1>11. CASE UNCHANGED vars
  BY <1>11 DEF vars
<1> QED
  BY <1>1, <1>2, <1>3, <1>4, <1>5, <1>6, <1>7, <1>8, <1>9, <1>10, <1>11
  DEF Next, Step

\* A domain moves from todo to cur to reported, and a batch does not outlive
\* its report.
LEMMA CycleStep ==
  ASSUME TypeOK, CycleInv, [Next]_vars
  PROVE  CycleInv'
<1> USE DomainAssumption DEF TypeOK, CycleInv, local, history
<1>1. ASSUME NEW r \in Results, InsertDMARCResult(r) PROVE CycleInv'
  BY <1>1 DEF InsertDMARCResult
<1>2. CASE Start \/ Tick \/ Stop \/ Leave
  BY <1>2 DEF Start, Tick, Stop, Leave
<1>3. CASE GetDMARCDomains
  BY <1>3 DEF GetDMARCDomains, Fault
<1>4. ASSUME NEW d \in Domains, NextDomain(d) PROVE CycleInv'
  BY <1>4 DEF NextDomain
<1>5. CASE Lookup
  BY <1>5 DEF Lookup, DomainDone, Fault
<1>6. CASE GetUnsentDMARCResults
  BY <1>6 DEF GetUnsentDMARCResults, DomainDone, Fault, Unsent
<1>7. ASSUME NEW u \in Uris, sendReport(u) PROVE CycleInv'
  BY <1>7 DEF sendReport
<1>8. CASE Sent
  BY <1>8 DEF Sent, DomainDone
<1>9. CASE MarkDMARCResultsSent
  BY <1>9 DEF MarkDMARCResultsSent, Idle
<1>10. CASE Crash
  BY <1>10 DEF Crash, Idle
<1>11. CASE UNCHANGED vars
  BY <1>11 DEF vars
<1> QED
  BY <1>1, <1>2, <1>3, <1>4, <1>5, <1>6, <1>7, <1>8, <1>9, <1>10, <1>11
  DEF Next, Step

\* A result that is read is in the batch, one that comes after the reading is
\* late, and a batch is tried before its domain is reported; the mark then
\* finds no other unsent result.
LEMMA CoveredStep ==
  ASSUME TypeOK, CycleInv, CoveredInv, UnreportedHasCause, [Next]_vars
  PROVE  CoveredInv' /\ UnreportedHasCause'
<1> USE DomainAssumption DEF TypeOK, CycleInv, CoveredInv, UnreportedHasCause, local, history
<1>1. ASSUME NEW r \in Results, InsertDMARCResult(r) PROVE CoveredInv' /\ UnreportedHasCause'
  BY <1>1 DEF InsertDMARCResult, Read
<1>2. CASE Start \/ Tick \/ Stop \/ Leave
  BY <1>2 DEF Start, Tick, Stop, Leave
<1>3. CASE GetDMARCDomains
  BY <1>3 DEF GetDMARCDomains
<1>4. ASSUME NEW d \in Domains, NextDomain(d) PROVE CoveredInv' /\ UnreportedHasCause'
  BY <1>4 DEF NextDomain
<1>5. CASE Lookup
  BY <1>5 DEF Lookup, DomainDone
<1>6. CASE GetUnsentDMARCResults
  BY <1>6 DEF GetUnsentDMARCResults, DomainDone, Unsent
<1>7. ASSUME NEW u \in Uris, sendReport(u) PROVE CoveredInv' /\ UnreportedHasCause'
  BY <1>7 DEF sendReport
<1>8. CASE Sent
  BY <1>8 DEF Sent, DomainDone
<1>9. CASE MarkDMARCResultsSent
  BY <1>9 DEF MarkDMARCResultsSent, Idle
<1>10. CASE Crash
  BY <1>10 DEF Crash, Idle
<1>11. CASE UNCHANGED vars
  BY <1>11 DEF vars
<1> QED
  BY <1>1, <1>2, <1>3, <1>4, <1>5, <1>6, <1>7, <1>8, <1>9, <1>10, <1>11
  DEF Next, Step

\* A result in the batch is unsent and its domain not yet reported: if it was
\* mailed to u before, it was forgotten, or u is no longer to be sent to.
LEMMA OnceStep ==
  ASSUME TypeOK, CycleInv, OnceInv, ReportedOnce, [Next]_vars
  PROVE  OnceInv' /\ ReportedOnce'
<1> USE DomainAssumption DEF TypeOK, CycleInv, OnceInv, ReportedOnce, local, history
<1>1. ASSUME NEW r \in Results, InsertDMARCResult(r) PROVE OnceInv' /\ ReportedOnce'
  BY <1>1 DEF InsertDMARCResult
<1>2. CASE Start \/ Tick \/ Stop \/ Leave
  BY <1>2 DEF Start, Tick, Stop, Leave
<1>3. CASE GetDMARCDomains
  BY <1>3 DEF GetDMARCDomains
<1>4. ASSUME NEW d \in Domains, NextDomain(d) PROVE OnceInv' /\ ReportedOnce'
  BY <1>4 DEF NextDomain
<1>5. CASE Lookup
  BY <1>5 DEF Lookup, DomainDone
<1>6. CASE GetUnsentDMARCResults
  BY <1>6 DEF GetUnsentDMARCResults, DomainDone, Unsent
<1>7. ASSUME NEW u \in Uris, sendReport(u) PROVE OnceInv' /\ ReportedOnce'
  <2>1. mailed \cap ((batch \ unmarked) \X {u}) = {}
    BY <1>7 DEF sendReport
  <2>2. ReportedOnce'
    BY <1>7, <2>1 DEF sendReport, Queued
  <2>3. OnceInv'
    BY <1>7 DEF sendReport, Queued
  <2> QED
    BY <2>2, <2>3
<1>8. CASE Sent
  BY <1>8 DEF Sent, DomainDone
<1>9. CASE MarkDMARCResultsSent
  BY <1>9 DEF MarkDMARCResultsSent, Idle, Forgotten
<1>10. CASE Crash
  BY <1>10 DEF Crash, Idle, Forgotten
<1>11. CASE UNCHANGED vars
  BY <1>11 DEF vars
<1> QED
  BY <1>1, <1>2, <1>3, <1>4, <1>5, <1>6, <1>7, <1>8, <1>9, <1>10, <1>11
  DEF Next, Step

\* The invariant holds before anything is recorded.
LEMMA InvInit == Init => Inv
<1> SUFFICES ASSUME Init PROVE Inv
  OBVIOUS
<1>1. stopping \in BOOLEAN
  BY Zenon DEF Init
<1>2. TypeOK
  BY <1>1, DomainAssumption DEF Init, TypeOK
<1>3. CycleInv /\ CoveredInv
  BY DEF Init, CycleInv, CoveredInv
<1>4. OnceInv /\ ReportedOnce /\ UnreportedHasCause
  BY DEF Init, OnceInv, ReportedOnce, UnreportedHasCause
<1> QED
  BY <1>2, <1>3, <1>4 DEF Inv

\* The conjunction of the parts is inductive.
LEMMA Invariance == Spec => []Inv
<1>1. Inv /\ [Next]_vars => Inv'
  BY TypeStep, CycleStep, CoveredStep, OnceStep DEF Inv
<1> QED
  BY InvInit, <1>1, PTL DEF Spec

\* Type correctness of the generator's state for any results and domains.
THEOREM TypeCorrect == Spec => []TypeOK
<1>1. Inv => TypeOK
  BY DEF Inv
<1> QED
  BY Invariance, <1>1, PTL

\* No result is reported twice to one entry of the list, unless MarkDMARCResultsSent
\* failed or was not reached after its report.
THEOREM NoDoubleReport == Spec => []ReportedOnce
<1>1. Inv => ReportedOnce
  BY DEF Inv
<1> QED
  BY Invariance, <1>1, PTL

\* MarkDMARCResultsSent marks nothing unreported, but for the results that
\* were recorded while the report of their domain was under way.
THEOREM MarkedWasReported == Spec => []UnreportedHasCause
<1>1. Inv => UnreportedHasCause
  BY DEF Inv
<1> QED
  BY Invariance, <1>1, PTL

\* A step of the generator that nothing fails in keeps every unsent result in
\* its cycle, and a cycle takes them all.
LEMMA CycleKeeps ==
  ASSUME Inv, BetweenInv, Next, faults' = faults, NEW r \in Results, row[r] = "unsent"
  PROVE  /\ pc = "run" /\ pc' # "run" => InCycle(DomainOf[r])'
         /\ InCycle(DomainOf[r]) /\ DomainOf[r] \notin Broken =>
              InCycle(DomainOf[r])' \/ row'[r] = "sent"
<1>0. /\ TypeOK /\ CycleInv /\ DomainOf[r] \in Domains /\ DomainOf[r] # NoDomain
      /\ ~Fault
  BY DomainAssumption DEF Inv, TypeOK, Fault
<1> USE <1>0 DEF InCycle, local, history
<1>1. ASSUME NEW q \in Results, InsertDMARCResult(q)
      PROVE  pc' = pc /\ (InCycle(DomainOf[r]) => InCycle(DomainOf[r])')
  BY <1>1 DEF InsertDMARCResult
<1>2. CASE Start \/ Tick \/ Stop \/ Leave
  BY <1>2 DEF Start, Tick, Stop, Leave
<1>3. CASE GetDMARCDomains
  <2>1. todo' = {d \in Domains : Unsent(d) # {}}
    BY <1>3 DEF GetDMARCDomains
  <2>2. r \in Unsent(DomainOf[r])
    BY DEF Unsent
  <2> QED
    BY <2>1, <2>2
<1>4. ASSUME NEW d \in Domains, NextDomain(d)
      PROVE  pc # "run" /\ (InCycle(DomainOf[r]) => InCycle(DomainOf[r])')
  BY <1>4 DEF NextDomain, BetweenInv
<1>5. CASE Lookup \/ GetUnsentDMARCResults \/ Sent
  BY <1>5 DEF Lookup, GetUnsentDMARCResults, Sent, DomainDone
<1>6. ASSUME NEW u \in Uris, sendReport(u)
      PROVE  pc # "run" /\ (InCycle(DomainOf[r]) => InCycle(DomainOf[r])')
  BY <1>6 DEF sendReport
<1>7. CASE MarkDMARCResultsSent
  BY <1>7 DEF MarkDMARCResultsSent, BetweenInv
<1>8. ~Crash
  BY DEF Crash
<1> QED
  BY <1>1, <1>2, <1>3, <1>4, <1>5, <1>6, <1>7, <1>8 DEF Next, Step

\* A cycle in which nothing fails marks every result that was unsent when it
\* began, those of domains without a report address too, but for the domains
\* whose lookup fails every time: the safety half of EventuallySent.
THEOREM NoResultIsForgotten == Spec => NoneLeftBehind
<1>1. Init => BetweenInv
  BY DEF Init, BetweenInv
<1>2. BetweenInv /\ [Next]_vars => BetweenInv'
  BY DEF BetweenInv, Next, Step, vars, local, history, InsertDMARCResult, Start, Tick, Stop, Leave,
    GetDMARCDomains, NextDomain, Lookup, GetUnsentDMARCResults, sendReport, Sent, DomainDone,
    MarkDMARCResultsSent, Crash, Idle
<1>3. Inv /\ BetweenInv /\ [Next]_vars =>
        [faults' = faults =>
           \A r \in Results :
             row[r] = "unsent" =>
               /\ pc = "run" /\ pc' # "run" => InCycle(DomainOf[r])'
               /\ InCycle(DomainOf[r]) /\ DomainOf[r] \notin Broken =>
                    InCycle(DomainOf[r])' \/ row'[r] = "sent"]_vars
  BY CycleKeeps
<1> QED
  BY <1>1, <1>2, <1>3, Invariance, PTL DEF Spec, NoneLeftBehind
-----------------------------------------------------------------------------
(* Induction and recursion.                                                *)

NatLess == {ss \in Nat \X Nat : ss[1] < ss[2]}

\* The order of the natural numbers is well founded.  The library states this
\* of a relation made from an operator; here it is a set, which the provers can
\* use, and with it the induction over data below.
LEMMA NatLessWF == IsWellFoundedOn(NatLess, Nat)
BY NatLessThanWellFounded DEF OpToRel, NatLess

\* A set of natural numbers has a least element.
LEMMA Least ==
  ASSUME NEW T, T \subseteq Nat, T # {}
  PROVE  \E x \in T : \A y \in T : x <= y
<1>1. PICK x \in T : \A y \in T : ~(<<y, x>> \in NatLess)
  BY NatLessWF, WFMin
<1>2. ASSUME NEW y \in T PROVE x <= y
  <2>1. x \in Nat /\ y \in Nat OBVIOUS
  <2>2. ~(y < x) BY <1>1, <2>1 DEF NatLess
  <2> QED BY <2>1, <2>2
<1> QED BY <1>2

\* Induction over the natural numbers, for a set instead of a predicate.
LEMMA SetInduction ==
  ASSUME NEW S, 0 \in S, \A n \in Nat : n \in S => n + 1 \in S
  PROVE  Nat \subseteq S
<1>1. SUFFICES ASSUME Nat \ S # {} PROVE FALSE
  OBVIOUS
<1>2. PICK x \in Nat \ S : \A y \in Nat \ S : x <= y
  BY <1>1, Least
<1>3. x # 0 /\ x - 1 \in Nat BY <1>2
<1>4. x - 1 \in S BY <1>2, <1>3
<1> QED BY <1>3, <1>4, <1>2

\* A function on the natural numbers may be defined by its first value and a
\* step: the definitions of Pow2 and of RfcLevels have a solution.
LEMMA Recursion ==
  ASSUME NEW V, NEW v0 \in V, NEW F \in [V -> V]
  PROVE  \E f \in [Nat -> V] : \A n \in Nat : f[n] = IF n = 0 THEN v0 ELSE F[f[n - 1]]
<1> DEFINE Good(g, n) == /\ g \in [0..n -> V]
                         /\ g[0] = v0
                         /\ \A i \in 1..n : g[i] = F[g[i - 1]]
           S == {n \in Nat : \E g : Good(g, n)}
<1>1. 0 \in S
  <2> DEFINE g == [i \in 0..0 |-> v0]
  <2>1. Good(g, 0) OBVIOUS
  <2> QED BY <2>1
<1>2. ASSUME NEW n \in Nat, n \in S PROVE n + 1 \in S
  <2>1. PICK g : Good(g, n) BY <1>2
  <2> DEFINE h == [i \in 0..(n + 1) |-> IF i = n + 1 THEN F[g[n]] ELSE g[i]]
  <2>2. Good(h, n + 1) BY <2>1
  <2>3. \E x : Good(x, n + 1) <3> HIDE DEF Good, h <3> QED BY <2>2
  <2>4. n + 1 \in Nat OBVIOUS
  <2> HIDE DEF Good
  <2> QED BY <2>3, <2>4
<1>3. Nat \subseteq S
  <2> HIDE DEF S
  <2> QED BY <1>1, <1>2, SetInduction
<1> DEFINE A == {i \in Nat : \A n, m \in Nat : \A g, h :
                   i <= n /\ i <= m /\ Good(g, n) /\ Good(h, m) => g[i] = h[i]}
<1>4. 0 \in A OBVIOUS
<1>5. ASSUME NEW i \in Nat, i \in A PROVE i + 1 \in A
  <2>1. SUFFICES ASSUME NEW n \in Nat, NEW m \in Nat, NEW g, NEW h,
                        i + 1 <= n, i + 1 <= m, Good(g, n), Good(h, m)
                 PROVE  g[i + 1] = h[i + 1]
    <3>1. i + 1 \in Nat OBVIOUS
    <3> HIDE DEF Good
    <3> QED BY <3>1
  <2>2. g[i] = h[i]
    <3>1. i <= n /\ i <= m BY <2>1
    <3> HIDE DEF Good
    <3> QED BY <1>5, <2>1, <3>1
  <2>3. i + 1 \in 1..n /\ i + 1 \in 1..m /\ (i + 1) - 1 = i BY <2>1
  <2> QED BY <2>1, <2>2, <2>3
<1>6. Nat \subseteq A
  <2> HIDE DEF A
  <2> QED BY <1>4, <1>5, SetInduction
<1> DEFINE G == [n \in Nat |-> CHOOSE g : Good(g, n)]
           f == [n \in Nat |-> G[n][n]]
<1>7. ASSUME NEW n \in Nat PROVE Good(G[n], n)
  <2>1. \E g : Good(g, n) <3> HIDE DEF Good <3> QED BY <1>3
  <2> HIDE DEF Good
  <2> QED BY <2>1
<1>8. f \in [Nat -> V]
  <2>1. ASSUME NEW n \in Nat PROVE G[n][n] \in V
    <3> HIDE DEF G
    <3> QED BY <1>7
  <2> HIDE DEF G
  <2> QED BY <2>1
<1>9. f[0] = v0
  <2> HIDE DEF G
  <2> QED BY <1>7
<1>10. ASSUME NEW n \in Nat, n # 0 PROVE f[n] = F[f[n - 1]]
  <2>1. n - 1 \in Nat /\ n - 1 <= n /\ n - 1 <= n - 1 /\ n \in 1..n BY <1>10
  <2>2. G[n][n - 1] = G[n - 1][n - 1]
    <3> HIDE DEF G, Good
    <3>1. Good(G[n], n) /\ Good(G[n - 1], n - 1) BY <1>7, <2>1
    <3> QED BY <1>6, <2>1, <3>1
  <2>3. G[n][n] = F[G[n][n - 1]]
    <3> HIDE DEF G
    <3> QED BY <1>7, <2>1
  <2> HIDE DEF G
  <2> QED BY <2>1, <2>2, <2>3
<1> HIDE DEF f
<1> QED BY <1>8, <1>9, <1>10

\* Pow2 is what its definition says, and positive.
LEMMA Pow2Def == Pow2 \in [Nat -> Nat \ {0}] /\ Pow2[0] = 1 /\ \A n \in Nat : Pow2[n + 1] = 2 * Pow2[n]
<1> DEFINE P == Nat \ {0}
           F == [x \in P |-> 2 * x]
<1>1. F \in [P -> P] /\ 1 \in P OBVIOUS
<1>2. PICK f \in [Nat -> P] : \A n \in Nat : f[n] = IF n = 0 THEN 1 ELSE F[f[n - 1]]
  <2> HIDE DEF F, P
  <2> QED BY <1>1, Recursion
<1>3. f = [n \in Nat |-> IF n = 0 THEN 1 ELSE 2 * f[n - 1]]
  <2>1. ASSUME NEW n \in Nat PROVE f[n] = IF n = 0 THEN 1 ELSE 2 * f[n - 1]
    <3>1. CASE n = 0 BY <1>2, <3>1
    <3>2. CASE n # 0
      <4>1. n - 1 \in Nat /\ f[n - 1] \in P BY <3>2
      <4> QED BY <1>2, <3>2, <4>1
    <3> QED BY <3>1, <3>2
  <2> QED BY <2>1
<1>4. Pow2 = [n \in Nat |-> IF n = 0 THEN 1 ELSE 2 * Pow2[n - 1]]
  BY <1>3 DEF Pow2
<1>5. Pow2[0] = 1 BY <1>4
<1>6. \A n \in Nat : Pow2[n + 1] = 2 * Pow2[n]
  BY <1>4
<1> DEFINE S == {n \in Nat : Pow2[n] \in P}
<1>7. Nat \subseteq S
  <2>1. 0 \in S BY <1>5
  <2>2. \A n \in Nat : n \in S => n + 1 \in S BY <1>6
  <2> HIDE DEF S
  <2> QED BY <2>1, <2>2, SetInduction
<1>8. Pow2 \in [Nat -> P]
  BY <1>4, <1>7
<1> QED BY <1>5, <1>6, <1>8

-----------------------------------------------------------------------------
(* Bits and prefixes.                                                      *)

\* Quotient and remainder.
LEMMA DivDef ==
  ASSUME NEW x \in Nat, NEW m \in Nat \ {0}
  PROVE  /\ x \div m \in Nat
         /\ x % m \in 0..(m - 1)
         /\ x = (x \div m) * m + (x % m)
OBVIOUS

\* ... and there is only one pair of them.
LEMMA DivUnique ==
  ASSUME NEW x \in Nat, NEW m \in Nat \ {0}, NEW q \in Nat, NEW r \in 0..(m - 1), x = q * m + r
  PROVE  x \div m = q /\ x % m = r
<1>1. PICK p \in Nat : p = x \div m BY DivDef
<1>2. PICK s \in 0..(m - 1) : s = x % m /\ x = p * m + s BY DivDef, <1>1
<1>3. (q - p) * m = s - r BY <1>2
<1>4. CASE q > p
  <2>1. q - p >= 1 /\ (q - p) * m >= m BY <1>4
  <2> QED BY <1>3, <2>1
<1>5. CASE q < p
  <2>1. q - p <= -1 /\ (q - p) * m <= -m BY <1>5
  <2> QED BY <1>3, <2>1
<1>6. CASE q = p
  BY <1>1, <1>2, <1>6
<1> QED BY <1>4, <1>5, <1>6

\* Dropping one bit more: a shift by one more bit and the bit it drops.
LEMMA DivDiv ==
  ASSUME NEW x \in Nat, NEW m \in Nat \ {0}
  PROVE  x \div m = 2 * (x \div (2 * m)) + ((x \div m) % 2)
<1>1. PICK q \in Nat : q = x \div m BY DivDef
<1>2. PICK r \in 0..(m - 1) : r = x % m /\ x = q * m + r BY DivDef, <1>1
<1>3. PICK p \in Nat, s \in 0..1 : q = 2 * p + s /\ s = q % 2
  OBVIOUS
<1>4. x = p * (2 * m) + (s * m + r)
  <2>1. q * m = p * (2 * m) + s * m BY <1>3
  <2> QED BY <1>2, <2>1
<1>5. s * m + r \in 0..(2 * m - 1)
  <2>1. CASE s = 0 BY <2>1
  <2>2. CASE s = 1 BY <2>2
  <2> QED BY <2>1, <2>2
<1>6. 2 * m \in Nat \ {0} OBVIOUS
<1>7. x \div (2 * m) = p
  BY <1>4, <1>5, <1>6, DivUnique
<1> QED BY <1>1, <1>3, <1>7

\* Two bytes agree in what the mask of cidrMatch keeps of them exactly if they
\* agree bit by bit there.
LEMMA LeadingBits ==
  ASSUME NEW x \in 0..Pow2[ByteBits] - 1, NEW y \in 0..Pow2[ByteBits] - 1
  PROVE  \A r \in 0..ByteBits :
           x \div Pow2[ByteBits - r] = y \div Pow2[ByteBits - r]
             <=> \A j \in 0..(r - 1) : (x \div Pow2[ByteBits - 1 - j]) % 2 = (y \div Pow2[ByteBits - 1 - j]) % 2
<1> DEFINE Same(j) == (x \div Pow2[ByteBits - 1 - j]) % 2 = (y \div Pow2[ByteBits - 1 - j]) % 2
           Eq(r) == x \div Pow2[ByteBits - r] = y \div Pow2[ByteBits - r]
           S == {r \in Nat : r <= ByteBits => (Eq(r) <=> \A j \in 0..(r - 1) : Same(j))}
<1>0. /\ ByteBits \in Nat /\ Pow2[ByteBits] \in Nat \ {0}
      /\ x \in Nat /\ y \in Nat /\ x < Pow2[ByteBits] /\ y < Pow2[ByteBits]
  BY Pow2Def, SizeAssumption
<1>1. 0 \in S
  <2>1. x \div Pow2[ByteBits] = 0 /\ y \div Pow2[ByteBits] = 0
    <3> PICK m \in Nat \ {0} : m = Pow2[ByteBits] BY <1>0
    <3>1. x = 0 * m + x /\ y = 0 * m + y /\ x \in 0..(m - 1) /\ y \in 0..(m - 1) /\ 0 \in Nat
      BY <1>0
    <3> QED BY <3>1, DivUnique, <1>0
  <2>2. ByteBits - 0 = ByteBits BY <1>0
  <2>3. Eq(0) BY <2>1, <2>2
  <2> QED BY <2>3
<1>2. ASSUME NEW r \in Nat, r \in S PROVE r + 1 \in S
  <2>1. SUFFICES ASSUME r + 1 <= ByteBits
                 PROVE  Eq(r + 1) <=> \A j \in 0..r : Same(j)
    <3>1. r + 1 \in Nat /\ (r + 1) - 1 = r OBVIOUS
    <3> HIDE DEF Eq, Same
    <3> QED BY <3>1
  <2>2. Eq(r) <=> \A j \in 0..(r - 1) : Same(j)
    <3>1. r <= ByteBits BY <2>1, <1>0
    <3> HIDE DEF Eq, Same
    <3> QED BY <1>2, <3>1
  <2>3. PICK m \in Nat \ {0} : m = Pow2[ByteBits - 1 - r]
    BY Pow2Def, <2>1, <1>0
  <2>4. Pow2[ByteBits - r] = 2 * m
    <3>1. ByteBits - 1 - r \in Nat /\ (ByteBits - 1 - r) + 1 = ByteBits - r BY <2>1, <1>0
    <3> QED BY <3>1, <2>3, Pow2Def
  <2>5. ByteBits - (r + 1) = ByteBits - 1 - r BY <2>1, <1>0
  <2>6. /\ x \div m = 2 * (x \div (2 * m)) + ((x \div m) % 2)
        /\ y \div m = 2 * (y \div (2 * m)) + ((y \div m) % 2)
    BY DivDiv, <1>0
  <2>7. Eq(r + 1) <=> x \div m = y \div m
    BY <2>3, <2>5
  <2>8. Eq(r) <=> x \div (2 * m) = y \div (2 * m)
    BY <2>4
  <2>9. Same(r) <=> (x \div m) % 2 = (y \div m) % 2
    BY <2>3
  <2>10. x \div m \in Nat /\ y \div m \in Nat /\ x \div (2 * m) \in Nat /\ y \div (2 * m) \in Nat
    <3>1. 2 * m \in Nat \ {0} OBVIOUS
    <3> QED BY DivDef, <1>0, <3>1
  <2>11. Eq(r + 1) <=> Eq(r) /\ Same(r)
    <3> HIDE DEF Eq, Same
    <3>1. PICK a \in Nat, b \in Nat, c \in Nat, d \in Nat :
            a = x \div m /\ b = y \div m /\ c = x \div (2 * m) /\ d = y \div (2 * m)
      BY <2>10
    <3>2. a = 2 * c + (a % 2) /\ b = 2 * d + (b % 2) BY <2>6, <3>1
    <3>3. a = b <=> c = d /\ a % 2 = b % 2 BY <3>2
    <3> QED BY <3>1, <3>3, <2>7, <2>8, <2>9
  <2>12. (\A j \in 0..r : Same(j)) <=> (\A j \in 0..(r - 1) : Same(j)) /\ Same(r)
    <3> HIDE DEF Same
    <3>1. \A j \in 0..r : j \in 0..(r - 1) \/ j = r OBVIOUS
    <3>2. r \in 0..r /\ \A j \in 0..(r - 1) : j \in 0..r OBVIOUS
    <3> QED BY <3>1, <3>2
  <2> HIDE DEF Eq, Same
  <2> QED BY <2>2, <2>11, <2>12
<1>3. Nat \subseteq S
  <2> HIDE DEF S
  <2> QED BY <1>1, <1>2, SetInduction
<1>4. \A r \in 0..ByteBits : Eq(r) <=> \A j \in 0..(r - 1) : Same(j)
  <2> HIDE DEF Eq, Same
  <2> QED BY <1>3, <1>0
<1> QED BY <1>4

\* Bytes with the same bits are the same.
LEMMA BytesByBits ==
  ASSUME NEW x \in 0..Pow2[ByteBits] - 1, NEW y \in 0..Pow2[ByteBits] - 1,
         \A j \in 0..(ByteBits - 1) : (x \div Pow2[ByteBits - 1 - j]) % 2 = (y \div Pow2[ByteBits - 1 - j]) % 2
  PROVE  x = y
<1>1. ByteBits \in 0..ByteBits /\ ByteBits - ByteBits = 0 BY SizeAssumption
<1>2. x \div Pow2[0] = y \div Pow2[0] BY LeadingBits, <1>1
<1>3. x \in Nat /\ y \in Nat BY Pow2Def, SizeAssumption
<1> QED BY <1>2, <1>3, Pow2Def

\* The bits of an address, counted byte by byte.
LEMMA BitAt ==
  ASSUME NEW a, NEW q \in Nat, NEW j \in 0..(ByteBits - 1)
  PROVE  Bit(a, q * ByteBits + j + 1) = (a[q + 1] \div Pow2[ByteBits - 1 - j]) % 2
<1>0. ByteBits \in Nat \ {0} BY SizeAssumption
<1> PICK k \in Nat : k = q * ByteBits + j
  <2>1. q * ByteBits \in Nat BY <1>0
  <2> QED BY <2>1, <1>0
<1>1. k \div ByteBits = q /\ k % ByteBits = j
  BY <1>0, DivUnique
<1>2. (q * ByteBits + j + 1) - 1 = k
  <2>1. q * ByteBits \in Nat BY <1>0
  <2> QED BY <2>1, <1>0
<1> QED BY <1>1, <1>2 DEF Bit

\* An address is the sequence of its bytes.
LEMMA AddressBytes ==
  ASSUME NEW a \in Address
  PROVE  Len(a) \in Nat /\ a = [i \in 1..Len(a) |-> a[i]] /\ \A i \in 1..Len(a) : a[i] \in 0..Pow2[ByteBits] - 1
<1>1. PICK B : B = 0..Pow2[ByteBits] - 1 OBVIOUS
<1>2. a \in Seq(B) BY <1>1 DEF Address
<1>3. Len(a) \in Nat /\ a = [i \in 1..Len(a) |-> a[i]] /\ \A i \in 1..Len(a) : a[i] \in B BY <1>2
<1> QED BY <1>1, <1>3

\* Every bit belongs to a byte.
LEMMA BitOf ==
  ASSUME NEW k \in Nat \ {0}
  PROVE  \E q \in Nat, j \in 0..(ByteBits - 1) : k = q * ByteBits + j + 1
<1>0. ByteBits \in Nat \ {0} BY SizeAssumption
<1>1. PICK i \in Nat : i = k - 1 OBVIOUS
<1>2. PICK q \in Nat, j \in 0..(ByteBits - 1) : i = q * ByteBits + j
  BY DivDef, <1>0
<1>3. q * ByteBits \in Nat BY <1>0
<1> QED BY <1>0, <1>1, <1>2, <1>3

\* A byte that lies in a common prefix is common.
LEMMA WholeBytes ==
  ASSUME NEW a \in Address, NEW n \in Address, Len(a) = Len(n),
         NEW i \in 1..Len(a), NEW bits \in Int, i * ByteBits <= bits,
         \A k \in 1..bits : Bit(a, k) = Bit(n, k)
  PROVE  a[i] = n[i]
<1>0. ByteBits \in Nat \ {0} BY SizeAssumption
<1>1. a[i] \in 0..Pow2[ByteBits] - 1 /\ n[i] \in 0..Pow2[ByteBits] - 1
  BY AddressBytes
<1>2. ASSUME NEW j \in 0..(ByteBits - 1)
      PROVE  (a[i] \div Pow2[ByteBits - 1 - j]) % 2 = (n[i] \div Pow2[ByteBits - 1 - j]) % 2
  <2>1. PICK q \in Nat : q = i - 1 OBVIOUS
  <2>2. PICK k \in Int : k = q * ByteBits + j + 1
    <3>1. q * ByteBits \in Nat BY <1>0
    <3> QED BY <3>1, <1>0
  <2>3. k \in 1..bits
    <3>1. i * ByteBits = q * ByteBits + ByteBits /\ q * ByteBits \in Nat BY <1>0, <2>1
    <3> QED BY <3>1, <2>2, <1>0
  <2>4. Bit(a, k) = Bit(n, k) BY <2>3
  <2>5. q + 1 = i BY <2>1
  <2> QED BY <2>2, <2>4, <2>5, BitAt
<1> QED BY <1>1, <1>2, BytesByBits

\* cidrMatch, with its whole bytes first and its mask of the last, partial one,
\* holds exactly of addresses of one family that agree in their leading bits,
\* also for a length of 0, below 0 and beyond the address, for any size of a
\* byte and any length of the addresses.
THEOREM CidrMatchIsSamePrefix ==
  ASSUME NEW a \in Address, NEW n \in Address, NEW bits \in Int
  PROVE  cidrMatch(a, n, bits) <=> SamePrefix(a, n, bits)
<1>0. ByteBits \in Nat \ {0} BY SizeAssumption
<1>1. SUFFICES ASSUME Len(a) = Len(n)
               PROVE  cidrMatch(a, n, bits) <=> \A k \in 1..bits : Bit(a, k) = Bit(n, k)
  BY DEF cidrMatch, SamePrefix
<1>2. CASE bits <= 0
  <2>1. cidrMatch(a, n, bits) BY <1>1, <1>2 DEF cidrMatch
  <2>2. 1..bits = {} BY <1>2
  <2> QED BY <2>1, <2>2
<1> PICK L \in Nat : L = Len(a) BY DEF Address
<1> PICK T \in Nat : T = L * ByteBits BY <1>0
<1>3. CASE bits > 0 /\ bits >= T
  <2>1. cidrMatch(a, n, bits) <=> a = n BY <1>1, <1>3 DEF cidrMatch
  <2>2. ASSUME \A k \in 1..bits : Bit(a, k) = Bit(n, k) PROVE a = n
    <3>1. ASSUME NEW i \in 1..Len(a) PROVE a[i] = n[i]
      <4>1. i * ByteBits <= L * ByteBits BY <1>0
      <4>2. i * ByteBits \in Int BY <1>0
      <4>3. i * ByteBits <= bits BY <4>1, <4>2, <1>3
      <4> QED BY <1>1, <2>2, <4>3, WholeBytes
    <3> QED BY <3>1, <1>1 DEF Address
  <2>3. ASSUME a = n PROVE \A k \in 1..bits : Bit(a, k) = Bit(n, k)
    BY <2>3
  <2> QED BY <2>1, <2>2, <2>3
<1>4. CASE bits > 0 /\ bits < T
  <2>1. PICK Q \in Nat, R \in 0..(ByteBits - 1) :
          Q = bits \div ByteBits /\ R = bits % ByteBits /\ bits = Q * ByteBits + R
    <3>1. bits \in Nat BY <1>4
    <3> QED BY <3>1, <1>0, DivDef
  <2>2. Q < L
    <3>1. Q * ByteBits < L * ByteBits
      <4>1. Q * ByteBits \in Nat BY <1>0
      <4> QED BY <4>1, <2>1, <1>4, <1>0
    <3>2. CASE Q >= L
      <4>1. Q * ByteBits >= L * ByteBits BY <3>2, <1>0
      <4>2. Q * ByteBits \in Int /\ L * ByteBits \in Int BY <1>0
      <4> QED BY <3>1, <4>1, <4>2
    <3> QED BY <3>2
  <2> DEFINE m == Pow2[ByteBits - R]
  <2>3. cidrMatch(a, n, bits) <=>
          /\ \A k \in 1..Q : a[k] = n[k]
          /\ R > 0 => a[Q + 1] \div m = n[Q + 1] \div m
    BY <1>1, <1>4, <2>1 DEF cidrMatch
  <2>4. a[Q + 1] \in 0..Pow2[ByteBits] - 1 /\ n[Q + 1] \in 0..Pow2[ByteBits] - 1
    <3>1. Q + 1 \in 1..Len(a) BY <2>2
    <3> QED BY <3>1, <1>1, AddressBytes
  <2>5. a[Q + 1] \div m = n[Q + 1] \div m <=>
          \A j \in 0..(R - 1) : Bit(a, Q * ByteBits + j + 1) = Bit(n, Q * ByteBits + j + 1)
    <3>1. R \in 0..ByteBits BY <1>0
    <3>2. a[Q + 1] \div m = n[Q + 1] \div m <=>
            \A j \in 0..(R - 1) : (a[Q + 1] \div Pow2[ByteBits - 1 - j]) % 2
                                    = (n[Q + 1] \div Pow2[ByteBits - 1 - j]) % 2
      BY <2>4, <3>1, LeadingBits
    <3>3. \A j \in 0..(R - 1) : j \in 0..(ByteBits - 1) BY <1>0
    <3>4. ASSUME NEW j \in 0..(R - 1)
          PROVE  /\ Bit(a, Q * ByteBits + j + 1) = (a[Q + 1] \div Pow2[ByteBits - 1 - j]) % 2
                 /\ Bit(n, Q * ByteBits + j + 1) = (n[Q + 1] \div Pow2[ByteBits - 1 - j]) % 2
      BY <3>3, BitAt, Zenon
    <3> HIDE DEF m
    <3> QED BY <3>2, <3>4, Zenon
  <2>6. ASSUME cidrMatch(a, n, bits), NEW k \in 1..bits PROVE Bit(a, k) = Bit(n, k)
    <3>1. PICK q \in Nat, j \in 0..(ByteBits - 1) : k = q * ByteBits + j + 1
      <4>1. k \in Nat \ {0} OBVIOUS
      <4> QED BY <4>1, BitOf, Zenon
    <3>2. CASE q < Q
      <4>1. a[q + 1] = n[q + 1] BY <2>3, <2>6, <3>2
      <4>2. /\ Bit(a, k) = (a[q + 1] \div Pow2[ByteBits - 1 - j]) % 2
            /\ Bit(n, k) = (n[q + 1] \div Pow2[ByteBits - 1 - j]) % 2
        BY <3>1, BitAt, Zenon
      <4> QED BY <4>1, <4>2, Zenon
    <3>3. CASE q = Q
      <4>1. j < R
        <5>1. Q * ByteBits \in Nat BY <1>0
        <5> QED BY <2>1, <3>1, <3>3, <5>1, <1>0
      <4>2. j \in 0..(R - 1) /\ R > 0 BY <4>1, <1>0
      <4> HIDE DEF m
      <4> QED BY <2>3, <2>5, <2>6, <3>1, <3>3, <4>2
    <3>4. CASE q > Q
      <4>1. q * ByteBits >= (Q + 1) * ByteBits BY <3>4, <1>0
      <4>2. (Q + 1) * ByteBits = Q * ByteBits + ByteBits BY <1>0
      <4>3. q * ByteBits \in Nat /\ Q * ByteBits \in Nat BY <1>0
      <4> QED BY <4>1, <4>2, <4>3, <3>1, <2>1, <1>0
    <3> QED BY <3>2, <3>3, <3>4
  <2>7. ASSUME \A k \in 1..bits : Bit(a, k) = Bit(n, k) PROVE cidrMatch(a, n, bits)
    <3>1. ASSUME NEW i \in 1..Q PROVE a[i] = n[i]
      <4>1. i * ByteBits <= Q * ByteBits BY <1>0
      <4>2. i * ByteBits \in Nat /\ Q * ByteBits \in Nat BY <1>0
      <4>3. i * ByteBits <= bits BY <4>1, <4>2, <2>1, <1>0
      <4>4. i \in 1..Len(a) BY <2>2
      <4> QED BY <1>1, <2>7, <4>3, <4>4, WholeBytes
    <3>2. ASSUME NEW j \in 0..(R - 1)
          PROVE  Bit(a, Q * ByteBits + j + 1) = Bit(n, Q * ByteBits + j + 1)
      <4>1. Q * ByteBits \in Nat BY <1>0
      <4>2. Q * ByteBits + j + 1 \in 1..bits BY <4>1, <2>1, <1>0
      <4> QED BY <2>7, <4>2
    <3> HIDE DEF m
    <3> QED BY <3>1, <3>2, <2>3, <2>5
  <2> QED BY <2>6, <2>7
<1> QED BY <1>2, <1>3, <1>4

-----------------------------------------------------------------------------
(* The reference.                                                          *)

\* Min is the first of a set of positions.
LEMMA MinIsFirst ==
  ASSUME NEW S, S \subseteq Nat, S # {}
  PROVE  Min(S) \in S /\ \A y \in S : Min(S) <= y
<1>1. \E x \in S : \A y \in S : x <= y BY Least
<1> QED BY <1>1, Zenon DEF Min

\* Elements of a sequence.
LEMMA SeqElement ==
  ASSUME NEW R, NEW s \in Seq(R)
  PROVE  DOMAIN s = 1..Len(s) /\ Len(s) \in Nat /\ \A j \in DOMAIN s : s[j] \in R
OBVIOUS

\* The texts of a name.
LEMMA TextTyped ==
  ASSUME NEW z \in Dns, NEW d \in Names, NEW j \in DOMAIN z.txt[d]
  PROVE  z.txt[d][j].spf \in BOOLEAN /\ z.txt[d][j].terms \in Seq(TermOf)
<1>1. z.txt[d] \in Seq([spf : BOOLEAN, terms : Seq(TermOf)])
  BY Zenon DEF Dns
<1>2. z.txt[d][j] \in [spf : BOOLEAN, terms : Seq(TermOf)]
  BY <1>1, SeqElement, Zenon
<1> QED BY <1>2, Zenon

\* lookupSPF returns the terms of one of the texts.
LEMMA RecordIsText ==
  ASSUME NEW z \in Dns, NEW d \in Names, SpfTexts(z, d) # {}
  PROVE  /\ \E j \in DOMAIN z.txt[d] : lookupSPF(z, d) = z.txt[d][j].terms
         /\ lookupSPF(z, d) \in Seq(TermOf)
<1>1. z.txt[d] \in Seq([spf : BOOLEAN, terms : Seq(TermOf)]) 
  BY Zenon DEF Dns
<1>2. DOMAIN z.txt[d] \subseteq Nat
  <2>1. DOMAIN z.txt[d] = 1..Len(z.txt[d]) /\ Len(z.txt[d]) \in Nat
    BY <1>1, SeqElement, Zenon
  <2> QED BY <2>1
<1>3. SpfTexts(z, d) \subseteq DOMAIN z.txt[d] BY Zenon DEF SpfTexts
<1>4. Min(SpfTexts(z, d)) \in DOMAIN z.txt[d]
  <2> PICK S : S = SpfTexts(z, d) OBVIOUS
  <2>1. S \subseteq Nat /\ S # {} BY <1>2, <1>3
  <2> QED BY <2>1, <1>3, MinIsFirst
<1> QED BY <1>4, TextTyped, Zenon DEF lookupSPF

\* The terms of a record.
LEMMA TermTyped ==
  ASSUME NEW terms \in Seq(TermOf), NEW k \in DOMAIN terms
  PROVE  /\ k \in 1..Len(terms)
         /\ terms[k] \in TermOf
         /\ terms[k].q \in {"+", "-", "~", "?"} /\ terms[k].dom \in Names \cup {Empty, NoName}
         /\ terms[k].net \in Address /\ terms[k].bits \in Int
         /\ terms[k].m \in Ignored \cup ByText \cup ByAddress \cup ByHosts
<1>1. k \in 1..Len(terms) /\ terms[k] \in TermOf OBVIOUS
<1> PICK A, M : A = Address /\ M = Ignored \cup ByText \cup ByAddress \cup ByHosts OBVIOUS
<1>2. terms[k] \in [m : M, q : {"+", "-", "~", "?"}, dom : Names \cup {Empty, NoName}, net : A, bits : Int]
  BY <1>1 DEF TermOf
<1> QED BY <1>1, <1>2

\* The redirect of a record names a domain or nothing.
LEMMA TargetTyped ==
  ASSUME NEW terms \in Seq(TermOf), Redirects(terms) # {}
  PROVE  Target(terms) \in Names \cup {Empty, NoName}
<1>1. DOMAIN terms \subseteq Nat OBVIOUS
<1>2. Redirects(terms) \subseteq DOMAIN terms BY Zenon DEF Redirects
<1>3. Min(Redirects(terms)) \in DOMAIN terms
  <2> PICK S : S = Redirects(terms) OBVIOUS
  <2>1. S \subseteq Nat /\ S # {} BY <1>1, <1>2
  <2> QED BY <2>1, <1>2, MinIsFirst
<1> QED BY <1>3, TermTyped, Zenon DEF Target

\* Every qualifier has its verdict.
LEMMA VerdictTyped ==
  ASSUME NEW q \in {"+", "-", "~", "?"}
  PROVE  Verdict(q) \in Verdicts
BY DEF Verdict, Verdicts

\* The first of the terms that match is one of them.
LEMMA HitsTyped ==
  ASSUME NEW z \in Dns, NEW c, NEW d \in Names, SpfTexts(z, d) # {},
         RfcHits(z, c, d) # {}
  PROVE  /\ Min(RfcHits(z, c, d)) \in RfcHits(z, c, d)
         /\ \A k \in RfcHits(z, c, d) : Min(RfcHits(z, c, d)) <= k
         /\ Min(RfcHits(z, c, d)) \in DOMAIN lookupSPF(z, d)
<1>1. RfcHits(z, c, d) \subseteq DOMAIN lookupSPF(z, d) BY Zenon DEF RfcHits
<1>2. DOMAIN lookupSPF(z, d) \subseteq Nat
  <2>1. lookupSPF(z, d) \in Seq(TermOf) BY RecordIsText
  <2> QED BY <2>1
<1> PICK S : S = RfcHits(z, c, d) OBVIOUS
<1>3. S \subseteq Nat /\ S # {} BY <1>1, <1>2
<1> QED BY <1>1, <1>3, MinIsFirst

\* One level of the reference gives each name a verdict.
LEMMA StepTyped ==
  ASSUME NEW z \in Dns, NEW c, NEW inner \in [Names -> Verdicts]
  PROVE  RfcStep(z, c, inner) \in [Names -> Verdicts]
<1>0. {"permerror", "neutral"} \subseteq Verdicts BY DEF Verdicts
<1>1. SUFFICES ASSUME NEW d \in Names
               PROVE  (IF SpfTexts(z, d) = {} THEN "permerror"
                       ELSE IF RfcHits(z, c, d) # {}
                         THEN Verdict(lookupSPF(z, d)[Min(RfcHits(z, c, d))].q)
                       ELSE IF Redirects(lookupSPF(z, d)) = {} THEN "neutral"
                       ELSE IF Target(lookupSPF(z, d)) \notin Names THEN "permerror"
                       ELSE inner[Target(lookupSPF(z, d))]) \in Verdicts
  BY Zenon DEF RfcStep
<1>2. CASE SpfTexts(z, d) = {} BY <1>0, <1>2
<1>3. CASE SpfTexts(z, d) # {} /\ RfcHits(z, c, d) # {}
  <2>1. lookupSPF(z, d)[Min(RfcHits(z, c, d))].q \in {"+", "-", "~", "?"}
    BY <1>3, HitsTyped, RecordIsText, TermTyped, Zenon
  <2>2. Verdict(lookupSPF(z, d)[Min(RfcHits(z, c, d))].q) \in Verdicts
    BY <2>1, VerdictTyped, Zenon
  <2> QED BY <1>3, <2>2, Zenon
<1>4. CASE SpfTexts(z, d) # {} /\ RfcHits(z, c, d) = {}
  <2>1. Redirects(lookupSPF(z, d)) # {} => Target(lookupSPF(z, d)) \in Names \cup {Empty, NoName}
    BY <1>4, RecordIsText, TargetTyped, Zenon
  <2> QED BY <1>0, <1>4, <2>1
<1> QED BY <1>2, <1>3, <1>4, Zenon

\* The reference is what its recursive definition says.
LEMMA LevelsUnfold ==
  ASSUME NEW z \in Dns, NEW c
  PROVE  /\ RfcLevels(z, c) \in [Nat -> [Names -> Verdicts]]
         /\ RfcLevels(z, c)[0] = [d \in Names |-> "permerror"]
         /\ \A n \in Nat : RfcLevels(z, c)[n + 1] = RfcStep(z, c, RfcLevels(z, c)[n])
<1> DEFINE P == [Names -> Verdicts]
           v0 == [d \in Names |-> "permerror"]
           F == [v \in P |-> RfcStep(z, c, v)]
<1>1. F \in [P -> P] /\ v0 \in P
  <2>1. v0 \in P BY DEF Verdicts
  <2>2. \A v \in P : RfcStep(z, c, v) \in P BY StepTyped
  <2> HIDE DEF P, v0
  <2> QED BY <2>1, <2>2
<1>2. PICK f \in [Nat -> P] : \A n \in Nat : f[n] = IF n = 0 THEN v0 ELSE F[f[n - 1]]
  <2> HIDE DEF F, P, v0
  <2> QED BY <1>1, Recursion
<1>3. f = [n \in Nat |-> IF n = 0 THEN v0 ELSE RfcStep(z, c, f[n - 1])]
  <2>1. ASSUME NEW n \in Nat PROVE f[n] = IF n = 0 THEN v0 ELSE RfcStep(z, c, f[n - 1])
    <3>1. CASE n = 0 BY <1>2, <3>1
    <3>2. CASE n # 0
      <4>1. n - 1 \in Nat /\ f[n - 1] \in P BY <3>2
      <4> HIDE DEF P, v0
      <4> QED BY <1>2, <3>2, <4>1
    <3> QED BY <3>1, <3>2
  <2> HIDE DEF P, v0
  <2> QED BY <2>1
<1>4. RfcLevels(z, c) = [n \in Nat |-> IF n = 0 THEN v0 ELSE RfcStep(z, c, RfcLevels(z, c)[n - 1])]
  BY <1>3, Zenon DEF RfcLevels
<1> PICK g : g = RfcLevels(z, c) OBVIOUS
<1>5. g = [n \in Nat |-> IF n = 0 THEN v0 ELSE RfcStep(z, c, g[n - 1])] BY <1>4
<1>6. g[0] = v0 /\ \A n \in Nat : g[n + 1] = RfcStep(z, c, g[n])
  <2> HIDE DEF v0
  <2>1. g[0] = v0 BY <1>5
  <2>2. ASSUME NEW n \in Nat PROVE g[n + 1] = RfcStep(z, c, g[n])
    <3>1. PICK i \in Nat : i = n + 1 /\ i # 0 /\ i - 1 = n OBVIOUS
    <3>2. g[i] = RfcStep(z, c, g[i - 1]) BY <1>5, <3>1
    <3> QED BY <3>1, <3>2
  <2> QED BY <2>1, <2>2
<1> DEFINE S == {n \in Nat : g[n] \in P}
<1>7. Nat \subseteq S
  <2>1. 0 \in S BY <1>6, <1>1
  <2>2. \A n \in Nat : n \in S => n + 1 \in S
    <3> HIDE DEF P, v0
    <3>1. \A v \in P : RfcStep(z, c, v) \in P BY StepTyped DEF P
    <3> QED BY <1>6, <3>1
  <2> HIDE DEF S
  <2> QED BY <2>1, <2>2, SetInduction
<1>8. g \in [Nat -> P]
  <2> HIDE DEF P, v0
  <2> QED BY <1>5, <1>7
<1> QED BY <1>6, <1>8

\* ... counted by the depth of evaluate.
LEMMA LevelOf ==
  ASSUME NEW z \in Dns, NEW c, NEW n \in 0..MaxDepth
  PROVE  RfcLevels(z, c)[MaxDepth + 1 - n] = RfcStep(z, c, RfcLevels(z, c)[MaxDepth - n])
<1>1. PICK k \in Nat : k = MaxDepth - n /\ k + 1 = MaxDepth + 1 - n
  BY SizeAssumption
<1>2. RfcLevels(z, c)[k + 1] = RfcStep(z, c, RfcLevels(z, c)[k])
  BY LevelsUnfold
<1> QED BY <1>1, <1>2

\* The reference on a record with a term that matches.
LEMMA StepHit ==
  ASSUME NEW z, NEW c, NEW inner, NEW d \in Names, SpfTexts(z, d) # {}, RfcHits(z, c, d) # {}
  PROVE  RfcStep(z, c, inner)[d] = Verdict(lookupSPF(z, d)[Min(RfcHits(z, c, d))].q)
BY Zenon DEF RfcStep

\* The reference on a record without such a term and without a redirect.
LEMMA StepNeutral ==
  ASSUME NEW z, NEW c, NEW inner, NEW d \in Names, SpfTexts(z, d) # {}, RfcHits(z, c, d) = {},
         Redirects(lookupSPF(z, d)) = {}
  PROVE  RfcStep(z, c, inner)[d] = "neutral"
BY Zenon DEF RfcStep

\* The reference on a redirect to nothing.
LEMMA StepNowhere ==
  ASSUME NEW z, NEW c, NEW inner, NEW d \in Names, SpfTexts(z, d) # {}, RfcHits(z, c, d) = {},
         Redirects(lookupSPF(z, d)) # {}, Target(lookupSPF(z, d)) \notin Names
  PROVE  RfcStep(z, c, inner)[d] = "permerror"
BY Zenon DEF RfcStep

\* The reference on a redirect.
LEMMA StepRedirect ==
  ASSUME NEW z, NEW c, NEW inner, NEW d \in Names, SpfTexts(z, d) # {}, RfcHits(z, c, d) = {},
         Redirects(lookupSPF(z, d)) # {}, Target(lookupSPF(z, d)) \in Names
  PROVE  RfcStep(z, c, inner)[d] = inner[Target(lookupSPF(z, d))]
BY Zenon DEF RfcStep

\* The first term that matches decides.
LEMMA HitVerdict ==
  ASSUME NEW z \in Dns, NEW c, NEW d \in Names, NEW n \in 0..MaxDepth, SpfTexts(z, d) # {},
         NEW k \in DOMAIN lookupSPF(z, d),
         RfcMatches(z, c, d, lookupSPF(z, d)[k]),
         \A j \in RfcHits(z, c, d) : j >= k
  PROVE  RfcLevels(z, c)[MaxDepth + 1 - n][d] = Verdict(lookupSPF(z, d)[k].q)
<1>1. k \in RfcHits(z, c, d) BY Zenon DEF RfcHits
<1>2. Min(RfcHits(z, c, d)) = k
  <2>1. k \in Nat /\ Min(RfcHits(z, c, d)) \in Nat
    <3>1. lookupSPF(z, d) \in Seq(TermOf) BY RecordIsText
    <3>2. DOMAIN lookupSPF(z, d) \subseteq Nat BY <3>1
    <3> QED BY <3>2, <1>1, HitsTyped
  <2>2. Min(RfcHits(z, c, d)) >= k /\ Min(RfcHits(z, c, d)) <= k
    BY <1>1, HitsTyped
  <2> QED BY <2>1, <2>2
<1>3. RfcHits(z, c, d) # {} BY <1>1
<1>4. RfcLevels(z, c)[MaxDepth + 1 - n][d] = Verdict(lookupSPF(z, d)[Min(RfcHits(z, c, d))].q)
  BY <1>3, LevelOf, StepHit
<1> QED BY <1>2, <1>4, Zenon

-----------------------------------------------------------------------------
(* Mechanisms.                                                             *)

\* The terms of a well-formed record are well formed.
LEMMA TermsOK ==
  ASSUME NEW z \in Dns, NEW d \in Names, SpfTexts(z, d) # {}, WellFormed(z),
         NEW k \in DOMAIN lookupSPF(z, d)
  PROVE  TermOK(lookupSPF(z, d)[k])
<1>1. PICK j \in DOMAIN z.txt[d] : lookupSPF(z, d) = z.txt[d][j].terms
  BY RecordIsText, Zenon
<1>2. \A i \in DOMAIN z.txt[d][j].terms : TermOK(z.txt[d][j].terms[i])
  BY Zenon DEF WellFormed, RecordOK
<1> QED BY <1>1, <1>2, Zenon

\* The mx terms of a record qualified by + only.
LEMMA PlusMX ==
  ASSUME NEW z \in Dns, NEW d \in Names, SpfTexts(z, d) # {}, PlainMX(z),
         NEW k \in DOMAIN lookupSPF(z, d), lookupSPF(z, d)[k].m = "mx"
  PROVE  lookupSPF(z, d)[k].q = "+"
<1>1. PICK j \in DOMAIN z.txt[d] : lookupSPF(z, d) = z.txt[d][j].terms
  BY RecordIsText, Zenon
<1> QED BY <1>1, Zenon DEF PlainMX

\* ip4: and ip6: are tested as the RFC says.
LEMMA NetworkMatches ==
  ASSUME NEW t \in TermOf, TermOK(t), ip \in Address
  PROVE  /\ t.m = "ip4:" => (matchIP4(t) <=> SamePrefix(ip, t.net, t.bits))
         /\ t.m = "ip6:" => (matchIP6(t) <=> SamePrefix(ip, t.net, t.bits))
<1>1. t.net \in Address /\ t.bits \in Int
  <2> PICK A, M : A = Address /\ M = Ignored \cup ByText \cup ByAddress \cup ByHosts OBVIOUS
  <2>1. t \in [m : M, q : {"+", "-", "~", "?"}, dom : Names \cup {Empty, NoName}, net : A, bits : Int]
    BY DEF TermOf
  <2> QED BY <2>1
<1>2. cidrMatch(ip, t.net, t.bits) <=> SamePrefix(ip, t.net, t.bits)
  BY <1>1, CidrMatchIsSamePrefix
<1>3. SamePrefix(ip, t.net, t.bits) => Len(ip) = Len(t.net) BY DEF SamePrefix
<1>4. CASE t.m = "ip4:"
  BY <1>2, <1>3, <1>4 DEF TermOK, matchIP4, IsV4, InRange
<1>5. CASE t.m = "ip6:"
  BY <1>2, <1>3, <1>5 DEF TermOK, matchIP6, IsV4, InRange
<1> QED BY <1>4, <1>5

\* The mechanisms that need no lookup are.
LEMMA TextMatches ==
  ASSUME NEW t \in TermOf, TermOK(t), ip \in Address, t.m \in ByText
  PROVE  (CASE t.m = "all"  -> TRUE
            [] t.m = "ip4:" -> matchIP4(t)
            [] t.m = "ip6:" -> matchIP6(t)) <=> RfcMatches(zone, ip, dom, t)
<1>1. CASE t.m = "all" BY <1>1 DEF RfcMatches
<1>2. CASE t.m = "ip4:"
  <2>1. matchIP4(t) <=> SamePrefix(ip, t.net, t.bits) BY <1>2, NetworkMatches
  <2> QED BY <1>2, <2>1 DEF RfcMatches
<1>3. CASE t.m = "ip6:"
  <2>1. matchIP6(t) <=> SamePrefix(ip, t.net, t.bits) BY <1>3, NetworkMatches
  <2> QED BY <1>3, <2>1 DEF RfcMatches
<1> QED BY <1>1, <1>2, <1>3 DEF ByText

\* What evaluate ignores is no mechanism that matches.
LEMMA IgnoredNeverMatch ==
  ASSUME NEW t, t.m \in Ignored
  PROVE  ~RfcMatches(zone, ip, dom, t)
BY DEF RfcMatches, Ignored, Modifiers

\* A mechanism whose address lookup succeeds is tested as the RFC says.
LEMMA AddressMatches ==
  ASSUME NEW t \in TermOf, TermOK(t), zone \in Dns, ip \in Address, dom \in Names,
         t.m \in ByAddress, Addresses(LookedUp(t)) # {}
  PROVE  (\E a \in Addresses(LookedUp(t)) :
            IF t.m = "A:" THEN cidrMatch(ip, a, t.bits) ELSE a = ip)
           <=> RfcMatches(zone, ip, dom, t)
<1>1. t.dom \in Names \cup {Empty, NoName} /\ t.bits \in Int
  <2> PICK A, M : A = Address /\ M = Ignored \cup ByText \cup ByAddress \cup ByHosts OBVIOUS
  <2>1. t \in [m : M, q : {"+", "-", "~", "?"}, dom : Names \cup {Empty, NoName}, net : A, bits : Int]
    BY DEF TermOf
  <2> QED BY <2>1
<1>2. t.m \in {"a", "a:"}
  BY DEF TermOK, ByAddress, Modifiers
<1>3. CASE t.m = "a"
  <2>1. Addresses(LookedUp(t)) = zone.addr[dom]
    BY <1>3 DEF Addresses, LookedUp
  <2> QED BY <1>3, <2>1 DEF RfcMatches
<1>4. CASE t.m = "a:"
  <2>1. Addresses(LookedUp(t)) = zone.addr[t.dom]
    BY <1>1, <1>4 DEF Addresses, LookedUp, TermOK
  <2> QED BY <1>4, <2>1 DEF RfcMatches
<1> QED BY <1>2, <1>3, <1>4

-----------------------------------------------------------------------------
(* The check.                                                              *)

\* Types, at the start of a check.
LEMMA SpfTypeInit == SpfInit => SpfTypeOK
<1> SUFFICES ASSUME SpfInit PROVE SpfTypeOK OBVIOUS
<1>1. zone \in Dns /\ ip \in Address BY DnsAssumption DEF SpfInit
<1>2. failed \in BOOLEAN BY Zenon DEF SpfInit
<1>3. rec \in Seq(TermOf) /\ Len(rec) = 0 /\ hosts \in Seq(Names) BY DEF SpfInit
<1> QED BY <1>1, <1>2, <1>3, SizeAssumption DEF SpfInit, SpfTypeOK, Verdicts

\* A verdict keeps the types.
LEMMA FinishTyped ==
  ASSUME SpfTypeOK, NEW r \in Verdicts, Finish(r),
         UNCHANGED <<zone, sender, ip>>, dom' \in Names, failed' \in {failed, TRUE}
  PROVE  SpfTypeOK'
<1>1. failed' \in BOOLEAN BY Zenon DEF SpfTypeOK
<1> QED BY <1>1 DEF SpfTypeOK, Finish, Verdicts

\* So does the next term.
LEMMA NextTermTyped ==
  ASSUME SpfTypeOK, pos <= Len(rec), NextTerm,
         UNCHANGED <<zone, sender, ip, dom>>, failed' = failed
  PROVE  SpfTypeOK'
<1>1. failed' \in BOOLEAN BY Zenon DEF SpfTypeOK
<1>2. Len(rec) \in Nat BY DEF SpfTypeOK
<1>3. pos' \in 1..(Len(rec') + 1) BY <1>2 DEF SpfTypeOK, NextTerm
<1> QED BY <1>1, <1>3 DEF SpfTypeOK, NextTerm

\* evaluate begins with the record of a name.
LEMMA EnterTyped ==
  ASSUME SpfTypeOK, NEW d \in Names, NEW n \in Nat, SpfTexts(zone, d) # {}, Enter(d, n),
         UNCHANGED <<zone, sender, ip>>, failed' = failed
  PROVE  SpfTypeOK'
<1>1. CASE n > MaxDepth
  <2>1. Finish("permerror") /\ dom' = d BY <1>1 DEF Enter
  <2>2. "permerror" \in Verdicts BY DEF Verdicts
  <2> QED BY <2>1, <2>2, FinishTyped
<1>2. CASE ~(n > MaxDepth)
  <2>1. failed' \in BOOLEAN BY Zenon DEF SpfTypeOK
  <2>2. rec' \in Seq(TermOf) /\ pos' = 1 /\ dom' = d /\ depth' = n /\ phase' = "term"
        /\ hosts' = hosts /\ result' = result
    <3>1. zone \in Dns BY DEF SpfTypeOK
    <3> QED BY <1>2, <3>1, RecordIsText DEF Enter
  <2>3. pos' \in 1..(Len(rec') + 1)
    <3>1. Len(rec') \in Nat BY <2>2
    <3> QED BY <2>2, <3>1
  <2>4. depth' \in 0..MaxDepth BY <1>2, <2>2, SizeAssumption
  <2> QED BY <2>1, <2>2, <2>3, <2>4 DEF SpfTypeOK
<1> QED BY <1>1, <1>2

\* The term evaluate is at.
LEMMA TermFacts ==
  ASSUME SpfTypeOK, pos <= Len(rec)
  PROVE  /\ pos \in DOMAIN rec /\ Term \in TermOf
         /\ Verdict(Term.q) \in Verdicts /\ Term.dom \in Names \cup {Empty, NoName}
<1>1. rec \in Seq(TermOf) /\ pos \in DOMAIN rec BY DEF SpfTypeOK
<1>2. rec[pos] \in TermOf /\ rec[pos].q \in {"+", "-", "~", "?"} /\ rec[pos].dom \in Names \cup {Empty, NoName}
  BY <1>1, TermTyped
<1> QED BY <1>1, <1>2, VerdictTyped DEF Term

\* A term decides or is passed.
LEMMA DecideTyped ==
  ASSUME SpfTypeOK, pos <= Len(rec), NEW match, Decide(match),
         UNCHANGED <<zone, sender, ip, dom>>, failed' = failed
  PROVE  SpfTypeOK'
<1>1. dom' \in Names BY DEF SpfTypeOK
<1>2. CASE match
  <2>1. Finish(Verdict(Term.q)) BY <1>2 DEF Decide
  <2> QED BY <1>1, <2>1, FinishTyped, TermFacts
<1>3. CASE ~match
  <2>1. NextTerm BY <1>3 DEF Decide
  <2> QED BY <2>1, NextTermTyped
<1> QED BY <1>2, <1>3

\* Types are kept by every step; depth stays within MaxDepth.
LEMMA SpfTypeStep ==
  ASSUME SpfTypeOK, HostsInv, [SpfNext]_spfVars
  PROVE  SpfTypeOK'
<1>0. /\ {"temperror", "none", "permerror", "neutral"} \subseteq Verdicts /\ dom \in Names
      /\ zone \in Dns /\ rec \in Seq(TermOf) /\ Len(rec) \in Nat /\ pos \in Nat
  BY DEF Verdicts, SpfTypeOK
<1>1. CASE Check
  <2>1. UNCHANGED <<zone, sender, ip>> BY <1>1 DEF Check
  <2>2. CASE \E r \in {"temperror", "none"} :
               Finish(r) /\ UNCHANGED dom /\ failed' \in {failed, TRUE}
    BY <1>0, <2>1, <2>2, FinishTyped
  <2>3. CASE SpfTexts(zone, dom) # {} /\ Enter(dom, 0) /\ failed' = failed
    BY <1>0, <2>1, <2>3, EnterTyped
  <2> QED BY <1>1, <2>2, <2>3, Zenon DEF Check, LookupFails
<1>2. CASE Ignore
  BY <1>2, NextTermTyped DEF Ignore, AtTerm
<1>3. CASE MatchText
  <2>1. /\ \E match : Decide(match)
        /\ pos <= Len(rec) /\ UNCHANGED <<zone, sender, ip, dom>> /\ failed' = failed
    BY <1>3, Zenon DEF MatchText, AtTerm
  <2> QED BY <2>1, DecideTyped
<1>4. CASE MatchAddress
  <2>1. /\ \/ Finish("temperror") /\ failed' = TRUE
           \/ (\E match : Decide(match)) /\ failed' = failed
        /\ pos <= Len(rec) /\ UNCHANGED <<zone, sender, ip, dom>>
    BY <1>4, Zenon DEF MatchAddress, AtTerm, LookupFails
  <2>2. CASE Finish("temperror") /\ failed' = TRUE BY <1>0, <2>1, <2>2, FinishTyped
  <2>3. CASE (\E match : Decide(match)) /\ failed' = failed BY <2>1, <2>3, DecideTyped
  <2> QED BY <2>1, <2>2, <2>3
<1>5. CASE LookupMX
  <2>1. UNCHANGED <<zone, sender, ip, dom>> BY <1>5 DEF LookupMX
  <2>2. CASE LookupFails BY <1>0, <2>1, <2>2, FinishTyped DEF LookupFails
  <2>3. CASE /\ Exchanged(Term) \in Names
             /\ phase' = "mx" /\ hosts' = zone.mx[Exchanged(Term)]
             /\ UNCHANGED <<rec, depth, pos, result, failed>>
    <3>1. hosts' \in Seq(Names) BY <1>0, <2>3 DEF Dns
    <3>2. failed' \in BOOLEAN BY <2>3, Zenon DEF SpfTypeOK
    <3> QED BY <2>1, <2>3, <3>1, <3>2 DEF SpfTypeOK
  <2> QED BY <1>5, <2>2, <2>3 DEF LookupMX
<1>6. CASE MXHost
  <2>1. UNCHANGED <<zone, sender, ip, dom>> /\ phase = "mx" /\ pos <= Len(rec)
    BY <1>6 DEF MXHost, HostsInv
  <2>2. CASE (\E match : Decide(match)) /\ UNCHANGED failed
    BY <2>1, <2>2, DecideTyped
  <2>3. CASE /\ hosts # <<>> /\ hosts' = Tail(hosts) /\ failed' \in {failed, TRUE}
             /\ UNCHANGED <<phase, rec, depth, pos, result>>
    <3>1. hosts' \in Seq(Names) BY <2>3 DEF SpfTypeOK
    <3>2. failed' \in BOOLEAN BY <2>3, Zenon DEF SpfTypeOK
    <3> QED BY <2>1, <2>3, <3>1, <3>2 DEF SpfTypeOK
  <2> QED BY <1>6, <2>2, <2>3, Zenon DEF MXHost
<1>7. CASE Redirect
  <2>1. UNCHANGED <<zone, sender, ip>> BY <1>7 DEF Redirect
  <2>2. CASE \E r \in {"temperror", "permerror"} :
               Finish(r) /\ UNCHANGED dom /\ failed' \in {failed, TRUE}
    BY <1>0, <2>1, <2>2, FinishTyped
  <2>3. CASE /\ Target(rec) \in Names /\ SpfTexts(zone, Target(rec)) # {}
             /\ Enter(Target(rec), depth + 1) /\ failed' = failed
    <3>1. depth + 1 \in Nat BY DEF SpfTypeOK
    <3> QED BY <2>1, <2>3, <3>1, EnterTyped
  <2> QED BY <1>7, <2>2, <2>3, Zenon DEF Redirect, LookupFails
<1>8. CASE NoMatch
  BY <1>0, <1>8, FinishTyped DEF NoMatch
<1>9. CASE UNCHANGED spfVars
  <2>1. failed' \in BOOLEAN BY <1>9, Zenon DEF SpfTypeOK, spfVars
  <2> QED BY <1>9, <2>1 DEF spfVars, SpfTypeOK
<1> QED BY <1>1, <1>2, <1>3, <1>4, <1>5, <1>6, <1>7, <1>8, <1>9 DEF SpfNext

\* The RFC's verdicts one level below the one evaluate is at.
Inner == RfcLevels(zone, ip)[MaxDepth - depth]

\* On the track, the first term that matches is the RFC's verdict.
LEMMA OnTrackHit ==
  ASSUME SpfTypeOK, RecordInv, phase \in {"term", "mx"}, pos <= Len(rec), OnTrack,
         RfcMatches(zone, ip, dom, Term)
  PROVE  RfcVerdict(zone, ip, sender) = Verdict(Term.q)
<1>1. /\ zone \in Dns /\ dom \in Names /\ depth \in 0..MaxDepth
      /\ SpfTexts(zone, dom) # {} /\ rec = lookupSPF(zone, dom)
  BY DEF SpfTypeOK, RecordInv
<1>2. pos \in DOMAIN rec BY TermFacts
<1>3. \A k \in RfcHits(zone, ip, dom) : k >= pos BY DEF OnTrack
<1>4. RfcLevels(zone, ip)[MaxDepth + 1 - depth][dom] = Verdict(rec[pos].q)
  <2>1. RfcMatches(zone, ip, dom, lookupSPF(zone, dom)[pos]) BY <1>1 DEF Term
  <2>2. pos \in DOMAIN lookupSPF(zone, dom) BY <1>1, <1>2
  <2>3. RfcLevels(zone, ip)[MaxDepth + 1 - depth][dom] = Verdict(lookupSPF(zone, dom)[pos].q)
    BY <1>1, <1>3, <2>1, <2>2, HitVerdict, SMTT(60)
  <2> QED BY <1>1, <2>3
<1> QED BY <1>4 DEF OnTrack, Term

\* ... and past a term that does not match evaluate is still on it.
LEMMA OnTrackMiss ==
  ASSUME SpfTypeOK, RecordInv, phase \in {"term", "mx"}, pos <= Len(rec), OnTrack,
         ~RfcMatches(zone, ip, dom, Term)
  PROVE  \A k \in RfcHits(zone, ip, dom) : k >= pos + 1
<1>1. /\ zone \in Dns /\ dom \in Names
      /\ SpfTexts(zone, dom) # {} /\ rec = lookupSPF(zone, dom) /\ rec \in Seq(TermOf)
      /\ pos \in Nat
  BY DEF SpfTypeOK, RecordInv
<1>2. SUFFICES ASSUME NEW k \in RfcHits(zone, ip, dom) PROVE k >= pos + 1
  OBVIOUS
<1>3. k >= pos BY DEF OnTrack
<1>4. k \in DOMAIN rec /\ RfcMatches(zone, ip, dom, rec[k]) BY <1>1, Zenon DEF RfcHits
<1>5. k # pos BY <1>4 DEF Term
<1>6. k \in Nat BY <1>1, <1>4
<1> QED BY <1>1, <1>3, <1>5, <1>6

\* Nothing is claimed of a check that could not look something up.
LEMMA FailInv ==
  ASSUME LookupFails
  PROVE  RecordInv' /\ LoopInv' /\ HostsInv' /\ Conforms' /\ GrantsOnlyWhatRfcGrants'
BY DEF LookupFails, Finish, RecordInv, LoopInv, HostsInv, Conforms, GrantsOnlyWhatRfcGrants

\* A verdict that is the RFC's where evaluate is on the track.
LEMMA GoodVerdict ==
  ASSUME RecordInv, LoopInv, phase \in {"term", "mx"}, NEW r, Finish(r),
         UNCHANGED <<zone, sender, ip, failed>>,
         WellFormed(zone) /\ OnTrack => r = RfcVerdict(zone, ip, sender)
  PROVE  Conforms' /\ GrantsOnlyWhatRfcGrants'
<1>1. SpfTexts(zone, sender) # {} BY DEF RecordInv
<1>2. phase' = "done" /\ result' = r BY DEF Finish
<1>3. Conforms' BY <1>1, <1>2 DEF Conforms, LoopInv
<1>4. GrantsOnlyWhatRfcGrants' BY <1>2 DEF GrantsOnlyWhatRfcGrants, LoopInv
<1> QED BY <1>3, <1>4

\* Nothing is claimed of the loop once there is a verdict.
LEMMA FinishInv ==
  ASSUME NEW r, Finish(r)
  PROVE  RecordInv' /\ LoopInv' /\ HostsInv'
BY DEF Finish, RecordInv, LoopInv, HostsInv

\* Nothing is claimed of a verdict before there is one.
LEMMA Pending ==
  ASSUME phase' \in {"term", "mx"}
  PROVE  Conforms' /\ GrantsOnlyWhatRfcGrants'
BY DEF Conforms, GrantsOnlyWhatRfcGrants

\* The loop goes on after a term that does not match.
LEMMA NextTermInv ==
  ASSUME SpfTypeOK, RecordInv, LoopInv, phase \in {"term", "mx"}, pos <= Len(rec), NextTerm,
         UNCHANGED <<zone, sender, ip, dom, failed>>,
         WellFormed(zone) /\ OnTrack =>
           \/ ~RfcMatches(zone, ip, dom, Term)
           \/ failed /\ (PlainMX(zone) => RfcVerdict(zone, ip, sender) = "pass")
  PROVE  RecordInv' /\ LoopInv' /\ HostsInv'
<1>1. /\ phase' = "term" /\ pos' = pos + 1
      /\ UNCHANGED <<zone, sender, ip, dom, rec, depth, failed>>
  BY DEF NextTerm
<1>2. RecordInv' BY <1>1 DEF RecordInv
<1>3. HostsInv' BY <1>1 DEF HostsInv
<1>4. LoopInv'
  <2>1. CASE WellFormed(zone) /\ OnTrack /\ ~RfcMatches(zone, ip, dom, Term)
    <3>1. \A k \in RfcHits(zone, ip, dom) : k >= pos + 1 BY <2>1, OnTrackMiss
    <3>2. OnTrack' BY <1>1, <2>1, <3>1 DEF OnTrack
    <3> QED BY <3>2 DEF LoopInv
  <2>2. CASE WellFormed(zone) /\ failed /\ (PlainMX(zone) => RfcVerdict(zone, ip, sender) = "pass")
    BY <1>1, <2>2 DEF LoopInv
  <2>3. CASE ~WellFormed(zone) BY <1>1, <2>3 DEF LoopInv
  <2> QED BY <2>1, <2>2, <2>3 DEF LoopInv
<1> QED BY <1>2, <1>3, <1>4

\* A term decides, or the loop goes on.
LEMMA DecideInv ==
  ASSUME SpfTypeOK, RecordInv, LoopInv, phase \in {"term", "mx"}, pos <= Len(rec),
         NEW match \in BOOLEAN, Decide(match),
         UNCHANGED <<zone, sender, ip, dom, failed>>,
         WellFormed(zone) => (match <=> RfcMatches(zone, ip, dom, Term))
  PROVE  RecordInv' /\ LoopInv' /\ HostsInv' /\ Conforms' /\ GrantsOnlyWhatRfcGrants'
<1>1. CASE match
  <2>1. Finish(Verdict(Term.q)) BY <1>1 DEF Decide
  <2>2. WellFormed(zone) /\ OnTrack => Verdict(Term.q) = RfcVerdict(zone, ip, sender)
    BY <1>1, OnTrackHit
  <2> QED BY <2>1, <2>2, FinishInv, GoodVerdict
<1>2. CASE ~match
  <2>1. NextTerm BY <1>2 DEF Decide
  <2>2. phase' \in {"term", "mx"} BY <2>1 DEF NextTerm
  <2> QED BY <1>2, <2>1, <2>2, NextTermInv, Pending
<1> QED BY <1>1, <1>2

\* Check puts evaluate on the track.
LEMMA CheckInv ==
  ASSUME SpfTypeOK, RecordInv, Check
  PROVE  RecordInv' /\ LoopInv' /\ HostsInv' /\ Conforms' /\ GrantsOnlyWhatRfcGrants'
<1>0. /\ zone \in Dns /\ dom = sender /\ sender \in Names /\ MaxDepth \in Nat
      /\ UNCHANGED <<zone, sender, ip>>
  BY SizeAssumption DEF Check, RecordInv, SpfTypeOK
<1>1. CASE LookupFails BY <1>1, FailInv
<1>2. CASE SpfTexts(zone, dom) = {} /\ Finish("none")
  <2>1. Conforms' /\ GrantsOnlyWhatRfcGrants'
    BY <1>0, <1>2 DEF Finish, Conforms, GrantsOnlyWhatRfcGrants
  <2> QED BY <1>2, <2>1, FinishInv
<1>3. CASE SpfTexts(zone, dom) # {} /\ Enter(dom, 0) /\ UNCHANGED failed
  <2>1. /\ phase' = "term" /\ dom' = dom /\ depth' = 0 /\ pos' = 1
        /\ rec' = lookupSPF(zone, dom)
    BY <1>0, <1>3 DEF Enter
  <2>2. RecordInv' /\ HostsInv' BY <1>0, <1>3, <2>1 DEF RecordInv, HostsInv
  <2>3. OnTrack'
    <3>1. MaxDepth + 1 - 0 = MaxDepth + 1 /\ MaxDepth - 0 = MaxDepth BY <1>0
    <3>2. RfcVerdict(zone, ip, sender) = RfcLevels(zone, ip)[MaxDepth + 1][dom]
      BY <1>0 DEF RfcVerdict
    <3>3. ASSUME NEW k \in RfcHits(zone, ip, dom) PROVE k >= 1
      <4>1. k \in DOMAIN lookupSPF(zone, dom) BY <3>3, Zenon DEF RfcHits
      <4>2. lookupSPF(zone, dom) \in Seq(TermOf) BY <1>0, <1>3, RecordIsText
      <4> QED BY <4>1, <4>2
    <3> QED BY <1>0, <2>1, <3>1, <3>2, <3>3 DEF OnTrack
  <2> QED BY <2>1, <2>2, <2>3, Pending DEF LoopInv
<1> QED BY <1>1, <1>2, <1>3 DEF Check

\* A redirect goes on where the reference does, and ends where it does.
LEMMA RedirectInv ==
  ASSUME SpfTypeOK, RecordInv, LoopInv, Redirect
  PROVE  RecordInv' /\ LoopInv' /\ HostsInv' /\ Conforms' /\ GrantsOnlyWhatRfcGrants'
<1>0. /\ zone \in Dns /\ dom \in Names /\ depth \in 0..MaxDepth /\ MaxDepth \in Nat
      /\ pos \in Nat /\ rec \in Seq(TermOf) /\ phase = "term" /\ pos > Len(rec) /\ Redirects(rec) # {}
      /\ SpfTexts(zone, dom) # {} /\ rec = lookupSPF(zone, dom) /\ SpfTexts(zone, sender) # {}
      /\ UNCHANGED <<zone, sender, ip>>
  BY SizeAssumption DEF SpfTypeOK, RecordInv, Redirect
<1> DEFINE d == Target(rec)
<1>2. ASSUME OnTrack
      PROVE  RfcVerdict(zone, ip, sender) = IF d \notin Names THEN "permerror" ELSE Inner[d]
  <2>1. RfcHits(zone, ip, dom) = {}
    <3>1. ASSUME NEW k \in RfcHits(zone, ip, dom) PROVE FALSE
      <4>1. k \in DOMAIN rec BY <1>0, Zenon DEF RfcHits
      <4>2. k >= pos BY <1>2 DEF OnTrack
      <4> QED BY <1>0, <4>1, <4>2
    <3> QED BY <3>1
  <2>2. RfcLevels(zone, ip)[MaxDepth + 1 - depth][dom] = IF d \notin Names THEN "permerror" ELSE Inner[d]
    <3>1. RfcLevels(zone, ip)[MaxDepth + 1 - depth] = RfcStep(zone, ip, Inner)
      BY <1>0, LevelOf DEF Inner
    <3>2. RfcStep(zone, ip, Inner)[dom] = IF d \notin Names THEN "permerror" ELSE Inner[d]
      <4>1. Redirects(lookupSPF(zone, dom)) # {} /\ d = Target(lookupSPF(zone, dom)) BY <1>0
      <4>2. dom \in Names /\ SpfTexts(zone, dom) # {} BY <1>0
      <4> HIDE DEF d
      <4>3. CASE d \notin Names BY <2>1, <4>1, <4>2, <4>3, StepNowhere
      <4>4. CASE d \in Names BY <2>1, <4>1, <4>2, <4>4, StepRedirect
      <4> QED BY <4>3, <4>4
    <3> QED BY <3>1, <3>2
  <2> QED BY <1>2, <2>2 DEF OnTrack
<1>3. ASSUME d \in Names, SpfTexts(zone, d) = {}
      PROVE  Inner[d] = "permerror"
  <2>1. MaxDepth - depth \in Nat BY <1>0
  <2>2. CASE MaxDepth - depth = 0
    BY <1>0, <1>3, <2>2, LevelsUnfold DEF Inner
  <2>3. CASE MaxDepth - depth # 0
    <3>1. PICK n \in Nat : MaxDepth - depth = n + 1 /\ n = MaxDepth - depth - 1 BY <2>1, <2>3
    <3>2. RfcLevels(zone, ip)[n + 1] = RfcStep(zone, ip, RfcLevels(zone, ip)[n])
      <4>1. zone \in Dns BY <1>0
      <4> QED BY <4>1, LevelsUnfold
    <3>3. Inner = RfcStep(zone, ip, RfcLevels(zone, ip)[n]) BY <3>1, <3>2 DEF Inner
    <3> QED BY <1>3, <3>3, Zenon DEF RfcStep
  <2> QED BY <2>2, <2>3
<1>4. CASE LookupFails BY <1>4, FailInv
<1>5. CASE /\ d = Empty \/ (d \in Names /\ SpfTexts(zone, d) = {})
           /\ Finish("permerror") /\ UNCHANGED failed
  <2>1. OnTrack => "permerror" = RfcVerdict(zone, ip, sender)
    <3> HIDE DEF d
    <3> QED BY <1>2, <1>3, <1>5, NameAssumption
  <2> QED BY <1>0, <1>5, <2>1, FinishInv, GoodVerdict
<1>6. CASE d \in Names /\ SpfTexts(zone, d) # {} /\ Enter(d, depth + 1) /\ UNCHANGED failed
  <2>0. d \in Names BY <1>6
  <2>1. CASE depth + 1 > MaxDepth
    <3>1. Finish("permerror") BY <2>1, <1>6 DEF Enter
    <3>2. MaxDepth - depth = 0 BY <1>0, <2>1
    <3>3. Inner[d] = "permerror" BY <1>0, <2>0, <3>2, LevelsUnfold DEF Inner
    <3>4. OnTrack => "permerror" = RfcVerdict(zone, ip, sender)
      <4> HIDE DEF d
      <4> QED BY <1>2, <1>6, <3>3
    <3> QED BY <1>0, <1>6, <3>1, <3>4, FinishInv, GoodVerdict
  <2>2. CASE ~(depth + 1 > MaxDepth)
    <3>1. /\ phase' = "term" /\ dom' = d /\ depth' = depth + 1 /\ pos' = 1
          /\ rec' = lookupSPF(zone, d)
      BY <2>2, <1>6 DEF Enter
    <3> HIDE DEF d
    <3>2. RecordInv' /\ HostsInv' BY <1>0, <1>6, <3>1 DEF RecordInv, HostsInv
    <3>3. ASSUME OnTrack PROVE OnTrack'
      <4>1. MaxDepth + 1 - (depth + 1) = MaxDepth - depth BY <1>0
      <4>2. RfcVerdict(zone, ip, sender) = RfcLevels(zone, ip)[MaxDepth + 1 - (depth + 1)][d]
        BY <1>2, <1>6, <3>3, <4>1 DEF Inner
      <4>3. ASSUME NEW k \in RfcHits(zone, ip, d)
            PROVE  k >= 1
        <5>1. k \in DOMAIN lookupSPF(zone, d) BY <4>3, Zenon DEF RfcHits
        <5>2. lookupSPF(zone, d) \in Seq(TermOf) BY <1>0, <1>6, <2>0, RecordIsText
        <5> QED BY <5>1, <5>2
      <4> QED BY <1>0, <3>1, <4>2, <4>3 DEF OnTrack
    <3>4. LoopInv' BY <1>0, <1>6, <3>1, <3>3 DEF LoopInv
    <3> QED BY <3>1, <3>2, <3>4, Pending
  <2> QED BY <2>1, <2>2
<1> HIDE DEF d
<1> QED BY <1>4, <1>5, <1>6 DEF Redirect, d

\* matchMX passes a term only if no host has the client's address, or a host
\* was passed over.
LEMMA MXInv ==
  ASSUME SpfTypeOK, RecordInv, LoopInv, HostsInv, MXHost
  PROVE  RecordInv' /\ LoopInv' /\ HostsInv' /\ Conforms' /\ GrantsOnlyWhatRfcGrants'
<1>0. /\ zone \in Dns /\ dom \in Names /\ phase = "mx" /\ hosts \in Seq(Names)
      /\ UNCHANGED <<zone, sender, ip, dom>>
      /\ pos <= Len(rec) /\ Term.m \in ByHosts /\ rec[pos] = Term
  BY DEF SpfTypeOK, MXHost, HostsInv, Term
<1>w. ASSUME WellFormed(zone) PROVE Term.m = "mx"
  <2>1. pos \in DOMAIN rec BY <1>0, TermFacts
  <2>2. rec = lookupSPF(zone, dom) /\ SpfTexts(zone, dom) # {} BY <1>0 DEF RecordInv
  <2>3. TermOK(Term) BY <1>0, <1>w, <2>1, <2>2, TermsOK
  <2> QED BY <1>0, <2>3 DEF TermOK, ByHosts, Modifiers
<1>1. zone.mx[dom] \in Seq(Names) BY <1>0 DEF Dns
<1>2. ASSUME Term.m = "mx"
      PROVE  RfcMatches(zone, ip, dom, Term) <=>
               \E k \in DOMAIN zone.mx[dom] : ip \in zone.addr[zone.mx[dom][k]]
  BY <1>2 DEF RfcMatches
<1>h. ASSUME Term.m = "mx", hosts # <<>>
      PROVE  /\ Head(hosts) = hosts[1] /\ 1 \in DOMAIN hosts /\ hosts[1] \in Names
             /\ HostMatches(Head(hosts)) <=> ip \in zone.addr[hosts[1]]
  <2>1. Head(hosts) = hosts[1] /\ 1 \in DOMAIN hosts /\ hosts[1] \in Names BY <1>0, <1>h
  <2>2. Addresses(Head(hosts)) = zone.addr[hosts[1]] BY <2>1 DEF Addresses
  <2> QED BY <1>h, <2>1, <2>2 DEF HostMatches
<1>3. CASE hosts = <<>> /\ Decide(FALSE) /\ UNCHANGED failed
  <2>1. NextTerm BY <1>3 DEF Decide
  <2>2. ASSUME WellFormed(zone), ~failed PROVE ~RfcMatches(zone, ip, dom, Term)
    BY <1>0, <1>w, <1>2, <1>3, <2>2 DEF HostsInv
  <2>3. ASSUME WellFormed(zone), OnTrack, RfcMatches(zone, ip, dom, Term), PlainMX(zone)
        PROVE  RfcVerdict(zone, ip, sender) = "pass"
    <3>1. RfcVerdict(zone, ip, sender) = Verdict(Term.q) BY <1>0, <2>3, OnTrackHit
    <3>2. Term.q = "+"
      <4>1. pos \in DOMAIN rec BY <1>0, TermFacts
      <4>2. rec = lookupSPF(zone, dom) /\ SpfTexts(zone, dom) # {} BY <1>0 DEF RecordInv
      <4> QED BY <1>0, <1>w, <2>3, <4>1, <4>2, PlusMX DEF Term
    <3> QED BY <3>1, <3>2 DEF Verdict
  <2>4. phase' \in {"term", "mx"} BY <2>1 DEF NextTerm
  <2> QED BY <1>0, <1>3, <2>1, <2>2, <2>3, <2>4, NextTermInv, Pending
<1>4. CASE hosts # <<>> /\ HostMatches(Head(hosts)) /\ Decide(TRUE) /\ UNCHANGED failed
  <2>1. ASSUME WellFormed(zone) PROVE RfcMatches(zone, ip, dom, Term)
    <3>1. Term.m = "mx" BY <1>w, <2>1
    <3>2. 1 \in DOMAIN hosts /\ ip \in zone.addr[hosts[1]] BY <1>4, <1>h, <3>1
    <3>3. PICK k \in DOMAIN zone.mx[dom] : hosts[1] = zone.mx[dom][k] BY <1>0, <3>1, <3>2 DEF HostsInv
    <3> QED BY <1>2, <3>1, <3>2, <3>3
  <2> QED BY <1>0, <1>4, <2>1, DecideInv
<1>5. CASE /\ hosts # <<>> /\ hosts' = Tail(hosts) /\ UNCHANGED <<phase, rec, depth, pos, result>>
           /\ failed' = TRUE \/ (UNCHANGED failed /\ ~HostMatches(Head(hosts)))
  <2>1. RecordInv' BY <1>0, <1>5 DEF RecordInv
  <2>2. LoopInv'
    <3>1. OnTrack => OnTrack' BY <1>0, <1>5 DEF OnTrack
    <3>2. failed => failed' BY <1>5
    <3> QED BY <1>0, <1>5, <3>1, <3>2 DEF LoopInv
  <2>3. HostsInv'
    <3>1. \A i \in DOMAIN Tail(hosts) : i + 1 \in DOMAIN hosts /\ Tail(hosts)[i] = hosts[i + 1]
      BY <1>0, <1>5
    <3>2. \A i \in DOMAIN hosts : i = 1 \/ (i - 1 \in DOMAIN Tail(hosts) /\ hosts[i] = Tail(hosts)[i - 1])
      BY <1>0, <1>5
    <3>3. ASSUME Term.m = "mx"
          PROVE  \A i \in DOMAIN hosts' : \E k \in DOMAIN zone'.mx[dom'] : hosts'[i] = zone'.mx[dom'][k]
      BY <1>0, <1>5, <3>1, <3>3 DEF HostsInv
    <3>4. ASSUME Term.m = "mx"
          PROVE  \/ failed'
                 \/ \A k \in DOMAIN zone.mx[dom] :
                      ip \in zone.addr[zone.mx[dom][k]] => \E i \in DOMAIN hosts' : hosts'[i] = zone.mx[dom][k]
      <4>1. CASE failed \/ failed' = TRUE BY <1>5, <4>1
      <4>2. CASE ~failed /\ UNCHANGED failed /\ ~HostMatches(Head(hosts))
        <5>1. SUFFICES ASSUME NEW k \in DOMAIN zone.mx[dom], ip \in zone.addr[zone.mx[dom][k]]
                       PROVE  \E i \in DOMAIN hosts' : hosts'[i] = zone.mx[dom][k]
          OBVIOUS
        <5>2. PICK i \in DOMAIN hosts : hosts[i] = zone.mx[dom][k] BY <1>0, <3>4, <4>2, <5>1 DEF HostsInv
        <5>3. i # 1 BY <1>5, <1>h, <3>4, <4>2, <5>1, <5>2
        <5> QED BY <1>5, <3>2, <5>2, <5>3
      <4> QED BY <1>5, <4>1, <4>2
    <3>5. rec'[pos'] = Term /\ phase' = "mx" /\ pos' <= Len(rec')
      BY <1>0, <1>5
    <3> QED BY <1>0, <1>5, <3>3, <3>4, <3>5 DEF HostsInv
  <2>4. phase' \in {"term", "mx"} BY <1>0, <1>5
  <2> QED BY <2>1, <2>2, <2>3, <2>4, Pending
<1> QED BY <1>3, <1>4, <1>5 DEF MXHost

\* Every step keeps the invariant.
LEMMA SpfStep ==
  ASSUME SpfInv, [SpfNext]_spfVars
  PROVE  SpfInv'
<1> USE DEF SpfInv
<1>0. SpfTypeOK' BY SpfTypeStep
<1> SUFFICES RecordInv' /\ LoopInv' /\ HostsInv' /\ Conforms' /\ GrantsOnlyWhatRfcGrants'
  BY <1>0
<1>1. CASE Check BY <1>1, CheckInv
<1>2. ASSUME phase = "term", pos <= Len(rec), WellFormed(zone)
      PROVE  Term \in TermOf /\ TermOK(Term)
  <2>1. pos \in DOMAIN rec /\ Term \in TermOf BY <1>2, TermFacts
  <2>2. zone \in Dns /\ dom \in Names /\ rec = lookupSPF(zone, dom) /\ SpfTexts(zone, dom) # {}
    BY <1>2 DEF SpfTypeOK, RecordInv
  <2> QED BY <1>2, <2>1, <2>2, TermsOK DEF Term
<1>3. zone \in Dns /\ ip \in Address /\ dom \in Names BY DEF SpfTypeOK
<1>4. CASE Ignore
  <2>1. /\ phase = "term" /\ pos <= Len(rec) /\ Term.m \in Ignored /\ NextTerm
        /\ UNCHANGED <<zone, sender, ip, dom, failed>>
    BY <1>4 DEF Ignore, AtTerm
  <2>2. ~RfcMatches(zone, ip, dom, Term) BY <2>1, IgnoredNeverMatch
  <2>3. phase' \in {"term", "mx"} BY <2>1 DEF NextTerm
  <2> QED BY <2>1, <2>2, <2>3, NextTermInv, Pending
<1>5. CASE MatchText
  <2> DEFINE match == CASE Term.m = "all"  -> TRUE
                        [] Term.m = "ip4:" -> matchIP4(Term)
                        [] Term.m = "ip6:" -> matchIP6(Term)
  <2>1. /\ phase = "term" /\ pos <= Len(rec) /\ Term.m \in ByText /\ Decide(match)
        /\ UNCHANGED <<zone, sender, ip, dom, failed>>
    BY <1>5 DEF MatchText, AtTerm
  <2>2. WellFormed(zone) => (match <=> RfcMatches(zone, ip, dom, Term))
    BY <1>2, <1>3, <2>1, TextMatches
  <2>3. match \in BOOLEAN
    BY <2>1 DEF ByText, matchIP4, matchIP6
  <2> HIDE DEF match
  <2> QED BY <2>1, <2>2, <2>3, DecideInv
<1>6. CASE MatchAddress
  <2> DEFINE match == \E a \in Addresses(LookedUp(Term)) :
                        IF Term.m = "A:" THEN cidrMatch(ip, a, Term.bits) ELSE a = ip
  <2>1. /\ phase = "term" /\ pos <= Len(rec) /\ Term.m \in ByAddress
        /\ UNCHANGED <<zone, sender, ip, dom>>
    BY <1>6 DEF MatchAddress, AtTerm
  <2>2. CASE LookupFails BY <2>2, FailInv
  <2>3. CASE Addresses(LookedUp(Term)) # {} /\ Decide(match) /\ UNCHANGED failed
    <3>1. WellFormed(zone) => (match <=> RfcMatches(zone, ip, dom, Term))
      BY <1>2, <1>3, <2>1, <2>3, AddressMatches
    <3>2. match \in BOOLEAN OBVIOUS
    <3> HIDE DEF match
    <3> QED BY <2>1, <2>3, <3>1, <3>2, DecideInv
  <2> QED BY <1>6, <2>2, <2>3 DEF MatchAddress
<1>7. CASE LookupMX
  <2>1. /\ phase = "term" /\ pos <= Len(rec) /\ Term.m \in ByHosts
        /\ UNCHANGED <<zone, sender, ip, dom>>
    BY <1>7 DEF LookupMX, AtTerm
  <2>2. CASE LookupFails BY <2>2, FailInv
  <2>3. CASE /\ phase' = "mx" /\ hosts' = zone.mx[Exchanged(Term)]
             /\ UNCHANGED <<rec, depth, pos, result, failed>>
    <3>1. RecordInv' BY <2>1, <2>3 DEF RecordInv
    <3>2. LoopInv' BY <2>1, <2>3 DEF LoopInv, OnTrack
    <3>3. HostsInv' BY <2>1, <2>3 DEF HostsInv, Term, Exchanged
    <3>4. phase' \in {"term", "mx"} BY <2>3
    <3> QED BY <3>1, <3>2, <3>3, <3>4, Pending
  <2> QED BY <1>7, <2>2, <2>3 DEF LookupMX
<1>8. CASE MXHost BY <1>8, MXInv
<1>9. CASE Redirect BY <1>9, RedirectInv
<1>10. CASE NoMatch
  <2>1. /\ phase = "term" /\ pos > Len(rec) /\ Redirects(rec) = {} /\ Finish("neutral")
        /\ UNCHANGED <<zone, sender, ip, dom, failed>>
    BY <1>10 DEF NoMatch
  <2>2. ASSUME OnTrack PROVE RfcVerdict(zone, ip, sender) = "neutral"
    <3>1. /\ depth \in 0..MaxDepth /\ pos \in Nat /\ rec \in Seq(TermOf)
          /\ rec = lookupSPF(zone, dom) /\ SpfTexts(zone, dom) # {}
      BY <2>1 DEF SpfTypeOK, RecordInv
    <3>2. ASSUME NEW k \in RfcHits(zone, ip, dom) PROVE FALSE
      <4>1. k \in DOMAIN rec BY <3>1, Zenon DEF RfcHits
      <4>2. k >= pos BY <2>2 DEF OnTrack
      <4> QED BY <2>1, <3>1, <4>1, <4>2
    <3>3. RfcLevels(zone, ip)[MaxDepth + 1 - depth] = RfcStep(zone, ip, Inner)
      BY <1>3, <3>1, LevelOf DEF Inner
    <3>4. RfcLevels(zone, ip)[MaxDepth + 1 - depth][dom] = "neutral"
      BY <1>3, <2>1, <3>1, <3>2, <3>3, StepNeutral
    <3> QED BY <2>2, <3>4 DEF OnTrack
  <2> QED BY <2>1, <2>2, FinishInv, GoodVerdict
<1>11. CASE UNCHANGED spfVars
  BY <1>11 DEF spfVars, RecordInv, LoopInv, OnTrack, HostsInv, Conforms, GrantsOnlyWhatRfcGrants
<1> QED BY <1>1, <1>4, <1>5, <1>6, <1>7, <1>8, <1>9, <1>10, <1>11 DEF SpfNext

\* The invariant of a check.
LEMMA SpfInvariance == SpfSpec => []SpfInv
<1>1. SpfInit => SpfInv
  <2> SUFFICES ASSUME SpfInit PROVE SpfInv OBVIOUS
  <2>1. SpfTypeOK BY SpfTypeInit
  <2>2. RecordInv /\ LoopInv /\ HostsInv /\ Conforms /\ GrantsOnlyWhatRfcGrants
    BY DEF SpfInit, RecordInv, LoopInv, HostsInv, Conforms, GrantsOnlyWhatRfcGrants
  <2> QED BY <2>1, <2>2 DEF SpfInv
<1>2. SpfInv /\ [SpfNext]_spfVars => SpfInv' BY SpfStep
<1> QED BY <1>1, <1>2, PTL DEF SpfSpec

\* Type correctness of a check: whatever the DNS holds, evaluate nests no
\* deeper than MaxDepth and reads no term beyond its record.
THEOREM SpfTypeCorrect == SpfSpec => []SpfTypeOK
<1>1. SpfInv => SpfTypeOK
  BY DEF SpfInv
<1> QED
  BY SpfInvariance, <1>1, PTL

\* The verdict of evaluate, on records it reads as RFC 7208 does and within the
\* RFC's limit of lookups, is the RFC's, unless a lookup returned an error.
THEOREM SpfConforms == SpfSpec => []Conforms
<1>1. SpfInv => Conforms
  BY DEF SpfInv
<1> QED
  BY SpfInvariance, <1>1, PTL

\* Whatever lookups fail, matchMX passing over hosts included, a pass on such
\* records is the RFC's, where mx is qualified by + only.
THEOREM SpfGrants == SpfSpec => []GrantsOnlyWhatRfcGrants
<1>1. SpfInv => GrantsOnlyWhatRfcGrants
  BY DEF SpfInv
<1> QED
  BY SpfInvariance, <1>1, PTL

\* Every step of a check comes nearer to its end, along redirects in a circle
\* too: what Terminates rests on.
THEOREM SpfForward == SpfSpec => [][StepsForward]_spfVars
<1>1. SpfInv /\ [SpfNext]_spfVars => [StepsForward]_spfVars
  <2> SUFFICES ASSUME SpfInv, SpfNext PROVE StepsForward
    OBVIOUS
  <2>0. depth \in Nat /\ hosts \in Seq(Names) BY DEF SpfInv, SpfTypeOK
  <2>1. CASE Check BY <2>1 DEF Check, LookupFails, Finish, Enter, StepsForward
  <2>2. CASE Ignore \/ MatchText
    BY <2>2 DEF Ignore, MatchText, AtTerm, Decide, Finish, NextTerm, StepsForward
  <2>3. CASE MatchAddress
    BY <2>3 DEF MatchAddress, LookupFails, AtTerm, Decide, Finish, NextTerm, StepsForward
  <2>4. CASE LookupMX BY <2>4 DEF LookupMX, LookupFails, AtTerm, Finish, StepsForward
  <2>5. CASE MXHost
    <3>1. hosts # <<>> => Len(Tail(hosts)) = Len(hosts) - 1 BY <2>0
    <3> QED BY <2>5, <3>1 DEF MXHost, Decide, Finish, NextTerm, StepsForward
  <2>6. CASE Redirect BY <2>0, <2>6 DEF Redirect, LookupFails, Finish, Enter, StepsForward
  <2>7. CASE NoMatch BY <2>7 DEF NoMatch, Finish, StepsForward
  <2> QED BY <2>1, <2>2, <2>3, <2>4, <2>5, <2>6, <2>7 DEF SpfNext
<1> QED
  BY SpfInvariance, <1>1, PTL DEF SpfSpec
=============================================================================
