------------------------- MODULE SmtpIngressProofs -------------------------
(***************************************************************************)
(* Greylisting, and what DATA does with each recipient, for any number of  *)
(* connections, clients and recipients, any delay and any number of        *)
(* failing statements; and the rate limiter in front of them (RateLimit).  *)
(***************************************************************************)
EXTENDS SmtpIngress, RateLimit, TLAPS

GreySteps == {"white", "record", "age", "pass"}
Steps == GreySteps \cup {"ready", "lookup", "local", "remote"}

GreyType ==
  /\ age \in [Keys -> Int] /\ waited \in [Keys -> Int] /\ passed \subseteq Keys
  /\ pc \in [Conns -> Steps]
  /\ cur \in [Conns -> Rcpts \cup {NoRcpt}]
  /\ rcpts \in [Conns -> Seq(Rcpts)]
  /\ faults \in Int

\* The inductive invariant: first_seen is the time of the first attempt, and
\* whoever passed, or is about to, has waited since.
GreyInv ==
  /\ GreyType
  /\ waited = age
  /\ \A k \in passed : age[k] >= Delay
  /\ \A s \in Conns : pc[s] \in GreySteps => cur[s] \in Rcpts
  /\ \A s \in Conns : pc[s] = "pass" => age[Triplet(s)] >= Delay

\* What every step outside checkGreylist does to the sessions inside it.
Elsewhere ==
  /\ UNCHANGED greylist
  /\ \A s \in Conns : pc[s] \in GreySteps =>
       pc'[s] = pc[s] /\ cur'[s] = cur[s] /\ rcpts'[s] = rcpts[s]
  /\ \A s \in Conns : pc'[s] \in GreySteps /\ pc[s] \notin GreySteps =>
       pc'[s] = "white" /\ cur'[s] \in Rcpts

\* A triplet of a session inside checkGreylist is a key of the table.
LEMMA TripletIsKey ==
  ASSUME GreyInv, NEW s \in Conns, pc[s] \in GreySteps
  PROVE  Triplet(s) \in Keys
BY ConfigAssumption DEF GreyInv, GreyType, Triplet, Keys

\* An RCPT command begins with the whitelist.
LEMMA RcptElsewhere ==
  ASSUME GreyInv, NEW s \in Conns, NEW to \in Rcpts, Rcpt(s, to)
  PROVE  GreyType' /\ Elsewhere
<1> USE DEF GreyInv, GreyType, GreySteps, Steps
<1>0. UNCHANGED <<greylist, faults>> /\ pc[s] = "ready" BY DEF Rcpt, Goto, greylist
<1>1. CASE Goto(s, "ready", "ready") /\ AddRcpt(s, to) /\ UNCHANGED cur
  <2>1. rcpts' \in [Conns -> Seq(Rcpts)] BY <1>1 DEF AddRcpt
  <2>2. GreyType' BY <1>0, <1>1, <2>1 DEF Goto, greylist
  <2>3. Elsewhere BY <1>0, <1>1 DEF Goto, AddRcpt, Elsewhere
  <2> QED BY <2>2, <2>3
<1>2. CASE Goto(s, "ready", "white") /\ cur' = [cur EXCEPT ![s] = to] /\ UNCHANGED rcpts
  <2>1. GreyType' BY <1>0, <1>2 DEF Goto, greylist
  <2>2. Elsewhere BY <1>0, <1>2 DEF Goto, Elsewhere
  <2> QED BY <2>1, <2>2
<1> QED BY <1>1, <1>2 DEF Rcpt

\* The other commands, DATA and the administrator stay outside.
LEMMA OtherElsewhere ==
  ASSUME GreyInv,
         \/ \E s \in Conns : \/ Logout(s) \/ Auth(s) \/ Mail(s) \/ Reset(s) \/ Data(s)
                             \/ DataStep(s)
         \/ \E ds \in SUBSET Domains : ReloadDomains(ds)
         \/ \E r \in Rcpts : CreateUser(r) \/ DeleteUser(r) \/ MoveInbox(r)
  PROVE  GreyType' /\ Elsewhere
<1> USE DEF GreyInv, GreyType, GreySteps, Steps, Elsewhere, greylist, cmdVars
<1>1. ASSUME NEW s \in Conns, Logout(s) \/ Reset(s) PROVE GreyType' /\ Elsewhere
  <2>1. rcpts' = [rcpts EXCEPT ![s] = <<>>] BY <1>1 DEF Logout, Reset
  <2>2. <<>> \in Seq(Rcpts) OBVIOUS
  <2>3. rcpts' \in [Conns -> Seq(Rcpts)] BY <2>1, <2>2
  <2> QED BY <1>1, <2>3 DEF Logout, Reset
<1>2. ASSUME NEW s \in Conns, Auth(s) \/ Mail(s) PROVE GreyType' /\ Elsewhere
  BY <1>2 DEF Auth, Mail
<1>3. ASSUME NEW s \in Conns, Data(s) PROVE GreyType' /\ Elsewhere
  <2>1. \/ UNCHANGED rcpts
        \/ rcpts' = [rcpts EXCEPT ![s] = <<>>]
    BY <1>3 DEF Data, EndData
  <2>2. <<>> \in Seq(Rcpts) OBVIOUS
  <2>3. rcpts' \in [Conns -> Seq(Rcpts)] BY <2>1, <2>2
  <2> QED BY <1>3, <2>1, <2>3 DEF Data, Goto
<1>4. ASSUME NEW s \in Conns, Finish(s) PROVE GreyType' /\ Elsewhere
  <2>1. rcpts' = [rcpts EXCEPT ![s] = <<>>] BY <1>4 DEF Finish, EndData
  <2>2. <<>> \in Seq(Rcpts) OBVIOUS
  <2>3. rcpts' \in [Conns -> Seq(Rcpts)] BY <2>1, <2>2
  <2> QED BY <1>4, <2>1, <2>3 DEF Finish, Goto
<1>5. ASSUME NEW s \in Conns, GetUsersByEmail(s) \/ SecondLoop(s) PROVE GreyType' /\ Elsewhere
  <2>1. /\ UNCHANGED <<age, passed, waited, cur, rcpts>>
        /\ pc[s] \notin GreySteps
        /\ \E to \in {"local", "remote"} : pc' = [pc EXCEPT ![s] = to]
    BY <1>5 DEF GetUsersByEmail, SecondLoop, Goto
  <2>2. faults' = faults \/ faults' = faults + 1
    BY <1>5 DEF GetUsersByEmail, SecondLoop, StmtWorks, StmtFails
  <2> QED BY <2>1, <2>2
<1>6. ASSUME NEW s \in Conns, InsertLocal(s) \/ EnqueueOthers(s) PROVE GreyType' /\ Elsewhere
  <2>1. UNCHANGED <<age, passed, waited, pc, cur, rcpts>>
    BY <1>6 DEF InsertLocal, EnqueueOthers, Round
  <2>2. faults' = faults \/ faults' = faults + 1
    BY <1>6 DEF InsertLocal, EnqueueOthers, StmtWorks, StmtFails
  <2> QED BY <2>1, <2>2
<1>7. ASSUME NEW ds \in SUBSET Domains, ReloadDomains(ds) PROVE GreyType' /\ Elsewhere
  BY <1>7 DEF ReloadDomains
<1>8. ASSUME NEW r \in Rcpts, CreateUser(r) \/ DeleteUser(r) \/ MoveInbox(r) PROVE GreyType' /\ Elsewhere
  BY <1>8 DEF CreateUser, DeleteUser, MoveInbox
<1> QED BY <1>1, <1>2, <1>3, <1>4, <1>5, <1>6, <1>7, <1>8 DEF DataStep

\* Such steps keep the invariant.
LEMMA ElsewhereInv ==
  ASSUME GreyInv, GreyType', Elsewhere
  PROVE  GreyInv'
<1>1. UNCHANGED <<age, passed, waited>> BY DEF Elsewhere, greylist
<1>2. (\A s \in Conns : pc[s] \in GreySteps => cur[s] \in Rcpts)'
  BY DEF GreyInv, Elsewhere
<1>3. ASSUME NEW s \in Conns, pc'[s] = "pass" PROVE age[Triplet(s)'] >= Delay
  <2>1. pc[s] \in GreySteps BY <1>3 DEF Elsewhere, GreySteps
  <2>2. pc[s] = "pass" /\ cur'[s] = cur[s] BY <1>3, <2>1 DEF Elsewhere
  <2> QED BY <2>2 DEF GreyInv, Triplet
<1> QED BY <1>1, <1>2, <1>3 DEF GreyInv
-----------------------------------------------------------------------------
(* The steps of checkGreylist.                                             *)

\* How a session leaves checkGreylist, and how it goes on.
LEMMA GreyMoves ==
  ASSUME GreyInv, NEW s \in Conns, pc[s] \in GreySteps,
         \/ Leave(s) /\ (AddRcpt(s, cur[s]) \/ UNCHANGED rcpts)
         \/ \E to \in GreySteps : GoOn(s, to)
  PROVE  /\ pc' \in [Conns -> Steps]
         /\ cur' \in [Conns -> Rcpts \cup {NoRcpt}]
         /\ rcpts' \in [Conns -> Seq(Rcpts)]
         /\ \A r \in Conns \ {s} :
              pc'[r] = pc[r] /\ cur'[r] = cur[r] /\ rcpts'[r] = rcpts[r]
<1> USE DEF GreyInv, GreyType, GreySteps, Steps
<1>1. CASE Leave(s) /\ AddRcpt(s, cur[s])
  <2>1. Append(rcpts[s], cur[s]) \in Seq(Rcpts) OBVIOUS
  <2>2. rcpts' \in [Conns -> Seq(Rcpts)] BY <1>1, <2>1 DEF AddRcpt
  <2> QED BY <1>1, <2>2 DEF Leave, AddRcpt
<1>2. CASE Leave(s) /\ UNCHANGED rcpts BY <1>2 DEF Leave
<1>3. CASE \E to \in GreySteps : GoOn(s, to) BY <1>3 DEF GoOn
<1> QED BY <1>1, <1>2, <1>3

\* The steps that leave the table alone: a session gets as far as "pass" only
\* when its triplet is old enough.
LEMMA LookInv ==
  ASSUME GreyInv, NEW s \in Conns, CheckWhitelist(s) \/ CheckDelay(s)
  PROVE  /\ GreyInv'
         /\ Len(rcpts'[s]) > Len(rcpts[s]) /\ faults' = faults => waited[Triplet(s)] >= Delay
         /\ pc[s] = "age" /\ pc'[s] = "ready" /\ rcpts'[s] = rcpts[s] =>
              waited[Triplet(s)] < Delay
<1>1. pc[s] \in GreySteps /\ Triplet(s) \in Keys
  BY TripletIsKey DEF CheckWhitelist, CheckDelay, Greylisting, GreySteps
<1>2. UNCHANGED <<age, passed, waited>> BY DEF CheckWhitelist, CheckDelay, greylist
<1>3. \/ Leave(s) /\ AddRcpt(s, cur[s]) /\ Triplet(s) \in passed /\ faults' = faults
      \/ Leave(s) /\ AddRcpt(s, cur[s]) /\ faults' = faults + 1
      \/ Leave(s) /\ UNCHANGED <<rcpts, faults>> /\ age[Triplet(s)] < Delay
      \/ GoOn(s, "record") /\ UNCHANGED faults
      \/ GoOn(s, "pass") /\ UNCHANGED faults /\ age[Triplet(s)] >= Delay
  BY DEF CheckWhitelist, CheckDelay, Admit, Refuse, StmtWorks, StmtFails
<1>4. GreyType'
  BY <1>1, <1>2, <1>3, GreyMoves DEF GreyInv, GreyType, GreySteps
<1>5. \A r \in Conns \ {s} : pc'[r] = pc[r] /\ cur'[r] = cur[r]
  BY <1>1, <1>3, GreyMoves DEF GreySteps
<1>6. pc'[s] \in GreySteps => cur'[s] \in Rcpts
  BY <1>1, <1>3 DEF GreyInv, GreyType, Leave, GoOn, GreySteps
<1>7. pc'[s] = "pass" => cur'[s] = cur[s] /\ age[Triplet(s)] >= Delay
  BY <1>1, <1>3 DEF GreyInv, GreyType, Leave, GoOn
<1>8. GreyInv'
  <2>1. \A r \in Conns : pc'[r] \in GreySteps => cur'[r] \in Rcpts
    BY <1>5, <1>6 DEF GreyInv
  <2>2. \A r \in Conns : pc'[r] = "pass" => age[<<Client[r], cur'[r]>>] >= Delay
    BY <1>5, <1>7 DEF GreyInv, Triplet
  <2> QED BY <1>2, <1>4, <2>1, <2>2 DEF GreyInv, Triplet
<1>9. Len(rcpts'[s]) > Len(rcpts[s]) /\ faults' = faults => waited[Triplet(s)] >= Delay
  <2>1. CASE Leave(s) /\ Triplet(s) \in passed BY <2>1 DEF GreyInv
  <2>2. CASE faults' = faults + 1 BY <2>2 DEF GreyInv, GreyType
  <2>3. CASE UNCHANGED rcpts BY <2>3 DEF GreyInv, GreyType
  <2> QED BY <1>3, <2>1, <2>2, <2>3 DEF GoOn
<1>10. pc[s] = "age" /\ pc'[s] = "ready" /\ rcpts'[s] = rcpts[s] =>
         waited[Triplet(s)] < Delay
  <2>1. ASSUME Leave(s), AddRcpt(s, cur[s]), rcpts'[s] = rcpts[s] PROVE FALSE
    <3>1. rcpts[s] \in Seq(Rcpts) /\ cur[s] \in Rcpts BY <1>1 DEF GreyInv, GreyType
    <3>2. rcpts'[s] = Append(rcpts[s], cur[s]) BY <2>1 DEF AddRcpt, GreyInv, GreyType
    <3>3. Len(rcpts[s]) + 1 = Len(rcpts[s]) BY <2>1, <3>1, <3>2
    <3> QED BY <3>1, <3>3
  <2>2. CASE age[Triplet(s)] < Delay BY <2>2 DEF GreyInv
  <2>3. ASSUME GoOn(s, "record") \/ GoOn(s, "pass"), pc'[s] = "ready" PROVE FALSE
    BY <2>3 DEF GoOn, GreyInv, GreyType
  <2> QED BY <1>3, <2>1, <2>2, <2>3
<1> QED BY <1>8, <1>9, <1>10

\* The upsert never makes a triplet younger.
LEMMA RecordInv ==
  ASSUME GreyInv, NEW s \in Conns, RecordAttempt(s)
  PROVE  /\ GreyInv'
         /\ Len(rcpts'[s]) > Len(rcpts[s]) => faults' # faults
         /\ pc[s] # "age"
<1>1. pc[s] = "record" /\ pc[s] \in GreySteps /\ Triplet(s) \in Keys
  BY TripletIsKey DEF RecordAttempt, Greylisting, GreySteps
<1>2. CASE StmtFails /\ Admit(s) /\ UNCHANGED <<age, waited, passed>>
  <2>1. GreyType' /\ faults' # faults
    BY <1>1, <1>2, GreyMoves DEF GreyInv, GreyType, Admit, StmtFails
  <2>2. \A r \in Conns \ {s} : pc'[r] = pc[r] /\ cur'[r] = cur[r]
    BY <1>1, <1>2, GreyMoves DEF Admit
  <2>3. pc'[s] = "ready" BY <1>2 DEF Admit, Leave, GreyInv, GreyType
  <2> QED BY <1>1, <1>2, <2>1, <2>2, <2>3 DEF GreyInv, GreySteps, Triplet
<1>3. CASE /\ UNCHANGED <<faults, passed>> /\ GoOn(s, "age")
           /\ age' = FirstSeen(Triplet(s)) /\ waited' = FirstTried(Triplet(s))
  <2>1. /\ age' \in [Keys -> Int] /\ waited' = age'
        /\ \A k \in Keys : age'[k] = age[k] \/ (age[k] = Unseen /\ age'[k] = 0)
    BY <1>1, <1>3 DEF GreyInv, GreyType, FirstSeen, FirstTried, Unseen
  <2>2. \A k \in Keys : age[k] >= Delay => age'[k] >= Delay
    BY <2>1, ConfigAssumption DEF GreyInv, GreyType, Unseen
  <2>3. GreyType' BY <1>1, <1>3, <2>1, GreyMoves DEF GreyInv, GreyType, GreySteps
  <2>4. \A r \in Conns \ {s} : pc'[r] = pc[r] /\ cur'[r] = cur[r]
    BY <1>1, <1>3, GreyMoves DEF GreySteps
  <2>5. pc'[s] = "age" /\ cur'[s] \in Rcpts /\ rcpts'[s] = rcpts[s]
    BY <1>1, <1>3 DEF GoOn, GreyInv, GreyType
  <2>6. \A r \in Conns : pc'[r] = "pass" => age'[<<Client[r], cur'[r]>>] >= Delay
    <3> SUFFICES ASSUME NEW r \in Conns, pc'[r] = "pass"
                 PROVE  age'[<<Client[r], cur'[r]>>] >= Delay
      OBVIOUS
    <3>1. pc[r] = "pass" /\ cur'[r] = cur[r] BY <2>4, <2>5
    <3>2. Triplet(r) \in Keys /\ age[Triplet(r)] >= Delay
      BY <3>1, TripletIsKey DEF GreyInv, GreySteps
    <3> QED BY <2>2, <3>1, <3>2 DEF Triplet
  <2>7. GreyInv'
    BY <1>3, <2>1, <2>2, <2>3, <2>4, <2>5, <2>6 DEF GreyInv, GreyType, Triplet
  <2> QED BY <1>1, <2>5, <2>7 DEF GreyInv, GreyType
<1> QED BY <1>2, <1>3 DEF RecordAttempt, StmtWorks

\* What is marked has waited.
LEMMA MarkInv ==
  ASSUME GreyInv, NEW s \in Conns, MarkPassed(s)
  PROVE  GreyInv' /\ waited[Triplet(s)] >= Delay /\ pc[s] # "age"
<1>1. pc[s] = "pass" /\ pc[s] \in GreySteps /\ Triplet(s) \in Keys
  BY TripletIsKey DEF MarkPassed, Greylisting, GreySteps
<1>2. age[Triplet(s)] >= Delay BY <1>1 DEF GreyInv
<1>3. /\ Leave(s) /\ AddRcpt(s, cur[s]) /\ UNCHANGED <<age, waited>>
      /\ passed' \subseteq passed \cup {Triplet(s)}
      /\ faults' = faults \/ faults' = faults + 1
  BY DEF MarkPassed, Admit, StmtWorks, StmtFails
<1>4. GreyType' BY <1>1, <1>3, GreyMoves DEF GreyInv, GreyType
<1>5. \A r \in Conns \ {s} : pc'[r] = pc[r] /\ cur'[r] = cur[r]
  BY <1>1, <1>3, GreyMoves
<1>6. pc'[s] = "ready" BY <1>3 DEF Leave, GreyInv, GreyType
<1>7. GreyInv'
  BY <1>2, <1>3, <1>4, <1>5, <1>6 DEF GreyInv, GreySteps, Triplet
<1> QED BY <1>1, <1>2, <1>7 DEF GreyInv

\* Time only makes triplets older.
LEMMA TickInv ==
  ASSUME GreyInv, Tick
  PROVE  GreyInv' /\ UNCHANGED <<pc, rcpts>>
<1>1. UNCHANGED <<passed, pc, cur, rcpts, faults>> BY DEF Tick, cmdVars
<1>2. /\ age' \in [Keys -> Int] /\ waited' = age'
      /\ \A k \in Keys : age'[k] >= age[k]
  BY DEF Tick, Older, GreyInv, GreyType
<1>3. \A k \in Keys : age[k] >= Delay => age'[k] >= Delay
  BY <1>2, ConfigAssumption DEF GreyInv, GreyType
<1>4. GreyType' BY <1>1, <1>2 DEF GreyInv, GreyType
<1>5. \A s \in Conns : pc[s] = "pass" => age'[Triplet(s)] >= Delay
  BY <1>3, TripletIsKey DEF GreyInv, GreySteps
<1>6. GreyInv' BY <1>1, <1>2, <1>3, <1>4, <1>5 DEF GreyInv, GreyType, Triplet
<1> QED BY <1>1, <1>6

\* Everything a step does that the two properties ask about.
LEMMA GreyStep ==
  ASSUME GreyInv, Next
  PROVE  /\ GreyInv'
         /\ \A s \in Conns : pc[s] \in GreySteps /\ Len(rcpts'[s]) > Len(rcpts[s])
              /\ faults' = faults => waited[Triplet(s)] >= Delay
         /\ \A s \in Conns : pc[s] = "age" /\ pc'[s] = "ready" /\ rcpts'[s] = rcpts[s] =>
              waited[Triplet(s)] < Delay
<1> DEFINE Idle(s) == pc[s] \in GreySteps => pc'[s] = pc[s] /\ rcpts'[s] = rcpts[s]
<1>0. ASSUME NEW s \in Conns, Idle(s)
      PROVE  /\ pc[s] \in GreySteps => ~(Len(rcpts'[s]) > Len(rcpts[s]))
             /\ ~(pc[s] = "age" /\ pc'[s] = "ready")
  BY <1>0 DEF GreyInv, GreyType, GreySteps
<1>1. CASE GreyType' /\ Elsewhere
  <2>1. GreyInv' BY <1>1, ElsewhereInv
  <2>2. \A s \in Conns : Idle(s) BY <1>1 DEF Elsewhere
  <2> QED BY <1>0, <2>1, <2>2
<1>2. CASE Tick
  <2>1. GreyInv' /\ UNCHANGED <<pc, rcpts>> BY <1>2, TickInv
  <2>2. \A s \in Conns : Idle(s) BY <2>1
  <2> QED BY <1>0, <2>1, <2>2
<1>3. ASSUME NEW s \in Conns, checkGreylist(s)
      PROVE  /\ GreyInv'
             /\ Len(rcpts'[s]) > Len(rcpts[s]) /\ faults' = faults =>
                  waited[Triplet(s)] >= Delay
             /\ pc[s] = "age" /\ pc'[s] = "ready" /\ rcpts'[s] = rcpts[s] =>
                  waited[Triplet(s)] < Delay
             /\ \A r \in Conns \ {s} : Idle(r)
  <2>1. CASE CheckWhitelist(s) \/ CheckDelay(s)
    BY <2>1, LookInv
    DEF CheckWhitelist, CheckDelay, GoOn, Admit, Refuse, Leave, AddRcpt, GreyInv, GreyType
  <2>2. CASE RecordAttempt(s)
    BY <2>2, RecordInv DEF RecordAttempt, GoOn, Admit, Leave, AddRcpt, GreyInv, GreyType
  <2>3. CASE MarkPassed(s)
    BY <2>3, MarkInv DEF MarkPassed, Admit, Leave, AddRcpt, GreyInv, GreyType
  <2> QED BY <1>3, <2>1, <2>2, <2>3 DEF checkGreylist
<1>4. CASE \E s \in Conns : checkGreylist(s)
  <2>1. PICK s \in Conns : checkGreylist(s) BY <1>4
  <2>2. GreyInv' /\ \A r \in Conns \ {s} : Idle(r) BY <2>1, <1>3
  <2>3. /\ Len(rcpts'[s]) > Len(rcpts[s]) /\ faults' = faults => waited[Triplet(s)] >= Delay
        /\ pc[s] = "age" /\ pc'[s] = "ready" /\ rcpts'[s] = rcpts[s] =>
             waited[Triplet(s)] < Delay
    BY <2>1, <1>3
  <2> QED BY <1>0, <2>2, <2>3
<1>5. CASE \E s \in Conns, to \in Rcpts : Rcpt(s, to)
  BY <1>1, <1>5, RcptElsewhere
<1> QED BY <1>1, <1>2, <1>4, <1>5, OtherElsewhere DEF Next, Command

\* The initial state satisfies the invariant.
LEMMA GreyInit == Init => GreyInv
<1> SUFFICES ASSUME Init PROVE GreyInv OBVIOUS
<1>1. <<>> \in Seq(Rcpts) OBVIOUS
<1> QED BY <1>1 DEF Init, GreyInv, GreyType, GreySteps, Steps, Unseen

\* The invariant holds in every reachable state.
LEMMA GreyInvariant == Spec => []GreyInv
<1>1. GreyInv /\ UNCHANGED vars => GreyInv'
  BY DEF vars, greylist, cmdVars, GreyInv, GreyType, Triplet
<1>2. GreyInv /\ [Next]_vars => GreyInv' BY <1>1, GreyStep
<1> QED BY <1>2, GreyInit, PTL DEF Spec

\* No number of sessions, in whatever order their statements run, gets an
\* unauthenticated recipient accepted before the delay is over, as long as
\* the statements of checkGreylist succeed.
THEOREM GreylistIsPatient == Spec => GreylistWaits
<1>1. GreyInv /\ [Next]_vars =>
        [\A s \in Conns :
           /\ pc[s] \in {"white", "record", "age", "pass"}
           /\ Len(rcpts'[s]) > Len(rcpts[s])
           /\ faults' = faults
           => waited[Triplet(s)] >= Delay]_vars
  BY GreyStep DEF GreySteps
<1> QED BY <1>1, GreyInvariant, PTL DEF Spec, GreylistWaits

\* A client is turned away only during the delay after its first attempt,
\* however often it and others try in the meantime.
THEOREM GreylistIsFinite == Spec => GreylistEnds
<1>1. GreyInv /\ [Next]_vars =>
        [\A s \in Conns :
           pc[s] = "age" /\ pc'[s] = "ready" /\ rcpts'[s] = rcpts[s] =>
             waited[Triplet(s)] < Delay]_vars
  BY GreyStep
<1> QED BY <1>1, GreyInvariant, PTL DEF Spec, GreylistEnds
-----------------------------------------------------------------------------
(* DATA: types.                                                            *)

\* A recipient list with room for one more takes it.
LEMMA AppendFits ==
  ASSUME TypeOK, NEW s \in Conns, NEW to \in Rcpts, Len(rcpts[s]) < MaxRecipients,
         AddRcpt(s, to)
  PROVE  /\ rcpts' \in [Conns -> Seq(Rcpts)]
         /\ \A q \in Conns : Len(rcpts'[q]) <= MaxRecipients
<1>1. rcpts \in [Conns -> Seq(Rcpts)] /\ rcpts' = [rcpts EXCEPT ![s] = Append(@, to)]
  BY DEF TypeOK, AddRcpt
<1>2. Append(rcpts[s], to) \in Seq(Rcpts) /\ Len(Append(rcpts[s], to)) = Len(rcpts[s]) + 1
  BY <1>1
<1>3. Len(rcpts[s]) + 1 <= MaxRecipients
  BY <1>1, ConfigAssumption
<1> QED
  BY <1>1, <1>2, <1>3 DEF TypeOK

\* A recipient list that is emptied fits.
LEMMA EmptyFits ==
  ASSUME TypeOK, NEW s \in Conns, rcpts' = [rcpts EXCEPT ![s] = <<>>]
  PROVE  /\ rcpts' \in [Conns -> Seq(Rcpts)]
         /\ \A q \in Conns : Len(rcpts'[q]) <= MaxRecipients
<1>1. <<>> \in Seq(Rcpts) /\ Len(<<>>) = 0
  OBVIOUS
<1> QED
  BY <1>1, ConfigAssumption DEF TypeOK

\* Statements that may fail count what fails.
LEMMA FaultsFit ==
  ASSUME TypeOK, StmtWorks \/ StmtFails
  PROVE  faults' \in 0..MaxFaults
BY ConfigAssumption DEF TypeOK, StmtWorks, StmtFails

\* The commands.
LEMMA CommandType ==
  ASSUME TypeOK, NEW s \in Conns, Command(s)
  PROVE  TypeOK'
<1> USE DEF TypeOK, tables, greylist, dataVars, cmdVars
<1>1. CASE Logout(s) \/ Reset(s)
  <2>1. rcpts' = [rcpts EXCEPT ![s] = <<>>] BY <1>1 DEF Logout, Reset
  <2> QED BY <1>1, <2>1, EmptyFits DEF Logout, Reset
<1>2. CASE Auth(s) \/ Mail(s)
  BY <1>2 DEF Auth, Mail
<1>3. CASE Data(s)
  <2>1. CASE UNCHANGED <<mail, rcpts, dataVars>>
    BY <1>3, <2>1 DEF Data, Goto
  <2>2. CASE Goto(s, "ready", "ready") /\ EndData(s)
    <3>1. rcpts' = [rcpts EXCEPT ![s] = <<>>] BY <2>2 DEF EndData
    <3>2. 1 \in 1..(MaxRecipients + 1) BY ConfigAssumption
    <3>3. at' \in [Conns -> 1..(MaxRecipients + 1)] BY <2>2, <3>2 DEF EndData
    <3> QED BY <1>3, <2>2, <3>1, <3>3, EmptyFits DEF Data, Goto, EndData
  <2> QED BY <1>3, <2>1, <2>2 DEF Data
<1>4. ASSUME NEW to \in Rcpts, Rcpt(s, to) PROVE TypeOK'
  <2>1. CASE AddRcpt(s, to) /\ Goto(s, "ready", "ready") /\ UNCHANGED cur
    <3>1. Len(rcpts[s]) < MaxRecipients BY <1>4 DEF Rcpt
    <3> QED BY <1>4, <2>1, <3>1, AppendFits DEF Rcpt, Goto
  <2>2. CASE Goto(s, "ready", "white") /\ cur' = [cur EXCEPT ![s] = to] /\ UNCHANGED rcpts
    BY <1>4, <2>2 DEF Rcpt, Goto
  <2> QED BY <1>4, <2>1, <2>2 DEF Rcpt
<1> QED
  BY <1>1, <1>2, <1>3, <1>4 DEF Command

\* The statements of checkGreylist.
LEMMA GreylistType ==
  ASSUME TypeOK, NEW s \in Conns, EnvelopeInv(s), checkGreylist(s)
  PROVE  TypeOK'
<1>1. pc[s] \in GreySteps
  BY DEF checkGreylist, CheckWhitelist, RecordAttempt, CheckDelay, MarkPassed, Greylisting, GreySteps
<1>2. cur[s] \in Rcpts /\ Len(rcpts[s]) < MaxRecipients /\ Triplet(s) \in Keys
  BY <1>1, ConfigAssumption DEF EnvelopeInv, GreySteps, Triplet, Keys, TypeOK
<1>3. /\ UNCHANGED <<tables, mail, authed, dataVars, hosted>>
      /\ StmtWorks \/ StmtFails
      /\ Admit(s) \/ Refuse(s) \/ GoOn(s, "record") \/ GoOn(s, "age") \/ GoOn(s, "pass")
  BY DEF checkGreylist, CheckWhitelist, RecordAttempt, CheckDelay, MarkPassed, Greylisting
<1>4. /\ rcpts' \in [Conns -> Seq(Rcpts)]
      /\ \A q \in Conns : Len(rcpts'[q]) <= MaxRecipients
  <2>1. CASE Admit(s) BY <1>2, <2>1, AppendFits DEF Admit
  <2>2. CASE UNCHANGED rcpts BY <2>2 DEF TypeOK
  <2> QED BY <1>3, <2>1, <2>2 DEF Refuse, GoOn
<1>5. /\ pc' \in [Conns -> {"ready", "white", "record", "age", "pass",
                            "lookup", "local", "remote"}]
      /\ cur' \in [Conns -> Rcpts \cup {NoRcpt}]
  BY <1>3 DEF TypeOK, Admit, Refuse, Leave, GoOn
<1>6. /\ age' \in [Keys -> Unseen..Delay] /\ waited' \in [Keys -> Unseen..Delay]
      /\ passed' \subseteq Keys
  <2>1. 0 \in Unseen..Delay BY ConfigAssumption DEF Unseen
  <2>2. CASE CheckWhitelist(s) \/ CheckDelay(s)
    BY <2>2 DEF TypeOK, CheckWhitelist, CheckDelay, greylist
  <2>3. CASE RecordAttempt(s)
    BY <1>2, <2>1, <2>3 DEF TypeOK, RecordAttempt, FirstSeen, FirstTried
  <2>4. CASE MarkPassed(s)
    BY <1>2, <2>4 DEF TypeOK, MarkPassed
  <2> QED BY <2>2, <2>3, <2>4 DEF checkGreylist
<1> QED
  BY <1>3, <1>4, <1>5, <1>6, FaultsFit DEF TypeOK, tables, dataVars

\* The lookup and the loops of DATA.
LEMMA DataType ==
  ASSUME TypeOK, NEW s \in Conns, DataStep(s)
  PROVE  TypeOK'
<1> USE DEF TypeOK, tables, greylist, dataVars, cmdVars
<1>0. 1 \in 1..(MaxRecipients + 1) BY ConfigAssumption
<1>1. CASE GetUsersByEmail(s)
  <2>1. faults' \in 0..MaxFaults BY <1>1, FaultsFit DEF GetUsersByEmail
  <2>2. Live \subseteq Rcpts BY DEF Live
  <2>3. /\ users' \in [Conns -> SUBSET Rcpts] /\ known' \in [Conns -> SUBSET Rcpts]
        /\ excused' \in [Conns -> SUBSET Positions]
    <3>1. \E S \in SUBSET Rcpts : users' = [users EXCEPT ![s] = S]
      BY <1>1, <2>2 DEF GetUsersByEmail
    <3>2. users' \in [Conns -> SUBSET Rcpts] BY <3>1
    <3>3. known' \in [Conns -> SUBSET Rcpts] BY <1>1, <2>2 DEF GetUsersByEmail
    <3>4. excused' = excused \/ excused' = [excused EXCEPT ![s] = Positions]
      BY <1>1 DEF GetUsersByEmail
    <3>5. excused' \in [Conns -> SUBSET Positions] BY <3>4
    <3> QED BY <3>2, <3>3, <3>5
  <2>4. pc' = [pc EXCEPT ![s] = "local"]
        /\ UNCHANGED <<tables, greylist, cmdVars, at, fate, hosted>>
    BY <1>1 DEF GetUsersByEmail, Goto
  <2> QED BY <2>1, <2>3, <2>4
<1>2. CASE InsertLocal(s) \/ EnqueueOthers(s)
  <2>1. faults' \in 0..MaxFaults BY <1>2, FaultsFit DEF InsertLocal, EnqueueOthers
  <2>2. /\ at[s] <= Len(rcpts[s]) /\ at' = [at EXCEPT ![s] = @ + 1]
        /\ UNCHANGED <<tables, greylist, pc, cmdVars, users, known, hosted>>
    BY <1>2 DEF InsertLocal, EnqueueOthers, Round
  <2>3. at[s] \in Positions /\ at[s] + 1 \in 1..(MaxRecipients + 1)
    BY <2>2, ConfigAssumption DEF Positions
  <2>4. Skip \/ \E out \in Outcomes, blame \in BOOLEAN : Settle(s, out, blame)
    BY <1>2 DEF InsertLocal, EnqueueOthers, Outcomes
  <2>5. /\ fate' \in [Conns -> [Positions -> SUBSET Outcomes]]
        /\ excused' \in [Conns -> SUBSET Positions]
    <3>1. CASE Skip
      BY <3>1 DEF Skip
    <3>2. ASSUME NEW out \in Outcomes, NEW blame \in BOOLEAN, Settle(s, out, blame)
          PROVE  /\ fate' \in [Conns -> [Positions -> SUBSET Outcomes]]
                 /\ excused' \in [Conns -> SUBSET Positions]
      <4>1. [fate[s] EXCEPT ![at[s]] = @ \cup {out}] \in [Positions -> SUBSET Outcomes]
        BY <2>3, <3>2
      <4>2. fate' = [fate EXCEPT ![s] = [fate[s] EXCEPT ![at[s]] = @ \cup {out}]]
        BY <3>2 DEF Settle
      <4>3. PICK S \in SUBSET Positions : excused' = [excused EXCEPT ![s] = S]
        <5>1. excused[s] \in SUBSET Positions /\ excused[s] \cup {at[s]} \in SUBSET Positions
          BY <2>3
        <5> QED BY <3>2, <5>1, Zenon DEF Settle
      <4>4. fate' \in [Conns -> [Positions -> SUBSET Outcomes]]
        BY <4>1, <4>2
      <4>5. excused' \in [Conns -> SUBSET Positions]
        BY <4>3
      <4> QED BY <4>4, <4>5
    <3> QED BY <2>4, <3>1, <3>2
  <2> QED BY <2>1, <2>2, <2>3, <2>5
<1>3. CASE SecondLoop(s)
  BY <1>0, <1>3 DEF SecondLoop, Goto
<1>4. CASE Finish(s)
  <2>1. rcpts' = [rcpts EXCEPT ![s] = <<>>] BY <1>4 DEF Finish, EndData
  <2>2. at' \in [Conns -> 1..(MaxRecipients + 1)] BY <1>0, <1>4 DEF Finish, EndData
  <2> QED BY <1>4, <2>1, <2>2, EmptyFits DEF Finish, Goto, EndData
<1> QED
  BY <1>1, <1>2, <1>3, <1>4 DEF DataStep

\* What happens around the sessions.
LEMMA WorldType ==
  ASSUME TypeOK,
         \/ \E ds \in SUBSET Domains : ReloadDomains(ds)
         \/ \E r \in Rcpts : CreateUser(r) \/ DeleteUser(r) \/ MoveInbox(r)
         \/ Tick
         \/ UNCHANGED vars
  PROVE  TypeOK'
<1> USE ConfigAssumption DEF TypeOK, tables, greylist, dataVars, cmdVars
<1>1. ASSUME NEW ds \in SUBSET Domains, ReloadDomains(ds) PROVE TypeOK'
  BY <1>1 DEF ReloadDomains
<1>2. ASSUME NEW r \in Rcpts, CreateUser(r) \/ DeleteUser(r) \/ MoveInbox(r) PROVE TypeOK'
  BY <1>2 DEF CreateUser, DeleteUser, MoveInbox
<1>3. CASE Tick
  <2>1. ASSUME NEW a \in [Keys -> Unseen..Delay] PROVE Older(a) \in [Keys -> Unseen..Delay]
    BY <2>1 DEF Older, Unseen
  <2> QED BY <1>3, <2>1 DEF Tick
<1>4. CASE UNCHANGED vars
  BY <1>4 DEF vars
<1> QED
  BY <1>1, <1>2, <1>3, <1>4
-----------------------------------------------------------------------------
(* DATA: each recipient is settled once.                                   *)

SessionInv(s) == EnvelopeInv(s) /\ LoopInv(s)

\* Sessions share nothing that their invariants speak of.
LEMMA OthersKeep ==
  ASSUME NEW q \in Conns, SessionInv(q),
         pc'[q] = pc[q], cur'[q] = cur[q], rcpts'[q] = rcpts[q], users'[q] = users[q],
         at'[q] = at[q], known'[q] = known[q], fate'[q] = fate[q], excused'[q] = excused[q]
  PROVE  SessionInv(q)'
BY DEF SessionInv, EnvelopeInv, LoopInv, PassedBy

\* The end of a DATA command wipes its traces.
LEMMA EndDataInv ==
  ASSUME TypeOK, NEW s \in Conns, EndData(s), pc' = [pc EXCEPT ![s] = "ready"], UNCHANGED cur,
         \A q \in Conns : SessionInv(q)
  PROVE  \A q \in Conns : SessionInv(q)'
<1>1. SessionInv(s)'
  <2>1. pc'[s] = "ready" /\ at'[s] = 1 /\ excused'[s] = {}
        /\ fate'[s] = [i \in Positions |-> {}]
    BY DEF TypeOK, EndData
  <2> QED BY <2>1 DEF SessionInv, EnvelopeInv, LoopInv
<1>2. ASSUME NEW q \in Conns \ {s} PROVE SessionInv(q)'
  BY <1>2, OthersKeep DEF TypeOK, EndData
<1> QED BY <1>1, <1>2

\* A command begins between messages and stays there.
LEMMA CommandInv ==
  ASSUME TypeOK, NEW s \in Conns, Command(s), \A q \in Conns : SessionInv(q)
  PROVE  \A q \in Conns : SessionInv(q)'
<1>0. pc[s] = "ready" BY DEF Command, Logout, Auth, Mail, Reset, Data, Rcpt, Goto
<1>1. CASE Goto(s, "ready", "ready") /\ EndData(s) /\ UNCHANGED cur
  BY <1>1, EndDataInv DEF Goto
<1>2. CASE UNCHANGED dataVars
  <2>1. UNCHANGED dataVars
        /\ \A q \in Conns \ {s} : pc'[q] = pc[q] /\ cur'[q] = cur[q] /\ rcpts'[q] = rcpts[q]
    <3>1. /\ pc' = pc \/ \E x : pc' = [pc EXCEPT ![s] = x]
          /\ cur' = cur \/ \E x : cur' = [cur EXCEPT ![s] = x]
          /\ rcpts' = rcpts \/ \E x : rcpts' = [rcpts EXCEPT ![s] = x]
      <4>1. CASE Logout(s) \/ Auth(s) \/ Mail(s) \/ Reset(s)
        BY <4>1 DEF Logout, Auth, Mail, Reset
      <4>2. CASE Data(s)
        BY <4>2 DEF Data, Goto, EndData
      <4>3. ASSUME NEW to \in Rcpts, Rcpt(s, to)
            PROVE  /\ pc' = pc \/ \E x : pc' = [pc EXCEPT ![s] = x]
                   /\ cur' = cur \/ \E x : cur' = [cur EXCEPT ![s] = x]
                   /\ rcpts' = rcpts \/ \E x : rcpts' = [rcpts EXCEPT ![s] = x]
        BY <4>3 DEF Rcpt, Goto, AddRcpt
      <4> QED BY <4>1, <4>2, <4>3 DEF Command
    <3>2. pc \in [Conns -> {"ready", "white", "record", "age", "pass",
                           "lookup", "local", "remote"}]
          /\ rcpts \in [Conns -> Seq(Rcpts)] /\ cur \in [Conns -> Rcpts \cup {NoRcpt}]
      BY DEF TypeOK
    <3> QED BY <1>2, <3>1, <3>2
  <2>2. /\ pc'[s] \in {"ready", "lookup", "white"}
        /\ pc'[s] = "white" => cur'[s] \in Rcpts /\ Len(rcpts'[s]) < MaxRecipients
    BY <1>0, <1>2 DEF Command, Logout, Auth, Mail, Reset, Data, Rcpt, Goto, TypeOK
  <2>3. SessionInv(s)'
    BY <1>0, <2>1, <2>2 DEF SessionInv, EnvelopeInv, LoopInv, dataVars
  <2>4. ASSUME NEW q \in Conns \ {s} PROVE SessionInv(q)'
    BY <2>1, <2>4, OthersKeep DEF dataVars
  <2> QED BY <2>3, <2>4
<1> QED BY <1>1, <1>2 DEF Command, Logout, Auth, Mail, Reset, Data, Rcpt

\* checkGreylist leaves the list as long as it was, or returns.
LEMMA GreylistInv ==
  ASSUME TypeOK, NEW s \in Conns, checkGreylist(s), \A q \in Conns : SessionInv(q)
  PROVE  \A q \in Conns : SessionInv(q)'
<1>1. pc[s] \in {"white", "record", "age", "pass"} /\ UNCHANGED dataVars
  BY DEF checkGreylist, CheckWhitelist, RecordAttempt, CheckDelay, MarkPassed, Greylisting
<1>2. Admit(s) \/ Refuse(s) \/ GoOn(s, "record") \/ GoOn(s, "age") \/ GoOn(s, "pass")
  BY DEF checkGreylist, CheckWhitelist, RecordAttempt, CheckDelay, MarkPassed
<1>3. /\ pc'[s] \in {"ready", "record", "age", "pass"}
      /\ pc'[s] # "ready" => UNCHANGED <<cur, rcpts>>
  BY <1>2 DEF Admit, Refuse, Leave, GoOn, TypeOK
<1>4. SessionInv(s)'
  BY <1>1, <1>3 DEF SessionInv, EnvelopeInv, LoopInv, dataVars
<1>5. \A q \in Conns \ {s} : pc'[q] = pc[q] /\ cur'[q] = cur[q] /\ rcpts'[q] = rcpts[q]
  BY <1>2 DEF Admit, Refuse, Leave, GoOn, AddRcpt, TypeOK
<1>6. ASSUME NEW q \in Conns \ {s} PROVE SessionInv(q)'
  BY <1>1, <1>5, <1>6, OthersKeep DEF dataVars
<1> QED BY <1>4, <1>6

\* The lookup starts the loops with nothing settled, and forgets nobody it
\* found unless it failed.
LEMMA LookupInv ==
  ASSUME TypeOK, NEW s \in Conns, GetUsersByEmail(s), \A q \in Conns : SessionInv(q)
  PROVE  \A q \in Conns : SessionInv(q)'
<1>1. /\ pc[s] = "lookup" /\ pc' = [pc EXCEPT ![s] = "local"]
      /\ UNCHANGED <<cur, rcpts, at, fate>>
      /\ known' = [known EXCEPT ![s] = Live]
  BY DEF GetUsersByEmail, Goto, cmdVars
<1>2. \/ users' = [users EXCEPT ![s] = Addressed(s) \cap Live] /\ UNCHANGED excused
      \/ users' = [users EXCEPT ![s] = {}] /\ excused' = [excused EXCEPT ![s] = Positions]
  BY DEF GetUsersByEmail
<1>3. /\ pc'[s] = "local" /\ at[s] = 1 /\ known'[s] = Live
      /\ \A i \in Positions : fate[s][i] = {}
  BY <1>1 DEF TypeOK, SessionInv, EnvelopeInv
<1>4. \A i \in DOMAIN rcpts[s] : i \in Positions /\ ~(i < 1)
  BY ConfigAssumption DEF TypeOK, Positions
<1>5. ASSUME NEW i \in DOMAIN rcpts[s], rcpts[s][i] \in Live
      PROVE  rcpts[s][i] \in users'[s] \/ i \in excused'[s]
  <2>1. rcpts[s][i] \in Addressed(s) \cap Live
    BY <1>5 DEF Addressed
  <2>2. CASE users' = [users EXCEPT ![s] = Addressed(s) \cap Live]
    BY <2>1, <2>2 DEF TypeOK
  <2>3. CASE excused' = [excused EXCEPT ![s] = Positions]
    BY <1>4, <2>3 DEF TypeOK
  <2> QED BY <1>2, <2>2, <2>3
<1>6. LoopInv(s)'
  <2>1. \A i \in DOMAIN rcpts[s] : ~PassedBy(s, i)'
    <3>1. at' = at /\ rcpts' = rcpts BY <1>1
    <3> QED BY <1>3, <1>4, <3>1 DEF PassedBy
  <2> QED BY <1>1, <1>3, <1>4, <1>5, <2>1 DEF LoopInv
<1>7. SessionInv(s)'
  BY <1>3, <1>6 DEF SessionInv, EnvelopeInv
<1>8. ASSUME NEW q \in Conns \ {s} PROVE SessionInv(q)'
  <2>1. pc'[q] = pc[q] /\ users'[q] = users[q] /\ known'[q] = known[q] /\ excused'[q] = excused[q]
    BY <1>1, <1>2, <1>8 DEF TypeOK
  <2> QED BY <1>1, <1>8, <2>1, OthersKeep
<1> QED BY <1>7, <1>8

\* A round settles the position it is at, or leaves it to the other loop.
LEMMA RoundInv ==
  ASSUME TypeOK, NEW s \in Conns, InsertLocal(s) \/ EnqueueOthers(s),
         \A q \in Conns : SessionInv(q)
  PROVE  \A q \in Conns : SessionInv(q)'
<1>1. /\ UNCHANGED <<pc, cur, rcpts, users, known>>
      /\ at[s] <= Len(rcpts[s]) /\ at' = [at EXCEPT ![s] = @ + 1]
      /\ InsertLocal(s) => pc[s] = "local"
      /\ EnqueueOthers(s) => pc[s] = "remote"
  BY DEF InsertLocal, EnqueueOthers, Round, cmdVars
<1>2. at[s] \in Positions /\ at[s] \in DOMAIN rcpts[s] /\ at[s] \in Nat /\ at'[s] = at[s] + 1
  BY <1>1, ConfigAssumption DEF TypeOK, Positions
<1>3. \/ /\ UNCHANGED <<fate, excused>>
         /\ InsertLocal(s) => Here(s) \notin users[s]
         /\ EnqueueOthers(s) => Here(s) \in users[s]
      \/ \E out \in Outcomes, blame \in BOOLEAN :
           /\ Settle(s, out, blame)
           /\ out = "lost" => blame
           /\ out = "ndr" => Here(s) \notin users[s]
           /\ InsertLocal(s) => Here(s) \in users[s]
           /\ EnqueueOthers(s) => Here(s) \notin users[s]
  BY <1>1 DEF InsertLocal, EnqueueOthers, Skip, Outcomes
<1>4. \A q \in Conns \ {s} : at'[q] = at[q] /\ fate'[q] = fate[q] /\ excused'[q] = excused[q]
  BY <1>1, <1>3 DEF TypeOK, Settle
<1>5. ASSUME NEW q \in Conns \ {s} PROVE SessionInv(q)'
  BY <1>1, <1>4, <1>5, OthersKeep
<1>6. \A i \in DOMAIN rcpts[s] \ {at[s]} :
        fate'[s][i] = fate[s][i] /\ (PassedBy(s, i)' <=> PassedBy(s, i))
  <2> SUFFICES ASSUME NEW i \in DOMAIN rcpts[s] \ {at[s]}
               PROVE  fate'[s][i] = fate[s][i] /\ (PassedBy(s, i)' <=> PassedBy(s, i))
    OBVIOUS
  <2>1. i < at[s] <=> i < at[s] + 1
    BY <1>2 DEF TypeOK
  <2>2. fate'[s][i] = fate[s][i]
    <3>1. i \in Positions BY ConfigAssumption DEF TypeOK, Positions
    <3>2. ASSUME NEW out, fate' = [fate EXCEPT ![s][at[s]] = @ \cup {out}]
          PROVE  fate'[s][i] = fate[s][i]
      BY <1>2, <3>1, <3>2 DEF TypeOK
    <3> QED BY <1>3, <3>2 DEF Settle
  <2> QED BY <1>1, <1>2, <2>1, <2>2 DEF PassedBy
<1>7. excused[s] \subseteq excused'[s]
  BY <1>3 DEF Settle, TypeOK
<1>8. (~PassedBy(s, at[s]) /\ fate[s][at[s]] = {}) \/ UNCHANGED <<fate, excused>>
  BY <1>1, <1>2, <1>3 DEF PassedBy, SessionInv, LoopInv, Here
<1>9. LoopInv(s)'
  <2> SUFFICES ASSUME NEW i \in DOMAIN rcpts[s]
               PROVE  /\ PassedBy(s, i)' => \E o \in Outcomes : fate'[s][i] = {o}
                      /\ ~PassedBy(s, i)' => fate'[s][i] = {}
                      /\ "lost" \in fate'[s][i] => i \in excused'[s]
                      /\ "ndr" \in fate'[s][i] => rcpts[s][i] \notin users[s]
                      /\ rcpts[s][i] \in known[s] => rcpts[s][i] \in users[s] \/ i \in excused'[s]
    BY <1>1 DEF LoopInv
  <2>0. pc[s] \in {"local", "remote"} BY <1>1
  <2>1. rcpts[s][i] \in known[s] => rcpts[s][i] \in users[s] \/ i \in excused'[s]
    BY <1>7, <2>0 DEF SessionInv, LoopInv
  <2>2. CASE i # at[s]
    BY <1>6, <1>7, <2>0, <2>1, <2>2 DEF SessionInv, LoopInv
  <2>3. CASE i = at[s] /\ UNCHANGED <<fate, excused>>
                       /\ (InsertLocal(s) => Here(s) \notin users[s])
                       /\ (EnqueueOthers(s) => Here(s) \in users[s])
    <3>1. PassedBy(s, i)' <=> PassedBy(s, i)
      BY <1>1, <1>2, <2>3 DEF PassedBy, Here
    <3> QED BY <2>0, <2>1, <2>3, <3>1 DEF SessionInv, LoopInv
  <2>4. ASSUME NEW out \in Outcomes, NEW blame \in BOOLEAN, i = at[s],
               Settle(s, out, blame), out = "lost" => blame,
               out = "ndr" => Here(s) \notin users[s],
               InsertLocal(s) => Here(s) \in users[s],
               EnqueueOthers(s) => Here(s) \notin users[s]
        PROVE  /\ PassedBy(s, i)' /\ fate'[s][i] = {out}
               /\ out = "lost" => i \in excused'[s]
               /\ out = "ndr" => rcpts[s][i] \notin users[s]
    <3>1. PassedBy(s, i)' /\ ~PassedBy(s, i)
      BY <1>1, <1>2, <2>4 DEF PassedBy, Here
    <3>2. fate[s][i] = {} BY <2>0, <3>1 DEF SessionInv, LoopInv
    <3>3. fate'[s][i] = fate[s][i] \cup {out} BY <1>2, <2>4 DEF Settle, TypeOK
    <3>4. out = "lost" => i \in excused'[s]
      <4>1. blame => excused' = [excused EXCEPT ![s] = excused[s] \cup {i}]
        BY <2>4 DEF Settle
      <4> QED BY <2>4, <4>1 DEF TypeOK
    <3> QED BY <2>4, <3>1, <3>2, <3>3, <3>4 DEF Here
  <2> QED BY <1>3, <2>1, <2>2, <2>3, <2>4
<1>10. SessionInv(s)'
  BY <1>1, <1>9 DEF SessionInv, EnvelopeInv
<1> QED BY <1>5, <1>10

\* When the first loop is done, every user it found has been settled.
LEMMA SecondLoopInv ==
  ASSUME TypeOK, NEW s \in Conns, SecondLoop(s), \A q \in Conns : SessionInv(q)
  PROVE  \A q \in Conns : SessionInv(q)'
<1>1. /\ pc[s] = "local" /\ pc' = [pc EXCEPT ![s] = "remote"] /\ at[s] > Len(rcpts[s])
      /\ at' = [at EXCEPT ![s] = 1] /\ UNCHANGED <<cur, rcpts, users, known, fate, excused>>
  BY DEF SecondLoop, Goto, cmdVars
<1>2. pc'[s] = "remote" /\ at'[s] = 1 BY <1>1 DEF TypeOK
<1>3. \A i \in DOMAIN rcpts[s] : i < at[s] /\ ~(i < 1)
  BY <1>1 DEF TypeOK
<1>4. \A i \in DOMAIN rcpts[s] : PassedBy(s, i)' <=> PassedBy(s, i)
  BY <1>1, <1>2, <1>3 DEF PassedBy
<1>5. SessionInv(s)'
  BY <1>1, <1>2, <1>4 DEF SessionInv, EnvelopeInv, LoopInv
<1>6. ASSUME NEW q \in Conns \ {s} PROVE SessionInv(q)'
  <2>1. pc'[q] = pc[q] /\ at'[q] = at[q] BY <1>1, <1>6 DEF TypeOK
  <2> QED BY <1>1, <1>6, <2>1, OthersKeep
<1> QED BY <1>5, <1>6

\* What others do touches no session.
LEMMA WorldInv ==
  ASSUME \/ \E ds \in SUBSET Domains : ReloadDomains(ds)
         \/ \E r \in Rcpts : CreateUser(r) \/ DeleteUser(r) \/ MoveInbox(r)
         \/ Tick
         \/ UNCHANGED vars,
         \A q \in Conns : SessionInv(q)
  PROVE  \A q \in Conns : SessionInv(q)'
<1>1. UNCHANGED <<pc, cmdVars, dataVars>>
  BY DEF ReloadDomains, CreateUser, DeleteUser, MoveInbox, Tick, vars
<1> QED BY <1>1, OthersKeep DEF cmdVars, dataVars

\* Every step of the server keeps what it knows of every session.
LEMMA SessionStep ==
  ASSUME TypeOK, [Next]_vars, \A q \in Conns : SessionInv(q)
  PROVE  TypeOK' /\ \A q \in Conns : SessionInv(q)'
<1>1. ASSUME NEW s \in Conns, Command(s)
      PROVE  TypeOK' /\ \A q \in Conns : SessionInv(q)'
  BY <1>1, CommandType, CommandInv
<1>2. ASSUME NEW s \in Conns, checkGreylist(s)
      PROVE  TypeOK' /\ \A q \in Conns : SessionInv(q)'
  <2>1. EnvelopeInv(s) BY DEF SessionInv
  <2> QED BY <1>2, <2>1, GreylistType, GreylistInv
<1>3. ASSUME NEW s \in Conns, DataStep(s)
      PROVE  TypeOK' /\ \A q \in Conns : SessionInv(q)'
  <2>1. TypeOK' BY <1>3, DataType
  <2>2. CASE Finish(s)
    <3>1. EndData(s) /\ pc' = [pc EXCEPT ![s] = "ready"] /\ UNCHANGED cur
      BY <2>2 DEF Finish, Goto
    <3> QED BY <2>1, <3>1, EndDataInv
  <2> QED BY <1>3, <2>1, <2>2, LookupInv, RoundInv, SecondLoopInv DEF DataStep
<1>4. CASE \/ \E ds \in SUBSET Domains : ReloadDomains(ds)
           \/ \E r \in Rcpts : CreateUser(r) \/ DeleteUser(r) \/ MoveInbox(r)
           \/ Tick
           \/ UNCHANGED vars
  BY <1>4, WorldType, WorldInv
<1> QED BY <1>1, <1>2, <1>3, <1>4 DEF Next
-----------------------------------------------------------------------------
(* DATA: no relaying.                                                      *)

\* A recipient is accepted from a client that is authenticated, or in a
\* domain that has been local.
LEMMA AcceptedIsHosted ==
  ASSUME TypeOK, RelayInv, NEW s \in Conns, NEW to \in Rcpts, AddRcpt(s, to),
         s \in authed \/ DomainOf[to] \in hosted
  PROVE  \A q \in Conns \ authed : \A i \in DOMAIN rcpts'[q] : DomainOf[rcpts'[q][i]] \in hosted
<1> SUFFICES ASSUME NEW q \in Conns \ authed, NEW i \in DOMAIN rcpts'[q]
             PROVE  DomainOf[rcpts'[q][i]] \in hosted
  OBVIOUS
<1>1. rcpts \in [Conns -> Seq(Rcpts)] BY DEF TypeOK
<1>2. CASE q # s
  BY <1>1, <1>2 DEF AddRcpt, RelayInv
<1>3. CASE q = s
  <2>1. rcpts'[s] = Append(rcpts[s], to) BY <1>1 DEF AddRcpt
  <2>2. i \in 1..(Len(rcpts[s]) + 1) BY <1>1, <1>3, <2>1
  <2>3. CASE i = Len(rcpts[s]) + 1
    <3>1. rcpts'[s][i] = to BY <1>1, <2>1, <2>3
    <3> QED BY <1>3, <3>1
  <2>4. CASE i \in DOMAIN rcpts[s]
    <3>1. rcpts'[s][i] = rcpts[s][i] BY <1>1, <2>1, <2>4
    <3> QED BY <1>3, <2>4, <3>1 DEF RelayInv
  <2> QED BY <1>1, <2>2, <2>3, <2>4
<1> QED BY <1>2, <1>3

\* The relay check is not got around by any order of commands, reloads and
\* greylisted recipients.
LEMMA RelayStep ==
  ASSUME TypeOK, RelayInv, [Next]_vars, \A q \in Conns : SessionInv(q)
  PROVE  RelayInv'
<1> USE DEF tables, greylist, cmdVars, dataVars
<1>0. rcpts \in [Conns -> Seq(Rcpts)] BY DEF TypeOK
<1>1. ASSUME NEW s \in Conns, rcpts' = [rcpts EXCEPT ![s] = <<>>], authed \ {s} \subseteq authed',
             UNCHANGED <<domains, hosted, cur>>,
             pc' = pc \/ pc' = [pc EXCEPT ![s] = "ready"]
      PROVE  RelayInv'
  <2>1. \A q \in Conns \ authed' : \A i \in DOMAIN rcpts'[q] : DomainOf[rcpts'[q][i]] \in hosted
    <3>1. ASSUME NEW q \in Conns \ authed', NEW i \in DOMAIN rcpts'[q]
          PROVE  DomainOf[rcpts'[q][i]] \in hosted
      <4>1. DOMAIN rcpts'[s] = {} BY <1>0, <1>1
      <4>2. q # s BY <3>1, <4>1
      <4> QED BY <1>0, <1>1, <3>1, <4>2 DEF RelayInv
    <3> QED BY <3>1
  <2>2. \A q \in Conns : pc'[q] = pc[q] \/ pc'[q] = "ready" BY <1>1 DEF TypeOK
  <2> QED BY <1>1, <2>1, <2>2 DEF RelayInv
<1>2. ASSUME authed \subseteq authed', UNCHANGED <<domains, hosted, cur, rcpts>>,
             \A q \in Conns : pc'[q] = pc[q] \/ pc'[q] \in {"ready", "lookup", "local", "remote"}
      PROVE  RelayInv'
  BY <1>2 DEF RelayInv
<1>3. ASSUME NEW s \in Conns, Command(s) PROVE RelayInv'
  <2>1. CASE Logout(s) \/ Reset(s)
    BY <1>1, <2>1 DEF Logout, Reset
  <2>2. CASE Auth(s) \/ Mail(s)
    BY <1>2, <2>2 DEF Auth, Mail
  <2>3. CASE Data(s)
    <3>1. CASE Goto(s, "ready", "lookup") /\ UNCHANGED rcpts
      <4>1. \A q \in Conns : pc'[q] = pc[q] \/ pc'[q] = "lookup" BY <3>1 DEF Goto, TypeOK
      <4> QED BY <1>2, <2>3, <4>1, <3>1 DEF Data
    <3>2. CASE Goto(s, "ready", "ready") /\ EndData(s)
      BY <1>1, <2>3, <3>2 DEF Data, Goto, EndData
    <3> QED BY <2>3, <3>1, <3>2 DEF Data
  <2>4. ASSUME NEW to \in Rcpts, Rcpt(s, to) PROVE RelayInv'
    <3>1. s \in authed \/ DomainOf[to] \in hosted
      BY <2>4 DEF Rcpt, isLocalDomain, RelayInv
    <3>2. UNCHANGED <<domains, hosted, authed>> BY <2>4 DEF Rcpt
    <3>3. CASE Goto(s, "ready", "ready") /\ AddRcpt(s, to) /\ UNCHANGED cur
      <4>1. \A q \in Conns : pc'[q] = pc[q] \/ pc'[q] = "ready" BY <3>3 DEF Goto, TypeOK
      <4>2. \A q \in Conns \ authed : \A i \in DOMAIN rcpts'[q] : DomainOf[rcpts'[q][i]] \in hosted
        BY <3>1, <3>3, AcceptedIsHosted
      <4> QED BY <3>2, <3>3, <4>1, <4>2 DEF RelayInv
    <3>4. CASE s \notin authed /\ Goto(s, "ready", "white") /\ cur' = [cur EXCEPT ![s] = to]
               /\ UNCHANGED rcpts
      <4>1. \A q \in Conns \ {s} : pc'[q] = pc[q] /\ cur'[q] = cur[q] BY <3>4 DEF Goto, TypeOK
      <4>2. cur'[s] = to BY <3>4 DEF TypeOK
      <4> QED BY <3>1, <3>2, <3>4, <4>1, <4>2 DEF RelayInv
    <3> QED BY <2>4, <3>3, <3>4 DEF Rcpt
  <2> QED BY <1>3, <2>1, <2>2, <2>3, <2>4 DEF Command
<1>4. ASSUME NEW s \in Conns, checkGreylist(s) PROVE RelayInv'
  <2>1. pc[s] \in {"white", "record", "age", "pass"} /\ UNCHANGED <<domains, hosted, authed>>
    BY <1>4 DEF checkGreylist, CheckWhitelist, RecordAttempt, CheckDelay, MarkPassed, Greylisting
  <2>2. Admit(s) \/ Refuse(s) \/ GoOn(s, "record") \/ GoOn(s, "age") \/ GoOn(s, "pass")
    BY <1>4 DEF checkGreylist, CheckWhitelist, RecordAttempt, CheckDelay, MarkPassed
  <2>3. DomainOf[cur[s]] \in hosted /\ cur[s] \in Rcpts
    BY <2>1 DEF RelayInv, SessionInv, EnvelopeInv
  <2>4. \A q \in Conns \ authed : \A i \in DOMAIN rcpts'[q] : DomainOf[rcpts'[q][i]] \in hosted
    <3>1. CASE Admit(s) BY <2>3, <3>1, AcceptedIsHosted DEF Admit
    <3>2. CASE UNCHANGED rcpts BY <3>2 DEF RelayInv
    <3> QED BY <2>2, <3>1, <3>2 DEF Refuse, GoOn
  <2>5. ASSUME NEW q \in Conns, pc'[q] \in {"white", "record", "age", "pass"}
        PROVE  DomainOf[cur'[q]] \in hosted
    <3>1. CASE GoOn(s, "record") \/ GoOn(s, "age") \/ GoOn(s, "pass")
      BY <2>1, <2>5, <3>1 DEF GoOn, RelayInv, TypeOK
    <3>2. CASE Leave(s)
      BY <2>5, <3>2 DEF Leave, RelayInv, TypeOK
    <3> QED BY <2>2, <3>1, <3>2 DEF Admit, Refuse
  <2> QED BY <2>1, <2>4, <2>5 DEF RelayInv
<1>5. ASSUME NEW s \in Conns, DataStep(s) PROVE RelayInv'
  <2>1. CASE Finish(s)
    BY <1>1, <2>1 DEF Finish, Goto, EndData
  <2>2. CASE GetUsersByEmail(s) \/ SecondLoop(s)
    <3>1. \A q \in Conns : pc'[q] = pc[q] \/ pc'[q] \in {"local", "remote"}
      BY <2>2 DEF GetUsersByEmail, SecondLoop, Goto, TypeOK
    <3> QED BY <1>2, <2>2, <3>1 DEF GetUsersByEmail, SecondLoop
  <2>3. CASE InsertLocal(s) \/ EnqueueOthers(s)
    BY <1>2, <2>3 DEF InsertLocal, EnqueueOthers, Round
  <2> QED BY <1>5, <2>1, <2>2, <2>3 DEF DataStep
<1>6. ASSUME NEW ds \in SUBSET Domains, ReloadDomains(ds) PROVE RelayInv'
  BY <1>6 DEF ReloadDomains, RelayInv
<1>7. CASE (\E r \in Rcpts : CreateUser(r) \/ DeleteUser(r) \/ MoveInbox(r)) \/ Tick \/ UNCHANGED vars
  BY <1>2, <1>7 DEF CreateUser, DeleteUser, MoveInbox, Tick, vars
<1> QED BY <1>3, <1>4, <1>5, <1>6, <1>7 DEF Next
-----------------------------------------------------------------------------
(* DATA: the theorems.                                                     *)

\* The initial state: nobody has said anything.
LEMMA DataInit == Init => DataInv
<1> SUFFICES ASSUME Init PROVE DataInv OBVIOUS
<1>1. <<>> \in Seq(Rcpts) /\ Len(<<>>) = 0 /\ DOMAIN <<>> = {} OBVIOUS
<1>2. TypeOK
  <2>1. Unseen \in Unseen..Delay /\ 1 \in 1..(MaxRecipients + 1) /\ 0 \in 0..MaxFaults
    BY ConfigAssumption DEF Unseen
  <2>2. rcpts \in [Conns -> Seq(Rcpts)] /\ \A s \in Conns : Len(rcpts[s]) <= MaxRecipients
    BY <1>1, ConfigAssumption DEF Init
  <2>3. age \in [Keys -> Unseen..Delay] /\ waited \in [Keys -> Unseen..Delay]
    BY <2>1 DEF Init
  <2>4. at \in [Conns -> 1..(MaxRecipients + 1)] /\ faults \in 0..MaxFaults
    BY <2>1 DEF Init
  <2>5. fate \in [Conns -> [Positions -> SUBSET Outcomes]] /\ excused \in [Conns -> SUBSET Positions]
    BY DEF Init
  <2> QED BY <2>2, <2>3, <2>4, <2>5, ConfigAssumption DEF Init, TypeOK
<1>3. RelayInv
  BY <1>1 DEF Init, RelayInv
<1>4. \A s \in Conns : EnvelopeInv(s) /\ LoopInv(s)
  BY DEF Init, EnvelopeInv, LoopInv
<1> QED BY <1>2, <1>3, <1>4 DEF DataInv

\* The invariant holds in every reachable state.
LEMMA DataInvariant == Spec => []DataInv
<1>1. DataInv /\ [Next]_vars => DataInv'
  <2> SUFFICES ASSUME DataInv, [Next]_vars PROVE DataInv' OBVIOUS
  <2>1. TypeOK /\ RelayInv /\ \A q \in Conns : SessionInv(q) BY DEF DataInv, SessionInv
  <2>2. TypeOK' /\ \A q \in Conns : SessionInv(q)' BY <2>1, SessionStep
  <2>3. RelayInv' BY <2>1, RelayStep
  <2> QED BY <2>2, <2>3 DEF DataInv, SessionInv
<1> QED BY <1>1, DataInit, PTL DEF Spec

\* Every field of a session and every row keeps its type; in particular no
\* recipient list outgrows cfg.MaxRecipients, greylisted recipients included,
\* which are appended long after Rcpt compared the length.
THEOREM EnvelopeIsBounded == Spec => []TypeOK
<1>1. DataInv => TypeOK BY DEF DataInv
<1> QED BY <1>1, DataInvariant, PTL

\* When Data answers the client, each recipient has been stored, queued or
\* bounced exactly once, or a failing statement or the deletion of its
\* account is to blame: the two loops share the recipients out completely.
THEOREM RecipientsSettledOnce == Spec => []SettledOnce
<1>1. DataInv => SettledOnce
  <2> SUFFICES ASSUME DataInv, NEW s \in Conns, Finished(s), NEW i \in DOMAIN rcpts[s]
               PROVE  /\ \E o \in Outcomes : fate[s][i] = {o}
                      /\ "lost" \in fate[s][i] => i \in excused[s]
    BY DEF SettledOnce
  <2>1. i < at[s] BY DEF DataInv, TypeOK, Finished
  <2>2. PassedBy(s, i) BY <2>1 DEF PassedBy, Finished
  <2> QED BY <2>2 DEF DataInv, LoopInv, Finished
<1> QED BY <1>1, DataInvariant, PTL

\* An unauthenticated client gets mail out of this server only to a domain
\* that was local at some time, whatever is reloaded between RCPT and DATA.
THEOREM NoOpenRelay == Spec => []NoRelay
<1>1. DataInv => NoRelay
  BY DEF DataInv, RelayInv, NoRelay
<1> QED BY <1>1, DataInvariant, PTL

\* A non-delivery report is written only for an address that had no account
\* at the lookup of that DATA, or after the lookup failed.
THEOREM ReportsAreHonest == Spec => []HonestReport
<1>1. DataInv => HonestReport
  BY DEF DataInv, LoopInv, HonestReport
<1> QED BY <1>1, DataInvariant, PTL

-----------------------------------------------------------------------------
(* The rate limiter that NewSession asks: types, and the bound on what an  *)
(* address is admitted, for any addresses, rates and bursts.               *)

\* The size of a bucket is a natural number.
LEMMA CapNat == Cap \in Nat
BY SizeAssumption DEF Cap

\* A count of idle ticks drains a tick's worth each.
LEMMA DrainStep == \A k \in Nat : PerTick * (k + 1) = PerTick * k + PerTick
BY SizeAssumption, SMT

\* Types: no bucket holds a part less than nothing or more than Cap, whatever
\* Allow, the loops and Stop do.
THEOREM LimiterTypeCorrect == LimiterSpec => []LimiterTypeOK
<1>1. LimiterInit => LimiterTypeOK
  <2>1. -1 \in -1..Cap /\ 0 \in 0..IdleTicks
    BY CapNat, SizeAssumption
  <2>2. LimiterInit => /\ tokens \in [Addresses -> None..Cap]
                /\ idle \in [Addresses -> 0..IdleTicks]
                /\ meter \in [Addresses -> Nat]
    BY <2>1 DEF LimiterInit, None
  <2>3. LimiterInit => due \in BOOLEAN /\ got \in BOOLEAN /\ stopped \in BOOLEAN /\ loops \subseteq Loops
    BY Zenon DEF LimiterInit
  <2> QED
    BY <2>2, <2>3 DEF LimiterTypeOK
<1>2. LimiterTypeOK /\ [LimiterNext]_limiterVars => LimiterTypeOK'
  <2> SUFFICES ASSUME LimiterTypeOK, [LimiterNext]_limiterVars PROVE LimiterTypeOK'
    OBVIOUS
  <2> USE CapNat, SizeAssumption
  <2>1. ASSUME NEW a \in Addresses, Allow(a) PROVE LimiterTypeOK'
    <3>1. Level(a) \in 0..Cap
      BY DEF LimiterTypeOK, Level, None
    <3>2. tokens' \in [Addresses -> None..Cap]
      BY <2>1, <3>1 DEF LimiterTypeOK, Allow, None
    <3>3. meter' \in [Addresses -> Nat]
      BY <2>1 DEF LimiterTypeOK, Allow
    <3>4. idle' \in [Addresses -> 0..IdleTicks]
      BY <2>1 DEF LimiterTypeOK, Allow
    <3> QED
      BY <2>1, <3>2, <3>3, <3>4 DEF LimiterTypeOK, Allow
  <2>2. CASE LimiterTick
    <3>1. idle' \in [Addresses -> 0..IdleTicks]
      BY <2>2 DEF LimiterTypeOK, LimiterTick, AtMost
    <3>2. meter' \in [Addresses -> Nat]
      BY <2>2 DEF LimiterTypeOK, LimiterTick, Less
    <3> QED
      BY <2>2, <3>1, <3>2 DEF LimiterTypeOK, LimiterTick
  <2>3. CASE Refill
    <3>1. tokens' \in [Addresses -> None..Cap]
      BY <2>3 DEF LimiterTypeOK, Refill, AtMost, None
    <3> QED
      BY <2>3, <3>1 DEF LimiterTypeOK, Refill
  <2>4. CASE Cleanup
    <3>1. tokens' \in [Addresses -> None..Cap]
      BY <2>4 DEF LimiterTypeOK, Cleanup, None
    <3> QED
      BY <2>4, <3>1 DEF LimiterTypeOK, Cleanup
  <2>5. CASE Stop
    BY <2>5 DEF LimiterTypeOK, Stop
  <2>6. ASSUME NEW l \in Loops, LeaveLoop(l) PROVE LimiterTypeOK'
    BY <2>6 DEF LimiterTypeOK, LeaveLoop
  <2>7. CASE Receive
    BY <2>7 DEF LimiterTypeOK, Receive
  <2>8. CASE UNCHANGED limiterVars
    BY <2>8 DEF LimiterTypeOK, limiterVars
  <2> QED
    BY <2>1, <2>2, <2>3, <2>4, <2>5, <2>6, <2>7, <2>8 DEF LimiterNext
<1> QED
  BY <1>1, <1>2, PTL DEF LimiterSpec

\* The parts of MeterInv about one address.
Sum(a)     == tokens[a] # None => tokens[a] + meter[a] <= Allowance
Unused(a)  == tokens[a] = None => meter[a] = 0
Drained(a) == meter[a] = 0 \/ meter[a] + PerTick * idle[a] <= Cap + 2 * PerTick

\* An address that asks again: tokens taken are metered, and a bucket made
\* anew is full only when nothing is left on the meter.
LEMMA AllowKeeps ==
  ASSUME LimiterTypeOK, FillsWhileIdle, MeterInv, NEW a \in Addresses, Allow(a), NEW b \in Addresses
  PROVE  Sum(b)' /\ Unused(b)' /\ Drained(b)'
<1> USE CapNat, SizeAssumption
<1>0. Sum(b) /\ Unused(b) /\ Drained(b)
  BY DEF MeterInv, Sum, Unused, Drained
<1>1. CASE b # a
  <2>1. /\ tokens'[b] = tokens[b] /\ meter'[b] = meter[b] /\ idle'[b] = idle[b]
        /\ due' = due /\ got' = got
    BY <1>1 DEF Allow, LimiterTypeOK
  <2> QED
    BY <1>0, <2>1 DEF Sum, Unused, Drained, Allowance
<1>2. CASE b = a
  <2>1. /\ Level(a) \in 0..Cap
        /\ Level(a) + meter[a] <= Allowance
    BY <1>0, <1>2 DEF LimiterTypeOK, Level, None, Sum, Unused, Allowance
  <2>2. /\ tokens'[a] \in 0..Cap /\ meter'[a] \in Nat
        /\ tokens'[a] + meter'[a] = Level(a) + meter[a]
        /\ idle'[a] = 0 /\ Allowance' = Allowance
    BY <2>1 DEF Allow, LimiterTypeOK, Allowance
  <2>3. Allowance <= Cap + 2 * PerTick /\ Allowance \in Nat
    BY DEF Allowance
  <2>4. Sum(a)' /\ Unused(a)'
    BY <2>1, <2>2 DEF Sum, Unused, None
  <2>5. meter'[a] + PerTick * idle'[a] <= Cap + 2 * PerTick
    BY <2>1, <2>2, <2>3
  <2> QED
    BY <1>2, <2>4, <2>5 DEF Drained
<1> QED
  BY <1>1, <1>2

\* A tick drains the meter by what the refill it announces will give.
LEMMA TickKeeps ==
  ASSUME LimiterTypeOK, FillsWhileIdle, MeterInv, LimiterTick, NEW b \in Addresses
  PROVE  Sum(b)' /\ Unused(b)' /\ Drained(b)'
<1> USE CapNat, SizeAssumption
<1>0. Sum(b) /\ Unused(b) /\ Drained(b)
  BY DEF MeterInv, Sum, Unused, Drained
<1>1. /\ tokens' = tokens /\ due' = TRUE /\ got' = got
      /\ meter'[b] = Less(meter[b], PerTick)
      /\ idle'[b] = AtMost(idle[b] + 1, IdleTicks)
  BY DEF LimiterTick
<1>2. /\ tokens[b] \in None..Cap /\ meter[b] \in Nat /\ idle[b] \in 0..IdleTicks
      /\ due \in BOOLEAN /\ got \in BOOLEAN
  BY DEF LimiterTypeOK
<1>3. Sum(b)' /\ Unused(b)'
  BY <1>0, <1>1, <1>2 DEF Sum, Unused, Allowance, Less, None
<1>4. Drained(b)'
  <2>1. CASE meter[b] <= PerTick
    BY <1>1, <1>2, <2>1 DEF Drained, Less
  <2>2. CASE meter[b] > PerTick
    <3>1. meter[b] + PerTick * idle[b] <= Cap + 2 * PerTick
      BY <1>0, <1>2, <2>2 DEF Drained
    <3>2. meter'[b] = meter[b] - PerTick
      BY <1>1, <1>2, <2>2 DEF Less
    <3>3. PerTick * idle'[b] <= PerTick * idle[b] + PerTick
      <4>1. CASE idle'[b] = idle[b] + 1
        BY <1>2, <4>1, DrainStep
      <4>2. CASE idle'[b] = idle[b]
        <5>1. PerTick * idle[b] \in Nat
          BY <1>2, SMT
        <5> QED
          BY <4>2, <5>1
      <4> QED
        BY <1>1, <1>2, <4>1, <4>2 DEF AtMost
    <3>4. PerTick * idle[b] \in Int /\ PerTick * idle'[b] \in Int
      <4>1. idle'[b] \in Nat
        BY <1>1, <1>2 DEF AtMost
      <4> QED
        BY <1>2, <4>1, SMT
    <3>5. meter'[b] + PerTick * idle'[b] <= Cap + 2 * PerTick
      BY <1>2, <3>1, <3>2, <3>3, <3>4
    <3> QED
      BY <3>5 DEF Drained
  <2> QED
    BY <1>2, <2>1, <2>2
<1> QED
  BY <1>3, <1>4

\* A tick is still under way when it has been received.
LEMMA ReceiveKeeps ==
  ASSUME LimiterTypeOK, FillsWhileIdle, MeterInv, Receive, NEW b \in Addresses
  PROVE  Sum(b)' /\ Unused(b)' /\ Drained(b)'
<1>0. Sum(b) /\ Unused(b) /\ Drained(b)
  BY DEF MeterInv, Sum, Unused, Drained
<1>1. /\ tokens' = tokens /\ meter' = meter /\ idle' = idle
      /\ Allowance' = Allowance
  BY CapNat, SizeAssumption DEF Receive, Allowance
<1> QED
  BY <1>0, <1>1 DEF Sum, Unused, Drained

\* A refill takes the place of the tick that was received.
LEMMA RefillKeeps ==
  ASSUME LimiterTypeOK, FillsWhileIdle, MeterInv, Refill, NEW b \in Addresses
  PROVE  Sum(b)' /\ Unused(b)' /\ Drained(b)'
<1> USE CapNat, SizeAssumption
<1>0. Sum(b) /\ Unused(b) /\ Drained(b)
  BY DEF MeterInv, Sum, Unused, Drained
<1>1. /\ got /\ got' = FALSE /\ due' = due /\ meter' = meter /\ idle' = idle
      /\ tokens'[b] = IF tokens[b] = None THEN None ELSE AtMost(tokens[b] + PerTick, Cap)
  BY DEF Refill
<1>2. tokens[b] \in None..Cap /\ meter[b] \in Nat
  BY DEF LimiterTypeOK
<1>3. Sum(b)' /\ Unused(b)'
  BY <1>0, <1>1, <1>2 DEF Sum, Unused, Allowance, AtMost, None
<1> QED
  BY <1>0, <1>1, <1>3 DEF Drained

\* A bucket is dropped only when its address has nothing left on the meter.
LEMMA CleanupKeeps ==
  ASSUME LimiterTypeOK, FillsWhileIdle, MeterInv, Cleanup, NEW b \in Addresses
  PROVE  Sum(b)' /\ Unused(b)' /\ Drained(b)'
<1> USE CapNat, SizeAssumption
<1>0. Sum(b) /\ Unused(b) /\ Drained(b)
  BY DEF MeterInv, Sum, Unused, Drained
<1>1. /\ Allowance' = Allowance /\ meter' = meter /\ idle' = idle
      /\ tokens'[b] = IF idle[b] >= IdleTicks THEN None ELSE tokens[b]
  BY DEF Cleanup, Allowance
<1>2. tokens[b] \in None..Cap /\ meter[b] \in Nat /\ idle[b] \in 0..IdleTicks
  BY DEF LimiterTypeOK
<1>3. idle[b] >= IdleTicks => meter[b] = 0
  <2>1. SUFFICES ASSUME idle[b] >= IdleTicks, meter[b] # 0 PROVE FALSE
    OBVIOUS
  <2>2. idle[b] = IdleTicks
    BY <1>2, <2>1
  <2>3. meter[b] + PerTick * IdleTicks <= Cap + 2 * PerTick
    BY <1>0, <2>1, <2>2 DEF Drained
  <2>4. PerTick * IdleTicks \in Int
    BY SMT
  <2> QED
    BY <1>2, <2>1, <2>3, <2>4 DEF FillsWhileIdle
<1>4. Sum(b)' /\ Unused(b)'
  BY <1>0, <1>1, <1>2, <1>3 DEF Sum, Unused, None
<1> QED
  BY <1>0, <1>1, <1>4 DEF Drained

\* The inductive invariant, where ten minutes fill a bucket: tokens and meter
\* together stay within a bucket and the refills not under way, an idle meter
\* drains, and nobody without a bucket has used any.
THEOREM MeterInvariant == LimiterSpec => []MeterInv
<1>1. LimiterInit => MeterInv
  BY CapNat, SizeAssumption DEF LimiterInit, MeterInv, Allowance, None
<1>2. LimiterTypeOK /\ MeterInv /\ [LimiterNext]_limiterVars => MeterInv'
  <2> SUFFICES ASSUME LimiterTypeOK, FillsWhileIdle, MeterInv, [LimiterNext]_limiterVars, NEW b \in Addresses
               PROVE  Sum(b)' /\ Unused(b)' /\ Drained(b)'
    BY DEF MeterInv, FillsWhileIdle, Sum, Unused, Drained
  <2>0. Sum(b) /\ Unused(b) /\ Drained(b)
    BY DEF MeterInv, Sum, Unused, Drained
  <2>1. ASSUME NEW a \in Addresses, Allow(a) PROVE Sum(b)' /\ Unused(b)' /\ Drained(b)'
    BY <2>1, AllowKeeps
  <2>2. CASE LimiterTick
    BY <2>2, TickKeeps
  <2>3. CASE Refill
    BY <2>3, RefillKeeps
  <2>4. CASE Cleanup
    BY <2>4, CleanupKeeps
  <2>5. CASE Stop
    BY <2>0, <2>5 DEF Stop, Sum, Unused, Drained, Allowance
  <2>6. ASSUME NEW l \in Loops, LeaveLoop(l) PROVE Sum(b)' /\ Unused(b)' /\ Drained(b)'
    BY <2>0, <2>6 DEF LeaveLoop, Sum, Unused, Drained, Allowance
  <2>7. CASE Receive
    BY <2>7, ReceiveKeeps
  <2>8. CASE UNCHANGED limiterVars
    BY <2>0, <2>8 DEF limiterVars, Sum, Unused, Drained, Allowance
  <2> QED
    BY <2>1, <2>2, <2>3, <2>4, <2>5, <2>6, <2>7, <2>8 DEF LimiterNext
<1> QED
  BY <1>1, <1>2, LimiterTypeCorrect, PTL DEF LimiterSpec

\* No address is admitted faster than the limit: where ten minutes fill a
\* bucket, burst and two more refills than ticks bound what any window of ticks
\* lets through, in every schedule of the loops.
THEOREM RateIsBounded == LimiterSpec => []RateBound
<1>1. LimiterTypeOK /\ MeterInv => RateBound
  <2> SUFFICES ASSUME LimiterTypeOK, FillsWhileIdle, MeterInv, NEW a \in Addresses
               PROVE  meter[a] <= Cap + 2 * PerTick
    BY DEF RateBound
  <2>1. meter[a] \in Nat /\ idle[a] \in Nat
    BY SizeAssumption DEF LimiterTypeOK
  <2>2. PerTick * idle[a] \in Nat
    BY <2>1, SizeAssumption, SMT
  <2>3. meter[a] = 0 \/ meter[a] + PerTick * idle[a] <= Cap + 2 * PerTick
    BY DEF MeterInv
  <2> QED
    BY <2>1, <2>2, <2>3, CapNat, SizeAssumption
<1> QED
  BY <1>1, LimiterTypeCorrect, MeterInvariant, PTL

\* A step of the limiter, seen from one address.
LEMMA SavingsStep ==
  ASSUME LimiterTypeOK, LimiterNext, NEW b \in Addresses
  PROVE  /\ \/ Level(b)' >= Level(b)
            \/ Level(b) >= Unit /\ Level(b)' = Level(b) - Unit
         /\ got /\ ~got' => Level(b)' = AtMost(Level(b) + PerTick, Cap)
<1> DEFINE Goal == /\ \/ Level(b)' >= Level(b)
                      \/ Level(b) >= Unit /\ Level(b)' = Level(b) - Unit
                   /\ got /\ ~got' => Level(b)' = AtMost(Level(b) + PerTick, Cap)
<1> SUFFICES Goal OBVIOUS
<1> USE CapNat, SizeAssumption
<1>0. Level(b) \in 0..Cap
  BY DEF LimiterTypeOK, Level, None
<1>1. ASSUME NEW a \in Addresses, Allow(a) PROVE Goal
  <2>1. got' = got
    BY <1>1 DEF Allow
  <2>2. CASE a # b
    BY <1>0, <1>1, <2>1, <2>2 DEF Allow, LimiterTypeOK, Level
  <2>3. CASE a = b
    <3>1. /\ tokens'[b] \in 0..Cap
          /\ tokens'[b] = Level(b) \/ (Level(b) >= Unit /\ tokens'[b] = Level(b) - Unit)
      BY <1>0, <1>1, <2>3 DEF Allow, LimiterTypeOK
    <3> QED
      BY <1>0, <2>1, <3>1 DEF Level, None
  <2> QED
    BY <2>2, <2>3
<1>2. CASE LimiterTick
  <2>1. got' = got /\ tokens' = tokens
    BY <1>2 DEF LimiterTick
  <2> QED
    BY <1>0, <2>1 DEF Level
<1>3. CASE Refill
  <2>1. tokens'[b] = IF tokens[b] = None THEN None ELSE AtMost(tokens[b] + PerTick, Cap)
    BY <1>3 DEF Refill
  <2>2. tokens[b] \in None..Cap
    BY DEF LimiterTypeOK
  <2>3. Level(b)' = AtMost(Level(b) + PerTick, Cap)
    BY <2>1, <2>2 DEF Level, AtMost, None
  <2>4. Level(b)' >= Level(b)
    BY <1>0, <2>3 DEF AtMost
  <2> QED
    BY <2>3, <2>4
<1>4. CASE Cleanup
  <2>1. got' = got /\ (tokens'[b] = None \/ tokens'[b] = tokens[b])
    BY <1>4 DEF Cleanup
  <2> QED
    BY <1>0, <2>1 DEF Level
<1>5. CASE Stop
  BY <1>0, <1>5 DEF Stop, Level
<1>6. ASSUME NEW l \in Loops, LeaveLoop(l) PROVE Goal
  BY <1>0, <1>6 DEF LeaveLoop, Level
<1>7. CASE Receive
  BY <1>0, <1>7 DEF Receive, Level
<1> QED
  BY <1>1, <1>2, <1>3, <1>4, <1>5, <1>6, <1>7 DEF LimiterNext

\* Allow takes from an address only what it lets in, and neither a refusal nor
\* a late refill nor cleanupLoop costs it anything: the safety half of
\* NeverStarved.
THEOREM RefusalsCostNothing == LimiterSpec => SavingsKept
<1>1. LimiterTypeOK /\ [LimiterNext]_limiterVars =>
        [\A a \in Addresses :
           /\ \/ Level(a)' >= Level(a)
              \/ Level(a) >= Unit /\ Level(a)' = Level(a) - Unit
           /\ got /\ ~got' => Level(a)' = AtMost(Level(a) + PerTick, Cap)]_limiterVars
  BY SavingsStep
<1> QED
  BY <1>1, LimiterTypeCorrect, PTL DEF LimiterSpec, SavingsKept
=============================================================================
