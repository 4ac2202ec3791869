----------------------------- MODULE DmarcReport -----------------------------
(***************************************************************************)
(* The generator of DMARC aggregate reports (pkg/dmarc/report.go) over the *)
(* table dmarc_results (pkg/storage/dmarc.go).  Results are recorded while *)
(* the generator works; every statement and every DNS lookup is a step and *)
(* may fail, and the process may crash between any two.  The contents of a *)
(* report are the results it covers.                                       *)
(***************************************************************************)
EXTENDS Naturals

CONSTANTS
  Results,    \* evaluations that may be recorded, one row each
  Domains, DomainOf,
  Rua,        \* the entries of each domain's rua= list, {} for none; an
              \* address that is listed twice is two entries
  Broken,     \* domains whose lookup fails every time, such as one with a
              \* malformed record
  MaxFaults,  \* bound on faults, failed lookups and failed statements
  NoDomain

ASSUME DomainAssumption ==
  /\ DomainOf \in [Results -> Domains] /\ NoDomain \notin Domains
  /\ Broken \subseteq Domains
  /\ MaxFaults \in Nat

Uris == UNION {Rua[d] : d \in Domains}

VARIABLES
  row,        \* each result: not recorded, or its report_sent
  pc,         \* what the generator does next
  stopping,   \* Stop has closed stopCh
  todo,       \* generateReports: domains still to be done,
  reported,   \* and those to be marked
  cur,        \* generateDomainReport: the domain,
  batch,      \* the results in its report,
  uris,       \* and the addresses it has still to be sent to
  faults,
  mailed,     \* history: <<r, u>>, a report that covers r is queued for entry u
  twice,      \* history: <<r, u>>, such a report was queued again though r's
              \* first one had not been left unmarked
  tried,      \* history: results whose report was tried at every address
  late,       \* history: recorded since their domain's results were read
  unmarked    \* history: results of a run that did not mark them

local == <<todo, reported, cur, batch, uris>>
history == <<mailed, twice, tried, late, unmarked>>
vars == <<row, pc, stopping, local, faults, history>>

TypeOK ==
  /\ row \in [Results -> {"none", "unsent", "sent"}]
  /\ pc \in {"off", "run", "next", "lookup", "query", "send", "wait", "stopped"}
  /\ stopping \in BOOLEAN
  /\ todo \subseteq Domains /\ reported \subseteq Domains
  /\ cur \in Domains \cup {NoDomain}
  /\ batch \subseteq Results
  /\ uris \subseteq Uris
  /\ faults \in 0..MaxFaults
  /\ mailed \subseteq Results \X Uris /\ twice \subseteq mailed
  /\ tried \subseteq Results /\ late \subseteq Results /\ unmarked \subseteq Results

\* Something fails that may.
Fault == faults < MaxFaults /\ faults' = faults + 1

Idle(next) ==
  /\ pc' = next
  /\ todo' = {} /\ reported' = {} /\ cur' = NoDomain /\ batch' = {} /\ uris' = {}

Init ==
  /\ row = [r \in Results |-> "none"]
  /\ pc = "off" /\ stopping = FALSE /\ faults = 0
  /\ todo = {} /\ reported = {} /\ cur = NoDomain /\ batch = {} /\ uris = {}
  /\ mailed = {} /\ twice = {} /\ tried = {} /\ late = {} /\ unmarked = {}

Unsent(d) == {r \in Results : row[r] = "unsent" /\ DomainOf[r] = d}

\* The domain's results have been read, and not been marked yet.
Read(d) == d \in reported \/ (d = cur /\ pc = "send")

InsertDMARCResult(r) ==
  /\ row[r] = "none"
  /\ row' = [row EXCEPT ![r] = "unsent"]
  /\ late' = IF Read(DomainOf[r]) THEN late \cup {r} ELSE late
  /\ UNCHANGED <<pc, stopping, local, faults, mailed, twice, tried, unmarked>>

\* Start reports at once; the loop does so at every tick, and a closed stopCh
\* need not win the select.
Start == pc = "off" /\ pc' = "run" /\ UNCHANGED <<row, stopping, local, faults, history>>
Tick  == pc = "wait" /\ pc' = "run" /\ UNCHANGED <<row, stopping, local, faults, history>>
Stop  == ~stopping /\ pc # "off" /\ stopping' = TRUE
         /\ UNCHANGED <<row, pc, local, faults, history>>
Leave == pc = "wait" /\ stopping /\ pc' = "stopped"
         /\ UNCHANGED <<row, stopping, local, faults, history>>

\* generateReports: the domains with unsent results.
GetDMARCDomains ==
  /\ pc = "run"
  /\ \/ /\ todo' = {d \in Domains : Unsent(d) # {}}
        /\ pc' = IF todo' = {} THEN "wait" ELSE "next"
        /\ UNCHANGED faults
     \/ Fault /\ pc' = "wait" /\ UNCHANGED todo
  /\ UNCHANGED <<row, stopping, reported, cur, batch, uris, history>>

NextDomain(d) ==
  /\ pc = "next" /\ d \in todo
  /\ pc' = "lookup" /\ cur' = d /\ todo' = todo \ {d}
  /\ UNCHANGED <<row, stopping, reported, batch, uris, faults, history>>

\* generateDomainReport returns: an error leaves the domain for another run.
DomainDone(ok) ==
  /\ pc' = "next" /\ cur' = NoDomain /\ batch' = {} /\ uris' = {}
  /\ reported' = IF ok THEN reported \cup {cur} ELSE reported
  /\ UNCHANGED todo

\* Mutant: a domain that asks for no reports is not marked either.
LookupSkips ==
  /\ pc = "lookup"
  /\ IF cur \in Broken \/ Rua[cur] = {}
       THEN DomainDone(FALSE)
       ELSE pc' = "query" /\ UNCHANGED local
  /\ UNCHANGED <<row, stopping, faults, history>>

\* dmarc.Lookup fails, this once or every time; or there is no record, or none
\* with an address, which counts as done.
Lookup ==
  /\ pc = "lookup"
  /\ \/ Fault /\ DomainDone(FALSE)
     \/ cur \in Broken /\ DomainDone(FALSE) /\ UNCHANGED faults
     \/ cur \notin Broken /\ Rua[cur] = {} /\ DomainDone(TRUE) /\ UNCHANGED faults
     \/ cur \notin Broken /\ Rua[cur] # {} /\ pc' = "query" /\ UNCHANGED <<local, faults>>
  /\ UNCHANGED <<row, stopping, history>>

\* GetUnsentDMARCResults, of which the domain's are kept; there are some, as
\* only the generator marks them.  The report is built from them.
GetUnsentDMARCResults ==
  /\ pc = "query"
  /\ \/ Fault /\ DomainDone(FALSE) /\ UNCHANGED late
     \/ /\ pc' = "send" /\ batch' = Unsent(cur) /\ uris' = Rua[cur]
        /\ late' = late \ batch'
        /\ UNCHANGED <<todo, reported, cur, faults>>
  /\ UNCHANGED <<row, stopping, mailed, twice, tried, unmarked>>

Queued(u) ==
  /\ mailed' = mailed \cup (batch \X {u})
  /\ twice' = twice \cup (mailed \cap ((batch \ unmarked) \X {u}))

\* Mutant: an address that fails leaves the domain for another run.
sendReportAll(u) ==
  /\ pc = "send" /\ u \in uris
  /\ \/ /\ uris' = uris \ {u} /\ Queued(u)
        /\ UNCHANGED <<pc, todo, reported, cur, batch, faults>>
     \/ Fault /\ DomainDone(FALSE) /\ UNCHANGED <<mailed, twice>>
  /\ UNCHANGED <<row, stopping, tried, late, unmarked>>

\* sendReport: the report is stored as a blob and a message of OUTBOUND and
\* queued, or one of these fails, which is only logged.
sendReport(u) ==
  /\ pc = "send" /\ u \in uris
  /\ uris' = uris \ {u}
  /\ \/ Queued(u)
     \/ UNCHANGED <<mailed, twice>>
  /\ UNCHANGED <<row, pc, stopping, todo, reported, cur, batch, faults, tried, late, unmarked>>
Sent ==
  /\ pc = "send" /\ uris = {}
  /\ DomainDone(TRUE)
  /\ tried' = tried \cup batch
  /\ UNCHANGED <<row, stopping, faults, mailed, twice, late, unmarked>>

\* Results whose reports the generator forgets about.
Forgotten == {r \in Results : DomainOf[r] \in reported \cup {cur} /\ row[r] = "unsent"}

\* Mutant: the domains whose report failed are marked with the others.
MarkDMARCResultsSentAll ==
  /\ pc = "next" /\ todo = {}
  /\ row' = [r \in Results |-> IF row[r] = "unsent" THEN "sent" ELSE row[r]]
  /\ Idle("wait")
  /\ UNCHANGED <<stopping, faults, history>>

\* MarkDMARCResultsSent, in one transaction: every unsent result of the
\* domains, also one recorded since they were read.
MarkDMARCResultsSent ==
  /\ pc = "next" /\ todo = {}
  /\ \/ /\ row' = [r \in Results |->
                     IF DomainOf[r] \in reported /\ row[r] = "unsent" THEN "sent" ELSE row[r]]
        /\ UNCHANGED <<unmarked, faults>>
     \/ Fault /\ UNCHANGED row /\ unmarked' = unmarked \cup Forgotten
  /\ Idle("wait")
  /\ UNCHANGED <<stopping, mailed, twice, tried, late>>

Crash ==
  /\ pc \notin {"off", "stopped"} /\ Fault
  /\ unmarked' = unmarked \cup Forgotten
  /\ stopping' = FALSE
  /\ Idle("off")
  /\ UNCHANGED <<row, mailed, twice, tried, late>>

Step ==
  \/ GetDMARCDomains \/ (\E d \in Domains : NextDomain(d))
  \/ Lookup \/ GetUnsentDMARCResults \/ (\E u \in Uris : sendReport(u)) \/ Sent
  \/ MarkDMARCResultsSent

Next ==
  \/ \E r \in Results : InsertDMARCResult(r)
  \/ Start \/ Tick \/ Stop \/ Leave \/ Step \/ Crash

\* The ticker ticks and a call returns.  Nothing is assumed of Start.
Spec == Init /\ [][Next]_vars
Fairness == WF_vars(Tick) /\ WF_vars(Step)
FairSpec == Spec /\ Fairness
-----------------------------------------------------------------------------
(* Properties.                                                             *)

\* A result goes to an entry of the rua list once, unless a crash or a failed
\* MarkDMARCResultsSent came between its report and its mark; an address that
\* could not be written to does not make the others get it again.
ReportedOnce == twice = {}

\* A result that is marked as sent has been in a report that was tried at
\* every address its domain asks for, unless it was recorded while the report
\* of its domain was under way.
UnreportedHasCause ==
  \A r \in Results :
    row[r] = "sent" /\ Rua[DomainOf[r]] # {} => r \in tried \cup late

\* While the generator runs, a recorded result is dealt with in the end,
\* whatever fails before and however often the lookup of another domain does.
\* One whose own domain has a malformed record stays unsent for ever.
EventuallySent ==
  \A r \in Results :
    DomainOf[r] \notin Broken =>
      (row[r] = "unsent" ~> (row[r] = "sent" \/ pc \in {"stopped", "off"}))
-----------------------------------------------------------------------------
(* The inductive invariant.                                                *)

\* A domain is in one place of the cycle at a time, and a report covers
\* unsent results of its domain only.
CycleInv ==
  /\ todo \cap reported = {}
  /\ pc \notin {"next", "lookup", "query", "send"} => todo = {} /\ reported = {}
  /\ pc \in {"lookup", "query", "send"} => cur \in Domains \ (todo \cup reported)
  /\ pc # "send" => batch = {}
  /\ \A r \in batch : row[r] = "unsent" /\ DomainOf[r] = cur

\* What is unsent in a domain whose results have been read is in its report
\* or came late.
CoveredInv ==
  \A r \in Results :
    row[r] = "unsent" =>
      /\ DomainOf[r] \in reported /\ Rua[DomainOf[r]] # {} => r \in tried \cup late
      /\ pc = "send" /\ DomainOf[r] = cur => r \in batch \cup late

\* What was reported to u is marked, will be at the end of the cycle, or was
\* forgotten by a cycle that failed.
OnceInv ==
  \A r \in Results, u \in Uris :
    <<r, u>> \in mailed =>
      /\ row[r] # "none"
      /\ \/ r \in unmarked \/ row[r] = "sent" \/ DomainOf[r] \in reported
         \/ r \in batch /\ u \notin uris

Inv == TypeOK /\ CycleInv /\ CoveredInv /\ OnceInv /\ ReportedOnce /\ UnreportedHasCause

\* A domain the cycle knows of: to be done, being done, or to be marked.
InCycle(d) == d \in todo \cup reported \cup {cur}

\* Between two domains none is being done.
BetweenInv == pc \notin {"lookup", "query", "send"} => cur = NoDomain

\* Behind EventuallySent: a step that nothing fails in drops no result.  A
\* cycle begins with the domains of all that is unsent, and a domain that is
\* not broken leaves it only when its results are marked.
NoneLeftBehind ==
  [][faults' = faults =>
       \A r \in Results :
         row[r] = "unsent" =>
           /\ pc = "run" /\ pc' # "run" => InCycle(DomainOf[r])'
           /\ InCycle(DomainOf[r]) /\ DomainOf[r] \notin Broken =>
                InCycle(DomainOf[r])' \/ row'[r] = "sent"]_vars
=============================================================================
