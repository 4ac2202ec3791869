---------------------------- MODULE SmtpIngress ----------------------------
(***************************************************************************)
(* The SMTP server (pkg/smtp/session.go, backend.go) between the go-smtp   *)
(* library, which calls one method of a Session per command, and the       *)
(* database: relay check, greylisting, and what DATA does with every       *)
(* recipient.  Each statement is a step, so sessions, administrators and a *)
(* reload of the domains interleave between them.                          *)
(***************************************************************************)
EXTENDS Integers, Sequences

CONSTANTS
  Conns,           \* SMTP connections
  Clients,         \* pairs of client address and envelope sender
  Client,          \* the one of each connection
  Rcpts,           \* recipient addresses
  NoRcpt,          \* none of them
  Domains,         \* mail domains
  NoDomain,        \* none of them
  DomainOf,        \* the domain of an address, NoDomain if it has no "@"
  Hostname,        \* cfg.Hostname, always a local domain
  Delay,           \* cfg.GreylistingDelay in ticks, 0 for off
  MaxRecipients,   \* cfg.MaxRecipients
  MaxFaults        \* statements that may fail

ASSUME ConfigAssumption ==
  /\ Client \in [Conns -> Clients]
  /\ DomainOf \in [Rcpts -> Domains \cup {NoDomain}]
  /\ Hostname \in Domains /\ NoRcpt \notin Rcpts /\ NoDomain \notin Domains
  /\ Delay \in Nat /\ MaxRecipients \in Nat /\ MaxFaults \in Nat

VARIABLES
  domains,   \* Backend.localDomains
  account,   \* the user of each address: "none" yet, "live", "bare" (live but
             \* without an INBOX), "gone"
  age,       \* greylist: ticks since first_seen of each triplet, up to Delay
  passed,    \* greylist: triplets with passed = 1
  pc,        \* what each session does next
  mail,      \* sessions with an envelope sender
  authed,    \* Session.authed
  rcpts,     \* Session.recipients
  cur,       \* argument of the RCPT whose triplet is being looked up
  users,     \* localUsers of the DATA under way
  at,        \* position of its loops
  faults,    \* statements that have failed so far
  \* history
  waited,    \* ticks since the first recorded attempt of each triplet
  hosted,    \* domains that have been local at some time
  known,     \* accounts that existed at the lookup of the DATA under way
  fate,      \* what the last DATA did with the recipient at each position
  excused    \* positions where a statement failed, the account vanished or
             \* had no INBOX, or the address names no domain

tables == <<domains, account>>
greylist == <<age, passed, waited>>
cmdVars == <<mail, authed, rcpts, cur>>
dataVars == <<users, at, known, fate, excused>>
vars == <<tables, greylist, pc, cmdVars, dataVars, faults, hosted>>

Unseen == -1                       \* age of a triplet without a row
Keys == Clients \X Rcpts
Positions == 1..MaxRecipients
Outcomes == {"inbox", "queued", "ndr", "lost"}

TypeOK ==
  /\ domains \subseteq Domains /\ hosted \subseteq Domains
  /\ account \in [Rcpts -> {"none", "live", "bare", "gone"}]
  /\ age \in [Keys -> Unseen..Delay] /\ waited \in [Keys -> Unseen..Delay]
  /\ passed \subseteq Keys
  /\ pc \in [Conns -> {"ready", "white", "record", "age", "pass",
                       "lookup", "local", "remote"}]
  /\ mail \subseteq Conns /\ authed \subseteq Conns
  /\ rcpts \in [Conns -> Seq(Rcpts)]
  /\ \A s \in Conns : Len(rcpts[s]) <= MaxRecipients
  /\ cur \in [Conns -> Rcpts \cup {NoRcpt}]
  /\ users \in [Conns -> SUBSET Rcpts] /\ known \in [Conns -> SUBSET Rcpts]
  /\ at \in [Conns -> 1..(MaxRecipients + 1)]
  /\ faults \in 0..MaxFaults
  /\ fate \in [Conns -> [Positions -> SUBSET Outcomes]]
  /\ excused \in [Conns -> SUBSET Positions]

Init ==
  /\ domains = {Hostname} /\ hosted = {Hostname}
  /\ account \in [Rcpts -> {"none", "live"}]
  /\ age = [k \in Keys |-> Unseen] /\ waited = [k \in Keys |-> Unseen]
  /\ passed = {}
  /\ pc = [s \in Conns |-> "ready"]
  /\ mail = {} /\ authed = {}
  /\ rcpts = [s \in Conns |-> <<>>]
  /\ cur = [s \in Conns |-> NoRcpt]
  /\ users = [s \in Conns |-> {}] /\ known = [s \in Conns |-> {}]
  /\ at = [s \in Conns |-> 1]
  /\ faults = 0
  /\ fate = [s \in Conns |-> [i \in Positions |-> {}]]
  /\ excused = [s \in Conns |-> {}]

Goto(s, from, to) == pc[s] = from /\ pc' = [pc EXCEPT ![s] = to]

StmtWorks == UNCHANGED faults
StmtFails == faults < MaxFaults /\ faults' = faults + 1

Triplet(s) == <<Client[s], cur[s]>>
isLocalDomain(d) == d \in domains \/ d = Hostname
-----------------------------------------------------------------------------
(* Connections and commands.                                               *)

\* A session ends, and the place is taken by a new one (NewSession), if the
\* rate limiter lets it in.
Logout(s) ==
  /\ pc[s] = "ready"
  /\ mail' = mail \ {s} /\ authed' = authed \ {s}
  /\ rcpts' = [rcpts EXCEPT ![s] = <<>>]
  /\ UNCHANGED <<tables, greylist, pc, cur, dataVars, faults, hosted>>

Auth(s) ==
  /\ pc[s] = "ready"
  /\ authed' = authed \cup {s}
  /\ UNCHANGED <<tables, greylist, pc, mail, rcpts, cur, dataVars, faults, hosted>>

Mail(s) ==
  /\ pc[s] = "ready"
  /\ mail' = mail \cup {s}
  /\ UNCHANGED <<tables, greylist, pc, authed, rcpts, cur, dataVars, faults, hosted>>

\* RSET: the transaction is forgotten, the authentication is not.
Reset(s) ==
  /\ pc[s] = "ready"
  /\ mail' = mail \ {s}
  /\ rcpts' = [rcpts EXCEPT ![s] = <<>>]
  /\ UNCHANGED <<tables, greylist, pc, authed, cur, dataVars, faults, hosted>>
-----------------------------------------------------------------------------
(* RCPT TO.                                                                *)

AddRcpt(s, to) == rcpts' = [rcpts EXCEPT ![s] = Append(@, to)]

\* Mutant: the relay check is left out.
RcptRelays(s, to) ==
  /\ s \in mail
  /\ Len(rcpts[s]) < MaxRecipients
  /\ Goto(s, "ready", "ready") /\ AddRcpt(s, to)
  /\ UNCHANGED <<tables, greylist, mail, authed, cur, dataVars, faults, hosted>>

\* Mutant: the limit is compared with <= instead of <.
RcptOneMore(s, to) ==
  /\ s \in mail
  /\ Len(rcpts[s]) <= MaxRecipients
  /\ s \in authed \/ isLocalDomain(DomainOf[to])
  /\ Goto(s, "ready", "ready") /\ AddRcpt(s, to)
  /\ UNCHANGED <<tables, greylist, mail, authed, cur, dataVars, faults, hosted>>

\* A refusal (too many recipients, no domain, relaying) leaves the session as it was.
Rcpt(s, to) ==
  /\ s \in mail
  /\ Len(rcpts[s]) < MaxRecipients
  /\ s \in authed \/ isLocalDomain(DomainOf[to])
  /\ \/ /\ s \in authed \/ Delay = 0
        /\ Goto(s, "ready", "ready") /\ AddRcpt(s, to)
        /\ UNCHANGED cur
     \/ /\ s \notin authed /\ Delay > 0
        /\ Goto(s, "ready", "white") /\ cur' = [cur EXCEPT ![s] = to]
        /\ UNCHANGED rcpts
  /\ UNCHANGED <<tables, greylist, mail, authed, dataVars, faults, hosted>>

\* checkGreylist of each session's recipient: it goes on, or returns and the
\* recipient is accepted or refused.
Greylisting(s, from) == pc[s] = from /\ UNCHANGED <<tables, mail, authed, dataVars, hosted>>
GoOn(s, to) == pc' = [pc EXCEPT ![s] = to] /\ UNCHANGED <<rcpts, cur>>
Leave(s) == pc' = [pc EXCEPT ![s] = "ready"] /\ cur' = [cur EXCEPT ![s] = NoRcpt]
Admit(s) == Leave(s) /\ AddRcpt(s, cur[s])
Refuse(s) == Leave(s) /\ UNCHANGED rcpts

\* IsWhitelisted; as below, a failing statement lets the recipient through.
CheckWhitelist(s) ==
  /\ Greylisting(s, "white")
  /\ \/ StmtWorks /\ Triplet(s) \in passed /\ Admit(s)
     \/ StmtWorks /\ Triplet(s) \notin passed /\ GoOn(s, "record")
     \/ StmtFails /\ Admit(s)
  /\ UNCHANGED greylist

FirstSeen(k) == [age EXCEPT ![k] = IF @ = Unseen THEN 0 ELSE @]
FirstTried(k) == [waited EXCEPT ![k] = IF @ = Unseen THEN 0 ELSE @]

\* Mutant: an attempt overwrites first_seen.
RecordAttemptAnew(s) ==
  /\ Greylisting(s, "record")
  /\ StmtWorks /\ GoOn(s, "age")
  /\ age' = [age EXCEPT ![Triplet(s)] = 0] /\ waited' = FirstTried(Triplet(s))
  /\ UNCHANGED passed

\* The upsert writes first_seen of a new triplet only.
RecordAttempt(s) ==
  /\ Greylisting(s, "record")
  /\ \/ /\ StmtWorks /\ GoOn(s, "age")
        /\ age' = FirstSeen(Triplet(s)) /\ waited' = FirstTried(Triplet(s))
     \/ StmtFails /\ Admit(s) /\ UNCHANGED <<age, waited>>
  /\ UNCHANGED passed

\* Mutant: a triplet is let through when it is met again.
CheckDelayNot(s) ==
  /\ Greylisting(s, "age")
  /\ \/ StmtWorks /\ age[Triplet(s)] < Delay /\ GoOn(s, "pass")
     \/ StmtWorks /\ age[Triplet(s)] >= Delay /\ GoOn(s, "pass")
  /\ UNCHANGED greylist

\* SELECT first_seen and the comparison with the delay.
CheckDelay(s) ==
  /\ Greylisting(s, "age")
  /\ \/ StmtWorks /\ age[Triplet(s)] < Delay /\ Refuse(s)
     \/ StmtWorks /\ age[Triplet(s)] >= Delay /\ GoOn(s, "pass")
     \/ StmtFails /\ Admit(s)
  /\ UNCHANGED greylist

\* An error of the UPDATE is only logged.
MarkPassed(s) ==
  /\ Greylisting(s, "pass")
  /\ Admit(s)
  /\ \/ StmtWorks /\ passed' = passed \cup {Triplet(s)}
     \/ StmtFails /\ UNCHANGED passed
  /\ UNCHANGED <<age, waited>>
-----------------------------------------------------------------------------
(* DATA.                                                                   *)

\* The library ends the transaction with the reply, whichever it is.
EndData(s) ==
  /\ mail' = mail \ {s}
  /\ rcpts' = [rcpts EXCEPT ![s] = <<>>]
  /\ users' = [users EXCEPT ![s] = {}] /\ known' = [known EXCEPT ![s] = {}]
  /\ at' = [at EXCEPT ![s] = 1]
  /\ fate' = [fate EXCEPT ![s] = [i \in Positions |-> {}]]
  /\ excused' = [excused EXCEPT ![s] = {}]

\* Data, which the library calls only with a recipient, stores the body, or
\* refuses it because it cannot be read, stored, or is too large; in the last
\* case it is deleted again.
Data(s) ==
  /\ rcpts[s] # <<>>
  /\ \/ Goto(s, "ready", "lookup") /\ UNCHANGED <<mail, rcpts, dataVars>>
     \/ Goto(s, "ready", "ready") /\ EndData(s)
  /\ UNCHANGED <<tables, greylist, authed, cur, faults, hosted>>

Live == {r \in Rcpts : account[r] \in {"live", "bare"}}
Addressed(s) == {rcpts[s][i] : i \in DOMAIN rcpts[s]}

\* Mutant: only the first recipient is looked up.
GetUserByEmail(s) ==
  /\ Goto(s, "lookup", "local")
  /\ known' = [known EXCEPT ![s] = Live]
  /\ users' = [users EXCEPT ![s] = {rcpts[s][1]} \cap Live]
  /\ UNCHANGED <<tables, greylist, cmdVars, at, fate, excused, faults, hosted>>

\* One query for all recipients; an error counts as no user at all.
GetUsersByEmail(s) ==
  /\ Goto(s, "lookup", "local")
  /\ known' = [known EXCEPT ![s] = Live]
  /\ \/ /\ StmtWorks
        /\ users' = [users EXCEPT ![s] = Addressed(s) \cap Live]
        /\ UNCHANGED excused
     \/ /\ StmtFails
        /\ users' = [users EXCEPT ![s] = {}]
        /\ excused' = [excused EXCEPT ![s] = Positions]
  /\ UNCHANGED <<tables, greylist, cmdVars, at, fate, hosted>>

\* The recipient at the present position, what is done with it, and whether
\* somebody else is to blame.
Here(s) == rcpts[s][at[s]]
Settle(s, out, blame) ==
  /\ fate' = [fate EXCEPT ![s][at[s]] = @ \cup {out}]
  /\ excused' = [excused EXCEPT ![s] = IF blame THEN @ \cup {at[s]} ELSE @]
Skip == UNCHANGED <<fate, excused>>

\* One round of a loop.
Round(s, loop) ==
  /\ pc[s] = loop
  /\ at[s] <= Len(rcpts[s])
  /\ at' = [at EXCEPT ![s] = @ + 1]
  /\ UNCHANGED <<tables, greylist, pc, cmdVars, users, known, hosted>>

\* First loop: the INBOX of a local user; GetMailbox or InsertMessage fails
\* when the account is gone by now or has no INBOX, and the recipient is
\* passed over.
InsertLocal(s) ==
  /\ Round(s, "local")
  /\ \/ Here(s) \notin users[s] /\ Skip /\ StmtWorks
     \/ /\ Here(s) \in users[s]
        /\ \/ account[Here(s)] = "live" /\ Settle(s, "inbox", FALSE) /\ StmtWorks
           \/ account[Here(s)] # "live" /\ Settle(s, "lost", TRUE) /\ StmtWorks
           \/ Settle(s, "lost", TRUE) /\ StmtFails

SecondLoop(s) ==
  /\ at[s] > Len(rcpts[s])
  /\ Goto(s, "local", "remote")
  /\ at' = [at EXCEPT ![s] = 1]
  /\ UNCHANGED <<tables, greylist, cmdVars, users, known, fate, excused, faults, hosted>>

\* Mutant: the second loop does not pass over local users.
EnqueueOthersToo(s) ==
  /\ Round(s, "remote")
  /\ \/ isLocalDomain(DomainOf[Here(s)]) /\ Settle(s, "ndr", FALSE)
     \/ ~isLocalDomain(DomainOf[Here(s)]) /\ Settle(s, "queued", FALSE)
  /\ StmtWorks

\* The address has a domain, local or not.
Locality(r, here) == DomainOf[r] # NoDomain /\ isLocalDomain(DomainOf[r]) = here

\* Second loop: a non-delivery report for an unknown address of a local
\* domain, the outbound queue for one of any other; an address without a
\* domain, which only an authenticated session may name, is passed over, and
\* so is one whose statement fails.
EnqueueOthers(s) ==
  /\ Round(s, "remote")
  /\ \/ Here(s) \in users[s] /\ Skip /\ StmtWorks
     \/ /\ Here(s) \notin users[s]
        /\ \/ Locality(Here(s), TRUE) /\ Settle(s, "ndr", FALSE) /\ StmtWorks
           \/ Locality(Here(s), FALSE) /\ Settle(s, "queued", FALSE) /\ StmtWorks
           \/ DomainOf[Here(s)] = NoDomain /\ Settle(s, "lost", TRUE) /\ StmtWorks
           \/ Settle(s, "lost", TRUE) /\ StmtFails

Finish(s) ==
  /\ at[s] > Len(rcpts[s])
  /\ Goto(s, "remote", "ready")
  /\ EndData(s)
  /\ UNCHANGED <<tables, greylist, authed, cur, faults, hosted>>
-----------------------------------------------------------------------------
(* The world around the sessions.                                          *)

\* SIGHUP and the administrator's changes of the domains.
ReloadDomains(ds) ==
  /\ domains' = ds \cup {Hostname}
  /\ hosted' = hosted \cup domains'
  /\ UNCHANGED <<account, greylist, pc, cmdVars, dataVars, faults>>

CreateUser(r) ==
  /\ account[r] = "none"
  /\ account' = [account EXCEPT ![r] = "live"]
  /\ UNCHANGED <<domains, greylist, pc, cmdVars, dataVars, faults, hosted>>
DeleteUser(r) ==
  /\ account[r] \in {"live", "bare"}
  /\ account' = [account EXCEPT ![r] = "gone"]
  /\ UNCHANGED <<domains, greylist, pc, cmdVars, dataVars, faults, hosted>>

\* The user deletes or renames the INBOX over IMAP, or creates another.
MoveInbox(r) ==
  /\ \/ account[r] = "live" /\ account' = [account EXCEPT ![r] = "bare"]
     \/ account[r] = "bare" /\ account' = [account EXCEPT ![r] = "live"]
  /\ UNCHANGED <<domains, greylist, pc, cmdVars, dataVars, faults, hosted>>

Older(a) == [k \in Keys |-> IF a[k] \in 0..(Delay - 1) THEN a[k] + 1 ELSE a[k]]
Tick ==
  /\ age' = Older(age) /\ waited' = Older(waited)
  /\ UNCHANGED <<tables, passed, pc, cmdVars, dataVars, faults, hosted>>

Command(s) ==
  \/ Logout(s) \/ Auth(s) \/ Mail(s) \/ Reset(s) \/ Data(s)
  \/ \E to \in Rcpts : Rcpt(s, to)

checkGreylist(s) == CheckWhitelist(s) \/ RecordAttempt(s) \/ CheckDelay(s) \/ MarkPassed(s)

DataStep(s) ==
  GetUsersByEmail(s) \/ InsertLocal(s) \/ SecondLoop(s) \/ EnqueueOthers(s) \/ Finish(s)

Next ==
  \/ \E s \in Conns : Command(s) \/ checkGreylist(s) \/ DataStep(s)
  \/ \E ds \in SUBSET Domains : ReloadDomains(ds)
  \/ \E r \in Rcpts : CreateUser(r) \/ DeleteUser(r) \/ MoveInbox(r)
  \/ Tick

Spec == Init /\ [][Next]_vars
-----------------------------------------------------------------------------
(* Properties.                                                             *)

\* Greylisting cannot be hurried: unless a statement failed, a recipient of
\* an unauthenticated session is accepted only Delay after the first attempt
\* of its triplet, however many sessions try at once.
GreylistWaits ==
  [][\A s \in Conns :
       /\ pc[s] \in {"white", "record", "age", "pass"}
       /\ Len(rcpts'[s]) > Len(rcpts[s])
       /\ faults' = faults
       => waited[Triplet(s)] >= Delay]_vars

\* ... nor does it last: a client is told to come back only within Delay of
\* its first attempt, so attempts in between do not start the wait again.
GreylistEnds ==
  [][\A s \in Conns :
       pc[s] = "age" /\ pc'[s] = "ready" /\ rcpts'[s] = rcpts[s] =>
         waited[Triplet(s)] < Delay]_vars

\* Each recipient of a message is handled once: in the end it was stored,
\* queued or bounced, exactly one of these, or was lost to a failing
\* statement of its own, an account that is gone or has no INBOX, or an
\* address without a domain.
Finished(s) == pc[s] = "remote" /\ at[s] > Len(rcpts[s])
SettledOnce ==
  \A s \in Conns : Finished(s) => \A i \in DOMAIN rcpts[s] :
    /\ \E o \in Outcomes : fate[s][i] = {o}
    /\ "lost" \in fate[s][i] => i \in excused[s]

\* Mail of a session that never authenticated leaves this server only for a
\* domain that was local when its recipient was accepted or at some other
\* time before: a reload in between is the one exception to the relay check.
NoRelay ==
  \A s \in Conns \ authed : pc[s] = "remote" => \A i \in DOMAIN rcpts[s] :
    "queued" \in fate[s][i] => DomainOf[rcpts[s][i]] \in hosted

\* A bounce tells the truth: the address had no account when DATA looked,
\* or the look failed.
HonestReport ==
  \A s \in Conns : pc[s] = "remote" => \A i \in DOMAIN rcpts[s] :
    "ndr" \in fate[s][i] => rcpts[s][i] \notin known[s] \/ i \in excused[s]
-----------------------------------------------------------------------------
(* The inductive invariant.                                                *)

\* Between commands and inside RCPT and the lookup nothing is settled, and a
\* recipient that is being greylisted still has room.
EnvelopeInv(s) ==
  /\ pc[s] \in {"white", "record", "age", "pass"} =>
       cur[s] \in Rcpts /\ Len(rcpts[s]) < MaxRecipients
  /\ pc[s] \notin {"local", "remote"} =>
       at[s] = 1 /\ (\A i \in Positions : fate[s][i] = {}) /\ excused[s] = {}

\* The loop that is to settle position i has passed it.
PassedBy(s, i) ==
  IF rcpts[s][i] \in users[s] THEN pc[s] = "remote" \/ i < at[s]
                              ELSE pc[s] = "remote" /\ i < at[s]

\* Inside the loops a position is settled when, and only when, its loop has
\* passed it; users is what the lookup found, or the failure is on record.
LoopInv(s) ==
  pc[s] \in {"local", "remote"} => \A i \in DOMAIN rcpts[s] :
    /\ PassedBy(s, i) => \E o \in Outcomes : fate[s][i] = {o}
    /\ ~PassedBy(s, i) => fate[s][i] = {}
    /\ "lost" \in fate[s][i] => i \in excused[s]
    /\ "ndr" \in fate[s][i] => rcpts[s][i] \notin users[s]
    /\ rcpts[s][i] \in known[s] => rcpts[s][i] \in users[s] \/ i \in excused[s]

\* Whoever is not authenticated names recipients of domains that were local.
RelayInv ==
  /\ domains \subseteq hosted /\ Hostname \in hosted
  /\ \A s \in Conns \ authed : \A i \in DOMAIN rcpts[s] : DomainOf[rcpts[s][i]] \in hosted
  /\ \A s \in Conns : pc[s] \in {"white", "record", "age", "pass"} => DomainOf[cur[s]] \in hosted

DataInv == TypeOK /\ RelayInv /\ \A s \in Conns : EnvelopeInv(s) /\ LoopInv(s)
=============================================================================
