-------------------------------- MODULE Spf --------------------------------
(***************************************************************************)
(* The SPF check that SMTP's DATA runs on the envelope sender              *)
(* (pkg/spf/checker.go).  One check is a sequence of DNS lookups, each of  *)
(* which may fail; the verdict is only logged.  What the DNS holds is      *)
(* chosen in SpfInit.  A record is a sequence of terms                     *)
(*   [m |-> how the term is written, q |-> its qualifier,                  *)
(*    dom |-> its domain, net |-> its network, bits |-> its prefix length] *)
(* and an address a sequence of bytes, IPv4 by its length.                 *)
(***************************************************************************)
EXTENDS Integers, Sequences, FiniteSetsExt

CONSTANTS
  Names,      \* domain names the DNS knows
  Clients,    \* addresses of SMTP clients
  Zones,      \* what the DNS may hold: texts, addresses and MX hosts by name
  ByteBits,   \* bits of a byte, 8 in the code
  Bytes4,     \* bytes of an IPv4 address, 4 in the code
  MaxDepth,   \* deepest nesting of evaluate, 10 in the code
  MaxLookups, \* lookups RFC 7208 allows a check, 10; the code does not count
  Empty,      \* the empty text
  NoName      \* other text that is no domain name: the resolver refuses both

\* Powers of two, for shifts and masks.
Pow2[n \in Nat] == IF n = 0 THEN 1 ELSE 2 * Pow2[n - 1]

\* What the switch of evaluate's loop makes of a term, by the first test that
\* fits the text.  Anything else with a colon, "include:" and "mx:" among it,
\* is taken for an address lookup of what follows its second character.  The
\* tests compare case: "A:" is one of those, "ALL" or "MX" is "unknown".
Modifiers == {"redirect=", "exp="}
Ignored   == Modifiers \cup {"ptr", "unknown"}
ByText    == {"all", "ip4:", "ip6:"}
ByAddress == {"a", "a:", "a:/", "a/", "A:", "mx:", "include:", "exists:", "ptr:"}
ByHosts   == {"mx", "mx/"}

Address == Seq(0..Pow2[ByteBits] - 1)
TermOf ==
  [m : Ignored \cup ByText \cup ByAddress \cup ByHosts, q : {"+", "-", "~", "?"},
   dom : Names \cup {Empty, NoName}, net : Address, bits : Int]
Dns ==
  [txt : [Names -> Seq([spf : BOOLEAN, terms : Seq(TermOf)])],
   addr : [Names -> SUBSET Address], mx : [Names -> Seq(Names)]]

ASSUME SizeAssumption == {ByteBits, Bytes4, MaxDepth, MaxLookups} \subseteq Nat \ {0}
ASSUME NameAssumption == Empty \notin Names /\ NoName \notin Names
ASSUME DnsAssumption == Zones \subseteq Dns /\ Clients \subseteq Address

VARIABLES
  zone,       \* the DNS
  phase,      \* "idle", "term", "mx" or "done"
  sender,     \* the domain of MAIL FROM, which Check is called with
  ip, dom,    \* evaluate's arguments: the client, the domain,
  rec, depth, \* the terms of its record and the nesting depth
  pos,        \* the next term of evaluate's loop
  hosts,      \* matchMX: the hosts still to be looked up
  result,     \* the verdict
  failed      \* history: a lookup returned an error

spfVars == <<zone, phase, sender, ip, dom, rec, depth, pos, hosts, result, failed>>

SpfInit ==
  /\ zone \in Zones
  /\ phase = "idle"
  /\ ip \in Clients /\ sender \in Names /\ dom = sender
  /\ rec = <<>> /\ depth = 0 /\ pos = 1 /\ hosts = <<>>
  /\ result = "none"
  /\ failed = FALSE
-----------------------------------------------------------------------------
(* Addresses.                                                              *)

IsV4(a) == Len(a) = Bytes4

\* Mutant: the mask of the last, partial byte is one bit too short.
cidrMatchShort(a, n, bits) ==
  /\ Len(a) = Len(n)
  /\ \/ bits <= 0
     \/ bits >= Len(a) * ByteBits /\ a = n
     \/ /\ bits > 0 /\ bits < Len(a) * ByteBits
        /\ \A k \in 1..(bits \div ByteBits) : a[k] = n[k]

\* Whole bytes first, then the leading bits of the next one.
cidrMatch(a, n, bits) ==
  /\ Len(a) = Len(n)
  /\ \/ bits <= 0
     \/ bits >= Len(a) * ByteBits /\ a = n
     \/ /\ bits > 0 /\ bits < Len(a) * ByteBits
        /\ \A k \in 1..(bits \div ByteBits) : a[k] = n[k]
        /\ LET k    == bits \div ByteBits + 1
               mask == Pow2[ByteBits - (bits % ByteBits)]
           IN  bits % ByteBits > 0 => a[k] \div mask = n[k] \div mask

\* A mechanism of the other family, or with a length out of range, is no match.
matchIP4(t) ==
  /\ IsV4(ip) /\ IsV4(t.net)
  /\ t.bits \in 0..(Bytes4 * ByteBits)
  /\ cidrMatch(ip, t.net, t.bits)
matchIP6(t) ==
  /\ ~IsV4(ip)
  /\ t.bits \in 0..(Len(ip) * ByteBits)
  /\ cidrMatch(ip, t.net, t.bits)
-----------------------------------------------------------------------------
(* The resolver: a lookup of a name without data is an error, as is any    *)
(* lookup the network fails.                                               *)

Addresses(d) == IF d \in Names THEN zone.addr[d] ELSE {}

\* lookupSPF: of the texts of a name, the ones that begin with v=spf1, of
\* which it takes the first.
SpfTexts(z, d) == {j \in DOMAIN z.txt[d] : z.txt[d][j].spf}
lookupSPF(z, d) == z.txt[d][Min(SpfTexts(z, d))].terms
-----------------------------------------------------------------------------
Verdicts == {"none", "pass", "fail", "softfail", "neutral", "temperror", "permerror"}

Finish(r) ==
  /\ phase' = "done" /\ result' = r
  /\ UNCHANGED <<rec, depth, pos, hosts>>

\* A lookup returns an error: the resolver gives up, or the name has no data.
LookupFails == Finish("temperror") /\ failed' = TRUE

\* evaluate begins with a record.
Enter(d, n) ==
  /\ dom' = d
  /\ IF n > MaxDepth
       THEN Finish("permerror")
       ELSE /\ phase' = "term" /\ depth' = n
            /\ rec' = lookupSPF(zone, d) /\ pos' = 1
            /\ UNCHANGED <<hosts, result>>

Check ==
  /\ phase = "idle"
  /\ \/ LookupFails /\ UNCHANGED dom
     \/ /\ zone.txt[dom] # <<>> /\ SpfTexts(zone, dom) = {}
        /\ Finish("none") /\ UNCHANGED <<dom, failed>>
     \/ SpfTexts(zone, dom) # {} /\ Enter(dom, 0) /\ UNCHANGED failed
  /\ UNCHANGED <<zone, sender, ip>>

Term == rec[pos]

\* The name that is looked up; "a:dom/24", "a/24", "clude:dom" are none.
LookedUp(t) ==
  CASE t.m = "a"           -> dom
    [] t.m \in {"a:", "A:"} -> t.dom
    [] OTHER               -> NoName

Verdict(q) == CASE q = "+" -> "pass" [] q = "-" -> "fail"
                [] q = "~" -> "softfail" [] q = "?" -> "neutral"

NextTerm == phase' = "term" /\ pos' = pos + 1 /\ UNCHANGED <<rec, depth, hosts, result>>

\* The first mechanism that matches decides, by its qualifier.
Decide(match) == IF match THEN Finish(Verdict(Term.q)) ELSE NextTerm

AtTerm(kinds) == phase = "term" /\ pos <= Len(rec) /\ Term.m \in kinds

Ignore ==
  /\ AtTerm(Ignored) /\ NextTerm
  /\ UNCHANGED <<zone, sender, ip, dom, failed>>

MatchText ==
  /\ AtTerm(ByText)
  /\ Decide(CASE Term.m = "all"  -> TRUE
              [] Term.m = "ip4:" -> matchIP4(Term)
              [] Term.m = "ip6:" -> matchIP6(Term))
  /\ UNCHANGED <<zone, sender, ip, dom, failed>>

\* matchA compares addresses; matchAWithCIDR, with "A:", prefixes.
MatchAddress ==
  /\ AtTerm(ByAddress)
  /\ \/ LookupFails
     \/ /\ Addresses(LookedUp(Term)) # {}
        /\ Decide(\E a \in Addresses(LookedUp(Term)) :
                    IF Term.m = "A:" THEN cidrMatch(ip, a, Term.bits) ELSE a = ip)
        /\ UNCHANGED failed
  /\ UNCHANGED <<zone, sender, ip, dom>>

\* The name whose hosts are meant.  "mx/" leaves what follows to
\* matchMXWithCIDR: the hosts of "24" in "mx/24", those of dom in "mx/dom/24".
Exchanged(t) == IF t.m = "mx" THEN dom ELSE t.dom

LookupMX ==
  /\ AtTerm(ByHosts)
  /\ \/ LookupFails
     \/ /\ Exchanged(Term) \in Names /\ zone.mx[Exchanged(Term)] # <<>>
        /\ phase' = "mx" /\ hosts' = zone.mx[Exchanged(Term)]
        /\ UNCHANGED <<rec, depth, pos, result, failed>>
  /\ UNCHANGED <<zone, sender, ip, dom>>

\* matchMX compares addresses, matchMXWithCIDR prefixes.
HostMatches(h) ==
  \E a \in Addresses(h) : IF Term.m = "mx" THEN a = ip ELSE cidrMatch(ip, a, Term.bits)

\* Mutant: an MX host that cannot be looked up matches.
MXHostOpen ==
  /\ phase = "mx"
  /\ \/ hosts = <<>> /\ Decide(FALSE) /\ UNCHANGED failed
     \/ /\ hosts # <<>>
        /\ failed' = TRUE
        /\ Decide(TRUE)
  /\ UNCHANGED <<zone, sender, ip, dom>>

\* The hosts one by one; one that cannot be looked up is passed over.
MXHost ==
  /\ phase = "mx"
  /\ \/ hosts = <<>> /\ Decide(FALSE) /\ UNCHANGED failed
     \/ /\ hosts # <<>>
        /\ IF HostMatches(Head(hosts))
             THEN Decide(TRUE)
             ELSE hosts' = Tail(hosts) /\ UNCHANGED <<phase, rec, depth, pos, result>>
        /\ UNCHANGED failed
     \/ /\ hosts # <<>>                              \* the lookup failed
        /\ hosts' = Tail(hosts) /\ failed' = TRUE
        /\ UNCHANGED <<phase, rec, depth, pos, result>>
  /\ UNCHANGED <<zone, sender, ip, dom>>

Redirects(terms) == {k \in DOMAIN terms : terms[k].m = "redirect="}
Target(terms) == terms[Min(Redirects(terms))].dom

\* Mutant: the nesting depth is not counted.
RedirectForever ==
  /\ phase = "term" /\ pos > Len(rec) /\ Redirects(rec) # {}
  /\ LET d == Target(rec)
     IN  IF d \notin Names THEN Finish("permerror") /\ UNCHANGED dom
         ELSE IF SpfTexts(zone, d) = {} THEN Finish("permerror") /\ UNCHANGED dom
         ELSE Enter(d, depth)
  /\ UNCHANGED <<zone, sender, ip, failed>>

\* No mechanism matched: the first redirect= takes over, at one more depth.
Redirect ==
  /\ phase = "term" /\ pos > Len(rec) /\ Redirects(rec) # {}
  /\ LET d == Target(rec)
     IN  \/ d = Empty /\ Finish("permerror") /\ UNCHANGED <<dom, failed>>
         \/ d # Empty /\ LookupFails /\ UNCHANGED dom
         \/ /\ d \in Names /\ zone.txt[d] # <<>> /\ SpfTexts(zone, d) = {}
            /\ Finish("permerror") /\ UNCHANGED <<dom, failed>>
         \/ /\ d \in Names /\ SpfTexts(zone, d) # {}
            /\ Enter(d, depth + 1) /\ UNCHANGED failed
  /\ UNCHANGED <<zone, sender, ip>>

NoMatch ==
  /\ phase = "term" /\ pos > Len(rec) /\ Redirects(rec) = {}
  /\ Finish("neutral")
  /\ UNCHANGED <<zone, sender, ip, dom, failed>>

SpfNext ==
  \/ Check \/ Ignore \/ MatchText \/ MatchAddress \/ LookupMX \/ MXHost
  \/ Redirect \/ NoMatch

\* Every lookup returns, if only because the resolver gives up.
SpfSpec == SpfInit /\ [][SpfNext]_spfVars /\ WF_spfVars(SpfNext)
-----------------------------------------------------------------------------
(* What RFC 7208 says, as a reference, of the records that the code reads  *)
(* as the RFC does.                                                        *)

Bit(a, k) == (a[(k - 1) \div ByteBits + 1] \div Pow2[ByteBits - 1 - ((k - 1) % ByteBits)]) % 2

\* The first `bits` bits of two addresses of one family are the same.
SamePrefix(a, n, bits) == Len(a) = Len(n) /\ \A k \in 1..bits : Bit(a, k) = Bit(n, k)

InRange(t) == t.bits \in 0..(Len(t.net) * ByteBits)

\* Terms the code takes for what they are, and whose syntax is right.  It does
\* not so take "include:", "exists:", "mx:", any length after "a" or "mx", and
\* any name in upper case; "ptr" it ignores.
TermOK(t) ==
  /\ t.m \in {"all", "ip4:", "ip6:", "a", "a:", "mx"} \cup Modifiers
  /\ t.m = "ip4:" => IsV4(t.net) /\ InRange(t)
  /\ t.m = "ip6:" => ~IsV4(t.net) /\ InRange(t)
  /\ t.m \in {"a:", "redirect="} => t.dom \in Names

\* A record of such terms that has each modifier once at most (section 6).
RecordOK(terms) ==
  /\ \A k \in DOMAIN terms : TermOK(terms[k])
  /\ \A j, k \in DOMAIN terms : terms[j].m = terms[k].m /\ terms[j].m \in Modifiers => j = k

\* A name has one SPF text at most (4.5), and no more hosts than may be looked
\* up (4.6.4).
WellFormed(z) ==
  \A d \in Names :
    /\ Cardinality(SpfTexts(z, d)) <= 1 /\ Len(z.mx[d]) <= MaxLookups
    /\ \A j \in DOMAIN z.txt[d] : RecordOK(z.txt[d][j].terms)

\* Whether a term of d's record matches the client c.
RfcMatches(z, c, d, t) ==
  CASE t.m = "all" -> TRUE
    [] t.m \in {"ip4:", "ip6:"} -> SamePrefix(c, t.net, t.bits)
    [] t.m = "a"  -> c \in z.addr[d]
    [] t.m = "a:" -> c \in z.addr[t.dom]
    [] t.m = "mx" -> \E k \in DOMAIN z.mx[d] : c \in z.addr[z.mx[d][k]]
    [] OTHER -> FALSE

RfcHits(z, c, d) == {k \in DOMAIN lookupSPF(z, d) : RfcMatches(z, c, d, lookupSPF(z, d)[k])}

\* The first mechanism that matches decides, else the redirect, with the
\* verdicts `inner` one level deeper.
RfcStep(z, c, inner) ==
  [d \in Names |->
     LET terms == lookupSPF(z, d)
         hits  == RfcHits(z, c, d)
     IN  IF SpfTexts(z, d) = {} THEN "permerror"
         ELSE IF hits # {} THEN Verdict(terms[Min(hits)].q)
         ELSE IF Redirects(terms) = {} THEN "neutral"
         ELSE IF Target(terms) \notin Names THEN "permerror" ELSE inner[Target(terms)]]

\* check_host for every name, with n levels of nesting left.
RfcLevels(z, c) ==
  LET V[n \in Nat] == IF n = 0 THEN [d \in Names |-> "permerror"] ELSE RfcStep(z, c, V[n - 1])
  IN  V
RfcVerdict(z, c, d) == RfcLevels(z, c)[MaxDepth + 1][d]

\* The lookups of 4.6.4 that lead to that verdict: one for each "a" and "mx"
\* up to the one that matches, and one for each redirect.
RfcCost(z, c, d, inner) ==
  LET terms == lookupSPF(z, d)
      hits  == RfcHits(z, c, d)
      tried == IF hits = {} THEN DOMAIN terms ELSE 1..Min(hits)
  IN  IF SpfTexts(z, d) = {} THEN 0
      ELSE Cardinality({k \in tried : terms[k].m \in {"a", "a:", "mx"}})
           + IF hits = {} /\ Redirects(terms) # {} /\ Target(terms) \in Names
               THEN 1 + inner[Target(terms)] ELSE 0
RfcLookups(z, c, d) ==
  LET L[n \in Nat] == IF n = 0 THEN [e \in Names |-> 0]
                      ELSE [e \in Names |-> RfcCost(z, c, e, L[n - 1])]
  IN  L[MaxDepth + 1][d]

\* The RFC's verdict is the reference's only within its limit, beyond which it
\* is permerror; the code's limit is on the nesting alone.
WithinLimit(z, c, d) == RfcLookups(z, c, d) <= MaxLookups
-----------------------------------------------------------------------------
(* Properties.                                                             *)

\* The term that matches first decides, as evaluate promises for RFC 7208: on
\* records that it reads as the RFC does, within the RFC's limit of lookups,
\* the verdict is the RFC's whatever the order of terms, networks and
\* redirects, unless a lookup returned an error.
Conforms ==
  /\ phase = "done" /\ ~failed
  /\ WellFormed(zone) /\ WithinLimit(zone, ip, sender)
  => result = IF SpfTexts(zone, sender) = {} THEN "none" ELSE RfcVerdict(zone, ip, sender)

PlainMX(z) ==
  \A d \in Names : \A j \in DOMAIN z.txt[d] : \A k \in DOMAIN z.txt[d][j].terms :
    z.txt[d][j].terms[k].m = "mx" => z.txt[d][j].terms[k].q = "+"

\* No failing lookup lets a client pass that the RFC does not: passing over an
\* MX host that cannot be looked up can only refuse one that it lets pass
\* (records that put another qualifier than + before mx aside).
GrantsOnlyWhatRfcGrants ==
  /\ phase = "done" /\ result = "pass"
  /\ WellFormed(zone) /\ WithinLimit(zone, ip, sender) /\ PlainMX(zone)
  => RfcVerdict(zone, ip, sender) = "pass"

\* A check comes to a verdict, also where records redirect to each other in
\* a circle.
Terminates == <>(phase = "done")
-----------------------------------------------------------------------------
(* The inductive invariant.                                                *)

SpfTypeOK ==
  /\ zone \in Dns /\ ip \in Address /\ sender \in Names /\ dom \in Names
  /\ phase \in {"idle", "term", "mx", "done"}
  /\ rec \in Seq(TermOf) /\ depth \in 0..MaxDepth /\ pos \in 1..(Len(rec) + 1)
  /\ hosts \in Seq(Names)
  /\ result \in Verdicts
  /\ failed \in BOOLEAN

\* evaluate works on the record of its domain, and was called for a sender
\* that has one.
RecordInv ==
  /\ phase = "idle" => dom = sender
  /\ phase \in {"term", "mx"} =>
       /\ SpfTexts(zone, sender) # {} /\ SpfTexts(zone, dom) # {}
       /\ rec = lookupSPF(zone, dom)

\* The RFC's verdict on the sender is its verdict on the domain and at the
\* depth evaluate has come to, and none of the terms behind it matches.
OnTrack ==
  /\ RfcVerdict(zone, ip, sender) = RfcLevels(zone, ip)[MaxDepth + 1 - depth][dom]
  /\ \A k \in RfcHits(zone, ip, dom) : k >= pos

\* evaluate leaves the track only where an MX host was passed over.
LoopInv ==
  phase \in {"term", "mx"} /\ WellFormed(zone) =>
    OnTrack \/ (failed /\ (PlainMX(zone) => RfcVerdict(zone, ip, sender) = "pass"))

\* A host of the mx term that has the client's address is still to come,
\* unless a host was passed over.
HostsInv ==
  phase = "mx" =>
    /\ pos <= Len(rec) /\ rec[pos].m \in ByHosts
    /\ rec[pos].m = "mx" =>
         /\ \A i \in DOMAIN hosts : \E k \in DOMAIN zone.mx[dom] : hosts[i] = zone.mx[dom][k]
         /\ \/ failed
            \/ \A k \in DOMAIN zone.mx[dom] :
                 ip \in zone.addr[zone.mx[dom][k]] =>
                   \E i \in DOMAIN hosts : hosts[i] = zone.mx[dom][k]

SpfInv ==
  SpfTypeOK /\ RecordInv /\ LoopInv /\ HostsInv /\ Conforms /\ GrantsOnlyWhatRfcGrants

\* What every step brings nearer: the verdict, the next record, the next term
\* or the next host.  depth, pos and hosts are bounded by SpfTypeOK.
StepsForward ==
  \/ phase = "idle" /\ phase' # "idle"
  \/ phase \in {"term", "mx"} /\ phase' = "done"
  \/ phase = "term" /\ phase' = "term" /\ depth' = depth + 1
  \/ phase \in {"term", "mx"} /\ phase' = "term" /\ pos' = pos + 1 /\ UNCHANGED <<depth, rec>>
  \/ phase = "term" /\ phase' = "mx" /\ UNCHANGED <<depth, rec, pos>>
  \/ /\ phase = "mx" /\ phase' = "mx" /\ UNCHANGED <<depth, rec, pos>>
     /\ Len(hosts') = Len(hosts) - 1
=============================================================================
