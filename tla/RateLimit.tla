----------------------------- MODULE RateLimit -----------------------------
(***************************************************************************)
(* The token buckets of pkg/ratelimit/ratelimit.go, which limit the        *)
(* connections each address may open to the SMTP server.                   *)
(*                                                                         *)
(* Tokens are counted in parts, Unit of them to a token, so that the       *)
(* refill of a tick of 100 ms is a whole number.  Everything that touches  *)
(* the buckets holds the mutex throughout and is one step; the two loops   *)
(* run whenever the scheduler lets them.  The refill loop receives a tick  *)
(* before it asks for the mutex, so that while it waits for it the next    *)
(* tick may be in the channel already.                                     *)
(***************************************************************************)
EXTENDS Integers

CONSTANTS
  Addresses,
  Unit,         \* parts of a token
  Burst,        \* tokens of a full bucket
  PerTick,      \* parts a tick of the refill loop adds
  IdleTicks     \* ticks in the ten minutes after which a bucket is dropped

ASSUME SizeAssumption ==
  Unit \in Nat \ {0} /\ Burst \in Nat /\ PerTick \in Nat /\ IdleTicks \in Nat

Cap == Burst * Unit

VARIABLES
  tokens,       \* bucket.tokens, None for an address without a bucket
  idle,         \* ticks since bucket.lastSeen, up to IdleTicks
  due,          \* a tick in the channel of the refill loop's ticker
  got,          \* the refill loop has received one and waits for the mutex
  stopped,      \* Stop was called
  loops,        \* the goroutines that still run
  meter         \* history: parts an address has used, less PerTick a tick

limiterVars == <<tokens, idle, due, got, stopped, loops, meter>>

None  == -1
Loops == {"refill", "cleanup"}
AtMost(n, limit) == IF n > limit THEN limit ELSE n
Less(n, d) == IF n > d THEN n - d ELSE 0

LimiterTypeOK ==
  /\ tokens \in [Addresses -> None..Cap]
  /\ idle \in [Addresses -> 0..IdleTicks]
  /\ due \in BOOLEAN /\ got \in BOOLEAN /\ stopped \in BOOLEAN
  /\ loops \subseteq Loops
  /\ meter \in [Addresses -> Nat]

\* New.
LimiterInit ==
  /\ tokens = [a \in Addresses |-> None]
  /\ idle = [a \in Addresses |-> 0]
  /\ due = FALSE /\ got = FALSE /\ stopped = FALSE
  /\ loops = Loops
  /\ meter = [a \in Addresses |-> 0]

\* Allow creates a full bucket for an address that has none.
Level(a) == IF tokens[a] = None THEN Cap ELSE tokens[a]

\* Mutant: a refused address loses what it has saved up.
AllowDrains(a) ==
  /\ \/ /\ Level(a) >= Unit
        /\ tokens' = [tokens EXCEPT ![a] = Level(a) - Unit]
        /\ meter' = [meter EXCEPT ![a] = @ + Unit]
     \/ /\ Level(a) < Unit
        /\ tokens' = [tokens EXCEPT ![a] = 0]
        /\ UNCHANGED meter
  /\ idle' = [idle EXCEPT ![a] = 0]
  /\ UNCHANGED <<due, got, stopped, loops>>

\* Allow, for NewSession: a whole token is taken, or the address is refused.
Allow(a) ==
  /\ \/ /\ Level(a) >= Unit
        /\ tokens' = [tokens EXCEPT ![a] = Level(a) - Unit]
        /\ meter' = [meter EXCEPT ![a] = @ + Unit]
     \/ /\ Level(a) < Unit
        /\ tokens' = [tokens EXCEPT ![a] = Level(a)]
        /\ UNCHANGED meter
  /\ idle' = [idle EXCEPT ![a] = 0]
  /\ UNCHANGED <<due, got, stopped, loops>>

\* 100 ms pass.  A tick the refill loop has not come to yet takes the only
\* place in the channel: the new one is dropped.
LimiterTick ==
  /\ due' = TRUE
  /\ idle' = [a \in Addresses |-> AtMost(idle[a] + 1, IdleTicks)]
  /\ meter' = [a \in Addresses |-> Less(meter[a], PerTick)]
  /\ UNCHANGED <<tokens, got, stopped, loops>>

\* refillLoop takes the tick out of the channel, and refills once it has the
\* mutex.
Receive ==
  /\ due /\ ~got /\ "refill" \in loops
  /\ due' = FALSE /\ got' = TRUE
  /\ UNCHANGED <<tokens, idle, stopped, loops, meter>>
Refill ==
  /\ got /\ got' = FALSE
  /\ tokens' = [a \in Addresses |->
       IF tokens[a] = None THEN None ELSE AtMost(tokens[a] + PerTick, Cap)]
  /\ UNCHANGED <<idle, due, stopped, loops, meter>>

\* Mutant: a bucket is dropped after one tick.
CleanupEarly ==
  /\ "cleanup" \in loops
  /\ tokens' = [a \in Addresses |-> IF idle[a] >= 1 THEN None ELSE tokens[a]]
  /\ UNCHANGED <<idle, due, got, stopped, loops, meter>>

\* cleanupLoop: buckets that nobody has asked for in ten minutes are dropped.
Cleanup ==
  /\ "cleanup" \in loops
  /\ tokens' = [a \in Addresses |-> IF idle[a] >= IdleTicks THEN None ELSE tokens[a]]
  /\ UNCHANGED <<idle, due, got, stopped, loops, meter>>

\* Stop, and the loops that see it.
Stop ==
  /\ ~stopped /\ stopped' = TRUE
  /\ UNCHANGED <<tokens, idle, due, got, loops, meter>>
LeaveLoop(l) ==
  /\ stopped /\ l \in loops
  /\ l = "refill" => ~got
  /\ loops' = loops \ {l}
  /\ UNCHANGED <<tokens, idle, due, got, stopped, meter>>

LimiterNext ==
  \/ \E a \in Addresses : Allow(a)
  \/ LimiterTick \/ Receive \/ Refill \/ Cleanup \/ Stop
  \/ \E l \in Loops : LeaveLoop(l)

LimiterSpec == LimiterInit /\ [][LimiterNext]_limiterVars

\* Time passes and the refill loop gets its turn.
FairLimiterSpec ==
  /\ LimiterSpec
  /\ WF_limiterVars(LimiterTick) /\ WF_limiterVars(Receive) /\ WF_limiterVars(Refill)
-----------------------------------------------------------------------------
(* Properties.                                                             *)

\* Ten minutes fill a bucket, with the two refills that may be under way.
\* Nothing in the configuration sees to it.
FillsWhileIdle == PerTick * IdleTicks >= Cap + 2 * PerTick

\* If ten minutes fill a bucket, what an address has used, drained by PerTick
\* a tick, stays within a full bucket and two refills: any n ticks admit at
\* most Burst connections and what n + 2 refills give, although refills come
\* late, ticks are dropped and an idle bucket is replaced by a full one.
RateBound == FillsWhileIdle => \A a \in Addresses : meter[a] <= Cap + 2 * PerTick

\* Nobody is shut out for good: while the limiter runs, an address has a whole
\* token, or a full bucket waiting, again and again, however often it asks
\* in vain.
NeverStarved == \A a \in Addresses : []<>(stopped \/ Level(a) >= Unit)
-----------------------------------------------------------------------------
\* What makes RateBound inductive: tokens and meter together, with the refills
\* that are not under way, how far an idle
\* address's meter has drained, and that nobody without a bucket has used any.
Allowance == Cap + (IF due THEN 0 ELSE PerTick) + (IF got THEN 0 ELSE PerTick)
MeterInv ==
  FillsWhileIdle =>
    \A a \in Addresses :
      /\ tokens[a] # None => tokens[a] + meter[a] <= Allowance
      /\ tokens[a] = None => meter[a] = 0
      /\ meter[a] = 0 \/ meter[a] + PerTick * idle[a] <= Cap + 2 * PerTick

\* Behind NeverStarved: an address loses what it has saved only for a
\* connection that is let in, a whole token each time, and a refill adds to it
\* until the bucket is full.
SavingsKept ==
  [][\A a \in Addresses :
       /\ \/ Level(a)' >= Level(a)
          \/ Level(a) >= Unit /\ Level(a)' = Level(a) - Unit
       /\ got /\ ~got' => Level(a)' = AtMost(Level(a) + PerTick, Cap)]_limiterVars
=============================================================================
