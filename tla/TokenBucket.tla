----------------------------- MODULE TokenBucket -----------------------------
(***************************************************************************)
(* TokenBucket (src/graphql/rate-limit.ts): the client-side rate limiter   *)
(* in front of every GraphQL request.  A token is TokenTime units and one  *)
(* unit is refilled per tick of the clock, so that fractions of a token    *)
(* are kept exactly.  The host's clock may be set back.                    *)
(***************************************************************************)
EXTENDS Integers, FiniteSets

CONSTANTS
  Callers,    \* concurrent calls of acquire()
  Capacity,   \* BUCKET_CAPACITY, in tokens
  TokenTime,  \* ticks for one token: 1 / REFILL_PER_SECOND
  MaxWait,    \* DEFAULT_MAX_WAIT_MS, in ticks
  Window,     \* the server's throttle window, in ticks
  Limit,      \* requests the server admits per window
  MaxBack     \* bound on how far the clock is set back, in ticks

ASSUME BucketAssumption ==
  /\ IsFiniteSet(Callers)
  /\ Capacity \in Nat \ {0} /\ TokenTime \in Nat \ {0}
  /\ MaxWait \in Nat /\ Window \in Nat \ {0} /\ Limit \in Nat /\ MaxBack \in Nat

VARIABLES
  tokens,   \* in units
  elapsed,  \* now - lastRefillMs, by the host's clock
  waiting,  \* ticks each sleeping caller has left, or Awake
  setBack,  \* how far the clock was set back
  recent    \* history: requests granted in the last so many ticks, up to Window

vars == <<tokens, elapsed, waiting, setBack, recent>>

Awake == -1
Full == Capacity * TokenTime

Init ==
  /\ tokens = Full
  /\ elapsed = 0
  /\ waiting = [c \in Callers |-> Awake]
  /\ setBack = 0
  /\ recent = [k \in 1..Window |-> 0]

Least(a, b) == IF a < b THEN a ELSE b

(* Not bounded from below.                                                 *)
Refilled == Least(Full, tokens + elapsed)

Granted == recent' = [k \in 1..Window |-> recent[k] + 1]

KeepsRefillTime == elapsed' = elapsed  \* fault: lastRefillMs is not moved

(* refill() ends by moving lastRefillMs to now.                            *)
MarkRefill == elapsed' = 0

(* A token is there.                                                       *)
AcquireNow(c) ==
  /\ waiting[c] = Awake
  /\ Refilled >= TokenTime
  /\ tokens' = Refilled - TokenTime
  /\ MarkRefill
  /\ Granted
  /\ UNCHANGED <<waiting, setBack>>

(* msUntilNextToken                                                        *)
UntilNextToken == TokenTime - Refilled

AcquireSleeps(c) ==
  /\ waiting[c] = Awake
  /\ Refilled < TokenTime
  /\ UntilNextToken <= MaxWait
  /\ tokens' = Refilled
  /\ MarkRefill
  /\ waiting' = [waiting EXCEPT ![c] = UntilNextToken]
  /\ UNCHANGED <<setBack, recent>>

AcquireThrows(c) ==
  /\ waiting[c] = Awake
  /\ Refilled < TokenTime
  /\ UntilNextToken > MaxWait
  /\ tokens' = Refilled
  /\ MarkRefill
  /\ UNCHANGED <<waiting, setBack, recent>>

GoesNegative(n) == n  \* fault: without Math.max

AtLeastZero(n) == IF n < 0 THEN 0 ELSE n

(* The sleep is over: the token is taken whether or not it is there.       *)
Wake(c) ==
  /\ waiting[c] = 0
  /\ tokens' = AtLeastZero(Refilled - TokenTime)
  /\ MarkRefill
  /\ waiting' = [waiting EXCEPT ![c] = Awake]
  /\ Granted
  /\ UNCHANGED setBack

(* A timer may fire late.  More than fills the bucket, also when the clock *)
(* is set back afterwards, need not be told apart.                         *)
Tick ==
  /\ elapsed' = Least(Full + MaxBack, elapsed + 1)
  /\ waiting' = [c \in Callers |->
                   IF waiting[c] > 0 THEN waiting[c] - 1 ELSE waiting[c]]
  /\ recent' = [k \in 1..Window |-> IF k = 1 THEN 0 ELSE recent[k - 1]]
  /\ UNCHANGED <<tokens, setBack>>

(* Date.now() goes back; timers and the server do not.                     *)
ClockSetBack(ticks) ==
  /\ setBack + ticks <= MaxBack
  /\ setBack' = setBack + ticks
  /\ elapsed' = elapsed - ticks
  /\ UNCHANGED <<tokens, waiting, recent>>

Next ==
  \/ \E c \in Callers :
       AcquireNow(c) \/ AcquireSleeps(c) \/ AcquireThrows(c) \/ Wake(c)
  \/ Tick
  \/ \E ticks \in 1..MaxBack : ClockSetBack(ticks)

Spec == Init /\ [][Next]_vars

InWindow == recent[Window]

-----------------------------------------------------------------------------
(* The bucket is never overfull, and overdrawn by no more than the clock   *)
(* was set back, so that the callers who are then refused are admitted     *)
(* again after that time (refill, acquire).                                *)
TypeOK ==
  /\ setBack \in 0..MaxBack
  /\ tokens \in -setBack..Full
  /\ elapsed \in -setBack..Full + MaxBack
  /\ tokens + elapsed >= -setBack
  /\ waiting \in [Callers -> {Awake} \union 0..MaxWait]
  /\ recent \in [1..Window -> Nat]

TokenTimes == (Window + TokenTime - 1) \div TokenTime

(* What the bucket does bound: within a window, fewer requests than its    *)
(* capacity plus one per token time for EACH caller, since every sleeper   *)
(* is granted when it wakes.                                               *)
WindowBound == InWindow < Capacity + Cardinality(Callers) * TokenTimes

(* "so a chatty agent cannot get the user's key rate-limited": no window   *)
(* of the server sees more requests than it admits.                        *)
NeverThrottled == InWindow <= Limit
=============================================================================
