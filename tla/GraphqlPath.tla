----------------------------- MODULE GraphqlPath -----------------------------
(***************************************************************************)
(* The way of a GraphQL operation: CachingExecutor                         *)
(* (src/graphql/snapshot-cache.ts) around UnraidClient                     *)
(* (src/graphql/client.ts) around one HTTP request with a deadline         *)
(* (src/graphql/execute.ts), and the Unraid API at the other end, of which *)
(* only a version is kept: a mutation that takes effect makes a new one, a *)
(* query answers with the version it found.                                *)
(*                                                                         *)
(* Readers run a cacheable query again and again, for one cache key; each  *)
(* writer runs one mutation.  A request that the client gave up on may     *)
(* still take effect later.  Time is ticks of the cache entry's age.       *)
(***************************************************************************)
EXTENDS Integers, FiniteSets

CONSTANTS
  Readers, Writers,
  MaxQueryRetries,     \* MAX_QUERY_RETRIES
  MaxMutationRetries,  \* MAX_MUTATION_RETRIES
  TTL,                 \* SNAPSHOT_TTL_MS, in ticks
  NoEntry              \* the key is not in the cache

ASSUME DisjointAssumption == Readers \intersect Writers = {}
ASSUME BoundsAssumption ==
  MaxQueryRetries \in Nat /\ MaxMutationRetries \in Nat /\ TTL \in Nat

Calls == Readers \union Writers

VARIABLES
  version,  \* the Unraid server's state
  applied,  \* history: how often each writer's mutation took effect
  lost,     \* requests of writers the client gave up on, not yet processed
  pc,       \* where each call is
  attempt,  \* the loop counter of UnraidClient.execute
  reply,    \* what came back: [kind, version]
  cache,    \* the key's snapshot: [version, age, raced]
  settled,  \* history: version when the latest mutation returned
  raced     \* history: readers during whose fetch a mutation returned

vars == <<version, applied, lost, pc, attempt, reply, cache, settled, raced>>
server == <<version, applied, lost>>
caching == <<cache, settled, raced>>

Stage == {"idle", "limiter", "sent", "answered", "backoff", "done"}

(* ok: data; graphql: errors or null data; the others are HTTP statuses, or*)
(* a request that failed or timed out before its answer was read.          *)
Outcome == {"none", "ok", "graphql", "429", "5xx", "4xx", "transport"}

NoReply == [kind |-> "none", version |-> 0]
Entry == [version : Nat, age : Nat, raced : BOOLEAN]

Init ==
  /\ version = 0
  /\ applied = [w \in Writers |-> 0]
  /\ lost = {}
  /\ pc = [c \in Calls |-> "idle"]
  /\ attempt = [c \in Calls |-> 0]
  /\ reply = [c \in Calls |-> NoReply]
  /\ cache = NoEntry
  /\ settled = 0
  /\ raced = {}

-----------------------------------------------------------------------------
(* retryPolicyFor, isRetryable                                             *)

MaxRetries(c) == IF c \in Readers THEN MaxQueryRetries ELSE MaxMutationRetries

RetriesEveryError(c, kind) == kind \in {"429", "5xx", "transport"}  \* fault

IsRetryable(c, kind) ==
  \/ kind = "429"
  \/ c \in Readers /\ kind \in {"5xx", "transport"}

-----------------------------------------------------------------------------
(* CachingExecutor.execute                                                 *)

EntryIsLive == cache # NoEntry /\ cache.age <= TTL

(* A live snapshot is served and the call returns at once: no state moves, *)
(* so a hit is not an action.  Otherwise the inner executor is called.     *)
ReadMiss(r) ==
  /\ pc[r] = "idle"
  /\ ~EntryIsLive
  /\ pc' = [pc EXCEPT ![r] = "limiter"]
  /\ UNCHANGED <<server, attempt, reply, caching>>

StartWrite(w) ==
  /\ pc[w] = "idle"
  /\ pc' = [pc EXCEPT ![w] = "limiter"]
  /\ UNCHANGED <<server, attempt, reply, caching>>

StoresEnvelope(r, ok) ==  \* fault: the response is stored, not a cache entry
  /\ r \in Readers
  /\ pc' = [pc EXCEPT ![r] = "idle"]
  /\ cache' = IF ok THEN reply[r] ELSE cache
  /\ raced' = raced \ {r}
  /\ UNCHANGED settled

ReadReturns(r, ok) ==
  /\ r \in Readers
  /\ pc' = [pc EXCEPT ![r] = "idle"]
  /\ cache' = IF ok
              THEN [version |-> reply[r].version, age |-> 0, raced |-> r \in raced]
              ELSE cache
  /\ raced' = raced \ {r}
  /\ UNCHANGED settled

InFlight == {r \in Readers : pc[r] # "idle"}

ClearsOnSuccess(w, ok) ==  \* fault: clear() after the await, not in finally
  /\ w \in Writers
  /\ pc' = [pc EXCEPT ![w] = "done"]
  /\ cache' = IF ok THEN NoEntry ELSE cache
  /\ settled' = version
  /\ raced' = raced \union InFlight

(* executeUncached: the finally clears every snapshot, also after a failure*)
WriteReturns(w, ok) ==
  /\ w \in Writers
  /\ ok \in BOOLEAN
  /\ pc' = [pc EXCEPT ![w] = "done"]
  /\ cache' = NoEntry
  /\ settled' = version
  /\ raced' = raced \union InFlight

(* execute() returns or throws, and its locals are gone.                   *)
Returns(c, ok) ==
  /\ ReadReturns(c, ok) \/ WriteReturns(c, ok)
  /\ attempt' = [attempt EXCEPT ![c] = 0]

-----------------------------------------------------------------------------
(* UnraidClient.execute                                                    *)

(* limiter.acquire grants a token: the request goes out.                   *)
Send(c) ==
  /\ pc[c] = "limiter"
  /\ pc' = [pc EXCEPT ![c] = "sent"]
  /\ UNCHANGED <<server, attempt, reply, caching>>

(* limiter.acquire throws outside the try: the call fails without a retry. *)
LimiterThrows(c) ==
  /\ pc[c] = "limiter"
  /\ Returns(c, FALSE)
  /\ UNCHANGED <<server, reply>>

CountsNothing(c, kind) ==  \* fault: `attempt` is not advanced
  /\ pc' = [pc EXCEPT ![c] = "backoff"]
  /\ UNCHANGED <<attempt, caching>>

(* delayBeforeRetry with budget left: sleep.                               *)
Backoff(c, kind) ==
  /\ pc' = [pc EXCEPT ![c] = "backoff"]
  /\ attempt' = [attempt EXCEPT ![c] = @ + 1]
  /\ UNCHANGED caching

(* An attempt ends: return, retry or rethrow.                              *)
Settle(c, kind) ==
  \/ /\ kind = "ok"
     /\ Returns(c, TRUE)
  \/ /\ kind # "ok"
     /\ attempt[c] >= MaxRetries(c) \/ ~IsRetryable(c, kind)
     /\ Returns(c, FALSE)
  \/ /\ kind # "ok"
     /\ attempt[c] < MaxRetries(c) /\ IsRetryable(c, kind)
     /\ Backoff(c, kind)

Answered(c) ==
  /\ pc[c] = "answered"
  /\ Settle(c, reply[c].kind)
  /\ reply' = [reply EXCEPT ![c] = NoReply]
  /\ UNCHANGED server

(* The request fails, or its deadline passes, before an answer is read.    *)
(* If the server has not processed it, it may still do so later.           *)
TransportFails(c) ==
  /\ pc[c] \in {"sent", "answered"}
  /\ Settle(c, "transport")
  /\ reply' = [reply EXCEPT ![c] = NoReply]
  /\ lost' = IF c \in Writers /\ pc[c] = "sent" THEN lost \union {c} ELSE lost
  /\ UNCHANGED <<version, applied>>

RetryNow(c) ==
  /\ pc[c] = "backoff"
  /\ pc' = [pc EXCEPT ![c] = "limiter"]
  /\ UNCHANGED <<server, attempt, reply, caching>>

-----------------------------------------------------------------------------
(* The Unraid API (external)                                               *)

Reply(c, kind, v) ==
  /\ pc' = [pc EXCEPT ![c] = "answered"]
  /\ reply' = [reply EXCEPT ![c] = [kind |-> kind, version |-> v]]
  /\ UNCHANGED <<lost, attempt, caching>>

(* A request that is not admitted, or fails, without any effect.           *)
ServerRefuses(c) ==
  /\ pc[c] = "sent"
  /\ \E kind \in {"429", "5xx", "4xx", "graphql"} : Reply(c, kind, 0)
  /\ UNCHANGED <<version, applied>>

ServerReads(r) ==
  /\ pc[r] = "sent"
  /\ Reply(r, "ok", version)
  /\ UNCHANGED <<version, applied>>

(* A mutation takes effect; the answer may be an error all the same.       *)
ServerApplies(w) ==
  /\ pc[w] = "sent"
  /\ version' = version + 1
  /\ applied' = [applied EXCEPT ![w] = @ + 1]
  /\ \E kind \in {"ok", "5xx", "graphql"} : Reply(w, kind, version')

ServerAppliesLost(w) ==
  /\ w \in lost
  /\ lost' = lost \ {w}
  /\ version' = version + 1
  /\ applied' = [applied EXCEPT ![w] = @ + 1]
  /\ UNCHANGED <<pc, attempt, reply, caching>>

(* Time passes for the snapshot; beyond TTL its age makes no difference.   *)
Tick ==
  /\ EntryIsLive
  /\ cache' = [cache EXCEPT !.age = @ + 1]
  /\ UNCHANGED <<server, pc, attempt, reply, settled, raced>>

-----------------------------------------------------------------------------
ClientStep(c) ==
  Send(c) \/ LimiterThrows(c) \/ Answered(c) \/ TransportFails(c) \/ RetryNow(c)

Next ==
  \/ \E r \in Readers : ReadMiss(r) \/ ServerReads(r)
  \/ \E w \in Writers : StartWrite(w) \/ ServerApplies(w) \/ ServerAppliesLost(w)
  \/ \E c \in Calls : ClientStep(c) \/ ServerRefuses(c)
  \/ Tick

Spec == Init /\ [][Next]_vars

(* The limiter answers, a request is answered or meets its deadline, a     *)
(* backoff sleep ends: timers and promises of the Node.js event loop.      *)
FairSpec == Spec /\ \A c \in Calls : WF_vars(ClientStep(c))

-----------------------------------------------------------------------------
(* Every variable has its type.                                            *)
TypeOK ==
  /\ version \in Nat
  /\ applied \in [Writers -> Nat]
  /\ lost \subseteq Writers
  /\ pc \in [Calls -> Stage]
  /\ attempt \in [Calls -> Nat]
  /\ reply \in [Calls -> [kind : Outcome, version : Nat]]
  /\ cache = NoEntry \/ cache \in Entry
  /\ settled \in Nat
  /\ raced \subseteq Readers

(* One execute() of a mutation takes effect at most once: it is retried    *)
(* only after a 429, when the request was never admitted.                  *)
MutationAtMostOnce == \A w \in Writers : applied[w] <= 1

(* "that read must never be served from a pre-mutation cache entry"        *)
(* (snapshot-cache.ts, executeUncached): once a mutation has returned, the *)
(* snapshot a read would be served is not older than the mutation.         *)
NoPreMutationSnapshot == EntryIsLive => cache.version >= settled

(* Where a mutation's request may still take effect, it has not done so    *)
(* yet: the inductive form of MutationAtMostOnce.                          *)
OnceInv ==
  \A w \in Writers :
    /\ applied[w] <= 1
    /\ pc[w] \in {"idle", "limiter", "sent", "backoff"} =>
         applied[w] = 0 /\ w \notin lost
    /\ pc[w] = "answered" =>
         w \notin lost /\ (reply[w].kind = "429" => applied[w] = 0)
    /\ w \in lost => applied[w] = 0

(* What the code does guarantee: only a snapshot whose fetch was already   *)
(* under way when a mutation returned can be older than that mutation.     *)
PreMutationOnlyIfRaced ==
  cache # NoEntry /\ ~cache.raced => cache.version >= settled

(* Every call returns: no operation hangs or retries for ever.             *)
EveryCallReturns ==
  \A c \in Calls : pc[c] \notin {"idle", "done"} ~> pc[c] \in {"idle", "done"}
=============================================================================
