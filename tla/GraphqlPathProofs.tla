-------------------------- MODULE GraphqlPathProofs --------------------------
(***************************************************************************)
(* Proofs, for any readers, writers and retry budgets, that one execute()  *)
(* of a mutation takes effect at most once, and that only a raced fetch    *)
(* leaves a snapshot older than a mutation that has returned.              *)
(***************************************************************************)
EXTENDS GraphqlPath, TLAPS

(* The types the argument needs.                                           *)
Types ==
  /\ applied \in [Writers -> Nat]
  /\ lost \subseteq Writers
  /\ pc \in [Calls -> Stage]
  /\ reply \in [Calls -> [kind : Outcome, version : Nat]]
  /\ version \in Nat

LEMMA TypesInit == Init => Types
BY DEF Init, Types, Stage, Outcome, NoReply

(* A call that returns or retries only moves its own pc.                   *)
LEMMA SettleMoves ==
  ASSUME Types, NEW c \in Calls, NEW kind, Settle(c, kind)
  PROVE  \E s \in {"idle", "done", "backoff"} : pc' = [pc EXCEPT ![c] = s]
<1>1. CASE Returns(c, TRUE) \/ Returns(c, FALSE)
  BY <1>1 DEF Returns, ReadReturns, WriteReturns
<1>2. CASE Backoff(c, kind)
  BY <1>2 DEF Backoff
<1> QED
  BY <1>1, <1>2 DEF Settle

(* A mutation goes on only after a 429; otherwise it is done.              *)
LEMMA WriterSettles ==
  ASSUME Types, NEW w \in Writers, NEW kind, Settle(w, kind)
  PROVE  \/ pc' = [pc EXCEPT ![w] = "done"]
         \/ kind = "429" /\ pc' = [pc EXCEPT ![w] = "backoff"]
<1>1. w \notin Readers
  BY DisjointAssumption
<1>2. CASE Returns(w, TRUE) \/ Returns(w, FALSE)
  BY <1>1, <1>2 DEF Returns, ReadReturns, WriteReturns
<1>3. CASE IsRetryable(w, kind) /\ Backoff(w, kind)
  BY <1>1, <1>3 DEF IsRetryable, Backoff
<1> QED
  BY <1>2, <1>3 DEF Settle

LEMMA TypesStep == Types /\ [Next]_vars => Types'
<1> SUFFICES ASSUME Types, [Next]_vars PROVE Types'
  OBVIOUS
<1> USE DEF Types, server, caching
<1>1. ASSUME NEW r \in Readers, ReadMiss(r) PROVE Types'
  BY <1>1 DEF ReadMiss, Stage, Calls
<1>2. ASSUME NEW w \in Writers, StartWrite(w) PROVE Types'
  BY <1>2 DEF StartWrite, Stage, Calls
<1>3. ASSUME NEW c \in Calls, Send(c) \/ RetryNow(c) PROVE Types'
  BY <1>3 DEF Send, RetryNow, Stage
<1>4. ASSUME NEW c \in Calls, LimiterThrows(c) PROVE Types'
  BY <1>4 DEF LimiterThrows, Returns, ReadReturns, WriteReturns, Stage
<1>5. ASSUME NEW c \in Calls, Answered(c) PROVE Types'
  <2>1. pc' \in [Calls -> Stage]
    BY <1>5, SettleMoves DEF Answered, Stage
  <2>2. reply' \in [Calls -> [kind : Outcome, version : Nat]]
    BY <1>5 DEF Answered, NoReply, Outcome
  <2> QED
    BY <1>5, <2>1, <2>2 DEF Answered
<1>6. ASSUME NEW c \in Calls, TransportFails(c) PROVE Types'
  <2>1. pc' \in [Calls -> Stage]
    BY <1>6, SettleMoves DEF TransportFails, Stage
  <2>2. reply' \in [Calls -> [kind : Outcome, version : Nat]]
    BY <1>6 DEF TransportFails, NoReply, Outcome
  <2> QED
    BY <1>6, <2>1, <2>2 DEF TransportFails
<1>7. ASSUME NEW c \in Calls, ServerRefuses(c) PROVE Types'
  BY <1>7 DEF ServerRefuses, Reply, Stage, Outcome
<1>8. ASSUME NEW r \in Readers, ServerReads(r) PROVE Types'
  BY <1>8 DEF ServerReads, Reply, Stage, Outcome, Calls
<1>9. ASSUME NEW w \in Writers, ServerApplies(w) PROVE Types'
  BY <1>9 DEF ServerApplies, Reply, Stage, Outcome, Calls
<1>10. ASSUME NEW w \in Writers, ServerAppliesLost(w) PROVE Types'
  BY <1>10 DEF ServerAppliesLost
<1>11. CASE Tick \/ UNCHANGED vars
  BY <1>11 DEF Tick, vars
<1> QED
  BY <1>1, <1>2, <1>3, <1>4, <1>5, <1>6, <1>7, <1>8, <1>9, <1>10, <1>11
  DEF Next, ClientStep

LEMMA OnceStep == Types /\ OnceInv /\ [Next]_vars => OnceInv'
<1> SUFFICES ASSUME Types, OnceInv, [Next]_vars, NEW w \in Writers
             PROVE  OnceInv!(w)'
  BY DEF OnceInv
<1> USE DEF Types, OnceInv, server, caching, Calls
<1>0. w \notin Readers
  BY DisjointAssumption
<1>1. ASSUME NEW r \in Readers, ReadMiss(r) PROVE OnceInv!(w)'
  BY <1>0, <1>1 DEF ReadMiss
<1>2. ASSUME NEW v \in Writers, StartWrite(v) PROVE OnceInv!(w)'
  BY <1>2 DEF StartWrite
<1>3. ASSUME NEW c \in Calls, Send(c) \/ RetryNow(c) PROVE OnceInv!(w)'
  BY <1>3 DEF Send, RetryNow
<1>4. ASSUME NEW c \in Calls, LimiterThrows(c) PROVE OnceInv!(w)'
  BY <1>4, DisjointAssumption
  DEF LimiterThrows, Returns, ReadReturns, WriteReturns
<1>5. ASSUME NEW c \in Calls, Answered(c) PROVE OnceInv!(w)'
  <2>1. CASE c = w
    <3>1. \/ pc' = [pc EXCEPT ![w] = "done"]
          \/ reply[w].kind = "429" /\ pc' = [pc EXCEPT ![w] = "backoff"]
      BY <1>5, <2>1, WriterSettles DEF Answered
    <3> QED
      BY <1>5, <2>1, <3>1 DEF Answered
  <2>2. CASE c # w
    <3>1. pc'[w] = pc[w]
      BY <1>5, <2>2, SettleMoves DEF Answered
    <3> QED
      BY <1>5, <2>2, <3>1 DEF Answered
  <2> QED
    BY <2>1, <2>2
<1>6. ASSUME NEW c \in Calls, TransportFails(c) PROVE OnceInv!(w)'
  <2>1. CASE c = w
    <3>1. pc' = [pc EXCEPT ![w] = "done"]
      BY <1>6, <2>1, WriterSettles DEF TransportFails
    <3> QED
      BY <1>6, <2>1, <3>1 DEF TransportFails
  <2>2. CASE c # w
    <3>1. pc'[w] = pc[w] /\ reply'[w] = reply[w]
      BY <1>6, <2>2, SettleMoves DEF TransportFails
    <3>2. w \in lost' <=> w \in lost
      BY <1>6, <2>2 DEF TransportFails
    <3> QED
      BY <1>6, <3>1, <3>2 DEF TransportFails
  <2> QED
    BY <2>1, <2>2
<1>7. ASSUME NEW c \in Calls, ServerRefuses(c) PROVE OnceInv!(w)'
  BY <1>7 DEF ServerRefuses, Reply
<1>8. ASSUME NEW r \in Readers, ServerReads(r) PROVE OnceInv!(w)'
  BY <1>0, <1>8 DEF ServerReads, Reply
<1>9. ASSUME NEW v \in Writers, ServerApplies(v) PROVE OnceInv!(w)'
  BY <1>9 DEF ServerApplies, Reply
<1>10. ASSUME NEW v \in Writers, ServerAppliesLost(v) PROVE OnceInv!(w)'
  BY <1>10 DEF ServerAppliesLost
<1>11. CASE Tick \/ UNCHANGED vars
  BY <1>11 DEF Tick, vars
<1> QED
  BY <1>1, <1>2, <1>3, <1>4, <1>5, <1>6, <1>7, <1>8, <1>9, <1>10, <1>11
  DEF Next, ClientStep

(* A mutation is never applied twice by one execute(), whatever is lost,   *)
(* retried or answered late.                                               *)
THEOREM AtMostOnce == Spec => []MutationAtMostOnce
<1>1. Init => Types /\ OnceInv
  BY TypesInit DEF Init, OnceInv, Calls
<1>2. Types /\ OnceInv /\ [Next]_vars => (Types /\ OnceInv)'
  BY TypesStep, OnceStep
<1>3. OnceInv => MutationAtMostOnce
  BY DEF OnceInv, MutationAtMostOnce
<1> QED
  BY <1>1, <1>2, <1>3, PTL DEF Spec

-----------------------------------------------------------------------------
(* The snapshot                                                            *)

CacheTypes ==
  /\ attempt \in [Calls -> Nat]
  /\ cache = NoEntry \/ cache \in Entry
  /\ settled \in Nat
  /\ raced \subseteq Readers

(* An answer that came back after the latest mutation had returned, or     *)
(* whose fetch no mutation overtook, is not older than that mutation.      *)
AnswersAreFresh ==
  /\ settled <= version
  /\ \A r \in Readers :
       pc[r] = "answered" /\ reply[r].kind = "ok" /\ r \notin raced
         => reply[r].version >= settled

FreshInv == Types /\ CacheTypes /\ AnswersAreFresh /\ PreMutationOnlyIfRaced

Snapshot == CacheTypes /\ AnswersAreFresh /\ PreMutationOnlyIfRaced

LEMMA ReadReturnsKeepsSnapshot ==
  ASSUME FreshInv, NEW c \in Calls, NEW ok \in BOOLEAN, ReadReturns(c, ok),
         attempt' = [attempt EXCEPT ![c] = 0],
         ok => pc[c] = "answered" /\ reply[c].kind = "ok",
         UNCHANGED version,
         \A r \in Readers : r # c => reply'[r] = reply[r]
  PROVE  Snapshot'
<1> USE DEF FreshInv, Types, ReadReturns
<1>1. CacheTypes'
  BY DEF CacheTypes, Entry
<1>2. AnswersAreFresh'
  <2>1. ASSUME NEW r \in Readers, pc'[r] = "answered", reply'[r].kind = "ok", r \notin raced'
        PROVE  reply'[r].version >= settled'
    <3>1. r # c
      BY <2>1
    <3>2. pc[r] = "answered" /\ r \notin raced /\ reply'[r] = reply[r]
      BY <2>1, <3>1
    <3> QED
      BY <2>1, <3>2 DEF AnswersAreFresh
  <2> QED
    BY <2>1 DEF AnswersAreFresh
<1>3. PreMutationOnlyIfRaced'
  <2>1. CASE ok
    <3>1. cache'.version = reply[c].version /\ cache'.raced = (c \in raced) /\ settled' = settled
      BY <2>1
    <3>2. c \notin raced => reply[c].version >= settled
      BY <2>1 DEF AnswersAreFresh
    <3>3. ~cache'.raced => cache'.version >= settled'
      BY <3>1, <3>2
    <3> QED
      BY <3>3 DEF PreMutationOnlyIfRaced
  <2>2. CASE ~ok
    BY <2>2 DEF PreMutationOnlyIfRaced
  <2> QED
    BY <2>1, <2>2
<1> QED
  BY <1>1, <1>2, <1>3 DEF Snapshot

(* executeUncached's finally: who was fetching meanwhile has been raced.   *)
LEMMA WriteReturnsKeepsSnapshot ==
  ASSUME FreshInv, NEW c \in Calls, NEW ok \in BOOLEAN, WriteReturns(c, ok),
         attempt' = [attempt EXCEPT ![c] = 0],
         UNCHANGED version
  PROVE  Snapshot'
<1> USE DEF FreshInv, Types, WriteReturns
<1>1. CacheTypes'
  BY DEF CacheTypes, InFlight
<1>2. AnswersAreFresh'
  <2>1. ASSUME NEW r \in Readers, pc'[r] = "answered" PROVE r \in raced'
    <3>1. pc[r] = "answered"
      BY <2>1
    <3> QED
      BY <3>1 DEF InFlight
  <2>2. settled' = version'
    OBVIOUS
  <2> QED
    BY <2>1, <2>2 DEF AnswersAreFresh
<1>3. PreMutationOnlyIfRaced'
  BY DEF PreMutationOnlyIfRaced
<1> QED
  BY <1>1, <1>2, <1>3 DEF Snapshot

LEMMA ReturnsKeepsSnapshot ==
  ASSUME FreshInv, NEW c \in Calls, NEW ok \in BOOLEAN, Returns(c, ok),
         ok => pc[c] = "answered" /\ reply[c].kind = "ok",
         UNCHANGED version,
         \A r \in Readers : r # c => reply'[r] = reply[r]
  PROVE  Snapshot'
BY ReadReturnsKeepsSnapshot, WriteReturnsKeepsSnapshot DEF Returns

(* A call that moves on without touching the snapshot, and whose answer is *)
(* not (or no longer) a reader's.                                          *)
LEMMA OthersKeepSnapshot ==
  ASSUME FreshInv, Types', NEW c \in Calls, UNCHANGED <<version, caching>>,
         attempt' \in [Calls -> Nat],
         pc' = [pc EXCEPT ![c] = pc'[c]],
         pc'[c] = "answered" => c \notin Readers \/ reply'[c].kind # "ok",
         \A r \in Readers : r # c => reply'[r] = reply[r]
  PROVE  Snapshot'
<1> USE DEF FreshInv, Types, caching
<1>1. CacheTypes' /\ PreMutationOnlyIfRaced'
  BY DEF CacheTypes, PreMutationOnlyIfRaced
<1>2. ASSUME NEW r \in Readers, pc'[r] = "answered", reply'[r].kind = "ok", r \notin raced'
      PROVE  reply'[r].version >= settled'
  <2>1. r # c
    BY <1>2
  <2>2. pc[r] = "answered" /\ reply'[r] = reply[r]
    BY <1>2, <2>1 DEF Calls
  <2> QED
    BY <1>2, <2>2 DEF AnswersAreFresh
<1> QED
  BY <1>1, <1>2 DEF AnswersAreFresh, Snapshot

LEMMA SettleKeepsSnapshot ==
  ASSUME FreshInv, Types', NEW c \in Calls, NEW kind, Settle(c, kind),
         kind = "ok" => pc[c] = "answered" /\ reply[c].kind = "ok",
         UNCHANGED version, reply' = [reply EXCEPT ![c] = NoReply]
  PROVE  Snapshot'
<1>0. \A r \in Readers : r # c => reply'[r] = reply[r]
  BY DEF FreshInv, Types
<1>1. CASE kind = "ok" /\ Returns(c, TRUE)
  BY <1>0, <1>1, ReturnsKeepsSnapshot
<1>2. CASE Returns(c, FALSE)
  BY <1>0, <1>2, ReturnsKeepsSnapshot
<1>3. CASE Backoff(c, kind)
  <2>1. pc' = [pc EXCEPT ![c] = "backoff"] /\ attempt' \in [Calls -> Nat]
    BY <1>3 DEF Backoff, FreshInv, CacheTypes
  <2>2. pc'[c] = "backoff"
    BY <2>1 DEF FreshInv, Types
  <2> QED
    BY <1>0, <1>3, <2>1, <2>2, OthersKeepSnapshot DEF Backoff
<1> QED
  BY <1>1, <1>2, <1>3 DEF Settle

LEMMA FreshStep == FreshInv /\ [Next]_vars => FreshInv'
<1> SUFFICES ASSUME FreshInv, [Next]_vars PROVE Snapshot'
  BY TypesStep DEF FreshInv, Snapshot
<1>0. Types /\ Types' /\ attempt \in [Calls -> Nat]
  BY TypesStep DEF FreshInv, CacheTypes
<1>1. ASSUME NEW c \in Calls,
             ReadMiss(c) \/ StartWrite(c) \/ Send(c) \/ RetryNow(c)
      PROVE  Snapshot'
  <2>1. \E s \in {"limiter", "sent"} : pc' = [pc EXCEPT ![c] = s]
    BY <1>1 DEF ReadMiss, StartWrite, Send, RetryNow
  <2>2. UNCHANGED <<version, attempt, reply, caching>>
    BY <1>1 DEF ReadMiss, StartWrite, Send, RetryNow, server
  <2>3. pc'[c] # "answered" /\ pc' = [pc EXCEPT ![c] = pc'[c]]
    BY <1>0, <2>1 DEF Types
  <2> QED
    BY <1>0, <2>2, <2>3, OthersKeepSnapshot
<1>2. ASSUME NEW c \in Calls, LimiterThrows(c) PROVE Snapshot'
  BY <1>2, ReturnsKeepsSnapshot DEF LimiterThrows, server
<1>3. ASSUME NEW c \in Calls, Answered(c) PROVE Snapshot'
  BY <1>0, <1>3, SettleKeepsSnapshot DEF Answered, server
<1>4. ASSUME NEW c \in Calls, TransportFails(c) PROVE Snapshot'
  BY <1>0, <1>4, SettleKeepsSnapshot DEF TransportFails
<1>5. ASSUME NEW c \in Calls, ServerRefuses(c) PROVE Snapshot'
  <2>1. PICK kind \in {"429", "5xx", "4xx", "graphql"} : Reply(c, kind, 0)
    BY <1>5 DEF ServerRefuses
  <2>2. pc'[c] = "answered" /\ pc' = [pc EXCEPT ![c] = pc'[c]] /\ reply'[c].kind # "ok"
    BY <1>0, <2>1 DEF Types, Reply
  <2> QED
    BY <1>0, <1>5, <2>1, <2>2, OthersKeepSnapshot DEF ServerRefuses, Reply, Types, Calls
<1>6. ASSUME NEW r \in Readers, ServerReads(r) PROVE Snapshot'
  <2>1. /\ reply' = [reply EXCEPT ![r] = [kind |-> "ok", version |-> version]]
        /\ pc' = [pc EXCEPT ![r] = "answered"]
        /\ UNCHANGED <<version, attempt, caching>>
    BY <1>6 DEF ServerReads, Reply
  <2>2. ASSUME NEW q \in Readers, pc'[q] = "answered", reply'[q].kind = "ok", q \notin raced'
        PROVE  reply'[q].version >= settled'
    BY <1>0, <2>1, <2>2 DEF FreshInv, Types, AnswersAreFresh, CacheTypes, caching, Calls
  <2> QED
    BY <2>1, <2>2
    DEF FreshInv, AnswersAreFresh, CacheTypes, PreMutationOnlyIfRaced, caching, Snapshot
<1>7. ASSUME NEW w \in Writers, ServerApplies(w) PROVE Snapshot'
  <2>1. PICK kind \in {"ok", "5xx", "graphql"} : Reply(w, kind, version')
    BY <1>7 DEF ServerApplies
  <2>2. version' = version + 1 /\ UNCHANGED <<attempt, caching>>
    BY <1>7, <2>1 DEF ServerApplies, Reply
  <2>3. \A q \in Readers : pc'[q] = pc[q] /\ reply'[q] = reply[q]
    BY <1>0, <2>1, DisjointAssumption DEF Reply, Types, Calls
  <2> QED
    BY <1>0, <2>2, <2>3
    DEF FreshInv, Types, AnswersAreFresh, CacheTypes, PreMutationOnlyIfRaced, caching, Snapshot
<1>8. ASSUME NEW w \in Writers, ServerAppliesLost(w) PROVE Snapshot'
  BY <1>0, <1>8
  DEF ServerAppliesLost, FreshInv, Types, AnswersAreFresh, CacheTypes, PreMutationOnlyIfRaced,
      caching, Snapshot
<1>9. CASE Tick
  <2>1. cache # NoEntry /\ cache \in Entry /\ cache' = [cache EXCEPT !.age = @ + 1]
    BY <1>9 DEF Tick, EntryIsLive, FreshInv, CacheTypes
  <2>2. cache' \in Entry /\ cache'.version = cache.version /\ cache'.raced = cache.raced
    BY <2>1 DEF Entry
  <2> QED
    BY <1>9, <2>1, <2>2
    DEF Tick, server, FreshInv, AnswersAreFresh, CacheTypes, PreMutationOnlyIfRaced, Snapshot
<1>10. CASE UNCHANGED vars
  BY <1>10
  DEF vars, FreshInv, AnswersAreFresh, CacheTypes, PreMutationOnlyIfRaced, Snapshot
<1> QED
  BY <1>1, <1>2, <1>3, <1>4, <1>5, <1>6, <1>7, <1>8, <1>9, <1>10 DEF Next, ClientStep, Calls

LEMMA FreshInvariance == Spec => []FreshInv
<1>1. Init => FreshInv
  <2> SUFFICES ASSUME Init PROVE FreshInv
    OBVIOUS
  <2>1. CacheTypes /\ AnswersAreFresh /\ PreMutationOnlyIfRaced
    BY DEF Init, CacheTypes, AnswersAreFresh, PreMutationOnlyIfRaced, Calls
  <2> QED
    BY <2>1, TypesInit DEF FreshInv
<1> QED
  BY <1>1, FreshStep, PTL DEF Spec

(* Every variable has its type, in every step of the call and the server.  *)
THEOREM TypeCorrect == Spec => []TypeOK
<1>1. FreshInv => TypeOK
  BY DEF FreshInv, Types, CacheTypes, TypeOK
<1> QED
  BY <1>1, FreshInvariance, PTL

(* Only a snapshot whose fetch was under way when a mutation returned can  *)
(* be older than that mutation.                                            *)
THEOREM OnlyRacedIsOld == Spec => []PreMutationOnlyIfRaced
<1>1. FreshInv => PreMutationOnlyIfRaced
  BY DEF FreshInv
<1> QED
  BY <1>1, FreshInvariance, PTL
=============================================================================
