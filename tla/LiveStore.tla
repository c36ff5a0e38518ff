------------------------------- MODULE LiveStore -------------------------------
(***************************************************************************)
(* The latest samples of the container statistics                          *)
(* (src/graphql/live-store.ts), which the live resource writes and the     *)
(* tool docker_stats (src/tools/docker/docker-stats.ts) prefers to SSH.    *)
(* The containers are on the host: an event tells of one that is running.  *)
(***************************************************************************)
EXTENDS Integers

CONSTANTS
  Containers,
  Eviction,   \* DOCKER_CONTAINER_EVICTION_MS, in ticks
  Freshness   \* LIVE_FRESHNESS_MS, in ticks

VARIABLES
  clock,
  seenAt,      \* the aggregate: when each container in it was seen
  receivedAt,  \* when the last event came; Never before that
  lastSeen     \* history: when each container was last told of

storeVars == <<seenAt, receivedAt, lastSeen>>

Never == -1
None == [c \in {} |-> Never]

StoreInit ==
  /\ seenAt = None
  /\ receivedAt = Never
  /\ lastSeen = [c \in Containers |-> Never]

KeepsAll == DOMAIN seenAt  \* fault: nothing is evicted

Kept == {c \in DOMAIN seenAt : clock - seenAt[c] <= Eviction}

(* mergeDockerStatsSample, and the feed's onData: set.  An event without a *)
(* container refreshes the topic all the same.                             *)
MergeSample(incoming) ==
  /\ seenAt' = [c \in Kept \cup incoming |-> IF c \in incoming THEN clock ELSE seenAt[c]]
  /\ receivedAt' = clock
  /\ lastSeen' = [c \in Containers |-> IF c \in incoming THEN clock ELSE lastSeen[c]]

StoreStep == MergeSample({}) \/ \E c \in Containers : MergeSample({c})

(* LiveSnapshotStore.get and docker_stats: the containers that are shown;  *)
(* with none, SSH is asked.                                                *)
Shown ==
  IF receivedAt # Never /\ clock - receivedAt <= Freshness THEN DOMAIN seenAt ELSE {}

-----------------------------------------------------------------------------
(* "a stopped/removed container must not ghost in docker_stats output":    *)
(* who is shown was told of within the eviction window and the freshness   *)
(* of the topic, though containers are evicted only when another event     *)
(* comes, and events need not tell of any.  Nor is one lost: when the last *)
(* event was received, who had been told of within the window is shown.    *)
GhostsAreBounded ==
  \A c \in Containers :
    /\ c \in Shown => lastSeen[c] # Never /\ clock - lastSeen[c] <= Eviction + Freshness
    /\ Shown # {} /\ lastSeen[c] # Never /\ receivedAt - lastSeen[c] <= Eviction => c \in Shown
=============================================================================
