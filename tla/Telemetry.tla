------------------------------- MODULE Telemetry -------------------------------
(***************************************************************************)
(* What the subscription feed leaves in memory: the recorder's history and *)
(* the container statistics, under one clock.  Each has an operation of    *)
(* its own on the feed; they end independently or with the shared socket.  *)
(***************************************************************************)
EXTENDS MetricsHistory

CONSTANTS Containers, Eviction, Freshness

ASSUME TelemetryAssumption == Eviction \in Nat /\ Freshness \in Nat

VARIABLES
  seenAt, receivedAt, lastSeen,
  events  \* how many events of containers came

Store == INSTANCE LiveStore

storeVars == <<seenAt, receivedAt, lastSeen, events>>
telemetryVars == <<clock, historyVars, storeVars>>

TelemetryInit == Init /\ Store!StoreInit /\ events = 0

(* MaxSamples bounds what the feed delivers to both.                       *)
Delivered == Cardinality(samples') + events' <= MaxSamples

TelemetryNext ==
  \/ Tick /\ UNCHANGED storeVars
  \/ HistoryStep /\ UNCHANGED <<clock, storeVars>> /\ Delivered
  \/ Store!StoreStep /\ events' = events + 1 /\ UNCHANGED <<clock, historyVars>> /\ Delivered

TelemetrySpec == TelemetryInit /\ [][TelemetryNext]_telemetryVars

(* Who docker_stats shows was told of recently, and nobody is lost early:  *)
(* the property of LiveStore, of the composition (mergeDockerStatsSample). *)
GhostsAreBounded == Store!GhostsAreBounded
=============================================================================
