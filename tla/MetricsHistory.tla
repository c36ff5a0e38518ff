---------------------------- MODULE MetricsHistory ----------------------------
(***************************************************************************)
(* The opt-in recorder of one metric (src/graphql/metrics-history.ts) and  *)
(* the windows that the tool metrics_history (src/tools/metrics) and the   *)
(* resource unraid://live/history show of it.  Time is in ticks.           *)
(***************************************************************************)
EXTENDS Integers, FiniteSets, FiniteSetsExt

CONSTANTS
  BucketTime,  \* BUCKET_MS, in ticks
  Capacity,    \* BUCKET_CAPACITY
  Rows,        \* CONCISE_ROWS
  Values,      \* what a sample may say
  MaxTime,     \* bound on the clock
  MaxSamples   \* bound on what the feed delivers

ASSUME HistoryAssumption ==
  /\ BucketTime \in Nat \ {0} /\ Capacity \in Nat \ {0} /\ Rows \in Nat \ {0}
  /\ Values \subseteq Int /\ MaxTime \in Nat /\ MaxSamples \in Nat

VARIABLES
  clock,
  slots,      \* the ring: per position NoSlot, or the bucket held there
  startedAt,  \* or Stopped
  fed,        \* whether the upstream operation still runs
  samples     \* history: the samples that were recorded, numbered

historyVars == <<slots, startedAt, fed, samples>>

Stopped == -1
NoSlot == [bucketIndex |-> -1]
Positions == 0..Capacity - 1

Init ==
  /\ clock \in 0..BucketTime - 1
  /\ slots = [p \in Positions |-> NoSlot]
  /\ startedAt = Stopped
  /\ fed = FALSE
  /\ samples = {}

-----------------------------------------------------------------------------
(* MetricRingBuffer                                                        *)

BucketOf(time) == time \div BucketTime

Fold(acc, value) ==
  [acc EXCEPT !.min = IF value < @ THEN value ELSE @,
              !.max = IF value > @ THEN value ELSE @,
              !.sum = @ + value, !.count = @ + 1]

FoldsIntoAny(slot, b) == slot # NoSlot  \* fault: the bucket is not compared

SameBucket(slot, b) == slot.bucketIndex = b

Added(slot, b, value) ==
  IF SameBucket(slot, b) THEN Fold(slot, value)
  ELSE [bucketIndex |-> b, min |-> value, max |-> value, sum |-> value, count |-> 1]

Add(value) ==
  LET b == BucketOf(clock)
  IN slots' = [slots EXCEPT ![b % Capacity] = Added(@, b, value)]

PointsSince(first) ==
  {slots[p] : p \in {q \in Positions : slots[q] # NoSlot /\ slots[q].bucketIndex >= first}}

-----------------------------------------------------------------------------
(* MetricsHistoryRecorder                                                  *)

(* Idempotent: it does not look whether its operation still runs.          *)
Start ==
  /\ startedAt = Stopped
  /\ startedAt' = clock
  /\ fed' = TRUE
  /\ UNCHANGED <<slots, samples>>

Dispose ==
  /\ startedAt # Stopped
  /\ startedAt' = Stopped
  /\ fed' = FALSE
  /\ UNCHANGED <<slots, samples>>

(* onError: () => {}, or the operation completes.                          *)
FeedDies ==
  /\ fed
  /\ fed' = FALSE
  /\ UNCHANGED <<slots, startedAt, samples>>

(* A sample without usable numbers (extractSeries) changes nothing.        *)
Record(value) ==
  /\ fed
  /\ Cardinality(samples) < MaxSamples
  /\ Add(value)
  /\ samples' = samples \cup {[n |-> Cardinality(samples), time |-> clock, value |-> value]}
  /\ UNCHANGED <<startedAt, fed>>

HistoryStep == Start \/ Dispose \/ FeedDies \/ \E v \in Values : Record(v)

Tick ==
  /\ clock < MaxTime
  /\ clock' = clock + 1
  /\ UNCHANGED historyVars

Next == Tick \/ (HistoryStep /\ UNCHANGED clock)

Spec == Init /\ [][Next]_<<clock, historyVars>>

(* The window of the last w ticks, capped at the recorder's start.         *)
Larger(a, b) == IF a > b THEN a ELSE b

Since(w) == IF startedAt = Stopped THEN clock - w ELSE Larger(clock - w, startedAt)

FirstBucket(w) == BucketOf(Since(w))

Points(w) == PointsSince(FirstBucket(w))

ExpectedBuckets(w) == Larger(1, (clock - Since(w) + BucketTime - 1) \div BucketTime)

Gaps(w) == Larger(0, ExpectedBuckets(w) - Cardinality(Points(w)))

(* foldRows: which row of the concise table shows a point.                 *)
PointsPerRow(w) == Larger(1, (Cardinality(Points(w)) + Rows - 1) \div Rows)

RowOf(w, point) ==
  Cardinality({q \in Points(w) : q.bucketIndex < point.bucketIndex}) \div PointsPerRow(w)

Total(f) == MapThenSumSet(LAMBDA x : f[x], DOMAIN f)

(* mergePoints                                                             *)
Merge(points) ==
  [min |-> Min({q.min : q \in points}), max |-> Max({q.max : q \in points}),
   sum |-> Total([q \in points |-> q.sum]),
   count |-> Total([q \in points |-> q.count])]

RowsOf(w) == {{q \in Points(w) : RowOf(w, q) = RowOf(w, p)} : p \in Points(w)}

-----------------------------------------------------------------------------
In(b) == {s \in samples : BucketOf(s.time) = b}

(* What the samples of a set of buckets say.                               *)
Truth(of) ==
  [min |-> Min({s.value : s \in of}), max |-> Max({s.value : s \in of}),
   sum |-> Total([s \in of |-> s.value]), count |-> Cardinality(of)]

(* The buckets of a window that can still be known: of the one that is a   *)
(* whole ring back, nothing once the present bucket has a sample.          *)
Known(w) ==
  {b \in FirstBucket(w)..BucketOf(clock) : In(b) # {} /\ In(b + Capacity) = {}}

Windows == 1..Capacity * BucketTime

(* A window shows every bucket in it that was sampled, with the statistics *)
(* of its own samples whatever its slot held before (add); the rows of the *)
(* concise table say what their samples say and are no more than promised; *)
(* and "honest about gaps": no gap is invented, and of the buckets it      *)
(* touches at most one that is missing is not counted (window, foldRows).  *)
WindowIsExact ==
  \A w \in Windows :
    /\ {q.bucketIndex : q \in Points(w)} = Known(w)
    /\ \A q \in Points(w) :
         [min |-> q.min, max |-> q.max, sum |-> q.sum, count |-> q.count]
           = Truth(In(q.bucketIndex))
    /\ Cardinality(RowsOf(w)) <= Rows
    /\ \A row \in RowsOf(w) : Merge(row) = Truth(UNION {In(q.bucketIndex) : q \in row})
    /\ LET missing == BucketOf(clock) - FirstBucket(w) + 1 - Cardinality(Points(w))
       IN Gaps(w) \in (missing - 1)..missing
=============================================================================
