---------------------------- MODULE TelemetryProofs ----------------------------
(* Proofs of GhostsAreBounded, who docker_stats shows, for any containers, *)
(* eviction window and freshness; and of WindowIsExact, what a window of   *)
(* the recorder shows, for any ring, length of a bucket and number of rows.*)
EXTENDS Telemetry, FiniteSetTheorems, WellFoundedInduction, TLAPS

Never == -1

(* The aggregate knows exactly the containers told of within the eviction  *)
(* window before the last event, each with the time it was last told of.   *)
AggregateIsWindow ==
  /\ \A c \in DOMAIN seenAt : seenAt[c] = lastSeen[c]
  /\ DOMAIN seenAt =
       {c \in Containers : lastSeen[c] # Never /\ receivedAt - lastSeen[c] <= Eviction}

TimesInOrder ==
  /\ clock \in Nat
  /\ receivedAt \in {Never} \union 0..clock
  /\ lastSeen \in [Containers -> Int]
  /\ \A c \in Containers : lastSeen[c] = Never \/ lastSeen[c] \in 0..receivedAt

StoreInv == TimesInOrder /\ AggregateIsWindow

-----------------------------------------------------------------------------
LEMMA StoreInitially == TelemetryInit => StoreInv
<1> SUFFICES ASSUME TelemetryInit PROVE StoreInv
  OBVIOUS
<1>1. clock \in Nat
  BY HistoryAssumption DEF TelemetryInit, Init
<1>2. /\ seenAt = [c \in {} |-> Never]
      /\ receivedAt = Never
      /\ lastSeen = [c \in Containers |-> Never]
  BY DEF TelemetryInit, Store!StoreInit, Store!None, Store!Never, Never
<1>3. TimesInOrder
  BY <1>1, <1>2 DEF TimesInOrder, Never
<1>4. AggregateIsWindow
  BY <1>2 DEF AggregateIsWindow
<1> QED
  BY <1>3, <1>4 DEF StoreInv

(* Who is kept when an event comes was told of within the window that ends *)
(* with it: a later end of the window only drops containers.               *)
LEMMA MergeKeepsInv ==
  ASSUME StoreInv, NEW incoming \in SUBSET Containers, Store!MergeSample(incoming),
         UNCHANGED clock
  PROVE  StoreInv'
<1> DEFINE Told(c) == IF c \in incoming THEN clock ELSE lastSeen[c]
<1>1. /\ receivedAt' = clock
      /\ lastSeen' = [c \in Containers |-> Told(c)]
  BY DEF Store!MergeSample
<1>2. /\ DOMAIN seenAt' = Store!Kept \union incoming
      /\ \A c \in Store!Kept \union incoming :
           seenAt'[c] = IF c \in incoming THEN clock ELSE seenAt[c]
  BY DEF Store!MergeSample
<1>3. \A c \in Containers : lastSeen[c] = Never \/ lastSeen[c] \in 0..clock
  BY DEF StoreInv, TimesInOrder, Never
<1>4. TimesInOrder'
  <2>1. \A c \in Containers : lastSeen'[c] = Never \/ lastSeen'[c] \in 0..clock
    BY <1>1, <1>3 DEF StoreInv, TimesInOrder
  <2> QED
    BY <1>1, <2>1 DEF StoreInv, TimesInOrder, Never
<1>5. Store!Kept =
        {c \in Containers : lastSeen[c] # Never /\ clock - lastSeen[c] <= Eviction}
  <2>1. Store!Kept \subseteq Containers /\ \A c \in DOMAIN seenAt : seenAt[c] = lastSeen[c]
    BY DEF StoreInv, AggregateIsWindow, Store!Kept
  <2>2. ASSUME NEW c \in Containers, lastSeen[c] # Never, clock - lastSeen[c] <= Eviction
        PROVE  c \in DOMAIN seenAt
    <3>1. receivedAt - lastSeen[c] <= Eviction
      BY <2>2, <1>3, TelemetryAssumption DEF StoreInv, TimesInOrder, Never
    <3> QED
      BY <3>1, <2>2 DEF StoreInv, AggregateIsWindow
  <2> QED
    BY <2>1, <2>2 DEF StoreInv, AggregateIsWindow, Store!Kept
<1>6. AggregateIsWindow'
  <2>1. \A c \in DOMAIN seenAt' : seenAt'[c] = lastSeen'[c]
    <3> SUFFICES ASSUME NEW c \in DOMAIN seenAt' PROVE seenAt'[c] = lastSeen'[c]
      OBVIOUS
    <3>1. c \in Containers
      BY <1>2, <1>5
    <3>2. c \notin incoming => seenAt[c] = lastSeen[c]
      BY <1>2 DEF StoreInv, AggregateIsWindow, Store!Kept
    <3> QED
      BY <1>1, <1>2, <3>1, <3>2
  <2>2. \A c \in Containers :
          c \in DOMAIN seenAt' <=> lastSeen'[c] # Never /\ receivedAt' - lastSeen'[c] <= Eviction
    <3> SUFFICES ASSUME NEW c \in Containers
                 PROVE  c \in DOMAIN seenAt' <=>
                          lastSeen'[c] # Never /\ receivedAt' - lastSeen'[c] <= Eviction
      OBVIOUS
    <3>1. CASE c \in incoming
      <4>1. lastSeen'[c] = clock /\ receivedAt' = clock /\ clock \in Nat
        BY <1>1, <3>1 DEF StoreInv, TimesInOrder
      <4> QED
        BY <1>2, <3>1, <4>1, TelemetryAssumption DEF Never
    <3>2. CASE c \notin incoming
      BY <1>1, <1>2, <1>5, <3>2
    <3> QED
      BY <3>1, <3>2
  <2>3. DOMAIN seenAt' \subseteq Containers
    BY <1>2, <1>5
  <2> QED
    BY <2>1, <2>2, <2>3 DEF AggregateIsWindow
<1> QED
  BY <1>4, <1>6 DEF StoreInv

LEMMA StoreStepKeepsInv ==
  StoreInv /\ [TelemetryNext]_telemetryVars => StoreInv'
<1> SUFFICES ASSUME StoreInv, [TelemetryNext]_telemetryVars PROVE StoreInv'
  OBVIOUS
<1>1. ASSUME Tick, UNCHANGED storeVars PROVE StoreInv'
  <2>1. clock' = clock + 1 /\ UNCHANGED <<seenAt, receivedAt, lastSeen>>
    BY <1>1 DEF Tick, storeVars
  <2>2. TimesInOrder'
    BY <2>1 DEF StoreInv, TimesInOrder, Never
  <2>3. AggregateIsWindow'
    BY <2>1 DEF StoreInv, AggregateIsWindow
  <2> QED
    BY <2>2, <2>3 DEF StoreInv
<1>2. ASSUME UNCHANGED <<clock, seenAt, receivedAt, lastSeen>> PROVE StoreInv'
  BY <1>2 DEF StoreInv, TimesInOrder, AggregateIsWindow
<1>3. ASSUME Store!StoreStep, UNCHANGED clock PROVE StoreInv'
  <2>1. CASE Store!MergeSample({})
    BY <1>3, <2>1, MergeKeepsInv
  <2>2. ASSUME NEW c \in Containers, Store!MergeSample({c}) PROVE StoreInv'
    BY <1>3, <2>2, MergeKeepsInv
  <2> QED
    BY <1>3, <2>1, <2>2 DEF Store!StoreStep
<1> QED
  BY <1>1, <1>2, <1>3 DEF TelemetryNext, telemetryVars, storeVars

LEMMA StoreInvBoundsGhosts == StoreInv => GhostsAreBounded
<1> SUFFICES ASSUME StoreInv, NEW c \in Containers
             PROVE  /\ c \in Store!Shown =>
                         /\ lastSeen[c] # Never
                         /\ clock - lastSeen[c] <= Eviction + Freshness
                    /\ Store!Shown # {} /\ lastSeen[c] # Never
                         /\ receivedAt - lastSeen[c] <= Eviction => c \in Store!Shown
  BY DEF GhostsAreBounded, Store!GhostsAreBounded, Store!Never, Never
<1>1. /\ Store!Shown # {} => Store!Shown = DOMAIN seenAt /\ clock - receivedAt <= Freshness
      /\ c \in Store!Shown => Store!Shown # {}
  BY DEF Store!Shown
<1>2. ASSUME c \in Store!Shown
      PROVE  lastSeen[c] # Never /\ clock - lastSeen[c] <= Eviction + Freshness
  <2>1. lastSeen[c] # Never /\ receivedAt - lastSeen[c] <= Eviction
    BY <1>1, <1>2 DEF StoreInv, AggregateIsWindow
  <2>2. lastSeen[c] \in 0..receivedAt /\ receivedAt \in {Never} \union 0..clock /\ clock \in Nat
    BY <2>1 DEF StoreInv, TimesInOrder
  <2> QED
    BY <1>1, <1>2, <2>1, <2>2, TelemetryAssumption DEF Never
<1>3. Store!Shown # {} /\ lastSeen[c] # Never /\ receivedAt - lastSeen[c] <= Eviction
        => c \in Store!Shown
  BY <1>1 DEF StoreInv, AggregateIsWindow
<1> QED
  BY <1>2, <1>3

(* docker_stats shows no container that was not told of within the         *)
(* eviction window and the freshness of the topic, and loses none early,   *)
(* whenever events come and whatever container each tells of.              *)
THEOREM NoGhosts == TelemetrySpec => []GhostsAreBounded
<1>1. TelemetrySpec => []StoreInv
  BY StoreInitially, StoreStepKeepsInv, PTL DEF TelemetrySpec
<1> QED
  BY <1>1, StoreInvBoundsGhosts, PTL

-----------------------------------------------------------------------------
(* Sums over finite sets.  MapThenSumSet is a recursive function over the  *)
(* subsets of its set: there is one such function, and one only, which a   *)
(* smallest set without it, or with two of them, would contradict.         *)
SumOver(f, S) == MapThenSumSet(LAMBDA x : f[x], S)

Chosen(s) == CHOOSE x \in s : TRUE

Adds(f, S, g) ==
  g = [s \in SUBSET S |-> IF s = {} THEN 0 ELSE f[Chosen(s)] + g[s \ {Chosen(s)}]]

(* Induction over the subsets of a finite set.                             *)
LEMMA SmallestSet ==
  ASSUME NEW S, IsFiniteSet(S), NEW Bad \in SUBSET (SUBSET S), Bad # {}
  PROVE  \E s \in Bad : \A t \in Bad : t \subseteq s => t = s
<1>1. FiniteSubsetsOf(S) = SUBSET S
  BY FS_FiniteSubsetsOfFinite
<1>2. IsWellFoundedOn(StrictSubsetOrdering(S), SUBSET S)
  BY <1>1, FS_StrictSubsetOrderingWellFounded
<1>3. PICK s \in Bad : \A t \in Bad : <<t, s>> \notin StrictSubsetOrdering(S)
  BY <1>2, WFMin
<1>4. \A t \in Bad : t \subseteq s => t = s
  BY <1>3 DEF StrictSubsetOrdering
<1> QED
  BY <1>4

LEMMA SumIsUnique ==
  ASSUME NEW f, NEW S, IsFiniteSet(S), NEW T, NEW U, S \subseteq T, S \subseteq U,
         NEW g, NEW h, Adds(f, T, g), Adds(f, U, h)
  PROVE  g[S] = h[S]
<1> DEFINE Bad == {s \in SUBSET S : g[s] # h[s]}
<1> SUFFICES ASSUME Bad # {} PROVE FALSE
  OBVIOUS
<1>1. PICK s \in Bad : \A t \in Bad : t \subseteq s => t = s
  <2>1. Bad \in SUBSET (SUBSET S)
    OBVIOUS
  <2> HIDE DEF Bad
  <2> QED
    BY <2>1, SmallestSet
<1>2. s \in SUBSET T /\ s \in SUBSET U
  OBVIOUS
<1>3. /\ g[s] = IF s = {} THEN 0 ELSE f[Chosen(s)] + g[s \ {Chosen(s)}]
      /\ h[s] = IF s = {} THEN 0 ELSE f[Chosen(s)] + h[s \ {Chosen(s)}]
  BY <1>2 DEF Adds
<1>4. s # {}
  BY <1>3
<1>5. Chosen(s) \in s
  BY <1>4 DEF Chosen
<1>6. s \ {Chosen(s)} \notin Bad
  BY <1>1, <1>5
<1> QED
  BY <1>3, <1>4, <1>6

LEMMA SumExists ==
  ASSUME NEW f, NEW S, IsFiniteSet(S)
  PROVE  \E g : Adds(f, S, g)
<1> DEFINE Bad == {s \in SUBSET S : ~ \E g : Adds(f, s, g)}
<1> SUFFICES ASSUME Bad # {} PROVE FALSE
  OBVIOUS
<1>1. PICK s \in Bad : \A t \in Bad : t \subseteq s => t = s
  <2>1. Bad \in SUBSET (SUBSET S)
    OBVIOUS
  <2> HIDE DEF Bad
  <2> QED
    BY <2>1, SmallestSet
<1> DEFINE H(t) == CHOOSE g : Adds(f, t, g)
           Sum(t) == IF t = {} THEN 0 ELSE f[Chosen(t)] + H(t \ {Chosen(t)})[t \ {Chosen(t)}]
           h == [t \in SUBSET s |-> Sum(t)]
<1>2. ASSUME NEW t \in SUBSET s, t # s PROVE Adds(f, t, H(t))
  BY <1>1, <1>2
<1>3. ASSUME NEW t \in SUBSET s, t # s PROVE H(t)[t] = h[t]
  <2>1. Adds(f, t, H(t))
    BY <1>2, <1>3
  <2>2. H(t)[t] = IF t = {} THEN 0 ELSE f[Chosen(t)] + H(t)[t \ {Chosen(t)}]
    <3> HIDE DEF H
    <3> QED
      BY <2>1 DEF Adds
  <2>3. CASE t = {}
    BY <2>2, <2>3
  <2>4. CASE t # {}
    <3> DEFINE u == t \ {Chosen(t)}
    <3>1. Chosen(t) \in t
      BY <2>4 DEF Chosen
    <3>2. u \in SUBSET s /\ u # s /\ u \subseteq t
      BY <3>1
    <3>3. Adds(f, u, H(u))
      BY <3>2, <1>2
    <3>4. IsFiniteSet(u)
      BY <3>2, FS_Subset
    <3>5. H(t)[u] = H(u)[u]
      <4> HIDE DEF H, u
      <4> QED
        BY <2>1, <3>2, <3>3, <3>4, SumIsUnique
    <3> QED
      BY <2>2, <2>4, <3>5
  <2> QED
    BY <2>3, <2>4
<1>4. ASSUME NEW t \in SUBSET s, t # {}
      PROVE  H(t \ {Chosen(t)})[t \ {Chosen(t)}] = h[t \ {Chosen(t)}]
  <2>1. Chosen(t) \in t
    BY <1>4 DEF Chosen
  <2>2. t \ {Chosen(t)} \in SUBSET s /\ t \ {Chosen(t)} # s
    BY <2>1
  <2> HIDE DEF H, h
  <2> QED
    BY <2>2, <1>3
<1>5. Adds(f, s, h)
  <2>1. ASSUME NEW t \in SUBSET s
        PROVE  Sum(t) = IF t = {} THEN 0 ELSE f[Chosen(t)] + h[t \ {Chosen(t)}]
    <3>1. CASE t = {}
      BY <3>1
    <3>2. CASE t # {}
      <4>1. H(t \ {Chosen(t)})[t \ {Chosen(t)}] = h[t \ {Chosen(t)}]
        BY <1>4, <3>2
      <4> HIDE DEF H, h
      <4> QED
        BY <3>2, <4>1
    <3> QED
      BY <3>1, <3>2
  <2> QED
    <3> HIDE DEF Sum
    <3>1. h = [t \in SUBSET s |-> IF t = {} THEN 0 ELSE f[Chosen(t)] + h[t \ {Chosen(t)}]]
      BY <2>1, Zenon
    <3> QED
      BY <3>1 DEF Adds
<1> QED
  BY <1>1, <1>5

LEMMA SumIsAdded ==
  ASSUME NEW f, NEW S, NEW g, IsFiniteSet(S), Adds(f, S, g)
  PROVE  SumOver(f, S) = g[S]
<1>1. ASSUME NEW h, Adds(f, S, h) PROVE h = g
  <2>1. ASSUME NEW s \in SUBSET S PROVE h[s] = g[s]
    BY <1>1, <2>1, SumIsUnique, FS_Subset
  <2>2. h = [s \in SUBSET S |-> h[s]] /\ g = [s \in SUBSET S |-> g[s]]
    BY <1>1 DEF Adds
  <2> QED
    BY <2>1, <2>2, Zenon
<1>2. \A h : Adds(f, S, h) => h = g
  BY <1>1
<1> QED
  BY <1>2, Zenon DEF SumOver, MapThenSumSet, MapThenFoldSet, Adds, Chosen

(* A sum over nothing, and what an element adds to a sum.                  *)
LEMMA SumOfNone ==
  ASSUME NEW f
  PROVE  SumOver(f, {}) = 0
<1>1. IsFiniteSet({})
  BY FS_EmptySet
<1>2. PICK g : Adds(f, {}, g)
  BY <1>1, SumExists
<1>3. g[{}] = 0
  BY <1>2 DEF Adds
<1> QED
  BY <1>1, <1>2, <1>3, SumIsAdded

LEMMA SumOfChosen ==
  ASSUME NEW f, NEW S, IsFiniteSet(S), S # {}
  PROVE  SumOver(f, S) = f[Chosen(S)] + SumOver(f, S \ {Chosen(S)})
<1> DEFINE T == S \ {Chosen(S)}
<1>1. PICK g : Adds(f, S, g)
  BY SumExists
<1>2. IsFiniteSet(T)
  BY FS_Subset
<1>3. PICK h : Adds(f, T, h)
  <2> HIDE DEF T
  <2> QED
    BY <1>2, SumExists
<1>4. g[S] = f[Chosen(S)] + g[T]
  BY <1>1 DEF Adds
<1>5. g[T] = h[T]
  <2>1. T \subseteq S
    OBVIOUS
  <2> HIDE DEF T
  <2> QED
    BY <1>1, <1>2, <1>3, <2>1, SumIsUnique
<1>6. SumOver(f, S) = g[S]
  BY <1>1, SumIsAdded
<1>7. SumOver(f, T) = h[T]
  <2> HIDE DEF T
  <2> QED
    BY <1>2, <1>3, SumIsAdded
<1> QED
  BY <1>4, <1>5, <1>6, <1>7

LEMMA SumIsInt ==
  ASSUME NEW f, NEW S, IsFiniteSet(S), \A x \in S : f[x] \in Int
  PROVE  SumOver(f, S) \in Int
<1> DEFINE Bad == {s \in SUBSET S : SumOver(f, s) \notin Int}
<1> SUFFICES ASSUME Bad # {} PROVE FALSE
  OBVIOUS
<1>1. PICK s \in Bad : \A t \in Bad : t \subseteq s => t = s
  <2>1. Bad \in SUBSET (SUBSET S)
    OBVIOUS
  <2> HIDE DEF Bad
  <2> QED
    BY <2>1, SmallestSet
<1>2. s # {}
  BY SumOfNone
<1>3. Chosen(s) \in s
  BY <1>2 DEF Chosen
<1>4. SumOver(f, s) = f[Chosen(s)] + SumOver(f, s \ {Chosen(s)})
  BY <1>2, SumOfChosen, FS_Subset
<1>5. SumOver(f, s \ {Chosen(s)}) \in Int
  BY <1>1, <1>3
<1> QED
  BY <1>3, <1>4, <1>5

(* The order does not matter.                                              *)
LEMMA SumOfElement ==
  ASSUME NEW f, NEW S, IsFiniteSet(S), \A x \in S : f[x] \in Int, NEW x \in S
  PROVE  SumOver(f, S) = f[x] + SumOver(f, S \ {x})
<1> DEFINE Bad == {s \in SUBSET S :
                     \E y \in s : SumOver(f, s) # f[y] + SumOver(f, s \ {y})}
<1> SUFFICES ASSUME Bad # {} PROVE FALSE
  OBVIOUS
<1>1. PICK s \in Bad : \A t \in Bad : t \subseteq s => t = s
  <2>1. Bad \in SUBSET (SUBSET S)
    OBVIOUS
  <2> HIDE DEF Bad
  <2> QED
    BY <2>1, SmallestSet
<1>2. PICK y \in s : SumOver(f, s) # f[y] + SumOver(f, s \ {y})
  OBVIOUS
<1> DEFINE c == Chosen(s)
           rest == s \ {c, y}
<1>3. c \in s
  BY DEF Chosen
<1>4. SumOver(f, s) = f[c] + SumOver(f, s \ {c})
  BY SumOfChosen, FS_Subset
<1>5. c # y
  BY <1>2, <1>4
<1>6. SumOver(f, s \ {c}) = f[y] + SumOver(f, rest)
  <2>1. s \ {c} \notin Bad /\ s \ {c} \in SUBSET S /\ y \in s \ {c}
    BY <1>1, <1>3, <1>5
  <2>2. (s \ {c}) \ {y} = rest
    OBVIOUS
  <2> QED
    BY <2>1, <2>2
<1>7. SumOver(f, s \ {y}) = f[c] + SumOver(f, rest)
  <2>1. s \ {y} \notin Bad /\ s \ {y} \in SUBSET S /\ c \in s \ {y}
    BY <1>1, <1>3, <1>5
  <2>2. (s \ {y}) \ {c} = rest
    OBVIOUS
  <2> QED
    BY <2>1, <2>2
<1>8. SumOver(f, rest) \in Int
  BY SumIsInt, FS_Subset
<1>9. f[c] \in Int /\ f[y] \in Int
  BY <1>3
<1> HIDE DEF c, rest
<1> QED
  BY <1>2, <1>4, <1>6, <1>7, <1>8, <1>9

LEMMA SumOfUnion ==
  ASSUME NEW f, NEW S, NEW T, IsFiniteSet(S), IsFiniteSet(T), S \cap T = {},
         \A x \in S \union T : f[x] \in Int
  PROVE  SumOver(f, S \union T) = SumOver(f, S) + SumOver(f, T)
<1> DEFINE Bad == {s \in SUBSET S : SumOver(f, s \union T) # SumOver(f, s) + SumOver(f, T)}
<1> SUFFICES ASSUME Bad # {} PROVE FALSE
  OBVIOUS
<1>0. SumOver(f, T) \in Int
  BY SumIsInt
<1>1. PICK s \in Bad : \A t \in Bad : t \subseteq s => t = s
  <2>1. Bad \in SUBSET (SUBSET S)
    OBVIOUS
  <2> HIDE DEF Bad
  <2> QED
    BY <2>1, SmallestSet
<1>2. s # {}
  <2>1. ASSUME s = {} PROVE FALSE
    <3>1. s \union T = T
      BY <2>1
    <3> QED
      BY <1>0, <2>1, <3>1, SumOfNone
  <2> QED
    BY <2>1
<1>3. PICK x \in s : TRUE
  BY <1>2
<1>4. SumOver(f, s) = f[x] + SumOver(f, s \ {x})
  BY SumOfElement, FS_Subset
<1>5. SumOver(f, s \union T) = f[x] + SumOver(f, (s \ {x}) \union T)
  <2>1. IsFiniteSet(s \union T)
    BY FS_Subset, FS_Union
  <2>2. SumOver(f, s \union T) = f[x] + SumOver(f, (s \union T) \ {x})
    BY <2>1, SumOfElement
  <2>3. (s \union T) \ {x} = (s \ {x}) \union T
    OBVIOUS
  <2> QED
    BY <2>2, <2>3
<1>6. SumOver(f, (s \ {x}) \union T) = SumOver(f, s \ {x}) + SumOver(f, T)
  BY <1>1
<1>7. SumOver(f, s \ {x}) \in Int
  BY SumIsInt, FS_Subset
<1>8. f[x] \in Int
  OBVIOUS
<1> QED
  BY <1>0, <1>4, <1>5, <1>6, <1>7, <1>8

LEMMA SumsAgree ==
  ASSUME NEW f, NEW g, NEW S, IsFiniteSet(S), \A x \in S : f[x] = g[x]
  PROVE  SumOver(f, S) = SumOver(g, S)
<1> DEFINE Bad == {s \in SUBSET S : SumOver(f, s) # SumOver(g, s)}
<1> SUFFICES ASSUME Bad # {} PROVE FALSE
  OBVIOUS
<1>1. PICK s \in Bad : \A t \in Bad : t \subseteq s => t = s
  <2>1. Bad \in SUBSET (SUBSET S)
    OBVIOUS
  <2> HIDE DEF Bad
  <2> QED
    BY <2>1, SmallestSet
<1>2. s # {}
  BY SumOfNone
<1>3. Chosen(s) \in s
  BY <1>2 DEF Chosen
<1>4. /\ SumOver(f, s) = f[Chosen(s)] + SumOver(f, s \ {Chosen(s)})
      /\ SumOver(g, s) = g[Chosen(s)] + SumOver(g, s \ {Chosen(s)})
  BY <1>2, SumOfChosen, FS_Subset
<1>5. SumOver(f, s \ {Chosen(s)}) = SumOver(g, s \ {Chosen(s)})
  BY <1>1, <1>3
<1> QED
  BY <1>3, <1>4, <1>5

LEMMA SumOfOnes ==
  ASSUME NEW f, NEW S, IsFiniteSet(S), \A x \in S : f[x] = 1
  PROVE  SumOver(f, S) = Cardinality(S)
<1> DEFINE Bad == {s \in SUBSET S : SumOver(f, s) # Cardinality(s)}
<1> SUFFICES ASSUME Bad # {} PROVE FALSE
  OBVIOUS
<1>1. PICK s \in Bad : \A t \in Bad : t \subseteq s => t = s
  <2>1. Bad \in SUBSET (SUBSET S)
    OBVIOUS
  <2> HIDE DEF Bad
  <2> QED
    BY <2>1, SmallestSet
<1>2. s # {}
  BY SumOfNone, FS_EmptySet
<1>3. Chosen(s) \in s
  BY <1>2 DEF Chosen
<1>4. SumOver(f, s) = f[Chosen(s)] + SumOver(f, s \ {Chosen(s)})
  BY <1>2, SumOfChosen, FS_Subset
<1>5. SumOver(f, s \ {Chosen(s)}) = Cardinality(s \ {Chosen(s)})
  BY <1>1, <1>3
<1>6. Cardinality(s \ {Chosen(s)}) = Cardinality(s) - 1
  BY <1>3, FS_RemoveElement, FS_Subset
<1>7. Cardinality(s) \in Nat
  BY FS_Subset, FS_CardinalityType
<1> QED
  BY <1>3, <1>4, <1>5, <1>6, <1>7

(* A sum of sums over sets that have nothing in common.                    *)
LEMMA SumOfParts ==
  ASSUME NEW P, IsFiniteSet(P), NEW part, NEW f, NEW h,
         \A p \in P : IsFiniteSet(part[p]) /\ h[p] = SumOver(f, part[p]),
         \A p, q \in P : p # q => part[p] \cap part[q] = {},
         \A p \in P : \A x \in part[p] : f[x] \in Int
  PROVE  SumOver(h, P) = SumOver(f, UNION {part[p] : p \in P})
<1> DEFINE All(s) == UNION {part[p] : p \in s}
           Bad == {s \in SUBSET P : ~(IsFiniteSet(All(s)) /\ SumOver(h, s) = SumOver(f, All(s)))}
<1> SUFFICES ASSUME Bad # {} PROVE FALSE
  OBVIOUS
<1>1. PICK s \in Bad : \A t \in Bad : t \subseteq s => t = s
  <2>1. Bad \in SUBSET (SUBSET P)
    OBVIOUS
  <2> HIDE DEF Bad
  <2> QED
    BY <2>1, SmallestSet
<1>2. s # {}
  <2>1. ASSUME s = {} PROVE FALSE
    <3>1. All(s) = {}
      BY <2>1
    <3> QED
      BY <2>1, <3>1, SumOfNone, FS_EmptySet
  <2> QED
    BY <2>1
<1> DEFINE c == Chosen(s)
           rest == s \ {c}
<1>3. c \in s /\ c \in P /\ s \in SUBSET P
  BY <1>2 DEF Chosen
<1>4. SumOver(h, s) = h[c] + SumOver(h, rest)
  BY <1>2, SumOfChosen, FS_Subset
<1>5. rest \notin Bad /\ rest \in SUBSET P
  <2>1. rest # s /\ rest \subseteq s
    BY <1>3
  <2>2. rest \in SUBSET P
    BY <1>3
  <2> HIDE DEF Bad, rest
  <2> QED
    BY <1>1, <2>1, <2>2
<1>6. IsFiniteSet(All(rest)) /\ SumOver(h, rest) = SumOver(f, All(rest))
  BY <1>5
<1>7. All(s) = part[c] \union All(rest)
  BY <1>3
<1>8. part[c] \cap All(rest) = {}
  BY <1>3
<1>9. IsFiniteSet(part[c]) /\ IsFiniteSet(All(s))
  <2> HIDE DEF All, c, rest
  <2>1. IsFiniteSet(part[c])
    BY <1>3
  <2>2. IsFiniteSet(part[c] \union All(rest))
    BY <1>6, <2>1, FS_Union, Zenon
  <2> QED
    BY <1>7, <2>1, <2>2
<1>10. \A x \in part[c] \union All(rest) : f[x] \in Int
  BY <1>3
<1>11. SumOver(f, All(s)) = SumOver(f, part[c]) + SumOver(f, All(rest))
  <2> HIDE DEF All, c, rest
  <2> QED
    BY <1>6, <1>7, <1>8, <1>9, <1>10, SumOfUnion
<1>12. h[c] = SumOver(f, part[c])
  BY <1>3
<1>13. s \notin Bad
  <2> HIDE DEF All, c, rest
  <2> QED
    BY <1>4, <1>6, <1>9, <1>11, <1>12
<1> QED
  BY <1>13

(* Least and greatest elements.                                            *)
Least(m, S) == m \in S /\ \A y \in S : m <= y
Greatest(m, S) == m \in S /\ \A y \in S : m >= y

LEMMA Extremes ==
  ASSUME NEW S \in SUBSET Int, NEW m
  PROVE  /\ Least(m, S) => Min(S) = m
         /\ Greatest(m, S) => Max(S) = m
<1>1. ASSUME Least(m, S) PROVE Min(S) = m
  <2>1. \A x \in S : (\A y \in S : x <= y) => x = m
    BY <1>1 DEF Least
  <2> QED
    BY <1>1, <2>1 DEF Least, Min
<1>2. ASSUME Greatest(m, S) PROVE Max(S) = m
  <2>1. \A x \in S : (\A y \in S : x >= y) => x = m
    BY <1>2 DEF Greatest
  <2> QED
    BY <1>2, <2>1 DEF Greatest, Max
<1> QED
  BY <1>1, <1>2

LEMMA FiniteExtremes ==
  ASSUME NEW S, \A y \in S : y \in Int, IsFiniteSet(S), S # {}
  PROVE  Least(Min(S), S) /\ Greatest(Max(S), S)
<1> DEFINE Bad == {s \in SUBSET S : s # {} /\ ~(Least(Min(s), s) /\ Greatest(Max(s), s))}
<1> SUFFICES ASSUME Bad # {} PROVE FALSE
  OBVIOUS
<1>1. PICK s \in Bad : \A t \in Bad : t \subseteq s => t = s
  <2>1. Bad \in SUBSET (SUBSET S)
    OBVIOUS
  <2> HIDE DEF Bad
  <2> QED
    BY <2>1, SmallestSet
<1>2. PICK c \in s : TRUE
  OBVIOUS
<1> DEFINE rest == s \ {c}
<1>3. s \in SUBSET Int /\ c \in Int
  OBVIOUS
<1>4. CASE rest = {}
  <2>1. Least(c, s) /\ Greatest(c, s)
    BY <1>2, <1>3, <1>4 DEF Least, Greatest
  <2> QED
    BY <1>1, <1>3, <2>1, Extremes
<1>5. CASE rest # {}
  <2>1. rest \notin Bad
    BY <1>1, <1>2
  <2>2. PICK low \in rest : Least(low, rest)
    BY <1>5, <2>1 DEF Least
  <2>3. PICK high \in rest : Greatest(high, rest)
    BY <1>5, <2>1 DEF Greatest
  <2>4. \E m \in s : Least(m, s)
    <3>1. CASE c <= low
      BY <1>3, <2>2, <3>1 DEF Least
    <3>2. CASE ~(c <= low)
      BY <1>3, <2>2, <3>2 DEF Least
    <3> QED
      BY <3>1, <3>2
  <2>5. \E m \in s : Greatest(m, s)
    <3>1. CASE c >= high
      BY <1>3, <2>3, <3>1 DEF Greatest
    <3>2. CASE ~(c >= high)
      BY <1>3, <2>3, <3>2 DEF Greatest
    <3> QED
      BY <3>1, <3>2
  <2> QED
    BY <1>1, <1>3, <2>4, <2>5, Extremes
<1> QED
  BY <1>4, <1>5

-----------------------------------------------------------------------------
(* What a slot says, and what adding a sample to it makes of that.         *)
LEMMA FiniteImage ==
  ASSUME NEW f, NEW S, IsFiniteSet(S)
  PROVE  /\ IsFiniteSet({f[x] : x \in S})
         /\ Cardinality({f[x] : x \in S}) <= Cardinality(S)
<1> DEFINE T == {f[x] : x \in S}
           g == [x \in S |-> f[x]]
<1>1. g \in Surjection(S, T)
  BY DEF Surjection
<1> QED
  <2> HIDE DEF g
  <2> QED
    BY <1>1, FS_Surjection

(* What a slot holds when it says what the samples of its bucket say.      *)
Slot(b, min, max, sum, count) ==
  [bucketIndex |-> b, min |-> min, max |-> max, sum |-> sum, count |-> count]

Summary(b, of) ==
  Slot(b, Truth(of).min, Truth(of).max, Truth(of).sum, Truth(of).count)

ValuesOf(of) == {s.value : s \in of}
ValueOf(of) == [s \in of |-> s.value]

LEMMA TruthIs ==
  ASSUME NEW of
  PROVE  /\ Truth(of).min = Min(ValuesOf(of)) /\ Truth(of).max = Max(ValuesOf(of))
         /\ Truth(of).sum = SumOver(ValueOf(of), of)
         /\ Truth(of).count = Cardinality(of)
<1>1. Total(ValueOf(of)) = SumOver(ValueOf(of), DOMAIN ValueOf(of))
  BY DEF Total, SumOver
<1>2. DOMAIN ValueOf(of) = of
  BY DEF ValueOf
<1> QED
  BY <1>1, <1>2 DEF Truth, ValuesOf, ValueOf

LEMMA ValuesAreFinite ==
  ASSUME NEW of, IsFiniteSet(of)
  PROVE  IsFiniteSet(ValuesOf(of))
<1>1. ValuesOf(of) = {ValueOf(of)[s] : s \in of}
  BY DEF ValuesOf, ValueOf
<1> QED
  BY <1>1, FiniteImage

LEMMA SummaryOfOne ==
  ASSUME NEW b, NEW s, s.value \in Int
  PROVE  Summary(b, {s}) = Slot(b, s.value, s.value, s.value, 1)
<1>1. ValuesOf({s}) = {s.value}
  BY DEF ValuesOf
<1>2. Least(s.value, {s.value}) /\ Greatest(s.value, {s.value})
  BY DEF Least, Greatest
<1>3. Min({s.value}) = s.value /\ Max({s.value}) = s.value
  BY <1>2, Extremes
<1>4. IsFiniteSet({s}) /\ Cardinality({s}) = 1
  BY FS_Singleton
<1>5. SumOver(ValueOf({s}), {s}) = s.value
  <2>1. ValueOf({s})[s] = s.value
    BY DEF ValueOf
  <2>2. SumOver(ValueOf({s}), {s}) = ValueOf({s})[s] + SumOver(ValueOf({s}), {s} \ {s})
    <3>1. \A x \in {s} : ValueOf({s})[x] \in Int
      BY <2>1
    <3> QED
      BY <1>4, <3>1, SumOfElement
  <2>3. {s} \ {s} = {}
    OBVIOUS
  <2> QED
    BY <2>1, <2>2, <2>3, SumOfNone
<1> QED
  BY <1>1, <1>3, <1>4, <1>5, TruthIs DEF Summary

LEMMA FoldIs ==
  ASSUME NEW b, NEW low, NEW high, NEW sum, NEW count, NEW v
  PROVE  Fold(Slot(b, low, high, sum, count), v) =
           Slot(b, IF v < low THEN v ELSE low, IF v > high THEN v ELSE high, sum + v, count + 1)
<1> DEFINE acc == Slot(b, low, high, sum, count)
           lower == IF v < low THEN v ELSE low
           higher == IF v > high THEN v ELSE high
           more == sum + v
           next == count + 1
<1>1. acc.min = low /\ acc.max = high /\ acc.sum = sum /\ acc.count = count
  BY DEF Slot
<1>2. [acc EXCEPT !.min = lower, !.max = higher, !.sum = more, !.count = next] =
        Slot(b, lower, higher, more, next)
  <2> HIDE DEF lower, higher, more, next
  <2>1. [acc EXCEPT !.min = lower] = Slot(b, lower, high, sum, count)
    BY DEF Slot
  <2>2. [Slot(b, lower, high, sum, count) EXCEPT !.max = higher]
          = Slot(b, lower, higher, sum, count)
    BY DEF Slot
  <2>3. [Slot(b, lower, higher, sum, count) EXCEPT !.sum = more]
          = Slot(b, lower, higher, more, count)
    BY DEF Slot
  <2>4. [Slot(b, lower, higher, more, count) EXCEPT !.count = next]
          = Slot(b, lower, higher, more, next)
    BY DEF Slot
  <2> QED
    BY <2>1, <2>2, <2>3, <2>4, Zenon
<1>3. Fold(acc, v) = [acc EXCEPT !.min = lower, !.max = higher, !.sum = more, !.count = next]
  <2> HIDE DEF acc
  <2> QED
    BY <1>1 DEF Fold
<1> QED
  BY <1>2, <1>3

LEMMA SummaryOfMore ==
  ASSUME NEW b, NEW of, NEW s, IsFiniteSet(of), of # {}, s \notin of,
         \A x \in of \union {s} : x.value \in Int
  PROVE  Fold(Summary(b, of), s.value) = Summary(b, of \union {s})
<1> DEFINE more == of \union {s}
           V == ValuesOf(of)
           v == s.value
<1>1. ValuesOf(more) = V \union {v} /\ v \in Int /\ (\A y \in V : y \in Int) /\ V # {}
  BY DEF ValuesOf
<1>2. Least(Min(V), V) /\ Greatest(Max(V), V)
  BY <1>1, ValuesAreFinite, FiniteExtremes
<1>3. Min(V) \in Int /\ Max(V) \in Int
  BY <1>1, <1>2 DEF Least, Greatest
<1>4. Min(V \union {v}) = IF v < Min(V) THEN v ELSE Min(V)
  <2> DEFINE m == IF v < Min(V) THEN v ELSE Min(V)
  <2>1. m \in V \union {v}
    BY <1>2 DEF Least
  <2>2. \A y \in V \union {v} : m <= y
    <3> HIDE DEF V, v
    <3> QED
      BY <1>1, <1>2, <1>3 DEF Least
  <2>3. V \union {v} \in SUBSET Int
    BY <1>1
  <2>4. Least(m, V \union {v})
    BY <2>1, <2>2 DEF Least
  <2> HIDE DEF m
  <2> QED
    BY <2>3, <2>4, Extremes DEF m
<1>5. Max(V \union {v}) = IF v > Max(V) THEN v ELSE Max(V)
  <2> DEFINE m == IF v > Max(V) THEN v ELSE Max(V)
  <2>1. m \in V \union {v}
    BY <1>2 DEF Greatest
  <2>2. \A y \in V \union {v} : m >= y
    <3> HIDE DEF V, v
    <3> QED
      BY <1>1, <1>2, <1>3 DEF Greatest
  <2>3. V \union {v} \in SUBSET Int
    BY <1>1
  <2>4. Greatest(m, V \union {v})
    BY <2>1, <2>2 DEF Greatest
  <2> HIDE DEF m
  <2> QED
    BY <2>3, <2>4, Extremes DEF m
<1>6. IsFiniteSet(more) /\ Cardinality(more) = Cardinality(of) + 1
  BY FS_AddElement
<1>7. SumOver(ValueOf(more), more) = SumOver(ValueOf(of), of) + v
  <2>1. /\ \A x \in more : ValueOf(more)[x] \in Int
        /\ ValueOf(more)[s] = v /\ s \in more /\ more \ {s} = of
        /\ \A x \in of : ValueOf(more)[x] = ValueOf(of)[x] /\ ValueOf(of)[x] \in Int
    BY DEF ValueOf
  <2> HIDE DEF more
  <2>2. SumOver(ValueOf(more), more) = v + SumOver(ValueOf(more), of)
    BY <1>6, <2>1, SumOfElement
  <2>3. SumOver(ValueOf(more), of) = SumOver(ValueOf(of), of)
    BY <2>1, SumsAgree
  <2>4. SumOver(ValueOf(of), of) \in Int
    BY <2>1, SumIsInt
  <2> QED
    BY <1>1, <2>2, <2>3, <2>4
<1>8. Fold(Summary(b, of), v) =
        Slot(b, IF v < Min(V) THEN v ELSE Min(V), IF v > Max(V) THEN v ELSE Max(V),
             SumOver(ValueOf(of), of) + v, Cardinality(of) + 1)
  <2>1. Summary(b, of) =
          Slot(b, Min(V), Max(V), SumOver(ValueOf(of), of), Cardinality(of))
    BY TruthIs DEF Summary
  <2> QED
    BY <2>1, FoldIs
<1>9. Summary(b, more) =
        Slot(b, Min(V \union {v}), Max(V \union {v}),
             SumOver(ValueOf(more), more), Cardinality(more))
  <2> HIDE DEF V, v, more
  <2> QED
    BY <1>1, TruthIs DEF Summary
<1> QED
  <2> HIDE DEF V
  <2> QED
    BY <1>4, <1>5, <1>6, <1>7, <1>8, <1>9

-----------------------------------------------------------------------------
(* Division: which bucket a time is in, which position a bucket has.       *)
LEMMA Quotient ==
  ASSUME NEW x \in Int, NEW d \in Nat \ {0}
  PROVE  \E q \in Int, r \in 0..d - 1 : x \div d = q /\ x % d = r /\ x = d * q + r
<1>1. /\ x \div d \in Int /\ x % d \in 0..d - 1
      /\ x % d = x - d * (x \div d)
  OBVIOUS
<1>2. PICK q \in Int, r \in 0..d - 1 : q = x \div d /\ r = x % d /\ r = x - d * q
  BY <1>1
<1>3. x = d * q + r
  BY <1>2
<1> QED BY <1>2, <1>3

LEMMA QuotientIs ==
  ASSUME NEW x \in Int, NEW d \in Nat \ {0}, NEW q \in Int, NEW r \in 0..d - 1,
         x = d * q + r
  PROVE  x \div d = q /\ x % d = r
<1>1. PICK p \in Int, t \in 0..d - 1 : x \div d = p /\ x % d = t /\ x = d * p + t
  BY Quotient
<1>2. d * (p - q) = r - t
  BY <1>1
<1>3. p - q = 0
  <2>1. CASE p - q >= 1
    <3>1. d * (p - q) >= d
      BY <2>1
    <3> QED BY <1>2, <3>1
  <2>2. CASE p - q <= -1
    <3>1. d * (p - q) <= -d
      BY <2>2
    <3> QED BY <1>2, <3>1
  <2> QED BY <2>1, <2>2
<1>4. p = q /\ t = r
  BY <1>2, <1>3
<1> QED BY <1>1, <1>4

LEMMA QuotientMonotone ==
  ASSUME NEW x \in Int, NEW y \in Int, NEW d \in Nat \ {0}, x <= y
  PROVE  x \div d <= y \div d
<1>1. PICK p \in Int, r \in 0..d - 1 : x \div d = p /\ x = d * p + r
  BY Quotient
<1>2. PICK q \in Int, s \in 0..d - 1 : y \div d = q /\ y = d * q + s
  BY Quotient
<1>3. CASE p >= q + 1
  <2>1. d * p >= d * (q + 1)
    BY <1>3
  <2> QED BY <1>1, <1>2, <2>1
<1> QED BY <1>1, <1>2, <1>3

(* Two buckets of one position are a ring apart.                           *)
LEMMA RingApart ==
  ASSUME NEW x \in Int, NEW y \in Int, NEW d \in Nat \ {0}, x < y, x % d = y % d
  PROVE  x + d <= y
<1>1. PICK p \in Int, r \in 0..d - 1 : x % d = r /\ x = d * p + r
  BY Quotient
<1>2. PICK q \in Int, t \in 0..d - 1 : y % d = t /\ y = d * q + t
  BY Quotient
<1>3. r = t /\ d * (q - p) = y - x
  BY <1>1, <1>2
<1>4. q - p >= 1
  <2>1. CASE q - p <= 0
    <3>1. d * (q - p) <= 0
      BY <2>1
    <3> QED
      BY <1>3, <3>1
  <2> QED
    BY <2>1
<1>5. d * (q - p) >= d
  BY <1>4
<1> QED
  BY <1>3, <1>5

LEMMA SamePosition ==
  ASSUME NEW x \in Int, NEW d \in Nat \ {0}
  PROVE  (x + d) % d = x % d
<1>1. PICK q \in Int, r \in 0..d - 1 : x % d = r /\ x = d * q + r
  BY Quotient
<1>2. PICK y \in Int : y = x + d
  OBVIOUS
<1>3. y = d * (q + 1) + r /\ q + 1 \in Int
  BY <1>1, <1>2
<1>4. y % d = r
  BY <1>3, QuotientIs
<1> QED
  BY <1>1, <1>2, <1>4

LEMMA Buckets ==
  ASSUME NEW t \in Nat
  PROVE  BucketOf(t) \in Nat /\ BucketOf(t) % Capacity \in Positions
<1>1. PICK q \in Int, r \in 0..BucketTime - 1 : t \div BucketTime = q /\ t = BucketTime * q + r
  BY HistoryAssumption, Quotient
<1>2. q >= 0
  <2>1. CASE q <= -1
    <3>1. BucketTime * q <= -BucketTime
      BY <2>1, HistoryAssumption
    <3> QED
      BY <1>1, <3>1, HistoryAssumption
  <2> QED
    BY <2>1
<1>3. PICK p \in Int, u \in 0..Capacity - 1 : q % Capacity = u
  BY HistoryAssumption, Quotient
<1> QED
  BY <1>1, <1>2, <1>3 DEF BucketOf, Positions
-----------------------------------------------------------------------------
(* The invariant: each position holds the latest bucket that was sampled   *)
(* there, with what its own samples say.                                   *)
Latest(p, b) ==
  /\ b % Capacity = p /\ In(b) # {}
  /\ \A s \in samples : BucketOf(s.time) % Capacity = p => BucketOf(s.time) <= b

HoldsNone(p) ==
  slots[p] = NoSlot /\ \A s \in samples : BucketOf(s.time) % Capacity # p

HoldsLatest(p) ==
  \E b \in 0..BucketOf(clock) : Latest(p, b) /\ slots[p] = Summary(b, In(b))

SamplesInOrder ==
  /\ IsFiniteSet(samples)
  /\ \A s \in samples :
       s.n \in 0..Cardinality(samples) - 1 /\ s.time \in 0..clock /\ s.value \in Values

HistoryInv ==
  /\ clock \in Nat
  /\ startedAt \in {Stopped} \union 0..clock
  /\ SamplesInOrder
  /\ DOMAIN slots = Positions
  /\ \A p \in Positions : HoldsNone(p) \/ HoldsLatest(p)

LEMMA HistoryInitially == TelemetryInit => HistoryInv
<1> SUFFICES ASSUME TelemetryInit PROVE HistoryInv
  OBVIOUS
<1>1. clock \in Nat
  BY HistoryAssumption DEF TelemetryInit, Init
<1>2. samples = {} /\ startedAt = Stopped /\ slots = [p \in Positions |-> NoSlot]
  BY DEF TelemetryInit, Init
<1>3. SamplesInOrder
  BY <1>2, FS_EmptySet DEF SamplesInOrder
<1>4. \A p \in Positions : HoldsNone(p)
  BY <1>2 DEF HoldsNone
<1> QED
  BY <1>1, <1>2, <1>3, <1>4 DEF HistoryInv

(* Adding a sample: only its own position changes.                         *)
LEMMA RecordKeepsInv ==
  ASSUME HistoryInv, NEW v \in Values, Record(v), UNCHANGED clock
  PROVE  HistoryInv'
<1> DEFINE B == BucketOf(clock)
           P == B % Capacity
           new == [n |-> Cardinality(samples), time |-> clock, value |-> v]
<1> USE HistoryAssumption
<1>1. PICK b \in Nat : b = B
  BY Buckets DEF HistoryInv
<1>2. PICK s : s = new
  OBVIOUS
<1>3. s.time = clock /\ s.value = v /\ s.n = Cardinality(samples)
  BY <1>2
<1>4. PICK ring : ring = b % Capacity
  OBVIOUS
<1>5. ring \in Positions /\ ring = P
  BY <1>1, <1>4, Buckets DEF HistoryInv
<1>6. /\ samples' = samples \union {s}
      /\ slots' = [slots EXCEPT ![ring] = Added(slots[ring], b, v)]
      /\ startedAt' = startedAt /\ clock' = clock
  BY <1>1, <1>2, <1>4 DEF Record, Add
<1>7. s \notin samples
  <2>1. Cardinality(samples) \notin 0..Cardinality(samples) - 1
    BY FS_CardinalityType DEF HistoryInv, SamplesInOrder
  <2> QED
    BY <1>3, <2>1 DEF HistoryInv, SamplesInOrder
<1>8. SamplesInOrder'
  <2>1. IsFiniteSet(samples \union {s}) /\ Cardinality(samples \union {s}) = Cardinality(samples) + 1
    BY <1>7, FS_AddElement DEF HistoryInv, SamplesInOrder
  <2>2. Cardinality(samples) \in Nat
    BY FS_CardinalityType DEF HistoryInv, SamplesInOrder
  <2>3. clock \in Nat
    BY DEF HistoryInv
  <2>4. \A x \in samples : x.n \in 0..Cardinality(samples) - 1 /\ x.time \in 0..clock /\ x.value \in Values
    BY DEF HistoryInv, SamplesInOrder
  <2>5. \A x \in samples \union {s} :
          x.n \in 0..Cardinality(samples) /\ x.time \in 0..clock /\ x.value \in Values
    <3> SUFFICES ASSUME NEW x \in samples \union {s}
                 PROVE  x.n \in 0..Cardinality(samples) /\ x.time \in 0..clock /\ x.value \in Values
      OBVIOUS
    <3>1. CASE x \in samples
      BY <2>2, <2>4, <3>1
    <3>2. CASE x = s
      BY <1>3, <2>2, <2>3, <3>2
    <3> QED
      BY <3>1, <3>2
  <2>6. Cardinality(samples') - 1 = Cardinality(samples)
    BY <1>6, <2>1, <2>2
  <2> QED
    BY <1>6, <2>1, <2>5, <2>6 DEF SamplesInOrder
<1>9. /\ \A c : c # b => In(c)' = In(c)
      /\ In(b)' = In(b) \union {s}
  <2>1. BucketOf(s.time) = b
    BY <1>1, <1>3
  <2> QED
    BY <1>6, <2>1 DEF In
<1>10. \A x \in samples : BucketOf(x.time) <= b
  <2> SUFFICES ASSUME NEW x \in samples PROVE BucketOf(x.time) <= b
    OBVIOUS
  <2>1. x.time \in Int /\ clock \in Int /\ x.time <= clock
    BY DEF HistoryInv, SamplesInOrder
  <2> QED
    BY <1>1, <2>1, QuotientMonotone DEF BucketOf
<1>11. ASSUME NEW p \in Positions, p # ring PROVE (HoldsNone(p) \/ HoldsLatest(p))'
  <2>1. slots'[p] = slots[p]
    BY <1>6, <1>11 DEF HistoryInv
  <2>2. BucketOf(s.time) % Capacity # p
    BY <1>1, <1>3, <1>4, <1>11
  <2>3. CASE HoldsNone(p)
    <3>1. HoldsNone(p)'
      BY <1>6, <2>1, <2>2, <2>3 DEF HoldsNone
    <3> QED
      BY <3>1
  <2>4. CASE HoldsLatest(p)
    <3>1. PICK c \in 0..BucketOf(clock) : Latest(p, c) /\ slots[p] = Summary(c, In(c))
      BY <2>4 DEF HoldsLatest
    <3>2. c # b
      BY <1>4, <1>11, <3>1 DEF Latest
    <3>3. In(c)' = In(c)
      BY <1>9, <3>2
    <3>4. Latest(p, c)'
      BY <1>6, <2>2, <3>1, <3>3 DEF Latest
    <3>5. slots'[p] = Summary(c, In(c)')
      BY <2>1, <3>1, <3>3
    <3>6. c \in 0..BucketOf(clock')
      BY <1>6, <3>1
    <3>7. HoldsLatest(p)'
      BY <3>4, <3>5, <3>6 DEF HoldsLatest
    <3> QED
      BY <3>7
  <2> QED
    BY <2>3, <2>4 DEF HistoryInv
<1>12. slots'[ring] = Summary(b, In(b)')
  <2>1. slots'[ring] = Added(slots[ring], b, v)
    BY <1>5, <1>6 DEF HistoryInv
  <2>2. v \in Int /\ s.value = v
    BY <1>3
  <2>3. \A x \in In(b) : x.value \in Int
    BY DEF HistoryInv, SamplesInOrder, In
  <2>4. CASE In(b) = {}
    <3>1. ~SameBucket(slots[ring], b)
      <4>1. CASE HoldsNone(ring)
        BY <4>1 DEF HoldsNone, NoSlot, SameBucket
      <4>2. CASE HoldsLatest(ring)
        <5>1. PICK c \in 0..BucketOf(clock) : Latest(ring, c) /\ slots[ring] = Summary(c, In(c))
          BY <4>2 DEF HoldsLatest
        <5>2. c # b
          BY <2>4, <5>1 DEF Latest
        <5> QED
          BY <5>1, <5>2 DEF SameBucket, Summary, Slot
      <4> QED
        BY <1>5, <4>1, <4>2 DEF HistoryInv
    <3>2. Added(slots[ring], b, v) = Slot(b, v, v, v, 1)
      BY <3>1 DEF Added, Slot
    <3>3. In(b)' = {s}
      BY <1>9, <2>4
    <3> QED
      BY <2>1, <2>2, <3>2, <3>3, SummaryOfOne
  <2>5. CASE In(b) # {}
    <3>1. slots[ring] = Summary(b, In(b))
      <4>1. PICK x \in In(b) : TRUE
        BY <2>5
      <4>2. x \in samples /\ BucketOf(x.time) = b
        BY DEF In
      <4>3. ~HoldsNone(ring)
        BY <1>4, <4>2 DEF HoldsNone
      <4>4. PICK c \in 0..BucketOf(clock) : Latest(ring, c) /\ slots[ring] = Summary(c, In(c))
        BY <1>5, <4>3 DEF HistoryInv, HoldsLatest
      <4>5. b <= c
        BY <1>4, <4>2, <4>4 DEF Latest
      <4>6. c = b
        BY <1>1, <4>4, <4>5
      <4> QED
        BY <4>4, <4>6
    <3>2. Added(slots[ring], b, v) = Fold(Summary(b, In(b)), s.value)
      <4>1. SameBucket(Summary(b, In(b)), b)
        BY DEF SameBucket, Summary, Slot
      <4> QED
        BY <2>2, <3>1, <4>1, Zenon DEF Added
    <3>3. IsFiniteSet(In(b)) /\ s \notin In(b)
      <4>1. In(b) \in SUBSET samples
        BY DEF In
      <4> QED
        BY <1>7, <4>1, FS_Subset DEF HistoryInv, SamplesInOrder
    <3>4. \A x \in In(b) \union {s} : x.value \in Int
      BY <2>2, <2>3
    <3>5. Fold(Summary(b, In(b)), s.value) = Summary(b, In(b) \union {s})
      BY <2>5, <3>3, <3>4, SummaryOfMore
    <3> QED
      BY <1>9, <2>1, <3>2, <3>5
  <2> QED
    BY <2>4, <2>5
<1>13. HoldsLatest(ring)'
  <2>1. Latest(ring, b)'
    <3>1. In(b)' # {}
      BY <1>9
    <3>2. \A x \in samples' : BucketOf(x.time) <= b
      BY <1>1, <1>3, <1>6, <1>10
    <3> QED
      BY <1>4, <3>1, <3>2 DEF Latest
  <2>2. b \in 0..BucketOf(clock')
    BY <1>1, <1>6
  <2> QED
    BY <1>12, <2>1, <2>2 DEF HoldsLatest
<1>14. DOMAIN slots' = Positions
  BY <1>6 DEF HistoryInv
<1> QED
  BY <1>6, <1>8, <1>11, <1>13, <1>14 DEF HistoryInv

LEMMA BucketsInOrder ==
  ASSUME NEW x \in Int, NEW y \in Int, x <= y
  PROVE  BucketOf(x) <= BucketOf(y)
BY HistoryAssumption, QuotientMonotone DEF BucketOf

LEMMA HistoryStepKeepsInv ==
  HistoryInv /\ [TelemetryNext]_telemetryVars => HistoryInv'
<1> SUFFICES ASSUME HistoryInv, [TelemetryNext]_telemetryVars PROVE HistoryInv'
  OBVIOUS
<1>1. ASSUME UNCHANGED <<slots, samples>>, clock' \in Nat, clock <= clock',
             startedAt' \in {Stopped} \union 0..clock'
      PROVE  HistoryInv'
  <2>1. \A b : In(b)' = In(b)
    BY <1>1 DEF In
  <2>2. SamplesInOrder'
    <3>1. \A t \in 0..clock : t \in 0..clock'
      BY <1>1 DEF HistoryInv
    <3> QED
      BY <1>1, <3>1 DEF HistoryInv, SamplesInOrder
  <2>3. \A p \in Positions : HoldsNone(p) => HoldsNone(p)'
    BY <1>1 DEF HoldsNone
  <2>4. ASSUME NEW p \in Positions, HoldsLatest(p) PROVE HoldsLatest(p)'
    <3>1. PICK b \in 0..BucketOf(clock) : Latest(p, b) /\ slots[p] = Summary(b, In(b))
      BY <2>4 DEF HoldsLatest
    <3>2. BucketOf(clock) <= BucketOf(clock')
      <4>1. clock \in Int /\ clock' \in Int
        BY <1>1 DEF HistoryInv
      <4> QED
        BY <1>1, <4>1, BucketsInOrder
    <3>3. BucketOf(clock) \in Nat /\ BucketOf(clock') \in Nat
      BY <1>1, Buckets DEF HistoryInv
    <3>4. b \in 0..BucketOf(clock')
      BY <3>1, <3>2, <3>3
    <3>5. Latest(p, b)'
      BY <1>1, <2>1, <3>1 DEF Latest
    <3> QED
      BY <1>1, <2>1, <3>1, <3>4, <3>5 DEF HoldsLatest
  <2> QED
    BY <1>1, <2>2, <2>3, <2>4 DEF HistoryInv
<1>2. ASSUME UNCHANGED <<clock, slots, samples>>, startedAt' \in {startedAt, clock, Stopped}
      PROVE  HistoryInv'
  BY <1>1, <1>2 DEF HistoryInv
<1>3. CASE Tick
  <2>1. clock' = clock + 1 /\ startedAt' = startedAt /\ UNCHANGED <<slots, samples>>
    BY <1>3 DEF Tick, historyVars
  <2>2. clock' \in Nat /\ clock <= clock' /\ startedAt' \in {Stopped} \union 0..clock'
    BY <2>1 DEF HistoryInv
  <2> QED
    BY <1>1, <2>1, <2>2
<1>4. CASE HistoryStep /\ UNCHANGED clock
  <2>1. CASE Start
    BY <1>2, <1>4, <2>1 DEF Start
  <2>2. CASE Dispose
    BY <1>2, <1>4, <2>2 DEF Dispose
  <2>3. CASE FeedDies
    BY <1>2, <1>4, <2>3 DEF FeedDies
  <2>4. ASSUME NEW v \in Values, Record(v) PROVE HistoryInv'
    BY <1>4, <2>4, RecordKeepsInv
  <2> QED
    BY <1>4, <2>1, <2>2, <2>3, <2>4 DEF HistoryStep
<1>5. CASE UNCHANGED <<clock, historyVars>>
  BY <1>2, <1>5 DEF historyVars
<1> QED
  BY <1>3, <1>4, <1>5 DEF TelemetryNext, telemetryVars
-----------------------------------------------------------------------------
(* A window: from at most a whole ring back to the present bucket.         *)
LEMMA WindowReach ==
  ASSUME HistoryInv, NEW w \in Windows
  PROVE  /\ Since(w) \in Int /\ Since(w) <= clock
         /\ FirstBucket(w) \in Int /\ BucketOf(clock) \in Nat
         /\ FirstBucket(w) <= BucketOf(clock)
         /\ BucketOf(clock) <= FirstBucket(w) + Capacity
<1> USE HistoryAssumption
<1>1. clock \in Nat /\ startedAt \in {Stopped} \union 0..clock
  BY DEF HistoryInv
<1>2. PICK reach \in Int : reach = Capacity * BucketTime
  OBVIOUS
<1>3. w \in 1..reach
  BY <1>2 DEF Windows
<1>4. Since(w) \in Int /\ Since(w) <= clock /\ clock - reach <= Since(w)
  BY <1>1, <1>2, <1>3 DEF Since, Larger, Stopped
<1>5. BucketOf(clock) \in Nat
  BY <1>1, Buckets
<1>6. PICK first \in Int : first = Since(w) \div BucketTime
  BY <1>4, Quotient
<1>7. first <= BucketOf(clock)
  BY <1>1, <1>4, <1>6, QuotientMonotone DEF BucketOf
<1>8. BucketOf(clock) <= first + Capacity
  <2>1. PICK q \in Int, r \in 0..BucketTime - 1 : clock \div BucketTime = q /\ clock = BucketTime * q + r
    BY <1>1, Quotient
  <2>2. PICK y \in Int : y = clock - reach
    BY <1>1
  <2>3. y = BucketTime * (q - Capacity) + r /\ q - Capacity \in Int
    BY <1>2, <2>1, <2>2
  <2>4. y \div BucketTime = q - Capacity
    BY <2>3, QuotientIs
  <2>5. y \div BucketTime <= first
    BY <1>4, <1>6, <2>2, QuotientMonotone
  <2> QED
    BY <2>1, <2>4, <2>5 DEF BucketOf
<1> QED
  BY <1>4, <1>5, <1>6, <1>7, <1>8 DEF FirstBucket, BucketOf

LEMMA PointsAreKnown ==
  ASSUME HistoryInv, NEW w \in Windows
  PROVE  /\ \A q \in Points(w) :
              q.bucketIndex \in Known(w) /\ q = Summary(q.bucketIndex, In(q.bucketIndex))
         /\ \A b \in Known(w) : Summary(b, In(b)) \in Points(w)
<1> USE HistoryAssumption
<1> DEFINE first == FirstBucket(w)
           now == BucketOf(clock)
<1>1. first \in Int /\ now \in Nat /\ first <= now /\ now <= first + Capacity
  BY WindowReach
<1>2. ASSUME NEW q \in Points(w)
      PROVE  q.bucketIndex \in Known(w) /\ q = Summary(q.bucketIndex, In(q.bucketIndex))
  <2>1. PICK p \in Positions : q = slots[p] /\ slots[p] # NoSlot /\ slots[p].bucketIndex >= first
    BY DEF Points, PointsSince
  <2>2. PICK b \in 0..now : Latest(p, b) /\ slots[p] = Summary(b, In(b))
    BY <2>1 DEF HistoryInv, HoldsNone, HoldsLatest
  <2>3. q.bucketIndex = b
    BY <2>1, <2>2 DEF Summary, Slot
  <2>4. b \in first..now
    BY <1>1, <2>1, <2>2, <2>3
  <2>5. In(b + Capacity) = {}
    <3> SUFFICES ASSUME NEW s \in samples, BucketOf(s.time) = b + Capacity PROVE FALSE
      BY DEF In
    <3>1. (b + Capacity) % Capacity = p
      <4>1. b \in Int /\ b % Capacity = p
        BY <2>2 DEF Latest
      <4> QED
        BY <4>1, SamePosition
    <3>2. b + Capacity <= b
      BY <2>2, <3>1 DEF Latest
    <3> QED
      BY <2>2, <3>2
  <2>6. In(b) # {}
    BY <2>2 DEF Latest
  <2> QED
    BY <2>1, <2>2, <2>3, <2>4, <2>5, <2>6 DEF Known
<1>3. ASSUME NEW b \in Known(w) PROVE Summary(b, In(b)) \in Points(w)
  <2>1. b \in first..now /\ In(b) # {} /\ In(b + Capacity) = {}
    BY DEF Known
  <2>2. PICK x \in samples : BucketOf(x.time) = b
    BY <2>1 DEF In
  <2>3. b \in Nat /\ b % Capacity \in Positions
    <3>1. x.time \in Nat
      BY DEF HistoryInv, SamplesInOrder
    <3> QED
      BY <2>2, <3>1, Buckets
  <2>4. PICK p \in Positions : p = b % Capacity
    BY <2>3
  <2>5. ~HoldsNone(p)
    BY <2>2, <2>4 DEF HoldsNone
  <2>6. PICK c \in 0..now : Latest(p, c) /\ slots[p] = Summary(c, In(c))
    BY <2>5 DEF HistoryInv, HoldsLatest
  <2>7. b <= c
    BY <2>2, <2>4, <2>6 DEF Latest
  <2>8. c = b
    <3>1. CASE b < c
      <4>1. b + Capacity <= c
        <5>1. b \in Int /\ c \in Int /\ b % Capacity = c % Capacity
          BY <2>3, <2>4, <2>6 DEF Latest
        <5> QED
          BY <3>1, <5>1, RingApart
      <4>2. c = b + Capacity
        BY <1>1, <2>1, <2>6, <4>1
      <4> QED
        BY <2>1, <2>6, <4>2 DEF Latest
    <3> QED
      BY <2>3, <2>6, <2>7, <3>1
  <2>9. slots[p] = Summary(b, In(b)) /\ slots[p].bucketIndex = b
    BY <2>6, <2>8 DEF Summary, Slot
  <2>10. slots[p] # NoSlot
    BY <2>3, <2>9 DEF NoSlot
  <2>11. slots[p].bucketIndex >= first
    BY <1>1, <2>1, <2>3, <2>9
  <2> QED
    BY <2>9, <2>10, <2>11 DEF Points, PointsSince
<1> QED
  BY <1>2, <1>3

LEMMA PointsCounted ==
  ASSUME HistoryInv, NEW w \in Windows
  PROVE  /\ IsFiniteSet(Points(w)) /\ Cardinality(Points(w)) \in Nat
         /\ Cardinality(Points(w)) <= BucketOf(clock) - FirstBucket(w) + 1
<1> DEFINE first == FirstBucket(w)
           now == BucketOf(clock)
           g == [b \in Known(w) |-> Summary(b, In(b))]
<1>1. first \in Int /\ now \in Nat /\ first <= now
  BY WindowReach
<1>2. IsFiniteSet(first..now) /\ Cardinality(first..now) = now - first + 1
  <2> HIDE DEF first, now
  <2> QED
    BY <1>1, FS_Interval
<1>3. Known(w) \in SUBSET (first..now)
  BY DEF Known
<1>4. IsFiniteSet(Known(w)) /\ Cardinality(Known(w)) <= now - first + 1
  BY <1>2, <1>3, FS_Subset
<1>5. Points(w) = {g[b] : b \in Known(w)}
  BY PointsAreKnown
<1>6. IsFiniteSet(Points(w)) /\ Cardinality(Points(w)) <= Cardinality(Known(w))
  <2> HIDE DEF g
  <2> QED
    BY <1>4, <1>5, FiniteImage
<1>7. Cardinality(Points(w)) \in Nat /\ Cardinality(Known(w)) \in Nat
  BY <1>4, <1>6, FS_CardinalityType
<1> QED
  BY <1>1, <1>4, <1>6, <1>7

(* Rows: no point's row is beyond the last one.                            *)
LEMMA RowsInRange ==
  ASSUME HistoryInv, NEW w \in Windows, NEW p \in Points(w)
  PROVE  RowOf(w, p) \in 0..Rows - 1
<1> USE HistoryAssumption
<1> DEFINE below == {q \in Points(w) : q.bucketIndex < p.bucketIndex}
<1>1. PICK n \in Nat : n = Cardinality(Points(w))
  BY PointsCounted
<1>2. PICK rank \in Nat : rank = Cardinality(below) /\ rank < n
  <2>1. p.bucketIndex \in Int
    BY PointsAreKnown, WindowReach DEF Known
  <2>2. below \subseteq Points(w) \ {p}
    BY <2>1
  <2>3. IsFiniteSet(Points(w) \ {p}) /\ Cardinality(Points(w) \ {p}) = n - 1
    BY <1>1, PointsCounted, FS_RemoveElement
  <2>4. IsFiniteSet(below) /\ Cardinality(below) <= n - 1
    <3> HIDE DEF below
    <3> QED
      BY <2>2, <2>3, FS_Subset
  <2>5. Cardinality(below) \in Nat
    BY <2>4, FS_CardinalityType
  <2> HIDE DEF below
  <2> QED
    BY <1>1, <2>4, <2>5
<1>3. PICK k \in Nat \ {0} : k = PointsPerRow(w) /\ k * Rows >= n
  <2>1. PICK q \in Int, r \in 0..Rows - 1 :
          (n + Rows - 1) \div Rows = q /\ n + Rows - 1 = Rows * q + r
    <3>1. n + Rows - 1 \in Int
      OBVIOUS
    <3> QED
      BY <3>1, Quotient
  <2>2. Rows * q >= n
    BY <2>1
  <2>3. PointsPerRow(w) = Larger(1, q)
    BY <1>1, <2>1 DEF PointsPerRow
  <2>4. PICK k \in Nat \ {0} : k = Larger(1, q) /\ k >= q
    BY DEF Larger
  <2>5. k * Rows >= Rows * q
    BY <2>4
  <2>6. k * Rows >= n
    BY <2>2, <2>5
  <2> QED
    BY <2>3, <2>4, <2>6
<1>4. PICK j \in Int, t \in 0..k - 1 : rank \div k = j /\ rank = k * j + t
  BY Quotient
<1>5. j >= 0
  <2>1. CASE j <= -1
    <3>1. k * j <= -k
      BY <2>1
    <3> QED
      BY <1>4, <3>1
  <2> QED
    BY <2>1
<1>6. j < Rows
  <2>1. CASE j >= Rows
    <3>1. k * j >= k * Rows
      BY <2>1
    <3> QED
      BY <1>2, <1>3, <1>4, <3>1
  <2> QED
    BY <2>1
<1>7. RowOf(w, p) = j
  BY <1>2, <1>3, <1>4 DEF RowOf
<1> QED
  BY <1>5, <1>6, <1>7

LEMMA RowsCounted ==
  ASSUME HistoryInv, NEW w \in Windows
  PROVE  Cardinality(RowsOf(w)) <= Rows
<1> USE HistoryAssumption
<1> DEFINE numbers == {RowOf(w, p) : p \in Points(w)}
           row == [i \in numbers |-> {q \in Points(w) : RowOf(w, q) = i}]
<1>1. numbers \in SUBSET (0..Rows - 1)
  BY RowsInRange
<1>2. IsFiniteSet(0..Rows - 1) /\ Cardinality(0..Rows - 1) = Rows
  BY FS_Interval
<1>3. IsFiniteSet(numbers) /\ Cardinality(numbers) <= Rows
  <2> HIDE DEF numbers
  <2> QED
    BY <1>1, <1>2, FS_Subset
<1>4. RowsOf(w) = {row[i] : i \in numbers}
  BY DEF RowsOf
<1>5. IsFiniteSet(RowsOf(w)) /\ Cardinality(RowsOf(w)) <= Cardinality(numbers)
  <2> HIDE DEF row, numbers
  <2> QED
    BY <1>3, <1>4, FiniteImage
<1>6. Cardinality(RowsOf(w)) \in Nat /\ Cardinality(numbers) \in Nat
  BY <1>3, <1>5, FS_CardinalityType
<1> QED
  BY <1>3, <1>5, <1>6

(* What is merged of some points is what all of their samples say.         *)
LEMMA MergeIsTruth ==
  ASSUME HistoryInv, NEW w \in Windows, NEW points \in SUBSET Points(w), points # {}
  PROVE  Merge(points) = Truth(UNION {In(q.bucketIndex) : q \in points})
<1> DEFINE part == [q \in points |-> In(q.bucketIndex)]
           all == UNION {In(q.bucketIndex) : q \in points}
<1>1. IsFiniteSet(points)
  BY PointsCounted, FS_Subset
<1>2. all = UNION {part[q] : q \in points}
  OBVIOUS
<1>3. IsFiniteSet(samples) /\ \A s \in samples : s.value \in Int
  BY HistoryAssumption DEF HistoryInv, SamplesInOrder
<1>4. \A q \in points : IsFiniteSet(part[q]) /\ part[q] # {} /\ part[q] \subseteq samples
  <2> SUFFICES ASSUME NEW q \in points
               PROVE  IsFiniteSet(part[q]) /\ part[q] # {} /\ part[q] \subseteq samples
    OBVIOUS
  <2>1. In(q.bucketIndex) # {} /\ In(q.bucketIndex) \subseteq samples
    BY PointsAreKnown DEF Known, In
  <2> QED
    BY <1>3, <2>1, FS_Subset
<1>5. all \in SUBSET samples /\ all # {}
  BY <1>2, <1>4
<1>6. IsFiniteSet(all)
  BY <1>3, <1>5, FS_Subset
<1>7. \A p, q \in points : p # q => part[p] \cap part[q] = {}
  <2> SUFFICES ASSUME NEW p \in points, NEW q \in points, NEW s \in part[p], s \in part[q]
               PROVE  p = q
    OBVIOUS
  <2>1. p.bucketIndex = q.bucketIndex
    BY DEF In
  <2> QED
    BY <2>1, PointsAreKnown
<1>8. \A q \in points :
        /\ q.min = Min(ValuesOf(part[q])) /\ q.max = Max(ValuesOf(part[q]))
        /\ q.sum = SumOver(ValueOf(part[q]), part[q]) /\ q.count = Cardinality(part[q])
  <2> SUFFICES ASSUME NEW q \in points
        PROVE  /\ q.min = Min(ValuesOf(part[q])) /\ q.max = Max(ValuesOf(part[q]))
               /\ q.sum = SumOver(ValueOf(part[q]), part[q]) /\ q.count = Cardinality(part[q])
    OBVIOUS
  <2>1. q = Summary(q.bucketIndex, part[q])
    BY PointsAreKnown
  <2>2. /\ q.min = Truth(part[q]).min /\ q.max = Truth(part[q]).max
        /\ q.sum = Truth(part[q]).sum /\ q.count = Truth(part[q]).count
    <3> HIDE DEF part
    <3> QED
      BY <2>1 DEF Summary, Slot
  <2> HIDE DEF part
  <2> QED
    BY <2>2, TruthIs
<1> HIDE DEF part, all
<1>9. \A q \in points :
        /\ Least(q.min, ValuesOf(part[q])) /\ Greatest(q.max, ValuesOf(part[q]))
        /\ ValuesOf(part[q]) \subseteq ValuesOf(all)
  <2> SUFFICES ASSUME NEW q \in points
        PROVE  /\ Least(q.min, ValuesOf(part[q])) /\ Greatest(q.max, ValuesOf(part[q]))
               /\ ValuesOf(part[q]) \subseteq ValuesOf(all)
    OBVIOUS
  <2>1. IsFiniteSet(ValuesOf(part[q]))
    BY <1>4, ValuesAreFinite
  <2>2. (\A v \in ValuesOf(part[q]) : v \in Int) /\ ValuesOf(part[q]) # {}
    BY <1>3, <1>4 DEF ValuesOf
  <2>3. Least(Min(ValuesOf(part[q])), ValuesOf(part[q]))
          /\ Greatest(Max(ValuesOf(part[q])), ValuesOf(part[q]))
    BY <2>1, <2>2, FiniteExtremes
  <2>4. ValuesOf(part[q]) \subseteq ValuesOf(all)
    BY <1>2 DEF ValuesOf
  <2> QED
    BY <1>8, <2>3, <2>4
<1>10. ValuesOf(all) \in SUBSET Int /\ \A v \in ValuesOf(all) : \E q \in points : v \in ValuesOf(part[q])
  BY <1>2, <1>3, <1>5 DEF ValuesOf
<1> DEFINE Lows == {q.min : q \in points}
           Highs == {q.max : q \in points}
<1>11. IsFiniteSet(Lows) /\ IsFiniteSet(Highs)
  <2>1. Lows = {[q \in points |-> q.min][p] : p \in points}
    OBVIOUS
  <2>2. Highs = {[q \in points |-> q.max][p] : p \in points}
    OBVIOUS
  <2> HIDE DEF Lows, Highs
  <2> QED
    BY <1>1, <2>1, <2>2, FiniteImage
<1>12. \A q \in points : q.min \in Int /\ q.max \in Int
  BY <1>9, <1>10 DEF Least, Greatest
<1>13. Min(Lows) = Min(ValuesOf(all))
  <2>1. Lows # {} /\ \A v \in Lows : v \in Int
    BY <1>12
  <2>2. Least(Min(Lows), Lows)
    <3> HIDE DEF Lows
    <3> QED
      BY <1>11, <2>1, FiniteExtremes
  <2>3. PICK q \in points : Min(Lows) = q.min
    BY <2>2 DEF Least
  <2>4. Min(Lows) \in ValuesOf(all)
    BY <1>9, <2>3 DEF Least
  <2>5. \A v \in ValuesOf(all) : Min(Lows) <= v
    <3> SUFFICES ASSUME NEW v \in ValuesOf(all) PROVE Min(Lows) <= v
      OBVIOUS
    <3>1. PICK p \in points : v \in ValuesOf(part[p])
      BY <1>10
    <3>2. p.min <= v
      BY <1>9, <3>1 DEF Least
    <3>3. Min(Lows) <= p.min
      BY <2>2 DEF Least
    <3>4. Min(Lows) \in Int /\ p.min \in Int /\ v \in Int
      BY <1>10, <1>12, <2>4
    <3> HIDE DEF Lows
    <3> QED
      BY <3>2, <3>3, <3>4
  <2>6. Least(Min(Lows), ValuesOf(all))
    BY <2>4, <2>5 DEF Least
  <2> HIDE DEF Lows
  <2> QED
    BY <1>10, <2>6, Extremes
<1>14. Max(Highs) = Max(ValuesOf(all))
  <2>1. Highs # {} /\ \A v \in Highs : v \in Int
    BY <1>12
  <2>2. Greatest(Max(Highs), Highs)
    <3> HIDE DEF Highs
    <3> QED
      BY <1>11, <2>1, FiniteExtremes
  <2>3. PICK q \in points : Max(Highs) = q.max
    BY <2>2 DEF Greatest
  <2>4. Max(Highs) \in ValuesOf(all)
    BY <1>9, <2>3 DEF Greatest
  <2>5. \A v \in ValuesOf(all) : Max(Highs) >= v
    <3> SUFFICES ASSUME NEW v \in ValuesOf(all) PROVE Max(Highs) >= v
      OBVIOUS
    <3>1. PICK p \in points : v \in ValuesOf(part[p])
      BY <1>10
    <3>2. p.max >= v
      BY <1>9, <3>1 DEF Greatest
    <3>3. Max(Highs) >= p.max
      BY <2>2 DEF Greatest
    <3>4. Max(Highs) \in Int /\ p.max \in Int /\ v \in Int
      BY <1>10, <1>12, <2>4
    <3> HIDE DEF Highs
    <3> QED
      BY <3>2, <3>3, <3>4
  <2>6. Greatest(Max(Highs), ValuesOf(all))
    BY <2>4, <2>5 DEF Greatest
  <2> HIDE DEF Highs
  <2> QED
    BY <1>10, <2>6, Extremes
<1>15. Total([q \in points |-> q.sum]) = SumOver(ValueOf(all), all)
  <2> DEFINE h == [q \in points |-> q.sum]
  <2>1. Total(h) = SumOver(h, points)
    <3>1. DOMAIN h = points
      OBVIOUS
    <3> HIDE DEF h
    <3> QED
      BY <3>1 DEF Total, SumOver
  <2>2. \A q \in points : \A s \in part[q] :
          ValueOf(all)[s] = ValueOf(part[q])[s] /\ ValueOf(all)[s] \in Int
    BY <1>2, <1>3, <1>4 DEF ValueOf
  <2>3. \A q \in points : h[q] = SumOver(ValueOf(all), part[q])
    <3> SUFFICES ASSUME NEW q \in points PROVE h[q] = SumOver(ValueOf(all), part[q])
      OBVIOUS
    <3>1. SumOver(ValueOf(all), part[q]) = SumOver(ValueOf(part[q]), part[q])
      BY <1>4, <2>2, SumsAgree
    <3> QED
      BY <1>8, <3>1
  <2> HIDE DEF h
  <2>4. SumOver(h, points) = SumOver(ValueOf(all), UNION {part[q] : q \in points})
    BY <1>1, <1>4, <1>7, <2>2, <2>3, SumOfParts
  <2> QED
    BY <1>2, <2>1, <2>4 DEF h
<1>16. Total([q \in points |-> q.count]) = Cardinality(all)
  <2> DEFINE h == [q \in points |-> q.count]
             ones == [s \in samples |-> 1]
  <2>1. Total(h) = SumOver(h, points)
    <3>1. DOMAIN h = points
      OBVIOUS
    <3> HIDE DEF h
    <3> QED
      BY <3>1 DEF Total, SumOver
  <2>2. \A q \in points : \A s \in part[q] : ones[s] = 1
    BY <1>4
  <2>3. \A q \in points : h[q] = SumOver(ones, part[q])
    <3> SUFFICES ASSUME NEW q \in points PROVE h[q] = SumOver(ones, part[q])
      OBVIOUS
    <3>1. h[q] = Cardinality(part[q])
      BY <1>8
    <3> HIDE DEF h, ones
    <3> QED
      BY <1>4, <2>2, <3>1, SumOfOnes
  <2>4. \A s \in all : ones[s] = 1
    BY <1>5
  <2> HIDE DEF h, ones
  <2>5. SumOver(h, points) = SumOver(ones, UNION {part[q] : q \in points})
    <3>1. \A q \in points : \A s \in part[q] : ones[s] \in Int
      BY <2>2
    <3> QED
      BY <1>1, <1>4, <1>7, <2>3, <3>1, SumOfParts
  <2>6. SumOver(ones, all) = Cardinality(all)
    BY <1>6, <2>4, SumOfOnes
  <2> QED
    BY <1>2, <2>1, <2>5, <2>6 DEF h
<1>17. Truth(all) = [min |-> Min(ValuesOf(all)), max |-> Max(ValuesOf(all)),
                     sum |-> SumOver(ValueOf(all), all), count |-> Cardinality(all)]
  BY TruthIs DEF Truth
<1> QED
  BY <1>13, <1>14, <1>15, <1>16, <1>17 DEF Merge, all

(* At most one gap is not counted, and none is invented.                   *)
LEMMA GapsAreCounted ==
  ASSUME HistoryInv, NEW w \in Windows
  PROVE  LET missing == BucketOf(clock) - FirstBucket(w) + 1 - Cardinality(Points(w))
         IN Gaps(w) \in (missing - 1)..missing
<1> USE HistoryAssumption
<1>1. PICK since \in Int : since = Since(w) /\ since <= clock
  BY WindowReach
<1>2. clock \in Nat
  BY DEF HistoryInv
<1>3. PICK n \in Nat : n = Cardinality(Points(w))
  BY PointsCounted
<1>4. PICK first \in Int, r \in 0..BucketTime - 1 :
        since \div BucketTime = first /\ since = BucketTime * first + r
  BY Quotient
<1>5. PICK now \in Int, t \in 0..BucketTime - 1 :
        clock \div BucketTime = now /\ clock = BucketTime * now + t
  BY <1>2, Quotient
<1>6. FirstBucket(w) = first /\ BucketOf(clock) = now
  BY <1>1, <1>4, <1>5 DEF FirstBucket, BucketOf
<1>7. PICK up \in Int, u \in 0..BucketTime - 1 :
        /\ (clock - since + BucketTime - 1) \div BucketTime = up
        /\ clock - since + BucketTime - 1 = BucketTime * up + u
  <2>1. clock - since + BucketTime - 1 \in Int
    BY <1>2
  <2> QED
    BY <2>1, Quotient
<1>8. BucketTime * (up - (now - first)) = t - r + BucketTime - 1 - u
  BY <1>2, <1>4, <1>5, <1>7
<1>9. up - (now - first) \in 0..1
  <2>1. CASE up - (now - first) >= 2
    <3>1. BucketTime * (up - (now - first)) >= 2 * BucketTime
      BY <2>1
    <3> QED
      BY <1>8, <3>1
  <2>2. CASE up - (now - first) <= -1
    <3>1. BucketTime * (up - (now - first)) <= -BucketTime
      BY <2>2
    <3> QED
      BY <1>8, <3>1
  <2> QED
    BY <2>1, <2>2
<1>10. first <= now /\ n <= now - first + 1
  BY <1>3, <1>6, WindowReach, PointsCounted
<1>11. ExpectedBuckets(w) = Larger(1, up)
  BY <1>1, <1>7 DEF ExpectedBuckets
<1>12. Gaps(w) = Larger(0, Larger(1, up) - n)
  BY <1>3, <1>11 DEF Gaps
<1>13. Larger(0, Larger(1, up) - n) \in (now - first + 1 - n - 1)..(now - first + 1 - n)
  BY <1>9, <1>10 DEF Larger
<1> QED
  BY <1>3, <1>6, <1>12, <1>13

LEMMA HistoryInvIsExact == HistoryInv => WindowIsExact
<1> SUFFICES ASSUME HistoryInv, NEW w \in Windows
             PROVE  /\ {q.bucketIndex : q \in Points(w)} = Known(w)
                    /\ \A q \in Points(w) :
                         [min |-> q.min, max |-> q.max, sum |-> q.sum, count |-> q.count]
                           = Truth(In(q.bucketIndex))
                    /\ Cardinality(RowsOf(w)) <= Rows
                    /\ \A row \in RowsOf(w) :
                         Merge(row) = Truth(UNION {In(q.bucketIndex) : q \in row})
                    /\ LET missing == BucketOf(clock) - FirstBucket(w) + 1 - Cardinality(Points(w))
                       IN Gaps(w) \in (missing - 1)..missing
  BY DEF WindowIsExact
<1>1. {q.bucketIndex : q \in Points(w)} = Known(w)
  <2>1. \A b \in Known(w) : \E q \in Points(w) : q.bucketIndex = b
    <3> SUFFICES ASSUME NEW b \in Known(w) PROVE \E q \in Points(w) : q.bucketIndex = b
      OBVIOUS
    <3>1. Summary(b, In(b)).bucketIndex = b
      BY DEF Summary, Slot
    <3> QED
      BY <3>1, PointsAreKnown
  <2> QED
    BY <2>1, PointsAreKnown
<1>2. ASSUME NEW q \in Points(w)
      PROVE  [min |-> q.min, max |-> q.max, sum |-> q.sum, count |-> q.count]
               = Truth(In(q.bucketIndex))
  <2> DEFINE of == In(q.bucketIndex)
  <2>1. q = Summary(q.bucketIndex, of)
    BY PointsAreKnown
  <2>2. /\ q.min = Truth(of).min /\ q.max = Truth(of).max
        /\ q.sum = Truth(of).sum /\ q.count = Truth(of).count
    <3> HIDE DEF of
    <3> QED
      BY <2>1 DEF Summary, Slot
  <2>3. Truth(of) = [min |-> Truth(of).min, max |-> Truth(of).max,
                     sum |-> Truth(of).sum, count |-> Truth(of).count]
    <3> HIDE DEF of
    <3> QED
      BY DEF Truth
  <2> QED
    BY <2>2, <2>3
<1>3. ASSUME NEW row \in RowsOf(w)
      PROVE  Merge(row) = Truth(UNION {In(q.bucketIndex) : q \in row})
  <2>1. row \in SUBSET Points(w) /\ row # {}
    BY DEF RowsOf
  <2> QED
    BY <2>1, MergeIsTruth
<1> QED
  BY <1>1, <1>2, <1>3, RowsCounted, GapsAreCounted

(* Whenever samples come and whenever the recorder starts, stops or loses  *)
(* its feed: a window shows the buckets that were sampled, each with what  *)
(* its own samples say whatever its slot held before, the rows of the      *)
(* concise table neither lose nor double a sample and are no more than     *)
(* promised, and no gap is invented (add, window, foldRows).               *)
THEOREM WindowsExact == TelemetrySpec => []WindowIsExact
<1>1. TelemetrySpec => []HistoryInv
  BY HistoryInitially, HistoryStepKeepsInv, PTL DEF TelemetrySpec
<1> QED
  BY <1>1, HistoryInvIsExact, PTL
=============================================================================
