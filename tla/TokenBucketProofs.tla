--------------------------- MODULE TokenBucketProofs ---------------------------
(***************************************************************************)
(* Proofs about the rate limiter, for any callers, capacity, rate and      *)
(* window, and any setting back of the clock: what the bucket holds, and   *)
(* how many requests it lets through within a window.                      *)
(***************************************************************************)
EXTENDS TokenBucket, FiniteSetTheorems, TLAPS

LEMMA FullIsNat == Full \in Nat /\ TokenTime \in Nat \ {0}
BY BucketAssumption DEF Full

(* refill() leaves what the bucket may hold, and marks the present time.   *)
LEMMA RefillInBounds ==
  ASSUME TypeOK
  PROVE  Refilled \in -setBack..Full /\ Refilled \in Int
BY FullIsNat, BucketAssumption DEF TypeOK, Refilled, Least

LEMMA Initially == Init => TypeOK
BY FullIsNat, BucketAssumption DEF Init, TypeOK, Awake

LEMMA GrantedKeepsType ==
  ASSUME TypeOK, Granted
  PROVE  recent' \in [1..Window -> Nat]
<1>1. 0 \in 0..Window - 1
  BY BucketAssumption
<1> QED
  BY <1>1 DEF TypeOK, Granted

LEMMA Step == TypeOK /\ [Next]_vars => TypeOK'
<1> SUFFICES ASSUME TypeOK, [Next]_vars PROVE TypeOK'
  OBVIOUS
<1> USE FullIsNat, BucketAssumption
<1>0. Refilled \in -setBack..Full /\ Refilled \in Int /\ setBack \in Nat
  BY RefillInBounds DEF TypeOK
<1>1. ASSUME NEW c \in Callers, AcquireNow(c) PROVE TypeOK'
  <2>1. tokens' = Refilled - TokenTime /\ elapsed' = 0 /\ tokens' >= 0
    BY <1>1, <1>0 DEF AcquireNow, MarkRefill
  <2> QED
    BY <1>0, <1>1, <2>1, GrantedKeepsType DEF AcquireNow, TypeOK
<1>2. ASSUME NEW c \in Callers, AcquireSleeps(c) PROVE TypeOK'
  <2>1. tokens' = Refilled /\ elapsed' = 0
    BY <1>2 DEF AcquireSleeps, MarkRefill
  <2>2. UntilNextToken \in 0..MaxWait
    BY <1>0, <1>2 DEF AcquireSleeps, UntilNextToken
  <2>3. waiting' \in [Callers -> {Awake} \union 0..MaxWait]
    BY <1>2, <2>2 DEF AcquireSleeps, TypeOK
  <2> QED
    BY <1>0, <1>2, <2>1, <2>3 DEF AcquireSleeps, TypeOK
<1>3. ASSUME NEW c \in Callers, AcquireThrows(c) PROVE TypeOK'
  BY <1>0, <1>3 DEF AcquireThrows, MarkRefill, TypeOK
<1>4. ASSUME NEW c \in Callers, Wake(c) PROVE TypeOK'
  <2>1. tokens' \in 0..Full /\ elapsed' = 0
    BY <1>0, <1>4 DEF Wake, MarkRefill, AtLeastZero
  <2>2. waiting' \in [Callers -> {Awake} \union 0..MaxWait]
    BY <1>4 DEF Wake, TypeOK
  <2> QED
    BY <1>0, <1>4, <2>1, <2>2, GrantedKeepsType DEF Wake, TypeOK
<1>5. CASE Tick
  <2>1. /\ elapsed' \in -setBack..Full + MaxBack
        /\ elapsed' >= elapsed \/ elapsed' = Full + MaxBack
    BY <1>0, <1>5 DEF Tick, TypeOK, Least
  <2>2. waiting' \in [Callers -> {Awake} \union 0..MaxWait]
    BY <1>5 DEF Tick, TypeOK, Awake
  <2>3. recent' \in [1..Window -> Nat]
    BY <1>5 DEF Tick, TypeOK
  <2> QED
    BY <1>0, <1>5, <2>1, <2>2, <2>3 DEF Tick, TypeOK
<1>6. ASSUME NEW ticks \in 1..MaxBack, ClockSetBack(ticks) PROVE TypeOK'
  BY <1>0, <1>6 DEF ClockSetBack, TypeOK
<1>7. CASE UNCHANGED vars
  BY <1>7 DEF vars, TypeOK
<1> QED
  BY <1>1, <1>2, <1>3, <1>4, <1>5, <1>6, <1>7 DEF Next

(* The bucket is never overfull, and overdrawn by no more than the host's  *)
(* clock was set back, whatever the callers and late timers do.            *)
THEOREM TypeCorrect == Spec => []TypeOK
BY Initially, Step, PTL DEF Spec
-----------------------------------------------------------------------------
(* Division by a token time.                                               *)
LEMMA Quotient ==
  ASSUME NEW x \in Int, NEW d \in Nat \ {0}
  PROVE  \E q \in Int, r \in 0..d - 1 : x \div d = q /\ x % d = r /\ x = d * q + r
<1>1. /\ x \div d \in Int /\ x % d \in 0..d - 1
      /\ x % d = x - d * (x \div d)
  OBVIOUS
<1>2. PICK q \in Int, r \in 0..d - 1 : q = x \div d /\ r = x % d /\ r = x - d * q
  BY <1>1
<1>3. x = d * q + r
  BY <1>2
<1> QED BY <1>2, <1>3

LEMMA QuotientIs ==
  ASSUME NEW x \in Int, NEW d \in Nat \ {0}, NEW q \in Int, NEW r \in 0..d - 1,
         x = d * q + r
  PROVE  x \div d = q /\ x % d = r
<1>1. PICK p \in Int, t \in 0..d - 1 : x \div d = p /\ x % d = t /\ x = d * p + t
  BY Quotient
<1>2. d * (p - q) = r - t
  BY <1>1
<1>3. p - q = 0
  <2>1. CASE p - q >= 1
    <3>1. d * (p - q) >= d
      BY <2>1
    <3> QED BY <1>2, <3>1
  <2>2. CASE p - q <= -1
    <3>1. d * (p - q) <= -d
      BY <2>2
    <3> QED BY <1>2, <3>1
  <2> QED BY <2>1, <2>2
<1>4. p = q /\ t = r
  BY <1>2, <1>3
<1> QED BY <1>1, <1>4

LEMMA QuotientUp ==
  ASSUME NEW x \in Int, NEW d \in Nat \ {0}
  PROVE  (x + d) \div d = x \div d + 1
<1>1. PICK q \in Int, r \in 0..d - 1 : x \div d = q /\ x % d = r /\ x = d * q + r
  BY Quotient
<1>2. PICK y \in Int : y = x + d
  OBVIOUS
<1>3. y = d * (q + 1) + r
  BY <1>1, <1>2
<1>4. y \div d = q + 1
  BY <1>3, QuotientIs
<1> QED BY <1>1, <1>2, <1>4

LEMMA QuotientMonotone ==
  ASSUME NEW x \in Int, NEW y \in Int, NEW d \in Nat \ {0}, x <= y
  PROVE  x \div d <= y \div d
<1>1. PICK p \in Int, r \in 0..d - 1 : x \div d = p /\ x = d * p + r
  BY Quotient
<1>2. PICK q \in Int, s \in 0..d - 1 : y \div d = q /\ y = d * q + s
  BY Quotient
<1>3. CASE p >= q + 1
  <2>1. d * p >= d * (q + 1)
    BY <1>3
  <2> QED BY <1>1, <1>2, <2>1
<1> QED BY <1>1, <1>2, <1>3

LEMMA QuotientMinus ==
  ASSUME NEW x \in Int, NEW d \in Nat \ {0}, NEW v \in 0..d - 1
  PROVE  (x - v) \div d = IF x % d >= v THEN x \div d ELSE x \div d - 1
<1>1. PICK q \in Int, r \in 0..d - 1 : x \div d = q /\ x % d = r /\ x = d * q + r
  BY Quotient
<1>2. PICK y \in Int : y = x - v
  OBVIOUS
<1>3. CASE r >= v
  <2>1. y = d * q + (r - v) /\ r - v \in 0..d - 1
    BY <1>1, <1>2, <1>3
  <2>2. y \div d = q
    BY <2>1, QuotientIs
  <2> QED BY <1>1, <1>2, <1>3, <2>2
<1>4. CASE r < v
  <2>1. y = d * (q - 1) + (r - v + d) /\ r - v + d \in 0..d - 1 /\ q - 1 \in Int
    BY <1>1, <1>2, <1>4
  <2>2. y \div d = q - 1
    BY <2>1, QuotientIs
  <2> QED BY <1>1, <1>2, <1>4, <2>2
<1> QED BY <1>3, <1>4

LEMMA QuotientPred ==
  ASSUME NEW x \in Int, NEW d \in Nat \ {0}
  PROVE  IF x % d = 0 THEN (x - 1) \div d = x \div d - 1
         ELSE (x - 1) \div d = x \div d /\ (x - 1) % d = (x % d) - 1
<1>1. PICK q \in Int, r \in 0..d - 1 : x \div d = q /\ x % d = r /\ x = d * q + r
  BY Quotient
<1>2. PICK y \in Int : y = x - 1
  OBVIOUS
<1>3. CASE r = 0
  <2>1. y = d * (q - 1) + (d - 1) /\ d - 1 \in 0..d - 1 /\ q - 1 \in Int
    BY <1>1, <1>2, <1>3
  <2>2. y \div d = q - 1
    BY <2>1, QuotientIs
  <2> QED BY <1>1, <1>2, <1>3, <2>2
<1>4. CASE r # 0
  <2>1. y = d * q + (r - 1) /\ r - 1 \in 0..d - 1
    BY <1>1, <1>2, <1>4
  <2>2. y \div d = q /\ y % d = r - 1
    BY <2>1, QuotientIs
  <2> QED BY <1>1, <1>2, <1>4, <2>2
<1> QED BY <1>3, <1>4
-----------------------------------------------------------------------------
(* The argument for the window.  Had the clock not been set back, the      *)
(* bucket would hold some level.  Of the last k ticks, the bucket bears    *)
(* its capacity and what was refilled, less that level; a caller that the  *)
(* bucket does not bear comes at most once in a token time, for it sleeps  *)
(* until there is a token, and whoever finds none leaves the bucket empty. *)
(* One caller is always borne by the bucket alone: one that is awake, or,  *)
(* when all sleep, the last who began to.                                  *)
Others(borne) == Callers \ {borne}

(* Whole token times, and the ticks beyond them, among the last k.         *)
Rounds(k) == (k - 1) \div TokenTime
Beyond(k) == (k - 1) % TokenTime

(* What the bucket bears.                                                  *)
Borne(level, k) == Capacity + ((k - 1 - level) \div TokenTime)

(* The others who may have come once more than the whole token times.      *)
Due(level, borne, k) ==
  {c \in Others(borne) : IF waiting[c] = Awake THEN Beyond(k) >= level
                         ELSE waiting[c] + Beyond(k) >= TokenTime}

Most(level, borne, k) ==
  Borne(level, k) + (Cardinality(Callers) - 1) * Rounds(k) + Cardinality(Due(level, borne, k))

Asleep == \A c \in Callers : waiting[c] # Awake

Bears(level, borne) ==
  /\ Refilled <= level
  /\ waiting[borne] = Awake \/ (Asleep /\ waiting[borne] + level >= TokenTime)
  /\ \A k \in 1..Window : recent[k] <= Most(level, borne, k)

WindowInv ==
  IF Callers = {} THEN \A k \in 1..Window : recent[k] = 0
  ELSE \E level \in 0..Full, borne \in Callers : Bears(level, borne)

Inv == TypeOK /\ WindowInv

(* What the terms of the bound are, and how they change.                   *)
LEMMA Terms ==
  ASSUME NEW level \in 0..Full, NEW k \in 1..Window
  PROVE  /\ Rounds(k) \in Nat /\ Beyond(k) \in 0..TokenTime - 1
         /\ Borne(level, k) \in Nat
         /\ level >= TokenTime => Borne(level - TokenTime, k) = Borne(level, k) + 1
         /\ level < TokenTime =>
              Borne(level, k) = Capacity + IF Beyond(k) >= level THEN Rounds(k) ELSE Rounds(k) - 1
         /\ Borne(0, k) = Capacity + Rounds(k)
<1> USE FullIsNat, BucketAssumption
<1>1. k \in Nat /\ k >= 1 /\ level \in Nat /\ level <= Full
  OBVIOUS
<1>2. Rounds(k) \in Int /\ Beyond(k) \in 0..TokenTime - 1
  <2>1. k - 1 \in Int
    BY <1>1
  <2> QED BY <2>1, Quotient DEF Rounds, Beyond
<1>3. Rounds(k) >= 0
  <2>1. 0 \div TokenTime = 0
    <3>1. 0 = TokenTime * 0 + 0 /\ 0 \in 0..TokenTime - 1
      OBVIOUS
    <3> QED BY <3>1, QuotientIs
  <2>2. 0 \div TokenTime <= (k - 1) \div TokenTime
    <3>1. k - 1 \in Int /\ 0 <= k - 1
      BY <1>1
    <3> QED BY <3>1, QuotientMonotone
  <2> QED BY <1>2, <2>1, <2>2 DEF Rounds
<1>4. PICK x \in Int : x = k - 1 - level
  BY <1>1
<1>5. Borne(level, k) \in Int
  BY <1>4, Quotient DEF Borne
<1>6. Borne(level, k) >= 0
  <2>1. PICK y \in Int : y = -Full
    OBVIOUS
  <2>2. y = TokenTime * (-Capacity) + 0 /\ 0 \in 0..TokenTime - 1 /\ -Capacity \in Int
    BY <2>1 DEF Full
  <2>3. y \div TokenTime = -Capacity
    BY <2>2, QuotientIs
  <2>4. y <= x
    BY <1>1, <1>4, <2>1
  <2>5. y \div TokenTime <= x \div TokenTime
    BY <2>4, QuotientMonotone
  <2>6. x \div TokenTime \in Int
    BY Quotient
  <2> QED BY <1>4, <2>3, <2>5, <2>6 DEF Borne
<1>7. Borne(level - TokenTime, k) = Borne(level, k) + 1
  <2>1. k - 1 - (level - TokenTime) = x + TokenTime
    BY <1>1, <1>4
  <2>2. (x + TokenTime) \div TokenTime = x \div TokenTime + 1 /\ x \div TokenTime \in Int
    BY QuotientUp, Quotient
  <2> QED BY <1>4, <2>1, <2>2 DEF Borne
<1>8. ASSUME NEW v \in 0..TokenTime - 1
      PROVE  Borne(v, k) = Capacity + IF Beyond(k) >= v THEN Rounds(k) ELSE Rounds(k) - 1
  <2>1. PICK z \in Int : z = k - 1
    BY <1>1
  <2>2. (z - v) \div TokenTime =
          IF z % TokenTime >= v THEN z \div TokenTime ELSE z \div TokenTime - 1
    BY QuotientMinus
  <2> QED BY <2>1, <2>2 DEF Borne, Beyond, Rounds
<1>9. level < TokenTime => level \in 0..TokenTime - 1
  BY <1>1
<1>10. 0 \in 0..TokenTime - 1
  OBVIOUS
<1> QED BY <1>2, <1>3, <1>5, <1>6, <1>7, <1>8, <1>9, <1>10

(* Sets of callers, counted.                                               *)
LEMMA Counts ==
  ASSUME NEW borne \in Callers, NEW D \in SUBSET Callers
  PROVE  /\ IsFiniteSet(D) /\ Cardinality(D) \in Nat
         /\ Cardinality(Callers) \in Nat /\ Cardinality(Callers) >= 1
         /\ borne \notin D => Cardinality(D) <= Cardinality(Callers) - 1
         /\ \A E \in SUBSET Callers :
              /\ D \subseteq E => Cardinality(D) <= Cardinality(E)
              /\ \A x \in E : x \notin D /\ D \subseteq E => Cardinality(D) < Cardinality(E)
              /\ \A a \in D, x \in E : x \notin D /\ D \ {a} \subseteq E =>
                   Cardinality(D) <= Cardinality(E)
<1> USE BucketAssumption
<1>1. ASSUME NEW S \in SUBSET Callers
      PROVE  IsFiniteSet(S) /\ Cardinality(S) \in Nat
  BY FS_Subset, FS_CardinalityType
<1>2. ASSUME NEW S \in SUBSET Callers, NEW T \in SUBSET Callers, S \subseteq T
      PROVE  Cardinality(S) <= Cardinality(T)
  BY <1>1, <1>2, FS_Subset
<1>3. ASSUME NEW S \in SUBSET Callers, NEW T \in SUBSET Callers, NEW x \in T,
             x \notin S, S \subseteq T
      PROVE  Cardinality(S) < Cardinality(T)
  <2>1. Cardinality(S \cup {x}) = Cardinality(S) + 1
    BY <1>1, <1>3, FS_AddElement
  <2>2. Cardinality(S \cup {x}) <= Cardinality(T)
    BY <1>2, <1>3
  <2> QED BY <1>1, <2>1, <2>2
<1>4. ASSUME NEW E \in SUBSET Callers, NEW a \in D, NEW x \in E, x \notin D, D \ {a} \subseteq E
      PROVE  Cardinality(D) <= Cardinality(E)
  <2>1. Cardinality(D \ {a}) = Cardinality(D) - 1
    BY <1>1, FS_RemoveElement
  <2>2. Cardinality(D \ {a}) < Cardinality(E)
    BY <1>3, <1>4
  <2> QED BY <1>1, <2>1, <2>2
<1>5. Callers \in SUBSET Callers /\ {} \in SUBSET Callers
  OBVIOUS
<1>6. Cardinality({}) = 0
  BY FS_EmptySet
<1>7. Cardinality(Callers) \in Nat /\ Cardinality({}) < Cardinality(Callers)
  BY <1>1, <1>3, <1>5
<1>8. borne \notin D => Cardinality(D) < Cardinality(Callers)
  BY <1>3, <1>5
<1> QED BY <1>1, <1>2, <1>3, <1>4, <1>6, <1>7, <1>8

(* A request is granted, and the bound goes up with it.                    *)
LEMMA GrantedStaysBounded ==
  ASSUME TypeOK, NEW level \in 0..Full, NEW borne \in Callers, Bears(level, borne), Granted,
         NEW l \in 0..Full, NEW b \in Callers, NEW k \in 1..Window,
         \/ /\ Borne(l, k) >= Borne(level, k) + 1
            /\ Cardinality(Due(level, borne, k)) <= Cardinality(Due(l, b, k)')
         \/ /\ Borne(l, k) >= Borne(level, k)
            /\ Cardinality(Due(level, borne, k)) < Cardinality(Due(l, b, k)')
  PROVE  recent'[k] <= Most(l, b, k)'
<1>1. recent'[k] = recent[k] + 1 /\ recent[k] \in Nat
  BY DEF Granted, TypeOK
<1>2. recent[k] <= Most(level, borne, k)
  BY DEF Bears
<1>3. /\ Borne(level, k) \in Nat /\ Borne(l, k) \in Nat /\ Rounds(k) \in Nat
      /\ Cardinality(Callers) \in Nat
      /\ Cardinality(Due(level, borne, k)) \in Nat /\ Cardinality(Due(l, b, k)') \in Nat
  <2>1. /\ Due(level, borne, k) \in SUBSET Callers /\ Due(l, b, k)' \in SUBSET Callers
    BY DEF Due, Others
  <2> QED BY <2>1, Terms, Counts
<1>4. PICK p \in Int : p = (Cardinality(Callers) - 1) * Rounds(k)
  BY <1>3
<1> QED BY <1>1, <1>2, <1>3, <1>4 DEF Most

LEMMA AcquireNowKeepsBound ==
  ASSUME TypeOK, NEW level \in 0..Full, NEW borne \in Callers, Bears(level, borne),
         NEW c \in Callers, AcquireNow(c)
  PROVE  WindowInv'
<1> USE FullIsNat, BucketAssumption
<1>1. /\ Refilled \in Int /\ Refilled >= TokenTime /\ Refilled <= level
      /\ waiting' = waiting /\ waiting[borne] = Awake
  BY RefillInBounds DEF AcquireNow, Bears, Asleep
<1>2. PICK l \in 0..Full : l = level - TokenTime
  BY <1>1
<1>3. Refilled' <= l
  BY <1>1, <1>2 DEF AcquireNow, MarkRefill, Refilled, Least
<1>4. ASSUME NEW k \in 1..Window PROVE recent'[k] <= Most(l, borne, k)'
  <2>1. Beyond(k) \in 0..TokenTime - 1 /\ Borne(l, k) = Borne(level, k) + 1 /\ Borne(level, k) \in Nat
    BY <1>1, <1>2, Terms
  <2>2. Due(level, borne, k) \subseteq Due(l, borne, k)'
    BY <1>1, <2>1 DEF Due
  <2>3. Due(level, borne, k) \in SUBSET Callers /\ Due(l, borne, k)' \in SUBSET Callers
    BY DEF Due, Others
  <2>4. Cardinality(Due(level, borne, k)) <= Cardinality(Due(l, borne, k)')
    BY <2>2, <2>3, Counts
  <2> QED BY <2>1, <2>4, GrantedStaysBounded DEF AcquireNow
<1>5. Bears(l, borne)'
  BY <1>1, <1>3, <1>4 DEF Bears
<1> QED BY <1>5 DEF WindowInv

LEMMA WakeKeepsBound ==
  ASSUME TypeOK, NEW level \in 0..Full, NEW borne \in Callers, Bears(level, borne),
         NEW c \in Callers, Wake(c)
  PROVE  WindowInv'
<1> USE FullIsNat, BucketAssumption
<1>1. /\ Refilled \in Int /\ Refilled <= level /\ waiting[c] = 0
      /\ waiting' = [waiting EXCEPT ![c] = Awake] /\ Granted
      /\ waiting \in [Callers -> {Awake} \union 0..MaxWait]
  BY RefillInBounds DEF Wake, Bears, TypeOK
<1>2. PICK l \in 0..Full : l = IF level >= TokenTime THEN level - TokenTime ELSE 0
  <2>1. (IF level >= TokenTime THEN level - TokenTime ELSE 0) \in 0..Full
    OBVIOUS
  <2> QED BY <2>1
<1>3. Refilled' <= l
  BY <1>1, <1>2 DEF Wake, MarkRefill, Refilled, Least, AtLeastZero
<1>4. waiting'[c] = Awake /\ \A d \in Callers \ {c} : waiting'[d] = waiting[d]
  BY <1>1
<1>5. PICK n \in Callers :
        n = (IF waiting[borne] = Awake THEN borne ELSE c) /\ waiting'[n] = Awake
  BY <1>4
<1>6. ASSUME NEW k \in 1..Window PROVE recent'[k] <= Most(l, n, k)'
  <2>2. /\ Beyond(k) \in 0..TokenTime - 1 /\ Borne(level, k) \in Nat /\ Rounds(k) \in Nat
        /\ level >= TokenTime => Borne(l, k) = Borne(level, k) + 1
        /\ level < TokenTime =>
             /\ Borne(level, k) = Capacity + IF Beyond(k) >= level THEN Rounds(k) ELSE Rounds(k) - 1
             /\ Borne(l, k) = Capacity + Rounds(k)
    BY <1>2, Terms
  <2>3. Due(level, borne, k) \in SUBSET Callers /\ Due(l, n, k)' \in SUBSET Callers
    BY DEF Due, Others
  <2>4. Due(level, borne, k) \subseteq Due(l, n, k)' /\ c \notin Due(level, borne, k)
    BY <1>1, <1>2, <1>4, <1>5, <2>2 DEF Due, Others, Awake, Bears, Asleep
  <2>5. CASE level >= TokenTime
    <3>1. Cardinality(Due(level, borne, k)) <= Cardinality(Due(l, n, k)')
      BY <2>3, <2>4, Counts
    <3> QED BY <2>2, <2>5, <3>1, <1>1, GrantedStaysBounded
  <2>6. CASE level < TokenTime /\ waiting[borne] = Awake
    <3>1. c \in Due(l, n, k)'
      BY <1>1, <1>2, <1>4, <1>5, <2>2, <2>6 DEF Due, Others, Awake
    <3>2. Cardinality(Due(level, borne, k)) < Cardinality(Due(l, n, k)')
      BY <2>3, <2>4, <3>1, Counts
    <3>3. Borne(l, k) >= Borne(level, k)
      BY <2>2, <2>6
    <3> QED BY <3>2, <3>3, <1>1, GrantedStaysBounded
  <2>7. CASE level < TokenTime /\ waiting[borne] # Awake /\ Beyond(k) >= level
    <3>1. waiting[borne] + level >= TokenTime /\ borne # c /\ waiting[borne] \in Nat
      BY <1>1, <2>7 DEF Bears
    <3>2. borne \in Due(l, n, k)' /\ borne \notin Due(level, borne, k)
      BY <1>2, <1>4, <1>5, <2>2, <2>7, <3>1 DEF Due, Others
    <3>3. Cardinality(Due(level, borne, k)) < Cardinality(Due(l, n, k)')
      BY <2>3, <2>4, <3>2, Counts
    <3>4. Borne(l, k) >= Borne(level, k)
      BY <2>2, <2>7
    <3> QED BY <3>3, <3>4, <1>1, GrantedStaysBounded
  <2>8. CASE level < TokenTime /\ waiting[borne] # Awake /\ Beyond(k) < level
    <3>1. Cardinality(Due(level, borne, k)) <= Cardinality(Due(l, n, k)')
      BY <2>3, <2>4, Counts
    <3>2. Borne(l, k) >= Borne(level, k) + 1
      BY <2>2, <2>8
    <3> QED BY <3>1, <3>2, <1>1, GrantedStaysBounded
  <2>9. level \in Int /\ Beyond(k) \in Int
    BY <2>2
  <2> QED BY <2>5, <2>6, <2>7, <2>8, <2>9
<1>7. Bears(l, n)'
  BY <1>3, <1>5, <1>6 DEF Bears
<1> QED BY <1>7 DEF WindowInv

(* No request is granted, and the bound does not go down.                  *)
LEMMA OtherwiseStaysBounded ==
  ASSUME TypeOK, NEW level \in 0..Full, NEW borne \in Callers, Bears(level, borne),
         UNCHANGED recent, NEW b \in Callers, NEW k \in 1..Window,
         Cardinality(Due(level, borne, k)) <= Cardinality(Due(level, b, k)')
  PROVE  recent'[k] <= Most(level, b, k)'
<1>1. recent'[k] = recent[k] /\ recent[k] \in Nat /\ recent[k] <= Most(level, borne, k)
  BY DEF Bears, TypeOK
<1>2. /\ Borne(level, k) \in Nat /\ Rounds(k) \in Nat /\ Cardinality(Callers) \in Nat
      /\ Cardinality(Due(level, borne, k)) \in Nat /\ Cardinality(Due(level, b, k)') \in Nat
  <2>1. /\ Due(level, borne, k) \in SUBSET Callers /\ Due(level, b, k)' \in SUBSET Callers
    BY DEF Due, Others
  <2> QED BY <2>1, Terms, Counts
<1>3. PICK p \in Int : p = (Cardinality(Callers) - 1) * Rounds(k)
  BY <1>2
<1> QED BY <1>1, <1>2, <1>3 DEF Most

(* Whoever falls asleep is borne from now on if nobody else is awake.      *)
LEMMA SleepKeepsBound ==
  ASSUME TypeOK, NEW level \in 0..Full, NEW borne \in Callers, Bears(level, borne),
         NEW c \in Callers, AcquireSleeps(c)
  PROVE  WindowInv'
<1> USE FullIsNat, BucketAssumption
<1>1. /\ Refilled \in Int /\ Refilled < TokenTime /\ Refilled <= level
      /\ waiting[c] = Awake /\ waiting[borne] = Awake
      /\ waiting' = [waiting EXCEPT ![c] = TokenTime - Refilled] /\ UNCHANGED recent
      /\ waiting \in [Callers -> {Awake} \union 0..MaxWait]
  BY RefillInBounds DEF AcquireSleeps, UntilNextToken, Bears, Asleep, TypeOK
<1>2. /\ waiting'[c] = TokenTime - Refilled /\ waiting'[c] + level >= TokenTime
      /\ waiting'[c] # Awake
      /\ \A d \in Callers \ {c} : waiting'[d] = waiting[d]
  BY <1>1 DEF Awake
<1>3. Refilled' <= level
  BY <1>1 DEF AcquireSleeps, MarkRefill, Refilled, Least
<1>4. PICK b \in Callers :
        /\ waiting[b] = Awake
        /\ b = c => \A d \in Callers \ {c} : waiting[d] # Awake
        /\ borne # c => b = borne
  <2>1. CASE borne # c \/ \A d \in Callers \ {c} : waiting[d] # Awake
    BY <1>1, <2>1
  <2>2. CASE borne = c /\ \E d \in Callers \ {c} : waiting[d] = Awake
    BY <2>2
  <2> QED BY <2>1, <2>2
<1>5. b = c => Asleep'
  BY <1>2, <1>4 DEF Asleep
<1>6. ASSUME NEW k \in 1..Window PROVE recent'[k] <= Most(level, b, k)'
  <2>1. Beyond(k) \in 0..TokenTime - 1
    BY Terms
  <2>2. Due(level, borne, k) \in SUBSET Callers /\ Due(level, b, k)' \in SUBSET Callers
    BY DEF Due, Others
  <2>3. CASE b = borne
    <3>1. Due(level, borne, k) \subseteq Due(level, b, k)'
      BY <1>1, <1>2, <2>1, <2>3 DEF Due, Others
    <3>2. Cardinality(Due(level, borne, k)) <= Cardinality(Due(level, b, k)')
      BY <2>2, <3>1, Counts
    <3> QED BY <3>2, <1>1, OtherwiseStaysBounded
  <2>4. CASE b # borne
    <3>1. borne = c
      BY <1>4, <2>4
    <3>2. c \notin Due(level, borne, k)
      BY <3>1 DEF Due, Others
    <3>3. ASSUME NEW d \in Due(level, borne, k), d # b PROVE d \in Due(level, b, k)'
      <4>1. d \in Callers /\ d # c /\ waiting'[d] = waiting[d]
        BY <1>2, <3>1 DEF Due, Others
      <4> QED BY <3>3, <4>1 DEF Due, Others
    <3>4. b \in Due(level, borne, k) => c \in Due(level, b, k)'
      BY <1>1, <1>2, <1>4, <2>1, <2>4, <3>1 DEF Due, Others
    <3>5. Cardinality(Due(level, borne, k)) <= Cardinality(Due(level, b, k)')
      <4>1. CASE b \in Due(level, borne, k)
        <5>1. Due(level, borne, k) \ {b} \subseteq Due(level, b, k)'
          BY <3>3
        <5> QED BY <2>2, <3>2, <3>4, <4>1, <5>1, Counts
      <4>2. CASE b \notin Due(level, borne, k)
        <5>1. Due(level, borne, k) \subseteq Due(level, b, k)'
          BY <3>3, <4>2
        <5> QED BY <2>2, <5>1, Counts
      <4> QED BY <4>1, <4>2
    <3> QED BY <3>5, <1>1, OtherwiseStaysBounded
  <2> QED BY <2>3, <2>4
<1>7. Bears(level, b)'
  <2>1. waiting'[b] = Awake \/ (Asleep' /\ waiting'[b] + level >= TokenTime)
    <3>1. CASE b = c
      BY <1>2, <1>5, <3>1
    <3>2. CASE b # c
      BY <1>2, <1>4, <3>2
    <3> QED BY <3>1, <3>2
  <2> QED BY <1>3, <1>6, <2>1 DEF Bears
<1> QED BY <1>7 DEF WindowInv

(* The bucket is refilled, sleeps get shorter, and the window moves on.    *)
LEMMA TickKeepsBound ==
  ASSUME TypeOK, NEW level \in 0..Full, NEW borne \in Callers, Bears(level, borne), Tick
  PROVE  WindowInv'
<1> USE FullIsNat, BucketAssumption
<1>1. /\ tokens \in -setBack..Full /\ elapsed \in -setBack..Full + MaxBack /\ setBack \in 0..MaxBack
      /\ Refilled \in Int /\ Refilled <= level
      /\ waiting \in [Callers -> {Awake} \union 0..MaxWait]
      /\ waiting[borne] = Awake \/ (Asleep /\ waiting[borne] + level >= TokenTime)
  BY RefillInBounds DEF Bears, TypeOK
<1>2. \A d \in Callers : waiting'[d] = IF waiting[d] > 0 THEN waiting[d] - 1 ELSE waiting[d]
  BY DEF Tick
<1>3. PICK l \in 0..Full : l = IF level = Full THEN Full ELSE level + 1
  <2>1. (IF level = Full THEN Full ELSE level + 1) \in 0..Full
    OBVIOUS
  <2> QED BY <2>1
<1>4. Refilled' <= l
  BY <1>1, <1>3 DEF Tick, Refilled, Least
<1>5. waiting'[borne] = Awake \/ (Asleep' /\ waiting'[borne] + l >= TokenTime)
  <2>1. CASE waiting[borne] = Awake
    BY <1>2, <2>1 DEF Awake
  <2>2. CASE Asleep /\ waiting[borne] + level >= TokenTime
    <3>1. Asleep'
      BY <1>1, <1>2, <2>2 DEF Asleep, Awake
    <3>2. TokenTime <= Full
      BY DEF Full
    <3>3. waiting[borne] \in Nat
      BY <1>1, <2>2 DEF Asleep
    <3> QED BY <1>2, <1>3, <2>2, <3>1, <3>2, <3>3
  <2> QED BY <1>1, <2>1, <2>2
<1>6. ASSUME NEW k \in 1..Window PROVE recent'[k] <= Most(l, borne, k)'
  <2>1. /\ Borne(l, k) \in Nat /\ Rounds(k) \in Nat /\ Beyond(k) \in 0..TokenTime - 1
        /\ Cardinality(Callers) \in Nat /\ Cardinality(Callers) >= 1
        /\ Cardinality(Due(l, borne, k)') \in Nat
    <3>1. Due(l, borne, k)' \in SUBSET Callers
      BY DEF Due, Others
    <3> QED BY <3>1, Terms, Counts
  <2>2. PICK n \in Nat : n = Cardinality(Callers) - 1
    BY <2>1
  <2>3. Most(l, borne, k)' = Borne(l, k) + n * Rounds(k) + Cardinality(Due(l, borne, k)')
    BY <2>2 DEF Most
  <2>4. n * Rounds(k) \in Nat
    BY <2>1
  <2>5. CASE k = 1
    <3>1. recent'[k] = 0
      BY <2>5 DEF Tick
    <3> QED BY <2>1, <2>3, <2>4, <3>1
  <2>6. CASE k # 1
    <3>1. k - 1 \in 1..Window /\ recent'[k] = recent[k - 1]
      BY <2>6 DEF Tick
    <3>2. PICK i \in 1..Window : i = k - 1
      BY <3>1
    <3>3. /\ recent[i] \in Nat
          /\ recent[i] <= Borne(level, i) + n * Rounds(i) + Cardinality(Due(level, borne, i))
      BY <2>2 DEF Bears, Most, TypeOK
    <3>4. /\ Borne(level, i) \in Nat /\ Rounds(i) \in Nat /\ Beyond(i) \in 0..TokenTime - 1
          /\ Cardinality(Due(level, borne, i)) \in 0..n
      <4>1. Due(level, borne, i) \in SUBSET Callers /\ borne \notin Due(level, borne, i)
        BY DEF Due, Others
      <4> QED BY <4>1, <2>2, Terms, Counts
    <3>5. Borne(level, i) <= Borne(l, k)
      <4>1. PICK x \in Int : x = i - 1 - level
        OBVIOUS
      <4>2. PICK y \in Int : y = k - 1 - l
        OBVIOUS
      <4>3. x <= y
        BY <1>3, <3>2, <4>1, <4>2
      <4>4. x \div TokenTime <= y \div TokenTime
        BY <4>3, QuotientMonotone
      <4>5. x \div TokenTime \in Int /\ y \div TokenTime \in Int
        BY Quotient
      <4> QED BY <4>1, <4>2, <4>4, <4>5 DEF Borne
    <3>6. IF Beyond(k) = 0 THEN Rounds(i) = Rounds(k) - 1
          ELSE Rounds(i) = Rounds(k) /\ Beyond(i) = Beyond(k) - 1
      <4>1. PICK x \in Int : x = k - 1 /\ x - 1 = i - 1
        BY <3>2
      <4>2. IF x % TokenTime = 0 THEN (x - 1) \div TokenTime = x \div TokenTime - 1
            ELSE /\ (x - 1) \div TokenTime = x \div TokenTime
                 /\ (x - 1) % TokenTime = (x % TokenTime) - 1
        BY QuotientPred
      <4> QED BY <4>1, <4>2 DEF Rounds, Beyond
    <3>7. CASE Beyond(k) = 0
      <4>1. n * Rounds(i) = n * Rounds(k) - n
        BY <3>4, <3>6, <3>7, <2>1
      <4> QED BY <2>1, <2>3, <2>4, <3>1, <3>2, <3>3, <3>4, <3>5, <4>1
    <3>8. CASE Beyond(k) # 0
      <4>1. Due(level, borne, i) \subseteq Due(l, borne, k)'
        <5>1. Beyond(i) = Beyond(k) - 1
          BY <3>6, <3>8
        <5> QED BY <1>1, <1>2, <1>3, <2>1, <5>1 DEF Due, Others, Awake
      <4>2. Due(level, borne, i) \in SUBSET Callers /\ Due(l, borne, k)' \in SUBSET Callers
        BY DEF Due, Others
      <4>3. Cardinality(Due(level, borne, i)) <= Cardinality(Due(l, borne, k)')
        BY <4>1, <4>2, Counts
      <4>4. Rounds(i) = Rounds(k)
        BY <3>6, <3>8
      <4> QED BY <2>1, <2>3, <2>4, <3>1, <3>2, <3>3, <3>4, <3>5, <4>3, <4>4
    <3> QED BY <3>7, <3>8
  <2> QED BY <2>5, <2>6
<1>7. Bears(l, borne)'
  BY <1>4, <1>5, <1>6 DEF Bears
<1> QED BY <1>7 DEF WindowInv

LEMMA InitiallyBounded == Init => WindowInv
<1> SUFFICES ASSUME Init PROVE WindowInv
  OBVIOUS
<1> USE FullIsNat, BucketAssumption
<1>1. CASE Callers = {}
  BY <1>1 DEF Init, WindowInv
<1>2. ASSUME NEW c \in Callers PROVE WindowInv
  <2>1. Full \in 0..Full /\ Refilled <= Full /\ waiting[c] = Awake
    BY DEF Init, Refilled, Least
  <2>2. ASSUME NEW k \in 1..Window PROVE recent[k] <= Most(Full, c, k)
    <3>1. Due(Full, c, k) \in SUBSET Callers
      BY DEF Due, Others
    <3>2. /\ Borne(Full, k) \in Nat /\ Rounds(k) \in Nat
          /\ Cardinality(Callers) \in Nat /\ Cardinality(Callers) >= 1
          /\ Cardinality(Due(Full, c, k)) \in Nat
      BY <2>1, <3>1, Terms, Counts
    <3>3. (Cardinality(Callers) - 1) * Rounds(k) \in Nat
      <4>1. PICK n \in Nat : n = Cardinality(Callers) - 1
        BY <3>2
      <4>2. n * Rounds(k) \in Nat
        BY <3>2
      <4> QED BY <4>1, <4>2
    <3> QED BY <3>2, <3>3 DEF Init, Most
  <2>3. Bears(Full, c)
    BY <2>1, <2>2 DEF Bears
  <2> QED BY <2>1, <2>3 DEF WindowInv
<1> QED BY <1>1, <1>2

LEMMA BoundStep == Inv /\ [Next]_vars => Inv'
<1> SUFFICES ASSUME TypeOK, WindowInv, [Next]_vars PROVE WindowInv'
  BY Step DEF Inv
<1> USE FullIsNat, BucketAssumption
<1>1. CASE Callers = {}
  <2>1. \/ Tick \/ UNCHANGED recent
    BY <1>1 DEF Next, ClockSetBack, vars
  <2>2. \A k \in 1..Window : recent[k] = 0
    BY <1>1 DEF WindowInv
  <2>3. \A k \in 1..Window : recent'[k] = 0
    BY <2>1, <2>2 DEF Tick
  <2> QED BY <1>1, <2>3 DEF WindowInv
<1>2. CASE Callers # {}
  <2>1. PICK level \in 0..Full, borne \in Callers : Bears(level, borne)
    BY <1>2 DEF WindowInv
  <2>2. ASSUME UNCHANGED <<waiting, recent>>, Refilled' <= level PROVE WindowInv'
    <3>1. ASSUME NEW k \in 1..Window PROVE recent'[k] <= Most(level, borne, k)'
      BY <2>1, <2>2 DEF Bears, Most, Due
    <3>2. Bears(level, borne)'
      BY <2>1, <2>2, <3>1 DEF Bears, Asleep
    <3> QED BY <3>2 DEF WindowInv
  <2>3. Refilled \in Int /\ Refilled <= level /\ Refilled <= Full
    BY <2>1, RefillInBounds DEF Bears
  <2>4. ASSUME NEW c \in Callers, AcquireThrows(c) PROVE WindowInv'
    <3>1. Refilled' <= level
      BY <2>3, <2>4 DEF AcquireThrows, MarkRefill, Refilled, Least
    <3> QED BY <2>2, <2>4, <3>1 DEF AcquireThrows
  <2>5. ASSUME NEW ticks \in 1..MaxBack, ClockSetBack(ticks) PROVE WindowInv'
    <3>1. Refilled' <= level
      BY <2>3, <2>5 DEF ClockSetBack, Refilled, Least, TypeOK
    <3> QED BY <2>2, <2>5, <3>1 DEF ClockSetBack
  <2>6. CASE UNCHANGED vars
    <3>1. Refilled' <= level
      BY <2>3, <2>6 DEF vars, Refilled, Least
    <3> QED BY <2>2, <2>6, <3>1 DEF vars
  <2> QED BY <2>1, <2>4, <2>5, <2>6, AcquireNowKeepsBound, WakeKeepsBound, SleepKeepsBound,
             TickKeepsBound DEF Next
<1> QED BY <1>1, <1>2

(* No window of the server sees as many requests as the bucket's capacity  *)
(* and one per token time of every caller, however many callers there are, *)
(* however late they wake and however far the clock is set back.           *)
THEOREM WindowBounded == Spec => []WindowBound
<1> USE FullIsNat, BucketAssumption
<1>1. Init => Inv
  BY Initially, InitiallyBounded DEF Inv
<1>2. Inv => WindowBound
  <2> SUFFICES ASSUME TypeOK, WindowInv PROVE WindowBound
    BY DEF Inv
  <2>1. PICK n \in Nat : n = Cardinality(Callers)
    BY FS_CardinalityType
  <2>2. PICK r \in Nat : r = Rounds(Window)
    <3>1. 0 \in 0..Full /\ Window \in 1..Window
      OBVIOUS
    <3> QED BY <3>1, Terms
  <2>3. TokenTimes = r + 1
    <3>1. PICK x \in Int : x = Window - 1
      OBVIOUS
    <3>2. (x + TokenTime) \div TokenTime = x \div TokenTime + 1
      BY QuotientUp
    <3>3. Window + TokenTime - 1 = x + TokenTime
      BY <3>1
    <3> QED BY <2>2, <3>1, <3>2, <3>3 DEF TokenTimes, Rounds
  <2>4. CASE Callers = {}
    <3>1. n = 0 /\ recent[Window] = 0
      BY <2>1, <2>4, FS_EmptySet DEF WindowInv
    <3> QED BY <2>1, <2>3, <3>1 DEF WindowBound, InWindow
  <2>5. CASE Callers # {}
    <3>1. PICK level \in 0..Full, borne \in Callers : Bears(level, borne)
      BY <2>5 DEF WindowInv
    <3>2. Window \in 1..Window
      OBVIOUS
    <3>3. recent[Window] \in Nat /\ recent[Window] <= Most(level, borne, Window)
      BY <3>1, <3>2 DEF Bears, TypeOK
    <3>4. Borne(level, Window) <= Capacity + r /\ Borne(level, Window) \in Nat
      <4>1. PICK x \in Int : x = Window - 1 - level
        OBVIOUS
      <4>2. PICK y \in Int : y = Window - 1
        OBVIOUS
      <4>3. x \div TokenTime <= y \div TokenTime
        BY <4>1, <4>2, QuotientMonotone
      <4>4. x \div TokenTime \in Int
        BY Quotient
      <4>5. Borne(level, Window) \in Nat
        BY <3>2, Terms
      <4> QED BY <4>1, <4>2, <4>3, <4>4, <4>5, <2>2 DEF Borne, Rounds
    <3>5. Cardinality(Due(level, borne, Window)) \in 0..n - 1
      <4>1. /\ Due(level, borne, Window) \in SUBSET Callers
            /\ borne \notin Due(level, borne, Window)
        BY DEF Due, Others
      <4> QED BY <2>1, <4>1, Counts
    <3>6. (n - 1) * r + (n - 1) + r = n * (r + 1) - 1
      OBVIOUS
    <3>7. (n - 1) * r \in Int /\ n * (r + 1) \in Int
      OBVIOUS
    <3>8. recent[Window] <= Borne(level, Window) + (n - 1) * r + Cardinality(Due(level, borne, Window))
      BY <2>1, <2>2, <3>3 DEF Most
    <3>9. recent[Window] < Capacity + n * (r + 1)
      BY <3>3, <3>4, <3>5, <3>6, <3>7, <3>8
    <3> QED BY <2>1, <2>3, <3>9 DEF WindowBound, InWindow
  <2> QED BY <2>4, <2>5
<1> QED BY <1>1, BoundStep, <1>2, PTL DEF Spec
=============================================================================
