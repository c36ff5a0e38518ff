-------------------------- MODULE SessionFeedsProofs --------------------------
(***************************************************************************)
(* Proofs about the session store (HttpSessions), the live resources       *)
(* (LiveResources) and their composition (SessionFeeds), for any sessions, *)
(* requests, resources and times.  The composition is shown to implement   *)
(* each of its two parts, so that the invariants of both carry over; what  *)
(* an ended session leaves on the feed follows from the two together.      *)
(***************************************************************************)
EXTENDS SessionFeeds, TLAPS

-----------------------------------------------------------------------------
(* The session store                                                       *)

(* A session that is in the map, or on its way there, has an open pair;    *)
(* one that was never used has none.                                       *)
PairInv ==
  \A s \in Sessions :
    /\ state[s] \in {"creating", "live"} => pair[s] = "open"
    /\ state[s] = "unused" => pair[s] = "none"

(* What a session may have idled depends on how far off the sweep is.      *)
SweepInv ==
  \A s \in Sessions :
    state[s] = "live" /\ ~streaming[s] => idleFor[s] <= Expiry + (Interval - sweepIn)

SInv == TypeOK /\ PairInv /\ PairsAccounted /\ SweepInv

-----------------------------------------------------------------------------
(* An update keeps a function's type, also outside of its domain.          *)
LEMMA ExceptKeepsType ==
  ASSUME NEW S, NEW T, NEW f \in [S -> T], NEW x, NEW y \in T
  PROVE  [f EXCEPT ![x] = y] \in [S -> T]
OBVIOUS

(* Each action keeps the types.                                            *)
LEMMA TypeStep == TypeOK /\ [Next]_vars => TypeOK'
<1> SUFFICES ASSUME TypeOK, [Next]_vars PROVE TypeOK'
  OBVIOUS
<1> USE TimesAssumption
    DEF TypeOK, State, PairState, Kind, IdleCap, NoRequest
<1>1. ASSUME NEW q \in Requests, NEW s \in Sessions,
             CreateSession(q, s) \/ InitRefused(q, s) \/ InitThrows(q, s)
      PROVE TypeOK'
  BY <1>1 DEF CreateSession, InitRefused, InitThrows, Arrive, Depart
<1>2. ASSUME NEW q \in Requests, NEW s \in Sessions,
             Post(q, s) \/ Get(q, s) \/ Delete(q, s)
      PROVE TypeOK'
  <2>1. \E k \in Kind : request' = [request EXCEPT ![q] = [kind |-> k, session |-> s]]
    BY <1>2 DEF Post, Get, Delete, Arrive
  <2>2. request' \in [Requests -> [kind : Kind, session : Sessions \union {NoSession}]]
    BY <2>1
  <2>3. /\ idleFor' = [idleFor EXCEPT ![s] = 0]
        /\ UNCHANGED <<state, pair, sweepIn, thrown>>
        /\ streaming' \in [Sessions -> BOOLEAN]
    BY <1>2 DEF Post, Get, Delete, Touch
  <2> QED
    BY <2>2, <2>3
<1>3. ASSUME NEW q \in Requests,
             ResponseEnds(q) \/ DeleteEnds(q) \/ DeleteThrows(q)
      PROVE TypeOK'
  BY <1>3 DEF ResponseEnds, DeleteEnds, DeleteThrows, Depart, Remove
<1>4. ASSUME NEW q \in Requests, GetCloses(q) PROVE TypeOK'
  <2>1. idleFor' \in [Sessions -> 0..IdleCap]
    <3>1. idleFor' = [idleFor EXCEPT ![request[q].session] = 0]
      BY <1>4 DEF GetCloses, StreamListener, Touch
    <3>2. 0 \in 0..IdleCap
      OBVIOUS
    <3> QED
      BY <3>1, <3>2, ExceptKeepsType
  <2>3. streaming' \in [Sessions -> BOOLEAN]
    <3>1. streaming' = [streaming EXCEPT ![request[q].session] = FALSE]
      BY <1>4 DEF GetCloses, StreamListener
    <3> QED
      BY <3>1, ExceptKeepsType
  <2>2. request' \in [Requests -> [kind : Kind, session : Sessions \union {NoSession}]]
    BY <1>4 DEF GetCloses, Depart
  <2> QED
    BY <1>4, <2>1, <2>2, <2>3 DEF GetCloses
<1>5. ASSUME NEW s \in Sessions,
             OnInitialized(s) \/ ClosePair(s) \/ ClosePairFails(s)
      PROVE TypeOK'
  BY <1>5 DEF OnInitialized, ClosePair, ClosePairFails, EndResponses
<1>6. CASE Tick
  BY <1>6 DEF Tick
<1>7. CASE Sweep
  BY <1>7 DEF Sweep, Remove
<1>8. CASE UNCHANGED vars
  BY <1>8 DEF vars
<1> QED
  BY <1>1, <1>2, <1>3, <1>4, <1>5, <1>6, <1>7, <1>8 DEF Next, RequestNext

(* Whatever leaves the map has its pair closed, but for the request that   *)
(* threw.                                                                  *)
LEMMA PairStep ==
  TypeOK /\ PairInv /\ PairsAccounted /\ [Next]_vars => PairInv' /\ PairsAccounted'
<1> SUFFICES ASSUME TypeOK, PairInv, PairsAccounted, [Next]_vars
             PROVE PairInv' /\ PairsAccounted'
  OBVIOUS
<1> USE DEF TypeOK, PairInv, PairsAccounted, State, PairState
<1> DEFINE Goal == PairInv' /\ PairsAccounted'
<1>1. ASSUME NEW q \in Requests, NEW s \in Sessions,
             CreateSession(q, s) \/ InitRefused(q, s) \/ InitThrows(q, s)
      PROVE Goal
  BY <1>1 DEF CreateSession, InitRefused, InitThrows
<1>2. ASSUME NEW q \in Requests, NEW s \in Sessions,
             Post(q, s) \/ Get(q, s) \/ Delete(q, s)
      PROVE Goal
  BY <1>2 DEF Post, Get, Delete
<1>3. ASSUME NEW q \in Requests, DeleteEnds(q) PROVE Goal
  BY <1>3 DEF DeleteEnds, Remove
<1>4. ASSUME NEW q \in Requests, ResponseEnds(q) \/ DeleteThrows(q) \/ GetCloses(q)
      PROVE Goal
  BY <1>4 DEF ResponseEnds, DeleteThrows, GetCloses
<1>5. ASSUME NEW s \in Sessions,
             OnInitialized(s) \/ ClosePair(s) \/ ClosePairFails(s)
      PROVE Goal
  BY <1>5 DEF OnInitialized, ClosePair, ClosePairFails
<1>6. CASE Tick
  BY <1>6 DEF Tick
<1>7. CASE Sweep
  BY <1>7 DEF Sweep, Remove, Expired
<1>8. CASE UNCHANGED vars
  BY <1>8 DEF vars
<1> QED
  BY <1>1, <1>2, <1>3, <1>4, <1>5, <1>6, <1>7, <1>8 DEF Next, RequestNext

(* A request or the end of a stream restarts the idle clock, a tick brings *)
(* the sweep nearer, and the sweep leaves only what has not expired.       *)
LEMMA SweepStep == TypeOK /\ SweepInv /\ [Next]_vars => SweepInv'
<1> SUFFICES ASSUME TypeOK, SweepInv, [Next]_vars PROVE SweepInv'
  OBVIOUS
<1> USE TimesAssumption DEF TypeOK, SweepInv, State
<1>1. ASSUME NEW q \in Requests, NEW s \in Sessions,
             CreateSession(q, s) \/ InitRefused(q, s) \/ InitThrows(q, s)
      PROVE SweepInv'
  BY <1>1 DEF CreateSession, InitRefused, InitThrows
<1>2. ASSUME NEW q \in Requests, NEW s \in Sessions,
             Post(q, s) \/ Get(q, s) \/ Delete(q, s)
      PROVE SweepInv'
  BY <1>2 DEF Post, Get, Delete, Touch
<1>3. ASSUME NEW q \in Requests,
             ResponseEnds(q) \/ DeleteEnds(q) \/ DeleteThrows(q)
      PROVE SweepInv'
  BY <1>3 DEF ResponseEnds, DeleteEnds, DeleteThrows, Remove
<1>4. ASSUME NEW q \in Requests, GetCloses(q) PROVE SweepInv'
  BY <1>4 DEF GetCloses, StreamListener, Touch
<1>5. ASSUME NEW s \in Sessions,
             OnInitialized(s) \/ ClosePair(s) \/ ClosePairFails(s)
      PROVE SweepInv'
  BY <1>5 DEF OnInitialized, ClosePair, ClosePairFails
<1>6. CASE Tick
  BY <1>6 DEF Tick, IdleCap
<1>7. CASE Sweep
  BY <1>7 DEF Sweep, Remove, Expired, IdleCap
<1>8. CASE UNCHANGED vars
  BY <1>8 DEF vars
<1> QED
  BY <1>1, <1>2, <1>3, <1>4, <1>5, <1>6, <1>7, <1>8 DEF Next, RequestNext

-----------------------------------------------------------------------------
(* The inductive invariant of the session store.                           *)
THEOREM SessionInvariance == Spec => []SInv
<1>1. Init => SInv
  BY TimesAssumption
  DEF Init, SInv, TypeOK, PairInv, PairsAccounted, SweepInv, State, PairState,
      Kind, IdleCap, NoRequest
<1>2. SInv /\ [Next]_vars => SInv'
  BY TypeStep, PairStep, SweepStep DEF SInv
<1> QED
  BY <1>1, <1>2, PTL DEF Spec

(* No pair is left that no session entry will ever close, except after an  *)
(* initialize request that threw.                                          *)
THEOREM PairsNeverForgotten == Spec => []PairsAccounted
<1>1. SInv => PairsAccounted
  BY DEF SInv
<1> QED
  BY <1>1, SessionInvariance, PTL

(* What is removed is in the map, and what is in the map has an open pair. *)
LEMMA CloseStep ==
  TypeOK /\ PairInv /\ [Next]_vars => [\A s \in Sessions : ~ClosesAgain(s)]_vars
<1> SUFFICES ASSUME TypeOK, PairInv, Next, NEW t \in Sessions PROVE ~ClosesAgain(t)
  OBVIOUS
<1> USE DEF TypeOK, PairInv, ClosesAgain, State, PairState
<1>1. ASSUME NEW q \in Requests, NEW s \in Sessions,
             CreateSession(q, s) \/ InitRefused(q, s) \/ InitThrows(q, s)
      PROVE ~ClosesAgain(t)
  BY <1>1 DEF CreateSession, InitRefused, InitThrows
<1>2. ASSUME NEW q \in Requests, NEW s \in Sessions,
             Post(q, s) \/ Get(q, s) \/ Delete(q, s)
      PROVE ~ClosesAgain(t)
  BY <1>2 DEF Post, Get, Delete
<1>3. ASSUME NEW q \in Requests, DeleteEnds(q) PROVE ~ClosesAgain(t)
  BY <1>3 DEF DeleteEnds, Remove
<1>4. ASSUME NEW q \in Requests, ResponseEnds(q) \/ DeleteThrows(q) \/ GetCloses(q)
      PROVE ~ClosesAgain(t)
  BY <1>4 DEF ResponseEnds, DeleteThrows, GetCloses
<1>5. ASSUME NEW s \in Sessions,
             OnInitialized(s) \/ ClosePair(s) \/ ClosePairFails(s)
      PROVE ~ClosesAgain(t)
  BY <1>5 DEF OnInitialized, ClosePair, ClosePairFails
<1>6. CASE Tick
  BY <1>6 DEF Tick
<1>7. CASE Sweep
  BY <1>7 DEF Sweep, Remove, Expired
<1> QED
  BY <1>1, <1>2, <1>3, <1>4, <1>5, <1>6, <1>7 DEF Next, RequestNext

(* No pair is closed twice, however DELETEs and the sweep overlap.         *)
THEOREM PairsCloseOnce == Spec => ClosesOnce
<1>1. SInv => TypeOK /\ PairInv
  BY DEF SInv
<1> QED
  BY <1>1, CloseStep, SessionInvariance, PTL DEF Spec, ClosesOnce

(* A session that is not exempt is gone one sweep after its expiry.        *)
THEOREM IdleSessionsEnd == Spec => []IdleBounded
<1>1. SInv => IdleBounded
  BY TimesAssumption DEF SInv, TypeOK, SweepInv, IdleBounded, IdleCap
<1> QED
  BY <1>1, SessionInvariance, PTL

-----------------------------------------------------------------------------
(* The resources of each server                                            *)

LiveInv == Live!TypeOK /\ Live!NoLeakedOperation /\ Live!AllOrNothing

(* The upstream operations are started and stopped together.               *)
LEMMA LiveInit == Live!Init => LiveInv
BY DEF Live!Init, LiveInv, Live!TypeOK, Live!NoLeakedOperation, Live!AllOrNothing, Live!OpState

LEMMA LiveStep == LiveInv /\ [Live!Next]_(Live!vars) => LiveInv'
<1> SUFFICES ASSUME LiveInv, [Live!Next]_(Live!vars) PROVE LiveInv'
  OBVIOUS
<1> USE DEF LiveInv, Live!TypeOK, Live!NoLeakedOperation, Live!AllOrNothing, Live!OpState
<1>1. ASSUME NEW v \in Sessions, NEW u \in Uris, Live!Subscribe(v, u) PROVE LiveInv'
  BY <1>1 DEF Live!Subscribe, Live!Start
<1>2. ASSUME NEW v \in Sessions, NEW u \in Uris, Live!Unsubscribe(v, u) PROVE LiveInv'
  BY <1>2 DEF Live!Unsubscribe, Live!Stop
<1>3. ASSUME NEW v \in Sessions, NEW u \in Uris, NEW p \in Parts, Live!FeedError(v, u, p)
      PROVE LiveInv'
  BY <1>3 DEF Live!FeedError, Live!Stop
<1>4. ASSUME NEW v \in Sessions, NEW u \in Uris, NEW p \in Parts, Live!FeedCompletes(v, u, p)
      PROVE LiveInv'
  BY <1>4 DEF Live!FeedCompletes
<1>5. CASE Live!SocketLost
  BY <1>5 DEF Live!SocketLost
<1>6. ASSUME NEW v \in Sessions, Live!CloseServer(v) PROVE LiveInv'
  BY <1>6 DEF Live!CloseServer
<1>7. CASE UNCHANGED Live!vars
  BY <1>7 DEF Live!vars
<1> QED
  BY <1>1, <1>2, <1>3, <1>4, <1>5, <1>6, <1>7 DEF Live!Next

-----------------------------------------------------------------------------
(* The composition                                                         *)

(* A step of the composition is a step of the session store.               *)
LEMMA SessionsStep == [FeedNext]_allVars => [Next]_vars
BY DEF FeedNext, allVars, SessionStep, Next, RequestNext, CloseBoth,
       PostSubscribe, PostUnsubscribe, FeedEnds, SocketLost

(* The composition implements the session store: what becomes of the       *)
(* resources disturbs no session (createSession's onclose).                *)
THEOREM FeedIsSessions == FeedSpec => Spec
BY SessionsStep, PTL DEF FeedSpec, FeedInit, Spec

LEMMA SessionsSpec == FeedSpec => []SInv
<1>1. FeedSpec => Spec
  BY FeedIsSessions
<1> QED
  BY <1>1, SessionInvariance, PTL

(* Only ClosePair closes a pair, and it runs the server's onclose: a step  *)
(* of the sessions alone leaves the set of open servers as it is.          *)
LEMMA SessionStepKeepsOpen == SInv /\ SessionStep => NotClosed' = NotClosed
<1> SUFFICES ASSUME SInv, SessionStep PROVE NotClosed' = NotClosed
  OBVIOUS
<1> USE DEF SInv, TypeOK, PairInv, NotClosed, State, PairState
<1>1. ASSUME NEW q \in Requests, NEW s \in Sessions,
             CreateSession(q, s) \/ InitRefused(q, s) \/ InitThrows(q, s)
      PROVE NotClosed' = NotClosed
  BY <1>1 DEF CreateSession, InitRefused, InitThrows
<1>2. ASSUME NEW q \in Requests, NEW s \in Sessions,
             Post(q, s) \/ Get(q, s) \/ Delete(q, s)
      PROVE NotClosed' = NotClosed
  BY <1>2 DEF Post, Get, Delete
<1>3. ASSUME NEW q \in Requests, DeleteEnds(q) PROVE NotClosed' = NotClosed
  BY <1>3 DEF DeleteEnds, Remove
<1>4. ASSUME NEW q \in Requests, ResponseEnds(q) \/ DeleteThrows(q) \/ GetCloses(q)
      PROVE NotClosed' = NotClosed
  BY <1>4 DEF ResponseEnds, DeleteThrows, GetCloses
<1>5. ASSUME NEW s \in Sessions, OnInitialized(s) \/ ClosePairFails(s)
      PROVE NotClosed' = NotClosed
  BY <1>5 DEF OnInitialized, ClosePairFails
<1>6. CASE Tick
  BY <1>6 DEF Tick
<1>7. CASE Sweep
  BY <1>7 DEF Sweep, Remove, Expired
<1> QED
  BY <1>1, <1>2, <1>3, <1>4, <1>5, <1>6, <1>7 DEF SessionStep, RequestNext

(* A step of the composition is a step of the resources, or leaves them.   *)
LEMMA ResourcesStep == SInv /\ [FeedNext]_allVars => [Live!Next]_(Live!vars)
<1> SUFFICES ASSUME SInv, [FeedNext]_allVars PROVE [Live!Next]_(Live!vars)
  OBVIOUS
<1>1. CASE SessionStep
  BY <1>1, SessionStepKeepsOpen DEF SessionStep, feeds, Live!vars
<1>2. ASSUME NEW s \in Sessions, CloseBoth(s) PROVE Live!Next
  BY <1>2 DEF CloseBoth, Live!Next
<1>3. ASSUME NEW q \in Requests, NEW s \in Sessions, NEW u \in Uris,
             PostSubscribe(q, s, u) \/ PostUnsubscribe(q, s, u)
      PROVE Live!Next
  BY <1>3 DEF PostSubscribe, PostUnsubscribe, Live!Next
<1>4. ASSUME NEW s \in Sessions, NEW u \in Uris, NEW p \in Parts, FeedEnds(s, u, p)
      PROVE Live!Next
  BY <1>4 DEF FeedEnds, Live!Next
<1>5. CASE SocketLost
  BY <1>5 DEF SocketLost, Live!Next
<1>6. CASE UNCHANGED allVars
  BY <1>6 DEF allVars, vars, Live!vars, NotClosed
<1> QED
  BY <1>1, <1>2, <1>3, <1>4, <1>5, <1>6 DEF FeedNext

(* And it implements the live resources, of the servers whose pair is not  *)
(* closed: every close of a pair, and nothing else, is a server's end, so  *)
(* the session store cannot make one end twice or come back.               *)
THEOREM FeedIsResources == FeedSpec => Live!Spec
<1>1. FeedInit => Live!Init
  BY DEF FeedInit, Init, Live!Init, NotClosed
<1> QED
  BY <1>1, ResourcesStep, SessionsSpec, PTL DEF FeedSpec, Live!Spec

LEMMA ResourcesSpec == FeedSpec => []LiveInv
<1> QED
  BY FeedIsResources, LiveInit, LiveStep, PTL DEF Live!Spec

-----------------------------------------------------------------------------
(* Only a live session subscribes, and it leaves the map by being closed.  *)
SubscribersInv ==
  \A s \in Sessions :
    active[s] # {} => state[s] = "live" \/ pair[s] \in {"closing", "abandoned"}

LEMMA SubscribersStep ==
  SInv /\ LiveInv /\ SubscribersInv /\ [FeedNext]_allVars => SubscribersInv'
<1> SUFFICES ASSUME SInv, LiveInv, SubscribersInv, [FeedNext]_allVars
             PROVE SubscribersInv'
  OBVIOUS
<1> USE DEF SInv, TypeOK, PairInv, LiveInv, Live!TypeOK, SubscribersInv
<1>1. CASE SessionStep
  <2> active' = active
    BY <1>1 DEF SessionStep, feeds
  <2>1. ASSUME NEW q \in Requests, NEW s \in Sessions,
               CreateSession(q, s) \/ InitRefused(q, s) \/ InitThrows(q, s)
        PROVE SubscribersInv'
    BY <2>1 DEF CreateSession, InitRefused, InitThrows
  <2>2. ASSUME NEW q \in Requests, NEW s \in Sessions,
               Post(q, s) \/ Get(q, s) \/ Delete(q, s)
        PROVE SubscribersInv'
    BY <2>2 DEF Post, Get, Delete
  <2>3. ASSUME NEW q \in Requests, DeleteEnds(q) PROVE SubscribersInv'
    BY <2>3 DEF DeleteEnds, Remove
  <2>4. ASSUME NEW q \in Requests, ResponseEnds(q) \/ DeleteThrows(q) \/ GetCloses(q)
        PROVE SubscribersInv'
    BY <2>4 DEF ResponseEnds, DeleteThrows, GetCloses
  <2>5. ASSUME NEW s \in Sessions, OnInitialized(s) \/ ClosePairFails(s)
        PROVE SubscribersInv'
    BY <2>5 DEF OnInitialized, ClosePairFails
  <2>6. CASE Tick
    BY <2>6 DEF Tick
  <2>7. CASE Sweep
    BY <2>7 DEF Sweep, Remove
  <2> QED
    BY <1>1, <2>1, <2>2, <2>3, <2>4, <2>5, <2>6, <2>7 DEF SessionStep, RequestNext
<1>2. ASSUME NEW s \in Sessions, CloseBoth(s) PROVE SubscribersInv'
  BY <1>2 DEF CloseBoth, ClosePair, Live!CloseServer
<1>3. ASSUME NEW q \in Requests, NEW s \in Sessions, NEW u \in Uris,
             PostSubscribe(q, s, u) \/ PostUnsubscribe(q, s, u)
      PROVE SubscribersInv'
  BY <1>3 DEF PostSubscribe, PostUnsubscribe, Post, Live!Subscribe, Live!Unsubscribe
<1>4. ASSUME NEW s \in Sessions, NEW u \in Uris, NEW p \in Parts, FeedEnds(s, u, p)
      PROVE SubscribersInv'
  BY <1>4 DEF FeedEnds, Live!FeedError, Live!FeedCompletes, vars
<1>5. CASE SocketLost
  BY <1>5 DEF SocketLost, Live!SocketLost, vars
<1>6. CASE UNCHANGED allVars
  BY <1>6 DEF allVars, vars
<1> QED
  BY <1>1, <1>2, <1>3, <1>4, <1>5, <1>6 DEF FeedNext

LEMMA SubscribersInvariance == FeedSpec => []SubscribersInv
<1>1. FeedInit => SubscribersInv
  BY DEF FeedInit, Live!Init, SubscribersInv
<1> QED
  BY <1>1, SubscribersStep, SessionsSpec, ResourcesSpec, PTL DEF FeedSpec

-----------------------------------------------------------------------------
(* Both parts of the composition keep their types.                         *)
THEOREM FeedTypesCorrect == FeedSpec => []FeedTypeOK
<1>1. SInv /\ LiveInv => FeedTypeOK
  BY DEF SInv, LiveInv, FeedTypeOK
<1> QED
  BY <1>1, SessionsSpec, ResourcesSpec, PTL

(* Every running upstream operation can still be stopped.                  *)
THEOREM NothingLeaks == FeedSpec => []NoLeakedOperation
<1>1. LiveInv => NoLeakedOperation
  BY DEF LiveInv, NoLeakedOperation, Live!NoLeakedOperation
<1> QED
  BY <1>1, ResourcesSpec, PTL

(* A resource has all of its upstream operations or is not in the map.     *)
THEOREM ResourcesWhole == FeedSpec => []AllOrNothing
<1>1. LiveInv => AllOrNothing
  BY DEF LiveInv, AllOrNothing, Live!AllOrNothing
<1> QED
  BY <1>1, ResourcesSpec, PTL

(* A session that is over has nothing running on the feed, unless its close*)
(* is still to come or has failed.                                         *)
THEOREM EndedAreSilent == FeedSpec => []EndedSessionsAreSilent
<1>1. LiveInv /\ SubscribersInv => EndedSessionsAreSilent
  BY DEF LiveInv, Live!NoLeakedOperation, SubscribersInv, EndedSessionsAreSilent
<1> QED
  BY <1>1, ResourcesSpec, SubscribersInvariance, PTL

=============================================================================
