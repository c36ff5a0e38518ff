----------------------------- MODULE SessionFeeds -----------------------------
(***************************************************************************)
(* HttpSessions with the subscriptions of each session's server            *)
(* (LiveResources): a POST may carry resources/subscribe or unsubscribe,   *)
(* the closing of a session's transport runs the server's onclose, and     *)
(* upstream operations end on their own.  Nothing else connects the two:   *)
(* what a session leaves on the process-wide feed depends on its closing.  *)
(***************************************************************************)
EXTENDS HttpSessions

CONSTANTS Uris, Parts

VARIABLES active, op

feeds == <<active, op>>
allVars == <<vars, active, op>>

(* The servers whose onclose has not run.                                  *)
NotClosed == {s \in Sessions : pair[s] # "closed"}

Live == INSTANCE LiveResources WITH Servers <- Sessions, open <- NotClosed

FeedInit == Init /\ Live!Init

(* A POST is dispatched to its handler as soon as it arrives.              *)
PostSubscribe(q, s, u)   == Post(q, s) /\ Live!Subscribe(s, u)
PostUnsubscribe(q, s, u) == Post(q, s) /\ Live!Unsubscribe(s, u)

CloseBoth(s) == ClosePair(s) /\ Live!CloseServer(s)

FeedEnds(s, u, p) ==
  /\ UNCHANGED vars
  /\ Live!FeedError(s, u, p) \/ Live!FeedCompletes(s, u, p)

SocketLost == UNCHANGED vars /\ Live!SocketLost

(* A step of the sessions that does not concern the feed.                  *)
SessionStep ==
  /\ \/ \E q \in Requests : RequestNext(q)
     \/ \E s \in Sessions : OnInitialized(s) \/ ClosePairFails(s)
     \/ Tick
     \/ Sweep
  /\ UNCHANGED feeds

FeedNext ==
  \/ SessionStep
  \/ \E s \in Sessions : CloseBoth(s)
  \/ \E q \in Requests, s \in Sessions, u \in Uris :
       PostSubscribe(q, s, u) \/ PostUnsubscribe(q, s, u)
  \/ \E s \in Sessions, u \in Uris, p \in Parts : FeedEnds(s, u, p)
  \/ SocketLost

(* The interval timer keeps firing, and a close that has begun settles.    *)
FeedSpec ==
  /\ FeedInit /\ [][FeedNext]_allVars
  /\ WF_allVars(Tick /\ UNCHANGED feeds)
  /\ WF_allVars(Sweep /\ UNCHANGED feeds)
  /\ \A s \in Sessions :
       WF_allVars(CloseBoth(s) \/ (ClosePairFails(s) /\ UNCHANGED feeds))

-----------------------------------------------------------------------------
(* Every variable of both parts has its type.                              *)
FeedTypeOK == TypeOK /\ Live!TypeOK

(* As in LiveResources, now driven by the sessions' own life cycle.        *)
NoLeakedOperation == Live!NoLeakedOperation

(* As in LiveResources.                                                    *)
AllOrNothing == Live!AllOrNothing

(* A session that is over has nothing running on the feed, unless its close*)
(* is still to come or has failed.                                         *)
EndedSessionsAreSilent ==
  \A s \in Sessions, u \in Uris, p \in Parts :
    op[s][u][p] = "running" =>
      state[s] = "live" \/ pair[s] \in {"closing", "abandoned"}
=============================================================================
