----------------------------- MODULE HttpSessions -----------------------------
(***************************************************************************)
(* SessionStore (src/transport/http-sessions.ts): one server/transport     *)
(* pair per MCP session, routed by session id, closed by DELETE or by the  *)
(* idle sweep.  Requests overlap: a POST lasts until its tool has          *)
(* answered, a GET until its SSE stream ends.                              *)
(*                                                                         *)
(* Of the SDK transport (external) three things are used: it accepts or    *)
(* refuses an initialize request, it keeps one SSE stream per session and  *)
(* refuses a second GET, and its close ends every response of the session. *)
(***************************************************************************)
EXTENDS Integers, FiniteSets

CONSTANTS
  Sessions,   \* session ids; each is generated at most once
  Requests,   \* HTTP requests that may be in progress at the same time
  Expiry,     \* SESSION_IDLE_EXPIRY_MS, in ticks
  Interval,   \* SESSION_SWEEP_INTERVAL_MS, in ticks
  NoSession

ASSUME TimesAssumption == Expiry \in Nat /\ Interval \in Nat \ {0}

VARIABLES
  state,      \* what has become of each session
  pair,       \* the session's server and transport
  idleFor,    \* now - lastSeenAt
  streaming,  \* SessionRecord.streaming
  request,    \* each request in progress: [kind, session]
  sweepIn,    \* ticks until the sweeper runs
  thrown      \* history: sessions whose initialize request threw

vars == <<state, pair, idleFor, streaming, request, sweepIn, thrown>>

State == {"unused", "creating", "live", "refused", "expired", "deleted"}
PairState == {"none", "open", "closing", "closed", "abandoned"}

(* stream: a GET the transport accepted; extra: a GET it refuses.          *)
Kind == {"none", "init", "post", "stream", "extra", "delete"}

NoRequest == [kind |-> "none", session |-> NoSession]

Init ==
  /\ state = [s \in Sessions |-> "unused"]
  /\ pair = [s \in Sessions |-> "none"]
  /\ idleFor = [s \in Sessions |-> 0]
  /\ streaming = [s \in Sessions |-> FALSE]
  /\ request = [q \in Requests |-> NoRequest]
  /\ sweepIn = Interval
  /\ thrown = {}

InProgress(s) == {q \in Requests : request[q].session = s}
HasStream(s) == \E q \in InProgress(s) : request[q].kind = "stream"

Arrive(q, k, s) ==
  /\ request[q] = NoRequest
  /\ request' = [request EXCEPT ![q] = [kind |-> k, session |-> s]]

Depart(q) == request' = [request EXCEPT ![q] = NoRequest]

-----------------------------------------------------------------------------
(* createSession                                                           *)

CreateSession(q, s) ==
  /\ state[s] = "unused"
  /\ Arrive(q, "init", s)
  /\ state' = [state EXCEPT ![s] = "creating"]
  /\ pair' = [pair EXCEPT ![s] = "open"]
  /\ UNCHANGED <<idleFor, streaming, sweepIn, thrown>>

(* onInitialized, called by the transport while it handles the request.    *)
OnInitialized(s) ==
  /\ state[s] = "creating"
  /\ InProgress(s) # {}
  /\ state' = [state EXCEPT ![s] = "live"]
  /\ idleFor' = [idleFor EXCEPT ![s] = 0]
  /\ UNCHANGED <<pair, streaming, request, sweepIn, thrown>>

(* handleRequest resolves without having initialized the session.          *)
InitRefused(q, s) ==
  /\ request[q] = [kind |-> "init", session |-> s]
  /\ state[s] = "creating"
  /\ state' = [state EXCEPT ![s] = "refused"]
  /\ pair' = [pair EXCEPT ![s] = "closing"]
  /\ Depart(q)
  /\ UNCHANGED <<idleFor, streaming, sweepIn, thrown>>

(* handleRequest rejects: routeRequest answers 500, and closePair is       *)
(* skipped with the rest of createSession.                                 *)
InitThrows(q, s) ==
  /\ request[q] = [kind |-> "init", session |-> s]
  /\ state[s] = "creating"
  /\ state' = [state EXCEPT ![s] = "refused"]
  /\ thrown' = thrown \union {s}
  /\ Depart(q)
  /\ UNCHANGED <<pair, idleFor, streaming, sweepIn>>

-----------------------------------------------------------------------------
(* handleExisting.  A request for a session that is not in the map gets a  *)
(* 404 and changes nothing.                                                *)

Touch(s) == idleFor' = [idleFor EXCEPT ![s] = 0]

Post(q, s) ==
  /\ state[s] = "live"
  /\ Arrive(q, "post", s)
  /\ Touch(s)
  /\ UNCHANGED <<state, pair, streaming, sweepIn, thrown>>

Get(q, s) ==
  /\ state[s] = "live"
  /\ Arrive(q, IF HasStream(s) THEN "extra" ELSE "stream", s)
  /\ Touch(s)
  /\ streaming' = [streaming EXCEPT ![s] = TRUE]
  /\ UNCHANGED <<state, pair, sweepIn, thrown>>

Delete(q, s) ==
  /\ state[s] = "live"
  /\ Arrive(q, "delete", s)
  /\ Touch(s)
  /\ UNCHANGED <<state, pair, streaming, sweepIn, thrown>>

(* The response of an initialize or POST request is complete.              *)
ResponseEnds(q) ==
  /\ \/ request[q].kind = "post"
     \/ /\ request[q].kind = "init"
        /\ state[request[q].session] # "creating"
  /\ Depart(q)
  /\ UNCHANGED <<state, pair, idleFor, streaming, sweepIn, thrown>>

StaysStreaming(s) ==  \* fault: the listener leaves the flag set
  /\ Touch(s)
  /\ UNCHANGED streaming

(* trackStream's listener.                                                 *)
StreamListener(s) ==
  /\ Touch(s)
  /\ streaming' = [streaming EXCEPT ![s] = FALSE]

(* The response of a GET closes: the client ends its stream, or the GET    *)
(* was refused because the session already has one.                        *)
GetCloses(q) ==
  /\ request[q].kind \in {"stream", "extra"}
  /\ StreamListener(request[q].session)
  /\ Depart(q)
  /\ UNCHANGED <<state, pair, sweepIn, thrown>>

-----------------------------------------------------------------------------
(* remove and closePair                                                    *)

ForgetsPair(gone, why) ==  \* fault: the entry is deleted, the pair not closed
  /\ state' = [s \in Sessions |-> IF s \in gone THEN why ELSE state[s]]
  /\ UNCHANGED pair

(* The sessions of `gone` leave the map; their close begins.               *)
Remove(gone, why) ==
  /\ state' = [s \in Sessions |-> IF s \in gone THEN why ELSE state[s]]
  /\ pair' = [s \in Sessions |-> IF s \in gone THEN "closing" ELSE pair[s]]

RemovesItsRecord(q) ==  \* fault: closes the record it held while it waited
  /\ request[q].kind = "delete"
  /\ Remove({request[q].session}, "deleted")
  /\ Depart(q)
  /\ UNCHANGED <<idleFor, streaming, sweepIn, thrown>>

(* The transport has answered the DELETE; a session that has gone in the   *)
(* meantime is not removed again.                                          *)
DeleteEnds(q) ==
  /\ request[q].kind = "delete"
  /\ LET s == request[q].session
     IN Remove({s} \intersect {t \in Sessions : state[t] = "live"}, "deleted")
  /\ Depart(q)
  /\ UNCHANGED <<idleFor, streaming, sweepIn, thrown>>

(* The transport rejects the DELETE's handling: the session stays.         *)
DeleteThrows(q) ==
  /\ request[q].kind = "delete"
  /\ Depart(q)
  /\ UNCHANGED <<state, pair, idleFor, streaming, sweepIn, thrown>>

(* transport.close ends the session's responses; then server.close.  (The  *)
(* listeners of closed streams then write to a record nobody reads.)       *)
EndResponses(s) ==
  request' = [q \in Requests |->
                IF request[q].session = s THEN NoRequest ELSE request[q]]

ClosePair(s) ==
  /\ pair[s] = "closing"
  /\ pair' = [pair EXCEPT ![s] = "closed"]
  /\ EndResponses(s)
  /\ UNCHANGED <<state, idleFor, streaming, sweepIn, thrown>>

(* transport.close rejects: a warning is logged, server.close is skipped.  *)
ClosePairFails(s) ==
  /\ pair[s] = "closing"
  /\ pair' = [pair EXCEPT ![s] = "abandoned"]
  /\ UNCHANGED <<state, idleFor, streaming, request, sweepIn, thrown>>

-----------------------------------------------------------------------------
(* Time and the sweeper                                                    *)

(* Ages beyond this make no difference.                                    *)
IdleCap == Expiry + Interval + 1

Tick ==
  /\ sweepIn > 0
  /\ sweepIn' = sweepIn - 1
  /\ idleFor' = [s \in Sessions |->
                   IF state[s] = "live" /\ idleFor[s] < IdleCap
                   THEN idleFor[s] + 1 ELSE idleFor[s]]
  /\ UNCHANGED <<state, pair, streaming, request, thrown>>

WaitsForAllStreams ==  \* fault: one open stream exempts every session
  {s \in Sessions : /\ state[s] = "live"
                    /\ \A t \in Sessions : ~streaming[t]
                    /\ idleFor[s] > Expiry}

Expired ==
  {s \in Sessions : state[s] = "live" /\ ~streaming[s] /\ idleFor[s] > Expiry}

Sweep ==
  /\ sweepIn = 0
  /\ sweepIn' = Interval
  /\ Remove(Expired, "expired")
  /\ UNCHANGED <<idleFor, streaming, request, thrown>>

-----------------------------------------------------------------------------
RequestNext(q) ==
  \/ \E s \in Sessions :
       \/ CreateSession(q, s) \/ InitRefused(q, s) \/ InitThrows(q, s)
       \/ Post(q, s) \/ Get(q, s) \/ Delete(q, s)
  \/ ResponseEnds(q) \/ GetCloses(q) \/ DeleteEnds(q) \/ DeleteThrows(q)

Next ==
  \/ \E q \in Requests : RequestNext(q)
  \/ \E s \in Sessions : OnInitialized(s) \/ ClosePair(s) \/ ClosePairFails(s)
  \/ Tick
  \/ Sweep

Spec == Init /\ [][Next]_vars

-----------------------------------------------------------------------------
(* Every variable has its type.                                            *)
TypeOK ==
  /\ state \in [Sessions -> State]
  /\ pair \in [Sessions -> PairState]
  /\ idleFor \in [Sessions -> 0..IdleCap]
  /\ streaming \in [Sessions -> BOOLEAN]
  /\ request \in [Requests -> [kind : Kind, session : Sessions \union {NoSession}]]
  /\ sweepIn \in 0..Interval
  /\ thrown \subseteq Sessions

(* "pairs that no session entry will ever close" (createSession): a pair   *)
(* that is open belongs to a session in the map or being created, unless   *)
(* the initialize request threw.                                           *)
PairsAccounted ==
  \A s \in Sessions :
    pair[s] = "open" => state[s] \in {"creating", "live"} \/ s \in thrown

ClosesAgain(s) ==
  /\ pair[s] \in {"closing", "closed", "abandoned"}
  /\ state'[s] # state[s] \/ (pair[s] # "closing" /\ pair'[s] # pair[s])

(* A pair is closed once, and its session removed once, however a DELETE   *)
(* that is still handled meets the sweep or another DELETE (remove).       *)
ClosesOnce == [][\A s \in Sessions : ~ClosesAgain(s)]_vars

(* A session that is not exempt is gone one sweep after its expiry: the    *)
(* flag of one session never keeps another alive.                          *)
IdleBounded ==
  \A s \in Sessions :
    state[s] = "live" /\ ~streaming[s] => idleFor[s] <= Expiry + Interval

(* A session nobody uses any more ends, even when its last stream was      *)
(* dropped: the exemption does not outlive the streams.                    *)
AbandonedSessionEnds ==
  \A s \in Sessions :
    (state[s] = "live" /\ InProgress(s) = {})
      ~> (state[s] # "live" \/ InProgress(s) # {})

Expires(s) == state[s] = "live" /\ state'[s] = "expired"

(* "Closes every session idle past the expiry window (open streams         *)
(* exempt)": a session that is expired has neither an SSE stream open nor  *)
(* a POST that is still being handled.                                     *)
OnlyIdleExpire ==
  [][\A s \in Sessions :
       Expires(s) =>
         \A q \in InProgress(s) : request[q].kind \notin {"stream", "post"}]_vars
=============================================================================
