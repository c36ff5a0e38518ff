---------------------------- MODULE LiveResources ----------------------------
(***************************************************************************)
(* The subscribable resources of each MCP server                           *)
(* (src/resources/live-resources.ts) over the process-wide SubscriptionFeed*)
(* (src/graphql/subscription-feed.ts).  Subscribing to a resource starts   *)
(* one upstream operation per part of it; the server's `active` map holds  *)
(* the function that stops them.  Upstream, an operation ends with an      *)
(* error, which the feed reports, or is completed, which the feed ignores. *)
(* A stopped operation delivers nothing more (graphql-ws, external).       *)
(***************************************************************************)
EXTENDS Integers

CONSTANTS
  Servers,  \* one per session (or the one of stdio)
  Uris,     \* subscribable resources
  Parts     \* the upstream operations behind one resource

VARIABLES
  open,    \* servers whose transport is open
  active,  \* the URIs in each server's `active` map
  op       \* the upstream operation of each part

vars == <<open, active, op>>

OpState == {"none", "running", "completed"}

Init ==
  /\ open = Servers
  /\ active = [v \in Servers |-> {}]
  /\ op = [v \in Servers |-> [u \in Uris |-> [p \in Parts |-> "none"]]]

StartsFirst(v, u) ==  \* fault: only one of the resource's parts is started
  op' = [op EXCEPT ![v][u] = [p \in {CHOOSE p \in Parts : TRUE} |-> "running"]]

Start(v, u) == op' = [op EXCEPT ![v][u] = [p \in Parts |-> "running"]]
Stop(v, u)  == op' = [op EXCEPT ![v][u] = [p \in Parts |-> "none"]]

-----------------------------------------------------------------------------
(* resources/subscribe: a resource that is active already is left alone.   *)
Subscribe(v, u) ==
  /\ v \in open
  /\ u \notin active[v]
  /\ active' = [active EXCEPT ![v] = @ \union {u}]
  /\ Start(v, u)
  /\ UNCHANGED open

Unsubscribe(v, u) ==
  /\ v \in open
  /\ u \in active[v]
  /\ active' = [active EXCEPT ![v] = @ \ {u}]
  /\ Stop(v, u)
  /\ UNCHANGED open

SiblingsSurvive(v, u, p) ==  \* fault: the entry goes, its other parts do not
  /\ op[v][u][p] = "running"
  /\ active' = [active EXCEPT ![v] = @ \ {u}]
  /\ op' = [op EXCEPT ![v][u][p] = "none"]
  /\ UNCHANGED open

EntrySurvives(v, u, p) ==  \* fault: an error leaves the entry in the map
  /\ op[v][u][p] = "running"
  /\ op' = [op EXCEPT ![v][u][p] = "none"]
  /\ UNCHANGED <<open, active>>

(* onError: the entry is dropped and the surviving parts are stopped.      *)
FeedError(v, u, p) ==
  /\ op[v][u][p] = "running"
  /\ active' = [active EXCEPT ![v] = @ \ {u}]
  /\ Stop(v, u)
  /\ UNCHANGED open

(* The feed's `complete: () => {}`: the operation is over, nothing else.   *)
FeedCompletes(v, u, p) ==
  /\ op[v][u][p] = "running"
  /\ op' = [op EXCEPT ![v][u][p] = "completed"]
  /\ UNCHANGED <<open, active>>

(* The shared socket is lost for good: every running operation reports an  *)
(* error, in one run of continuations.                                     *)
SocketLost ==
  LET hit(v, u) == \E p \in Parts : op[v][u][p] = "running"
  IN /\ active' = [v \in Servers |-> {u \in active[v] : ~hit(v, u)}]
     /\ op' = [v \in Servers |-> [u \in Uris |->
                 IF hit(v, u) THEN [p \in Parts |-> "none"] ELSE op[v][u]]]
     /\ UNCHANGED open

NoTeardown(v) ==  \* fault: onclose does not stop the subscriptions
  /\ v \in open
  /\ open' = open \ {v}
  /\ UNCHANGED <<active, op>>

(* installTeardown: the server's transport closes.                         *)
CloseServer(v) ==
  /\ v \in open
  /\ open' = open \ {v}
  /\ active' = [active EXCEPT ![v] = {}]
  /\ op' = [op EXCEPT ![v] = [u \in Uris |->
              IF u \in active[v] THEN [p \in Parts |-> "none"] ELSE @[u]]]

Next ==
  \/ \E v \in Servers :
       \/ CloseServer(v)
       \/ \E u \in Uris :
            \/ Subscribe(v, u) \/ Unsubscribe(v, u)
            \/ \E p \in Parts : FeedError(v, u, p) \/ FeedCompletes(v, u, p)
  \/ SocketLost

Spec == Init /\ [][Next]_vars

-----------------------------------------------------------------------------
(* Every variable has its type.                                            *)
TypeOK ==
  /\ open \subseteq Servers
  /\ active \in [Servers -> SUBSET Uris]
  /\ op \in [Servers -> [Uris -> [Parts -> OpState]]]

(* Every running upstream operation can still be stopped: it belongs to an *)
(* entry of an open server's map ("each recycled session would leak its    *)
(* WebSocket subscriptions on the process-lifetime shared feed forever").  *)
NoLeakedOperation ==
  \A v \in Servers, u \in Uris, p \in Parts :
    op[v][u][p] = "running" => v \in open /\ u \in active[v]

(* A resource is in the map with all of its operations or not at all: when *)
(* one fails, neither a half-fed resource nor an entry that blocks the next*)
(* subscribe remains.                                                      *)
AllOrNothing ==
  \A v \in Servers, u \in Uris :
    u \in active[v] => \A p \in Parts : op[v][u][p] # "none"

(* "A dead subscription must not block revival": a resource whose upstream *)
(* is over is not in the map, so that the next subscribe restarts it.      *)
DeadDoesNotBlock ==
  \A v \in Servers, u \in Uris :
    u \in active[v] => \E p \in Parts : op[v][u][p] = "running"
=============================================================================
