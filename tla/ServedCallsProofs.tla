--------------------------- MODULE ServedCallsProofs ---------------------------
(***************************************************************************)
(* Proofs about tool calls, for every table of tools that keeps the static *)
(* conditions of ToolCalls, every set of calls and every transport:        *)
(* nothing is changed on the server without the consent that is asked for, *)
(* nor by a call that is not permitted; no server built for one request    *)
(* outlives its response; a result that says that something was done,      *)
(* verified or not done is true, unless a failure was taken for an answer; *)
(* and every variable keeps its type.                                      *)
(***************************************************************************)
EXTENDS ServedCalls, TLAPS

(* The parts of the state that the consent of a call depends on.           *)
Typed ==
  /\ tool \in [Calls -> DOMAIN Table \cup {NoTool}]
  /\ tier \in [Calls -> 0..2] /\ consent \in [Calls -> 0..2]
  /\ at \in [Calls -> Nat]
  /\ effect \in [Calls -> Effect]
  /\ DOMAIN flow = Calls

(* A call that has not begun has done nothing; one that has follows a flow *)
(* of its tool.                                                            *)
FollowsTable ==
  \A c \in Calls :
    IF tool[c] = NoTool THEN at[c] = 1 /\ effect[c] = "none"
    ELSE flow[c] \in Table[tool[c]].flows

(* Each gate that lies behind a call had its consent.                      *)
GatesPassed ==
  \A c \in Calls :
    /\ tier[c] <= consent[c]
    /\ \A j \in DOMAIN flow[c].steps \cap 1..(at[c] - 1) :
         flow[c].steps[j].do = "gate" => flow[c].steps[j].tier <= consent[c]

CallInv == Typed /\ FollowsTable /\ GatesPassed /\ ConsentedEffects

LEMMA InitCallInv == Init => CallInv
BY DEF Init, CallInv, Typed, FollowsTable, GatesPassed, ConsentedEffects, Effect

(* A step of a handler that is no gate: the invariant goes with the step   *)
(* counter, provided a change of the server is consented to.               *)
LEMMA AdvanceCallInv ==
  ASSUME CallInv, NEW c \in Calls, Busy(c),
         at[c] \in DOMAIN flow[c].steps, Now(c).do # "gate",
         at' \in {at, [at EXCEPT ![c] = @ + 1]},
         effect' \in [Calls -> Effect],
         \A d \in Calls : effect'[d] = effect[d] \/ (d = c /\ consent[c] >= flow[c].asks),
         UNCHANGED <<tool, flow, tier, consent>>
  PROVE  CallInv'
<1>1. at' \in [Calls -> Nat]
  BY DEF CallInv, Typed
<1>2. \A d \in Calls : at'[d] = at[d] \/ (d = c /\ at'[d] = at[d] + 1)
  BY DEF CallInv, Typed
<1>3. Typed'
  BY <1>1 DEF CallInv, Typed
<1>4. FollowsTable'
  BY <1>2 DEF CallInv, FollowsTable, Busy
<1>5. GatesPassed'
  <2> SUFFICES ASSUME NEW d \in Calls
      PROVE /\ tier[d] <= consent[d]
            /\ \A j \in DOMAIN flow[d].steps \cap 1..(at'[d] - 1) :
                 flow[d].steps[j].do = "gate" => flow[d].steps[j].tier <= consent[d]
    BY DEF GatesPassed
  <2>1. at[d] \in Nat
    BY DEF CallInv, Typed
  <2>2. CASE at'[d] = at[d]
    BY <2>2 DEF CallInv, GatesPassed
  <2>3. CASE d = c /\ at'[d] = at[d] + 1
    <3>1. \A j \in 1..(at'[d] - 1) : j \in 1..(at[d] - 1) \/ j = at[d]
      BY <2>1, <2>3
    <3> QED BY <3>1, <2>3 DEF CallInv, GatesPassed, Now
  <2> QED BY <1>2, <2>2, <2>3
<1>6. ConsentedEffects'
  BY DEF CallInv, ConsentedEffects
<1> QED BY <1>3, <1>4, <1>5, <1>6 DEF CallInv

(* Leaving a gate with the consent it asks for.                            *)
LEMMA GateCallInv ==
  ASSUME CallInv, NEW c \in Calls, AtGate(c),
         at' \in {at, [at EXCEPT ![c] = @ + 1]},
         consent' \in [Calls -> 0..2],
         \A d \in Calls : consent[d] <= consent'[d],
         at' # at => consent'[c] >= Now(c).tier,
         UNCHANGED <<tool, flow, tier, effect>>
  PROVE  CallInv'
<1> USE TableAssumption
<1>1. /\ at' \in [Calls -> Nat]
      /\ \A d \in Calls : at'[d] = at[d] \/ (d = c /\ at'[d] = at[d] + 1 /\ at' # at)
  BY DEF CallInv, Typed
<1>2. Typed'
  BY <1>1 DEF CallInv, Typed
<1>3. FollowsTable'
  BY <1>1 DEF CallInv, FollowsTable, AtGate, Doing, Busy
<1>4. ASSUME NEW d \in Calls, tool[d] # NoTool
      PROVE  /\ flow[d].asks \in 0..2
             /\ \A j \in DOMAIN flow[d].steps : flow[d].steps[j].tier \in 0..2
  BY <1>4 DEF CallInv, Typed, FollowsTable, TieredTable
<1>5. GatesPassed'
  <2> SUFFICES ASSUME NEW d \in Calls
      PROVE /\ tier[d] <= consent'[d]
            /\ \A j \in DOMAIN flow[d].steps \cap 1..(at'[d] - 1) :
                 flow[d].steps[j].do = "gate" => flow[d].steps[j].tier <= consent'[d]
    BY DEF GatesPassed
  <2>1. at[d] \in Nat /\ tier[d] \in 0..2 /\ consent[d] \in 0..2 /\ consent'[d] \in 0..2
    BY DEF CallInv, Typed
  <2>2. ASSUME NEW j \in DOMAIN flow[d].steps \cap 1..(at'[d] - 1),
               flow[d].steps[j].do = "gate"
        PROVE  flow[d].steps[j].tier <= consent'[d]
    <3>1. CASE j \in 1..(at[d] - 1)
      <4>1. flow[d].steps[j].tier <= consent[d]
        BY <2>2, <3>1 DEF CallInv, GatesPassed
      <4>2. tool[d] # NoTool
        BY <2>1, <3>1 DEF CallInv, FollowsTable
      <4>3. flow[d].steps[j].tier \in 0..2
        BY <1>4, <4>2
      <4> QED BY <2>1, <4>1, <4>3
    <3>2. CASE d = c /\ j = at[c] /\ at' # at
      BY <3>2 DEF Now
    <3> QED BY <1>1, <2>1, <3>1, <3>2
  <2>3. tier[d] <= consent'[d]
    BY <2>1 DEF CallInv, GatesPassed
  <2> QED BY <2>2, <2>3
<1>6. ConsentedEffects'
  <2> SUFFICES ASSUME NEW d \in Calls, effect[d] # "none"
      PROVE consent'[d] >= flow[d].asks
    BY DEF ConsentedEffects
  <2>1. tool[d] # NoTool /\ consent[d] >= flow[d].asks
    BY DEF CallInv, FollowsTable, ConsentedEffects
  <2>2. flow[d].asks \in 0..2 /\ consent[d] \in 0..2 /\ consent'[d] \in 0..2
    BY <1>4, <2>1 DEF CallInv, Typed
  <2> QED BY <2>1, <2>2
<1> QED BY <1>2, <1>3, <1>5, <1>6 DEF CallInv

(* The tier that a gate asks for is one of the flags'.                     *)
LEMMA GateTier ==
  ASSUME CallInv, NEW c \in Calls, AtGate(c)
  PROVE  Now(c).tier \in 0..2
BY TableAssumption DEF CallInv, Typed, FollowsTable, TieredTable, AtGate, Doing, Busy, Now

(* A step at act: what came before it includes a gate of the tier asked    *)
(* for.                                                                    *)
LEMMA ActIsConsented ==
  ASSUME CallInv, NEW c \in Calls, Doing(c, "act")
  PROVE  consent[c] >= flow[c].asks
<1> USE TableAssumption
<1>1. /\ tool[c] \in DOMAIN Table /\ flow[c] \in Table[tool[c]].flows
      /\ at[c] \in Nat /\ consent[c] \in 0..2
  BY DEF CallInv, Typed, FollowsTable, Doing, Busy
<1>2. /\ flow[c].asks \in 0..2
      /\ \A j \in DOMAIN flow[c].steps : flow[c].steps[j].tier \in 0..2
  BY <1>1 DEF TieredTable
<1>3. CASE flow[c].asks = 0
  BY <1>1, <1>3
<1>4. CASE flow[c].asks > 0
  <2>1. PICK j \in DOMAIN flow[c].steps \cap 1..(at[c] - 1) :
          flow[c].steps[j].do = "gate" /\ flow[c].steps[j].tier >= flow[c].asks
    BY <1>1, <1>4 DEF GatedTable, Doing, Now
  <2>2. flow[c].steps[j].tier <= consent[c]
    BY <2>1 DEF CallInv, GatesPassed
  <2> QED BY <1>1, <1>2, <2>1, <2>2
<1> QED BY <1>2, <1>3, <1>4

LEMMA NextCallInv == CallInv /\ [Next]_vars => CallInv'
<1> USE TableAssumption
<1> SUFFICES ASSUME CallInv, [Next]_vars PROVE CallInv'
  OBVIOUS
<1>1. ASSUME NEW c \in Calls, NEW t \in DOMAIN Table, NEW flags \in 0..2,
             NEW f \in Table[t].flows, Call(c, t, f, flags)
      PROVE  CallInv'
  <2>1. Typed'
    BY <1>1 DEF Call, CallInv, Typed
  <2>2. FollowsTable'
    BY <1>1 DEF Call, CallInv, Typed, FollowsTable
  <2>3. GatesPassed'
    BY <1>1 DEF Call, CallInv, Typed, FollowsTable, GatesPassed
  <2>4. ConsentedEffects'
    BY <1>1 DEF Call, CallInv, Typed, FollowsTable, ConsentedEffects
  <2> QED BY <2>1, <2>2, <2>3, <2>4 DEF CallInv
<1>2. ASSUME NEW c \in Calls, CallStep(c) PROVE CallInv'
  <2>1. CASE StartProgressHeartbeat(c)
    BY <2>1, AdvanceCallInv DEF StartProgressHeartbeat, Doing, CallInv, Typed
  <2>2. CASE RequireShell(c)
    BY <2>2, AdvanceCallInv DEF RequireShell, Settle, Doing, CallInv, Typed
  <2>3. CASE \E o \in Outcomes : CheckArguments(c, o)
    BY <2>3, AdvanceCallInv DEF CheckArguments, Settle, Doing, CallInv, Typed
  <2>4. CASE \E o \in Outcomes : ReadServer(c, o)
    BY <2>4, AdvanceCallInv DEF ReadServer, Settle, Doing, CallInv, Typed
  <2>11. CASE \E o \in Outcomes : LookBack(c, o)
    BY <2>11, AdvanceCallInv DEF LookBack, Settle, Doing, CallInv, Typed
  <2>5. CASE \E o \in Outcomes : ActOnServer(c, o)
    <3>1. PICK o \in Outcomes : ActOnServer(c, o)
      BY <2>5
    <3>2. Doing(c, "act") /\ consent[c] >= flow[c].asks
      BY <3>1, ActIsConsented DEF ActOnServer
    <3>3. /\ effect' \in [Calls -> Effect]
          /\ \A d \in Calls : effect'[d] = effect[d] \/ d = c
      <4>1. PICK e \in EffectsOf(o) : effect' = [effect EXCEPT ![c] = Combined(@, e)]
        BY <3>1 DEF ActOnServer
      <4>2. Combined(effect[c], e) \in Effect
        BY DEF Combined, Effect
      <4> QED BY <4>1, <4>2 DEF CallInv, Typed
    <3>4. /\ at' \in {at, [at EXCEPT ![c] = @ + 1]}
          /\ UNCHANGED <<tool, flow, tier, consent>>
      BY <3>1 DEF ActOnServer, Settle, CallInv, Typed
    <3> QED BY <3>2, <3>3, <3>4, AdvanceCallInv DEF Doing
  <2>6. CASE FlagsSuffice(c)
    <3>1. /\ AtGate(c) /\ tier[c] >= Now(c).tier
          /\ at' = [at EXCEPT ![c] = @ + 1]
          /\ UNCHANGED <<tool, flow, tier, consent, effect>>
      BY <2>6 DEF FlagsSuffice, Settle
    <3>2. Now(c).tier \in 0..2
      BY <3>1, GateTier
    <3>3. /\ consent[c] >= Now(c).tier
          /\ consent \in [Calls -> 0..2] /\ tier \in [Calls -> 0..2]
      BY <3>1, <3>2 DEF CallInv, Typed, GatesPassed
    <3>4. \A d \in Calls : consent[d] <= consent'[d]
      BY <3>1, <3>3
    <3> QED BY <3>1, <3>3, <3>4, GateCallInv
  <2>7. CASE AskHuman(c) \/ LateAnswer(c)
    <3>1. UNCHANGED <<tool, flow, tier, at, consent, effect>>
      BY <2>7 DEF AskHuman, LateAnswer
    <3> QED BY <3>1 DEF CallInv, Typed, FollowsTable, GatesPassed, ConsentedEffects
  <2>8. CASE NobodyToAsk(c) \/ PromptFails(c)
    <3>1. UNCHANGED <<tool, flow, tier, at, consent, effect>>
      BY <2>8 DEF NobodyToAsk, PromptFails, Settle, CallInv, Typed
    <3> QED BY <3>1 DEF CallInv, Typed, FollowsTable, GatesPassed, ConsentedEffects
  <2>9. CASE \E boxes \in 0..2 : HumanAnswers(c, boxes)
    <3>1. PICK boxes \in 0..2 : HumanAnswers(c, boxes)
      BY <2>9
    <3>2. /\ AtGate(c)
          /\ consent' = [consent EXCEPT ![c] = IF @ < boxes THEN boxes ELSE @]
          /\ at' \in {at, [at EXCEPT ![c] = @ + 1]}
          /\ at' # at => boxes >= Now(c).tier
          /\ UNCHANGED <<tool, flow, tier, effect>>
      BY <3>1 DEF HumanAnswers, Settle, AllConfirmed, CallInv, Typed
    <3>3. /\ consent' \in [Calls -> 0..2]
          /\ \A d \in Calls : consent[d] <= consent'[d]
          /\ boxes <= consent'[c] /\ consent'[c] \in 0..2
      BY <3>2 DEF CallInv, Typed
    <3>4. Now(c).tier \in 0..2
      BY <3>2, GateTier
    <3>5. at' # at => consent'[c] >= Now(c).tier
      BY <3>2, <3>3, <3>4
    <3> QED BY <3>2, <3>3, <3>5, GateCallInv
  <2>10. CASE \E e \in {"none", "applied"} : Lands(c, e)
    BY <2>10 DEF Lands, CallInv, Typed, Effect, FollowsTable, GatesPassed, ConsentedEffects
  <2> QED BY <1>2, <2>1, <2>2, <2>3, <2>4, <2>5, <2>6, <2>7, <2>8, <2>9, <2>10, <2>11
          DEF CallStep, Advance
<1>3. CASE ClientLeaves
  BY <1>3 DEF ClientLeaves, callVars, CallInv, Typed, FollowsTable, GatesPassed, ConsentedEffects
<1>4. CASE UNCHANGED vars
  BY <1>4 DEF vars, callVars, config, CallInv, Typed, FollowsTable, GatesPassed, ConsentedEffects
<1> QED BY <1>1, <1>2, <1>3, <1>4 DEF Next
-----------------------------------------------------------------------------
(* The server is changed only with the consent that the tool's description *)
(* asks for: for every gated table and any number of calls at once.        *)
THEOREM Consent == Spec => []ConsentedEffects
<1>1. CallInv => ConsentedEffects
  BY DEF CallInv
<1> QED BY InitCallInv, NextCallInv, <1>1, PTL DEF Spec

(* A step of the served system is one of the tool calls, or leaves them.   *)
LEMMA ServedImplementsCalls == [ServedNext]_servedVars => [Next]_vars
<1> SUFFICES ASSUME [ServedNext]_servedVars PROVE [Next]_vars
  OBVIOUS
<1>1. ASSUME NEW c \in Calls, NEW r \in Requests, Receive(c, r) PROVE UNCHANGED vars
  BY <1>1 DEF Receive
<1>2. ASSUME NEW c \in Calls, HttpStep(c) \/ HandleThrows(c) \/ StreamStarts(c) \/ ResponseCloses(c)
      PROVE  UNCHANGED vars
  BY <1>2 DEF HttpStep, RouteRequest, ReadJsonBody, BodyAborted, Respond,
              HandleThrows, StreamStarts, ResponseCloses
<1>3. ASSUME NEW c \in Calls, NEW code \in {200, 400, 404}, SdkRefuses(c, code)
      PROVE  UNCHANGED vars
  BY <1>3 DEF SdkRefuses
<1>4. ASSUME NEW c \in Calls, NEW t \in DOMAIN Table, NEW flags \in 0..2,
             NEW f \in Table[t].flows, Dispatch(c, t, f, flags)
      PROVE  Next
  BY <1>4 DEF Dispatch, Next
<1>5. CASE UNCHANGED servedVars
  BY <1>5 DEF servedVars
<1> QED BY <1>1, <1>2, <1>3, <1>4, <1>5 DEF ServedNext, Next

(* The served system implements the calls of any table, but for fairness:  *)
(* no transport makes a handler do what it would not do by itself.         *)
THEOREM ServedIsCalls == ServedSpec => Init /\ [][Next]_vars
<1>1. ServedInit => Init
  BY DEF ServedInit
<1> QED BY <1>1, ServedImplementsCalls, PTL DEF ServedSpec

(* The same over every transport, with requests cut off, refused or        *)
(* answered before their call is.                                          *)
THEOREM ServedConsent == ServedSpec => []ConsentedEffects
<1>1. ServedInit => CallInv
  BY InitCallInv DEF ServedInit
<1>2. CallInv /\ [ServedNext]_servedVars => CallInv'
  BY ServedImplementsCalls, NextCallInv
<1>3. CallInv => ConsentedEffects
  BY DEF CallInv
<1> QED BY <1>1, <1>2, <1>3, PTL DEF ServedSpec
-----------------------------------------------------------------------------
(* The HTTP side: what a request has behind it at each stage of its route. *)
HttpTyped ==
  /\ DOMAIN route = Calls /\ connected \in [Calls -> BOOLEAN]
  /\ fresh \in [Calls -> {"none", "open", "closed"}] /\ DOMAIN request = Calls

RouteAuthorized ==
  \A c \in Calls :
    /\ route[c] \in {"reading", "handling"} => Authorized(request[c])
    /\ tool[c] # NoTool /\ Http => route[c] # "idle" /\ Authorized(request[c])

(* What a call has done, it may do.                                        *)
RegistryHolds ==
  \A c \in Calls :
    /\ tool[c] # NoTool => tool[c] \in Offered
    /\ effect[c] # "none" => tool[c] \in Mutating

ServedInv ==
  CallInv /\ HttpTyped /\ RouteAuthorized /\ RegistryHolds /\ NoStrayServer

LEMMA InitServedInv == ServedInit => ServedInv
BY InitCallInv DEF ServedInit, Init, ServedInv, HttpTyped, RouteAuthorized,
   RegistryHolds, NoStrayServer, NoRequest

(* Only a step at act changes the server, and only its call has a tool     *)
(* that it did not have.                                                   *)
LEMMA RegistryStep ==
  ASSUME CallInv, RegistryHolds, [Next]_vars
  PROVE  RegistryHolds'
<1> USE TableAssumption
<1>1. ASSUME NEW c \in Calls, NEW t \in DOMAIN Table, NEW flags \in 0..2,
             NEW f \in Table[t].flows, Call(c, t, f, flags)
      PROVE  RegistryHolds'
  BY <1>1 DEF Call, CallInv, Typed, RegistryHolds, FollowsTable, config, Offered
<1>2. ASSUME NEW c \in Calls, \E o \in Outcomes : ActOnServer(c, o) PROVE RegistryHolds'
  <2>1. tool[c] \in Mutating
    <3>1. tool[c] \in DOMAIN Table /\ flow[c] \in Table[tool[c]].flows
      BY <1>2 DEF ActOnServer, Doing, Busy, CallInv, Typed, FollowsTable
    <3>2. at[c] \in DOMAIN flow[c].steps /\ flow[c].steps[at[c]].do = "act"
      BY <1>2 DEF ActOnServer, Doing, Now
    <3> QED BY <3>1, <3>2 DEF HintedTable
  <2>2. /\ UNCHANGED <<tool, readOnly>>
        /\ \A d \in Calls : effect'[d] = effect[d] \/ d = c
    BY <1>2 DEF ActOnServer, Settle, config, CallInv, Typed
  <2> QED BY <2>1, <2>2 DEF RegistryHolds, Offered
<1>3. ASSUME NEW c \in Calls, \E e \in {"none", "applied"} : Lands(c, e)
      PROVE  RegistryHolds'
  BY <1>3 DEF Lands, RegistryHolds, Offered, config, CallInv, Typed
<1>4. ASSUME UNCHANGED <<tool, readOnly, effect>> PROVE RegistryHolds'
  BY <1>4 DEF RegistryHolds, Offered
<1>5. ASSUME NEW c \in Calls, CallStep(c) PROVE RegistryHolds'
  <2>1. \/ \E o \in Outcomes : ActOnServer(c, o)
        \/ \E e \in {"none", "applied"} : Lands(c, e)
        \/ UNCHANGED <<tool, readOnly, effect>>
    BY <1>5 DEF CallStep, Advance, StartProgressHeartbeat, RequireShell, CheckArguments,
       ReadServer, LookBack, FlagsSuffice, AskHuman, NobodyToAsk, HumanAnswers, PromptFails,
       LateAnswer, Settle, config
  <2> QED BY <2>1, <1>2, <1>3, <1>4
<1>6. CASE ClientLeaves \/ UNCHANGED vars
  BY <1>6, <1>4 DEF ClientLeaves, vars, callVars, config
<1> QED BY <1>1, <1>5, <1>6 DEF Next

LEMMA NextServedInv == ServedInv /\ [ServedNext]_servedVars => ServedInv'
<1> SUFFICES ASSUME ServedInv, [ServedNext]_servedVars PROVE ServedInv'
  OBVIOUS
<1> USE DEF Http, Authorized
<1>1. CallInv' /\ RegistryHolds'
  BY ServedImplementsCalls, NextCallInv, RegistryStep DEF ServedInv
<1>2. ASSUME HttpTyped', RouteAuthorized', NoStrayServer' PROVE ServedInv'
  BY <1>1, <1>2 DEF ServedInv
<1>3. ASSUME NEW c \in Calls, NEW r \in Requests, Receive(c, r) PROVE ServedInv'
  <2>1. HttpTyped' /\ NoStrayServer'
    BY <1>3 DEF Receive, ServedInv, HttpTyped, NoStrayServer
  <2>2. RouteAuthorized'
    BY <1>3 DEF Receive, ServedInv, HttpTyped, RouteAuthorized, vars, callVars
  <2> QED BY <1>2, <2>1, <2>2
<1>4. ASSUME NEW c \in Calls, RouteRequest(c) PROVE ServedInv'
  <2>1. HttpTyped' /\ NoStrayServer'
    BY <1>4 DEF RouteRequest, Answer, ServedInv, HttpTyped, NoStrayServer
  <2>2. RouteAuthorized'
    BY <1>4 DEF RouteRequest, Answer, ServedInv, HttpTyped, RouteAuthorized, vars, callVars
  <2> QED BY <1>2, <2>1, <2>2
<1>5. ASSUME NEW c \in Calls, ReadJsonBody(c) PROVE ServedInv'
  <2>1. HttpTyped' /\ NoStrayServer'
    BY <1>5 DEF ReadJsonBody, Answer, ServedInv, HttpTyped, NoStrayServer
  <2>2. RouteAuthorized'
    BY <1>5 DEF ReadJsonBody, Answer, ServedInv, HttpTyped, RouteAuthorized, vars, callVars
  <2> QED BY <1>2, <2>1, <2>2
<1>6. ASSUME NEW c \in Calls, NEW code \in {200, 400, 404},
             BodyAborted(c) \/ Respond(c) \/ HandleThrows(c) \/ SdkRefuses(c, code)
      PROVE  ServedInv'
  <2>1. /\ route' = [route EXCEPT ![c] = "over"]
        /\ UNCHANGED <<vars, transport, secured, request, connected, fresh>>
    BY <1>6 DEF BodyAborted, Respond, HandleThrows, SdkRefuses, Answer
  <2>2. HttpTyped' /\ NoStrayServer'
    BY <2>1 DEF ServedInv, HttpTyped, NoStrayServer
  <2>3. RouteAuthorized'
    BY <2>1 DEF ServedInv, HttpTyped, RouteAuthorized, vars, callVars
  <2> QED BY <1>2, <2>2, <2>3
<1>7. ASSUME NEW c \in Calls, StreamStarts(c) \/ ResponseCloses(c) PROVE ServedInv'
  <2>1. HttpTyped' /\ NoStrayServer'
    BY <1>7 DEF StreamStarts, ResponseCloses, ClosesPair, ServedInv, HttpTyped, NoStrayServer
  <2>2. RouteAuthorized'
    BY <1>7 DEF StreamStarts, ResponseCloses, ServedInv, RouteAuthorized, vars, callVars
  <2> QED BY <1>2, <2>1, <2>2
<1>8. ASSUME NEW c \in Calls, NEW t \in DOMAIN Table, NEW flags \in 0..2,
             NEW f \in Table[t].flows, Dispatch(c, t, f, flags)
      PROVE  ServedInv'
  <2>1. HttpTyped' /\ NoStrayServer'
    BY <1>8 DEF Dispatch, httpVars, ServedInv, HttpTyped, NoStrayServer
  <2>2. RouteAuthorized'
    BY <1>8 DEF Dispatch, CarriesCall, Call, httpVars, ServedInv, CallInv, Typed, RouteAuthorized
  <2> QED BY <1>2, <2>1, <2>2
<1>9. ASSUME UNCHANGED httpVars, UNCHANGED tool PROVE ServedInv'
  BY <1>2, <1>9 DEF httpVars, ServedInv, HttpTyped, RouteAuthorized, NoStrayServer
<1>10. ASSUME NEW c \in Calls, CallStep(c) PROVE UNCHANGED tool
  BY <1>10 DEF CallStep, Advance, StartProgressHeartbeat, RequireShell, CheckArguments,
     ReadServer, LookBack, ActOnServer, FlagsSuffice, AskHuman, NobodyToAsk, HumanAnswers,
     PromptFails, LateAnswer, Lands, Settle
<1>11. CASE (ClientLeaves /\ UNCHANGED httpVars) \/ UNCHANGED servedVars
  BY <1>9, <1>11 DEF ClientLeaves, callVars, servedVars, vars
<1> QED BY <1>3, <1>4, <1>5, <1>6, <1>7, <1>8, <1>9, <1>10, <1>11
        DEF ServedNext, HttpStep

(* No call changes the server in read-only mode, none of a tool that is    *)
(* marked read-only, and over HTTP none without the token if there is one. *)
THEOREM Permitted == ServedSpec => []PermittedEffects
<1>1. ServedInv => PermittedEffects
  BY TableAssumption DEF ServedInv, CallInv, Typed, FollowsTable, RouteAuthorized, RegistryHolds,
     PermittedEffects, HintedTable, Offered, Authorized
<1> QED BY InitServedInv, NextServedInv, <1>1, PTL DEF ServedSpec

(* A server built for one request does not outlive its response.           *)
THEOREM NoneStray == ServedSpec => []NoStrayServer
<1>1. ServedInv => NoStrayServer
  BY DEF ServedInv
<1> QED BY InitServedInv, NextServedInv, <1>1, PTL DEF ServedSpec
-----------------------------------------------------------------------------
(* What a handler has done so far is what the steps it took must have      *)
(* done; when it answers, nothing more follows.                            *)
Progressing ==
  \A c \in Calls : Busy(c) =>
    /\ Untouched(flow[c], at[c]) => effect[c] = "none"
    /\ Changed(flow[c], at[c]) => effect[c] = "applied"

(* The invariant of a call that is answered honestly, and is answered.     *)
HonestInv == CallInv /\ TypeOK /\ Progressing /\ HonestReplies

(* What the server is like is kept track of, and taken for no worse.       *)
LEMMA WantedGrows ==
  ASSUME HonestInv, NEW c \in Calls, NEW b, wanted' = [wanted EXCEPT ![c] = @ \/ b]
  PROVE  /\ wanted' \in [Calls -> BOOLEAN]
         /\ \A d \in Calls : wanted[d] => wanted'[d]
         /\ \A d \in Calls \ {c} : wanted'[d] = wanted[d]
<1>1. wanted \in [Calls -> BOOLEAN]
  BY DEF HonestInv, TypeOK
<1> QED BY <1>1, Zenon

(* A step whose failure was taken for an answer is noted.                  *)
LEMMA BlindnessNoted ==
  ASSUME HonestInv, NEW c \in Calls, NEW o, NoteBlindness(c, o)
  PROVE  /\ blind' \in [Calls -> SUBSET Nat]
         /\ \A d \in Calls \ {c} : blind'[d] = blind[d]
         /\ TakenForAnswer(Now(c), o) => at[c] \in blind'[c]
<1> DEFINE b == IF TakenForAnswer(Now(c), o) THEN blind[c] \cup {at[c]} ELSE blind[c]
<1>1. blind \in [Calls -> SUBSET Nat] /\ at[c] \in Nat
  BY DEF HonestInv, TypeOK
<1>2. b \in SUBSET Nat /\ (TakenForAnswer(Now(c), o) => at[c] \in b)
  BY <1>1
<1>3. blind' = [blind EXCEPT ![c] = b]
  BY DEF NoteBlindness
<1> HIDE DEF b
<1> QED BY <1>1, <1>2, <1>3

(* What the table says about the step a call is at.                        *)
LEMMA AtStep ==
  ASSUME CallInv, NEW c \in Calls, Busy(c), at[c] \in DOMAIN flow[c].steps
  PROVE  LET f == flow[c]
             i == at[c]
         IN /\ i \in 1..Len(f.steps) /\ Len(f.steps) \in Nat
            /\ DOMAIN f.steps = 1..Len(f.steps)
            /\ f.steps[i].do \in {"gate", "beat"} => i < Len(f.steps)
            /\ f.steps[i].do = "gate" => Untouched(f, i)
            /\ f.steps[i].do = "shell" => {"ok", "absent"} \subseteq DOMAIN f.steps[i].on
            /\ \A o \in DOMAIN f.steps[i].on :
                 /\ f.steps[i].on[o] \in Promises
                      \/ (f.steps[i].on[o] = "next" /\ i < Len(f.steps))
                 /\ TakenForAnswer(f.steps[i], o) \/ BornOut(f, i, o)
<1>1. tool[c] \in DOMAIN Table /\ flow[c] \in Table[tool[c]].flows
  BY DEF CallInv, Typed, FollowsTable, Busy
<1>2. /\ Len(flow[c].steps) \in Nat /\ DOMAIN flow[c].steps = 1..Len(flow[c].steps)
      /\ \A o \in DOMAIN flow[c].steps[at[c]].on :
           \/ flow[c].steps[at[c]].on[o] \in Promises
           \/ flow[c].steps[at[c]].on[o] = "next" /\ at[c] < Len(flow[c].steps)
      /\ flow[c].steps[at[c]].do \in {"gate", "beat"} => at[c] < Len(flow[c].steps)
      /\ flow[c].steps[at[c]].do = "shell" =>
           {"ok", "absent"} \subseteq DOMAIN flow[c].steps[at[c]].on
  BY <1>1, TableAssumption DEF EndingTable
<1>3. /\ flow[c].steps[at[c]].do = "gate" => Untouched(flow[c], at[c])
      /\ \A o \in DOMAIN flow[c].steps[at[c]].on :
           TakenForAnswer(flow[c].steps[at[c]], o) \/ BornOut(flow[c], at[c], o)
  BY <1>1, TableAssumption DEF HonestTable
<1> QED BY <1>2, <1>3

(* A step that is passed adds what it must have done, and takes nothing    *)
(* back.                                                                   *)
LEMMA StepPassed ==
  ASSUME NEW f, NEW i \in Nat, i \in DOMAIN f.steps, i >= 1
  PROVE  /\ Untouched(f, i + 1) =>
              /\ Untouched(f, i)
              /\ f.steps[i].do = "act" =>
                   \A o \in Passing(f.steps[i]) : EffectsOf(o) = {"none"}
         /\ Changed(f, i + 1) =>
              \/ Changed(f, i)
              \/ /\ f.steps[i].do = "act"
                 /\ \A o \in Passing(f.steps[i]) : EffectsOf(o) = {"applied"}
<1>1. 1..((i + 1) - 1) = 1..(i - 1) \cup {i}
  OBVIOUS
<1> QED BY <1>1 DEF Untouched, Changed

(* Call c comes to its next step or its result, and no other call moves.   *)
LEMMA SettleKeepsHonest ==
  ASSUME HonestInv, NEW c \in Calls, Busy(c), at[c] \in DOMAIN flow[c].steps,
         NEW verdict \in Promises \cup {"next"}, Settle(c, verdict),
         effect' \in [Calls -> Effect], blind' \in [Calls -> SUBSET Nat],
         \A d \in Calls \ {c} :
           effect'[d] = effect[d] /\ wanted'[d] = wanted[d] /\ blind'[d] = blind[d],
         verdict = "next" =>
           /\ Untouched(flow[c], at[c] + 1) => effect'[c] = "none"
           /\ Changed(flow[c], at[c] + 1) => effect'[c] = "applied",
         verdict # "next" => \/ at[c] \in blind'[c]
                             \/ /\ verdict \in NothingDone => effect'[c] = "none"
                                /\ verdict = "done" => effect'[c] = "applied"
                                /\ verdict = "verified" => wanted'[c]
  PROVE  Progressing' /\ HonestReplies'
<1>1. /\ at \in [Calls -> Nat] /\ reply \in [Calls -> Promises \cup {Waiting}]
      /\ UNCHANGED <<tool, flow>>
      /\ at' = [at EXCEPT ![c] = IF verdict = "next" THEN @ + 1 ELSE @]
      /\ reply' = [reply EXCEPT ![c] = IF verdict = "next" THEN @ ELSE verdict]
  BY DEF Settle, HonestInv, TypeOK
<1>2. \A d \in Calls \ {c} : at'[d] = at[d] /\ reply'[d] = reply[d]
  BY <1>1
<1>3. verdict # Waiting
  BY DEF Waiting, Promises, NothingDone
<1>4. reply[c] = Waiting /\ Waiting \notin NothingDone \cup {"done", "verified"}
  BY DEF Busy, Waiting, NothingDone
<1>5. Progressing'
  <2> SUFFICES ASSUME NEW d \in Calls, Busy(d)'
      PROVE  (/\ Untouched(flow[d], at[d]) => effect[d] = "none"
              /\ Changed(flow[d], at[d]) => effect[d] = "applied")'
    BY DEF Progressing
  <2>1. CASE d # c
    <3>1. Busy(d) /\ at'[d] = at[d] /\ flow'[d] = flow[d] /\ effect'[d] = effect[d]
      BY <1>1, <1>2, <2>1 DEF Busy
    <3> QED BY <3>1 DEF HonestInv, Progressing, Untouched, Changed
  <2>2. CASE d = c
    <3>1. verdict = "next"
      BY <1>1, <1>3, <2>2 DEF Busy
    <3>2. at'[c] = at[c] + 1 /\ flow'[c] = flow[c]
      BY <1>1, <3>1
    <3> QED BY <2>2, <3>1, <3>2 DEF Untouched, Changed
  <2> QED BY <2>1, <2>2
<1>6. HonestReplies'
  <2> SUFFICES ASSUME NEW d \in Calls, at'[d] \notin blind'[d]
      PROVE  /\ reply'[d] \in NothingDone => effect'[d] = "none"
             /\ reply'[d] = "done" => effect'[d] = "applied"
             /\ reply'[d] = "verified" => wanted'[d]
    BY DEF HonestReplies
  <2>1. CASE d # c
    BY <1>2, <2>1 DEF HonestInv, HonestReplies
  <2>2. CASE d = c /\ verdict = "next"
    BY <1>1, <1>4, <2>2
  <2>3. CASE d = c /\ verdict # "next"
    <3>1. at'[c] = at[c] /\ reply'[c] = verdict
      BY <1>1, <2>3
    <3> QED BY <2>3, <3>1
  <2> QED BY <2>1, <2>2, <2>3
<1> QED BY <1>5, <1>6

(* The types of a step that settles with a verdict.                        *)
LEMMA SettleKeepsTypes ==
  ASSUME HonestInv, NEW c \in Calls, Busy(c), at[c] \in DOMAIN flow[c].steps,
         NEW verdict \in Promises \cup {"next"}, Settle(c, verdict),
         verdict = "next" => at[c] < Len(flow[c].steps),
         effect' \in [Calls -> Effect], consent' \in [Calls -> 0..2],
         prompt' \in [Calls -> {"none", "open", "expired"}], blind' \in [Calls -> SUBSET Nat],
         wanted' \in [Calls -> BOOLEAN]
  PROVE  TypeOK'
<1>1. /\ at \in [Calls -> Nat] /\ reply \in [Calls -> Promises \cup {Waiting}]
      /\ tool \in [Calls -> DOMAIN Table \cup {NoTool}] /\ tier \in [Calls -> 0..2]
      /\ shell \in BOOLEAN /\ readOnly \in BOOLEAN /\ prompting \in BOOLEAN
      /\ UNCHANGED <<shell, readOnly, prompting, tool, flow, tier>>
      /\ at' = [at EXCEPT ![c] = IF verdict = "next" THEN @ + 1 ELSE @]
      /\ reply' = [reply EXCEPT ![c] = IF verdict = "next" THEN @ ELSE verdict]
  BY DEF Settle, config, HonestInv, TypeOK
<1>2. beating \in [Calls -> BOOLEAN]
      /\ beating' = [beating EXCEPT ![c] = beating[c] /\ verdict = "next"]
  BY Zenon DEF Settle, StopHeartbeat, HonestInv, TypeOK
<1>3. /\ beating' \in [Calls -> BOOLEAN]
      /\ beating'[c] => verdict = "next"
      /\ \A d \in Calls \ {c} : beating'[d] = beating[d]
  BY <1>2, Zenon
<1>4. at' \in [Calls -> Nat] /\ reply' \in [Calls -> Promises \cup {Waiting}]
  BY <1>1
<1>5. verdict # Waiting
  BY DEF Waiting, Promises, NothingDone
<1>6. ASSUME NEW d \in Calls
      PROVE  IF Busy(d)' THEN at'[d] \in DOMAIN flow'[d].steps ELSE ~beating'[d]
  <2>1. IF Busy(d) THEN at[d] \in DOMAIN flow[d].steps ELSE ~beating[d]
    BY DEF HonestInv, TypeOK
  <2>2. CASE d # c
    <3>1. /\ at'[d] = at[d] /\ beating'[d] = beating[d]
          /\ Busy(d)' = Busy(d) /\ flow'[d] = flow[d]
      BY <1>1, <1>3, <2>2 DEF Busy
    <3> QED BY <2>1, <3>1
  <2>3. CASE d = c /\ verdict = "next"
    <3>1. /\ at[c] \in 1..Len(flow[c].steps) /\ Len(flow[c].steps) \in Nat
          /\ DOMAIN flow[c].steps = 1..Len(flow[c].steps)
      BY AtStep DEF HonestInv
    <3>2. Busy(c)' /\ at'[c] = at[c] + 1 /\ flow'[c] = flow[c]
      BY <1>1, <2>3 DEF Busy
    <3>3. at'[c] \in DOMAIN flow'[c].steps
      BY <3>1, <3>2, <2>3
    <3> QED BY <2>3, <3>2, <3>3
  <2>4. CASE d = c /\ verdict # "next"
    <3>1. ~Busy(c)'
      BY <1>1, <1>5, <2>4 DEF Busy
    <3> QED BY <1>3, <2>4, <3>1
  <2> QED BY <2>2, <2>3, <2>4
<1> QED BY <1>1, <1>3, <1>4, <1>6 DEF TypeOK

(* A step takes an outcome that it lists, and does to the server what that *)
(* outcome does.                                                           *)
LEMMA OutcomeKeepsHonest ==
  ASSUME HonestInv, NEW c \in Calls, Busy(c), at[c] \in DOMAIN flow[c].steps,
         NEW o \in DOMAIN Now(c).on, Settle(c, Now(c).on[o]),
         IF Now(c).do = "act"
         THEN \E e \in EffectsOf(o) : effect' = [effect EXCEPT ![c] = Combined(@, e)]
         ELSE UNCHANGED effect,
         Now(c).do = "look" => Sees(c, o) /\ UNCHANGED wanted,
         wanted' \in [Calls -> BOOLEAN], blind' \in [Calls -> SUBSET Nat],
         \A d \in Calls \ {c} : wanted'[d] = wanted[d] /\ blind'[d] = blind[d],
         TakenForAnswer(Now(c), o) => at[c] \in blind'[c],
         UNCHANGED <<prompt, consent>>
  PROVE  TypeOK' /\ Progressing' /\ HonestReplies'
<1> DEFINE v == Now(c).on[o]
<1>1. /\ at[c] \in Nat /\ at[c] >= 1
      /\ v \in Promises \cup {"next"} /\ (v = "next" => at[c] < Len(flow[c].steps))
      /\ TakenForAnswer(Now(c), o) \/ BornOut(flow[c], at[c], o)
  <2>1. "next" \notin Promises
    BY DEF Promises, NothingDone
  <2>2. CallInv
    BY DEF HonestInv
  <2>3. at[c] \in 1..Len(flow[c].steps) /\ Len(flow[c].steps) \in Nat
    BY <2>2, AtStep
  <2>4. /\ v \in Promises \/ (v = "next" /\ at[c] < Len(flow[c].steps))
        /\ TakenForAnswer(Now(c), o) \/ BornOut(flow[c], at[c], o)
    BY <2>2, AtStep DEF Now
  <2> QED BY <2>1, <2>3, <2>4
<1>2. /\ effect \in [Calls -> Effect]
      /\ Untouched(flow[c], at[c]) => effect[c] = "none"
      /\ Changed(flow[c], at[c]) => effect[c] = "applied"
  BY DEF HonestInv, TypeOK, Progressing
<1>3. /\ effect' \in [Calls -> Effect]
      /\ \A d \in Calls \ {c} : effect'[d] = effect[d]
      /\ \/ Now(c).do # "act" /\ effect'[c] = effect[c]
         \/ /\ Now(c).do = "act"
            /\ \E e \in EffectsOf(o) : effect'[c] = Combined(effect[c], e)
  <2>1. CASE Now(c).do # "act"
    BY <1>2, <2>1
  <2>2. CASE Now(c).do = "act"
    <3>1. PICK e \in EffectsOf(o) : effect' = [effect EXCEPT ![c] = Combined(@, e)]
      BY <2>2
    <3>2. Combined(effect[c], e) \in Effect
      BY DEF Combined, Effect
    <3> QED BY <1>2, <2>2, <3>1, <3>2
  <2> QED BY <2>1, <2>2
<1>4. /\ (Now(c).do = "act" => EffectsOf(o) = {"none"}) /\ effect[c] = "none" =>
           effect'[c] = "none"
      /\ (Now(c).do = "act" /\ EffectsOf(o) = {"applied"}) \/ effect[c] = "applied" =>
           effect'[c] = "applied"
  BY <1>3 DEF Combined
<1>5. \/ at[c] \in blind'[c]
      \/ /\ v \in NothingDone => effect'[c] = "none"
         /\ v = "done" => effect'[c] = "applied"
         /\ v = "verified" => wanted'[c]
  <2>1. CASE TakenForAnswer(Now(c), o)
    BY <2>1
  <2>2. CASE BornOut(flow[c], at[c], o)
    <3>1. v = "verified" => wanted'[c]
      BY <2>2 DEF BornOut, Sees, Now
    <3>2. (v \in NothingDone => effect'[c] = "none") /\ (v = "done" => effect'[c] = "applied")
      BY <2>2, <1>2, <1>4 DEF BornOut, Now
    <3> QED BY <3>1, <3>2
  <2> QED BY <1>1, <2>1, <2>2
<1>7. ASSUME v = "next"
      PROVE  /\ Untouched(flow[c], at[c] + 1) => effect'[c] = "none"
             /\ Changed(flow[c], at[c] + 1) => effect'[c] = "applied"
  <2>1. o \in Passing(Now(c))
    BY <1>7 DEF Passing
  <2>2. /\ Untouched(flow[c], at[c] + 1) =>
             /\ Untouched(flow[c], at[c])
             /\ Now(c).do = "act" => EffectsOf(o) = {"none"}
        /\ Changed(flow[c], at[c] + 1) =>
             \/ Changed(flow[c], at[c])
             \/ Now(c).do = "act" /\ EffectsOf(o) = {"applied"}
    BY <1>1, <2>1, StepPassed DEF Now
  <2> QED BY <1>2, <1>4, <2>2
<1> HIDE DEF v
<1>8. /\ consent' \in [Calls -> 0..2]
      /\ prompt' \in [Calls -> {"none", "open", "expired"}]
  BY DEF HonestInv, TypeOK
<1>9. Settle(c, v)
  BY DEF v
<1>10. TypeOK'
  BY <1>1, <1>3, <1>8, <1>9, SettleKeepsTypes
<1>11. Progressing' /\ HonestReplies'
  BY <1>1, <1>3, <1>5, <1>7, <1>9, SettleKeepsHonest
<1> QED BY <1>10, <1>11

(* A gate is left with the consent, or denied with nothing done.           *)
LEMMA GateKeepsHonest ==
  ASSUME HonestInv, NEW c \in Calls, AtGate(c),
         NEW verdict \in {"next", "unconfirmed"}, Settle(c, verdict),
         UNCHANGED <<effect, wanted, blind>>, consent' \in [Calls -> 0..2],
         prompt' \in [Calls -> {"none", "open", "expired"}]
  PROVE  TypeOK' /\ Progressing' /\ HonestReplies'
<1>1. /\ Busy(c) /\ at[c] \in DOMAIN flow[c].steps /\ flow[c].steps[at[c]].do = "gate"
  BY DEF AtGate, Doing, Now
<1>2. /\ at[c] \in Nat /\ at[c] >= 1 /\ at[c] < Len(flow[c].steps)
      /\ Untouched(flow[c], at[c])
  BY <1>1, AtStep DEF HonestInv
<1>3. /\ effect' \in [Calls -> Effect] /\ effect'[c] = "none"
      /\ Changed(flow[c], at[c]) => effect[c] = "applied"
  BY <1>1, <1>2 DEF HonestInv, TypeOK, Progressing
<1>4. /\ verdict \in Promises \cup {"next"} /\ verdict \notin {"done", "verified"}
  BY DEF Promises, NothingDone
<1>5. Changed(flow[c], at[c] + 1) => effect'[c] = "applied"
  BY <1>1, <1>2, <1>3, StepPassed
<1>6. /\ wanted' \in [Calls -> BOOLEAN] /\ blind' \in [Calls -> SUBSET Nat]
      /\ \A d \in Calls : wanted'[d] = wanted[d] /\ blind'[d] = blind[d]
  BY DEF HonestInv, TypeOK
<1>7. TypeOK'
  BY <1>1, <1>2, <1>3, <1>4, <1>6, SettleKeepsTypes
<1>8. Progressing' /\ HonestReplies'
  BY <1>1, <1>3, <1>4, <1>5, <1>6, SettleKeepsHonest
<1> QED BY <1>7, <1>8

LEMMA InitHonestInv == Init => HonestInv
<1> SUFFICES ASSUME Init PROVE HonestInv
  OBVIOUS
<1>1. CallInv
  BY InitCallInv
<1>2. /\ prompting \in BOOLEAN
      /\ beating \in [Calls -> BOOLEAN] /\ wanted \in [Calls -> BOOLEAN]
      /\ \A c \in Calls : ~beating[c]
  BY ElicitsAssumption, Zenon DEF Init
<1>3. \A c \in Calls : ~Busy(c)
  BY DEF Init, Busy
<1>4. TypeOK
  BY <1>2, <1>3 DEF Init, TypeOK, Effect
<1>5. HonestReplies
  BY DEF Init, HonestReplies, Waiting, NothingDone
<1> QED BY <1>1, <1>3, <1>4, <1>5 DEF HonestInv, Progressing

LEMMA NextHonestInv == HonestInv /\ [Next]_vars => HonestInv'
<1> SUFFICES ASSUME HonestInv, [Next]_vars PROVE TypeOK' /\ Progressing' /\ HonestReplies'
  BY NextCallInv DEF HonestInv
<1> DEFINE Kept == TypeOK /\ Progressing /\ HonestReplies
<1>1. ASSUME NEW c \in Calls, NEW t \in DOMAIN Table, NEW flags \in 0..2,
             NEW f \in Table[t].flows, Call(c, t, f, flags)
      PROVE  Kept'
  <2>1. /\ tool[c] = NoTool /\ at[c] = 1 /\ effect[c] = "none" /\ ~Busy(c)
        /\ DOMAIN flow = Calls
    BY <1>1 DEF Call, HonestInv, CallInv, Typed, FollowsTable, Busy
  <2>2. /\ tool' = [tool EXCEPT ![c] = t] /\ flow' = [flow EXCEPT ![c] = f]
        /\ tier' = [tier EXCEPT ![c] = flags] /\ consent' = [consent EXCEPT ![c] = flags]
        /\ UNCHANGED <<shell, readOnly, prompting, at, prompt, effect, blind, beating, reply>>
    BY <1>1 DEF Call, config
  <2>11. wanted' \in [Calls -> BOOLEAN] /\ \A d \in Calls : wanted[d] => wanted'[d]
    BY <1>1, WantedGrows DEF Call
  <2>3. 1 \in DOMAIN f.steps
    BY TableAssumption DEF EndingTable
  <2>4. ~Changed(f, 1)
    BY DEF Changed
  <2>5. \A d \in Calls \ {c} : flow'[d] = flow[d] /\ Busy(d)' = Busy(d)
    BY <2>1, <2>2 DEF HonestInv, TypeOK, Busy
  <2>6. flow'[c] = f
    BY <2>1, <2>2
  <2>7. ASSUME NEW d \in Calls
        PROVE  IF Busy(d)' THEN at'[d] \in DOMAIN flow'[d].steps ELSE ~beating'[d]
    <3>1. IF Busy(d) THEN at[d] \in DOMAIN flow[d].steps ELSE ~beating[d]
      BY DEF HonestInv, TypeOK
    <3>2. CASE d # c
      BY <2>2, <2>5, <3>1, <3>2
    <3>3. CASE d = c
      BY <2>1, <2>2, <2>3, <2>6, <3>1, <3>3
    <3> QED BY <3>2, <3>3
  <2>8. TypeOK'
    BY <2>2, <2>7, <2>11 DEF HonestInv, TypeOK
  <2>9. Progressing'
    <3> SUFFICES ASSUME NEW d \in Calls, Busy(d)'
        PROVE  (/\ Untouched(flow[d], at[d]) => effect[d] = "none"
                /\ Changed(flow[d], at[d]) => effect[d] = "applied")'
      BY DEF Progressing
    <3>1. CASE d # c
      BY <2>2, <2>5, <3>1 DEF HonestInv, Progressing, Untouched, Changed
    <3>2. CASE d = c
      BY <2>1, <2>2, <2>4, <2>6, <3>2 DEF Untouched, Changed
    <3> QED BY <3>1, <3>2
  <2>10. HonestReplies'
    BY <2>2, <2>11 DEF HonestInv, HonestReplies
  <2> QED BY <2>8, <2>9, <2>10
<1>2. ASSUME NEW c \in Calls, StartProgressHeartbeat(c) PROVE Kept'
  <2>1. /\ Busy(c) /\ at[c] \in DOMAIN flow[c].steps /\ flow[c].steps[at[c]].do = "beat"
        /\ at' = [at EXCEPT ![c] = @ + 1]
        /\ UNCHANGED <<shell, readOnly, prompting, tool, flow, tier, prompt, consent,
                       effect, wanted, blind, reply>>
    BY <1>2 DEF StartProgressHeartbeat, Doing, Now, config
  <2>2. /\ beating' \in [Calls -> BOOLEAN]
        /\ \A d \in Calls \ {c} : beating'[d] = beating[d]
    BY <1>2, Zenon DEF StartProgressHeartbeat, HonestInv, TypeOK
  <2>3. /\ at[c] \in Nat /\ at[c] >= 1 /\ at[c] + 1 \in DOMAIN flow[c].steps
    BY <2>1, AtStep DEF HonestInv
  <2>4. /\ at \in [Calls -> Nat] /\ at' \in [Calls -> Nat] /\ at'[c] = at[c] + 1
        /\ \A d \in Calls \ {c} : at'[d] = at[d]
        /\ \A d \in Calls : Busy(d)' = Busy(d)
    BY <2>1 DEF HonestInv, TypeOK, Busy
  <2>5. ASSUME NEW d \in Calls
        PROVE  IF Busy(d)' THEN at'[d] \in DOMAIN flow'[d].steps ELSE ~beating'[d]
    <3>1. IF Busy(d) THEN at[d] \in DOMAIN flow[d].steps ELSE ~beating[d]
      BY DEF HonestInv, TypeOK
    <3>2. CASE d # c
      BY <2>1, <2>2, <2>4, <3>1, <3>2
    <3>3. CASE d = c
      BY <2>1, <2>3, <2>4, <3>3
    <3> QED BY <3>2, <3>3
  <2>6. TypeOK'
    BY <2>1, <2>2, <2>4, <2>5 DEF HonestInv, TypeOK
  <2>7. Progressing'
    <3> SUFFICES ASSUME NEW d \in Calls, Busy(d)'
        PROVE  (/\ Untouched(flow[d], at[d]) => effect[d] = "none"
                /\ Changed(flow[d], at[d]) => effect[d] = "applied")'
      BY DEF Progressing
    <3>1. /\ Busy(d) /\ flow'[d] = flow[d] /\ effect'[d] = effect[d]
          /\ Untouched(flow[d], at[d]) => effect[d] = "none"
          /\ Changed(flow[d], at[d]) => effect[d] = "applied"
      BY <2>1, <2>4 DEF HonestInv, Progressing
    <3>2. /\ Untouched(flow[d], at'[d]) => Untouched(flow[d], at[d])
          /\ Changed(flow[d], at'[d]) => Changed(flow[d], at[d])
      <4>1. CASE d # c
        BY <2>4, <4>1
      <4>2. CASE d = c
        BY <2>1, <2>3, <2>4, <4>2, StepPassed
      <4> QED BY <4>1, <4>2
    <3> QED BY <3>1, <3>2 DEF Untouched, Changed
  <2>8. HonestReplies'
    BY <2>1, <2>4 DEF HonestInv, HonestReplies, Busy, Waiting, NothingDone
  <2> QED BY <2>6, <2>7, <2>8
<1>3. ASSUME NEW c \in Calls, RequireShell(c) PROVE Kept'
  <2>1. /\ Busy(c) /\ at[c] \in DOMAIN flow[c].steps /\ Now(c).do = "shell"
        /\ Settle(c, Now(c).on[IF shell THEN "ok" ELSE "absent"])
        /\ UNCHANGED <<prompt, consent, effect, wanted, blind>>
    BY <1>3 DEF RequireShell, Doing
  <2>2. {"ok", "absent"} \subseteq DOMAIN Now(c).on
    BY <2>1, AtStep DEF HonestInv, Now
  <2>3. PICK o \in DOMAIN Now(c).on : Settle(c, Now(c).on[o])
    BY <2>1, <2>2
  <2>4. /\ wanted' \in [Calls -> BOOLEAN] /\ blind' \in [Calls -> SUBSET Nat]
        /\ ~TakenForAnswer(Now(c), o)
    BY <2>1 DEF TakenForAnswer, HonestInv, TypeOK
  <2> QED BY <2>1, <2>3, <2>4, OutcomeKeepsHonest
<1>4. ASSUME NEW c \in Calls, NEW o, CheckArguments(c, o) PROVE Kept'
  <2>1. /\ Busy(c) /\ at[c] \in DOMAIN flow[c].steps /\ Now(c).do = "check"
        /\ o \in DOMAIN Now(c).on /\ Settle(c, Now(c).on[o])
        /\ UNCHANGED <<prompt, consent, effect, wanted, blind>>
    BY <1>4 DEF CheckArguments, Doing
  <2>2. /\ wanted' \in [Calls -> BOOLEAN] /\ blind' \in [Calls -> SUBSET Nat]
        /\ ~TakenForAnswer(Now(c), o)
    BY <2>1 DEF TakenForAnswer, HonestInv, TypeOK
  <2> QED BY <2>1, <2>2, OutcomeKeepsHonest
<1>5. ASSUME NEW c \in Calls, NEW o, ReadServer(c, o) \/ LookBack(c, o) PROVE Kept'
  <2>1. /\ Busy(c) /\ at[c] \in DOMAIN flow[c].steps /\ Now(c).do \in {"read", "look"}
        /\ o \in DOMAIN Now(c).on /\ Settle(c, Now(c).on[o])
        /\ Now(c).do = "look" => Sees(c, o)
        /\ NoteBlindness(c, o)
        /\ UNCHANGED <<prompt, consent, effect, wanted>>
    BY <1>5 DEF ReadServer, LookBack, Doing
  <2>2. wanted' \in [Calls -> BOOLEAN]
    BY <2>1 DEF HonestInv, TypeOK
  <2>3. /\ blind' \in [Calls -> SUBSET Nat]
        /\ \A d \in Calls \ {c} : blind'[d] = blind[d]
        /\ TakenForAnswer(Now(c), o) => at[c] \in blind'[c]
    BY <2>1, BlindnessNoted
  <2> QED BY <2>1, <2>2, <2>3, OutcomeKeepsHonest
<1>6. ASSUME NEW c \in Calls, NEW o, ActOnServer(c, o) PROVE Kept'
  <2>1. /\ Busy(c) /\ at[c] \in DOMAIN flow[c].steps /\ Now(c).do = "act"
        /\ o \in DOMAIN Now(c).on /\ Settle(c, Now(c).on[o])
        /\ NoteBlindness(c, o)
        /\ UNCHANGED <<prompt, consent>>
    BY <1>6 DEF ActOnServer, Doing
  <2>2. PICK e \in EffectsOf(o) :
          effect' = [effect EXCEPT ![c] = Combined(@, e)] /\ MayFulfil(c, e)
    BY <1>6 DEF ActOnServer
  <2>3. /\ wanted' \in [Calls -> BOOLEAN]
        /\ \A d \in Calls \ {c} : wanted'[d] = wanted[d]
    BY <2>2, WantedGrows DEF MayFulfil
  <2>4. /\ blind' \in [Calls -> SUBSET Nat]
        /\ \A d \in Calls \ {c} : blind'[d] = blind[d]
        /\ TakenForAnswer(Now(c), o) => at[c] \in blind'[c]
    BY <2>1, BlindnessNoted
  <2> QED BY <2>1, <2>2, <2>3, <2>4, OutcomeKeepsHonest
<1>7. ASSUME NEW c \in Calls, FlagsSuffice(c) \/ NobodyToAsk(c) PROVE Kept'
  <2>1. /\ AtGate(c) /\ UNCHANGED <<prompt, consent, effect, wanted, blind>>
        /\ \E v \in {"next", "unconfirmed"} : Settle(c, v)
    BY <1>7 DEF FlagsSuffice, NobodyToAsk
  <2>2. /\ consent' \in [Calls -> 0..2]
        /\ prompt' \in [Calls -> {"none", "open", "expired"}]
    BY <2>1 DEF HonestInv, TypeOK
  <2> QED BY <2>1, <2>2, GateKeepsHonest
<1>8. ASSUME NEW c \in Calls, NEW boxes \in 0..2, HumanAnswers(c, boxes) PROVE Kept'
  <2>1. /\ AtGate(c) /\ UNCHANGED <<effect, wanted, blind>>
        /\ prompt' = [prompt EXCEPT ![c] = "none"]
        /\ consent' = [consent EXCEPT ![c] = IF @ < boxes THEN boxes ELSE @]
        /\ \E v \in {"next", "unconfirmed"} : Settle(c, v)
    BY <1>8 DEF HumanAnswers
  <2>2. /\ consent' \in [Calls -> 0..2]
        /\ prompt' \in [Calls -> {"none", "open", "expired"}]
    BY <2>1 DEF HonestInv, TypeOK
  <2> QED BY <2>1, <2>2, GateKeepsHonest
<1>9. ASSUME NEW c \in Calls, PromptFails(c) PROVE Kept'
  <2>1. /\ AtGate(c) /\ UNCHANGED <<consent, effect, wanted, blind>>
        /\ prompt' = [prompt EXCEPT ![c] = "expired"]
        /\ Settle(c, "unconfirmed")
    BY <1>9 DEF PromptFails
  <2>2. /\ consent' \in [Calls -> 0..2]
        /\ prompt' \in [Calls -> {"none", "open", "expired"}]
    BY <2>1 DEF HonestInv, TypeOK
  <2> QED BY <2>1, <2>2, GateKeepsHonest
<1>10. ASSUME /\ UNCHANGED <<shell, readOnly, tool, flow, tier, at, consent, effect, wanted,
                            blind, beating, reply>>
              /\ prompting' \in BOOLEAN
              /\ prompt' \in [Calls -> {"none", "open", "expired"}]
       PROVE  Kept'
  <2>1. \A d \in Calls : Busy(d)' = Busy(d)
    BY <1>10 DEF Busy
  <2>2. TypeOK'
    BY <1>10, <2>1 DEF HonestInv, TypeOK
  <2>3. Progressing' /\ HonestReplies'
    BY <1>10, <2>1 DEF HonestInv, Progressing, HonestReplies, Untouched, Changed
  <2> QED BY <2>2, <2>3
<1>11. ASSUME NEW c \in Calls, AskHuman(c) \/ LateAnswer(c) PROVE Kept'
  <2>1. /\ UNCHANGED <<shell, readOnly, prompting, tool, flow, tier, at, consent, effect,
                       wanted, blind, beating, reply>>
        /\ \E p \in {"none", "open"} : prompt' = [prompt EXCEPT ![c] = p]
    BY <1>11 DEF AskHuman, LateAnswer, config
  <2>2. /\ prompting' \in BOOLEAN
        /\ prompt' \in [Calls -> {"none", "open", "expired"}]
    BY <2>1 DEF HonestInv, TypeOK
  <2> QED BY <2>1, <2>2, <1>10
<1>12. ASSUME NEW c \in Calls, NEW e \in {"none", "applied"}, Lands(c, e) PROVE Kept'
  <2>1. /\ UNCHANGED <<shell, readOnly, prompting, tool, flow, tier, at, prompt, consent,
                       blind, beating, reply>>
        /\ effect[c] = "pending" /\ effect' = [effect EXCEPT ![c] = e]
        /\ MayFulfil(c, e)
    BY <1>12 DEF Lands, config
  <2>7. wanted' \in [Calls -> BOOLEAN] /\ \A d \in Calls : wanted[d] => wanted'[d]
    BY <2>1, WantedGrows DEF MayFulfil
  <2>2. effect' \in [Calls -> Effect] /\ \A d \in Calls \ {c} : effect'[d] = effect[d]
    BY <2>1 DEF HonestInv, TypeOK, Effect
  <2>3. \A d \in Calls : Busy(d)' = Busy(d)
    BY <2>1 DEF Busy
  <2>4. TypeOK'
    BY <2>1, <2>2, <2>3, <2>7 DEF HonestInv, TypeOK
  <2>5. Progressing'
    BY <2>1, <2>2, <2>3 DEF HonestInv, Progressing, Untouched, Changed
  <2>6. HonestReplies'
    BY <2>1, <2>2, <2>7 DEF HonestInv, HonestReplies
  <2> QED BY <2>4, <2>5, <2>6
<1>13. CASE ClientLeaves
  BY <1>10, <1>13 DEF ClientLeaves, callVars, HonestInv, TypeOK
<1>14. CASE UNCHANGED vars
  BY <1>10, <1>14 DEF vars, callVars, config, HonestInv, TypeOK
<1>15. ASSUME NEW c \in Calls, CallStep(c) PROVE Kept'
  BY <1>15, <1>2, <1>3, <1>4, <1>5, <1>6, <1>7, <1>8, <1>9, <1>11, <1>12 DEF CallStep, Advance
<1> QED BY <1>1, <1>13, <1>14, <1>15 DEF Next

(* "No changes were made." is true of the server, what is reported as done *)
(* was done and what is reported as verified is so, unless the last step's *)
(* failure was taken for an answer: over every transport, and for any      *)
(* table whose other promises are borne out by the outcomes they follow.   *)
THEOREM RepliesHonest == ServedSpec => []HonestReplies
<1>1. ServedInit => HonestInv
  BY InitHonestInv DEF ServedInit
<1>2. HonestInv /\ [ServedNext]_servedVars => HonestInv'
  BY ServedImplementsCalls, NextHonestInv
<1>3. HonestInv => HonestReplies
  BY DEF HonestInv
<1> QED BY <1>1, <1>2, <1>3, PTL DEF ServedSpec
-----------------------------------------------------------------------------
(* The types of the HTTP side.                                             *)
HttpTypes ==
  /\ transport \in Transports /\ secured \in BOOLEAN
  /\ request \in [Calls -> Requests]
  /\ route \in [Calls -> {"idle", "routing", "reading", "handling", "over"}]
  /\ status \in [Calls -> {0, 200, 400, 401, 404, 413, 500}]
  /\ connected \in [Calls -> BOOLEAN]
  /\ fresh \in [Calls -> {"none", "open", "closed"}]

LEMMA AnswerTypes ==
  ASSUME HttpTypes, NEW c \in Calls, NEW code \in {200, 400, 401, 404, 413, 500},
         Answer(c, code)
  PROVE  /\ route' \in [Calls -> {"idle", "routing", "reading", "handling", "over"}]
         /\ status' \in [Calls -> {0, 200, 400, 401, 404, 413, 500}]
<1> DEFINE n == IF status[c] = 0 /\ connected[c] THEN code ELSE status[c]
<1>1. n \in {0, 200, 400, 401, 404, 413, 500}
  BY DEF HttpTypes
<1>2. status' = [status EXCEPT ![c] = n] /\ route' = [route EXCEPT ![c] = "over"]
  BY Zenon DEF Answer
<1> HIDE DEF n
<1> QED BY <1>1, <1>2 DEF HttpTypes

LEMMA InitHttpTypes == ServedInit => HttpTypes
<1> SUFFICES ASSUME ServedInit PROVE HttpTypes
  OBVIOUS
<1>1. connected \in [Calls -> BOOLEAN] /\ secured \in BOOLEAN
  BY Zenon DEF ServedInit
<1>2. NoRequest \in Requests
  BY DEF NoRequest, Requests
<1> QED BY <1>1, <1>2 DEF ServedInit, HttpTypes

LEMMA NextHttpTypes == HttpTypes /\ [ServedNext]_servedVars => HttpTypes'
<1> SUFFICES ASSUME HttpTypes, [ServedNext]_servedVars PROVE HttpTypes'
  OBVIOUS
<1>1. ASSUME NEW c \in Calls, NEW r \in Requests, Receive(c, r) PROVE HttpTypes'
  <2>1. connected' \in [Calls -> BOOLEAN]
    BY <1>1, Zenon DEF Receive, HttpTypes
  <2> QED BY <1>1, <2>1 DEF Receive, HttpTypes
<1>2. ASSUME NEW c \in Calls, NEW code \in {200, 400, 401, 404, 413, 500}, Answer(c, code),
             UNCHANGED <<transport, secured, request, connected, fresh>>
      PROVE  HttpTypes'
  BY <1>2, AnswerTypes DEF HttpTypes
<1>3. ASSUME NEW c \in Calls, RouteRequest(c) PROVE HttpTypes'
  <2>1. UNCHANGED <<transport, secured, request, connected, fresh>>
    BY <1>3 DEF RouteRequest
  <2>2. \/ Answer(c, 404) \/ Answer(c, 401)
        \/ route' = [route EXCEPT ![c] = "reading"] /\ UNCHANGED status
    BY <1>3 DEF RouteRequest
  <2> QED BY <1>2, <2>1, <2>2 DEF HttpTypes
<1>4. ASSUME NEW c \in Calls, ReadJsonBody(c) PROVE HttpTypes'
  <2>1. UNCHANGED <<transport, secured, request, connected>>
    BY <1>4 DEF ReadJsonBody
  <2>2. \/ (Answer(c, 413) \/ Answer(c, 400)) /\ UNCHANGED fresh
        \/ /\ route' = [route EXCEPT ![c] = "handling"]
           /\ \/ fresh' = [fresh EXCEPT ![c] = "open"]
              \/ fresh' = [fresh EXCEPT ![c] = @]
           /\ UNCHANGED status
    BY <1>4 DEF ReadJsonBody
  <2> QED BY <1>2, <2>1, <2>2 DEF HttpTypes
<1>5. ASSUME NEW c \in Calls, NEW code \in {200, 400, 404},
             BodyAborted(c) \/ Respond(c) \/ HandleThrows(c) \/ SdkRefuses(c, code)
      PROVE  HttpTypes'
  BY <1>2, <1>5 DEF BodyAborted, Respond, HandleThrows, SdkRefuses
<1>6. ASSUME NEW c \in Calls, StreamStarts(c) PROVE HttpTypes'
  BY <1>6 DEF StreamStarts, HttpTypes
<1>7. ASSUME NEW c \in Calls, ResponseCloses(c) PROVE HttpTypes'
  <2>1. connected' \in [Calls -> BOOLEAN]
    BY <1>7, Zenon DEF ResponseCloses, HttpTypes
  <2> QED BY <1>7, <2>1 DEF ResponseCloses, ClosesPair, HttpTypes
<1>8. ASSUME UNCHANGED httpVars PROVE HttpTypes'
  BY <1>8 DEF httpVars, HttpTypes
<1> QED BY <1>1, <1>3, <1>4, <1>5, <1>6, <1>7, <1>8
        DEF ServedNext, HttpStep, Dispatch, servedVars

(* Every variable keeps its type; a handler that is under way is at a step *)
(* of its flow, and when it has answered its heartbeat is over.            *)
THEOREM TypeCorrect == ServedSpec => []ServedTypeOK
<1>1. ServedInit => HonestInv /\ HttpTypes
  BY InitHonestInv, InitHttpTypes DEF ServedInit
<1>2. HonestInv /\ HttpTypes /\ [ServedNext]_servedVars => HonestInv' /\ HttpTypes'
  BY ServedImplementsCalls, NextHonestInv, NextHttpTypes
<1>3. HonestInv /\ HttpTypes => ServedTypeOK
  BY DEF HonestInv, HttpTypes, ServedTypeOK
<1> QED BY <1>1, <1>2, <1>3, PTL DEF ServedSpec
=============================================================================
