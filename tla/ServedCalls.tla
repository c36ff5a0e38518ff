------------------------------ MODULE ServedCalls ------------------------------
(***************************************************************************)
(* Tool calls as the transports serve them: over stdio, over HTTP with a   *)
(* fresh server for every request, or over HTTP sessions.  Sources:        *)
(* src/transport/http.ts, stdio.ts, src/index.ts, src/server.ts; the life  *)
(* of the sessions themselves is in HttpSessions.                          *)
(***************************************************************************)
EXTENDS ToolCalls

CONSTANT
  Transports  \* the transports the server may be started with

VARIABLES
  transport,  \* MCP_TRANSPORT and MCP_HTTP_SESSIONS
  secured,    \* whether HTTP requests must carry a bearer token
  request,    \* what came in for each call
  route,      \* how far routeRequest is with it
  status,     \* the HTTP status written for it; 0 if none
  connected,  \* whether its response is still open
  fresh       \* the server and transport built for it alone

httpVars == <<transport, secured, request, route, status, connected, fresh>>
servedVars == <<vars, httpVars>>

Requests == [method : {"POST", "GET", "DELETE", "PUT"}, mcpPath : BOOLEAN,
             bearer : BOOLEAN, body : {"message", "empty", "bad", "tooLarge"}]

NoRequest == [method |-> "PUT", mcpPath |-> FALSE, bearer |-> FALSE, body |-> "empty"]

ServedTypeOK ==
  /\ TypeOK
  /\ transport \in Transports /\ secured \in BOOLEAN
  /\ request \in [Calls -> Requests]
  /\ route \in [Calls -> {"idle", "routing", "reading", "handling", "over"}]
  /\ status \in [Calls -> {0, 200, 400, 401, 404, 413, 500}]
  /\ connected \in [Calls -> BOOLEAN]
  /\ fresh \in [Calls -> {"none", "open", "closed"}]

(* A server for one request knows nothing of its client, nor can it ask.   *)
ServedInit ==
  /\ Init
  /\ transport \in Transports
  /\ transport = "stateless" => ~prompting
  /\ secured \in {FALSE, transport # "stdio"}
  /\ request = [c \in Calls |-> NoRequest]
  /\ route = [c \in Calls |-> "idle"]
  /\ status = [c \in Calls |-> 0]
  /\ connected = [c \in Calls |-> FALSE]
  /\ fresh = [c \in Calls |-> "none"]

Http == transport # "stdio"

(* The first status is the one the client sees; later ones only end it.    *)
Answer(c, code) ==
  /\ status' = [status EXCEPT ![c] = IF @ = 0 /\ connected[c] THEN code ELSE @]
  /\ route' = [route EXCEPT ![c] = "over"]

-----------------------------------------------------------------------------
(* routeRequest                                                            *)

Receive(c, r) ==
  /\ Http /\ route[c] = "idle"
  /\ request' = [request EXCEPT ![c] = r]
  /\ route' = [route EXCEPT ![c] = "routing"]
  /\ connected' = [connected EXCEPT ![c] = TRUE]
  /\ UNCHANGED <<vars, transport, secured, status, fresh>>

Supported(r) ==
  r.method \in IF transport = "sessions" THEN {"POST", "GET", "DELETE"} ELSE {"POST"}

Authorized(r) == secured => r.bearer

RouteRequest(c) ==
  /\ route[c] = "routing"
  /\ IF ~Supported(request[c]) \/ ~request[c].mcpPath THEN Answer(c, 404)
     ELSE IF ~Authorized(request[c]) THEN Answer(c, 401)
     ELSE /\ route' = [route EXCEPT ![c] = "reading"]
          /\ UNCHANGED status
  /\ UNCHANGED <<vars, transport, secured, request, connected, fresh>>

HasBody(r) == transport = "stateless" \/ r.method = "POST"

(* readJsonBody, then buildServer and the "close" listener if stateless.   *)
ReadJsonBody(c) ==
  /\ route[c] = "reading"
  /\ connected[c]
  /\ CASE HasBody(request[c]) /\ request[c].body = "tooLarge" ->
            Answer(c, 413) /\ UNCHANGED fresh
       [] HasBody(request[c]) /\ request[c].body = "bad" ->
            Answer(c, 400) /\ UNCHANGED fresh
       [] OTHER ->
            /\ route' = [route EXCEPT ![c] = "handling"]
            /\ fresh' = [fresh EXCEPT ![c] = IF transport = "stateless" THEN "open" ELSE @]
            /\ UNCHANGED status
  /\ UNCHANGED <<vars, transport, secured, request, connected>>

(* The request is cut off before its end.                                  *)
BodyAborted(c) ==
  /\ route[c] = "reading" /\ ~connected[c]
  /\ Answer(c, 500)
  /\ UNCHANGED <<vars, transport, secured, request, connected, fresh>>

-----------------------------------------------------------------------------
(* handleRequest of the SDK's transport, directly or through a session     *)

CarriesCall(c) ==
  \/ ~Http
  \/ route[c] = "handling" /\ request[c].method = "POST" /\ request[c].body = "message"

Dispatch(c, t, f, flags) ==
  /\ CarriesCall(c) /\ Call(c, t, f, flags)
  /\ UNCHANGED httpVars

(* Not a request, an unknown session, a host that is not allowed.          *)
SdkRefuses(c, code) ==
  /\ route[c] = "handling" /\ tool[c] = NoTool
  /\ code \in {200, 400, 404}
  /\ Answer(c, code)
  /\ UNCHANGED <<vars, transport, secured, request, connected, fresh>>

Respond(c) ==
  /\ route[c] = "handling" /\ tool[c] # NoTool /\ ~Busy(c)
  /\ Answer(c, 200)
  /\ UNCHANGED <<vars, transport, secured, request, connected, fresh>>

(* Before it wrote anything, or in the middle of a stream (headersSent).   *)
HandleThrows(c) ==
  /\ route[c] = "handling"
  /\ Answer(c, 500)
  /\ UNCHANGED <<vars, transport, secured, request, connected, fresh>>

StreamStarts(c) ==
  /\ route[c] = "handling" /\ transport = "sessions" /\ connected[c]
  /\ status[c] = 0
  /\ status' = [status EXCEPT ![c] = 200]
  /\ UNCHANGED <<vars, transport, secured, request, route, connected, fresh>>

LeavesPairOpen(c) == fresh  \* fault: closed after handleRequest only

ClosesPair(c) == [fresh EXCEPT ![c] = IF @ = "open" THEN "closed" ELSE @]

(* "close": the answer has been sent, or the client is gone.  The handler  *)
(* of a call that is under way goes on.                                    *)
ResponseCloses(c) ==
  /\ connected[c]
  /\ connected' = [connected EXCEPT ![c] = FALSE]
  /\ fresh' = ClosesPair(c)
  /\ UNCHANGED <<vars, transport, secured, request, route, status>>

-----------------------------------------------------------------------------
HttpStep(c) ==
  \/ RouteRequest(c)
  \/ ReadJsonBody(c)
  \/ BodyAborted(c)
  \/ Respond(c)

ServedNext ==
  \/ \E c \in Calls, r \in Requests : Receive(c, r)
  \/ \E c \in Calls :
       \/ HttpStep(c)
       \/ \E code \in {200, 400, 404} : SdkRefuses(c, code)
       \/ HandleThrows(c)
       \/ StreamStarts(c)
       \/ ResponseCloses(c)
       \/ CallStep(c) /\ UNCHANGED httpVars
  \/ \E c \in Calls, t \in DOMAIN Table, flags \in 0..2 :
       \E f \in Table[t].flows : Dispatch(c, t, f, flags)
  \/ ClientLeaves /\ UNCHANGED httpVars

ServedSpec ==
  /\ ServedInit /\ [][ServedNext]_servedVars
  /\ \A c \in Calls :
       /\ WF_servedVars(HttpStep(c))
       /\ WF_servedVars(Advance(c) /\ UNCHANGED httpVars)
       /\ WF_servedVars(PromptFails(c) /\ UNCHANGED httpVars)

-----------------------------------------------------------------------------
(* No call changes the server in read-only mode, none of a tool that is    *)
(* marked read-only, and over HTTP none whose request did not present the  *)
(* token when there is one (registry.ts, the tools' annotations, http.ts). *)
PermittedEffects ==
  \A c \in Calls : effect[c] # "none" =>
    /\ ~readOnly /\ ~Table[tool[c]].readOnly
    /\ Http /\ secured => request[c].bearer

(* A server built for one request does not outlive its response, also when *)
(* the client is gone before the answer (handleMcpRequest).                *)
NoStrayServer == \A c \in Calls : fresh[c] = "open" => connected[c]
=============================================================================
