------------------------------- MODULE ToolCalls -------------------------------
(***************************************************************************)
(* Tool calls of one MCP server: the registry that offers the tools, the   *)
(* confirmation gates with their prompts, and a handler's steps, for any   *)
(* table of tools.  Sources: src/tools/registry.ts and, in _shared,        *)
(* confirm.ts, elicitation.ts, progress.ts, require-shell.ts, respond.ts.  *)
(***************************************************************************)
EXTENDS Naturals, FiniteSets, Sequences

CONSTANTS
  Calls,     \* calls of the clients
  Table,     \* the tools, by name: their hint and the ways through them
  Mutating,  \* the tools the registry marks as mutating
  Elicits    \* whether a client may have the elicitation capability

(* Tiers are those of the two flags.                                       *)
TieredTable ==
  \A t \in DOMAIN Table : \A f \in Table[t].flows :
    f.asks \in 0..2 /\ \A i \in DOMAIN f.steps : f.steps[i].tier \in 0..2

(* Every step that changes the server comes after a gate of the tier that  *)
(* the tool's description asks for.                                        *)
GatedTable ==
  \A t \in DOMAIN Table : \A f \in Table[t].flows : \A i \in DOMAIN f.steps :
    f.steps[i].do = "act" /\ f.asks > 0 =>
      \E j \in DOMAIN f.steps \cap 1..(i - 1) :
        f.steps[j].do = "gate" /\ f.steps[j].tier >= f.asks

VARIABLES
  shell,      \* whether SSH is configured
  readOnly,   \* whether the server is in read-only mode
  prompting,  \* whether the connected client can be asked
  tool,       \* the tool of each call
  flow,       \* the way its arguments and the server's answers take
  tier,       \* the consent its flags give: 0, 1 (confirm), 2 (and the risk)
  at,         \* the step it is at
  prompt,     \* the prompt the human sees, if the call waits for one
  consent,    \* history: the consent given for the call, by flags or prompts
  effect,     \* what the call has done to the server
  wanted,     \* whether the server is as the call wants it
  blind,      \* history: the steps whose failure it took for an answer
  beating,    \* whether its progress heartbeat runs
  reply       \* what its result promises; "none" until it has one

config == <<shell, readOnly, prompting>>
callVars ==
  <<tool, flow, tier, at, prompt, consent, effect, wanted, blind, beating, reply>>
vars == <<config, callVars>>

NoTool == "none"

(* A tool that is marked read-only has no such step, and the registry      *)
(* marks the others as mutating.                                           *)
HintedTable ==
  \A t \in DOMAIN Table :
    IF t \in Mutating THEN ~Table[t].readOnly
    ELSE /\ Table[t].readOnly
         /\ \A f \in Table[t].flows : \A i \in DOMAIN f.steps : f.steps[i].do # "act"

Waiting == "none"
NothingDone == {"denied", "unconfirmed", "noShell", "unsent", "noop"}
Promises == {"data", "nothing", "requested", "done", "verified", "issued",
             "unverified", "failed"} \cup NothingDone

(* What a change may have done to the server, or may yet do.               *)
Effect == {"none", "pending", "applied"}

(* By the outcome that its call sees.  "ok" is an answer that names what   *)
(* was done, or the exit status 0 of the program that did it, and          *)
(* "warning" the status 1 of tar.  A "lost" change was given up by its     *)
(* deadline.  Nothing is known of one that was accepted, nor of one that   *)
(* failed after it may have been sent.  The others are refusals, and an    *)
(* SSH connection that was not made.                                       *)
EffectsOf(outcome) ==
  CASE outcome \in {"ok", "warning"} -> {"applied"}
    [] outcome = "lost" -> {"pending"}
    [] outcome \in {"accepted", "issued", "error", "exit", "unopened"} -> Effect
    [] OTHER -> {"none"}

(* Every handler ends with a result, whatever the outcomes of its steps.   *)
EndingTable ==
  \A t \in DOMAIN Table : \A f \in Table[t].flows :
    /\ Len(f.steps) \in Nat \ {0} /\ DOMAIN f.steps = 1..Len(f.steps)
    /\ \A i \in DOMAIN f.steps :
         /\ \A o \in DOMAIN f.steps[i].on :
              f.steps[i].on[o] \in Promises \/ (f.steps[i].on[o] = "next" /\ i < Len(f.steps))
         /\ f.steps[i].do \in {"gate", "beat"} => i < Len(f.steps)
         /\ f.steps[i].do = "shell" => {"ok", "absent"} \subseteq DOMAIN f.steps[i].on
         /\ f.steps[i].do = "look" => {"seen", "unseen"} \subseteq DOMAIN f.steps[i].on

(* The server is as it was, or is changed, before step i of a flow.        *)
Passing(step) == {o \in DOMAIN step.on : step.on[o] = "next"}
Untouched(f, i) ==
  \A j \in DOMAIN f.steps \cap 1..(i - 1) :
    f.steps[j].do = "act" => \A o \in Passing(f.steps[j]) : EffectsOf(o) = {"none"}
Changed(f, i) ==
  \E j \in DOMAIN f.steps \cap 1..(i - 1) :
    f.steps[j].do = "act" /\ \A o \in Passing(f.steps[j]) : EffectsOf(o) = {"applied"}

(* A failure on which the handler goes on, or claims something.            *)
TakenForAnswer(step, o) ==
  /\ step.unchecked /\ step.do \in {"read", "look", "act"}
  /\ o \in {"exit", "thrown", "psFailed", "unopened"}
  /\ step.on[o] \in {"next", "nothing", "verified", "unsent"}

(* Outcome o of step i, and the steps before it, bear out its promise.     *)
BornOut(f, i, o) ==
  LET step == f.steps[i]
  IN /\ step.on[o] \in NothingDone =>
          Untouched(f, i) /\ (step.do = "act" => EffectsOf(o) = {"none"})
     /\ step.on[o] = "done" =>
          Changed(f, i) \/ (step.do = "act" /\ EffectsOf(o) = {"applied"})
     /\ step.on[o] = "verified" => step.do = "look" /\ o = "seen"

(* So does every outcome that is no failure taken for an answer.           *)
HonestTable ==
  \A t \in DOMAIN Table : \A f \in Table[t].flows : \A i \in DOMAIN f.steps :
    /\ f.steps[i].do = "gate" => Untouched(f, i)
    /\ \A o \in DOMAIN f.steps[i].on :
         TakenForAnswer(f.steps[i], o) \/ BornOut(f, i, o)

ASSUME TableAssumption ==
  /\ NoTool \notin DOMAIN Table
  /\ TieredTable /\ GatedTable /\ HintedTable /\ EndingTable /\ HonestTable

ASSUME ElicitsAssumption == Elicits \subseteq BOOLEAN

Busy(c) == tool[c] # NoTool /\ reply[c] = Waiting
Now(c) == flow[c].steps[at[c]]
Doing(c, kind) ==
  Busy(c) /\ at[c] \in DOMAIN flow[c].steps /\ Now(c).do = kind

(* The types; a handler does not end without a result, and when it has one *)
(* its progress heartbeat is over.                                         *)
TypeOK ==
  /\ shell \in BOOLEAN /\ readOnly \in BOOLEAN /\ prompting \in BOOLEAN
  /\ tool \in [Calls -> DOMAIN Table \cup {NoTool}]
  /\ tier \in [Calls -> 0..2] /\ consent \in [Calls -> 0..2]
  /\ at \in [Calls -> Nat]
  /\ \A c \in Calls : IF Busy(c) THEN at[c] \in DOMAIN flow[c].steps ELSE ~beating[c]
  /\ prompt \in [Calls -> {"none", "open", "expired"}]
  /\ effect \in [Calls -> Effect] /\ wanted \in [Calls -> BOOLEAN]
  /\ blind \in [Calls -> SUBSET Nat] /\ beating \in [Calls -> BOOLEAN]
  /\ reply \in [Calls -> Promises \cup {Waiting}]

Init ==
  /\ shell \in BOOLEAN /\ readOnly \in BOOLEAN /\ prompting \in Elicits
  /\ tool = [c \in Calls |-> NoTool]
  /\ flow = [c \in Calls |-> [asks |-> 0, steps |-> <<>>]]
  /\ tier = [c \in Calls |-> 0]
  /\ at = [c \in Calls |-> 1]
  /\ prompt = [c \in Calls |-> "none"]
  /\ consent = [c \in Calls |-> 0]
  /\ effect = [c \in Calls |-> "none"]
  /\ wanted = [c \in Calls |-> FALSE]
  /\ blind = [c \in Calls |-> {}]
  /\ beating = [c \in Calls |-> FALSE]
  /\ reply = [c \in Calls |-> Waiting]

-----------------------------------------------------------------------------
(* registerAllTools and the start of a call                                *)

OffersAll == DOMAIN Table  \* fault: read-only mode refuses, it does not hide

Offered == {t \in DOMAIN Table : ~(readOnly /\ t \in Mutating)}

LooksBack(f) == \E i \in DOMAIN f.steps : f.steps[i].do = "look"

(* What the call asks for may be so already.  It is kept track of for the  *)
(* handlers that look at it.                                               *)
Call(c, t, f, flags) ==
  /\ tool[c] = NoTool
  /\ t \in Offered
  /\ f \in Table[t].flows
  /\ tool' = [tool EXCEPT ![c] = t]
  /\ flow' = [flow EXCEPT ![c] = f]
  /\ tier' = [tier EXCEPT ![c] = flags]
  /\ consent' = [consent EXCEPT ![c] = flags]
  /\ \E already \in {FALSE, LooksBack(f)} :
       wanted' = [wanted EXCEPT ![c] = @ \/ already]
  /\ UNCHANGED <<config, at, prompt, effect, blind, beating, reply>>

-----------------------------------------------------------------------------
(* A step with an outcome: on to the next one, or the result.              *)

KeepsBeating(c, verdict) == beating[c]  \* fault: no finally

StopHeartbeat(c, verdict) == beating[c] /\ verdict = "next"

Settle(c, verdict) ==
  /\ at' = [at EXCEPT ![c] = IF verdict = "next" THEN @ + 1 ELSE @]
  /\ reply' = [reply EXCEPT ![c] = IF verdict = "next" THEN @ ELSE verdict]
  /\ beating' = [beating EXCEPT ![c] = StopHeartbeat(c, verdict)]
  /\ UNCHANGED <<config, tool, flow, tier>>

StartProgressHeartbeat(c) ==
  /\ Doing(c, "beat")
  /\ at' = [at EXCEPT ![c] = @ + 1]
  /\ beating' = [beating EXCEPT ![c] = TRUE]
  /\ UNCHANGED <<config, tool, flow, tier, prompt, consent, effect, wanted, blind, reply>>

RequireShell(c) ==
  /\ Doing(c, "shell")
  /\ Settle(c, Now(c).on[IF shell THEN "ok" ELSE "absent"])
  /\ UNCHANGED <<prompt, consent, effect, wanted, blind>>

CheckArguments(c, o) ==
  /\ Doing(c, "check")
  /\ o \in DOMAIN Now(c).on
  /\ Settle(c, Now(c).on[o])
  /\ UNCHANGED <<prompt, consent, effect, wanted, blind>>

NoteBlindness(c, o) ==
  blind' = [blind EXCEPT ![c] = IF TakenForAnswer(Now(c), o) THEN @ \cup {at[c]} ELSE @]

ReadServer(c, o) ==
  /\ Doing(c, "read")
  /\ o \in DOMAIN Now(c).on
  /\ Settle(c, Now(c).on[o])
  /\ NoteBlindness(c, o)
  /\ UNCHANGED <<prompt, consent, effect, wanted>>

SeesWhatItSent(c, o) == TRUE  \* fault: compares with what it sent, reads nothing

(* A look that succeeds sees the server as it is, after all the changes.   *)
Sees(c, o) == (o = "seen" => wanted[c]) /\ (o = "unseen" => ~wanted[c])

LookBack(c, o) ==
  /\ Doing(c, "look")
  /\ o \in DOMAIN Now(c).on /\ Sees(c, o)
  /\ Settle(c, Now(c).on[o])
  /\ NoteBlindness(c, o)
  /\ UNCHANGED <<prompt, consent, effect, wanted>>

-----------------------------------------------------------------------------
(* requireConfirmationInteractive, requireRiskAcknowledgementInteractive   *)

AtGate(c) == Doing(c, "gate")

FlagsSuffice(c) ==
  /\ AtGate(c) /\ prompt[c] = "none" /\ tier[c] >= Now(c).tier
  /\ Settle(c, "next")
  /\ UNCHANGED <<prompt, consent, effect, wanted, blind>>

AskHuman(c) ==
  /\ AtGate(c) /\ prompt[c] = "none" /\ tier[c] < Now(c).tier
  /\ prompting
  /\ prompt' = [prompt EXCEPT ![c] = "open"]
  /\ UNCHANGED <<config, tool, flow, tier, at, consent, effect, wanted, blind, beating,
                 reply>>

NobodyToAsk(c) ==
  /\ AtGate(c) /\ prompt[c] = "none" /\ tier[c] < Now(c).tier
  /\ ~prompting
  /\ Settle(c, "unconfirmed")
  /\ UNCHANGED <<prompt, consent, effect, wanted, blind>>

ConfirmBoxOnly(boxes, step) == boxes >= 1  \* fault: the risk box is not looked at

AllConfirmed(boxes, step) == boxes >= step.tier

(* The human declines (0), ticks the first box or both.                    *)
HumanAnswers(c, boxes) ==
  /\ AtGate(c) /\ prompt[c] = "open" /\ prompting
  /\ prompt' = [prompt EXCEPT ![c] = "none"]
  /\ consent' = [consent EXCEPT ![c] = IF @ < boxes THEN boxes ELSE @]
  /\ Settle(c, IF AllConfirmed(boxes, Now(c)) THEN "next" ELSE "unconfirmed")
  /\ UNCHANGED <<effect, wanted, blind>>

Unanswerable(c) == ~prompting  \* fault: the prompt has no timeout

(* ELICITATION_TIMEOUT_MS, or the connection is gone.                      *)
PromptMayFail(c) == TRUE

(* "unavailable": back to the flags, which did not suffice.                *)
PromptFails(c) ==
  /\ AtGate(c) /\ prompt[c] = "open" /\ PromptMayFail(c)
  /\ prompt' = [prompt EXCEPT ![c] = "expired"]
  /\ Settle(c, "unconfirmed")
  /\ UNCHANGED <<consent, effect, wanted, blind>>

(* The answer to a request that is over is dropped by the SDK.             *)
LateAnswer(c) ==
  /\ prompt[c] = "expired" /\ prompting
  /\ prompt' = [prompt EXCEPT ![c] = "none"]
  /\ UNCHANGED <<config, tool, flow, tier, at, consent, effect, wanted, blind, beating,
                 reply>>

ClientLeaves ==
  /\ prompting
  /\ prompting' = FALSE
  /\ UNCHANGED <<shell, readOnly, callVars>>

-----------------------------------------------------------------------------
(* A step that changes the server.                                         *)

(* Of two changes by one call, the stronger.                               *)
Combined(e, f) == IF "applied" \in {e, f} THEN "applied"
                  ELSE IF "pending" \in {e, f} THEN "pending" ELSE "none"

(* What takes effect may be all the call wanted, or the first of two forms,*)
(* or something else again.                                                *)
MayFulfil(c, e) ==
  \E fulfils \in {FALSE, e = "applied" /\ LooksBack(flow[c])} :
    wanted' = [wanted EXCEPT ![c] = @ \/ fulfils]

ActOnServer(c, o) ==
  /\ Doing(c, "act")
  /\ o \in DOMAIN Now(c).on
  /\ \E e \in EffectsOf(o) :
       effect' = [effect EXCEPT ![c] = Combined(@, e)] /\ MayFulfil(c, e)
  /\ Settle(c, Now(c).on[o])
  /\ NoteBlindness(c, o)
  /\ UNCHANGED <<prompt, consent>>

Lands(c, e) ==
  /\ effect[c] = "pending"
  /\ effect' = [effect EXCEPT ![c] = e]
  /\ MayFulfil(c, e)
  /\ UNCHANGED <<config, tool, flow, tier, at, prompt, consent, blind, beating, reply>>

-----------------------------------------------------------------------------
Outcomes == {"ok", "none", "bad", "absent", "thrown", "exit", "unreached", "lost",
             "error", "already", "inFlight", "issued", "invalid", "no", "empty",
             "warning", "psFailed", "accepted", "unopened", "seen", "unseen"}

Advance(c) ==
  \/ StartProgressHeartbeat(c)
  \/ RequireShell(c)
  \/ \E o \in Outcomes :
       CheckArguments(c, o) \/ ReadServer(c, o) \/ LookBack(c, o) \/ ActOnServer(c, o)
  \/ FlagsSuffice(c)
  \/ AskHuman(c)
  \/ NobodyToAsk(c)

CallStep(c) ==
  \/ Advance(c)
  \/ \E boxes \in 0..2 : HumanAnswers(c, boxes)
  \/ PromptFails(c)
  \/ LateAnswer(c)
  \/ \E e \in {"none", "applied"} : Lands(c, e)

Next ==
  \/ \E c \in Calls, t \in DOMAIN Table, flags \in 0..2 :
       \E f \in Table[t].flows : Call(c, t, f, flags)
  \/ \E c \in Calls : CallStep(c)
  \/ ClientLeaves

(* Every remote operation has a deadline, and so has a prompt.             *)
Spec ==
  /\ Init /\ [][Next]_vars
  /\ \A c \in Calls : WF_vars(Advance(c)) /\ WF_vars(PromptFails(c))
-----------------------------------------------------------------------------
(* The server is changed only with the consent that the tool's description *)
(* asks for, given by flags or by a human who ticked the boxes, whatever   *)
(* became of the prompt (confirm.ts, elicitation.ts).                      *)
ConsentedEffects == \A c \in Calls : effect[c] # "none" => consent[c] >= flow[c].asks

(* "No changes were made." is true, however many steps came before it and  *)
(* whatever was sent and given up on, what is reported as done was done,   *)
(* and what is reported as verified is so, unless the last step's failure  *)
(* was taken for an answer.  "Requested" and a failure promise neither     *)
(* (the handlers' texts).                                                  *)
HonestReplies ==
  \A c \in Calls : at[c] \notin blind[c] =>
    /\ reply[c] \in NothingDone => effect[c] = "none"
    /\ reply[c] = "done" => effect[c] = "applied"
    /\ reply[c] = "verified" => wanted[c]

(* "the command was never sent" (system-power.ts:69), of a server that was *)
(* told nothing.                                                           *)
UnsentMeansUnsent == \A c \in Calls : reply[c] = "unsent" => effect[c] = "none"

(* "copy never claims more than verified"                                  *)
(* (2026-09-17-0.0.14-host-config.md:17): what is reported as verified is  *)
(* so, also when it could not be read back.                                *)
VerifiedMeansSo == \A c \in Calls : reply[c] = "verified" => wanted[c]

(* Every call is answered, also when the human, the client or the server   *)
(* never answers (ELICITATION_TIMEOUT_MS, the deadlines).                  *)
EveryCallAnswered == \A c \in Calls : Busy(c) ~> reply[c] # Waiting

(* What a handler could not read it does not act upon.                     *)
ActsOnReadings(tools) ==
  \A c \in Calls : tool[c] \in tools /\ effect[c] = "none" /\ effect'[c] # "none"
                     => blind[c] = {}

(* unassigned_action "Refuses partitions of array/pool/flash disks"        *)
(* (unassigned-action.ts:168): it mounts no device of which it could not   *)
(* read whether it is assigned.                                            *)
MountsOnlyUnassigned == [][ActsOnReadings({"unassigned_action"})]_vars
=============================================================================
