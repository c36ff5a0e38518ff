------------------------------- MODULE ToolSteps -------------------------------
(***************************************************************************)
(* The vocabulary in which the tool handlers (src/tools) are written down. *)
(*                                                                         *)
(* A handler is a sequence of steps.  A step has a set of outcomes, the    *)
(* domain of `on`, and `on` says what the handler does about each: go on   *)
(* ("next"), or return a result, of which only the promise it makes to the *)
(* caller is kept:                                                         *)
(*   data, nothing        what was read; "there is none"                   *)
(*   requested            the server accepted it, and may yet do nothing   *)
(*   done                 the change was made                              *)
(*   verified             the server is as it was asked to be              *)
(*   issued               was made, but could not be read back             *)
(*   noop                 the target was in that state already             *)
(*   denied, unconfirmed  "No changes were made."                          *)
(*   noShell, unsent      nothing was sent                                 *)
(*   failed               an error that promises nothing                   *)
(***************************************************************************)
EXTENDS Naturals, Sequences, TLC

(* unchecked: some failure of the step is not told from an answer.         *)
Step(do, on) == [do |-> do, on |-> on, tier |-> 0, unchecked |-> FALSE]

(* The code's reaction to each outcome in outs: as `on` says, else on to   *)
(* the next step when it went well and to the catch block when it did not. *)
React(on, outs) ==
  on @@ [o \in outs |-> IF o \in {"ok", "none", "accepted"} THEN "next" ELSE "failed"]

-----------------------------------------------------------------------------
(* Steps that send nothing.                                                *)

Shell == Step("shell", [ok |-> "next", absent |-> "noShell"])

Check(refusal) == Step("check", [ok |-> "next", bad |-> refusal])

Gate(tier) == [Step("gate", [ok |-> "next", refused |-> "unconfirmed"])
                 EXCEPT !.tier = tier]

Beat == Step("beat", [ok |-> "next"])

(* Steps that read: a query, a remote command, a test for a remote binary. *)

Query(on) == Step("read", React(on, {"ok", "none", "thrown"}))

Command(on) == Step("read", React(on, {"ok", "none", "exit", "thrown"}))

Probe(absent) == Step("read", [ok |-> "next", absent |-> absent, thrown |-> "failed"])

(* The exit code is not looked at: a command that failed reads as one that *)
(* printed nothing.                                                        *)
Unchecked(step) ==
  [step EXCEPT !.on["exit"] = step.on["none"], !.unchecked = TRUE]

(* A look at whether the server is as the handler wanted it: a command     *)
(* that finds it so or not, or fails.                                      *)
ReadBack == Step("look", [seen |-> "verified", unseen |-> "failed",
                          exit |-> "failed", thrown |-> "failed"])

-----------------------------------------------------------------------------
(* Steps that change the server: a mutation, a remote command.  "lost": no *)
(* answer within its deadline.  A command may not get as far: there is no  *)
(* connection ("unreached"), or the connection ends while its channel is   *)
(* opened, when the request may have been sent ("unopened").               *)

CommandFails == {"exit", "unreached", "unopened", "lost"}

Mutation(on) == Step("act", React(on, {"ok", "error", "lost"}))

Execute(on) == Step("act", React(on, {"ok"} \cup CommandFails))

(* The same where success says only that the server has accepted it.       *)

Request(on) == Step("act", React([accepted |-> "requested"] @@ on, {"error", "lost"}))

Submit(on) == Step("act", React(on, {"accepted"} \cup CommandFails))

-----------------------------------------------------------------------------
(* A way through a handler, with the tier of consent its tool's            *)
(* description asks for: 1 for confirm, 2 for acknowledge_risk as well.    *)
Flow(asks, steps) == [asks |-> asks, steps |-> steps]

(* A tool by its readOnlyHint.                                             *)
Reads(steps) == [readOnly |-> TRUE, flows |-> {Flow(0, steps)}]

Mutates(flows) == [readOnly |-> FALSE, flows |-> flows]

Lists == [ok |-> "data", none |-> "nothing"]

Shows == [ok |-> "data", none |-> "data"]
=============================================================================
