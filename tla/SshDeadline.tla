----------------------------- MODULE SshDeadline -----------------------------
(***************************************************************************)
(* SshExecutor with the two deadlines of a call (src/shell/executor.ts):   *)
(* withTimeout around acquireConnection, and the timer of run(), started   *)
(* when the channel is open.  Both use the timeoutMs given to execute().   *)
(* Time advances in ticks; a timer that is due fires before the next tick. *)
(***************************************************************************)
EXTENDS SshExecutor

CONSTANTS
  Deadline,   \* timeoutMs of every call, in ticks
  OpenLimit,  \* assumed of the SSH server: a channel request is answered by then
  MaxAge      \* bound: the clock stops when a call is this old

ASSUME DeadlineAssumption ==
  Deadline \in Nat \ {0} /\ OpenLimit \in Nat /\ MaxAge \in Nat

VARIABLES
  age,      \* ticks since execute() was called
  stageAge  \* ticks since the call entered its present stage

timedVars == <<vars, age, stageAge>>

TimedInit ==
  /\ Init
  /\ age = [c \in Callers |-> 0]
  /\ stageAge = [c \in Callers |-> 0]

(* The timers of withTimeout and run(), and the answer of the SSH server.  *)
Due(c) == \/ pc[c] \in {"connecting", "running"} /\ stageAge[c] >= Deadline
          \/ pc[c] = "opening" /\ stageAge[c] >= OpenLimit

Tick ==
  /\ Quiet
  /\ \A c \in Callers : ~Due(c) /\ age[c] < MaxAge
  /\ age' = [c \in Callers |-> IF pc[c] = "idle" THEN 0 ELSE age[c] + 1]
  /\ stageAge' = [c \in Callers |-> IF pc[c] = "idle" THEN 0 ELSE stageAge[c] + 1]
  /\ UNCHANGED vars

(* The executor's own steps take no time; a call that returns is forgotten.*)
Advance ==
  /\ age' = [c \in Callers |-> IF pc'[c] = "idle" THEN 0 ELSE age[c]]
  /\ stageAge' = [c \in Callers |-> IF pc'[c] = pc[c] THEN stageAge[c] ELSE 0]

TimedNext ==
  \/ Tick
  \/ \E c \in Callers :
       \/ (\E k \in Conns : CallOpen(c, k)) /\ Advance
       \/ (CallLive(c) \/ CallJoin(c)) /\ Advance
       \/ ConnectTimeout(c) /\ Due(c) /\ Advance
       \/ (AcquireSlot(c) \/ AcquireWait(c)) /\ Advance
       \/ (ExecOpened(c) \/ Finish(c)) /\ Advance
  \/ \E k \in Conns : ConnNext(k) /\ Advance
  \/ IdleDisconnect /\ Advance

TimedSpec == TimedInit /\ [][TimedNext]_timedVars

Rounds == (Cardinality(Callers) + MaxChannels - 1) \div MaxChannels

(* timeoutMs is not an "overall deadline" (execute's doc comment): it is   *)
(* applied to connecting and again to the command, and the wait for a slot *)
(* has none.  What the code does guarantee: one deadline to connect, and   *)
(* then, since the queue is first come first served, as many rounds of a   *)
(* channel request and a command as there are calls to serve MaxChannels   *)
(* at a time.                                                              *)
BoundedCall ==
  \A c \in Callers :
    pc[c] # "idle" => age[c] <= Deadline + Rounds * (OpenLimit + Deadline)
=============================================================================
