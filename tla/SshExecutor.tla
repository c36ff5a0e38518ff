----------------------------- MODULE SshExecutor -----------------------------
(***************************************************************************)
(* SshShellExecutor (src/shell/executor.ts): every remote command of the   *)
(* server runs over one kept-alive SSH connection.  A call captures the    *)
(* connection (opening it once when there is none), takes one of a bounded *)
(* number of channel slots, queueing in FIFO order when all are busy, runs *)
(* its command on the connection it captured, and gives the slot back.     *)
(*                                                                         *)
(* An action is one event of the Node.js event loop.  The continuations of *)
(* resolved promises run before the next timer or socket event, so while a *)
(* caller is "ready" (it holds a connection and is about to ask for a      *)
(* slot) only calls and other continuations can take a step: see Quiet.    *)
(*                                                                         *)
(* A definition marked "fault" is not part of the model: it is a plausible *)
(* wrong version of the definition that follows it, which the properties   *)
(* are shown to reject (README, Mutants).                                  *)
(***************************************************************************)
EXTENDS Integers, Sequences, FiniteSets

CONSTANTS
  Callers,      \* concurrent executions of a tool that runs a command
  Conns,        \* identities of connections, reused once nobody refers to one
  NoConn,       \* null
  MaxChannels   \* MAX_CONCURRENT_CHANNELS

ASSUME MaxChannelsAssumption == MaxChannels \in Nat \ {0}
ASSUME NoConnAssumption == NoConn \notin Conns
ASSUME CallersAssumption == IsFiniteSet(Callers)

VARIABLES
  connection,      \* the live connection, or NoConn
  connecting,      \* the connection whose opening is pending, or NoConn
  status,          \* what has become of each connection
  pc,              \* where each caller is in execute()
  conn,            \* the connection a caller captured (a local of execute)
  activeChannels,  \* the slot counter
  waiters,         \* callers waiting for a slot, oldest first
  idleTimer,       \* whether the idle-disconnect timer is pending
  unclaimed        \* history: no call has used the live connection yet

vars == <<connection, connecting, status, pc, conn, activeChannels, waiters,
          idleTimer, unclaimed>>

Status == {"down", "opening", "up", "failed", "ended"}
Stage  == {"idle", "connecting", "ready", "queued", "opening", "running"}

Init ==
  /\ connection = NoConn
  /\ connecting = NoConn
  /\ status = [k \in Conns |-> "down"]
  /\ pc = [c \in Callers |-> "idle"]
  /\ conn = [c \in Callers |-> NoConn]
  /\ activeChannels = 0
  /\ waiters = <<>>
  /\ idleTimer = FALSE
  /\ unclaimed = FALSE

(* No continuation is pending: the next timer or socket event may run.     *)
Quiet == \A c \in Callers : pc[c] # "ready"

(* The callers that hold a channel slot.                                   *)
Holders == {c \in Callers : pc[c] \in {"opening", "running"}}

(* A connection identity that nothing in the program refers to.            *)
Unused(k) == status[k] = "down" /\ \A c \in Callers : conn[c] # k

-----------------------------------------------------------------------------
(* acquireConnection: the live connection, the pending one, or a new one.  *)

CallLive(c) ==
  /\ pc[c] = "idle"
  /\ connection # NoConn
  /\ pc' = [pc EXCEPT ![c] = "ready"]
  /\ conn' = [conn EXCEPT ![c] = connection]
  /\ UNCHANGED <<connection, connecting, status, activeChannels, waiters,
                 idleTimer, unclaimed>>

CallJoin(c) ==
  /\ pc[c] = "idle"
  /\ connection = NoConn
  /\ connecting # NoConn
  /\ pc' = [pc EXCEPT ![c] = "connecting"]
  /\ UNCHANGED <<connection, connecting, status, conn, activeChannels,
                 waiters, idleTimer, unclaimed>>

CallOpen(c, k) ==
  /\ pc[c] = "idle"
  /\ connection = NoConn
  /\ connecting = NoConn
  /\ Unused(k)
  /\ connecting' = k
  /\ status' = [status EXCEPT ![k] = "opening"]
  /\ pc' = [pc EXCEPT ![c] = "connecting"]
  /\ UNCHANGED <<connection, conn, activeChannels, waiters, idleTimer,
                 unclaimed>>

(* The handshake completes: openConnection stores the connection, and      *)
(* every caller still awaiting it goes on in the same run of continuations.*)
(* The first of them clears `connecting`; so does the abandoned            *)
(* continuation of a caller whose own deadline has passed.                 *)
ConnectOk(k) ==
  /\ Quiet
  /\ connecting = k
  /\ connection' = k
  /\ connecting' = NoConn
  /\ status' = [status EXCEPT ![k] = "up"]
  /\ pc' = [c \in Callers |-> IF pc[c] = "connecting" THEN "ready" ELSE pc[c]]
  /\ conn' = [c \in Callers |-> IF pc[c] = "connecting" THEN k ELSE conn[c]]
  /\ unclaimed' = TRUE
  /\ UNCHANGED <<activeChannels, waiters, idleTimer>>

(* The handshake fails: every awaiting call is rejected.                   *)
ConnectFail(k) ==
  /\ Quiet
  /\ connecting = k
  /\ connecting' = NoConn
  /\ status' = [status EXCEPT ![k] = "down"]
  /\ pc' = [c \in Callers |-> IF pc[c] = "connecting" THEN "idle" ELSE pc[c]]
  /\ UNCHANGED <<connection, conn, activeChannels, waiters, idleTimer,
                 unclaimed>>

(* withTimeout: the call gives up; the handshake itself goes on.           *)
ConnectTimeout(c) ==
  /\ Quiet
  /\ pc[c] = "connecting"
  /\ pc' = [pc EXCEPT ![c] = "idle"]
  /\ UNCHANGED <<connection, connecting, status, conn, activeChannels,
                 waiters, idleTimer, unclaimed>>

-----------------------------------------------------------------------------
(* acquireChannel, exec and releaseChannel.                                *)

TimerNotCleared == UNCHANGED idleTimer     \* fault: a slot taken, timer kept

ClearIdleTimer == idleTimer' = FALSE

ArmedTooEarly == idleTimer' = (idleTimer \/ activeChannels' = 1)  \* fault

(* releaseChannel arms the idle timer when no slot is left in use.         *)
ScheduleIdleDisconnect ==
  idleTimer' = IF activeChannels' = 0 THEN TRUE ELSE idleTimer

AcquireSlot(c) ==
  /\ pc[c] = "ready"
  /\ activeChannels < MaxChannels
  /\ activeChannels' = activeChannels + 1
  /\ pc' = [pc EXCEPT ![c] = "opening"]
  /\ ClearIdleTimer
  /\ unclaimed' = FALSE
  /\ UNCHANGED <<connection, connecting, status, conn, waiters>>

PushesConnection(c) ==  \* fault: the waiter is not the one to be resumed
  /\ pc[c] = "ready"
  /\ ~(activeChannels < MaxChannels)
  /\ waiters' = Append(waiters, conn[c])
  /\ pc' = [pc EXCEPT ![c] = "queued"]
  /\ ClearIdleTimer
  /\ unclaimed' = FALSE
  /\ UNCHANGED <<connection, connecting, status, conn, activeChannels>>

AcquireWait(c) ==
  /\ pc[c] = "ready"
  /\ ~(activeChannels < MaxChannels)
  /\ waiters' = Append(waiters, c)
  /\ pc' = [pc EXCEPT ![c] = "queued"]
  /\ ClearIdleTimer
  /\ unclaimed' = FALSE
  /\ UNCHANGED <<connection, connecting, status, conn, activeChannels>>

(* The exec callback delivers a stream; run() starts its own deadline.     *)
ExecOpened(c) ==
  /\ Quiet
  /\ pc[c] = "opening"
  /\ status[conn[c]] = "up"
  /\ pc' = [pc EXCEPT ![c] = "running"]
  /\ UNCHANGED <<connection, connecting, status, conn, activeChannels,
                 waiters, idleTimer, unclaimed>>

NewestFirst(c) ==  \* fault: pop() instead of shift()
  /\ Quiet
  /\ c \in Holders
  /\ waiters # <<>>
  /\ waiters' = SubSeq(waiters, 1, Len(waiters) - 1)
  /\ pc' = [pc EXCEPT ![c] = "idle", ![waiters[Len(waiters)]] = "opening"]
  /\ conn' = [conn EXCEPT ![c] = NoConn]
  /\ UNCHANGED <<connection, connecting, status, activeChannels, idleTimer,
                 unclaimed>>

CounterDips(c) ==  \* fault: the waiter is expected to count itself again
  /\ Quiet
  /\ c \in Holders
  /\ waiters # <<>>
  /\ waiters' = Tail(waiters)
  /\ activeChannels' = activeChannels - 1
  /\ pc' = [pc EXCEPT ![c] = "idle", ![Head(waiters)] = "opening"]
  /\ conn' = [conn EXCEPT ![c] = NoConn]
  /\ UNCHANGED <<connection, connecting, status, idleTimer, unclaimed>>

(* exec settles, and the finally of execute() gives the slot to the oldest *)
(* waiter: the counter does not move.                                      *)
FinishHandOver(c) ==
  /\ Quiet
  /\ c \in Holders
  /\ waiters # <<>>
  /\ waiters' = Tail(waiters)
  /\ pc' = [pc EXCEPT ![c] = "idle", ![Head(waiters)] = "opening"]
  /\ conn' = [conn EXCEPT ![c] = NoConn]
  /\ UNCHANGED <<connection, connecting, status, activeChannels, idleTimer,
                 unclaimed>>

FreesBesideWaiters(c) ==  \* fault: the slot is freed and nobody is woken
  /\ Quiet
  /\ c \in Holders
  /\ activeChannels' = activeChannels - 1
  /\ ScheduleIdleDisconnect
  /\ pc' = [pc EXCEPT ![c] = "idle"]
  /\ conn' = [conn EXCEPT ![c] = NoConn]
  /\ UNCHANGED <<connection, connecting, status, waiters, unclaimed>>

(* exec settles and nobody waits: the slot is freed, and the last one to   *)
(* leave arms the idle timer.                                              *)
FinishFree(c) ==
  /\ Quiet
  /\ c \in Holders
  /\ waiters = <<>>
  /\ activeChannels' = activeChannels - 1
  /\ ScheduleIdleDisconnect
  /\ pc' = [pc EXCEPT ![c] = "idle"]
  /\ conn' = [conn EXCEPT ![c] = NoConn]
  /\ UNCHANGED <<connection, connecting, status, waiters, unclaimed>>

(* A command settles with a result, an error (the channel was refused, the *)
(* connection is gone) or its deadline; the executor treats all alike.     *)
Finish(c) == FinishHandOver(c) \/ FinishFree(c)

-----------------------------------------------------------------------------
(* Events of the connection itself.  The listener is registered for both   *)
(* "error" and "close", so it may run twice for one connection, and it may *)
(* run for a connection the executor forgot long ago.                      *)

DropsAny(dropped) == connection' = NoConn  \* fault: no identity check

DropConnection(dropped) ==
  connection' = IF connection = dropped THEN NoConn ELSE connection

ErrorEvent(k) ==
  /\ Quiet
  /\ status[k] \in {"up", "ended"}
  /\ status' = [status EXCEPT ![k] = "failed"]
  /\ DropConnection(k)
  /\ UNCHANGED <<connecting, pc, conn, activeChannels, waiters, idleTimer,
                 unclaimed>>

CloseEvent(k) ==
  /\ Quiet
  /\ status[k] \in {"up", "failed", "ended"}
  /\ status' = [status EXCEPT ![k] = "down"]
  /\ DropConnection(k)
  /\ UNCHANGED <<connecting, pc, conn, activeChannels, waiters, idleTimer,
                 unclaimed>>

EndedNotForgotten ==  \* fault: the ended connection stays the live one
  /\ Quiet
  /\ idleTimer
  /\ idleTimer' = FALSE
  /\ status' = [k \in Conns |-> IF k = connection THEN "ended" ELSE status[k]]
  /\ UNCHANGED <<connection, connecting, pc, conn, activeChannels, waiters,
                 unclaimed>>

(* disconnectIdle: end and forget the connection, if there still is one.   *)
IdleDisconnect ==
  /\ Quiet
  /\ idleTimer
  /\ idleTimer' = FALSE
  /\ status' = [k \in Conns |-> IF k = connection THEN "ended" ELSE status[k]]
  /\ connection' = NoConn
  /\ UNCHANGED <<connecting, pc, conn, activeChannels, waiters, unclaimed>>

-----------------------------------------------------------------------------
CallerNext(c) ==
  \/ CallLive(c) \/ CallJoin(c)
  \/ \E k \in Conns : CallOpen(c, k)
  \/ ConnectTimeout(c)
  \/ AcquireSlot(c) \/ AcquireWait(c)
  \/ ExecOpened(c) \/ Finish(c)

ConnNext(k) ==
  ConnectOk(k) \/ ConnectFail(k) \/ ErrorEvent(k) \/ CloseEvent(k)

Next ==
  \/ \E c \in Callers : CallerNext(c)
  \/ \E k \in Conns : ConnNext(k)
  \/ IdleDisconnect

Spec == Init /\ [][Next]_vars

(***************************************************************************)
(* Fairness.  A handshake settles (ssh2's readyTimeout); a continuation    *)
(* runs; an exec settles: run()'s deadline once the channel is open, and   *)
(* before that the answer of the SSH server or the keepalive probes, which *)
(* are assumed.  The latter is strong because other calls' continuations   *)
(* briefly take precedence over the event again and again.                 *)
(***************************************************************************)
Fairness ==
  /\ \A k \in Conns : WF_vars(ConnectOk(k) \/ ConnectFail(k))
  /\ \A c \in Callers : WF_vars(AcquireSlot(c) \/ AcquireWait(c))
  /\ \A c \in Callers : SF_vars(Finish(c))
  /\ WF_vars(IdleDisconnect)

FairSpec == Spec /\ Fairness
-----------------------------------------------------------------------------
(* Every variable has its type.                                            *)
TypeOK ==
  /\ connection \in Conns \union {NoConn}
  /\ connecting \in Conns \union {NoConn}
  /\ status \in [Conns -> Status]
  /\ pc \in [Callers -> Stage]
  /\ conn \in [Callers -> Conns \union {NoConn}]
  /\ activeChannels \in Int
  /\ waiters \in Seq(Callers)
  /\ idleTimer \in BOOLEAN
  /\ unclaimed \in BOOLEAN

(* The counter counts exactly the calls that hold a slot, through every    *)
(* hand-over and failure, and never passes MAX_CONCURRENT_CHANNELS.        *)
SlotsAccounted ==
  /\ activeChannels = Cardinality(Holders)
  /\ activeChannels <= MaxChannels

(* Nobody is left waiting beside a free slot (a lost wake-up), and the     *)
(* waiters are exactly the queued calls, each listed once.                 *)
NoLostWakeup ==
  /\ waiters # <<>> => activeChannels = MaxChannels
  /\ \A c \in Callers :
       pc[c] = "queued" <=> \E i \in 1..Len(waiters) : waiters[i] = c
  /\ \A i, j \in 1..Len(waiters) : waiters[i] = waiters[j] => i = j

(* "ONE kept-alive connection": an open connection is the one the executor *)
(* holds, and a handshake in progress the one it awaits.  No late event of *)
(* an older connection makes it forget a newer one that is still open.     *)
OneConnection ==
  /\ \A k \in Conns : /\ status[k] = "up" <=> connection = k
                      /\ status[k] = "opening" <=> connecting = k
  /\ connecting # NoConn => connection = NoConn

(* A call has captured a connection exactly from the moment it resolved    *)
(* until the call returns, and a call that does not have to queue starts   *)
(* its command on one that is still the live one: nothing can happen       *)
(* between acquireConnection and acquireChannel.                           *)
CapturedConnection ==
  \A c \in Callers :
    /\ conn[c] = NoConn <=> pc[c] \in {"idle", "connecting"}
    /\ pc[c] = "ready" => connection = conn[c]

(* The idle timer is pending only while no command runs or waits.          *)
TimerMeansIdle == idleTimer => Holders = {} /\ waiters = <<>>

(* The inductive invariant: each part needs others.                        *)
IInv ==
  /\ TypeOK
  /\ OneConnection
  /\ CapturedConnection
  /\ SlotsAccounted
  /\ NoLostWakeup
  /\ TimerMeansIdle

(* A live connection that some call has used is never idle without the     *)
(* idle timer running: it will be closed.                                  *)
IdleArmedAfterUse ==
  connection # NoConn /\ ~unclaimed /\ activeChannels = 0 /\ Quiet => idleTimer

(* The class comment's "disconnect after an idle window" for every live    *)
(* connection, used or not.                                                *)
IdleArmed ==
  connection # NoConn /\ activeChannels = 0 /\ Quiet => idleTimer

(* The executor never ends a connection that an unfinished call has        *)
(* captured ("does not disconnect while a command is in flight",           *)
(* executor.test.ts).                                                      *)
NoEndInFlight ==
  [][\A k \in Conns :
       status[k] = "up" /\ status'[k] = "ended" =>
         \A c \in Callers : conn[c] # k]_vars

(* Every call returns, whatever becomes of connections and other calls.    *)
EveryCallReturns ==
  \A c \in Callers : pc[c] # "idle" ~> pc[c] = "idle"

(* A used connection that is left alone is closed.                         *)
IdleConnectionCloses ==
  (connection # NoConn /\ idleTimer)
    ~> (connection = NoConn \/ \E c \in Callers : pc[c] # "idle")

(* The counter and its queue implement the first-come-first-served         *)
(* semaphore: nobody overtakes, no slot is lost or made twice.             *)
Slots == INSTANCE ChannelSlots
           WITH Users <- Callers, Slots <- MaxChannels,
                holders <- Holders, queue <- waiters

ImplementsSlots == Slots!Spec
=============================================================================
