-------------------------- MODULE SshExecutorProofs --------------------------
(***************************************************************************)
(* Proofs about SshExecutor for any set of callers and connections and any *)
(* number of channels: its invariants, that it never ends a connection a   *)
(* call has captured, and that it implements the semaphore ChannelSlots;   *)
(* and, with the clock of SshDeadline, how long a call can take.           *)
(***************************************************************************)
EXTENDS SshDeadline, TLAPS, FiniteSetTheorems

-----------------------------------------------------------------------------
(* Types                                                                   *)

LEMMA TypeInit == Init => TypeOK
<1> HAVE Init
<1>1. waiters \in Seq(Callers)
  BY DEF Init
<1>2. /\ status \in [Conns -> Status]
      /\ pc \in [Callers -> Stage]
      /\ conn \in [Callers -> Conns \union {NoConn}]
  BY DEF Init, Status, Stage
<1>3. /\ connection \in Conns \union {NoConn}
      /\ connecting \in Conns \union {NoConn}
      /\ activeChannels \in Int
  BY DEF Init
<1>4. idleTimer \in BOOLEAN /\ unclaimed \in BOOLEAN
  BY Zenon DEF Init
<1> QED
  BY <1>1, <1>2, <1>3, <1>4, Zenon DEF TypeOK

LEMMA TypeStep == TypeOK /\ [Next]_vars => TypeOK'
<1> SUFFICES ASSUME TypeOK, [Next]_vars PROVE TypeOK'
  OBVIOUS
<1> USE DEF TypeOK, Status, Stage
<1>1. ASSUME NEW c \in Callers, CallLive(c) \/ CallJoin(c) PROVE TypeOK'
  BY <1>1 DEF CallLive, CallJoin
<1>2. ASSUME NEW c \in Callers, NEW k \in Conns, CallOpen(c, k) PROVE TypeOK'
  BY <1>2 DEF CallOpen
<1>3. ASSUME NEW c \in Callers, ConnectTimeout(c) \/ ExecOpened(c) PROVE TypeOK'
  BY <1>3 DEF ConnectTimeout, ExecOpened
<1>4. ASSUME NEW c \in Callers, AcquireSlot(c) \/ AcquireWait(c) PROVE TypeOK'
  <2>1. waiters' \in Seq(Callers)
    BY <1>4 DEF AcquireSlot, AcquireWait, ClearIdleTimer
  <2>2. activeChannels' \in Int
    BY <1>4 DEF AcquireSlot, AcquireWait, ClearIdleTimer
  <2>3. /\ pc' \in [Callers -> Stage]
        /\ connection' \in Conns \union {NoConn}
        /\ connecting' \in Conns \union {NoConn}
        /\ status' \in [Conns -> Status]
        /\ conn' \in [Callers -> Conns \union {NoConn}]
    BY <1>4 DEF AcquireSlot, AcquireWait, ClearIdleTimer
  <2>4. idleTimer' \in BOOLEAN /\ unclaimed' \in BOOLEAN
    BY <1>4, Zenon DEF AcquireSlot, AcquireWait, ClearIdleTimer
  <2> QED
    BY <2>1, <2>2, <2>3, <2>4, Zenon
<1>5. ASSUME NEW c \in Callers, FinishHandOver(c) PROVE TypeOK'
  <2>1. waiters' \in Seq(Callers) /\ Head(waiters) \in Callers
    BY <1>5 DEF FinishHandOver
  <2> QED
    BY <1>5, <2>1 DEF FinishHandOver
<1>6. ASSUME NEW c \in Callers, FinishFree(c) PROVE TypeOK'
  <2>1. idleTimer' = TRUE \/ idleTimer' = idleTimer
    BY <1>6, Zenon DEF FinishFree, ScheduleIdleDisconnect
  <2>2. idleTimer' \in BOOLEAN
    BY <2>1, Zenon
  <2>3. activeChannels' \in Int
    BY <1>6 DEF FinishFree, ScheduleIdleDisconnect
  <2> QED
    BY <1>6, <2>2, <2>3 DEF FinishFree, ScheduleIdleDisconnect
<1>7. ASSUME NEW k \in Conns, ConnNext(k) PROVE TypeOK'
  BY <1>7 DEF ConnNext, ConnectOk, ConnectFail, ErrorEvent, CloseEvent,
              DropConnection
<1>8. CASE IdleDisconnect
  BY <1>8 DEF IdleDisconnect
<1>9. CASE UNCHANGED vars
  BY <1>9 DEF vars
<1> QED
  BY <1>1, <1>2, <1>3, <1>4, <1>5, <1>6, <1>7, <1>8, <1>9
  DEF Next, CallerNext, Finish

-----------------------------------------------------------------------------
(* The queue                                                               *)

LEMMA HeadIsQueued ==
  ASSUME TypeOK, NoLostWakeup, waiters # <<>>
  PROVE  Head(waiters) \in Callers /\ pc[Head(waiters)] = "queued"
<1>1. 1 \in 1..Len(waiters) /\ Head(waiters) = waiters[1]
  BY DEF TypeOK
<1>2. Head(waiters) \in Callers
  BY <1>1 DEF TypeOK
<1> QED
  BY <1>1, <1>2 DEF NoLostWakeup

-----------------------------------------------------------------------------
(* Connections                                                             *)

ConnInv == OneConnection /\ CapturedConnection

LEMMA ConnInit == Init => ConnInv
BY NoConnAssumption
DEF Init, ConnInv, OneConnection, CapturedConnection

LEMMA ConnStep == TypeOK /\ ConnInv /\ NoLostWakeup /\ [Next]_vars => ConnInv'
<1> SUFFICES ASSUME TypeOK, ConnInv, NoLostWakeup, [Next]_vars PROVE ConnInv'
  OBVIOUS
<1> USE NoConnAssumption
    DEF TypeOK, ConnInv, OneConnection, CapturedConnection, Status, Stage
<1>1. ASSUME NEW c \in Callers, CallLive(c) PROVE ConnInv'
  BY <1>1 DEF CallLive
<1>2. ASSUME NEW c \in Callers, CallJoin(c) PROVE ConnInv'
  BY <1>2 DEF CallJoin
<1>3. ASSUME NEW c \in Callers, NEW k \in Conns, CallOpen(c, k) PROVE ConnInv'
  BY <1>3 DEF CallOpen, Unused
<1>4. ASSUME NEW c \in Callers, ConnectTimeout(c) PROVE ConnInv'
  BY <1>4 DEF ConnectTimeout
<1>5. ASSUME NEW c \in Callers, AcquireSlot(c) \/ AcquireWait(c) PROVE ConnInv'
  BY <1>5 DEF AcquireSlot, AcquireWait, ClearIdleTimer
<1>6. ASSUME NEW c \in Callers, ExecOpened(c) PROVE ConnInv'
  BY <1>6 DEF ExecOpened
<1>7. ASSUME NEW c \in Callers, FinishFree(c) PROVE ConnInv'
  BY <1>7 DEF FinishFree, ScheduleIdleDisconnect, Holders, Quiet
<1>8. ASSUME NEW c \in Callers, FinishHandOver(c) PROVE ConnInv'
  <2>1. pc[Head(waiters)] = "queued" /\ Head(waiters) \in Callers
    BY <1>8, HeadIsQueued DEF FinishHandOver
  <2> QED
    BY <1>8, <2>1 DEF FinishHandOver, Holders, Quiet
<1>9. ASSUME NEW k \in Conns, ConnectOk(k) PROVE ConnInv'
  BY <1>9 DEF ConnectOk, Quiet
<1>10. ASSUME NEW k \in Conns, ConnectFail(k) PROVE ConnInv'
  BY <1>10 DEF ConnectFail, Quiet
<1>11. ASSUME NEW k \in Conns, ErrorEvent(k) PROVE ConnInv'
  BY <1>11 DEF ErrorEvent, DropConnection, Quiet
<1>12. ASSUME NEW k \in Conns, CloseEvent(k) PROVE ConnInv'
  BY <1>12 DEF CloseEvent, DropConnection, Quiet
<1>13. CASE IdleDisconnect
  BY <1>13 DEF IdleDisconnect, Quiet
<1>14. CASE UNCHANGED vars
  BY <1>14 DEF vars
<1> QED
  BY <1>1, <1>2, <1>3, <1>4, <1>5, <1>6, <1>7, <1>8, <1>9, <1>10,
     <1>11, <1>12, <1>13, <1>14
  DEF Next, CallerNext, ConnNext, Finish

-----------------------------------------------------------------------------
(* Slots                                                                   *)

SlotInv == SlotsAccounted /\ NoLostWakeup

LEMMA HoldersFinite == IsFiniteSet(Holders) /\ Cardinality(Holders) \in Nat
BY CallersAssumption, FS_Subset, FS_CardinalityType DEF Holders

LEMMA HoldersFiniteNext == IsFiniteSet(Holders') /\ Cardinality(Holders') \in Nat
BY CallersAssumption, FS_Subset, FS_CardinalityType DEF Holders

LEMMA SlotInit == Init => SlotInv
<1> HAVE Init
<1>1. Holders = {}
  BY DEF Init, Holders
<1>2. Cardinality(Holders) = 0
  BY <1>1, FS_EmptySet
<1> QED
  BY <1>2, MaxChannelsAssumption DEF Init, SlotInv, SlotsAccounted, NoLostWakeup

(* A step that neither takes nor returns a slot, nor touches the queue.    *)
LEMMA SlotFrame ==
  ASSUME SlotInv, TypeOK,
         activeChannels' = activeChannels, waiters' = waiters,
         pc' \in [Callers -> Stage],
         \A c \in Callers :
           /\ pc'[c] \in {"opening", "running"} <=> pc[c] \in {"opening", "running"}
           /\ pc'[c] = "queued" <=> pc[c] = "queued"
  PROVE  SlotInv'
<1>1. Holders' = Holders
  BY DEF Holders
<1> QED
  BY <1>1 DEF SlotInv, SlotsAccounted, NoLostWakeup

LEMMA SlotAcquire ==
  ASSUME SlotInv, TypeOK, NEW c \in Callers, AcquireSlot(c)
  PROVE  SlotInv'
<1> USE DEF AcquireSlot
<1>1. Holders' = Holders \union {c} /\ c \notin Holders
  BY DEF Holders, TypeOK, Stage
<1>2. Cardinality(Holders') = Cardinality(Holders) + 1
  BY <1>1, HoldersFinite, FS_AddElement
<1>3. SlotsAccounted'
  BY <1>2, MaxChannelsAssumption DEF SlotInv, SlotsAccounted, TypeOK
<1>4. waiters = <<>>
  BY MaxChannelsAssumption DEF SlotInv, NoLostWakeup, TypeOK
<1>5. NoLostWakeup'
  BY <1>4 DEF SlotInv, NoLostWakeup, TypeOK, Stage
<1> QED
  BY <1>3, <1>5 DEF SlotInv

LEMMA SlotWait ==
  ASSUME SlotInv, TypeOK, NEW c \in Callers, AcquireWait(c)
  PROVE  SlotInv'
<1> USE DEF AcquireWait
<1>1. Holders' = Holders
  BY DEF Holders, TypeOK, Stage
<1>2. SlotsAccounted'
  BY <1>1 DEF SlotInv, SlotsAccounted
<1>3. activeChannels' = MaxChannels
  BY MaxChannelsAssumption DEF SlotInv, SlotsAccounted, TypeOK
<1>4. /\ Len(waiters') = Len(waiters) + 1 /\ Len(waiters) \in Nat
      /\ waiters'[Len(waiters')] = c
      /\ \A i \in 1..Len(waiters) : waiters'[i] = waiters[i]
  BY DEF TypeOK
<1>5. \A i \in 1..Len(waiters) : waiters[i] # c /\ waiters[i] \in Callers
  BY DEF TypeOK, SlotInv, NoLostWakeup
<1>6. \A b \in Callers :
        pc'[b] = "queued" <=> \E i \in 1..Len(waiters') : waiters'[i] = b
  <2> SUFFICES ASSUME NEW b \in Callers
               PROVE  pc'[b] = "queued" <=>
                        \E i \in 1..Len(waiters') : waiters'[i] = b
    OBVIOUS
  <2>1. CASE b = c
    BY <2>1, <1>4 DEF TypeOK
  <2>2. CASE b # c
    <3>1. pc'[b] = pc[b]
      BY <2>2 DEF TypeOK
    <3>2. pc[b] = "queued" <=> \E i \in 1..Len(waiters) : waiters[i] = b
      BY DEF SlotInv, NoLostWakeup
    <3>3. (\E i \in 1..Len(waiters) : waiters[i] = b)
            <=> (\E i \in 1..Len(waiters') : waiters'[i] = b)
      BY <1>4, <2>2
    <3> QED
      BY <3>1, <3>2, <3>3
  <2> QED
    BY <2>1, <2>2
<1>7. \A i, j \in 1..Len(waiters') : waiters'[i] = waiters'[j] => i = j
  <2>1. \A i, j \in 1..Len(waiters) : waiters[i] = waiters[j] => i = j
    BY DEF SlotInv, NoLostWakeup
  <2> QED
    BY <1>4, <1>5, <2>1
<1> QED
  BY <1>2, <1>3, <1>6, <1>7 DEF SlotInv, NoLostWakeup

LEMMA SlotHandOver ==
  ASSUME SlotInv, TypeOK, NEW c \in Callers, FinishHandOver(c)
  PROVE  SlotInv'
<1> USE DEF FinishHandOver
<1> DEFINE next == Head(waiters)
<1>1. next \in Callers /\ pc[next] = "queued"
  BY HeadIsQueued DEF SlotInv
<1>2. c # next /\ c \in Holders /\ next \notin Holders
  BY <1>1 DEF Holders
<1>3. Holders' = (Holders \ {c}) \union {next}
  BY <1>1, <1>2 DEF Holders, TypeOK, Stage
<1>4. Cardinality(Holders') = Cardinality(Holders)
  <2>1. /\ IsFiniteSet(Holders \ {c})
        /\ Cardinality(Holders \ {c}) = Cardinality(Holders) - 1
    BY <1>2, HoldersFinite, FS_RemoveElement
  <2>2. Cardinality((Holders \ {c}) \union {next}) = Cardinality(Holders \ {c}) + 1
    BY <1>2, <2>1, FS_AddElement
  <2> QED
    BY <1>3, <2>1, <2>2, HoldersFinite
<1>5. SlotsAccounted'
  BY <1>4 DEF SlotInv, SlotsAccounted
<1>6. /\ Len(waiters) \in Nat \ {0}
      /\ Len(waiters') = Len(waiters) - 1
      /\ \A i \in 1..Len(waiters') : waiters'[i] = waiters[i + 1]
      /\ waiters[1] = next
  BY DEF TypeOK
<1>7. \A i, j \in 1..Len(waiters) : waiters[i] = waiters[j] => i = j
  BY DEF SlotInv, NoLostWakeup
<1>8. \A i, j \in 1..Len(waiters') : waiters'[i] = waiters'[j] => i = j
  <2> SUFFICES ASSUME NEW i \in 1..Len(waiters'), NEW j \in 1..Len(waiters'),
                      waiters'[i] = waiters'[j]
               PROVE  i = j
    OBVIOUS
  <2>1. i + 1 \in 1..Len(waiters) /\ j + 1 \in 1..Len(waiters)
    BY <1>6
  <2>2. i + 1 = j + 1
    BY <1>6, <1>7, <2>1
  <2> QED
    BY <2>2
<1>9. \A b \in Callers :
        pc'[b] = "queued" <=> \E i \in 1..Len(waiters') : waiters'[i] = b
  <2> SUFFICES ASSUME NEW b \in Callers
               PROVE  pc'[b] = "queued" <=>
                        \E i \in 1..Len(waiters') : waiters'[i] = b
    OBVIOUS
  <2>1. pc[b] = "queued" <=> \E i \in 1..Len(waiters) : waiters[i] = b
    BY DEF SlotInv, NoLostWakeup
  <2>2. CASE b = next
    <3>1. pc'[b] = "opening"
      BY <2>2, <1>1, <1>2 DEF TypeOK
    <3>2. \A i \in 1..Len(waiters') : i + 1 \in 1..Len(waiters) /\ i + 1 # 1
      BY <1>6
    <3>3. ~\E i \in 1..Len(waiters') : waiters'[i] = b
      BY <1>6, <1>7, <2>2, <3>2
    <3> QED
      BY <3>1, <3>3
  <2>3. CASE b # next
    <3>1. pc'[b] = "queued" <=> pc[b] = "queued"
      BY <2>3, <1>2 DEF TypeOK, Holders
    <3>2. ASSUME NEW i \in 1..Len(waiters), waiters[i] = b
          PROVE  \E j \in 1..Len(waiters') : waiters'[j] = b
      <4>1. i # 1 /\ i - 1 \in 1..Len(waiters')
        BY <3>2, <1>6, <2>3
      <4>2. waiters'[i - 1] = waiters[(i - 1) + 1]
        BY <4>1, <1>6
      <4> QED
        BY <4>1, <4>2, <3>2
    <3>3. ASSUME NEW i \in 1..Len(waiters'), waiters'[i] = b
          PROVE  \E j \in 1..Len(waiters) : waiters[j] = b
      <4>1. i + 1 \in 1..Len(waiters)
        BY <1>6
      <4> QED
        BY <4>1, <1>6, <3>3
    <3> QED
      BY <2>1, <3>1, <3>2, <3>3
  <2> QED
    BY <2>2, <2>3
<1>10. waiters' # <<>> => activeChannels' = MaxChannels
  BY DEF SlotInv, NoLostWakeup
<1> QED
  BY <1>5, <1>8, <1>9, <1>10 DEF SlotInv, NoLostWakeup

LEMMA SlotFree ==
  ASSUME SlotInv, TypeOK, NEW c \in Callers, FinishFree(c)
  PROVE  SlotInv'
<1> USE DEF FinishFree, ScheduleIdleDisconnect
<1>1. Holders' = Holders \ {c} /\ c \in Holders
  BY DEF Holders, TypeOK, Stage
<1>2. Cardinality(Holders') = Cardinality(Holders) - 1
  BY <1>1, HoldersFinite, FS_RemoveElement
<1>3. SlotsAccounted'
  BY <1>2, MaxChannelsAssumption DEF SlotInv, SlotsAccounted, TypeOK
<1>4. \A b \in Callers : pc'[b] = "queued" <=> pc[b] = "queued"
  BY <1>1 DEF TypeOK, Holders
<1>5. NoLostWakeup'
  BY <1>4 DEF SlotInv, NoLostWakeup
<1> QED
  BY <1>3, <1>5 DEF SlotInv

LEMMA SlotStep == TypeOK /\ TypeOK' /\ SlotInv /\ [Next]_vars => SlotInv'
<1> SUFFICES ASSUME TypeOK, TypeOK', SlotInv, [Next]_vars PROVE SlotInv'
  OBVIOUS
<1>0. pc' \in [Callers -> Stage] /\ pc \in [Callers -> Stage]
  BY DEF TypeOK
<1>1. ASSUME NEW c \in Callers, CallLive(c) \/ CallJoin(c) PROVE SlotInv'
  BY <1>0, <1>1, SlotFrame DEF CallLive, CallJoin
<1>2. ASSUME NEW c \in Callers, NEW k \in Conns, CallOpen(c, k) PROVE SlotInv'
  BY <1>0, <1>2, SlotFrame DEF CallOpen
<1>3. ASSUME NEW c \in Callers, ConnectTimeout(c) \/ ExecOpened(c) PROVE SlotInv'
  BY <1>0, <1>3, SlotFrame DEF ConnectTimeout, ExecOpened
<1>4. ASSUME NEW k \in Conns, ConnectOk(k) \/ ConnectFail(k) PROVE SlotInv'
  BY <1>0, <1>4, SlotFrame DEF ConnectOk, ConnectFail
<1>5. ASSUME NEW k \in Conns, ErrorEvent(k) \/ CloseEvent(k) PROVE SlotInv'
  BY <1>0, <1>5, SlotFrame DEF ErrorEvent, CloseEvent
<1>6. CASE IdleDisconnect
  BY <1>0, <1>6, SlotFrame DEF IdleDisconnect
<1>7. CASE UNCHANGED vars
  BY <1>0, <1>7, SlotFrame DEF vars
<1> QED
  BY <1>1, <1>2, <1>3, <1>4, <1>5, <1>6, <1>7,
     SlotAcquire, SlotWait, SlotHandOver, SlotFree
  DEF Next, CallerNext, ConnNext, Finish

-----------------------------------------------------------------------------
(* The idle timer                                                          *)

LEMMA TimerStep ==
  TypeOK /\ SlotInv /\ SlotInv' /\ TimerMeansIdle /\ [Next]_vars
    => TimerMeansIdle'
<1> SUFFICES ASSUME TypeOK, SlotInv, SlotInv', TimerMeansIdle, [Next]_vars
             PROVE  TimerMeansIdle'
  OBVIOUS
<1> USE DEF TypeOK, Stage, TimerMeansIdle
<1>1. ASSUME NEW c \in Callers, CallLive(c) \/ CallJoin(c) PROVE TimerMeansIdle'
  BY <1>1 DEF CallLive, CallJoin, Holders
<1>2. ASSUME NEW c \in Callers, NEW k \in Conns, CallOpen(c, k)
      PROVE  TimerMeansIdle'
  BY <1>2 DEF CallOpen, Holders
<1>3. ASSUME NEW c \in Callers, ConnectTimeout(c) \/ ExecOpened(c)
      PROVE  TimerMeansIdle'
  BY <1>3 DEF ConnectTimeout, ExecOpened, Holders
<1>4. ASSUME NEW c \in Callers, AcquireSlot(c) \/ AcquireWait(c)
      PROVE  TimerMeansIdle'
  BY <1>4 DEF AcquireSlot, AcquireWait, ClearIdleTimer
<1>5. ASSUME NEW c \in Callers, FinishHandOver(c) PROVE TimerMeansIdle'
  BY <1>5 DEF FinishHandOver
<1>6. ASSUME NEW c \in Callers, FinishFree(c) PROVE TimerMeansIdle'
  <2>1. ~idleTimer
    BY <1>6 DEF FinishFree, ScheduleIdleDisconnect
  <2>2. waiters' = <<>>
    BY <1>6 DEF FinishFree, ScheduleIdleDisconnect
  <2>3. activeChannels' = 0 => Holders' = {}
    BY HoldersFiniteNext, FS_EmptySet DEF SlotInv, SlotsAccounted
  <2>4. idleTimer' => activeChannels' = 0
    BY <1>6, <2>1, Zenon DEF FinishFree, ScheduleIdleDisconnect
  <2> QED
    BY <2>2, <2>3, <2>4
<1>7. ASSUME NEW k \in Conns, ConnNext(k) PROVE TimerMeansIdle'
  BY <1>7 DEF ConnNext, ConnectOk, ConnectFail, ErrorEvent, CloseEvent, Holders
<1>8. CASE IdleDisconnect
  BY <1>8 DEF IdleDisconnect
<1>9. CASE UNCHANGED vars
  BY <1>9 DEF vars, Holders
<1> QED
  BY <1>1, <1>2, <1>3, <1>4, <1>5, <1>6, <1>7, <1>8, <1>9
  DEF Next, CallerNext, Finish

-----------------------------------------------------------------------------
(* The invariant and what follows from it                                  *)

LEMMA Inductive == IInv /\ [Next]_vars => IInv'
BY TypeStep, ConnStep, SlotStep, TimerStep DEF IInv, ConnInv, SlotInv

(* Every part of the inductive invariant holds: the slot counter counts    *)
(* the running calls and is bounded, no wake-up is lost, there is at most  *)
(* one open connection, and the idle timer runs only when nothing does.    *)
THEOREM Invariance == Spec => []IInv
<1>1. Init => IInv
  BY TypeInit, ConnInit, SlotInit
  DEF IInv, ConnInv, SlotInv, TimerMeansIdle, Init
<1> QED
  BY <1>1, Inductive, PTL DEF Spec

(* TypeOK for every instance.                                              *)
THEOREM TypeCorrect == Spec => []TypeOK
BY Invariance, PTL DEF IInv

(* The slots are accounted for and never exceed MAX_CONCURRENT_CHANNELS,   *)
(* whatever fails, closes or times out.                                    *)
THEOREM ChannelsBounded == Spec => []SlotsAccounted
BY Invariance, PTL DEF IInv

(* No waiter is ever left beside a free slot.                              *)
THEOREM NoWakeupLost == Spec => []NoLostWakeup
BY Invariance, PTL DEF IInv

(* No open connection escapes the executor.                                *)
THEOREM AtMostOneConnection == Spec => []OneConnection
BY Invariance, PTL DEF IInv

(* A call has captured a connection exactly from the moment it resolved    *)
(* until the call returns, and starts its command on the live one unless   *)
(* it had to queue.                                                        *)
THEOREM ConnectionIsCaptured == Spec => []CapturedConnection
BY Invariance, PTL DEF IInv

(* The idle timer is pending only while no command runs or waits.          *)
THEOREM TimerOnlyIdle == Spec => []TimerMeansIdle
BY Invariance, PTL DEF IInv

(* Only acquireChannel clears the timer, and it takes a slot or finds all  *)
(* of them taken.                                                          *)
ArmedInv == connection # NoConn /\ ~unclaimed /\ activeChannels = 0 => idleTimer

LEMMA ArmedStep == IInv /\ ArmedInv /\ [Next]_vars => ArmedInv'
<1> SUFFICES ASSUME IInv, ArmedInv, [Next]_vars PROVE ArmedInv'
  OBVIOUS
<1>0. activeChannels \in Nat
  BY HoldersFinite DEF IInv, SlotsAccounted
<1>1. ASSUME NEW c \in Callers, CallLive(c) \/ CallJoin(c) PROVE ArmedInv'
  BY <1>1 DEF CallLive, CallJoin, ArmedInv
<1>2. ASSUME NEW c \in Callers, NEW k \in Conns, CallOpen(c, k) PROVE ArmedInv'
  BY <1>2 DEF CallOpen, ArmedInv
<1>3. ASSUME NEW c \in Callers, ConnectTimeout(c) \/ ExecOpened(c) PROVE ArmedInv'
  BY <1>3 DEF ConnectTimeout, ExecOpened, ArmedInv
<1>4. ASSUME NEW c \in Callers, AcquireSlot(c) PROVE ArmedInv'
  BY <1>0, <1>4 DEF AcquireSlot, ArmedInv
<1>5. ASSUME NEW c \in Callers, AcquireWait(c) PROVE ArmedInv'
  BY <1>0, <1>5, MaxChannelsAssumption DEF AcquireWait, ArmedInv
<1>6. ASSUME NEW c \in Callers, Finish(c) PROVE ArmedInv'
  BY <1>6
  DEF Finish, FinishHandOver, FinishFree, ScheduleIdleDisconnect, ArmedInv
<1>7. ASSUME NEW k \in Conns, ConnNext(k) PROVE ArmedInv'
  BY <1>7
  DEF ConnNext, ConnectOk, ConnectFail, ErrorEvent, CloseEvent, DropConnection, ArmedInv
<1>8. CASE IdleDisconnect \/ UNCHANGED vars
  BY <1>8 DEF IdleDisconnect, vars, ArmedInv
<1> QED
  BY <1>1, <1>2, <1>3, <1>4, <1>5, <1>6, <1>7, <1>8 DEF Next, CallerNext

(* A live connection that some call has used is never idle without the     *)
(* idle timer running.                                                     *)
THEOREM UsedIsArmed == Spec => []IdleArmedAfterUse
<1>1. Init => ArmedInv
  BY DEF Init, ArmedInv
<1>2. ArmedInv => IdleArmedAfterUse
  BY DEF ArmedInv, IdleArmedAfterUse
<1> QED
  BY <1>1, <1>2, ArmedStep, Invariance, PTL DEF Spec

(* The idle disconnect never ends a connection an unfinished call holds.   *)
THEOREM NeverEndsInFlight == Spec => NoEndInFlight
<1> DEFINE Step == \A k \in Conns :
                     status[k] = "up" /\ status'[k] = "ended" =>
                       \A c \in Callers : conn[c] # k
<1>1. IInv /\ [Next]_vars => [Step]_vars
  <2> SUFFICES ASSUME IInv, [Next]_vars PROVE [Step]_vars
    OBVIOUS
  <2> USE DEF IInv, TypeOK
  <2>1. CASE IdleDisconnect
    <3> SUFFICES ASSUME NEW k \in Conns, status[k] = "up", NEW c \in Callers
                 PROVE  conn[c] # k
      OBVIOUS
    <3>1. /\ pc[c] \notin {"ready", "opening", "running"}
          /\ pc[c] \in Stage
      BY <2>1 DEF IdleDisconnect, Quiet, TimerMeansIdle, Holders
    <3>2. pc[c] # "queued"
      BY <2>1 DEF IdleDisconnect, TimerMeansIdle, NoLostWakeup
    <3>3. conn[c] = NoConn
      BY <3>1, <3>2 DEF CapturedConnection, Stage
    <3> QED
      BY <3>3, NoConnAssumption
  <2>2. ASSUME NEW c \in Callers, CallerNext(c) PROVE Step
    BY <2>2 DEF CallerNext, CallLive, CallJoin, CallOpen, ConnectTimeout,
       AcquireSlot, AcquireWait, ExecOpened, Finish, FinishHandOver, FinishFree
  <2>3. ASSUME NEW k \in Conns, ConnNext(k) PROVE Step
    BY <2>3 DEF ConnNext, ConnectOk, ConnectFail, ErrorEvent, CloseEvent
  <2> QED
    BY <2>1, <2>2, <2>3 DEF Next
<1> QED
  BY <1>1, Invariance, PTL DEF Spec, NoEndInFlight

-----------------------------------------------------------------------------
(* Refinement                                                              *)

LEMMA SlotsFrame ==
  ASSUME waiters' = waiters,
         \A c \in Callers :
           pc'[c] \in {"opening", "running"} <=> pc[c] \in {"opening", "running"}
  PROVE  UNCHANGED Slots!vars
BY DEF Slots!vars, Holders

(* The instance counts with its own copy of the same definition.           *)
LEMMA SlotsCardinality == Slots!Cardinality(Holders) = Cardinality(Holders)
BY DEF Slots!Cardinality, Cardinality

LEMMA SlotsTake ==
  ASSUME IInv, NEW c \in Callers, AcquireSlot(c) PROVE Slots!Next
<1>1. Holders' = Holders \union {c} /\ c \notin Holders
  BY DEF AcquireSlot, Holders, IInv, TypeOK, Stage
<1>2. waiters = <<>> /\ Cardinality(Holders) < MaxChannels
  BY MaxChannelsAssumption
  DEF AcquireSlot, IInv, NoLostWakeup, SlotsAccounted, TypeOK
<1>3. Slots!Take(c)
  BY <1>1, <1>2, SlotsCardinality DEF Slots!Take, AcquireSlot
<1> QED
  BY <1>3 DEF Slots!Next

LEMMA SlotsWait ==
  ASSUME IInv, NEW c \in Callers, AcquireWait(c) PROVE Slots!Next
<1>1. Holders' = Holders /\ c \notin Holders
  BY DEF AcquireWait, Holders, IInv, TypeOK, Stage
<1>2. Cardinality(Holders) = MaxChannels
  BY MaxChannelsAssumption DEF AcquireWait, IInv, SlotsAccounted, TypeOK
<1>3. ~Slots!InQueue(c)
  BY DEF AcquireWait, IInv, NoLostWakeup, Slots!InQueue
<1>4. Slots!Wait(c)
  BY <1>1, <1>2, <1>3, SlotsCardinality DEF Slots!Wait, AcquireWait
<1> QED
  BY <1>4 DEF Slots!Next

LEMMA SlotsGive ==
  ASSUME IInv, NEW c \in Callers, Finish(c) PROVE Slots!Next
<1>1. CASE FinishFree(c)
  <2>1. Holders' = Holders \ {c} /\ c \in Holders
    BY <1>1 DEF FinishFree, ScheduleIdleDisconnect, Holders, IInv, TypeOK, Stage
  <2>2. Slots!Give(c)
    BY <1>1, <2>1 DEF Slots!Give, FinishFree
  <2> QED
    BY <2>2 DEF Slots!Next
<1>2. CASE FinishHandOver(c)
  <2>1. Head(waiters) \in Callers /\ pc[Head(waiters)] = "queued"
    BY <1>2, HeadIsQueued DEF FinishHandOver, IInv
  <2>2. /\ Holders' = (Holders \ {c}) \union {Head(waiters)}
        /\ c \in Holders
    BY <1>2, <2>1 DEF FinishHandOver, Holders, IInv, TypeOK, Stage
  <2>3. Slots!Give(c)
    BY <1>2, <2>2 DEF Slots!Give, FinishHandOver
  <2> QED
    BY <2>3 DEF Slots!Next
<1> QED
  BY <1>1, <1>2 DEF Finish

(* The executor's counter and queue implement the first-come-first-served  *)
(* semaphore of ChannelSlots.                                              *)
THEOREM SlotsRefinement == Spec => ImplementsSlots
<1>1. Init => Slots!Init
  BY DEF Init, Slots!Init, Holders
<1>2. IInv /\ [Next]_vars => [Slots!Next]_(Slots!vars)
  <2> SUFFICES ASSUME IInv, [Next]_vars PROVE [Slots!Next]_(Slots!vars)
    OBVIOUS
  <2>0. pc \in [Callers -> Stage]
    BY DEF IInv, TypeOK
  <2>1. ASSUME NEW c \in Callers, CallLive(c) \/ CallJoin(c)
        PROVE  UNCHANGED Slots!vars
    BY <2>0, <2>1, SlotsFrame DEF CallLive, CallJoin
  <2>2. ASSUME NEW c \in Callers, NEW k \in Conns, CallOpen(c, k)
        PROVE  UNCHANGED Slots!vars
    BY <2>0, <2>2, SlotsFrame DEF CallOpen
  <2>3. ASSUME NEW c \in Callers, ConnectTimeout(c) \/ ExecOpened(c)
        PROVE  UNCHANGED Slots!vars
    BY <2>0, <2>3, SlotsFrame DEF ConnectTimeout, ExecOpened
  <2>4. ASSUME NEW k \in Conns, ConnNext(k) PROVE UNCHANGED Slots!vars
    BY <2>0, <2>4, SlotsFrame
    DEF ConnNext, ConnectOk, ConnectFail, ErrorEvent, CloseEvent
  <2>5. CASE IdleDisconnect \/ UNCHANGED vars
    BY <2>0, <2>5, SlotsFrame DEF IdleDisconnect, vars
  <2> QED
    BY <2>1, <2>2, <2>3, <2>4, <2>5, SlotsTake, SlotsWait, SlotsGive
    DEF Next, CallerNext
<1> QED
  BY <1>1, <1>2, Invariance, PTL DEF Spec, ImplementsSlots, Slots!Spec

-----------------------------------------------------------------------------
(* Deadlines                                                               *)
(*                                                                         *)
(* A holder keeps its slot for at most one round: a channel request and a  *)
(* command.  While a call is queued every slot is held, so of the slots    *)
(* held when a round of its wait begins all are given up before it ends:   *)
(* the call moves up by MaxChannels places a round.                        *)

Round == OpenLimit + Deadline
N == Cardinality(Callers)

(* For how long a call has held its slot, at most.                         *)
Held(h) == IF pc[h] = "opening" THEN stageAge[h] ELSE OpenLimit + stageAge[h]

(* Those that have held theirs since time `start` of a wait of length s.   *)
Since(s, start) == {h \in Holders : Held(h) + start >= s}

(* The call at place i of the queue is in the round of its wait that began *)
(* at time `start`, after `gone` hand-overs or more.                       *)
InRound(i, start, gone) ==
  LET s == stageAge[waiters[i]]
  IN /\ start <= s /\ s <= start + Round
     /\ i + gone + 2 * MaxChannels <= N + Cardinality(Since(s, start))

QueueInv ==
  \A i \in 1..Len(waiters) :
    \E k \in Nat : InRound(i, k * Round, k * MaxChannels)

AgeInv ==
  \A c \in Callers :
    /\ pc[c] = "idle" => age[c] = 0
    /\ pc[c] = "connecting" => age[c] <= stageAge[c] /\ stageAge[c] <= Deadline
    /\ pc[c] = "ready" => age[c] <= Deadline
    /\ pc[c] = "queued" => age[c] <= Deadline + stageAge[c]
    /\ pc[c] = "opening" => stageAge[c] <= OpenLimit
    /\ pc[c] = "running" => stageAge[c] <= Deadline
    /\ c \in Holders => age[c] <= Deadline + (Rounds - 1) * Round + Held(c)

ClockTypes == age \in [Callers -> Nat] /\ stageAge \in [Callers -> Nat]

TimedInv == IInv /\ ClockTypes /\ AgeInv /\ QueueInv

LEMMA RoundFacts ==
  /\ N \in Nat /\ Round \in Nat \ {0} /\ MaxChannels \in Nat \ {0}
  /\ Deadline \in Nat \ {0} /\ OpenLimit \in Nat
BY CallersAssumption, FS_CardinalityType, DeadlineAssumption, MaxChannelsAssumption
DEF N, Round

LEMMA NextRound ==
  ASSUME NEW k \in Nat, NEW m \in Nat
  PROVE  k * m \in Nat /\ (k + 1) * m = k * m + m
OBVIOUS

LEMMA Monotone ==
  ASSUME NEW m \in Nat, NEW a \in Nat, NEW b \in Nat, a <= b
  PROVE  a * m <= b * m
OBVIOUS

LEMMA AllRounds ==
  ASSUME NEW k \in Nat, k * MaxChannels < N
  PROVE  Rounds \in Nat /\ k + 1 <= Rounds
<1> DEFINE a == N + MaxChannels - 1
           q == a \div MaxChannels
<1>1. a \in Nat /\ (k + 1) * MaxChannels <= a
  BY RoundFacts, NextRound
<1>2. q \in Nat /\ a < (q + 1) * MaxChannels
  <2> HIDE DEF a
  <2> QED
    BY <1>1, RoundFacts
<1>3. k + 1 <= q
  <2>1. ASSUME q < k + 1 PROVE FALSE
    <3>1. q + 1 <= k + 1
      BY <2>1, <1>2
    <3> HIDE DEF q
    <3>2. (q + 1) * MaxChannels <= (k + 1) * MaxChannels
      BY <3>1, <1>2, RoundFacts, Monotone
    <3>3. (q + 1) * MaxChannels \in Int /\ (k + 1) * MaxChannels \in Int
      BY <1>2, RoundFacts
    <3> HIDE DEF a
    <3> QED
      BY <1>1, <1>2, <3>2, <3>3
  <2> HIDE DEF q
  <2> QED
    BY <1>2, <2>1
<1> QED
  BY <1>2, <1>3 DEF Rounds, N

LEMMA RoundsPositive ==
  ASSUME NEW c \in Callers
  PROVE  Rounds \in Nat \ {0} /\ (Rounds - 1) * Round \in Nat
<1>1. N > 0
  BY CallersAssumption, FS_EmptySet, FS_CardinalityType DEF N
<1>2. Rounds \in Nat /\ 1 <= Rounds
  BY <1>1, RoundFacts, AllRounds
<1> HIDE DEF Rounds
<1> QED
  BY <1>2, RoundFacts

LEMMA SinceFinite ==
  ASSUME NEW s, NEW start
  PROVE  /\ IsFiniteSet(Since(s, start)) /\ Cardinality(Since(s, start)) \in Nat
         /\ Cardinality(Since(s, start)) <= Cardinality(Holders)
BY HoldersFinite, FS_Subset, FS_CardinalityType DEF Since

LEMMA SinceFiniteNext ==
  ASSUME NEW s, NEW start
  PROVE  LET S == {h \in Holders' : Held(h)' + start >= s}
         IN IsFiniteSet(S) /\ Cardinality(S) \in Nat /\ Cardinality(S) <= Cardinality(Holders')
<1> DEFINE S == {h \in Holders' : Held(h)' + start >= s}
<1>1. S \in SUBSET Holders'
  OBVIOUS
<1> HIDE DEF S
<1>2. IsFiniteSet(S) /\ Cardinality(S) \in Nat /\ Cardinality(S) <= Cardinality(Holders')
  BY <1>1, HoldersFiniteNext, FS_Subset, FS_CardinalityType
<1> QED
  BY <1>2 DEF S

(* Nobody waits for all the rounds it takes to serve every call.           *)
LEMMA WaitBounded ==
  ASSUME IInv, ClockTypes, QueueInv, NEW i \in 1..Len(waiters)
  PROVE  /\ stageAge[waiters[i]] \in Nat
         /\ stageAge[waiters[i]] <= (Rounds - 1) * Round
<1>0. waiters[i] \in Callers /\ stageAge[waiters[i]] \in Nat /\ Len(waiters) \in Nat
  BY DEF IInv, TypeOK, ClockTypes
<1>1. PICK k \in Nat : InRound(i, k * Round, k * MaxChannels)
  BY DEF QueueInv
<1> DEFINE s == stageAge[waiters[i]]
<1>2. s <= k * Round + Round /\ i + k * MaxChannels + MaxChannels <= N
  <2>1. Cardinality(Since(s, k * Round)) <= MaxChannels
        /\ Cardinality(Since(s, k * Round)) \in Nat
    BY SinceFinite, HoldersFinite, RoundFacts DEF IInv, SlotsAccounted
  <2>2. /\ s <= k * Round + Round
        /\ i + k * MaxChannels + 2 * MaxChannels <= N + Cardinality(Since(s, k * Round))
    BY <1>1 DEF InRound
  <2>3. k * MaxChannels \in Nat
    BY RoundFacts
  <2> QED
    BY <2>1, <2>2, <2>3, <1>0, RoundFacts
<1>3. k * Round \in Nat /\ (k + 1) * Round = k * Round + Round
      /\ k * MaxChannels \in Nat /\ (k + 1) * MaxChannels = k * MaxChannels + MaxChannels
  BY RoundFacts, NextRound
<1>4. k + 2 <= Rounds /\ Rounds \in Nat
  <2>1. (k + 1) * MaxChannels < N
    BY <1>0, <1>2, <1>3, RoundFacts
  <2>2. Rounds \in Nat /\ (k + 1) + 1 <= Rounds
    BY <2>1, AllRounds
  <2> HIDE DEF Rounds
  <2> QED
    BY <2>2
<1> HIDE DEF Rounds
<1>5. (k + 1) * Round <= (Rounds - 1) * Round
  BY <1>4, RoundFacts, Monotone
<1>6. (Rounds - 1) * Round \in Int
  BY <1>4, RoundFacts
<1> QED
  BY <1>0, <1>2, <1>3, <1>5, <1>6, RoundFacts

LEMMA HeldNat == ClockTypes => \A h \in Callers : Held(h) \in Nat
BY RoundFacts DEF ClockTypes, Held

LEMMA HeldNatNext == ClockTypes' => \A h \in Callers : Held(h)' \in Nat
BY RoundFacts DEF ClockTypes, Held

(* A call that moves up in the queue by as many places as others have been *)
(* handed a slot stays in the round it is in.                              *)
LEMMA StaysInRound ==
  ASSUME IInv, ClockTypes, ClockTypes', TypeOK',
         NEW i \in 1..Len(waiters), NEW j \in 1..Len(waiters'), waiters'[j] = waiters[i],
         stageAge'[waiters[i]] = stageAge[waiters[i]],
         NEW X \in SUBSET Holders, Cardinality(X) <= i - j,
         \A h \in Holders \ X : h \in Holders' /\ Held(h)' >= Held(h),
         NEW start \in Nat, NEW gone \in Nat, InRound(i, start, gone)
  PROVE  InRound(j, start, gone)'
<1> DEFINE s == stageAge[waiters[i]]
           S == Since(s, start)
           T == {h \in Holders' : Held(h)' + start >= s}
<1>1. waiters[i] \in Callers /\ s \in Nat
  <2>1. waiters[i] \in Callers
    BY DEF IInv, TypeOK
  <2> QED
    BY <2>1 DEF ClockTypes
<1>1a. /\ \A h \in Holders : Held(h) \in Nat
       /\ \A h \in Holders' : Held(h)' \in Nat
  <2>1. Holders \subseteq Callers /\ Holders' \subseteq Callers
    BY DEF Holders
  <2> QED
    BY <2>1, HeldNat, HeldNatNext
<1>2. S \subseteq T \cup X
  BY <1>1, <1>1a DEF Since
<1>3. /\ IsFiniteSet(S) /\ Cardinality(S) \in Nat
      /\ IsFiniteSet(T) /\ Cardinality(T) \in Nat
  BY SinceFinite, SinceFiniteNext
<1>4. IsFiniteSet(X) /\ Cardinality(X) \in Nat
  BY HoldersFinite, FS_Subset, FS_CardinalityType
<1>5. s <= start + Round /\ start <= s
      /\ i + gone + 2 * MaxChannels <= N + Cardinality(S)
  BY DEF InRound
<1> HIDE DEF S, T
<1>6. Cardinality(S) <= Cardinality(T) + Cardinality(X)
  <2>1. /\ IsFiniteSet(T \cup X) /\ Cardinality(T \cup X) \in Nat
        /\ Cardinality(T \cap X) \in Nat
        /\ Cardinality(T \cup X) = Cardinality(T) + Cardinality(X) - Cardinality(T \cap X)
    BY <1>3, <1>4, FS_Union, FS_Intersection, FS_CardinalityType
  <2>2. Cardinality(S) <= Cardinality(T \cup X)
    BY <1>2, <2>1, FS_Subset
  <2> QED
    BY <1>3, <1>4, <2>1, <2>2
<1>7. j + gone + 2 * MaxChannels <= N + Cardinality(T)
  <2>1. i \in Nat /\ j \in Nat
    OBVIOUS
  <2>2. PICK m \in Nat : m = 2 * MaxChannels
    BY RoundFacts
  <2>3. Cardinality(S) <= Cardinality(T) + (i - j)
    BY <1>3, <1>4, <1>6, <2>1
  <2> QED
    BY <1>3, <1>5, <2>1, <2>2, <2>3, RoundFacts
<1>8. stageAge'[waiters'[j]] = s
  OBVIOUS
<1> QED
  BY <1>5, <1>7, <1>8 DEF InRound, Since, T

LEMMA QueueFrame ==
  ASSUME IInv, ClockTypes, ClockTypes', TypeOK', QueueInv, waiters' = waiters,
         \A h \in Holders : h \in Holders' /\ Held(h)' >= Held(h),
         \A i \in 1..Len(waiters) : stageAge'[waiters[i]] = stageAge[waiters[i]]
  PROVE  QueueInv'
<1> SUFFICES ASSUME NEW i \in 1..Len(waiters)
             PROVE  \E k \in Nat : InRound(i, k * Round, k * MaxChannels)'
  BY DEF QueueInv
<1>1. PICK k \in Nat : InRound(i, k * Round, k * MaxChannels)
  BY DEF QueueInv
<1>2. k * Round \in Nat /\ k * MaxChannels \in Nat
  BY RoundFacts, NextRound
<1>3. {} \in SUBSET Holders /\ Cardinality({}) <= i - i
  BY FS_EmptySet
<1>4. InRound(i, k * Round, k * MaxChannels)'
  BY <1>1, <1>2, <1>3, StaysInRound
<1> QED
  BY <1>4

LEMMA QueueHandOver ==
  ASSUME IInv, ClockTypes, ClockTypes', TypeOK', QueueInv,
         NEW c \in Callers, FinishHandOver(c), Advance
  PROVE  QueueInv'
<1> SUFFICES ASSUME NEW j \in 1..Len(waiters')
             PROVE  \E k \in Nat : InRound(j, k * Round, k * MaxChannels)'
  BY DEF QueueInv
<1> DEFINE i == j + 1
<1>1. /\ Len(waiters) \in Nat /\ i \in 1..Len(waiters) /\ i # 1 /\ 1 \in 1..Len(waiters)
      /\ waiters'[j] = waiters[i] /\ i - j = 1 /\ waiters[1] = Head(waiters)
  BY DEF FinishHandOver, IInv, TypeOK
<1>2. waiters[i] # waiters[1] /\ waiters[i] \in Callers /\ pc[waiters[i]] = "queued"
      /\ waiters[1] \in Callers /\ pc[waiters[1]] = "queued"
  BY <1>1 DEF IInv, TypeOK, NoLostWakeup
<1>3. pc[c] \in {"opening", "running"}
  BY DEF FinishHandOver, Holders
<1>4. pc'[waiters[i]] = pc[waiters[i]]
  BY <1>1, <1>2, <1>3 DEF FinishHandOver, IInv, TypeOK
<1>5. stageAge'[waiters[i]] = stageAge[waiters[i]]
  BY <1>2, <1>4 DEF Advance
<1>6. ASSUME NEW h \in Holders \ {c} PROVE h \in Holders' /\ Held(h)' >= Held(h)
  <2>1. h \in Callers /\ h # waiters[1]
    BY <1>2 DEF Holders
  <2>2. pc'[h] = pc[h]
    BY <1>1, <2>1, <1>6 DEF FinishHandOver, IInv, TypeOK
  <2>3. stageAge'[h] = stageAge[h] /\ stageAge[h] \in Nat
    BY <2>1, <2>2 DEF Advance, ClockTypes
  <2> QED
    BY <2>1, <2>2, <2>3, <1>6, RoundFacts DEF Held, Holders
<1>7. {c} \in SUBSET Holders /\ Cardinality({c}) <= i - j
  <2>1. Cardinality({c}) = 1
    BY FS_Singleton
  <2>2. {c} \in SUBSET Holders
    BY <1>3 DEF Holders
  <2> HIDE DEF i
  <2> QED
    BY <1>1, <2>1, <2>2
<1> HIDE DEF i
<1>8. PICK k \in Nat : InRound(i, k * Round, k * MaxChannels)
  BY <1>1 DEF QueueInv
<1>9. k * Round \in Nat /\ k * MaxChannels \in Nat
  BY RoundFacts, NextRound
<1>10. InRound(j, k * Round, k * MaxChannels)'
  BY <1>1, <1>5, <1>6, <1>7, <1>8, <1>9, StaysInRound
<1> QED
  BY <1>10

(* Every call that is ahead of a new waiter, and every call that holds a   *)
(* slot, is another one of the callers.                                    *)
LEMMA QueueWait ==
  ASSUME IInv, ClockTypes, ClockTypes', TypeOK', QueueInv,
         NEW c \in Callers, AcquireWait(c), Advance
  PROVE  QueueInv'
<1>0. PICK L \in Nat : Len(waiters) = L
  BY DEF IInv, TypeOK
<1>1. /\ Len(waiters') = L + 1 /\ waiters'[L + 1] = c
      /\ \A i \in 1..L : waiters'[i] = waiters[i] /\ waiters[i] \in Callers
  BY <1>0 DEF AcquireWait, IInv, TypeOK
<1>2. /\ pc[c] = "ready" /\ pc'[c] = "queued" /\ Cardinality(Holders) = MaxChannels
      /\ \A d \in Callers \ {c} : pc'[d] = pc[d]
  BY MaxChannelsAssumption DEF AcquireWait, IInv, TypeOK, SlotsAccounted
<1>3. /\ stageAge'[c] = 0 /\ \A d \in Callers \ {c} : stageAge'[d] = stageAge[d]
  BY <1>2 DEF Advance
<1>4. \A i \in 1..L : pc[waiters[i]] = "queued"
  BY <1>0, <1>1 DEF IInv, NoLostWakeup
<1>5. Holders' = Holders
  BY <1>2 DEF Holders
<1>6. \A h \in Holders : Held(h)' >= Held(h)
  <2>1. \A h \in Holders : h \in Callers \ {c}
    BY <1>2 DEF Holders
  <2> QED
    BY <2>1, <1>2, <1>3, RoundFacts DEF Held, ClockTypes
<1>7. ASSUME NEW i \in 1..L PROVE \E k \in Nat : InRound(i, k * Round, k * MaxChannels)'
  <2>1. PICK k \in Nat : InRound(i, k * Round, k * MaxChannels)
    BY <1>0 DEF QueueInv
  <2>2. k * Round \in Nat /\ k * MaxChannels \in Nat
    BY RoundFacts, NextRound
  <2>3. {} \in SUBSET Holders /\ Cardinality({}) <= i - i
    BY <1>1, FS_EmptySet
  <2>4. stageAge'[waiters[i]] = stageAge[waiters[i]] /\ waiters'[i] = waiters[i]
        /\ i \in 1..Len(waiters) /\ i \in 1..Len(waiters')
    BY <1>0, <1>1, <1>2, <1>3, <1>4
  <2>5. InRound(i, k * Round, k * MaxChannels)'
    BY <2>1, <2>2, <2>3, <2>4, <1>5, <1>6, StaysInRound
  <2> QED
    BY <2>5
<1>8. L + 1 + MaxChannels <= N
  <2> DEFINE W == {waiters[i] : i \in 1..L}
             A == (W \cup {c}) \cup Holders
  <2>1. IsFiniteSet(W) /\ Cardinality(W) = L
    <3>1. waiters \in [1..L -> W] /\ \A w \in W : \E i \in 1..L : waiters[i] = w
      BY <1>0 DEF IInv, TypeOK
    <3>2. \A i, j \in 1..L : waiters[i] = waiters[j] => i = j
      BY <1>0 DEF IInv, NoLostWakeup
    <3> HIDE DEF W
    <3>3. waiters \in Bijection(1..L, W)
      BY <3>1, <3>2 DEF Bijection, Injection, IsInjective, Surjection
    <3>4. IsFiniteSet(1..L) /\ Cardinality(1..L) = L
      <4>1. L \in Nat /\ L \in Int /\ 1 \in Int
        OBVIOUS
      <4>2. IsFiniteSet(1..L) /\ Cardinality(1..L) = IF 1 > L THEN 0 ELSE L - 1 + 1
        BY <4>1, FS_Interval
      <4> QED
        BY <4>1, <4>2
    <3>5. ExistsBijection(1..L, W)
      BY <3>3 DEF ExistsBijection
    <3> QED
      BY <3>4, <3>5, FS_Bijection
  <2>2. c \notin W /\ W \subseteq Callers /\ (W \cup {c}) \cap Holders = {}
    BY <1>1, <1>2, <1>4 DEF Holders
  <2>3. A \in SUBSET Callers
    BY <2>2 DEF Holders
  <2> HIDE DEF W
  <2>4. IsFiniteSet(W \cup {c}) /\ Cardinality(W \cup {c}) = L + 1
    BY <2>1, <2>2, FS_AddElement
  <2>5. Cardinality(A) = L + 1 + MaxChannels
    <3>1. Cardinality(A) = Cardinality(W \cup {c}) + Cardinality(Holders)
                           - Cardinality((W \cup {c}) \cap Holders)
      BY <2>4, HoldersFinite, FS_Union
    <3>2. Cardinality((W \cup {c}) \cap Holders) = 0
      BY <2>2, FS_EmptySet
    <3> HIDE DEF A
    <3> QED
      BY <3>1, <3>2, <2>4, <1>2, RoundFacts
  <2> HIDE DEF A
  <2> QED
    BY <2>3, <2>5, CallersAssumption, FS_Subset DEF N
<1>9. InRound(L + 1, 0 * Round, 0 * MaxChannels)'
  <2>1. {h \in Holders : Held(h)' + 0 >= 0} = Holders
    <3>1. \A h \in Holders : h \in Callers \ {c}
      BY <1>2 DEF Holders
    <3> QED
      BY <3>1, RoundFacts DEF Held, ClockTypes
  <2>2. 0 * Round = 0 /\ 0 * MaxChannels = 0
    BY RoundFacts
  <2>3. L + 1 + 0 + 2 * MaxChannels <= N + Cardinality({h \in Holders' : Held(h)' + 0 >= 0})
    <3>1. Cardinality({h \in Holders' : Held(h)' + 0 >= 0}) = MaxChannels
      BY <2>1, <1>2, <1>5
    <3> QED
      BY <3>1, <1>1, <1>8, RoundFacts
  <2> QED
    BY <2>2, <2>3, <1>1, <1>3, RoundFacts DEF InRound, Since
<1> QED
  <2> SUFFICES ASSUME NEW i \in 1..(L + 1)
               PROVE  \E k \in Nat : InRound(i, k * Round, k * MaxChannels)'
    BY <1>1 DEF QueueInv
  <2>1. i \in 1..L \/ i = L + 1
    BY <1>1
  <2>2. CASE i = L + 1
    BY <2>2, <1>9
  <2> QED
    BY <2>1, <2>2, <1>7

(* When a round of its wait is over, all slots have been given up since it *)
(* began: none has been held for as long as the round took.                *)
LEMMA QueueTick ==
  ASSUME IInv, ClockTypes, AgeInv, QueueInv, Tick
  PROVE  QueueInv'
<1> SUFFICES ASSUME NEW i \in 1..Len(waiters)
             PROVE  \E k \in Nat : InRound(i, k * Round, k * MaxChannels)'
  BY DEF QueueInv, Tick, vars
<1>0. PICK w \in Callers : w = waiters[i] /\ w = waiters'[i] /\ pc[w] = "queued"
  BY DEF IInv, TypeOK, NoLostWakeup, Tick, vars
<1>1. PICK s \in Nat : s = stageAge[w] /\ stageAge'[w] = s + 1
  BY <1>0 DEF Tick, ClockTypes
<1>2. Holders' = Holders /\ Cardinality(Holders) = MaxChannels /\ pc' = pc
  <2>1. waiters # <<>>
    BY DEF IInv, TypeOK
  <2> QED
    BY <2>1 DEF Tick, vars, Holders, IInv, NoLostWakeup, SlotsAccounted
<1>3. \A h \in Holders : Held(h) \in Nat /\ Held(h)' = Held(h) + 1 /\ Held(h) < Round
  <2> SUFFICES ASSUME NEW h \in Holders
               PROVE  Held(h) \in Nat /\ Held(h)' = Held(h) + 1 /\ Held(h) < Round
    OBVIOUS
  <2>1. h \in Callers /\ pc[h] \in {"opening", "running"} /\ stageAge[h] \in Nat
    BY DEF Holders, ClockTypes
  <2>2. stageAge'[h] = stageAge[h] + 1
    BY <2>1 DEF Tick
  <2>3. IF pc[h] = "opening" THEN stageAge[h] < OpenLimit ELSE stageAge[h] < Deadline
    BY <2>1, RoundFacts DEF Tick, Due
  <2> QED
    BY <1>2, <2>1, <2>2, <2>3, RoundFacts DEF Held, Round
<1>4. PICK k \in Nat : InRound(i, k * Round, k * MaxChannels)
  BY DEF QueueInv
<1>5. PICK a \in Nat, b \in Nat :
        /\ a = k * Round /\ a + Round = (k + 1) * Round
        /\ b = k * MaxChannels /\ b + MaxChannels = (k + 1) * MaxChannels
  BY RoundFacts, NextRound
<1>6. /\ a <= s /\ s <= a + Round
      /\ i + b + 2 * MaxChannels <= N + Cardinality(Since(s, a))
  BY <1>0, <1>1, <1>4, <1>5 DEF InRound
<1>7. CASE s < a + Round
  <2>1. {h \in Holders' : Held(h)' + a >= s + 1} = Since(s, a)
    BY <1>2, <1>3 DEF Since
  <2>2. /\ a <= s + 1 /\ s + 1 <= a + Round
        /\ i + b + 2 * MaxChannels
             <= N + Cardinality({h \in Holders' : Held(h)' + a >= s + 1})
    <3>1. Cardinality({h \in Holders' : Held(h)' + a >= s + 1}) = Cardinality(Since(s, a))
      BY <2>1
    <3> QED
      BY <1>6, <1>7, <3>1, RoundFacts
  <2>3. InRound(i, a, b)'
    BY <1>0, <1>1, <2>2 DEF InRound, Since
  <2>4. InRound(i, k * Round, k * MaxChannels)'
    BY <2>3, <1>5
  <2> QED
    BY <2>4
<1>8. CASE s = a + Round
  <2>1. Cardinality(Since(s, a)) = 0
    <3>1. Since(s, a) = {}
      BY <1>3, <1>8, RoundFacts DEF Since
    <3> QED
      BY <3>1, FS_EmptySet
  <2>2. {h \in Holders' : Held(h)' + (a + Round) >= s + 1} = Holders
    BY <1>2, <1>3, <1>8, RoundFacts
  <2>3. i + (b + MaxChannels) + 2 * MaxChannels
          <= N + Cardinality({h \in Holders' : Held(h)' + (a + Round) >= s + 1})
    <3>1. Cardinality({h \in Holders' : Held(h)' + (a + Round) >= s + 1}) = MaxChannels
      BY <2>2, <1>2
    <3>2. i \in Nat
      BY DEF IInv, TypeOK
    <3> QED
      BY <3>1, <3>2, <2>1, <1>6, RoundFacts
  <2>4. InRound(i, a + Round, b + MaxChannels)'
    BY <1>0, <1>1, <1>8, <2>3, RoundFacts DEF InRound, Since
  <2>5. InRound(i, (k + 1) * Round, (k + 1) * MaxChannels)'
    BY <2>4, <1>5
  <2>6. k + 1 \in Nat
    OBVIOUS
  <2> QED
    BY <2>5, <2>6
<1> QED
  BY <1>6, <1>7, <1>8, RoundFacts

(* A step of the executor, timed: everything but the ticks.                *)
Untimed ==
  /\ Advance
  /\ \/ \E c \in Callers :
          \/ \E k \in Conns : CallOpen(c, k)
          \/ CallLive(c) \/ CallJoin(c) \/ ConnectTimeout(c)
          \/ AcquireSlot(c) \/ AcquireWait(c) \/ ExecOpened(c) \/ Finish(c)
     \/ \E k \in Conns : ConnNext(k)
     \/ IdleDisconnect

LEMMA TimedSteps ==
  /\ TimedNext => Tick \/ Untimed
  /\ Untimed => Next
  /\ [TimedNext]_timedVars => [Next]_vars
<1>1. TimedNext => Tick \/ Untimed
  BY Zenon DEF TimedNext, Untimed
<1>2. Untimed => Next
  BY Zenon DEF Untimed, Next, CallerNext
<1>3. Tick => UNCHANGED vars
  BY DEF Tick
<1>4. UNCHANGED timedVars => UNCHANGED vars
  BY DEF timedVars
<1> QED
  BY <1>1, <1>2, <1>3, <1>4, Zenon

(* The executor with its deadlines implements the one whose timers may     *)
(* fire at any time, so that what is proved of that one holds for it.      *)
THEOREM TimedIsExecutor == TimedSpec => Spec
<1>1. TimedInit => Init
  BY DEF TimedInit
<1> QED
  BY <1>1, TimedSteps, PTL DEF TimedSpec, Spec

LEMMA ClockStep == TypeOK /\ ClockTypes /\ [TimedNext]_timedVars => ClockTypes'
<1> SUFFICES ASSUME TypeOK, ClockTypes, [TimedNext]_timedVars PROVE ClockTypes'
  OBVIOUS
<1>1. Tick => ClockTypes'
  BY DEF Tick, ClockTypes
<1>2. Advance => ClockTypes'
  BY DEF Advance, ClockTypes
<1>3. UNCHANGED timedVars => ClockTypes'
  BY DEF timedVars, ClockTypes
<1> QED
  BY <1>1, <1>2, <1>3, TimedSteps DEF Untimed

LEMMA QueueStep ==
  ASSUME IInv, IInv', ClockTypes, ClockTypes', AgeInv, QueueInv, [TimedNext]_timedVars
  PROVE  QueueInv'
<1>0. /\ pc \in [Callers -> Stage] /\ TypeOK' /\ pc' \in [Callers -> Stage]
      /\ waiters \in Seq(Callers)
      /\ \A i \in 1..Len(waiters) : waiters[i] \in Callers /\ pc[waiters[i]] = "queued"
  BY DEF IInv, TypeOK, NoLostWakeup
<1>1. ASSUME Advance, waiters' = waiters,
             \A c \in Callers : pc[c] \in {"queued", "opening", "running"} =>
               pc'[c] = pc[c] \/ (pc[c] = "opening" /\ pc'[c] = "running")
      PROVE  QueueInv'
  <2>1. ASSUME NEW h \in Holders PROVE h \in Holders' /\ Held(h)' >= Held(h)
    <3>1. h \in Callers /\ pc[h] \in {"opening", "running"} /\ stageAge[h] \in Nat
      BY DEF Holders, ClockTypes
    <3>2. h \in Holders'
      BY <1>1, <3>1 DEF Holders
    <3>3. CASE pc'[h] = pc[h]
      BY <1>1, <3>1, <3>2, <3>3, RoundFacts DEF Advance, Held
    <3>4. CASE pc[h] = "opening" /\ pc'[h] = "running"
      <4>1. stageAge[h] <= OpenLimit
        BY <3>1, <3>4 DEF AgeInv
      <4> QED
        BY <1>1, <3>1, <3>2, <3>4, <4>1, RoundFacts DEF Advance, Held
    <3> QED
      BY <1>1, <3>1, <3>3, <3>4
  <2>2. \A i \in 1..Len(waiters) : stageAge'[waiters[i]] = stageAge[waiters[i]]
    BY <1>0, <1>1 DEF Advance
  <2> QED
    BY <1>0, <1>1, <2>1, <2>2, QueueFrame
<1>2. ASSUME waiters' = <<>> PROVE QueueInv'
  BY <1>2 DEF QueueInv
<1>3. ASSUME NEW c \in Callers, Advance,
             CallLive(c) \/ CallJoin(c) \/ (\E k \in Conns : CallOpen(c, k))
               \/ ConnectTimeout(c) \/ ExecOpened(c)
      PROVE  QueueInv'
  BY <1>0, <1>1, <1>3 DEF CallLive, CallJoin, CallOpen, ConnectTimeout, ExecOpened
<1>4. ASSUME NEW c \in Callers, Advance, AcquireSlot(c) PROVE QueueInv'
  BY <1>0, <1>1, <1>4 DEF AcquireSlot
<1>5. ASSUME NEW c \in Callers, Advance, FinishFree(c) PROVE QueueInv'
  BY <1>2, <1>5 DEF FinishFree
<1>6. ASSUME NEW c \in Callers, Advance, AcquireWait(c) \/ FinishHandOver(c) PROVE QueueInv'
  BY <1>0, <1>6, QueueWait, QueueHandOver
<1>7. ASSUME NEW k \in Conns, Advance, ConnNext(k) PROVE QueueInv'
  BY <1>0, <1>1, <1>7 DEF ConnNext, ConnectOk, ConnectFail, ErrorEvent, CloseEvent
<1>8. CASE Advance /\ IdleDisconnect
  BY <1>0, <1>1, <1>8 DEF IdleDisconnect
<1>9. CASE Tick
  BY <1>9, QueueTick
<1>10. CASE UNCHANGED timedVars
  <2>1. UNCHANGED <<pc, waiters, stageAge>>
    BY <1>10 DEF timedVars, vars
  <2>2. \A h \in Holders : h \in Holders' /\ Held(h)' = Held(h) /\ Held(h) \in Nat
    <3>1. \A h \in Holders : stageAge[h] \in Nat
      BY DEF Holders, ClockTypes
    <3> QED
      BY <2>1, <3>1, RoundFacts DEF Holders, Held
  <2>3. \A h \in Holders : h \in Holders' /\ Held(h)' >= Held(h)
    BY <2>2
  <2> QED
    BY <1>0, <2>1, <2>3, QueueFrame
<1> QED
  BY <1>3, <1>4, <1>5, <1>6, <1>7, <1>8, <1>9, <1>10, TimedSteps DEF Untimed, Finish

LEMMA AgeStep ==
  ASSUME IInv, IInv', ClockTypes, AgeInv, QueueInv, [TimedNext]_timedVars
  PROVE  AgeInv'
<1> DEFINE Ages(c) ==
      /\ pc[c] = "idle" => age[c] = 0
      /\ pc[c] = "connecting" => age[c] <= stageAge[c] /\ stageAge[c] <= Deadline
      /\ pc[c] = "ready" => age[c] <= Deadline
      /\ pc[c] = "queued" => age[c] <= Deadline + stageAge[c]
      /\ pc[c] = "opening" => stageAge[c] <= OpenLimit
      /\ pc[c] = "running" => stageAge[c] <= Deadline
      /\ c \in Holders => age[c] <= Deadline + (Rounds - 1) * Round + Held(c)
<1>0. /\ \A c \in Callers : Ages(c)
      /\ pc \in [Callers -> Stage] /\ pc' \in [Callers -> Stage]
      /\ \A c \in Callers : age[c] \in Nat /\ stageAge[c] \in Nat
  BY DEF AgeInv, IInv, TypeOK, ClockTypes
<1> SUFFICES ASSUME NEW c \in Callers PROVE Ages(c)'
  BY DEF AgeInv
<1>00. PICK B \in Nat : B = (Rounds - 1) * Round
  BY RoundsPositive
<1> HIDE DEF Rounds
<1>1. CASE pc'[c] = pc[c] /\ age'[c] = age[c] /\ stageAge'[c] = stageAge[c]
  BY <1>0, <1>1 DEF Holders, Held
<1>2. CASE pc'[c] = "idle" /\ Advance
  BY <1>2 DEF Holders, Advance
<1>3. CASE Tick
  <2>1. /\ pc' = pc /\ pc[c] # "ready" /\ ~Due(c)
        /\ pc[c] # "idle" => age'[c] = age[c] + 1 /\ stageAge'[c] = stageAge[c] + 1
        /\ pc[c] = "idle" => age'[c] = 0
    BY <1>3 DEF Tick, vars, Quiet
  <2> QED
    BY <2>1, <1>0, <1>00, RoundFacts DEF Holders, Held, Due
<1>4. CASE Advance /\ pc[c] = "idle" /\ pc'[c] \in {"connecting", "ready"}
  BY <1>0, <1>4, RoundFacts DEF Advance, Holders
<1>5. CASE Advance /\ pc[c] = "connecting" /\ pc'[c] = "ready"
  BY <1>0, <1>5, RoundFacts DEF Advance, Holders
<1>6. CASE Advance /\ pc[c] = "ready" /\ pc'[c] = "queued"
  BY <1>0, <1>6, RoundFacts DEF Advance, Holders
<1>7. CASE Advance /\ pc[c] = "ready" /\ pc'[c] = "opening"
  BY <1>0, <1>00, <1>7, RoundFacts DEF Advance, Holders, Held
<1>8. CASE Advance /\ pc[c] = "opening" /\ pc'[c] = "running"
  BY <1>0, <1>00, <1>8, RoundFacts DEF Advance, Holders, Held
<1>9. CASE Advance /\ pc[c] = "queued" /\ pc'[c] = "opening" /\ waiters # <<>> /\ c = Head(waiters)
  <2>1. 1 \in 1..Len(waiters) /\ waiters[1] = c
    BY <1>9 DEF IInv, TypeOK
  <2>2. stageAge[c] <= B
    BY <2>1, <1>00, WaitBounded
  <2> QED
    BY <2>2, <1>0, <1>00, <1>9, RoundFacts DEF Advance, Holders, Held
<1>10. CASE Advance /\ pc'[c] = pc[c]
  <2>1. stageAge'[c] = stageAge[c] /\ age'[c] = IF pc[c] = "idle" THEN 0 ELSE age[c]
    BY <1>10 DEF Advance
  <2> QED
    BY <2>1, <1>0, <1>1, <1>10
<1>11. CASE Untimed
  <2>1. Advance
    BY <1>11 DEF Untimed
  <2>2. ASSUME NEW d \in Callers,
               \/ \E k \in Conns : CallOpen(d, k)
               \/ CallLive(d) \/ CallJoin(d) \/ ConnectTimeout(d)
               \/ AcquireSlot(d) \/ AcquireWait(d) \/ ExecOpened(d) \/ FinishFree(d)
        PROVE  Ages(c)'
    <3>1. \/ pc'[c] = pc[c] \/ pc'[c] = "idle"
          \/ pc[c] = "idle" /\ pc'[c] \in {"connecting", "ready"}
          \/ pc[c] = "ready" /\ pc'[c] \in {"queued", "opening"}
          \/ pc[c] = "opening" /\ pc'[c] = "running"
      BY <1>0, <2>2 DEF CallOpen, CallLive, CallJoin, ConnectTimeout, AcquireSlot, AcquireWait,
         ExecOpened, FinishFree
    <3> QED
      BY <2>1, <3>1, <1>2, <1>4, <1>6, <1>7, <1>8, <1>10
  <2>3. ASSUME NEW d \in Callers, FinishHandOver(d) PROVE Ages(c)'
    <3>1. /\ Head(waiters) \in Callers /\ pc[Head(waiters)] = "queued" /\ waiters # <<>>
          /\ pc' = [pc EXCEPT ![d] = "idle", ![Head(waiters)] = "opening"]
      BY <2>3, HeadIsQueued DEF FinishHandOver, IInv
    <3>2. \/ pc'[c] = pc[c] \/ pc'[c] = "idle"
          \/ pc[c] = "queued" /\ pc'[c] = "opening" /\ waiters # <<>> /\ c = Head(waiters)
      BY <1>0, <3>1
    <3> QED
      BY <2>1, <3>2, <1>2, <1>9, <1>10
  <2>4. ASSUME NEW k \in Conns, ConnNext(k) PROVE Ages(c)'
    <3>1. \/ pc'[c] = pc[c] \/ pc'[c] = "idle"
          \/ pc[c] = "connecting" /\ pc'[c] = "ready"
      BY <1>0, <2>4 DEF ConnNext, ConnectOk, ConnectFail, ErrorEvent, CloseEvent
    <3> QED
      BY <2>1, <3>1, <1>2, <1>5, <1>10
  <2>5. CASE IdleDisconnect
    BY <2>1, <2>5, <1>10 DEF IdleDisconnect
  <2> QED
    BY <1>11, <2>2, <2>3, <2>4, <2>5 DEF Untimed, Finish
<1>12. CASE UNCHANGED timedVars
  BY <1>1, <1>12 DEF timedVars, vars
<1> QED
  BY <1>3, <1>11, <1>12, TimedSteps

LEMMA TimedInvInit == TimedInit => TimedInv
<1> SUFFICES ASSUME TimedInit PROVE TimedInv
  OBVIOUS
<1>1. Init
  BY DEF TimedInit
<1>2. IInv
  BY <1>1, TypeInit, ConnInit, SlotInit DEF IInv, ConnInv, SlotInv, TimerMeansIdle, Init
<1>3. ClockTypes /\ AgeInv /\ QueueInv
  BY <1>1 DEF TimedInit, Init, ClockTypes, AgeInv, QueueInv, Holders
<1> QED
  BY <1>2, <1>3 DEF TimedInv

LEMMA TimedInvStep == TimedInv /\ [TimedNext]_timedVars => TimedInv'
<1> SUFFICES ASSUME TimedInv, [TimedNext]_timedVars PROVE TimedInv'
  OBVIOUS
<1>1. IInv'
  BY Inductive, TimedSteps DEF TimedInv
<1>2. ClockTypes'
  BY ClockStep DEF TimedInv, IInv
<1> QED
  BY <1>1, <1>2, AgeStep, QueueStep DEF TimedInv

(* A call returns within one deadline to connect and as many rounds of a   *)
(* channel request and a command as there are groups of MaxChannels calls, *)
(* however many calls there are and in whatever order they come.           *)
THEOREM CallsBounded == TimedSpec => []BoundedCall
<1>1. TimedInv => BoundedCall
  <2> SUFFICES ASSUME TimedInv, NEW c \in Callers, pc[c] # "idle"
               PROVE  age[c] <= Deadline + Rounds * (OpenLimit + Deadline)
    BY DEF BoundedCall
  <2>0. pc[c] \in Stage /\ age[c] \in Nat /\ stageAge[c] \in Nat
    BY DEF TimedInv, IInv, TypeOK, ClockTypes
  <2>1. Rounds \in Nat \ {0} /\ (Rounds - 1) * Round \in Nat
    BY RoundsPositive
  <2> HIDE DEF Rounds
  <2>2. PICK B \in Nat : B = (Rounds - 1) * Round /\ B + Round = Rounds * Round
    <3>1. ((Rounds - 1) + 1) * Round = (Rounds - 1) * Round + Round
      BY <2>1, RoundFacts, NextRound
    <3>2. (Rounds - 1) + 1 = Rounds
      BY <2>1
    <3> QED
      BY <2>1, <3>1, <3>2
  <2>3. age[c] <= Deadline + (B + Round)
    <3>1. CASE pc[c] = "queued"
      <4>1. PICK i \in 1..Len(waiters) : waiters[i] = c
        BY <3>1 DEF TimedInv, IInv, NoLostWakeup
      <4>2. stageAge[c] <= B
        BY <4>1, <2>2, WaitBounded DEF TimedInv
      <4> QED
        BY <2>0, <3>1, <4>2, RoundFacts DEF TimedInv, AgeInv
    <3>2. CASE pc[c] \in {"opening", "running"}
      BY <2>0, <2>2, <3>2, RoundFacts DEF TimedInv, AgeInv, Holders, Held, Round
    <3>3. CASE pc[c] \in {"connecting", "ready"}
      BY <2>0, <3>3, RoundFacts DEF TimedInv, AgeInv
    <3> QED
      BY <2>0, <3>1, <3>2, <3>3 DEF Stage
  <2>4. Rounds * Round = Rounds * (OpenLimit + Deadline)
    BY DEF Round
  <2> QED
    BY <2>2, <2>3, <2>4
<1> QED
  BY <1>1, TimedInvInit, TimedInvStep, PTL DEF TimedSpec

=============================================================================
