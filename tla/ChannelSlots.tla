----------------------------- MODULE ChannelSlots -----------------------------
(***************************************************************************)
(* What the executor promises about channels ("a bounded number of         *)
(* concurrent exec channels", src/shell/executor.ts): a semaphore with a   *)
(* first-come-first-served queue that nobody can overtake.  There is no    *)
(* counter here: the holders themselves are counted, and a slot that is    *)
(* given up passes to the oldest waiter in the same step.                  *)
(***************************************************************************)
EXTENDS Naturals, Sequences, FiniteSets

CONSTANTS
  Users,   \* who may hold a slot
  Slots    \* how many slots there are

VARIABLES
  holders,  \* the set of users that hold a slot
  queue     \* the users waiting for one, oldest first

vars == <<holders, queue>>

InQueue(u) == \E i \in 1..Len(queue) : queue[i] = u

Init == holders = {} /\ queue = <<>>

(* A newcomer is served at once only when a slot is free, and a slot is    *)
(* never free while somebody waits.                                        *)
Take(u) ==
  /\ u \notin holders
  /\ queue = <<>>
  /\ Cardinality(holders) < Slots
  /\ holders' = holders \union {u}
  /\ UNCHANGED queue

Wait(u) ==
  /\ u \notin holders
  /\ ~InQueue(u)
  /\ Cardinality(holders) = Slots
  /\ queue' = Append(queue, u)
  /\ UNCHANGED holders

Give(u) ==
  /\ u \in holders
  /\ \/ /\ queue = <<>>
        /\ holders' = holders \ {u}
        /\ UNCHANGED queue
     \/ /\ queue # <<>>
        /\ holders' = (holders \ {u}) \union {Head(queue)}
        /\ queue' = Tail(queue)

Next == \E u \in Users : Take(u) \/ Wait(u) \/ Give(u)

Spec == Init /\ [][Next]_vars
=============================================================================
