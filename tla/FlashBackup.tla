------------------------------ MODULE FlashBackup ------------------------------
(***************************************************************************)
(* flash_backup (src/tools/backup/flash-backup.ts): probe the share, write *)
(* an archive, verify it, prune older ones, one remote command after the   *)
(* other.  Calls overlap, and a command the call gave up on (a deadline, a *)
(* lost connection) may still be running on the host.                      *)
(*                                                                         *)
(* All calls use one share; each writes an archive of its own, since names *)
(* carry the second of the call.  `ls -t` orders by time of last writing,  *)
(* so that the directory is the set of archives and that order.            *)
(***************************************************************************)
EXTENDS Naturals, FiniteSets

CONSTANTS
  Calls,   \* invocations of the tool
  Keeps    \* values of `keep`; 0 stands for undefined

ASSUME CallsAssumption == IsFiniteSet(Calls)
ASSUME KeepsAssumption == Keeps \subseteq Nat

VARIABLES
  pc,        \* where each call is in runBackup
  keep,      \* its argument
  file,      \* its archive on the host
  tar,       \* whether its tar is running on the host
  rm,        \* victims of an rm that is yet to run on the host
  newer,     \* <<u, v>>: u was written after v
  unsettled  \* history: some listing saw an unfinished archive

vars == <<pc, keep, file, tar, rm, newer, unsettled>>

Stage == {"idle", "archiving", "verifying", "listing", "pruning",
          "reported", "failed"}
File == {"none", "partial", "complete", "removed"}

Init ==
  /\ pc = [b \in Calls |-> "idle"]
  /\ keep \in [Calls -> Keeps]
  /\ file = [b \in Calls |-> "none"]
  /\ tar = [b \in Calls |-> FALSE]
  /\ rm = [b \in Calls |-> {}]
  /\ newer = {}
  /\ unsettled = FALSE

Goto(b, stage) == pc' = [pc EXCEPT ![b] = stage]

(* The archives in the directory.                                          *)
Listed == {b \in Calls : file[b] \in {"partial", "complete"}}

(* The file system (external): b's archive becomes the newest.             *)
Written(b) ==
  newer' = ({b} \X (Calls \ {b})) \union {p \in newer : p[2] # b}

-----------------------------------------------------------------------------
(* runBackup, pruneOlder                                                   *)

(* The probe, or mkdir, fails: nothing is written.                         *)
ProbeFails(b) ==
  /\ pc[b] = "idle"
  /\ Goto(b, "failed")
  /\ UNCHANGED <<keep, file, tar, rm, newer, unsettled>>

StartArchive(b) ==
  /\ pc[b] = "idle"
  /\ Goto(b, "archiving")
  /\ file' = [file EXCEPT ![b] = "partial"]
  /\ tar' = [tar EXCEPT ![b] = TRUE]
  /\ Written(b)
  /\ UNCHANGED <<keep, rm, unsettled>>

(* The exit code of tar reaches the call, unless it has given up.          *)
TarExits(b, next) == Goto(b, IF pc[b] = "archiving" THEN next ELSE pc[b])

AnyExitIsWarning(b) == TarExits(b, "verifying")  \* fault: exit 2 tolerated

HardFailure(b) == TarExits(b, "failed")

(* tar -tzf into wc, then stat: the exit code tells only whether there is  *)
(* an archive of that name.                                                *)
Verify(b) ==
  /\ pc[b] = "verifying"
  /\ Goto(b, CASE file[b] = "removed" -> "failed"
               [] file[b] # "removed" /\ keep[b] = 0 -> "reported"
               [] OTHER -> "listing")
  /\ UNCHANGED <<keep, file, tar, rm, newer, unsettled>>

Newer(v) == {u \in Listed : <<u, v>> \in newer}

PrunesFromKeep(n) ==  \* fault: TAIL_OFFSET 0
  {v \in Listed : Cardinality(Newer(v)) + 1 >= n}

LineNumbers(n) == n + 1..Cardinality(Listed)  \* fault: positions, not paths

(* tail -n +(keep + 1): those with at least `keep` newer ones.             *)
Beyond(n) == {v \in Listed : Cardinality(Newer(v)) >= n}

PruneOlder(b) ==
  /\ pc[b] = "listing"
  /\ rm' = [rm EXCEPT ![b] = Beyond(keep[b])]
  /\ Goto(b, IF Beyond(keep[b]) = {} THEN "reported" ELSE "pruning")
  /\ unsettled' = (unsettled \/ \E v \in Listed : file[v] = "partial")
  /\ UNCHANGED <<keep, file, tar, newer>>

(* shell.execute throws: the call fails, the host goes on.                 *)
GiveUp(b) ==
  /\ pc[b] \in {"archiving", "verifying", "listing", "pruning"}
  /\ Goto(b, "failed")
  /\ UNCHANGED <<keep, file, tar, rm, newer, unsettled>>

-----------------------------------------------------------------------------
(* The host (external)                                                     *)

(* tar writes: its archive, unlinked or not, becomes the newest.           *)
TarWrites(b) ==
  /\ tar[b]
  /\ Written(b)
  /\ UNCHANGED <<pc, keep, file, tar, rm, unsettled>>

(* Exit 0, or 1: "file changed as we read it".                             *)
TarSucceeds(b) ==
  /\ tar[b]
  /\ tar' = [tar EXCEPT ![b] = FALSE]
  /\ file' = [file EXCEPT ![b] = IF @ = "partial" THEN "complete" ELSE @]
  /\ Written(b)
  /\ TarExits(b, "verifying")
  /\ UNCHANGED <<keep, rm, unsettled>>

TarFails(b) ==
  /\ tar[b]
  /\ tar' = [tar EXCEPT ![b] = FALSE]
  /\ HardFailure(b)
  /\ UNCHANGED <<keep, file, rm, newer, unsettled>>

(* rm -f: its victims, those that are still there, go.                     *)
RmRuns(b) ==
  /\ rm[b] # {}
  /\ rm' = [rm EXCEPT ![b] = {}]
  /\ file' = [v \in Calls |-> IF v \in rm[b] THEN "removed" ELSE file[v]]
  /\ Goto(b, IF pc[b] = "pruning" THEN "reported" ELSE pc[b])
  /\ UNCHANGED <<keep, tar, newer, unsettled>>

Next ==
  \E b \in Calls :
    \/ ProbeFails(b) \/ StartArchive(b) \/ Verify(b) \/ PruneOlder(b) \/ GiveUp(b)
    \/ TarWrites(b) \/ TarSucceeds(b) \/ TarFails(b) \/ RmRuns(b)

Spec == Init /\ [][Next]_vars

-----------------------------------------------------------------------------
(* Every variable has its type, and `ls -t` has an order for the archives  *)
(* that are there.                                                         *)
TypeOK ==
  /\ pc \in [Calls -> Stage]
  /\ keep \in [Calls -> Keeps]
  /\ file \in [Calls -> File]
  /\ tar \in [Calls -> BOOLEAN]
  /\ rm \in [Calls -> SUBSET Calls]
  /\ newer \subseteq Calls \X Calls
  /\ \A u, v \in Listed : u # v => (<<u, v>> \in newer <=> <<v, u>> \notin newer)
  /\ unsettled \in BOOLEAN

(* A backup that is reported as written and verified is not a partial      *)
(* archive: the exit code of tar sees to that, the verification does not.  *)
ReportedIsComplete ==
  \A b \in Calls : pc[b] = "reported" => file[b] \in {"complete", "removed"}

(* Pruning, by however many calls at once and from listings however old,   *)
(* leaves a complete archive, as long as no listing has seen one that was  *)
(* unfinished.                                                             *)
PruningKeepsOne ==
  ~unsettled /\ (\E b \in Calls : pc[b] = "reported")
    => \E b \in Calls : file[b] = "complete"

(* "`keep: N` prunes older archives" (tool description): a call never      *)
(* prunes the archive it has just written, and then reports.               *)
OwnArchiveKept == \A b \in Calls : b \notin rm[b]
=============================================================================
