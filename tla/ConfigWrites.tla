------------------------------ MODULE ConfigWrites ------------------------------
(***************************************************************************)
(* The tools that read a whole configuration, merge their changes into it  *)
(* and write all of it back: share_create, share_edit and share_delete     *)
(* (src/tools/share, over SSH through emhttpd's forms) and                 *)
(* docker_autostart_set (src/tools/docker/autostart-set.ts, over the API). *)
(* Consent and the wording of replies are in ToolCalls.                    *)
(***************************************************************************)
EXTENDS Naturals, Sequences, FiniteSets

CONSTANTS
  Calls,       \* tool calls, all on one share or on the autostart list
  Containers,  \* the containers, in the order in which the API lists them
  MaxUi        \* bound on the changes made in the web UI meanwhile

ASSUME MaxUiAssumption == MaxUi \in Nat

(* One setting of each kind: changeable in the share's form, only carried  *)
(* through it, and changeable in the form of its SMB settings.             *)
Fields == {"shareComment", "shareFloor", "shareExport"}
EDIT_FIELDS == {"shareComment", "shareFloor"}
SMB_FIELDS == {"shareExport"}
Settings == {"shareComment", "shareExport"}

CREATE_DEFAULTS == [f \in Fields |-> 0]
Absent == [f \in {} |-> 0]
Cfgs == [Fields -> {0, 1}]

(* What is asked for is 1, and may be what there is.                       *)
Changes == UNION {[S -> {1}] : S \in SUBSET Settings}

Ids == {Containers[i] : i \in DOMAIN Containers}

ASSUME ContainersAssumption ==
  /\ Containers \in Seq(Ids)
  /\ \A i, j \in DOMAIN Containers : Containers[i] = Containers[j] => i = j

(* autoStartOrder of each container; 0 is null, for those with autoStart   *)
(* false.  The others are numbered without gaps.                           *)
Started(order) == {id \in Ids : order[id] # 0}
NoneStarted == [id \in Ids |-> 0]
Autostarts ==
  {order \in [Ids -> 0..Cardinality(Ids)] :
     \A x, y \in Started(order) :
       order[x] <= Cardinality(Started(order)) /\ (order[x] = order[y] => x = y)}

AutostartChanges == UNION {[{id} -> BOOLEAN] : id \in Ids}

VARIABLES
  subject,    \* bound: a behaviour is about one of the two, which share nothing
  cfg,        \* the share's configuration on the server, or Absent
  data,       \* whether the share holds data
  reserved,   \* whether the host reserves the share's name
  autostart,  \* the order in which the containers start at boot
  op,         \* what each call is: "none" before it begins
  changes,    \* the changes it was called with
  pc,         \* where it is
  current,    \* the share's configuration it read
  entries,    \* the autostart list it read
  late,       \* the form or mutation it gave up on, still under way
  applied,    \* history: how many of its forms or mutations took effect
  raced,      \* history: something else changed since it read
  blind,      \* history: it took a failed reading for an empty one
  ui          \* how many changes the web UI made

server == <<subject, cfg, data, reserved, autostart>>
vars == <<server, op, changes, pc, current, entries, late, applied, raced, blind, ui>>

TypeOK ==
  /\ cfg \in Cfgs \cup {Absent} /\ data \in BOOLEAN /\ reserved \in BOOLEAN
  /\ autostart \in Autostarts
  /\ op \in [Calls -> {"none", "create", "edit", "delete", "autostart"}]
  /\ \A c \in Calls :
       /\ changes[c] \in Changes \cup AutostartChanges
       /\ current[c] \in Cfgs \cup {Absent} /\ entries[c] \in Autostarts
       /\ late[c] \in {"none", "edit", "smb", "delete", "autostart"}
       /\ applied[c] \in 0..2
  /\ pc \in [Calls -> {"idle", "read", "host", "list", "edit", "smb", "delete", "write",
                       "readBack", "verified", "done", "noop", "denied", "failed"}]
  /\ raced \in [Calls -> BOOLEAN] /\ blind \in [Calls -> BOOLEAN] /\ ui \in 0..MaxUi

Init ==
  /\ cfg \in Cfgs \cup {Absent} /\ data \in BOOLEAN /\ reserved \in BOOLEAN
  /\ cfg # Absent => ~reserved
  /\ autostart \in Autostarts
  /\ subject \in {"share", "autostart"}
  /\ IF subject = "share" THEN autostart = NoneStarted ELSE cfg = Absent /\ ~reserved
  /\ op = [c \in Calls |-> "none"]
  /\ changes = [c \in Calls |-> Absent]
  /\ pc = [c \in Calls |-> "idle"]
  /\ current = [c \in Calls |-> Absent]
  /\ entries = [c \in Calls |-> NoneStarted]
  /\ late = [c \in Calls |-> "none"]
  /\ applied = [c \in Calls |-> 0]
  /\ raced = [c \in Calls |-> FALSE]
  /\ blind = [c \in Calls |-> FALSE]
  /\ ui = 0

Goto(c, place) == pc' = [pc EXCEPT ![c] = place]

(* For everyone else the configuration has changed under their hands.      *)
Races(c) == raced' = [d \in Calls |-> raced[d] \/ d # c]

Misread(c, failed, was) == blind' = [blind EXCEPT ![c] = @ \/ (failed /\ was)]

Call(c, o, ch) ==
  /\ pc[c] = "idle"
  /\ o = "autostart" <=> subject = "autostart"
  /\ CASE o = "autostart" -> ch \in AutostartChanges
       [] o = "edit" -> ch \in Changes /\ DOMAIN ch # {}
       [] o = "create" -> ch \in Changes
       [] o = "delete" -> ch = Absent
  /\ op' = [op EXCEPT ![c] = o]
  /\ changes' = [changes EXCEPT ![c] = ch]
  /\ Goto(c, "read")
  /\ UNCHANGED <<server, current, entries, late, applied, raced, blind, ui>>

-----------------------------------------------------------------------------
(* Shares: readShareCfg and readHostContext                                *)

(* null when cat fails, whatever the reason.                               *)
ReadShareCfg(failed) == IF failed THEN Absent ELSE cfg

DeletesAtOnce(c, found) ==  \* fault: no look at the data
  IF found = Absent <=> op[c] = "create" THEN IF op[c] = "delete" THEN "delete" ELSE "host"
  ELSE "denied"

AfterRead(c, found) ==
  CASE op[c] = "create" -> IF found = Absent THEN "host" ELSE "denied"
    [] op[c] = "edit" -> IF found = Absent THEN "denied" ELSE "host"
    [] op[c] = "delete" -> IF found = Absent THEN "denied" ELSE "list"

(* A command, or the query of the autostart list, throws.                  *)
ReadThrows(c) ==
  /\ pc[c] \in {"read", "host", "list", "readBack"}
  /\ Goto(c, "failed")
  /\ UNCHANGED <<server, op, changes, current, entries, late, applied, raced, blind, ui>>

ReadShare(c, failed) ==
  /\ pc[c] = "read" /\ op[c] # "autostart"
  /\ LET found == ReadShareCfg(failed) IN
       /\ current' = [current EXCEPT ![c] = found]
       /\ Goto(c, AfterRead(c, found))
  /\ Misread(c, failed, cfg # Absent)
  /\ raced' = [raced EXCEPT ![c] = FALSE]
  /\ UNCHANGED <<server, op, changes, entries, late, applied, ui>>

CheckAgainstHost(c, failed) ==
  /\ pc[c] = "host"
  /\ Goto(c, IF reserved /\ ~failed THEN "denied" ELSE "edit")
  /\ Misread(c, failed, reserved)
  /\ UNCHANGED <<server, op, changes, current, entries, late, applied, raced, ui>>

FirstEntry(c, failed) ==
  /\ pc[c] = "list"
  /\ Goto(c, IF data /\ ~failed THEN "denied" ELSE "delete")
  /\ Misread(c, failed, data)
  /\ UNCHANGED <<server, op, changes, current, entries, late, applied, raced, ui>>

-----------------------------------------------------------------------------
(* Shares: the forms.  emhttpd may refuse one, or accept one and leave the *)
(* configuration as it is.                                                 *)

ChangesAndDefaults(c) ==  \* fault: without current
  [f \in Fields |-> IF f \in DOMAIN changes[c] THEN changes[c][f] ELSE CREATE_DEFAULTS[f]]

Merged(c) ==
  [f \in Fields |-> CASE f \in DOMAIN changes[c] -> changes[c][f]
                     [] f \notin DOMAIN changes[c] /\ f \in DOMAIN current[c] -> current[c][f]
                     [] OTHER -> CREATE_DEFAULTS[f]]

CfgAfter(c, form) ==
  CASE form = "delete" -> Absent
    [] form = "edit" ->
         IF cfg = Absent
           THEN IF op[c] = "create"
                  THEN [f \in Fields |-> IF f \in EDIT_FIELDS THEN Merged(c)[f]
                                         ELSE CREATE_DEFAULTS[f]]
                  ELSE Absent
           ELSE [f \in Fields |-> IF f \in EDIT_FIELDS THEN Merged(c)[f] ELSE cfg[f]]
    [] form = "smb" ->
         IF cfg = Absent THEN Absent
         ELSE [f \in Fields |-> IF f \in SMB_FIELDS THEN Merged(c)[f] ELSE cfg[f]]

Applies(c, form) ==
  /\ cfg' = CfgAfter(c, form)
  /\ applied' = [applied EXCEPT ![c] = @ + 1]
  /\ IF cfg' = cfg THEN UNCHANGED raced ELSE Races(c)
  /\ UNCHANGED <<subject, data, reserved, autostart>>

NeedsSmbForm(c) == DOMAIN changes[c] \cap SMB_FIELDS # {}

RepeatsSmb(c, form) == IF NeedsSmbForm(c) THEN "smb" ELSE "readBack"  \* fault

AfterForm(c, form) ==
  IF form = "edit" /\ NeedsSmbForm(c) THEN "smb" ELSE "readBack"

AtForm(c, form) == pc[c] = form /\ form \in {"edit", "smb", "delete"}

FormApplied(c, form) ==
  /\ AtForm(c, form)
  /\ Applies(c, form)
  /\ Goto(c, AfterForm(c, form))
  /\ UNCHANGED <<op, changes, current, entries, late, blind, ui>>

FormIgnored(c, form) ==
  /\ AtForm(c, form)
  /\ Goto(c, AfterForm(c, form))
  /\ UNCHANGED <<server, op, changes, current, entries, late, applied, raced, blind, ui>>

FormRefused(c, form) ==
  /\ AtForm(c, form)
  /\ Goto(c, "failed")
  /\ UNCHANGED <<server, op, changes, current, entries, late, applied, raced, blind, ui>>

(* The deadline of the command, or of the mutation, passes first.          *)
GivesUp(c, form) ==
  /\ AtForm(c, form) \/ (pc[c] = "write" /\ form = "autostart")
  /\ Goto(c, "failed")
  /\ late' = [late EXCEPT ![c] = form]
  /\ UNCHANGED <<server, op, changes, current, entries, applied, raced, blind, ui>>

LateForm(c) ==
  /\ late[c] \in {"edit", "smb", "delete"}
  /\ late' = [late EXCEPT ![c] = "none"]
  /\ Applies(c, late[c])
  /\ UNCHANGED <<op, changes, pc, current, entries, blind, ui>>

(* unverifiedKeys is empty.                                                *)
EditFieldsOnly(ch, found) ==  \* fault: the SMB settings are not compared
  \A f \in DOMAIN ch \cap EDIT_FIELDS : found[f] = ch[f]

Verified(ch, found) == \A f \in DOMAIN ch : found[f] = ch[f]

ReadBack(c, failed) ==
  /\ pc[c] = "readBack"
  /\ LET found == ReadShareCfg(failed) IN
       Goto(c, IF op[c] = "delete"
                 THEN IF found = Absent THEN "verified" ELSE "failed"
                 ELSE IF found # Absent /\ Verified(changes[c], found) THEN "verified"
                 ELSE "failed")
  /\ Misread(c, failed, cfg # Absent)
  /\ UNCHANGED <<server, op, changes, current, entries, late, applied, raced, ui>>

-----------------------------------------------------------------------------
(* docker_autostart_set                                                    *)

(* A fault: the answer is that which an earlier call got.                  *)
CachedAnswer(c) ==
  LET others == {d \in Calls \ {c} : op[d] = "autostart" /\ pc[d] \notin {"idle", "read"}}
  IN IF others = {} THEN autostart ELSE entries[CHOOSE d \in others : TRUE]

AutostartAnswer(c) == autostart

ReadAutostart(c) ==
  /\ pc[c] = "read" /\ op[c] = "autostart"
  /\ entries' = [entries EXCEPT ![c] = AutostartAnswer(c)]
  /\ raced' = [raced EXCEPT ![c] = FALSE]
  /\ Goto(c, "write")
  /\ UNCHANGED <<server, op, changes, current, late, applied, blind, ui>>

(* Unknown or duplicate ids.                                               *)
ChangesInvalid(c) ==
  /\ pc[c] = "read" /\ op[c] = "autostart"
  /\ Goto(c, "denied")
  /\ UNCHANGED <<server, op, changes, current, entries, late, applied, raced, blind, ui>>

(* compareByOrder, in a stable sort: those that start by their order, then *)
(* the rest as the API lists them.                                         *)
SortsBefore(order, x, y) ==
  IF order[x] = 0
    THEN /\ order[y] = 0
         /\ \E i, j \in DOMAIN Containers : i < j /\ Containers[i] = x /\ Containers[j] = y
    ELSE order[y] = 0 \/ order[x] < order[y]

(* mergeEntry: the requested state, or else the current one.               *)
StartsAfter(c, id) ==
  IF id \in DOMAIN changes[c] THEN changes[c][id] ELSE id \in Started(entries[c])

(* What the API makes of the sorted entries: those with autoStart, counted.*)
BuildEntries(c) ==
  LET on == {id \in Ids : StartsAfter(c, id)}
  IN [id \in Ids |->
        IF id \notin on THEN 0
        ELSE Cardinality({x \in on : SortsBefore(entries[c], x, id)}) + 1]

SetsAutostart(c) ==
  /\ autostart' = BuildEntries(c)
  /\ applied' = [applied EXCEPT ![c] = @ + 1]
  /\ IF autostart' = autostart THEN UNCHANGED raced ELSE Races(c)
  /\ UNCHANGED <<subject, cfg, data, reserved>>

(* With the answer true, or an error although it took effect.              *)
AutostartSet(c, place) ==
  /\ pc[c] = "write" /\ place \in {"done", "failed"}
  /\ SetsAutostart(c)
  /\ Goto(c, place)
  /\ UNCHANGED <<op, changes, current, entries, late, blind, ui>>

AutostartUnset(c, place) ==
  /\ pc[c] = "write" /\ place \in {"noop", "failed"}
  /\ Goto(c, place)
  /\ UNCHANGED <<server, op, changes, current, entries, late, applied, raced, blind, ui>>

LateAutostart(c) ==
  /\ late[c] = "autostart"
  /\ late' = [late EXCEPT ![c] = "none"]
  /\ SetsAutostart(c)
  /\ UNCHANGED <<op, changes, pc, current, entries, blind, ui>>

-----------------------------------------------------------------------------
(* The web UI, another process, a user: at any time.                       *)
UiChanges ==
  /\ ui < MaxUi
  /\ ui' = ui + 1
  /\ \/ /\ cfg # Absent
        /\ \E f \in Fields : cfg' = [cfg EXCEPT ![f] = 1 - @]
        /\ UNCHANGED <<data, autostart>>
     \/ /\ cfg # Absent /\ ~data
        /\ data' = TRUE
        /\ UNCHANGED <<cfg, autostart>>
     \/ /\ subject = "autostart"
        /\ \E id \in Ids \ Started(autostart) :
             autostart' = [autostart EXCEPT ![id] = Cardinality(Started(autostart)) + 1]
        /\ UNCHANGED <<cfg, data>>
  /\ raced' = [c \in Calls |-> TRUE]
  /\ UNCHANGED <<subject, reserved, op, changes, pc, current, entries, late, applied, blind>>

CallStep(c) ==
  \/ \E failed \in BOOLEAN :
       ReadShare(c, failed) \/ CheckAgainstHost(c, failed) \/ FirstEntry(c, failed)
         \/ ReadBack(c, failed)
  \/ \E form \in {"edit", "smb", "delete"} :
       FormApplied(c, form) \/ FormIgnored(c, form) \/ FormRefused(c, form)
  \/ \E form \in {"edit", "smb", "delete", "autostart"} : GivesUp(c, form)
  \/ ReadThrows(c)
  \/ ReadAutostart(c)
  \/ ChangesInvalid(c)
  \/ \E place \in {"done", "noop", "failed"} : AutostartSet(c, place) \/ AutostartUnset(c, place)

Next ==
  \/ \E c \in Calls, o \in {"create", "edit", "delete", "autostart"},
          ch \in Changes \cup AutostartChanges : Call(c, o, ch)
  \/ \E c \in Calls : CallStep(c) \/ LateForm(c) \/ LateAutostart(c)
  \/ UiChanges

Spec == Init /\ [][Next]_vars

-----------------------------------------------------------------------------
(* What a call was not asked to change stays as it is, unless something    *)
(* else changed between its reading and its writing, or it read nothing:   *)
(* the settings of a share, and which other containers start, in which     *)
(* order (buildEditQuery, buildSmbQuery, buildEntries).                    *)
Keeps(c) ==
  IF op[c] = "autostart"
    THEN LET Others == Started(autostart) \ DOMAIN changes[c]
         IN /\ Started(autostart') \ DOMAIN changes[c] = Others
            /\ \A x, y \in Others : autostart[x] < autostart[y] => autostart'[x] < autostart'[y]
    ELSE op[c] # "delete" /\ cfg # Absent =>
           \A f \in Fields \ DOMAIN changes[c] : cfg'[f] = cfg[f]

KeepsTheRest ==
  [][\A c \in Calls : applied'[c] # applied[c] /\ ~raced[c] /\ ~blind[c] => Keeps(c)]_vars

(* A share is deleted while it holds data only when the data came after    *)
(* the look at it, or the look failed (share-delete.ts).                   *)
DeletesOnlyEmpty ==
  [][\A c \in Calls :
       /\ applied'[c] # applied[c] /\ op[c] = "delete"
       /\ ~raced[c] /\ ~blind[c]
       => ~data]_vars

(* "Verified" holds until something else changes, whatever emhttpd did     *)
(* with the forms; "no changes were made" holds for good, also when only   *)
(* the second form was refused.                                            *)
OutcomesAreHonest ==
  \A c \in Calls :
    /\ pc[c] = "verified" /\ ~raced[c] /\ ~blind[c] =>
         IF op[c] = "delete" THEN cfg = Absent
         ELSE cfg # Absent /\ \A f \in DOMAIN changes[c] : cfg[f] = changes[c][f]
    /\ pc[c] \in {"denied", "noop"} => applied[c] = 0
=============================================================================
