--------------------------- MODULE ConfigWritesProofs ---------------------------
(***************************************************************************)
(* Proofs about ConfigWrites, for any number of calls, any containers and  *)
(* any number of changes made in the web UI meanwhile.                     *)
(***************************************************************************)
EXTENDS ConfigWrites, TLAPS, FiniteSetTheorems

-----------------------------------------------------------------------------
(* The inductive invariant                                                 *)

ShareOps == {"create", "edit", "delete"}
Places == {"idle", "read", "host", "list", "edit", "smb", "delete", "write",
           "readBack", "verified", "done", "noop", "denied", "failed"}

Types ==
  /\ subject \in {"share", "autostart"}
  /\ cfg \in Cfgs \cup {Absent} /\ data \in BOOLEAN /\ reserved \in BOOLEAN
  /\ autostart \in Autostarts
  /\ op \in [Calls -> {"none", "autostart"} \cup ShareOps]
  /\ changes \in [Calls -> Changes \cup AutostartChanges]
  /\ pc \in [Calls -> Places]
  /\ current \in [Calls -> Cfgs \cup {Absent}]
  /\ entries \in [Calls -> Autostarts]
  /\ late \in [Calls -> {"none", "edit", "smb", "delete", "autostart"}]
  /\ applied \in [Calls -> Nat]
  /\ raced \in [Calls -> BOOLEAN] /\ blind \in [Calls -> BOOLEAN]
  /\ ui \in 0..MaxUi

(* A form, or the mutation, that the call may still bring about.           *)
Pending(c, form) == pc[c] = form \/ late[c] = form
Writing(c) == IF op[c] = "autostart" THEN Pending(c, "autostart") \/ pc[c] = "write"
              ELSE Pending(c, "edit") \/ Pending(c, "smb") \/ pc[c] = "host"

(* What a call is decides where it can be, and how much of it took effect. *)
PlaceInv ==
  \A c \in Calls :
    /\ op[c] = "none" <=> pc[c] = "idle"
    /\ op[c] = "autostart" => /\ subject = "autostart" /\ changes[c] \in AutostartChanges
                              /\ pc[c] \in {"read", "write", "done", "noop", "denied", "failed"}
    /\ op[c] \in ShareOps => /\ subject = "share" /\ changes[c] \in Changes
                             /\ pc[c] \notin {"write", "done", "noop"}
    /\ pc[c] \in {"list", "delete"} => op[c] = "delete"
    /\ pc[c] \in {"host", "edit", "smb"} => op[c] \in {"create", "edit"}
    /\ late[c] # "none" => pc[c] = "failed"
    /\ late[c] \in {"edit", "smb"} => op[c] \in {"create", "edit"}
    /\ late[c] \in {"delete", "autostart"} => op[c] = late[c]

EffectInv ==
  \A c \in Calls :
    /\ applied[c] <= 2
    /\ pc[c] \in {"idle", "read", "host", "list", "edit", "delete", "write", "noop", "denied"}
         => applied[c] = 0
    /\ late[c] \in {"edit", "delete", "autostart"} => applied[c] = 0
    /\ Pending(c, "smb") => applied[c] <= 1

(* What an undisturbed call is about to write back is what there is.       *)
Carries(c) == cfg # Absent => \A f \in Fields \ DOMAIN changes[c] : Merged(c)[f] = cfg[f]
Fresh(c) ==
  ~raced[c] /\ ~blind[c] /\ Writing(c) =>
    IF op[c] = "autostart" THEN entries[c] = autostart
    ELSE (op[c] = "create" => current[c] = Absent) /\ Carries(c)
FreshInv == \A c \in Calls : Fresh(c)

Empty(c) == ~raced[c] /\ ~blind[c] /\ Pending(c, "delete") => ~data
EmptyInv == \A c \in Calls : Empty(c)

Told(c) ==
  pc[c] = "verified" /\ ~raced[c] /\ ~blind[c] =>
    IF op[c] = "delete" THEN cfg = Absent
    ELSE cfg # Absent /\ \A f \in DOMAIN changes[c] : cfg[f] = changes[c][f]
ToldInv == \A c \in Calls : Told(c)

CInv == Types /\ PlaceInv /\ EffectInv /\ FreshInv /\ EmptyInv /\ ToldInv

-----------------------------------------------------------------------------
(* The order in which containers start                                     *)

LEMMA IdsFinite == IsFiniteSet(Ids) /\ Cardinality(Ids) \in Nat
<1> DEFINE D == 1..Len(Containers)
<1>1. IsFiniteSet(D) /\ DOMAIN Containers = D
  BY ContainersAssumption, FS_Interval
<1>2. {Containers[i] : i \in D} = Ids
  BY <1>1 DEF Ids
<1>3. Containers \in [D -> Ids] /\ \A x \in Ids : \E i \in D : Containers[i] = x
  BY <1>1, <1>2, ContainersAssumption
<1>4. Containers \in Surjection(D, Ids)
  BY <1>3 DEF Surjection
<1>5. IsFiniteSet(Ids)
  BY <1>1, <1>4, FS_Surjection
<1> QED
  BY <1>5, FS_CardinalityType

(* Sorting is by a strict total order: positions and places are unique.    *)
LEMMA SortsStrictly ==
  ASSUME NEW order \in Autostarts
  PROVE  /\ \A x \in Ids : ~SortsBefore(order, x, x)
         /\ \A x, y \in Ids : x # y => SortsBefore(order, x, y) \/ SortsBefore(order, y, x)
         /\ \A x, y, z \in Ids :
              SortsBefore(order, x, y) /\ SortsBefore(order, y, z) => SortsBefore(order, x, z)
<1>1. order \in [Ids -> Nat] /\ \A x, y \in Ids : order[x] # 0 /\ order[x] = order[y] => x = y
  <2>1. /\ order \in [Ids -> 0..Cardinality(Ids)]
        /\ \A x, y \in Started(order) : order[x] = order[y] => x = y
    BY DEF Autostarts
  <2> QED
    BY <2>1, IdsFinite DEF Started
<1>2. DOMAIN Containers \subseteq Nat /\ \A x \in Ids : \E i \in DOMAIN Containers : Containers[i] = x
  BY ContainersAssumption DEF Ids
<1> QED
  BY <1>1, <1>2, ContainersAssumption DEF SortsBefore

(* Numbering the members of a set in a strict total order is what the API  *)
(* stores: nothing but they start, without gaps and in that order.         *)
LEMMA BuildKeepsOrder ==
  ASSUME NEW c, entries[c] \in Autostarts,
         NEW on, on = {id \in Ids : StartsAfter(c, id)}
  PROVE  /\ BuildEntries(c) \in Autostarts
         /\ Started(BuildEntries(c)) = on
         /\ \A x, y \in on :
              SortsBefore(entries[c], x, y) => BuildEntries(c)[x] < BuildEntries(c)[y]
<1> DEFINE Before(id) == {x \in on : SortsBefore(entries[c], x, id)}
<1>1. BuildEntries(c) = [id \in Ids |-> IF id \notin on THEN 0 ELSE Cardinality(Before(id)) + 1]
  BY DEF BuildEntries
<1>2. IsFiniteSet(on) /\ on \subseteq Ids /\ Cardinality(on) \in Nat
      /\ Cardinality(on) <= Cardinality(Ids)
  BY IdsFinite, FS_Subset, FS_CardinalityType
<1>3. \A id \in on : id \notin Before(id) /\ Before(id) \subseteq on
  BY <1>2, SortsStrictly
<1>4. \A id \in on : Cardinality(Before(id)) \in Nat /\ Cardinality(Before(id)) < Cardinality(on)
  <2> SUFFICES ASSUME NEW id \in on
               PROVE  Cardinality(Before(id)) \in Nat /\ Cardinality(Before(id)) < Cardinality(on)
    OBVIOUS
  <2>1. Before(id) \in SUBSET on /\ Before(id) # on
    BY <1>3
  <2> HIDE DEF Before
  <2> QED
    BY <1>2, <2>1, FS_Subset, FS_CardinalityType
<1>5. \A x, y \in on : SortsBefore(entries[c], x, y) => Cardinality(Before(x)) < Cardinality(Before(y))
  <2> SUFFICES ASSUME NEW x \in on, NEW y \in on, SortsBefore(entries[c], x, y)
               PROVE  Cardinality(Before(x)) < Cardinality(Before(y))
    OBVIOUS
  <2>1. Before(x) \in SUBSET Before(y) /\ x \in Before(y) /\ x \notin Before(x)
    BY <1>2, SortsStrictly
  <2>2. IsFiniteSet(Before(y))
    BY <1>2, <1>3, FS_Subset
  <2> HIDE DEF Before
  <2> QED
    BY <1>4, <2>1, <2>2, FS_Subset
<1> HIDE DEF Before
<1>6. Started(BuildEntries(c)) = on
  BY <1>1, <1>2, <1>4 DEF Started
<1>7. \A x, y \in on : SortsBefore(entries[c], x, y) => BuildEntries(c)[x] < BuildEntries(c)[y]
  BY <1>1, <1>2, <1>4, <1>5
<1>8. BuildEntries(c) \in [Ids -> 0..Cardinality(Ids)]
  BY <1>1, <1>2, <1>4, IdsFinite
<1>9. \A x, y \in on : /\ BuildEntries(c)[x] <= Cardinality(on)
                       /\ BuildEntries(c)[x] = BuildEntries(c)[y] => x = y
  <2>1. \A x, y \in on : x # y => SortsBefore(entries[c], x, y) \/ SortsBefore(entries[c], y, x)
    BY <1>2, SortsStrictly
  <2>2. \A x \in on : BuildEntries(c)[x] \in Nat /\ BuildEntries(c)[x] <= Cardinality(on)
    BY <1>1, <1>2, <1>4
  <2> QED
    BY <1>7, <2>1, <2>2
<1> QED
  BY <1>6, <1>7, <1>8, <1>9 DEF Autostarts

(* A container that is added in the web UI starts last.                    *)
LEMMA AppendKeepsOrder ==
  ASSUME NEW order \in Autostarts, NEW id \in Ids \ Started(order)
  PROVE  [order EXCEPT ![id] = Cardinality(Started(order)) + 1] \in Autostarts
<1> DEFINE new == [order EXCEPT ![id] = Cardinality(Started(order)) + 1]
<1>0. /\ order \in [Ids -> 0..Cardinality(Ids)] /\ Started(order) \in SUBSET Ids
      /\ \A x, y \in Started(order) :
           order[x] <= Cardinality(Started(order)) /\ (order[x] = order[y] => x = y)
  BY DEF Autostarts, Started
<1>1. /\ Cardinality(Started(order)) \in Nat
      /\ Started(new) = Started(order) \cup {id}
  <2>1. Cardinality(Started(order)) \in Nat
    BY <1>0, IdsFinite, FS_Subset, FS_CardinalityType
  <2> QED
    BY <1>0, <2>1 DEF Started
<1>2. /\ Cardinality(Started(new)) = Cardinality(Started(order)) + 1
      /\ Cardinality(Started(new)) <= Cardinality(Ids)
  <2>1. IsFiniteSet(Started(order)) /\ id \notin Started(order)
    BY <1>0, IdsFinite, FS_Subset
  <2>2. Started(order) \cup {id} \in SUBSET Ids
    BY <1>0
  <2> HIDE DEF new
  <2> QED
    BY <1>1, <2>1, <2>2, IdsFinite, FS_Subset, FS_AddElement
<1>3. new \in [Ids -> 0..Cardinality(Ids)]
  BY <1>0, <1>1, <1>2, IdsFinite
<1>4. \A x, y \in Started(new) :
        new[x] <= Cardinality(Started(new)) /\ (new[x] = new[y] => x = y)
  <2>1. \A x \in Started(order) : x # id /\ new[x] = order[x] /\ order[x] \in Nat
    BY <1>0, IdsFinite
  <2>2. new[id] = Cardinality(Started(order)) + 1
    BY <1>0
  <2> HIDE DEF new
  <2> QED
    BY <1>0, <1>1, <1>2, <2>1, <2>2
<1> QED
  BY <1>3, <1>4 DEF Autostarts

-----------------------------------------------------------------------------
(* Types                                                                   *)

Order == [Ids -> Nat]

LEMMA AutostartsAreOrders == NoneStarted \in Autostarts /\ \A order \in Autostarts : order \in Order
<1>1. Autostarts \subseteq Order
  BY IdsFinite DEF Autostarts, Order
<1>2. NoneStarted \in [Ids -> 0..Cardinality(Ids)] /\ Started(NoneStarted) = {}
  BY IdsFinite DEF NoneStarted, Started
<1> QED
  BY <1>1, <1>2 DEF Autostarts

LEMMA MergedIsCfg ==
  ASSUME Types, NEW c \in Calls, changes[c] \in Changes
  PROVE  Merged(c) \in Cfgs
<1>1. \A f \in DOMAIN changes[c] : changes[c][f] = 1
  BY DEF Changes
<1>2. \A f \in DOMAIN current[c] : current[c][f] \in {0, 1}
  BY DEF Types, Cfgs, Absent
<1>3. \A f \in Fields : CREATE_DEFAULTS[f] \in {0, 1}
  BY DEF CREATE_DEFAULTS
<1> QED
  BY <1>1, <1>2, <1>3 DEF Merged, Cfgs

LEMMA CfgAfterIsCfg ==
  ASSUME Types, NEW c \in Calls, changes[c] \in Changes, NEW form \in {"edit", "smb", "delete"}
  PROVE  CfgAfter(c, form) \in Cfgs \cup {Absent}
<1>1. Merged(c) \in Cfgs
  BY MergedIsCfg
<1>2. cfg # Absent => cfg \in Cfgs
  BY DEF Types
<1> QED
  BY <1>1, <1>2 DEF CfgAfter, Cfgs, CREATE_DEFAULTS

LEMMA AppliesTypes ==
  ASSUME Types, NEW c \in Calls, changes[c] \in Changes,
         NEW form \in {"edit", "smb", "delete"}, Applies(c, form)
  PROVE  /\ cfg' \in Cfgs \cup {Absent} /\ applied' \in [Calls -> Nat]
         /\ raced' \in [Calls -> BOOLEAN]
         /\ UNCHANGED <<subject, data, reserved, autostart>>
<1>1. cfg' \in Cfgs \cup {Absent}
  BY CfgAfterIsCfg DEF Applies
<1>2. applied' \in [Calls -> Nat] /\ UNCHANGED <<subject, data, reserved, autostart>>
  BY DEF Applies, Types
<1>3. raced' \in [Calls -> BOOLEAN]
  BY Zenon DEF Applies, Races, Types
<1> QED
  BY <1>1, <1>2, <1>3

LEMMA SetsAutostartTypes ==
  ASSUME Types, NEW c \in Calls, SetsAutostart(c)
  PROVE  /\ autostart' \in Autostarts /\ applied' \in [Calls -> Nat]
         /\ raced' \in [Calls -> BOOLEAN]
         /\ UNCHANGED <<subject, cfg, data, reserved>>
<1>1. autostart' \in Autostarts
  BY BuildKeepsOrder DEF SetsAutostart, Types
<1>2. applied' \in [Calls -> Nat] /\ UNCHANGED <<subject, cfg, data, reserved>>
  BY DEF SetsAutostart, Types
<1>3. raced' \in [Calls -> BOOLEAN]
  BY Zenon DEF SetsAutostart, Races, Types
<1> QED
  BY <1>1, <1>2, <1>3

LEMMA FlagsTyped ==
  ASSUME Types, NEW c \in Calls, NEW failed \in BOOLEAN, NEW was
  PROVE  /\ Misread(c, failed, was) => blind' \in [Calls -> BOOLEAN]
         /\ raced' = [raced EXCEPT ![c] = FALSE] => raced' \in [Calls -> BOOLEAN]
BY Zenon DEF Types, Misread

LEMMA TypesStep == Types /\ PlaceInv /\ [Next]_vars => Types'
<1> SUFFICES ASSUME Types, PlaceInv, [Next]_vars PROVE Types'
  OBVIOUS
<1>0. ASSUME NEW c \in Calls, NEW place \in Places, Goto(c, place)
      PROVE pc' \in [Calls -> Places]
  BY <1>0 DEF Goto, Types
<1>1. ASSUME NEW c \in Calls, NEW o \in {"create", "edit", "delete", "autostart"},
             NEW ch \in Changes \cup AutostartChanges, Call(c, o, ch)
      PROVE Types'
  BY <1>0, <1>1 DEF Call, Types, ShareOps, Places, server
<1>2. ASSUME NEW c \in Calls, ReadThrows(c) \/ ChangesInvalid(c) PROVE Types'
  BY <1>0, <1>2 DEF ReadThrows, ChangesInvalid, Types, Places, server
<1>3. ASSUME NEW c \in Calls, NEW failed \in BOOLEAN, ReadShare(c, failed) PROVE Types'
  <2>1. op[c] \in ShareOps
    BY <1>3 DEF ReadShare, PlaceInv, Types
  <2>2. ReadShareCfg(failed) \in Cfgs \cup {Absent}
    BY DEF ReadShareCfg, Types
  <2>3. pc' \in [Calls -> Places] /\ current' \in [Calls -> Cfgs \cup {Absent}]
    BY <1>0, <1>3, <2>1, <2>2 DEF ReadShare, AfterRead, Places, ShareOps, Types
  <2> QED
    BY <1>3, <2>3, FlagsTyped DEF ReadShare, Types, server
<1>4. ASSUME NEW c \in Calls, NEW failed \in BOOLEAN, CheckAgainstHost(c, failed) PROVE Types'
  BY <1>0, <1>4, FlagsTyped DEF CheckAgainstHost, Types, server, Places
<1>5. ASSUME NEW c \in Calls, NEW failed \in BOOLEAN, FirstEntry(c, failed) PROVE Types'
  BY <1>0, <1>5, FlagsTyped DEF FirstEntry, Types, server, Places
<1>6. ASSUME NEW c \in Calls, NEW failed \in BOOLEAN, ReadBack(c, failed) PROVE Types'
  <2>1. pc' \in [Calls -> Places]
    BY <1>0, <1>6 DEF ReadBack, Places
  <2> QED
    BY <1>6, <2>1, FlagsTyped DEF ReadBack, Types, server
<1>7. ASSUME NEW c \in Calls, NEW form \in {"edit", "smb", "delete"},
             FormApplied(c, form)
      PROVE Types'
  <2>1. AfterForm(c, form) \in Places /\ changes[c] \in Changes
    BY <1>7 DEF FormApplied, AtForm, AfterForm, Places, PlaceInv, ShareOps
  <2>2. pc' \in [Calls -> Places]
    BY <1>0, <1>7, <2>1 DEF FormApplied
  <2> QED
    BY <1>7, <2>1, <2>2, AppliesTypes DEF FormApplied, Types
<1>8. ASSUME NEW c \in Calls, NEW form \in {"edit", "smb", "delete"},
             FormIgnored(c, form) \/ FormRefused(c, form)
      PROVE Types'
  <2>1. AfterForm(c, form) \in Places
    BY DEF AfterForm, Places
  <2> QED
    BY <1>0, <1>8, <2>1 DEF FormIgnored, FormRefused, Types, server, Places
<1>9. ASSUME NEW c \in Calls, NEW form \in {"edit", "smb", "delete", "autostart"},
             GivesUp(c, form)
      PROVE Types'
  BY <1>0, <1>9 DEF GivesUp, Types, server, Places
<1>10. ASSUME NEW c \in Calls, LateForm(c) PROVE Types'
  <2>1. changes[c] \in Changes
    BY <1>10 DEF LateForm, PlaceInv, ShareOps
  <2> QED
    BY <1>10, <2>1, AppliesTypes DEF LateForm, Types
<1>11. ASSUME NEW c \in Calls, ReadAutostart(c) PROVE Types'
  <2>1. raced' \in [Calls -> BOOLEAN]
    BY <1>11, FlagsTyped DEF ReadAutostart
  <2> QED
    BY <1>0, <1>11, <2>1 DEF ReadAutostart, AutostartAnswer, Types, server, Places
<1>12. ASSUME NEW c \in Calls, NEW place \in {"done", "noop", "failed"},
              AutostartSet(c, place)
       PROVE Types'
  BY <1>0, <1>12, SetsAutostartTypes DEF AutostartSet, Types, Places
<1>13. ASSUME NEW c \in Calls, NEW place \in {"done", "noop", "failed"},
              AutostartUnset(c, place)
       PROVE Types'
  BY <1>0, <1>13 DEF AutostartUnset, Types, server, Places
<1>14. ASSUME NEW c \in Calls, LateAutostart(c) PROVE Types'
  BY <1>14, SetsAutostartTypes DEF LateAutostart, Types
<1>15. CASE UiChanges
  <2>1. cfg' \in Cfgs \cup {Absent} /\ data' \in BOOLEAN
    <3>1. ASSUME cfg # Absent, NEW f \in Fields, cfg' = [cfg EXCEPT ![f] = 1 - @]
          PROVE  cfg' \in Cfgs
      <4>1. cfg \in [Fields -> {0, 1}]
        BY <3>1 DEF Types, Cfgs
      <4> QED
        BY <3>1, <4>1 DEF Cfgs
    <3> QED
      BY <1>15, <3>1 DEF UiChanges, Types
  <2>2. autostart' \in Autostarts
    BY <1>15, AppendKeepsOrder DEF UiChanges, Types
  <2>3. raced' \in [Calls -> BOOLEAN]
    BY <1>15, Zenon DEF UiChanges
  <2>4. ui' \in 0..MaxUi
    BY <1>15, MaxUiAssumption DEF UiChanges, Types
  <2> QED
    BY <1>15, <2>1, <2>2, <2>3, <2>4 DEF UiChanges, Types
<1>16. CASE UNCHANGED vars
  BY <1>16 DEF vars, server, Types
<1> QED
  BY <1>1, <1>2, <1>3, <1>4, <1>5, <1>6, <1>7, <1>8, <1>9, <1>10, <1>11, <1>12,
     <1>13, <1>14, <1>15, <1>16 DEF Next, CallStep

-----------------------------------------------------------------------------
(* Where a call can be, and how much of it took effect                     *)

LEMMA PlaceStep == Types /\ PlaceInv /\ [Next]_vars => PlaceInv'
<1> SUFFICES ASSUME Types, PlaceInv, [Next]_vars PROVE PlaceInv'
  OBVIOUS
<1> USE DEF Types, PlaceInv, Goto, ShareOps, Places
<1>1. ASSUME NEW c \in Calls, NEW o \in {"create", "edit", "delete", "autostart"},
             NEW ch \in Changes \cup AutostartChanges, Call(c, o, ch)
      PROVE PlaceInv'
  <2>1. Absent \in Changes
    <3>1. Absent \in [{} -> {1}] /\ {} \in SUBSET Settings
      BY DEF Absent
    <3> QED
      BY <3>1, Zenon DEF Changes
  <2>2. (o = "autostart" => ch \in AutostartChanges) /\ (o # "autostart" => ch \in Changes)
    BY <1>1, <2>1 DEF Call
  <2> QED
    BY <1>1, <2>2 DEF Call, server
<1>2. ASSUME NEW c \in Calls, ReadThrows(c) \/ ChangesInvalid(c) PROVE PlaceInv'
  BY <1>2 DEF ReadThrows, ChangesInvalid, server
<1>3. ASSUME NEW c \in Calls, NEW failed \in BOOLEAN, ReadShare(c, failed) PROVE PlaceInv'
  BY <1>3 DEF ReadShare, AfterRead, server
<1>4. ASSUME NEW c \in Calls, NEW failed \in BOOLEAN,
             CheckAgainstHost(c, failed) \/ FirstEntry(c, failed) \/ ReadBack(c, failed)
      PROVE PlaceInv'
  BY <1>4 DEF CheckAgainstHost, FirstEntry, ReadBack, server
<1>5. ASSUME NEW c \in Calls, NEW form \in {"edit", "smb", "delete"},
             FormApplied(c, form) \/ FormIgnored(c, form) \/ FormRefused(c, form)
      PROVE PlaceInv'
  BY <1>5 DEF FormApplied, FormIgnored, FormRefused, AtForm, AfterForm, Applies, server
<1>6. ASSUME NEW c \in Calls, NEW form \in {"edit", "smb", "delete", "autostart"},
             GivesUp(c, form)
      PROVE PlaceInv'
  BY <1>6 DEF GivesUp, AtForm, server
<1>7. ASSUME NEW c \in Calls, LateForm(c) \/ LateAutostart(c) PROVE PlaceInv'
  BY <1>7 DEF LateForm, LateAutostart, Applies, SetsAutostart
<1>8. ASSUME NEW c \in Calls, ReadAutostart(c) PROVE PlaceInv'
  BY <1>8 DEF ReadAutostart, server
<1>9. ASSUME NEW c \in Calls, NEW place \in {"done", "noop", "failed"},
             AutostartSet(c, place) \/ AutostartUnset(c, place)
      PROVE PlaceInv'
  BY <1>9 DEF AutostartSet, AutostartUnset, SetsAutostart, server
<1>10. CASE UiChanges
  BY <1>10 DEF UiChanges
<1>11. CASE UNCHANGED vars
  BY <1>11 DEF vars, server
<1> QED
  BY <1>1, <1>2, <1>3, <1>4, <1>5, <1>6, <1>7, <1>8, <1>9, <1>10, <1>11
  DEF Next, CallStep

LEMMA EffectStep == Types /\ PlaceInv /\ EffectInv /\ [Next]_vars => EffectInv'
<1> SUFFICES ASSUME Types, PlaceInv, EffectInv, [Next]_vars PROVE EffectInv'
  OBVIOUS
<1> USE DEF Types, PlaceInv, EffectInv, Goto, Pending, ShareOps, Places
<1>1. ASSUME NEW c \in Calls, NEW o \in {"create", "edit", "delete", "autostart"},
             NEW ch \in Changes \cup AutostartChanges, Call(c, o, ch)
      PROVE EffectInv'
  BY <1>1 DEF Call, server
<1>2. ASSUME NEW c \in Calls, ReadThrows(c) \/ ChangesInvalid(c) PROVE EffectInv'
  BY <1>2 DEF ReadThrows, ChangesInvalid, server
<1>3. ASSUME NEW c \in Calls, NEW failed \in BOOLEAN, ReadShare(c, failed) PROVE EffectInv'
  BY <1>3 DEF ReadShare, AfterRead, server
<1>4. ASSUME NEW c \in Calls, NEW failed \in BOOLEAN,
             CheckAgainstHost(c, failed) \/ FirstEntry(c, failed) \/ ReadBack(c, failed)
      PROVE EffectInv'
  BY <1>4 DEF CheckAgainstHost, FirstEntry, ReadBack, server
<1>5. ASSUME NEW c \in Calls, NEW form \in {"edit", "smb", "delete"},
             FormApplied(c, form) \/ FormIgnored(c, form) \/ FormRefused(c, form)
      PROVE EffectInv'
  BY <1>5 DEF FormApplied, FormIgnored, FormRefused, AtForm, AfterForm, Applies, server
<1>6. ASSUME NEW c \in Calls, NEW form \in {"edit", "smb", "delete", "autostart"},
             GivesUp(c, form)
      PROVE EffectInv'
  BY <1>6 DEF GivesUp, AtForm, server
<1>7. ASSUME NEW c \in Calls, LateForm(c) \/ LateAutostart(c) PROVE EffectInv'
  BY <1>7 DEF LateForm, LateAutostart, Applies, SetsAutostart
<1>8. ASSUME NEW c \in Calls, ReadAutostart(c) PROVE EffectInv'
  BY <1>8 DEF ReadAutostart, server
<1>9. ASSUME NEW c \in Calls, NEW place \in {"done", "noop", "failed"},
             AutostartSet(c, place) \/ AutostartUnset(c, place)
      PROVE EffectInv'
  BY <1>9 DEF AutostartSet, AutostartUnset, SetsAutostart, server
<1>10. CASE UiChanges
  BY <1>10 DEF UiChanges
<1>11. CASE UNCHANGED vars
  BY <1>11 DEF vars, server
<1> QED
  BY <1>1, <1>2, <1>3, <1>4, <1>5, <1>6, <1>7, <1>8, <1>9, <1>10, <1>11
  DEF Next, CallStep

-----------------------------------------------------------------------------
(* What an undisturbed call knows                                          *)

(* A call's own form leaves the settings it was not asked to change.       *)
LEMMA FormKeeps ==
  ASSUME Types, NEW c \in Calls, changes[c] \in Changes, op[c] \in {"create", "edit"},
         NEW form \in {"edit", "smb"}, Applies(c, form),
         op[c] = "create" => current[c] = Absent,
         cfg # Absent => \A f \in Fields \ DOMAIN changes[c] : Merged(c)[f] = cfg[f]
  PROVE  /\ cfg' # Absent => \A f \in Fields \ DOMAIN changes[c] : Merged(c)[f] = cfg'[f]
         /\ cfg # Absent => \A f \in Fields \ DOMAIN changes[c] : cfg'[f] = cfg[f]
<1>1. cfg' = CfgAfter(c, form)
  BY DEF Applies
<1>2. op[c] = "create" => \A f \in Fields \ DOMAIN changes[c] : Merged(c)[f] = CREATE_DEFAULTS[f]
  BY DEF Merged, Absent
<1>3. CASE cfg # Absent
  <2>1. \A f \in Fields : CfgAfter(c, form)[f] \in {Merged(c)[f], cfg[f]}
    BY <1>3 DEF CfgAfter
  <2> QED
    BY <1>1, <1>3, <2>1
<1>4. CASE cfg = Absent /\ op[c] = "create"
  <2>1. CfgAfter(c, form) # Absent =>
          \A f \in Fields : CfgAfter(c, form)[f] \in {Merged(c)[f], CREATE_DEFAULTS[f]}
    BY <1>4 DEF CfgAfter
  <2> QED
    BY <1>1, <1>2, <1>4, <2>1
<1>5. CASE cfg = Absent /\ op[c] = "edit"
  BY <1>1, <1>5 DEF CfgAfter
<1> QED
  BY <1>3, <1>4, <1>5

(* A change disturbs every other call.                                     *)
LEMMA OthersRace ==
  ASSUME Types, NEW c \in Calls, NEW form,
         Applies(c, form) \/ SetsAutostart(c)
  PROVE  /\ raced'[c] = raced[c]
         /\ \A d \in Calls \ {c} :
              /\ raced[d] => raced'[d]
              /\ ~raced'[d] => cfg' = cfg /\ autostart' = autostart
<1>1. (raced' = raced /\ cfg' = cfg /\ autostart' = autostart) \/ Races(c)
  BY DEF Applies, SetsAutostart
<1>2. Races(c) => raced'[c] = raced[c] /\ \A d \in Calls \ {c} : raced'[d]
  BY Zenon DEF Types, Races
<1> QED
  BY <1>1, <1>2, Zenon

OwnStep(c) ==
  \/ CallStep(c) \/ LateForm(c) \/ LateAutostart(c)
  \/ \E o \in {"create", "edit", "delete", "autostart"}, ch \in Changes \cup AutostartChanges :
       Call(c, o, ch)

Undisturbed(d) ==
  /\ op'[d] = op[d] /\ changes'[d] = changes[d] /\ pc'[d] = pc[d]
  /\ current'[d] = current[d] /\ entries'[d] = entries[d] /\ late'[d] = late[d]
  /\ applied'[d] = applied[d]
  /\ blind'[d] <=> blind[d]
  /\ raced[d] => raced'[d]
  /\ ~raced'[d] => cfg' = cfg /\ data' = data /\ autostart' = autostart

LEMMA Elsewhere ==
  ASSUME Types, NEW c \in Calls, OwnStep(c), NEW d \in Calls \ {c}
  PROVE  Undisturbed(d)
<1>1. /\ op'[d] = op[d] /\ changes'[d] = changes[d] /\ pc'[d] = pc[d]
      /\ current'[d] = current[d] /\ entries'[d] = entries[d] /\ late'[d] = late[d]
      /\ applied'[d] = applied[d]
  BY DEF OwnStep, CallStep, LateForm, LateAutostart, Call, ReadShare, CheckAgainstHost,
         FirstEntry, ReadBack, FormApplied, FormIgnored, FormRefused, GivesUp, ReadThrows,
         ReadAutostart, ChangesInvalid, AutostartSet, AutostartUnset, Applies, SetsAutostart,
         Goto, Types, server
<1>2. blind'[d] <=> blind[d]
  <2>1. blind' = blind \/ \E failed, was : Misread(c, failed, was)
    BY Zenon DEF OwnStep, CallStep, LateForm, LateAutostart, Call, ReadShare, CheckAgainstHost,
           FirstEntry, ReadBack, FormApplied, FormIgnored, FormRefused, GivesUp, ReadThrows,
           ReadAutostart, ChangesInvalid, AutostartSet, AutostartUnset
  <2> QED
    BY <2>1, Zenon DEF Misread, Types
<1>3. \/ raced' = raced /\ UNCHANGED server
      \/ raced' = [raced EXCEPT ![c] = FALSE] /\ UNCHANGED server
      \/ data' = data /\ \E form : Applies(c, form) \/ SetsAutostart(c)
  BY Zenon DEF OwnStep, CallStep, LateForm, LateAutostart, Call, ReadShare, CheckAgainstHost,
         FirstEntry, ReadBack, FormApplied, FormIgnored, FormRefused, GivesUp, ReadThrows,
         ReadAutostart, ChangesInvalid, AutostartSet, AutostartUnset, Applies, SetsAutostart
<1>4. /\ raced[d] => raced'[d]
      /\ ~raced'[d] => cfg' = cfg /\ data' = data /\ autostart' = autostart
  <2>1. CASE raced' = raced /\ UNCHANGED server
    BY <2>1, Zenon DEF server
  <2>2. CASE raced' = [raced EXCEPT ![c] = FALSE] /\ UNCHANGED server
    BY <2>2, Zenon DEF server, Types
  <2>3. CASE data' = data /\ \E form : Applies(c, form) \/ SetsAutostart(c)
    BY <2>3, OthersRace, Zenon
  <2> QED
    BY <1>3, <2>1, <2>2, <2>3
<1> QED
  BY <1>1, <1>2, <1>4, Zenon DEF Undisturbed

LEMMA UndisturbedKeeps ==
  ASSUME NEW d \in Calls, Undisturbed(d)
  PROVE  /\ Fresh(d) => Fresh(d)'
         /\ Empty(d) => Empty(d)'
         /\ Told(d) => Told(d)'
<1>1. Merged(d)' = Merged(d)
  BY Zenon DEF Undisturbed, Merged
<1>2. (Writing(d)' <=> Writing(d)) /\ (Pending(d, "delete")' <=> Pending(d, "delete"))
  BY Zenon DEF Undisturbed, Writing, Pending
<1>3. ~raced'[d] => (Carries(d)' <=> Carries(d))
  BY <1>1, Zenon DEF Undisturbed, Carries
<1>4. Fresh(d) => Fresh(d)'
  BY <1>2, <1>3, Zenon DEF Undisturbed, Fresh
<1>5. Empty(d) => Empty(d)'
  BY <1>2, Zenon DEF Undisturbed, Empty
<1>6. Told(d) => Told(d)'
  BY Zenon DEF Undisturbed, Told
<1> QED
  BY <1>4, <1>5, <1>6

(* A call that is not about to write, or still to write, knows nothing     *)
(* that could be wrong.                                                    *)
LEMMA KnowsNothing ==
  ASSUME Types, PlaceInv, NEW c \in Calls,
         pc[c] \notin {"host", "edit", "smb", "delete", "write", "verified"}, late[c] = "none"
  PROVE  Fresh(c) /\ Empty(c) /\ Told(c)
<1>1. ~Writing(c) /\ ~Pending(c, "delete")
  BY DEF Types, PlaceInv, Writing, Pending
<1> QED
  BY <1>1, Zenon DEF Fresh, Empty, Told

(* A step that changes only where the call is.                             *)
LEMMA OnlyMoves ==
  ASSUME Types, PlaceInv, NEW c \in Calls, Fresh(c), Empty(c),
         UNCHANGED <<server, op, changes, current, entries, raced, blind>>,
         Writing(c)' => Writing(c), Pending(c, "delete")' => Pending(c, "delete"),
         pc'[c] # "verified"
  PROVE  Fresh(c)' /\ Empty(c)' /\ Told(c)'
<1>1. Merged(c)' = Merged(c)
  BY Zenon DEF Merged
<1>2. Fresh(c)'
  BY <1>1, Zenon DEF Fresh, Carries, server
<1> QED
  BY <1>2, Zenon DEF Empty, Told, server

LEMMA OwnReading ==
  ASSUME CInv, NEW c \in Calls, NEW failed \in BOOLEAN, ReadShare(c, failed)
  PROVE  Fresh(c)' /\ Empty(c)' /\ Told(c)'
<1> DEFINE found == ReadShareCfg(failed)
<1>1. /\ pc[c] = "read" /\ op[c] \in ShareOps /\ op' = op /\ changes' = changes
      /\ late[c] = "none" /\ late' = late /\ changes[c] \in Changes
      /\ current'[c] = found /\ pc'[c] = AfterRead(c, found) /\ cfg' = cfg
  BY DEF CInv, PlaceInv, Types, ShareOps, ReadShare, Goto, server
<1>2. pc'[c] \in {"host", "list", "denied"} /\ (pc'[c] = "host" => op[c] # "delete")
  BY <1>1 DEF AfterRead, ShareOps
<1>3. Empty(c)' /\ Told(c)'
  BY <1>1, <1>2 DEF Empty, Told, Pending
<1>4. ~blind'[c] => found = cfg
  <2>1. ~blind'[c] => ~(failed /\ cfg # Absent)
    BY Zenon DEF ReadShare, Misread, CInv, Types
  <2> QED
    BY <2>1 DEF ReadShareCfg
<1>5. CASE pc'[c] = "host" /\ op[c] = "create"
  <2>1. found = Absent
    BY <1>1, <1>5 DEF AfterRead
  <2>2. op'[c] # "autostart" /\ current'[c] = Absent
    BY <1>1, <1>5, <2>1
  <2>3. ~blind'[c] => Carries(c)'
    BY <1>1, <1>4, <2>1, Zenon DEF Carries
  <2> QED
    BY <1>1, <1>3, <2>2, <2>3, Zenon DEF Fresh
<1>6. CASE pc'[c] = "host" /\ op[c] = "edit"
  <2>1. found # Absent /\ found \in Cfgs \cup {Absent}
    BY <1>1, <1>6 DEF AfterRead, ReadShareCfg, CInv, Types
  <2>2. \A f \in Fields \ DOMAIN changes[c] : Merged(c)'[f] = found[f]
    BY <1>1, <2>1 DEF Merged, Cfgs
  <2>3. op'[c] # "autostart" /\ op'[c] # "create" /\ changes'[c] = changes[c]
    BY <1>1, <1>6
  <2>4. ~blind'[c] => Carries(c)'
    BY <1>1, <1>4, <2>2, <2>3 DEF Carries
  <2> QED
    BY <1>1, <1>3, <2>3, <2>4, Zenon DEF Fresh
<1>7. CASE pc'[c] # "host"
  <2>1. ~Writing(c)'
    BY <1>1, <1>2, <1>7 DEF Writing, Pending, ShareOps
  <2> QED
    BY <1>3, <2>1, Zenon DEF Fresh
<1> QED
  BY <1>1, <1>2, <1>3, <1>5, <1>6, <1>7 DEF ShareOps

LEMMA OwnLooks ==
  ASSUME CInv, NEW c \in Calls, NEW failed \in BOOLEAN,
         CheckAgainstHost(c, failed) \/ FirstEntry(c, failed) \/ ReadBack(c, failed)
  PROVE  Fresh(c)' /\ Empty(c)' /\ Told(c)'
<1>1. /\ late[c] = "none" /\ late' = late /\ op' = op /\ changes' = changes
      /\ current' = current /\ UNCHANGED server /\ raced' = raced /\ op[c] \in ShareOps
  BY DEF CInv, PlaceInv, Types, ShareOps, CheckAgainstHost, FirstEntry, ReadBack
<1>2. blind[c] => blind'[c]
  BY Zenon DEF CheckAgainstHost, FirstEntry, ReadBack, Misread, CInv, Types
<1>3. CASE CheckAgainstHost(c, failed)
  <2>1. pc[c] = "host" /\ pc'[c] \in {"denied", "edit"} /\ op[c] # "autostart"
    BY <1>1, <1>3 DEF CheckAgainstHost, Goto, CInv, Types, ShareOps
  <2>2. Empty(c)' /\ Told(c)'
    BY <1>1, <2>1 DEF Empty, Told, Pending
  <2>3. Merged(c)' = Merged(c) /\ Writing(c)
    BY <1>1, <2>1, Zenon DEF Merged, Writing
  <2>4. Fresh(c)'
    BY <1>1, <1>2, <2>1, <2>3, Zenon DEF CInv, FreshInv, Fresh, Carries, server
  <2> QED
    BY <2>2, <2>4
<1>4. CASE FirstEntry(c, failed)
  <2>1. /\ pc[c] = "list" /\ op[c] = "delete"
        /\ pc'[c] = IF data /\ ~failed THEN "denied" ELSE "delete"
    BY <1>4 DEF FirstEntry, Goto, CInv, Types, PlaceInv
  <2>2. Fresh(c)' /\ Told(c)'
    BY <1>1, <2>1 DEF Fresh, Told, Writing, Pending
  <2>3. ~blind'[c] => ~(failed /\ data)
    BY <1>4, Zenon DEF FirstEntry, Misread, CInv, Types
  <2>4. Pending(c, "delete")' /\ ~blind'[c] => ~data
    BY <1>1, <2>1, <2>3 DEF Pending
  <2>5. Empty(c)'
    BY <1>1, <2>4, Zenon DEF Empty, server
  <2> QED
    BY <2>2, <2>5
<1>5. CASE ReadBack(c, failed)
  <2>1. pc'[c] \in {"verified", "failed"}
    BY <1>5 DEF ReadBack, Goto, CInv, Types
  <2>2. Fresh(c)' /\ Empty(c)'
    BY <1>1, <2>1 DEF Fresh, Empty, Writing, Pending, ShareOps
  <2>3. ~blind'[c] => ReadShareCfg(failed) = cfg
    <3>1. ~blind'[c] => ~(failed /\ cfg # Absent)
      BY <1>5, Zenon DEF ReadBack, Misread, CInv, Types
    <3> QED
      BY <3>1 DEF ReadShareCfg
  <2>4. pc'[c] = "verified" =>
          IF op[c] = "delete" THEN ReadShareCfg(failed) = Absent
          ELSE /\ ReadShareCfg(failed) # Absent
               /\ \A f \in DOMAIN changes[c] : ReadShareCfg(failed)[f] = changes[c][f]
    BY <1>5 DEF ReadBack, Goto, CInv, Types, Verified
  <2>5. Told(c)'
    BY <1>1, <2>3, <2>4 DEF Told, server
  <2> QED
    BY <2>2, <2>5
<1> QED
  BY <1>3, <1>4, <1>5

LEMMA OwnForm ==
  ASSUME CInv, NEW c \in Calls, NEW form \in {"edit", "smb", "delete"}, FormApplied(c, form)
  PROVE  Fresh(c)' /\ Empty(c)' /\ Told(c)'
<1>1. /\ pc[c] = form /\ late[c] = "none" /\ late' = late /\ op' = op /\ changes' = changes
      /\ current' = current /\ blind' = blind /\ changes[c] \in Changes
      /\ pc'[c] = AfterForm(c, form) /\ Applies(c, form)
  BY DEF CInv, PlaceInv, Types, ShareOps, FormApplied, AtForm, Goto
<1>2. raced'[c] <=> raced[c]
  BY <1>1, OthersRace, Zenon DEF CInv
<1>3. Empty(c)' /\ Told(c)'
  BY <1>1 DEF Empty, Told, Pending, AfterForm
<1>4. Merged(c)' = Merged(c)
  BY <1>1, Zenon DEF Merged
<1>5. CASE form \in {"edit", "smb"}
  <2>1. Writing(c) /\ op[c] \in {"create", "edit"}
    BY <1>1, <1>5 DEF Writing, Pending, CInv, PlaceInv
  <2>2. ~raced[c] /\ ~blind[c] => Carries(c)' /\ (op[c] = "create" => current[c] = Absent)
    <3> SUFFICES ASSUME ~raced[c], ~blind[c]
                 PROVE  Carries(c)' /\ (op[c] = "create" => current[c] = Absent)
      OBVIOUS
    <3>1. Carries(c) /\ (op[c] = "create" => current[c] = Absent)
      BY <2>1 DEF CInv, FreshInv, Fresh
    <3>2. cfg' # Absent => \A f \in Fields \ DOMAIN changes[c] : Merged(c)[f] = cfg'[f]
      BY <1>1, <1>5, <2>1, <3>1, FormKeeps DEF CInv, Carries
    <3> QED
      BY <1>1, <1>4, <3>1, <3>2, Zenon DEF Carries
  <2>3. Fresh(c)'
    BY <1>1, <1>2, <2>1, <2>2 DEF Fresh
  <2> QED
    BY <1>3, <2>3
<1>6. CASE form = "delete"
  BY <1>1, <1>3, <1>6 DEF Fresh, Writing, Pending, AfterForm, CInv, PlaceInv
<1> QED
  BY <1>5, <1>6

LEMMA OwnRest ==
  ASSUME CInv, NEW c \in Calls, OwnStep(c), PlaceInv', Types'
  PROVE  Fresh(c)' /\ Empty(c)' /\ Told(c)'
<1>1. ASSUME NEW form \in {"edit", "smb", "delete"},
             FormIgnored(c, form) \/ FormRefused(c, form)
      PROVE  Fresh(c)' /\ Empty(c)' /\ Told(c)'
  <2>1. /\ UNCHANGED <<server, op, changes, current, entries, raced, blind>>
        /\ pc'[c] # "verified" /\ late[c] = "none" /\ late' = late
        /\ pc[c] = form /\ pc'[c] \in {AfterForm(c, form), "failed"}
    BY <1>1 DEF FormIgnored, FormRefused, AtForm, AfterForm, Goto, CInv, Types, PlaceInv
  <2>2. Writing(c)' => Writing(c)
    BY <2>1 DEF Writing, Pending, AfterForm, CInv, PlaceInv
  <2>3. Pending(c, "delete")' => Pending(c, "delete")
    BY <2>1 DEF Pending, AfterForm
  <2> QED
    BY <2>1, <2>2, <2>3, OnlyMoves, Zenon DEF CInv, FreshInv, EmptyInv
<1>2. ASSUME NEW form \in {"edit", "smb", "delete", "autostart"}, GivesUp(c, form)
      PROVE  Fresh(c)' /\ Empty(c)' /\ Told(c)'
  <2>1. /\ UNCHANGED <<server, op, changes, current, entries, raced, blind>>
        /\ pc'[c] = "failed" /\ late'[c] = form
        /\ pc[c] = form \/ (pc[c] = "write" /\ form = "autostart")
    BY <1>2 DEF GivesUp, AtForm, Goto, CInv, Types, PlaceInv
  <2>2. Writing(c)' => Writing(c)
    BY <2>1 DEF Writing, Pending, CInv, PlaceInv
  <2>3. Pending(c, "delete")' => Pending(c, "delete")
    BY <2>1 DEF Pending
  <2> QED
    BY <2>1, <2>2, <2>3, OnlyMoves DEF CInv, FreshInv, EmptyInv
<1>3. CASE ReadAutostart(c)
  <2>1. /\ op' = op /\ op[c] = "autostart" /\ entries'[c] = autostart /\ autostart' = autostart
        /\ pc'[c] = "write" /\ late[c] = "none" /\ late' = late
    BY <1>3 DEF ReadAutostart, AutostartAnswer, Goto, CInv, Types, PlaceInv, server
  <2> QED
    BY <2>1 DEF Fresh, Empty, Told, Pending
<1>4. CASE \/ ReadThrows(c) \/ ChangesInvalid(c) \/ LateForm(c) \/ LateAutostart(c)
           \/ \E place \in {"done", "noop", "failed"} : AutostartSet(c, place) \/ AutostartUnset(c, place)
           \/ \E o \in {"create", "edit", "delete", "autostart"},
                  ch \in Changes \cup AutostartChanges : Call(c, o, ch)
  <2>1. /\ pc'[c] \in {"read", "failed", "denied", "done", "noop"}
        /\ late'[c] = "none"
    BY <1>4 DEF ReadThrows, ChangesInvalid, LateForm, LateAutostart, AutostartSet, AutostartUnset,
           Call, Goto, CInv, Types, PlaceInv
  <2>2. ~Writing(c)' /\ ~Pending(c, "delete")'
    BY <2>1 DEF Writing, Pending
  <2> QED
    BY <2>1, <2>2 DEF Fresh, Empty, Told
<1> QED
  BY <1>1, <1>2, <1>3, <1>4, OwnReading, OwnLooks, OwnForm DEF OwnStep, CallStep

LEMMA KnowledgeStep ==
  ASSUME CInv, [Next]_vars, Types', PlaceInv'
  PROVE  FreshInv' /\ EmptyInv' /\ ToldInv'
<1> SUFFICES ASSUME NEW d \in Calls PROVE Fresh(d)' /\ Empty(d)' /\ Told(d)'
  BY Zenon DEF FreshInv, EmptyInv, ToldInv
<1>0. Fresh(d) /\ Empty(d) /\ Told(d)
  BY DEF CInv, FreshInv, EmptyInv, ToldInv
<1>1. ASSUME NEW c \in Calls, OwnStep(c) PROVE Fresh(d)' /\ Empty(d)' /\ Told(d)'
  <2>1. CASE d = c
    BY <1>1, <2>1, OwnRest
  <2>2. CASE d # c
    <3>1. Undisturbed(d)
      BY <1>1, <2>2, Elsewhere DEF CInv
    <3> QED
      BY <1>0, <3>1, UndisturbedKeeps
  <2> QED
    BY <2>1, <2>2
<1>2. CASE UiChanges
  BY <1>2, Zenon DEF UiChanges, Fresh, Empty, Told
<1>3. CASE UNCHANGED vars
  <2>1. Undisturbed(d)
    BY <1>3, Zenon DEF vars, server, Undisturbed
  <2> QED
    BY <1>0, <2>1, UndisturbedKeeps
<1> QED
  BY <1>1, <1>2, <1>3, Zenon DEF Next, OwnStep

-----------------------------------------------------------------------------
(* The theorems                                                            *)

LEMMA CInvInit == Init => CInv
<1> SUFFICES ASSUME Init PROVE CInv
  OBVIOUS
<1>1. Types
  <2>1. Absent \in Changes
    <3>1. Absent \in [{} -> {1}] /\ {} \in SUBSET Settings
      BY DEF Absent
    <3> QED
      BY <3>1, Zenon DEF Changes
  <2>2. ui \in 0..MaxUi
    BY MaxUiAssumption DEF Init
  <2>3. raced \in [Calls -> BOOLEAN] /\ blind \in [Calls -> BOOLEAN]
    BY Zenon DEF Init
  <2> QED
    BY <2>1, <2>2, <2>3, AutostartsAreOrders DEF Init, Types, Places
<1>2. PlaceInv /\ EffectInv
  BY DEF Init, PlaceInv, EffectInv, Pending, ShareOps
<1>3. FreshInv /\ EmptyInv /\ ToldInv
  BY <1>1, <1>2, KnowsNothing DEF Init, FreshInv, EmptyInv, ToldInv
<1> QED
  BY <1>1, <1>2, <1>3 DEF CInv

LEMMA CInvStep == CInv /\ [Next]_vars => CInv'
<1> SUFFICES ASSUME CInv, [Next]_vars PROVE CInv'
  OBVIOUS
<1>1. Types' /\ PlaceInv' /\ EffectInv'
  BY TypesStep, PlaceStep, EffectStep DEF CInv
<1> QED
  BY <1>1, KnowledgeStep DEF CInv

THEOREM Invariance == Spec => []CInv
BY CInvInit, CInvStep, PTL DEF Spec

(* Every variable stays in its type: no call brings about more than two    *)
(* forms, and the order in which containers start is never one that the    *)
(* API would not store (share-edit.ts, autostart-set.ts).                  *)
THEOREM TypeCorrect == Spec => []TypeOK
<1>1. CInv => TypeOK
  <2> SUFFICES ASSUME CInv PROVE TypeOK
    OBVIOUS
  <2>1. \A c \in Calls : applied[c] \in 0..2
    BY DEF CInv, Types, EffectInv
  <2>2. raced \in [Calls -> BOOLEAN] /\ blind \in [Calls -> BOOLEAN]
    BY Zenon DEF CInv, Types
  <2>3. /\ op \in [Calls -> {"none", "create", "edit", "delete", "autostart"}]
        /\ \A c \in Calls :
             /\ changes[c] \in Changes \cup AutostartChanges
             /\ current[c] \in Cfgs \cup {Absent} /\ entries[c] \in Autostarts
             /\ late[c] \in {"none", "edit", "smb", "delete", "autostart"}
    BY DEF CInv, Types, ShareOps
  <2> QED
    BY <2>1, <2>2, <2>3 DEF CInv, Types, Places, TypeOK
<1> QED
  BY <1>1, Invariance, PTL

(* "Verified" means that the configuration is as asked until something     *)
(* else changes it; after "no changes were made" nothing took effect, late *)
(* forms included.                                                         *)
THEOREM Honest == Spec => []OutcomesAreHonest
<1>1. CInv => OutcomesAreHonest
  <2> SUFFICES ASSUME CInv, NEW c \in Calls
               PROVE  /\ pc[c] = "verified" /\ ~raced[c] /\ ~blind[c] =>
                           IF op[c] = "delete" THEN cfg = Absent
                           ELSE cfg # Absent /\ \A f \in DOMAIN changes[c] : cfg[f] = changes[c][f]
                      /\ pc[c] \in {"denied", "noop"} => applied[c] = 0
    BY DEF OutcomesAreHonest
  <2>1. Told(c)
    BY DEF CInv, ToldInv
  <2>2. pc[c] \in {"denied", "noop"} => applied[c] = 0
    BY DEF CInv, EffectInv
  <2> QED
    BY <2>1, <2>2, Zenon DEF Told
<1> QED
  BY <1>1, Invariance, PTL

(* Only a form or mutation of its own counts as a call's effect.           *)
LEMMA EffectIsOwn ==
  ASSUME CInv, [Next]_vars, NEW c \in Calls, applied'[c] # applied[c]
  PROVE  \/ \E form \in {"edit", "smb", "delete"} : Pending(c, form) /\ Applies(c, form)
         \/ (pc[c] = "write" \/ late[c] = "autostart") /\ SetsAutostart(c)
<1>1. OwnStep(c)
  <2>1. ASSUME NEW d \in Calls, OwnStep(d) PROVE d = c
    BY <2>1, Elsewhere DEF CInv, Undisturbed
  <2>2. ~UiChanges /\ ~UNCHANGED vars
    BY DEF UiChanges, vars
  <2> QED
    BY <2>1, <2>2, Zenon DEF Next, OwnStep
<1> QED
  BY <1>1 DEF OwnStep, CallStep, LateForm, LateAutostart, Call, ReadShare, CheckAgainstHost,
     FirstEntry, ReadBack, FormApplied, FormIgnored, FormRefused, GivesUp, ReadThrows,
     ReadAutostart, ChangesInvalid, AutostartSet, AutostartUnset, AtForm, Pending

LEMMA FormKeepsTheRest ==
  ASSUME CInv, NEW c \in Calls, ~raced[c], ~blind[c],
         NEW form \in {"edit", "smb", "delete"}, Pending(c, form), Applies(c, form)
  PROVE  Keeps(c)
<1>1. op[c] \in ShareOps /\ changes[c] \in Changes /\ (form = "delete" => op[c] = "delete")
      /\ (form # "delete" => op[c] \in {"create", "edit"})
  BY DEF CInv, Types, PlaceInv, Pending, ShareOps
<1>2. CASE form # "delete"
  <2>1. Carries(c) /\ (op[c] = "create" => current[c] = Absent)
    <3>1. Writing(c) /\ op[c] # "autostart"
      BY <1>1, <1>2 DEF Writing
    <3> QED
      BY <3>1 DEF CInv, FreshInv, Fresh
  <2>2. cfg # Absent => \A f \in Fields \ DOMAIN changes[c] : cfg'[f] = cfg[f]
    BY <1>1, <1>2, <2>1, FormKeeps DEF CInv, Carries
  <2> QED
    BY <1>1, <1>2, <2>2 DEF Keeps
<1> QED
  BY <1>1, <1>2 DEF Keeps

LEMMA MutationKeepsTheRest ==
  ASSUME CInv, NEW c \in Calls, ~raced[c], ~blind[c],
         pc[c] = "write" \/ late[c] = "autostart", SetsAutostart(c)
  PROVE  Keeps(c)
<1>1. op[c] = "autostart" /\ autostart \in Autostarts /\ entries[c] = autostart
  <2>1. op[c] = "autostart"
    BY DEF CInv, Types, PlaceInv, ShareOps
  <2>2. Writing(c)
    BY <2>1 DEF Writing, Pending
  <2> QED
    BY <2>1, <2>2 DEF CInv, Types, FreshInv, Fresh
<1> DEFINE on == {id \in Ids : StartsAfter(c, id)}
<1>2. /\ autostart' = BuildEntries(c) /\ Started(autostart') = on
      /\ \A x, y \in on : SortsBefore(autostart, x, y) => autostart'[x] < autostart'[y]
  BY <1>1, BuildKeepsOrder DEF SetsAutostart
<1> DEFINE Others == Started(autostart) \ DOMAIN changes[c]
<1>3. on \ DOMAIN changes[c] = Others
  BY <1>1 DEF StartsAfter, Started
<1>4. \A x, y \in Others : autostart[x] < autostart[y] => SortsBefore(autostart, x, y)
  BY DEF SortsBefore, Started
<1>5. \A x, y \in Others : autostart[x] < autostart[y] => autostart'[x] < autostart'[y]
  BY <1>2, <1>3, <1>4
<1> HIDE DEF on
<1> QED
  BY <1>1, <1>2, <1>3, <1>5 DEF Keeps

(* No call changes what it was not asked to change, unless something else  *)
(* changed since it read, or its reading failed unnoticed: settings of the *)
(* share are carried through both forms, and the other containers that     *)
(* start at boot are the same, in the same order.                          *)
THEOREM RestKept == Spec => KeepsTheRest
<1>1. CInv /\ [Next]_vars =>
        [\A c \in Calls : applied'[c] # applied[c] /\ ~raced[c] /\ ~blind[c] => Keeps(c)]_vars
  BY EffectIsOwn, FormKeepsTheRest, MutationKeepsTheRest
<1> QED
  BY <1>1, Invariance, PTL DEF Spec, KeepsTheRest

(* A share is never deleted with data that was there when it was looked    *)
(* at, unless the look failed unnoticed, not even by a command that takes  *)
(* effect after its deadline.                                              *)
THEOREM EmptyDeletes == Spec => DeletesOnlyEmpty
<1>1. CInv /\ [Next]_vars =>
        [\A c \in Calls : /\ applied'[c] # applied[c] /\ op[c] = "delete"
                          /\ ~raced[c] /\ ~blind[c]
                          => ~data]_vars
  <2> SUFFICES ASSUME CInv, [Next]_vars, NEW c \in Calls, applied'[c] # applied[c],
                      op[c] = "delete", ~raced[c], ~blind[c]
               PROVE  ~data
    OBVIOUS
  <2>1. Pending(c, "delete")
    BY EffectIsOwn DEF CInv, PlaceInv, Types, ShareOps, Pending
  <2> QED
    BY <2>1 DEF CInv, EmptyInv, Empty
<1> QED
  BY <1>1, Invariance, PTL DEF Spec, DeletesOnlyEmpty

=============================================================================
