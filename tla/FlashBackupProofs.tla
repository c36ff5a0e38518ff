--------------------------- MODULE FlashBackupProofs ---------------------------
(***************************************************************************)
(* Proofs about FlashBackup, for any number of calls and any `keep`: what  *)
(* is reported was written whole, and pruning leaves a whole archive.      *)
(***************************************************************************)
EXTENDS FlashBackup, TLAPS, FiniteSetTheorems, WellFoundedInduction

-----------------------------------------------------------------------------
(* Orders                                                                  *)

(* A finite set in a strict order has a member that nothing precedes: one  *)
(* whose predecessors form a smallest set.                                 *)
LEMMA FirstExists ==
  ASSUME NEW S, IsFiniteSet(S), S # {}, NEW R,
         \A x \in S : <<x, x>> \notin R,
         \A x, y, z \in S : <<x, y>> \in R /\ <<y, z>> \in R => <<x, z>> \in R
  PROVE  \E m \in S : \A x \in S : <<x, m>> \notin R
<1> DEFINE Before(v) == {u \in S : <<u, v>> \in R}
           T == {Before(v) : v \in S}
<1>1. T \subseteq FiniteSubsetsOf(S) /\ T # {}
  <2>1. FiniteSubsetsOf(S) = SUBSET S
    BY FS_FiniteSubsetsOfFinite
  <2>2. \A A \in T : A \subseteq S
    OBVIOUS
  <2>3. PICK v \in S : TRUE
    OBVIOUS
  <2>4. Before(v) \in T
    OBVIOUS
  <2> HIDE DEF T
  <2> QED
    BY <2>1, <2>2, <2>4
<1>2. IsWellFoundedOn(StrictSubsetOrdering(S), FiniteSubsetsOf(S))
  BY FS_StrictSubsetOrderingWellFounded
<1>3. \E A \in T : \A B \in T : <<B, A>> \notin StrictSubsetOrdering(S)
  <2> HIDE DEF T
  <2> QED
    BY <1>1, <1>2, WFMin
<1>4. PICK m \in S : \A v \in S : <<Before(v), Before(m)>> \notin StrictSubsetOrdering(S)
  <2>1. PICK A \in T : \A B \in T : <<B, A>> \notin StrictSubsetOrdering(S)
    BY <1>3
  <2>2. PICK m \in S : A = Before(m)
    OBVIOUS
  <2>3. \A v \in S : Before(v) \in T
    OBVIOUS
  <2> HIDE DEF T, Before
  <2> QED
    BY <2>1, <2>2, <2>3
<1>5. ASSUME NEW x \in S, <<x, m>> \in R PROVE FALSE
  <2>1. x \in Before(m) /\ x \notin Before(x) /\ Before(x) \subseteq Before(m)
    BY <1>5
  <2>2. Before(x) # Before(m) /\ Before(x) \in SUBSET S /\ Before(m) \in SUBSET S
    BY <2>1
  <2>3. <<Before(x), Before(m)>> \in StrictSubsetOrdering(S)
    BY <2>1, <2>2 DEF StrictSubsetOrdering
  <2> QED
    BY <1>4, <2>3
<1> QED
  BY <1>5

-----------------------------------------------------------------------------
(* The inductive invariant                                                 *)

Started == {b \in Calls : file[b] # "none"}

(* The archives that were ever written are in the order of their last      *)
(* writing.                                                                *)
OrderInv ==
  /\ newer \subseteq Calls \X Calls
  /\ \A u \in Calls : <<u, u>> \notin newer
  /\ \A u, v \in Started : u # v => (<<u, v>> \in newer <=> <<v, u>> \notin newer)
  /\ \A u, v, w \in Started : <<u, v>> \in newer /\ <<v, w>> \in newer => <<u, w>> \in newer

(* An archive is as far as its call and its tar are.                       *)
StageInv ==
  \A b \in Calls :
    /\ file[b] = "none" => pc[b] \in {"idle", "failed"} /\ ~tar[b]
    /\ pc[b] = "idle" => file[b] = "none"
    /\ tar[b] => pc[b] \in {"archiving", "failed"} /\ file[b] \in {"partial", "removed"}
    /\ pc[b] \in {"verifying", "listing", "pruning", "reported"}
         => file[b] \in {"complete", "removed"}
    /\ pc[b] = "listing" => keep[b] # 0
    /\ rm[b] \subseteq Started

Types ==
  /\ pc \in [Calls -> Stage]
  /\ keep \in [Calls -> Keeps]
  /\ file \in [Calls -> File]
  /\ tar \in [Calls -> BOOLEAN]
  /\ rm \in [Calls -> SUBSET Calls]
  /\ unsettled \in BOOLEAN

(* w is an archive that no pruning can reach: it is complete, no victim,   *)
(* and every victim that is still there is older.                          *)
Spared(w) ==
  /\ file[w] = "complete"
  /\ \A b \in Calls :
       /\ w \notin rm[b]
       /\ \A v \in rm[b] : file[v] = "removed" \/ <<w, v>> \in newer

(* As long as no listing saw an unfinished archive, none is a victim, and  *)
(* once there was a complete archive there is one that is spared.          *)
PruneInv ==
  ~unsettled =>
    /\ \A b \in Calls : \A v \in rm[b] : file[v] \in {"complete", "removed"}
    /\ (\E v \in Calls : file[v] \in {"complete", "removed"}) => \E w \in Calls : Spared(w)

FInv == Types /\ OrderInv /\ StageInv /\ PruneInv

LEMMA Initially == Init => FInv
BY DEF Init, FInv, Types, OrderInv, StageInv, PruneInv, Started, Stage, File

-----------------------------------------------------------------------------
(* The steps, one part of the invariant at a time                          *)

LEMMA TypesStep == Types /\ [Next]_vars => Types'
<1> SUFFICES ASSUME Types, [Next]_vars PROVE Types'
  OBVIOUS
<1> USE DEF Types, Stage, File, Goto
<1>1. ASSUME NEW b \in Calls, ProbeFails(b) \/ GiveUp(b) PROVE Types'
  BY <1>1 DEF ProbeFails, GiveUp
<1>2. ASSUME NEW b \in Calls, StartArchive(b) PROVE Types'
  BY <1>2 DEF StartArchive
<1>3. ASSUME NEW b \in Calls, Verify(b) PROVE Types'
  BY <1>3 DEF Verify
<1>4. ASSUME NEW b \in Calls, PruneOlder(b) PROVE Types'
  <2>1. unsettled' \in BOOLEAN
    BY <1>4, Zenon DEF PruneOlder
  <2>2. Beyond(keep[b]) \subseteq Calls
    BY DEF Beyond, Listed
  <2> QED
    BY <1>4, <2>1, <2>2 DEF PruneOlder
<1>5. ASSUME NEW b \in Calls, TarWrites(b) PROVE Types'
  BY <1>5 DEF TarWrites
<1>6. ASSUME NEW b \in Calls, TarSucceeds(b) \/ TarFails(b) PROVE Types'
  BY <1>6 DEF TarSucceeds, TarFails, TarExits, HardFailure
<1>7. ASSUME NEW b \in Calls, RmRuns(b) PROVE Types'
  BY <1>7 DEF RmRuns
<1>8. CASE UNCHANGED vars
  BY <1>8 DEF vars
<1> QED
  BY <1>1, <1>2, <1>3, <1>4, <1>5, <1>6, <1>7, <1>8 DEF Next

(* Writing an archive puts it before all others and leaves their order.    *)
LEMMA WrittenIsNewest ==
  ASSUME OrderInv, NEW b \in Calls, Written(b), Started' \subseteq Started \union {b}
  PROVE  /\ OrderInv'
         /\ \A v \in Calls \ {b} : <<b, v>> \in newer'
         /\ \A u, v \in Calls : v # b /\ <<u, v>> \in newer => <<u, v>> \in newer'
<1>1. \A u, v \in Calls :
        <<u, v>> \in newer' <=> (u = b /\ v # b) \/ (<<u, v>> \in newer /\ v # b)
  BY DEF Written
<1>2. newer' \subseteq Calls \X Calls
  BY DEF Written, OrderInv
<1>3. Started' \subseteq Calls
  BY DEF Started
<1> QED
  BY <1>1, <1>2, <1>3 DEF OrderInv

LEMMA OrderStep == Types /\ OrderInv /\ StageInv /\ [Next]_vars => OrderInv'
<1> SUFFICES ASSUME Types, OrderInv, StageInv, [Next]_vars PROVE OrderInv'
  OBVIOUS
<1>1. ASSUME NEW b \in Calls, StartArchive(b) \/ TarWrites(b) \/ TarSucceeds(b)
      PROVE OrderInv'
  <2>1. Started' \subseteq Started \union {b}
    BY <1>1 DEF StartArchive, TarWrites, TarSucceeds, Started, Types
  <2> QED
    BY <1>1, <2>1, WrittenIsNewest DEF StartArchive, TarWrites, TarSucceeds
<1>2. ASSUME newer' = newer, Started' \subseteq Started PROVE OrderInv'
  BY <1>2 DEF OrderInv, Started
<1>3. ASSUME NEW b \in Calls,
             ProbeFails(b) \/ GiveUp(b) \/ Verify(b) \/ PruneOlder(b) \/ TarFails(b)
      PROVE OrderInv'
  BY <1>2, <1>3 DEF ProbeFails, GiveUp, Verify, PruneOlder, TarFails, Started
<1>4. ASSUME NEW b \in Calls, RmRuns(b) PROVE OrderInv'
  <2>1. newer' = newer /\ Started' \subseteq Started
    BY <1>4 DEF RmRuns, StageInv, Started
  <2> QED
    BY <1>2, <2>1
<1>5. CASE UNCHANGED vars
  BY <1>2, <1>5 DEF vars, Started
<1> QED
  BY <1>1, <1>3, <1>4, <1>5 DEF Next

LEMMA StageStep == Types /\ StageInv /\ [Next]_vars => StageInv'
<1> SUFFICES ASSUME Types, StageInv, [Next]_vars PROVE StageInv'
  OBVIOUS
<1> USE DEF Types, StageInv, Stage, File, Goto, Started
<1>1. ASSUME NEW b \in Calls, ProbeFails(b) \/ GiveUp(b) PROVE StageInv'
  BY <1>1 DEF ProbeFails, GiveUp
<1>2. ASSUME NEW b \in Calls, StartArchive(b) PROVE StageInv'
  BY <1>2 DEF StartArchive
<1>3. ASSUME NEW b \in Calls, Verify(b) PROVE StageInv'
  BY <1>3 DEF Verify
<1>4. ASSUME NEW b \in Calls, PruneOlder(b) PROVE StageInv'
  <2>1. Beyond(keep[b]) \subseteq Started
    BY DEF Beyond, Listed
  <2> QED
    BY <1>4, <2>1 DEF PruneOlder
<1>5. ASSUME NEW b \in Calls, TarWrites(b) PROVE StageInv'
  BY <1>5 DEF TarWrites
<1>6. ASSUME NEW b \in Calls, TarSucceeds(b) PROVE StageInv'
  BY <1>6 DEF TarSucceeds, TarExits
<1>7. ASSUME NEW b \in Calls, TarFails(b) PROVE StageInv'
  BY <1>7 DEF TarFails, TarExits, HardFailure
<1>8. ASSUME NEW b \in Calls, RmRuns(b) PROVE StageInv'
  BY <1>8 DEF RmRuns
<1>9. CASE UNCHANGED vars
  BY <1>9 DEF vars
<1> QED
  BY <1>1, <1>2, <1>3, <1>4, <1>5, <1>6, <1>7, <1>8, <1>9 DEF Next

-----------------------------------------------------------------------------
(* Pruning                                                                 *)

(* With every archive of the listing complete, its newest one is spared:   *)
(* `keep` of at least one spares it now, and an older spared one, which is *)
(* there still, tells that nobody chose it before.                         *)
LEMMA PruneOlderSpares ==
  ASSUME FInv, NEW b \in Calls, PruneOlder(b), ~unsettled'
  PROVE  PruneInv'
<1> USE DEF FInv, Types, PruneInv
<1>1. /\ ~unsettled /\ keep[b] \in Nat \ {0}
      /\ \A v \in Listed : file[v] = "complete"
      /\ file' = file /\ newer' = newer
      /\ rm' = [rm EXCEPT ![b] = Beyond(keep[b])]
  BY KeepsAssumption DEF PruneOlder, StageInv, Listed, File
<1>2. \A d \in Calls : \A v \in rm'[d] : file'[v] \in {"complete", "removed"}
  BY <1>1 DEF Beyond
<1>3. ASSUME NEW v \in Calls, file'[v] \in {"complete", "removed"}
      PROVE \E w \in Calls : Spared(w)'
  <2>1. PICK w \in Calls : Spared(w)
    BY <1>1, <1>3
  <2>2. w \in Listed /\ IsFiniteSet(Listed) /\ Listed \subseteq Started
    BY <2>1, CallsAssumption, FS_Subset DEF Spared, Listed, Started
  <2>3. PICK m \in Listed : \A x \in Listed : <<x, m>> \notin newer
    <3>1. Listed # {} /\ \A x \in Listed : <<x, x>> \notin newer
      BY <2>2 DEF OrderInv, Started
    <3>2. \A x, y, z \in Listed :
            <<x, y>> \in newer /\ <<y, z>> \in newer => <<x, z>> \in newer
      BY <2>2 DEF OrderInv
    <3> HIDE DEF FInv, Types, PruneInv
    <3> QED
      BY <2>2, <3>1, <3>2, FirstExists
  <2>4. m \notin Beyond(keep[b])
    <3>1. Newer(m) = {}
      BY <2>3 DEF Newer
    <3>2. ~(Cardinality(Newer(m)) >= keep[b])
      BY <1>1, <3>1, FS_EmptySet
    <3> QED
      BY <3>2, Zenon DEF Beyond
  <2>5. \A d \in Calls : m \notin rm[d]
    BY <2>1, <2>2, <2>3, <1>1 DEF Spared
  <2>6. \A x \in Listed : x # m => <<m, x>> \in newer
    BY <2>2, <2>3 DEF OrderInv
  <2>7. \A d \in Calls : \A x \in rm'[d] : x # m /\ (x \in Listed \/ file[x] = "removed")
    <3> SUFFICES ASSUME NEW d \in Calls, NEW x \in rm'[d]
                 PROVE  x # m /\ (x \in Listed \/ file[x] = "removed")
      OBVIOUS
    <3>1. CASE d = b
      BY <1>1, <2>4, <3>1 DEF Beyond
    <3>2. CASE d # b
      BY <1>1, <1>2, <2>5, <3>2 DEF Listed
    <3> QED
      BY <3>1, <3>2
  <2>8. Spared(m)'
    BY <1>1, <2>3, <2>4, <2>5, <2>6, <2>7 DEF Spared
  <2> QED
    BY <2>3, <2>8 DEF Listed
<1> QED
  BY <1>2, <1>3

(* A spared archive remains spared when another one is written.            *)
LEMMA WrittenSpares ==
  ASSUME FInv, NEW b \in Calls, Written(b), NEW w \in Calls, Spared(w), rm' = rm,
         Started' \subseteq Started \union {b},
         file'[w] = "complete", file'[b] = "removed" \/ \A d \in Calls : b \notin rm[d],
         \A v \in Calls : file[v] = "removed" => file'[v] = "removed"
  PROVE  Spared(w)'
<1>1. \A v \in Calls : v # b /\ <<w, v>> \in newer => <<w, v>> \in newer'
  BY WrittenIsNewest DEF FInv
<1> QED
  BY <1>1 DEF FInv, Types, Spared

LEMMA PruneStep == FInv /\ [Next]_vars => PruneInv'
<1> SUFFICES ASSUME FInv, [Next]_vars, ~unsettled' PROVE PruneInv'
  BY DEF PruneInv
<1> USE DEF FInv, Types, Goto
<1>0. ASSUME UNCHANGED <<file, newer, rm, unsettled>> PROVE PruneInv'
  BY <1>0 DEF PruneInv, Spared
<1>1. ASSUME NEW b \in Calls,
             ProbeFails(b) \/ GiveUp(b) \/ Verify(b) \/ TarFails(b)
      PROVE PruneInv'
  BY <1>0, <1>1 DEF ProbeFails, GiveUp, Verify, TarFails
<1>2. ASSUME NEW b \in Calls, PruneOlder(b) PROVE PruneInv'
  BY <1>2, PruneOlderSpares
<1>3. ASSUME NEW b \in Calls, StartArchive(b) PROVE PruneInv'
  <2>1. /\ file' = [file EXCEPT ![b] = "partial"] /\ file[b] = "none"
        /\ rm' = rm /\ ~unsettled /\ Written(b)
    BY <1>3 DEF StartArchive, StageInv
  <2>2. \A d \in Calls : b \notin rm[d]
    BY <2>1 DEF StageInv, Started
  <2>3. Started' \subseteq Started \union {b}
    BY <2>1 DEF Started
  <2>4. \A w \in Calls : Spared(w) => Spared(w)'
    BY <2>1, <2>2, <2>3, WrittenSpares DEF Spared
  <2> QED
    BY <2>1, <2>2, <2>4 DEF PruneInv
<1>4. ASSUME NEW b \in Calls, TarWrites(b) PROVE PruneInv'
  <2>1. file' = file /\ rm' = rm /\ ~unsettled /\ Written(b) /\ Started' = Started
    BY <1>4 DEF TarWrites, Started
  <2>2. file[b] = "removed" \/ \A d \in Calls : b \notin rm[d]
    BY <1>4, <2>1 DEF TarWrites, StageInv, PruneInv
  <2>3. \A w \in Calls : Spared(w) => Spared(w)'
    BY <2>1, <2>2, WrittenSpares DEF Spared
  <2> QED
    BY <2>1, <2>3 DEF PruneInv
<1>5. ASSUME NEW b \in Calls, TarSucceeds(b) PROVE PruneInv'
  <2>1. /\ file' = [file EXCEPT ![b] = IF @ = "partial" THEN "complete" ELSE @]
        /\ file[b] \in {"partial", "removed"}
        /\ rm' = rm /\ ~unsettled /\ Written(b)
    BY <1>5 DEF TarSucceeds, StageInv
  <2>2. Started' \subseteq Started \union {b}
    BY <2>1 DEF Started
  <2>3. CASE file[b] = "partial"
    <3>1. \A d \in Calls : b \notin rm[d]
      BY <2>1, <2>3 DEF PruneInv
    <3>2. \A v \in Calls \ {b} : <<b, v>> \in newer'
      BY <2>1, <2>2, WrittenIsNewest
    <3>3. Spared(b)'
      BY <2>1, <2>3, <3>1, <3>2 DEF Spared
    <3> QED
      BY <2>1, <2>3, <3>3 DEF PruneInv
  <2>4. CASE file[b] = "removed"
    <3>1. file' = file
      BY <2>1, <2>4
    <3>2. \A w \in Calls : Spared(w) => Spared(w)'
      BY <2>1, <2>2, <2>4, <3>1, WrittenSpares DEF Spared
    <3> QED
      BY <2>1, <3>1, <3>2 DEF PruneInv
  <2> QED
    BY <2>1, <2>3, <2>4
<1>6. ASSUME NEW b \in Calls, RmRuns(b) PROVE PruneInv'
  <2>1. /\ \A v \in Calls : file'[v] = IF v \in rm[b] THEN "removed" ELSE file[v]
        /\ rm' = [rm EXCEPT ![b] = {}]
        /\ newer' = newer /\ ~unsettled
    BY <1>6 DEF RmRuns
  <2>2. \A w \in Calls : Spared(w) => Spared(w)'
    BY <2>1 DEF Spared
  <2>3. \A v \in rm[b] : file[v] \in {"complete", "removed"}
    BY <2>1 DEF PruneInv
  <2> QED
    BY <2>1, <2>2, <2>3 DEF PruneInv
<1>7. CASE UNCHANGED vars
  BY <1>0, <1>7 DEF vars
<1> QED
  BY <1>1, <1>2, <1>3, <1>4, <1>5, <1>6, <1>7 DEF Next

LEMMA Invariance == Spec => []FInv
<1>1. FInv /\ [Next]_vars => FInv'
  BY TypesStep, OrderStep, StageStep, PruneStep DEF FInv
<1> QED
  BY <1>1, Initially, PTL DEF Spec

-----------------------------------------------------------------------------
(* Every variable keeps its type, and the archives in the directory are    *)
(* totally ordered by their last writing.                                  *)
THEOREM TypeCorrect == Spec => []TypeOK
<1>1. FInv => TypeOK
  BY DEF FInv, Types, OrderInv, TypeOK, Listed, Started
<1> QED
  BY <1>1, Invariance, PTL

(* A backup that is reported as verified was archived whole, though the    *)
(* verification does not see it: the exit code of tar did.                 *)
THEOREM ReportedWhole == Spec => []ReportedIsComplete
<1>1. FInv => ReportedIsComplete
  BY DEF FInv, StageInv, ReportedIsComplete
<1> QED
  BY <1>1, Invariance, PTL

(* Calls that prune at once, from listings however old, leave a complete   *)
(* archive, as long as no listing saw an unfinished one.                   *)
THEOREM OneIsKept == Spec => []PruningKeepsOne
<1>1. FInv => PruningKeepsOne
  BY DEF FInv, StageInv, PruneInv, Spared, PruningKeepsOne
<1> QED
  BY <1>1, Invariance, PTL

=============================================================================
