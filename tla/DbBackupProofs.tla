--------------------------- MODULE DbBackupProofs ---------------------------
(***************************************************************************)
(* Proofs about the database's backup, for any set of storage nodes, any   *)
(* shard counts, any retention and any number of snapshots, outages and    *)
(* crashes.                                                                *)
(***************************************************************************)
EXTENDS DbBackup, FiniteSetTheorems, WellFoundedInduction, TLAPS

-----------------------------------------------------------------------------
(* Facts about the operators *)

LEMMA BackupFacts ==
    /\ TotalShards \in Nat /\ NeedShards \in Nat /\ Retention \in Nat /\ Retention > 0
    /\ MaxSnapshots \in Nat /\ MaxOutages \in Nat /\ MaxCrashes \in Nat
    /\ IsFiniteSet(StorageNodes) /\ NoHolder \notin StorageNodes
  BY DbBackupAssumption

\* The smaller of two sets, when the larger is finite.
LEMMA SmallerSet ==
    ASSUME NEW S, NEW T, IsFiniteSet(T), S \subseteq T
    PROVE  /\ IsFiniteSet(S) /\ Cardinality(S) \in Nat /\ Cardinality(T) \in Nat
           /\ Cardinality(S) =< Cardinality(T)
  BY FS_Subset, FS_CardinalityType

LEMMA FiniteSnapshots ==
    ASSUME NEW S, S \subseteq Snapshots
    PROVE  IsFiniteSet(S) /\ Cardinality(S) \in Nat
  <1>1. IsFiniteSet(Snapshots)
    BY BackupFacts, FS_Interval DEF Snapshots
  <1>. QED  BY <1>1, SmallerSet

LEMMA FiniteShards ==
    ASSUME NEW S, S \subseteq ShardIdx
    PROVE  IsFiniteSet(S) /\ Cardinality(S) \in Nat
  <1>1. IsFiniteSet(ShardIdx)
    BY BackupFacts, FS_Interval DEF ShardIdx
  <1>. QED  BY <1>1, SmallerSet

\* Of some snapshots one is the newest: the numbers they are from the last one
\* have a least.
LEMMA NewestExists ==
    ASSUME NEW S, S \subseteq Snapshots, S # {}
    PROVE  \E s \in S : Newer(s, S) = {}
  <1> DEFINE Back == {MaxSnapshots - s : s \in S}
  <1>1. Back \subseteq Nat /\ Back # {}
    <2>1. ASSUME NEW s \in S PROVE MaxSnapshots - s \in Nat
      BY BackupFacts DEF Snapshots
    <2>2. Back \subseteq Nat
      BY <2>1, Zenon
    <2>. QED  BY <2>2, Zenon
  <1>2. PICK b \in Back : \A c \in Back : ~(<<c, b>> \in OpToRel(<, Nat))
    <2> HIDE DEF Back
    <2>. QED  BY <1>1, WFMin, NatLessThanWellFounded
  <1>3. \A c \in Back : ~(c < b)
    BY <1>1, <1>2 DEF OpToRel
  <1>4. PICK s \in S : b = MaxSnapshots - s
    OBVIOUS
  <1>5. ASSUME NEW t \in S, t > s  PROVE FALSE
    <2>1. MaxSnapshots - t \in Back
      OBVIOUS
    <2>2. MaxSnapshots - t < b
      BY <1>4, <1>5, BackupFacts DEF Snapshots
    <2>. QED  BY <1>3, <2>1, <2>2
  <1>. QED  BY <1>5 DEF Newer

\* The snapshot the pruning is at is one of the doomed, and the newest of them.
LEMMA VictimFacts ==
    ASSUME BackupTypeOK, doomed # {}
    PROVE  Victim \in doomed /\ Victim \in Snapshots /\ Newer(Victim, doomed) = {}
  <1>1. doomed \subseteq Snapshots
    BY DEF BackupTypeOK
  <1>2. \E s \in doomed : Newer(s, doomed) = {}
    BY <1>1, NewestExists
  <1>. QED  BY <1>1, <1>2 DEF Victim

\* A snapshot stays restorable while its list of shards and the copies it names stay.
LEMMA NamedKept ==
    ASSUME NEW s, Restorable(s),
           placement'[s] = placement[s],
           \A i \in Reachable(s, StorageNodes) : <<s, i>> \in held'[placement[s][i]]
    PROVE  Restorable(s)'
  <1>1. Reachable(s, StorageNodes) \subseteq Reachable(s, StorageNodes)'
    BY DEF Reachable
  <1>2. Reachable(s, StorageNodes)' \subseteq ShardIdx
    BY DEF Reachable
  <1>3. /\ Cardinality(Reachable(s, StorageNodes)) =< Cardinality(Reachable(s, StorageNodes)')
        /\ Cardinality(Reachable(s, StorageNodes)) \in Nat
        /\ Cardinality(Reachable(s, StorageNodes)') \in Nat
    BY <1>1, <1>2, FiniteShards, SmallerSet
  <1>. QED  BY <1>3, BackupFacts DEF Restorable

LEMMA RestorableKept ==
    ASSUME NEW s, Restorable(s),
           placement'[s] = placement[s],
           \A n \in StorageNodes, i \in ShardIdx : <<s, i>> \in held[n] => <<s, i>> \in held'[n]
    PROVE  Restorable(s)'
  <1>1. \A i \in Reachable(s, StorageNodes) : <<s, i>> \in held'[placement[s][i]]
    BY DEF Reachable
  <1>. QED  BY <1>1, NamedKept

\* With more snapshots kept, more are newer than a given one.
LEMMA NewerGrows ==
    ASSUME NEW S, NEW T, S \subseteq T, T \subseteq Snapshots, NEW s
    PROVE  /\ Cardinality(Newer(s, S)) =< Cardinality(Newer(s, T))
           /\ Cardinality(Newer(s, S)) \in Nat /\ Cardinality(Newer(s, T)) \in Nat
  <1>1. Newer(s, S) \subseteq Newer(s, T) /\ Newer(s, T) \subseteq Snapshots
    BY DEF Newer
  <1>. QED  BY <1>1, FiniteSnapshots, SmallerSet

\* What retention leaves over has, each one of it, as many newer snapshots among
\* the kept ones as retention asks for.
LEMMA KeptAreNewer ==
    ASSUME NEW S, S \subseteq Snapshots, NEW d \in OldSnapshots(S)
    PROVE  Cardinality(Newer(d, S \ OldSnapshots(S))) >= Retention
  <1> DEFINE old == OldSnapshots(S)
  <1>1. old \subseteq Snapshots /\ old # {} /\ old \subseteq S
    BY DEF OldSnapshots
  <1>2. PICK v \in old : Newer(v, old) = {}
    BY <1>1, NewestExists
  <1>3. Cardinality(Newer(v, S)) >= Retention
    BY DEF OldSnapshots
  <1> HIDE DEF old
  <1>4. d =< v /\ d \in Int /\ v \in Int
    <2>1. d \in old
      BY DEF old
    <2>. QED  BY <1>1, <1>2, <2>1 DEF Newer, Snapshots
  <1>5. Newer(v, S) \subseteq Newer(d, S \ old) /\ Newer(d, S \ old) \subseteq Snapshots
    <2>1. ASSUME NEW t \in S, t > v  PROVE t > d /\ t \notin old
      <3>1. t \in Int
        BY DEF Snapshots
      <3>. QED  BY <1>2, <1>4, <2>1, <3>1 DEF Newer
    <2>. QED  BY <2>1 DEF Newer
  <1>6. /\ Cardinality(Newer(v, S)) =< Cardinality(Newer(d, S \ old))
        /\ Cardinality(Newer(v, S)) \in Nat /\ Cardinality(Newer(d, S \ old)) \in Nat
    BY <1>5, FiniteSnapshots, SmallerSet
  <1>. QED  BY <1>3, <1>6, BackupFacts DEF old

\* An outage counts, and the count never goes back.
LEMMA OutageFacts ==
    ASSUME BackupTypeOK, NEW happens \in BOOLEAN, Outage(happens)
    PROVE  /\ outages' \in 0 .. MaxOutages /\ outages' \in Nat /\ outages' >= outages
           /\ happens => outages' = outages + 1
  <1>0. outages \in 0 .. MaxOutages
    BY Zenon DEF BackupTypeOK
  <1>1. outages \in Nat /\ outages =< MaxOutages
    BY <1>0, BackupFacts
  <1>2. CASE happens
    BY <1>1, <1>2, BackupFacts DEF Outage
  <1>3. CASE ~happens
    BY <1>1, <1>3, BackupFacts DEF Outage
  <1>. QED  BY <1>2, <1>3

-----------------------------------------------------------------------------
(* Types *)

LEMMA PlacementsType ==
    ASSUME NEW S, NEW p \in Placements(S)
    PROVE  p \in [ShardIdx -> S]
  BY DEF Placements

\* A cycle that runs has taken a snapshot.
BackupTyped == BackupTypeOK /\ (step # "idle" => taken \in Snapshots)

\* An upload adds to what the nodes hold, lists the shards of its own snapshot only,
\* and goes on when those that were acknowledged suffice.
LEMMA UploadFacts ==
    ASSUME BackupTyped, Upload
    PROVE  /\ taken \in Snapshots
           /\ outages' \in 0 .. MaxOutages /\ outages' \in Nat /\ outages' >= outages
           /\ held' \in [StorageNodes -> SUBSET (Snapshots \X ShardIdx)]
           /\ placement' \in [Snapshots -> [ShardIdx -> StorageNodes \cup {NoHolder}]]
           /\ \A s \in Snapshots \ {taken} : placement'[s] = placement[s]
           /\ \A n \in StorageNodes : held[n] \subseteq held'[n]
           /\ \A n \in StorageNodes : \A y \in held'[n] : y \in held[n] \/ y[1] = taken
           /\ nodes' \subseteq StorageNodes
           /\ step' = "idle" \/ (step' = "commit" /\ Restorable(taken)')
  <1>0. BackupTypeOK /\ step = "upload" /\ taken \in Snapshots /\ taken' = taken
    BY DEF BackupTyped, Upload
  <1>2. PICK p \in Placements(nodes), lost \in {{}} \cup {{i} : i \in ShardIdx} :
             LET landed == {i \in ShardIdx : p[i] \in alive}
                 acked  == landed \ lost
             IN  /\ lost \subseteq landed
                 /\ Outage(lost # {})
                 /\ held' = [n \in StorageNodes |->
                               held[n] \cup {<<taken, i>> : i \in {j \in landed : p[j] = n}}]
                 /\ placement' = [placement EXCEPT ![taken] =
                       [i \in ShardIdx |-> IF i \in acked THEN p[i] ELSE NoHolder]]
                 /\ step' = IF Cardinality(acked) >= NeedShards THEN "commit" ELSE "idle"
                 /\ nodes' = IF Cardinality(acked) >= NeedShards THEN nodes ELSE {}
    BY DEF Upload
  <1> DEFINE landed == {i \in ShardIdx : p[i] \in alive}
             acked  == landed \ lost
             list   == [i \in ShardIdx |-> IF i \in acked THEN p[i] ELSE NoHolder]
  <1>3. /\ placement' = [placement EXCEPT ![taken] = list]
        /\ held' = [n \in StorageNodes |->
                      held[n] \cup {<<taken, i>> : i \in {j \in landed : p[j] = n}}]
        /\ step' = IF Cardinality(acked) >= NeedShards THEN "commit" ELSE "idle"
        /\ nodes' \in {nodes, {}}
        /\ Outage(lost # {})
    BY <1>2
  <1>4. p \in [ShardIdx -> nodes] /\ nodes \subseteq StorageNodes
    BY <1>0, PlacementsType DEF BackupTypeOK
  <1>5. outages' \in 0 .. MaxOutages /\ outages' \in Nat /\ outages' >= outages
    BY <1>0, <1>3, OutageFacts
  <1>6. list \in [ShardIdx -> StorageNodes \cup {NoHolder}]
    BY <1>4
  <1>7. acked \subseteq ShardIdx /\ acked \subseteq landed /\ landed \subseteq ShardIdx
        /\ \A i \in acked : list[i] = p[i] /\ p[i] \in StorageNodes
    BY <1>4
  <1> HIDE DEF list, acked, landed
  <1>8. /\ placement' \in [Snapshots -> [ShardIdx -> StorageNodes \cup {NoHolder}]]
        /\ placement'[taken] = list
        /\ \A s \in Snapshots \ {taken} : placement'[s] = placement[s]
    BY <1>0, <1>3, <1>6 DEF BackupTypeOK
  <1>9. /\ held' \in [StorageNodes -> SUBSET (Snapshots \X ShardIdx)]
        /\ \A n \in StorageNodes : held[n] \subseteq held'[n]
        /\ \A n \in StorageNodes : \A y \in held'[n] : y \in held[n] \/ y[1] = taken
        /\ \A i \in acked : <<taken, i>> \in held'[p[i]]
    BY <1>0, <1>3, <1>7 DEF BackupTypeOK
  <1>10. acked \subseteq Reachable(taken, StorageNodes)'
    BY <1>0, <1>7, <1>8, <1>9 DEF Reachable
  <1>11. Reachable(taken, StorageNodes)' \subseteq ShardIdx
    BY DEF Reachable
  <1>12. /\ Cardinality(acked) =< Cardinality(Reachable(taken, StorageNodes)')
         /\ Cardinality(acked) \in Nat /\ Cardinality(Reachable(taken, StorageNodes)') \in Nat
    BY <1>10, <1>11, FiniteShards, SmallerSet
  <1>13. Cardinality(acked) >= NeedShards => Restorable(taken)'
    BY <1>12, BackupFacts DEF Restorable
  <1>. QED  BY <1>0, <1>3, <1>4, <1>5, <1>8, <1>9, <1>13

LEMMA BackupTypedStep == BackupTyped /\ [BackupNext]_backupVars => BackupTyped'
  <1> SUFFICES ASSUME BackupTyped, [BackupNext]_backupVars  PROVE BackupTyped'
    OBVIOUS
  <1>0. BackupTypeOK /\ (step # "idle" => taken \in Snapshots)
    BY DEF BackupTyped
  <1>1. CASE Dump
    <2>1. taken + 1 \in Snapshots /\ taken' \in 0 .. MaxSnapshots /\ taken' \in Snapshots
      BY <1>0, <1>1, BackupFacts DEF Dump, BackupTypeOK, Snapshots
    <2>. QED  BY <1>0, <1>1, <2>1 DEF Dump, BackupTypeOK, BackupTyped, seenVars
  <1>2. CASE Upload
    <2>1. step' \in {"idle", "commit"}
      BY UploadFacts, <1>2
    <2>. QED  BY <1>0, <1>2, <2>1, UploadFacts DEF Upload, BackupTypeOK, BackupTyped, seenVars
  <1>3. CASE Commit
    BY <1>0, <1>3 DEF Commit, BackupTypeOK, BackupTyped, seenVars
  <1>4. CASE WriteManifest
    <2>1. PICK written \in BOOLEAN : /\ Outage(~written)
                                     /\ manifests' = IF written THEN manifests \cup {taken} ELSE manifests
      BY <1>4 DEF WriteManifest
    <2>2. outages' \in 0 .. MaxOutages
      BY <1>0, <2>1, OutageFacts
    <2>. QED  BY <1>0, <1>4, <2>1, <2>2 DEF WriteManifest, BackupTypeOK, BackupTyped, seenVars
  <1>5. CASE Publish
    <2>1. PICK torn \in {{}} \cup {{n} : n \in nodes \cap alive} :
             /\ Outage(torn # {}) /\ alive' = alive \ torn
             /\ pinned' = PinnedAfter(torn, (nodes \cap alive) \ torn)
             /\ reached' = (nodes \cap alive) \ torn
      BY <1>5 DEF Publish
    <2>2. outages' \in 0 .. MaxOutages
      BY <1>0, <2>1, OutageFacts
    <2>3. pinned' \in [StorageNodes -> {Torn} \cup 0 .. MaxSnapshots]
      BY <1>0, <2>1 DEF PinnedAfter, BackupTypeOK
    <2>4. doomed' \in SUBSET Snapshots /\ step' \in {"idle", "prune"} /\ step # "idle"
      BY <1>0, <1>5 DEF Publish, OldSnapshots, BackupTypeOK
    <2>. QED  BY <1>0, <1>5, <2>1, <2>2, <2>3, <2>4 DEF Publish, BackupTypeOK, BackupTyped
  <1>6. CASE PruneShards
    <2>1. held' \in [StorageNodes -> SUBSET (Snapshots \X ShardIdx)]
      BY <1>0, <1>6 DEF PruneShards, BackupTypeOK
    <2>. QED  BY <1>0, <1>6, <2>1 DEF PruneShards, BackupTypeOK, BackupTyped, seenVars
  <1>7. CASE PruneRow
    BY <1>0, <1>7 DEF PruneRow, BackupTypeOK, BackupTyped, seenVars
  <1>8. CASE PruneFile
    BY <1>0, <1>8 DEF PruneFile, BackupTypeOK, BackupTyped, seenVars
  <1>9. CASE Crash
    BY <1>0, <1>9, BackupFacts DEF Crash, BackupTypeOK, BackupTyped, seenVars
  <1>10. ASSUME NEW n \in StorageNodes, NodeDown(n) \/ NodeUp(n)  PROVE BackupTyped'
    BY <1>0, <1>10, BackupFacts DEF NodeDown, NodeUp, BackupTypeOK, BackupTyped, seenVars
  <1>11. ASSUME NEW disk \in BOOLEAN, LoseDatabase(disk)  PROVE BackupTyped'
    <2>1. dbUp' \in BOOLEAN /\ manifests' \in SUBSET Snapshots
      BY <1>0, <1>11 DEF LoseDatabase, BackupTypeOK
    <2>. QED  BY <1>0, <1>11, <2>1, BackupFacts DEF LoseDatabase, BackupTypeOK, BackupTyped, seenVars
  <1>12. ASSUME NEW s \in Snapshots, Restore(s)  PROVE BackupTyped'
    BY <1>0, <1>12 DEF Restore, BackupTypeOK, BackupTyped, seenVars
  <1>13. CASE RestoreLocal \/ RestoreMesh
    BY <1>0, <1>12, <1>13 DEF RestoreLocal, RestoreMesh, BackupTypeOK
  <1>14. CASE UNCHANGED backupVars
    BY <1>0, <1>14 DEF backupVars, BackupTypeOK, BackupTyped
  <1>15. ASSUME NEW n \in StorageNodes, SweepList(n)  PROVE BackupTyped'
    <2>1. orphans' \subseteq {<<n, x[1], x[2]>> : x \in {y \in held[n] : ~Referenced(y[1], y[2])}}
      BY <1>15 DEF SweepList
    <2>2. held[n] \subseteq Snapshots \X ShardIdx
      BY <1>0 DEF BackupTypeOK
    <2>3. orphans' \subseteq StorageNodes \X Snapshots \X ShardIdx
      BY <2>1, <2>2
    <2>4. swept' \subseteq Snapshots
      BY <1>0, <1>15, <2>3 DEF SweepList, BackupTypeOK
    <2>. QED  BY <1>0, <1>15, <2>3, <2>4 DEF SweepList, BackupTypeOK, BackupTyped
  <1>16. ASSUME NEW x \in orphans, SweepDelete(x)  PROVE BackupTyped'
    <2>1. x \in StorageNodes \X Snapshots \X ShardIdx
      BY <1>0 DEF BackupTypeOK
    <2>2. held' \in [StorageNodes -> SUBSET (Snapshots \X ShardIdx)]
      BY <1>0, <1>16, <2>1 DEF SweepDelete, BackupTypeOK
    <2>3. orphans' \in SUBSET (StorageNodes \X Snapshots \X ShardIdx)
      BY <1>0, <1>16 DEF SweepDelete, BackupTypeOK
    <2>. QED  BY <1>0, <1>16, <2>2, <2>3 DEF SweepDelete, BackupTypeOK, BackupTyped, seenVars
  <1>. QED  BY <1>1, <1>2, <1>3, <1>4, <1>5, <1>6, <1>7, <1>8, <1>9, <1>10, <1>11, <1>13, <1>14,
               <1>15, <1>16
            DEF BackupNext, BackupStep, BackupSweep, BackupEnv

LEMMA BackupTypedInit == BackupInit => BackupTyped
  <1> SUFFICES ASSUME BackupInit  PROVE BackupTyped
    OBVIOUS
  <1>1. dbUp \in BOOLEAN
    BY Zenon DEF BackupInit
  <1>. QED  BY <1>1, BackupFacts DEF BackupInit, BackupTypeOK, BackupTyped

LEMMA BackupTypedAlways == BackupSpec => []BackupTyped
  BY BackupTypedInit, BackupTypedStep, PTL DEF BackupSpec

\* Type correctness of the backup of the database, for any numbers of nodes, shards,
\* snapshots, outages and crashes.
THEOREM BackupTypeCorrect == BackupSpec => []BackupTypeOK
  BY BackupTypedAlways, PTL DEF BackupTyped

-----------------------------------------------------------------------------
(* The snapshots that retention keeps *)

Pruning == step \in {"prune", "prunerow", "prunefile"}

\* Rows name snapshots that were taken, and a cycle runs on a database that is up,
\* for a snapshot newer than its last restore.
RowsInv ==
    /\ snapRows \subseteq 1 .. taken
    /\ \A s \in Snapshots : dumpRows[s] \subseteq 1 .. taken
    /\ restoredAt =< taken
    /\ step # "idle" => dbUp
    /\ step # "idle" => restoredAt < taken
    /\ step \in {"upload", "commit"} => taken \notin snapRows

\* What the sweep has found and not yet deleted is of no use to a snapshot that is, or
\* will be, recorded, unless the sweep met that snapshot before its commit or the
\* database was restored since.
Harmless(x) ==
    placement[x[2]][x[3]] = x[1] =>
        x[2] \in swept \/ x[2] =< restoredAt \/ (x[2] \notin snapRows /\ ~Uncommitted(x[2]))

\* The nodes hold shards of snapshots whose upload has begun, and the sweep knows of
\* no others.
SweepInv ==
    /\ \A n \in StorageNodes : \A y \in held[n] : y[1] =< taken /\ (step = "upload" => y[1] < taken)
    /\ \A x \in orphans : /\ x[2] =< taken /\ (step = "upload" => x[2] < taken)
                        /\ Harmless(x)
    /\ orphans # {} => dbUp

\* The snapshot of the cycle is restorable from its upload until the pruning, but for
\* the sweep; the pruning deletes nothing the kept snapshots need: each doomed one has
\* Retention newer ones that are kept.
PruneInv ==
    /\ step \in {"commit", "manifest", "publish"} => taken \in swept \/ Restorable(taken)
    /\ step \in {"manifest", "publish"} \/ Pruning => taken \in snapRows
    /\ Pruning => doomed # {}
    /\ Pruning => \A d \in doomed : Cardinality(Newer(d, snapRows \ doomed)) >= Retention
    /\ step = "prunefile" => Victim \notin snapRows

\* Steps that change neither the rows nor the cycle keep all of it.
LEMMA RowsKept ==
    ASSUME RowsInv, UNCHANGED <<snapRows, dumpRows, taken, restoredAt, dbUp>>,
           step' = step \/ step' \notin {"upload", "commit"}, step' # "idle" => step # "idle"
    PROVE  RowsInv'
  BY DEF RowsInv

LEMMA RetainedKept ==
    ASSUME RetainedRestorable, UNCHANGED <<snapRows, restoredAt>>, swept \subseteq swept',
           \A s \in snapRows : Cardinality(Newer(s, snapRows)) < Retention /\ Restorable(s) => Restorable(s)'
    PROVE  RetainedRestorable'
  BY DEF RetainedRestorable, Newer

LEMMA SameRestorable ==
    ASSUME UNCHANGED <<placement, held>>, NEW s
    PROVE  Restorable(s)' <=> Restorable(s)
  BY DEF Restorable, Reachable

LEMMA RowsStep == BackupTyped /\ RowsInv /\ [BackupNext]_backupVars => RowsInv'
  <1> SUFFICES ASSUME BackupTyped, RowsInv, [BackupNext]_backupVars  PROVE RowsInv'
    OBVIOUS
  <1>0. /\ taken \in Nat /\ restoredAt \in Nat
        /\ snapRows \subseteq Snapshots
        /\ dumpRows \in [Snapshots -> SUBSET Snapshots]
    <2>1. taken \in 0 .. MaxSnapshots /\ restoredAt \in 0 .. MaxSnapshots
      BY Zenon DEF BackupTyped, BackupTypeOK
    <2>. QED  BY <2>1 DEF BackupTyped, BackupTypeOK
  <1>1. CASE Dump
    <2>1. /\ taken' = taken + 1 /\ snapRows' = snapRows /\ restoredAt' = restoredAt /\ step' = "upload"
          /\ dumpRows' = [dumpRows EXCEPT ![taken + 1] = snapRows]
      BY <1>1 DEF Dump
    <2>2. dbUp'
      BY <1>1 DEF Dump
    <2>3. 1 .. taken \subseteq 1 .. taken' /\ taken' \notin 1 .. taken
      BY <1>0, <2>1
    <2>4. snapRows' \subseteq 1 .. taken' /\ taken' \notin snapRows'
      BY <2>1, <2>3 DEF RowsInv
    <2>5. \A s \in Snapshots : dumpRows'[s] \subseteq 1 .. taken'
      BY <1>0, <2>1, <2>3 DEF RowsInv
    <2>6. restoredAt' < taken' /\ restoredAt' =< taken'
      BY <1>0, <2>1 DEF RowsInv
    <2>. QED  BY <2>2, <2>4, <2>5, <2>6 DEF RowsInv
  <1>2. CASE Upload
    BY <1>2, UploadFacts DEF Upload, RowsInv
  <1>3. CASE Commit
    <2>1. taken \in 1 .. taken
      BY <1>3, BackupFacts DEF BackupTyped, Commit, Snapshots
    <2>. QED  BY <1>3, <2>1 DEF Commit, RowsInv
  <1>4. CASE WriteManifest \/ Publish \/ PruneShards \/ PruneFile \/ Crash
    <2>1. step' \notin {"upload", "commit"} /\ (step' # "idle" => step # "idle")
      BY <1>4 DEF WriteManifest, Publish, PruneShards, PruneFile, Crash
    <2>2. UNCHANGED <<snapRows, dumpRows, taken, restoredAt, dbUp>>
      BY <1>4 DEF WriteManifest, Publish, PruneShards, PruneFile, Crash
    <2>. QED  BY <2>1, <2>2, RowsKept
  <1>5. CASE PruneRow
    BY <1>5 DEF PruneRow, RowsInv
  <1>6. ASSUME NEW n \in StorageNodes, NodeDown(n) \/ NodeUp(n) \/ SweepList(n)  PROVE RowsInv'
    BY <1>6, RowsKept DEF NodeDown, NodeUp, SweepList
  <1>11. ASSUME NEW x \in orphans, SweepDelete(x)  PROVE RowsInv'
    BY <1>11, RowsKept DEF SweepDelete
  <1>7. ASSUME NEW disk \in BOOLEAN, LoseDatabase(disk)  PROVE RowsInv'
    BY <1>7 DEF LoseDatabase, RowsInv
  <1>8. ASSUME NEW s \in Snapshots, Restore(s)  PROVE RowsInv'
    <2>1. step = "idle"
      BY <1>8 DEF Restore, RowsInv
    <2>2. taken =< taken
      BY <1>0
    <2>. QED  BY <1>8, <2>1, <2>2 DEF Restore, RowsInv
  <1>9. CASE RestoreLocal \/ RestoreMesh
    BY <1>8, <1>9 DEF RestoreLocal, RestoreMesh, BackupTyped, BackupTypeOK
  <1>10. CASE UNCHANGED backupVars
    BY <1>10 DEF backupVars, RowsInv
  <1>. QED  BY <1>1, <1>2, <1>3, <1>4, <1>5, <1>6, <1>7, <1>9, <1>10, <1>11
            DEF BackupNext, BackupStep, BackupSweep, BackupEnv

\* Steps that change neither the lists of shards nor what is recorded or about to be.
LEMMA HarmlessKept ==
    ASSUME NEW x, Harmless(x), UNCHANGED <<placement, restoredAt>>, snapRows' \subseteq snapRows,
           swept \subseteq swept', Uncommitted(x[2])' => Uncommitted(x[2])
    PROVE  Harmless(x)'
  BY DEF Harmless

LEMMA SweepKept ==
    ASSUME SweepInv, UNCHANGED <<placement, restoredAt, taken, dbUp>>, snapRows' \subseteq snapRows,
           swept \subseteq swept', orphans' \subseteq orphans,
           \A n \in StorageNodes : held'[n] \subseteq held[n],
           step' \in {"upload", "commit"} => step' = step
    PROVE  SweepInv'
  <1>1. \A x : Uncommitted(x)' => Uncommitted(x)
    BY DEF Uncommitted
  <1>2. ASSUME NEW x \in orphans'  PROVE Harmless(x)'
    BY <1>1, <1>2, HarmlessKept DEF SweepInv
  <1>. QED  BY <1>2 DEF SweepInv

LEMMA SweepStep ==
    BackupTyped /\ RowsInv /\ SweepInv /\ [BackupNext]_backupVars => SweepInv'
  <1> SUFFICES ASSUME BackupTyped, RowsInv, SweepInv, [BackupNext]_backupVars  PROVE SweepInv'
    OBVIOUS
  <1>0. /\ BackupTypeOK
        /\ taken \in Nat /\ restoredAt \in Nat
        /\ held \in [StorageNodes -> SUBSET (Snapshots \X ShardIdx)]
        /\ orphans \in SUBSET (StorageNodes \X Snapshots \X ShardIdx)
    <2>1. taken \in 0 .. MaxSnapshots /\ restoredAt \in 0 .. MaxSnapshots
      BY Zenon DEF BackupTyped, BackupTypeOK
    <2>. QED  BY <2>1 DEF BackupTyped, BackupTypeOK
  <1>a. /\ \A n \in StorageNodes : \A y \in held[n] : y[1] \in Nat
        /\ \A x \in orphans : x[2] \in Nat
    BY <1>0 DEF Snapshots
  <1>1. CASE Dump
    <2>1. /\ taken' = taken + 1 /\ step' = "upload"
          /\ UNCHANGED <<held, orphans, dbUp, placement, restoredAt, snapRows, swept>>
      BY <1>1 DEF Dump, seenVars
    <2>2. \A x : ~Uncommitted(x)'
      BY <2>1 DEF Uncommitted
    <2>3. \A x \in orphans : Harmless(x)'
      BY <2>1, <2>2, HarmlessKept DEF SweepInv
    <2>4. \A n \in StorageNodes : \A y \in held[n] : y[1] =< taken' /\ y[1] < taken'
      BY <1>0, <1>a, <2>1 DEF SweepInv
    <2>5. \A x \in orphans : x[2] =< taken' /\ x[2] < taken'
      BY <1>0, <1>a, <2>1 DEF SweepInv
    <2>. QED  BY <2>1, <2>3, <2>4, <2>5 DEF SweepInv
  <1>2. CASE Upload
    <2>1. /\ step = "upload" /\ step' \in {"idle", "commit"}
          /\ UNCHANGED <<taken, orphans, dbUp, restoredAt, snapRows, swept>>
          /\ \A s \in Snapshots \ {taken} : placement'[s] = placement[s]
          /\ \A n \in StorageNodes : \A y \in held'[n] : y \in held[n] \/ y[1] = taken
      BY <1>2, UploadFacts DEF Upload, seenVars
    <2>2. \A n \in StorageNodes : \A y \in held'[n] : y[1] =< taken
      BY <1>0, <1>a, <2>1 DEF SweepInv
    <2>3. ASSUME NEW x \in orphans  PROVE x[2] =< taken /\ Harmless(x)'
      <3>1. x[2] < taken /\ x[2] \in Snapshots \ {taken} /\ x[2] =< taken
        BY <1>0, <1>a, <2>1, <2>3 DEF SweepInv
      <3>2. ~Uncommitted(x[2])'
        BY <1>0, <1>a, <2>1, <3>1 DEF Uncommitted
      <3>. QED  BY <2>1, <3>1, <3>2 DEF SweepInv, Harmless
    <2>. QED  BY <2>1, <2>2, <2>3 DEF SweepInv
  <1>3. CASE Commit
    <2>1. /\ step = "commit" /\ step' = "manifest" /\ snapRows' = snapRows \cup {taken}
          /\ UNCHANGED <<taken, held, orphans, dbUp, placement, restoredAt, swept>>
      BY <1>3 DEF Commit, seenVars
    <2>2. ASSUME NEW x \in orphans  PROVE Harmless(x)'
      <3>1. Harmless(x)
        BY <2>2 DEF SweepInv
      <3>2. CASE x[2] = taken
        <4>1. Uncommitted(x[2])
          BY <2>1, <3>2 DEF Uncommitted
        <4>. QED  BY <2>1, <3>1, <4>1 DEF Harmless
      <3>3. CASE x[2] # taken
        <4>1. ~Uncommitted(x[2])'
          BY <2>1, <3>3 DEF Uncommitted
        <4>. QED  BY <2>1, <3>1, <3>3, <4>1 DEF Harmless
      <3>. QED  BY <3>2, <3>3
    <2>. QED  BY <2>1, <2>2 DEF SweepInv
  <1>4. CASE WriteManifest \/ Publish \/ PruneRow \/ PruneFile \/ Crash \/ UNCHANGED backupVars
    <2>1. /\ UNCHANGED <<placement, restoredAt, taken, dbUp, held, swept>>
          /\ snapRows' \subseteq snapRows /\ orphans' \subseteq orphans
          /\ step' \in {"upload", "commit"} => step' = step
      BY <1>4 DEF WriteManifest, Publish, PruneRow, PruneFile, Crash, backupVars, seenVars
    <2>. QED  BY <2>1, SweepKept
  <1>5. CASE PruneShards
    <2>1. /\ UNCHANGED <<placement, restoredAt, taken, dbUp, snapRows, orphans, swept>>
          /\ step' = "prunerow"
          /\ \A n \in StorageNodes : held'[n] \subseteq held[n]
      BY <1>0, <1>5 DEF PruneShards, seenVars
    <2>. QED  BY <2>1, SweepKept
  <1>6. ASSUME NEW n \in StorageNodes, NodeDown(n) \/ NodeUp(n)  PROVE SweepInv'
    <2>1. UNCHANGED <<placement, restoredAt, taken, dbUp, held, snapRows, orphans, swept, step>>
      BY <1>6 DEF NodeDown, NodeUp, seenVars
    <2>. QED  BY <2>1, SweepKept
  <1>7. ASSUME NEW disk \in BOOLEAN, LoseDatabase(disk)  PROVE SweepInv'
    BY <1>7 DEF LoseDatabase, SweepInv
  <1>8. ASSUME NEW s \in Snapshots, Restore(s)  PROVE SweepInv'
    BY <1>8 DEF Restore, SweepInv
  <1>9. CASE RestoreLocal \/ RestoreMesh
    BY <1>0, <1>8, <1>9 DEF RestoreLocal, RestoreMesh, BackupTypeOK
  <1>10. ASSUME NEW n \in StorageNodes, SweepList(n)  PROVE SweepInv'
    <2>1. /\ dbUp /\ UNCHANGED <<taken, held, step, dbUp, placement, restoredAt, snapRows>>
          /\ orphans' \subseteq {<<n, x[1], x[2]>> : x \in {y \in held[n] : ~Referenced(y[1], y[2])}}
          /\ swept' = swept \cup {x[2] : x \in {y \in orphans' : Uncommitted(y[2]) /\ placement[y[2]][y[3]] = n}}
      BY <1>10 DEF SweepList
    <2>2. ASSUME NEW x \in orphans'
          PROVE  x[2] =< taken /\ (step = "upload" => x[2] < taken) /\ Harmless(x)'
      <3>1. PICK y \in held[n] : x = <<n, y[1], y[2]>> /\ ~Referenced(y[1], y[2])
        BY <2>1, <2>2
      <3>2. x[2] =< taken /\ (step = "upload" => x[2] < taken)
        BY <3>1 DEF SweepInv
      <3>3. ASSUME placement[x[2]][x[3]] = x[1]
            PROVE  x[2] \in swept' \/ (x[2] \notin snapRows /\ ~Uncommitted(x[2]))
        <4>1. x[1] = n /\ x[2] = y[1] /\ x[3] = y[2] /\ n # NoHolder
          BY <3>1, BackupFacts
        <4>2. x[2] \notin snapRows
          BY <3>1, <3>3, <4>1 DEF Referenced
        <4>3. Uncommitted(x[2]) => x[2] \in swept'
          BY <2>1, <2>2, <3>3, <4>1
        <4>. QED  BY <4>2, <4>3
      <3>4. Uncommitted(x[2])' <=> Uncommitted(x[2])
        BY <2>1 DEF Uncommitted
      <3>5. Harmless(x)'
        BY <2>1, <3>3, <3>4 DEF Harmless
      <3>. QED  BY <3>2, <3>5
    <2>. QED  BY <2>1, <2>2 DEF SweepInv
  <1>11. ASSUME NEW x \in orphans, SweepDelete(x)  PROVE SweepInv'
    <2>1. /\ UNCHANGED <<placement, restoredAt, taken, dbUp, snapRows, swept, step>>
          /\ orphans' \subseteq orphans
          /\ \A n \in StorageNodes : held'[n] \subseteq held[n]
      BY <1>0, <1>11 DEF SweepDelete, seenVars
    <2>. QED  BY <2>1, SweepKept
  <1>. QED  BY <1>1, <1>2, <1>3, <1>4, <1>5, <1>6, <1>7, <1>9, <1>10, <1>11
            DEF BackupNext, BackupStep, BackupSweep, BackupEnv

\* A deletion by the sweep leaves a snapshot restorable that needs none of what it found.
LEMMA SweepSpares ==
    ASSUME BackupTypeOK, NEW x \in orphans, SweepDelete(x), NEW s, Restorable(s),
           placement[x[2]][x[3]] = x[1] => x[2] # s
    PROVE  Restorable(s)'
  <1>1. /\ x \in StorageNodes \X Snapshots \X ShardIdx
        /\ held \in [StorageNodes -> SUBSET (Snapshots \X ShardIdx)]
        /\ UNCHANGED placement
        /\ held' = IF x[1] \in alive THEN [held EXCEPT ![x[1]] = @ \ {<<x[2], x[3]>>}] ELSE held
    BY DEF BackupTypeOK, SweepDelete
  <1>2. ASSUME NEW i \in Reachable(s, StorageNodes)  PROVE <<s, i>> \in held'[placement[s][i]]
    <2>1. placement[s][i] \in StorageNodes /\ <<s, i>> \in held[placement[s][i]]
      BY <1>2 DEF Reachable
    <2>2. <<s, i>> # <<x[2], x[3]>> \/ placement[s][i] # x[1]
      OBVIOUS
    <2>. QED  BY <1>1, <2>1, <2>2
  <1>. QED  BY <1>1, <1>2, NamedKept

\* Nothing the sweep has found is needed by a snapshot recorded since the last
\* restore that it did not meet before.
LEMMA FoundSpares ==
    ASSUME BackupTyped, SweepInv, NEW x \in orphans, NEW s \in snapRows, s > restoredAt, s \notin swept
    PROVE  placement[x[2]][x[3]] = x[1] => x[2] # s
  <1>1. restoredAt \in 0 .. MaxSnapshots
    BY Zenon DEF BackupTyped, BackupTypeOK
  <1>2. s \in Nat /\ restoredAt \in Nat
    <2>1. s \in Snapshots
      BY Zenon DEF BackupTyped, BackupTypeOK
    <2>. QED  BY <1>1, <2>1, BackupFacts DEF Snapshots
  <1>3. Harmless(x)
    BY DEF SweepInv
  <1>. QED  BY <1>2, <1>3 DEF Harmless

\* The snapshot of the cycle is not among the doomed.
LEMMA TakenKept ==
    ASSUME BackupTyped, RowsInv, PruneInv, Pruning
    PROVE  taken \notin doomed
  <1>1. taken \in 0 .. MaxSnapshots
    BY Zenon DEF BackupTyped, BackupTypeOK
  <1>2. ASSUME NEW t \in snapRows  PROVE ~(t > taken)
    <2>1. t \in 1 .. taken
      BY DEF RowsInv
    <2>. QED  BY <1>1, <2>1, BackupFacts
  <1>3. Newer(taken, snapRows \ doomed) = {}
    BY <1>2 DEF Newer
  <1>4. ASSUME taken \in doomed  PROVE FALSE
    <2>1. Cardinality(Newer(taken, snapRows \ doomed)) >= Retention
      BY <1>4 DEF PruneInv
    <2>. QED  BY <1>3, <2>1, FS_EmptySet, BackupFacts
  <1>. QED  BY <1>4

LEMMA PruneStep ==
    BackupTyped /\ RowsInv /\ SweepInv /\ PruneInv /\ RetainedRestorable /\ [BackupNext]_backupVars
        => PruneInv' /\ RetainedRestorable'
  <1> SUFFICES ASSUME BackupTyped, RowsInv, SweepInv, PruneInv, RetainedRestorable, [BackupNext]_backupVars
               PROVE  PruneInv' /\ RetainedRestorable'
    OBVIOUS
  <1>0. /\ BackupTypeOK
        /\ snapRows \subseteq Snapshots /\ doomed \subseteq Snapshots
        /\ placement \in [Snapshots -> [ShardIdx -> StorageNodes \cup {NoHolder}]]
        /\ held \in [StorageNodes -> SUBSET (Snapshots \X ShardIdx)]
    BY DEF BackupTyped, BackupTypeOK
  <1>1. CASE Dump
    <2>1. step' = "upload" /\ UNCHANGED <<snapRows, restoredAt, placement, held, swept>>
      BY <1>1 DEF Dump, seenVars
    <2>. QED  BY <2>1, SameRestorable, RetainedKept DEF PruneInv, Pruning
  <1>2. CASE Upload
    <2>1. /\ UNCHANGED <<snapRows, restoredAt, taken, swept>> /\ step = "upload"
          /\ step' = "idle" \/ (step' = "commit" /\ Restorable(taken)')
      BY <1>2, UploadFacts DEF Upload, seenVars
    <2>2. ASSUME NEW s \in snapRows, Restorable(s)  PROVE Restorable(s)'
      <3>1. s \in Snapshots \ {taken}
        BY <1>0, <2>1 DEF RowsInv
      <3>2. /\ placement'[s] = placement[s]
            /\ \A n \in StorageNodes, i \in ShardIdx : <<s, i>> \in held[n] => <<s, i>> \in held'[n]
        BY <1>2, <3>1, UploadFacts
      <3>. QED  BY <2>2, <3>2, RestorableKept
    <2>3. RetainedRestorable'
      BY <2>1, <2>2, RetainedKept
    <2>. QED  BY <2>1, <2>3 DEF PruneInv, Pruning
  <1>3. CASE Commit
    <2>1. /\ snapRows' = snapRows \cup {taken} /\ step' = "manifest"
          /\ UNCHANGED <<taken, restoredAt, placement, held, swept>>
          /\ taken \in swept \/ Restorable(taken)
          /\ taken \in Snapshots
      BY <1>3 DEF Commit, PruneInv, BackupTyped, seenVars
    <2>2. PruneInv'
      BY <2>1, SameRestorable DEF PruneInv, Pruning
    <2>3. ASSUME NEW s \in snapRows', Cardinality(Newer(s, snapRows')) < Retention, s > restoredAt,
                 s \notin swept
          PROVE  Restorable(s)'
      <3>1. CASE s = taken
        BY <2>1, <2>3, <3>1, SameRestorable
      <3>2. CASE s # taken
        <4>1. s \in snapRows /\ snapRows \subseteq snapRows' /\ snapRows' \subseteq Snapshots
          BY <1>0, <2>1, <2>3, <3>2
        <4>2. Cardinality(Newer(s, snapRows)) < Retention
          BY <2>3, <4>1, NewerGrows, BackupFacts
        <4>3. Restorable(s)
          BY <2>3, <4>1, <4>2 DEF RetainedRestorable
        <4>. QED  BY <2>1, <4>3, SameRestorable
      <3>. QED  BY <3>1, <3>2
    <2>4. RetainedRestorable'
      BY <2>1, <2>3 DEF RetainedRestorable, Newer
    <2>. QED  BY <2>2, <2>4
  <1>4. CASE WriteManifest
    <2>1. /\ step = "manifest" /\ step' = "publish"
          /\ UNCHANGED <<taken, snapRows, restoredAt, placement, held, swept>>
      BY <1>4 DEF WriteManifest, seenVars
    <2>. QED  BY <2>1, SameRestorable, RetainedKept DEF PruneInv, Pruning
  <1>5. CASE Publish
    <2>1. /\ step = "publish" /\ doomed' = OldSnapshots(snapRows)
          /\ step' = IF OldSnapshots(snapRows) = {} THEN "idle" ELSE "prune"
          /\ UNCHANGED <<taken, snapRows, restoredAt, placement, held, swept>>
      BY <1>5 DEF Publish
    <2>2. \A d \in doomed' : Cardinality(Newer(d, snapRows \ doomed')) >= Retention
      BY <1>0, <2>1, KeptAreNewer
    <2>3. PruneInv'
      BY <2>1, <2>2 DEF PruneInv, Pruning, Newer
    <2>. QED  BY <2>1, <2>3, SameRestorable, RetainedKept
  <1>6. CASE PruneShards
    <2>1. /\ step = "prune" /\ step' = "prunerow"
          /\ UNCHANGED <<taken, snapRows, restoredAt, placement, doomed, swept>>
          /\ Victim \in doomed
      BY <1>0, <1>6, VictimFacts DEF PruneShards, PruneInv, Pruning, seenVars
    <2>2. ASSUME NEW s \in snapRows, Cardinality(Newer(s, snapRows)) < Retention, Restorable(s)
          PROVE  Restorable(s)'
      <3>1. s # Victim
        <4>1. ASSUME s = Victim  PROVE FALSE
          <5>1. Cardinality(Newer(s, snapRows \ doomed)) >= Retention
            BY <2>1, <4>1 DEF PruneInv, Pruning
          <5>. QED  BY <1>0, <2>2, <5>1, NewerGrows, BackupFacts
        <4>. QED  BY <4>1
      <3>2. \A n \in StorageNodes, i \in ShardIdx : <<s, i>> \in held[n] => <<s, i>> \in held'[n]
        BY <1>6, <3>1 DEF PruneShards
      <3>. QED  BY <2>1, <2>2, <3>2, RestorableKept
    <2>3. PruneInv'
      BY <2>1 DEF PruneInv, Pruning, Newer
    <2>. QED  BY <2>1, <2>2, <2>3, RetainedKept
  <1>7. CASE PruneRow
    <2>1. PICK v \in doomed : /\ v = Victim /\ v \in Snapshots
                              /\ Cardinality(Newer(v, snapRows \ doomed)) >= Retention
      BY <1>0, <1>7, VictimFacts DEF PruneRow, PruneInv, Pruning
    <2>2. /\ snapRows' = snapRows \ {v} /\ step' = "prunefile" /\ step = "prunerow"
          /\ UNCHANGED <<taken, restoredAt, placement, held, doomed, swept>>
      BY <1>7, <2>1 DEF PruneRow, seenVars
    <2>3. snapRows' \ doomed' = snapRows \ doomed
      BY <2>1, <2>2
    <2>4. Victim' = v
      BY <2>1, <2>2 DEF Victim, Newer
    <2>5. taken # v
      BY <2>1, <2>2, TakenKept DEF Pruning
    <2>6. PruneInv'
      <3>1. taken' \in snapRows'
        BY <2>2, <2>5 DEF PruneInv, Pruning
      <3>2. \A d \in doomed' : Cardinality(Newer(d, snapRows' \ doomed')) >= Retention
        BY <2>2, <2>3 DEF PruneInv, Pruning
      <3>. QED  BY <2>1, <2>2, <2>4, <3>1, <3>2 DEF PruneInv, Pruning, Newer
    <2>7. ASSUME NEW s \in snapRows', Cardinality(Newer(s, snapRows')) < Retention, s > restoredAt,
                 s \notin swept
          PROVE  Restorable(s)'
      <3>1. s \in Int /\ v \in Int /\ s # v /\ s \in snapRows
        BY <1>0, <2>2, <2>7 DEF Snapshots
      <3>2. s > v
        <4>1. ASSUME s < v  PROVE FALSE
          <5>1. Newer(v, snapRows \ doomed) \subseteq Newer(s, snapRows') /\ Newer(s, snapRows') \subseteq Snapshots
            <6>1. ASSUME NEW t \in snapRows \ doomed, t > v  PROVE t \in snapRows' /\ t > s
              BY <1>0, <2>1, <2>2, <3>1, <4>1, <6>1 DEF Snapshots
            <6>. QED  BY <1>0, <2>2, <6>1 DEF Newer
          <5>2. /\ Cardinality(Newer(v, snapRows \ doomed)) =< Cardinality(Newer(s, snapRows'))
                /\ Cardinality(Newer(v, snapRows \ doomed)) \in Nat
                /\ Cardinality(Newer(s, snapRows')) \in Nat
            BY <5>1, FiniteSnapshots, SmallerSet
          <5>. QED  BY <2>1, <2>7, <5>2, BackupFacts
        <4>. QED  BY <3>1, <4>1
      <3>3. Newer(s, snapRows') = Newer(s, snapRows)
        BY <2>2, <3>1, <3>2 DEF Newer
      <3>4. Restorable(s)
        BY <2>7, <3>1, <3>3 DEF RetainedRestorable
      <3>. QED  BY <2>2, <3>4, SameRestorable
    <2>8. RetainedRestorable'
      BY <2>2, <2>7 DEF RetainedRestorable, Newer
    <2>. QED  BY <2>6, <2>8
  <1>8. CASE PruneFile
    <2>1. PICK v \in doomed : v = Victim /\ v \notin snapRows
      BY <1>0, <1>8, VictimFacts DEF PruneFile, PruneInv, Pruning
    <2>2. /\ doomed' = doomed \ {v} /\ step' = IF doomed = {v} THEN "idle" ELSE "prune"
          /\ step = "prunefile" /\ UNCHANGED <<taken, snapRows, restoredAt, placement, held, swept>>
      BY <1>8, <2>1 DEF PruneFile, seenVars
    <2>3. snapRows' \ doomed' = snapRows \ doomed
      BY <2>1, <2>2
    <2>4. PruneInv'
      <3>1. \A d \in doomed' : Cardinality(Newer(d, snapRows' \ doomed')) >= Retention
        BY <2>2, <2>3 DEF PruneInv, Pruning
      <3>. QED  BY <2>1, <2>2, <3>1 DEF PruneInv, Pruning, Newer
    <2>. QED  BY <2>2, <2>4, SameRestorable, RetainedKept
  <1>9. CASE Crash
    <2>1. step' = "idle" /\ UNCHANGED <<snapRows, restoredAt, placement, held, swept>>
      BY <1>9 DEF Crash, seenVars
    <2>. QED  BY <2>1, SameRestorable, RetainedKept DEF PruneInv, Pruning
  <1>10. ASSUME NEW n \in StorageNodes, NodeDown(n) \/ NodeUp(n)  PROVE PruneInv' /\ RetainedRestorable'
    <2>1. UNCHANGED <<taken, snapRows, restoredAt, placement, held, step, doomed, swept>>
      BY <1>10 DEF NodeDown, NodeUp, seenVars
    <2>. QED  BY <2>1, SameRestorable, RetainedKept DEF PruneInv, Pruning, Newer, Victim
  <1>11. ASSUME NEW disk \in BOOLEAN, LoseDatabase(disk)  PROVE PruneInv' /\ RetainedRestorable'
    BY <1>11 DEF LoseDatabase, PruneInv, Pruning, RetainedRestorable
  <1>12. ASSUME NEW s \in Snapshots, Restore(s)  PROVE PruneInv' /\ RetainedRestorable'
    <2>1. step' = "idle" /\ snapRows' \subseteq 1 .. taken /\ restoredAt' = taken
      BY <1>12 DEF Restore, RowsInv
    <2>2. \A t \in snapRows' : ~(t > restoredAt')
      BY <2>1 DEF BackupTyped, BackupTypeOK
    <2>. QED  BY <2>1, <2>2 DEF PruneInv, Pruning, RetainedRestorable
  <1>13. CASE RestoreLocal \/ RestoreMesh
    BY <1>0, <1>12, <1>13 DEF RestoreLocal, RestoreMesh, BackupTypeOK
  <1>14. CASE UNCHANGED backupVars
    BY <1>14, SameRestorable, RetainedKept DEF backupVars, PruneInv, Pruning, Newer, Victim
  <1>15. ASSUME NEW n \in StorageNodes, SweepList(n)  PROVE PruneInv' /\ RetainedRestorable'
    <2>1. /\ UNCHANGED <<taken, snapRows, restoredAt, placement, held, step, doomed>>
          /\ swept \subseteq swept'
      BY <1>15 DEF SweepList
    <2>2. PruneInv'
      BY <2>1, SameRestorable DEF PruneInv, Pruning, Newer, Victim
    <2>. QED  BY <2>1, <2>2, SameRestorable, RetainedKept
  <1>16. ASSUME NEW x \in orphans, SweepDelete(x)  PROVE PruneInv' /\ RetainedRestorable'
    <2>1. UNCHANGED <<taken, snapRows, restoredAt, placement, step, doomed, swept>>
      BY <1>16 DEF SweepDelete, seenVars
    <2>2. ASSUME NEW s \in snapRows, s > restoredAt, s \notin swept, Restorable(s)  PROVE Restorable(s)'
      BY <1>0, <1>16, <2>2, FoundSpares, SweepSpares
    <2>3. RetainedRestorable'
      BY <2>1, <2>2 DEF RetainedRestorable, Newer
    <2>4. ASSUME step \in {"commit", "manifest", "publish"}, taken \notin swept  PROVE Restorable(taken)'
      <3>1. Restorable(taken) /\ taken > restoredAt
        <4>1. taken \in 0 .. MaxSnapshots /\ restoredAt \in 0 .. MaxSnapshots
          BY Zenon DEF BackupTyped, BackupTypeOK
        <4>. QED  BY <2>4, <4>1, BackupFacts DEF PruneInv, RowsInv
      <3>2. PICK t : t = taken
        OBVIOUS
      <3>3. CASE step = "commit"
        <4>1. Harmless(x) /\ Uncommitted(taken)
          BY <3>3 DEF SweepInv, Uncommitted
        <4>2. restoredAt \in Nat /\ taken \in Nat
          <5>1. taken \in 0 .. MaxSnapshots /\ restoredAt \in 0 .. MaxSnapshots
            BY Zenon DEF BackupTyped, BackupTypeOK
          <5>. QED  BY <5>1
        <4>3. placement[x[2]][x[3]] = x[1] => x[2] # t
          BY <2>4, <3>1, <3>2, <4>1, <4>2 DEF Harmless
        <4>4. Restorable(t)'
          BY <1>0, <1>16, <3>1, <3>2, <4>3, SweepSpares
        <4>. QED  BY <2>1, <3>2, <4>4
      <3>4. CASE step # "commit"
        <4>1. t \in snapRows /\ t > restoredAt /\ t \notin swept /\ Restorable(t)
          BY <2>4, <3>1, <3>2, <3>4 DEF PruneInv
        <4>. QED  BY <2>1, <2>2, <3>2, <4>1
      <3>. QED  BY <3>3, <3>4
    <2>5. PruneInv'
      BY <2>1, <2>4 DEF PruneInv, Pruning, Newer, Victim
    <2>. QED  BY <2>3, <2>5
  <1>. QED  BY <1>1, <1>2, <1>3, <1>4, <1>5, <1>6, <1>7, <1>8, <1>9, <1>10, <1>11, <1>13, <1>14,
               <1>15, <1>16
            DEF BackupNext, BackupStep, BackupSweep, BackupEnv

LEMMA BackupInvInit == BackupInit => RowsInv /\ SweepInv /\ PruneInv /\ RetainedRestorable
  <1> SUFFICES ASSUME BackupInit  PROVE RowsInv /\ SweepInv /\ PruneInv /\ RetainedRestorable
    OBVIOUS
  <1>1. taken = 0 /\ restoredAt = 0 /\ step = "idle" /\ snapRows = {} /\ \A s \in Snapshots : dumpRows[s] = {}
    BY DEF BackupInit
  <1>2. orphans = {} /\ \A n \in StorageNodes : held[n] = {}
    BY DEF BackupInit
  <1>. QED  BY <1>1, <1>2 DEF RowsInv, SweepInv, PruneInv, RetainedRestorable, Pruning

LEMMA BackupInvAlways ==
    BackupSpec => [](BackupTyped /\ RowsInv /\ SweepInv /\ PruneInv /\ RetainedRestorable)
  BY BackupTypedInit, BackupTypedStep, BackupInvInit, RowsStep, SweepStep, PruneStep, PTL DEF BackupSpec

\* For any retention and any shard counts, the snapshots that retention keeps can be
\* restored, wherever a crash interrupts the pruning and whatever the sweep deletes:
\* what prune_old_snapshots deletes has Retention newer snapshots that it does not, and
\* what the sweep deletes belongs to no snapshot that is recorded, unless it met the
\* snapshot between its upload and its commit.
THEOREM KeptRestorable == BackupSpec => []RetainedRestorable
  BY BackupInvAlways, PTL

-----------------------------------------------------------------------------
(* The manifests pinned on the nodes *)

\* The cycle has taken a snapshot and not yet published it.
Storing == step \in {"upload", "commit", "manifest", "publish"}

\* The snapshot published last is pinned by the nodes its manifest reached, recorded
\* while the database is there, and restorable; a cycle prunes only after it has
\* published a newer one.
LatestInv ==
    /\ latest =< taken
    /\ Storing => latest < taken
    /\ Pruning => latest = taken
    /\ \A n \in reached : pinned[n] = latest
    /\ dbUp /\ latest > restoredAt => latest \in snapRows
    /\ latest > restoredAt /\ latest \notin swept => Restorable(latest)

\* Steps that publish nothing and take no snapshot, row or shard of the latest away.
LEMMA LatestKept ==
    ASSUME LatestInv,
           UNCHANGED <<taken, latest, reached, pinned, restoredAt>>, swept \subseteq swept',
           Storing' => Storing, Pruning' => Pruning, dbUp' => dbUp,
           latest > restoredAt /\ latest \in snapRows /\ dbUp' => latest \in snapRows',
           latest > restoredAt /\ latest \notin swept /\ Restorable(latest) => Restorable(latest)'
    PROVE  LatestInv'
  <1>1. latest > restoredAt /\ latest \notin swept' => Restorable(latest)'
    BY DEF LatestInv
  <1>. QED  BY <1>1 DEF LatestInv

LEMMA LatestStep ==
    BackupTyped /\ RowsInv /\ SweepInv /\ PruneInv /\ LatestInv /\ [BackupNext]_backupVars => LatestInv'
  <1> SUFFICES ASSUME BackupTyped, RowsInv, SweepInv, PruneInv, LatestInv, [BackupNext]_backupVars
               PROVE  LatestInv'
    OBVIOUS
  <1>0. /\ BackupTypeOK
        /\ taken \in Nat /\ latest \in Nat /\ restoredAt \in Nat
        /\ taken =< MaxSnapshots
    <2>1. taken \in 0 .. MaxSnapshots /\ latest \in 0 .. MaxSnapshots /\ restoredAt \in 0 .. MaxSnapshots
      BY Zenon DEF BackupTyped, BackupTypeOK
    <2>2. BackupTypeOK
      BY DEF BackupTyped
    <2>. QED  BY <2>1, <2>2, BackupFacts
  <1>1. CASE Dump
    <2>1. /\ taken' = taken + 1 /\ step' = "upload"
          /\ UNCHANGED <<latest, reached, pinned, restoredAt, swept, dbUp, snapRows, placement, held>>
      BY <1>1 DEF Dump, seenVars
    <2>2. latest' < taken' /\ latest' =< taken'
      BY <1>0, <2>1 DEF LatestInv
    <2>3. Restorable(latest)' <=> Restorable(latest)
      BY <2>1, SameRestorable DEF Restorable, Reachable
    <2>. QED  BY <2>1, <2>2, <2>3 DEF LatestInv, Pruning
  <1>2. CASE Upload
    <2>1. /\ step = "upload" /\ step' \in {"idle", "commit"}
          /\ UNCHANGED <<taken, latest, reached, pinned, restoredAt, swept, dbUp, snapRows>>
      BY <1>2, UploadFacts DEF Upload, seenVars
    <2>2. (Pruning' => Pruning) /\ Storing
      BY <2>1 DEF Pruning, Storing
    <2>3. ASSUME latest > restoredAt, Restorable(latest)  PROVE Restorable(latest)'
      <3>1. PICK l \in Snapshots \ {taken} : l = latest
        BY <1>0, <2>2, <2>3, BackupFacts DEF LatestInv, Snapshots
      <3>2. /\ placement'[l] = placement[l]
            /\ \A n \in StorageNodes, i \in ShardIdx : <<l, i>> \in held[n] => <<l, i>> \in held'[n]
        BY <1>2, <3>1, UploadFacts
      <3>3. Restorable(l)'
        BY <2>3, <3>1, <3>2, RestorableKept
      <3>. QED  BY <2>1, <3>1, <3>3
    <2>. QED  BY <2>1, <2>2, <2>3, LatestKept
  <1>3. CASE Commit \/ WriteManifest \/ PruneFile \/ Crash \/ UNCHANGED backupVars
    <2>1. /\ UNCHANGED <<taken, latest, reached, pinned, restoredAt, swept, dbUp, placement, held>>
          /\ snapRows \subseteq snapRows'
      BY <1>3 DEF Commit, WriteManifest, PruneFile, Crash, backupVars, seenVars
    <2>2. (Pruning' => Pruning) /\ (Storing' => Storing)
      BY <1>3 DEF Commit, WriteManifest, PruneFile, Crash, backupVars, Pruning, Storing
    <2>3. Restorable(latest)' <=> Restorable(latest)
      BY <2>1 DEF Restorable, Reachable
    <2>. QED  BY <2>1, <2>2, <2>3, LatestKept
  <1>4. CASE Publish
    <2>1. PICK torn \in {{}} \cup {{n} : n \in nodes \cap alive} :
             /\ pinned' = PinnedAfter(torn, (nodes \cap alive) \ torn)
             /\ reached' = (nodes \cap alive) \ torn
      BY <1>4 DEF Publish
    <2>2. /\ step = "publish" /\ step' \in {"idle", "prune"} /\ latest' = taken
          /\ UNCHANGED <<taken, restoredAt, swept, dbUp, snapRows, placement, held>>
      BY <1>4 DEF Publish
    <2>3. \A n \in reached' : pinned'[n] = latest'
      BY <1>0, <2>1, <2>2 DEF PinnedAfter, BackupTypeOK
    <2>4. taken \in snapRows /\ (taken \in swept \/ Restorable(taken))
      BY <2>2 DEF PruneInv
    <2>5. Restorable(latest)' <=> Restorable(taken)
      BY <2>2 DEF Restorable, Reachable
    <2>6. ~Storing' /\ latest' =< taken'
      BY <1>0, <2>2 DEF Storing
    <2>. QED  BY <2>2, <2>3, <2>4, <2>5, <2>6 DEF LatestInv
  <1>5. CASE PruneShards
    <2>1. /\ UNCHANGED <<taken, latest, reached, pinned, restoredAt, swept, dbUp, snapRows, placement>>
          /\ step = "prune" /\ step' = "prunerow" /\ Pruning
      BY <1>5 DEF PruneShards, Pruning, seenVars
    <2>2. PICK l : l = latest /\ l # Victim
      BY <1>0, <2>1, TakenKept, VictimFacts DEF LatestInv, PruneInv
    <2>3. \A n \in StorageNodes, i \in ShardIdx : <<l, i>> \in held[n] => <<l, i>> \in held'[n]
      BY <1>5, <2>2 DEF PruneShards
    <2>4. Restorable(l) => Restorable(l)'
      BY <2>1, <2>3, RestorableKept
    <2>5. (Storing' => Storing)
      BY <2>1 DEF Storing
    <2>. QED  BY <2>1, <2>2, <2>4, <2>5, LatestKept
  <1>6. CASE PruneRow
    <2>1. /\ UNCHANGED <<taken, latest, reached, pinned, restoredAt, swept, dbUp, placement, held>>
          /\ step = "prunerow" /\ step' = "prunefile" /\ Pruning /\ snapRows' = snapRows \ {Victim}
      BY <1>6 DEF PruneRow, Pruning, seenVars
    <2>2. latest # Victim
      BY <1>0, <2>1, TakenKept, VictimFacts DEF LatestInv, PruneInv
    <2>3. Restorable(latest)' <=> Restorable(latest)
      BY <2>1 DEF Restorable, Reachable
    <2>4. (Storing' => Storing)
      BY <2>1 DEF Storing
    <2>. QED  BY <2>1, <2>2, <2>3, <2>4, LatestKept
  <1>7. ASSUME NEW n \in StorageNodes, NodeDown(n) \/ NodeUp(n) \/ SweepList(n)  PROVE LatestInv'
    <2>1. /\ UNCHANGED <<taken, latest, reached, pinned, restoredAt, dbUp, snapRows, placement, held, step>>
          /\ swept \subseteq swept'
      BY <1>7 DEF NodeDown, NodeUp, SweepList, seenVars
    <2>2. (Pruning' => Pruning) /\ (Storing' => Storing)
      BY <2>1 DEF Pruning, Storing
    <2>3. Restorable(latest)' <=> Restorable(latest)
      BY <2>1 DEF Restorable, Reachable
    <2>. QED  BY <2>1, <2>2, <2>3, LatestKept
  <1>8. ASSUME NEW disk \in BOOLEAN, LoseDatabase(disk)  PROVE LatestInv'
    <2>1. /\ UNCHANGED <<taken, latest, reached, pinned, restoredAt, swept, placement, held>>
          /\ step' = "idle"
      BY <1>8 DEF LoseDatabase, seenVars
    <2>2. ~dbUp'
      BY <1>8 DEF LoseDatabase
    <2>3. ~Pruning' /\ ~Storing'
      BY <2>1 DEF Pruning, Storing
    <2>4. Restorable(latest)' <=> Restorable(latest)
      BY <2>1 DEF Restorable, Reachable
    <2>. QED  BY <2>1, <2>2, <2>3, <2>4, LatestKept
  <1>9. CASE RestoreLocal \/ RestoreMesh
    <2>1. /\ UNCHANGED <<taken, latest, reached, pinned, step>> /\ restoredAt' = taken
      BY <1>9 DEF RestoreLocal, RestoreMesh, Restore, seenVars
    <2>2. (Pruning' => Pruning) /\ (Storing' => Storing)
      BY <2>1 DEF Pruning, Storing
    <2>3. ~(latest' > restoredAt')
      BY <1>0, <2>1 DEF LatestInv
    <2>. QED  BY <2>1, <2>2, <2>3 DEF LatestInv
  <1>10. ASSUME NEW x \in orphans, SweepDelete(x)  PROVE LatestInv'
    <2>1. /\ UNCHANGED <<taken, latest, reached, pinned, restoredAt, swept, dbUp, snapRows, placement, step>>
          /\ dbUp
      BY <1>10 DEF SweepDelete, SweepInv, seenVars
    <2>2. (Pruning' => Pruning) /\ (Storing' => Storing)
      BY <2>1 DEF Pruning, Storing
    <2>3. ASSUME latest > restoredAt, latest \notin swept, Restorable(latest)  PROVE Restorable(latest)'
      <3>1. PICK l \in snapRows : l = latest
        BY <2>1, <2>3 DEF LatestInv
      <3>2. Restorable(l)'
        BY <1>0, <1>10, <2>3, <3>1, FoundSpares, SweepSpares
      <3>. QED  BY <2>1, <3>1, <3>2
    <2>. QED  BY <2>1, <2>2, <2>3, LatestKept
  <1>. QED  BY <1>1, <1>2, <1>3, <1>4, <1>5, <1>6, <1>7, <1>8, <1>9, <1>10
            DEF BackupNext, BackupStep, BackupSweep, BackupEnv

LEMMA LatestInit == BackupInit => LatestInv
  <1> SUFFICES ASSUME BackupInit  PROVE LatestInv
    OBVIOUS
  <1>1. taken = 0 /\ latest = 0 /\ restoredAt = 0 /\ reached = {} /\ step = "idle"
    BY DEF BackupInit
  <1>. QED  BY <1>1 DEF LatestInv, Storing, Pruning

LEMMA LatestRecovers == BackupTyped /\ LatestInv => MeshRecoveryPossible
  BY DEF BackupTyped, BackupTypeOK, LatestInv, MeshRecoveryPossible

\* For any nodes, any retention and any number of crashes and outages: once the
\* manifest published last has reached a node, that node pins it and its snapshot can
\* be restored; a cycle prunes only after it has published a newer one, and the sweep
\* spares what is recorded.
THEOREM MeshRecovers == BackupSpec => []MeshRecoveryPossible
  BY LatestInit, LatestStep, LatestRecovers, BackupInvAlways, PTL DEF BackupSpec

=============================================================================
