------------------------------ MODULE DbBackup ------------------------------
(***************************************************************************)
(* The database's own backup: db_backup_worker dumps the database, stores  *)
(* the dump as shards on the storage nodes, records it in db_backups,      *)
(* writes a manifest to the local disk and pins one on every node it knew  *)
(* when it began, and prunes the oldest snapshots; the audit's sweep       *)
(* deletes from the nodes what the database does not name;                 *)
(* disaster_recovery finds a manifest and brings the database back to what *)
(* was dumped.                                                             *)
(*                                                                         *)
(* A snapshot is numbered by the cycle that took it, which is also its     *)
(* created_at; its hash and its key are its own, so no two snapshots share *)
(* a shard.  The dump holds db_backups itself, as it was before the        *)
(* snapshot's own row: no later dump has the contents of a recorded one,   *)
(* and the test for an identical snapshot never succeeds.                  *)
(***************************************************************************)
EXTENDS Integers, FiniteSets

CONSTANTS
    StorageNodes,    \* the storage nodes
    TotalShards,     \* shards per snapshot (5 in the code)
    NeedShards,      \* shards needed to reconstruct (3 in the code)
    Retention,       \* db_backup_retention_count
    MaxSnapshots,    \* bound: cycles that get as far as a dump
    MaxOutages,      \* bound: node outages, lost answers, torn or failed writes
    MaxCrashes,      \* bound: crashes and losses of the home server
    MaxListed,       \* bound: shards without a row that one listing of the sweep shows
    NoHolder         \* a shard that was not stored

ASSUME DbBackupAssumption ==
    /\ IsFiniteSet(StorageNodes)
    /\ TotalShards \in Nat
    /\ NeedShards \in 1 .. TotalShards
    /\ Retention \in Nat \ {0}
    /\ MaxSnapshots \in Nat /\ MaxOutages \in Nat /\ MaxCrashes \in Nat
    /\ MaxListed \in Nat
    /\ NoHolder \notin StorageNodes

Snapshots == 1 .. MaxSnapshots

ShardIdx == 0 .. TotalShards - 1

\* A pinned manifest a node lost while it overwrote it: it cannot be decrypted.
Torn == -1

VARIABLES
    taken,       \* dumps taken so far; the current snapshot is number taken
    snapRows,    \* db_backups
    dumpRows,    \* the rows of db_backups each snapshot's dump contains
    placement,   \* db_backup_shards, and the manifest's shard list, by snapshot
    manifests,   \* manifests on the home server's disk
    pinned,      \* "reminisce:db-manifest:latest" on each node; 0 is none
    held,        \* the shards <<snapshot, index>> on each node's disk
    alive,       \* nodes that answer
    step,        \* where the backup cycle is
    nodes,       \* the storage nodes the registry knew when the cycle began
    doomed,      \* snapshots the retention query returned, not yet pruned
    orphans,     \* <<node, snapshot, index>>: shards the sweep is about to delete
    dbUp,        \* the database exists
    restoredAt,  \* snapshots up to this one were taken before the last restore
    latest,      \* history: the snapshot whose manifest was published last
    reached,     \* history: the nodes that took that manifest
    swept,       \* history: snapshots a sweep met between upload and commit
    outages, crashes

seenVars == <<latest, reached, swept>>

backupVars == <<taken, snapRows, dumpRows, placement, manifests, pinned, held, alive, step, nodes,
                doomed, orphans, dbUp, restoredAt, latest, reached, swept, outages, crashes>>

BackupTypeOK ==
    /\ taken \in 0 .. MaxSnapshots
    /\ snapRows \in SUBSET Snapshots
    /\ dumpRows \in [Snapshots -> SUBSET Snapshots]
    /\ placement \in [Snapshots -> [ShardIdx -> StorageNodes \cup {NoHolder}]]
    /\ manifests \in SUBSET Snapshots
    /\ pinned \in [StorageNodes -> {Torn} \cup 0 .. MaxSnapshots]
    /\ held \in [StorageNodes -> SUBSET (Snapshots \X ShardIdx)]
    /\ alive \in SUBSET StorageNodes
    /\ step \in {"idle", "upload", "commit", "manifest", "publish",
                 "prune", "prunerow", "prunefile"}
    /\ nodes \in SUBSET StorageNodes
    /\ doomed \in SUBSET Snapshots
    /\ orphans \in SUBSET (StorageNodes \X Snapshots \X ShardIdx)
    /\ dbUp \in BOOLEAN
    /\ restoredAt \in 0 .. MaxSnapshots
    /\ latest \in 0 .. MaxSnapshots
    /\ reached \in SUBSET StorageNodes
    /\ swept \in SUBSET Snapshots
    /\ outages \in 0 .. MaxOutages
    /\ crashes \in 0 .. MaxCrashes

BackupInit ==
    /\ taken = 0
    /\ snapRows = {}
    /\ dumpRows = [s \in Snapshots |-> {}]
    /\ placement = [s \in Snapshots |-> [i \in ShardIdx |-> NoHolder]]
    /\ manifests = {}
    /\ pinned = [n \in StorageNodes |-> 0]
    /\ held = [n \in StorageNodes |-> {}]
    /\ alive = StorageNodes
    /\ step = "idle"
    /\ nodes = {}
    /\ doomed = {}
    /\ orphans = {}
    /\ dbUp = TRUE
    /\ restoredAt = 0
    /\ latest = 0
    /\ reached = {}
    /\ swept = {}
    /\ outages = 0
    /\ crashes = 0

-----------------------------------------------------------------------------
(* Definitions over the state *)

\* The indices of s that the nodes in S hold where its manifest says.
Reachable(s, S) ==
    {i \in ShardIdx : /\ placement[s][i] \in S
                      /\ <<s, i>> \in held[placement[s][i]]}

\* restore_db_snapshot finds enough shards once every node answers.
Restorable(s) == Cardinality(Reachable(s, StorageNodes)) >= NeedShards

Newer(s, S) == {t \in S : t > s}

\* Bug: one snapshot too few is kept.
OldOffByOne(S) == {s \in S : Cardinality(Newer(s, S)) >= Retention - 1}

\* SELECT backup_hash FROM db_backups ORDER BY created_at DESC OFFSET retention
OldSnapshots(S) == {s \in S : Cardinality(Newer(s, S)) >= Retention}

\* Where rendezvous_select puts the shards when the registry knows S: index i
\* goes to the node of rank i % |S|, in an order that depends on the hash.
Placements(S) ==
    LET count == IF Cardinality(S) < TotalShards THEN Cardinality(S) ELSE TotalShards
    IN  {p \in [ShardIdx -> S] :
            \A i, j \in ShardIdx : p[i] = p[j] <=> i % count = j % count}

\* A fault of the kind counted by outages happens, or none is left.
Outage(happens) ==
    /\ happens => outages < MaxOutages
    /\ outages' = IF happens THEN outages + 1 ELSE outages

-----------------------------------------------------------------------------
(* The backup cycle *)

\* backup_cycle up to dump_database and the hash of the dump; the nodes the
\* registry knows now are those of the whole cycle.
Dump ==
    /\ step = "idle" /\ dbUp
    /\ taken < MaxSnapshots
    /\ nodes' \in (SUBSET StorageNodes) \ {{}}
    /\ taken' = taken + 1
    /\ dumpRows' = [dumpRows EXCEPT ![taken + 1] = snapRows]
    /\ step' = "upload"
    /\ UNCHANGED <<snapRows, placement, manifests, pinned, held, alive, doomed, orphans,
                   dbUp, restoredAt, seenVars, outages, crashes>>

\* upload_inmemory or upload_segmented: a shard for a node that is down, or
\* whose answer is lost, is left out of the list; with fewer than
\* data_shards the cycle ends with an error and what was stored stays there.
Upload ==
    /\ step = "upload"
    /\ \E p \in Placements(nodes), lost \in {{}} \cup {{i} : i \in ShardIdx} :
          LET landed == {i \in ShardIdx : p[i] \in alive}
              acked  == landed \ lost
          IN  /\ lost \subseteq landed
              /\ Outage(lost # {})
              /\ held' = [n \in StorageNodes |->
                            held[n] \cup {<<taken, i>> : i \in {j \in landed : p[j] = n}}]
              /\ placement' = [placement EXCEPT ![taken] =
                    [i \in ShardIdx |-> IF i \in acked THEN p[i] ELSE NoHolder]]
              /\ step' = IF Cardinality(acked) >= NeedShards THEN "commit" ELSE "idle"
              /\ nodes' = IF Cardinality(acked) >= NeedShards THEN nodes ELSE {}
    /\ UNCHANGED <<taken, snapRows, dumpRows, manifests, pinned, alive, doomed, orphans,
                   dbUp, restoredAt, seenVars, crashes>>

\* The transaction that inserts the db_backups and db_backup_shards rows.
Commit ==
    /\ step = "commit"
    /\ snapRows' = snapRows \cup {taken}
    /\ step' = "manifest"
    /\ UNCHANGED <<taken, dumpRows, placement, manifests, pinned, held, alive, nodes,
                   doomed, orphans, dbUp, restoredAt, seenVars, outages, crashes>>

\* append_key_to_escrow (nothing reads it back) and write_manifest, whose
\* failure is only logged.
WriteManifest ==
    /\ step = "manifest"
    /\ \E written \in BOOLEAN :
          /\ Outage(~written)
          /\ manifests' = IF written THEN manifests \cup {taken} ELSE manifests
    /\ step' = "publish"
    /\ UNCHANGED <<taken, snapRows, dumpRows, placement, pinned, held, alive, nodes,
                   doomed, orphans, dbUp, restoredAt, seenVars, crashes>>

\* Bug: a node keeps the manifest it has.
PinnedOnce(torn, S) ==
    [n \in StorageNodes |-> IF n \in S /\ pinned[n] = 0 THEN taken ELSE pinned[n]]

\* What the nodes pin after S took the manifest, torn having crashed over it.
PinnedAfter(torn, S) ==
    [n \in StorageNodes |->
        CASE n \in torn -> Torn
          [] n \in S \ torn -> taken
          [] OTHER -> pinned[n]]

\* publish_manifest_to_mesh: each of the cycle's nodes that answers overwrites
\* its latest manifest; one that crashes over it keeps a torn object
\* (store_pinned writes in place).  That none took it is no error.
\* prune_old_snapshots then reads what retention leaves over.
Publish ==
    /\ step = "publish"
    /\ \E torn \in {{}} \cup {{n} : n \in nodes \cap alive} :
          LET S == (nodes \cap alive) \ torn
          IN  /\ Outage(torn # {})
              /\ alive' = alive \ torn
              /\ pinned' = PinnedAfter(torn, S)
              /\ reached' = S
    /\ latest' = taken
    /\ nodes' = {}
    /\ doomed' = OldSnapshots(snapRows)
    /\ step' = IF OldSnapshots(snapRows) = {} THEN "idle" ELSE "prune"
    /\ UNCHANGED <<taken, snapRows, dumpRows, placement, manifests, held, orphans, dbUp,
                   restoredAt, swept, crashes>>

\* The snapshot the loop of prune_old_snapshots is at: newest first.
Victim == CHOOSE s \in doomed : Newer(s, doomed) = {}

\* delete_shard_remote for each of its shards, best effort: a node that is
\* down keeps its shard.
PruneShards ==
    /\ step = "prune"
    /\ held' = [n \in StorageNodes |->
                  IF n \in alive
                  THEN held[n] \ {<<Victim, i>> : i \in {j \in ShardIdx : placement[Victim][j] = n}}
                  ELSE held[n]]
    /\ step' = "prunerow"
    /\ UNCHANGED <<taken, snapRows, dumpRows, placement, manifests, pinned, alive, nodes,
                   doomed, orphans, dbUp, restoredAt, seenVars, outages, crashes>>

\* DELETE FROM db_backups, which cascades to db_backup_shards.
PruneRow ==
    /\ step = "prunerow"
    /\ snapRows' = snapRows \ {Victim}
    /\ step' = "prunefile"
    /\ UNCHANGED <<taken, dumpRows, placement, manifests, pinned, held, alive, nodes,
                   doomed, orphans, dbUp, restoredAt, seenVars, outages, crashes>>

\* delete_manifest, and on to the next snapshot.
PruneFile ==
    /\ step = "prunefile"
    /\ manifests' = manifests \ {Victim}
    /\ doomed' = doomed \ {Victim}
    /\ step' = IF doomed = {Victim} THEN "idle" ELSE "prune"
    /\ UNCHANGED <<taken, snapRows, dumpRows, placement, pinned, held, alive, nodes,
                   orphans, dbUp, restoredAt, seenVars, outages, crashes>>

BackupStep ==
    Dump \/ Upload \/ Commit \/ WriteManifest \/ Publish
         \/ PruneShards \/ PruneRow \/ PruneFile

-----------------------------------------------------------------------------
(* The audit's sweep, concurrent with the cycle *)

\* db_backup_shards names this shard.
Referenced(s, i) == s \in snapRows /\ placement[s][i] # NoHolder

\* A snapshot whose shards the cycle has uploaded and not yet committed.
Uncommitted(s) == step = "commit" /\ s = taken

\* sweep_storage_node_orphans lists some of the shards of n (those of one prefix)
\* and asks the database which of them it names.  is_recently_stored spares none:
\* no upload records under the key it asks for.
SweepList(n) ==
    /\ dbUp /\ n \in alive /\ orphans = {}
    /\ orphans' \in SUBSET {<<n, x[1], x[2]>> : x \in {y \in held[n] : ~Referenced(y[1], y[2])}}
    /\ Cardinality(orphans') \in 1 .. MaxListed
    /\ swept' = swept \cup {x[2] : x \in {y \in orphans' : Uncommitted(y[2]) /\ placement[y[2]][y[3]] = n}}
    /\ UNCHANGED <<taken, snapRows, dumpRows, placement, manifests, pinned, held, alive, step, nodes,
                   doomed, dbUp, restoredAt, latest, reached, outages, crashes>>

\* delete_shard_remote of one of them, whatever was committed meanwhile; a node
\* that no longer answers keeps it.
SweepDelete(x) ==
    /\ x \in orphans
    /\ orphans' = orphans \ {x}
    /\ held' = IF x[1] \in alive THEN [held EXCEPT ![x[1]] = @ \ {<<x[2], x[3]>>}] ELSE held
    /\ UNCHANGED <<taken, snapRows, dumpRows, placement, manifests, pinned, alive, step, nodes,
                   doomed, dbUp, restoredAt, seenVars, outages, crashes>>

BackupSweep ==
    \/ \E n \in StorageNodes : SweepList(n)
    \/ \E x \in orphans : SweepDelete(x)

-----------------------------------------------------------------------------
(* Disasters and recovery *)

\* The home server stops in the middle of a cycle or of a sweep and starts again.
Crash ==
    /\ step # "idle" \/ orphans # {}
    /\ crashes < MaxCrashes
    /\ crashes' = crashes + 1
    /\ step' = "idle"
    /\ nodes' = {}
    /\ doomed' = {}
    /\ orphans' = {}
    /\ UNCHANGED <<taken, snapRows, dumpRows, placement, manifests, pinned, held,
                   alive, dbUp, restoredAt, seenVars, outages>>

NodeDown(n) ==
    /\ n \in alive /\ outages < MaxOutages
    /\ outages' = outages + 1
    /\ alive' = alive \ {n}
    /\ UNCHANGED <<taken, snapRows, dumpRows, placement, manifests, pinned, held, step, nodes,
                   doomed, orphans, dbUp, restoredAt, seenVars, crashes>>

NodeUp(n) ==
    /\ n \notin alive
    /\ alive' = alive \cup {n}
    /\ UNCHANGED <<taken, snapRows, dumpRows, placement, manifests, pinned, held, step, nodes,
                   doomed, orphans, dbUp, restoredAt, seenVars, outages, crashes>>

\* The database is lost, alone or with the disk that holds the manifests; the
\* server does not run until it is restored.
LoseDatabase(disk) ==
    /\ dbUp /\ crashes < MaxCrashes
    /\ crashes' = crashes + 1
    /\ dbUp' = FALSE
    /\ snapRows' = {}
    /\ manifests' = IF disk THEN {} ELSE manifests
    /\ step' = "idle"
    /\ nodes' = {}
    /\ doomed' = {}
    /\ orphans' = {}
    /\ UNCHANGED <<taken, dumpRows, placement, pinned, held, alive, restoredAt, seenVars, outages>>

\* restore_db_snapshot and pg_restore of snapshot s, from the nodes that answer.
Restore(s) ==
    /\ ~dbUp
    /\ Cardinality(Reachable(s, alive)) >= NeedShards
    /\ dbUp' = TRUE
    /\ snapRows' = dumpRows[s]
    /\ restoredAt' = taken
    /\ UNCHANGED <<taken, dumpRows, placement, manifests, pinned, held, alive, step, nodes,
                   doomed, orphans, seenVars, outages, crashes>>

\* `disaster_recovery db`: the newest manifest on disk, or any the operator names.
RestoreLocal == \E s \in manifests : Restore(s)

\* `disaster_recovery db --from-mesh`, or with no manifest on disk: the latest
\* manifest of the first node that has one.  A torn one ends the attempt with an
\* error, though another node may have a good one, and changes nothing.
RestoreMesh == \E n \in alive : pinned[n] \in Snapshots /\ Restore(pinned[n])

BackupEnv ==
    \/ Crash
    \/ \E n \in StorageNodes : NodeDown(n) \/ NodeUp(n)
    \/ \E disk \in BOOLEAN : LoseDatabase(disk)
    \/ RestoreLocal \/ RestoreMesh

BackupNext == BackupStep \/ BackupSweep \/ BackupEnv

BackupSpec == BackupInit /\ [][BackupNext]_backupVars

-----------------------------------------------------------------------------
(* Properties *)

\* The newest snapshots, as many as retention keeps, can be restored, whatever
\* crash interrupted the pruning of older ones: prune_old_snapshots deletes shards
\* before rows, so only a row that is about to go may name deleted shards, and the
\* sweep deletes what no row names.  Not so for a snapshot a sweep met before its
\* row was committed, and after a restore, which brings back the rows of snapshots
\* pruned since the dump.
RetainedRestorable ==
    \A s \in snapRows :
        Cardinality(Newer(s, snapRows)) < Retention /\ s > restoredAt /\ s \notin swept
            => Restorable(s)

\* A server that lost its disk can recover: from the moment the manifest published
\* last has reached a node, some node pins that manifest and its snapshot can be
\* restored, through the pruning, later cycles that fail before they publish, and
\* the loss of the database.  Not so when a sweep met the snapshot before its row
\* was committed, nor after a restore (the restored database does not name the
\* snapshot it came from, and the sweep deletes it), until the next is published.
MeshRecoveryPossible ==
    reached # {} /\ latest > restoredAt /\ latest \notin swept
        => \E n \in StorageNodes : pinned[n] = latest /\ Restorable(latest)

=============================================================================
