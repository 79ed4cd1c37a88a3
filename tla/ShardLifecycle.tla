--------------------------- MODULE ShardLifecycle ---------------------------
(***************************************************************************)
(* The backup of one media file: the replication, audit and rebalance      *)
(* workers of the home server as concurrent tasks over the shared database,*)
(* registry and storage nodes, with users, time, faults and restarts.      *)
(***************************************************************************)
EXTENDS Replication, Audit, Rebalance

vars == <<media, file, rows, peers, reg, up, stored, swept, faults,
          repPc, repNodes, rep, aud, rebActive, reb>>

TypeOK == MeshTypeOK /\ RepTypeOK /\ AudTypeOK /\ RebTypeOK

Init == MeshInit /\ RepInit /\ AudInit /\ RebInit

-----------------------------------------------------------------------------

\* A new random key is one that is nowhere in the system; keys that are left
\* nowhere are drawn again, so that Keys can be finite.
UsedKeys ==
    {media[o].key : o \in Owners} \cup {rows[i].key : i \in RowIdx}
    \cup {obj[1] : obj \in UNION {stored[n] : n \in Nodes}}
    \cup {rep[o].key : o \in Owners}
    \cup {aud.key} \cup {aud.snap[i].key : i \in {j \in Idx : aud.snap[j] # NoRow}}
    \cup {x[2][1] : x \in aud.work}
    \cup UNION {{reb[m].snap[i].key : i \in {j \in Idx : reb[m].snap[j] # NoRow}} : m \in Movers}

FreshKeys == Keys \ UsedKeys

\* The home server restarts: the tasks, the flag and the registry are gone,
\* what the database and the nodes hold stays.
Crash ==
    /\ Fault("crash")
    /\ reg' = {}
    /\ swept' = FALSE
    /\ repPc' = "idle" /\ repNodes' = {} /\ rep' = [o \in Owners |-> NoTask]
    /\ aud' = NoAudit
    /\ rebActive' = FALSE /\ reb' = [m \in Movers |-> NoCycle]
    /\ UNCHANGED <<media, file, rows, peers, up, stored>>

Replicate == RepNext(FreshKeys) /\ UNCHANGED <<aud, rebActive, reb>>

AuditStep == AudNext /\ UNCHANGED <<repPc, repNodes, rep, rebActive, reb>>

Move == RebNext /\ UNCHANGED <<repPc, repNodes, rep, aud>>

World == MeshNext /\ UNCHANGED <<repPc, repNodes, rep, aud, rebActive, reb>>

Next == Replicate \/ AuditStep \/ Move \/ World \/ Crash

Spec == Init /\ [][Next]_vars

Hands == <<repPc, repNodes, rep, aud, rebActive, reb>>

\* The runtime gives every worker its turn, a storage node that runs announces
\* itself again and again, and time goes on.  Users and faults owe nothing.
Fairness ==
    /\ WF_vars(Replicate) /\ WF_vars(AuditStep) /\ WF_vars(Move)
    /\ \A n \in Nodes : WF_vars(Announce(n) /\ UNCHANGED Hands)
    /\ \A span \in 0 .. 2 : WF_vars(TimePasses(span) /\ UNCHANGED Hands)

FairSpec == Spec /\ Fairness
-----------------------------------------------------------------------------
(* Safety *)

\* Every p2p_shards row of a file that is not in the trash names a shard that is
\* on the disk of the node it names: neither the deletions that follow a
\* migration or a purge nor a late upload result leave a dangling row.
RowsBacked == Live => \A i \in RowIdx : Backed(i)

\* One rebalance cycle at a time: the worker and the admin-triggered sweeps never
\* migrate concurrently, and nobody loses the flag while it migrates.
RebalanceMutex ==
    \A m, p \in Movers : reb[m].pc # "idle" /\ reb[p].pc # "idle" => m = p

\* A shard whose upload has been confirmed stays on its node until the task
\* that uploaded it has committed or given up.
AckedShardKept ==
    \A o \in Owners, i \in Idx :
        rep[o].acked[i] # NoNode => <<rep[o].key, i>> \in stored[rep[o].acked[i]]

\* data_shards rows of the key the file is recorded under, and their shards.
Restorable(o) ==
    \E S \in SUBSET RowIdx :
        /\ Cardinality(S) >= DATA_SHARDS
        /\ \A i \in S : rows[i].key = media[o].key /\ Backed(i)

SetsSynced(o) == ~media[o].synced /\ media'[o].synced

\* p2p_synced_at is set only when the database has data_shards rows of the file's
\* new key and the nodes have their shards, however the uploads, deletions,
\* removals and restarts since the upload began are interleaved.
CommitComplete == [][\A o \in Owners : SetsSynced(o) => Restorable(o)']_vars

\* What restore_file_with_fetcher can fetch.
Present == {i \in RowIdx : rows[i].node \in up /\ Backed(i)}

\* Any data_shards of the shards a live, synced file has are shards of one
\* encryption, so that reconstruct returns the original from whichever it gets.
AnyKShardsSuffice ==
    \A o \in Owners : media[o].st = "live" /\ media[o].synced =>
        \A S \in SUBSET Present :
            Cardinality(S) = DATA_SHARDS => \A i \in S : rows[i].key = media[o].key

-----------------------------------------------------------------------------
(* Liveness *)

\* A lost shard does not stay lost: once the faults have ceased, the audit has
\* brought every shard row of a live file whose original is at hand back to a
\* shard that is there.
RepairConverges == <>[](Live /\ file => \A i \in RowIdx : Backed(i))

\* No garbage stays on the nodes: whatever deletions and confirmations were
\* lost, in the end every stored shard is one that a row names.
GarbageCollected == <>[](\A n \in Nodes : \A obj \in stored[n] : Referenced(obj))

\* A new file whose original stays in place gets its first backup, whatever
\* attempts failed, were skipped or died with the server before.
FirstBackup ==
    \A o \in Owners :
        <>[](media[o].st = "live" /\ file) => <>(media[o].synced /\ media[o].key # NoKey)
=============================================================================
