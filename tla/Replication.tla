---------------------------- MODULE Replication ----------------------------
(***************************************************************************)
(* The replication worker (src/media_replication_worker.rs with            *)
(* p2p_upload::upload_inmemory / upload_segmented): a cycle re-queues      *)
(* under-replicated files, selects the rows that are due, and replicates   *)
(* each of them in a task of its own, under a fresh key.  The tasks of one *)
(* batch run concurrently; two owners of the same file are two tasks.      *)
(***************************************************************************)
EXTENDS Mesh

VARIABLES
    repPc,      \* where replicate_all is
    repNodes,   \* its snapshot of the registry
    rep         \* the batch's tasks, by the owner of the selected row

repVars == <<repPc, repNodes, rep>>

\* acked[i] is the node that confirmed shard i (the UploadedShard results).
RepTask == [pc : {"idle", "todo", "store"}, key : Keys \cup {NoKey},
            pend : SUBSET Idx, acked : [Idx -> Nodes \cup {NoNode}]]

NoTask == [pc |-> "idle", key |-> NoKey, pend |-> {}, acked |-> [i \in Idx |-> NoNode]]

RepTypeOK ==
    /\ repPc \in {"idle", "batch", "run"}
    /\ repNodes \in SUBSET Nodes
    /\ rep \in [Owners -> RepTask]
    /\ \A o \in Owners : rep[o].pc = "store" => rep[o].key \in Keys

RepInit ==
    /\ repPc = "idle"
    /\ repNodes = {}
    /\ rep = [o \in Owners |-> NoTask]

-----------------------------------------------------------------------------

\* requeue_under_replicated's condition on the file: fewer than data_shards of
\* its shards are on recently seen nodes.
UnderReplicated ==
    Cardinality({i \in RowIdx : rows[i].node \in Recent}) < DATA_SHARDS

Requeued(m) ==
    IF m.st = "live" /\ m.synced /\ ~m.cooling /\ UnderReplicated
      THEN [m EXCEPT !.synced = FALSE]
      ELSE m

\* replicate_all up to the batch: without peers the cycle ends at once.
RepCycle ==
    /\ "replicate" \in Workers
    /\ repPc = "idle"
    /\ reg # {}
    /\ repPc' = "batch"
    /\ repNodes' = reg
    /\ UpdateMedia(Requeued)
    /\ UNCHANGED <<file, rows, peers, reg, up, stored, swept, faults, rep>>

\* The rows replicate_batch selects.
Due == {o \in Owners : Exists(o) /\ ~media[o].synced /\ ~media[o].cooling}

\* replicate_batch's query; an overloaded host skips the batch.
RepBatch ==
    /\ repPc = "batch"
    /\ \/ /\ Due # {}
          /\ repPc' = "run"
          /\ rep' = [o \in Owners |-> IF o \in Due THEN [NoTask EXCEPT !.pc = "todo"] ELSE NoTask]
          /\ UNCHANGED <<repNodes, faults>>
       \/ /\ \/ Due = {} /\ UNCHANGED faults
             \/ Fault("load")
          /\ repPc' = "idle"
          /\ repNodes' = {}
          /\ UNCHANGED rep
    /\ UNCHANGED <<media, file, rows, peers, reg, up, stored, swept>>

\* Bug: the finished task counts itself among those still running, so that the
\* cycle never ends.
RepFinishWaits(o) ==
    /\ rep' = [rep EXCEPT ![o] = NoTask]
    /\ UNCHANGED <<repPc, repNodes>>

\* Task o ends, and with the last task the cycle.
RepFinish(o) ==
    LET last == \A p \in Owners \ {o} : rep[p].pc = "idle"
    IN  /\ rep' = [rep EXCEPT ![o] = NoTask]
        /\ repPc' = IF last THEN "idle" ELSE "run"
        /\ repNodes' = IF last THEN {} ELSE repNodes

\* The original is not on disk: the attempt is stamped on every row of the hash.
RepMissing(o) ==
    /\ rep[o].pc = "todo"
    /\ ~file
    /\ UpdateMedia(Stamped)
    /\ RepFinish(o)
    /\ UNCHANGED <<file, rows, peers, reg, up, stored, swept, faults>>

\* A key is drawn, the file encrypted and cut, and the uploads are started.
RepBegin(o, k) ==
    /\ rep[o].pc = "todo"
    /\ file
    /\ rep' = [rep EXCEPT ![o] = [NoTask EXCEPT !.pc = "store", !.key = k, !.pend = Idx]]
    /\ UNCHANGED <<meshVars, repPc, repNodes>>

\* The upload of shard i ends: confirmed, failed, or stored without the
\* confirmation reaching the home server.
RepStore(o, i) ==
    /\ rep[o].pc = "store"
    /\ i \in rep[o].pend
    /\ \E n \in Nodes :
        /\ IsTarget(n, repNodes, i)
        /\ \/ /\ Confirmed(n, <<rep[o].key, i>>)
              /\ rep' = [rep EXCEPT ![o].pend = @ \ {i}, ![o].acked[i] = n]
           \/ /\ Unconfirmed(n, <<rep[o].key, i>>)
              /\ rep' = [rep EXCEPT ![o].pend = @ \ {i}]
    /\ UNCHANGED <<media, file, rows, peers, reg, up, swept, repPc, repNodes>>

\* Bug: a failed upload counts as well.
AllAcked(o) == Idx

Acked(o) == {i \in Idx : rep[o].acked[i] # NoNode}

\* Bug: any confirmed shard will do.
SomeAcked(o) == Acked(o) # {}

Enough(o) == Cardinality(Acked(o)) >= DATA_SHARDS

Uploaded(o) == rep[o].pc = "store" /\ rep[o].pend = {}

\* The upserted row of shard i; an existing row keeps its last_checked_at.
ShardRow(o, i) ==
    [node |-> rep[o].acked[i], key |-> rep[o].key,
     age |-> IF HasRow(i) THEN rows[i].age ELSE Unchecked]

\* Enough shards confirmed: their nodes are upserted, then one transaction
\* upserts their rows and marks every row of the hash synced under the new key.
RepCommit(o) ==
    /\ Uploaded(o)
    /\ Enough(o)
    /\ peers' = [n \in Nodes |-> IF \E i \in Acked(o) : rep[o].acked[i] = n
                                   THEN [db |-> "active", seen |-> 0] ELSE peers[n]]
    /\ rows' = [i \in Idx |-> IF i \in Acked(o) THEN ShardRow(o, i) ELSE rows[i]]
    /\ media' = [p \in Owners |->
                    IF Exists(p) THEN [media[p] EXCEPT !.synced = TRUE, !.key = rep[o].key,
                                                       !.cooling = TRUE]
                                 ELSE media[p]]
    /\ RepFinish(o)
    /\ UNCHANGED <<file, reg, up, stored, swept, faults>>

\* Too few: the error path stamps the attempt.
RepFail(o) ==
    /\ Uploaded(o)
    /\ ~Enough(o)
    /\ UpdateMedia(Stamped)
    /\ RepFinish(o)
    /\ UNCHANGED <<file, rows, peers, reg, up, stored, swept, faults>>

\* FreshKeys are the keys the random generator can return: none in use.
RepNext(FreshKeys) ==
    \/ RepCycle \/ RepBatch
    \/ \E o \in Owners :
        \/ RepMissing(o) \/ RepCommit(o) \/ RepFail(o)
        \/ \E k \in FreshKeys : RepBegin(o, k)
        \/ \E i \in Idx : RepStore(o, i)
=============================================================================
