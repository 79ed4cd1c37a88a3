------------------------------- MODULE Audit -------------------------------
(***************************************************************************)
(* The audit worker (src/p2p_audit_worker.rs).  One audit purges the       *)
(* shards of deleted files, sweeps the storage nodes for shards no row     *)
(* names (once a day), verifies the rows that are due and repairs the lost *)
(* ones; when none is due it runs the consistency check: the same purge    *)
(* and sweep, then the repair of files that are short of shards.           *)
(***************************************************************************)
EXTENDS Mesh

CONSTANTS
    Prefixes,    \* the listing is by first byte of the shard hash: 0 .. 255 in the code
    PrefixOf     \* the prefix of every shard

ASSUME PrefixAssumption ==
    /\ Prefixes \in Nat \ {0}
    /\ PrefixOf \in [Objects -> 0 .. Prefixes - 1]

VARIABLE aud

audVars == <<aud>>

\* full: in check_consistency.  work: shards about to be deleted, on the node
\* they are on.  nodes, node, prefix: the sweep's loops.  todo, snap: the shard
\* indices still to be verified or repaired and the rows as they were read.
\* idx, target, key, update: the repair under way; update marks the fallback,
\* which never inserts a row.
AuditState ==
    [pc : {"idle", "purge", "sweep", "query", "prune", "scan", "check", "repair", "row", "cons", "fix"},
     full : BOOLEAN, work : SUBSET (Nodes \X Objects),
     nodes : SUBSET Nodes, node : Nodes \cup {NoNode}, prefix : 0 .. Prefixes - 1,
     todo : SUBSET Idx, snap : [Idx -> Row \cup {NoRow}],
     idx : Idx, target : Nodes \cup {NoNode}, key : Keys \cup {NoKey}, update : BOOLEAN]

NoAudit ==
    [pc |-> "idle", full |-> FALSE, work |-> {}, nodes |-> {}, node |-> NoNode, prefix |-> 0,
     todo |-> {}, snap |-> [i \in Idx |-> NoRow],
     idx |-> 0, target |-> NoNode, key |-> NoKey, update |-> FALSE]

\* The repair under way and the rows read for verification are complete.
AudTypeOK ==
    /\ aud \in AuditState
    /\ aud.pc = "row" => aud.target \in Nodes /\ aud.key \in Keys
    /\ aud.pc = "check" => ~aud.full
    /\ aud.pc \in {"cons", "fix"} => aud.full
    /\ ~aud.full => \A i \in aud.todo : aud.snap[i] # NoRow

AudInit == aud = NoAudit

-----------------------------------------------------------------------------
(* cleanup_orphaned_shards_with_service *)

\* The shards of the rows whose file has no live image or video.
Orphaned == IF Live THEN {} ELSE {<<rows[i].node, <<rows[i].key, i>>>> : i \in RowIdx}

\* perform_audit: the active nodes are entered in the registry, then the
\* orphaned rows are read.
AudStart ==
    /\ "audit" \in Workers
    /\ aud.pc = "idle"
    /\ reg' = reg \cup Active
    /\ aud' = [NoAudit EXCEPT !.pc = "purge", !.work = Orphaned]
    /\ UNCHANGED <<media, file, rows, peers, up, stored, swept, faults>>

AudPurge ==
    /\ aud.pc = "purge"
    /\ \E x \in aud.work :
        /\ RemoteDelete(x[1], x[2])
        /\ aud' = [aud EXCEPT !.work = @ \ {x}]
    /\ UNCHANGED <<media, file, rows, peers, up, swept>>

\* The rows go, if the file has no live row at this point.  The sweep is next in
\* the consistency check, and in an audit when the last one is a day ago.
AudPurgeRows ==
    /\ aud.pc = "purge"
    /\ aud.work = {}
    /\ rows' = IF Live THEN rows ELSE [i \in Idx |-> NoRow]
    /\ swept' = (aud.full => swept)
    /\ aud' = IF aud.full \/ ~swept THEN [aud EXCEPT !.pc = "sweep", !.nodes = Active]
                                    ELSE [aud EXCEPT !.pc = "scan"]
    /\ UNCHANGED <<media, file, peers, reg, up, stored, faults>>

-----------------------------------------------------------------------------
(* sweep_storage_node_orphans *)

\* The next node, and after the last one the next stage.
AudSweepNode ==
    /\ aud.pc = "sweep"
    /\ aud.node = NoNode
    /\ \/ \E n \in aud.nodes :
            /\ IF Resolves(n) THEN Resolve(n) ELSE UNCHANGED reg
            /\ aud' = [aud EXCEPT !.nodes = @ \ {n}, !.prefix = 0,
                                  !.node = IF Resolves(n) THEN n ELSE NoNode]
       \/ /\ aud.nodes = {}
          /\ aud' = [aud EXCEPT !.pc = IF aud.full THEN "cons" ELSE "scan"]
          /\ UNCHANGED reg
    /\ UNCHANGED <<media, file, rows, peers, up, stored, swept, faults>>

\* Bug: the loop of the prefixes leaves out the last one.
PrefixShort(p) ==
    aud' = [aud EXCEPT !.pc = "sweep", !.work = {}, !.prefix = p % (Prefixes - 1),
                       !.node = IF p = Prefixes - 1 THEN NoNode ELSE @]

\* The loop of the prefixes goes on with p.
Prefix(p) ==
    aud' = [aud EXCEPT !.pc = "sweep", !.work = {}, !.prefix = p % Prefixes,
                       !.node = IF p = Prefixes THEN NoNode ELSE @]

Listed == {obj \in stored[aud.node] : PrefixOf[obj] = aud.prefix}

\* list_remote_shards for one prefix; a failure skips it.
AudSweepList ==
    /\ aud.pc = "sweep"
    /\ aud.node # NoNode
    /\ \/ /\ Reachable(aud.node) /\ Listed # {}
          /\ aud' = [aud EXCEPT !.pc = "query", !.work = {aud.node} \X Listed]
          /\ UNCHANGED faults
       \/ /\ \/ ~(Reachable(aud.node) /\ Listed # {}) /\ UNCHANGED faults
             \/ Reachable(aud.node) /\ Listed # {} /\ Fault("lossy")
          /\ Prefix(aud.prefix + 1)
    /\ UNCHANGED <<media, file, rows, peers, reg, up, stored, swept>>

\* Bug: only rows verified within the week count.
ReferencedLately(obj) == \E i \in RowIdx : <<rows[i].key, i>> = obj /\ rows[i].age < 2

\* A shard some row names, on whatever node.
Referenced(obj) == \E i \in RowIdx : <<rows[i].key, i>> = obj

\* is_recently_stored looks into a map of its own, which nothing writes to:
\* note_recent_store fills another one.
IsRecentlyStored(n, obj) == FALSE

AudSweepQuery ==
    /\ aud.pc = "query"
    /\ aud' = [aud EXCEPT !.pc = "prune",
                          !.work = {x \in @ : ~Referenced(x[2]) /\ ~IsRecentlyStored(x[1], x[2])}]
    /\ UNCHANGED meshVars

\* The unreferenced shards are deleted one by one, at the address looked up
\* when the node's turn came.
AudSweepDelete ==
    /\ aud.pc = "prune"
    /\ \/ \E x \in aud.work :
            /\ IF x[1] \in reg THEN RemoteDelete(x[1], x[2]) ELSE UNCHANGED <<reg, stored, faults>>
            /\ aud' = [aud EXCEPT !.work = @ \ {x}]
       \/ /\ aud.work = {}
          /\ Prefix(aud.prefix + 1)
          /\ UNCHANGED <<reg, stored, faults>>
    /\ UNCHANGED <<media, file, rows, peers, up, swept>>

-----------------------------------------------------------------------------
(* Verification *)

\* Bug: only rows that were never verified are due.
NeverChecked == {i \in RowIdx : rows[i].age = Unchecked}

DueRows == {i \in RowIdx : rows[i].age >= 2}

\* The rows not verified for a week are read; with none, check_consistency
\* starts, which syncs the registry and purges again.
AudScan ==
    /\ aud.pc = "scan"
    /\ IF DueRows = {}
         THEN /\ aud' = [NoAudit EXCEPT !.pc = "purge", !.full = TRUE, !.work = Orphaned]
              /\ reg' = reg \cup Active
         ELSE /\ aud' = [NoAudit EXCEPT !.pc = "check", !.todo = DueRows,
                            !.snap = [i \in Idx |-> IF i \in DueRows THEN rows[i] ELSE NoRow]]
              /\ UNCHANGED reg
    /\ UNCHANGED <<media, file, rows, peers, up, stored, swept, faults>>

\* Shard i is dealt with: the loop goes on, and after the last one the audit ends.
Dealt(i) ==
    aud' = IF aud.todo = {i} THEN NoAudit
           ELSE [aud EXCEPT !.pc = IF aud.full THEN "fix" ELSE "check", !.todo = @ \ {i},
                            !.snap[i] = NoRow,
                            !.idx = 0, !.target = NoNode, !.key = NoKey, !.update = FALSE]

\* A shard that is there is stamped; one that is not, or whose node does not
\* answer, is repaired.
AudCheck(i) ==
    LET r == aud.snap[i]
        found == Retrieves(r.node, <<r.key, i>>)
    IN  /\ aud.pc = "check"
        /\ i \in aud.todo
        /\ \/ /\ ~Resolves(r.node)
              /\ Dealt(i)
              /\ UNCHANGED <<rows, reg, faults>>
           \/ /\ Resolves(r.node) /\ found
              /\ Resolve(r.node)
              /\ rows' = [rows EXCEPT ![i] = IF @ = NoRow THEN @ ELSE [@ EXCEPT !.age = 0]]
              /\ Dealt(i)
              /\ UNCHANGED faults
           \/ /\ Resolves(r.node)
              /\ Resolve(r.node)
              /\ \/ ~found /\ UNCHANGED faults
                 \/ found /\ Fault("lossy")
              /\ aud' = [aud EXCEPT !.pc = "repair", !.idx = i]
              /\ UNCHANGED rows
        /\ UNCHANGED <<media, file, peers, up, stored, swept>>

-----------------------------------------------------------------------------
(* repair_file *)

\* The registry's nodes, or the active ones of p2p_nodes if it is empty.
RepairNodes == IF reg # {} THEN reg ELSE Active

\* What repair_file can upload to n as shard i when find_file_info returns k:
\* the shard cut from the original under k, or without a key the row's own
\* shard, if another node still has it.
Sources(k, n, i) ==
    IF k # NoKey
      THEN {key \in {k} : Recuts(key)}
      ELSE {key \in Keys :
              /\ HasRow(i)
              /\ rows[i].key = key
              /\ \E m \in RepairNodes \ {n} : Retrieves(m, <<key, i>>)}

\* repair_file up to the upload.  A failure leaves the shard for a later audit.
Repair(i) ==
    /\ reg' = reg \cup RepairNodes
    /\ \/ /\ RepairNodes = {}
          /\ Dealt(i)
          /\ UNCHANGED <<stored, faults>>
       \/ \E n \in Nodes, k \in InfoKeys :
            /\ IsTarget(n, RepairNodes, i)
            /\ \/ \E key \in Sources(k, n, i) :
                    /\ n \in up
                    /\ \/ /\ Store(n, <<key, i>>)
                          /\ aud' = [aud EXCEPT !.pc = "row", !.idx = i, !.target = n,
                                                !.key = key, !.update = (k = NoKey)]
                          /\ UNCHANGED faults
                       \/ /\ Fault("lossy")
                          /\ \/ UNCHANGED stored
                             \/ Store(n, <<key, i>>)
                          /\ Dealt(i)
               \/ /\ Sources(k, n, i) = {} \/ n \notin up
                  /\ Dealt(i)
                  /\ UNCHANGED <<stored, faults>>
    /\ UNCHANGED <<media, file, rows, peers, up, swept>>

AudRepair ==
    /\ aud.pc = "repair"
    /\ Repair(aud.idx)

\* The repaired shard's row is written; the fallback only updates one.  A node
\* that has left p2p_nodes makes the statement fail.
AudRow ==
    LET i == aud.idx
        writes == peers[aud.target].db # "none" /\ (aud.update => HasRow(i))
    IN  /\ aud.pc = "row"
        /\ rows' = IF writes
                     THEN [rows EXCEPT ![i] = [node |-> aud.target, key |-> aud.key, age |-> 0]]
                     ELSE rows
        /\ Dealt(i)
        /\ UNCHANGED <<media, file, peers, reg, up, stored, swept, faults>>

-----------------------------------------------------------------------------
(* check_consistency after the sweep *)

Synced(o) == Exists(o) /\ media[o].synced

\* find_undersharded_files fails, for every file, while some synced file that
\* has shards is in the table twice: its subquery then returns two rows.
AmbiguousFile ==
    /\ RowIdx # {}
    /\ \E o, p \in Owners : o # p /\ Synced(o) /\ Exists(p)

UnderSharded ==
    /\ \E o \in Owners : Synced(o)
    /\ Cardinality(RowIdx) < DATA_SHARDS

Unsynced(m) == [m EXCEPT !.synced = FALSE]

\* A file without any shard is queued for replication again, one with a few of
\* them has every shard repaired.
AudCons ==
    /\ aud.pc = "cons"
    /\ \/ /\ AmbiguousFile \/ ~UnderSharded
          /\ aud' = NoAudit
          /\ UNCHANGED media
       \/ /\ ~AmbiguousFile /\ UnderSharded /\ RowIdx = {}
          /\ UpdateMedia(Unsynced)
          /\ aud' = NoAudit
       \/ /\ ~AmbiguousFile /\ UnderSharded /\ RowIdx # {}
          /\ aud' = [aud EXCEPT !.pc = "fix", !.todo = Idx]
          /\ UNCHANGED media
    /\ UNCHANGED <<file, rows, peers, reg, up, stored, swept, faults>>

AudFix(i) ==
    /\ aud.pc = "fix"
    /\ i \in aud.todo
    /\ \A j \in aud.todo : i =< j
    /\ Repair(i)

AudNext ==
    \/ AudStart \/ AudPurge \/ AudPurgeRows
    \/ AudSweepNode \/ AudSweepList \/ AudSweepQuery \/ AudSweepDelete
    \/ AudScan \/ AudRepair \/ AudRow \/ AudCons
    \/ \E i \in Idx : AudCheck(i) \/ AudFix(i)
=============================================================================
