-------------------------------- MODULE Mesh --------------------------------
(***************************************************************************)
(* The state the backup workers share, for one media file (one content     *)
(* hash): its rows in images/videos (one per owner), its rows in           *)
(* p2p_shards, the p2p_nodes table, the in-memory peer registry, and what  *)
(* the storage nodes hold.  Everything the workers keep is keyed by the    *)
(* file hash: files meet only in the batch limits, which are left out.     *)
(*                                                                         *)
(* A shard's bytes are determined by the encryption key and the index      *)
(* (encryption is deterministic), so a shard hash is the pair <<key, idx>>.*)
(*                                                                         *)
(* Actions here are the ones no backup worker takes: users, time, the      *)
(* storage nodes and the network.  Modules Replication, Audit and          *)
(* Rebalance EXTEND this one; ShardLifecycle composes them.                *)
(***************************************************************************)
EXTENDS Integers, FiniteSets

CONSTANTS
    Nodes,         \* storage nodes
    Owners,        \* users that may hold a row for this file hash
    Keys,          \* encryption keys; a fresh random one per replication
    DATA_SHARDS,   \* shards needed to reconstruct (3 in the code)
    SHARD_COUNT,   \* shards per file (5 in the code)
    Score,         \* HRW score of every node for this file
    Workers,       \* background workers that run: "replicate", "audit", "rebalance"
    Env,           \* environment events considered (see the actions below)
    Library,       \* what the behaviours start from: "empty" or "backedup"
    MaxFaults,     \* bound on the number of faults in a behaviour
    NoKey, NoRow, NoNode

ASSUME MeshAssumption ==
    /\ IsFiniteSet(Nodes)
    /\ DATA_SHARDS \in Nat \ {0}
    /\ SHARD_COUNT \in Nat
    /\ DATA_SHARDS =< SHARD_COUNT
    /\ Library \in {"empty", "backedup"}
    /\ MaxFaults \in Nat
    /\ NoKey \notin Keys
    /\ NoNode \notin Nodes

ASSUME ScoreAssumption ==
    /\ Score \in [Nodes -> Int]
    /\ \A m, n \in Nodes : Score[m] = Score[n] => m = n

Idx == 0 .. SHARD_COUNT - 1

Objects == Keys \X Idx

\* last_checked_at of a p2p_shards row: 0 under an hour ago, 1 under a week,
\* 2 older, 3 NULL.
Unchecked == 3

\* The row's position is its shard_index; its shard_hash is <<key, idx>>.
Row == [node : Nodes, key : Keys, age : 0 .. 3]

ASSUME NoRowAssumption == NoRow \notin Row

\* images/videos: deleted_at is the difference between "live" and "trash";
\* cooling is "p2p_last_attempt_at within the last 10 minutes".
Media == [st : {"absent", "live", "trash"}, synced : BOOLEAN,
          key : Keys \cup {NoKey}, cooling : BOOLEAN]

\* p2p_nodes: whether the row exists and is_active; seen is last_seen:
\* 0 under ten minutes ago, 1 under an hour, 2 older.
NodeRow == [db : {"none", "inactive", "active"}, seen : 0 .. 2]

VARIABLES
    media,    \* images/videos rows of the file, by owner
    file,     \* the original is on the home server's disk, unmodified
    rows,     \* p2p_shards rows of the file, by shard_index
    peers,    \* p2p_nodes
    reg,      \* nodes in P2PService.registry
    up,       \* nodes that answer
    stored,   \* objects on each node's disk
    swept,    \* LAST_ORPHAN_SWEEP is within the last 24 hours
    faults    \* faults so far

meshVars == <<media, file, rows, peers, reg, up, stored, swept, faults>>

MeshTypeOK ==
    /\ media \in [Owners -> Media]
    /\ file \in BOOLEAN
    /\ rows \in [Idx -> Row \cup {NoRow}]
    /\ peers \in [Nodes -> NodeRow]
    /\ reg \in SUBSET Nodes
    /\ up \in SUBSET Nodes
    /\ stored \in [Nodes -> SUBSET Objects]
    /\ swept \in BOOLEAN
    /\ faults \in 0 .. MaxFaults

\* The node of rank idx % |targets| among the highest scores in S, which is
\* where every worker puts shard i when it knows the nodes S.
IsTarget(n, S, i) ==
    LET count == IF Cardinality(S) < SHARD_COUNT THEN Cardinality(S) ELSE SHARD_COUNT
    IN  /\ n \in S
        /\ Cardinality({m \in S : Score[m] > Score[n]}) = i % count

\* Nothing uploaded yet.
EmptyLibrary ==
    /\ media = [o \in Owners |-> [st |-> "absent", synced |-> FALSE,
                                  key |-> NoKey, cooling |-> FALSE]]
    /\ file = FALSE
    /\ rows = [i \in Idx |-> NoRow]
    /\ stored = [n \in Nodes |-> {}]

\* A file replicated to all the nodes and verified since, a few days ago.
BackedUpLibrary ==
    \E k \in Keys, place \in [Idx -> Nodes] :
        /\ \A i \in Idx : IsTarget(place[i], Nodes, i)
        /\ media = [o \in Owners |-> [st |-> "live", synced |-> TRUE,
                                      key |-> k, cooling |-> FALSE]]
        /\ file = TRUE
        /\ rows = [i \in Idx |-> [node |-> place[i], key |-> k, age |-> 1]]
        /\ stored = [n \in Nodes |-> {<<k, i>> : i \in {j \in Idx : place[j] = n}}]

\* The storage nodes have announced themselves and are registered.
MeshInit ==
    /\ IF Library = "empty" THEN EmptyLibrary ELSE BackedUpLibrary
    /\ peers = [n \in Nodes |-> [db |-> "active", seen |-> 0]]
    /\ reg = Nodes
    /\ up = Nodes
    /\ swept = FALSE
    /\ faults = 0

-----------------------------------------------------------------------------
(* Definitions over the shared state *)

HasRow(i) == rows[i] # NoRow

RowIdx == {i \in Idx : HasRow(i)}

Exists(o) == media[o].st # "absent"

Live == \E o \in Owners : media[o].st = "live"

Active == {n \in Nodes : peers[n].db = "active"}

\* is_active AND last_seen within ten minutes
Recent == {n \in Active : peers[n].seen = 0}

\* The shard a row names is on the disk of the node the row names.
Backed(i) == <<rows[i].key, i>> \in stored[rows[i].node]

\* lookup_node_addr finds an address: the registry's, or that of an active
\* p2p_nodes row, which it then enters in the registry.
Resolves(n) == n \in reg \/ n \in Active

Resolve(n) == reg' = reg \cup {n}

\* connect_to_addr reaches only nodes that are in the registry and answer.
Reachable(n) == n \in reg /\ n \in up

Store(n, obj) == stored' = [stored EXCEPT ![n] = @ \cup {obj}]

\* A fault of the given kind, if the instance considers it and the bound
\* allows another one.
Fault(kind) ==
    /\ kind \in Env
    /\ faults < MaxFaults
    /\ faults' = faults + 1

\* store_shard or upload_shard_to_node ends with the node's confirmation.
Confirmed(n, obj) == Reachable(n) /\ Store(n, obj) /\ UNCHANGED faults

\* It ends with an error: the node cannot be reached, or the exchange is cut off
\* before or after the shard is on disk.
Unconfirmed(n, obj) ==
    \/ ~Reachable(n) /\ UNCHANGED <<stored, faults>>
    \/ Reachable(n) /\ Fault("lossy") /\ (UNCHANGED stored \/ Store(n, obj))

\* retrieve_shard, or the inventory of the node, finds the shard.
Retrieves(n, obj) == n \in up /\ obj \in stored[n]

\* lookup_node_addr, then a best-effort delete_shard_remote: nobody looks at the
\* result, and the request may be lost.
RemoteDelete(n, obj) ==
    IF Resolves(n)
      THEN /\ Resolve(n)
           /\ \/ /\ n \in up
                 /\ stored' = [stored EXCEPT ![n] = @ \ {obj}]
                 /\ UNCHANGED faults
              \/ /\ n \notin up
                 /\ UNCHANGED <<stored, faults>>
              \/ /\ n \in up
                 /\ Fault("lossy")
                 /\ UNCHANGED stored
      ELSE UNCHANGED <<reg, stored, faults>>

\* Every row of the hash, whoever owns it: UPDATE images/videos ... WHERE hash = $1
UpdateMedia(Op(_)) ==
    media' = [o \in Owners |-> IF Exists(o) THEN Op(media[o]) ELSE media[o]]

Stamped(m) == [m EXCEPT !.cooling = TRUE]

\* A shard can be cut again from the original under the key k.
Recuts(k) == k # NoKey /\ file

\* The key find_file_info may return: that of any one row of the hash
\* (LIMIT 1 without an order), NoKey for a row without one or for no row at all.
InfoKeys ==
    IF \E o \in Owners : Exists(o)
      THEN {media[o].key : o \in {p \in Owners : Exists(p)}}
      ELSE {NoKey}

-----------------------------------------------------------------------------
(* Users *)

\* process_image_file: the original is put in place, then the row is inserted
\* or taken out of the trash.
Ingest(o) ==
    /\ \/ media[o].st = "absent"
       \/ media[o].st = "trash" /\ "restore" \in Env
       \/ media[o].st = "live" /\ ~file
    /\ file' = TRUE
    /\ media' = [media EXCEPT ![o].st = "live"]
    /\ UNCHANGED <<rows, peers, reg, up, stored, swept, faults>>

SoftDelete(o) ==
    /\ "delete" \in Env
    /\ media[o].st = "live"
    /\ media' = [media EXCEPT ![o].st = "trash"]
    /\ UNCHANGED <<file, rows, peers, reg, up, stored, swept, faults>>

SoftRestore(o) ==
    /\ "restore" \in Env
    /\ media[o].st = "trash"
    /\ media' = [media EXCEPT ![o].st = "live"]
    /\ UNCHANGED <<file, rows, peers, reg, up, stored, swept, faults>>

\* DELETE /api/p2p/nodes/{id}: refused while the node is active and was seen
\* within the hour; otherwise its shard rows and its own row go.
RemoveNode(n) ==
    /\ "remove" \in Env
    /\ peers[n].db # "none"
    /\ ~(peers[n].db = "active" /\ peers[n].seen < 2)
    /\ rows' = [i \in Idx |-> IF HasRow(i) /\ rows[i].node = n THEN NoRow ELSE rows[i]]
    /\ peers' = [peers EXCEPT ![n] = [db |-> "none", seen |-> 2]]
    /\ UNCHANGED <<media, file, reg, up, stored, swept, faults>>

-----------------------------------------------------------------------------
(* Time and the network *)

Older(a, least) == IF a >= least THEN a ELSE least

Spans == <<"ten minutes", "hour", "week">>

\* Ten minutes, an hour or a week pass: timestamps age, and after an hour the
\* registry drops the peers it has not heard of.
TimePasses(span) ==
    /\ Spans[span + 1] \in Env
    /\ media' = [o \in Owners |-> [media[o] EXCEPT !.cooling = FALSE]]
    /\ peers' = [n \in Nodes |->
                    [peers[n] EXCEPT !.seen = Older(@, IF span = 0 THEN 1 ELSE 2)]]
    /\ rows' = [i \in Idx |-> IF HasRow(i) THEN [rows[i] EXCEPT !.age = Older(@, span)]
                                           ELSE NoRow]
    /\ \E gone \in SUBSET (reg \ up) : (span = 0 => gone = {}) /\ reg' = reg \ gone
    /\ swept' \in CASE span = 0 -> {swept} [] span = 1 -> {swept, FALSE} [] OTHER -> {FALSE}
    /\ UNCHANGED <<file, up, stored, faults>>

\* A LAN announcement or a coordinator sync reaches the registry.
Announce(n) ==
    /\ n \in up \ reg
    /\ reg' = reg \cup {n}
    /\ UNCHANGED <<media, file, rows, peers, up, stored, swept, faults>>

NodeDown(n) ==
    /\ n \in up
    /\ Fault("down")
    /\ up' = up \ {n}
    /\ UNCHANGED <<media, file, rows, peers, reg, stored, swept>>

NodeUp(n) ==
    /\ n \in Nodes \ up
    /\ up' = up \cup {n}
    /\ UNCHANGED <<media, file, rows, peers, reg, stored, swept, faults>>

\* A storage node loses its shards (a replaced or wiped disk).
DiskLoss(n) ==
    /\ stored[n] # {}
    /\ Fault("diskloss")
    /\ stored' = [stored EXCEPT ![n] = {}]
    /\ UNCHANGED <<media, file, rows, peers, reg, up, swept>>

\* The original disappears from the home server.
FileLoss ==
    /\ file
    /\ Fault("fileloss")
    /\ file' = FALSE
    /\ UNCHANGED <<media, rows, peers, reg, up, stored, swept>>

MeshNext ==
    \/ \E o \in Owners : Ingest(o) \/ SoftDelete(o) \/ SoftRestore(o)
    \/ \E n \in Nodes : RemoveNode(n) \/ Announce(n) \/ NodeDown(n) \/ NodeUp(n) \/ DiskLoss(n)
    \/ \E span \in 0 .. 2 : TimePasses(span)
    \/ FileLoss
=============================================================================
