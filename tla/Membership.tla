----------------------------- MODULE Membership -----------------------------
(***************************************************************************)
(* Who counts as a storage node, with time: the in-memory registry and its *)
(* one-hour eviction, p2p_nodes with last_seen and is_active, the workers  *)
(* that copy one into the other, their adaptive intervals, and the         *)
(* replication worker's test for lost redundancy, for one backed-up file.  *)
(*                                                                         *)
(* Time advances in ticks of ten minutes, the shortest span the code tells *)
(* apart.  Announcements come every ten seconds and the replication worker *)
(* runs every few seconds, so within a tick both happen at any moment; the *)
(* rebalance and audit workers run when their interval has elapsed.        *)
(***************************************************************************)
EXTENDS Integers, FiniteSets

CONSTANTS
    Nodes,         \* storage nodes
    SHARD_COUNT,   \* shards per file
    DATA_SHARDS,   \* shards needed to reconstruct
    Rank,          \* the nodes' rendezvous order for the file
    Fresh,         \* ticks a last_seen counts as recent (ten minutes: 1)
    TTL,           \* ticks until the registry evicts a silent peer (an hour: 6)
    MaxInterval,   \* ticks the idle workers back off to (an hour: 6)
    MaxRestarts    \* bound on restarts of the home server

Idx == 0 .. SHARD_COUNT - 1

ASSUME MembershipAssumption ==
    /\ SHARD_COUNT \in Nat /\ DATA_SHARDS \in Nat \ {0}
    /\ Rank \in [Nodes -> Nat] /\ \A m, n \in Nodes : Rank[m] = Rank[n] => m = n
    /\ Fresh \in Nat \ {0} /\ TTL \in Nat \ {0} /\ Fresh =< TTL
    /\ MaxInterval \in Nat \ {0}
    /\ MaxRestarts \in Nat

Sweepers == {"rebalance", "audit"}

VARIABLES
    up,         \* nodes that run, and announce themselves
    regAge,     \* ticks since the registry entry was refreshed; TTL: no entry
    seen,       \* ticks since p2p_nodes.last_seen, up to Fresh
    active,     \* p2p_nodes.is_active
    interval,   \* current_interval of the two workers
    left,       \* ticks until each of them runs
    place,      \* the node of every shard of the file, in p2p_shards
    synced,     \* the file's p2p_synced_at is set
    cooling,    \* its p2p_last_attempt_at is less than ten minutes ago
    silent,     \* history: ticks since the server heard the node, up to Fresh
    heard,      \* history: nodes heard of since the server started
    restarts

historyVars == <<silent, heard, restarts>>

vars == <<up, regAge, seen, active, interval, left, place, synced, cooling, historyVars>>

TypeOK ==
    /\ up \in SUBSET Nodes
    /\ regAge \in [Nodes -> 0 .. TTL]
    /\ seen \in [Nodes -> 0 .. Fresh]
    /\ active \in [Nodes -> BOOLEAN]
    /\ interval \in [Sweepers -> 1 .. MaxInterval]
    /\ left \in [Sweepers -> 0 .. MaxInterval]
    /\ place \in [Idx -> Nodes]
    /\ synced \in BOOLEAN
    /\ cooling \in BOOLEAN
    /\ silent \in [Nodes -> 0 .. Fresh]
    /\ heard \in SUBSET Nodes
    /\ restarts \in 0 .. MaxRestarts

\* The peers the registry returns
Known == {n \in Nodes : regAge[n] < TTL}

\* rendezvous_select ranks the nodes it is given, and shard i goes to the one in
\* place i % len.
Target(S, i) ==
    CHOOSE n \in S : Cardinality({m \in S : Rank[m] < Rank[n]}) = i % Cardinality(S)

Init ==
    /\ up = Nodes
    /\ regAge = [n \in Nodes |-> 0]
    /\ seen = [n \in Nodes |-> 0]
    /\ active = [n \in Nodes |-> TRUE]
    /\ interval = [w \in Sweepers |-> 1]
    /\ left = [w \in Sweepers |-> 0]
    /\ place \in [Idx -> Nodes] /\ \A i \in Idx : place[i] = Target(Nodes, i)
    /\ synced = TRUE
    /\ cooling = FALSE
    /\ silent = [n \in Nodes |-> 0]
    /\ heard = Nodes
    /\ restarts = 0

-----------------------------------------------------------------------------

\* One more tick, up to a limit.
Aged(t, limit) == IF t < limit THEN t + 1 ELSE limit

\* Ten minutes pass, which no due worker lets happen.  The nodes that run have
\* announced themselves; the sweeper evicts the entries that are an hour old.
Tick ==
    /\ \A w \in Sweepers : left[w] > 0
    /\ left' = [w \in Sweepers |-> left[w] - 1]
    /\ regAge' = [n \in Nodes |-> IF n \in up THEN 0 ELSE Aged(regAge[n], TTL)]
    /\ silent' = [n \in Nodes |-> IF n \in up THEN 0 ELSE Aged(silent[n], Fresh)]
    /\ heard' = heard \cup up
    /\ seen' = [n \in Nodes |-> Aged(seen[n], Fresh)]
    /\ cooling' = FALSE
    /\ UNCHANGED <<up, active, interval, place, synced, restarts>>

\* An announcement (or the coordinator's peer list) refreshes the entry.
Announce(n) ==
    /\ n \in up
    /\ regAge' = [regAge EXCEPT ![n] = 0]
    /\ silent' = [silent EXCEPT ![n] = 0]
    /\ heard' = heard \cup {n}
    /\ UNCHANGED <<up, seen, active, interval, left, place, synced, cooling, restarts>>

NodeDown(n) ==
    /\ n \in up
    /\ up' = up \ {n}
    /\ UNCHANGED <<regAge, seen, active, interval, left, place, synced, cooling, historyVars>>

NodeUp(n) ==
    /\ n \in Nodes \ up
    /\ up' = up \cup {n}
    /\ UNCHANGED <<regAge, seen, active, interval, left, place, synced, cooling, historyVars>>

\* Bug: the interval has no upper limit.
DoubledForever(t) == 2 * t

\* run_worker_loop: back to the shortest interval after work, doubled up to the
\* longest when idle or failed.
Doubled(t) == IF 2 * t < MaxInterval THEN 2 * t ELSE MaxInterval

Reschedule(w) ==
    \E didWork \in BOOLEAN :
        LET t == IF didWork THEN 1 ELSE Doubled(interval[w])
        IN  /\ interval' = [interval EXCEPT ![w] = t]
            /\ left' = [left EXCEPT ![w] = t]

\* sync_db_nodes_to_registry, when isActive is what p2p_nodes says
SyncRegistry(isActive) == regAge' = [n \in Nodes |-> IF isActive[n] THEN 0 ELSE regAge[n]]

\* ensure_peers_registered: the registry's peers are active and seen now; the
\* others are inactive once not seen for ten minutes.
RegisteredSeen == [n \in Nodes |-> IF n \in Known THEN 0 ELSE seen[n]]

\* Bug: the upsert of a known peer leaves last_seen alone.
ActiveBySeen == [n \in Nodes |-> (n \in Known \/ active[n]) /\ seen[n] < Fresh]

\* Bug: it leaves is_active alone.
ActiveOnce == [n \in Nodes |-> active[n] /\ (n \in Known \/ seen[n] < Fresh)]

RegisteredActive == [n \in Nodes |-> n \in Known \/ (active[n] /\ seen[n] < Fresh)]

\* rebalance_cycle, as far as membership goes
RebalanceRun ==
    /\ left["rebalance"] = 0
    /\ seen' = RegisteredSeen
    /\ active' = RegisteredActive
    /\ SyncRegistry(RegisteredActive)
    /\ Reschedule("rebalance")
    /\ UNCHANGED <<up, place, synced, cooling, historyVars>>

\* perform_audit, as far as membership goes
AuditRun ==
    /\ left["audit"] = 0
    /\ SyncRegistry(active)
    /\ Reschedule("audit")
    /\ UNCHANGED <<up, seen, active, place, synced, cooling, historyVars>>

\* Shards of the file on nodes the query calls reachable
Counted == {i \in Idx : active[place[i]] /\ seen[place[i]] < Fresh}

\* requeue_under_replicated
Requeue ==
    /\ Known # {}
    /\ synced /\ ~cooling
    /\ Cardinality(Counted) < DATA_SHARDS
    /\ synced' = FALSE
    /\ UNCHANGED <<up, regAge, seen, active, interval, left, place, cooling, historyVars>>

\* The replication of the queued file: its shards go to nodes selected anew from
\* the registry.  When enough are confirmed, their rows name those nodes and the
\* nodes' p2p_nodes rows are refreshed; the other shards keep their rows.
Replicate ==
    LET to     == [i \in Idx |-> Target(Known, i)]
        stored == {i \in Idx : to[i] \in Known \cap up}
        done   == Cardinality(stored) >= DATA_SHARDS
        nodes  == {to[i] : i \in stored}
    IN  /\ Known # {}
        /\ ~synced /\ ~cooling
        /\ cooling' = TRUE
        /\ synced' = done
        /\ place' = [i \in Idx |-> IF done /\ i \in stored THEN to[i] ELSE place[i]]
        /\ seen' = [n \in Nodes |-> IF done /\ n \in nodes THEN 0 ELSE seen[n]]
        /\ active' = [n \in Nodes |-> active[n] \/ (done /\ n \in nodes)]
        /\ UNCHANGED <<up, regAge, interval, left, historyVars>>

\* The home server restarts with an empty registry; the workers run at once.
Restart ==
    /\ restarts < MaxRestarts
    /\ restarts' = restarts + 1
    /\ regAge' = [n \in Nodes |-> TTL]
    /\ heard' = {}
    /\ interval' = [w \in Sweepers |-> 1]
    /\ left' = [w \in Sweepers |-> 0]
    /\ UNCHANGED <<up, seen, active, place, synced, cooling, silent>>

Next ==
    \/ Tick \/ RebalanceRun \/ AuditRun \/ Requeue \/ Replicate \/ Restart
    \/ \E n \in Nodes : Announce(n) \/ NodeDown(n) \/ NodeUp(n)

Spec == Init /\ [][Next]_vars

\* Timers fire, the runtime schedules the workers, running nodes announce.
FairSpec ==
    /\ Spec
    /\ WF_vars(Tick) /\ WF_vars(RebalanceRun) /\ WF_vars(AuditRun)
    /\ WF_vars(Requeue) /\ WF_vars(Replicate)
    /\ \A n \in Nodes : WF_vars(Announce(n))

-----------------------------------------------------------------------------

\* ensure_peers_registered "marks stale nodes inactive only after 10m of
\* inactivity": no worker retires a node heard of less than ten minutes ago,
\* however long the workers themselves were asleep, unless the server has been
\* restarted since and has not heard of the node again.  (The registry starts
\* empty and the first cycle runs at once, so a node that announced itself seconds
\* before the restart is retired when its last_seen is old.)
RetiredOnlyWhenSilent ==
    [][\A n \in heard : active[n] /\ ~active'[n] => silent[n] >= Fresh]_vars

\* A node that stays up is in the end active for good, whatever outages, restarts
\* and evictions came before.
Rejoins == \A n \in Nodes : <>[](n \in up) => <>[]active[n]

\* A node that is gone for good is marked inactive in the end.
DeadNodeRetired == \A n \in Nodes : <>[](n \notin up) => <>[]~active[n]

\* A file is queued for replication under a new key only when fewer than
\* data_shards of its shards are on nodes that run.
RequeuedOnlyWhenLost ==
    [][synced /\ ~synced' => Cardinality({i \in Idx : place[i] \in up}) < DATA_SHARDS]_vars
=============================================================================
