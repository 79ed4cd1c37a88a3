----------------------------- MODULE Rebalance -----------------------------
(***************************************************************************)
(* Shard migration (src/shard_rebalance_worker.rs).  The periodic worker   *)
(* and the sweeps the admin endpoints spawn all run rebalance_cycle; each  *)
(* of them is a member of Movers, and REBALANCE_ACTIVE lets one cycle run  *)
(* at a time.                                                              *)
(***************************************************************************)
EXTENDS Mesh

CONSTANT Movers    \* the worker and the admin-triggered sweeps

VARIABLES
    rebActive,   \* REBALANCE_ACTIVE
    reb          \* the cycle each mover is in

rebVars == <<rebActive, reb>>

\* nodes is the cycle's active_nodes, snap the rows it still has to look at.
Cycle == [pc : {"idle", "load", "move", "row", "del"}, nodes : SUBSET Nodes,
          snap : [Idx -> Row \cup {NoRow}]]

NoCycle == [pc |-> "idle", nodes |-> {}, snap |-> [i \in Idx |-> NoRow]]

RebTypeOK ==
    /\ rebActive \in BOOLEAN
    /\ reb \in [Movers -> Cycle]

RebInit ==
    /\ rebActive = FALSE
    /\ reb = [m \in Movers |-> NoCycle]

-----------------------------------------------------------------------------

\* ensure_peers_registered: the registry's nodes are active and seen now, and
\* the others not seen for ten minutes become inactive.
PeersRegistered ==
    [n \in Nodes |->
        CASE n \in reg -> [db |-> "active", seen |-> 0]
          [] n \notin reg /\ peers[n].db = "active" /\ peers[n].seen >= 1 ->
                [peers[n] EXCEPT !.db = "inactive"]
          [] OTHER -> peers[n]]

\* The start of rebalance_cycle_inner: registry and p2p_nodes are synchronised
\* both ways, and the nodes seen within ten minutes are read; without any the
\* cycle ends.
RebSync(m) ==
    /\ peers' = PeersRegistered
    /\ reg' = reg \cup {n \in Nodes : PeersRegistered[n].db = "active"}
    /\ LET found == {n \in Nodes : PeersRegistered[n].db = "active" /\ PeersRegistered[n].seen = 0}
       IN  /\ rebActive' = (found # {})
           /\ reb' = IF found = {} THEN reb
                     ELSE [reb EXCEPT ![m] = [NoCycle EXCEPT !.pc = "load", !.nodes = found]]
    /\ UNCHANGED <<media, file, rows, up, stored, swept, faults>>

\* Bug: the flag is set without looking at it.
RebStartUnclaimed(m) ==
    /\ "rebalance" \in Workers
    /\ reb[m].pc = "idle"
    /\ RebSync(m)

\* rebalance_cycle claims the flag, or ends.
RebStart(m) ==
    /\ "rebalance" \in Workers
    /\ reb[m].pc = "idle"
    /\ ~rebActive
    /\ RebSync(m)

\* The file has shards on fewer nodes than it could, and was last checked over
\* an hour ago or never (MIN ignores the rows without a timestamp).
NeedsRebalance(S) ==
    /\ RowIdx # {}
    /\ Cardinality({rows[i].node : i \in RowIdx}) < Cardinality(S)
    /\ Cardinality({rows[i].node : i \in RowIdx}) < SHARD_COUNT
    /\ \/ \A i \in RowIdx : rows[i].age = Unchecked
       \/ \E i \in RowIdx : rows[i].age \in {1, 2}

Released(m) ==
    /\ rebActive' = FALSE
    /\ reb' = [reb EXCEPT ![m] = NoCycle]

\* The selection query and rebalance_file's read of the shard assignments.
RebLoad(m) ==
    /\ reb[m].pc = "load"
    /\ IF NeedsRebalance(reb[m].nodes)
         THEN /\ reb' = [reb EXCEPT ![m].pc = "move", ![m].snap = rows]
              /\ UNCHANGED rebActive
         ELSE Released(m)
    /\ UNCHANGED meshVars

\* The loop of rebalance_file is at shard i.
At(m, i) ==
    /\ reb[m].snap[i] # NoRow
    /\ \A j \in Idx : j < i => reb[m].snap[j] = NoRow

Advance(m, i, pc) == reb' = [reb EXCEPT ![m].pc = pc, ![m].snap[i] = NoRow]

\* Shard i is where it belongs.
RebSkip(m, i) ==
    /\ reb[m].pc = "move"
    /\ At(m, i)
    /\ IsTarget(reb[m].snap[i].node, reb[m].nodes, i)
    /\ Advance(m, i, "move")
    /\ UNCHANGED <<meshVars, rebActive>>

\* retrieve_shard_from_old_node hands out the shard.
OldCopy(r, i) == Resolves(r.node) /\ Retrieves(r.node, <<r.key, i>>)

\* migrate_shard: the shard is cut again from the original under the file's
\* current key, or else fetched from the old node; it must have the hash the
\* row declared; it is uploaded to the new node.
RebMove(m, i) ==
    LET r == reb[m].snap[i]
    IN  /\ reb[m].pc = "move"
        /\ At(m, i)
        /\ \E n \in Nodes, k \in InfoKeys :
            LET good == IF Recuts(k) THEN k = r.key ELSE OldCopy(r, i)
            IN  /\ IsTarget(n, reb[m].nodes, i)
                /\ n # r.node
                /\ IF ~Recuts(k) /\ Resolves(r.node) THEN Resolve(r.node) ELSE UNCHANGED reg
                /\ \/ /\ good /\ Confirmed(n, <<r.key, i>>)
                      /\ reb' = [reb EXCEPT ![m].pc = "row"]
                   \/ /\ \/ ~good /\ UNCHANGED <<stored, faults>>
                         \/ good /\ Unconfirmed(n, <<r.key, i>>)
                      /\ Advance(m, i, "move")
        /\ UNCHANGED <<media, file, rows, peers, up, swept, rebActive>>

\* The row, if it is still there, is pointed at the new node, whatever it holds
\* by now.  A node that has left p2p_nodes makes the statement fail, which ends
\* the work on the file.
RebRow(m, i) ==
    LET r == reb[m].snap[i]
    IN  /\ reb[m].pc = "row"
        /\ At(m, i)
        /\ \E n \in Nodes :
            /\ IsTarget(n, reb[m].nodes, i)
            /\ IF HasRow(i) /\ peers[n].db = "none"
                 THEN Released(m) /\ UNCHANGED rows
                 ELSE /\ rows' = [rows EXCEPT ![i] = IF @ = NoRow THEN @
                                    ELSE [@ EXCEPT !.node = n, !.key = r.key]]
                      /\ reb' = [reb EXCEPT ![m].pc = "del"]
                      /\ UNCHANGED rebActive
        /\ UNCHANGED <<media, file, peers, reg, up, stored, swept, faults>>

\* Bug: the copy on the node the row names by now is deleted.
RebDelNew(m, i) ==
    /\ reb[m].pc = "del"
    /\ At(m, i)
    /\ HasRow(i)
    /\ RemoteDelete(rows[i].node, <<reb[m].snap[i].key, i>>)
    /\ Advance(m, i, "move")
    /\ UNCHANGED <<media, file, rows, peers, up, swept, rebActive>>

\* The copy on the previous node is deleted.
RebDel(m, i) ==
    LET r == reb[m].snap[i]
    IN  /\ reb[m].pc = "del"
        /\ At(m, i)
        /\ RemoteDelete(r.node, <<r.key, i>>)
        /\ Advance(m, i, "move")
        /\ UNCHANGED <<media, file, rows, peers, up, swept, rebActive>>

\* All shards done: the file's rows are stamped and the flag is released.
RebDone(m) ==
    /\ reb[m].pc = "move"
    /\ \A i \in Idx : reb[m].snap[i] = NoRow
    /\ rows' = [i \in Idx |-> IF HasRow(i) THEN [rows[i] EXCEPT !.age = 0] ELSE NoRow]
    /\ Released(m)
    /\ UNCHANGED <<media, file, peers, reg, up, stored, swept, faults>>

RebNext ==
    \E m \in Movers :
        \/ RebStart(m) \/ RebLoad(m) \/ RebDone(m)
        \/ \E i \in Idx : RebSkip(m, i) \/ RebMove(m, i) \/ RebRow(m, i) \/ RebDel(m, i)
=============================================================================
