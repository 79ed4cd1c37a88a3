----------------------------- MODULE MCServices -----------------------------
(***************************************************************************)
(* Small instances for TLC of the parts of the mesh around the shard       *)
(* lifecycle, which meet only through what they store: a behaviour is one  *)
(* of the part it begins with, the others stay as they are.                *)
(***************************************************************************)
EXTENDS Membership, StorageNode, PeerDirectory, NodeChannel, TunnelPipe, TLC

CONSTANTS a, b

VARIABLE part

allVars == <<vars, nodeVars, directoryVars, channelVars, tunnelVars, part>>

\* The rendezvous order of the nodes for the file
MCRank == [n \in Nodes |-> IF n = a THEN 0 ELSE 1]

ServicesInit ==
    /\ Init /\ NodeInit /\ DirectoryInit /\ ChannelInit /\ TunnelInit
    /\ part \in {"membership", "node", "directory", "channel", "tunnel"}

ServicesNext ==
    \/ /\ part = "membership" /\ Next
       /\ UNCHANGED <<nodeVars, directoryVars, channelVars, tunnelVars, part>>
    \/ /\ part = "node" /\ NodeNext
       /\ UNCHANGED <<vars, directoryVars, channelVars, tunnelVars, part>>
    \/ /\ part = "directory" /\ DirectoryNext
       /\ UNCHANGED <<vars, nodeVars, channelVars, tunnelVars, part>>
    \/ /\ part = "channel" /\ ChannelNext
       /\ UNCHANGED <<vars, nodeVars, directoryVars, tunnelVars, part>>
    \/ /\ part = "tunnel" /\ TunnelNext
       /\ UNCHANGED <<vars, nodeVars, directoryVars, channelVars, part>>

\* The fairness of each part's own specification, for the part that runs.
ServicesFairness ==
    /\ WF_vars(part = "membership" /\ Tick)
    /\ WF_vars(part = "membership" /\ RebalanceRun)
    /\ WF_vars(part = "membership" /\ AuditRun)
    /\ \A n \in Nodes : WF_vars(part = "membership" /\ Announce(n))
    /\ \A t \in Streams : WF_nodeVars(part = "node" /\ NodeStep(t))
    /\ \A m \in ChannelNodes : WF_channelVars(part = "channel" /\ \E c \in Conns : Connect(m, c))
    /\ \A c \in Conns : WF_channelVars(part = "channel" /\ CoordinatorTask(c))
    /\ WF_tunnelVars(part = "tunnel" /\ PipeTick)
    /\ \A p \in Pipes : WF_tunnelVars(part = "tunnel" /\ (TimeOut(p) \/ HomeTimeOut(p)))

ServicesSpec == ServicesInit /\ [][ServicesNext]_allVars /\ ServicesFairness

\* The types of the parts whose own type invariant is not checked by itself.
ServicesTypeOK == NodeTypeOK /\ DirectoryTypeOK /\ ChannelTypeOK /\ TunnelTypeOK

\* Whatever sessions were lost, a node that keeps trying is reachable over the
\* connection it uses in the end (start_channel_client).
NodesRestored == part = "channel" => ChannelRestored

=============================================================================
