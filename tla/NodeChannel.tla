---------------------------- MODULE NodeChannel -----------------------------
(***************************************************************************)
(* The reverse channels to nodes behind NAT: a storage node keeps one      *)
(* authenticated connection to the coordinator (np2p/network/channel.rs;   *)
(* the home server's tunnel, np2p/network/tunnel.rs, is kept the same      *)
(* way), and the coordinator maps the node's id to it                      *)
(* (coordinator/src/main.rs) and relays requests over it                   *)
(* (coordinator/src/handler.rs).                                           *)
(*                                                                         *)
(* A node may drop a connection that the coordinator still believes in     *)
(* until its idle timeout, so several of a node's connections may be open  *)
(* at the coordinator at a time.  A task that waits for nothing is faster  *)
(* than the five seconds a node waits before it connects again.            *)
(***************************************************************************)
EXTENDS Integers, FiniteSets

CONSTANTS
    ChannelNodes,  \* nodes that keep a channel
    Conns,       \* connections, used again once forgotten
    Relays,      \* relay requests
    MaxDrops,    \* bound: sessions a node loses
    NoConn, NoMember

ASSUME NodeChannelAssumption ==
    /\ MaxDrops \in Nat
    /\ NoConn \notin Conns
    /\ NoMember \notin ChannelNodes

\* The coordinator's task for a connection: none, it has challenged the node,
\* it has accepted the signature, it is in the map, the connection is closed.
ConnPhases == {"none", "challenged", "accepted", "registered", "closed"}

VARIABLES
    connPhase,
    connNode,     \* the node whose connection it is
    session,      \* the connection each node is using
    channelMap,   \* ChannelMap: node -> connection
    relay,        \* where each relay request is
    relayTo,      \* the node it is for
    drops

channelVars == <<connPhase, connNode, session, channelMap, relay, relayTo, drops>>

ChannelTypeOK ==
    /\ connPhase \in [Conns -> ConnPhases]
    /\ connNode \in [Conns -> ChannelNodes \cup {NoMember}]
    /\ session \in [ChannelNodes -> Conns \cup {NoConn}]
    /\ channelMap \in [ChannelNodes -> Conns \cup {NoConn}]
    /\ relay \in [Relays -> Conns \cup {"none", "direct"}]
    /\ relayTo \in [Relays -> ChannelNodes \cup {NoMember}]
    /\ drops \in 0 .. MaxDrops

ChannelInit ==
    /\ connPhase = [c \in Conns |-> "none"]
    /\ connNode = [c \in Conns |-> NoMember]
    /\ session = [m \in ChannelNodes |-> NoConn]
    /\ channelMap = [m \in ChannelNodes |-> NoConn]
    /\ relay = [r \in Relays |-> "none"]
    /\ relayTo = [r \in Relays |-> NoMember]
    /\ drops = 0

SetPhase(c, p) == connPhase' = [connPhase EXCEPT ![c] = p]

\* The node still holds the connection, so it answers on it.
Held(c) == connNode[c] # NoMember /\ session[connNode[c]] = c

\* run_channel: connect and NodeChannelRegister, which the coordinator answers
\* with a nonce; after a lost session, not before the reconnect delay is over.
Connect(m, c) ==
    /\ session[m] = NoConn
    /\ connPhase[c] = "none"
    /\ \A d \in Conns : connNode[d] = m => connPhase[d] # "accepted"
    /\ session' = [session EXCEPT ![m] = c]
    /\ connNode' = [connNode EXCEPT ![c] = m]
    /\ SetPhase(c, "challenged")
    /\ UNCHANGED <<channelMap, relay, relayTo, drops>>

\* The signature over the nonce arrives and is verified.
VerifyChallenge(c) ==
    /\ connPhase[c] = "challenged" /\ Held(c)
    /\ SetPhase(c, "accepted")
    /\ UNCHANGED <<connNode, session, channelMap, relay, relayTo, drops>>

\* Bug: an entry that is there is left alone.
RegisterIfFree(c) ==
    /\ connPhase[c] = "accepted"
    /\ channelMap' = IF channelMap[connNode[c]] = NoConn
                     THEN [channelMap EXCEPT ![connNode[c]] = c] ELSE channelMap
    /\ SetPhase(c, "registered")
    /\ UNCHANGED <<connNode, session, relay, relayTo, drops>>

\* The accepted connection replaces whatever the map had for the node.
RegisterChannel(c) ==
    /\ connPhase[c] = "accepted"
    /\ channelMap' = [channelMap EXCEPT ![connNode[c]] = c]
    /\ SetPhase(c, "registered")
    /\ UNCHANGED <<connNode, session, relay, relayTo, drops>>

\* The node loses its connection, or restarts.
DropSession(m) ==
    /\ session[m] # NoConn /\ drops < MaxDrops
    /\ drops' = drops + 1
    /\ session' = [session EXCEPT ![m] = NoConn]
    /\ UNCHANGED <<connPhase, connNode, channelMap, relay, relayTo>>

\* The coordinator notices that a connection is gone.  A task that was still
\* waiting for the signature returns.
NoticeClosed(c) ==
    /\ connPhase[c] \in {"challenged", "registered"} /\ ~Held(c)
    /\ IF connPhase[c] = "registered"
       THEN SetPhase(c, "closed") /\ UNCHANGED connNode
       ELSE SetPhase(c, "none") /\ connNode' = [connNode EXCEPT ![c] = NoMember]
    /\ UNCHANGED <<session, channelMap, relay, relayTo, drops>>

\* Bug: the node's entry is removed whichever connection it has.
MapWithoutNode(c) == [channelMap EXCEPT ![connNode[c]] = NoConn]

\* What the task takes out of the map once its connection is closed: its own
\* entry, if it is still there.
MapWithout(c) ==
    IF channelMap[connNode[c]] = c
    THEN [channelMap EXCEPT ![connNode[c]] = NoConn]
    ELSE channelMap

ForgetChannel(c) ==
    /\ connPhase[c] = "closed"
    /\ channelMap' = MapWithout(c)
    /\ SetPhase(c, "none")
    /\ connNode' = [connNode EXCEPT ![c] = NoMember]
    /\ UNCHANGED <<session, relay, relayTo, drops>>

-----------------------------------------------------------------------------
(* Relaying *)

\* RelayRequest: over the channel the map has, whatever its state, else by a
\* connection of the coordinator's own.
StartRelay(r, m) ==
    /\ relay[r] = "none"
    /\ relay' = [relay EXCEPT ![r] = IF channelMap[m] # NoConn THEN channelMap[m] ELSE "direct"]
    /\ relayTo' = [relayTo EXCEPT ![r] = m]
    /\ UNCHANGED <<connPhase, connNode, session, channelMap, drops>>

\* The target's answer, an error, or the end of the 10 s and 30 s the
\* coordinator waits: the requester is answered or its stream is dropped.
EndRelay(r) ==
    /\ relay[r] # "none"
    /\ relay' = [relay EXCEPT ![r] = "none"]
    /\ relayTo' = [relayTo EXCEPT ![r] = NoMember]
    /\ UNCHANGED <<connPhase, connNode, session, channelMap, drops>>

-----------------------------------------------------------------------------

CoordinatorTask(c) ==
    VerifyChallenge(c) \/ RegisterChannel(c) \/ NoticeClosed(c) \/ ForgetChannel(c)

ChannelNext ==
    \/ \E m \in ChannelNodes, c \in Conns : Connect(m, c)
    \/ \E m \in ChannelNodes : DropSession(m)
    \/ \E c \in Conns : CoordinatorTask(c)
    \/ \E r \in Relays : EndRelay(r) \/ \E m \in ChannelNodes : StartRelay(r, m)

\* A node's client loop retries for ever; the coordinator's tasks run, and QUIC
\* reports a dead connection after its idle timeout.
ChannelFairness ==
    /\ \A m \in ChannelNodes : WF_channelVars(\E c \in Conns : Connect(m, c))
    /\ \A c \in Conns : WF_channelVars(CoordinatorTask(c))

ChannelSpec == ChannelInit /\ [][ChannelNext]_channelVars /\ ChannelFairness

-----------------------------------------------------------------------------
(* Properties *)

\* While a node uses a registered connection, the map has that very connection:
\* the task of an older connection of the same node, which may notice its end
\* at any time, never takes the newer entry away.
RegisteredReachable ==
    \A m \in ChannelNodes :
        session[m] # NoConn /\ connPhase[session[m]] = "registered"
            => channelMap[m] = session[m]

\* Whatever sessions were lost, a node that keeps trying is reachable over the
\* connection it uses in the end.
ChannelRestored ==
    \A m \in ChannelNodes : <>[](session[m] # NoConn /\ channelMap[m] = session[m])

=============================================================================
