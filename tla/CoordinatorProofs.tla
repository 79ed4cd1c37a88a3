------------------------- MODULE CoordinatorProofs --------------------------
(***************************************************************************)
(* Theorems of the coordinator's peer directory, channels and pipes, for   *)
(* any numbers of nodes, connections, clients, pending saves and restarts, *)
(* and of these with the storage node and the membership side by side.     *)
(***************************************************************************)
EXTENDS MCServices, MembershipProofs, StorageNodeProofs, FiniteSetTheorems, TLAPS

(* The peer directory *)

\* No record of a node is fresher than its last registration.
NotFresher(listing) == \A m \in Members : listing[m] = Unlisted \/ quiet[m] =< listing[m]

\* Entries, file and waiting snapshots agree with the nodes; since the coordinator
\* started, a node that registered is as old in the map as it really is.
DirectoryInv ==
    /\ DirectoryTypeOK
    /\ NotFresher(entry) /\ NotFresher(peersFile)
    /\ \A s \in saves : NotFresher(s)
    /\ \A m \in Members : current[m] /\ quiet[m] < PEER_TTL => entry[m] = quiet[m]

LEMMA OlderRange ==
    /\ Older(Unlisted) = Unlisted
    /\ \A n \in 0 .. PEER_TTL : Older(n) \in 0 .. PEER_TTL /\ Older(n) # Unlisted
  BY PeerDirectoryAssumption DEF Older, Unlisted

\* Time keeps the order of two ages.
LEMMA OlderMonotone == \A i, j \in 0 .. PEER_TTL : i =< j => Older(i) =< Older(j)
  BY PeerDirectoryAssumption DEF Older

LEMMA AgedListing == \A l \in Listing : AgedPeers(l) \in Listing
  BY OlderRange DEF AgedPeers, Listing

LEMMA AgedNotFresher ==
  ASSUME DirectoryTypeOK, DirTick, NEW l \in Listing, NotFresher(l)
  PROVE  \A m \in Members : AgedPeers(l)[m] = Unlisted \/ quiet'[m] =< AgedPeers(l)[m]
<1> SUFFICES ASSUME NEW m \in Members
             PROVE  AgedPeers(l)[m] = Unlisted \/ quiet'[m] =< AgedPeers(l)[m]
  OBVIOUS
<1>1. AgedPeers(l)[m] = Older(l[m]) /\ quiet'[m] = Older(quiet[m])
  BY DEF AgedPeers, DirTick
<1>2. CASE l[m] = Unlisted
  BY <1>1, <1>2, OlderRange
<1>3. CASE l[m] # Unlisted
  <2>1. l[m] \in 0 .. PEER_TTL /\ quiet[m] \in 0 .. PEER_TTL /\ quiet[m] =< l[m]
    BY <1>3 DEF Listing, DirectoryTypeOK, NotFresher
  <2> QED
    BY <1>1, <2>1, OlderMonotone
<1> QED
  BY <1>2, <1>3

LEMMA DirectoryTypeStep == DirectoryTypeOK /\ [DirectoryNext]_directoryVars => DirectoryTypeOK'
<1> SUFFICES ASSUME DirectoryTypeOK, [DirectoryNext]_directoryVars PROVE DirectoryTypeOK'
  OBVIOUS
<1> USE PeerDirectoryAssumption
<1>1. ASSUME NEW m \in Members, RegisterNode(m) PROVE DirectoryTypeOK'
  <2>1. entry' \in Listing
    BY <1>1 DEF RegisterNode, DirectoryTypeOK, Listing
  <2>2. current' \in [Members -> BOOLEAN]
    BY <1>1, Zenon DEF RegisterNode, DirectoryTypeOK
  <2>3. saves' \subseteq Listing /\ peersFile' \in Listing /\ dirRestarts' \in 0 .. MaxDirRestarts
    BY <1>1, <2>1, Zenon DEF RegisterNode, DirectoryTypeOK
  <2>4. quiet' \in [Members -> 0 .. PEER_TTL]
    BY <1>1 DEF RegisterNode, DirectoryTypeOK
  <2> QED
    BY <2>1, <2>2, <2>3, <2>4, Zenon DEF DirectoryTypeOK
<1>2. CASE CleanPeers
  <2>1. entry' \in Listing
    BY <1>2 DEF CleanPeers, Retained, DirectoryTypeOK, Listing
  <2> QED
    BY <1>2, <2>1 DEF CleanPeers, DirectoryTypeOK
<1>3. CASE WritePeers
  BY <1>3 DEF WritePeers, DirectoryTypeOK
<1>4. CASE DirTick
  <2>1. quiet' \in [Members -> 0 .. PEER_TTL]
    BY <1>4, OlderRange DEF DirTick, DirectoryTypeOK
  <2> QED
    BY <1>4, <2>1, AgedListing DEF DirTick, DirectoryTypeOK
<1>5. CASE RestartCoordinator
  <2>1. current' \in [Members -> BOOLEAN]
    BY <1>5, Zenon DEF RestartCoordinator
  <2> QED
    BY <1>5, <2>1 DEF RestartCoordinator, LoadedPeers, DirectoryTypeOK
<1>6. CASE UNCHANGED directoryVars
  BY <1>6 DEF directoryVars, DirectoryTypeOK
<1> QED
  BY <1>1, <1>2, <1>3, <1>4, <1>5, <1>6 DEF DirectoryNext

LEMMA DirectoryStep == DirectoryInv /\ [DirectoryNext]_directoryVars => DirectoryInv'
<1> SUFFICES ASSUME DirectoryInv, [DirectoryNext]_directoryVars PROVE DirectoryInv'
  OBVIOUS
<1>0. DirectoryTypeOK'
  BY DirectoryTypeStep DEF DirectoryInv
<1> USE PeerDirectoryAssumption DEF DirectoryInv
<1>1. ASSUME NEW m \in Members, RegisterNode(m) PROVE DirectoryInv'
  <2>1. \A n \in Members : quiet'[n] = IF n = m THEN 0 ELSE quiet[n]
    BY <1>1 DEF RegisterNode, DirectoryTypeOK
  <2>2. \A n \in Members : entry'[n] = IF n = m THEN 0 ELSE entry[n]
    BY <1>1 DEF RegisterNode, DirectoryTypeOK, Listing
  <2>3. \A n \in Members : n # m => current'[n] = current[n]
    BY <1>1 DEF RegisterNode, DirectoryTypeOK
  <2>4. \A l \in Listing : NotFresher(l) => NotFresher(l)'
    BY <2>1 DEF NotFresher, Listing, Unlisted
  <2>5. NotFresher(entry)'
    BY <2>1, <2>2 DEF NotFresher
  <2>6. NotFresher(peersFile)' /\ \A s \in saves' : NotFresher(s)'
    BY <1>1, <2>4, <2>5 DEF RegisterNode, NotFresher, DirectoryTypeOK
  <2> QED
    BY <1>0, <2>1, <2>2, <2>3, <2>5, <2>6
<1>2. CASE CleanPeers
  <2>1. \A n \in Members : entry'[n] = IF entry[n] = PEER_TTL THEN Unlisted ELSE entry[n]
    BY <1>2 DEF CleanPeers, Retained
  <2>2. NotFresher(entry)'
    BY <1>2, <2>1 DEF CleanPeers, NotFresher
  <2>3. NotFresher(peersFile)' /\ \A s \in saves' : NotFresher(s)'
    BY <1>2, <2>2 DEF CleanPeers, NotFresher
  <2> QED
    BY <1>0, <1>2, <2>1, <2>2, <2>3 DEF CleanPeers
<1>3. CASE WritePeers
  BY <1>0, <1>3 DEF WritePeers, NotFresher
<1>4. CASE DirTick
  <2>1. NotFresher(entry)' /\ NotFresher(peersFile)'
    BY <1>4, AgedNotFresher DEF NotFresher, DirTick, DirectoryTypeOK
  <2>2. \A s \in saves' : NotFresher(s)'
    BY <1>4, AgedNotFresher DEF NotFresher, DirTick, DirectoryTypeOK
  <2>3. ASSUME NEW m \in Members, current'[m], quiet'[m] < PEER_TTL PROVE entry'[m] = quiet'[m]
    <3>1. quiet'[m] = Older(quiet[m]) /\ entry'[m] = Older(entry[m]) /\ current[m]
      BY <1>4, <2>3 DEF DirTick, AgedPeers
    <3>2. quiet[m] < PEER_TTL
      BY <2>3, <3>1 DEF Older, DirectoryTypeOK
    <3> QED
      BY <3>1, <3>2
  <2> QED
    BY <1>0, <2>1, <2>2, <2>3
<1>5. CASE RestartCoordinator
  <2>1. \A m \in Members : ~current'[m]
    BY <1>5 DEF RestartCoordinator
  <2> QED
    BY <1>0, <1>5, <2>1 DEF RestartCoordinator, LoadedPeers, NotFresher
<1>6. CASE UNCHANGED directoryVars
  BY <1>0, <1>6 DEF directoryVars, NotFresher
<1> QED
  BY <1>1, <1>2, <1>3, <1>4, <1>5, <1>6 DEF DirectoryNext

LEMMA DirectoryInvInit == DirectoryInit => DirectoryInv
<1>1. DirectoryInit => current \in [Members -> BOOLEAN]
  BY Zenon DEF DirectoryInit
<1> QED
  BY <1>1, PeerDirectoryAssumption
  DEF DirectoryInit, DirectoryInv, DirectoryTypeOK, NotFresher, Listing

LEMMA DirectoryInvList == DirectoryInv => ListExact
  BY PeerDirectoryAssumption
  DEF DirectoryInv, DirectoryTypeOK, NotFresher, ListExact, Listed, Listing, Unlisted

\* The list the coordinator gives out has no node that has been quiet for the time
\* to live, whichever snapshot was written last and whenever it was restarted, and
\* has every node that has registered with it since.
THEOREM PeerListExact == DirectorySpec => []ListExact
  BY DirectoryInvInit, DirectoryInvList, DirectoryStep, PTL DEF DirectorySpec

-----------------------------------------------------------------------------
(* The channels *)

\* A connection the coordinator knows is some node's; the one a node uses is its
\* own and not given up; and while an accepted connection waits to be registered
\* its node has no other.
ChannelInv ==
    /\ ChannelTypeOK
    /\ \A c \in Conns : connPhase[c] # "none" => connNode[c] \in ChannelNodes
    /\ \A m \in ChannelNodes : session[m] # NoConn =>
          /\ connNode[session[m]] = m
          /\ connPhase[session[m]] \in {"challenged", "accepted", "registered"}
    /\ \A c \in Conns : connPhase[c] = "accepted" => session[connNode[c]] \in {c, NoConn}
    /\ RegisteredReachable

LEMMA ChannelTypeStep == ChannelInv /\ [ChannelNext]_channelVars => ChannelTypeOK'
<1> SUFFICES ASSUME ChannelInv, [ChannelNext]_channelVars PROVE ChannelTypeOK'
  OBVIOUS
<1> USE NodeChannelAssumption DEF ChannelInv, ChannelTypeOK, ConnPhases, SetPhase
<1>1. ASSUME NEW m \in ChannelNodes, NEW c \in Conns, Connect(m, c) PROVE ChannelTypeOK'
  BY <1>1 DEF Connect
<1>2. ASSUME NEW m \in ChannelNodes, DropSession(m) PROVE ChannelTypeOK'
  BY <1>2 DEF DropSession
<1>3. ASSUME NEW c \in Conns, VerifyChallenge(c) PROVE ChannelTypeOK'
  BY <1>3 DEF VerifyChallenge
<1>4. ASSUME NEW c \in Conns, RegisterChannel(c) PROVE ChannelTypeOK'
  BY <1>4 DEF RegisterChannel
<1>5. ASSUME NEW c \in Conns, NoticeClosed(c) PROVE ChannelTypeOK'
  BY <1>5 DEF NoticeClosed
<1>6. ASSUME NEW c \in Conns, ForgetChannel(c) PROVE ChannelTypeOK'
  BY <1>6 DEF ForgetChannel, MapWithout
<1>7. ASSUME NEW r \in Relays, EndRelay(r) PROVE ChannelTypeOK'
  BY <1>7 DEF EndRelay
<1>8. ASSUME NEW r \in Relays, NEW m \in ChannelNodes, StartRelay(r, m) PROVE ChannelTypeOK'
  BY <1>8 DEF StartRelay
<1>9. CASE UNCHANGED channelVars
  BY <1>9 DEF channelVars
<1> QED
  BY <1>1, <1>2, <1>3, <1>4, <1>5, <1>6, <1>7, <1>8, <1>9 DEF ChannelNext, CoordinatorTask

LEMMA ChannelStep == ChannelInv /\ [ChannelNext]_channelVars => ChannelInv'
<1> SUFFICES ASSUME ChannelInv, [ChannelNext]_channelVars PROVE ChannelInv'
  OBVIOUS
<1>0. ChannelTypeOK'
  BY ChannelTypeStep
<1> USE NodeChannelAssumption DEF ChannelInv, RegisteredReachable, SetPhase
<1>1. ASSUME NEW m \in ChannelNodes, NEW c \in Conns, Connect(m, c) PROVE ChannelInv'
  <2> HIDE DEF ChannelInv, RegisteredReachable
  <2>0. ChannelTypeOK
    BY DEF ChannelInv
  <2>1. \A d \in Conns :
          /\ connPhase'[d] = IF d = c THEN "challenged" ELSE connPhase[d]
          /\ connNode'[d] = IF d = c THEN m ELSE connNode[d]
    BY <1>1, <2>0 DEF Connect, ChannelTypeOK
  <2>2. \A n \in ChannelNodes : session'[n] = IF n = m THEN c ELSE session[n]
    BY <1>1, <2>0 DEF Connect, ChannelTypeOK
  <2>3. \A n \in ChannelNodes : session[n] # c
    BY <1>1 DEF Connect, ChannelInv
  <2>4. channelMap' = channelMap
    BY <1>1 DEF Connect
  <2>5. \A d \in Conns : connPhase'[d] # "none" => connNode'[d] \in ChannelNodes
    BY <2>1 DEF ChannelInv
  <2>6. \A d \in Conns : connPhase'[d] = "accepted" => session'[connNode'[d]] \in {d, NoConn}
    <3> SUFFICES ASSUME NEW d \in Conns, connPhase'[d] = "accepted"
                 PROVE  session'[connNode'[d]] \in {d, NoConn}
      OBVIOUS
    <3>1. d # c /\ connPhase[d] = "accepted" /\ connNode'[d] = connNode[d]
      BY <2>1
    <3>2. connNode[d] \in ChannelNodes /\ connNode[d] # m
      BY <1>1, <3>1 DEF Connect, ChannelInv
    <3> QED
      BY <2>2, <3>1, <3>2 DEF ChannelInv
  <2>7. \A n \in ChannelNodes : session'[n] # NoConn =>
          /\ connNode'[session'[n]] = n
          /\ connPhase'[session'[n]] \in {"challenged", "accepted", "registered"}
    <3> SUFFICES ASSUME NEW n \in ChannelNodes, session'[n] # NoConn
                 PROVE  /\ connNode'[session'[n]] = n
                        /\ connPhase'[session'[n]] \in {"challenged", "accepted", "registered"}
      OBVIOUS
    <3>1. CASE n = m
      BY <2>1, <2>2, <3>1
    <3>2. CASE n # m
      <4>1. session[n] \in Conns \ {c} /\ session'[n] = session[n]
        BY <2>0, <2>2, <2>3, <3>2 DEF ChannelTypeOK
      <4> QED
        BY <2>1, <4>1 DEF ChannelInv
    <3> QED
      BY <3>1, <3>2
  <2>8. RegisteredReachable'
    <3> SUFFICES ASSUME NEW n \in ChannelNodes, session'[n] # NoConn,
                        connPhase'[session'[n]] = "registered"
                 PROVE  channelMap'[n] = session'[n]
      BY DEF RegisteredReachable
    <3>1. n # m
      BY <2>1, <2>2
    <3>2. session[n] \in Conns \ {c} /\ session'[n] = session[n]
      BY <2>0, <2>2, <2>3, <3>1 DEF ChannelTypeOK
    <3> QED
      BY <2>1, <2>4, <3>2 DEF ChannelInv, RegisteredReachable
  <2> QED
    BY <1>0, <2>5, <2>6, <2>7, <2>8, Zenon DEF ChannelInv
<1>2. ASSUME NEW m \in ChannelNodes, DropSession(m) PROVE ChannelInv'
  <2>1. \A n \in ChannelNodes : session'[n] = IF n = m THEN NoConn ELSE session[n]
    BY <1>2 DEF DropSession, ChannelTypeOK
  <2> QED
    BY <1>0, <1>2, <2>1 DEF DropSession
<1>3. ASSUME NEW c \in Conns, VerifyChallenge(c) PROVE ChannelInv'
  <2>1. \A d \in Conns : connPhase'[d] = IF d = c THEN "accepted" ELSE connPhase[d]
    BY <1>3 DEF VerifyChallenge, ChannelTypeOK
  <2>2. connPhase[c] = "challenged" /\ session[connNode[c]] = c
    BY <1>3 DEF VerifyChallenge, Held
  <2>3. UNCHANGED <<connNode, session, channelMap>>
    BY <1>3 DEF VerifyChallenge
  <2> QED
    BY <1>0, <2>1, <2>2, <2>3 DEF ChannelTypeOK
<1>4. ASSUME NEW c \in Conns, RegisterChannel(c) PROVE ChannelInv'
  <2>1. \A d \in Conns : connPhase'[d] = IF d = c THEN "registered" ELSE connPhase[d]
    BY <1>4 DEF RegisterChannel, ChannelTypeOK
  <2>2. connPhase[c] = "accepted" /\ connNode[c] \in ChannelNodes
    BY <1>4 DEF RegisterChannel
  <2>3. \A n \in ChannelNodes : channelMap'[n] = IF n = connNode[c] THEN c ELSE channelMap[n]
    BY <1>4, <2>2 DEF RegisterChannel, ChannelTypeOK
  <2>4. UNCHANGED <<connNode, session>>
    BY <1>4 DEF RegisterChannel
  <2>5. RegisteredReachable'
    BY <2>1, <2>2, <2>3, <2>4 DEF ChannelTypeOK
  <2> QED
    BY <1>0, <2>1, <2>2, <2>4, <2>5 DEF ChannelTypeOK
<1>5. ASSUME NEW c \in Conns, NoticeClosed(c) PROVE ChannelInv'
  <2>1. \A n \in ChannelNodes : session[n] # c
    BY <1>5 DEF NoticeClosed, Held
  <2>2. \A d \in Conns : d # c => connPhase'[d] = connPhase[d] /\ connNode'[d] = connNode[d]
    BY <1>5 DEF NoticeClosed, ChannelTypeOK
  <2>3. /\ connPhase'[c] \in {"closed", "none"}
        /\ connPhase'[c] # "none" => connNode'[c] \in ChannelNodes
    BY <1>5 DEF NoticeClosed, ChannelTypeOK
  <2>4. UNCHANGED <<session, channelMap>>
    BY <1>5 DEF NoticeClosed
  <2> QED
    BY <1>0, <2>1, <2>2, <2>3, <2>4 DEF ChannelTypeOK
<1>6. ASSUME NEW c \in Conns, ForgetChannel(c) PROVE ChannelInv'
  <2>1. \A n \in ChannelNodes : session[n] # c
    BY <1>6 DEF ForgetChannel
  <2>2. \A d \in Conns : d # c => connPhase'[d] = connPhase[d] /\ connNode'[d] = connNode[d]
    BY <1>6 DEF ForgetChannel, ChannelTypeOK
  <2>3. connPhase'[c] = "none"
    BY <1>6 DEF ForgetChannel, ChannelTypeOK
  <2>4. session' = session
    BY <1>6 DEF ForgetChannel
  <2>5. \A n \in ChannelNodes : channelMap[n] # c => channelMap'[n] = channelMap[n]
    BY <1>6 DEF ForgetChannel, MapWithout, ChannelTypeOK
  <2> QED
    BY <1>0, <2>1, <2>2, <2>3, <2>4, <2>5 DEF ChannelTypeOK
<1>7. CASE UNCHANGED <<connPhase, connNode, session, channelMap>>
  BY <1>0, <1>7
<1> QED
  BY <1>1, <1>2, <1>3, <1>4, <1>5, <1>6, <1>7
  DEF ChannelNext, CoordinatorTask, EndRelay, StartRelay, channelVars

LEMMA ChannelInvInit == ChannelInit => ChannelInv
  BY NodeChannelAssumption DEF ChannelInit, ChannelInv, ChannelTypeOK, ConnPhases, RegisteredReachable

LEMMA ChannelInvReach == ChannelInv => RegisteredReachable
  BY DEF ChannelInv

\* A node's registered connection is the one the coordinator relays over, for any
\* number of older connections whose tasks still have to notice their end.
THEOREM ChannelsReachable == ChannelSpec => []RegisteredReachable
  BY ChannelInvInit, ChannelInvReach, ChannelStep, PTL DEF ChannelSpec

-----------------------------------------------------------------------------
(* The pipes *)

\* There are MaxTunnels permits.
PermitsHold == IsFiniteSet(Holders) /\ Cardinality(Holders) =< MaxTunnels

LEMMA FewerHolders ==
    ASSUME PermitsHold, NEW S, S \subseteq Holders
    PROVE  IsFiniteSet(S) /\ Cardinality(S) =< MaxTunnels
  <1>1. IsFiniteSet(S) /\ Cardinality(S) =< Cardinality(Holders)
    BY FS_Subset DEF PermitsHold
  <1>2. Cardinality(S) \in Nat /\ Cardinality(Holders) \in Nat
    BY <1>1, FS_CardinalityType DEF PermitsHold
  <1>. QED  BY <1>1, <1>2, TunnelPipeAssumption DEF PermitsHold

LEMMA ClosedFacts == Closed \in PipeRecord /\ Closed.stage = "closed"
  BY TunnelPipeAssumption DEF Closed, PipeRecord, Age, Stages

\* The changes of a record keep its type, and the ones that keep its stage do.
LEMMA RecordFacts ==
    ASSUME NEW r \in PipeRecord, NEW st \in Stages, NEW stuck \in BOOLEAN
    PROVE  /\ [r EXCEPT !.stage = st] \in PipeRecord
           /\ [r EXCEPT !.stage = st, !.quietUp = 0, !.stuckUp = stuck] \in PipeRecord
           /\ [r EXCEPT !.quietDown = 0, !.stuckDown = stuck] \in PipeRecord
           /\ [r EXCEPT !.quietUp = 0, !.stuckUp = stuck] \in PipeRecord
  <1>1. 0 \in Age
    BY TunnelPipeAssumption DEF Age
  <1>2. [r EXCEPT !.stage = st] \in PipeRecord
    BY Zenon DEF PipeRecord
  <1>3. [r EXCEPT !.stage = st, !.quietUp = 0, !.stuckUp = stuck] \in PipeRecord
    BY <1>1, Zenon DEF PipeRecord
  <1>4. [r EXCEPT !.quietDown = 0, !.stuckDown = stuck] \in PipeRecord
    BY <1>1, Zenon DEF PipeRecord
  <1>5. [r EXCEPT !.quietUp = 0, !.stuckUp = stuck] \in PipeRecord
    BY <1>1, Zenon DEF PipeRecord
  <1> QED
    BY <1>2, <1>3, <1>4, <1>5

LEMMA HomeGoneFacts ==
    ASSUME NEW r \in PipeRecord
    PROVE  HomeGone(r) \in PipeRecord /\ (r.stage = "closed" /\ ~r.stuckDown => HomeGone(r).stage = "closed")
  <1>1. [r EXCEPT !.stage = "deaf"] \in PipeRecord /\ [r EXCEPT !.stage = "ended"] \in PipeRecord
    BY RecordFacts DEF Stages
  <1>2. CASE r.stage \in {"handshake", "deaf"}
    BY <1>1, <1>2 DEF HomeGone
  <1>3. CASE r.stage \notin {"handshake", "deaf"} /\ r.stuckDown /\ ~r.stuckUp
    BY <1>1, <1>3 DEF HomeGone
  <1>4. CASE r.stage \notin {"handshake", "deaf"} /\ ~(r.stuckDown /\ ~r.stuckUp)
    BY <1>4, ClosedFacts DEF HomeGone
  <1>. QED  BY <1>2, <1>3, <1>4, ZenonT(60)

\* What PipeTick makes of a pipe.
Ticked(r, sent, got, home) ==
    [r EXCEPT !.quietUp = Later(@, sent), !.quietDown = Later(@, got), !.old = Later(@, home)]

LEMMA LaterFacts ==
    ASSUME NEW r \in PipeRecord, NEW sent \in BOOLEAN, NEW got \in BOOLEAN, NEW home \in BOOLEAN
    PROVE  /\ Ticked(r, sent, got, home) \in PipeRecord
           /\ Ticked(r, sent, got, home).stage = r.stage
  <1>1. \A age \in Age, runs \in BOOLEAN : Later(age, runs) \in Age
    BY TunnelPipeAssumption DEF Later, Age
  <1>2. r.quietUp \in Age /\ r.quietDown \in Age /\ r.old \in Age
    BY DEF PipeRecord
  <1>3. PICK u \in Age, d \in Age, o \in Age :
           u = Later(r.quietUp, sent) /\ d = Later(r.quietDown, got) /\ o = Later(r.old, home)
    BY <1>1, <1>2
  <1>4. /\ [r EXCEPT !.quietUp = u, !.quietDown = d, !.old = o] \in PipeRecord
        /\ [r EXCEPT !.quietUp = u, !.quietDown = d, !.old = o].stage = r.stage
    BY DEF PipeRecord
  <1>. QED  BY <1>3, <1>4 DEF Ticked

\* A loop waits for its writer only while its client has a permit.
StuckHeld == \A p \in Pipes : pipes[p].stage = "closed" => pipes[p] = Closed

TunnelInv == TunnelTypeOK /\ PermitsHold /\ StuckHeld

LEMMA TunnelInvInit == TunnelInit => TunnelInv
  <1> SUFFICES ASSUME TunnelInit  PROVE TunnelInv
    OBVIOUS
  <1>1. homeUp \in BOOLEAN
    BY Zenon DEF TunnelInit
  <1>2. pipes \in [Pipes -> PipeRecord] /\ Holders = {} /\ StuckHeld
    BY ClosedFacts DEF TunnelInit, Holders, StuckHeld
  <1>3. PermitsHold
    BY <1>2, FS_EmptySet, TunnelPipeAssumption DEF PermitsHold
  <1>. QED  BY <1>1, <1>2, <1>3 DEF TunnelTypeOK, TunnelInv

LEMMA HomeTyped == homeUp \in BOOLEAN /\ [TunnelNext]_tunnelVars => homeUp' \in BOOLEAN
  BY Zenon DEF TunnelNext, tunnelVars, TakePermit, OpenBi, TlsAccept, ChunkUp, ChunkDown,
     WriteEnds, SideCloses, TimeOut, HomeTimeOut, PipeTick, HomeDrops, HomeReturns, Becomes

\* Every step of a pipe but the first makes another record of a client that
\* already has its permit, or gives the permit back.
LEMMA PipeSteps ==
    ASSUME TunnelInv, NEW p \in Pipes,
           OpenBi(p) \/ TlsAccept(p) \/ ChunkUp(p) \/ ChunkDown(p) \/ WriteEnds(p)
             \/ SideCloses(p) \/ TimeOut(p) \/ HomeTimeOut(p)
    PROVE  /\ p \in Holders
           /\ \E r \in PipeRecord :
                 pipes' = [pipes EXCEPT ![p] = r] /\ (r.stage = "closed" => r = Closed)
  <1>0. pipes[p] \in PipeRecord /\ (pipes[p].stage = "closed" => pipes[p] = Closed)
    BY DEF TunnelInv, TunnelTypeOK, StuckHeld
  <1>1. CASE OpenBi(p)
    <2>1. [pipes[p] EXCEPT !.stage = "handshake"] \in PipeRecord
      BY <1>0, RecordFacts DEF Stages
    <2>2. [pipes[p] EXCEPT !.stage = "handshake"].stage # "closed"
      BY <1>0 DEF PipeRecord
    <2>. QED  BY <1>1, <2>1, <2>2, ZenonT(60) DEF OpenBi, Becomes, Holders
  <1>2. CASE TlsAccept(p)
    <2>1. [pipes[p] EXCEPT !.stage = "open"] \in PipeRecord
      BY <1>0, RecordFacts DEF Stages
    <2>2. [pipes[p] EXCEPT !.stage = "open"].stage # "closed"
      BY <1>0 DEF PipeRecord
    <2>. QED  BY <1>2, <2>1, <2>2, ClosedFacts, ZenonT(60) DEF TlsAccept, Becomes, Holders
  <1>3. CASE ChunkUp(p)
    <2>1. p \in Holders
      BY <1>3 DEF ChunkUp, Running, Holders
    <2>2. CASE pipes' = [pipes EXCEPT ![p] = Closed]
      BY <2>1, <2>2, ClosedFacts, Zenon
    <2>3. ASSUME NEW stuck \in BOOLEAN,
                 pipes' = [pipes EXCEPT ![p] =
                             [pipes[p] EXCEPT !.stage = "piped", !.quietUp = 0, !.stuckUp = stuck]]
          PROVE  \E r \in PipeRecord :
                   pipes' = [pipes EXCEPT ![p] = r] /\ (r.stage = "closed" => r = Closed)
      <3> DEFINE r == [pipes[p] EXCEPT !.stage = "piped", !.quietUp = 0, !.stuckUp = stuck]
      <3>1. r \in PipeRecord
        BY <1>0, RecordFacts DEF Stages
      <3>2. r.stage = "piped"
        BY <1>0 DEF PipeRecord
      <3>. QED  BY <2>3, <3>1, <3>2, ZenonT(60)
    <2>. QED  BY <1>3, <2>1, <2>2, <2>3 DEF ChunkUp, Becomes
  <1>4. CASE ChunkDown(p)
    <2>1. PICK stuck \in BOOLEAN :
             pipes' = [pipes EXCEPT ![p] = [pipes[p] EXCEPT !.quietDown = 0, !.stuckDown = stuck]]
      BY <1>4, ZenonT(60) DEF ChunkDown, Becomes
    <2>2. [pipes[p] EXCEPT !.quietDown = 0, !.stuckDown = stuck] \in PipeRecord
      BY <1>0, RecordFacts DEF Stages
    <2>3. [pipes[p] EXCEPT !.quietDown = 0, !.stuckDown = stuck].stage = pipes[p].stage
      BY <1>0 DEF PipeRecord
    <2>. QED  BY <1>4, <2>1, <2>2, <2>3 DEF ChunkDown, Holders
  <1>5. CASE WriteEnds(p)
    <2>1. pipes[p].stage # "closed"
      <3>1. ~Closed.stuckUp /\ ~Closed.stuckDown
        BY ZenonT(60) DEF Closed
      <3>. QED  BY <1>0, <1>5, <3>1, ZenonT(60) DEF WriteEnds
    <2>2. /\ [pipes[p] EXCEPT !.quietUp = 0, !.stuckUp = FALSE] \in PipeRecord
          /\ [pipes[p] EXCEPT !.quietDown = 0, !.stuckDown = FALSE] \in PipeRecord
      BY <1>0, RecordFacts DEF Stages
    <2>3. /\ [pipes[p] EXCEPT !.quietUp = 0, !.stuckUp = FALSE].stage = pipes[p].stage
          /\ [pipes[p] EXCEPT !.quietDown = 0, !.stuckDown = FALSE].stage = pipes[p].stage
      BY <1>0 DEF PipeRecord
    <2>. QED  BY <1>5, <2>1, <2>2, <2>3, ClosedFacts, ZenonT(60) DEF WriteEnds, Becomes, Holders
  <1>6. CASE SideCloses(p) \/ TimeOut(p)
    BY <1>6, ClosedFacts DEF SideCloses, TimeOut, Running, Becomes, Holders
  <1>7. CASE HomeTimeOut(p)
    <2>1. pipes' = [pipes EXCEPT ![p] = HomeGone(pipes[p])] /\ pipes[p].stage = "piped"
      BY <1>7 DEF HomeTimeOut, Becomes
    <2>2. HomeGone(pipes[p]) \in PipeRecord
      BY <1>0, HomeGoneFacts
    <2>3. HomeGone(pipes[p]).stage = "closed" => HomeGone(pipes[p]) = Closed
      BY <1>0 DEF HomeGone, PipeRecord
    <2>. QED  BY <2>1, <2>2, <2>3 DEF Holders
  <1>. QED  BY <1>1, <1>2, <1>3, <1>4, <1>5, <1>6, <1>7

LEMMA TunnelInvStep ==
    ASSUME TunnelInv, [TunnelNext]_tunnelVars
    PROVE  TunnelInv'
  <1>0. pipes \in [Pipes -> PipeRecord] /\ PermitsHold /\ StuckHeld
    BY DEF TunnelTypeOK, TunnelInv
  <1> DEFINE Goal == pipes' \in [Pipes -> PipeRecord] /\ PermitsHold' /\ StuckHeld'
  <1>1. ASSUME NEW p \in Pipes, TakePermit(p)
        PROVE  Goal
    <2> DEFINE r == [Closed EXCEPT !.stage = "stream"]
    <2>1. r \in PipeRecord /\ r.stage = "stream"
      BY ClosedFacts DEF PipeRecord, Stages
    <2>2. pipes' = [pipes EXCEPT ![p] = r]
      BY <1>1 DEF TakePermit, Becomes
    <2> HIDE DEF r
    <2>3. pipes' \in [Pipes -> PipeRecord] /\ Holders' = Holders \cup {p} /\ StuckHeld'
      BY <1>0, <2>1, <2>2 DEF Holders, StuckHeld
    <2>4. IsFiniteSet(Holders) /\ p \notin Holders /\ Cardinality(Holders) < MaxTunnels
      BY <1>0, <1>1 DEF TakePermit, Holders, PermitsHold
    <2>5. /\ IsFiniteSet(Holders \cup {p}) /\ Cardinality(Holders \cup {p}) = Cardinality(Holders) + 1
          /\ Cardinality(Holders) \in Nat
      BY <2>4, FS_AddElement, FS_CardinalityType
    <2>. QED  BY <2>3, <2>4, <2>5, TunnelPipeAssumption DEF PermitsHold
  <1>2. ASSUME NEW p \in Pipes,
               OpenBi(p) \/ TlsAccept(p) \/ ChunkUp(p) \/ ChunkDown(p) \/ WriteEnds(p)
                 \/ SideCloses(p) \/ TimeOut(p) \/ HomeTimeOut(p)
        PROVE  Goal
    <2>1. PICK r \in PipeRecord :
             pipes' = [pipes EXCEPT ![p] = r] /\ (r.stage = "closed" => r = Closed)
      BY <1>2, PipeSteps
    <2>2. p \in Holders
      BY <1>2, PipeSteps
    <2>3. pipes' \in [Pipes -> PipeRecord] /\ Holders' \subseteq Holders /\ StuckHeld'
      BY <1>0, <2>1, <2>2 DEF Holders, StuckHeld
    <2>. QED  BY <1>0, <2>3, FewerHolders DEF PermitsHold
  <1>3. ASSUME PipeTick
        PROVE  Goal
    <2>1. \A p \in Pipes : /\ pipes'[p] \in PipeRecord /\ pipes'[p].stage = pipes[p].stage
                           /\ pipes[p].stage = "closed" => pipes'[p] = pipes[p]
      <3> SUFFICES ASSUME NEW p \in Pipes
                   PROVE  /\ pipes'[p] \in PipeRecord /\ pipes'[p].stage = pipes[p].stage
                          /\ pipes[p].stage = "closed" => pipes'[p] = pipes[p]
        OBVIOUS
      <3>1. PICK sent \in BOOLEAN, got \in BOOLEAN, home \in BOOLEAN :
              /\ sent = (Running(p) /\ ~pipes[p].stuckUp)
              /\ got = (Running(p) /\ ~pipes[p].stuckDown)
              /\ home = (pipes[p].stage = "piped")
        BY Zenon DEF Running
      <3>2. pipes'[p] = Ticked(pipes[p], sent, got, home)
        BY <1>3, <3>1, Zenon DEF PipeTick, Ticked
      <3>3. pipes'[p] \in PipeRecord /\ pipes'[p].stage = pipes[p].stage
        BY <1>0, <3>2, LaterFacts
      <3>4. CASE pipes[p].stage = "closed"
        <4>1. sent = FALSE /\ got = FALSE /\ home = FALSE
          BY <3>1, <3>4 DEF Running
        <4>2. pipes[p] \in PipeRecord
          BY <1>0
        <4>3. pipes'[p] = pipes[p]
          BY <3>2, <4>1, <4>2 DEF Ticked, Later, PipeRecord
        <4>. QED  BY <3>3, <4>3
      <3>. QED  BY <3>3, <3>4
    <2>2. pipes' \in [Pipes -> PipeRecord] /\ Holders' \subseteq Holders
      BY <1>3, <2>1 DEF PipeTick, Holders
    <2>3. StuckHeld'
      BY <1>0, <2>1 DEF StuckHeld
    <2>. QED  BY <1>0, <2>2, <2>3, FewerHolders DEF PermitsHold
  <1>4. ASSUME HomeDrops
        PROVE  Goal
    <2>1. \A p \in Pipes : pipes'[p] = HomeGone(pipes[p])
      BY <1>4 DEF HomeDrops
    <2>2. pipes' \in [Pipes -> PipeRecord]
      BY <1>0, <1>4, HomeGoneFacts DEF HomeDrops
    <2>3. StuckHeld'
      <3>1. ASSUME NEW r \in PipeRecord, HomeGone(r).stage = "closed" PROVE HomeGone(r) = Closed
        BY <3>1 DEF HomeGone, PipeRecord
      <3>. QED  BY <1>0, <2>1, <3>1 DEF StuckHeld
    <2>4. Holders' \subseteq Holders
      <3>1. ASSUME NEW p \in Pipes, pipes[p].stage = "closed" PROVE pipes'[p].stage = "closed"
        <4>1. HomeGone(Closed).stage = "closed"
          BY HomeGoneFacts, ClosedFacts DEF Closed
        <4>. QED  BY <1>0, <2>1, <3>1, <4>1 DEF StuckHeld
      <3>. QED  BY <3>1 DEF Holders
    <2>. QED  BY <1>0, <2>2, <2>3, <2>4, FewerHolders DEF PermitsHold
  <1>5. ASSUME HomeReturns \/ UNCHANGED tunnelVars
        PROVE  Goal
    <2>1. pipes' = pipes
      BY <1>5 DEF HomeReturns, tunnelVars
    <2>2. Holders' = Holders /\ StuckHeld'
      BY <1>0, <2>1 DEF Holders, StuckHeld
    <2>. QED  BY <1>0, <2>1, <2>2 DEF PermitsHold
  <1> HIDE DEF Goal
  <1>6. Goal
    BY <1>1, <1>2, <1>3, <1>4, <1>5 DEF TunnelNext
  <1>7. homeUp' \in BOOLEAN
    BY HomeTyped, Zenon DEF TunnelTypeOK, TunnelInv
  <1>. QED  BY <1>6, <1>7 DEF TunnelTypeOK, TunnelInv, Goal

\* For any number of clients, no more permits are held than MAX_CONCURRENT_TUNNELS,
\* in whatever step each client's task waits, and no timer of a pipe runs past its
\* timeout.
THEOREM TunnelsBounded == TunnelSpec => [](TunnelTypeOK /\ PermitsHold)
<1>1. TunnelInv => TunnelTypeOK /\ PermitsHold
  BY DEF TunnelInv
<1> QED
  BY <1>1, TunnelInvInit, TunnelInvStep, PTL DEF TunnelSpec

-----------------------------------------------------------------------------
(* The services side by side *)

\* A step of the composition is a step of every part or leaves it alone.
LEMMA ServicesSteps ==
    ASSUME [ServicesNext]_allVars
    PROVE  /\ [Next]_vars
           /\ [NodeNext]_nodeVars
           /\ [DirectoryNext]_directoryVars
           /\ [ChannelNext]_channelVars
           /\ [TunnelNext]_tunnelVars
  <1>1. [Next]_vars
    BY DEF ServicesNext, allVars
  <1>2. [NodeNext]_nodeVars
    BY DEF ServicesNext, allVars
  <1>3. [DirectoryNext]_directoryVars
    BY DEF ServicesNext, allVars
  <1>4. [ChannelNext]_channelVars
    BY DEF ServicesNext, allVars
  <1>5. [TunnelNext]_tunnelVars
    BY DEF ServicesNext, allVars
  <1>. QED  BY <1>1, <1>2, <1>3, <1>4, <1>5

\* The inductive invariants of the five parts.
ServicesInv ==
    /\ TypeOK /\ HeardInv
    /\ NodeInv
    /\ DirectoryInv
    /\ ChannelInv
    /\ TunnelInv

LEMMA ServicesInvariance == ServicesSpec => []ServicesInv
<1>1. ServicesInit => ServicesInv
  BY TypeInit, HeardInit, NodeInvInit, DirectoryInvInit, ChannelInvInit, TunnelInvInit
  DEF ServicesInit, ServicesInv
<1>2. ServicesInv /\ [ServicesNext]_allVars => ServicesInv'
  BY ServicesSteps, TypeStep, HeardStep, NodeInvStep, DirectoryStep, ChannelStep, TunnelInvStep
  DEF ServicesInv
<1> QED
  BY <1>1, <1>2, PTL DEF ServicesSpec

\* The parts around the shards, running side by side: the storage node, the
\* coordinator's directory, its channels and its pipes keep their types.
THEOREM ServicesTypeCorrect == ServicesSpec => []ServicesTypeOK
<1>1. ServicesInv => ServicesTypeOK
  BY DEF ServicesInv, ServicesTypeOK, NodeInv, DirectoryInv, ChannelInv, TunnelInv
<1> QED
  BY <1>1, ServicesInvariance, PTL

\* Side by side the parts keep what each was shown to keep by itself: no node that
\* was heard of since the server's start is retired early, no shard's file is shorter
\* or longer than its stream, what was acknowledged is kept where the
\* node's disk was sound, the peer list is exact, registered nodes are reachable and
\* no more permits are held than there are.
THEOREM ServicesSafe ==
    ServicesSpec => /\ RetiredOnlyWhenSilent
                    /\ []NoTornShard /\ ImplementsStore
                    /\ []ListExact
                    /\ []RegisteredReachable
                    /\ []PermitsHold
<1>1. ServicesInv => NoTornShard /\ ListExact /\ RegisteredReachable /\ PermitsHold
  BY DirectoryInvList, ChannelInvReach DEF ServicesInv, NodeInv, FileInv, NoTornShard, Clean, NoFile,
     TunnelInv
<1>2. ServicesSpec => RetiredOnlyWhenSilent
  <2>1. ServicesInv /\ [ServicesNext]_allVars
        => [\A n \in heard : active[n] /\ ~active'[n] => silent[n] >= Fresh]_vars
    BY ServicesSteps, RetireStep DEF ServicesInv
  <2> QED
    BY <2>1, ServicesInvariance, PTL DEF ServicesSpec, RetiredOnlyWhenSilent
<1>3. ServicesSpec => ImplementsStore
  <2>1. ServicesInit => Store!Init
    BY StoreInit DEF ServicesInit
  <2>2. ServicesInv /\ [ServicesNext]_allVars => [Store!Next]_(Store!storeVars)
    BY ServicesSteps, NodeInvStep, StoreStep DEF ServicesInv
  <2> QED
    BY <2>1, <2>2, ServicesInvariance, PTL DEF ServicesSpec, ImplementsStore, Store!Spec
<1> QED
  BY <1>1, <1>2, <1>3, ServicesInvariance, PTL

=============================================================================
