--------------------------- MODULE PeerDirectory ----------------------------
(***************************************************************************)
(* The coordinator's directory of storage nodes: nodes register every 30 s *)
(* (np2p/network/coordinator.rs), the coordinator lists the ones seen      *)
(* within the time to live, drops the others, and keeps peers.json so that *)
(* a restart remembers them (coordinator/src/peers.rs).                    *)
(*                                                                         *)
(* Time is counted in ticks, and an age of PEER_TTL is "that or more".     *)
(* peers.json holds wall-clock times, so what it says of a node gets older *)
(* with the node; a save takes its snapshot at once and writes it later.   *)
(***************************************************************************)
EXTENDS Integers, FiniteSets

CONSTANTS
    Members,       \* storage nodes, of one namespace
    PEER_TTL,      \* peer_ttl_secs
    MaxPending,    \* bound: saves waiting for SAVE_LOCK
    MaxDirRestarts \* bound: restarts of the coordinator

ASSUME PeerDirectoryAssumption ==
    /\ PEER_TTL \in Nat \ {0}
    /\ MaxPending \in Nat \ {0}
    /\ MaxDirRestarts \in Nat

Unlisted == -1

\* Age of each entry, Unlisted where there is none.
Listing == [Members -> {Unlisted} \cup 0 .. PEER_TTL]

VARIABLES
    entry,      \* the peer map
    peersFile,  \* peers.json
    saves,      \* snapshots waiting to be written to it
    quiet,      \* time since each node last registered
    current,    \* it has registered since the coordinator started
    dirRestarts

directoryVars == <<entry, peersFile, saves, quiet, current, dirRestarts>>

DirectoryTypeOK ==
    /\ entry \in Listing
    /\ peersFile \in Listing
    /\ saves \subseteq Listing
    /\ quiet \in [Members -> 0 .. PEER_TTL]
    /\ current \in [Members -> BOOLEAN]
    /\ dirRestarts \in 0 .. MaxDirRestarts

DirectoryInit ==
    /\ entry = [m \in Members |-> Unlisted]
    /\ peersFile = entry
    /\ saves = {}
    /\ quiet = [m \in Members |-> PEER_TTL]
    /\ current = [m \in Members |-> FALSE]
    /\ dirRestarts = 0

\* current_peer_list, which also decides where a relay may connect.
Listed == {m \in Members : entry[m] \in 0 .. PEER_TTL - 1}

Older(age) == IF age \in 0 .. PEER_TTL - 1 THEN age + 1 ELSE age

AgedPeers(listing) == [m \in Members |-> Older(listing[m])]

\* RegisterNode from a node whose certificate has its id and which the
\* admission list allows: insert, save, answer with the list.
RegisterNode(m) ==
    /\ Cardinality(saves) < MaxPending
    /\ entry' = [entry EXCEPT ![m] = 0]
    /\ saves' = saves \cup {entry'}
    /\ quiet' = [quiet EXCEPT ![m] = 0]
    /\ current' = [current EXCEPT ![m] = TRUE]
    /\ UNCHANGED <<peersFile, dirRestarts>>

\* The cleanup task: it saves when it removed something.
Retained(listing) == [m \in Members |-> IF listing[m] = PEER_TTL THEN Unlisted ELSE listing[m]]

CleanPeers ==
    /\ Cardinality(saves) < MaxPending
    /\ Retained(entry) # entry
    /\ entry' = Retained(entry)
    /\ saves' = saves \cup {entry'}
    /\ UNCHANGED <<peersFile, quiet, current, dirRestarts>>

\* spawn_blocking: whichever task gets SAVE_LOCK renames its file into place,
\* or fails and leaves peers.json as it is.
WritePeers ==
    /\ \E snapshot \in saves :
          /\ saves' = saves \ {snapshot}
          /\ peersFile' \in {snapshot, peersFile}
    /\ UNCHANGED <<entry, quiet, current, dirRestarts>>

DirTick ==
    /\ entry' = AgedPeers(entry)
    /\ peersFile' = AgedPeers(peersFile)
    /\ saves' = {AgedPeers(s) : s \in saves}
    /\ quiet' = [m \in Members |-> Older(quiet[m])]
    /\ UNCHANGED <<current, dirRestarts>>

\* Bug: what was saved counts as seen at the restart.
LoadedFresh == [m \in Members |-> IF peersFile[m] = Unlisted THEN Unlisted ELSE 0]

\* load_persisted_peers: an entry is as old as the wall clock says.
LoadedPeers == peersFile

RestartCoordinator ==
    /\ dirRestarts < MaxDirRestarts
    /\ dirRestarts' = dirRestarts + 1
    /\ entry' = LoadedPeers
    /\ saves' = {}
    /\ current' = [m \in Members |-> FALSE]
    /\ UNCHANGED <<peersFile, quiet>>

DirectoryNext ==
    \/ \E m \in Members : RegisterNode(m)
    \/ CleanPeers \/ WritePeers \/ DirTick \/ RestartCoordinator

DirectorySpec == DirectoryInit /\ [][DirectoryNext]_directoryVars

-----------------------------------------------------------------------------
(* Properties *)

\* The list a peer is given, and the relay's target, never has a node that has
\* been quiet for the time to live, whichever snapshot reached peers.json and
\* whenever the coordinator was restarted; and a node that has registered with
\* the running coordinator is listed until then.
ListExact ==
    \A m \in Members :
        /\ m \in Listed => quiet[m] < PEER_TTL
        /\ current[m] /\ quiet[m] < PEER_TTL => m \in Listed

=============================================================================
