---------------------------- MODULE StorageNode -----------------------------
(***************************************************************************)
(* A storage node: the streams its peers open (network/handler.rs), each   *)
(* handled by a task that holds one of a limited number of permits, and    *)
(* the files those tasks write (storage/disk.rs).                          *)
(*                                                                         *)
(* A shard is stored under the hash of its bytes, in Chunks messages.  Of  *)
(* a file the model keeps how many chunks were appended to it and whether  *)
(* it may lack a piece of them: a tokio File dropped without a flush       *)
(* leaves its last piece to the blocking pool, which may write it too late *)
(* for the sync that follows, out of order, or not at all.  What a power   *)
(* loss would leave under a name is the set survivors[s]: a rename not yet *)
(* followed by a directory sync, and a deletion, are undecided.            *)
(***************************************************************************)
EXTENDS Integers, FiniteSets

CONSTANTS
    Streams,       \* streams opened by peers
    Shards,        \* shard hashes
    Chunks,        \* chunk messages that make up a shard
    MaxChunks,     \* chunks after which MAX_SHARD_BYTES is exceeded
    MaxPermits,    \* MAX_CONCURRENT_STREAMS
    Manifests,     \* contents of the pinned object
    NoShard

ASSUME StorageNodeAssumption ==
    /\ Chunks \in Nat \ {0}
    /\ MaxChunks \in Nat /\ Chunks =< MaxChunks
    /\ MaxPermits \in Nat \ {0}
    /\ NoShard \notin Shards

Absent == -1

Lengths == 0 .. 2 * MaxChunks

File == [len : {Absent} \cup Lengths, late : BOOLEAN]

NoFile == [len |-> Absent, late |-> FALSE]

\* The shard's own bytes, all of them in the file.
Whole == [len |-> Chunks, late |-> FALSE]

\* A pinned object that is being overwritten in place.
TornPin == "torn"

Phases == {"none", "queued", "open", "recv", "final", "synced", "renamed",
           "reading", "pinning"}

VARIABLES
    phase,      \* where each stream's task is
    object,     \* the shard it is about
    count,      \* chunks received, or still to be sent
    temp,       \* the temporary file of each stream
    shardFile,  \* the file under each shard's name
    survivors,  \* what a power loss may leave under that name
    loose,      \* shards answered for although the directory sync failed
    pin,        \* the pinned object
    newPin,     \* what is being written to it
    answered    \* the shard each stream's peer was last told is stored

nodeVars == <<phase, object, count, temp, shardFile, survivors, loose, pin, newPin, answered>>

placedVars == <<shardFile, survivors, loose>>

NodeTypeOK ==
    /\ phase \in [Streams -> Phases]
    /\ object \in [Streams -> Shards \cup {NoShard}]
    /\ count \in [Streams -> 0 .. MaxChunks]
    /\ temp \in [Streams \cup Shards -> File]
    /\ shardFile \in [Shards -> File]
    /\ survivors \in [Shards -> SUBSET File]
    /\ loose \subseteq Shards
    /\ pin \in Manifests \cup {TornPin, NoShard}
    /\ newPin \in [Streams -> Manifests \cup {NoShard}]
    /\ answered \in [Streams -> Shards \cup {NoShard}]

NodeInit ==
    /\ phase = [t \in Streams |-> "none"]
    /\ object = [t \in Streams |-> NoShard]
    /\ count = [t \in Streams |-> 0]
    /\ temp = [x \in Streams \cup Shards |-> NoFile]
    /\ shardFile = [s \in Shards |-> NoFile]
    /\ survivors = [s \in Shards |-> {NoFile}]
    /\ loose = {}
    /\ pin = NoShard
    /\ newPin = [t \in Streams |-> NoShard]
    /\ answered = [t \in Streams |-> NoShard]

\* Permits taken: a task holds one until its handler returns.
Busy == {t \in Streams : phase[t] \notin {"none", "queued"}}

\* Bug: a temporary name made from the shard's hash.
SharedTemp(t) == IF object[t] = NoShard THEN t ELSE object[t]

\* temp_path of the stream: salted, so no two streams share it.
TempOf(t) == t

Goto(t, p) == phase' = [phase EXCEPT ![t] = p]

\* The handler returns and forgets what the stream was about.
End(t) ==
    /\ Goto(t, "none")
    /\ object' = [object EXCEPT ![t] = NoShard]
    /\ count' = [count EXCEPT ![t] = 0]

Discard(t) == temp' = [temp EXCEPT ![TempOf(t)] = NoFile]

-----------------------------------------------------------------------------
(* Streams *)

\* accept_bi
Accept(t) ==
    /\ phase[t] = "none"
    /\ Goto(t, "queued")
    /\ answered' = [answered EXCEPT ![t] = NoShard]
    /\ UNCHANGED <<object, count, temp, placedVars, pin, newPin>>

\* acquire_owned, then the handler waits for the first message.
Acquire(t) ==
    /\ phase[t] = "queued"
    /\ Cardinality(Busy) < MaxPermits
    /\ Goto(t, "open")
    /\ UNCHANGED <<object, count, temp, placedVars, pin, newPin, answered>>

\* A message answered without a change: Handshake, Heartbeat, ListShards,
\* GetPinnedObject, a single-frame retrieval, anything refused (a bad token, a
\* hash that does not match, a declared size over the cap, no space left) or
\* unknown; or no message before the deadline.
AnswerNow(t) ==
    /\ phase[t] = "open"
    /\ End(t)
    /\ UNCHANGED <<temp, placedVars, pin, newPin, answered>>

\* StoreShardRequest: the hash and the token are right and there is space;
\* store() writes all the bytes to a temporary file of its own and flushes it.
StoreRequest(t, s) ==
    /\ phase[t] = "open"
    /\ Goto(t, "final")
    /\ object' = [object EXCEPT ![t] = s]
    /\ temp' = [temp EXCEPT ![TempOf(t)] = Whole]
    /\ UNCHANGED <<count, placedVars, pin, newPin, answered>>

\* StoreShardStreamInit with a token bound to the file and the index.
StreamInit(t, s) ==
    /\ phase[t] = "open"
    /\ Goto(t, "recv")
    /\ object' = [object EXCEPT ![t] = s]
    /\ UNCHANGED <<count, temp, placedVars, pin, newPin, answered>>

\* One more chunk, the last piece of it left to a background write.
Appended(f) == [len |-> IF f.len = Absent THEN 1 ELSE f.len + 1, late |-> TRUE]

\* Bug: the bytes received are not capped.
StreamChunkUncapped(t) ==
    /\ phase[t] = "recv"
    /\ count' = [count EXCEPT ![t] = @ + 1]
    /\ temp' = [temp EXCEPT ![TempOf(t)] = Appended(@)]
    /\ UNCHANGED <<phase, object, placedVars, pin, newPin, answered>>

\* store_stream_chunk: StoreShardChunk is appended to the temporary file, whose
\* handle is dropped after write_all: nothing waits for the last piece, and
\* nobody is told of its error.
StreamChunk(t) ==
    /\ phase[t] = "recv"
    /\ count[t] < MaxChunks
    /\ count' = [count EXCEPT ![t] = @ + 1]
    /\ temp' = [temp EXCEPT ![TempOf(t)] = Appended(@)]
    /\ UNCHANGED <<phase, object, placedVars, pin, newPin, answered>>

\* The blocking pool has written all the pieces, in order and before the sync.
\* Where this step is not taken a piece failed, was overtaken by the next one, or
\* comes too late to be durable: the file is marked late for good.
LateWrite(t) ==
    /\ phase[t] \in {"recv", "final"}
    /\ temp[TempOf(t)].late
    /\ temp' = [temp EXCEPT ![TempOf(t)].late = FALSE]
    /\ UNCHANGED <<phase, object, count, placedVars, pin, newPin, answered>>

\* Bug: a chunk is waited for without a deadline.
NoAbort(t) == FALSE /\ UNCHANGED nodeVars

\* The stream is given up: no message before the deadline, too many bytes, a
\* chunk that cannot be written, another message, a closed connection.
StreamAbort(t) ==
    /\ phase[t] = "recv"
    /\ End(t)
    /\ Discard(t)
    /\ UNCHANGED <<placedVars, pin, newPin, answered>>

\* StoreShardStreamFinal: the hash of the chunks received, not of the file, is
\* compared with the one announced.
StreamFinal(t) ==
    /\ phase[t] = "recv"
    /\ \/ /\ count[t] = Chunks
          /\ Goto(t, "final")
          /\ UNCHANGED <<object, count, temp>>
       \/ /\ count[t] # Chunks
          /\ End(t)
          /\ Discard(t)
    /\ UNCHANGED <<placedVars, pin, newPin, answered>>

-----------------------------------------------------------------------------
(* Putting a file in place *)

\* sync_all on the temporary file, opened anew: what is in it by now is durable,
\* a piece still to be written is not waited for.
Fsync(t) ==
    /\ phase[t] = "final"
    /\ temp[TempOf(t)].len # Absent
    /\ Goto(t, "synced")
    /\ UNCHANGED <<object, count, temp, placedVars, pin, newPin, answered>>

\* An I/O error in store or finalize_stream_temp: the answer is a failure.  The
\* streamed path leaves its temporary file behind, under a name never used again.
PlaceFails(t) ==
    /\ phase[t] \in {"final", "synced"}
    /\ End(t)
    /\ Discard(t)
    /\ UNCHANGED <<placedVars, pin, newPin, answered>>

\* rename over the shard's name: readers find the new file, a power loss may
\* leave either.
Rename(t) ==
    /\ phase[t] = "synced"
    /\ temp[TempOf(t)].len # Absent
    /\ LET s == object[t] IN
          /\ shardFile' = [shardFile EXCEPT ![s] = temp[TempOf(t)]]
          /\ survivors' = [survivors EXCEPT ![s] = @ \cup {temp[TempOf(t)]}]
    /\ Discard(t)
    /\ Goto(t, "renamed")
    /\ UNCHANGED <<object, count, loose, pin, newPin, answered>>

\* Bug: the directory is not synced before the answer.
AnswerUnsynced(t) ==
    /\ phase[t] = "renamed"
    /\ answered' = [answered EXCEPT ![t] = object[t]]
    /\ End(t)
    /\ UNCHANGED <<temp, placedVars, pin, newPin>>

\* sync_parent_dir, best effort: its errors are ignored.  Then the response
\* with success set.
SyncDirAndAnswer(t) ==
    /\ phase[t] = "renamed"
    /\ LET s == object[t] IN
          /\ \/ /\ survivors' = [survivors EXCEPT ![s] = {shardFile[s]}]
                /\ loose' = loose \ {s}
             \/ /\ loose' = loose \cup {s}
                /\ UNCHANGED survivors
          /\ answered' = [answered EXCEPT ![t] = s]
    /\ End(t)
    /\ UNCHANGED <<temp, shardFile, pin, newPin>>

-----------------------------------------------------------------------------
(* Deleting, reading, pinning *)

\* DeleteShardRequest: the file is unlinked, the directory is not synced.
DeleteShard(t, s) ==
    /\ phase[t] = "open"
    /\ shardFile[s].len # Absent
    /\ shardFile' = [shardFile EXCEPT ![s] = NoFile]
    /\ survivors' = [survivors EXCEPT ![s] = @ \cup {NoFile}]
    /\ End(t)
    /\ UNCHANGED <<temp, loose, pin, newPin, answered>>

\* RetrieveShardStreamInit: the file is opened; a rename or a deletion later
\* does not change what this handle reads.
OpenShard(t, s) ==
    /\ phase[t] = "open"
    /\ shardFile[s].len \in 1 .. MaxChunks
    /\ Goto(t, "reading")
    /\ object' = [object EXCEPT ![t] = s]
    /\ count' = [count EXCEPT ![t] = shardFile[s].len]
    /\ UNCHANGED <<temp, placedVars, pin, newPin, answered>>

\* RetrieveShardChunk, as the peer takes it; after the last one, the hash.
SendChunk(t) ==
    /\ phase[t] = "reading"
    /\ IF count[t] > 1
       THEN /\ count' = [count EXCEPT ![t] = @ - 1]
            /\ UNCHANGED <<phase, object>>
       ELSE End(t)
    /\ UNCHANGED <<temp, placedVars, pin, newPin, answered>>

\* store_pinned writes in place: the object is torn until the write is over.
PinBegin(t, m) ==
    /\ phase[t] = "open"
    /\ Goto(t, "pinning")
    /\ pin' = TornPin
    /\ newPin' = [newPin EXCEPT ![t] = m]
    /\ UNCHANGED <<object, count, temp, placedVars, answered>>

PinEnd(t) ==
    /\ phase[t] = "pinning"
    /\ pin' = newPin[t]
    /\ newPin' = [newPin EXCEPT ![t] = NoShard]
    /\ End(t)
    /\ UNCHANGED <<temp, placedVars, answered>>

\* The node loses power and starts again; the temporary files left are under names
\* never used again, and DiskStorage::new removes the stale ones.
PowerLoss ==
    /\ shardFile' \in {f \in [Shards -> File] : \A s \in Shards : f[s] \in survivors[s]}
    /\ survivors' = [s \in Shards |-> {shardFile'[s]}]
    /\ phase' = [t \in Streams |-> "none"]
    /\ object' = [t \in Streams |-> NoShard]
    /\ count' = [t \in Streams |-> 0]
    /\ temp' = [x \in Streams \cup Shards |-> NoFile]
    /\ loose' = {}
    /\ newPin' = [t \in Streams |-> NoShard]
    /\ answered' = [t \in Streams |-> NoShard]
    /\ UNCHANGED pin

-----------------------------------------------------------------------------
(* The node *)

\* What the node does by itself, deadlines included.
NodeStep(t) ==
    \/ AnswerNow(t) \/ StreamAbort(t)
    \/ Fsync(t) \/ PlaceFails(t) \/ Rename(t) \/ SyncDirAndAnswer(t) \/ PinEnd(t)

\* What it does on a message from the peer.
PeerStep(t) ==
    \/ Accept(t) \/ StreamChunk(t) \/ StreamFinal(t) \/ SendChunk(t)
    \/ \E s \in Shards : StoreRequest(t, s) \/ StreamInit(t, s)
                            \/ DeleteShard(t, s) \/ OpenShard(t, s)
    \/ \E m \in Manifests : PinBegin(t, m)

NodeNext ==
    \/ \E t \in Streams : NodeStep(t) \/ PeerStep(t) \/ Acquire(t) \/ LateWrite(t)
    \/ PowerLoss

\* The tasks run and the timers fire; a peer need not do anything.
NodeFairness ==
    \A t \in Streams : WF_nodeVars(NodeStep(t))

NodeSpec == NodeInit /\ [][NodeNext]_nodeVars /\ NodeFairness

-----------------------------------------------------------------------------
(* Properties *)

\* A file under a shard's name was made of that shard's chunks, each once and no
\* others, now and after any power loss: interleaved uploads of one shard,
\* aborted streams and crashes between write, sync and rename never mix the bytes
\* of two uploads, and an upload cut short is never put in place.  (A file marked
\* late may lack a piece: NoTornShard is not claimed of it.)
NoTornShard ==
    \A s \in Shards : \A f \in {shardFile[s]} \cup survivors[s] : f.len \in {Absent, Chunks}

\* Shards that may lack a piece, now or after a power loss, and those whose
\* directory could not be synced.
Shaky ==
    loose \cup {s \in Shards : \E f \in {shardFile[s]} \cup survivors[s] : f.late}

\* A reader finds what is under the name, and a shard is firm when every outcome
\* of a power loss has it whole.
Store == INSTANCE ContentStore WITH
    Clients <- Streams,
    Items   <- Shards,
    Nothing <- NoShard,
    objs    <- {s \in Shards : shardFile[s].len # Absent},
    firm    <- {s \in Shards \ Shaky : NoFile \notin survivors[s]},
    ghosts  <- {s \in Shards : shardFile[s].len = Absent /\ survivors[s] # {NoFile}},
    shaky   <- Shaky,
    told    <- answered

\* The node implements ContentStore: a shard it has acknowledged survives any
\* power loss, whole, until it is deleted, whatever streams and crashes
\* interleave, unless a piece of it was still being written in the background
\* when its file was synced or its directory could not be synced.
ImplementsStore == Store!Spec

\* A peer that falls silent before or in the middle of an upload does not keep
\* its permit: every message is read under a deadline.  (A retrieval the peer
\* stops taking has none.)
UploadsEnd ==
    \A t \in Streams :
        phase[t] \in {"open", "recv", "final", "synced", "renamed"}
            ~> phase[t] \in {"none", "reading", "pinning"}

=============================================================================
