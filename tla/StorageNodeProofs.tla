------------------------- MODULE StorageNodeProofs --------------------------
(***************************************************************************)
(* Theorems of StorageNode, for any numbers of streams, shards, chunks and *)
(* permits: its types, that no file is made of anything but its shard's    *)
(* chunks, and that it implements ContentStore.                            *)
(***************************************************************************)
EXTENDS StorageNode, TLAPS

\* Where a stream is tells what its temporary file holds.
StreamOK(t) ==
    /\ phase[t] \in {"none", "queued", "open", "renamed", "reading", "pinning"}
         => temp[t] = NoFile
    /\ phase[t] \in {"none", "queued", "open"} => count[t] = 0
    /\ phase[t] = "recv" => temp[t].len = IF count[t] = 0 THEN Absent ELSE count[t]
    /\ phase[t] \in {"final", "synced"} => temp[t].len = Chunks
    /\ phase[t] \in {"recv", "final", "synced", "renamed"} => object[t] \in Shards

StreamInv == \A t \in Streams : StreamOK(t)

\* No file, or one to which exactly the shard's chunks were appended.
Clean == {f \in File : f = NoFile \/ f.len = Chunks}

\* What is under a shard's name is one of the outcomes of a power loss, and each
\* of those is made of the shard's chunks or nothing.
FileInv ==
    \A s \in Shards : shardFile[s] \in survivors[s] /\ survivors[s] \subseteq Clean

NodeInv == NodeTypeOK /\ StreamInv /\ FileInv

-----------------------------------------------------------------------------
(* Types *)

LEMMA AbsentIsNoLength == Absent \notin Nat /\ Chunks # Absent /\ Chunks \in 1 .. MaxChunks
  BY StorageNodeAssumption DEF Absent

LEMMA FileRange ==
    /\ NoFile \in File /\ Whole \in File
    /\ \A n \in 0 .. MaxChunks : [len |-> n, late |-> TRUE] \in File
  BY StorageNodeAssumption DEF File, Lengths, NoFile, Whole

LEMMA LandedType == \A f \in File : [f EXCEPT !.late = FALSE] \in File
  BY DEF File

LEMMA EndType ==
  ASSUME NodeTypeOK, NEW t \in Streams, End(t)
  PROVE  /\ phase' \in [Streams -> Phases]
         /\ object' \in [Streams -> Shards \cup {NoShard}]
         /\ count' \in [Streams -> 0 .. MaxChunks]
  BY StorageNodeAssumption DEF NodeTypeOK, End, Goto, Phases

LEMMA DiscardType ==
  ASSUME NodeTypeOK, NEW t \in Streams, Discard(t)
  PROVE  temp' \in [Streams \cup Shards -> File]
  BY FileRange DEF NodeTypeOK, Discard, TempOf

LEMMA NodeTypeInit == NodeInit => NodeTypeOK
  BY StorageNodeAssumption, FileRange DEF NodeInit, NodeTypeOK, Phases

LEMMA NodeTypeStep == NodeInv /\ [NodeNext]_nodeVars => NodeTypeOK'
<1> SUFFICES ASSUME NodeInv, [NodeNext]_nodeVars PROVE NodeTypeOK'
  OBVIOUS
<1> USE StorageNodeAssumption DEF NodeInv
<1>1. ASSUME NEW t \in Streams, Accept(t) \/ Acquire(t) PROVE NodeTypeOK'
  BY <1>1 DEF Accept, Acquire, Goto, NodeTypeOK, Phases, placedVars
<1>2. ASSUME NEW t \in Streams, AnswerNow(t) \/ StreamAbort(t) \/ PlaceFails(t) PROVE NodeTypeOK'
  BY <1>2, EndType, DiscardType DEF AnswerNow, StreamAbort, PlaceFails, NodeTypeOK, placedVars
<1>3. ASSUME NEW t \in Streams, NEW s \in Shards, StoreRequest(t, s) PROVE NodeTypeOK'
  BY <1>3, FileRange DEF StoreRequest, Goto, TempOf, NodeTypeOK, Phases, placedVars
<1>4. ASSUME NEW t \in Streams, NEW s \in Shards, StreamInit(t, s) PROVE NodeTypeOK'
  BY <1>4 DEF StreamInit, Goto, NodeTypeOK, Phases, placedVars
<1>5. ASSUME NEW t \in Streams, StreamChunk(t) PROVE NodeTypeOK'
  <2>1. count[t] + 1 \in 1 .. MaxChunks
    BY <1>5 DEF StreamChunk, NodeTypeOK
  <2>2. /\ temp'[t] = [len |-> count[t] + 1, late |-> TRUE]
        /\ temp' = [temp EXCEPT ![t] = temp'[t]]
    <3>1. temp' = [temp EXCEPT ![t] = Appended(temp[t])] /\ phase[t] = "recv"
      BY <1>5 DEF StreamChunk, TempOf
    <3>2. temp[t].len = IF count[t] = 0 THEN Absent ELSE count[t]
      BY <3>1 DEF StreamInv, StreamOK
    <3>3. count[t] \in 0 .. MaxChunks /\ t \in DOMAIN temp
      BY DEF NodeTypeOK
    <3>4. Appended(temp[t]) = [len |-> count[t] + 1, late |-> TRUE]
      <4>1. ASSUME NEW f, NEW n \in Nat, f.len = IF n = 0 THEN Absent ELSE n
            PROVE  (IF f.len = Absent THEN 1 ELSE f.len + 1) = n + 1
        BY <4>1, AbsentIsNoLength
      <4>2. (IF temp[t].len = Absent THEN 1 ELSE temp[t].len + 1) = count[t] + 1
        BY <3>2, <3>3, <4>1
      <4> QED
        BY <4>2 DEF Appended
    <3>5. temp'[t] = Appended(temp[t])
      BY <3>1, <3>3
    <3>6. temp' = [temp EXCEPT ![t] = temp'[t]]
      BY <3>1, <3>5, Zenon
    <3> QED
      BY <3>4, <3>5, <3>6, Zenon
  <2>3. temp' \in [Streams \cup Shards -> File]
    BY <2>1, <2>2, FileRange DEF NodeTypeOK
  <2> QED
    BY <1>5, <2>1, <2>3 DEF StreamChunk, NodeTypeOK, placedVars
<1>6. ASSUME NEW t \in Streams, StreamFinal(t) PROVE NodeTypeOK'
  <2>1. CASE Goto(t, "final") /\ UNCHANGED <<object, count, temp>>
    BY <1>6, <2>1 DEF StreamFinal, Goto, NodeTypeOK, Phases, placedVars
  <2>2. CASE End(t) /\ Discard(t)
    BY <1>6, <2>2, EndType, DiscardType DEF StreamFinal, NodeTypeOK, placedVars
  <2> QED
    BY <1>6, <2>1, <2>2 DEF StreamFinal
<1>7. ASSUME NEW t \in Streams, Fsync(t) PROVE NodeTypeOK'
  BY <1>7 DEF Fsync, Goto, NodeTypeOK, Phases, placedVars
<1>8. ASSUME NEW t \in Streams, Rename(t) PROVE NodeTypeOK'
  <2>1. temp[t] \in File
    BY DEF NodeTypeOK
  <2>2. shardFile' \in [Shards -> File] /\ survivors' \in [Shards -> SUBSET File]
    BY <1>8, <2>1 DEF Rename, TempOf, NodeTypeOK
  <2> QED
    BY <1>8, <2>2, DiscardType DEF Rename, Goto, NodeTypeOK, Phases
<1>9. ASSUME NEW t \in Streams, SyncDirAndAnswer(t) PROVE NodeTypeOK'
  <2>1. object[t] \in Shards
    BY <1>9 DEF SyncDirAndAnswer, StreamInv, StreamOK
  <2>2. /\ survivors' \in [Shards -> SUBSET File] /\ loose' \subseteq Shards
        /\ answered' \in [Streams -> Shards \cup {NoShard}]
    BY <1>9, <2>1 DEF SyncDirAndAnswer, NodeTypeOK
  <2> QED
    BY <1>9, <2>2, EndType DEF SyncDirAndAnswer, NodeTypeOK
<1>10. ASSUME NEW t \in Streams, NEW s \in Shards, DeleteShard(t, s) PROVE NodeTypeOK'
  <2>1. shardFile' \in [Shards -> File] /\ survivors' \in [Shards -> SUBSET File]
    BY <1>10, FileRange DEF DeleteShard, NodeTypeOK
  <2> QED
    BY <1>10, <2>1, EndType DEF DeleteShard, NodeTypeOK
<1>11. ASSUME NEW t \in Streams, NEW s \in Shards, OpenShard(t, s) PROVE NodeTypeOK'
  BY <1>11 DEF OpenShard, Goto, NodeTypeOK, Phases, placedVars
<1>12. ASSUME NEW t \in Streams, SendChunk(t) PROVE NodeTypeOK'
  <2>1. CASE count[t] > 1
    BY <1>12, <2>1 DEF SendChunk, NodeTypeOK, placedVars
  <2>2. CASE ~(count[t] > 1)
    BY <1>12, <2>2, EndType DEF SendChunk, NodeTypeOK, placedVars
  <2> QED
    BY <2>1, <2>2
<1>13. ASSUME NEW t \in Streams, NEW m \in Manifests, PinBegin(t, m) PROVE NodeTypeOK'
  BY <1>13 DEF PinBegin, Goto, NodeTypeOK, Phases, placedVars
<1>14. ASSUME NEW t \in Streams, PinEnd(t) PROVE NodeTypeOK'
  BY <1>14, EndType DEF PinEnd, NodeTypeOK, placedVars
<1>15. CASE PowerLoss
  <2>1. shardFile' \in [Shards -> File]
    BY <1>15 DEF PowerLoss
  <2>2. survivors' \in [Shards -> SUBSET File]
    BY <1>15, <2>1 DEF PowerLoss
  <2> QED
    BY <1>15, <2>1, <2>2, FileRange DEF PowerLoss, NodeTypeOK, Phases
<1>16. CASE UNCHANGED nodeVars
  BY <1>16 DEF nodeVars, NodeTypeOK
<1>17. ASSUME NEW t \in Streams, LateWrite(t) PROVE NodeTypeOK'
  <2>1. [temp[t] EXCEPT !.late = FALSE] \in File
    BY LandedType DEF NodeTypeOK
  <2>2. temp' \in [Streams \cup Shards -> File]
    BY <1>17, <2>1 DEF LateWrite, TempOf, NodeTypeOK
  <2> QED
    BY <1>17, <2>2 DEF LateWrite, NodeTypeOK, placedVars
<1> QED
  BY <1>1, <1>2, <1>3, <1>4, <1>5, <1>6, <1>7, <1>8, <1>9, <1>10, <1>11, <1>12, <1>13, <1>14,
     <1>15, <1>16, <1>17 DEF NodeNext, NodeStep, PeerStep

-----------------------------------------------------------------------------
(* The invariant *)

\* Every step but a power loss is one stream's and leaves the others alone.
LEMMA OthersKept ==
  ASSUME NodeTypeOK, NEW t \in Streams, NodeStep(t) \/ PeerStep(t) \/ Acquire(t) \/ LateWrite(t),
         NEW u \in Streams, u # t, StreamOK(u)
  PROVE  StreamOK(u)'
<1>1. /\ phase'[u] = phase[u] /\ object'[u] = object[u]
      /\ count'[u] = count[u] /\ temp'[u] = temp[u]
  BY DEF NodeTypeOK, NodeStep, PeerStep, Acquire, AnswerNow, StreamAbort, Fsync, PlaceFails, Rename,
         SyncDirAndAnswer, PinEnd, Accept, StreamChunk, StreamFinal, SendChunk, StoreRequest,
         StreamInit, DeleteShard, OpenShard, PinBegin, LateWrite, Goto, End, Discard, TempOf
<1> QED
  BY <1>1 DEF StreamOK

LEMMA EndOK ==
  ASSUME NodeTypeOK, NEW t \in Streams, End(t), temp'[t] = NoFile
  PROVE  StreamOK(t)'
  BY DEF NodeTypeOK, End, Goto, StreamOK

LEMMA StreamKept ==
  ASSUME NodeTypeOK, NEW t \in Streams, StreamOK(t),
         NodeStep(t) \/ PeerStep(t) \/ Acquire(t) \/ LateWrite(t)
  PROVE  StreamOK(t)'
<1> USE StorageNodeAssumption DEF NodeTypeOK
<1>1. CASE Accept(t) \/ Acquire(t)
  BY <1>1 DEF Accept, Acquire, Goto, StreamOK
<1>2. CASE AnswerNow(t) \/ StreamAbort(t) \/ PlaceFails(t) \/ PinEnd(t) \/ SyncDirAndAnswer(t)
  <2>1. End(t) /\ temp'[t] = NoFile
    BY <1>2 DEF AnswerNow, StreamAbort, PlaceFails, PinEnd, SyncDirAndAnswer, Discard, TempOf, StreamOK
  <2> QED
    BY <2>1, EndOK
<1>3. ASSUME NEW s \in Shards, StoreRequest(t, s) PROVE StreamOK(t)'
  BY <1>3 DEF StoreRequest, Goto, TempOf, StreamOK, Whole
<1>4. ASSUME NEW s \in Shards, StreamInit(t, s) PROVE StreamOK(t)'
  BY <1>4 DEF StreamInit, Goto, StreamOK, NoFile
<1>5. CASE StreamChunk(t)
  <2>1. temp'[t].len = count'[t] /\ count'[t] # 0 /\ phase'[t] = "recv" /\ object'[t] = object[t]
    BY <1>5, AbsentIsNoLength DEF StreamChunk, TempOf, Appended, StreamOK
  <2> QED
    BY <1>5, <2>1 DEF StreamChunk, StreamOK
<1>6. CASE StreamFinal(t)
  <2>1. CASE count[t] = Chunks /\ Goto(t, "final") /\ UNCHANGED <<object, count, temp>>
    BY <1>6, <2>1, AbsentIsNoLength DEF StreamFinal, Goto, StreamOK
  <2>2. CASE End(t) /\ Discard(t)
    BY <2>2, EndOK DEF Discard, TempOf
  <2> QED
    BY <1>6, <2>1, <2>2 DEF StreamFinal
<1>7. CASE Fsync(t)
  BY <1>7 DEF Fsync, Goto, StreamOK
<1>8. CASE Rename(t)
  BY <1>8 DEF Rename, Goto, Discard, TempOf, StreamOK
<1>9. ASSUME NEW s \in Shards, DeleteShard(t, s) PROVE StreamOK(t)'
  BY <1>9, EndOK DEF DeleteShard, StreamOK
<1>10. ASSUME NEW s \in Shards, OpenShard(t, s) PROVE StreamOK(t)'
  BY <1>10 DEF OpenShard, Goto, StreamOK
<1>11. CASE SendChunk(t)
  <2>1. CASE count[t] > 1
    BY <1>11, <2>1 DEF SendChunk, StreamOK
  <2>2. CASE ~(count[t] > 1)
    BY <1>11, <2>2, EndOK DEF SendChunk, StreamOK
  <2> QED
    BY <2>1, <2>2
<1>12. ASSUME NEW m \in Manifests, PinBegin(t, m) PROVE StreamOK(t)'
  BY <1>12 DEF PinBegin, Goto, StreamOK
<1>13. CASE LateWrite(t)
  <2>1. temp'[t].len = temp[t].len
    BY <1>13 DEF LateWrite, TempOf, File
  <2> QED
    BY <1>13, <2>1 DEF LateWrite, StreamOK
<1> QED
  BY <1>1, <1>2, <1>3, <1>4, <1>5, <1>6, <1>7, <1>8, <1>9, <1>10, <1>11, <1>12, <1>13 DEF NodeStep, PeerStep

LEMMA StreamStep == NodeInv /\ [NodeNext]_nodeVars => StreamInv'
<1> SUFFICES ASSUME NodeInv, [NodeNext]_nodeVars, NEW u \in Streams PROVE StreamOK(u)'
  BY DEF StreamInv
<1>0. NodeTypeOK /\ \A t \in Streams : StreamOK(t)
  BY DEF NodeInv, StreamInv
<1>1. ASSUME NEW t \in Streams, NodeStep(t) \/ PeerStep(t) \/ Acquire(t) \/ LateWrite(t)
      PROVE  StreamOK(u)'
  BY <1>0, <1>1, OthersKept, StreamKept
<1>2. CASE PowerLoss
  BY <1>2 DEF PowerLoss, StreamOK
<1>3. CASE UNCHANGED nodeVars
  BY <1>0, <1>3 DEF nodeVars, StreamOK
<1> QED
  BY <1>1, <1>2, <1>3 DEF NodeNext

LEMMA FileStep == NodeInv /\ [NodeNext]_nodeVars => FileInv'
<1> SUFFICES ASSUME NodeInv, [NodeNext]_nodeVars PROVE FileInv'
  OBVIOUS
<1> USE DEF NodeInv
<1>1. ASSUME UNCHANGED <<shardFile, survivors>> PROVE FileInv'
  BY <1>1 DEF FileInv
<1>2. ASSUME NEW t \in Streams, Rename(t) PROVE FileInv'
  <2>1. temp[t] \in Clean /\ object[t] \in Shards
    BY <1>2 DEF Rename, StreamInv, StreamOK, NodeTypeOK, Clean
  <2> QED
    BY <1>2, <2>1 DEF Rename, TempOf, FileInv, NodeTypeOK
<1>3. ASSUME NEW t \in Streams, SyncDirAndAnswer(t) PROVE FileInv'
  BY <1>3 DEF SyncDirAndAnswer, FileInv, NodeTypeOK
<1>4. ASSUME NEW t \in Streams, NEW s \in Shards, DeleteShard(t, s) PROVE FileInv'
  BY <1>4, FileRange DEF DeleteShard, FileInv, NodeTypeOK, Clean
<1>5. CASE PowerLoss
  <2>1. \A s \in Shards : shardFile'[s] \in survivors[s] /\ survivors'[s] = {shardFile'[s]}
    BY <1>5 DEF PowerLoss
  <2> QED
    BY <2>1 DEF FileInv
<1> QED
  BY <1>1, <1>2, <1>3, <1>4, <1>5
  DEF NodeNext, NodeStep, PeerStep, nodeVars, Acquire, AnswerNow, StreamAbort, Fsync, PlaceFails,
      PinEnd, Accept, StreamChunk, StreamFinal, SendChunk, StoreRequest, StreamInit, OpenShard,
      PinBegin, LateWrite, placedVars

LEMMA NodeInvInit == NodeInit => NodeInv
  BY NodeTypeInit, FileRange DEF NodeInit, NodeInv, StreamInv, StreamOK, FileInv, Clean

LEMMA NodeInvStep == NodeInv /\ [NodeNext]_nodeVars => NodeInv'
  BY NodeTypeStep, StreamStep, FileStep DEF NodeInv

LEMMA Invariance == NodeSpec => []NodeInv
  BY NodeInvInit, NodeInvStep, PTL DEF NodeSpec

\* Every variable of the node keeps its type: in particular no upload grows past
\* MAX_SHARD_BYTES, whatever its peer sends.
THEOREM NodeTypeCorrect == NodeSpec => []NodeTypeOK
<1>1. NodeInv => NodeTypeOK
  BY DEF NodeInv
<1> QED
  BY <1>1, Invariance, PTL

\* A file under a shard's name was made of that shard's chunks and no others, now
\* and after any power loss, for any number of streams and shards.
THEOREM NeverMixed == NodeSpec => []NoTornShard
<1>1. NodeInv => NoTornShard
  BY DEF NodeInv, FileInv, NoTornShard, Clean, NoFile
<1> QED
  BY <1>1, Invariance, PTL

-----------------------------------------------------------------------------
(* The refinement *)

LEMMA StoreInit == NodeInit => Store!Init
  BY DEF NodeInit, Store!Init, Shaky, NoFile

\* The file under a name is among the outcomes, so the outcomes alone tell what is
\* shaky.
LEMMA ShakyOutcomes ==
  NodeInv => \A s \in Shards : s \in Shaky <=> s \in loose \/ \E f \in survivors[s] : f.late
  BY DEF NodeInv, NodeTypeOK, FileInv, Shaky

LEMMA CleanFacts ==
  /\ ~NoFile.late /\ NoFile.len = Absent
  /\ \A f \in Clean : f.len = Absent <=> f = NoFile
  /\ \A f \in Clean : f.late => f.len # Absent
  BY AbsentIsNoLength DEF Clean, NoFile

\* Steps that change neither files nor answers are steps of nobody.
LEMMA Stutters ==
  ASSUME UNCHANGED <<shardFile, survivors, loose, answered>>
  PROVE  UNCHANGED Store!storeVars
  BY DEF Store!storeVars, Shaky

LEMMA RenamePuts ==
  ASSUME NodeInv, NodeInv', NEW t \in Streams, Rename(t), NEW s \in Shards, s = object[t]
  PROVE  Store!Put(s) \/ Store!PutHastily(s)
<1>0. PICK f \in Clean : f = temp[t] /\ f.len # Absent
  BY DEF Rename, TempOf, NodeInv, StreamInv, StreamOK, NodeTypeOK, Clean
<1>1. /\ shardFile' = [shardFile EXCEPT ![s] = f]
      /\ survivors' = [survivors EXCEPT ![s] = @ \cup {f}]
      /\ answered' = answered /\ loose' = loose
  BY <1>0 DEF Rename, TempOf
<1>2. f # NoFile
  BY <1>0, CleanFacts
<1>3. \A x \in Shards : (NoFile \in survivors'[x]) <=> (NoFile \in survivors[x])
  BY <1>1, <1>2 DEF NodeInv, NodeTypeOK
<1>4. \A x \in Shards : (shardFile'[x].len # Absent) <=> (x = s \/ shardFile[x].len # Absent)
  BY <1>0, <1>1 DEF NodeInv, NodeTypeOK
<1>5. \A x \in Shards : (x \in Shaky') <=> (x \in Shaky \/ (x = s /\ f.late))
  <2>1. \A x \in Shards : (x \in Shaky)' <=> (x \in loose' \/ \E g \in survivors'[x] : g.late)
    BY ShakyOutcomes DEF NodeInv, NodeTypeOK, FileInv, Shaky
  <2> QED
    BY <1>1, <2>1, ShakyOutcomes DEF NodeInv, NodeTypeOK
<1>6. {x \in Shards : shardFile'[x].len = Absent /\ survivors'[x] # {NoFile}}
        = {x \in Shards : shardFile[x].len = Absent /\ survivors[x] # {NoFile}} \ {s}
  BY <1>0, <1>1 DEF NodeInv, NodeTypeOK
<1>7. Shaky \subseteq Shards /\ Shaky' \subseteq Shards
  BY DEF NodeInv, NodeTypeOK, Shaky
<1>8. CASE f.late
  <2>1. Shaky' = Shaky \cup {s}
    BY <1>5, <1>7, <1>8
  <2> QED
    BY <1>1, <1>3, <1>4, <1>6, <2>1 DEF Store!PutHastily
<1>9. CASE ~f.late
  <2>1. Shaky' = Shaky
    BY <1>5, <1>7, <1>9
  <2> QED
    BY <1>1, <1>3, <1>4, <1>6, <2>1 DEF Store!Put
<1> QED
  BY <1>8, <1>9

LEMMA AnswerAcknowledges ==
  ASSUME NodeInv, NodeInv', NEW t \in Streams, SyncDirAndAnswer(t), NEW s \in Shards, s = object[t]
  PROVE  Store!Acknowledge(t, s) \/ Store!AcknowledgeUnsecured(t, s)
<1>0. shardFile' = shardFile /\ answered' = [answered EXCEPT ![t] = s]
  BY DEF SyncDirAndAnswer
<1>1. shardFile[s] \in survivors[s] /\ shardFile[s] \in Clean
  BY DEF NodeInv, FileInv
<1>2. Shaky \subseteq Shards /\ Shaky' \subseteq Shards
  BY DEF NodeInv, NodeTypeOK, Shaky
<1>3. \A x \in Shards : (x \in Shaky') <=> (x \in loose' \/ \E g \in survivors'[x] : g.late)
  BY DEF NodeInv, NodeTypeOK, FileInv, Shaky
<1>4. CASE survivors' = [survivors EXCEPT ![s] = {shardFile[s]}] /\ loose' = loose \ {s}
  <2> DEFINE still == {x \in {s} : shardFile[s].late}
  <2>1. \A x \in Shards : x # s => survivors'[x] = survivors[x]
    BY <1>4 DEF NodeInv, NodeTypeOK
  <2>2. survivors'[s] = {shardFile[s]}
    BY <1>4 DEF NodeInv, NodeTypeOK
  <2>3. still \in SUBSET (Shaky \cap {s})
    BY <1>1, ShakyOutcomes
  <2>4. \A x \in Shards : (x \in Shaky') <=> (x \in (Shaky \ {s}) \cup still)
    BY <1>3, <1>4, <2>1, <2>2, ShakyOutcomes
  <2>5. Shaky' = (Shaky \ {s}) \cup still
    BY <1>2, <2>4
  <2>6. {x \in Shards \ Shaky' : NoFile \notin survivors'[x]}
          = {x \in Shards \ Shaky : NoFile \notin survivors[x]}
              \cup (({s} \cap {x \in Shards : shardFile[x].len # Absent}) \ still)
    BY <1>1, <2>1, <2>2, <2>4, CleanFacts, ShakyOutcomes
  <2>7. {x \in Shards : shardFile'[x].len = Absent /\ survivors'[x] # {NoFile}}
          = {x \in Shards : shardFile[x].len = Absent /\ survivors[x] # {NoFile}} \ {s}
    BY <1>0, <1>1, <2>1, <2>2, CleanFacts
  <2> HIDE DEF still
  <2> QED
    BY <1>0, <2>3, <2>5, <2>6, <2>7 DEF Store!Acknowledge
<1>5. CASE survivors' = survivors /\ loose' = loose \cup {s}
  <2>1. Shaky' = Shaky \cup {s}
    BY <1>2, <1>3, <1>5, ShakyOutcomes
  <2> QED
    BY <1>0, <1>5, <2>1 DEF Store!AcknowledgeUnsecured
<1> QED
  BY <1>4, <1>5 DEF SyncDirAndAnswer

LEMMA DeleteRemoves ==
  ASSUME NodeInv, NodeInv', NEW t \in Streams, NEW s \in Shards, DeleteShard(t, s)
  PROVE  Store!Remove(s)
<1>1. /\ shardFile' = [shardFile EXCEPT ![s] = NoFile]
      /\ survivors' = [survivors EXCEPT ![s] = @ \cup {NoFile}]
      /\ shardFile[s].len # Absent
      /\ answered' = answered /\ loose' = loose
  BY DEF DeleteShard
<1>2. Shaky \subseteq Shards /\ Shaky' \subseteq Shards
  BY DEF NodeInv, NodeTypeOK, Shaky
<1>3. \A x \in Shards : (x \in Shaky') <=> (x \in loose' \/ \E g \in survivors'[x] : g.late)
  BY DEF NodeInv, NodeTypeOK, FileInv, Shaky
<1>4. Shaky' = Shaky
  <2>1. \A x \in Shards : (\E g \in survivors'[x] : g.late) <=> (\E g \in survivors[x] : g.late)
    <3>1. \A x \in Shards : survivors'[x] = survivors[x] \/ survivors'[x] = survivors[x] \cup {NoFile}
      BY <1>1 DEF NodeInv, NodeTypeOK
    <3> QED
      BY <3>1, CleanFacts
  <2>2. \A x \in Shards : (x \in Shaky') <=> (x \in Shaky)
    BY <1>1, <1>3, <2>1, ShakyOutcomes
  <2> QED
    BY <1>2, <2>2
<1>5. {x \in Shards \ Shaky' : NoFile \notin survivors'[x]}
        = {x \in Shards \ Shaky : NoFile \notin survivors[x]} \ {s}
  BY <1>1, <1>4 DEF NodeInv, NodeTypeOK
<1>6. {x \in Shards : shardFile'[x].len # Absent} = {x \in Shards : shardFile[x].len # Absent} \ {s}
  BY <1>1, CleanFacts DEF NodeInv, NodeTypeOK
<1>7. shardFile[s] \in survivors[s] /\ shardFile[s] # NoFile
  BY <1>1, CleanFacts DEF NodeInv, FileInv
<1>8. {x \in Shards : shardFile'[x].len = Absent /\ survivors'[x] # {NoFile}}
        = {x \in Shards : shardFile[x].len = Absent /\ survivors[x] # {NoFile}} \cup {s}
  BY <1>1, <1>7, CleanFacts DEF NodeInv, NodeTypeOK
<1> QED
  BY <1>1, <1>4, <1>5, <1>6, <1>8 DEF Store!Remove

LEMMA LossLoses == NodeInv /\ NodeInv' /\ PowerLoss => Store!PowerLoss
<1> SUFFICES ASSUME NodeInv, NodeInv', PowerLoss PROVE Store!PowerLoss
  OBVIOUS
<1> DEFINE S == {s \in Shards : shardFile'[s].len # Absent}
<1>1. \A s \in Shards : shardFile'[s] \in survivors[s] /\ survivors'[s] = {shardFile'[s]}
  BY DEF PowerLoss
<1>2. answered' = [t \in Streams |-> NoShard] /\ loose' = {}
  BY DEF PowerLoss
<1>3. \A s \in Shards : survivors[s] \subseteq Clean /\ shardFile[s] \in survivors[s]
  BY DEF NodeInv, FileInv
<1>4. S \in SUBSET ({s \in Shards : shardFile[s].len # Absent}
                      \cup {s \in Shards : shardFile[s].len = Absent /\ survivors[s] # {NoFile}})
  BY <1>1, <1>3, CleanFacts
<1>5. {s \in Shards \ Shaky : NoFile \notin survivors[s]} \subseteq S
  BY <1>1, <1>3, CleanFacts
<1>6. Shaky' \subseteq Shards /\ \A s \in Shards : s \in Shaky' <=> shardFile'[s].late
  BY <1>1, <1>2 DEF NodeInv, NodeTypeOK, Shaky
<1>7. Shaky' \in SUBSET (Shaky \cap S)
  BY <1>1, <1>3, <1>6, CleanFacts, ShakyOutcomes
<1>8. /\ {s \in Shards \ Shaky' : NoFile \notin survivors'[s]} = S \ Shaky'
      /\ {s \in Shards : shardFile'[s].len = Absent /\ survivors'[s] # {NoFile}} = {}
  BY <1>1, <1>3, CleanFacts
<1> QED
  BY <1>2, <1>4, <1>5, <1>7, <1>8 DEF Store!PowerLoss

LEMMA StoreStep == NodeInv /\ NodeInv' /\ [NodeNext]_nodeVars => [Store!Next]_(Store!storeVars)
<1> SUFFICES ASSUME NodeInv, NodeInv', [NodeNext]_nodeVars
             PROVE  Store!Next \/ UNCHANGED Store!storeVars
  OBVIOUS
<1>1. ASSUME NEW t \in Streams, Accept(t) PROVE Store!Next
  <2>1. Store!Ask(t)
    BY <1>1 DEF Accept, Store!Ask, placedVars, Shaky
  <2> QED
    BY <2>1 DEF Store!Next
<1>2. ASSUME NEW t \in Streams, Rename(t) PROVE Store!Next
  <2>1. PICK s \in Shards : s = object[t]
    BY <1>2 DEF Rename, NodeInv, StreamInv, StreamOK
  <2> QED
    BY <1>2, <2>1, RenamePuts DEF Store!Next
<1>3. ASSUME NEW t \in Streams, SyncDirAndAnswer(t) PROVE Store!Next
  <2>1. PICK s \in Shards : s = object[t]
    BY <1>3 DEF SyncDirAndAnswer, NodeInv, StreamInv, StreamOK
  <2> QED
    BY <1>3, <2>1, AnswerAcknowledges DEF Store!Next
<1>4. ASSUME NEW t \in Streams, NEW s \in Shards, DeleteShard(t, s) PROVE Store!Next
  BY <1>4, DeleteRemoves DEF Store!Next
<1>5. CASE PowerLoss
  BY <1>5, LossLoses DEF Store!Next
<1>6. CASE UNCHANGED <<shardFile, survivors, loose, answered>>
  BY <1>6, Stutters
<1> QED
  BY <1>1, <1>2, <1>3, <1>4, <1>5, <1>6
  DEF NodeNext, NodeStep, PeerStep, nodeVars, Acquire, AnswerNow, StreamAbort, Fsync, PlaceFails,
      PinEnd, StreamChunk, StreamFinal, SendChunk, StoreRequest, StreamInit, OpenShard, PinBegin,
      LateWrite, placedVars

\* The node implements the content-addressed store: what it has acknowledged
\* survives every power loss, whole, until it is deleted, for any number of
\* streams, except for shards put in place before all their pieces were written
\* and shards whose directory could not be synced.
THEOREM Refinement == NodeSpec => ImplementsStore
<1>1. NodeInv /\ [NodeNext]_nodeVars => NodeInv' /\ [Store!Next]_(Store!storeVars)
  BY NodeInvStep, StoreStep
<1> QED
  BY <1>1, StoreInit, Invariance, PTL DEF NodeSpec, ImplementsStore, Store!Spec

=============================================================================
