------------------------ MODULE ShardLifecycleProofs ------------------------
(***************************************************************************)
(* Theorems of ShardLifecycle, for every set of nodes, owners, keys and    *)
(* movers, every erasure-coding scheme and every environment.              *)
(***************************************************************************)
EXTENDS ShardLifecycle, FiniteSetTheorems, TLAPS

-----------------------------------------------------------------------------
(* The record types *)

LEMMA IdxFacts == 0 \in Idx /\ Idx \subseteq Nat
  BY MeshAssumption DEF Idx

LEMMA NoTaskType == NoTask \in RepTask /\ NoTask.pc = "idle"
  BY DEF NoTask, RepTask

LEMMA NoCycleType == NoCycle \in Cycle
  BY DEF NoCycle, Cycle

LEMMA NoAuditType ==
  /\ NoAudit \in AuditState
  /\ NoAudit.pc = "idle"
  /\ NoAudit.todo = {}
  BY IdxFacts, PrefixAssumption DEF NoAudit, AuditState

-----------------------------------------------------------------------------
(* Type correctness, one lemma per component *)

LEMMA InitType == Init => TypeOK
<1> SUFFICES ASSUME Init PROVE TypeOK
  OBVIOUS
<1> USE DEF Init, MeshInit
<1>1. media \in [Owners -> Media] /\ rows \in [Idx -> Row \cup {NoRow}]
  <2>1. CASE EmptyLibrary
    BY <2>1 DEF EmptyLibrary, Media
  <2>2. CASE BackedUpLibrary
    BY <2>2 DEF BackedUpLibrary, Media, Row
  <2> QED
    BY <2>1, <2>2
<1>2. stored \in [Nodes -> SUBSET Objects]
  BY DEF EmptyLibrary, BackedUpLibrary, Objects
<1>3. file \in BOOLEAN /\ swept \in BOOLEAN
  BY Zenon DEF EmptyLibrary, BackedUpLibrary
<1>4. MeshTypeOK
  BY <1>1, <1>2, <1>3, MeshAssumption DEF MeshTypeOK, NodeRow
<1> QED
  BY <1>4, NoTaskType, NoCycleType, NoAuditType
  DEF TypeOK, RepInit, RepTypeOK, AudInit, AudTypeOK, RebInit, RebTypeOK

LEMMA WorldType == TypeOK /\ World => TypeOK'
<1> SUFFICES ASSUME TypeOK, World PROVE TypeOK'
  OBVIOUS
<1> USE DEF TypeOK, MeshTypeOK
<1>1. (RepTypeOK /\ AudTypeOK /\ RebTypeOK)'
  BY DEF World, RepTypeOK, AudTypeOK, RebTypeOK
<1>2. ASSUME NEW o \in Owners, Ingest(o) \/ SoftDelete(o) \/ SoftRestore(o) PROVE MeshTypeOK'
  BY ZenonT(60), <1>2 DEF Ingest, SoftDelete, SoftRestore, Media
<1>3. ASSUME NEW n \in Nodes, RemoveNode(n) PROVE MeshTypeOK'
  BY <1>3 DEF RemoveNode, NodeRow
<1>4. ASSUME NEW n \in Nodes, Announce(n) \/ NodeDown(n) \/ NodeUp(n) \/ DiskLoss(n)
      PROVE MeshTypeOK'
  BY <1>4, MeshAssumption DEF Announce, NodeDown, NodeUp, DiskLoss, Fault
<1>5. ASSUME NEW span \in 0 .. 2, TimePasses(span) PROVE MeshTypeOK'
  <2>1. media' \in [Owners -> Media]
    BY ZenonT(60), <1>5 DEF TimePasses, Media
  <2>2. peers' \in [Nodes -> NodeRow]
    BY <1>5 DEF TimePasses, NodeRow, Older
  <2>3. rows' \in [Idx -> Row \cup {NoRow}]
    BY <1>5 DEF TimePasses, Row, Older, HasRow
  <2>4. swept' \in BOOLEAN
    BY <1>5 DEF TimePasses
  <2> QED
    BY <1>5, <2>1, <2>2, <2>3, <2>4 DEF TimePasses
<1>6. ASSUME FileLoss PROVE MeshTypeOK'
  <2>1. file' \in BOOLEAN
    BY <1>6, Zenon DEF FileLoss
  <2> QED
    BY <1>6, <2>1, MeshAssumption DEF FileLoss, Fault
<1> QED
  BY <1>1, <1>2, <1>3, <1>4, <1>5, <1>6 DEF World, MeshNext

\* The attempt stamps keep the media table well typed.
LEMMA StampedType ==
  ASSUME TypeOK, UpdateMedia(Stamped)
  PROVE  media' \in [Owners -> Media]
  BY ZenonT(60) DEF TypeOK, MeshTypeOK, UpdateMedia, Stamped, Media

LEMMA StoreType ==
  ASSUME TypeOK, NEW n \in Nodes, NEW k \in Keys, NEW i \in Idx, Store(n, <<k, i>>)
  PROVE  stored' \in [Nodes -> SUBSET Objects]
  BY DEF TypeOK, MeshTypeOK, Store, Objects

LEMMA FaultType ==
  ASSUME TypeOK, NEW kind, Fault(kind) \/ UNCHANGED faults
  PROVE  faults' \in 0 .. MaxFaults
  BY MeshAssumption DEF TypeOK, MeshTypeOK, Fault

LEMMA RemoteDeleteType ==
  ASSUME TypeOK, NEW n \in Nodes, NEW obj, RemoteDelete(n, obj)
  PROVE  /\ reg' \in SUBSET Nodes
         /\ stored' \in [Nodes -> SUBSET Objects]
         /\ faults' \in 0 .. MaxFaults
  BY MeshAssumption DEF TypeOK, MeshTypeOK, RemoteDelete, Resolve, Fault

LEMMA RepFinishType ==
  ASSUME TypeOK, NEW o \in Owners, RepFinish(o)
  PROVE  RepTypeOK'
  BY NoTaskType DEF TypeOK, RepTypeOK, RepFinish

LEMMA ReplicateType == TypeOK /\ Replicate => TypeOK'
<1> SUFFICES ASSUME TypeOK, Replicate PROVE TypeOK'
  OBVIOUS
<1> USE DEF TypeOK
<1>1. (AudTypeOK /\ RebTypeOK)'
  BY DEF Replicate, AudTypeOK, RebTypeOK
<1>2. ASSUME RepCycle PROVE (MeshTypeOK /\ RepTypeOK)'
  <2>1. media' \in [Owners -> Media]
    BY ZenonT(60), <1>2 DEF RepCycle, MeshTypeOK, UpdateMedia, Requeued, Media
  <2> QED
    BY <1>2, <2>1 DEF RepCycle, MeshTypeOK, RepTypeOK
<1>3. ASSUME RepBatch PROVE (MeshTypeOK /\ RepTypeOK)'
  <2>1. [NoTask EXCEPT !.pc = "todo"] \in RepTask /\ [NoTask EXCEPT !.pc = "todo"].pc = "todo"
    BY NoTaskType DEF RepTask
  <2>2. faults' \in 0 .. MaxFaults
    BY <1>3, FaultType DEF RepBatch
  <2> QED
    BY <1>3, <2>1, <2>2, NoTaskType DEF RepBatch, MeshTypeOK, RepTypeOK
<1>4. ASSUME NEW o \in Owners, RepMissing(o) \/ RepFail(o) PROVE (MeshTypeOK /\ RepTypeOK)'
  BY <1>4, StampedType, RepFinishType DEF RepMissing, RepFail, MeshTypeOK
<1>5. ASSUME NEW o \in Owners, NEW k \in FreshKeys, RepBegin(o, k)
      PROVE (MeshTypeOK /\ RepTypeOK)'
  <2> DEFINE t == [NoTask EXCEPT !.pc = "store", !.key = k, !.pend = Idx]
  <2>1. t \in RepTask /\ t.key \in Keys
    BY NoTaskType DEF RepTask, FreshKeys
  <2> HIDE DEF t
  <2> QED
    BY <1>5, <2>1 DEF RepBegin, MeshTypeOK, RepTypeOK, meshVars, t
<1>6. ASSUME NEW o \in Owners, RepCommit(o) PROVE (MeshTypeOK /\ RepTypeOK)'
  <2>1. RepTypeOK'
    BY <1>6, RepFinishType DEF RepCommit
  <2>2. peers' \in [Nodes -> NodeRow]
    <3>1. [db |-> "active", seen |-> 0] \in NodeRow
      BY DEF NodeRow
    <3> QED
      BY <1>6, <3>1 DEF RepCommit, MeshTypeOK
  <2>3. media' \in [Owners -> Media]
    <3>1. ASSUME NEW p \in Owners
          PROVE  [media[p] EXCEPT !.synced = TRUE, !.key = rep[o].key, !.cooling = TRUE] \in Media
      <4>1. media[p] \in Media
        BY DEF MeshTypeOK
      <4>2. rep[o].key \in Keys
        BY <1>6 DEF RepCommit, Uploaded, RepTypeOK
      <4> QED
        BY <4>1, <4>2 DEF Media
    <3> QED
      BY <1>6, <3>1 DEF RepCommit, MeshTypeOK
  <2>4. rep[o].key \in Keys
    BY <1>6 DEF RepCommit, Uploaded, RepTypeOK
  <2>5. ASSUME NEW i \in Acked(o) PROVE ShardRow(o, i) \in Row
    BY <2>4, <2>5 DEF Acked, ShardRow, Row, HasRow, MeshTypeOK, RepTypeOK, RepTask, Unchecked
  <2>6. rows' \in [Idx -> Row \cup {NoRow}]
    BY <1>6, <2>5 DEF RepCommit, MeshTypeOK
  <2> QED
    BY <1>6, <2>1, <2>2, <2>3, <2>6 DEF RepCommit, MeshTypeOK
<1>7. ASSUME NEW o \in Owners, NEW i \in Idx, RepStore(o, i) PROVE (MeshTypeOK /\ RepTypeOK)'
  <2>1. PICK n \in Nodes :
          /\ Store(n, <<rep[o].key, i>>) \/ UNCHANGED stored
          /\ \/ rep' = [rep EXCEPT ![o].pend = @ \ {i}, ![o].acked[i] = n]
             \/ rep' = [rep EXCEPT ![o].pend = @ \ {i}]
          /\ Fault("lossy") \/ UNCHANGED faults
    BY <1>7 DEF RepStore, Confirmed, Unconfirmed
  <2>2. rep[o].key \in Keys
    BY <1>7 DEF RepStore, RepTypeOK
  <2>3. stored' \in [Nodes -> SUBSET Objects]
    BY <2>1, <2>2, StoreType DEF MeshTypeOK
  <2>4. rep' \in [Owners -> RepTask]
    BY <2>1 DEF RepTypeOK, RepTask
  <2>6. ASSUME NEW p \in Owners PROVE rep'[p].pc = rep[p].pc /\ rep'[p].key = rep[p].key
    BY <2>1 DEF RepTypeOK, RepTask
  <2>5. faults' \in 0 .. MaxFaults
    BY <2>1, FaultType
  <2> QED
    BY <1>7, <2>3, <2>4, <2>5, <2>6 DEF RepStore, MeshTypeOK, RepTypeOK
<1> QED
  BY <1>1, <1>2, <1>3, <1>4, <1>5, <1>6, <1>7 DEF Replicate, RepNext

LEMMA ReleasedType ==
  ASSUME TypeOK, NEW m \in Movers, Released(m)
  PROVE  RebTypeOK'
<1>1. rebActive' \in BOOLEAN
  BY Zenon DEF Released
<1> QED
  BY <1>1, NoCycleType DEF TypeOK, RebTypeOK, Released

LEMMA AdvanceType ==
  ASSUME TypeOK, NEW m \in Movers, NEW i \in Idx, Advance(m, i, "move"), UNCHANGED rebActive
  PROVE  RebTypeOK'
  BY ZenonT(60) DEF TypeOK, RebTypeOK, Advance, Cycle

\* The row a cycle is at.
LEMMA AtType ==
  ASSUME TypeOK, NEW m \in Movers, NEW i \in Idx, At(m, i)
  PROVE  reb[m].snap[i] \in Row
  BY DEF TypeOK, RebTypeOK, At, Cycle

LEMMA MoveType == TypeOK /\ Move => TypeOK'
<1> SUFFICES ASSUME TypeOK, Move PROVE TypeOK'
  OBVIOUS
<1> USE DEF TypeOK
<1>1. (RepTypeOK /\ AudTypeOK)'
  BY DEF Move, RepTypeOK, AudTypeOK
<1>2. ASSUME NEW m \in Movers, RebStart(m) PROVE (MeshTypeOK /\ RebTypeOK)'
  <2> DEFINE found == {n \in Nodes : PeersRegistered[n].db = "active" /\ PeersRegistered[n].seen = 0}
             cycle == [NoCycle EXCEPT !.pc = "load", !.nodes = found]
  <2>1. peers' \in [Nodes -> NodeRow]
    BY <1>2 DEF RebStart, RebSync, PeersRegistered, MeshTypeOK, NodeRow
  <2>2. cycle \in Cycle
    BY NoCycleType DEF Cycle
  <2>3. reb' \in [Movers -> Cycle]
    <3> HIDE DEF cycle
    <3>1. reb' = reb \/ reb' = [reb EXCEPT ![m] = cycle]
      BY <1>2 DEF RebStart, RebSync, cycle
    <3> QED
      BY <2>2, <3>1 DEF RebTypeOK
  <2>4. rebActive' \in BOOLEAN
    BY <1>2, Zenon DEF RebStart, RebSync
  <2>5. reg' \in SUBSET Nodes
    BY <1>2 DEF RebStart, RebSync, MeshTypeOK
  <2> QED
    BY <1>2, <2>1, <2>3, <2>4, <2>5 DEF RebStart, RebSync, MeshTypeOK, RebTypeOK
<1>3. ASSUME NEW m \in Movers, RebLoad(m) PROVE (MeshTypeOK /\ RebTypeOK)'
  <2>1. CASE Released(m)
    BY <1>3, <2>1, ReleasedType DEF RebLoad, MeshTypeOK, meshVars
  <2>2. CASE reb' = [reb EXCEPT ![m].pc = "move", ![m].snap = rows] /\ UNCHANGED rebActive
    BY ZenonT(60), <1>3, <2>2 DEF RebLoad, MeshTypeOK, meshVars, RebTypeOK, Cycle
  <2> QED
    BY <1>3, <2>1, <2>2 DEF RebLoad
<1>4. ASSUME NEW m \in Movers, RebDone(m) PROVE (MeshTypeOK /\ RebTypeOK)'
  <2>1. rows' \in [Idx -> Row \cup {NoRow}]
    BY <1>4 DEF RebDone, MeshTypeOK, HasRow, Row
  <2> QED
    BY <1>4, <2>1, ReleasedType DEF RebDone, MeshTypeOK
<1>5. ASSUME NEW m \in Movers, NEW i \in Idx, RebSkip(m, i) PROVE (MeshTypeOK /\ RebTypeOK)'
  BY <1>5, AdvanceType DEF RebSkip, MeshTypeOK, meshVars
<1>6. ASSUME NEW m \in Movers, NEW i \in Idx, RebMove(m, i) PROVE (MeshTypeOK /\ RebTypeOK)'
  <2> DEFINE r == reb[m].snap[i]
  <2>1. r.node \in Nodes /\ r.key \in Keys
    BY <1>6, AtType DEF RebMove, Row
  <2>2. PICK n \in Nodes :
          /\ UNCHANGED reg \/ Resolve(r.node)
          /\ Store(n, <<r.key, i>>) \/ UNCHANGED stored
          /\ reb' = [reb EXCEPT ![m].pc = "row"] \/ Advance(m, i, "move")
          /\ Fault("lossy") \/ UNCHANGED faults
    BY <1>6 DEF RebMove, Confirmed, Unconfirmed
  <2>3. stored' \in [Nodes -> SUBSET Objects]
    BY <2>1, <2>2, StoreType DEF MeshTypeOK
  <2>4. faults' \in 0 .. MaxFaults
    BY <2>2, FaultType
  <2>5. reg' \in SUBSET Nodes
    BY <2>1, <2>2 DEF Resolve, MeshTypeOK
  <2>6. RebTypeOK'
    <3>1. CASE reb' = [reb EXCEPT ![m].pc = "row"]
      BY <1>6, <3>1 DEF RebMove, RebTypeOK, Cycle
    <3>2. CASE Advance(m, i, "move")
      BY <1>6, <3>2, AdvanceType DEF RebMove
    <3> QED
      BY <2>2, <3>1, <3>2
  <2> QED
    BY <1>6, <2>3, <2>4, <2>5, <2>6 DEF RebMove, MeshTypeOK
<1>7. ASSUME NEW m \in Movers, NEW i \in Idx, RebRow(m, i) PROVE (MeshTypeOK /\ RebTypeOK)'
  <2> DEFINE r == reb[m].snap[i]
  <2>1. r.key \in Keys
    BY <1>7, AtType DEF RebRow, Row
  <2>2. PICK n \in Nodes :
          \/ Released(m) /\ UNCHANGED rows
          \/ /\ rows' = [rows EXCEPT ![i] = IF @ = NoRow THEN @
                            ELSE [@ EXCEPT !.node = n, !.key = r.key]]
             /\ reb' = [reb EXCEPT ![m].pc = "del"]
             /\ UNCHANGED rebActive
    BY <1>7 DEF RebRow
  <2>3. rows' \in [Idx -> Row \cup {NoRow}]
    <3>1. rows[i] # NoRow => [rows[i] EXCEPT !.node = n, !.key = r.key] \in Row
      <4> HIDE DEF r
      <4> QED
        BY <2>1 DEF MeshTypeOK, Row
    <3> QED
      BY <2>2, <3>1 DEF MeshTypeOK
  <2>4. RebTypeOK'
    <3>1. CASE Released(m)
      BY <3>1, ReleasedType
    <3>2. CASE reb' = [reb EXCEPT ![m].pc = "del"] /\ UNCHANGED rebActive
      BY <3>2 DEF RebTypeOK, Cycle
    <3> QED
      BY <2>2, <3>1, <3>2
  <2> QED
    BY <1>7, <2>3, <2>4 DEF RebRow, MeshTypeOK
<1>8. ASSUME NEW m \in Movers, NEW i \in Idx, RebDel(m, i) PROVE (MeshTypeOK /\ RebTypeOK)'
  <2>1. reb[m].snap[i].node \in Nodes
    BY <1>8, AtType DEF RebDel, Row
  <2> QED
    BY <1>8, <2>1, RemoteDeleteType, AdvanceType DEF RebDel, MeshTypeOK
<1> QED
  BY <1>1, <1>2, <1>3, <1>4, <1>5, <1>6, <1>7, <1>8 DEF Move, RebNext

LEMMA CrashType == TypeOK /\ Crash => TypeOK'
<1> SUFFICES ASSUME TypeOK, Crash PROVE TypeOK'
  OBVIOUS
<1>1. swept' \in BOOLEAN /\ rebActive' \in BOOLEAN
  BY Zenon DEF Crash
<1>2. faults' \in 0 .. MaxFaults
  BY FaultType DEF Crash
<1> QED
  BY <1>1, <1>2, NoTaskType, NoAuditType, NoCycleType
  DEF Crash, TypeOK, MeshTypeOK, RepTypeOK, AudTypeOK, RebTypeOK

\* Going on after shard i keeps what AudTypeOK says of the rows still to do.
LEMMA DealtType ==
  ASSUME TypeOK, NEW i \in Idx, Dealt(i)
  PROVE  AudTypeOK'
<1>1. CASE aud' = NoAudit
  BY <1>1, NoAuditType DEF AudTypeOK
<1>2. CASE aud' = [aud EXCEPT !.pc = IF aud.full THEN "fix" ELSE "check", !.todo = @ \ {i},
                              !.snap[i] = NoRow,
                              !.idx = 0, !.target = NoNode, !.key = NoKey, !.update = FALSE]
  <2>1. aud' \in AuditState
    BY ZenonT(60), <1>2, IdxFacts DEF TypeOK, AudTypeOK, AuditState
  <2>2. /\ aud'.pc = IF aud.full THEN "fix" ELSE "check"
        /\ aud'.full = aud.full
        /\ aud'.todo = aud.todo \ {i}
        /\ \A j \in Idx \ {i} : aud'.snap[j] = aud.snap[j]
    BY <1>2 DEF TypeOK, AudTypeOK, AuditState
  <2>3. aud.todo \subseteq Idx
    BY DEF TypeOK, AudTypeOK, AuditState
  <2> QED
    BY <2>1, <2>2, <2>3 DEF TypeOK, AudTypeOK
<1> QED
  BY <1>1, <1>2 DEF Dealt

LEMMA PrefixType ==
  ASSUME TypeOK, NEW p \in Nat, Prefix(p)
  PROVE  AudTypeOK'
<1>1. p % Prefixes \in 0 .. Prefixes - 1
  BY PrefixAssumption
<1>2. aud' \in AuditState
  BY ZenonT(60), <1>1 DEF Prefix, TypeOK, AudTypeOK, AuditState
<1>3. aud'.pc = "sweep" /\ aud'.full = aud.full /\ aud'.todo = aud.todo /\ aud'.snap = aud.snap
  BY DEF Prefix, TypeOK, AudTypeOK, AuditState
<1> QED
  BY <1>2, <1>3 DEF TypeOK, AudTypeOK

LEMMA OrphanedType == TypeOK => Orphaned \subseteq Nodes \X Objects
  BY DEF TypeOK, MeshTypeOK, Orphaned, RowIdx, HasRow, Objects, Row

LEMMA RepairType ==
  ASSUME TypeOK, NEW i \in Idx, Repair(i)
  PROVE  (MeshTypeOK /\ AudTypeOK)'
<1> USE DEF TypeOK
<1>1. reg' \in SUBSET Nodes
  BY DEF Repair, RepairNodes, Active, MeshTypeOK
<1>2. CASE Dealt(i) /\ UNCHANGED <<stored, faults>>
  BY <1>1, <1>2, DealtType DEF Repair, MeshTypeOK
<1>3. ASSUME NEW n \in Nodes, NEW k \in InfoKeys, NEW key \in Sources(k, n, i),
             Store(n, <<key, i>>) \/ UNCHANGED stored,
             \/ /\ aud' = [aud EXCEPT !.pc = "row", !.idx = i, !.target = n,
                                      !.key = key, !.update = (k = NoKey)]
                /\ UNCHANGED faults
             \/ Fault("lossy") /\ Dealt(i)
      PROVE  (MeshTypeOK /\ AudTypeOK)'
  <2>1. key \in Keys
    <3>1. k \in Keys \cup {NoKey}
      BY DEF InfoKeys, MeshTypeOK, Media
    <3> QED
      BY <3>1 DEF Sources
  <2>2. stored' \in [Nodes -> SUBSET Objects]
    BY <1>3, <2>1, StoreType DEF MeshTypeOK
  <2>3. faults' \in 0 .. MaxFaults
    BY <1>3, FaultType
  <2>4. MeshTypeOK'
    BY <1>1, <2>2, <2>3 DEF Repair, MeshTypeOK
  <2>5. CASE aud' = [aud EXCEPT !.pc = "row", !.idx = i, !.target = n,
                                !.key = key, !.update = (k = NoKey)]
    <3>1. aud' \in AuditState
      BY ZenonT(60), <2>1, <2>5 DEF AudTypeOK, AuditState
    <3>2. /\ aud'.pc = "row" /\ aud'.target = n /\ aud'.key = key
          /\ aud'.full = aud.full /\ aud'.todo = aud.todo /\ aud'.snap = aud.snap
      BY <2>5 DEF AudTypeOK, AuditState
    <3> QED
      BY <2>1, <2>4, <3>1, <3>2 DEF AudTypeOK
  <2>6. CASE Dealt(i)
    BY <2>4, <2>6, DealtType
  <2> QED
    BY <1>3, <2>5, <2>6
<1> QED
  BY <1>2, <1>3 DEF Repair

LEMMA AuditType == TypeOK /\ AuditStep => TypeOK'
<1> SUFFICES ASSUME TypeOK, AuditStep PROVE TypeOK'
  OBVIOUS
<1> USE DEF TypeOK
<1>1. (RepTypeOK /\ RebTypeOK)'
  BY DEF AuditStep, RepTypeOK, RebTypeOK
\* What the loops around aud keep.
<1> DEFINE Kept == aud'.full = aud.full /\ aud'.todo = aud.todo /\ aud'.snap = aud.snap
<1>2. ASSUME aud' \in AuditState, Kept, aud'.pc \notin {"row", "check", "cons", "fix"}
      PROVE  AudTypeOK'
  BY <1>2 DEF AudTypeOK
<1> HIDE DEF Kept
<1>3. ASSUME AudStart PROVE (MeshTypeOK /\ AudTypeOK)'
  <2>1. aud' \in AuditState
    BY <1>3, NoAuditType, OrphanedType DEF AudStart, AuditState
  <2>2. aud'.pc = "purge" /\ aud'.todo = {}
    BY <1>3, NoAuditType DEF AudStart, AuditState
  <2> QED
    BY <1>3, <2>1, <2>2 DEF AudStart, MeshTypeOK, AudTypeOK, Active
<1>4. ASSUME AudPurge PROVE (MeshTypeOK /\ AudTypeOK)'
  <2>1. PICK x \in aud.work : RemoteDelete(x[1], x[2]) /\ aud' = [aud EXCEPT !.work = @ \ {x}]
    BY <1>4 DEF AudPurge
  <2>2. x[1] \in Nodes
    BY DEF AudTypeOK, AuditState
  <2>3. aud' \in AuditState /\ Kept /\ aud'.pc = "purge"
    BY <1>4, <2>1 DEF AudPurge, AudTypeOK, AuditState, Kept
  <2> QED
    BY <1>2, <1>4, <2>1, <2>2, <2>3, RemoteDeleteType DEF AudPurge, MeshTypeOK
<1>5. ASSUME AudPurgeRows PROVE (MeshTypeOK /\ AudTypeOK)'
  <2>1. aud' \in AuditState /\ Kept /\ aud'.pc \in {"sweep", "scan"}
    <3>1. CASE aud' = [aud EXCEPT !.pc = "sweep", !.nodes = Active]
      BY ZenonT(60), <3>1 DEF AudTypeOK, AuditState, Kept, Active
    <3>2. CASE aud' = [aud EXCEPT !.pc = "scan"]
      BY <3>2 DEF AudTypeOK, AuditState, Kept
    <3> QED
      BY <1>5, <3>1, <3>2 DEF AudPurgeRows
  <2>2. swept' \in BOOLEAN
    <3>1. swept' = (aud.full => swept)
      BY <1>5 DEF AudPurgeRows
    <3>2. (aud.full => swept) \in BOOLEAN
      BY Zenon
    <3> QED
      BY <3>1, <3>2, Zenon
  <2> QED
    BY <1>2, <1>5, <2>1, <2>2 DEF AudPurgeRows, MeshTypeOK
<1>6. ASSUME AudSweepNode PROVE (MeshTypeOK /\ AudTypeOK)'
  <2>1. ASSUME NEW n \in aud.nodes, NEW m \in {n, NoNode},
               Resolve(n) \/ UNCHANGED reg,
               aud' = [aud EXCEPT !.nodes = @ \ {n}, !.prefix = 0, !.node = m]
        PROVE  (MeshTypeOK /\ AudTypeOK)'
    <3>1. n \in Nodes
      BY DEF AudTypeOK, AuditState
    <3>2. reg' \in SUBSET Nodes
      BY <2>1, <3>1 DEF Resolve, MeshTypeOK
    <3>3. 0 \in 0 .. Prefixes - 1
      BY PrefixAssumption
    <3>4. aud' \in AuditState
      BY ZenonT(60), <2>1, <3>1, <3>3 DEF AudTypeOK, AuditState
    <3>5. Kept /\ aud'.pc = "sweep"
      BY <1>6, <2>1 DEF AudSweepNode, AudTypeOK, AuditState, Kept
    <3> QED
      BY <1>2, <1>6, <3>2, <3>4, <3>5 DEF AudSweepNode, MeshTypeOK
  <2>2. ASSUME aud' = [aud EXCEPT !.pc = IF aud.full THEN "cons" ELSE "scan"], UNCHANGED reg
        PROVE  (MeshTypeOK /\ AudTypeOK)'
    <3>1. CASE aud.full
      <4>1. aud' = [aud EXCEPT !.pc = "cons"]
        BY <2>2, <3>1
      <4>2. aud' \in AuditState /\ Kept /\ aud'.pc = "cons"
        BY <4>1 DEF AudTypeOK, AuditState, Kept
      <4> QED
        BY <1>6, <2>2, <3>1, <4>2 DEF AudSweepNode, MeshTypeOK, AudTypeOK, Kept
    <3>2. CASE ~aud.full
      <4>1. aud' = [aud EXCEPT !.pc = "scan"]
        BY <2>2, <3>2
      <4>2. aud' \in AuditState /\ Kept /\ aud'.pc = "scan"
        BY <4>1 DEF AudTypeOK, AuditState, Kept
      <4> QED
        BY <1>2, <1>6, <2>2, <4>2 DEF AudSweepNode, MeshTypeOK
    <3> QED
      BY <3>1, <3>2
  <2> QED
    BY <1>6, <2>1, <2>2 DEF AudSweepNode
<1>7. aud.prefix + 1 \in Nat
  BY PrefixAssumption DEF AudTypeOK, AuditState
<1>8. ASSUME AudSweepList PROVE (MeshTypeOK /\ AudTypeOK)'
  <2>1. faults' \in 0 .. MaxFaults
    BY <1>8, FaultType DEF AudSweepList
  <2>2. MeshTypeOK'
    BY <1>8, <2>1 DEF AudSweepList, MeshTypeOK
  <2>3. CASE Prefix(aud.prefix + 1)
    BY <1>7, <2>2, <2>3, PrefixType
  <2>4. CASE aud' = [aud EXCEPT !.pc = "query", !.work = {aud.node} \X Listed]
    <3>1. {aud.node} \X Listed \subseteq Nodes \X Objects
      BY <1>8 DEF AudSweepList, Listed, MeshTypeOK, AudTypeOK, AuditState
    <3>2. aud' \in AuditState /\ Kept /\ aud'.pc = "query"
      BY ZenonT(60), <2>4, <3>1 DEF AudTypeOK, AuditState, Kept
    <3> QED
      BY <1>2, <2>2, <3>2
  <2> QED
    BY <1>8, <2>3, <2>4 DEF AudSweepList
<1>9. ASSUME AudSweepQuery PROVE (MeshTypeOK /\ AudTypeOK)'
  <2>1. aud' \in AuditState /\ Kept /\ aud'.pc = "prune"
    BY <1>9 DEF AudSweepQuery, AudTypeOK, AuditState, Kept
  <2> QED
    BY <1>2, <1>9, <2>1 DEF AudSweepQuery, MeshTypeOK, meshVars
<1>10. ASSUME AudSweepDelete PROVE (MeshTypeOK /\ AudTypeOK)'
  <2>1. CASE Prefix(aud.prefix + 1) /\ UNCHANGED <<reg, stored, faults>>
    BY <1>7, <1>10, <2>1, PrefixType DEF AudSweepDelete, MeshTypeOK
  <2>2. ASSUME NEW x \in aud.work,
               RemoteDelete(x[1], x[2]) \/ UNCHANGED <<reg, stored, faults>>,
               aud' = [aud EXCEPT !.work = @ \ {x}]
        PROVE  (MeshTypeOK /\ AudTypeOK)'
    <3>1. x[1] \in Nodes
      BY DEF AudTypeOK, AuditState
    <3>2. aud' \in AuditState /\ Kept /\ aud'.pc = "prune"
      BY <1>10, <2>2 DEF AudSweepDelete, AudTypeOK, AuditState, Kept
    <3>3. reg' \in SUBSET Nodes /\ stored' \in [Nodes -> SUBSET Objects] /\ faults' \in 0 .. MaxFaults
      BY <2>2, <3>1, RemoteDeleteType DEF MeshTypeOK
    <3> QED
      BY <1>2, <1>10, <3>2, <3>3 DEF AudSweepDelete, MeshTypeOK
  <2> QED
    BY <1>10, <2>1, <2>2 DEF AudSweepDelete
<1>11. ASSUME AudScan PROVE (MeshTypeOK /\ AudTypeOK)'
  <2>1. MeshTypeOK'
    BY <1>11 DEF AudScan, MeshTypeOK, Active
  <2>2. CASE aud' = [NoAudit EXCEPT !.pc = "purge", !.full = TRUE, !.work = Orphaned]
    <3>1. aud' \in AuditState /\ aud'.pc = "purge" /\ aud'.todo = {}
      BY <2>2, NoAuditType, OrphanedType DEF AuditState
    <3> QED
      BY <2>1, <3>1 DEF AudTypeOK
  <2>3. CASE aud' = [NoAudit EXCEPT !.pc = "check", !.todo = DueRows,
                        !.snap = [i \in Idx |-> IF i \in DueRows THEN rows[i] ELSE NoRow]]
    <3>1. aud' \in AuditState
      BY <2>3, NoAuditType DEF AuditState, DueRows, RowIdx, MeshTypeOK
    <3>2. /\ aud'.pc = "check" /\ ~aud'.full
          /\ \A i \in aud'.todo : aud'.snap[i] # NoRow
      BY <2>3 DEF NoAudit, DueRows, RowIdx, HasRow
    <3> QED
      BY <2>1, <3>1, <3>2 DEF AudTypeOK
  <2> QED
    BY <1>11, <2>2, <2>3 DEF AudScan
<1>12. ASSUME NEW i \in Idx, AudCheck(i) PROVE (MeshTypeOK /\ AudTypeOK)'
  <2> DEFINE r == aud.snap[i]
  <2>1. r \in Row
    BY <1>12 DEF AudCheck, AudTypeOK, AuditState
  <2>2. r.node \in Nodes
    BY <2>1 DEF Row
  <2>3. /\ UNCHANGED reg \/ Resolve(r.node)
        /\ Fault("lossy") \/ UNCHANGED faults
        /\ \/ UNCHANGED rows
           \/ rows' = [rows EXCEPT ![i] = IF @ = NoRow THEN @ ELSE [@ EXCEPT !.age = 0]]
        /\ Dealt(i) \/ aud' = [aud EXCEPT !.pc = "repair", !.idx = i]
    BY <1>12 DEF AudCheck
  <2> HIDE DEF r
  <2>4. reg' \in SUBSET Nodes
    BY <2>2, <2>3 DEF Resolve, MeshTypeOK
  <2>5. faults' \in 0 .. MaxFaults
    BY <2>3, FaultType
  <2>6. rows' \in [Idx -> Row \cup {NoRow}]
    BY <2>3 DEF MeshTypeOK, Row
  <2>7. AudTypeOK'
    <3>1. CASE Dealt(i)
      BY <3>1, DealtType
    <3>2. CASE aud' = [aud EXCEPT !.pc = "repair", !.idx = i]
      <4>1. aud' \in AuditState /\ Kept /\ aud'.pc = "repair"
        BY <3>2 DEF AudTypeOK, AuditState, Kept
      <4> QED
        BY <1>2, <4>1
    <3> QED
      BY <2>3, <3>1, <3>2
  <2> QED
    BY <1>12, <2>4, <2>5, <2>6, <2>7 DEF AudCheck, MeshTypeOK
<1>13. ASSUME AudRepair PROVE (MeshTypeOK /\ AudTypeOK)'
  <2>1. aud.idx \in Idx
    BY DEF AudTypeOK, AuditState
  <2> QED
    BY <1>13, <2>1, RepairType DEF AudRepair
<1>14. ASSUME AudRow PROVE (MeshTypeOK /\ AudTypeOK)'
  <2>1. aud.idx \in Idx
    BY DEF AudTypeOK, AuditState
  <2>2. [node |-> aud.target, key |-> aud.key, age |-> 0] \in Row
    BY <1>14 DEF AudRow, AudTypeOK, Row
  <2>3. rows' \in [Idx -> Row \cup {NoRow}]
    BY <1>14, <2>1, <2>2 DEF AudRow, MeshTypeOK
  <2> QED
    BY <1>14, <2>1, <2>3, DealtType DEF AudRow, MeshTypeOK
<1>15. ASSUME AudCons PROVE (MeshTypeOK /\ AudTypeOK)'
  <2>1. media' \in [Owners -> Media]
    <3>1. CASE UpdateMedia(Unsynced)
      BY ZenonT(60), <3>1 DEF UpdateMedia, Unsynced, MeshTypeOK, Media
    <3> QED
      BY <1>15, <3>1 DEF AudCons, MeshTypeOK
  <2>2. CASE aud' = NoAudit
    BY <1>15, <2>1, <2>2, NoAuditType DEF AudCons, MeshTypeOK, AudTypeOK
  <2>3. CASE aud' = [aud EXCEPT !.pc = "fix", !.todo = Idx]
    <3>1. aud' \in AuditState /\ aud'.pc = "fix" /\ aud'.full = aud.full
      BY <2>3 DEF AudTypeOK, AuditState
    <3> QED
      BY <1>15, <2>1, <3>1 DEF AudCons, MeshTypeOK, AudTypeOK
  <2> QED
    BY <1>15, <2>2, <2>3 DEF AudCons
<1>16. ASSUME NEW i \in Idx, AudFix(i) PROVE (MeshTypeOK /\ AudTypeOK)'
  BY <1>16, RepairType DEF AudFix
<1> QED
  BY <1>1, <1>3, <1>4, <1>5, <1>6, <1>8, <1>9, <1>10, <1>11, <1>12, <1>13, <1>14, <1>15, <1>16
  DEF AuditStep, AudNext

\* Every variable keeps its type, whatever the workers, the users and the faults do.
THEOREM TypeCorrect == Spec => []TypeOK
<1>1. TypeOK /\ UNCHANGED vars => TypeOK'
  BY DEF vars, TypeOK, MeshTypeOK, RepTypeOK, AudTypeOK, RebTypeOK
<1>2. TypeOK /\ [Next]_vars => TypeOK'
  BY <1>1, ReplicateType, AuditType, MoveType, WorldType, CrashType DEF Next
<1> QED
  BY <1>2, InitType, PTL DEF Spec

-----------------------------------------------------------------------------
(* Mutual exclusion of rebalance cycles *)

\* Whoever is in a cycle has claimed the flag, and nobody else is in one.
MutexInv ==
    /\ \A m \in Movers : reb[m].pc # "idle" => rebActive
    /\ RebalanceMutex

LEMMA MutexStep == TypeOK /\ MutexInv /\ [Next]_vars => MutexInv'
<1> SUFFICES ASSUME TypeOK, MutexInv, [Next]_vars PROVE MutexInv'
  OBVIOUS
<1> USE DEF MutexInv, RebalanceMutex
<1>1. CASE UNCHANGED <<rebActive, reb>>
  BY <1>1
<1>2. CASE Crash
  BY <1>2 DEF Crash, NoCycle
<1>3. CASE Move
  <2>1. ASSUME NEW m \in Movers, Released(m), reb[m].pc # "idle" PROVE MutexInv'
    BY <2>1 DEF Released, NoCycle, TypeOK, RebTypeOK
  <2>2. ASSUME NEW m \in Movers, reb[m].pc # "idle", UNCHANGED rebActive,
               \A p \in Movers \ {m} : reb'[p] = reb[p]
        PROVE  MutexInv'
    BY <2>2
  <2>3. ASSUME NEW m \in Movers, RebStart(m) PROVE MutexInv'
    <3>1. \A p \in Movers : reb[p].pc = "idle"
      BY <2>3 DEF RebStart
    <3>2. \A p \in Movers \ {m} : reb'[p] = reb[p]
      BY <2>3 DEF RebStart, RebSync, TypeOK, RebTypeOK
    <3>3. reb' = reb \/ rebActive'
      BY ZenonT(60), <2>3 DEF RebStart, RebSync
    <3> QED
      BY <3>1, <3>2, <3>3
  <2>4. ASSUME NEW m \in Movers, RebLoad(m) PROVE MutexInv'
    BY <2>1, <2>2, <2>4 DEF RebLoad, TypeOK, RebTypeOK
  <2>5. ASSUME NEW m \in Movers, RebDone(m) PROVE MutexInv'
    BY <2>1, <2>5 DEF RebDone
  <2>6. ASSUME NEW m \in Movers, NEW i \in Idx,
               RebSkip(m, i) \/ RebMove(m, i) \/ RebRow(m, i) \/ RebDel(m, i)
        PROVE  MutexInv'
    <3>1. reb[m].pc # "idle"
      BY <2>6 DEF RebSkip, RebMove, RebRow, RebDel
    <3>2. \/ Released(m)
          \/ UNCHANGED rebActive /\ \A p \in Movers \ {m} : reb'[p] = reb[p]
      <4>0. reb \in [Movers -> Cycle]
        BY DEF TypeOK, RebTypeOK
      <4>1. CASE RebSkip(m, i)
        BY <4>0, <4>1 DEF RebSkip, Advance
      <4>2. CASE RebMove(m, i)
        BY <4>0, <4>2 DEF RebMove, Advance
      <4>3. CASE RebRow(m, i)
        BY <4>0, <4>3 DEF RebRow, Advance
      <4>4. CASE RebDel(m, i)
        BY <4>0, <4>4 DEF RebDel, Advance
      <4> QED
        BY <2>6, <4>1, <4>2, <4>3, <4>4
    <3>3. CASE Released(m)
      BY <2>1, <3>1, <3>3
    <3>4. CASE UNCHANGED rebActive /\ \A p \in Movers \ {m} : reb'[p] = reb[p]
      BY <2>2, <3>1, <3>4
    <3> HIDE DEF MutexInv, RebalanceMutex
    <3> QED
      BY <3>2, <3>3, <3>4
  <2> QED
    BY <1>3, <2>3, <2>4, <2>5, <2>6 DEF Move, RebNext
<1> QED
  BY <1>1, <1>2, <1>3 DEF Next, vars, Replicate, AuditStep, World

LEMMA MutexHolds == Spec => []MutexInv
<1>1. Init => MutexInv
  BY DEF Init, RebInit, NoCycle, MutexInv, RebalanceMutex
<1> QED
  BY <1>1, MutexStep, TypeCorrect, PTL DEF Spec

\* The worker and any number of admin-triggered sweeps never migrate at once,
\* whichever way their cycles end.
THEOREM MutualExclusion == Spec => []RebalanceMutex
  BY MutexHolds, PTL DEF MutexInv

-----------------------------------------------------------------------------
(* No dangling rows, without the audit worker *)

\* A task that holds confirmations is the one uploading, and its key is nobody
\* else's: no row, no row being migrated and no other task has it.
KeysApart ==
    \A o \in Owners :
        /\ \A i \in Idx : rep[o].acked[i] # NoNode => rep[o].pc = "store"
        /\ rep[o].pc = "store" =>
            /\ \A i \in RowIdx : rows[i].key # rep[o].key
            /\ \A m \in Movers, i \in Idx :
                  reb[m].snap[i] # NoRow => reb[m].snap[i].key # rep[o].key
            /\ \A p \in Owners \ {o} : rep[p].pc = "store" => rep[p].key # rep[o].key

\* Before the row is written the new node has the shard; before the old copy is
\* deleted the row has left it.
Migrating ==
    \A m \in Movers, i \in Idx : At(m, i) =>
        /\ reb[m].pc = "row" =>
              \A n \in Nodes : IsTarget(n, reb[m].nodes, i) =>
                  n # reb[m].snap[i].node /\ <<reb[m].snap[i].key, i>> \in stored[n]
        /\ reb[m].pc = "del" =>
              ~ (HasRow(i) /\ rows[i].node = reb[m].snap[i].node
                           /\ rows[i].key = reb[m].snap[i].key)

AllBacked == \A i \in RowIdx : Backed(i)

\* The inductive invariant.
DataInv ==
    /\ aud.pc = "idle"
    /\ AllBacked
    /\ AckedShardKept
    /\ KeysApart
    /\ Migrating

\* rendezvous_select gives every shard one node: scores differ, so two nodes never
\* have the same rank.
LEMMA TargetUnique ==
  ASSUME NEW S \in SUBSET Nodes, NEW i, NEW n, NEW p, IsTarget(n, S, i), IsTarget(p, S, i)
  PROVE  n = p
<1> DEFINE Higher(m) == {q \in S : Score[q] > Score[m]}
<1>1. n \in S /\ p \in S /\ Cardinality(Higher(n)) = Cardinality(Higher(p))
  BY DEF IsTarget
<1>2. ASSUME NEW x \in S, NEW y \in S, Score[x] > Score[y]
      PROVE  Cardinality(Higher(x)) # Cardinality(Higher(y))
  <2>1. \A q \in S : Score[q] \in Int
    BY ScoreAssumption
  <2>2. Higher(x) \in SUBSET Higher(y) /\ x \in Higher(y) /\ x \notin Higher(x)
    BY <1>2, <2>1
  <2>3. IsFiniteSet(Higher(y))
    BY FS_Subset, MeshAssumption
  <2> HIDE DEF Higher
  <2> QED
    BY <2>2, <2>3, FS_Subset
<1>3. ~(Score[n] > Score[p]) /\ ~(Score[p] > Score[n])
  BY <1>1, <1>2
<1> QED
  BY <1>1, <1>3, ScoreAssumption

\* The loop is at one shard.
LEMMA AtUnique ==
  ASSUME NEW m, NEW i \in Idx, NEW j \in Idx, At(m, i), At(m, j)
  PROVE  i = j
  BY IdxFacts DEF At

\* A step that adds shards and takes rows away or changes their age.
Frame ==
    /\ aud'.pc = "idle"
    /\ \A n \in Nodes : stored[n] \subseteq stored'[n]
    /\ \A i \in Idx : rows'[i] # NoRow => /\ rows[i] # NoRow
                                          /\ rows'[i].node = rows[i].node
                                          /\ rows'[i].key = rows[i].key

LEMMA FrameBacked ==
  ASSUME TypeOK, AllBacked, Frame
  PROVE  AllBacked'
<1> SUFFICES ASSUME NEW i \in RowIdx' PROVE Backed(i)'
  BY DEF AllBacked
<1>1. i \in Idx /\ rows[i] \in Row /\ rows'[i].node = rows[i].node /\ rows'[i].key = rows[i].key
  BY DEF RowIdx, HasRow, Frame, TypeOK, MeshTypeOK
<1>2. <<rows[i].key, i>> \in stored[rows[i].node] /\ rows[i].node \in Nodes
  BY <1>1 DEF AllBacked, Backed, RowIdx, HasRow, Frame, Row
<1> QED
  BY <1>1, <1>2 DEF Frame, Backed

LEMMA FrameAcked ==
  ASSUME TypeOK, AckedShardKept, Frame, UNCHANGED rep
  PROVE  AckedShardKept'
  BY DEF AckedShardKept, Frame, TypeOK, RepTypeOK, RepTask

LEMMA FrameKeys ==
  ASSUME KeysApart, Frame, UNCHANGED rep,
         \A m \in Movers, i \in Idx :
            reb'[m].snap[i] # NoRow => \/ reb'[m].snap[i] = reb[m].snap[i]
                                       \/ reb'[m].snap[i] = rows[i]
  PROVE  KeysApart'
<1> SUFFICES ASSUME NEW o \in Owners, rep[o].pc = "store" PROVE
        /\ \A i \in RowIdx' : rows'[i].key # rep[o].key
        /\ \A m \in Movers, i \in Idx :
              reb'[m].snap[i] # NoRow => reb'[m].snap[i].key # rep[o].key
  BY DEF KeysApart
<1>1. \A i \in RowIdx' : rows'[i].key # rep[o].key
  BY DEF KeysApart, Frame, RowIdx, HasRow
<1>2. ASSUME NEW m \in Movers, NEW i \in Idx, reb'[m].snap[i] # NoRow
      PROVE  reb'[m].snap[i].key # rep[o].key
  BY <1>2 DEF KeysApart, RowIdx, HasRow
<1> QED
  BY <1>1, <1>2

LEMMA FrameMigrating ==
  ASSUME Migrating, Frame, UNCHANGED reb
  PROVE  Migrating'
<1> SUFFICES ASSUME NEW m \in Movers, NEW i \in Idx, At(m, i)
             PROVE  /\ reb[m].pc = "row" =>
                         \A n \in Nodes : IsTarget(n, reb[m].nodes, i) =>
                            n # reb[m].snap[i].node /\ <<reb[m].snap[i].key, i>> \in stored'[n]
                    /\ reb[m].pc = "del" =>
                         ~ (HasRow(i)' /\ rows'[i].node = reb[m].snap[i].node
                                       /\ rows'[i].key = reb[m].snap[i].key)
  BY DEF Migrating, At, IsTarget
<1> QED
  BY DEF Migrating, Frame, HasRow

LEMMA FrameData ==
  ASSUME TypeOK, DataInv, Frame, UNCHANGED <<rep, reb>>
  PROVE  DataInv'
  BY FrameBacked, FrameAcked, FrameKeys, FrameMigrating DEF DataInv, Frame

\* The audit worker does not run, and storage nodes keep what they have stored.
Unaudited == "audit" \notin Workers /\ "diskloss" \notin Env

LEMMA InitData == Init => DataInv
<1> SUFFICES ASSUME Init PROVE DataInv
  OBVIOUS
<1>1. aud.pc = "idle"
  BY NoAuditType DEF Init, AudInit
<1>2. AllBacked
  <2>1. CASE EmptyLibrary
    BY <2>1 DEF EmptyLibrary, AllBacked, RowIdx, HasRow
  <2>2. CASE BackedUpLibrary
    <3>1. PICK k \in Keys, place \in [Idx -> Nodes] :
            /\ rows = [i \in Idx |-> [node |-> place[i], key |-> k, age |-> 1]]
            /\ stored = [n \in Nodes |-> {<<k, i>> : i \in {j \in Idx : place[j] = n}}]
      BY <2>2 DEF BackedUpLibrary
    <3> QED
      BY <3>1 DEF AllBacked, Backed, RowIdx
  <2> QED
    BY <2>1, <2>2 DEF Init, MeshInit
<1>3. \A o \in Owners : rep[o].pc = "idle" /\ \A i \in Idx : rep[o].acked[i] = NoNode
  BY DEF Init, RepInit, NoTask
<1>4. \A m \in Movers : reb[m].pc = "idle"
  BY DEF Init, RebInit, NoCycle
<1> QED
  BY <1>1, <1>2, <1>3, <1>4 DEF DataInv, AckedShardKept, KeysApart, Migrating

LEMMA WorldData == Unaudited /\ TypeOK /\ DataInv /\ World => DataInv'
<1> SUFFICES ASSUME Unaudited, TypeOK, DataInv, World PROVE DataInv'
  OBVIOUS
<1>1. UNCHANGED <<rep, reb, aud>>
  BY DEF World
<1>2. aud'.pc = "idle"
  BY <1>1 DEF DataInv
<1>3. CASE UNCHANGED <<rows, stored>>
  BY <1>1, <1>2, <1>3, FrameData DEF Frame
<1>4. ASSUME NEW n \in Nodes, RemoveNode(n) PROVE DataInv'
  <2>1. Frame
    BY <1>2, <1>4 DEF RemoveNode, Frame
  <2> QED
    BY <1>1, <2>1, FrameData
<1>5. ASSUME NEW span \in 0 .. 2, TimePasses(span) PROVE DataInv'
  <2>1. ASSUME NEW i \in Idx, rows'[i] # NoRow
        PROVE  rows[i] # NoRow /\ rows'[i].node = rows[i].node /\ rows'[i].key = rows[i].key
    BY <1>5, <2>1 DEF TimePasses, HasRow, TypeOK, MeshTypeOK, Row
  <2>2. Frame
    BY <1>2, <1>5, <2>1 DEF TimePasses, Frame
  <2> QED
    BY <1>1, <2>2, FrameData
<1>6. ASSUME NEW n \in Nodes PROVE ~DiskLoss(n)
  BY DEF DiskLoss, Fault, Unaudited
<1>7. ASSUME NEW n \in Nodes, Announce(n) \/ NodeDown(n) \/ NodeUp(n) PROVE UNCHANGED <<rows, stored>>
  BY <1>7 DEF Announce, NodeDown, NodeUp
<1>8. ASSUME NEW o \in Owners, Ingest(o) \/ SoftDelete(o) \/ SoftRestore(o)
      PROVE  UNCHANGED <<rows, stored>>
  BY <1>8 DEF Ingest, SoftDelete, SoftRestore
<1>9. FileLoss => UNCHANGED <<rows, stored>>
  BY DEF FileLoss
<1> QED
  BY <1>3, <1>4, <1>5, <1>6, <1>7, <1>8, <1>9 DEF World, MeshNext

LEMMA CrashData == TypeOK /\ DataInv /\ Crash => DataInv'
<1> SUFFICES ASSUME TypeOK, DataInv, Crash PROVE DataInv'
  OBVIOUS
<1>1. Frame
  BY NoAuditType DEF Crash, Frame
<1>2. AllBacked'
  BY <1>1, FrameBacked DEF DataInv
<1>3. \A o \in Owners : rep'[o].pc = "idle" /\ \A i \in Idx : rep'[o].acked[i] = NoNode
  BY DEF Crash, NoTask
<1>4. \A m \in Movers : reb'[m].pc = "idle"
  BY DEF Crash, NoCycle
<1> QED
  BY <1>1, <1>2, <1>3, <1>4 DEF DataInv, AckedShardKept, KeysApart, Migrating, Frame

\* A task ends: its confirmations go, the others' stay.
LEMMA FinishedTask ==
  ASSUME TypeOK, NEW o \in Owners, RepFinish(o)
  PROVE  /\ rep'[o].pc = "idle"
         /\ \A i \in Idx : rep'[o].acked[i] = NoNode
         /\ \A p \in Owners \ {o} : rep'[p] = rep[p]
  BY DEF RepFinish, TypeOK, RepTypeOK, NoTask

\* Tasks that are idle or were there before keep their shards and their keys.
LEMMA FewerTasks ==
  ASSUME TypeOK, DataInv, Frame, UNCHANGED reb,
         \A o \in Owners : \/ rep'[o] = rep[o]
                           \/ /\ rep'[o].pc # "store"
                              /\ \A i \in Idx : rep'[o].acked[i] = NoNode
  PROVE  DataInv'
<1>1. AllBacked' /\ Migrating'
  BY FrameBacked, FrameMigrating DEF DataInv
<1>2. AckedShardKept'
  <2> SUFFICES ASSUME NEW o \in Owners, NEW i \in Idx, rep'[o].acked[i] # NoNode
               PROVE  <<rep'[o].key, i>> \in stored'[rep'[o].acked[i]]
    BY DEF AckedShardKept
  <2>1. rep'[o] = rep[o]
    OBVIOUS
  <2>2. rep[o].acked[i] \in Nodes
    BY <2>1 DEF TypeOK, RepTypeOK, RepTask
  <2> QED
    BY <2>1, <2>2 DEF DataInv, AckedShardKept, Frame
<1>3. KeysApart'
  <2> SUFFICES ASSUME NEW o \in Owners, rep'[o] = rep[o]
               PROVE  /\ \A i \in Idx : rep[o].acked[i] # NoNode => rep[o].pc = "store"
                      /\ rep[o].pc = "store" =>
                            /\ \A i \in RowIdx' : rows'[i].key # rep[o].key
                            /\ \A m \in Movers, i \in Idx :
                                  reb[m].snap[i] # NoRow => reb[m].snap[i].key # rep[o].key
                            /\ \A p \in Owners \ {o} :
                                  rep'[p].pc = "store" => rep'[p].key # rep[o].key
    BY DEF KeysApart
  <2> QED
    BY DEF DataInv, KeysApart, Frame, RowIdx, HasRow
<1> QED
  BY <1>1, <1>2, <1>3 DEF DataInv, Frame

LEMMA ReplicateData == TypeOK /\ DataInv /\ Replicate => DataInv'
<1> SUFFICES ASSUME TypeOK, DataInv, Replicate PROVE DataInv'
  OBVIOUS
<1>1. UNCHANGED reb /\ aud'.pc = "idle"
  BY DEF Replicate, DataInv
<1>2. ASSUME UNCHANGED <<rows, stored>> PROVE Frame
  BY <1>1, <1>2 DEF Frame
<1>3. ASSUME RepCycle PROVE DataInv'
  BY <1>1, <1>2, <1>3, FrameData DEF RepCycle
<1>4. ASSUME RepBatch PROVE DataInv'
  <2>1. ASSUME NEW o \in Owners
        PROVE  \/ rep'[o] = rep[o]
               \/ /\ rep'[o].pc # "store"
                  /\ \A i \in Idx : rep'[o].acked[i] = NoNode
    BY <1>4 DEF RepBatch, NoTask
  <2> QED
    BY <1>1, <1>2, <1>4, <2>1, FewerTasks DEF RepBatch
<1>5. ASSUME NEW o \in Owners, RepMissing(o) \/ RepFail(o) PROVE DataInv'
  <2>1. RepFinish(o) /\ UNCHANGED <<rows, stored>>
    BY <1>5 DEF RepMissing, RepFail
  <2>2. ASSUME NEW p \in Owners
        PROVE  \/ rep'[p] = rep[p]
               \/ /\ rep'[p].pc # "store"
                  /\ \A i \in Idx : rep'[p].acked[i] = NoNode
    BY <2>1, FinishedTask
  <2> QED
    BY <1>1, <1>2, <2>1, <2>2, FewerTasks
<1>6. ASSUME NEW o \in Owners, NEW k \in FreshKeys, RepBegin(o, k) PROVE DataInv'
  <2>1. UNCHANGED <<rows, stored>>
    BY <1>6 DEF RepBegin, meshVars
  <2>2. AllBacked' /\ Migrating'
    BY <1>1, <1>2, <2>1, FrameBacked, FrameMigrating DEF DataInv
  <2>3. /\ rep'[o].pc = "store" /\ rep'[o].key = k
        /\ \A i \in Idx : rep'[o].acked[i] = NoNode
        /\ \A p \in Owners \ {o} : rep'[p] = rep[p]
    BY <1>6 DEF RepBegin, NoTask, TypeOK, RepTypeOK
  <2>4. AckedShardKept'
    BY <2>1, <2>3 DEF DataInv, AckedShardKept
  <2>5. /\ \A p \in Owners : rep[p].key # k
        /\ \A i \in RowIdx : rows[i].key # k
        /\ \A m \in Movers, i \in Idx : reb[m].snap[i] # NoRow => reb[m].snap[i].key # k
    BY DEF FreshKeys, UsedKeys
  <2>6. KeysApart'
    <3>1. RowIdx' = RowIdx
      BY <2>1 DEF RowIdx, HasRow
    <3> QED
      BY <1>1, <2>1, <2>3, <2>5, <3>1 DEF DataInv, KeysApart
  <2> QED
    BY <1>1, <2>2, <2>4, <2>6 DEF DataInv
<1>7. ASSUME NEW o \in Owners, NEW i \in Idx, RepStore(o, i) PROVE DataInv'
  <2>1. PICK n \in Nodes :
          \/ /\ Store(n, <<rep[o].key, i>>)
             /\ rep' = [rep EXCEPT ![o].pend = @ \ {i}, ![o].acked[i] = n]
          \/ /\ Store(n, <<rep[o].key, i>>) \/ UNCHANGED stored
             /\ rep' = [rep EXCEPT ![o].pend = @ \ {i}]
    BY <1>7 DEF RepStore, Confirmed, Unconfirmed
  <2>2. /\ \A p \in Nodes : stored[p] \subseteq stored'[p]
        /\ Store(n, <<rep[o].key, i>>) => <<rep[o].key, i>> \in stored'[n]
    BY <2>1 DEF Store, TypeOK, MeshTypeOK
  <2>3. Frame
    BY <1>1, <1>7, <2>2 DEF Frame, RepStore
  <2>4. AllBacked' /\ Migrating'
    BY <1>1, <2>3, FrameBacked, FrameMigrating DEF DataInv
  <2>5. ASSUME NEW p \in Owners PROVE rep'[p].pc = rep[p].pc /\ rep'[p].key = rep[p].key
    <3>1. CASE rep' = [rep EXCEPT ![o].pend = @ \ {i}]
      BY <3>1 DEF TypeOK, RepTypeOK, RepTask
    <3>2. CASE rep' = [rep EXCEPT ![o].pend = @ \ {i}, ![o].acked[i] = n]
      BY <3>2 DEF TypeOK, RepTypeOK, RepTask
    <3> QED
      BY <2>1, <3>1, <3>2
  <2>6. ASSUME NEW p \in Owners, NEW j \in Idx
        PROVE  \/ rep'[p].acked[j] = rep[p].acked[j]
               \/ p = o /\ j = i /\ rep'[p].acked[j] = n /\ Store(n, <<rep[o].key, i>>)
    <3>1. CASE rep' = [rep EXCEPT ![o].pend = @ \ {i}]
      BY <3>1 DEF TypeOK, RepTypeOK, RepTask
    <3>2. CASE rep' = [rep EXCEPT ![o].pend = @ \ {i}, ![o].acked[i] = n]
      <4>1. rep'[p].acked[j] = IF p = o /\ j = i THEN n ELSE rep[p].acked[j]
        BY <3>2 DEF TypeOK, RepTypeOK, RepTask
      <4>2. Store(n, <<rep[o].key, i>>) \/ rep' = [rep EXCEPT ![o].pend = @ \ {i}]
        BY <2>1
      <4> QED
        BY <3>1, <4>1, <4>2
    <3> QED
      BY <2>1, <3>1, <3>2
  <2>7. AckedShardKept'
    <3> SUFFICES ASSUME NEW p \in Owners, NEW j \in Idx, rep'[p].acked[j] # NoNode
                 PROVE  <<rep'[p].key, j>> \in stored'[rep'[p].acked[j]]
      BY DEF AckedShardKept
    <3>1. CASE rep'[p].acked[j] = rep[p].acked[j]
      <4>1. rep[p].acked[j] \in Nodes
        BY <3>1 DEF TypeOK, RepTypeOK, RepTask
      <4> QED
        BY <2>2, <2>5, <3>1, <4>1 DEF DataInv, AckedShardKept
    <3>2. CASE p = o /\ j = i /\ rep'[p].acked[j] = n /\ Store(n, <<rep[o].key, i>>)
      BY <2>2, <2>5, <3>2
    <3> QED
      BY <2>6, <3>1, <3>2
  <2>8. KeysApart'
    <3>1. UNCHANGED rows /\ rep[o].pc = "store"
      BY <1>7 DEF RepStore
    <3>2. RowIdx' = RowIdx
      BY <3>1 DEF RowIdx, HasRow
    <3>3. ASSUME NEW p \in Owners, NEW j \in Idx, rep'[p].acked[j] # NoNode PROVE rep'[p].pc = "store"
      BY <2>5, <2>6, <3>1, <3>3 DEF DataInv, KeysApart
    <3> QED
      BY <1>1, <2>5, <3>1, <3>2, <3>3 DEF DataInv, KeysApart
  <2> QED
    BY <1>1, <2>4, <2>7, <2>8 DEF DataInv
<1>8. ASSUME NEW o \in Owners, RepCommit(o) PROVE DataInv'
  <2>1. /\ RepFinish(o) /\ UNCHANGED stored /\ rep[o].pc = "store"
        /\ rows' = [i \in Idx |-> IF i \in Acked(o) THEN ShardRow(o, i) ELSE rows[i]]
    BY <1>8 DEF RepCommit, Uploaded
  <2>2. /\ rep'[o].pc = "idle"
        /\ \A i \in Idx : rep'[o].acked[i] = NoNode
        /\ \A p \in Owners \ {o} : rep'[p] = rep[p]
    BY <2>1, FinishedTask
  <2>3. ASSUME NEW i \in Idx, rows'[i] # NoRow
        PROVE  \/ rows'[i] = rows[i]
               \/ /\ rep[o].acked[i] # NoNode
                  /\ rows'[i].key = rep[o].key /\ rows'[i].node = rep[o].acked[i]
    BY <2>1, <2>3 DEF Acked, ShardRow
  <2>4. AllBacked'
    BY <2>1, <2>3 DEF DataInv, AllBacked, AckedShardKept, Backed, RowIdx, HasRow
  <2>5. AckedShardKept'
    BY <2>1, <2>2 DEF DataInv, AckedShardKept
  <2>6. KeysApart'
    <3> SUFFICES ASSUME NEW p \in Owners \ {o}, rep[p].pc = "store"
                 PROVE  \A i \in RowIdx' : rows'[i].key # rep[p].key
      BY <1>1, <2>2 DEF DataInv, KeysApart
    <3>1. rep[o].key # rep[p].key
      BY <2>1 DEF DataInv, KeysApart
    <3> QED
      BY <2>3, <3>1 DEF DataInv, KeysApart, RowIdx, HasRow
  <2>7. Migrating'
    <3> SUFFICES ASSUME NEW m \in Movers, NEW i \in Idx, At(m, i), reb[m].pc = "del",
                        HasRow(i)', rows'[i].node = reb[m].snap[i].node,
                        rows'[i].key = reb[m].snap[i].key
                 PROVE  FALSE
      BY SMTT(30), <1>1, <2>1 DEF DataInv, Migrating, At, IsTarget
    <3>1. reb[m].snap[i].key # rep[o].key
      BY <2>1 DEF DataInv, KeysApart, At
    <3> QED
      BY ZenonT(60), <2>3, <3>1 DEF DataInv, Migrating, HasRow
  <2> QED
    BY <1>1, <2>4, <2>5, <2>6, <2>7 DEF DataInv
<1> QED
  BY <1>3, <1>4, <1>5, <1>6, <1>7, <1>8 DEF Replicate, RepNext

\* While m is in a cycle the others are idle: what Migrating says of m after the
\* step is all it says.
LEMMA OneMigrates ==
  ASSUME MutexInv, NEW m \in Movers, reb[m].pc # "idle",
         \A p \in Movers \ {m} : reb'[p] = reb[p],
         reb'[m].pc \notin {"row", "del"}
  PROVE  Migrating'
  BY DEF MutexInv, RebalanceMutex, Migrating

\* Shard i is done with; the rows being migrated are the same or fewer.
LEMMA Advanced ==
  ASSUME TypeOK, NEW m \in Movers, NEW i \in Idx, Advance(m, i, "move")
  PROVE  /\ reb'[m].pc = "move"
         /\ \A p \in Movers \ {m} : reb'[p] = reb[p]
         /\ \A p \in Movers, j \in Idx :
              reb'[p].snap[j] # NoRow => reb'[p].snap[j] = reb[p].snap[j]
<1>1. reb' = [reb EXCEPT ![m].pc = "move", ![m].snap[i] = NoRow]
  BY DEF Advance
<1>2. reb \in [Movers -> Cycle]
  BY DEF TypeOK, RebTypeOK
<1>3. reb'[m].pc = "move"
  BY <1>1, <1>2 DEF Cycle
<1>4. \A p \in Movers \ {m} : reb'[p] = reb[p]
  BY <1>1, <1>2
<1>5. \A j \in Idx : reb'[m].snap[j] = IF j = i THEN NoRow ELSE reb[m].snap[j]
  BY <1>1, <1>2 DEF Cycle
<1> QED
  BY <1>3, <1>4, <1>5

LEMMA ReleasedCycle ==
  ASSUME TypeOK, NEW m \in Movers, Released(m)
  PROVE  /\ reb'[m].pc = "idle"
         /\ \A p \in Movers \ {m} : reb'[p] = reb[p]
         /\ \A p \in Movers, j \in Idx :
              reb'[p].snap[j] # NoRow => reb'[p].snap[j] = reb[p].snap[j]
  BY DEF Released, NoCycle, TypeOK, RebTypeOK

\* A step of m that only adds shards and does not leave m before a write.
LEMMA FrameMove ==
  ASSUME TypeOK, MutexInv, DataInv, Frame, UNCHANGED rep, NEW m \in Movers,
         reb[m].pc # "idle", reb'[m].pc \notin {"row", "del"},
         \A p \in Movers \ {m} : reb'[p] = reb[p],
         \A p \in Movers, i \in Idx :
            reb'[p].snap[i] # NoRow => \/ reb'[p].snap[i] = reb[p].snap[i]
                                       \/ reb'[p].snap[i] = rows[i]
  PROVE  DataInv'
  BY FrameBacked, FrameAcked, FrameKeys, OneMigrates DEF DataInv, Frame

LEMMA MoveData == TypeOK /\ MutexInv /\ DataInv /\ Move => DataInv'
<1> SUFFICES ASSUME TypeOK, MutexInv, DataInv, Move PROVE DataInv'
  OBVIOUS
<1>1. UNCHANGED rep /\ aud'.pc = "idle"
  BY DEF Move, DataInv
<1>2. ASSUME UNCHANGED <<rows, stored>> PROVE Frame
  BY <1>1, <1>2 DEF Frame
<1>3. ASSUME NEW m \in Movers, RebStart(m) PROVE DataInv'
  <2>1. Frame
    BY <1>2, <1>3 DEF RebStart, RebSync
  <2>2. \A p \in Movers : reb'[p] = reb[p] \/ (p = m /\ reb'[p].pc = "load" /\ \A i \in Idx : reb'[p].snap[i] = NoRow)
    BY <1>3 DEF RebStart, RebSync, NoCycle, TypeOK, RebTypeOK
  <2>3. KeysApart'
    BY <1>1, <2>1, <2>2, FrameKeys DEF DataInv
  <2>4. \A p \in Movers : reb'[p].pc \notin {"row", "del"}
    BY <1>3, <2>2 DEF RebStart, MutexInv
  <2> QED
    BY <1>1, <2>1, <2>3, <2>4, FrameBacked, FrameAcked DEF DataInv, Migrating
<1>4. ASSUME NEW m \in Movers, RebLoad(m) PROVE DataInv'
  <2>1. Frame
    BY <1>2, <1>4 DEF RebLoad, meshVars
  <2>2. CASE Released(m)
    BY <1>1, <1>4, <2>1, <2>2, ReleasedCycle, FrameMove DEF RebLoad
  <2>3. CASE reb' = [reb EXCEPT ![m].pc = "move", ![m].snap = rows]
    <3>1. /\ reb'[m].pc = "move" /\ reb'[m].snap = rows
          /\ \A p \in Movers \ {m} : reb'[p] = reb[p]
      BY <2>3 DEF TypeOK, RebTypeOK, Cycle
    <3> QED
      BY <1>1, <1>4, <2>1, <3>1, FrameMove DEF RebLoad
  <2> QED
    BY <1>4, <2>2, <2>3 DEF RebLoad
<1>5. ASSUME NEW m \in Movers, RebDone(m) PROVE DataInv'
  <2>1. ASSUME NEW i \in Idx, rows'[i] # NoRow
        PROVE  rows[i] # NoRow /\ rows'[i].node = rows[i].node /\ rows'[i].key = rows[i].key
    BY <1>5, <2>1 DEF RebDone, HasRow, TypeOK, MeshTypeOK, Row
  <2>2. Frame
    BY <1>1, <1>5, <2>1 DEF RebDone, Frame
  <2> QED
    BY <1>1, <1>5, <2>2, ReleasedCycle, FrameMove DEF RebDone
<1>6. ASSUME NEW m \in Movers, NEW i \in Idx, RebSkip(m, i) PROVE DataInv'
  <2>1. Frame
    BY <1>2, <1>6 DEF RebSkip, meshVars
  <2> QED
    BY <1>1, <1>6, <2>1, Advanced, FrameMove DEF RebSkip
<1>7. ASSUME NEW m \in Movers, NEW i \in Idx, RebMove(m, i) PROVE DataInv'
  <2> DEFINE r == reb[m].snap[i]
  <2>1. PICK n \in Nodes :
          /\ IsTarget(n, reb[m].nodes, i) /\ n # r.node
          /\ \/ Store(n, <<r.key, i>>) /\ reb' = [reb EXCEPT ![m].pc = "row"]
             \/ (Store(n, <<r.key, i>>) \/ UNCHANGED stored) /\ Advance(m, i, "move")
    BY <1>7 DEF RebMove, Confirmed, Unconfirmed
  <2>2. /\ \A p \in Nodes : stored[p] \subseteq stored'[p]
        /\ Store(n, <<r.key, i>>) => <<r.key, i>> \in stored'[n]
    BY <2>1 DEF Store, TypeOK, MeshTypeOK
  <2>3. Frame
    BY <1>1, <1>7, <2>2 DEF Frame, RebMove
  <2>4. CASE Advance(m, i, "move")
    BY <1>1, <1>7, <2>3, <2>4, Advanced, FrameMove DEF RebMove
  <2>5. CASE Store(n, <<r.key, i>>) /\ reb' = [reb EXCEPT ![m].pc = "row"]
    <3>1. /\ reb'[m].pc = "row"
          /\ \A p \in Movers : reb'[p].snap = reb[p].snap /\ reb'[p].nodes = reb[p].nodes
          /\ \A p \in Movers \ {m} : reb'[p] = reb[p]
      BY <2>5 DEF TypeOK, RebTypeOK, Cycle
    <3>2. KeysApart'
      BY <1>1, <2>3, <3>1, FrameKeys DEF DataInv
    <3>3. Migrating'
      <4> SUFFICES ASSUME NEW j \in Idx, At(m, j), NEW p \in Nodes, IsTarget(p, reb[m].nodes, j)
                   PROVE  p # reb[m].snap[j].node /\ <<reb[m].snap[j].key, j>> \in stored'[p]
        BY <1>7, <3>1 DEF RebMove, MutexInv, RebalanceMutex, Migrating, At, IsTarget
      <4>1. j = i
        BY <1>7, AtUnique DEF RebMove
      <4>2. reb[m].nodes \in SUBSET Nodes
        BY DEF TypeOK, RebTypeOK, Cycle
      <4>3. p = n
        BY <2>1, <4>1, <4>2, TargetUnique
      <4> QED
        BY <2>1, <2>2, <2>5, <4>1, <4>3
    <3> QED
      BY <1>1, <2>3, <3>2, <3>3, FrameBacked, FrameAcked DEF DataInv
  <2> QED
    BY <2>1, <2>4, <2>5
<1>8. ASSUME NEW m \in Movers, NEW i \in Idx, RebRow(m, i) PROVE DataInv'
  <2> DEFINE r == reb[m].snap[i]
  <2>1. PICK n \in Nodes :
          /\ IsTarget(n, reb[m].nodes, i)
          /\ \/ Released(m) /\ UNCHANGED rows
             \/ /\ rows' = [rows EXCEPT ![i] = IF @ = NoRow THEN @
                               ELSE [@ EXCEPT !.node = n, !.key = r.key]]
                /\ reb' = [reb EXCEPT ![m].pc = "del"]
    BY <1>8 DEF RebRow
  <2>2. UNCHANGED stored /\ reb[m].pc = "row" /\ At(m, i)
    BY <1>8 DEF RebRow
  <2>3. CASE Released(m) /\ UNCHANGED rows
    BY <1>1, <1>2, <2>2, <2>3, ReleasedCycle, FrameMove
  <2>4. CASE /\ rows' = [rows EXCEPT ![i] = IF @ = NoRow THEN @
                            ELSE [@ EXCEPT !.node = n, !.key = r.key]]
             /\ reb' = [reb EXCEPT ![m].pc = "del"]
    <3>1. /\ reb'[m].pc = "del"
          /\ \A p \in Movers : reb'[p].snap = reb[p].snap
          /\ \A p \in Movers \ {m} : reb'[p] = reb[p]
      BY <2>4 DEF TypeOK, RebTypeOK, Cycle
    <3>2. n # r.node /\ <<r.key, i>> \in stored[n] /\ r # NoRow
      BY <2>1, <2>2 DEF DataInv, Migrating, At
    <3>3. ASSUME rows[i] # NoRow
          PROVE  LET new == [rows[i] EXCEPT !.node = n, !.key = r.key]
                 IN  new \in Row /\ new.node = n /\ new.key = r.key
      <4>1. r.key \in Keys
        BY <2>2, AtType DEF Row
      <4>2. rows[i] \in Row
        BY <3>3 DEF TypeOK, MeshTypeOK
      <4> HIDE DEF r
      <4> QED
        BY <4>1, <4>2 DEF Row
    <3>4. ASSUME NEW j \in Idx
          PROVE  /\ rows'[j] # NoRow => rows[j] # NoRow
                 /\ j # i => rows'[j] = rows[j]
                 /\ j = i /\ rows'[j] # NoRow => rows'[j].node = n /\ rows'[j].key = r.key
      BY <2>4, <3>3 DEF TypeOK, MeshTypeOK
    <3> HIDE DEF r
    <3>5. AllBacked'
      BY <2>2, <3>2, <3>4 DEF DataInv, AllBacked, Backed, RowIdx, HasRow
    <3>6. AckedShardKept'
      BY <1>1, <2>2 DEF DataInv, AckedShardKept
    <3>7. KeysApart'
      <4> SUFFICES ASSUME NEW o \in Owners, rep[o].pc = "store", NEW j \in RowIdx'
                   PROVE  rows'[j].key # rep[o].key
        BY <1>1, <3>1 DEF DataInv, KeysApart
      <4>1. r.key # rep[o].key
        BY <3>2 DEF DataInv, KeysApart, r
      <4> QED
        BY <3>4, <4>1 DEF DataInv, KeysApart, RowIdx, HasRow
    <3>8. Migrating'
      <4> SUFFICES ASSUME NEW j \in Idx, At(m, j), rows'[j] # NoRow
                   PROVE  rows'[j].node # reb[m].snap[j].node
        BY <2>2, <3>1 DEF MutexInv, RebalanceMutex, Migrating, At, HasRow
      <4>1. j = i
        BY <2>2, AtUnique
      <4> QED
        BY <3>2, <3>4, <4>1 DEF r
    <3> QED
      BY <1>1, <3>5, <3>6, <3>7, <3>8 DEF DataInv
  <2> QED
    BY <2>1, <2>3, <2>4
<1>9. ASSUME NEW m \in Movers, NEW i \in Idx, RebDel(m, i) PROVE DataInv'
  <2> DEFINE r == reb[m].snap[i]
  <2>1. reb[m].pc = "del" /\ At(m, i) /\ UNCHANGED rows /\ r # NoRow
    BY <1>9 DEF RebDel, At
  <2>2. r.node \in Nodes
    BY <2>1, AtType DEF Row
  <2>3. ASSUME NEW n \in Nodes, NEW obj, obj \in stored[n], obj \notin stored'[n]
        PROVE  n = r.node /\ obj = <<r.key, i>>
    BY <1>9, <2>2, <2>3 DEF RebDel, RemoteDelete, TypeOK, MeshTypeOK
  <2>4. ~ (HasRow(i) /\ rows[i].node = r.node /\ rows[i].key = r.key)
    BY <2>1 DEF DataInv, Migrating
  <2>5. /\ reb'[m].pc = "move"
        /\ \A p \in Movers \ {m} : reb'[p] = reb[p]
        /\ \A p \in Movers, j \in Idx :
             reb'[p].snap[j] # NoRow => reb'[p].snap[j] = reb[p].snap[j]
    BY <1>9, Advanced DEF RebDel
  <2>6. \A o \in Owners : rep[o].pc = "store" => rep[o].key # r.key
    BY <2>1 DEF DataInv, KeysApart
  <2>7. Migrating'
    BY <2>1, <2>5, OneMigrates
  <2> HIDE DEF r
  <2>8. AllBacked'
    <3> SUFFICES ASSUME NEW j \in RowIdx PROVE <<rows[j].key, j>> \in stored'[rows[j].node]
      BY <2>1 DEF AllBacked, Backed, RowIdx, HasRow
    <3>1. <<rows[j].key, j>> \in stored[rows[j].node] /\ rows[j].node \in Nodes
      BY DEF DataInv, AllBacked, Backed, RowIdx, HasRow, TypeOK, MeshTypeOK, Row
    <3>2. ~ (rows[j].node = r.node /\ <<rows[j].key, j>> = <<r.key, i>>)
      BY <2>4 DEF RowIdx
    <3> QED
      BY <2>3, <3>1, <3>2
  <2>9. AckedShardKept'
    <3> SUFFICES ASSUME NEW o \in Owners, NEW j \in Idx, rep[o].acked[j] # NoNode
                 PROVE  <<rep[o].key, j>> \in stored'[rep[o].acked[j]]
      BY <1>1 DEF AckedShardKept
    <3>1. <<rep[o].key, j>> \in stored[rep[o].acked[j]] /\ rep[o].acked[j] \in Nodes
      BY DEF DataInv, AckedShardKept, TypeOK, RepTypeOK, RepTask
    <3>2. rep[o].key # r.key
      BY <2>6 DEF DataInv, KeysApart
    <3> QED
      BY <2>3, <3>1, <3>2
  <2>10. KeysApart'
    <3>1. RowIdx' = RowIdx
      BY <2>1 DEF RowIdx, HasRow
    <3> QED
      BY <1>1, <2>1, <2>5, <3>1 DEF DataInv, KeysApart
  <2> QED
    BY <1>1, <2>7, <2>8, <2>9, <2>10 DEF DataInv
<1> QED
  BY <1>3, <1>4, <1>5, <1>6, <1>7, <1>8, <1>9 DEF Move, RebNext

LEMMA AuditData == Unaudited /\ DataInv => ~AuditStep
  BY DEF Unaudited, DataInv, AuditStep, AudNext, AudStart, AudPurge, AudPurgeRows, AudSweepNode,
         AudSweepList, AudSweepQuery, AudSweepDelete, AudScan, AudCheck, AudRepair, AudRow,
         AudCons, AudFix

LEMMA UnchangedData == TypeOK /\ DataInv /\ UNCHANGED vars => DataInv'
  BY FrameData DEF vars, Frame, DataInv

LEMMA DataHolds ==
  ASSUME Unaudited
  PROVE  Spec => []DataInv
<1>1. TypeOK /\ MutexInv /\ DataInv /\ [Next]_vars => DataInv'
  BY InitData, WorldData, CrashData, ReplicateData, MoveData, AuditData, UnchangedData DEF Next
<1> QED
  BY <1>1, InitData, TypeCorrect, MutexHolds, PTL DEF Spec

\* Without the audit worker, replication and rebalancing never leave a p2p_shards
\* row that names a shard its node does not have: for any number of nodes, owners,
\* movers and shards, with lost confirmations and deletions, removed nodes and
\* restarts at any moment.
THEOREM NoDanglingRows ==
  ASSUME Unaudited
  PROVE  Spec => []RowsBacked
<1>1. DataInv => RowsBacked
  BY DEF DataInv, AllBacked, RowsBacked
<1> QED
  BY <1>1, DataHolds, PTL

\* Only the commit of a replication sets p2p_synced_at.
LEMMA OnlyCommitSyncs ==
  ASSUME TypeOK, [Next]_vars, NEW o \in Owners, SetsSynced(o)
  PROVE  Exists(o) /\ \E p \in Owners : RepCommit(p)
<1>1. media' # media
  BY DEF SetsSynced
<1>2. ASSUME NEW p \in Owners, Ingest(p) \/ SoftDelete(p) \/ SoftRestore(p)
      PROVE  media'[o].synced = media[o].synced
  BY <1>2 DEF Ingest, SoftDelete, SoftRestore, TypeOK, MeshTypeOK, Media
<1>3. ASSUME NEW span \in 0 .. 2, TimePasses(span) PROVE media'[o].synced = media[o].synced
  BY <1>3 DEF TimePasses, TypeOK, MeshTypeOK, Media
<1>4. ~World
  BY <1>1, <1>2, <1>3
  DEF World, MeshNext, RemoveNode, Announce, NodeDown, NodeUp, DiskLoss, FileLoss, SetsSynced
<1>5. ~Move /\ ~Crash
  <2>1. ASSUME NEW m \in Movers, RebStart(m) \/ RebLoad(m) \/ RebDone(m) PROVE media' = media
    BY <2>1 DEF RebStart, RebSync, RebLoad, RebDone, meshVars
  <2>2. ASSUME NEW m \in Movers, NEW i \in Idx, RebSkip(m, i) \/ RebMove(m, i) PROVE media' = media
    BY <2>2 DEF RebSkip, RebMove, meshVars
  <2>3. ASSUME NEW m \in Movers, NEW i \in Idx, RebRow(m, i) \/ RebDel(m, i) PROVE media' = media
    BY <2>3 DEF RebRow, RebDel, meshVars
  <2>4. Move \/ Crash => media' = media
    BY <2>1, <2>2, <2>3 DEF Move, RebNext, Crash
  <2> QED
    BY <1>1, <2>4
<1>6. ~UpdateMedia(Stamped)
  BY DEF UpdateMedia, Stamped, SetsSynced, TypeOK, MeshTypeOK, Media
<1>7. ~UpdateMedia(Requeued)
  BY DEF UpdateMedia, Requeued, SetsSynced, TypeOK, MeshTypeOK, Media
<1>8. ~UpdateMedia(Unsynced)
  BY DEF UpdateMedia, Unsynced, SetsSynced, TypeOK, MeshTypeOK, Media
<1>9. ~AuditStep
  BY ZenonT(60), <1>1, <1>8
  DEF AuditStep, AudNext, AudStart, AudPurge, AudPurgeRows, AudSweepNode, AudSweepList,
      AudSweepQuery, AudSweepDelete, AudScan, AudCheck, AudRepair, Repair, AudRow, AudCons,
      AudFix, meshVars
<1>10. PICK p \in Owners : RepCommit(p)
  BY <1>1, <1>4, <1>5, <1>6, <1>7, <1>9
  DEF Next, vars, Replicate, RepNext, RepCycle, RepBatch, RepMissing, RepBegin, RepStore, RepFail,
      meshVars
<1>11. Exists(o)
  BY <1>10 DEF RepCommit, SetsSynced
<1> QED
  BY <1>10, <1>11

\* The same for the moment a file is recorded as backed up: at least data_shards
\* shards of its new key are on their nodes and in the database by then.
THEOREM CommitsComplete ==
  ASSUME Unaudited
  PROVE  Spec => CommitComplete
<1>1. ASSUME TypeOK, DataInv, [Next]_vars, NEW o \in Owners, SetsSynced(o)
      PROVE  Restorable(o)'
  <2>1. PICK p \in Owners : RepCommit(p)
    BY <1>1, OnlyCommitSyncs
  <2>2. /\ Cardinality(Acked(p)) >= DATA_SHARDS
        /\ UNCHANGED stored
        /\ rows' = [i \in Idx |-> IF i \in Acked(p) THEN ShardRow(p, i) ELSE rows[i]]
    BY <2>1 DEF RepCommit, Enough
  <2>3. media'[o].key = rep[p].key
    <3>1. media' = [q \in Owners |->
                      IF Exists(q) THEN [media[q] EXCEPT !.synced = TRUE, !.key = rep[p].key,
                                                         !.cooling = TRUE]
                                   ELSE media[q]]
      BY <2>1 DEF RepCommit
    <3>2. Exists(o) /\ media[o] \in Media
      BY <1>1, OnlyCommitSyncs DEF TypeOK, MeshTypeOK
    <3> QED
      BY <3>1, <3>2 DEF Media
  <2>4. ASSUME NEW i \in Acked(p)
        PROVE  /\ i \in Idx /\ rows'[i] \in Row
               /\ rows'[i].key = rep[p].key
               /\ <<rep[p].key, i>> \in stored'[rows'[i].node]
    <3>1. i \in Idx /\ rows'[i] = ShardRow(p, i) /\ rep[p].acked[i] # NoNode
      BY <2>2 DEF Acked
    <3>2. rep[p].key \in Keys /\ rep[p].acked[i] \in Nodes
      <4>1. rep[p].pc = "store"
        BY <2>1 DEF RepCommit, Uploaded
      <4>2. rep[p] \in RepTask
        BY <1>1 DEF TypeOK, RepTypeOK
      <4>3. rep[p].acked[i] \in Nodes
        BY <3>1, <4>2 DEF RepTask
      <4> QED
        BY <1>1, <4>1, <4>3 DEF TypeOK, RepTypeOK
    <3>3. ShardRow(p, i) \in Row /\ ShardRow(p, i).key = rep[p].key
          /\ ShardRow(p, i).node = rep[p].acked[i]
      <4> DEFINE age == IF HasRow(i) THEN rows[i].age ELSE Unchecked
      <4>1. age \in 0 .. 3
        BY <1>1, <3>1 DEF HasRow, TypeOK, MeshTypeOK, Row, Unchecked
      <4>2. ShardRow(p, i) = [node |-> rep[p].acked[i], key |-> rep[p].key, age |-> age]
        BY DEF ShardRow
      <4> HIDE DEF age
      <4> QED
        BY <3>2, <4>1, <4>2 DEF Row
    <3> QED
      BY <1>1, <2>2, <3>1, <3>3 DEF DataInv, AckedShardKept
  <2>5. Acked(p) \in SUBSET RowIdx'
    BY <2>4, NoRowAssumption DEF RowIdx, HasRow
  <2>6. \A i \in Acked(p) : rows'[i].key = media'[o].key /\ Backed(i)'
    BY <2>3, <2>4 DEF Backed
  <2> QED
    BY <2>2, <2>5, <2>6 DEF Restorable
<1>2. TypeOK /\ DataInv /\ [Next]_vars => [\A o \in Owners : SetsSynced(o) => Restorable(o)']_vars
  BY <1>1
<1> QED
  BY <1>2, TypeCorrect, DataHolds, PTL DEF Spec, CommitComplete
-----------------------------------------------------------------------------
(* The audit without the other two workers *)

\* The audit runs alone over files that are backed up, nothing leaves the trash and
\* no disk is lost.
AuditAlone ==
    /\ "replicate" \notin Workers /\ "rebalance" \notin Workers
    /\ "restore" \notin Env /\ "diskloss" \notin Env
    /\ Library = "backedup"

OthersIdle ==
    /\ repPc = "idle"
    /\ \A o \in Owners : rep[o].pc = "idle"
    /\ \A m \in Movers : reb[m].pc = "idle"

\* What the audit is about to delete is not needed, and what it is about to record
\* is there.
AudInv ==
    /\ OthersIdle
    /\ \A o \in Owners : Exists(o)
    /\ aud.pc = "purge" /\ aud.work # {} => ~Live
    /\ aud.pc = "prune" => \A x \in aud.work : ~Referenced(x[2])
    /\ aud.pc = "row" => <<aud.key, aud.idx>> \in stored[aud.target]
    /\ RowsBacked

\* No row is written, no file comes back to life.
Shrinks ==
    /\ \A i \in Idx : rows'[i] # NoRow =>
          rows[i] # NoRow /\ rows'[i].node = rows[i].node /\ rows'[i].key = rows[i].key
    /\ Live' => Live
    /\ \A o \in Owners : Exists(o)'
    /\ OthersIdle'

LEMMA ShrinkReferenced ==
  ASSUME Shrinks, NEW obj, ~Referenced(obj)
  PROVE  ~Referenced(obj)'
  BY DEF Shrinks, Referenced, RowIdx, HasRow

LEMMA ShrinkBacked ==
  ASSUME TypeOK, Shrinks, RowsBacked, \A n \in Nodes : stored[n] \subseteq stored'[n]
  PROVE  RowsBacked'
<1> SUFFICES ASSUME Live', NEW i \in Idx, rows'[i] # NoRow PROVE Backed(i)'
  BY DEF RowsBacked, RowIdx, HasRow
<1>1. Backed(i) /\ rows[i] \in Row
  BY DEF Shrinks, RowsBacked, RowIdx, HasRow, TypeOK, MeshTypeOK
<1>2. rows[i].node \in Nodes
  BY <1>1 DEF Row
<1> QED
  BY <1>1, <1>2 DEF Backed, Shrinks

\* Steps that delete nothing and leave the audit where it is or take it elsewhere.
LEMMA ShrinkAud ==
  ASSUME TypeOK, AudInv, Shrinks, \A n \in Nodes : stored[n] \subseteq stored'[n],
         aud' = aud \/ aud'.pc \notin {"purge", "prune", "row"}
  PROVE  AudInv'
<1>1. RowsBacked'
  BY ShrinkBacked DEF AudInv
<1>2. CASE aud'.pc \notin {"purge", "prune", "row"}
  BY <1>1, <1>2 DEF AudInv, Shrinks
<1>3. CASE aud' = aud
  <2>1. (aud.pc = "prune" => \A x \in aud.work : ~Referenced(x[2]))'
    BY <1>3, ShrinkReferenced DEF AudInv
  <2>2. (aud.pc = "row" => <<aud.key, aud.idx>> \in stored[aud.target])'
    BY <1>3 DEF AudInv, TypeOK, AudTypeOK
  <2>3. (aud.pc = "purge" /\ aud.work # {} => ~Live)'
    BY <1>3 DEF AudInv, Shrinks
  <2> QED
    BY <1>1, <2>1, <2>2, <2>3 DEF AudInv, Shrinks
<1> QED
  BY <1>2, <1>3

LEMMA InitAud == AuditAlone /\ Init => AudInv
<1> SUFFICES ASSUME AuditAlone, Init PROVE AudInv
  OBVIOUS
<1>1. OthersIdle
  BY NoTaskType DEF Init, RepInit, RebInit, OthersIdle, NoCycle
<1>2. aud.pc = "idle"
  BY NoAuditType DEF Init, AudInit
<1>3. PICK k \in Keys, place \in [Idx -> Nodes] :
        /\ media = [o \in Owners |-> [st |-> "live", synced |-> TRUE,
                                      key |-> k, cooling |-> FALSE]]
        /\ rows = [i \in Idx |-> [node |-> place[i], key |-> k, age |-> 1]]
        /\ stored = [n \in Nodes |-> {<<k, i>> : i \in {j \in Idx : place[j] = n}}]
  BY DEF Init, MeshInit, BackedUpLibrary, AuditAlone
<1>4. \A o \in Owners : Exists(o)
  BY <1>3 DEF Exists
<1>5. RowsBacked
  BY <1>3 DEF RowsBacked, RowIdx, HasRow, Backed
<1> QED
  BY <1>1, <1>2, <1>4, <1>5 DEF AudInv

LEMMA WorldAud == AuditAlone /\ TypeOK /\ AudInv /\ World => AudInv'
<1> SUFFICES ASSUME AuditAlone, TypeOK, AudInv, World PROVE AudInv'
  OBVIOUS
<1>1. aud' = aud /\ OthersIdle'
  BY DEF World, AudInv, OthersIdle
<1>2. ASSUME UNCHANGED <<media, rows, stored>> PROVE AudInv'
  <2>1. Shrinks
    BY <1>1, <1>2 DEF Shrinks, Live, Exists, AudInv
  <2> QED
    BY <1>1, <1>2, <2>1, ShrinkAud
<1>3. ASSUME NEW o \in Owners, Ingest(o) \/ SoftDelete(o) \/ SoftRestore(o) PROVE AudInv'
  <2>1. /\ UNCHANGED <<rows, stored>>
        /\ \E st \in {"live", "trash"} : media' = [media EXCEPT ![o].st = st]
    BY <1>3 DEF Ingest, SoftDelete, SoftRestore
  <2>2. media[o].st = "live"
    BY <1>3 DEF Ingest, SoftDelete, SoftRestore, AuditAlone, AudInv, Exists
  <2>3. ASSUME NEW p \in Owners PROVE media'[p].st = media[p].st \/ media'[p].st \in {"live", "trash"}
    <3>1. PICK st \in {"live", "trash"} : media' = [media EXCEPT ![o].st = st]
      BY <2>1
    <3>2. CASE p = o
      BY <3>1, <3>2 DEF TypeOK, MeshTypeOK, Media
    <3>3. CASE p # o
      BY <3>1, <3>3 DEF TypeOK, MeshTypeOK
    <3> QED
      BY <3>2, <3>3
  <2>4. Live
    BY <2>2 DEF Live
  <2>5. \A p \in Owners : Exists(p)'
    BY <2>3 DEF Exists, AudInv
  <2>6. Shrinks
    BY <1>1, <2>1, <2>4, <2>5 DEF Shrinks
  <2> QED
    BY <1>1, <2>1, <2>6, ShrinkAud
<1>4. ASSUME NEW n \in Nodes, RemoveNode(n) PROVE AudInv'
  <2>1. Shrinks
    BY <1>1, <1>4 DEF RemoveNode, Shrinks, Live, Exists, AudInv
  <2> QED
    BY <1>1, <1>4, <2>1, ShrinkAud DEF RemoveNode
<1>5. ASSUME NEW span \in 0 .. 2, TimePasses(span) PROVE AudInv'
  <2>1. ASSUME NEW i \in Idx, rows'[i] # NoRow
        PROVE  rows[i] # NoRow /\ rows'[i].node = rows[i].node /\ rows'[i].key = rows[i].key
    BY <1>5, <2>1 DEF TimePasses, HasRow, TypeOK, MeshTypeOK, Row
  <2>2. \A o \in Owners : media'[o].st = media[o].st
    BY <1>5 DEF TimePasses, TypeOK, MeshTypeOK, Media
  <2>3. Shrinks
    BY <1>1, <2>1, <2>2 DEF Shrinks, Live, Exists, AudInv
  <2> QED
    BY <1>1, <1>5, <2>3, ShrinkAud DEF TimePasses
<1>6. ASSUME NEW n \in Nodes PROVE ~DiskLoss(n)
  BY DEF DiskLoss, Fault, AuditAlone
<1>7. ASSUME NEW n \in Nodes, Announce(n) \/ NodeDown(n) \/ NodeUp(n)
      PROVE  UNCHANGED <<media, rows, stored>>
  BY <1>7 DEF Announce, NodeDown, NodeUp
<1>8. FileLoss => UNCHANGED <<media, rows, stored>>
  BY DEF FileLoss
<1> QED
  BY <1>2, <1>3, <1>4, <1>5, <1>6, <1>7, <1>8 DEF World, MeshNext

LEMMA CrashAud == TypeOK /\ AudInv /\ Crash => AudInv'
<1> SUFFICES ASSUME TypeOK, AudInv, Crash PROVE AudInv'
  OBVIOUS
<1>1. OthersIdle'
  BY NoTaskType DEF Crash, OthersIdle, NoCycle
<1>2. Shrinks
  BY <1>1 DEF Crash, Shrinks, Live, Exists, AudInv
<1> QED
  BY <1>2, NoAuditType, ShrinkAud DEF Crash

\* A deletion of a shard on one node leaves the other shards and the other nodes.
LEMMA RemoteDeleteKeeps ==
  ASSUME TypeOK, NEW n \in Nodes, NEW obj, RemoteDelete(n, obj)
  PROVE  \A m \in Nodes : stored[m] \ {obj} \subseteq stored'[m]
  BY DEF TypeOK, MeshTypeOK, RemoteDelete

LEMMA AuditAud == TypeOK /\ AudInv /\ AuditStep => AudInv'
<1> SUFFICES ASSUME TypeOK, AudInv, AuditStep PROVE AudInv'
  OBVIOUS
<1>1. OthersIdle'
  BY DEF AuditStep, AudInv, OthersIdle
\* Steps that keep the rows and the files, or only stamp a row.
<1>2. ASSUME UNCHANGED <<media, rows>> PROVE Shrinks
  BY <1>1, <1>2 DEF Shrinks, Live, Exists, AudInv
<1>3. ASSUME NEW i \in Idx, Dealt(i) PROVE aud'.pc \in {"idle", "fix", "check"}
  BY <1>3, NoAuditType DEF Dealt, TypeOK, AudTypeOK, AuditState
<1>4. ASSUME NEW p, Prefix(p) PROVE aud'.pc = "sweep"
  BY <1>4 DEF Prefix, TypeOK, AudTypeOK, AuditState
\* The orphaned rows are read: there are none while the file is live.
<1>5. ASSUME UNCHANGED <<media, rows, stored>>, aud'.pc = "purge", aud'.work = Orphaned
      PROVE  AudInv'
  <2>1. RowsBacked'
    BY <1>2, <1>5, ShrinkBacked DEF AudInv
  <2>2. (aud.pc = "purge" /\ aud.work # {} => ~Live)'
    BY <1>5 DEF Orphaned, Live
  <2> QED
    BY <1>2, <1>5, <2>1, <2>2 DEF AudInv, Shrinks
<1>6. ASSUME AudStart PROVE AudInv'
  <2>1. aud'.pc = "purge" /\ aud'.work = Orphaned
    BY <1>6, NoAuditType DEF AudStart, AuditState
  <2> QED
    BY <1>5, <1>6, <2>1 DEF AudStart
<1>7. ASSUME AudPurge PROVE AudInv'
  <2>1. PICK x \in aud.work : aud' = [aud EXCEPT !.work = @ \ {x}]
    BY <1>7 DEF AudPurge
  <2>2. aud'.pc = "purge"
    BY <1>7, <2>1 DEF AudPurge, TypeOK, AudTypeOK, AuditState
  <2>3. ~Live /\ UNCHANGED <<media, rows>>
    BY <1>7, <2>1 DEF AudPurge, AudInv
  <2>4. ~Live' /\ \A o \in Owners : Exists(o)'
    BY <2>3 DEF Live, Exists, AudInv
  <2> QED
    BY <1>1, <2>2, <2>4 DEF AudInv, RowsBacked
<1>8. ASSUME AudPurgeRows PROVE AudInv'
  <2>1. aud'.pc \in {"sweep", "scan"}
    BY <1>8 DEF AudPurgeRows, TypeOK, AudTypeOK, AuditState
  <2>2. Shrinks
    BY <1>1, <1>8 DEF AudPurgeRows, Shrinks, Live, Exists, AudInv
  <2> QED
    BY ZenonT(60), <1>8, <2>1, <2>2, ShrinkAud DEF AudPurgeRows
<1>9. ASSUME AudSweepNode PROVE AudInv'
  <2>1. aud'.pc \in {"sweep", "scan", "cons"}
    BY <1>9 DEF AudSweepNode, TypeOK, AudTypeOK, AuditState
  <2> QED
    BY <1>2, <1>9, <2>1, ShrinkAud DEF AudSweepNode
<1>10. ASSUME AudSweepList PROVE AudInv'
  <2>1. aud'.pc \in {"sweep", "query"}
    BY <1>4, <1>10 DEF AudSweepList, TypeOK, AudTypeOK, AuditState
  <2> QED
    BY <1>2, <1>10, <2>1, ShrinkAud DEF AudSweepList
<1>11. ASSUME AudSweepQuery PROVE AudInv'
  <2>1. aud'.pc = "prune" /\ \A x \in aud'.work : ~Referenced(x[2])
    BY <1>11 DEF AudSweepQuery, TypeOK, AudTypeOK, AuditState
  <2>2. UNCHANGED <<media, rows, stored>>
    BY <1>11 DEF AudSweepQuery, meshVars
  <2>3. RowsBacked'
    BY <1>2, <2>2, ShrinkBacked DEF AudInv
  <2>4. \A x \in aud'.work : ~Referenced(x[2])'
    BY <1>2, <2>1, <2>2, ShrinkReferenced
  <2> QED
    BY <1>2, <2>1, <2>2, <2>3, <2>4 DEF AudInv, Shrinks
<1>12. ASSUME AudSweepDelete PROVE AudInv'
  <2>1. Shrinks
    BY <1>2, <1>12 DEF AudSweepDelete
  <2>2. CASE Prefix(aud.prefix + 1) /\ UNCHANGED stored
    BY <1>4, <2>1, <2>2, ShrinkAud
  <2>3. ASSUME NEW x \in aud.work,
               RemoteDelete(x[1], x[2]) \/ UNCHANGED stored,
               aud' = [aud EXCEPT !.work = @ \ {x}]
        PROVE  AudInv'
    <3>1. x[1] \in Nodes /\ ~Referenced(x[2])
      BY <1>12 DEF AudSweepDelete, AudInv, TypeOK, AudTypeOK, AuditState
    <3>2. \A m \in Nodes : stored[m] \ {x[2]} \subseteq stored'[m]
      BY <2>3, <3>1, RemoteDeleteKeeps
    <3>3. aud'.pc = "prune" /\ aud'.work \subseteq aud.work
      BY <1>12, <2>3 DEF AudSweepDelete, TypeOK, AudTypeOK, AuditState
    <3>4. \A y \in aud'.work : ~Referenced(y[2])'
      BY <1>12, <2>1, <3>3, ShrinkReferenced DEF AudSweepDelete, AudInv
    <3>5. RowsBacked'
      <4> SUFFICES ASSUME Live, NEW i \in Idx, rows[i] # NoRow PROVE Backed(i)'
        BY <1>12 DEF RowsBacked, RowIdx, HasRow, Live, AudSweepDelete
      <4>1. Backed(i) /\ rows[i] \in Row
        BY DEF AudInv, RowsBacked, RowIdx, HasRow, TypeOK, MeshTypeOK
      <4>2. rows[i].node \in Nodes
        BY <4>1 DEF Row
      <4>3. <<rows[i].key, i>> # x[2]
        BY <3>1 DEF Referenced, RowIdx, HasRow
      <4> QED
        BY <1>12, <3>2, <4>1, <4>2, <4>3 DEF Backed, AudSweepDelete
    <3> QED
      BY <2>1, <3>3, <3>4, <3>5 DEF AudInv, Shrinks
  <2> QED
    BY <1>12, <2>2, <2>3 DEF AudSweepDelete
<1>13. ASSUME AudScan PROVE AudInv'
  <2>1. UNCHANGED <<media, rows, stored>>
    BY <1>13 DEF AudScan
  <2>2. CASE aud' = [NoAudit EXCEPT !.pc = "purge", !.full = TRUE, !.work = Orphaned]
    <3>1. aud'.pc = "purge" /\ aud'.work = Orphaned
      BY <2>2, NoAuditType DEF AuditState
    <3> QED
      BY <1>5, <2>1, <3>1
  <2>3. CASE aud' = [NoAudit EXCEPT !.pc = "check", !.todo = DueRows,
                        !.snap = [i \in Idx |-> IF i \in DueRows THEN rows[i] ELSE NoRow]]
    <3>1. aud'.pc = "check"
      BY <2>3, NoAuditType DEF AuditState
    <3> QED
      BY <1>2, <2>1, <3>1, ShrinkAud
  <2> QED
    BY <1>13, <2>2, <2>3 DEF AudScan
<1>14. ASSUME NEW i \in Idx, AudCheck(i) PROVE AudInv'
  <2>1. /\ UNCHANGED <<media, stored>>
        /\ \/ UNCHANGED rows
           \/ rows' = [rows EXCEPT ![i] = IF @ = NoRow THEN @ ELSE [@ EXCEPT !.age = 0]]
        /\ Dealt(i) \/ aud' = [aud EXCEPT !.pc = "repair", !.idx = i]
    BY <1>14 DEF AudCheck
  <2>2. aud'.pc \in {"idle", "fix", "check", "repair"}
    BY <1>3, <2>1 DEF TypeOK, AudTypeOK, AuditState
  <2>3. \A j \in Idx : rows'[j] # NoRow =>
          rows[j] # NoRow /\ rows'[j].node = rows[j].node /\ rows'[j].key = rows[j].key
    BY <2>1 DEF TypeOK, MeshTypeOK, Row
  <2>4. Shrinks
    BY <1>1, <2>1, <2>3 DEF Shrinks, Live, Exists, AudInv
  <2> QED
    BY <2>1, <2>2, <2>4, ShrinkAud
\* Nothing is deleted by a repair, and a confirmed shard is where it was put.
<1>15. ASSUME NEW i \in Idx, Repair(i) PROVE AudInv'
  <2>1. Shrinks
    BY <1>2, <1>15 DEF Repair
  <2>2. \A n \in Nodes : stored[n] \subseteq stored'[n]
    BY <1>15 DEF Repair, Store, TypeOK, MeshTypeOK
  <2>3. CASE Dealt(i)
    BY <1>3, <2>1, <2>2, <2>3, ShrinkAud
  <2>4. ASSUME NEW n \in Nodes, NEW key, NEW u, Store(n, <<key, i>>),
               aud' = [aud EXCEPT !.pc = "row", !.idx = i, !.target = n, !.key = key, !.update = u]
        PROVE  AudInv'
    <3>1. aud'.pc = "row" /\ aud'.idx = i /\ aud'.target = n /\ aud'.key = key
      BY <2>4 DEF TypeOK, AudTypeOK, AuditState
    <3>2. <<key, i>> \in stored'[n]
      BY <2>4 DEF Store, TypeOK, MeshTypeOK
    <3>3. RowsBacked'
      BY <2>1, <2>2, ShrinkBacked DEF AudInv
    <3> QED
      BY <2>1, <3>1, <3>2, <3>3 DEF AudInv, Shrinks
  <2> QED
    BY <1>15, <2>3, <2>4 DEF Repair
<1>16. aud.idx \in Idx
  BY DEF TypeOK, AudTypeOK, AuditState
<1>17. ASSUME AudRow PROVE AudInv'
  <2>1. aud.target \in Nodes /\ aud.key \in Keys /\ <<aud.key, aud.idx>> \in stored[aud.target]
    BY <1>17 DEF AudRow, AudInv, TypeOK, AudTypeOK
  <2>2. aud'.pc \in {"idle", "fix", "check"}
    BY <1>3, <1>16, <1>17 DEF AudRow
  <2>3. UNCHANGED <<media, stored>>
    BY <1>17 DEF AudRow
  <2>4. RowsBacked'
    <3> SUFFICES ASSUME Live, NEW j \in Idx, rows'[j] # NoRow PROVE Backed(j)'
      BY <2>3 DEF RowsBacked, RowIdx, HasRow, Live
    <3>1. CASE rows'[j] = rows[j]
      BY <2>3, <3>1 DEF AudInv, RowsBacked, RowIdx, HasRow, Backed
    <3>2. CASE j = aud.idx /\ rows'[j] = [node |-> aud.target, key |-> aud.key, age |-> 0]
      BY <2>1, <2>3, <3>2 DEF Backed
    <3> QED
      BY <1>16, <1>17, <3>1, <3>2 DEF AudRow, TypeOK, MeshTypeOK
  <2> QED
    BY <1>1, <2>2, <2>3, <2>4 DEF AudInv, Exists
<1>18. ASSUME AudCons PROVE AudInv'
  <2>1. aud'.pc \in {"idle", "fix"}
    BY <1>18, NoAuditType DEF AudCons, TypeOK, AudTypeOK, AuditState
  <2>2. \A o \in Owners : media'[o].st = media[o].st
    <3>1. CASE UpdateMedia(Unsynced)
      BY <3>1 DEF UpdateMedia, Unsynced, TypeOK, MeshTypeOK, Media
    <3> QED
      BY <1>18, <3>1 DEF AudCons
  <2>3. Shrinks
    BY <1>1, <1>18, <2>2 DEF AudCons, Shrinks, Live, Exists, AudInv
  <2> QED
    BY <1>18, <2>1, <2>3, ShrinkAud DEF AudCons
<1> QED
  BY <1>6, <1>7, <1>8, <1>9, <1>10, <1>11, <1>12, <1>13, <1>14, <1>15, <1>16, <1>17, <1>18
  DEF AuditStep, AudNext, AudRepair, AudFix

LEMMA ReplicateAud == AuditAlone /\ AudInv => ~Replicate
<1>1. AuditAlone /\ AudInv => ~(RepCycle \/ RepBatch)
  BY DEF AuditAlone, AudInv, OthersIdle, RepCycle, RepBatch
<1>2. ASSUME AudInv, NEW o \in Owners
      PROVE  ~(RepMissing(o) \/ RepCommit(o) \/ RepFail(o))
  BY <1>2 DEF AudInv, OthersIdle, RepMissing, RepCommit, RepFail, Uploaded
<1>3. ASSUME AudInv, NEW o \in Owners
      PROVE  (\A k : ~RepBegin(o, k)) /\ (\A i : ~RepStore(o, i))
  BY <1>3 DEF AudInv, OthersIdle, RepBegin, RepStore
<1> QED
  BY <1>1, <1>2, <1>3 DEF Replicate, RepNext

LEMMA MoveAud == AuditAlone /\ AudInv => ~Move
<1> SUFFICES ASSUME AuditAlone, AudInv, NEW m \in Movers, NEW i \in Idx
             PROVE  /\ ~(RebStart(m) \/ RebLoad(m) \/ RebDone(m))
                    /\ ~(RebSkip(m, i) \/ RebMove(m, i) \/ RebRow(m, i) \/ RebDel(m, i))
  BY IdxFacts DEF Move, RebNext
<1>1. ~RebStart(m)
  BY DEF AuditAlone, RebStart
<1>2. reb[m].pc = "idle"
  BY DEF AudInv, OthersIdle
<1> QED
  BY <1>1, <1>2 DEF RebLoad, RebSkip, RebMove, RebRow, RebDel, RebDone

\* The audit alone never breaks what it looks after: its purge deletes nothing of
\* a live file, its sweep nothing that a row names, its repair records only what
\* was uploaded, with users deleting and uploading, nodes leaving, requests lost
\* and restarts at any moment, for any number of nodes, owners and shards.
THEOREM AuditKeepsRows ==
  ASSUME AuditAlone
  PROVE  Spec => []RowsBacked
<1>1. AudInv /\ TypeOK /\ UNCHANGED vars => AudInv'
  <2> SUFFICES ASSUME AudInv, TypeOK, UNCHANGED vars PROVE AudInv'
    OBVIOUS
  <2>1. Shrinks
    BY DEF vars, Shrinks, Live, Exists, AudInv, OthersIdle
  <2> QED
    BY <2>1, ShrinkAud DEF vars
<1>2. TypeOK /\ AudInv /\ [Next]_vars => AudInv'
  BY <1>1, WorldAud, CrashAud, AuditAud, ReplicateAud, MoveAud DEF Next
<1>3. AudInv => RowsBacked
  BY DEF AudInv
<1>4. Init => AudInv
  BY InitAud
<1> QED
  BY <1>2, <1>3, <1>4, TypeCorrect, PTL DEF Spec

=============================================================================
