-------------------------- MODULE MembershipProofs --------------------------
(***************************************************************************)
(* Theorems of Membership, for every set of nodes, rendezvous order,       *)
(* eviction time and longest interval.                                     *)
(***************************************************************************)
EXTENDS Membership, FiniteSetTheorems, TLAPS

LEMMA AgedRange == \A l \in Nat : \A t \in 0 .. l : Aged(t, l) \in 0 .. l
  BY DEF Aged

LEMMA DoubledRange == \A t \in 1 .. MaxInterval : Doubled(t) \in 1 .. MaxInterval
  BY MembershipAssumption DEF Doubled

LEMMA RescheduleType ==
  ASSUME TypeOK, NEW w \in Sweepers, Reschedule(w)
  PROVE  /\ interval' \in [Sweepers -> 1 .. MaxInterval]
         /\ left' \in [Sweepers -> 0 .. MaxInterval]
<1>1. PICK t \in 1 .. MaxInterval :
        interval' = [interval EXCEPT ![w] = t] /\ left' = [left EXCEPT ![w] = t]
  <2>1. PICK didWork \in BOOLEAN :
          LET t == IF didWork THEN 1 ELSE Doubled(interval[w])
          IN  interval' = [interval EXCEPT ![w] = t] /\ left' = [left EXCEPT ![w] = t]
    BY DEF Reschedule
  <2>2. 1 \in 1 .. MaxInterval /\ Doubled(interval[w]) \in 1 .. MaxInterval
    BY MembershipAssumption, DoubledRange DEF TypeOK
  <2> QED
    BY <2>1, <2>2
<1> QED
  BY <1>1, MembershipAssumption DEF TypeOK

LEMMA TypeStep == TypeOK /\ [Next]_vars => TypeOK'
<1> SUFFICES ASSUME TypeOK, [Next]_vars PROVE TypeOK'
  OBVIOUS
<1> USE MembershipAssumption
<1>1. CASE Tick
  <2>1. cooling' \in BOOLEAN
    BY <1>1, Zenon DEF Tick
  <2>2. /\ regAge' \in [Nodes -> 0 .. TTL]
        /\ silent' \in [Nodes -> 0 .. Fresh]
        /\ seen' \in [Nodes -> 0 .. Fresh]
    BY <1>1, AgedRange DEF Tick, TypeOK
  <2> QED
    BY <1>1, <2>1, <2>2 DEF Tick, TypeOK
<1>2. ASSUME NEW n \in Nodes, Announce(n) \/ NodeDown(n) \/ NodeUp(n) PROVE TypeOK'
  BY <1>2 DEF Announce, NodeDown, NodeUp, TypeOK, historyVars
<1>3. CASE RebalanceRun
  <2>1. RegisteredActive \in [Nodes -> BOOLEAN]
    BY Zenon DEF RegisteredActive
  <2>2. regAge' \in [Nodes -> 0 .. TTL] /\ seen' \in [Nodes -> 0 .. Fresh]
    BY <1>3 DEF RebalanceRun, RegisteredSeen, SyncRegistry, TypeOK
  <2> QED
    BY <1>3, <2>1, <2>2, RescheduleType DEF RebalanceRun, TypeOK, Sweepers, historyVars
<1>4. CASE AuditRun
  BY <1>4, RescheduleType DEF AuditRun, SyncRegistry, TypeOK, Sweepers, historyVars
<1>5. CASE Requeue
  <2>1. synced' \in BOOLEAN
    BY <1>5, Zenon DEF Requeue
  <2> QED
    BY <1>5, <2>1 DEF Requeue, TypeOK, historyVars
<1>6. CASE Replicate
  <2> DEFINE to   == [i \in Idx |-> Target(Known, i)]
             kept == {i \in Idx : to[i] \in Known \cap up}
             done == Cardinality(kept) >= DATA_SHARDS
  <2>1. synced' = done
    BY <1>6 DEF Replicate
  <2>2. done \in BOOLEAN
    <3>1. IsFiniteSet(Idx)
      BY FS_Interval DEF Idx
    <3>2. Cardinality(kept) \in Nat
      BY <3>1, FS_Subset, FS_CardinalityType
    <3> QED
      BY <3>2
  <2>3. active' = [n \in Nodes |-> active[n] \/ (done /\ n \in {to[i] : i \in kept})]
    BY <1>6 DEF Replicate
  <2>4. active' \in [Nodes -> BOOLEAN]
    <3> HIDE DEF done, kept
    <3> QED
      BY <2>3, Zenon
  <2>5. seen' \in [Nodes -> 0 .. Fresh]
    BY <1>6 DEF Replicate, TypeOK
  <2>6. place' = [i \in Idx |-> IF done /\ i \in kept THEN to[i] ELSE place[i]]
    BY <1>6 DEF Replicate
  <2>7. place' \in [Idx -> Nodes]
    <3>1. \A i \in kept : to[i] \in Nodes
      BY DEF Known
    <3> HIDE DEF done, kept, to
    <3> QED
      BY <2>6, <3>1 DEF TypeOK
  <2>8. cooling' \in BOOLEAN
    BY <1>6, Zenon DEF Replicate
  <2>9. UNCHANGED <<up, regAge, interval, left, silent, heard, restarts>>
    BY <1>6 DEF Replicate, historyVars
  <2> HIDE DEF done, kept, to
  <2> QED
    BY <2>1, <2>2, <2>4, <2>5, <2>7, <2>8, <2>9 DEF TypeOK
<1>7. CASE Restart
  BY <1>7 DEF Restart, TypeOK
<1>8. CASE UNCHANGED vars
  BY <1>8 DEF vars, historyVars, TypeOK
<1> QED
  BY <1>1, <1>2, <1>3, <1>4, <1>5, <1>6, <1>7, <1>8 DEF Next

LEMMA TypeInit == Init => TypeOK
<1>1. Init => cooling \in BOOLEAN
  BY Zenon DEF Init
<1> QED
  BY <1>1, MembershipAssumption DEF Init, TypeOK

\* Every variable keeps its type; in particular no interval exceeds its maximum.
THEOREM TypeCorrect == Spec => []TypeOK
  BY TypeInit, TypeStep, PTL DEF Spec

\* The registry's entry of a node heard of within the last ten minutes, and since
\* the server started, is at least as fresh as the node's last announcement: other
\* workers may refresh it, nothing else ages it.
HeardInv == \A n \in heard : silent[n] < Fresh => regAge[n] =< silent[n]

LEMMA HeardStep == TypeOK /\ HeardInv /\ [Next]_vars => HeardInv'
<1> SUFFICES ASSUME TypeOK, HeardInv, [Next]_vars, NEW n \in heard', silent'[n] < Fresh
             PROVE  regAge'[n] =< silent'[n]
  BY DEF HeardInv
<1> USE MembershipAssumption DEF HeardInv, TypeOK
<1>1. CASE Tick
  <2>1. CASE n \in up
    BY <1>1, <2>1 DEF Tick
  <2>2. CASE n \notin up
    <3>1. n \in heard /\ n \in Nodes
      BY <1>1, <2>2 DEF Tick
    <3>2. silent'[n] = Aged(silent[n], Fresh) /\ regAge'[n] = Aged(regAge[n], TTL)
      BY <1>1, <2>2, <3>1 DEF Tick
    <3> QED
      BY <3>1, <3>2 DEF Aged
  <2> QED
    BY <2>1, <2>2
<1>2. ASSUME NEW m \in Nodes, Announce(m) \/ NodeDown(m) \/ NodeUp(m) PROVE regAge'[n] =< silent'[n]
  BY <1>2 DEF Announce, NodeDown, NodeUp, historyVars
<1>3. CASE RebalanceRun \/ AuditRun
  BY <1>3 DEF RebalanceRun, AuditRun, SyncRegistry, historyVars
<1>4. CASE Requeue \/ Replicate \/ UNCHANGED vars
  <2>1. UNCHANGED <<regAge, silent, heard>>
    BY <1>4 DEF Requeue, Replicate, vars, historyVars
  <2> QED
    BY <2>1
<1>5. CASE Restart
  BY <1>5 DEF Restart
<1> QED
  BY <1>1, <1>2, <1>3, <1>4, <1>5 DEF Next

LEMMA HeardInit == Init => HeardInv
  BY DEF Init, HeardInv

LEMMA RetireStep ==
    TypeOK /\ HeardInv /\ [Next]_vars
    => [\A n \in heard : active[n] /\ ~active'[n] => silent[n] >= Fresh]_vars
<1>1. ASSUME TypeOK, HeardInv, [Next]_vars, NEW n \in heard, active[n], ~active'[n]
      PROVE  silent[n] >= Fresh
  <2>0. n \in Nodes
    BY <1>1 DEF TypeOK
  <2>1. RebalanceRun
    BY <1>1, <2>0 DEF Next, vars, Tick, Announce, NodeDown, NodeUp, AuditRun, Requeue, Replicate, Restart
  <2>2. n \notin Known
    BY <1>1, <2>0, <2>1 DEF RebalanceRun, RegisteredActive
  <2> QED
    BY <1>1, <2>0, <2>2, MembershipAssumption DEF Known, HeardInv, TypeOK
<1> QED
  BY <1>1

\* No node heard of within the last ten minutes, and since the server started, is
\* retired, however long the workers slept and whatever they copied from one table
\* to the other.
THEOREM NoEarlyRetirement == Spec => RetiredOnlyWhenSilent
  BY HeardInit, RetireStep, HeardStep, TypeCorrect, PTL DEF Spec, RetiredOnlyWhenSilent

=============================================================================
