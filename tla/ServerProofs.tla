---------------------------- MODULE ServerProofs ----------------------------
(***************************************************************************)
(* Proofs about the parts of the home server that answer requests: the     *)
(* rate limiter, the duplicate worker and the groups it is shown for, the  *)
(* directory imports and the persons faces are grouped into, for any sets  *)
(* of addresses, pictures, files and faces and any limits; and that the    *)
(* parts, the database backup and the accounts among them, keep side by    *)
(* side what each keeps alone.                                             *)
(***************************************************************************)
EXTENDS MCServer, DbBackupProofs, AccountsProofs

-----------------------------------------------------------------------------
(* The rate limiter *)

LEMMA LimitFacts ==
    /\ MAX_TOKENS \in Nat /\ MAX_TOKENS > 0 /\ REFILL \in Nat
    /\ LOGIN_TOKENS \in Nat /\ LOGIN_TOKENS > 0 /\ LOGIN_TOKENS =< MAX_TOKENS
    /\ LOGIN_REFILL \in Nat /\ LOGIN_REFILL =< REFILL
    /\ STALE \in Nat /\ STALE > 0 /\ CLEANUP \in Nat /\ CLEANUP > 0
    /\ MAX_BUCKETS \in Nat /\ MAX_BUCKETS > 0
  BY RateLimitAssumption

\* A bucket untouched for as long as the sweep asks for is full.
LEMMA FullWhenStale == MAX_TOKENS =< STALE * REFILL
  BY RateLimitAssumption

LimitTyped == LimitTypeOK /\ IsFiniteSet(buckets)

\* What the sweep and the eviction leave is some of the buckets, at most as many as
\* there may be after one more; nothing that is kept has gone stale if it is gone.
LEMMA RoomFacts ==
    ASSUME LimitTyped, NEW a \in Addresses, NEW kept \in Room(a)
    PROVE  /\ kept \subseteq Swept /\ Swept \subseteq buckets
           /\ IsFiniteSet(kept \cup {a}) /\ Cardinality(kept \cup {a}) =< MAX_BUCKETS
           /\ a \in Swept => kept = Swept
           /\ \A b \in buckets \ Swept : age[b] = STALE
  <1>0. /\ buckets \subseteq Addresses /\ Cardinality(buckets) =< MAX_BUCKETS
        /\ IsFiniteSet(buckets) /\ age \in [Addresses -> 0 .. STALE]
    BY DEF LimitTyped, LimitTypeOK
  <1>1. Swept \subseteq buckets /\ \A b \in buckets \ Swept : age[b] = STALE
    BY <1>0, LimitFacts DEF Swept, Fresh
  <1>2. /\ IsFiniteSet(Swept) /\ Cardinality(Swept) \in Nat
        /\ Cardinality(Swept) =< MAX_BUCKETS
    <2>1. /\ IsFiniteSet(Swept) /\ Cardinality(Swept) \in Nat /\ Cardinality(buckets) \in Nat
          /\ Cardinality(Swept) =< Cardinality(buckets)
      BY <1>0, <1>1, FS_Subset, FS_CardinalityType
    <2>. QED  BY <1>0, <2>1, LimitFacts
  <1>3. CASE a \notin Swept /\ Cardinality(Swept) >= MAX_BUCKETS
    <2>1. PICK b \in Swept : kept = Swept \ {b}
      BY <1>3 DEF Room
    <2>2. IsFiniteSet(kept) /\ Cardinality(kept) = Cardinality(Swept) - 1
      BY <1>2, <2>1, FS_RemoveElement
    <2>3. /\ IsFiniteSet(kept \cup {a})
          /\ Cardinality(kept \cup {a}) = Cardinality(kept) + 1
      BY <1>3, <2>1, <2>2, FS_AddElement
    <2>. QED  BY <1>1, <1>2, <1>3, <2>1, <2>2, <2>3, LimitFacts
  <1>4. CASE a \in Swept
    <2>1. kept = Swept /\ kept \cup {a} = Swept
      BY <1>4 DEF Room
    <2>. QED  BY <1>1, <1>2, <2>1
  <1>5. CASE a \notin Swept /\ ~(Cardinality(Swept) >= MAX_BUCKETS)
    <2>1. kept = Swept
      BY <1>5 DEF Room
    <2>2. /\ IsFiniteSet(kept \cup {a})
          /\ Cardinality(kept \cup {a}) = Cardinality(kept) + 1
      BY <1>2, <1>5, <2>1, FS_AddElement
    <2>. QED  BY <1>1, <1>2, <1>5, <2>1, <2>2, LimitFacts
  <1>. QED  BY <1>3, <1>4, <1>5

\* The tokens an address would find, were its bucket refilled at the general rate.
Purse(a) == AtMost(amount[a] + age[a] * REFILL, MAX_TOKENS)

\* A bucket that is there has no more than one that is never dropped, and one that
\* was dropped was full, but for those evicted.
CreditInv ==
    /\ WithinRate
    /\ \A a \in Addresses \ evicted :
          /\ a \in buckets => Purse(a) =< credit[a]
          /\ a \notin buckets => credit[a] = MAX_TOKENS

\* Arithmetic of the refill.
LEMMA RefillFacts ==
    ASSUME NEW n \in Nat, NEW t \in Nat, NEW r \in Nat, r =< REFILL
    PROVE  /\ t * REFILL \in Nat /\ t * r \in Nat
           /\ t * r =< t * REFILL
           /\ (t + 1) * REFILL = t * REFILL + REFILL
  BY LimitFacts

LEMMA RefilledFacts ==
    ASSUME LimitTyped, CreditInv, NEW a \in Addresses, NEW kept \in Room(a), NEW login \in BOOLEAN,
           NEW level,
           level = Refilled(a, kept, IF login THEN LOGIN_TOKENS ELSE MAX_TOKENS,
                                      IF login THEN LOGIN_REFILL ELSE REFILL)
    PROVE  /\ level \in 0 .. MAX_TOKENS
           /\ a \notin evicted => level =< credit[a]
  <1> DEFINE max  == IF login THEN LOGIN_TOKENS ELSE MAX_TOKENS
             rate == IF login THEN LOGIN_REFILL ELSE REFILL
  <1>0. max \in Nat /\ max =< MAX_TOKENS /\ rate \in Nat /\ rate =< REFILL
    BY LimitFacts
  <1>1. amount[a] \in 0 .. MAX_TOKENS /\ age[a] \in 0 .. STALE /\ credit[a] \in 0 .. MAX_TOKENS
    BY DEF LimitTyped, LimitTypeOK
  <1>2. level = Refilled(a, kept, max, rate)
    OBVIOUS
  <1> HIDE DEF max, rate
  <1>3. PICK n \in Nat, t \in Nat : n = amount[a] /\ t = age[a]
    BY <1>1, LimitFacts
  <1>4. CASE a \in kept
    <2>1. level = AtMost(n + t * rate, max)
      BY <1>2, <1>3, <1>4 DEF Refilled
    <2>2. t * rate \in Nat /\ t * rate =< t * REFILL /\ t * REFILL \in Nat
      BY <1>0, RefillFacts
    <2>3. level \in Nat /\ level =< MAX_TOKENS /\ level =< AtMost(n + t * REFILL, MAX_TOKENS)
      BY <1>0, <2>1, <2>2, LimitFacts DEF AtMost
    <2>4. a \in buckets
      BY <1>4, RoomFacts
    <2>5. a \notin evicted => AtMost(n + t * REFILL, MAX_TOKENS) =< credit[a]
      BY <1>3, <2>4 DEF CreditInv, Purse
    <2>6. AtMost(n + t * REFILL, MAX_TOKENS) \in Nat
      BY <2>2, LimitFacts DEF AtMost
    <2>. QED  BY <1>1, <2>3, <2>5, <2>6, LimitFacts
  <1>5. CASE a \notin kept
    <2>1. level = max
      BY <1>2, <1>5 DEF Refilled
    <2>2. ASSUME a \notin evicted  PROVE credit[a] = MAX_TOKENS
      <3>1. CASE a \notin buckets
        BY <2>2, <3>1 DEF CreditInv
      <3>2. CASE a \in buckets
        <4>1. age[a] = STALE
          BY <1>5, <3>2, RoomFacts
        <4>2. AtMost(n + STALE * REFILL, MAX_TOKENS) = MAX_TOKENS
          <5>1. STALE * REFILL \in Nat
            BY LimitFacts
          <5>. QED  BY <5>1, LimitFacts, FullWhenStale DEF AtMost
        <4>3. Purse(a) = MAX_TOKENS
          BY <1>3, <4>1, <4>2 DEF Purse
        <4>. QED  BY <1>1, <2>2, <3>2, <4>3, LimitFacts DEF CreditInv
      <3>. QED  BY <3>1, <3>2
    <2>. QED  BY <1>0, <1>1, <2>1, <2>2, LimitFacts
  <1>. QED  BY <1>4, <1>5

LEMMA LimitTypedInit ==
    LimitInit => LimitTyped /\ CreditInv
  <1> SUFFICES ASSUME LimitInit PROVE LimitTyped /\ CreditInv
    OBVIOUS
  <1>1. IsFiniteSet(buckets) /\ Cardinality(buckets) = 0
    BY FS_EmptySet DEF LimitInit
  <1>2. LimitTypeOK
    BY <1>1, LimitFacts DEF LimitInit, LimitTypeOK
  <1>3. CreditInv
    BY DEF LimitInit, CreditInv, WithinRate
  <1>. QED  BY <1>1, <1>2, <1>3 DEF LimitTyped

LEMMA LimitTickStep ==
    ASSUME LimitTyped, CreditInv, LimitTick
    PROVE  LimitTyped' /\ CreditInv'
  <1>0. /\ buckets \subseteq Addresses /\ Cardinality(buckets) =< MAX_BUCKETS
        /\ IsFiniteSet(buckets) /\ over \subseteq Addresses /\ evicted \subseteq Addresses
        /\ amount \in [Addresses -> 0 .. MAX_TOKENS] /\ age \in [Addresses -> 0 .. STALE]
        /\ credit \in [Addresses -> 0 .. MAX_TOKENS] /\ cleanedAgo \in 0 .. CLEANUP
    BY Zenon DEF LimitTyped, LimitTypeOK
  <1>1. UNCHANGED <<buckets, amount, over, evicted>>
    BY DEF LimitTick
  <1>2. age' \in [Addresses -> 0 .. STALE]
    BY <1>0, LimitFacts DEF LimitTick, AtMost
  <1>3. credit' \in [Addresses -> 0 .. MAX_TOKENS]
    BY <1>0, LimitFacts DEF LimitTick, AtMost
  <1>4. cleanedAgo' \in 0 .. CLEANUP
    BY <1>0, LimitFacts DEF LimitTick, AtMost
  <1>5. LimitTyped'
    BY <1>0, <1>1, <1>2, <1>3, <1>4 DEF LimitTyped, LimitTypeOK
  <1>6. ASSUME NEW a \in Addresses \ evicted
        PROVE  /\ a \in buckets => Purse(a)' =< credit'[a]
               /\ a \notin buckets => credit'[a] = MAX_TOKENS
    <2>1. PICK n \in Nat, t \in Nat, c \in Nat :
             n = amount[a] /\ t = age[a] /\ c = credit[a] /\ t =< STALE /\ c =< MAX_TOKENS
      BY <1>0, LimitFacts
    <2>2. credit'[a] = AtMost(c + REFILL, MAX_TOKENS) /\ amount'[a] = n
      BY <1>1, <2>1 DEF LimitTick
    <2>3. CASE a \in buckets
      <3>1. age'[a] = AtMost(t + 1, STALE)
        BY <2>1, <2>3 DEF LimitTick
      <3>2. AtMost(n + t * REFILL, MAX_TOKENS) =< c
        BY <2>1, <2>3 DEF CreditInv, Purse
      <3>3. PICK r \in Nat, s \in Nat : r = t * REFILL /\ s = age'[a] * REFILL /\ s =< r + REFILL
        <4>1. t * REFILL \in Nat /\ (t + 1) * REFILL = t * REFILL + REFILL
          BY LimitFacts, RefillFacts
        <4>2. CASE t + 1 < STALE
          <5>1. age'[a] = t + 1
            BY <2>1, <3>1, <4>2, LimitFacts DEF AtMost
          <5>2. age'[a] * REFILL = t * REFILL + REFILL
            BY <4>1, <5>1
          <5>. QED  BY <4>1, <5>2, LimitFacts
        <4>3. CASE ~(t + 1 < STALE)
          <5>1. age'[a] = STALE /\ (STALE = t \/ STALE = t + 1)
            BY <2>1, <3>1, <4>3, LimitFacts DEF AtMost
          <5>. QED  BY <4>1, <5>1, LimitFacts
        <4>. QED  BY <4>2, <4>3
      <3>4. AtMost(n + s, MAX_TOKENS) =< AtMost(c + REFILL, MAX_TOKENS)
        BY <3>2, <3>3, LimitFacts DEF AtMost
      <3>. QED  BY <2>2, <2>3, <3>3, <3>4 DEF Purse
    <2>4. CASE a \notin buckets
      <3>1. c = MAX_TOKENS
        BY <2>1, <2>4 DEF CreditInv
      <3>. QED  BY <2>2, <2>4, <3>1, LimitFacts DEF AtMost
    <2>. QED  BY <2>3, <2>4
  <1>7. CreditInv'
    BY <1>1, <1>6 DEF CreditInv, WithinRate
  <1>. QED  BY <1>5, <1>7

LEMMA LimitRequestStep ==
    ASSUME LimitTyped, CreditInv, NEW a \in Addresses, NEW login \in BOOLEAN, LimitRequest(a, login)
    PROVE  LimitTyped' /\ CreditInv'
  <1>0. /\ buckets \subseteq Addresses /\ over \subseteq Addresses /\ evicted \subseteq Addresses
        /\ amount \in [Addresses -> 0 .. MAX_TOKENS] /\ age \in [Addresses -> 0 .. STALE]
        /\ credit \in [Addresses -> 0 .. MAX_TOKENS] /\ cleanedAgo \in 0 .. CLEANUP
    BY Zenon DEF LimitTyped, LimitTypeOK
  <1>1. PICK kept \in Room(a) : \E level :
          /\ level = Refilled(a, kept, IF login THEN LOGIN_TOKENS ELSE MAX_TOKENS,
                                        IF login THEN LOGIN_REFILL ELSE REFILL)
          /\ buckets' = kept \cup {a}
          /\ amount' = [amount EXCEPT ![a] = IF level >= 1 THEN level - 1 ELSE level]
          /\ age' = [age EXCEPT ![a] = 0]
          /\ cleanedAgo' = IF SweepDue THEN 0 ELSE cleanedAgo
          /\ credit' = [credit EXCEPT ![a] = IF level >= 1 /\ @ > 0 THEN @ - 1 ELSE @]
          /\ over' = IF level >= 1 /\ credit[a] = 0 THEN over \cup {a} ELSE over
          /\ evicted' = evicted \cup (Swept \ kept)
    BY DEF LimitRequest
  <1>2. PICK level :
          /\ level = Refilled(a, kept, IF login THEN LOGIN_TOKENS ELSE MAX_TOKENS,
                                        IF login THEN LOGIN_REFILL ELSE REFILL)
          /\ buckets' = kept \cup {a}
          /\ amount' = [amount EXCEPT ![a] = IF level >= 1 THEN level - 1 ELSE level]
          /\ age' = [age EXCEPT ![a] = 0]
          /\ cleanedAgo' = IF SweepDue THEN 0 ELSE cleanedAgo
          /\ credit' = [credit EXCEPT ![a] = IF level >= 1 /\ @ > 0 THEN @ - 1 ELSE @]
          /\ over' = IF level >= 1 /\ credit[a] = 0 THEN over \cup {a} ELSE over
          /\ evicted' = evicted \cup (Swept \ kept)
    BY <1>1
  <1>3. level \in 0 .. MAX_TOKENS /\ (a \notin evicted => level =< credit[a])
    BY <1>2, RefilledFacts
  <1>4. /\ kept \subseteq Swept /\ Swept \subseteq buckets
        /\ IsFiniteSet(kept \cup {a}) /\ Cardinality(kept \cup {a}) =< MAX_BUCKETS
        /\ \A b \in buckets \ Swept : age[b] = STALE
    BY RoomFacts
  <1>5. amount' \in [Addresses -> 0 .. MAX_TOKENS]
    BY <1>0, <1>2, <1>3, LimitFacts
  <1>6. age' \in [Addresses -> 0 .. STALE] /\ cleanedAgo' \in 0 .. CLEANUP
    BY <1>0, <1>2, LimitFacts
  <1>7. credit' \in [Addresses -> 0 .. MAX_TOKENS]
    BY <1>0, <1>2, LimitFacts
  <1>8. LimitTyped'
    BY <1>0, <1>2, <1>4, <1>5, <1>6, <1>7 DEF LimitTyped, LimitTypeOK
  <1>9. WithinRate'
    <2>1. CASE level >= 1 /\ credit[a] = 0
      <3>1. a \in evicted
        BY <1>3, <2>1, LimitFacts
      <3>. QED  BY <1>2, <3>1 DEF CreditInv, WithinRate
    <2>2. CASE ~(level >= 1 /\ credit[a] = 0)
      BY <1>2, <2>2 DEF CreditInv, WithinRate
    <2>. QED  BY <2>1, <2>2
  <1>10. ASSUME NEW b \in Addresses \ evicted'
         PROVE  /\ b \in buckets' => Purse(b)' =< credit'[b]
                /\ b \notin buckets' => credit'[b] = MAX_TOKENS
    <2>0. b \notin evicted /\ b \notin Swept \ kept
      BY <1>2
    <2>1. CASE b = a
      <3>1. PICK c \in Nat : c = credit[a] /\ c =< MAX_TOKENS /\ level =< c
        BY <1>0, <1>3, <2>0, <2>1, LimitFacts
      <3>2. /\ amount'[a] = IF level >= 1 THEN level - 1 ELSE level
            /\ age'[a] = 0
            /\ credit'[a] = IF level >= 1 /\ c > 0 THEN c - 1 ELSE c
        BY <1>0, <1>2, <3>1
      <3>3. 0 * REFILL = 0
        BY LimitFacts
      <3>4. Purse(a)' = AtMost((IF level >= 1 THEN level - 1 ELSE level) + 0, MAX_TOKENS)
        BY <3>2, <3>3 DEF Purse
      <3>5. Purse(a)' =< credit'[a]
        BY <1>3, <3>1, <3>2, <3>4, LimitFacts DEF AtMost
      <3>. QED  BY <1>2, <2>1, <3>5
    <2>2. CASE b # a
      <3>1. amount'[b] = amount[b] /\ age'[b] = age[b] /\ credit'[b] = credit[b]
        BY <1>0, <1>2, <2>2
      <3>2. Purse(b)' = Purse(b)
        BY <3>1 DEF Purse
      <3>3. CASE b \in kept
        BY <1>2, <1>4, <2>0, <3>1, <3>2, <3>3 DEF CreditInv
      <3>4. CASE b \notin buckets
        BY <1>2, <1>4, <2>0, <2>2, <3>1, <3>4 DEF CreditInv
      <3>5. CASE b \in buckets \ Swept
        <4>1. age[b] = STALE
          BY <1>4, <3>5
        <4>2. PICK n \in Nat : n = amount[b]
          BY <1>0, LimitFacts
        <4>3. AtMost(n + STALE * REFILL, MAX_TOKENS) = MAX_TOKENS
          <5>1. STALE * REFILL \in Nat
            BY LimitFacts
          <5>. QED  BY <5>1, LimitFacts, FullWhenStale DEF AtMost
        <4>4. Purse(b) = MAX_TOKENS
          BY <4>1, <4>2, <4>3 DEF Purse
        <4>5. Purse(b) =< credit[b] /\ credit[b] \in 0 .. MAX_TOKENS
          BY <1>0, <2>0, <3>5 DEF CreditInv
        <4>6. credit[b] = MAX_TOKENS
          BY <4>4, <4>5, LimitFacts
        <4>. QED  BY <1>2, <1>4, <2>2, <3>1, <3>5, <4>6
      <3>. QED  BY <1>4, <2>0, <3>3, <3>4, <3>5
    <2>. QED  BY <2>1, <2>2
  <1>. QED  BY <1>8, <1>9, <1>10 DEF CreditInv

\* Types and the credit invariant hold together along every behaviour of the limiter.
LEMMA LimitAlways == LimitSpec => [](LimitTyped /\ CreditInv)
  <1>1. LimitInit => LimitTyped /\ CreditInv
    BY LimitTypedInit
  <1>2. LimitTyped /\ CreditInv /\ [LimitNext]_limitVars => LimitTyped' /\ CreditInv'
    <2> SUFFICES ASSUME LimitTyped, CreditInv, [LimitNext]_limitVars
                 PROVE  LimitTyped' /\ CreditInv'
      OBVIOUS
    <2>1. CASE LimitTick
      BY <2>1, LimitTickStep
    <2>2. ASSUME NEW a \in Addresses, NEW login \in BOOLEAN, LimitRequest(a, login)
          PROVE  LimitTyped' /\ CreditInv'
      BY <2>2, LimitRequestStep
    <2>3. CASE UNCHANGED limitVars
      BY <2>3 DEF limitVars, LimitTyped, LimitTypeOK, CreditInv, WithinRate, Purse
    <2>. QED  BY <2>1, <2>2, <2>3 DEF LimitNext
  <1>. QED  BY <1>1, <1>2, PTL DEF LimitSpec

\* The state of the limiter is well typed, and the buckets never outgrow MAX_BUCKETS:
\* what the sweep and the eviction leave has room for the bucket of the request.
THEOREM LimitTypeCorrect == LimitSpec => []LimitTypeOK
  BY LimitAlways, PTL DEF LimitTyped

\* Nobody gets more than the limit by having stale buckets dropped or by mixing logins
\* with other requests: for any limits that STALE ticks refill, an address let through
\* beyond its level is one whose bucket was evicted.
THEOREM RateHolds == LimitSpec => []WithinRate
  BY LimitAlways, PTL DEF CreditInv

-----------------------------------------------------------------------------
(* The duplicate worker *)

LEMMA PairFacts ==
    ASSUME NEW p \in DOMAIN Similarity
    PROVE  p \subseteq Pics /\ p # {}
  <1>1. p \in SUBSET Pics /\ Cardinality(p) = 2
    BY DuplicatesAssumption DEF kSubset
  <1>. QED  BY <1>1, FS_EmptySet

\* The worker's place: what is in the batch or under comparison has an embedding and
\* does not count as checked, and the pairs still to insert are of that picture.
WorkerInv ==
    /\ checked \subseteq embedded /\ embedded \subseteq Pics
    /\ todo \subseteq embedded \ checked
    /\ askedPairs <=> exam # NoPic
    /\ exam # NoPic => exam \in embedded \ (checked \cup todo)
    /\ ~askedPairs => found = {}
    /\ found \subseteq PairsOf(exam)

\* PairsComplete, with the picture under comparison counting as checked already.
ComparedInv ==
    \A p \in DOMAIN Similarity :
        p \subseteq livePics \cap (checked \cup {exam}) => p \in pairs \cup lost \cup found

LEMMA ComparedInit == DupInit => WorkerInv /\ ComparedInv
  <1> SUFFICES ASSUME DupInit PROVE WorkerInv /\ ComparedInv
    OBVIOUS
  <1>1. WorkerInv
    BY DEF DupInit, WorkerInv
  <1>2. ComparedInv
    BY PairFacts, DuplicatesAssumption DEF DupInit, ComparedInv
  <1>. QED  BY <1>1, <1>2

LEMMA ComparedStep ==
    ASSUME WorkerInv, ComparedInv, [DupNext]_dupVars
    PROVE  WorkerInv' /\ ComparedInv'
  <1> USE DEF WorkerInv, ComparedInv
  <1>1. CASE FetchBatch
    BY <1>1 DEF FetchBatch, UncheckedPics, PairsOf
  <1>2. CASE MarkChecked
    BY <1>2, PairFacts, DuplicatesAssumption DEF MarkChecked, Event, PairsOf
  <1>3. CASE StopDuplicateWorker
    BY <1>3, PairFacts, DuplicatesAssumption DEF StopDuplicateWorker, Event, PairsOf
  <1>4. CASE ResetChecked
    BY <1>4 DEF ResetChecked, Event, PairsOf
  <1>5. CASE TruncatePairs
    BY <1>5, PairFacts DEF TruncatePairs, PairsOf
  <1>6. ASSUME NEW p \in DOMAIN Similarity, InsertPair(p)
        PROVE  WorkerInv' /\ ComparedInv'
    BY <1>6 DEF InsertPair, Event, PairsOf
  <1>7. ASSUME NEW i \in Pics, FindNeighbours(i)
        PROVE  WorkerInv' /\ ComparedInv'
    <2> DEFINE near == {p \in PairsOf(i) : p \subseteq (livePics \cap embedded) \cup {i}}
    <2>1. PICK S \in SUBSET near : found' = S /\ lost' = lost \cup (near \ S)
      BY <1>7 DEF FindNeighbours
    <2>2. /\ i \in todo /\ exam = NoPic /\ todo' = todo \ {i} /\ exam' = i /\ askedPairs'
          /\ UNCHANGED <<livePics, embedded, checked, pairs>>
      BY <1>7 DEF FindNeighbours
    <2>3. WorkerInv'
      BY <2>1, <2>2, DuplicatesAssumption DEF PairsOf
    <2>4. ASSUME NEW p \in DOMAIN Similarity, p \subseteq livePics \cap (checked \cup {i})
          PROVE  p \in pairs \cup lost' \cup found'
      <3>1. CASE i \in p
        BY <2>1, <2>4, <3>1 DEF PairsOf
      <3>2. CASE i \notin p
        BY <2>1, <2>2, <2>4, <3>2
      <3>. QED  BY <3>1, <3>2
    <2>. QED  BY <2>2, <2>3, <2>4
  <1>8. ASSUME NEW i \in Pics, NeighbourQueryFails(i)
        PROVE  WorkerInv' /\ ComparedInv'
    BY <1>8 DEF NeighbourQueryFails, Event, PairsOf
  <1>9. ASSUME NEW i \in Pics, EmbeddingStored(i)
        PROVE  WorkerInv' /\ ComparedInv'
    BY <1>9 DEF EmbeddingStored, PairsOf
  <1>10. ASSUME NEW i \in Pics, TrashPic(i)
        PROVE  WorkerInv' /\ ComparedInv'
    BY <1>10 DEF TrashPic, Event, PairsOf
  <1>11. ASSUME NEW i \in Pics, DropPairs(i)
        PROVE  WorkerInv' /\ ComparedInv'
    BY <1>11 DEF DropPairs, Event, PairsOf
  <1>12. ASSUME NEW i \in Pics, RestorePic(i)
        PROVE  WorkerInv' /\ ComparedInv'
    BY <1>12 DEF RestorePic, Unchecked, Event, PairsOf
  <1>13. ASSUME NEW i \in Pics, ReuploadPic(i)
        PROVE  WorkerInv' /\ ComparedInv'
    BY <1>13 DEF ReuploadPic, Event, PairsOf
  <1>14. CASE UNCHANGED dupVars
    BY <1>14 DEF dupVars, PairsOf
  <1>. QED  BY <1>1, <1>2, <1>3, <1>4, <1>5, <1>6, <1>7, <1>8, <1>9, <1>10, <1>11, <1>12,
               <1>13, <1>14 DEF DupNext, DupWorker, DupRequests

\* Whatever order the worker's statements and the requests come in, two similar live
\* pictures that count as checked have their pair stored, but for the pairs that a
\* failed statement or one of the recorded races has cost: process_batch marks a
\* picture only after its pairs, and what unmarks it brings it back to the batch.
THEOREM ComparedPairsKept == DupSpec => []PairsComplete
  <1>1. WorkerInv /\ ComparedInv => PairsComplete
    BY DEF WorkerInv, ComparedInv, PairsComplete, PairsOf
  <1>. QED  BY <1>1, ComparedInit, ComparedStep, PTL DEF DupSpec

\* The types that WorkerInv does not give.
DupTyped ==
    /\ livePics \subseteq Pics /\ dropping \subseteq Pics
    /\ pairs \subseteq DOMAIN Similarity /\ lost \subseteq DOMAIN Similarity
    /\ scanning \in Nat
    /\ events \in 0 .. MaxEvents

DupFlags == askedPairs \in BOOLEAN

LEMMA EventTyped ==
    ASSUME events \in 0 .. MaxEvents, Event
    PROVE  events' \in 0 .. MaxEvents
  BY DuplicatesAssumption DEF Event

LEMMA DupTypedInit == DupInit => DupTyped /\ DupFlags
  <1> SUFFICES ASSUME DupInit PROVE DupTyped /\ DupFlags
    OBVIOUS
  <1>1. DupTyped
    BY DuplicatesAssumption DEF DupInit, DupTyped
  <1>2. DupFlags
    BY Zenon DEF DupInit, DupFlags
  <1>. QED  BY <1>1, <1>2

LEMMA DupTypedStep ==
    ASSUME WorkerInv, DupTyped, [DupNext]_dupVars
    PROVE  DupTyped'
  <1> USE DEF DupTyped
  <1>1. CASE FetchBatch
    BY <1>1 DEF FetchBatch
  <1>2. CASE MarkChecked
    BY <1>2, EventTyped DEF MarkChecked
  <1>3. CASE StopDuplicateWorker
    BY <1>3, EventTyped DEF StopDuplicateWorker
  <1>4. CASE ResetChecked
    BY <1>4, EventTyped DEF ResetChecked
  <1>5. CASE TruncatePairs
    BY <1>5 DEF TruncatePairs
  <1>6. ASSUME NEW p \in DOMAIN Similarity, InsertPair(p)
        PROVE  DupTyped'
    BY <1>6, EventTyped DEF InsertPair
  <1>7. ASSUME NEW i \in Pics, FindNeighbours(i)
        PROVE  DupTyped'
    <2>1. lost' \subseteq DOMAIN Similarity /\ UNCHANGED <<livePics, pairs, dropping, scanning>>
      BY <1>7 DEF FindNeighbours, PairsOf
    <2>2. UNCHANGED events \/ Event
      BY <1>7 DEF FindNeighbours
    <2>. QED  BY <2>1, <2>2, EventTyped
  <1>8. ASSUME NEW i \in Pics, NeighbourQueryFails(i)
        PROVE  DupTyped'
    BY <1>8, EventTyped DEF NeighbourQueryFails, PairsOf
  <1>9. ASSUME NEW i \in Pics, EmbeddingStored(i)
        PROVE  DupTyped'
    BY <1>9 DEF EmbeddingStored
  <1>10. ASSUME NEW i \in Pics, TrashPic(i)
        PROVE  DupTyped'
    BY <1>10, EventTyped DEF TrashPic
  <1>11. ASSUME NEW i \in Pics, DropPairs(i)
        PROVE  DupTyped'
    BY <1>11, EventTyped DEF DropPairs
  <1>12. ASSUME NEW i \in Pics, RestorePic(i)
        PROVE  DupTyped'
    BY <1>12, EventTyped DEF RestorePic, PairsOf
  <1>13. ASSUME NEW i \in Pics, ReuploadPic(i)
        PROVE  DupTyped'
    BY <1>13, EventTyped DEF ReuploadPic, PairsOf
  <1>14. CASE UNCHANGED dupVars
    BY <1>14 DEF dupVars
  <1>. QED  BY <1>1, <1>2, <1>3, <1>4, <1>5, <1>6, <1>7, <1>8, <1>9, <1>10, <1>11, <1>12,
               <1>13, <1>14 DEF DupNext, DupWorker, DupRequests

LEMMA DupFlagsStep == DupFlags /\ [DupNext]_dupVars => DupFlags'
  BY Zenon DEF DupFlags, dupVars, DupNext, DupWorker, DupRequests, FetchBatch, MarkChecked, StopDuplicateWorker,
     ResetChecked, TruncatePairs, InsertPair, FindNeighbours, NeighbourQueryFails,
     EmbeddingStored, TrashPic, DropPairs, RestorePic, ReuploadPic

\* Type correctness of the duplicate worker and the requests around it, with what the
\* type invariant says of the worker: a checked picture has an embedding, and the pairs
\* it is about to insert are of the picture under comparison.
THEOREM DupTypeCorrect == DupSpec => []DupTypeOK
  <1>1. WorkerInv /\ DupTyped /\ DupFlags => DupTypeOK
    <2> SUFFICES ASSUME WorkerInv, DupTyped, DupFlags PROVE DupTypeOK
      OBVIOUS
    <2>1. askedPairs \in BOOLEAN
      BY Zenon DEF DupFlags
    <2>2. /\ checked \subseteq embedded /\ embedded \subseteq Pics /\ todo \subseteq Pics
          /\ exam \in Pics \cup {NoPic} /\ found \subseteq DOMAIN Similarity
      BY DEF WorkerInv, PairsOf
    <2>3. askedPairs => exam # NoPic /\ \A p \in found : exam \in p
      BY DEF WorkerInv, PairsOf
    <2>. QED  BY <2>1, <2>2, <2>3 DEF DupTyped, DupTypeOK
  <1>. QED  BY <1>1, ComparedInit, ComparedStep, DupTypedInit, DupTypedStep, DupFlagsStep,
               PTL DEF DupSpec

-----------------------------------------------------------------------------
(* The groups of duplicates *)

LEMMA PairEnds ==
    ASSUME NEW p \in DOMAIN Similarity
    PROVE  /\ HashA(p) \in Pics /\ HashB(p) \in Pics
           /\ p = {HashA(p), HashB(p)}
  <1>1. p \in SUBSET Pics /\ Cardinality(p) = 2
    BY DuplicatesAssumption DEF kSubset
  <1>2. IsFiniteSet(p)
    BY <1>1, DuplicatesAssumption, FS_Subset
  <1>3. HashA(p) \in p
    <2>1. \E x \in p : TRUE
      BY PairFacts
    <2>. QED  BY <2>1 DEF HashA
  <1>4. Cardinality(p \ {HashA(p)}) = 1
    <2>1. Cardinality(p \ {HashA(p)}) =
            IF HashA(p) \in p THEN Cardinality(p) - 1 ELSE Cardinality(p)
      BY <1>2, FS_RemoveElement, Zenon
    <2>. QED  BY <1>1, <1>3, <2>1
  <1>5. PICK y : p \ {HashA(p)} = {y}
    <2>1. IsFiniteSet(p \ {HashA(p)})
      BY <1>2, FS_RemoveElement
    <2>. QED  BY <1>4, <2>1, FS_Singleton
  <1>6. HashB(p) = y
    BY <1>5 DEF HashB
  <1>. QED  BY <1>1, <1>3, <1>5, <1>6

LEMMA ConnectedRefl ==
    ASSUME NEW P, NEW x
    PROVE  Connected(P, x, x)
  BY DEF Connected

LEMMA ConnectedSym ==
    ASSUME NEW P, NEW x, NEW y, Connected(P, x, y)
    PROVE  Connected(P, y, x)
  BY DEF Connected

LEMMA ConnectedTrans ==
    ASSUME NEW P, NEW x, NEW y, NEW z, Connected(P, x, y), Connected(P, y, z)
    PROVE  Connected(P, x, z)
  BY DEF Connected

LEMMA ConnectedMore ==
    ASSUME NEW P, NEW Q, P \subseteq Q, NEW x, NEW y, Connected(P, x, y)
    PROVE  Connected(Q, x, y)
  BY DEF Connected, Uncut

LEMMA ConnectedEnds ==
    ASSUME NEW P, NEW p \in P, NEW x \in p, NEW y \in p
    PROVE  Connected(P, x, y)
  BY DEF Connected, Uncut

LEMMA ConnectedNone ==
    ASSUME NEW x \in Pics, NEW y \in Pics, Connected({}, x, y)
    PROVE  x = y
  <1>1. Uncut({}, {x})
    BY DEF Uncut
  <1>. QED  BY <1>1 DEF Connected

LEMMA ClassUncut ==
    ASSUME NEW P \in SUBSET DOMAIN Similarity, NEW x
    PROVE  Uncut(P, {y \in Pics : Connected(P, x, y)})
  <1> DEFINE C == {y \in Pics : Connected(P, x, y)}
  <1> SUFFICES ASSUME NEW p \in P, NEW a \in p, a \in C, NEW b \in p PROVE b \in C
    BY DEF Uncut
  <1>1. Connected(P, a, b)
    BY ConnectedEnds
  <1>2. Connected(P, x, b)
    BY <1>1, ConnectedTrans
  <1>3. b \in Pics
    BY PairFacts
  <1>. QED  BY <1>2, <1>3

\* A new pair connects only what is connected with its ends already.
LEMMA NewlyConnected ==
    ASSUME NEW P \in SUBSET DOMAIN Similarity, NEW p \in DOMAIN Similarity,
           NEW r, NEW s, Connected(P, HashA(p), r), Connected(P, HashB(p), s),
           NEW x \in Pics, NEW y \in Pics,
           Connected(P \cup {p}, x, y), ~Connected(P, x, y)
    PROVE  /\ Connected(P, r, x) \/ Connected(P, s, x)
           /\ Connected(P, r, y) \/ Connected(P, s, y)
  <1> DEFINE A == {z \in Pics : Connected(P, r, z)}
             B == {z \in Pics : Connected(P, s, z)}
             C == A \cup B
  <1>1. Uncut(P, A) /\ Uncut(P, B)
    BY ClassUncut
  <1>2. Connected(P, r, HashA(p)) /\ Connected(P, s, HashB(p))
    BY ConnectedSym
  <1>3. p \subseteq C
    BY <1>2, PairEnds
  <1>4. Uncut(P, C) /\ C \in SUBSET Pics
    BY <1>1 DEF Uncut
  <1> HIDE DEF A, B, C
  <1>5. Uncut(P \cup {p}, C)
    BY <1>3, <1>4 DEF Uncut
  <1>6. x \in C <=> y \in C
    BY <1>4, <1>5 DEF Connected
  <1>7. ASSUME x \notin C, y \notin C PROVE FALSE
    <2>1. PICK S \in SUBSET Pics : Uncut(P, S) /\ ~(x \in S <=> y \in S)
      BY DEF Connected
    <2>2. Uncut(P \cup {p}, S \ C)
      BY <1>3, <1>4, <2>1 DEF Uncut
    <2>3. S \ C \in SUBSET Pics
      OBVIOUS
    <2>. QED  BY <1>7, <2>1, <2>2, <2>3 DEF Connected
  <1>8. x \in C /\ y \in C
    BY <1>6, <1>7
  <1>. QED  BY <1>8 DEF A, B, C

\* The pairs whose union is over.
United ==
    IF gpc = "unions" THEN given \ ahead
    ELSE IF gpc \in {"first", "second"} THEN given \ (ahead \cup {cur})
    ELSE given

\* The pairs whose similarity has been counted.
Weighed ==
    IF gpc \in {"unions", "first", "second"} THEN {}
    ELSE IF gpc = "scores" THEN given \ ahead
    ELSE IF gpc = "score" THEN given \ (ahead \cup {cur})
    ELSE given

\* The pictures that are in group_members.
Placed ==
    IF gpc = "members" THEN Hashes \ unplaced
    ELSE IF gpc = "member" THEN Hashes \ (unplaced \cup {pic})
    ELSE {}

Root(r) == parent[r] = r

\* The trees: a picture is connected with its parent, two roots are not, and the
\* rank grows on the way up.
ForestInv ==
    /\ \A x \in Pics : Connected(United, x, parent[x])
    /\ \A r, s \in Pics : Root(r) /\ Root(s) /\ Connected(United, r, s) => r = s
    /\ \A x \in Pics : ~Root(x) => rank[x] < rank[parent[x]]

\* A find has not left the component it started in.
FindInv ==
    /\ gpc \in {"first", "score"} => Connected(United, HashA(cur), cursor)
    /\ gpc = "second" => /\ Root(rx)
                         /\ Connected(United, HashA(cur), rx)
                         /\ Connected(United, HashB(cur), cursor)
    /\ gpc = "member" => Connected(United, pic, cursor)

\* A root's score is the greatest of the pairs counted in its component.
ScoreInv ==
    /\ \A p \in Weighed, r \in Pics :
          Root(r) /\ Connected(given, HashA(p), r) => Similarity[p] =< maxSim[r]
    /\ \A r \in Pics :
          \/ maxSim[r] = 0
          \/ \E p \in Weighed : Connected(given, HashA(p), r) /\ Similarity[p] = maxSim[r]

\* A root's members are the pictures of its component that have been placed.
MemberInv ==
    /\ \A r \in Pics : Root(r) => members[r] = {x \in Placed : Connected(given, x, r)}
    /\ \A r \in Pics : ~Root(r) => members[r] = {}
    /\ \A x \in Placed : \E r \in Pics : Root(r) /\ Connected(given, x, r)

GroupInv ==
    gpc \notin {"idle", "done"} => ForestInv /\ FindInv /\ ScoreInv /\ MemberInv

LEMMA GrpTypeInit == GrpInit => GrpTypeOK
  BY DEF GrpInit, GrpTypeOK, Finds

LEMMA GrpTypeStep ==
    ASSUME GrpTypeOK, livePics \subseteq Pics, pairs \subseteq DOMAIN Similarity, GrpStep
    PROVE  GrpTypeOK'
  <1> USE DEF GrpTypeOK, Finds, Hashes
  <1>1. CASE QueryPairs
    BY <1>1 DEF QueryPairs, ShownPairs
  <1>2. CASE Halve
    BY <1>2 DEF Halve
  <1>3. ASSUME NEW p \in ahead PROVE HashA(p) \in Pics /\ p \in given
    BY PairEnds
  <1>4. CASE NextPair("unions", "first")
    BY <1>3, <1>4 DEF NextPair
  <1>5. CASE FoundFirst
    <2>1. HashB(cur) \in Pics
      BY <1>5, PairEnds DEF FoundFirst
    <2>. QED  BY <1>5, <2>1 DEF FoundFirst
  <1>6. CASE FoundSecond
    BY <1>6 DEF FoundSecond, Link
  <1>7. CASE UnionsOver
    BY <1>7 DEF UnionsOver
  <1>8. CASE NextPair("scores", "score")
    BY <1>3, <1>8 DEF NextPair
  <1>9. CASE FoundScore
    <2>1. Similarity[cur] \in Nat
      BY <1>9, DuplicatesAssumption DEF FoundScore
    <2>. QED  BY <1>9, <2>1 DEF FoundScore
  <1>10. Hashes \subseteq Pics
    BY PairFacts
  <1>11. CASE ScoresOver
    BY <1>11 DEF ScoresOver
  <1>12. CASE NextMember
    BY <1>10, <1>12 DEF NextMember
  <1>13. CASE FoundMember
    BY <1>10, <1>13 DEF FoundMember
  <1>14. CASE QueryMeta
    <2>1. Hashes \cap livePics \subseteq Pics
      OBVIOUS
    <2>. QED  BY <1>14, <2>1 DEF QueryMeta
  <1>15. CASE QueryMetaFails
    BY <1>15 DEF QueryMetaFails
  <1>. QED  BY <1>1, <1>2, <1>4, <1>5, <1>6, <1>7, <1>8, <1>9, <1>11, <1>12, <1>13, <1>14,
               <1>15 DEF GrpStep

\* A fresh structure: every picture is its own tree, and no pair connects anything.
LEMMA QueryPairsGroups ==
    ASSUME QueryPairs
    PROVE  GroupInv' /\ GroupsExact'
  <1>1. CASE gpc' = "done"
    <2>1. given' = {} /\ groups' = {}
      BY <1>1 DEF QueryPairs
    <2>. QED  BY <1>1, <2>1 DEF GroupInv, GroupsExact, ShownGroups
  <1>2. CASE gpc' = "unions"
    <2>1. United' = {} /\ Weighed' = {} /\ Placed' = {}
      BY <1>2 DEF QueryPairs, United, Weighed, Placed
    <2>2. \A x \in Pics : parent'[x] = x /\ maxSim'[x] = 0 /\ members'[x] = {}
      BY DEF QueryPairs
    <2>3. ForestInv'
      BY <2>1, <2>2, ConnectedRefl, ConnectedNone DEF ForestInv, Root
    <2>4. FindInv'
      BY <1>2 DEF FindInv
    <2>5. ScoreInv' /\ MemberInv'
      BY <2>1, <2>2 DEF ScoreInv, MemberInv, Root
    <2>. QED  BY <1>2, <2>3, <2>4, <2>5 DEF GroupInv, GroupsExact
  <1>. QED  BY <1>1, <1>2 DEF QueryPairs

\* Halving moves a picture up within its component and leaves the roots.
LEMMA HalveGroups ==
    ASSUME GrpTypeOK, GroupInv, Halve
    PROVE  GroupInv'
  <1> DEFINE g == parent[parent[cursor]]
  <1>1. /\ cursor \in Pics /\ parent[cursor] \in Pics /\ g \in Pics
        /\ gpc \in Finds
        /\ parent \in [Pics -> Pics] /\ rank \in [Pics -> Nat]
    BY DEF GrpTypeOK, Halve
  <1>2. /\ parent[cursor] # cursor /\ parent' = [parent EXCEPT ![cursor] = g] /\ cursor' = g
        /\ UNCHANGED <<gpc, given, ahead, cur, unplaced, pic, rx, rank, maxSim, members>>
    BY DEF Halve, AtRoot
  <1>3. ForestInv /\ FindInv /\ ScoreInv /\ MemberInv
    BY <1>1 DEF GroupInv, Finds
  <1>4. rank[cursor] < rank[g]
    <2>1. rank[cursor] < rank[parent[cursor]]
      BY <1>1, <1>2, <1>3 DEF ForestInv, Root
    <2>2. rank[parent[cursor]] =< rank[g]
      BY <1>1, <1>3 DEF ForestInv, Root
    <2>. QED  BY <1>1, <2>1, <2>2
  <1>5. g # cursor
    BY <1>1, <1>4
  <1>6. Connected(United, cursor, g)
    BY <1>1, <1>3, ConnectedTrans DEF ForestInv
  <1> HIDE DEF g
  <1>7. \A x \in Pics : Root(x)' <=> Root(x)
    BY <1>1, <1>2, <1>5 DEF Root
  <1>8. United' = United /\ Weighed' = Weighed /\ Placed' = Placed
    BY <1>2 DEF United, Weighed, Placed, Hashes
  <1>9. ForestInv'
    <2>1. ASSUME NEW x \in Pics PROVE Connected(United', x, parent'[x])
      BY <1>1, <1>2, <1>3, <1>6, <1>8 DEF ForestInv
    <2>2. ASSUME NEW x \in Pics, ~Root(x)' PROVE rank'[x] < rank'[parent'[x]]
      BY <1>1, <1>2, <1>3, <1>4, <1>7, <2>2 DEF ForestInv
    <2>3. \A r, s \in Pics : Root(r)' /\ Root(s)' /\ Connected(United', r, s) => r = s
      BY <1>3, <1>7, <1>8 DEF ForestInv
    <2>. QED  BY <2>1, <2>2, <2>3 DEF ForestInv
  <1>10. FindInv'
    <2>1. gpc = "second" => Root(rx)'
      BY <1>2, <1>3, <1>7 DEF FindInv, GrpTypeOK
    <2>. QED  BY <1>2, <1>3, <1>6, <1>8, <2>1, ConnectedTrans DEF FindInv
  <1>11. ScoreInv'
    BY <1>2, <1>3, <1>7, <1>8 DEF ScoreInv
  <1>12. MemberInv'
    BY <1>2, <1>3, <1>7, <1>8 DEF MemberInv
  <1>. QED  BY <1>9, <1>10, <1>11, <1>12 DEF GroupInv

\* The parts of the invariant that a step leaves alone.
LEMMA SameTrees ==
    ASSUME UNCHANGED <<given, parent>>
    PROVE  /\ ForestInv /\ United' = United /\ rank' = rank => ForestInv'
           /\ ScoreInv /\ Weighed' = Weighed /\ maxSim' = maxSim => ScoreInv'
           /\ MemberInv /\ Placed' = Placed /\ members' = members => MemberInv'
  BY DEF ForestInv, ScoreInv, MemberInv, Root

\* The loops take up their next pair or picture, or end.
LEMMA LoopGroups ==
    ASSUME GrpTypeOK, GroupInv,
           \/ NextPair("unions", "first") \/ UnionsOver
           \/ NextPair("scores", "score") \/ ScoresOver \/ NextMember
    PROVE  GroupInv'
  <1>1. /\ gpc \in {"unions", "scores", "members"} /\ gpc' \notin {"idle", "done", "second"}
        /\ UNCHANGED <<given, parent, rank, maxSim, members>>
    BY DEF NextPair, UnionsOver, ScoresOver, NextMember
  <1>2. ForestInv /\ ScoreInv /\ MemberInv
    BY <1>1 DEF GroupInv
  <1>3. United' = United /\ Weighed' = Weighed
    <2>1. CASE NextPair("unions", "first")
      BY <2>1 DEF NextPair, United, Weighed, GrpTypeOK
    <2>2. CASE NextPair("scores", "score")
      BY <2>2 DEF NextPair, United, Weighed, GrpTypeOK
    <2>3. CASE UnionsOver \/ ScoresOver \/ NextMember
      BY <2>3 DEF UnionsOver, ScoresOver, NextMember, United, Weighed
    <2>. QED  BY <2>1, <2>2, <2>3
  <1>4. Placed' = Placed
    <2>1. CASE NextPair("unions", "first") \/ NextPair("scores", "score") \/ UnionsOver
      BY <2>1 DEF NextPair, UnionsOver, Placed
    <2>2. CASE ScoresOver \/ NextMember
      BY <2>2 DEF ScoresOver, NextMember, Placed, Hashes, GrpTypeOK
    <2>. QED  BY <2>1, <2>2
  <1>5. ForestInv' /\ ScoreInv' /\ MemberInv'
    BY <1>1, <1>2, <1>3, <1>4, SameTrees
  <1>6. /\ gpc' \in {"first", "score"} => cursor' = HashA(cur')
        /\ gpc' = "member" => cursor' = pic'
    BY DEF NextPair, UnionsOver, ScoresOver, NextMember
  <1>7. FindInv'
    BY <1>1, <1>6, ConnectedRefl DEF FindInv
  <1>. QED  BY <1>5, <1>7 DEF GroupInv

LEMMA FoundFirstGroups ==
    ASSUME GrpTypeOK, GroupInv, FoundFirst
    PROVE  GroupInv'
  <1>1. /\ gpc = "first" /\ gpc' = "second" /\ rx' = cursor /\ cursor' = HashB(cur)
        /\ parent[cursor] = cursor
        /\ UNCHANGED <<given, ahead, cur, parent, rank, maxSim, members>>
    BY DEF FoundFirst, AtRoot
  <1>2. ForestInv /\ ScoreInv /\ MemberInv /\ Connected(United, HashA(cur), cursor)
    BY <1>1 DEF GroupInv, FindInv
  <1>3. United' = United /\ Weighed' = Weighed /\ Placed' = Placed
    BY <1>1 DEF United, Weighed, Placed
  <1>4. ForestInv' /\ ScoreInv' /\ MemberInv'
    BY <1>1, <1>2, <1>3, SameTrees
  <1>5. FindInv'
    BY <1>1, <1>2, <1>3, ConnectedRefl DEF FindInv, Root
  <1>. QED  BY <1>4, <1>5 DEF GroupInv

\* A union makes one tree of two, and connects what its pair connects.
LEMMA FoundSecondGroups ==
    ASSUME GrpTypeOK, GroupInv, FoundSecond
    PROVE  GroupInv'
  <1> DEFINE P == United
             x == rx
             y == cursor
  <1>1. /\ gpc = "second" /\ gpc' = "unions" /\ Link(x, y)
        /\ Root(y)
        /\ UNCHANGED <<given, ahead, cur, maxSim, members>>
    BY DEF FoundSecond, AtRoot, Root
  <1>2. /\ x \in Pics /\ y \in Pics /\ cur \in DOMAIN Similarity /\ cur \in given \ ahead
        /\ P \in SUBSET DOMAIN Similarity
        /\ parent \in [Pics -> Pics] /\ rank \in [Pics -> Nat]
    BY <1>1 DEF GrpTypeOK, Finds, United
  <1>3. ForestInv /\ FindInv /\ ScoreInv /\ MemberInv
    BY <1>1 DEF GroupInv
  <1>4. Root(x) /\ Connected(P, HashA(cur), x) /\ Connected(P, HashB(cur), y)
    BY <1>1, <1>3 DEF FindInv
  <1>5. United' = P \cup {cur}
    BY <1>1, <1>2 DEF United
  <1>6. Weighed = {} /\ Weighed' = {} /\ Placed = {} /\ Placed' = {}
    BY <1>1 DEF Weighed, Placed
  <1> HIDE DEF P, x, y
  <1>7. Connected(United', x, y)
    <2>1. Connected(United', HashA(cur), x) /\ Connected(United', HashB(cur), y)
      BY <1>4, <1>5, ConnectedMore
    <2>2. Connected(United', HashA(cur), HashB(cur))
      BY <1>2, <1>5, PairEnds, ConnectedEnds
    <2>3. Connected(United', x, HashA(cur))
      BY <2>1, ConnectedSym
    <2>4. Connected(United', x, HashB(cur))
      BY <2>2, <2>3, ConnectedTrans
    <2>. QED  BY <2>1, <2>4, ConnectedTrans
  <1>8. Connected(United', y, x)
    BY <1>7, ConnectedSym
  <1>9. \A z \in Pics : Connected(United', z, parent[z])
    BY <1>3, <1>5, ConnectedMore DEF ForestInv, P
  \* Two old roots that the new pair connects are the two it joins.
  <1>10. ASSUME NEW r \in Pics, NEW s \in Pics, Root(r), Root(s), r # s, Connected(United', r, s)
         PROVE  x # y /\ {r, s} = {x, y}
    <2>1. ~Connected(P, r, s)
      BY <1>3, <1>10 DEF ForestInv, P
    <2>2. /\ Connected(P, x, r) \/ Connected(P, y, r)
          /\ Connected(P, x, s) \/ Connected(P, y, s)
      BY <1>2, <1>4, <1>5, <1>10, <2>1, NewlyConnected
    <2>3. r \in {x, y} /\ s \in {x, y}
      BY <1>1, <1>2, <1>3, <1>4, <1>10, <2>2 DEF ForestInv, P
    <2>. QED  BY <1>10, <2>3
  <1>11. CASE x = y
    <2>1. UNCHANGED <<parent, rank>>
      BY <1>1, <1>11 DEF Link
    <2>2. ForestInv'
      BY <1>3, <1>9, <1>10, <1>11, <2>1 DEF ForestInv, Root
    <2>3. ScoreInv' /\ MemberInv' /\ FindInv'
      BY <1>1, <1>3, <1>6, <2>1, SameTrees DEF FindInv
    <2>. QED  BY <2>2, <2>3 DEF GroupInv
  <1>12. ASSUME NEW t \in {x, y}, NEW u \in {x, y}, t # u,
                parent' = [parent EXCEPT ![t] = u],
                rank' \in [Pics -> Nat],
                \A z \in Pics \ {u} : rank'[z] = rank[z],
                rank[u] =< rank'[u], rank[t] < rank'[u]
         PROVE  GroupInv'
    <2>1. Root(t) /\ Root(u) /\ t \in Pics /\ u \in Pics
      BY <1>1, <1>2, <1>4
    <2>2. \A z \in Pics : Root(z)' <=> Root(z) /\ z # t
      BY <1>2, <1>12, <2>1 DEF Root
    <2>3. ASSUME NEW z \in Pics PROVE Connected(United', z, parent'[z])
      BY <1>2, <1>7, <1>8, <1>9, <1>12, <2>1
    <2>4. ASSUME NEW r \in Pics, NEW s \in Pics, Root(r)', Root(s)', Connected(United', r, s)
          PROVE  r = s
      BY <1>10, <1>12, <2>2, <2>4
    <2>5. ASSUME NEW z \in Pics, ~Root(z)' PROVE rank'[z] < rank'[parent'[z]]
      <3>1. CASE z = t
        BY <1>2, <1>12, <2>1, <3>1
      <3>2. CASE z # t
        <4>1. ~Root(z) /\ parent'[z] = parent[z] /\ z # u
          BY <1>2, <1>12, <2>1, <2>2, <2>5, <3>2
        <4>2. rank'[z] = rank[z] /\ rank[z] < rank[parent[z]] /\ parent[z] \in Pics
          BY <1>2, <1>3, <1>12, <4>1 DEF ForestInv
        <4>3. rank[parent[z]] =< rank'[parent[z]]
          BY <1>2, <1>12, <2>1, <4>2
        <4>. QED  BY <1>2, <1>12, <4>1, <4>2, <4>3
      <3>. QED  BY <3>1, <3>2
    <2>6. ForestInv'
      BY <2>3, <2>4, <2>5 DEF ForestInv
    <2>7. FindInv'
      BY <1>1 DEF FindInv
    <2>8. ScoreInv'
      BY <1>1, <1>3, <1>6 DEF ScoreInv
    <2>9. MemberInv'
      BY <1>1, <1>3, <1>6, <2>2 DEF MemberInv
    <2>. QED  BY <2>6, <2>7, <2>8, <2>9 DEF GroupInv
  <1>13. CASE x # y /\ rank[x] < rank[y]
    <2>1. parent' = [parent EXCEPT ![x] = y] /\ rank' = rank
      BY <1>1, <1>2, <1>13 DEF Link
    <2>. QED  BY <1>2, <1>12, <1>13, <2>1
  <1>14. CASE x # y /\ rank[x] >= rank[y]
    <2>1. /\ parent' = [parent EXCEPT ![y] = x]
          /\ rank' = IF rank[x] = rank[y] THEN [rank EXCEPT ![x] = @ + 1] ELSE rank
      BY <1>1, <1>2, <1>14 DEF Link
    <2>2. /\ rank' \in [Pics -> Nat]
          /\ \A z \in Pics \ {x} : rank'[z] = rank[z]
          /\ rank[x] =< rank'[x] /\ rank[y] < rank'[x]
      BY <1>2, <1>14, <2>1
    <2>. QED  BY <1>12, <1>14, <2>1, <2>2
  <1>. QED  BY <1>2, <1>11, <1>13, <1>14

LEMMA FoundScoreGroups ==
    ASSUME GrpTypeOK, GroupInv, FoundScore
    PROVE  GroupInv'
  <1>1. /\ gpc = "score" /\ gpc' = "scores" /\ Root(cursor)
        /\ maxSim' = [maxSim EXCEPT ![cursor] = IF Similarity[cur] > @ THEN Similarity[cur] ELSE @]
        /\ UNCHANGED <<given, ahead, parent, rank, members>>
    BY DEF FoundScore, AtRoot, Root
  <1>2. /\ cursor \in Pics /\ cur \in given \ ahead /\ maxSim \in [Pics -> Nat]
        /\ \A p \in given : Similarity[p] \in Nat
    BY <1>1, DuplicatesAssumption DEF GrpTypeOK, Finds
  <1>3. /\ ForestInv /\ ScoreInv /\ MemberInv /\ United = given
        /\ Connected(given, HashA(cur), cursor)
    BY <1>1 DEF GroupInv, FindInv, United
  <1>4. United' = United /\ Placed' = Placed /\ Weighed' = Weighed \cup {cur} /\ Weighed \subseteq given
    BY <1>1, <1>2 DEF United, Placed, Weighed
  <1>5. ForestInv' /\ MemberInv' /\ FindInv'
    BY <1>1, <1>3, <1>4, SameTrees DEF FindInv
  <1>6. ASSUME NEW p \in Weighed', NEW r \in Pics, Root(r), Connected(given, HashA(p), r)
        PROVE  Similarity[p] =< maxSim'[r]
    <2>1. CASE p = cur
      <3>1. Connected(given, r, cursor)
        BY <1>3, <1>6, <2>1, ConnectedSym, ConnectedTrans
      <3>2. r = cursor
        BY <1>1, <1>2, <1>3, <1>6, <3>1 DEF ForestInv
      <3>. QED  BY <1>1, <1>2, <2>1, <3>2
    <2>2. CASE p \in Weighed
      <3>1. Similarity[p] =< maxSim[r]
        BY <1>3, <1>6, <2>2 DEF ScoreInv
      <3>2. maxSim[r] =< maxSim'[r]
        BY <1>1, <1>2
      <3>3. maxSim[r] \in Nat /\ maxSim'[r] \in Nat /\ Similarity[p] \in Nat
        BY <1>1, <1>2, <1>4, <2>2
      <3>. QED  BY <3>1, <3>2, <3>3
    <2>. QED  BY <1>4, <2>1, <2>2
  <1>7. ASSUME NEW r \in Pics, maxSim'[r] # 0
        PROVE  \E p \in Weighed' : Connected(given, HashA(p), r) /\ Similarity[p] = maxSim'[r]
    <2>1. CASE maxSim'[r] = maxSim[r]
      BY <1>3, <1>4, <1>7, <2>1 DEF ScoreInv
    <2>2. CASE r = cursor /\ maxSim'[r] = Similarity[cur]
      BY <1>3, <1>4, <2>2
    <2>. QED  BY <1>1, <1>2, <2>1, <2>2
  <1>8. ScoreInv'
    BY <1>1, <1>6, <1>7 DEF ScoreInv, Root
  <1>. QED  BY <1>5, <1>8 DEF GroupInv

LEMMA FoundMemberGroups ==
    ASSUME GrpTypeOK, GroupInv, FoundMember
    PROVE  GroupInv'
  <1>1. /\ gpc = "member" /\ gpc' = "members" /\ Root(cursor)
        /\ members' = [members EXCEPT ![cursor] = @ \cup {pic}]
        /\ UNCHANGED <<given, unplaced, parent, rank, maxSim>>
    BY DEF FoundMember, AtRoot, Root
  <1>2. cursor \in Pics /\ pic \in Hashes \ unplaced /\ members \in [Pics -> SUBSET Pics]
    BY <1>1 DEF GrpTypeOK, Finds
  <1>3. /\ ForestInv /\ ScoreInv /\ MemberInv /\ United = given
        /\ Connected(given, pic, cursor)
    BY <1>1 DEF GroupInv, FindInv, United
  <1>4. United' = United /\ Weighed' = Weighed /\ Placed' = Placed \cup {pic}
    BY <1>1, <1>2 DEF United, Placed, Weighed, Hashes
  <1>5. ForestInv' /\ ScoreInv' /\ FindInv'
    BY <1>1, <1>3, <1>4, SameTrees DEF FindInv
  <1>6. ASSUME NEW r \in Pics, Root(r), Connected(given, pic, r) PROVE r = cursor
    <2>1. Connected(given, r, cursor)
      BY <1>3, <1>6, ConnectedSym, ConnectedTrans
    <2>. QED  BY <1>1, <1>2, <1>3, <1>6, <2>1 DEF ForestInv
  <1>7. ASSUME NEW r \in Pics, Root(r)
        PROVE  members'[r] = {z \in Placed' : Connected(given, z, r)}
    <2>1. members[r] = {z \in Placed : Connected(given, z, r)}
      BY <1>3, <1>7 DEF MemberInv
    <2>2. CASE r = cursor
      BY <1>1, <1>2, <1>3, <1>4, <2>1, <2>2
    <2>3. CASE r # cursor
      BY <1>1, <1>2, <1>4, <1>6, <1>7, <2>1, <2>3
    <2>. QED  BY <2>2, <2>3
  <1>8. \A r \in Pics : ~Root(r) => members'[r] = {}
    BY <1>1, <1>2, <1>3 DEF MemberInv
  <1>9. \A z \in Placed' : \E r \in Pics : Root(r) /\ Connected(given, z, r)
    BY <1>1, <1>2, <1>3, <1>4 DEF MemberInv
  <1>10. MemberInv'
    BY <1>1, <1>7, <1>8, <1>9 DEF MemberInv, Root
  <1>. QED  BY <1>5, <1>10 DEF GroupInv

LEMMA MaxIs ==
    ASSUME NEW S \in SUBSET Nat, NEW m \in S, \A n \in S : n =< m
    PROVE  Max(S) = m
  <1>1. Max(S) \in S /\ \A n \in S : Max(S) >= n
    BY DEF Max
  <1>2. Max(S) \in Nat /\ m \in Nat /\ Max(S) =< m /\ Max(S) >= m
    BY <1>1
  <1>. QED  BY <1>2

\* Once every pair is counted and every picture placed, the members of a root are
\* its component, and its score is the greatest of the component's pairs.
LEMMA RootsAreComponents ==
    ASSUME GrpTypeOK, GroupInv, gpc = "members", unplaced = {},
           NEW r \in Pics, Root(r), NEW x \in Hashes, Connected(given, x, r)
    PROVE  /\ members[r] = Component(given, x)
           /\ maxSim[r] = Max({Similarity[p] : p \in {q \in given : q \subseteq Component(given, x)}})
  <1> DEFINE C == Component(given, x)
             S == {Similarity[p] : p \in {q \in given : q \subseteq C}}
  <1>1. /\ ForestInv /\ ScoreInv /\ MemberInv
        /\ Placed = Hashes /\ Weighed = given
    BY DEF GroupInv, Placed, Weighed
  <1>2. /\ given \subseteq DOMAIN Similarity /\ maxSim[r] \in Nat
        /\ \A p \in given : Similarity[p] \in Nat
    BY DuplicatesAssumption DEF GrpTypeOK
  <1>3. \A y : Connected(given, x, y) <=> Connected(given, y, r)
    BY ConnectedSym, ConnectedTrans
  <1>4. members[r] = C
    BY <1>1, <1>3 DEF MemberInv, Component, Hashes
  \* A pair with one end in the component lies in it.
  <1>5. ASSUME NEW p \in given, NEW y \in p, Connected(given, y, r) PROVE p \subseteq C
    <2>1. ASSUME NEW z \in p PROVE z \in C
      <3>1. Connected(given, z, y)
        BY ConnectedEnds
      <3>2. Connected(given, z, r)
        BY <1>5, <3>1, ConnectedTrans
      <3>. QED  BY <1>3, <3>2 DEF Component
    <2>. QED  BY <2>1
  <1>6. ASSUME NEW p \in given, p \subseteq C PROVE Similarity[p] =< maxSim[r]
    <2>1. HashA(p) \in C
      BY <1>2, <1>6, PairEnds
    <2>2. Connected(given, HashA(p), r)
      BY <1>3, <2>1 DEF Component
    <2>. QED  BY <1>1, <2>2 DEF ScoreInv
  <1>7. maxSim[r] \in S
    <2>1. CASE maxSim[r] = 0
      <3>1. PICK p \in given : x \in p
        BY DEF Hashes
      <3>2. p \subseteq C
        BY <1>5, <3>1
      <3>3. Similarity[p] = 0
        BY <1>2, <1>6, <2>1, <3>2
      <3>. QED  BY <2>1, <3>2, <3>3
    <2>2. ASSUME NEW p \in given, Connected(given, HashA(p), r), Similarity[p] = maxSim[r]
          PROVE  maxSim[r] \in S
      <3>1. HashA(p) \in p
        BY <1>2, PairEnds
      <3>2. p \subseteq C
        BY <1>5, <2>2, <3>1
      <3>. QED  BY <2>2, <3>2
    <2>. QED  BY <1>1, <2>1, <2>2 DEF ScoreInv
  <1>8. S \in SUBSET Nat /\ \A n \in S : n =< maxSim[r]
    BY <1>2, <1>6
  <1>. QED  BY <1>4, <1>7, <1>8, MaxIs

LEMMA QueryMetaGroups ==
    ASSUME GrpTypeOK, GroupInv, QueryMeta
    PROVE  GroupsExact'
  <1> DEFINE Shown(D) == Cardinality(D \cap meta') >= 2
             Of(r) == [images |-> members[r] \cap meta', similarity |-> maxSim[r]]
             Comps == {Component(given, x) : x \in Hashes}
             Roots == {q \in Pics : Cardinality(members[q]) >= 2 /\ Shown(members[q])}
             Best(D) == Max({Similarity[p] : p \in {q \in given : q \subseteq D}})
             Group(D) == [images |-> D \cap meta', similarity |-> Best(D)]
  <1>1. /\ gpc = "members" /\ unplaced = {} /\ given' = given
        /\ groups' = {Of(r) : r \in Roots}
    BY DEF QueryMeta
  <1>2. /\ MemberInv /\ Placed = Hashes
        /\ \A D \in SUBSET Pics : IsFiniteSet(D)
    BY <1>1, DuplicatesAssumption, FS_Subset DEF GroupInv, Placed
  <1>3. ASSUME NEW r \in Roots PROVE \E D \in Comps : Shown(D) /\ Of(r) = Group(D)
    <2>1. r \in Pics /\ Cardinality(members[r]) >= 2 /\ Shown(members[r])
      BY <1>3
    <2>2. members[r] # {}
      BY <2>1, FS_EmptySet
    <2>3. Root(r) /\ members[r] = {z \in Hashes : Connected(given, z, r)}
      BY <1>2, <2>1, <2>2 DEF MemberInv
    <2>4. PICK x \in Hashes : Connected(given, x, r)
      BY <2>2, <2>3
    <2>5. members[r] = Component(given, x) /\ maxSim[r] = Best(Component(given, x))
      BY <1>1, <2>1, <2>3, <2>4, RootsAreComponents
    <2> HIDE DEF Best
    <2>6. Of(r) = Group(Component(given, x)) /\ Shown(Component(given, x))
      BY <2>1, <2>5
    <2>. QED  BY <2>6
  <1>4. ASSUME NEW x \in Hashes, Shown(Component(given, x))
        PROVE  \E r \in Roots : Of(r) = Group(Component(given, x))
    <2>1. PICK r \in Pics : Root(r) /\ Connected(given, x, r)
      BY <1>2 DEF MemberInv
    <2>2. members[r] = Component(given, x) /\ maxSim[r] = Best(Component(given, x))
      BY <1>1, <2>1, RootsAreComponents
    <2>3. Cardinality(members[r]) >= 2
      <3>1. members[r] \in SUBSET Pics /\ members[r] \cap meta' \in SUBSET members[r]
        BY DEF GrpTypeOK
      <3>2. IsFiniteSet(members[r])
        BY <1>2, <3>1
      <3>3. /\ Cardinality(members[r] \cap meta') =< Cardinality(members[r])
            /\ Cardinality(members[r]) \in Nat
            /\ Cardinality(members[r] \cap meta') \in Nat
        BY <3>1, <3>2, FS_Subset, FS_CardinalityType
      <3>. QED  BY <1>4, <2>2, <3>3
    <2> HIDE DEF Best
    <2>4. r \in Roots /\ Of(r) = Group(Component(given, x))
      BY <1>4, <2>2, <2>3
    <2>. QED  BY <2>4
  <1>5. groups' = {Group(C) : C \in {D \in Comps : Shown(D)}}
    <2> HIDE DEF Of, Group, Shown, Roots
    <2>1. {Of(r) : r \in Roots} \subseteq {Group(C) : C \in {D \in Comps : Shown(D)}}
      BY <1>3
    <2>2. {Group(C) : C \in {D \in Comps : Shown(D)}} \subseteq {Of(r) : r \in Roots}
      BY <1>4
    <2>. QED  BY <1>1, <2>1, <2>2
  <1>6. groups' = ShownGroups(given, meta')
    BY <1>5 DEF ShownGroups, ShownGroup, Hashes
  <1>. QED  BY <1>1, <1>6 DEF GroupsExact

GroupsInv == GrpTypeOK /\ GroupInv /\ GroupsExact

LEMMA GroupsStep ==
    ASSUME GroupsInv, livePics \subseteq Pics, pairs \subseteq DOMAIN Similarity,
           GrpStep \/ UNCHANGED grpVars
    PROVE  GroupsInv'
  <1> USE DEF GroupsInv
  <1>1. CASE UNCHANGED grpVars
    <2>1. GrpTypeOK' /\ GroupsExact'
      BY <1>1 DEF grpVars, GrpTypeOK, GroupsExact, Hashes
    <2>2. GroupInv'
      <3>1. United' = United /\ Weighed' = Weighed /\ Placed' = Placed
        BY <1>1 DEF grpVars, United, Weighed, Placed, Hashes
      <3>2. FindInv => FindInv'
        BY <1>1, <3>1 DEF grpVars, FindInv, Root
      <3>. QED  BY <1>1, <3>1, <3>2, SameTrees DEF grpVars, GroupInv
    <2>. QED  BY <2>1, <2>2
  <1>2. CASE GrpStep
    <2>1. GrpTypeOK'
      BY <1>2, GrpTypeStep
    <2>2. CASE QueryPairs
      BY <2>1, <2>2, QueryPairsGroups
    <2>3. CASE QueryMeta
      <3>1. GroupInv'
        BY <2>3 DEF QueryMeta, GroupInv
      <3>. QED  BY <2>1, <2>3, <3>1, QueryMetaGroups
    <2>4. CASE QueryMetaFails
      BY <2>1, <2>4 DEF QueryMetaFails, GroupInv, GroupsExact
    <2>5. ASSUME GroupInv', gpc' # "done" PROVE GroupsInv'
      BY <2>1, <2>5 DEF GroupsExact
    <2>6. CASE Halve
      BY <2>5, <2>6, HalveGroups DEF Halve, Finds
    <2>7. CASE \/ NextPair("unions", "first") \/ UnionsOver
               \/ NextPair("scores", "score") \/ ScoresOver \/ NextMember
      <3>1. gpc' # "done"
        BY <2>7 DEF NextPair, UnionsOver, ScoresOver, NextMember
      <3>. QED  BY <2>5, <2>7, <3>1, LoopGroups
    <2>8. CASE FoundFirst
      BY <2>5, <2>8, FoundFirstGroups DEF FoundFirst
    <2>9. CASE FoundSecond
      BY <2>5, <2>9, FoundSecondGroups DEF FoundSecond
    <2>10. CASE FoundScore
      BY <2>5, <2>10, FoundScoreGroups DEF FoundScore
    <2>11. CASE FoundMember
      BY <2>5, <2>11, FoundMemberGroups DEF FoundMember
    <2>. QED  BY <1>2, <2>2, <2>3, <2>4, <2>6, <2>7, <2>8, <2>9, <2>10, <2>11 DEF GrpStep
  <1>. QED  BY <1>1, <1>2

LEMMA GroupsAlways == GroupsSpec => []GroupsInv
  <1> DEFINE Tables == WorkerInv /\ ComparedInv /\ DupTyped
  <1>1. DupInit /\ GrpInit => Tables /\ GroupsInv
    <2>1. GrpInit => GroupInv /\ GroupsExact
      BY DEF GrpInit, GroupInv, GroupsExact
    <2>. QED  BY <2>1, ComparedInit, DupTypedInit, GrpTypeInit DEF GroupsInv
  <1>2. Tables /\ GroupsInv /\ [GroupsNext]_<<dupVars, grpVars>> => Tables' /\ GroupsInv'
    <2> SUFFICES ASSUME Tables, GroupsInv, [GroupsNext]_<<dupVars, grpVars>>
                 PROVE  Tables' /\ GroupsInv'
      OBVIOUS
    <2>1. [DupNext]_dupVars /\ (GrpStep \/ UNCHANGED grpVars)
      BY DEF GroupsNext
    <2>2. livePics \subseteq Pics /\ pairs \subseteq DOMAIN Similarity
      BY DEF DupTyped
    <2>. QED  BY <2>1, <2>2, ComparedStep, DupTypedStep, GroupsStep
  <1>. QED  BY <1>1, <1>2, PTL DEF GroupsSpec

\* For any pictures and pairs, in any order and with trees of any shape, the groups
\* that get_duplicates returns are the connected components of the pairs it read,
\* each with the greatest similarity of its pairs, restricted to the pictures still
\* live at the second query; the worker, the trash and a scan may change the tables
\* at any moment between.
THEOREM GroupsAreComponents == GroupsSpec => []GroupsExact
  BY GroupsAlways, PTL DEF GroupsInv

-----------------------------------------------------------------------------
(* Faces and persons *)

\* The rows: a face has no person or one that is there, and the numbers of persons
\* that are there have been given out.
PersonRowsInv ==
    /\ created \in 0 .. MaxPersons
    /\ stored \subseteq Faces /\ persons \subseteq 1 .. created
    /\ personOf \in [Faces -> {NoPerson} \cup persons]
    /\ \A f \in Faces \ stored : personOf[f] = NoPerson

\* The clustering pass has in hand, or still before it, stored faces; those it has
\* not assigned have no person.
ClusterInv ==
    /\ clusterAt \in {"idle", "find", "assign", "stats", "waiting"}
    /\ faceView \subseteq stored /\ queue \subseteq stored
    /\ \A f \in queue : personOf[f] = NoPerson
    /\ clusterAt \in {"idle", "find"} => inHand = NoFace /\ chosen = NoPerson
    /\ clusterAt \notin {"idle", "find"} => inHand \in stored \ queue /\ chosen \in 1 .. created
    /\ clusterAt = "assign" => personOf[inHand] = NoPerson

\* The statements after which a merge has read the faces of its sources; after which
\* it has written those it moves.
SeenAt == {"moving", "moved", "counting", "counted"}
MovedAt == {"moved", "counting", "counted"}

\* A merge r: once it has seen the faces of its sources, what they get is loose; the
\* faces it has moved are in no other hand, and keep their sources and its target; what
\* it has counted are the faces of its target, unless others came since.
MergeFine(r) ==
    /\ r \in Merges /\ r.faces \subseteq stored /\ r.counted \subseteq stored
    /\ r.target \in 0 .. created /\ r.target \notin r.sources
    /\ r.at \in SeenAt => \A f \in stored : personOf[f] \in r.sources => f \in r.faces \cup loose
    /\ r.at \in MovedAt => \A f \in r.faces : personOf[f] \in r.sources /\ r.target \in persons
    /\ r.at \in {"counting", "counted"} /\ ~r.late /\ r.target \in persons
          => r.counted = FacesOf(r.target) \cup r.faces

\* Two merges do not have one face in hand.
Apart(r, q) == r.at \in MovedAt /\ q.at \in MovedAt => r.faces \cap q.faces = {}

MergeInv ==
    /\ merges \in [RequestIds -> Merges] /\ loose \subseteq Faces
    /\ \A m \in RequestIds : MergeFine(merges[m])
    /\ \A m, o \in RequestIds : m # o => Apart(merges[m], merges[o])

\* The representative that was checked is a face of the person as long as that is there.
PickInv ==
    /\ picking \in [person : 0 .. created, face : stored \cup {NoFace}]
    /\ picking.person \in persons => picking.face \in FacesOf(picking.person)

PersonInv == PersonRowsInv /\ ClusterInv /\ MergeInv /\ PickInv

LEMMA PersonConstants ==
    /\ IsFiniteSet(Faces) /\ NoFace \notin Faces /\ NoPerson = 0
    /\ MaxPersons \in Nat /\ PersonIds = 1 .. MaxPersons
  BY PersonsAssumption DEF NoPerson, PersonIds

LEMMA PersonIdFacts ==
    ASSUME PersonRowsInv
    PROVE  /\ created \in Nat /\ created =< MaxPersons /\ created + 1 \notin 1 .. created
           /\ 1 .. created \subseteq 1 .. (created + 1)
           /\ NoPerson \notin 1 .. created
           /\ 1 .. created \subseteq PersonIds
           /\ created < MaxPersons => created + 1 \in PersonIds
           /\ NoPerson \notin persons
  <1>1. created \in 0 .. MaxPersons /\ persons \subseteq 1 .. created
    BY DEF PersonRowsInv
  <1>. QED  BY <1>1, PersonConstants

LEMMA LateMerge ==
    ASSUME NEW r \in Merges
    PROVE  LET q == [r EXCEPT !.late = TRUE]
           IN  /\ q \in Merges /\ q.at = r.at /\ q.faces = r.faces
               /\ q.sources = r.sources /\ q.target = r.target /\ q.counted = r.counted
               /\ q.late = TRUE
  BY DEF Merges

LEMMA NoMergeFields ==
    /\ NoMerge \in Merges /\ NoMerge.at = "none" /\ NoMerge.faces = {} /\ NoMerge.sources = {}
    /\ NoMerge.counted = {} /\ NoMerge.target = NoPerson /\ NoMerge.late = FALSE
  BY DEF NoMerge, Merges

LEMMA NoMergeFine == PersonRowsInv => MergeFine(NoMerge)
  BY NoMergeFields, PersonConstants DEF PersonRowsInv, MergeFine, SeenAt, MovedAt

\* A step that leaves the rows alone leaves alone what holds of a merge.
LEMMA MergeFineKept ==
    ASSUME NEW r, MergeFine(r), UNCHANGED <<stored, personOf, persons, created, loose>>
    PROVE  MergeFine(r)'
  BY DEF MergeFine, FacesOf

\* A step that changes one merge, into one that is fine and apart from the others.
LEMMA OneMerge ==
    ASSUME MergeInv, NEW m \in RequestIds, NEW q, merges' = [merges EXCEPT ![m] = q],
           UNCHANGED <<stored, personOf, persons, created, loose>>,
           MergeFine(q), \A o \in RequestIds \ {m} : Apart(q, merges[o])
    PROVE  MergeInv'
  <1>1. /\ \A o \in RequestIds \ {m} : merges'[o] = merges[o]
        /\ merges'[m] = q /\ q \in Merges /\ merges' \in [RequestIds -> Merges]
    BY DEF MergeInv, MergeFine
  <1>2. ASSUME NEW o \in RequestIds PROVE MergeFine(merges[o])'
    <2>1. PICK r : r = merges'[o]
      OBVIOUS
    <2>2. MergeFine(r)
      BY <1>1, <2>1 DEF MergeInv
    <2>3. MergeFine(r)'
      BY <2>2, MergeFineKept
    <2>. QED  BY <2>1, <2>3 DEF MergeFine, FacesOf
  <1>3. \A n, o \in RequestIds : n # o => Apart(merges'[n], merges'[o])
    BY <1>1 DEF MergeInv, Apart
  <1>. QED  BY <1>1, <1>2, <1>3 DEF MergeInv, Apart, MergeFine, FacesOf

LEMMA PersonInvInit == PersonInit => PersonInv
  <1> SUFFICES ASSUME PersonInit PROVE PersonInv
    OBVIOUS
  <1>1. PersonRowsInv
    BY PersonConstants DEF PersonInit, PersonRowsInv
  <1>2. ClusterInv
    BY DEF PersonInit, ClusterInv
  <1>3. MergeInv
    <2>1. /\ merges \in [RequestIds -> Merges] /\ loose = {}
          /\ \A m \in RequestIds : merges[m] = NoMerge
      BY NoMergeFields DEF PersonInit
    <2>. QED  BY <1>1, <2>1, NoMergeFine, NoMergeFields DEF MergeInv, Apart, MovedAt
  <1>4. PickInv
    BY <1>1, PersonConstants DEF PersonInit, PickInv, NoPick, NoPerson, PersonRowsInv
  <1>. QED  BY <1>1, <1>2, <1>3, <1>4 DEF PersonInv

\* A step that leaves the faces, the persons and the merges alone.
LEMMA MergesUntouched ==
    ASSUME MergeInv, UNCHANGED <<stored, personOf, persons, created, loose, merges>>
    PROVE  MergeInv'
  BY DEF MergeInv, MergeFine, Apart, FacesOf

LEMMA StoreFaceInv ==
    ASSUME PersonInv, NEW f \in Faces, StoreFace(f)
    PROVE  PersonInv'
  <1>0. PersonRowsInv /\ ClusterInv /\ MergeInv /\ PickInv /\ personOf[f] = NoPerson
    BY DEF PersonInv, PersonRowsInv, StoreFace
  <1>1. /\ stored' = stored \cup {f} /\ stored \subseteq stored'
        /\ UNCHANGED <<personOf, persons, merges, loose, created, picking>>
    BY DEF StoreFace
  <1>2. ASSUME NEW r, MergeFine(r) PROVE MergeFine(r)'
    <2>1. r \in Merges /\ NoPerson \notin r.sources
      BY <1>2, PersonConstants DEF MergeFine, Merges
    <2>2. r.target \in persons => FacesOf(r.target)' = FacesOf(r.target)
      BY <1>0, <1>1, PersonIdFacts DEF FacesOf
    <2>. QED  BY <1>0, <1>1, <1>2, <2>1, <2>2 DEF MergeFine
  <1>3. MergeInv'
    <2>1. ASSUME NEW m \in RequestIds PROVE MergeFine(merges[m])'
      <3>1. PICK r : r = merges[m]
        OBVIOUS
      <3>2. MergeFine(r)'
        BY <1>0, <1>2, <3>1 DEF MergeInv
      <3>. QED  BY <1>1, <3>1, <3>2 DEF MergeFine, FacesOf
    <2>. QED  BY <1>0, <1>1, <2>1 DEF MergeInv, Apart
  <1>4. ClusterInv'
    BY <1>0 DEF StoreFace, ClusterInv
  <1>5. PickInv'
    BY <1>0, <1>1 DEF PickInv, FacesOf
  <1>. QED  BY <1>0, <1>1, <1>3, <1>4, <1>5 DEF PersonInv, PersonRowsInv

LEMMA CreatePersonInv ==
    ASSUME PersonInv, NEW f \in Faces, CreatePerson(f)
    PROVE  PersonInv'
  <1>a. PersonRowsInv /\ ClusterInv /\ MergeInv /\ PickInv
    BY DEF PersonInv
  <1>0. /\ created < MaxPersons /\ created' = created + 1 /\ chosen' = created + 1
        /\ persons' = persons \cup {created + 1}
        /\ UNCHANGED <<faceView, stored, personOf, merges, picking, loose>>
    BY DEF CreatePerson
  <1>b. created + 1 \notin persons /\ created \in Nat
    BY <1>a, PersonIdFacts DEF PersonRowsInv
  <1>1. PersonRowsInv'
    <2>1. created + 1 \in 0 .. MaxPersons /\ created + 1 \in 1 .. (created + 1)
      BY <1>a, <1>0, PersonIdFacts, PersonConstants
    <2>. QED  BY <1>a, <1>0, <2>1, PersonIdFacts DEF PersonRowsInv
  <1>2. ClusterInv'
    BY <1>a, <1>0, PersonIdFacts DEF CreatePerson, ClusterInv
  <1>3. ASSUME NEW r, MergeFine(r) PROVE MergeFine(r)'
    <2>1. r.target \in 0 .. created' /\ r.target # created + 1
      <3>1. r.target \in 0 .. created
        BY <1>3 DEF MergeFine
      <3>. QED  BY <1>0, <1>b, <3>1
    <2>2. r.target \in persons' <=> r.target \in persons
      BY <1>0, <2>1
    <2>. QED  BY <1>0, <1>3, <2>1, <2>2 DEF MergeFine, FacesOf
  <1>4. MergeInv'
    <2>1. ASSUME NEW m \in RequestIds PROVE MergeFine(merges[m])'
      <3>1. PICK r : r = merges[m]
        OBVIOUS
      <3>2. MergeFine(r)'
        BY <1>a, <1>3, <3>1 DEF MergeInv
      <3>. QED  BY <1>0, <3>1, <3>2 DEF MergeFine, FacesOf
    <2>. QED  BY <1>a, <1>0, <2>1 DEF MergeInv, Apart
  <1>5. PickInv'
    BY <1>a, <1>0, PersonIdFacts DEF PickInv, FacesOf
  <1>. QED  BY <1>1, <1>2, <1>4, <1>5 DEF PersonInv

\* What Overtaken makes of a merge.
LEMMA OvertakenFacts ==
    ASSUME NEW p, NEW m \in RequestIds, merges \in [RequestIds -> Merges]
    PROVE  LET q == Overtaken(p)[m] IN
           /\ q \in Merges /\ q.at = merges[m].at /\ q.faces = merges[m].faces
           /\ q.sources = merges[m].sources /\ q.target = merges[m].target
           /\ q.counted = merges[m].counted
           /\ q.late = merges[m].late \/ q.late = TRUE
           /\ q.at \in {"counting", "counted"} /\ q.target = p => q.late = TRUE
  <1>1. PICK r \in Merges : r = merges[m]
    OBVIOUS
  <1>2. Overtaken(p)[m] = IF r.at \in {"counting", "counted"} /\ r.target = p
                          THEN [r EXCEPT !.late = TRUE] ELSE r
    BY <1>1 DEF Overtaken
  <1>3. CASE r.at \in {"counting", "counted"} /\ r.target = p
    <2>1. Overtaken(p)[m] = [r EXCEPT !.late = TRUE]
      BY <1>2, <1>3
    <2>. QED  BY <1>1, <2>1, LateMerge
  <1>4. CASE ~(r.at \in {"counting", "counted"} /\ r.target = p)
    BY <1>1, <1>2, <1>4
  <1>. QED  BY <1>3, <1>4

LEMMA OvertakenTyped ==
    ASSUME NEW p \in PersonIds \cup {NoPerson}, merges \in [RequestIds -> Merges]
    PROVE  /\ Overtaken(p) \in [RequestIds -> Merges]
           /\ \A m \in RequestIds : /\ Overtaken(p)[m].at = merges[m].at
                                   /\ Overtaken(p)[m].faces = merges[m].faces
  <1>1. ASSUME NEW m \in RequestIds
        PROVE  /\ Overtaken(p)[m] \in Merges
               /\ Overtaken(p)[m].at = merges[m].at /\ Overtaken(p)[m].faces = merges[m].faces
    BY OvertakenFacts, Zenon
  <1>2. Overtaken(p) = [m \in RequestIds |-> Overtaken(p)[m]]
    BY DEF Overtaken
  <1>3. Overtaken(p) \in [RequestIds -> Merges]
    BY <1>1, <1>2
  <1>. QED  BY <1>1, <1>3, Zenon

LEMMA AssignFaceInv ==
    ASSUME PersonInv, AssignFace
    PROVE  PersonInv'
  <1>a. PersonRowsInv /\ ClusterInv /\ MergeInv /\ PickInv
    BY DEF PersonInv
  <1>0. /\ chosen \in persons /\ inHand \in stored /\ inHand \in Faces /\ personOf[inHand] = NoPerson
        /\ \A f \in Faces \ {inHand} : personOf'[f] = personOf[f]
        /\ personOf'[inHand] = chosen
        /\ personOf' = [personOf EXCEPT ![inHand] = chosen]
        /\ merges' = Overtaken(chosen) /\ chosen \in PersonIds \cup {NoPerson}
        /\ UNCHANGED <<stored, persons, created>>
    BY <1>a, PersonIdFacts DEF AssignFace, ClusterInv, PersonRowsInv
  <1>1. PersonRowsInv'
    BY <1>a, <1>0 DEF PersonRowsInv
  <1>2. ClusterInv'
    BY <1>a, <1>0 DEF AssignFace, ClusterInv, PersonRowsInv
  <1>3. ASSUME NEW m \in RequestIds PROVE MergeFine(merges[m])'
    <2>1. PICK r \in Merges : r = merges[m] /\ MergeFine(r)
      BY <1>3, <1>a DEF MergeInv
    <2>1a. PICK q : q = Overtaken(chosen)[m]
      OBVIOUS
    <2>2. /\ q \in Merges /\ q.at = r.at /\ q.faces = r.faces
          /\ q.sources = r.sources /\ q.target = r.target /\ q.counted = r.counted
          /\ q.late = r.late \/ q.late = TRUE
          /\ q.at \in {"counting", "counted"} /\ q.target = chosen => q.late = TRUE
      BY <1>a, <2>1, <2>1a, OvertakenFacts DEF MergeInv
    <2>3. NoPerson \notin r.sources /\ NoPerson \notin persons
      BY <1>a, <2>1, <2>1a, PersonConstants, PersonIdFacts DEF Merges
    <2>4. loose \subseteq loose' /\ (q.at \in SeenAt /\ chosen \in q.sources => inHand \in loose')
      BY <2>1, <2>2 DEF AssignFace, HasSeen, SeenAt
    <2>5. r.at \in MovedAt => inHand \notin r.faces
      BY <1>0, <2>1, <2>3 DEF MergeFine
    <2>6. q.at \in SeenAt => \A f \in stored : personOf'[f] \in q.sources => f \in q.faces \cup loose'
      BY <1>0, <1>a, <2>1, <2>2, <2>4 DEF MergeFine, PersonRowsInv
    <2>7. q.at \in MovedAt => \A f \in q.faces : personOf'[f] \in q.sources /\ q.target \in persons
      BY <1>0, <1>a, <2>1, <2>2, <2>5 DEF MergeFine, PersonRowsInv
    <2>8. ASSUME q.at \in {"counting", "counted"}, ~q.late, q.target \in persons
          PROVE  q.counted = FacesOf(q.target)' \cup q.faces
      <3>1. q.target # chosen /\ q.late = r.late
        BY <2>2, <2>8
      <3>2. FacesOf(q.target)' = FacesOf(q.target)
        BY <1>a, <1>0, <2>3, <2>8, <3>1 DEF FacesOf, PersonRowsInv
      <3>. QED  BY <2>1, <2>2, <2>8, <3>1, <3>2 DEF MergeFine
    <2>9. MergeFine(q)'
      <3>1. q.faces \subseteq stored /\ q.counted \subseteq stored /\ q.target \in 0 .. created
            /\ q.target \notin q.sources
        BY <2>1, <2>2 DEF MergeFine
      <3>. QED  BY <1>0, <2>2, <2>6, <2>7, <2>8, <3>1 DEF MergeFine
    <2>10. q = merges'[m]
      BY <1>0, <2>1, <2>1a
    <2>. QED  BY <2>9, <2>10 DEF MergeFine, FacesOf
  <1>4. MergeInv'
    <2>1. merges' \in [RequestIds -> Merges]
      BY <1>a, <1>0, OvertakenTyped DEF MergeInv
    <2>2. \A m \in RequestIds : merges'[m].at = merges[m].at /\ merges'[m].faces = merges[m].faces
      BY <1>a, <1>0, OvertakenTyped DEF MergeInv
    <2>3. loose' \subseteq Faces
      BY <1>a, <1>0 DEF AssignFace, MergeInv
    <2>. QED  BY <1>a, <1>3, <2>1, <2>2, <2>3 DEF MergeInv, Apart
  <1>5. PickInv'
    BY <1>a, <1>0, PersonIdFacts DEF AssignFace, PickInv, PersonRowsInv, FacesOf
  <1>. QED  BY <1>1, <1>2, <1>4, <1>5 DEF PersonInv

\* Whose face is whose after merge m: the faces in its hand are its target's, the other
\* faces of its sources nobody's.
LEMMA AfterFacts ==
    ASSUME PersonInv, NEW m \in RequestIds, merges[m].at = "counted", NEW f \in Faces
    PROVE  /\ f \in merges[m].faces =>
                /\ After(m)[f] = merges[m].target /\ merges[m].target \in persons \ merges[m].sources
                /\ personOf[f] \in merges[m].sources /\ f \in stored
           /\ f \notin merges[m].faces /\ personOf[f] \in merges[m].sources
                => After(m)[f] = NoPerson /\ f \in Unassigned(m)
           /\ personOf[f] \notin merges[m].sources => After(m)[f] = personOf[f]
  <1>1. PICK r \in Merges : r = merges[m] /\ MergeFine(r) /\ r.at = "counted"
    BY DEF PersonInv, MergeInv
  <1>2. PersonRowsInv /\ NoPerson \notin r.sources
    BY <1>1, PersonConstants DEF PersonInv, Merges
  <1>3. /\ f \in r.faces => personOf[f] \in r.sources /\ r.target \in persons \ r.sources /\ f \in stored
        /\ f \notin stored => personOf[f] = NoPerson
    BY <1>1, <1>2 DEF MergeFine, MovedAt, PersonRowsInv
  <1>4. /\ After(m)[f] = CASE f \in r.faces -> r.target
                           [] f \in Unassigned(m) -> NoPerson
                           [] OTHER -> personOf[f]
        /\ f \in Unassigned(m) <=> f \in stored \ r.faces /\ personOf[f] \in r.sources
    BY <1>1 DEF After, Unassigned
  <1>. QED  BY <1>1, <1>2, <1>3, <1>4

LEMMA CommitMergeInv ==
    ASSUME PersonInv, NEW m \in RequestIds, CommitMerge(m)
    PROVE  PersonInv'
  <1>a. PersonRowsInv /\ ClusterInv /\ MergeInv /\ PickInv /\ NoPerson \notin persons
    BY PersonIdFacts DEF PersonInv
  <1>b. PICK t \in PersonIds \cup {NoPerson}, S \in SUBSET PersonIds, M \in SUBSET Faces :
            t = merges[m].target /\ S = merges[m].sources /\ M = merges[m].faces
    BY <1>a DEF MergeInv, Merges
  <1>0. /\ merges[m].at = "counted"
        /\ personOf' = After(m) /\ persons' = persons \ S
        /\ UNCHANGED <<faceView, stored, queue, inHand, chosen, clusterAt, picking, created, requests, cuts>>
    BY <1>b DEF CommitMerge
  <1>c. NoPerson \notin S /\ M \subseteq stored
    BY <1>a, <1>b, PersonConstants DEF MergeInv, MergeFine, Merges
  <1>1. ASSUME NEW f \in Faces
        PROVE  /\ f \in M => personOf'[f] = t /\ t \in persons' /\ personOf[f] \in S
               /\ f \notin M /\ personOf[f] \in S => personOf'[f] = NoPerson /\ f \in Unassigned(m)
               /\ personOf[f] \notin S => personOf'[f] = personOf[f]
    BY <1>b, <1>0, AfterFacts
  <1>2. PersonRowsInv'
    <2>1. personOf' \in [Faces -> {NoPerson} \cup persons']
      <3>1. personOf' = [f \in Faces |-> personOf'[f]]
        BY <1>0 DEF After
      <3>2. ASSUME NEW f \in Faces PROVE personOf'[f] \in {NoPerson} \cup persons'
        BY <1>a, <1>0, <1>1 DEF PersonRowsInv
      <3>. QED  BY <3>1, <3>2
    <2>2. \A f \in Faces \ stored : personOf'[f] = NoPerson
      BY <1>a, <1>1, <1>c DEF PersonRowsInv
    <2>. QED  BY <1>a, <1>0, <2>1, <2>2 DEF PersonRowsInv
  <1>3. ClusterInv'
    <2>1. \A f \in stored : personOf[f] = NoPerson => personOf'[f] = NoPerson
      BY <1>a, <1>1, <1>c DEF PersonRowsInv
    <2>. QED  BY <1>a, <1>0, <2>1 DEF ClusterInv
  <1>4. /\ loose \subseteq loose' /\ loose' \subseteq Faces
        /\ \A o \in RequestIds \ {m} :
              merges[o].at \in SeenAt /\ t \in merges[o].sources => M \subseteq merges[o].faces \cup loose'
    <2> DEFINE Others == {x \in RequestIds \ {m} : HasSeen(x) /\ t \in merges[x].sources}
    <2>1. loose' = loose \cup UNION {M \ merges[o].faces : o \in Others}
      BY <1>b DEF CommitMerge
    <2>2. loose' \subseteq Faces
      BY <1>a, <2>1 DEF MergeInv
    <2>3. ASSUME NEW o \in RequestIds \ {m}, merges[o].at \in SeenAt, t \in merges[o].sources
          PROVE  M \subseteq merges[o].faces \cup loose'
      <3>1. o \in Others
        BY <2>3 DEF HasSeen, SeenAt
      <3>. QED  BY <2>1, <3>1
    <2>. QED  BY <2>1, <2>2, <2>3
  <1>5. /\ merges' \in [RequestIds -> Merges] /\ merges'[m] = NoMerge
        /\ \A o \in RequestIds \ {m} : merges'[o] = Overtaken(t)[o]
    <2>1. Overtaken(t) \in [RequestIds -> Merges]
      BY <1>a, OvertakenTyped DEF MergeInv
    <2>2. merges' = [Overtaken(t) EXCEPT ![m] = NoMerge]
      BY <1>b DEF CommitMerge
    <2>. QED  BY <2>1, <2>2, NoMergeFields
  <1>6. ASSUME NEW o \in RequestIds \ {m} PROVE MergeFine(merges[o])'
    <2>1. PICK r \in Merges : r = merges[o] /\ MergeFine(r)
      BY <1>a DEF MergeInv
    <2>1a. PICK q : q = Overtaken(t)[o]
      OBVIOUS
    <2>2. /\ q \in Merges /\ q.at = r.at /\ q.faces = r.faces
          /\ q.sources = r.sources /\ q.target = r.target /\ q.counted = r.counted
          /\ q.late = r.late \/ q.late = TRUE
          /\ q.at \in {"counting", "counted"} /\ q.target = t => q.late = TRUE
      BY <1>a, <2>1, <2>1a, OvertakenFacts DEF MergeInv
    <2>3. q.at \in SeenAt => \A f \in stored : personOf'[f] \in q.sources => f \in q.faces \cup loose'
      <3> SUFFICES ASSUME q.at \in SeenAt, NEW f \in stored, personOf'[f] \in q.sources
                   PROVE  f \in q.faces \cup loose'
        OBVIOUS
      <3>1. f \in Faces /\ NoPerson \notin q.sources
        BY <1>a, <2>2, PersonConstants DEF PersonRowsInv, Merges
      <3>2. CASE f \in M
        BY <1>1, <1>4, <2>1, <2>2, <3>1, <3>2
      <3>3. CASE f \notin M
        BY <1>1, <1>4, <2>1, <2>2, <3>1, <3>3 DEF MergeFine
      <3>. QED  BY <3>2, <3>3
    <2>4. q.at \in MovedAt =>
             /\ q.faces \cap M = {} /\ q.faces \cap Unassigned(m) = {}
             /\ q.faces # {} => q.target \notin S
      <3>1. ASSUME q.at \in MovedAt PROVE q.faces \cap M = {}
        BY <1>a, <1>b, <1>0, <2>1, <2>2, <3>1 DEF MergeInv, Apart, MovedAt
      <3>2. ASSUME q.at \in MovedAt PROVE q.faces \cap Unassigned(m) = {}
        BY <2>1, <2>2, <3>2 DEF CommitMerge, HasMoved, MovedAt
      <3>3. ASSUME q.at \in MovedAt, q.faces # {} PROVE q.target \notin S
        BY <1>b, <2>1, <2>2, <3>3 DEF CommitMerge, Holds, HasMoved, MovedAt
      <3>. QED  BY <3>1, <3>2, <3>3
    <2>5. q.at \in MovedAt => \A f \in q.faces : personOf'[f] \in q.sources /\ q.target \in persons'
      BY <1>0, <1>1, <2>1, <2>2, <2>4 DEF MergeFine, Merges
    <2>6. ASSUME q.at \in {"counting", "counted"}, ~q.late, q.target \in persons'
          PROVE  q.counted = FacesOf(q.target)' \cup q.faces
      <3>1. q.target # t /\ q.late = r.late /\ q.target \notin S /\ q.target \in persons
        BY <1>0, <2>2, <2>6
      <3>2. ASSUME NEW f \in stored PROVE personOf'[f] = q.target <=> personOf[f] = q.target
        <4>1. f \in Faces /\ q.target # NoPerson
          BY <1>a, <3>1 DEF PersonRowsInv
        <4>. QED  BY <1>1, <3>1, <4>1
      <3>3. FacesOf(q.target)' = FacesOf(q.target)
        BY <1>0, <3>2 DEF FacesOf
      <3>. QED  BY <2>1, <2>2, <2>6, <3>1, <3>3 DEF MergeFine
    <2>7. MergeFine(q)'
      <3>1. q.faces \subseteq stored /\ q.counted \subseteq stored /\ q.target \in 0 .. created
            /\ q.target \notin q.sources
        BY <2>1, <2>2 DEF MergeFine
      <3>. QED  BY <1>0, <2>2, <2>3, <2>5, <2>6, <3>1 DEF MergeFine
    <2>8. q = merges'[o]
      BY <1>5, <2>1, <2>1a
    <2>. QED  BY <2>7, <2>8 DEF MergeFine, FacesOf
  <1>7. MergeInv'
    <2>1. MergeFine(NoMerge)'
      BY <1>2, NoMergeFields, PersonConstants DEF PersonRowsInv, MergeFine, SeenAt, MovedAt
    <2>2. MergeFine(merges[m])'
      BY <1>5, <2>1 DEF MergeFine, FacesOf
    <2>3. ASSUME NEW o \in RequestIds \ {m}
          PROVE  merges'[o].at = merges[o].at /\ merges'[o].faces = merges[o].faces
      <3>1. merges'[o] = Overtaken(t)[o] /\ merges \in [RequestIds -> Merges]
        BY <1>a, <1>5 DEF MergeInv
      <3>. QED  BY <3>1, OvertakenTyped
    <2>4. \A n, o \in RequestIds : n # o => Apart(merges'[n], merges'[o])
      BY <1>a, <1>5, <2>3, NoMergeFields DEF MergeInv, Apart, MovedAt
    <2>. QED  BY <1>4, <1>5, <1>6, <2>2, <2>4 DEF MergeInv, Apart
  <1>8. PickInv'
    <2>1. ASSUME picking.person \in persons' PROVE picking.face \in FacesOf(picking.person)'
      <3>1. picking.person \in persons /\ picking.person \notin S
        BY <1>0, <2>1
      <3>2. picking.face \in stored /\ personOf[picking.face] = picking.person
        BY <1>a, <3>1 DEF PickInv, FacesOf
      <3>3. personOf'[picking.face] = picking.person
        BY <1>a, <1>1, <3>1, <3>2 DEF PersonRowsInv
      <3>. QED  BY <1>0, <3>2, <3>3 DEF FacesOf
    <2>. QED  BY <1>a, <1>0, <2>1 DEF PickInv
  <1>. QED  BY <1>2, <1>3, <1>7, <1>8 DEF PersonInv

\* The statements of a merge before its commit change only the merge.
LEMMA MergeStepInv ==
    ASSUME PersonInv, NEW m \in RequestIds,
           FindFaces(m) \/ MoveFaces(m) \/ CountFaces(m) \/ WriteTarget(m) \/ AbortMerge(m)
    PROVE  MergeInv'
  <1>a. PersonRowsInv /\ MergeInv
    BY DEF PersonInv
  <1>b. PICK r \in Merges : r = merges[m] /\ MergeFine(r)
    BY <1>a DEF MergeInv
  <1>c. UNCHANGED <<stored, personOf, persons, created, loose>>
    BY DEF FindFaces, MoveFaces, CountFaces, WriteTarget, AbortMerge
  <1>d. \A o \in RequestIds \ {m} : Apart(r, merges[o]) /\ merges[o] \in Merges
    BY <1>a, <1>b DEF MergeInv
  <1>1. CASE FindFaces(m)
    <2>1. PICK F \in SUBSET Faces : F = Moved(r.sources)
      BY <1>a DEF Moved, PersonRowsInv
    <2>1a. PICK q : q = [r EXCEPT !.at = "moving", !.faces = F]
      OBVIOUS
    <2>2. merges' = [merges EXCEPT ![m] = q]
      BY <1>a, <1>b, <1>1, <2>1, <2>1a DEF FindFaces, MergeInv
    <2>3. /\ q \in Merges /\ q.at = "moving" /\ q.faces = F /\ q.sources = r.sources
          /\ q.target = r.target /\ q.counted = r.counted
      BY <2>1, <2>1a DEF Merges
    <2>4. MergeFine(q)
      BY <1>b, <2>1, <2>3 DEF MergeFine, Moved, MovedAt
    <2>5. \A o \in RequestIds \ {m} : Apart(q, merges[o])
      BY <2>3 DEF Apart, MovedAt
    <2>. QED  BY <1>a, <1>c, <2>2, <2>4, <2>5, OneMerge
  <1>2. CASE MoveFaces(m)
    <2>1. PICK F \in SUBSET Faces : F = {f \in r.faces : personOf[f] \in r.sources}
      BY <1>b DEF Merges
    <2>1a. PICK q : q = [r EXCEPT !.at = "moved", !.faces = F]
      OBVIOUS
    <2>2. /\ merges' = [merges EXCEPT ![m] = q] /\ r.at = "moving" /\ (F # {} => r.target \in persons)
          /\ \A o \in RequestIds \ {m} : merges[o].at \in MovedAt => merges[o].faces \cap r.faces = {}
      BY <1>a, <1>b, <1>2, <2>1, <2>1a DEF MoveFaces, MergeInv, HasMoved, MovedAt
    <2>3. /\ q \in Merges /\ q.at = "moved" /\ q.faces = F /\ q.sources = r.sources
          /\ q.target = r.target /\ q.counted = r.counted
      BY <2>1, <2>1a DEF Merges
    <2>4. MergeFine(q)
      BY <1>b, <2>1, <2>2, <2>3 DEF MergeFine, SeenAt
    <2>5. \A o \in RequestIds \ {m} : Apart(q, merges[o])
      BY <2>1, <2>2, <2>3 DEF Apart
    <2>. QED  BY <1>a, <1>c, <2>2, <2>4, <2>5, OneMerge
  <1>3. CASE CountFaces(m)
    <2>1. PICK F \in SUBSET Faces : F = FacesOf(r.target) \cup r.faces
      BY <1>a, <1>b DEF Merges, FacesOf, PersonRowsInv
    <2>1a. PICK q : q = [r EXCEPT !.at = "counting", !.counted = F]
      OBVIOUS
    <2>2. merges' = [merges EXCEPT ![m] = q] /\ r.at = "moved"
      BY <1>a, <1>b, <1>3, <2>1, <2>1a DEF CountFaces, MergeInv
    <2>3. /\ q \in Merges /\ q.at = "counting" /\ q.faces = r.faces /\ q.sources = r.sources
          /\ q.target = r.target /\ q.counted = F
      BY <2>1, <2>1a DEF Merges
    <2>4. F \subseteq stored
      BY <1>b, <2>1 DEF MergeFine, FacesOf
    <2>5. MergeFine(q)
      BY <1>b, <2>1, <2>2, <2>3, <2>4 DEF MergeFine, SeenAt, MovedAt
    <2>6. \A o \in RequestIds \ {m} : Apart(q, merges[o])
      BY <1>d, <2>2, <2>3 DEF Apart, MovedAt
    <2>. QED  BY <1>a, <1>c, <2>2, <2>5, <2>6, OneMerge
  <1>4. CASE WriteTarget(m)
    <2>1. PICK q : q = [r EXCEPT !.at = "counted"]
      OBVIOUS
    <2>2. merges' = [merges EXCEPT ![m] = q] /\ r.at = "counting"
      BY <1>a, <1>b, <1>4, <2>1 DEF WriteTarget, MergeInv
    <2>3. /\ q \in Merges /\ q.at = "counted" /\ q.faces = r.faces /\ q.sources = r.sources
          /\ q.target = r.target /\ q.counted = r.counted /\ q.late = r.late
      BY <2>1 DEF Merges
    <2>4. MergeFine(q)
      BY <1>b, <2>2, <2>3 DEF MergeFine, SeenAt, MovedAt
    <2>5. \A o \in RequestIds \ {m} : Apart(q, merges[o])
      BY <1>d, <2>2, <2>3 DEF Apart, MovedAt
    <2>. QED  BY <1>a, <1>c, <2>2, <2>4, <2>5, OneMerge
  <1>5. CASE AbortMerge(m)
    <2>1. PICK q : q = NoMerge
      OBVIOUS
    <2>2. merges' = [merges EXCEPT ![m] = q] /\ MergeFine(q)
      BY <1>a, <1>5, <2>1, NoMergeFine DEF AbortMerge
    <2>3. \A o \in RequestIds \ {m} : Apart(q, merges[o])
      BY <2>1, NoMergeFields DEF Apart, MovedAt
    <2>. QED  BY <1>a, <1>c, <2>2, <2>3, OneMerge
  <1>. QED  BY <1>1, <1>2, <1>3, <1>4, <1>5

LEMMA BeginMergeInv ==
    ASSUME PersonInv, requests \in Nat, NEW S \in SUBSET PersonIds, NEW t \in PersonIds, BeginMerge(S, t)
    PROVE  MergeInv'
  <1>a. PersonRowsInv /\ MergeInv
    BY DEF PersonInv
  <1>1. PICK m \in RequestIds : m = requests'
    BY PersonsAssumption DEF BeginMerge, Request, RequestIds
  <1>2. PICK q : q = [NoMerge EXCEPT !.at = "checked", !.sources = S, !.target = t]
    OBVIOUS
  <1>3. merges' = [merges EXCEPT ![m] = q] /\ t \notin S /\ t \in persons
    BY <1>1, <1>2 DEF BeginMerge
  <1>4. /\ q \in Merges /\ q.at = "checked" /\ q.faces = {} /\ q.sources = S
        /\ q.target = t /\ q.counted = {}
    BY <1>2 DEF NoMerge, Merges
  <1>5. t \in 0 .. created
    <2>1. persons \subseteq 1 .. created /\ created \in Nat
      BY <1>a, PersonIdFacts DEF PersonRowsInv
    <2>. QED  BY <1>3, <2>1
  <1>6. MergeFine(q)
    BY <1>3, <1>4, <1>5 DEF MergeFine, SeenAt, MovedAt
  <1>7. \A o \in RequestIds \ {m} : Apart(q, merges[o])
    BY <1>4 DEF Apart, MovedAt
  <1>8. UNCHANGED <<stored, personOf, persons, created, loose>>
    BY DEF BeginMerge
  <1>. QED  BY <1>a, <1>3, <1>6, <1>7, <1>8, OneMerge

LEMMA PersonInvStep ==
    ASSUME PersonInv, requests \in Nat, [PersonNext]_personVars
    PROVE  PersonInv'
  <1>0. PersonRowsInv /\ ClusterInv /\ MergeInv /\ PickInv
    BY DEF PersonInv
  <1>1. CASE StartClustering
    <2>1. ClusterInv'
      BY <1>0, <1>1 DEF StartClustering, ClusterInv
    <2>2. UNCHANGED <<stored, personOf, persons, created, loose, merges, picking>>
      BY <1>1 DEF StartClustering
    <2>. QED  BY <1>0, <2>1, <2>2, MergesUntouched DEF PersonInv, PersonRowsInv, PickInv, FacesOf
  <1>2. CASE AssignFace
    BY <1>2, AssignFaceInv
  <1>3. CASE UpdatePerson
    <2>1. ClusterInv'
      BY <1>0, <1>3 DEF UpdatePerson, NextFace, ClusterInv
    <2>2. UNCHANGED <<stored, personOf, persons, created, loose, merges, picking>>
      BY <1>3 DEF UpdatePerson
    <2>. QED  BY <1>0, <2>1, <2>2, MergesUntouched DEF PersonInv, PersonRowsInv, PickInv, FacesOf
  <1>4. CASE AwaitMerge
    <2>1. ClusterInv'
      BY <1>0, <1>4 DEF AwaitMerge, FacesOf, ClusterInv
    <2>2. UNCHANGED <<stored, personOf, persons, created, loose, merges, picking>>
      BY <1>4 DEF AwaitMerge
    <2>. QED  BY <1>0, <2>1, <2>2, MergesUntouched DEF PersonInv, PersonRowsInv, PickInv, FacesOf
  <1>5. CASE UpdatePersonLate
    <2>1. ClusterInv'
      BY <1>0, <1>5 DEF UpdatePersonLate, NextFace, ClusterInv
    <2>2. UNCHANGED <<stored, personOf, persons, created, loose, merges, picking>>
      BY <1>5 DEF UpdatePersonLate
    <2>. QED  BY <1>0, <2>1, <2>2, MergesUntouched DEF PersonInv, PersonRowsInv, PickInv, FacesOf
  <1>6. CASE CutClustering
    <2>1. ClusterInv'
      BY <1>0, <1>6 DEF CutClustering, ClusterInv
    <2>2. UNCHANGED <<stored, personOf, persons, created, loose, merges, picking>>
      BY <1>6 DEF CutClustering
    <2>. QED  BY <1>0, <2>1, <2>2, MergesUntouched DEF PersonInv, PersonRowsInv, PickInv, FacesOf
  <1>7. ASSUME NEW m \in RequestIds, CommitMerge(m)
        PROVE  PersonInv'
    BY <1>7, CommitMergeInv
  <1>8. CASE SetRepresentative
    <2>1. PickInv'
      BY <1>0, <1>8, PersonIdFacts DEF SetRepresentative, PickInv, NoPick, NoPerson
    <2>2. UNCHANGED <<stored, personOf, persons, created, loose, merges>>
      BY <1>8 DEF SetRepresentative
    <2>. QED  BY <1>0, <1>8, <2>1, <2>2, MergesUntouched DEF SetRepresentative, PersonInv, PersonRowsInv, ClusterInv
  <1>9. ASSUME NEW f \in Faces, StoreFace(f)
        PROVE  PersonInv'
    BY <1>9, StoreFaceInv
  <1>10. ASSUME NEW f \in Faces, FindPerson(f)
        PROVE  PersonInv'
    <2>1. chosen' \in 1 .. created
      BY <1>0, <1>10 DEF FindPerson, PersonRowsInv
    <2>2. ClusterInv'
      BY <1>0, <1>10, <2>1 DEF FindPerson, ClusterInv
    <2>3. UNCHANGED <<stored, personOf, persons, created, loose, merges, picking>>
      BY <1>10 DEF FindPerson
    <2>. QED  BY <1>0, <2>2, <2>3, MergesUntouched DEF PersonInv, PersonRowsInv, PickInv, FacesOf
  <1>11. ASSUME NEW f \in Faces, CreatePerson(f)
        PROVE  PersonInv'
    BY <1>11, CreatePersonInv
  <1>12. ASSUME NEW S \in SUBSET PersonIds, NEW t \in PersonIds, BeginMerge(S, t)
        PROVE  PersonInv'
    <2>1. MergeInv'
      BY <1>12, BeginMergeInv
    <2>2. UNCHANGED <<faceView, stored, personOf, persons, queue, inHand, chosen, clusterAt, created, picking>>
      BY <1>12 DEF BeginMerge
    <2>. QED  BY <1>0, <2>1, <2>2 DEF PersonInv, PersonRowsInv, ClusterInv, PickInv, FacesOf
  <1>13. ASSUME NEW p \in PersonIds, NEW f \in Faces, CheckRepresentative(p, f)
        PROVE  PersonInv'
    <2>1. /\ f \in stored /\ personOf[f] = p
          /\ picking' = [person |-> p, face |-> f]
          /\ UNCHANGED <<stored, personOf, persons, created, loose, merges>>
      BY <1>13 DEF CheckRepresentative, FacesOf
    <2>2. p \in 0 .. created
      <3>1. p \in persons /\ persons \subseteq 1 .. created
        BY <1>0, <1>13, <2>1 DEF PersonRowsInv, CheckRepresentative
      <3>2. created \in Nat
        BY <1>0, PersonIdFacts
      <3>. QED  BY <3>1, <3>2
    <2>3. PickInv'
      BY <2>1, <2>2 DEF PickInv, FacesOf
    <2>. QED  BY <1>0, <1>13, <2>1, <2>3, MergesUntouched DEF CheckRepresentative, PersonInv, PersonRowsInv, ClusterInv
  <1>14. ASSUME NEW m \in RequestIds,
                FindFaces(m) \/ MoveFaces(m) \/ CountFaces(m) \/ WriteTarget(m) \/ AbortMerge(m)
        PROVE  PersonInv'
    <2>1. MergeInv'
      BY <1>14, MergeStepInv
    <2>2. UNCHANGED <<faceView, stored, personOf, persons, queue, inHand, chosen, clusterAt, created, picking>>
      BY <1>14 DEF FindFaces, MoveFaces, CountFaces, WriteTarget, AbortMerge
    <2>. QED  BY <1>0, <2>1, <2>2 DEF PersonInv, PersonRowsInv, ClusterInv, PickInv, FacesOf
  <1>15. CASE UNCHANGED personVars
    <2>1. UNCHANGED <<faceView, stored, personOf, persons, queue, inHand, chosen, clusterAt, created, picking, loose, merges>>
      BY <1>15 DEF personVars
    <2>. QED  BY <1>0, <2>1, MergesUntouched DEF PersonInv, PersonRowsInv, ClusterInv, PickInv, FacesOf
  <1>. QED  BY <1>1, <1>2, <1>3, <1>4, <1>5, <1>6, <1>7, <1>8, <1>9, <1>10, <1>11, <1>12,
               <1>13, <1>14, <1>15 DEF PersonNext

\* The rest of the types: the rows' statistics, the history and the bounds.
StatTyped ==
    /\ count \in [PersonIds -> 0 .. Cardinality(Faces)]
    /\ rep \in [PersonIds -> stored \cup {NoFace}]
    /\ drifted \subseteq PersonIds
    /\ requests \in 0 .. MaxRequests /\ cuts \in 0 .. MaxCuts

\* Outside the clustering pass's hand every person has the count of its faces and one of
\* them to show, unless its row was left behind.
Current(p) ==
    /\ count[p] = Cardinality(FacesOf(p))
    /\ rep[p] \in FacesOf(p) \/ FacesOf(p) = {}

CurrentInv == \A p \in persons \ drifted : p # chosen => Current(p)

\* The statistics after an UPDATE of p, if its row is there, that counts the faces F,
\* and the deletion of D.
StatsAfter(p, F, D) ==
    /\ count' \in [PersonIds -> 0 .. Cardinality(Faces)]
    /\ rep' \in [PersonIds -> stored \cup {NoFace}]
    /\ p \in persons \ D => count'[p] = Cardinality(F) /\ (rep'[p] \in F \/ F = {})
    /\ \A q \in persons \ D : q # p => count'[q] = count[q] /\ rep'[q] = rep[q]

LEMMA RestatFacts ==
    ASSUME PersonInv, StatTyped, NEW p, NEW F \in SUBSET stored, NEW D \in SUBSET PersonIds,
           Restat(p, F, D)
    PROVE  StatsAfter(p, F, D)
  <1>1. F \in SUBSET Faces /\ persons \subseteq PersonIds
    BY PersonIdFacts DEF PersonInv, PersonRowsInv
  <1>2. Cardinality(F) \in 0 .. Cardinality(Faces) /\ 0 \in 0 .. Cardinality(Faces)
    BY <1>1, PersonConstants, FS_Subset, FS_CardinalityType
  <1>3. (F # {} => Central(F) \in F) /\ Central(F) \in stored \cup {NoFace}
    BY DEF Central
  <1>. QED  BY <1>1, <1>2, <1>3 DEF Restat, StatTyped, StatsAfter

LEMMA StatInit == PersonInit => StatTyped /\ CurrentInv
  <1> SUFFICES ASSUME PersonInit PROVE StatTyped /\ CurrentInv
    OBVIOUS
  <1>1. /\ count = [p \in PersonIds |-> Cardinality(FacesOf(p))]
        /\ rep = [p \in PersonIds |-> Central(FacesOf(p))]
        /\ stored \subseteq Faces /\ drifted = {} /\ persons \subseteq PersonIds
        /\ requests \in 0 .. MaxRequests /\ cuts \in 0 .. MaxCuts
    BY PersonConstants DEF PersonInit
  <1>2. ASSUME NEW p PROVE /\ Cardinality(FacesOf(p)) \in 0 .. Cardinality(Faces)
                           /\ Central(FacesOf(p)) \in stored \cup {NoFace}
                           /\ Central(FacesOf(p)) \in FacesOf(p) \/ FacesOf(p) = {}
    <2>1. PICK F \in SUBSET stored : F = FacesOf(p)
      BY DEF FacesOf
    <2>2. Cardinality(F) \in 0 .. Cardinality(Faces)
      BY <1>1, <2>1, PersonConstants, FS_Subset, FS_CardinalityType
    <2>3. Central(F) \in stored \cup {NoFace} /\ (Central(F) \in F \/ F = {})
      BY DEF Central
    <2>. QED  BY <2>1, <2>2, <2>3
  <1>3. StatTyped
    BY <1>1, <1>2 DEF StatTyped
  <1>4. CurrentInv
    BY <1>1, <1>2 DEF CurrentInv, Current
  <1>. QED  BY <1>3, <1>4

LEMMA StatStep ==
    ASSUME PersonInv, StatTyped, CurrentInv, [PersonNext]_personVars
    PROVE  StatTyped' /\ CurrentInv'
  <1>0. PersonRowsInv /\ ClusterInv /\ MergeInv /\ PickInv
    BY DEF PersonInv
  <1>a. 1 .. created \subseteq PersonIds /\ persons \subseteq PersonIds /\ NoPerson \notin persons
    BY <1>0, PersonIdFacts DEF PersonRowsInv
  <1>1. CASE StartClustering
    BY <1>1 DEF StartClustering, StatTyped, CurrentInv, Current, FacesOf
  <1>2. CASE AssignFace
    <2>1. /\ inHand \in stored /\ personOf[inHand] = NoPerson
          /\ personOf' = [personOf EXCEPT ![inHand] = chosen]
          /\ UNCHANGED <<stored, persons, count, rep, chosen, drifted, requests, cuts>>
      BY <1>0, <1>2 DEF AssignFace, ClusterInv
    <2>2. ASSUME NEW p \in persons, p # chosen PROVE FacesOf(p)' = FacesOf(p)
      BY <1>0, <1>a, <2>1, <2>2 DEF FacesOf, PersonRowsInv
    <2>. QED  BY <2>1, <2>2 DEF StatTyped, CurrentInv, Current
  <1>3. CASE UpdatePerson
    <2>1. /\ chosen' = NoPerson
          /\ UNCHANGED <<stored, personOf, persons, requests, cuts>>
      BY <1>3 DEF UpdatePerson, NextFace
    <2>2. \A p : FacesOf(p)' = FacesOf(p)
      BY <2>1 DEF FacesOf
    <2>3. PICK c \in PersonIds, F \in SUBSET stored : c = chosen /\ F = FacesOf(c) /\ Restat(c, F, {})
      <3>1. FacesOf(chosen) \in SUBSET stored /\ chosen \in PersonIds
        BY <1>0, <1>a, <1>3 DEF UpdatePerson, FacesOf, ClusterInv
      <3>2. Restat(chosen, FacesOf(chosen), {})
        BY <1>3 DEF UpdatePerson
      <3>. QED  BY <3>1, <3>2, Zenon
    <2>4. drifted' = drifted \ {c}
      BY <1>3, <2>3 DEF UpdatePerson
    <2>5. /\ count' \in [PersonIds -> 0 .. Cardinality(Faces)]
          /\ rep' \in [PersonIds -> stored \cup {NoFace}]
          /\ c \in persons => count'[c] = Cardinality(F) /\ (rep'[c] \in F \/ F = {})
          /\ \A q \in persons : q # c => count'[q] = count[q] /\ rep'[q] = rep[q]
      <3>1. StatsAfter(c, F, {})
        BY <2>3, RestatFacts, Zenon
      <3>. QED  BY <2>3, <3>1 DEF StatsAfter
    <2>6. StatTyped'
      BY <2>1, <2>4, <2>5 DEF StatTyped
    <2>7. CurrentInv'
      BY <1>a, <2>1, <2>2, <2>3, <2>4, <2>5 DEF CurrentInv, Current
    <2>. QED  BY <2>6, <2>7
  <1>4. CASE AwaitMerge
    BY <1>4 DEF AwaitMerge, StatTyped, CurrentInv, Current, FacesOf
  <1>5. CASE UpdatePersonLate
    <2>1. /\ chosen' = NoPerson /\ Restat(chosen, faceView, {})
          /\ drifted' = drifted \cup ({chosen} \cap persons)
          /\ UNCHANGED <<stored, personOf, persons, requests, cuts>>
      BY <1>5 DEF UpdatePersonLate, NextFace
    <2>2. \A p : FacesOf(p)' = FacesOf(p)
      BY <2>1 DEF FacesOf
    <2>3. PICK c \in PersonIds, F \in SUBSET stored : c = chosen /\ F = faceView /\ Restat(c, F, {})
      <3>1. faceView \in SUBSET stored /\ chosen \in PersonIds
        BY <1>0, <1>a, <1>5 DEF UpdatePersonLate, ClusterInv
      <3>. QED  BY <2>1, <3>1, Zenon
    <2>4. /\ count' \in [PersonIds -> 0 .. Cardinality(Faces)]
          /\ rep' \in [PersonIds -> stored \cup {NoFace}]
          /\ \A q \in persons : q # c => count'[q] = count[q] /\ rep'[q] = rep[q]
      <3>1. StatsAfter(c, F, {})
        BY <2>3, RestatFacts, Zenon
      <3>. QED  BY <2>3, <3>1 DEF StatsAfter
    <2>5. StatTyped'
      BY <1>a, <2>1, <2>4 DEF StatTyped
    <2>6. CurrentInv'
      BY <1>a, <2>1, <2>2, <2>3, <2>4 DEF CurrentInv, Current
    <2>. QED  BY <2>5, <2>6
  <1>6. CASE CutClustering
    <2>1. /\ chosen' = NoPerson /\ drifted' = drifted \cup ({chosen} \cap persons)
          /\ UNCHANGED <<stored, personOf, persons, count, rep, requests>>
      BY <1>6 DEF CutClustering
    <2>2. \A p : FacesOf(p)' = FacesOf(p)
      BY <2>1 DEF FacesOf
    <2>3. cuts' \in 0 .. MaxCuts
      BY <1>6, PersonsAssumption DEF CutClustering, StatTyped
    <2>5. StatTyped'
      BY <1>a, <2>1, <2>3 DEF StatTyped
    <2>6. CurrentInv'
      BY <1>a, <2>1, <2>2 DEF CurrentInv, Current
    <2>. QED  BY <2>5, <2>6
  <1>7. ASSUME NEW m \in RequestIds, CommitMerge(m)
        PROVE  StatTyped' /\ CurrentInv'
    <2>1. PICK r \in Merges : r = merges[m] /\ MergeFine(r) /\ r.at = "counted"
      BY <1>0, <1>7 DEF CommitMerge, MergeInv
    <2>2. PICK t \in PersonIds \cup {NoPerson}, S \in SUBSET PersonIds, F \in SUBSET stored :
              t = r.target /\ S = r.sources /\ F = r.counted
      BY <2>1 DEF MergeFine, Merges
    <2>3. /\ personOf' = After(m) /\ Restat(t, F, S) /\ persons' = persons \ S
          /\ UNCHANGED <<stored, chosen, requests, cuts>>
      BY <1>7, <2>1, <2>2 DEF CommitMerge
    <2>4. /\ drifted' \subseteq persons'
          /\ r.late => (t \in persons' => t \in drifted')
          /\ \A p \in persons' : p # t /\ p \notin drifted' => p \notin drifted
      BY <1>7, <2>1, <2>2 DEF CommitMerge
    <2>5. /\ count' \in [PersonIds -> 0 .. Cardinality(Faces)]
          /\ rep' \in [PersonIds -> stored \cup {NoFace}]
          /\ t \in persons' => count'[t] = Cardinality(F) /\ (rep'[t] \in F \/ F = {})
          /\ \A q \in persons' \ {t} : count'[q] = count[q] /\ rep'[q] = rep[q]
      <3>1. StatsAfter(t, F, S)
        BY <2>3, RestatFacts, Zenon
      <3>. QED  BY <2>3, <3>1 DEF StatsAfter
    <2>6. StatTyped'
      BY <1>a, <2>3, <2>4, <2>5 DEF StatTyped
    <2>7. ASSUME NEW f \in stored, NEW p \in persons'
          PROVE  personOf'[f] = p <=> personOf[f] = p \/ (f \in r.faces /\ p = t)
      <3>1. f \in Faces /\ p # NoPerson /\ p \notin S
        BY <1>0, <1>a, <2>3 DEF PersonRowsInv
      <3>. QED  BY <1>7, <2>1, <2>2, <2>3, <3>1, AfterFacts DEF CommitMerge
    <2>8. ASSUME NEW p \in persons', p # t PROVE FacesOf(p)' = FacesOf(p)
      BY <2>3, <2>7, <2>8 DEF FacesOf
    <2>9. ASSUME t \in persons', t \notin drifted' PROVE FacesOf(t)' = F
      <3>1. ~r.late /\ t \in persons /\ r.faces \subseteq stored
        BY <2>1, <2>3, <2>4, <2>9 DEF MergeFine
      <3>2. F = FacesOf(t) \cup r.faces
        BY <2>1, <2>2, <3>1 DEF MergeFine
      <3>3. FacesOf(t)' = FacesOf(t) \cup r.faces
        BY <2>3, <2>7, <2>9, <3>1 DEF FacesOf
      <3>. QED  BY <3>2, <3>3
    <2>10. CurrentInv'
      BY <2>3, <2>4, <2>5, <2>8, <2>9 DEF CurrentInv, Current
    <2>. QED  BY <2>6, <2>10
  <1>8. CASE SetRepresentative
    <2>1. UNCHANGED <<stored, personOf, persons, count, chosen, drifted, requests, cuts>>
      BY <1>8 DEF SetRepresentative
    <2>2. \A p : FacesOf(p)' = FacesOf(p)
      BY <2>1 DEF FacesOf
    <2>3. CASE picking.person \in persons
      <3>1. rep' = [rep EXCEPT ![picking.person] = picking.face]
        BY <1>8, <2>3 DEF SetRepresentative
      <3>2. picking.face \in FacesOf(picking.person) /\ picking.person \in PersonIds
        BY <1>0, <1>a, <2>3 DEF PickInv
      <3>3. picking.face \in stored
        BY <3>2 DEF FacesOf
      <3>4. StatTyped'
        BY <2>1, <3>1, <3>2, <3>3 DEF StatTyped
      <3>5. \A p \in PersonIds : rep'[p] = rep[p] \/ rep'[p] \in FacesOf(p)
        BY <3>1, <3>2 DEF StatTyped
      <3>6. CurrentInv'
        BY <1>a, <2>1, <2>2, <3>5 DEF CurrentInv, Current
      <3>. QED  BY <3>4, <3>6
    <2>4. CASE picking.person \notin persons
      BY <1>8, <2>1, <2>2, <2>4 DEF SetRepresentative, StatTyped, CurrentInv, Current
    <2>. QED  BY <2>3, <2>4
  <1>9. ASSUME NEW f \in Faces, StoreFace(f)
        PROVE  StatTyped' /\ CurrentInv'
    <2>1. ASSUME NEW p \in persons PROVE FacesOf(p)' = FacesOf(p)
      BY <1>0, <1>9, <1>a DEF StoreFace, FacesOf, PersonRowsInv
    <2>. QED  BY <1>9, <2>1 DEF StoreFace, StatTyped, CurrentInv, Current
  <1>10. ASSUME NEW f \in Faces, FindPerson(f)
        PROVE  StatTyped' /\ CurrentInv'
    <2>1. chosen = NoPerson /\ UNCHANGED <<stored, personOf, persons, count, rep, drifted, requests, cuts>>
      BY <1>0, <1>10 DEF FindPerson, ClusterInv
    <2>. QED  BY <1>a, <2>1 DEF StatTyped, CurrentInv, Current, FacesOf
  <1>11. ASSUME NEW f \in Faces, CreatePerson(f)
        PROVE  StatTyped' /\ CurrentInv'
    <2>1. /\ chosen = NoPerson /\ f \in stored /\ chosen' = created + 1
          /\ persons' = persons \cup {created + 1}
          /\ count' = [count EXCEPT ![created + 1] = 1]
          /\ rep' = [rep EXCEPT ![created + 1] = f]
          /\ UNCHANGED <<stored, personOf, drifted, requests, cuts>>
      BY <1>0, <1>11 DEF CreatePerson, ClusterInv
    <2>2. created + 1 \in PersonIds
      BY <1>0, <1>11, PersonIdFacts DEF CreatePerson
    <2>3. 1 \in 0 .. Cardinality(Faces)
      <3>1. Cardinality(Faces) \in Nat /\ Cardinality(Faces) # 0
        BY PersonConstants, FS_CardinalityType, FS_EmptySet
      <3>. QED  BY <3>1
    <2>4. StatTyped'
      BY <2>1, <2>2, <2>3 DEF StatTyped
    <2>5. ASSUME NEW p \in persons', p # chosen'
          PROVE  p \in persons /\ p # chosen /\ count'[p] = count[p] /\ rep'[p] = rep[p]
                 /\ FacesOf(p)' = FacesOf(p)
      BY <1>a, <2>1, <2>2, <2>5 DEF StatTyped, FacesOf
    <2>6. CurrentInv'
      BY <2>1, <2>5 DEF CurrentInv, Current
    <2>. QED  BY <2>4, <2>6
  <1>12. ASSUME NEW S \in SUBSET PersonIds, NEW t \in PersonIds, BeginMerge(S, t)
        PROVE  StatTyped' /\ CurrentInv'
    <2>1. requests' \in 0 .. MaxRequests
      BY <1>12, PersonsAssumption DEF BeginMerge, Request, StatTyped
    <2>. QED  BY <1>12, <2>1 DEF BeginMerge, StatTyped, CurrentInv, Current, FacesOf
  <1>13. ASSUME NEW p \in PersonIds, NEW f \in Faces, CheckRepresentative(p, f)
        PROVE  StatTyped' /\ CurrentInv'
    <2>1. requests' \in 0 .. MaxRequests
      BY <1>13, PersonsAssumption DEF CheckRepresentative, Request, StatTyped
    <2>. QED  BY <1>13, <2>1 DEF CheckRepresentative, StatTyped, CurrentInv, Current, FacesOf
  <1>14. ASSUME NEW m \in RequestIds,
                FindFaces(m) \/ MoveFaces(m) \/ CountFaces(m) \/ WriteTarget(m) \/ AbortMerge(m)
        PROVE  StatTyped' /\ CurrentInv'
    <2>1. UNCHANGED <<stored, personOf, persons, count, rep, chosen, drifted, requests, cuts>>
      BY <1>14 DEF FindFaces, MoveFaces, CountFaces, WriteTarget, AbortMerge
    <2>. QED  BY <2>1 DEF StatTyped, CurrentInv, Current, FacesOf
  <1>15. CASE UNCHANGED personVars
    BY <1>15 DEF personVars, StatTyped, CurrentInv, Current, FacesOf
  <1>. QED  BY <1>1, <1>2, <1>3, <1>4, <1>5, <1>6, <1>7, <1>8, <1>9, <1>10, <1>11, <1>12,
               <1>13, <1>14, <1>15 DEF PersonNext

\* The invariants of faces and persons hold in every behaviour.
LEMMA PersonsAlways == PersonSpec => [](PersonInv /\ StatTyped /\ CurrentInv)
  <1>1. PersonInit => PersonInv /\ StatTyped /\ CurrentInv
    BY PersonInvInit, StatInit
  <1>2. PersonInv /\ StatTyped /\ CurrentInv /\ [PersonNext]_personVars
            => PersonInv' /\ StatTyped' /\ CurrentInv'
    <2>1. StatTyped => requests \in Nat
      BY PersonsAssumption DEF StatTyped
    <2>. QED  BY <2>1, PersonInvStep, StatStep
  <1>. QED  BY <1>1, <1>2, PTL DEF PersonSpec

\* The state of faces and persons is well typed: a face never points to a person that is
\* gone, and a person is never shown by a face that is not stored.
THEOREM PersonsTypeCorrect == PersonSpec => []PersonTypeOK
  <1>1. ASSUME PersonInv, StatTyped PROVE PersonTypeOK
    <2>1. PersonRowsInv /\ ClusterInv /\ MergeInv /\ PickInv
      BY <1>1 DEF PersonInv
    <2>2. /\ chosen \in PersonIds \cup {NoPerson} /\ inHand \in Faces \cup {NoFace}
          /\ queue \subseteq Faces /\ faceView \subseteq Faces
      BY <2>1, PersonIdFacts DEF ClusterInv, PersonRowsInv
    <2>3. 0 .. created \subseteq PersonIds \cup {NoPerson}
      BY <2>1, PersonIdFacts, PersonConstants
    <2>4. picking \in [person : PersonIds \cup {NoPerson}, face : Faces \cup {NoFace}]
      BY <2>1, <2>3 DEF PickInv, PersonRowsInv
    <2>. QED  BY <1>1, <2>1, <2>2, <2>4 DEF PersonTypeOK, PersonRowsInv, ClusterInv, MergeInv, StatTyped
  <1>. QED  BY <1>1, PersonsAlways, PTL

\* Between passes every person has the count of its faces and is shown by one of them,
\* unless a cut or a late UPDATE left its row behind: merges, representatives chosen
\* meanwhile and clustering keep the rows right between them.
THEOREM PersonRowsCurrent == PersonSpec => []PersonsCurrent
  <1>1. PersonInv /\ CurrentInv => PersonsCurrent
    <2> SUFFICES ASSUME PersonInv, CurrentInv, clusterAt = "idle", NEW p \in persons \ drifted
                 PROVE  Current(p)
      BY DEF PersonsCurrent, Current
    <2>1. chosen = NoPerson /\ NoPerson \notin persons
      BY PersonIdFacts DEF PersonInv, ClusterInv
    <2>. QED  BY <2>1 DEF CurrentInv
  <1>. QED  BY <1>1, PersonsAlways, PTL

\* Two faces of one person stay together through every step, but for a face given to a
\* person while that was being merged away.
THEOREM FacesStayTogether == PersonSpec => NeverSplit
  <1> DEFINE Together == \A f, g \in stored :
          personOf[f] = personOf[g] /\ personOf[f] # NoPerson =>
              \/ personOf'[f] = personOf'[g] /\ personOf'[f] # NoPerson
              \/ {f, g} \cap loose' # {}
  <1>1. PersonInv /\ [PersonNext]_personVars => [Together]_personVars
    <2> SUFFICES ASSUME PersonInv, [PersonNext]_personVars, ~(UNCHANGED personOf) PROVE Together
      OBVIOUS
    <2>0. PersonRowsInv /\ ClusterInv /\ MergeInv
      BY DEF PersonInv
    <2>1. CASE AssignFace
      BY <2>0, <2>1 DEF AssignFace, ClusterInv, PersonRowsInv
    <2>2. ASSUME NEW m \in RequestIds, CommitMerge(m)
          PROVE  Together
      <3>1. PICK r \in Merges : r = merges[m] /\ MergeFine(r) /\ r.at = "counted"
        BY <2>0, <2>2 DEF CommitMerge, MergeInv
      <3>2. personOf' = After(m) /\ loose \subseteq loose' /\ NoPerson \notin persons
        BY <2>0, <2>2, PersonIdFacts DEF CommitMerge
      <3>3. ASSUME NEW f \in stored
            PROVE  /\ f \in r.faces => personOf'[f] = r.target /\ r.target # NoPerson
                   /\ personOf[f] \in r.sources => f \in r.faces \cup loose'
                   /\ personOf[f] \notin r.sources => personOf'[f] = personOf[f]
        <4>1. f \in Faces
          BY <2>0 DEF PersonRowsInv
        <4>2. personOf[f] \in r.sources => f \in r.faces \cup loose'
          BY <3>1, <3>2 DEF MergeFine, SeenAt
        <4>. QED  BY <2>2, <3>1, <3>2, <4>1, <4>2, AfterFacts DEF CommitMerge
      <3>. QED  BY <3>3
    <2>. QED  BY <2>1, <2>2 DEF PersonNext, personVars, StartClustering, UpdatePerson, AwaitMerge,
                 UpdatePersonLate, CutClustering, SetRepresentative, StoreFace, FindPerson,
                 CreatePerson, BeginMerge, CheckRepresentative, FindFaces, MoveFaces, CountFaces,
                 WriteTarget, AbortMerge
  <1>2. PersonSpec => [][PersonNext]_personVars
    BY PTL DEF PersonSpec
  <1>3. PersonSpec => []PersonInv
    BY PersonsAlways, PTL
  <1>4. [][Together]_personVars => NeverSplit
    BY PTL DEF NeverSplit
  <1> HIDE DEF Together
  <1>. QED  BY <1>1, <1>2, <1>3, <1>4, PTL

-----------------------------------------------------------------------------
(* Directory imports *)

LEMMA ImportFacts ==
    /\ IsFiniteSet(Jobs) /\ IsFiniteSet(Paths) /\ NotMedia \subseteq Paths
    /\ ContentOf \in [Paths -> Contents] /\ MaxMishaps \in Nat
    /\ Cardinality(Paths) \in Nat /\ Cardinality(Jobs) \in Nat
  BY ImportJobsAssumption, FS_CardinalityType

LEMMA PathSets ==
    ASSUME NEW S \in SUBSET Paths
    PROVE  /\ IsFiniteSet(S) /\ Cardinality(S) \in Nat /\ Cardinality(S) =< Cardinality(Paths)
           /\ Cardinality(S) \in 0 .. Cardinality(Paths)
           /\ Cardinality(S) = Cardinality(Paths) => S = Paths
           /\ Cardinality(S) = 0 => S = {}
  <1>1. /\ IsFiniteSet(S) /\ Cardinality(S) =< Cardinality(Paths)
        /\ Cardinality(S) = Cardinality(Paths) => S = Paths
    BY ImportFacts, FS_Subset
  <1>2. Cardinality(S) \in Nat
    BY <1>1, FS_CardinalityType
  <1>3. Cardinality(S) = 0 => S = {}
    BY <1>1, FS_EmptySet
  <1>. QED  BY <1>1, <1>2, <1>3, ImportFacts

\* The types, but for the two counters of a task, whose bound is part of its account.
ImportTyped ==
    /\ store \subseteq Jobs
    /\ state \in [Jobs -> {"none", "running", "done"}]
    /\ shown \in [Jobs -> Counts]
    /\ seq \in [Jobs -> 0 .. Cardinality(Jobs)]
    /\ phase \in [Jobs -> {"new", "scan", "files", "over"}]
    /\ left \in [Jobs -> SUBSET Paths]
    /\ chunk \in [Jobs -> SUBSET (Paths \ NotMedia)]
    /\ existing \in [Jobs -> SUBSET Contents]
    /\ imported \in [Jobs -> Nat] /\ failed \in [Jobs -> Nat]
    /\ media \subseteq Contents /\ labelled \subseteq Contents
    /\ gone \subseteq Contents /\ panicked \subseteq Jobs
    /\ mishaps \in 0 .. MaxMishaps

\* Of the media files in S, those the task of j has counted.
TakenOf(j, S) == (S \ NotMedia) \ (left[j] \cup chunk[j])

\* S is what j scanned: what is neither left nor in its chunk is counted once, and if
\* none failed, is in the library.
ScannedBy(j, S) ==
    /\ shown[j].scanned = Cardinality(S)
    /\ left[j] \subseteq S /\ chunk[j] \subseteq S /\ left[j] \cap chunk[j] = {}
    /\ imported[j] + failed[j] = Cardinality(TakenOf(j, S))
    /\ failed[j] = 0 => \A p \in TakenOf(j, S) : ContentOf[p] \in media \cup gone

\* What ImportAccounted says of a finished job.
Reported(j) ==
    /\ shown[j].imported + shown[j].failed =< shown[j].scanned
    /\ shown[j].scanned = Cardinality(Paths) =>
         /\ shown[j].imported + shown[j].failed = Cardinality(Paths \ NotMedia)
         /\ shown[j].failed = 0 => \A p \in Paths \ NotMedia : ContentOf[p] \in media \cup gone

JobInv(j) ==
    /\ phase[j] = "new" => state[j] = "none"
    /\ phase[j] \in {"new", "scan"} => imported[j] = 0 /\ failed[j] = 0 /\ chunk[j] = {}
    /\ imported[j] + failed[j] =< Cardinality(Paths)
    /\ existing[j] \subseteq media \cup gone
    /\ phase[j] = "files" => \E S \in SUBSET Paths : ScannedBy(j, S)
    /\ state[j] = "done" => Reported(j)

ImportInv == ImportTyped /\ JobsTracked /\ \A j \in Jobs : JobInv(j)

\* What is in the library, or was trashed, only grows, and a task ends or stays where it
\* is: nothing another job does disturbs the account of one.
LEMMA JobFrame ==
    ASSUME NEW j \in Jobs, JobInv(j),
           media \cup gone \subseteq media' \cup gone',
           phase'[j] = phase[j] \/ (phase'[j] = "over" /\ phase[j] # "new"),
           state'[j] = state[j], shown'[j] = shown[j], left'[j] = left[j],
           chunk'[j] = chunk[j], existing'[j] = existing[j],
           imported'[j] = imported[j], failed'[j] = failed[j]
    PROVE  JobInv(j)'
  <1>1. \A S : ScannedBy(j, S) => ScannedBy(j, S)'
    BY DEF ScannedBy, TakenOf
  <1>2. Reported(j) => Reported(j)'
    BY DEF Reported
  <1>. QED  BY <1>1, <1>2 DEF JobInv

LEMMA ImportInvInit == ImportInit => ImportInv
  <1> SUFFICES ASSUME ImportInit PROVE ImportInv
    OBVIOUS
  <1>1. ImportTyped
    BY ImportFacts DEF ImportInit, ImportTyped, Counts
  <1>2. JobsTracked
    BY DEF ImportInit, JobsTracked
  <1>3. ASSUME NEW j \in Jobs PROVE JobInv(j)
    BY ImportFacts DEF ImportInit, JobInv
  <1>. QED  BY <1>1, <1>2, <1>3 DEF ImportInv

LEMMA StartJobStep ==
    ASSUME ImportInv, NEW j \in Jobs, StartJob(j)
    PROVE  ImportInv'
  <1>0. ImportTyped /\ JobsTracked /\ \A k \in Jobs : JobInv(k)
    BY DEF ImportInv
  <1>1. /\ phase[j] = "new" /\ phase' = [phase EXCEPT ![j] = "scan"]
        /\ state' = [state EXCEPT ![j] = "running"]
        /\ seq' = [seq EXCEPT ![j] = Cardinality({k \in Jobs : phase[k] # "new"})]
        /\ store' = (store \cup {j}) \ Pruned(store \cup {j}, state')
        /\ UNCHANGED <<shown, left, chunk, existing, imported, failed, media, labelled,
                       gone, panicked, mishaps>>
    BY DEF StartJob
  <1>2. Cardinality({k \in Jobs : phase[k] # "new"}) \in 0 .. Cardinality(Jobs)
    <2> DEFINE K == {k \in Jobs : phase[k] # "new"}
    <2>1. IsFiniteSet(K) /\ Cardinality(K) =< Cardinality(Jobs)
      BY ImportFacts, FS_Subset
    <2>2. Cardinality(K) \in Nat
      BY <2>1, FS_CardinalityType
    <2>. QED  BY <2>1, <2>2, ImportFacts
  <1>3. store' \subseteq store \cup {j} /\ \A k \in store \cup {j} : state'[k] = "running" => k \in store'
    BY <1>1 DEF Pruned
  <1>4. ImportTyped'
    BY <1>0, <1>1, <1>2, <1>3 DEF ImportTyped
  <1>5. state'[j] = "running" /\ phase'[j] = "scan"
        /\ \A k \in Jobs \ {j} : state'[k] = state[k] /\ phase'[k] = phase[k]
    BY <1>0, <1>1 DEF ImportTyped
  <1>6. JobsTracked'
    BY <1>0, <1>1, <1>3, <1>5 DEF JobsTracked
  <1>7. JobInv(j)'
    BY <1>0, <1>1, <1>5 DEF JobInv
  <1>8. ASSUME NEW k \in Jobs, k # j PROVE JobInv(k)'
    <2>1. JobInv(k)
      BY <1>0
    <2>. QED  BY <1>1, <1>5, <1>8, <2>1, JobFrame
  <1>. QED  BY <1>4, <1>6, <1>7, <1>8 DEF ImportInv

LEMMA ScanTreeStep ==
    ASSUME ImportInv, NEW j \in Jobs, ScanTree(j)
    PROVE  ImportInv'
  <1>0. ImportTyped /\ JobsTracked /\ \A k \in Jobs : JobInv(k)
    BY DEF ImportInv
  <1>1. PICK S \in SUBSET Paths :
          /\ IF S = Paths THEN UNCHANGED mishaps ELSE Mishap
          /\ left' = [left EXCEPT ![j] = S]
          /\ UpdateJob(j, [shown[j] EXCEPT !.scanned = Cardinality(S)])
    BY DEF ScanTree
  <1>2. /\ phase[j] = "scan" /\ phase' = [phase EXCEPT ![j] = "files"]
        /\ UNCHANGED <<store, state, seq, chunk, existing, imported, failed, media, labelled,
                       gone, panicked>>
    BY DEF ScanTree
  <1>3. j \in store /\ state[j] = "running"
    BY <1>0, <1>2 DEF JobsTracked
  <1> DEFINE c == [shown[j] EXCEPT !.scanned = Cardinality(S)]
  <1>4. shown' = [shown EXCEPT ![j] = c]
    BY <1>1, <1>3 DEF UpdateJob
  <1>5. c \in Counts /\ c.scanned = Cardinality(S)
    <2>1. shown[j] \in Counts /\ Cardinality(S) \in 0 .. Cardinality(Paths)
      BY <1>0, PathSets DEF ImportTyped
    <2>. QED  BY <2>1 DEF Counts
  <1> HIDE DEF c
  <1>6. mishaps' \in 0 .. MaxMishaps
    BY <1>0, <1>1, ImportFacts DEF ImportTyped, Mishap
  <1>7. ImportTyped'
    BY <1>0, <1>1, <1>2, <1>4, <1>5, <1>6 DEF ImportTyped
  <1>8. /\ phase'[j] = "files" /\ left'[j] = S /\ shown'[j] = c
        /\ \A k \in Jobs \ {j} : phase'[k] = phase[k] /\ left'[k] = left[k] /\ shown'[k] = shown[k]
    BY <1>0, <1>1, <1>2, <1>4 DEF ImportTyped
  <1>9. JobsTracked'
    BY <1>0, <1>2, <1>3, <1>8 DEF JobsTracked
  <1>10. JobInv(j)'
    <2>1. imported[j] = 0 /\ failed[j] = 0 /\ chunk[j] = {} /\ existing[j] \subseteq media \cup gone
      BY <1>0, <1>2 DEF JobInv
    <2>2. TakenOf(j, S)' = {}
      BY <1>8 DEF TakenOf
    <2>3. ScannedBy(j, S)'
      BY <1>2, <1>5, <1>8, <2>1, <2>2, FS_EmptySet DEF ScannedBy
    <2>. QED  BY <1>2, <1>3, <1>8, <2>1, <2>3, ImportFacts DEF JobInv
  <1>11. ASSUME NEW k \in Jobs, k # j PROVE JobInv(k)'
    <2>1. JobInv(k)
      BY <1>0
    <2>. QED  BY <1>2, <1>8, <1>11, <2>1, JobFrame
  <1>. QED  BY <1>7, <1>9, <1>10, <1>11 DEF ImportInv

LEMMA TakeChunkStep ==
    ASSUME ImportInv, NEW j \in Jobs, TakeChunk(j)
    PROVE  ImportInv'
  <1>0. ImportTyped /\ JobsTracked /\ \A k \in Jobs : JobInv(k)
    BY DEF ImportInv
  <1>1. PICK C \in SUBSET left[j] : \E unread \in SUBSET (C \ NotMedia) :
          \E told \in {{}, media \cap {ContentOf[p] : p \in C}} :
          /\ IF unread = {} /\ told = media \cap {ContentOf[p] : p \in C} THEN UNCHANGED mishaps ELSE Mishap
          /\ left' = [left EXCEPT ![j] = @ \ C]
          /\ chunk' = [chunk EXCEPT ![j] = C \ (NotMedia \cup unread)]
          /\ failed' = [failed EXCEPT ![j] = @ + Cardinality(unread)]
          /\ existing' = [existing EXCEPT ![j] = told]
    BY DEF TakeChunk, kSubset
  <1>2. PICK unread \in SUBSET (C \ NotMedia) : \E told \in SUBSET media :
          /\ UNCHANGED mishaps \/ Mishap
          /\ left' = [left EXCEPT ![j] = @ \ C]
          /\ chunk' = [chunk EXCEPT ![j] = C \ (NotMedia \cup unread)]
          /\ failed' = [failed EXCEPT ![j] = @ + Cardinality(unread)]
          /\ existing' = [existing EXCEPT ![j] = told]
    <2>1. \A told \in {{}, media \cap {ContentOf[p] : p \in C}} : told \in SUBSET media
      OBVIOUS
    <2>. QED  BY <1>1, <2>1
  <1>3. PICK told \in SUBSET media :
          /\ UNCHANGED mishaps \/ Mishap
          /\ left' = [left EXCEPT ![j] = @ \ C]
          /\ chunk' = [chunk EXCEPT ![j] = C \ (NotMedia \cup unread)]
          /\ failed' = [failed EXCEPT ![j] = @ + Cardinality(unread)]
          /\ existing' = [existing EXCEPT ![j] = told]
    BY <1>2
  <1>4. /\ phase[j] = "files" /\ chunk[j] = {}
        /\ UNCHANGED <<store, state, shown, seq, phase, imported, media, labelled, gone, panicked>>
    BY DEF TakeChunk
  <1>5. left[j] \in SUBSET Paths /\ unread \in SUBSET Paths
    BY <1>0 DEF ImportTyped
  <1>6. IsFiniteSet(unread) /\ Cardinality(unread) \in Nat /\ (Cardinality(unread) = 0 => unread = {})
    BY <1>5, PathSets
  <1>7. mishaps' \in 0 .. MaxMishaps
    BY <1>0, <1>3, ImportFacts DEF ImportTyped, Mishap
  <1>8. failed' \in [Jobs -> Nat]
    BY <1>0, <1>3, <1>6 DEF ImportTyped
  <1>9. ImportTyped'
    BY <1>0, <1>3, <1>4, <1>5, <1>7, <1>8 DEF ImportTyped
  <1>10. /\ left'[j] = left[j] \ C /\ chunk'[j] = C \ (NotMedia \cup unread)
         /\ failed'[j] = failed[j] + Cardinality(unread) /\ existing'[j] = told
         /\ \A k \in Jobs \ {j} : left'[k] = left[k] /\ chunk'[k] = chunk[k]
                                  /\ failed'[k] = failed[k] /\ existing'[k] = existing[k]
    BY <1>0, <1>3 DEF ImportTyped
  <1>11. JobsTracked'
    BY <1>0, <1>4 DEF JobsTracked
  <1>12. JobInv(j)'
    <2>0. imported[j] \in Nat /\ failed[j] \in Nat
      BY <1>0 DEF ImportTyped
    <2>1. PICK S \in SUBSET Paths : ScannedBy(j, S)
      BY <1>0, <1>4 DEF JobInv
    <2>2. PICK T \in SUBSET Paths, U \in SUBSET Paths : T = TakenOf(j, S) /\ U = TakenOf(j, S)'
      BY DEF TakenOf
    <2>3. U = T \cup unread /\ T \cap unread = {}
      BY <1>4, <1>5, <1>10, <2>1, <2>2 DEF TakenOf, ScannedBy
    <2>4. /\ Cardinality(U) = Cardinality(T) + Cardinality(unread)
          /\ Cardinality(U) \in Nat /\ Cardinality(T) \in Nat /\ Cardinality(U) =< Cardinality(Paths)
      <3>1. /\ IsFiniteSet(T) /\ IsFiniteSet(U) /\ Cardinality(U) \in Nat /\ Cardinality(T) \in Nat
            /\ Cardinality(U) =< Cardinality(Paths)
        BY PathSets
      <3>2. Cardinality(U) = Cardinality(T) + Cardinality(unread) - Cardinality(T \cap unread)
        BY <1>6, <2>3, <3>1, FS_Union
      <3>3. Cardinality(T \cap unread) = 0
        BY <2>3, FS_EmptySet
      <3>. QED  BY <1>6, <3>1, <3>2, <3>3
    <2>5. imported[j] + failed[j] = Cardinality(T)
          /\ (failed[j] = 0 => \A p \in T : ContentOf[p] \in media \cup gone)
      BY <2>1, <2>2 DEF ScannedBy
    <2>6. imported[j] + (failed[j] + Cardinality(unread)) = Cardinality(U)
      BY <1>6, <2>0, <2>4, <2>5
    <2>7. failed'[j] = 0 => failed[j] = 0 /\ U = T
      BY <1>6, <1>10, <2>0, <2>3
    <2>8. ScannedBy(j, S)'
      BY <1>4, <1>10, <2>1, <2>2, <2>5, <2>6, <2>7 DEF ScannedBy
    <2>9. imported'[j] + failed'[j] =< Cardinality(Paths)
      BY <1>4, <1>10, <2>4, <2>6
    <2>10. state'[j] = "running"
      BY <1>0, <1>4 DEF JobsTracked
    <2>. QED  BY <1>4, <1>10, <2>8, <2>9, <2>10 DEF JobInv
  <1>13. ASSUME NEW k \in Jobs, k # j PROVE JobInv(k)'
    <2>1. JobInv(k)
      BY <1>0
    <2>. QED  BY <1>4, <1>10, <1>13, <2>1, JobFrame
  <1>. QED  BY <1>9, <1>11, <1>12, <1>13 DEF ImportInv

LEMMA ImportFileStep ==
    ASSUME ImportInv, NEW j \in Jobs, NEW p \in Paths, NEW ok \in BOOLEAN, ImportFile(j, p, ok)
    PROVE  ImportInv'
  <1>0. ImportTyped /\ JobsTracked /\ \A k \in Jobs : JobInv(k)
    BY DEF ImportInv
  <1> DEFINE i == IF ok THEN 1 ELSE 0
             e == IF ok THEN 0 ELSE 1
  <1>1. /\ phase[j] = "files" /\ p \in chunk[j]
        /\ chunk' = [chunk EXCEPT ![j] = @ \ {p}]
        /\ Known(j, ContentOf[p]) => ok
        /\ media' = IF ok /\ ~Known(j, ContentOf[p]) THEN media \cup {ContentOf[p]} ELSE media
        /\ UNCHANGED <<store, state, seq, phase, left, existing, gone, panicked>>
    BY DEF ImportFile
  <1>2. imported' = [imported EXCEPT ![j] = @ + i] /\ failed' = [failed EXCEPT ![j] = @ + e]
    BY DEF ImportFile, Counted
  <1>3. i \in Nat /\ e \in Nat /\ i + e = 1 /\ (e = 0 => ok)
    OBVIOUS
  <1> HIDE DEF i, e
  <1>4. imported[j] \in Nat /\ failed[j] \in Nat /\ shown[j] \in Counts
    BY <1>0 DEF ImportTyped
  <1>5. /\ imported'[j] = imported[j] + i /\ failed'[j] = failed[j] + e /\ chunk'[j] = chunk[j] \ {p}
        /\ \A k \in Jobs \ {j} : /\ imported'[k] = imported[k] /\ failed'[k] = failed[k]
                                 /\ chunk'[k] = chunk[k]
    BY <1>0, <1>1, <1>2 DEF ImportTyped
  <1>6. PICK S \in SUBSET Paths : ScannedBy(j, S)
    BY <1>0, <1>1 DEF JobInv
  <1>7. PICK T \in SUBSET Paths, U \in SUBSET Paths : T = TakenOf(j, S) /\ U = TakenOf(j, S)'
    BY DEF TakenOf
  <1>8. U = T \cup {p} /\ p \notin T
    BY <1>0, <1>1, <1>5, <1>6, <1>7 DEF TakenOf, ScannedBy, ImportTyped
  <1>9. /\ Cardinality(U) = Cardinality(T) + 1
        /\ Cardinality(U) \in Nat /\ Cardinality(T) \in Nat /\ Cardinality(U) =< Cardinality(Paths)
    <2>1. /\ IsFiniteSet(T) /\ Cardinality(U) \in Nat /\ Cardinality(T) \in Nat
          /\ Cardinality(U) =< Cardinality(Paths)
      BY PathSets
    <2>. QED  BY <1>8, <2>1, FS_AddElement
  <1>10. imported[j] + failed[j] = Cardinality(T)
         /\ (failed[j] = 0 => \A q \in T : ContentOf[q] \in media \cup gone)
    BY <1>6, <1>7 DEF ScannedBy
  <1>11. imported'[j] + failed'[j] = Cardinality(U)
    BY <1>3, <1>4, <1>5, <1>9, <1>10
  <1>12. imported'[j] \in 0 .. Cardinality(Paths) /\ failed'[j] \in 0 .. Cardinality(Paths)
         /\ imported'[j] + failed'[j] =< Cardinality(Paths)
    BY <1>3, <1>4, <1>5, <1>9, <1>11, ImportFacts
  <1>13. /\ shown' \in [Jobs -> Counts] /\ shown'[j].scanned = shown[j].scanned
         /\ \A k \in Jobs \ {j} : shown'[k] = shown[k]
    <2> DEFINE c == [shown[j] EXCEPT !.imported = imported'[j], !.failed = failed'[j]]
    <2>1. c \in Counts /\ c.scanned = shown[j].scanned
      BY <1>4, <1>12 DEF Counts
    <2>2. shown' = [shown EXCEPT ![j] = c] \/ shown' = shown
      BY DEF ImportFile, UpdateJob
    <2> HIDE DEF c
    <2>. QED  BY <1>0, <2>1, <2>2 DEF ImportTyped
  <1>14. ImportTyped'
    <2>1. media' \subseteq Contents /\ labelled' \subseteq Contents
      BY <1>0, <1>1, ImportFacts DEF ImportTyped, ImportFile
    <2>2. mishaps' \in 0 .. MaxMishaps
      BY <1>0, ImportFacts DEF ImportTyped, ImportFile, Mishap
    <2>3. imported' \in [Jobs -> Nat] /\ failed' \in [Jobs -> Nat]
      BY <1>0, <1>2, <1>3 DEF ImportTyped
    <2>. QED  BY <1>0, <1>1, <1>13, <2>1, <2>2, <2>3 DEF ImportTyped
  <1>15. JobsTracked'
    BY <1>0, <1>1 DEF JobsTracked
  <1>16. JobInv(j)'
    <2>1. failed'[j] = 0 => failed[j] = 0 /\ ok
      BY <1>3, <1>4, <1>5
    <2>2. ok => ContentOf[p] \in media' \cup gone
      BY <1>0, <1>1 DEF Known, JobInv
    <2>3. media \subseteq media'
      BY <1>1
    <2>4. failed'[j] = 0 => \A q \in U : ContentOf[q] \in media' \cup gone
      BY <1>8, <1>10, <2>1, <2>2, <2>3
    <2>5. ScannedBy(j, S)'
      BY <1>1, <1>5, <1>6, <1>7, <1>11, <1>13, <2>4 DEF ScannedBy
    <2>6. state'[j] = "running"
      BY <1>0, <1>1 DEF JobsTracked
    <2>. QED  BY <1>0, <1>1, <1>12, <2>3, <2>5, <2>6 DEF JobInv
  <1>17. ASSUME NEW k \in Jobs, k # j PROVE JobInv(k)'
    <2>1. JobInv(k)
      BY <1>0
    <2>. QED  BY <1>1, <1>5, <1>13, <1>17, <2>1, JobFrame
  <1>. QED  BY <1>14, <1>15, <1>16, <1>17 DEF ImportInv

LEMMA FinishJobStep ==
    ASSUME ImportInv, NEW j \in Jobs, FinishJob(j)
    PROVE  ImportInv'
  <1>0. ImportTyped /\ JobsTracked /\ \A k \in Jobs : JobInv(k)
    BY DEF ImportInv
  <1>1. /\ phase[j] = "files" /\ chunk[j] = {} /\ left[j] = {}
        /\ phase' = [phase EXCEPT ![j] = "over"]
        /\ UNCHANGED <<store, seq, left, chunk, existing, imported, failed, media, labelled,
                       gone, panicked, mishaps>>
    BY DEF FinishJob
  <1>2. j \in store
    BY <1>0, <1>1 DEF JobsTracked
  <1> DEFINE c == [shown[j] EXCEPT !.imported = imported[j], !.failed = failed[j]]
  <1>3. state' = [state EXCEPT ![j] = "done"] /\ shown' = [shown EXCEPT ![j] = c]
    BY <1>2 DEF FinishJob, UpdateJob
  <1>4. PICK S \in SUBSET Paths : ScannedBy(j, S)
    BY <1>0, <1>1 DEF JobInv
  <1>5. PICK T \in SUBSET Paths : T = S \ NotMedia
    OBVIOUS
  <1>6. /\ imported[j] + failed[j] = Cardinality(T) /\ shown[j].scanned = Cardinality(S)
        /\ failed[j] = 0 => \A p \in T : ContentOf[p] \in media \cup gone
    <2>1. TakenOf(j, S) = T
      BY <1>1, <1>5 DEF TakenOf
    <2>. QED  BY <1>4, <2>1 DEF ScannedBy
  <1>7. Cardinality(T) \in Nat /\ Cardinality(T) =< Cardinality(Paths)
    BY PathSets
  <1>8. imported[j] \in Nat /\ failed[j] \in Nat /\ shown[j] \in Counts
    BY <1>0 DEF ImportTyped
  <1>9. imported[j] \in 0 .. Cardinality(Paths) /\ failed[j] \in 0 .. Cardinality(Paths)
    BY <1>6, <1>7, <1>8, ImportFacts
  <1>10. c \in Counts /\ c.scanned = shown[j].scanned /\ c.imported = imported[j] /\ c.failed = failed[j]
    BY <1>8, <1>9 DEF Counts
  <1> HIDE DEF c
  <1>11. /\ state'[j] = "done" /\ shown'[j] = c /\ phase'[j] = "over"
         /\ \A k \in Jobs \ {j} : state'[k] = state[k] /\ shown'[k] = shown[k] /\ phase'[k] = phase[k]
    BY <1>0, <1>1, <1>3 DEF ImportTyped
  <1>12. ImportTyped'
    BY <1>0, <1>1, <1>3, <1>10 DEF ImportTyped
  <1>13. JobsTracked'
    BY <1>0, <1>1, <1>11 DEF JobsTracked
  <1>14. JobInv(j)'
    <2>1. Cardinality(T) =< Cardinality(S)
      <3>1. IsFiniteSet(S) /\ T \in SUBSET S
        BY <1>5, PathSets
      <3>. QED  BY <3>1, FS_Subset
    <2>2. Cardinality(S) = Cardinality(Paths) => T = Paths \ NotMedia
      BY <1>5, PathSets
    <2>3. Reported(j)'
      BY <1>1, <1>6, <1>10, <1>11, <2>1, <2>2 DEF Reported
    <2>. QED  BY <1>0, <1>1, <1>11, <2>3 DEF JobInv
  <1>15. ASSUME NEW k \in Jobs, k # j PROVE JobInv(k)'
    <2>1. JobInv(k)
      BY <1>0
    <2>. QED  BY <1>1, <1>11, <1>15, <2>1, JobFrame
  <1>. QED  BY <1>12, <1>13, <1>14, <1>15 DEF ImportInv

LEMMA ImportInvStep == ImportInv /\ [ImportNext]_importVars => ImportInv'
  <1> SUFFICES ASSUME ImportInv, [ImportNext]_importVars PROVE ImportInv'
    OBVIOUS
  <1>0. ImportTyped /\ JobsTracked /\ \A k \in Jobs : JobInv(k)
    BY DEF ImportInv
  <1>a. Mishap => mishaps' \in 0 .. MaxMishaps
    BY <1>0, ImportFacts DEF Mishap, ImportTyped
  <1>1. CASE ForgetJobs
    <2>1. /\ store' = {} /\ phase' = [j \in Jobs |-> IF phase[j] = "new" THEN "new" ELSE "over"]
          /\ UNCHANGED <<state, shown, seq, left, chunk, existing, imported, failed, media,
                         labelled, gone, panicked>>
      BY <1>1 DEF ForgetJobs
    <2>2. ImportTyped'
      BY <1>0, <1>1, <1>a, <2>1 DEF ImportTyped, ForgetJobs
    <2>3. JobsTracked'
      BY <2>1 DEF JobsTracked
    <2>4. ASSUME NEW k \in Jobs PROVE JobInv(k)'
      <3>1. JobInv(k) /\ phase'[k] = IF phase[k] = "new" THEN "new" ELSE "over"
        BY <1>0, <2>1
      <3>. QED  BY <2>1, <3>1, JobFrame
    <2>. QED  BY <2>2, <2>3, <2>4 DEF ImportInv
  <1>2. ASSUME NEW c \in Contents, TrashContent(c)
        PROVE  ImportInv'
    <2>1. /\ media' = media \ {c} /\ gone' = gone \cup {c}
          /\ UNCHANGED <<store, state, shown, seq, phase, left, chunk, existing, imported,
                         failed, labelled, panicked>>
      BY <1>2 DEF TrashContent
    <2>2. ImportTyped'
      BY <1>0, <1>2, <1>a, <2>1 DEF ImportTyped, TrashContent
    <2>3. JobsTracked'
      BY <1>0, <2>1 DEF JobsTracked
    <2>4. ASSUME NEW k \in Jobs PROVE JobInv(k)'
      <3>1. JobInv(k)
        BY <1>0
      <3>. QED  BY <2>1, <3>1, JobFrame
    <2>. QED  BY <2>2, <2>3, <2>4 DEF ImportInv
  <1>3. ASSUME NEW j \in Jobs, StartJob(j) PROVE ImportInv'
    BY <1>3, StartJobStep
  <1>4. ASSUME NEW j \in Jobs, ScanTree(j) PROVE ImportInv'
    BY <1>4, ScanTreeStep
  <1>5. ASSUME NEW j \in Jobs, TakeChunk(j) PROVE ImportInv'
    BY <1>5, TakeChunkStep
  <1>6. ASSUME NEW j \in Jobs, FinishJob(j) PROVE ImportInv'
    BY <1>6, FinishJobStep
  <1>7. ASSUME NEW j \in Jobs, PanicJob(j) PROVE ImportInv'
    <2>1. /\ phase[j] \in {"scan", "files"} /\ phase' = [phase EXCEPT ![j] = "over"]
          /\ panicked' = panicked \cup {j}
          /\ UNCHANGED <<store, state, shown, seq, left, chunk, existing, imported, failed,
                         media, labelled, gone>>
      BY <1>7 DEF PanicJob
    <2>2. ImportTyped'
      BY <1>0, <1>7, <1>a, <2>1 DEF ImportTyped, PanicJob
    <2>3. JobsTracked'
      BY <1>0, <2>1 DEF JobsTracked, ImportTyped
    <2>4. ASSUME NEW k \in Jobs PROVE JobInv(k)'
      <3>1. JobInv(k) /\ (phase'[k] = phase[k] \/ (phase'[k] = "over" /\ phase[k] # "new"))
        BY <1>0, <2>1 DEF ImportTyped
      <3>. QED  BY <2>1, <3>1, JobFrame
    <2>. QED  BY <2>2, <2>3, <2>4 DEF ImportInv
  <1>8. ASSUME NEW j \in Jobs, NEW p \in Paths, NEW ok \in BOOLEAN, ImportFile(j, p, ok)
        PROVE  ImportInv'
    BY <1>8, ImportFileStep
  <1>9. CASE UNCHANGED importVars
    <2>1. ImportTyped' /\ JobsTracked'
      BY <1>0, <1>9 DEF importVars, ImportTyped, JobsTracked
    <2>2. ASSUME NEW k \in Jobs PROVE JobInv(k)'
      <3>1. JobInv(k)
        BY <1>0
      <3>. QED  BY <1>9, <3>1, JobFrame DEF importVars
    <2>. QED  BY <2>1, <2>2 DEF ImportInv
  <1>. QED  BY <1>1, <1>2, <1>3, <1>4, <1>5, <1>6, <1>7, <1>8, <1>9 DEF ImportNext

LEMMA ImportAlways == ImportSpec => []ImportInv
  BY ImportInvInit, ImportInvStep, PTL DEF ImportSpec

\* The state of the jobs is well typed: in particular a task never counts more files than
\* there are paths, however its chunks are cut.
THEOREM ImportTypeCorrect == ImportSpec => []ImportTypeOK
  <1>1. ASSUME ImportInv PROVE ImportTypeOK
    <2>1. ImportTyped /\ \A j \in Jobs : JobInv(j)
      BY <1>1 DEF ImportInv
    <2>2. ASSUME NEW j \in Jobs
          PROVE  imported[j] \in 0 .. Cardinality(Paths) /\ failed[j] \in 0 .. Cardinality(Paths)
      <3>1. imported[j] \in Nat /\ failed[j] \in Nat /\ imported[j] + failed[j] =< Cardinality(Paths)
        BY <2>1 DEF ImportTyped, JobInv
      <3>. QED  BY <3>1, ImportFacts
    <2>3. imported \in [Jobs -> 0 .. Cardinality(Paths)] /\ failed \in [Jobs -> 0 .. Cardinality(Paths)]
      BY <2>1, <2>2 DEF ImportTyped
    <2>. QED  BY <2>1, <2>3 DEF ImportTyped, ImportTypeOK
  <1>. QED  BY <1>1, ImportAlways, PTL

\* Pruning the store never takes a job whose task is at work, and a job is shown as running
\* only while its task is, unless that panicked, for any number of jobs and any limit.
THEOREM JobsStayTracked == ImportSpec => []JobsTracked
  BY ImportAlways, PTL DEF ImportInv

\* Whatever other jobs and the trash do meanwhile, a finished job accounts for each media
\* file it scanned exactly once, and when it reports no failure each of them has a live row
\* or has been trashed.
THEOREM ImportsAccounted == ImportSpec => []ImportAccounted
  <1>1. ASSUME ImportInv PROVE ImportAccounted
    <2> SUFFICES ASSUME NEW j \in store, state[j] = "done"
                 PROVE  /\ shown[j].imported + shown[j].failed =< shown[j].scanned
                        /\ shown[j].scanned = Cardinality(Paths) =>
                             /\ shown[j].imported + shown[j].failed = Cardinality(Paths \ NotMedia)
                             /\ shown[j].failed = 0 =>
                                  {ContentOf[p] : p \in Paths \ NotMedia} \subseteq media \cup gone
      BY DEF ImportAccounted
    <2>1. Reported(j)
      BY <1>1 DEF ImportInv, ImportTyped, JobInv
    <2>. QED  BY <2>1 DEF Reported
  <1>. QED  BY <1>1, ImportAlways, PTL

-----------------------------------------------------------------------------
(* The server: the parts side by side *)

\* A behaviour of the composed server is one of every part: what a part reads and
\* writes is changed by the steps of that part alone.
LEMMA ServerSteps ==
    ASSUME [ServerNext]_allVars
    PROVE  /\ [BackupNext]_backupVars
           /\ [AccountsNext]_accountVars
           /\ [LockoutNext]_lockoutVars
           /\ [DupNext]_dupVars
           /\ [GroupsNext]_<<dupVars, grpVars>>
           /\ [PersonNext]_personVars
           /\ [ImportNext]_importVars
           /\ [LimitNext]_limitVars
  <1>1. [BackupNext]_backupVars /\ [AccountsNext]_accountVars
    BY DEF ServerNext, allVars
  <1>2. [LockoutNext]_lockoutVars /\ [PersonNext]_personVars
    BY DEF ServerNext, allVars
  <1>3. [ImportNext]_importVars /\ [LimitNext]_limitVars
    BY DEF ServerNext, allVars
  <1>4. [DupNext]_dupVars
    BY DEF ServerNext, allVars, DupNext
  <1>5. [GroupsNext]_<<dupVars, grpVars>>
    BY DEF ServerNext, allVars, DupNext, GroupsNext
  <1>. QED  BY <1>1, <1>2, <1>3, <1>4, <1>5

LEMMA ServerParts ==
    ServerSpec =>
        /\ BackupSpec /\ AccountsSpec /\ LockoutSpec /\ DupSpec /\ GroupsSpec
        /\ PersonSpec /\ ImportSpec /\ LimitSpec
  <1>1. ServerInit => /\ BackupInit /\ AccountsInit /\ LockoutInit /\ DupInit /\ GrpInit
                      /\ PersonInit /\ ImportInit /\ LimitInit
    BY DEF ServerInit
  <1>. QED  BY <1>1, ServerSteps, PTL
            DEF ServerSpec, BackupSpec, AccountsSpec, LockoutSpec, DupSpec, GroupsSpec, PersonSpec,
                ImportSpec, LimitSpec

\* Every variable of the server keeps its type, whichever part runs.
THEOREM ServerTypeCorrect == ServerSpec => []ServerTypeOK
  <1>1. ASSUME BackupTypeOK, AccountsTyped, LockoutTypeOK, DupTypeOK, GroupsInv, PersonTypeOK,
               ImportTypeOK, LimitTypeOK
        PROVE  ServerTypeOK
    BY <1>1 DEF ServerTypeOK, AccountsTyped, GroupsInv
  <1>. QED  BY <1>1, ServerParts, BackupTypeCorrect, AccountsTypeCorrect, LockoutTypeCorrect,
               DupTypeCorrect, GroupsAlways, PersonsTypeCorrect, ImportTypeCorrect,
               LimitTypeCorrect, PTL

\* What the parts promise holds of the server they make up.
THEOREM ServerSafe ==
    ServerSpec =>
        /\ []RetainedRestorable /\ []OneSetup /\ []LockoutBound /\ []StatusFresh /\ []AdminRemains
        /\ []PairsComplete /\ []GroupsExact /\ []PersonsCurrent /\ NeverSplit
        /\ []JobsTracked /\ []ImportAccounted /\ []WithinRate /\ []MeshRecoveryPossible
  BY ServerParts, KeptRestorable, MeshRecovers, SetupOnce, LockoutBounded, ServedFresh, AdminStays,
     ComparedPairsKept, GroupsAreComponents, PersonRowsCurrent, FacesStayTogether,
     JobsStayTracked, ImportsAccounted, RateHolds, PTL

=============================================================================
