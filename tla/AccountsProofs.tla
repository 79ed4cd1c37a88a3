--------------------------- MODULE AccountsProofs ---------------------------
(***************************************************************************)
(* Proofs about the accounts and the lockout of logins, for any numbers of *)
(* users, requests and attempts, any time to live of a cached status, any  *)
(* delay of a query and any threshold.                                     *)
(***************************************************************************)
EXTENDS Accounts, LoginLockout, FiniteSetTheorems, TLAPS

-----------------------------------------------------------------------------
(* The lockout *)

Underway(n) == {a \in Attempts : attempt[a] = n}

\* The attempts under way for a name are finitely many.
LEMMA UnderwayFinite ==
    ASSUME NEW n
    PROVE  /\ IsFiniteSet(Underway(n))
           /\ Cardinality(Underway(n)) \in Nat
           /\ Cardinality(Underway(n)) =< Cardinality(Attempts)
           /\ Cardinality(Attempts) \in Nat
  BY LockoutAssumption, FS_Subset, FS_CardinalityType DEF Underway

\* An attempt that ends is under way for its name no more, and for no other.
LEMMA UnderwayEnds ==
    ASSUME LockoutTypeOK, NEW a \in Attempts, attempt[a] # NoName, EndAttempt(a), NEW n \in Names
    PROVE  Cardinality(Underway(n))' = IF attempt[a] = n THEN Cardinality(Underway(n)) - 1
                                                         ELSE Cardinality(Underway(n))
  <1>1. CASE attempt[a] = n
    <2>1. Underway(n)' = Underway(n) \ {a}
      BY <1>1, LockoutAssumption DEF Underway, EndAttempt, LockoutTypeOK
    <2>2. a \in Underway(n)
      BY <1>1 DEF Underway
    <2>3. Cardinality(Underway(n) \ {a}) = Cardinality(Underway(n)) - 1
      BY <2>2, UnderwayFinite, FS_RemoveElement
    <2>. QED  BY <1>1, <2>1, <2>3
  <1>2. CASE attempt[a] # n
    <2>1. Underway(n)' = Underway(n)
      BY <1>2, LockoutAssumption DEF Underway, EndAttempt, LockoutTypeOK
    <2>. QED  BY <1>2, <2>1
  <1>. QED  BY <1>1, <1>2

\* An attempt that begins, however many are under way for its name.
LEMMA UnderwayBegins ==
    ASSUME LockoutTypeOK, NEW a \in Attempts, NEW m \in Names, BeginLogin(a, m), NEW n \in Names \ {m}
    PROVE  Underway(n)' = Underway(n)
  BY LockoutAssumption DEF Underway, BeginLogin, LockoutTypeOK

\* The store of login failures keeps its type.
THEOREM LockoutTypeCorrect == LockoutSpec => []LockoutTypeOK
  <1>1. LockoutInit => LockoutTypeOK
    BY DEF LockoutInit, LockoutTypeOK
  <1>2. LockoutTypeOK /\ [LockoutNext]_lockoutVars => LockoutTypeOK'
    <2> SUFFICES ASSUME LockoutTypeOK, [LockoutNext]_lockoutVars  PROVE LockoutTypeOK'
      OBVIOUS
    <2> USE DEF LockoutTypeOK, EndAttempt
    <2>1. ASSUME NEW a \in Attempts, NEW n \in Names, BeginLogin(a, n)  PROVE LockoutTypeOK'
      BY <2>1 DEF BeginLogin
    <2>2. ASSUME NEW a \in Attempts, LoginFails(a)  PROVE LockoutTypeOK'
      BY <2>2 DEF LoginFails
    <2>3. ASSUME NEW a \in Attempts, LoginSucceeds(a)  PROVE LockoutTypeOK'
      BY <2>3 DEF LoginSucceeds
    <2>4. ASSUME NEW a \in Attempts, LoginErrs(a)  PROVE LockoutTypeOK'
      BY <2>4 DEF LoginErrs
    <2>5. ASSUME NEW n \in Names, FailureExpires(n)  PROVE LockoutTypeOK'
      BY <2>5 DEF FailureExpires
    <2>6. CASE UNCHANGED lockoutVars
      BY <2>6 DEF lockoutVars
    <2>. QED  BY <2>1, <2>2, <2>3, <2>4, <2>5, <2>6 DEF LockoutNext
  <1>. QED  BY <1>1, <1>2, PTL DEF LockoutSpec

\* The failures recorded for a name exceed the threshold by less than the attempts
\* that may be under way, for any threshold and any number of them: a failure takes
\* the place of the attempt it ends (perform_login, record_login_failure).
THEOREM LockoutBounded == LockoutSpec => []LockoutBound
  <1>1. LockoutInit => LockoutBound
    <2> SUFFICES ASSUME LockoutInit, NEW n \in Names
                 PROVE  fails[n] + Cardinality(Underway(n)) < LOGIN_FAILURE_THRESHOLD + Cardinality(Attempts)
      BY DEF LockoutBound, Underway
    <2>1. fails[n] = 0
      BY DEF LockoutInit
    <2>. QED  BY <2>1, UnderwayFinite, LockoutAssumption
  <1>2. LockoutTypeOK /\ LockoutBound /\ [LockoutNext]_lockoutVars => LockoutBound'
    <2> SUFFICES ASSUME LockoutTypeOK, LockoutBound, [LockoutNext]_lockoutVars, NEW n \in Names
                 PROVE  fails'[n] + Cardinality(Underway(n))' < LOGIN_FAILURE_THRESHOLD + Cardinality(Attempts)
      BY DEF LockoutBound, Underway
    <2>0. /\ fails[n] \in Nat /\ fails \in [Names -> Nat]
          /\ Cardinality(Underway(n)) \in Nat /\ Cardinality(Attempts) \in Nat
          /\ fails[n] + Cardinality(Underway(n)) < LOGIN_FAILURE_THRESHOLD + Cardinality(Attempts)
          /\ LOGIN_FAILURE_THRESHOLD \in Nat
      BY UnderwayFinite, LockoutAssumption DEF LockoutTypeOK, LockoutBound, Underway
    <2>1. ASSUME NEW a \in Attempts, NEW m \in Names, BeginLogin(a, m)
          PROVE  fails'[n] + Cardinality(Underway(n))' < LOGIN_FAILURE_THRESHOLD + Cardinality(Attempts)
      <3>1. CASE n = m
        <4>1. Cardinality(Underway(n)') \in Nat /\ Cardinality(Underway(n)') =< Cardinality(Attempts)
          BY LockoutAssumption, FS_Subset, FS_CardinalityType DEF Underway
        <4>2. fails'[n] = fails[n] /\ fails[n] < LOGIN_FAILURE_THRESHOLD
          BY <2>1, <3>1 DEF BeginLogin, LoginAllowed
        <4>. QED  BY <2>0, <4>1, <4>2
      <3>2. CASE n # m
        BY <2>0, <2>1, <3>2, UnderwayBegins DEF BeginLogin
      <3>. QED  BY <3>1, <3>2
    <2>2. ASSUME NEW a \in Attempts, LoginFails(a)
          PROVE  fails'[n] + Cardinality(Underway(n))' < LOGIN_FAILURE_THRESHOLD + Cardinality(Attempts)
      <3>1. fails'[n] = IF attempt[a] = n THEN fails[n] + 1 ELSE fails[n]
        BY <2>0, <2>2 DEF LoginFails
      <3>. QED  BY <2>0, <2>2, <3>1, UnderwayEnds DEF LoginFails
    <2>3. ASSUME NEW a \in Attempts, LoginSucceeds(a)
          PROVE  fails'[n] + Cardinality(Underway(n))' < LOGIN_FAILURE_THRESHOLD + Cardinality(Attempts)
      <3>1. fails'[n] = IF attempt[a] = n THEN 0 ELSE fails[n]
        BY <2>0, <2>3 DEF LoginSucceeds
      <3>. QED  BY <2>0, <2>3, <3>1, UnderwayEnds DEF LoginSucceeds
    <2>4. ASSUME NEW a \in Attempts, LoginErrs(a)
          PROVE  fails'[n] + Cardinality(Underway(n))' < LOGIN_FAILURE_THRESHOLD + Cardinality(Attempts)
      <3>1. fails'[n] = fails[n]
        BY <2>4 DEF LoginErrs
      <3>. QED  BY <2>0, <2>4, <3>1, UnderwayEnds DEF LoginErrs
    <2>5. ASSUME NEW m \in Names, FailureExpires(m)
          PROVE  fails'[n] + Cardinality(Underway(n))' < LOGIN_FAILURE_THRESHOLD + Cardinality(Attempts)
      <3>1. fails'[n] \in Nat /\ fails'[n] =< fails[n]
        BY <2>0, <2>5 DEF FailureExpires
      <3>2. Underway(n)' = Underway(n)
        BY <2>5 DEF FailureExpires, Underway
      <3>. QED  BY <2>0, <3>1, <3>2
    <2>6. CASE UNCHANGED lockoutVars
      BY <2>0, <2>6 DEF lockoutVars, Underway
    <2>. QED  BY <2>1, <2>2, <2>3, <2>4, <2>5, <2>6 DEF LockoutNext
  <1>. QED  BY <1>1, <1>2, LockoutTypeCorrect, PTL DEF LockoutSpec

-----------------------------------------------------------------------------
(* The accounts *)

\* A query that was slow, after a status that was still served, is within the
\* history that is kept.
LEMMA SpanFacts ==
    /\ STATUS_TTL \in Nat /\ STATUS_TTL > 0 /\ MaxDelay \in Nat /\ MaxOps \in Nat
    /\ Span \in Nat /\ Span = STATUS_TTL - 1 + MaxDelay
    /\ 0 \in 0 .. Span
    /\ NoUser \notin Users
  BY AccountsAssumption DEF Span

\* What a request that has just begun or been admitted is.
LEMMA RequestAtFacts ==
    ASSUME NEW p \in {"idle", "read", "admitted"}, NEW u \in Users \cup {NoUser}, NEW s \in Status
    PROVE  /\ RequestAt(p, u, s) \in RequestState
           /\ RequestAt(p, u, s).at = p /\ RequestAt(p, u, s).user = u
           /\ RequestAt(p, u, s).status = s /\ RequestAt(p, u, s).age = 0
  BY SpanFacts DEF RequestAt, RequestState

\* The values the model starts from are well typed.
LEMMA StatusFacts ==
    /\ Absent \in Status
    /\ \A r \in Roles : NewAccount(r) \in Status
    /\ IdleRequest \in RequestState /\ IdleRequest.at = "idle"
    /\ ~Absent.there
  <1>1. Absent \in Status /\ ~Absent.there /\ \A r \in Roles : NewAccount(r) \in Status
    BY DEF Absent, Status, NewAccount, Roles
  <1>. QED  BY <1>1, RequestAtFacts DEF IdleRequest

\* What a write of one row keeps of the types and of the history.
LEMMA WriteFacts ==
    ASSUME AccountsTypeOK, NEW u \in Users, NEW s \in Status, Write(u, s)
    PROVE  /\ account' \in [Users -> Status]
           /\ account'[u] = s
           /\ \A v \in Users \ {u} : account'[v] = account[v]
           /\ past' \in [Users -> [0 .. Span -> SUBSET Status]]
           /\ \A v \in Users : account'[v] \in past'[v][0]
           /\ \A v \in Users, k \in 0 .. Span : past[v][k] \subseteq past'[v][k]
           /\ ops' \in 0 .. MaxOps
  <1>1. /\ account' = [account EXCEPT ![u] = s]
        /\ past' = [past EXCEPT ![u] = [past[u] EXCEPT ![0] = @ \cup {s}]]
        /\ ops < MaxOps /\ ops' = ops + 1
    BY DEF Write
  <1>2. [past[u] EXCEPT ![0] = @ \cup {s}] \in [0 .. Span -> SUBSET Status]
    BY SpanFacts DEF AccountsTypeOK
  <1>3. past' \in [Users -> [0 .. Span -> SUBSET Status]]
    BY <1>1, <1>2 DEF AccountsTypeOK
  <1>4. \A v \in Users, k \in 0 .. Span :
           past'[v][k] = IF v = u /\ k = 0 THEN past[u][0] \cup {s} ELSE past[v][k]
    BY <1>1, SpanFacts DEF AccountsTypeOK
  <1>5. account' \in [Users -> Status] /\ account'[u] = s /\ \A v \in Users \ {u} : account'[v] = account[v]
    BY <1>1 DEF AccountsTypeOK
  <1>6. \A v \in Users : account'[v] \in past'[v][0]
    BY <1>4, <1>5, SpanFacts DEF AccountsTypeOK
  <1>7. ops' \in 0 .. MaxOps
    BY <1>1, SpanFacts DEF AccountsTypeOK
  <1>. QED  BY <1>3, <1>4, <1>5, <1>6, <1>7

\* Requests that act for a user, or have a cached status to drop, name one.
RequestsNamed ==
    \A q \in Requests :
        /\ req[q].at \in {"read", "admitted"} => req[q].user \in Users
        /\ req[q].at = "committed" => req[q].target \in Users

\* A request that is admitted, or turned away, is well typed and named; the others
\* are as they were.
LEMMA AdmitFacts ==
    ASSUME AccountsTypeOK, NEW q \in Requests, NEW u \in Users, NEW s \in Status, Admit(q, u, s)
    PROVE  /\ req' \in [Requests -> RequestState]
           /\ \A r \in Requests \ {q} : req'[r] = req[r]
           /\ \/ req'[q] = IdleRequest
              \/ s.active /\ req'[q].at = "admitted" /\ req'[q].user = u /\ req'[q].status = s
  BY RequestAtFacts, StatusFacts DEF Admit, AccountsTypeOK

\* A request that ends leaves the others as they were.
LEMMA DoneFacts ==
    ASSUME AccountsTypeOK, NEW q \in Requests, Done(q)
    PROVE  /\ req' \in [Requests -> RequestState]
           /\ \A r \in Requests \ {q} : req'[r] = req[r]
           /\ req'[q] = IdleRequest
  BY StatusFacts DEF Done, AccountsTypeOK

\* So does one that has committed, which keeps what it was admitted with.
LEMMA CommittedFacts ==
    ASSUME AccountsTypeOK, NEW q \in Requests, NEW t \in Users, Committed(q, t)
    PROVE  /\ req' \in [Requests -> RequestState]
           /\ \A r \in Requests \ {q} : req'[r] = req[r]
           /\ req'[q].at = "committed" /\ req'[q].target = t
  <1> DEFINE com == [req[q] EXCEPT !.at = "committed", !.target = t]
  <1>1. req[q] \in RequestState
    BY DEF AccountsTypeOK
  <1>2. com \in RequestState /\ com.at = "committed" /\ com.target = t
    BY <1>1 DEF RequestState
  <1>3. req' = [req EXCEPT ![q] = com]
    BY DEF Committed
  <1> HIDE DEF com
  <1>. QED  BY <1>2, <1>3 DEF AccountsTypeOK

AccountsTyped == AccountsTypeOK /\ RequestsNamed

LEMMA AccountsTypedInit == AccountsInit => AccountsTyped
  <1> SUFFICES ASSUME AccountsInit  PROVE AccountsTyped
    OBVIOUS
  <1>1. account \in [Users -> Status]
    BY StatusFacts DEF AccountsInit, Roles
  <1>2. past \in [Users -> [0 .. Span -> SUBSET Status]] /\ \A u \in Users : account[u] \in past[u][0]
    BY <1>1, SpanFacts DEF AccountsInit
  <1>3. req \in [Requests -> RequestState] /\ \A q \in Requests : req[q].at = "idle"
    BY StatusFacts DEF AccountsInit
  <1>4. /\ bySetup \subseteq Users /\ tokens \subseteq Users
        /\ cached \in [Users -> Status]
    BY StatusFacts DEF AccountsInit
  <1>5. cacheAge \in [Users -> 0 .. STATUS_TTL] /\ ops \in 0 .. MaxOps
    BY SpanFacts DEF AccountsInit
  <1>6. crossed \in BOOLEAN
    BY DEF AccountsInit
  <1>. QED  BY <1>1, <1>2, <1>3, <1>4, <1>5, <1>6 DEF AccountsTyped, AccountsTypeOK, RequestsNamed

LEMMA AccountsTypedStep == AccountsTyped /\ [AccountsNext]_accountVars => AccountsTyped'
  <1> SUFFICES ASSUME AccountsTypeOK, RequestsNamed, [AccountsNext]_accountVars
               PROVE  AccountsTypeOK' /\ RequestsNamed'
    BY DEF AccountsTyped
  <1>0. IdleRequest.at = "idle"
    BY StatusFacts
  <1>1. CASE ClockTick
    <2>1. ASSUME NEW q \in Requests
          PROVE  /\ req'[q] \in RequestState
                 /\ req'[q].at = req[q].at /\ req'[q].user = req[q].user /\ req'[q].target = req[q].target
      <3>1. req[q] \in RequestState /\ (req[q].at = "read" => req[q].age < MaxDelay)
        BY <1>1 DEF ClockTick, AccountsTypeOK
      <3>2. req'[q] = IF req[q].at = "read" THEN [req[q] EXCEPT !.age = @ + 1] ELSE req[q]
        BY <1>1 DEF ClockTick
      <3>. QED  BY <3>1, <3>2, SpanFacts DEF RequestState
    <2>2. cacheAge' \in [Users -> 0 .. STATUS_TTL]
      BY <1>1, SpanFacts DEF ClockTick, AccountsTypeOK
    <2>3. past' \in [Users -> [0 .. Span -> SUBSET Status]] /\ \A u \in Users : account[u] \in past'[u][0]
      <3>1. ASSUME NEW u \in Users
            PROVE  [k \in 0 .. Span |-> IF k = 0 THEN {account[u]} ELSE past[u][k - 1]]
                      \in [0 .. Span -> SUBSET Status]
        BY SpanFacts DEF AccountsTypeOK
      <3>. QED  BY <1>1, <3>1, SpanFacts DEF ClockTick
    <2>4. req' \in [Requests -> RequestState]
      <3>1. req' = [q \in Requests |-> req'[q]]
        BY <1>1 DEF ClockTick
      <3>. QED  BY <2>1, <3>1
    <2>. QED  BY <1>1, <2>1, <2>2, <2>3, <2>4 DEF ClockTick, AccountsTypeOK, RequestsNamed
  <1>2. ASSUME NEW u \in Users, Login(u)  PROVE AccountsTypeOK' /\ RequestsNamed'
    BY <1>2 DEF Login, AccountsTypeOK, RequestsNamed
  <1>3. ASSUME NEW q \in Requests, CountUsers(q)  PROVE AccountsTypeOK' /\ RequestsNamed'
    <2>1. req[q] \in RequestState /\ req' = [req EXCEPT ![q] = [req[q] EXCEPT !.at = "counted"]]
      BY <1>3 DEF CountUsers, AccountsTypeOK
    <2>2. [req[q] EXCEPT !.at = "counted"] \in RequestState /\ [req[q] EXCEPT !.at = "counted"].at = "counted"
      BY <2>1 DEF RequestState
    <2>3. /\ req' \in [Requests -> RequestState]
          /\ \A r \in Requests \ {q} : req'[r] = req[r]
          /\ req'[q].at = "counted"
      BY <2>1, <2>2 DEF AccountsTypeOK
    <2>. QED  BY <1>3, <2>3 DEF CountUsers, AccountsTypeOK, RequestsNamed
  <1>4. ASSUME NEW q \in Requests, NEW u \in Users, InsertAdmin(q, u)
        PROVE  AccountsTypeOK' /\ RequestsNamed'
    <2>1. NewAccount("admin") \in Status
      BY StatusFacts DEF Roles
    <2>. QED  BY <1>0, <1>4, <2>1, WriteFacts, DoneFacts DEF InsertAdmin, AccountsTypeOK, RequestsNamed
  <1>5. ASSUME NEW q \in Requests, NEW u \in Users, AuthHit(q, u)
        PROVE  AccountsTypeOK' /\ RequestsNamed'
    <2>1. cached[u] \in Status
      BY DEF AccountsTypeOK
    <2>2. Admit(q, u, cached[u])
      BY <1>5 DEF AuthHit
    <2>3. /\ req' \in [Requests -> RequestState]
          /\ \A r \in Requests \ {q} : req'[r] = req[r]
          /\ req'[q] = IdleRequest \/ (req'[q].at = "admitted" /\ req'[q].user = u)
      BY <2>1, <2>2, AdmitFacts
    <2>4. RequestsNamed'
      BY <1>0, <2>3 DEF RequestsNamed
    <2>. QED  BY <1>5, <2>3, <2>4 DEF AuthHit, AccountsTypeOK
  <1>6. ASSUME NEW q \in Requests, NEW u \in Users, ReadStatus(q, u)
        PROVE  AccountsTypeOK' /\ RequestsNamed'
    <2>1. req' = [req EXCEPT ![q] = RequestAt("read", u, account[u])] /\ account[u] \in Status
      BY <1>6 DEF ReadStatus, AccountsTypeOK
    <2>2. /\ req' \in [Requests -> RequestState]
          /\ \A r \in Requests \ {q} : req'[r] = req[r]
          /\ req'[q].user \in Users /\ req'[q].at = "read"
      BY <2>1, RequestAtFacts DEF AccountsTypeOK
    <2>. QED  BY <1>6, <2>2 DEF ReadStatus, AccountsTypeOK, RequestsNamed
  <1>7. ASSUME NEW q \in Requests, FillCache(q)  PROVE AccountsTypeOK' /\ RequestsNamed'
    <2>1. req[q].status \in Status /\ req[q].user \in Users
      BY <1>7 DEF AccountsTypeOK, RequestState, FillCache, RequestsNamed
    <2>2. cached' \in [Users -> Status] /\ cacheAge' \in [Users -> 0 .. STATUS_TTL]
      BY <1>7, <2>1, SpanFacts DEF FillCache, AccountsTypeOK
    <2>3. PICK u \in Users, s \in Status : u = req[q].user /\ s = req[q].status
      BY <2>1
    <2>4. /\ req' \in [Requests -> RequestState]
          /\ \A r \in Requests \ {q} : req'[r] = req[r]
          /\ req'[q].at = "idle" \/ (req'[q].at = "admitted" /\ req'[q].user \in Users)
      <3>1. Admit(q, u, s)
        BY <1>7, <2>3 DEF FillCache, Admit
      <3>2. /\ req' \in [Requests -> RequestState]
            /\ \A r \in Requests \ {q} : req'[r] = req[r]
            /\ req'[q] = IdleRequest \/ (req'[q].at = "admitted" /\ req'[q].user = u)
        BY <2>3, <3>1, AdmitFacts
      <3>. QED  BY <1>0, <2>3, <3>2
    <2>. QED  BY <1>7, <2>2, <2>4 DEF FillCache, AccountsTypeOK, RequestsNamed
  <1>8. ASSUME NEW q \in Requests, InvalidateCache(q)  PROVE AccountsTypeOK' /\ RequestsNamed'
    BY <1>0, <1>8, DoneFacts, SpanFacts, StatusFacts DEF InvalidateCache, AccountsTypeOK, RequestsNamed
  <1>9. ASSUME NEW q \in Requests, ProvisionUser(q)  PROVE AccountsTypeOK' /\ RequestsNamed'
    <2>1. req[q].user \in Users /\ NewAccount(req[q].status.role) \in Status
      BY <1>9, StatusFacts DEF AccountsTypeOK, RequestState, Status, ProvisionUser, RequestsNamed
    <2>. QED  BY <1>9, <2>1, WriteFacts DEF ProvisionUser, Cross, AccountsTypeOK, RequestsNamed
  <1>10. ASSUME NEW q \in Requests, EndRequest(q)  PROVE AccountsTypeOK' /\ RequestsNamed'
    BY <1>0, <1>10, DoneFacts DEF EndRequest, AccountsTypeOK, RequestsNamed
  <1>11. ASSUME NEW q \in Requests, NEW u \in Users, CreateUser(q, u)
         PROVE  AccountsTypeOK' /\ RequestsNamed'
    <2>1. PICK r \in Roles : Write(u, NewAccount(r))
      BY <1>11 DEF CreateUser
    <2>. QED  BY <1>0, <1>11, <2>1, StatusFacts, WriteFacts, DoneFacts
              DEF CreateUser, Cross, AccountsTypeOK, RequestsNamed
  <1>12. ASSUME NEW q \in Requests, NEW u \in Users, UpdateUser(q, u)
         PROVE  AccountsTypeOK' /\ RequestsNamed'
    <2>1. PICK s \in Changes(q, u) : Write(u, s)
      BY <1>12 DEF UpdateUser
    <2>2. s \in Status
      BY <2>1 DEF Changes, Status
    <2>. QED  BY <1>12, <2>1, <2>2, WriteFacts, CommittedFacts
              DEF UpdateUser, Cross, AccountsTypeOK, RequestsNamed
  <1>13. ASSUME NEW q \in Requests, NEW u \in Users, DeleteUser(q, u)
         PROVE  AccountsTypeOK' /\ RequestsNamed'
    <2>1. Absent \in Status /\ Write(u, Absent) /\ Committed(q, u)
      BY <1>13, StatusFacts DEF DeleteUser
    <2>2. /\ account' \in [Users -> Status]
          /\ past' \in [Users -> [0 .. Span -> SUBSET Status]]
          /\ \A v \in Users : account'[v] \in past'[v][0]
          /\ ops' \in 0 .. MaxOps
      BY <2>1, WriteFacts
    <2>3. req' \in [Requests -> RequestState] /\ RequestsNamed'
      BY <2>1, CommittedFacts DEF RequestsNamed
    <2>. QED  BY <1>13, <2>2, <2>3 DEF DeleteUser, Cross, AccountsTypeOK
  <1>14. CASE UNCHANGED accountVars
    BY <1>14 DEF accountVars, AccountsTypeOK, RequestsNamed
  <1>. QED  BY <1>1, <1>2, <1>3, <1>4, <1>5, <1>6, <1>7, <1>8, <1>9, <1>10, <1>11, <1>12, <1>13, <1>14
            DEF AccountsNext

\* The accounts, the requests, the cache and the history keep their types, and a
\* request that acts for a user names one.
THEOREM AccountsTypeCorrect == AccountsSpec => []AccountsTyped
  BY AccountsTypedInit, AccountsTypedStep, PTL DEF AccountsSpec

-----------------------------------------------------------------------------
(* One setup *)

\* The request that holds the advisory lock is the only one, it holds it while no
\* account made by a setup is there, and at most one ever is.
SetupInv ==
    /\ \A q, r \in Requests : req[q].at = "counted" /\ req[r].at = "counted" => q = r
    /\ \A q \in Requests, u \in bySetup : req[q].at = "counted" => ~account[u].there
    /\ \A u, v \in bySetup : account[u].there /\ account[v].there => u = v

\* A step that begins no setup, makes no account of one and has an account that is
\* not there written only outside bySetup keeps the invariant.
LEMMA SetupKept ==
    ASSUME SetupInv,
           \A q \in Requests : req'[q].at = "counted" => req[q].at = "counted",
           \A u \in bySetup' : u \in bySetup /\ (account'[u].there => account[u].there)
    PROVE  SetupInv'
  BY DEF SetupInv

\* A request that is answered holds no lock.
LEMMA UncountedFacts ==
    ASSUME AccountsTypeOK, NEW q \in Requests,
           Done(q) \/ (\E t \in Users : Committed(q, t))
    PROVE  \A r \in Requests : req'[r].at = "counted" => req[r].at = "counted"
  <1>1. CASE Done(q)
    BY <1>1, DoneFacts, StatusFacts
  <1>2. ASSUME NEW t \in Users, Committed(q, t)
        PROVE  \A r \in Requests : req'[r].at = "counted" => req[r].at = "counted"
    BY <1>2, CommittedFacts
  <1>. QED  BY <1>1, <1>2

LEMMA SetupStep == AccountsTyped /\ SetupInv /\ [AccountsNext]_accountVars => SetupInv'
  <1> SUFFICES ASSUME AccountsTypeOK, RequestsNamed, SetupInv, [AccountsNext]_accountVars
               PROVE  SetupInv'
    BY DEF AccountsTyped
  <1>1. CASE ClockTick
    <2>1. ASSUME NEW q \in Requests  PROVE req'[q].at = req[q].at
      <3>1. req[q] \in RequestState
        BY DEF AccountsTypeOK
      <3>2. req'[q] = IF req[q].at = "read" THEN [req[q] EXCEPT !.age = @ + 1] ELSE req[q]
        BY <1>1 DEF ClockTick
      <3>. QED  BY <3>1, <3>2 DEF RequestState
    <2>. QED  BY <1>1, <2>1, SetupKept DEF ClockTick
  <1>2. ASSUME NEW u \in Users, Login(u)  PROVE SetupInv'
    BY <1>2 DEF Login, SetupInv
  <1>3. ASSUME NEW q \in Requests, CountUsers(q)  PROVE SetupInv'
    <2>1. \A r \in Requests : r # q => req'[r] = req[r] /\ req[r].at # "counted"
      BY <1>3 DEF CountUsers, SetupLockFree, AccountsTypeOK
    <2>2. \A r \in Requests : r # q => req'[r].at # "counted"
      BY <2>1
    <2>3. account' = account /\ bySetup' = bySetup /\ \A u \in bySetup : ~account[u].there
      BY <1>3 DEF CountUsers, AccountsTypeOK
    <2>. QED  BY <2>2, <2>3 DEF SetupInv
  <1>4. ASSUME NEW q \in Requests, NEW u \in Users, InsertAdmin(q, u)  PROVE SetupInv'
    <2>1. NewAccount("admin") \in Status /\ Write(u, NewAccount("admin")) /\ Done(q)
      BY <1>4, StatusFacts DEF Roles, InsertAdmin
    <2>2. \A r \in Requests : req'[r].at # "counted"
      <3>1. req'[q].at = "idle" /\ \A r \in Requests \ {q} : req'[r] = req[r]
        BY <2>1, DoneFacts, StatusFacts
      <3>2. \A r \in Requests \ {q} : req[r].at # "counted"
        BY <1>4 DEF InsertAdmin, SetupInv
      <3>. QED  BY <3>1, <3>2
    <2>3. \A v \in bySetup : v # u => ~account'[v].there
      BY <1>4, <2>1, WriteFacts DEF InsertAdmin, SetupInv, AccountsTypeOK
    <2>4. bySetup' = bySetup \cup {u}
      BY <1>4 DEF InsertAdmin
    <2>. QED  BY <2>2, <2>3, <2>4 DEF SetupInv
  <1>5. ASSUME NEW q \in Requests, NEW u \in Users, AuthHit(q, u)  PROVE SetupInv'
    <2>1. cached[u] \in Status /\ Admit(q, u, cached[u])
      BY <1>5 DEF AuthHit, AccountsTypeOK
    <2>2. \A r \in Requests : req'[r].at = "counted" => req[r].at = "counted"
      BY <2>1, AdmitFacts, StatusFacts
    <2>. QED  BY <1>5, <2>2, SetupKept DEF AuthHit
  <1>6. ASSUME NEW q \in Requests, NEW u \in Users, ReadStatus(q, u)  PROVE SetupInv'
    <2>1. req' = [req EXCEPT ![q] = RequestAt("read", u, account[u])] /\ account[u] \in Status
      BY <1>6 DEF ReadStatus, AccountsTypeOK
    <2>2. \A r \in Requests : req'[r].at = "counted" => req[r].at = "counted"
      BY <2>1, RequestAtFacts DEF AccountsTypeOK
    <2>. QED  BY <1>6, <2>2, SetupKept DEF ReadStatus
  <1>7. ASSUME NEW q \in Requests, FillCache(q)  PROVE SetupInv'
    <2>1. PICK u \in Users, s \in Status : u = req[q].user /\ s = req[q].status
      BY <1>7 DEF AccountsTypeOK, RequestState, FillCache, RequestsNamed
    <2>2. Admit(q, u, s)
      BY <1>7, <2>1 DEF FillCache, Admit
    <2>3. \A r \in Requests : req'[r].at = "counted" => req[r].at = "counted"
      BY <2>2, AdmitFacts, StatusFacts
    <2>. QED  BY <1>7, <2>3, SetupKept DEF FillCache
  <1>8. ASSUME NEW q \in Requests, InvalidateCache(q)  PROVE SetupInv'
    BY <1>8, UncountedFacts, SetupKept DEF InvalidateCache
  <1>9. ASSUME NEW q \in Requests, ProvisionUser(q)  PROVE SetupInv'
    <2>1. PICK u \in Users, s \in Status : u = req[q].user /\ s = NewAccount(req[q].status.role)
      BY <1>9, StatusFacts DEF AccountsTypeOK, RequestState, Status, ProvisionUser, RequestsNamed
    <2>2. Write(u, s)
      BY <1>9, <2>1 DEF ProvisionUser, Write
    <2>3. \A v \in bySetup' : v \in bySetup /\ account'[v] = account[v]
      BY <1>9, <2>1, <2>2, WriteFacts DEF ProvisionUser, AccountsTypeOK
    <2>. QED  BY <1>9, <2>3, SetupKept DEF ProvisionUser
  <1>10. ASSUME NEW q \in Requests, EndRequest(q)  PROVE SetupInv'
    BY <1>10, UncountedFacts, SetupKept DEF EndRequest
  <1>11. ASSUME NEW q \in Requests, NEW u \in Users, CreateUser(q, u)  PROVE SetupInv'
    <2>1. PICK r \in Roles : Write(u, NewAccount(r))
      BY <1>11 DEF CreateUser
    <2>2. \A v \in bySetup' : v \in bySetup /\ account'[v] = account[v]
      BY <1>11, <2>1, StatusFacts, WriteFacts DEF CreateUser, AccountsTypeOK
    <2>. QED  BY <1>11, <2>2, UncountedFacts, SetupKept DEF CreateUser
  <1>12. ASSUME NEW q \in Requests, NEW u \in Users, UpdateUser(q, u)  PROVE SetupInv'
    <2>1. PICK s \in Changes(q, u) : Write(u, s)
      BY <1>12 DEF UpdateUser
    <2>2. s \in Status
      BY <2>1 DEF Changes, Status
    <2>3. \A v \in bySetup' : v \in bySetup /\ (account'[v].there => account[v].there)
      BY <1>12, <2>1, <2>2, WriteFacts DEF UpdateUser, AccountsTypeOK
    <2>. QED  BY <1>12, <2>3, UncountedFacts, SetupKept DEF UpdateUser
  <1>13. ASSUME NEW q \in Requests, NEW u \in Users, DeleteUser(q, u)  PROVE SetupInv'
    <2>1. Write(u, Absent) /\ Absent \in Status
      BY <1>13, StatusFacts DEF DeleteUser
    <2>2. \A v \in bySetup' : v \in bySetup /\ account'[v] = account[v]
      BY <1>13, <2>1, WriteFacts DEF DeleteUser, AccountsTypeOK
    <2>. QED  BY <1>13, <2>2, UncountedFacts, SetupKept DEF DeleteUser
  <1>14. CASE UNCHANGED accountVars
    BY <1>14 DEF accountVars, SetupInv
  <1>. QED  BY <1>1, <1>2, <1>3, <1>4, <1>5, <1>6, <1>7, <1>8, <1>9, <1>10, <1>11, <1>12, <1>13, <1>14
            DEF AccountsNext

\* However many setups run at once, at most one of the accounts they made is there
\* (setup_admin: the count and the insertion under pg_advisory_xact_lock).
THEOREM SetupOnce == AccountsSpec => []OneSetup
  <1>1. AccountsInit => SetupInv
    BY StatusFacts DEF AccountsInit, SetupInv
  <1>2. SetupInv => OneSetup
    <2> SUFFICES ASSUME SetupInv  PROVE Cardinality({u \in bySetup : account[u].there}) =< 1
      BY DEF OneSetup
    <2> DEFINE made == {u \in bySetup : account[u].there}
    <2>1. CASE made = {}
      BY <2>1, FS_EmptySet
    <2>2. ASSUME NEW u \in made  PROVE Cardinality(made) = 1
      <3>1. made = {u}
        BY DEF SetupInv
      <3>. QED  BY <3>1, FS_Singleton
    <2>. QED  BY <2>1, <2>2
  <1>. QED  BY <1>1, <1>2, SetupStep, AccountsTypeCorrect, PTL DEF AccountsSpec

-----------------------------------------------------------------------------
(* The cached statuses *)

\* s was the status of u at most n ticks ago.
Recent(u, s, n) == \E k \in 0 .. Span : k =< n /\ s \in past[u][k]

\* A status that is served was the row's when its query began, at most MaxDelay
\* before it was put into the cache; one that was read, when it was read.
FreshInv ==
    /\ \A u \in Users : Served(u) => Recent(u, cached[u], cacheAge[u] + MaxDelay)
    /\ \A q \in Requests : req[q].at = "read" => Recent(req[q].user, req[q].status, req[q].age)

\* A request that goes on has read a row that was there, and one that was admitted
\* an active one.
ReadInv ==
    \A q \in Requests :
        /\ req[q].at = "read" => req[q].status.there
        /\ req[q].at = "admitted" => req[q].status.there /\ req[q].status.active

\* What a step that reads nothing and fills no cache keeps of both, when the history
\* of the rows only grows.
LEMMA FreshKept ==
    ASSUME AccountsTyped, FreshInv,
           \A q \in Requests : req'[q].at = "read" => req'[q] = req[q],
           \A u \in Users : Served(u)' => Served(u) /\ cached'[u] = cached[u] /\ cacheAge'[u] = cacheAge[u],
           \A u \in Users, k \in 0 .. Span : past[u][k] \subseteq past'[u][k]
    PROVE  FreshInv'
  <1>1. ASSUME NEW u \in Users, Served(u)'
        PROVE  Recent(u, cached[u], cacheAge[u] + MaxDelay)'
    BY <1>1 DEF FreshInv, Recent
  <1>2. ASSUME NEW q \in Requests, req'[q].at = "read"
        PROVE  Recent(req[q].user, req[q].status, req[q].age)'
    BY <1>2 DEF FreshInv, Recent, AccountsTyped, RequestsNamed
  <1>. QED  BY <1>1, <1>2 DEF FreshInv

LEMMA ReadKept ==
    ASSUME ReadInv,
           \A q \in Requests : req'[q].at \in {"read", "admitted"} => req'[q] = req[q]
    PROVE  ReadInv'
  BY DEF ReadInv

\* A request that is answered has nothing to go on with.
LEMMA EndedFacts ==
    ASSUME AccountsTypeOK, NEW q \in Requests,
           Done(q) \/ (\E t \in Users : Committed(q, t))
    PROVE  \A r \in Requests : req'[r].at \in {"read", "admitted"} => req'[r] = req[r]
  <1>1. CASE Done(q)
    BY <1>1, DoneFacts, StatusFacts
  <1>2. ASSUME NEW t \in Users, Committed(q, t)
        PROVE  \A r \in Requests : req'[r].at \in {"read", "admitted"} => req'[r] = req[r]
    BY <1>2, CommittedFacts
  <1>. QED  BY <1>1, <1>2

\* A change of the table by a request that it ends, or that goes on as it was.
LEMMA WriteKeepsFresh ==
    ASSUME AccountsTyped, FreshInv, ReadInv, NEW u \in Users, NEW s \in Status, Write(u, s),
           \A r \in Requests : req'[r].at \in {"read", "admitted"} => req'[r] = req[r],
           UNCHANGED <<cached, cacheAge>>
    PROVE  FreshInv' /\ ReadInv'
  <1>1. \A v \in Users, k \in 0 .. Span : past[v][k] \subseteq past'[v][k]
    BY WriteFacts DEF AccountsTyped
  <1>2. \A v \in Users : Served(v)' => Served(v)
    BY DEF Served
  <1>3. \A r \in Requests : req'[r].at = "read" => req'[r] = req[r]
    OBVIOUS
  <1>4. FreshInv'
    BY <1>1, <1>2, <1>3, FreshKept
  <1>. QED  BY <1>4, ReadKept

LEMMA FreshStep == AccountsTyped /\ FreshInv /\ ReadInv /\ [AccountsNext]_accountVars => FreshInv' /\ ReadInv'
  <1> SUFFICES ASSUME AccountsTyped, FreshInv, ReadInv, [AccountsNext]_accountVars
               PROVE  FreshInv' /\ ReadInv'
    OBVIOUS
  <1>0. AccountsTypeOK /\ RequestsNamed
    BY DEF AccountsTyped
  <1>1. CASE ClockTick
    <2>1. ASSUME NEW q \in Requests
          PROVE  /\ req'[q].at = req[q].at /\ req'[q].user = req[q].user /\ req'[q].status = req[q].status
                 /\ req[q].at = "read" => /\ req'[q].age = req[q].age + 1
                                          /\ req[q].age \in 0 .. MaxDelay /\ req[q].age < MaxDelay
      <3>1. req[q] \in RequestState /\ (req[q].at = "read" => req[q].age < MaxDelay)
        BY <1>0, <1>1 DEF ClockTick, AccountsTypeOK
      <3>2. req'[q] = IF req[q].at = "read" THEN [req[q] EXCEPT !.age = @ + 1] ELSE req[q]
        BY <1>1 DEF ClockTick
      <3>. QED  BY <3>1, <3>2, SpanFacts DEF RequestState
    <2>2. ASSUME NEW u \in Users, NEW s, NEW n \in Nat, n < Span, Recent(u, s, n)
          PROVE  Recent(u, s, n + 1)'
      <3>1. PICK k \in 0 .. Span : k =< n /\ s \in past[u][k]
        BY <2>2 DEF Recent
      <3>2. k + 1 \in 0 .. Span /\ k + 1 =< n + 1 /\ (k + 1) - 1 = k /\ k + 1 # 0
        BY <2>2, <3>1, SpanFacts
      <3>3. past'[u][k + 1] = past[u][k]
        BY <1>1, <3>2 DEF ClockTick
      <3>. QED  BY <3>1, <3>2, <3>3 DEF Recent
    <2>3. ASSUME NEW u \in Users, Served(u)'
          PROVE  Recent(u, cached[u], cacheAge[u] + MaxDelay)'
      <3>1. /\ cached' = cached
            /\ cacheAge'[u] = IF cacheAge[u] < STATUS_TTL THEN cacheAge[u] + 1 ELSE STATUS_TTL
            /\ cacheAge[u] \in 0 .. STATUS_TTL
        BY <1>0, <1>1 DEF ClockTick, AccountsTypeOK
      <3>2. cached[u].there /\ cacheAge'[u] < STATUS_TTL
        BY <2>3, <3>1 DEF Served
      <3>3. cacheAge[u] < STATUS_TTL /\ cacheAge'[u] = cacheAge[u] + 1
        BY <3>1, <3>2, SpanFacts
      <3>4. PICK n \in Nat : n = cacheAge[u] + MaxDelay /\ n < Span /\ cacheAge'[u] + MaxDelay = n + 1
        BY <3>1, <3>2, <3>3, SpanFacts
      <3>5. PICK s : s = cached[u] /\ Recent(u, s, n)
        BY <3>2, <3>3, <3>4 DEF FreshInv, Served
      <3>6. Recent(u, s, n + 1)'
        BY <2>2, <3>4, <3>5
      <3>. QED  BY <3>1, <3>4, <3>5, <3>6
    <2>4. ASSUME NEW q \in Requests, req'[q].at = "read"
          PROVE  Recent(req[q].user, req[q].status, req[q].age)'
      <3>1. req[q].at = "read" /\ req[q].user \in Users
        BY <1>0, <2>1, <2>4 DEF RequestsNamed
      <3>2. PICK u \in Users, s \in Status, n \in Nat :
               u = req[q].user /\ s = req[q].status /\ n = req[q].age /\ n < Span
        <4>1. req[q].status \in Status
          BY <1>0 DEF AccountsTypeOK, RequestState
        <4>2. req[q].age \in Nat /\ req[q].age < Span
          BY <2>1, <3>1, SpanFacts
        <4>. QED  BY <3>1, <4>1, <4>2
      <3>3. Recent(u, s, n + 1)'
        BY <2>2, <3>1, <3>2 DEF FreshInv
      <3>4. req'[q].user = u /\ req'[q].status = s /\ req'[q].age = n + 1
        BY <2>1, <3>1, <3>2
      <3>. QED  BY <3>3, <3>4
    <2>5. ReadInv'
      BY <2>1 DEF ReadInv
    <2>. QED  BY <2>3, <2>4, <2>5 DEF FreshInv
  <1>2. ASSUME NEW u \in Users, Login(u)  PROVE FreshInv' /\ ReadInv'
    BY <1>2 DEF Login, FreshInv, ReadInv, Recent, Served
  <1>3. ASSUME NEW q \in Requests, CountUsers(q)  PROVE FreshInv' /\ ReadInv'
    <2>1. \A r \in Requests : req'[r].at \in {"read", "admitted"} => req'[r] = req[r]
      BY <1>0, <1>3 DEF CountUsers, AccountsTypeOK, RequestState
    <2>. QED  BY <1>3, <2>1, FreshKept, ReadKept DEF CountUsers, Served
  <1>4. ASSUME NEW q \in Requests, NEW u \in Users, InsertAdmin(q, u)  PROVE FreshInv' /\ ReadInv'
    <2>1. NewAccount("admin") \in Status /\ Write(u, NewAccount("admin")) /\ Done(q)
      BY <1>4, StatusFacts DEF Roles, InsertAdmin
    <2>2. \A r \in Requests : req'[r].at \in {"read", "admitted"} => req'[r] = req[r]
      BY <1>0, <2>1, EndedFacts
    <2>. QED  BY <1>4, <2>1, <2>2, WriteKeepsFresh DEF InsertAdmin
  <1>5. ASSUME NEW q \in Requests, NEW u \in Users, AuthHit(q, u)  PROVE FreshInv' /\ ReadInv'
    <2>1. cached[u] \in Status /\ Admit(q, u, cached[u]) /\ cached[u].there
      BY <1>0, <1>5 DEF AuthHit, AccountsTypeOK, Served
    <2>2. /\ \A r \in Requests \ {q} : req'[r] = req[r]
          /\ \/ req'[q].at = "idle"
             \/ cached[u].active /\ req'[q].at = "admitted" /\ req'[q].status = cached[u]
      BY <1>0, <2>1, AdmitFacts, StatusFacts
    <2>3. ReadInv'
      BY <2>1, <2>2 DEF ReadInv
    <2>4. FreshInv'
      BY <1>5, <2>2, FreshKept DEF AuthHit, Served
    <2>. QED  BY <2>3, <2>4
  <1>6. ASSUME NEW q \in Requests, NEW u \in Users, ReadStatus(q, u)  PROVE FreshInv' /\ ReadInv'
    <2>1. req' = [req EXCEPT ![q] = RequestAt("read", u, account[u])] /\ account[u] \in Status
      BY <1>0, <1>6 DEF ReadStatus, AccountsTypeOK
    <2>2. /\ \A r \in Requests \ {q} : req'[r] = req[r]
          /\ req'[q].user = u /\ req'[q].at = "read" /\ req'[q].status = account[u] /\ req'[q].age = 0
      BY <1>0, <2>1, RequestAtFacts DEF AccountsTypeOK
    <2>3. ReadInv'
      BY <1>6, <2>2 DEF ReadInv, ReadStatus
    <2>4. past' = past /\ cached' = cached /\ cacheAge' = cacheAge
      BY <1>6 DEF ReadStatus
    <2>5. Recent(u, account[u], 0)'
      BY <1>0, <1>6, <2>4, SpanFacts DEF Recent, AccountsTypeOK, ReadStatus
    <2>6. ASSUME NEW r \in Requests, req'[r].at = "read"
          PROVE  Recent(req[r].user, req[r].status, req[r].age)'
      <3>1. CASE r = q
        <4>1. account' = account
          BY <1>6 DEF ReadStatus
        <4>. QED  BY <2>2, <2>5, <3>1, <4>1 DEF Recent
      <3>2. CASE r # q
        BY <2>2, <2>4, <2>6, <3>2 DEF FreshInv, Recent
      <3>. QED  BY <3>1, <3>2
    <2>7. ASSUME NEW v \in Users, Served(v)'  PROVE Recent(v, cached[v], cacheAge[v] + MaxDelay)'
      BY <2>4, <2>7 DEF FreshInv, Recent, Served
    <2>. QED  BY <2>3, <2>6, <2>7 DEF FreshInv
  <1>7. ASSUME NEW q \in Requests, FillCache(q)  PROVE FreshInv' /\ ReadInv'
    <2>1. PICK u \in Users, s \in Status : u = req[q].user /\ s = req[q].status
      BY <1>0, <1>7 DEF AccountsTypeOK, RequestState, FillCache, RequestsNamed
    <2>2. Admit(q, u, s)
      BY <1>7, <2>1 DEF FillCache, Admit
    <2>3. /\ \A r \in Requests \ {q} : req'[r] = req[r]
          /\ \/ req'[q].at = "idle"
             \/ s.active /\ req'[q].at = "admitted" /\ req'[q].status = s
      BY <1>0, <2>2, AdmitFacts, StatusFacts
    <2>4. s.there
      BY <1>7, <2>1 DEF ReadInv, FillCache
    <2>5. ReadInv'
      BY <2>3, <2>4 DEF ReadInv
    <2>6. /\ past' = past
          /\ cached' = [cached EXCEPT ![u] = s] /\ cacheAge' = [cacheAge EXCEPT ![u] = 0]
      BY <1>7, <2>1 DEF FillCache
    <2>7. ASSUME NEW v \in Users, Served(v)'  PROVE Recent(v, cached[v], cacheAge[v] + MaxDelay)'
      <3>1. CASE v = u
        <4>1. cached'[v] = s /\ cacheAge'[v] = 0
          BY <1>0, <2>6, <3>1 DEF AccountsTypeOK
        <4>2. Recent(u, s, req[q].age) /\ req[q].age \in 0 .. MaxDelay
          BY <1>0, <1>7, <2>1 DEF FreshInv, FillCache, AccountsTypeOK, RequestState
        <4>3. PICK k \in 0 .. Span : k =< req[q].age /\ s \in past[u][k]
          BY <4>2 DEF Recent
        <4>4. k =< 0 + MaxDelay
          BY <4>2, <4>3, SpanFacts
        <4>. QED  BY <2>6, <3>1, <4>1, <4>3, <4>4 DEF Recent
      <3>2. CASE v # u
        <4>1. cached'[v] = cached[v] /\ cacheAge'[v] = cacheAge[v]
          BY <1>0, <2>6, <3>2 DEF AccountsTypeOK
        <4>. QED  BY <2>6, <2>7, <4>1 DEF FreshInv, Recent, Served
      <3>. QED  BY <3>1, <3>2
    <2>8. ASSUME NEW r \in Requests, req'[r].at = "read"
          PROVE  Recent(req[r].user, req[r].status, req[r].age)'
      BY <2>3, <2>6, <2>8 DEF FreshInv, Recent
    <2>. QED  BY <2>5, <2>7, <2>8 DEF FreshInv
  <1>8. ASSUME NEW q \in Requests, InvalidateCache(q)  PROVE FreshInv' /\ ReadInv'
    <2>1. \A r \in Requests : req'[r].at \in {"read", "admitted"} => req'[r] = req[r]
      BY <1>0, <1>8, EndedFacts DEF InvalidateCache
    <2>2. PICK u \in Users : u = req[q].target
      BY <1>0, <1>8 DEF InvalidateCache, RequestsNamed
    <2>3. /\ cached' = [cached EXCEPT ![u] = Absent] /\ cacheAge' = [cacheAge EXCEPT ![u] = STATUS_TTL]
          /\ past' = past
      BY <1>8, <2>2 DEF InvalidateCache
    <2>4. ASSUME NEW v \in Users, Served(v)'
          PROVE  Served(v) /\ cached'[v] = cached[v] /\ cacheAge'[v] = cacheAge[v]
      <3>1. v # u
        BY <1>0, <2>3, <2>4, StatusFacts DEF Served, AccountsTypeOK
      <3>. QED  BY <1>0, <2>3, <2>4, <3>1 DEF Served, AccountsTypeOK
    <2>. QED  BY <2>1, <2>3, <2>4, FreshKept, ReadKept
  <1>9. ASSUME NEW q \in Requests, ProvisionUser(q)  PROVE FreshInv' /\ ReadInv'
    <2>1. PICK u \in Users, s \in Status : u = req[q].user /\ s = NewAccount(req[q].status.role)
      BY <1>0, <1>9, StatusFacts DEF AccountsTypeOK, RequestState, Status, ProvisionUser, RequestsNamed
    <2>2. Write(u, s)
      BY <1>9, <2>1 DEF ProvisionUser, Write
    <2>. QED  BY <1>9, <2>2, WriteKeepsFresh DEF ProvisionUser
  <1>10. ASSUME NEW q \in Requests, EndRequest(q)  PROVE FreshInv' /\ ReadInv'
    <2>1. \A r \in Requests : req'[r].at \in {"read", "admitted"} => req'[r] = req[r]
      BY <1>0, <1>10, EndedFacts DEF EndRequest
    <2>. QED  BY <1>10, <2>1, FreshKept, ReadKept DEF EndRequest, Served
  <1>11. ASSUME NEW q \in Requests, NEW u \in Users, CreateUser(q, u)  PROVE FreshInv' /\ ReadInv'
    <2>1. PICK r \in Roles : Write(u, NewAccount(r))
      BY <1>11 DEF CreateUser
    <2>2. \A p \in Requests : req'[p].at \in {"read", "admitted"} => req'[p] = req[p]
      BY <1>0, <1>11, EndedFacts DEF CreateUser
    <2>. QED  BY <1>11, <2>1, <2>2, StatusFacts, WriteKeepsFresh DEF CreateUser
  <1>12. ASSUME NEW q \in Requests, NEW u \in Users, UpdateUser(q, u)  PROVE FreshInv' /\ ReadInv'
    <2>1. PICK s \in Changes(q, u) : Write(u, s)
      BY <1>12 DEF UpdateUser
    <2>2. s \in Status
      BY <2>1 DEF Changes, Status
    <2>3. \A r \in Requests : req'[r].at \in {"read", "admitted"} => req'[r] = req[r]
      BY <1>0, <1>12, EndedFacts DEF UpdateUser
    <2>. QED  BY <1>12, <2>1, <2>2, <2>3, WriteKeepsFresh DEF UpdateUser
  <1>13. ASSUME NEW q \in Requests, NEW u \in Users, DeleteUser(q, u)  PROVE FreshInv' /\ ReadInv'
    <2>1. Write(u, Absent) /\ Absent \in Status
      BY <1>13, StatusFacts DEF DeleteUser
    <2>2. \A r \in Requests : req'[r].at \in {"read", "admitted"} => req'[r] = req[r]
      BY <1>0, <1>13, EndedFacts DEF DeleteUser
    <2>. QED  BY <1>13, <2>1, <2>2, WriteKeepsFresh DEF DeleteUser
  <1>14. CASE UNCHANGED accountVars
    BY <1>14 DEF accountVars, FreshInv, ReadInv, Recent, Served
  <1>. QED  BY <1>1, <1>2, <1>3, <1>4, <1>5, <1>6, <1>7, <1>8, <1>9, <1>10, <1>11, <1>12, <1>13, <1>14
            DEF AccountsNext

LEMMA FreshInit == AccountsInit => FreshInv /\ ReadInv
  <1> SUFFICES ASSUME AccountsInit  PROVE FreshInv /\ ReadInv
    OBVIOUS
  <1>1. \A q \in Requests : req[q].at = "idle"
    BY StatusFacts DEF AccountsInit
  <1>2. \A u \in Users : ~Served(u)
    BY StatusFacts DEF AccountsInit, Served
  <1>. QED  BY <1>1, <1>2 DEF FreshInv, ReadInv

LEMMA FreshAlways == AccountsSpec => [](AccountsTyped /\ FreshInv /\ ReadInv)
  BY FreshInit, FreshStep, AccountsTypedInit, AccountsTypedStep, PTL DEF AccountsSpec

\* For any time to live and any delay of the queries, a status the cache serves was
\* the row's within the two together, whatever queries, commits and invalidations
\* cross (get_cached_or_query_user_status, invalidate_user_cache).
THEOREM ServedFresh == AccountsSpec => []StatusFresh
  <1>1. FreshInv => StatusFresh
    BY DEF FreshInv, StatusFresh, Recent
  <1>. QED  BY <1>1, FreshAlways, PTL

-----------------------------------------------------------------------------
(* The last administrator *)

ActiveAdmin(u) == account[u].there /\ account[u].active /\ account[u].role = "admin"

\* An actor whose status did not change since it was admitted as an administrator
\* is one.
LEMMA ActorFacts ==
    ASSUME AccountsTyped, ReadInv, NEW q \in Requests, IsAdmin(q), Cross(q), ~crossed'
    PROVE  req[q].user \in Users /\ ActiveAdmin(req[q].user) /\ ~crossed
  BY DEF AccountsTyped, RequestsNamed, ReadInv, IsAdmin, Cross, ActiveAdmin

\* Unless an administrator acts on a status that was changed under the request, the
\* table that has an account has an active administrator (update_user and
\* delete_user refuse an administrator's own demotion, deactivation and deletion).
THEOREM AdminStays == AccountsSpec => []AdminRemains
  <1>1. AccountsInit => AdminRemains
    BY DEF AccountsInit, AdminRemains, NewAccount
  <1>2. AccountsTyped /\ ReadInv /\ AdminRemains /\ [AccountsNext]_accountVars => AdminRemains'
    <2> SUFFICES ASSUME AccountsTyped, ReadInv, AdminRemains, [AccountsNext]_accountVars,
                        ~crossed', \E v \in Users : account'[v].there
                 PROVE  \E v \in Users : ActiveAdmin(v)'
      BY DEF AdminRemains, ActiveAdmin
    <2>0. AccountsTypeOK
      BY DEF AccountsTyped
    <2>1. CASE UNCHANGED <<account, crossed>>
      BY <2>1 DEF AdminRemains, ActiveAdmin
    <2>2. ASSUME NEW q \in Requests, NEW u \in Users, InsertAdmin(q, u)
          PROVE  \E v \in Users : ActiveAdmin(v)'
      <3>1. NewAccount("admin") \in Status /\ Write(u, NewAccount("admin"))
        BY <2>2, StatusFacts DEF Roles, InsertAdmin
      <3>2. account'[u] = NewAccount("admin")
        BY <2>0, <3>1, WriteFacts
      <3>. QED  BY <3>2 DEF ActiveAdmin, NewAccount
    <2>3. ASSUME NEW q \in Requests, ProvisionUser(q)
          PROVE  \E v \in Users : ActiveAdmin(v)'
      <3>1. account[req[q].user] = req[q].status
        BY <2>3 DEF ProvisionUser, Cross
      <3>. QED  BY <2>3, <3>1 DEF ProvisionUser, ReadInv
    <2>4. ASSUME NEW q \in Requests, NEW u \in Users, CreateUser(q, u)
          PROVE  \E v \in Users : ActiveAdmin(v)'
      <3>1. PICK r \in Roles : Write(u, NewAccount(r))
        BY <2>4 DEF CreateUser
      <3>2. PICK a \in Users : a = req[q].user /\ ActiveAdmin(a)
        BY <2>4, ActorFacts DEF CreateUser
      <3>3. a # u
        BY <2>4, <3>2 DEF CreateUser, ActiveAdmin
      <3>4. account'[a] = account[a]
        BY <2>0, <3>1, <3>3, StatusFacts, WriteFacts
      <3>. QED  BY <3>2, <3>4 DEF ActiveAdmin
    <2>5. ASSUME NEW q \in Requests, NEW u \in Users, UpdateUser(q, u)
          PROVE  \E v \in Users : ActiveAdmin(v)'
      <3>1. PICK s \in Changes(q, u) : Write(u, s)
        BY <2>5 DEF UpdateUser
      <3>2. s \in Status
        BY <3>1 DEF Changes, Status
      <3>3. PICK a \in Users : a = req[q].user /\ ActiveAdmin(a)
        BY <2>5, ActorFacts DEF UpdateUser
      <3>4. account'[u] = s /\ \A v \in Users \ {u} : account'[v] = account[v]
        BY <2>0, <3>1, <3>2, WriteFacts
      <3>5. CASE a = u
        <4>1. s.there /\ s.role = "admin" /\ s.active
          BY <3>1, <3>3, <3>5 DEF Changes, ActiveAdmin
        <4>. QED  BY <3>4, <4>1 DEF ActiveAdmin
      <3>6. CASE a # u
        BY <3>3, <3>4, <3>6 DEF ActiveAdmin
      <3>. QED  BY <3>5, <3>6
    <2>6. ASSUME NEW q \in Requests, NEW u \in Users, DeleteUser(q, u)
          PROVE  \E v \in Users : ActiveAdmin(v)'
      <3>1. Write(u, Absent) /\ Absent \in Status
        BY <2>6, StatusFacts DEF DeleteUser
      <3>2. PICK a \in Users : a = req[q].user /\ ActiveAdmin(a) /\ a # u
        BY <2>6, ActorFacts DEF DeleteUser
      <3>3. account'[a] = account[a]
        BY <2>0, <3>1, <3>2, WriteFacts
      <3>. QED  BY <3>2, <3>3 DEF ActiveAdmin
    <2>7. ASSUME NEW q \in Requests,
                 CountUsers(q) \/ FillCache(q) \/ InvalidateCache(q) \/ EndRequest(q)
          PROVE  UNCHANGED <<account, crossed>>
      BY <2>7 DEF CountUsers, FillCache, InvalidateCache, EndRequest
    <2>8. ASSUME NEW q \in Requests, NEW u \in Users, AuthHit(q, u) \/ ReadStatus(q, u)
          PROVE  UNCHANGED <<account, crossed>>
      BY <2>8 DEF AuthHit, ReadStatus
    <2>9. ASSUME NEW u \in Users, Login(u)  PROVE UNCHANGED <<account, crossed>>
      BY <2>9 DEF Login
    <2>10. CASE ClockTick \/ UNCHANGED accountVars
      BY <2>1, <2>10 DEF ClockTick, accountVars
    <2>. QED  BY <2>1, <2>2, <2>3, <2>4, <2>5, <2>6, <2>7, <2>8, <2>9, <2>10 DEF AccountsNext
  <1>. QED  BY <1>1, <1>2, FreshAlways, PTL DEF AccountsSpec

=============================================================================
