------------------------------ MODULE Accounts ------------------------------
(***************************************************************************)
(* User accounts: the first-run setup under its advisory lock, logins, the *)
(* status cache every authenticated request goes through, and the          *)
(* administrators' changes to the users table, which invalidate that cache *)
(* after they have committed (services/auth.rs, auth_utils.rs,             *)
(* services/user_management.rs).                                           *)
(*                                                                         *)
(* Requests run concurrently, each through several steps.  Tokens are not  *)
(* revoked and outlive the model's time.  A clock tick is the unit of the  *)
(* cache's time to live and of a slow query.  When a login is allowed is   *)
(* in LoginLockout; here it may always be.                                 *)
(***************************************************************************)
EXTENDS Integers, FiniteSets

CONSTANTS
    Users,
    Requests,
    STATUS_TTL,                \* ticks a cached status is served (5 s)
    MaxDelay,                  \* bound: ticks between a status query and the cache write
    MaxOps,                    \* bound: changes of the users table
    NoUser

ASSUME AccountsAssumption ==
    /\ IsFiniteSet(Users) /\ IsFiniteSet(Requests)
    /\ STATUS_TTL \in Nat \ {0}
    /\ MaxDelay \in Nat /\ MaxOps \in Nat
    /\ NoUser \notin Users

\* "user" stands for both roles without rights over accounts, user and viewer.
Roles == {"admin", "user"}

\* What users.role and users.is_active say; the role of a row that is not there is
\* of no account.
Status == [there : BOOLEAN, role : Roles, active : BOOLEAN]

Absent == [there |-> FALSE, role |-> "user", active |-> FALSE]

NewAccount(r) == [there |-> TRUE, role |-> r, active |-> TRUE]

Span == STATUS_TTL - 1 + MaxDelay

\* A request: where it is, for whom, the status it has read or was admitted with,
\* the ticks since it read it, and the account whose cached status it has still to
\* drop.
RequestState ==
    [at : {"idle", "counted", "read", "admitted", "committed"},
     user : Users \cup {NoUser}, status : Status, age : 0 .. MaxDelay,
     target : Users \cup {NoUser}]

RequestAt(p, u, s) == [at |-> p, user |-> u, status |-> s, age |-> 0, target |-> NoUser]

IdleRequest == RequestAt("idle", NoUser, Absent)

VARIABLES
    account,     \* users
    bySetup,     \* history: accounts that setup_admin created
    req,         \* the requests
    cached,      \* USER_CACHE: the status of each user
    cacheAge,    \* ticks since it was fetched; STATUS_TTL is too old or none
    tokens,      \* users who hold a token
    past,        \* history: the statuses each row had, by ticks ago
    crossed,     \* history: a request changed the table for an actor whose status
                 \* had changed since it was admitted
    ops

accountVars == <<account, bySetup, req, cached, cacheAge, tokens, past, crossed, ops>>

AccountsTypeOK ==
    /\ account \in [Users -> Status]
    /\ bySetup \subseteq Users
    /\ req \in [Requests -> RequestState]
    /\ cached \in [Users -> Status]
    /\ cacheAge \in [Users -> 0 .. STATUS_TTL]
    /\ tokens \subseteq Users
    /\ past \in [Users -> [0 .. Span -> SUBSET Status]]
    /\ \A u \in Users : account[u] \in past[u][0]
    /\ crossed \in BOOLEAN
    /\ ops \in 0 .. MaxOps

\* The server starts with no user, or with some of whom one is an administrator.
AccountsInit ==
    /\ account \in [Users -> {Absent, NewAccount("admin"), NewAccount("user")}]
    /\ (\E u \in Users : account[u].there) => \E u \in Users : account[u] = NewAccount("admin")
    /\ bySetup = {}
    /\ req = [q \in Requests |-> IdleRequest]
    /\ cached = [u \in Users |-> Absent]
    /\ cacheAge = [u \in Users |-> STATUS_TTL]
    /\ tokens = {}
    /\ past = [u \in Users |-> [k \in 0 .. Span |-> {account[u]}]]
    /\ crossed = FALSE
    /\ ops = 0

Done(q) == req' = [req EXCEPT ![q] = IdleRequest]

\* The row of u becomes s.
Write(u, s) ==
    /\ ops < MaxOps
    /\ ops' = ops + 1
    /\ account' = [account EXCEPT ![u] = s]
    /\ past' = [past EXCEPT ![u][0] = @ \cup {s}]

-----------------------------------------------------------------------------
(* Setup and login *)

\* Bug: the users are counted without the advisory lock.
SetupUnlocked == TRUE

\* pg_advisory_xact_lock: held from the count to the end of the transaction.
SetupLockFree == \A q \in Requests : req[q].at # "counted"

\* setup_admin takes the lock, and goes on if there is no user.
CountUsers(q) ==
    /\ req[q].at = "idle"
    /\ SetupLockFree
    /\ \A u \in Users : ~account[u].there
    /\ req' = [req EXCEPT ![q].at = "counted"]
    /\ UNCHANGED <<account, bySetup, cached, cacheAge, tokens, past, crossed, ops>>

\* The insertion is committed; a name that is taken, or an error, rolls it back.
InsertAdmin(q, u) ==
    /\ req[q].at = "counted"
    /\ ~account[u].there
    /\ Write(u, NewAccount("admin"))
    /\ bySetup' = bySetup \cup {u}
    /\ Done(q)
    /\ UNCHANGED <<cached, cacheAge, tokens, crossed>>

\* perform_login: a token for an account that is there and not disabled
Login(u) ==
    /\ account[u].there /\ account[u].active
    /\ tokens' = tokens \cup {u}
    /\ UNCHANGED <<account, bySetup, req, cached, cacheAge, past, crossed, ops>>

-----------------------------------------------------------------------------
(* Authenticated requests *)

\* Bug: an entry is served however old it is.
ServedForever(u) == cached[u].there

\* The cache has an entry for u that is not too old.
Served(u) == cached[u].there /\ cacheAge[u] < STATUS_TTL

\* A disabled account is turned away.
Admit(q, u, s) ==
    req' = [req EXCEPT ![q] = IF s.active THEN RequestAt("admitted", u, s) ELSE IdleRequest]

\* authenticate_request and the Claims extractor, with a token of u
AuthHit(q, u) ==
    /\ req[q].at = "idle" /\ u \in tokens
    /\ Served(u)
    /\ Admit(q, u, cached[u])
    /\ UNCHANGED <<account, bySetup, cached, cacheAge, tokens, past, crossed, ops>>

\* get_cached_or_query_user_status: the row is read; without one, 401.
ReadStatus(q, u) ==
    /\ req[q].at = "idle" /\ u \in tokens
    /\ ~Served(u) /\ account[u].there
    /\ req' = [req EXCEPT ![q] = RequestAt("read", u, account[u])]
    /\ UNCHANGED <<account, bySetup, cached, cacheAge, tokens, past, crossed, ops>>

\* ... and put into the cache as of now, whatever happened to the row meanwhile.
FillCache(q) ==
    /\ req[q].at = "read"
    /\ LET u == req[q].user
       IN  /\ cached' = [cached EXCEPT ![u] = req[q].status]
           /\ cacheAge' = [cacheAge EXCEPT ![u] = 0]
           /\ Admit(q, u, req[q].status)
    /\ UNCHANGED <<account, bySetup, tokens, past, crossed, ops>>

-----------------------------------------------------------------------------
(* What an admitted request may do to the table *)

IsAdmin(q) == req[q].at = "admitted" /\ req[q].status.role = "admin"

\* The actor was admitted with a status it no longer has.
Cross(q) == crossed' = (crossed \/ account[req[q].user] # req[q].status)

Committed(q, t) == req' = [req EXCEPT ![q].at = "committed", ![q].target = t]

CreateUser(q, t) ==
    /\ IsAdmin(q)
    /\ ~account[t].there
    /\ \E r \in Roles : Write(t, NewAccount(r))
    /\ bySetup' = bySetup \ {t}
    /\ Cross(q)
    /\ Done(q)
    /\ UNCHANGED <<cached, cacheAge, tokens>>

\* Bug: an administrator may demote and disable their own account.
ChangesOf(q, t) == [there : {TRUE}, role : Roles, active : BOOLEAN]

\* update_user: "Cannot remove your own admin role", "Cannot deactivate your own
\* account"; what the body leaves out stays.
Changes(q, t) ==
    {s \in [there : {TRUE}, role : Roles, active : BOOLEAN] :
        t = req[q].user => /\ s.role = "admin" \/ s.role = account[t].role
                           /\ s.active \/ s.active = account[t].active}

UpdateUser(q, t) ==
    /\ IsAdmin(q)
    /\ account[t].there
    /\ \E s \in Changes(q, t) : Write(t, s)
    /\ Cross(q)
    /\ Committed(q, t)
    /\ UNCHANGED <<bySetup, cached, cacheAge, tokens>>

\* delete_user: "Cannot delete your own account"
DeleteUser(q, t) ==
    /\ IsAdmin(q) /\ t # req[q].user
    /\ account[t].there
    /\ Write(t, Absent)
    /\ bySetup' = bySetup \ {t}
    /\ Cross(q)
    /\ Committed(q, t)
    /\ UNCHANGED <<cached, cacheAge, tokens>>

\* invalidate_user_cache, after the commit
InvalidateCache(q) ==
    /\ req[q].at = "committed"
    /\ cached' = [cached EXCEPT ![req[q].target] = Absent]
    /\ cacheAge' = [cacheAge EXCEPT ![req[q].target] = STATUS_TTL]
    /\ Done(q)
    /\ UNCHANGED <<account, bySetup, tokens, past, crossed, ops>>

\* ensure_user_exists, of the uploads: an account deleted since the request was
\* admitted is made again, with the role it was admitted with.
ProvisionUser(q) ==
    /\ req[q].at = "admitted"
    /\ ~account[req[q].user].there
    /\ Write(req[q].user, NewAccount(req[q].status.role))
    /\ bySetup' = bySetup \ {req[q].user}
    /\ Cross(q)
    /\ UNCHANGED <<req, cached, cacheAge, tokens>>

\* The request is answered, whatever else it did, or fails.
EndRequest(q) ==
    /\ req[q].at \in {"counted", "read", "admitted"}
    /\ Done(q)
    /\ UNCHANGED <<account, bySetup, cached, cacheAge, tokens, past, crossed, ops>>

\* Time passes: entries age, and so do queries that are not answered.
ClockTick ==
    /\ \A q \in Requests : req[q].at = "read" => req[q].age < MaxDelay
    /\ req' = [q \in Requests |-> IF req[q].at = "read" THEN [req[q] EXCEPT !.age = @ + 1] ELSE req[q]]
    /\ cacheAge' = [u \in Users |-> IF cacheAge[u] < STATUS_TTL THEN cacheAge[u] + 1 ELSE STATUS_TTL]
    /\ past' = [u \in Users |-> [k \in 0 .. Span |->
                   IF k = 0 THEN {account[u]} ELSE past[u][k - 1]]]
    /\ UNCHANGED <<account, bySetup, cached, tokens, crossed, ops>>

AccountsNext ==
    \/ ClockTick
    \/ \E u \in Users : Login(u)
    \/ \E q \in Requests :
          \/ CountUsers(q) \/ FillCache(q) \/ InvalidateCache(q) \/ ProvisionUser(q)
          \/ EndRequest(q)
          \/ \E u \in Users :
                \/ InsertAdmin(q, u) \/ AuthHit(q, u) \/ ReadStatus(q, u)
                \/ CreateUser(q, u) \/ UpdateUser(q, u) \/ DeleteUser(q, u)

AccountsSpec == AccountsInit /\ [][AccountsNext]_accountVars

-----------------------------------------------------------------------------
(* Properties *)

\* Concurrent setups never make two administrators ("two simultaneous requests
\* can't both see COUNT(*)==0 and create admins").
OneSetup == Cardinality({u \in bySetup : account[u].there}) =< 1

\* Whatever the order of queries, commits and invalidations, a status that would
\* be served was the row's within the time to live and the delay of a query.
StatusFresh ==
    \A u \in Users :
        Served(u) => \E k \in 0 .. Span : cached[u] \in past[u][k]

\* Once there is an account there is an active administrator, as long as no
\* administrator acts on a status that was changed under the request.
AdminRemains ==
    (\E u \in Users : account[u].there) /\ ~crossed =>
        \E u \in Users : account[u].there /\ account[u].active /\ account[u].role = "admin"

=============================================================================
