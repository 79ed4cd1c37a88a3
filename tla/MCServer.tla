------------------------------ MODULE MCServer ------------------------------
(***************************************************************************)
(* Small instances for TLC of the parts of the home server that meet only  *)
(* through what they store: a behaviour is one of the part it begins with, *)
(* the others stay as they are.                                            *)
(***************************************************************************)
EXTENDS DbBackup, Accounts, LoginLockout, DuplicateGroups, Persons, ImportJobs, RateLimit, TLC

CONSTANTS f1, f2, f3, f4, i1, i2, i3, i4, x1, x2, x3, x4, c1, c2

VARIABLE part

allVars == <<backupVars, accountVars, lockoutVars, dupVars, grpVars, personVars, importVars, limitVars, part>>

\* A chain of similar pictures, the least similar pair in the middle.
MCSimilarity == ({i1, i2} :> 2) @@ ({i2, i3} :> 1) @@ ({i3, i4} :> 3)

\* Two files with the same bytes, one with others, and one that is no picture.
MCContentOf == (x1 :> c1) @@ (x2 :> c1) @@ (x3 :> c2) @@ (x4 :> c2)

\* Nothing tells the storage nodes apart.
NodeSymmetry == Permutations(StorageNodes)

\* The faces begin without a person, for one request more and clustering passes that
\* may be cut off; or three of them each with one of their own, for two requests.
PersonsBegin ==
    \/ /\ stored = IF part = "persons" THEN {f1, f2} ELSE {}
       /\ personOf = [f \in Faces |-> NoPerson]
       /\ created = 0 /\ requests = MaxRequests - 1 /\ cuts = 0
    \/ /\ part = "persons"
       /\ stored = {f1, f2, f3}
       /\ personOf = (f1 :> 1) @@ (f2 :> 2) @@ (f3 :> 3) @@ (f4 :> NoPerson)
       /\ created = 3 /\ requests = 0 /\ cuts = MaxCuts

\* The accounts begin empty, or as an administrator and other users; one picture
\* has no embedding yet; the groups begin with all the pairs; one of the contents is
\* in the library.
ServerInit ==
    /\ part \in {"backup", "accounts", "lockout", "duplicates", "groups", "persons", "imports", "limiter"}
    /\ PersonsBegin
    /\ BackupInit /\ AccountsInit /\ LockoutInit /\ DupInit /\ GrpInit /\ PersonInit /\ ImportInit
    /\ LimitInit
    /\ \/ \A u \in Users : ~account[u].there
       \/ /\ part = "accounts"
          /\ \A u \in Users \ {CHOOSE v \in Users : TRUE} : account[u] = NewAccount("user")
    /\ pairs = IF part = "groups" THEN DOMAIN Similarity ELSE {}
    /\ embedded = IF part = "duplicates" THEN Pics \ {i1} ELSE {}
    /\ media = IF part = "imports" THEN {c2} ELSE {}

ServerNext ==
    \/ /\ part = "backup" /\ BackupNext
       /\ UNCHANGED <<accountVars, lockoutVars, dupVars, grpVars, personVars, importVars, limitVars, part>>
    \/ /\ part = "accounts" /\ AccountsNext
       /\ UNCHANGED <<backupVars, lockoutVars, dupVars, grpVars, personVars, importVars, limitVars, part>>
    \/ /\ part = "lockout" /\ LockoutNext
       /\ UNCHANGED <<backupVars, accountVars, dupVars, grpVars, personVars, importVars, limitVars, part>>
    \/ /\ part = "duplicates" /\ DupNext
       /\ UNCHANGED <<backupVars, accountVars, lockoutVars, grpVars, personVars, importVars, limitVars, part>>
    \/ /\ part = "groups"
       /\ \/ GrpStep /\ UNCHANGED dupVars
          \/ DupRequests /\ UNCHANGED grpVars
       /\ UNCHANGED <<backupVars, accountVars, lockoutVars, personVars, importVars, limitVars, part>>
    \/ /\ part = "persons" /\ PersonNext
       /\ UNCHANGED <<backupVars, accountVars, lockoutVars, dupVars, grpVars, importVars, limitVars, part>>
    \/ /\ part = "imports" /\ ImportNext
       /\ UNCHANGED <<backupVars, accountVars, lockoutVars, dupVars, grpVars, personVars, limitVars, part>>
    \/ /\ part = "limiter" /\ LimitNext
       /\ UNCHANGED <<backupVars, accountVars, lockoutVars, dupVars, grpVars, personVars, importVars, part>>

ServerSpec == ServerInit /\ [][ServerNext]_allVars

\* The type invariants of the parts.
ServerTypeOK ==
    /\ BackupTypeOK /\ AccountsTypeOK /\ LockoutTypeOK /\ DupTypeOK /\ GrpTypeOK
    /\ PersonTypeOK /\ ImportTypeOK /\ LimitTypeOK

=============================================================================
