------------------------------ MODULE Persons -------------------------------
(***************************************************************************)
(* Faces and the persons they are grouped into: the faces the AI worker    *)
(* stores, its clustering pass, which creates and fills persons with       *)
(* statements of their own, and the user's requests: merging persons in a  *)
(* transaction, and choosing the face that stands for a person             *)
(* (services/face_detection.rs, services/person.rs).                       *)
(*                                                                         *)
(* The database runs every statement on what was committed when it began   *)
(* (READ COMMITTED).  A statement that meets a row another transaction has *)
(* written waits for its end, and then still goes by what it saw.          *)
(*                                                                         *)
(* One owner, whose faces go only with the account: trashing a picture     *)
(* keeps them.  Persons are numbered as the sequence numbers them and no   *)
(* number is used twice.  The foreign key of faces.person_id is part of    *)
(* the statements: a deleted person leaves its faces unassigned.           *)
(***************************************************************************)
EXTENDS Integers, FiniteSets

CONSTANTS
    Faces,
    Alike,          \* pairs of faces above the threshold
    MaxPersons,     \* bound: persons created
    MaxRequests,    \* bound: requests of the user, each of which may be open at once
    MaxCuts,        \* bound: clustering passes that an error or a stop cuts off
    NoFace

ASSUME PersonsAssumption ==
    /\ IsFiniteSet(Faces)
    /\ Alike \subseteq {{f, g} : f, g \in Faces}
    /\ MaxPersons \in Nat /\ MaxRequests \in Nat /\ MaxCuts \in Nat
    /\ NoFace \notin Faces

NoPerson == 0

PersonIds == 1 .. MaxPersons

VARIABLES
    stored,      \* rows of faces
    personOf,    \* faces.person_id
    persons,     \* rows of persons
    count,       \* face_count
    rep,         \* representative_face_id
    queue,       \* faces the clustering pass has read and not come to
    inHand,      \* the face it is at
    chosen,      \* the person it has found or made for it
    clusterAt,   \* the statement it is at
    faceView,    \* what a statement that waits for a merge has seen
    merges,      \* the merge transactions, by the request that runs each
    picking,     \* a representative that has been checked and not yet written
    drifted,     \* history: persons whose row a cut or a race has left behind
    loose,       \* history: faces a person got while it was being merged away
    created, requests, cuts

personVars == <<stored, personOf, persons, count, rep, queue, inHand, chosen, clusterAt,
                faceView, merges, picking, drifted, loose, created, requests, cuts>>

RequestIds == 1 .. MaxRequests

\* A merge: the statement it has run, its persons, the faces it saw and then moved,
\* the faces it counted, and whether its target has got others since (history).
Merges == [at : {"none", "checked", "moving", "moved", "counting", "counted"},
           sources : SUBSET PersonIds, target : PersonIds \cup {NoPerson},
           faces : SUBSET Faces, counted : SUBSET Faces, late : BOOLEAN]

NoMerge == [at |-> "none", sources |-> {}, target |-> NoPerson,
            faces |-> {}, counted |-> {}, late |-> FALSE]

NoPick == [person |-> NoPerson, face |-> NoFace]

PersonTypeOK ==
    /\ stored \subseteq Faces
    /\ persons \subseteq 1 .. created
    /\ personOf \in [Faces -> {NoPerson} \cup persons]
    /\ \A f \in Faces \ stored : personOf[f] = NoPerson
    /\ count \in [PersonIds -> 0 .. Cardinality(Faces)]
    /\ rep \in [PersonIds -> stored \cup {NoFace}]
    /\ queue \subseteq Faces
    /\ inHand \in Faces \cup {NoFace}
    /\ chosen \in PersonIds \cup {NoPerson}
    /\ clusterAt \in {"idle", "find", "assign", "stats", "waiting"}
    /\ faceView \subseteq Faces
    /\ merges \in [RequestIds -> Merges]
    /\ picking \in [person : PersonIds \cup {NoPerson}, face : Faces \cup {NoFace}]
    /\ drifted \subseteq PersonIds
    /\ loose \subseteq Faces
    /\ created \in 0 .. MaxPersons
    /\ requests \in 0 .. MaxRequests
    /\ cuts \in 0 .. MaxCuts

FacesOf(p) == {f \in stored : personOf[f] = p}

\* The face nearest to the mean of F, one of them whatever the embeddings are.
Central(F) == IF F = {} THEN NoFace ELSE CHOOSE f \in F : TRUE

\* A server that starts: no pass and no request runs, and the rows are up to date.
PersonInit ==
    /\ stored \in SUBSET Faces
    /\ created \in 0 .. MaxPersons
    /\ persons = 1 .. created
    /\ personOf \in [Faces -> {NoPerson} \cup persons]
    /\ \A f \in Faces \ stored : personOf[f] = NoPerson
    /\ count = [p \in PersonIds |-> Cardinality(FacesOf(p))]
    /\ rep = [p \in PersonIds |-> Central(FacesOf(p))]
    /\ queue = {} /\ inHand = NoFace /\ chosen = NoPerson /\ clusterAt = "idle"
    /\ faceView = {}
    /\ merges = [m \in RequestIds |-> NoMerge]
    /\ picking = NoPick
    /\ drifted = {} /\ loose = {}
    /\ requests \in 0 .. MaxRequests
    /\ cuts \in 0 .. MaxCuts

\* Merge m has read the faces of its sources; it has written those it moves.
HasSeen(m) == merges[m].at \in {"moving", "moved", "counting", "counted"}
HasMoved(m) == merges[m].at \in {"moved", "counting", "counted"}

\* A merge has written the row of p, which is locked until it ends.
Written(p) == \E m \in RequestIds : merges[m].at = "counted" /\ merges[m].target = p

\* Merge m needs the row of p to stay: it has written it, or faces that refer to it.
Holds(m, p) ==
    /\ merges[m].target = p
    /\ merges[m].at = "counted" \/ (HasMoved(m) /\ merges[m].faces # {})

\* p got faces: what the merges into it have counted is not all.
Overtaken(p) ==
    [m \in RequestIds |->
        IF merges[m].at \in {"counting", "counted"} /\ merges[m].target = p
        THEN [merges[m] EXCEPT !.late = TRUE] ELSE merges[m]]

Request ==
    /\ requests < MaxRequests
    /\ requests' = requests + 1

-----------------------------------------------------------------------------
(* The AI worker *)

\* store_faces
StoreFace(f) ==
    /\ f \notin stored
    /\ stored' = stored \cup {f}
    /\ UNCHANGED <<faceView, personOf, persons, count, rep, queue, inHand, chosen, clusterAt,
                   merges, picking, drifted, loose, created, requests, cuts>>

\* cluster_faces_for_user reads the faces without a person ...
StartClustering ==
    /\ clusterAt = "idle"
    /\ queue' = {f \in stored : personOf[f] = NoPerson}
    /\ queue' # {}
    /\ clusterAt' = "find"
    /\ UNCHANGED <<faceView, stored, personOf, persons, count, rep, inHand, chosen, merges,
                   picking, drifted, loose, created, requests, cuts>>

\* ... and for each looks for the nearest face that has one and is close enough ...
FindPerson(f) ==
    /\ clusterAt = "find" /\ f \in queue
    /\ queue' = queue \ {f}
    /\ inHand' = f
    /\ \E g \in stored :
          /\ g # f /\ personOf[g] # NoPerson /\ {f, g} \in Alike
          /\ chosen' = personOf[g]
    /\ clusterAt' = "assign"
    /\ UNCHANGED <<faceView, stored, personOf, persons, count, rep, merges, picking, drifted,
                   loose, created, requests, cuts>>

\* ... or inserts a person, with a count of one.
CreatePerson(f) ==
    /\ clusterAt = "find" /\ f \in queue
    /\ ~\E g \in stored : g # f /\ personOf[g] # NoPerson /\ {f, g} \in Alike
    /\ created < MaxPersons
    /\ queue' = queue \ {f}
    /\ inHand' = f
    /\ chosen' = created + 1
    /\ created' = created + 1
    /\ persons' = persons \cup {chosen'}
    /\ count' = [count EXCEPT ![chosen'] = 1]
    /\ rep' = [rep EXCEPT ![chosen'] = f]
    /\ clusterAt' = "assign"
    /\ UNCHANGED <<faceView, stored, personOf, merges, picking, drifted, loose, requests, cuts>>

\* UPDATE faces SET person_id
AssignFace ==
    /\ clusterAt = "assign" /\ chosen \in persons
    /\ personOf' = [personOf EXCEPT ![inHand] = chosen]
    /\ loose' = IF \E m \in RequestIds : HasSeen(m) /\ chosen \in merges[m].sources
                THEN loose \cup {inHand} ELSE loose
    /\ merges' = Overtaken(chosen)
    /\ clusterAt' = "stats"
    /\ UNCHANGED <<faceView, stored, persons, count, rep, queue, inHand, chosen, picking,
                   drifted, created, requests, cuts>>

\* Bug: the count is kept up instead of counted.
RestatByOne(p, F, gone) ==
    /\ count' = [q \in PersonIds |-> CASE q \in gone -> 0
                                       [] q = p /\ p \in persons -> count[q] + 1
                                       [] OTHER -> count[q]]
    /\ rep' = [q \in PersonIds |-> CASE q \in gone -> NoFace
                                     [] q = p /\ p \in persons -> Central(F)
                                     [] OTHER -> rep[q]]

\* UPDATE persons: the row of p, if it is there, is brought up to date with the
\* faces F; the rows of gone are deleted.
Restat(p, F, gone) ==
    /\ count' = [q \in PersonIds |-> CASE q \in gone -> 0
                                       [] q = p /\ p \in persons -> Cardinality(F)
                                       [] OTHER -> count[q]]
    /\ rep' = [q \in PersonIds |-> CASE q \in gone -> NoFace
                                     [] q = p /\ p \in persons -> Central(F)
                                     [] OTHER -> rep[q]]

NextFace ==
    /\ inHand' = NoFace /\ chosen' = NoPerson /\ faceView' = {}
    /\ clusterAt' = IF queue = {} THEN "idle" ELSE "find"

UpdatePerson ==
    /\ clusterAt = "stats" /\ ~Written(chosen)
    /\ Restat(chosen, FacesOf(chosen), {})
    /\ drifted' = drifted \ {chosen}
    /\ NextFace
    /\ UNCHANGED <<stored, personOf, persons, queue, merges, picking, loose, created, requests, cuts>>

\* The statement waits for a merge that has written the same row ...
AwaitMerge ==
    /\ clusterAt = "stats" /\ Written(chosen)
    /\ clusterAt' = "waiting"
    /\ faceView' = FacesOf(chosen)
    /\ UNCHANGED <<stored, personOf, persons, count, rep, queue, inHand, chosen, merges,
                   picking, drifted, loose, created, requests, cuts>>

\* ... and then counts the faces it saw before.
UpdatePersonLate ==
    /\ clusterAt = "waiting" /\ ~Written(chosen)
    /\ Restat(chosen, faceView, {})
    /\ drifted' = drifted \cup ({chosen} \cap persons)
    /\ NextFace
    /\ UNCHANGED <<stored, personOf, persons, queue, merges, picking, loose, created, requests, cuts>>

\* A statement fails (the person is gone, the connection broke) or the
\* server stops: the pass is over, what it has written stays.
CutClustering ==
    /\ clusterAt # "idle"
    /\ \/ cuts < MaxCuts /\ cuts' = cuts + 1
       \/ clusterAt = "assign" /\ chosen \notin persons /\ UNCHANGED cuts
    /\ drifted' = drifted \cup ({chosen} \cap persons)
    /\ queue' = {} /\ inHand' = NoFace /\ chosen' = NoPerson /\ clusterAt' = "idle"
    /\ faceView' = {}
    /\ UNCHANGED <<stored, personOf, persons, count, rep, merges, picking, loose, created, requests>>

-----------------------------------------------------------------------------
(* Requests *)

\* Bug: only one of the sources gives up its faces.
MovedOfOne(S) == {f \in stored : personOf[f] = CHOOSE p \in S : TRUE}

\* The faces a merge takes over.
Moved(S) == {f \in stored : personOf[f] \in S}

\* merge_persons: the persons are checked, by themselves.  No lock keeps another
\* merge from running at the same time.
BeginMerge(S, t) ==
    /\ Request
    /\ S # {} /\ t \notin S /\ S \cup {t} \subseteq persons
    /\ merges' = [merges EXCEPT ![requests'] = [NoMerge EXCEPT !.at = "checked", !.sources = S, !.target = t]]
    /\ UNCHANGED <<faceView, stored, personOf, persons, count, rep, queue, inHand, chosen,
                   clusterAt, picking, drifted, loose, created, cuts>>

\* In a transaction, UPDATE faces finds the faces of the sources ...
FindFaces(m) ==
    /\ merges[m].at = "checked"
    /\ merges' = [merges EXCEPT ![m].at = "moving", ![m].faces = Moved(merges[m].sources)]
    /\ UNCHANGED <<faceView, stored, personOf, persons, count, rep, queue, inHand, chosen,
                   clusterAt, picking, drifted, loose, created, requests, cuts>>

\* ... and, once no other merge has one of them in hand, moves those that still are.
\* The foreign key asks for the target if there is any.
MoveFaces(m) ==
    /\ merges[m].at = "moving"
    /\ \A o \in RequestIds \ {m} : HasMoved(o) => merges[o].faces \cap merges[m].faces = {}
    /\ LET F == {f \in merges[m].faces : personOf[f] \in merges[m].sources}
       IN  /\ F # {} => merges[m].target \in persons
           /\ merges' = [merges EXCEPT ![m].at = "moved", ![m].faces = F]
    /\ UNCHANGED <<faceView, stored, personOf, persons, count, rep, queue, inHand, chosen,
                   clusterAt, picking, drifted, loose, created, requests, cuts>>

\* UPDATE persons counts the faces of the target ...
CountFaces(m) ==
    /\ merges[m].at = "moved"
    /\ merges' = [merges EXCEPT ![m].at = "counting", ![m].counted = FacesOf(merges[m].target) \cup merges[m].faces]
    /\ UNCHANGED <<faceView, stored, personOf, persons, count, rep, queue, inHand, chosen,
                   clusterAt, picking, drifted, loose, created, requests, cuts>>

\* ... and writes its row, once no other merge has.
WriteTarget(m) ==
    /\ merges[m].at = "counting" /\ ~Written(merges[m].target)
    /\ merges' = [merges EXCEPT ![m].at = "counted"]
    /\ UNCHANGED <<faceView, stored, personOf, persons, count, rep, queue, inHand, chosen,
                   clusterAt, picking, drifted, loose, created, requests, cuts>>

\* The faces that deleting the sources of m leaves without a person.
Unassigned(m) == {f \in stored \ merges[m].faces : personOf[f] \in merges[m].sources}

\* Whose face is whose after m: its own are the target's.
After(m) ==
    [f \in Faces |-> CASE f \in merges[m].faces -> merges[m].target
                       [] f \in Unassigned(m) -> NoPerson
                       [] OTHER -> personOf[f]]

\* The transaction deletes the sources, once no other merge needs their rows or has
\* their faces in hand, and commits.
CommitMerge(m) ==
    /\ merges[m].at = "counted"
    /\ \A o \in RequestIds \ {m} :
          /\ \A p \in merges[m].sources : ~Holds(o, p)
          /\ HasMoved(o) => merges[o].faces \cap Unassigned(m) = {}
    /\ personOf' = After(m)
    /\ Restat(merges[m].target, merges[m].counted, merges[m].sources)
    /\ persons' = persons \ merges[m].sources
    /\ drifted' = (IF merges[m].late THEN drifted \cup {merges[m].target} ELSE drifted \ {merges[m].target})
                    \cap persons'
    /\ loose' = loose \cup UNION {merges[m].faces \ merges[o].faces :
                    o \in {x \in RequestIds \ {m} : HasSeen(x) /\ merges[m].target \in merges[x].sources}}
    /\ merges' = [Overtaken(merges[m].target) EXCEPT ![m] = NoMerge]
    /\ UNCHANGED <<faceView, stored, queue, inHand, chosen, clusterAt, picking, created, requests, cuts>>

\* A statement fails (the target is gone, the database broke up a deadlock of two
\* merges, the connection broke) and all of it is undone.
AbortMerge(m) ==
    /\ merges[m].at # "none"
    /\ merges' = [merges EXCEPT ![m] = NoMerge]
    /\ UNCHANGED <<faceView, stored, personOf, persons, count, rep, queue, inHand, chosen,
                   clusterAt, picking, drifted, loose, created, requests, cuts>>

\* set_representative_face checks that the face is one of the person's, ...
CheckRepresentative(p, f) ==
    /\ Request
    /\ picking = NoPick
    /\ f \in FacesOf(p) /\ p # NoPerson
    /\ picking' = [person |-> p, face |-> f]
    /\ UNCHANGED <<faceView, stored, personOf, persons, count, rep, queue, inHand, chosen,
                   clusterAt, merges, drifted, loose, created, cuts>>

\* ... then writes it, if the person is still there.
SetRepresentative ==
    /\ picking # NoPick
    /\ ~Written(picking.person)
    /\ IF picking.person \in persons
       THEN rep' = [rep EXCEPT ![picking.person] = picking.face]
       ELSE UNCHANGED rep
    /\ picking' = NoPick
    /\ UNCHANGED <<faceView, stored, personOf, persons, count, queue, inHand, chosen, clusterAt,
                   merges, drifted, loose, created, requests, cuts>>

PersonNext ==
    \/ StartClustering \/ AssignFace \/ UpdatePerson \/ AwaitMerge \/ UpdatePersonLate
    \/ CutClustering \/ SetRepresentative
    \/ \E f \in Faces : StoreFace(f) \/ FindPerson(f) \/ CreatePerson(f)
    \/ \E S \in SUBSET PersonIds, t \in PersonIds : BeginMerge(S, t)
    \/ \E m \in RequestIds : \/ FindFaces(m) \/ MoveFaces(m) \/ CountFaces(m) \/ WriteTarget(m)
                             \/ CommitMerge(m) \/ AbortMerge(m)
    \/ \E p \in PersonIds, f \in Faces : CheckRepresentative(p, f)

PersonSpec == PersonInit /\ [][PersonNext]_personVars

-----------------------------------------------------------------------------
(* Properties *)

\* Between passes every person has the count of its faces and is shown by one of
\* them, however merges overlap, unless a cut has left its row behind or the
\* statement that counted had to wait for one that changed the faces meanwhile (the
\* last of two merges into one person writes the count it took before the first
\* committed).
PersonsCurrent ==
    clusterAt = "idle" =>
        \A p \in persons \ drifted :
            /\ count[p] = Cardinality(FacesOf(p))
            /\ rep[p] \in FacesOf(p) \/ FacesOf(p) = {}

\* Two faces of one person are never taken apart by clustering or merging, but for
\* a face that was given to a person while that was being merged away, by
\* clustering or by another merge (deleting the person leaves the face without one).
NeverSplit ==
    [][\A f, g \in stored :
          personOf[f] = personOf[g] /\ personOf[f] # NoPerson =>
              \/ personOf'[f] = personOf'[g] /\ personOf'[f] # NoPerson
              \/ {f, g} \cap loose' # {}]_personVars

=============================================================================
