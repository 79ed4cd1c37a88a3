----------------------------- MODULE Duplicates -----------------------------
(***************************************************************************)
(* Near-duplicate pictures: the worker that compares every picture with    *)
(* its neighbours and stores the pairs (duplicate_worker.rs), and the      *)
(* requests that change rows or pairs under it: the trash, a second upload *)
(* and the administrator's scan (services/duplicates.rs).                  *)
(*                                                                         *)
(* One owner; the pictures are verified.  A pair is a set of two pictures. *)
(***************************************************************************)
EXTENDS Integers, FiniteSets, FiniteSetsExt

CONSTANTS
    Pics,
    Similarity,       \* of each pair of pictures that is close enough
    NUM_NEIGHBORS, BATCH_SIZE,
    MaxEvents,        \* bound: requests of the users and statements that fail
    NoPic

ASSUME DuplicatesAssumption ==
    /\ IsFiniteSet(Pics)
    /\ \A p \in DOMAIN Similarity : p \in kSubset(2, Pics) /\ Similarity[p] \in Nat
    /\ NUM_NEIGHBORS \in Nat /\ BATCH_SIZE \in Nat \ {0}
    /\ MaxEvents \in Nat
    /\ NoPic \notin Pics

VARIABLES
    livePics,    \* deleted_at IS NULL
    embedded,    \* embedding IS NOT NULL
    checked,     \* duplicates_checked_at IS NOT NULL
    pairs,       \* image_duplicate_pairs
    todo,        \* the pictures of the worker's batch it has not come to
    exam,        \* the picture being compared
    found,       \* pairs it has still to insert; meaningful once askedPairs is TRUE
    askedPairs,  \* the neighbour query of exam is over
    scanning,    \* scans that have reset the rows and not yet truncated the pairs
    dropping,    \* pictures whose trash request has still to delete their pairs
    lost,        \* history: pairs a fault or a race has cost
    events

dupVars == <<livePics, embedded, checked, pairs, todo, exam, found, askedPairs,
             scanning, dropping, lost, events>>

DupTypeOK ==
    /\ livePics \subseteq Pics /\ embedded \subseteq Pics
    /\ checked \subseteq embedded
    /\ pairs \subseteq DOMAIN Similarity
    /\ todo \subseteq Pics
    /\ exam \in Pics \cup {NoPic}
    /\ found \subseteq DOMAIN Similarity
    /\ askedPairs \in BOOLEAN
    /\ askedPairs => exam # NoPic /\ \A p \in found : exam \in p
    /\ scanning \in Nat
    /\ dropping \subseteq Pics
    /\ lost \subseteq DOMAIN Similarity
    /\ events \in 0 .. MaxEvents

\* No picture counts as checked; a scan that failed after its first statement
\* has left pairs in the table.
DupInit ==
    /\ livePics = Pics
    /\ embedded \in SUBSET Pics
    /\ checked = {}
    /\ pairs \in SUBSET DOMAIN Similarity
    /\ todo = {} /\ exam = NoPic /\ found = {} /\ askedPairs = FALSE
    /\ scanning = 0
    /\ dropping = {}
    /\ lost = {}
    /\ events = 0

PairsOf(i) == {p \in DOMAIN Similarity : i \in p}

\* A user's request, or a statement that fails.
Event ==
    /\ events < MaxEvents
    /\ events' = events + 1

-----------------------------------------------------------------------------
(* The worker: process_batch *)

\* Bug: the embedding is not asked for.
AnyUncheckedPics == livePics \ checked

\* The condition of the batch query.
UncheckedPics == (livePics \cap embedded) \ checked

FetchBatch ==
    /\ todo = {} /\ exam = NoPic
    /\ \E B \in SUBSET UncheckedPics :
          /\ B # {} /\ Cardinality(B) =< BATCH_SIZE
          /\ todo' = B
    /\ UNCHANGED <<livePics, embedded, checked, pairs, exam, found, askedPairs,
                   scanning, dropping, lost, events>>

\* The index search is approximate: it may miss neighbours, and returns no more
\* than NUM_NEIGHBORS.
FindNeighbours(i) ==
    /\ i \in todo /\ exam = NoPic
    /\ todo' = todo \ {i}
    /\ exam' = i /\ askedPairs' = TRUE
    /\ LET near == {p \in PairsOf(i) : p \subseteq (livePics \cap embedded) \cup {i}}
       IN  \E S \in SUBSET near :
              /\ Cardinality(S) =< NUM_NEIGHBORS
              /\ \/ Cardinality(S) = Min({Cardinality(near), NUM_NEIGHBORS}) /\ UNCHANGED events
                 \/ Event
              /\ found' = S
              /\ lost' = lost \cup (near \ S)
    /\ UNCHANGED <<livePics, embedded, checked, pairs, scanning, dropping>>

\* The query fails: the picture counts as checked.
NeighbourQueryFails(i) ==
    /\ Event
    /\ i \in todo /\ exam = NoPic
    /\ todo' = todo \ {i}
    /\ checked' = checked \cup {i}
    /\ lost' = lost \cup PairsOf(i)
    /\ UNCHANGED <<livePics, embedded, pairs, exam, found, askedPairs, scanning, dropping>>

\* INSERT ... ON CONFLICT DO UPDATE; a failure is logged.
InsertPair(p) ==
    /\ askedPairs /\ p \in found
    /\ found' = found \ {p}
    /\ \/ pairs' = pairs \cup {p} /\ UNCHANGED <<lost, events>>
       \/ Event /\ lost' = lost \cup {p} /\ UNCHANGED pairs
    /\ UNCHANGED <<livePics, embedded, checked, todo, exam, askedPairs, scanning, dropping>>

MarkChecked ==
    /\ askedPairs /\ found = {}
    /\ \/ checked' = checked \cup {exam} /\ UNCHANGED events
       \/ Event /\ UNCHANGED checked
    /\ exam' = NoPic /\ askedPairs' = FALSE
    /\ UNCHANGED <<livePics, embedded, pairs, todo, found, scanning, dropping, lost>>

\* The process stops, and starts again with a new batch.
StopDuplicateWorker ==
    /\ Event
    /\ exam # NoPic
    /\ todo' = {} /\ exam' = NoPic /\ found' = {} /\ askedPairs' = FALSE
    /\ UNCHANGED <<livePics, embedded, checked, pairs, scanning, dropping, lost>>

-----------------------------------------------------------------------------
(* The requests, each of one or two statements *)

\* The AI worker has stored the embedding, of a picture in the trash too.
EmbeddingStored(i) ==
    /\ i \in Pics \ embedded
    /\ embedded' = embedded \cup {i}
    /\ UNCHANGED <<livePics, checked, pairs, todo, exam, found, askedPairs, scanning,
                   dropping, lost, events>>

\* trigger_duplicate_scan: the rows are reset ...
ResetChecked ==
    /\ Event
    /\ checked' = checked \ livePics
    /\ scanning' = scanning + 1
    /\ UNCHANGED <<livePics, embedded, pairs, todo, exam, found, askedPairs, dropping, lost>>

\* ... and the pairs truncated, with them those found since.
TruncatePairs ==
    /\ scanning > 0
    /\ scanning' = scanning - 1
    /\ pairs' = {}
    /\ lost' = lost \cup {p \in pairs : \E i \in p : i \in checked \cup {exam}}
    /\ UNCHANGED <<livePics, embedded, checked, todo, exam, found, askedPairs, dropping, events>>

\* soft_delete_media: the row is marked ...
TrashPic(i) ==
    /\ Event
    /\ i \in livePics
    /\ livePics' = livePics \ {i}
    /\ dropping' = dropping \cup {i}
    /\ UNCHANGED <<embedded, checked, pairs, todo, exam, found, askedPairs, scanning, lost>>

\* ... and its pairs deleted, which may fail or come after the row is live again.
DropPairs(i) ==
    /\ i \in dropping
    /\ dropping' = dropping \ {i}
    /\ \/ /\ pairs' = pairs \ PairsOf(i)
          /\ lost' = IF i \in livePics THEN lost \cup (pairs \cap PairsOf(i)) ELSE lost
          /\ UNCHANGED events
       \/ Event /\ UNCHANGED <<pairs, lost>>
    /\ UNCHANGED <<livePics, embedded, checked, todo, exam, found, askedPairs, scanning>>

\* Bug: a restored picture is not compared again.
StillChecked(i) == checked

\* soft_restore_media: duplicates_checked_at = NULL, so that it is compared again.
Unchecked(i) == checked \ {i}

\* The mark may still come from an examination that is under way.
RestorePic(i) ==
    /\ Event
    /\ i \in Pics \ livePics
    /\ livePics' = livePics \cup {i}
    /\ checked' = Unchecked(i)
    /\ lost' = IF exam = i THEN lost \cup PairsOf(i) ELSE lost
    /\ UNCHANGED <<embedded, pairs, todo, exam, found, askedPairs, scanning, dropping>>

\* A second upload clears deleted_at only: the picture is not compared again.
ReuploadPic(i) ==
    /\ Event
    /\ i \in Pics \ livePics
    /\ livePics' = livePics \cup {i}
    /\ lost' = IF i \in checked \cup {exam} THEN lost \cup PairsOf(i) ELSE lost
    /\ UNCHANGED <<embedded, checked, pairs, todo, exam, found, askedPairs, scanning, dropping>>

DupWorker ==
    \/ FetchBatch \/ MarkChecked \/ StopDuplicateWorker
    \/ \E p \in DOMAIN Similarity : InsertPair(p)
    \/ \E i \in Pics : FindNeighbours(i) \/ NeighbourQueryFails(i) \/ EmbeddingStored(i)

DupRequests ==
    \/ ResetChecked \/ TruncatePairs
    \/ \E i \in Pics : TrashPic(i) \/ DropPairs(i) \/ RestorePic(i) \/ ReuploadPic(i)

DupNext == DupWorker \/ DupRequests

DupSpec == DupInit /\ [][DupNext]_dupVars

-----------------------------------------------------------------------------
(* Properties *)

\* Two similar live pictures that both count as checked have their pair stored,
\* unless a failed statement or one of the races that lost records cost it.
PairsComplete ==
    \A p \in DOMAIN Similarity :
        p \subseteq livePics \cap checked => p \in pairs \cup lost

=============================================================================
