--------------------------- MODULE DuplicateGroups ---------------------------
(***************************************************************************)
(* GET /api/duplicates: one request reads the pairs of live pictures,      *)
(* build_groups joins them to groups with a union-find structure, and a    *)
(* second query says which of the pictures are still live                  *)
(* (services/duplicates.rs), while the worker and the other requests of    *)
(* Duplicates change the tables.                                           *)
(*                                                                         *)
(* Pictures stand for their positions in `hashes`; those that are in no    *)
(* pair stay alone.  The groups are a set: their order and the page that   *)
(* is returned are left out.                                               *)
(***************************************************************************)
EXTENDS Duplicates

VARIABLES
    gpc,        \* the loop of build_groups, or the find in it, that is under way
    given,      \* the pairs the first query returned
    ahead,      \* of them, those the loop has not come to
    cur,        \* the pair the loop is at
    unplaced,   \* pictures of the pairs that are not yet in group_members
    pic,        \* the picture the last loop is at
    cursor,     \* x in find
    rx,         \* the first root of a union
    parent, rank,
    maxSim,     \* group_max_sim, 0 where there is no entry
    members,    \* group_members, empty where there is no entry
    meta,       \* the keys of meta_map
    groups      \* the answer

grpVars == <<gpc, given, ahead, cur, unplaced, pic, cursor, rx, parent, rank, maxSim,
             members, meta, groups>>

\* hashes: the pictures of the pairs.
Hashes == UNION given

Finds == {"first", "second", "score", "member"}

GrpTypeOK ==
    /\ gpc \in {"idle", "unions", "scores", "members", "done"} \cup Finds
    /\ given \subseteq DOMAIN Similarity /\ ahead \subseteq given
    /\ gpc \in {"first", "second", "score"} => cur \in given \ ahead
    /\ unplaced \subseteq Hashes
    /\ gpc = "member" => pic \in Hashes \ unplaced
    /\ gpc \in Finds => cursor \in Pics
    /\ gpc = "second" => rx \in Pics
    /\ parent \in [Pics -> Pics]
    /\ rank \in [Pics -> Nat]
    /\ maxSim \in [Pics -> Nat]
    /\ members \in [Pics -> SUBSET Pics]
    /\ meta \subseteq Pics

GrpInit ==
    /\ gpc = "idle"
    /\ given = {} /\ ahead = {} /\ cur = {} /\ unplaced = {}
    /\ pic = NoPic /\ cursor = NoPic /\ rx = NoPic
    /\ parent = [x \in Pics |-> x] /\ rank = [x \in Pics |-> 0]
    /\ maxSim = [x \in Pics |-> 0] /\ members = [x \in Pics |-> {}]
    /\ meta = {} /\ groups = {}

\* hash_a and hash_b of a row of image_duplicate_pairs.
HashA(p) == CHOOSE x \in p : TRUE
HashB(p) == CHOOSE y \in p : y # HashA(p)

\* get_duplicates: the pairs whose pictures are both live, the most similar first,
\* down to the threshold or to the limit.
ShownPairs == {p \in pairs : p \subseteq livePics}

QueryPairs ==
    /\ gpc \in {"idle", "done"}
    /\ \E S \in SUBSET ShownPairs :
          /\ \A p \in S, q \in ShownPairs \ S : Similarity[q] =< Similarity[p]
          /\ given' = S /\ ahead' = S
          /\ gpc' = IF S = {} THEN "done" ELSE "unions"
    /\ parent' = [x \in Pics |-> x] /\ rank' = [x \in Pics |-> 0]
    /\ maxSim' = [x \in Pics |-> 0] /\ members' = [x \in Pics |-> {}]
    /\ meta' = {} /\ groups' = {} /\ unplaced' = {}
    /\ UNCHANGED <<cur, pic, cursor, rx>>

-----------------------------------------------------------------------------
(* UnionFind *)

\* Bug: the loop ends one step short of the root.
AtChild == parent[parent[cursor]] = parent[cursor]

\* The loop of find ends.
AtRoot == parent[cursor] = cursor

\* Its body: the path to the root is halved on the way.
Halve ==
    /\ gpc \in Finds
    /\ ~AtRoot
    /\ parent' = [parent EXCEPT ![cursor] = parent[parent[cursor]]]
    /\ cursor' = parent[parent[cursor]]
    /\ UNCHANGED <<gpc, given, ahead, cur, unplaced, pic, rx, rank, maxSim, members, meta, groups>>

\* The root of lower rank goes under the other.
Link(x, y) ==
    \/ /\ x = y
       /\ UNCHANGED <<parent, rank>>
    \/ /\ x # y /\ rank[x] < rank[y]
       /\ parent' = [parent EXCEPT ![x] = y]
       /\ UNCHANGED rank
    \/ /\ x # y /\ rank[x] >= rank[y]
       /\ parent' = [parent EXCEPT ![y] = x]
       /\ rank' = IF rank[x] = rank[y] THEN [rank EXCEPT ![x] = @ + 1] ELSE rank

-----------------------------------------------------------------------------
(* build_groups *)

\* The next pair in the order of the query, and the find of its first picture.
NextPair(loop, find) ==
    /\ gpc = loop
    /\ \E p \in ahead :
          /\ \A q \in ahead : Similarity[q] =< Similarity[p]
          /\ ahead' = ahead \ {p}
          /\ cur' = p
          /\ cursor' = HashA(p)
    /\ gpc' = find
    /\ UNCHANGED <<given, unplaced, pic, rx, parent, rank, maxSim, members, meta, groups>>

FoundFirst ==
    /\ gpc = "first" /\ AtRoot
    /\ rx' = cursor
    /\ cursor' = HashB(cur)
    /\ gpc' = "second"
    /\ UNCHANGED <<given, ahead, cur, unplaced, pic, parent, rank, maxSim, members, meta, groups>>

FoundSecond ==
    /\ gpc = "second" /\ AtRoot
    /\ Link(rx, cursor)
    /\ gpc' = "unions"
    /\ UNCHANGED <<given, ahead, cur, unplaced, pic, cursor, rx, maxSim, members, meta, groups>>

\* All unions are done: the second pass over the same pairs.
UnionsOver ==
    /\ gpc = "unions" /\ ahead = {}
    /\ ahead' = given
    /\ gpc' = "scores"
    /\ UNCHANGED <<given, cur, unplaced, pic, cursor, rx, parent, rank, maxSim, members, meta, groups>>

\* The pair's similarity counts for the root its pictures have now.
FoundScore ==
    /\ gpc = "score" /\ AtRoot
    /\ maxSim' = [maxSim EXCEPT ![cursor] = IF Similarity[cur] > @ THEN Similarity[cur] ELSE @]
    /\ gpc' = "scores"
    /\ UNCHANGED <<given, ahead, cur, unplaced, pic, cursor, rx, parent, rank, members, meta, groups>>

ScoresOver ==
    /\ gpc = "scores" /\ ahead = {}
    /\ unplaced' = Hashes
    /\ gpc' = "members"
    /\ UNCHANGED <<given, ahead, cur, pic, cursor, rx, parent, rank, maxSim, members, meta, groups>>

NextMember ==
    /\ gpc = "members"
    /\ \E x \in unplaced :
          /\ unplaced' = unplaced \ {x}
          /\ pic' = x
          /\ cursor' = x
    /\ gpc' = "member"
    /\ UNCHANGED <<given, ahead, cur, rx, parent, rank, maxSim, members, meta, groups>>

FoundMember ==
    /\ gpc = "member" /\ AtRoot
    /\ members' = [members EXCEPT ![cursor] = @ \cup {pic}]
    /\ gpc' = "members"
    /\ UNCHANGED <<given, ahead, cur, unplaced, pic, cursor, rx, parent, rank, maxSim, meta, groups>>

\* The metadata of the pictures that are live by now; a group is shown while two
\* of its pictures are.
QueryMeta ==
    /\ gpc = "members" /\ unplaced = {}
    /\ meta' = Hashes \cap livePics
    /\ groups' = {[images |-> members[r] \cap meta', similarity |-> maxSim[r]] :
                     r \in {q \in Pics : /\ Cardinality(members[q]) >= 2
                                         /\ Cardinality(members[q] \cap meta') >= 2}}
    /\ gpc' = "done"
    /\ UNCHANGED <<given, ahead, cur, unplaced, pic, cursor, rx, parent, rank, maxSim, members>>

\* The second query fails, and with it the request.
QueryMetaFails ==
    /\ gpc = "members" /\ unplaced = {}
    /\ gpc' = "idle"
    /\ UNCHANGED <<given, ahead, cur, unplaced, pic, cursor, rx, parent, rank, maxSim, members,
                   meta, groups>>

GrpStep ==
    \/ QueryPairs \/ Halve
    \/ NextPair("unions", "first") \/ FoundFirst \/ FoundSecond \/ UnionsOver
    \/ NextPair("scores", "score") \/ FoundScore \/ ScoresOver
    \/ NextMember \/ FoundMember \/ QueryMeta \/ QueryMetaFails

GroupsNext ==
    \/ GrpStep /\ UNCHANGED dupVars
    \/ DupNext /\ UNCHANGED grpVars

GroupsSpec == DupInit /\ GrpInit /\ [][GroupsNext]_<<dupVars, grpVars>>

-----------------------------------------------------------------------------
(* Properties *)

\* Every pair is inside S or outside.
Uncut(P, S) == \A p \in P : p \subseteq S \/ p \cap S = {}

\* The pairs P connect x and y: nothing separates them without cutting a pair.
Connected(P, x, y) == \A S \in SUBSET Pics : Uncut(P, S) => (x \in S <=> y \in S)

Component(P, x) == {y \in UNION P : Connected(P, x, y)}

\* The groups to be shown for the pairs P when the pictures M are live.
ShownGroup(P, M, C) ==
    [images     |-> C \cap M,
     similarity |-> Max({Similarity[p] : p \in {q \in P : q \subseteq C}})]

ShownGroups(P, M) ==
    {ShownGroup(P, M, C) : C \in {D \in {Component(P, x) : x \in UNION P} :
                                      Cardinality(D \cap M) >= 2}}

\* Whatever the order of the pairs and the shape of the trees, the answer has the
\* connected components of the pairs that were read, each with the greatest
\* similarity of its own pairs, but for those of which less than two pictures
\* are live when the metadata are read.
GroupsExact == gpc = "done" => groups = ShownGroups(given, meta)
=============================================================================
