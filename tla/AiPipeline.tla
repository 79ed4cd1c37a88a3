----------------------------- MODULE AiPipeline -----------------------------
(***************************************************************************)
(* The AI worker (ai_worker.rs): cycles that collect the work due on the   *)
(* images by strict priority into one task per content hash, the stages of *)
(* a task, what each answer of the AI service does to the row, and the     *)
(* marker that keeps an image out of the queue while it is being           *)
(* described.  The orientation stage is in MediaRow, clustering in         *)
(* Persons.                                                                *)
(*                                                                         *)
(* The rows are live and verified.  Time matters only to the marker: it is *)
(* older than fifteen minutes or not.                                      *)
(***************************************************************************)
EXTENDS Integers, FiniteSets

CONSTANTS
    Images,         \* rows of images, one per owner and hash
    Hashes, HashOf, \* the content of each row
    Rank,           \* the order of created_at
    Kind,           \* what the AI service makes of each content, see Kinds
    BatchLimit,     \* total_batch_limit
    DESC_FAIL_CAP,
    MinCycles,      \* cycles the worker is sure to run in fifteen minutes
    MaxAiOutages,   \* bound: outages of the AI service
    MaxAborts,      \* bound: crashes of the server
    NoImage

\* "good": every call succeeds in the end; "empty": the description is empty;
\* "refused": every call is refused for good; "poison": describing it always
\* crashes the AI service; "broken": it cannot be decoded, so nothing is sent.
Kinds == {"good", "empty", "refused", "poison", "broken"}

ASSUME AiPipelineAssumption ==
    /\ IsFiniteSet(Images)
    /\ HashOf \in [Images -> Hashes]
    /\ Rank \in [Images -> Nat]
    /\ Kind \in [Hashes -> Kinds]
    /\ BatchLimit \in Nat \ {0}
    /\ DESC_FAIL_CAP \in Nat \ {0}
    /\ MinCycles \in Nat /\ MaxAiOutages \in Nat /\ MaxAborts \in Nat
    /\ NoImage \notin Images

Stages == {"description", "embedding", "faces", "quality"}

AiTask == [image : Images \cup {NoImage}, work : SUBSET Stages]

NoAiTask == [image |-> NoImage, work |-> {}]

VARIABLES
    description,   \* "null", "processing" (the marker), "skipped" or "text"
    attempts,      \* description_failed_attempts
    oldMark,       \* images whose marker is older than fifteen minutes
    embedding,     \* "null", "done", or "failed": only embedding_generated_at is set
    facesDone,     \* face_detection_completed_at is set
    qualityDone,   \* quality_score_generated_at is set
    aiTasks,       \* the cycle's tasks, by hash
    calling,       \* hashes whose description is being generated
    serviceUp,
    cycles,        \* cycles since the fifteen minutes began, up to MinCycles
    aiOutages, aborts

aiVars == <<description, attempts, oldMark, embedding, facesDone, qualityDone,
            aiTasks, calling, serviceUp, cycles, aiOutages, aborts>>

AiTypeOK ==
    /\ description \in [Images -> {"null", "processing", "skipped", "text"}]
    /\ attempts \in [Images -> 0 .. DESC_FAIL_CAP]
    /\ oldMark \subseteq {i \in Images : description[i] = "processing"}
    /\ embedding \in [Images -> {"null", "done", "failed"}]
    /\ facesDone \subseteq Images
    /\ qualityDone \subseteq Images
    /\ aiTasks \in [Hashes -> AiTask]
    /\ calling \subseteq {h \in Hashes : "description" \in aiTasks[h].work}
    /\ serviceUp \in BOOLEAN
    /\ cycles \in 0 .. MinCycles
    /\ aiOutages \in 0 .. MaxAiOutages
    /\ aborts \in 0 .. MaxAborts

AiInit ==
    /\ description = [i \in Images |-> "null"]
    /\ attempts = [i \in Images |-> 0]
    /\ oldMark = {}
    /\ embedding = [i \in Images |-> "null"]
    /\ facesDone = {}
    /\ qualityDone = {}
    /\ aiTasks = [h \in Hashes |-> NoAiTask]
    /\ calling = {}
    /\ serviceUp = TRUE
    /\ cycles = 0
    /\ aiOutages = 0
    /\ aborts = 0

-----------------------------------------------------------------------------
(* Collecting the work *)

\* ORDER BY created_at ASC LIMIT n
Oldest(S, n) == {i \in S : Cardinality({j \in S : Rank[j] < Rank[i]}) < n}

Earliest(S) == CHOOSE i \in S : \A j \in S : Rank[i] =< Rank[j]

Latest(S) == CHOOSE i \in S : \A j \in S : Rank[j] =< Rank[i]

Taken(tasks) == {h \in Hashes : tasks[h].image # NoImage}

\* all_tasks_to_process.entry(hash).and_modify(...).or_insert(...) for the rows the
\* query for a stage returns, as many as there is room for.  A row whose hash has
\* a task adds its stage to that task, whichever owner it is for.
Collect(tasks, due, stage) ==
    LET chosen == Oldest(due, BatchLimit - Cardinality(Taken(tasks)))
        hit    == {HashOf[i] : i \in chosen}
    IN  [h \in Hashes |->
            CASE h \notin hit -> tasks[h]
              [] h \in hit \cap Taken(tasks) -> [tasks[h] EXCEPT !.work = @ \cup {stage}]
              [] OTHER -> [image |-> Earliest({i \in chosen : HashOf[i] = h}), work |-> {stage}]]

\* The first query inserts: the last of two rows with one hash stays.
CollectEmbeddings ==
    LET chosen == Oldest({j \in Images : embedding[j] = "null"}, BatchLimit)
    IN  [h \in Hashes |->
            IF \E i \in chosen : HashOf[i] = h
            THEN [image |-> Latest({i \in chosen : HashOf[i] = h}), work |-> {"embedding"}]
            ELSE NoAiTask]

\* The four queries of a cycle, in the order of their priority.
CollectTasks ==
    \E t1 \in {CollectEmbeddings} :
    \E t2 \in {Collect(t1, Images \ facesDone, "faces")} :
    \E t3 \in {Collect(t2, {i \in Images : description'[i] = "null"}, "description")} :
        aiTasks' = Collect(t3, {i \in Images : embedding[i] = "done"} \ qualityDone, "quality")

\* Bug: only markers of images that failed before are cleared.
UnparkedFailed ==
    [i \in Images |-> IF i \in oldMark /\ attempts[i] > 0 THEN "null" ELSE description[i]]

\* The sweep: markers older than fifteen minutes are cleared, or parked.
Unparked ==
    [i \in Images |->
        CASE i \notin oldMark -> description[i]
          [] i \in oldMark /\ attempts[i] >= DESC_FAIL_CAP -> "skipped"
          [] OTHER -> "null"]

\* process_files: the sweep, if it is due, and the queries, unless the stages are
\* disabled or the machine is overloaded.
StartCycle(sweep, skip) ==
    /\ Taken(aiTasks) = {}
    /\ description' = IF sweep THEN Unparked ELSE description
    /\ oldMark' = IF sweep THEN {} ELSE oldMark
    /\ IF skip THEN UNCHANGED aiTasks ELSE CollectTasks
    /\ cycles' = IF cycles < MinCycles /\ ~skip THEN cycles + 1 ELSE cycles
    /\ UNCHANGED <<attempts, embedding, facesDone, qualityDone, calling, serviceUp, aiOutages, aborts>>

-----------------------------------------------------------------------------
(* The stages of a task *)

\* The stage the task of h is at: description, embedding, faces, quality.
At(h, stage) ==
    /\ stage \in aiTasks[h].work
    /\ stage # "description" => "description" \notin aiTasks[h].work
    /\ stage \in {"faces", "quality"} => "embedding" \notin aiTasks[h].work
    /\ stage = "quality" => "faces" \notin aiTasks[h].work

\* The task t goes on to its next stage, if there is one.
WithoutStage(t, stage) ==
    IF t.work = {stage} THEN NoAiTask ELSE [t EXCEPT !.work = t.work \ {stage}]

StageOver(h, stage) == aiTasks' = [aiTasks EXCEPT ![h] = WithoutStage(@, stage)]

SetDescription(h, d) == description' = [description EXCEPT ![aiTasks[h].image] = d]

\* The marker is written before the call.
MarkDescription(h) ==
    /\ At(h, "description") /\ h \notin calling
    /\ SetDescription(h, "processing")
    /\ oldMark' = oldMark \ {aiTasks[h].image}
    /\ calling' = calling \cup {h}
    /\ UNCHANGED <<attempts, embedding, facesDone, qualityDone, aiTasks, serviceUp, cycles, aiOutages, aborts>>

\* The call returns a description, an empty one, or a permanent failure; on the
\* last the task returns, and its other stages are left to a later cycle.
DescribeEnds(h, d) ==
    /\ At(h, "description") /\ h \in calling
    /\ SetDescription(h, d)
    /\ oldMark' = oldMark \ {aiTasks[h].image}
    /\ attempts' = [attempts EXCEPT ![aiTasks[h].image] = 0]
    /\ calling' = calling \ {h}
    /\ IF Kind[h] = "refused"
       THEN aiTasks' = [aiTasks EXCEPT ![h] = NoAiTask]
       ELSE StageOver(h, "description")
    /\ UNCHANGED <<embedding, facesDone, qualityDone, serviceUp, cycles, aiOutages, aborts>>

Described(h) ==
    /\ serviceUp
    /\ CASE Kind[h] = "good" -> DescribeEnds(h, "text")
         [] Kind[h] \in {"empty", "refused"} -> DescribeEnds(h, "skipped")
         [] OTHER -> FALSE

\* Bug: an unreachable service counts, and the count parks the image.
ParkOnAnyFailure(i, counted) ==
    /\ description' = [description EXCEPT ![i] =
                         IF attempts[i] + 1 >= DESC_FAIL_CAP THEN "skipped" ELSE "null"]
    /\ attempts' = [attempts EXCEPT ![i] = IF @ < DESC_FAIL_CAP THEN @ + 1 ELSE @]
    /\ oldMark' = oldMark \ {i}

\* Bug: failures are counted and nothing ends the count.
CountFailures(i, counted) ==
    /\ attempts' = [attempts EXCEPT ![i] = @ + 1]
    /\ UNCHANGED <<description, oldMark>>

\* What the error handler's statements do to the row after a failure that is not
\* permanent.  Both the statement that clears the marker and the one that counts
\* the attempt number their parameters from $2 and are given none for $1, so the
\* database refuses them; the errors are dropped, and the row stays at its marker.
AfterFailure(i, counted) == UNCHANGED <<description, attempts, oldMark>>

\* The connection fails, the call is cut off or times out, or the image cannot be
\* decoded.  A call to a service that is up fails with the AI process that another
\* image brings down.
DescribeFails(h) ==
    /\ At(h, "description") /\ h \in calling
    /\ \/ ~serviceUp
       \/ Kind[h] \in {"poison", "broken"}
       \/ \E g \in calling : Kind[g] = "poison"
    /\ AfterFailure(aiTasks[h].image, serviceUp)
    /\ calling' = calling \ {h}
    /\ StageOver(h, "description")
    /\ UNCHANGED <<embedding, facesDone, qualityDone, serviceUp, cycles, aiOutages, aborts>>

\* generate_and_store_embedding; a permanent failure sets the timestamp only, any
\* other leaves the row as it is.
EmbedStage(h) ==
    /\ At(h, "embedding")
    /\ embedding' = [embedding EXCEPT ![aiTasks[h].image] =
                       CASE serviceUp /\ Kind[h] = "refused" -> "failed"
                         [] serviceUp /\ Kind[h] \in {"good", "empty", "poison"} -> "done"
                         [] OTHER -> @]
    /\ StageOver(h, "embedding")
    /\ UNCHANGED <<description, attempts, oldMark, facesDone, qualityDone, calling, serviceUp, cycles, aiOutages, aborts>>

\* process_face_detection and face_detection_completed_at
FaceStage(h) ==
    /\ At(h, "faces")
    /\ facesDone' = IF serviceUp /\ Kind[h] # "broken"
                    THEN facesDone \cup {aiTasks[h].image} ELSE facesDone
    /\ StageOver(h, "faces")
    /\ UNCHANGED <<description, attempts, oldMark, embedding, qualityDone, calling, serviceUp, cycles, aiOutages, aborts>>

QualityStage(h) ==
    /\ At(h, "quality")
    /\ qualityDone' = IF serviceUp /\ Kind[h] # "broken"
                      THEN qualityDone \cup {aiTasks[h].image} ELSE qualityDone
    /\ StageOver(h, "quality")
    /\ UNCHANGED <<description, attempts, oldMark, embedding, facesDone, calling, serviceUp, cycles, aiOutages, aborts>>

-----------------------------------------------------------------------------
(* Time and faults *)

\* Fifteen minutes pass, in which the worker runs a few cycles and no call lasts
\* (RPC_TIMEOUT is three minutes).
MarkersAge ==
    /\ calling = {} /\ cycles = MinCycles
    /\ oldMark' = {i \in Images : description[i] = "processing"}
    /\ cycles' = 0
    /\ UNCHANGED <<description, attempts, embedding, facesDone, qualityDone, aiTasks,
                   calling, serviceUp, aiOutages, aborts>>

ServiceDown ==
    /\ serviceUp /\ aiOutages < MaxAiOutages
    /\ serviceUp' = FALSE
    /\ aiOutages' = aiOutages + 1
    /\ UNCHANGED <<description, attempts, oldMark, embedding, facesDone, qualityDone,
                   aiTasks, calling, cycles, aborts>>

ServiceBack ==
    /\ ~serviceUp
    /\ serviceUp' = TRUE
    /\ UNCHANGED <<description, attempts, oldMark, embedding, facesDone, qualityDone,
                   aiTasks, calling, cycles, aiOutages, aborts>>

\* The server stops in the middle of a cycle and starts again.
AbortServer ==
    /\ aborts < MaxAborts
    /\ Taken(aiTasks) # {}
    /\ aborts' = aborts + 1
    /\ aiTasks' = [h \in Hashes |-> NoAiTask]
    /\ calling' = {}
    /\ UNCHANGED <<description, attempts, oldMark, embedding, facesDone, qualityDone,
                   serviceUp, cycles, aiOutages>>

TaskStep(h) ==
    \/ MarkDescription(h) \/ Described(h) \/ DescribeFails(h)
    \/ EmbedStage(h) \/ FaceStage(h) \/ QualityStage(h)

AiNext ==
    \/ \E sweep, skip \in BOOLEAN : StartCycle(sweep, skip)
    \/ MarkersAge \/ ServiceDown \/ ServiceBack \/ AbortServer
    \/ \E h \in Hashes : TaskStep(h)

Describable == {h \in Hashes : Kind[h] \in {"good", "empty", "refused"}}

\* The worker's loop runs and is not kept from sweeping or working for ever, time
\* passes, every call ends, and one that can succeed does so in the end.
AiFairness ==
    /\ SF_aiVars(\E skip \in BOOLEAN : StartCycle(TRUE, skip))
    /\ WF_aiVars(\E sweep \in BOOLEAN : StartCycle(sweep, FALSE))
    /\ WF_aiVars(MarkersAge)
    /\ \A h \in Hashes : WF_aiVars(TaskStep(h))
    /\ \A h \in Describable : SF_aiVars(Described(h))

AiSpec == AiInit /\ [][AiNext]_aiVars /\ AiFairness

-----------------------------------------------------------------------------
(* Properties *)

\* An outage of the AI service, or a crash another image causes, never parks an
\* image that could be described ("otherwise a weekend outage would bulk-park the
\* whole library").
OnlyBadSkipped ==
    \A i \in Images : description[i] = "skipped" => Kind[HashOf[i]] # "good"

\* Another row has the same content.
Shared(i) == \E j \in Images \ {i} : HashOf[j] = HashOf[i]

\* No image stays at the marker, whatever call, worker or server died on it, once
\* the service stays up.  (While a stage of one owner's image keeps failing, the
\* other owner's description is added to its task and renews its marker.)
MarkerCleared ==
    <>[]serviceUp =>
        \A i \in Images :
            ~(Kind[HashOf[i]] = "broken" /\ Shared(i))
                => (description[i] = "processing" ~> description[i] # "processing")

\* Once the service stays up, every image it can describe is described: the ones
\* it cannot do not use up the batches, while there is room for twice as many.
GoodDescribed ==
    2 * Cardinality({i \in Images : Kind[HashOf[i]] = "broken"}) < BatchLimit
        => \A i \in Images :
              Kind[HashOf[i]] = "good" => (<>[]serviceUp => <>(description[i] = "text"))

\* An image that brings the service down each time is parked in the end: the cap
\* "guards against a single deterministic poison image re-triggering the AI crash
\* loop indefinitely" (ai_worker.rs:28-33).
PoisonParked ==
    \A i \in Images : Kind[HashOf[i]] = "poison" => <>(description[i] = "skipped")

=============================================================================
