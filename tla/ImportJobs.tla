----------------------------- MODULE ImportJobs -----------------------------
(***************************************************************************)
(* Directory imports (services/import_dir.rs): the jobs a request starts,  *)
(* the store their progress is read from, and the task of each job, which  *)
(* works through the files in chunks, asks once per chunk which files the  *)
(* library has already, and ingests and labels them one by one, while      *)
(* other jobs and the trash change the library.                            *)
(*                                                                         *)
(* One owner and one label.  The steps of an ingest are in MediaRow; here  *)
(* it makes the row live or fails.                                         *)
(***************************************************************************)
EXTENDS Integers, FiniteSets, FiniteSetsExt

CONSTANTS
    Jobs, Paths,
    NotMedia,       \* paths with another extension
    Contents, ContentOf,
    CHUNK,          \* files of a chunk (100)
    KEEP,           \* jobs kept in the store (20)
    MaxMishaps      \* bound: failures, trash requests, panics and restarts

ASSUME ImportJobsAssumption ==
    /\ IsFiniteSet(Jobs) /\ IsFiniteSet(Paths)
    /\ NotMedia \subseteq Paths
    /\ ContentOf \in [Paths -> Contents]
    /\ CHUNK \in Nat \ {0} /\ KEEP \in Nat \ {0}
    /\ MaxMishaps \in Nat

VARIABLES
    store,       \* the jobs in the ImportJobStore
    state,       \* their status
    shown,       \* the counts they show: scanned, imported, failed
    seq,         \* the order they were started in
    phase,       \* where the task of a job is
    left,        \* paths it has still to take
    chunk,       \* paths of its chunk still to do
    existing,    \* the contents it believes are there
    imported, failed,
    media,       \* contents with a live row
    labelled,    \* contents with the label
    gone,        \* history: contents trashed
    panicked,    \* history: jobs whose task ended by a panic
    mishaps

importVars == <<store, state, shown, seq, phase, left, chunk, existing, imported, failed,
                media, labelled, gone, panicked, mishaps>>

Counts == [scanned : 0 .. Cardinality(Paths), imported : 0 .. Cardinality(Paths),
           failed : 0 .. Cardinality(Paths)]

ImportTypeOK ==
    /\ store \subseteq Jobs
    /\ state \in [Jobs -> {"none", "running", "done"}]
    /\ shown \in [Jobs -> Counts]
    /\ seq \in [Jobs -> 0 .. Cardinality(Jobs)]
    /\ phase \in [Jobs -> {"new", "scan", "files", "over"}]
    /\ left \in [Jobs -> SUBSET Paths]
    /\ chunk \in [Jobs -> SUBSET (Paths \ NotMedia)]
    /\ existing \in [Jobs -> SUBSET Contents]
    /\ imported \in [Jobs -> 0 .. Cardinality(Paths)]
    /\ failed \in [Jobs -> 0 .. Cardinality(Paths)]
    /\ media \subseteq Contents /\ labelled \subseteq Contents
    /\ gone \subseteq Contents /\ panicked \subseteq Jobs
    /\ mishaps \in 0 .. MaxMishaps

ImportInit ==
    /\ store = {}
    /\ state = [j \in Jobs |-> "none"]
    /\ shown = [j \in Jobs |-> [scanned |-> 0, imported |-> 0, failed |-> 0]]
    /\ seq = [j \in Jobs |-> 0]
    /\ phase = [j \in Jobs |-> "new"]
    /\ left = [j \in Jobs |-> {}] /\ chunk = [j \in Jobs |-> {}]
    /\ existing = [j \in Jobs |-> {}]
    /\ imported = [j \in Jobs |-> 0] /\ failed = [j \in Jobs |-> 0]
    /\ media \in SUBSET Contents
    /\ labelled = {} /\ gone = {} /\ panicked = {}
    /\ mishaps = 0

Mishap ==
    /\ mishaps < MaxMishaps
    /\ mishaps' = mishaps + 1

\* Bug: the oldest jobs go, finished or not.
OldestPruned(S, st) ==
    {j \in S : Cardinality({k \in S : seq'[k] >= seq'[j]}) > KEEP}

\* The finished jobs that are removed: the oldest, as many as there are too many.
Pruned(S, st) ==
    LET finished == {j \in S : st[j] # "running"}
    IN  {j \in finished :
            Cardinality({k \in finished : seq'[k] < seq'[j]}) < Cardinality(S) - KEEP}

\* import_directory, once the caller and the path are found to be allowed
StartJob(j) ==
    /\ phase[j] = "new"
    /\ phase' = [phase EXCEPT ![j] = "scan"]
    /\ state' = [state EXCEPT ![j] = "running"]
    /\ seq' = [seq EXCEPT ![j] = Cardinality({k \in Jobs : phase[k] # "new"})]
    /\ store' = (store \cup {j}) \ Pruned(store \cup {j}, state')
    /\ UNCHANGED <<shown, left, chunk, existing, imported, failed, media, labelled,
                   gone, panicked, mishaps>>

\* update_job: nothing, when the store no longer has the job.
UpdateJob(j, c) == shown' = IF j \in store THEN [shown EXCEPT ![j] = c] ELSE shown

\* run_import walks the tree, leaving out symbolic links and what it cannot read.
ScanTree(j) ==
    /\ phase[j] = "scan"
    /\ phase' = [phase EXCEPT ![j] = "files"]
    /\ \E S \in SUBSET Paths :
          /\ IF S = Paths THEN UNCHANGED mishaps ELSE Mishap
          /\ left' = [left EXCEPT ![j] = S]
          /\ UpdateJob(j, [shown[j] EXCEPT !.scanned = Cardinality(S)])
    /\ UNCHANGED <<store, state, seq, chunk, existing, imported, failed, media, labelled, gone, panicked>>

\* The files of a chunk are hashed, which may fail for each, and one query tells
\* which are there; when it fails, none is.
TakeChunk(j) ==
    /\ phase[j] = "files" /\ chunk[j] = {} /\ left[j] # {}
    /\ \E C \in kSubset(Min({CHUNK, Cardinality(left[j])}), left[j]) :
       \E unread \in SUBSET (C \ NotMedia) :
       \E told \in {{}, media \cap {ContentOf[p] : p \in C}} :
          /\ IF unread = {} /\ told = media \cap {ContentOf[p] : p \in C} THEN UNCHANGED mishaps ELSE Mishap
          /\ left' = [left EXCEPT ![j] = @ \ C]
          /\ chunk' = [chunk EXCEPT ![j] = C \ (NotMedia \cup unread)]
          /\ failed' = [failed EXCEPT ![j] = @ + Cardinality(unread)]
          /\ existing' = [existing EXCEPT ![j] = told]
    /\ UNCHANGED <<store, state, shown, seq, phase, imported, media, labelled, gone, panicked>>

\* Bug: a file that could not be ingested is counted twice.
CountedTwice(ok) == [imported |-> 1, failed |-> IF ok THEN 0 ELSE 1]

\* What a file adds to the counts.
Counted(ok) == [imported |-> IF ok THEN 1 ELSE 0, failed |-> IF ok THEN 0 ELSE 1]

\* already_exists
Known(j, c) == c \in existing[j]

\* A file that is not known is ingested; then it is labelled, which may fail
\* without notice.  After each chunk the counts are shown.
ImportFile(j, p, ok) ==
    /\ phase[j] = "files" /\ p \in chunk[j]
    /\ chunk' = [chunk EXCEPT ![j] = @ \ {p}]
    /\ Known(j, ContentOf[p]) => ok
    /\ media' = IF ok /\ ~Known(j, ContentOf[p]) THEN media \cup {ContentOf[p]} ELSE media
    /\ imported' = [imported EXCEPT ![j] = @ + Counted(ok).imported]
    /\ failed' = [failed EXCEPT ![j] = @ + Counted(ok).failed]
    /\ \/ ok /\ labelled' = labelled \cup {ContentOf[p]} /\ UNCHANGED mishaps
       \/ Mishap /\ UNCHANGED labelled
    /\ IF chunk'[j] = {}
       THEN UpdateJob(j, [shown[j] EXCEPT !.imported = imported'[j], !.failed = failed'[j]])
       ELSE UNCHANGED shown
    /\ UNCHANGED <<store, state, seq, phase, left, existing, gone, panicked>>

FinishJob(j) ==
    /\ phase[j] = "files" /\ chunk[j] = {} /\ left[j] = {}
    /\ phase' = [phase EXCEPT ![j] = "over"]
    /\ state' = IF j \in store THEN [state EXCEPT ![j] = "done"] ELSE state
    /\ UpdateJob(j, [shown[j] EXCEPT !.imported = imported[j], !.failed = failed[j]])
    /\ UNCHANGED <<store, seq, left, chunk, existing, imported, failed, media, labelled,
                   gone, panicked, mishaps>>

\* The task panics: nothing takes note.
PanicJob(j) ==
    /\ Mishap
    /\ phase[j] \in {"scan", "files"}
    /\ phase' = [phase EXCEPT ![j] = "over"]
    /\ panicked' = panicked \cup {j}
    /\ UNCHANGED <<store, state, shown, seq, left, chunk, existing, imported, failed,
                   media, labelled, gone>>

\* The server stops; the jobs, which are only in memory, are forgotten.
ForgetJobs ==
    /\ Mishap
    /\ store # {}
    /\ store' = {}
    /\ phase' = [j \in Jobs |-> IF phase[j] = "new" THEN "new" ELSE "over"]
    /\ UNCHANGED <<state, shown, seq, left, chunk, existing, imported, failed, media,
                   labelled, gone, panicked>>

TrashContent(c) ==
    /\ Mishap
    /\ c \in media
    /\ media' = media \ {c}
    /\ gone' = gone \cup {c}
    /\ UNCHANGED <<store, state, shown, seq, phase, left, chunk, existing, imported,
                   failed, labelled, panicked>>

ImportNext ==
    \/ ForgetJobs
    \/ \E c \in Contents : TrashContent(c)
    \/ \E j \in Jobs :
          \/ StartJob(j) \/ ScanTree(j) \/ TakeChunk(j) \/ FinishJob(j) \/ PanicJob(j)
          \/ \E p \in Paths, ok \in BOOLEAN : ImportFile(j, p, ok)

ImportSpec == ImportInit /\ [][ImportNext]_importVars

-----------------------------------------------------------------------------
(* Properties *)

\* A job whose task is at work can be asked about: pruning the store never takes
\* it ("running jobs are never pruned"), and shows it as running only while its
\* task is, unless that panicked.
JobsTracked ==
    \A j \in Jobs :
        /\ phase[j] \in {"scan", "files"} => j \in store /\ state[j] = "running"
        /\ j \in store /\ state[j] = "running" => phase[j] \in {"scan", "files"} \/ j \in panicked

\* A finished job accounts for every media file it scanned, and when it reports no
\* failure each of them has a live row, unless it was trashed.
ImportAccounted ==
    \A j \in store :
        state[j] = "done" =>
            /\ shown[j].imported + shown[j].failed =< shown[j].scanned
            /\ shown[j].scanned = Cardinality(Paths) =>
                 /\ shown[j].imported + shown[j].failed = Cardinality(Paths \ NotMedia)
                 /\ shown[j].failed = 0 => {ContentOf[p] : p \in Paths \ NotMedia} \subseteq media \cup gone

=============================================================================
