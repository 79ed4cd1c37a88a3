------------------------------ MODULE MediaRow ------------------------------
(***************************************************************************)
(* The images rows and the files behind them: ingest, the client's         *)
(* metadata, the trash, the verification worker that hashes files and      *)
(* makes thumbnails, the AI worker's orientation detection and the user's  *)
(* rotation, which all write the same row without locking it.              *)
(*                                                                         *)
(* One owner; videos rows are the same without an orientation.  A time is  *)
(* kept only as far as the queries tell: last_verified_at is NULL or a     *)
(* place in the order of the verifications, older than a month or not.     *)
(* A thumbnail is the orientation it was rendered with.                    *)
(***************************************************************************)
EXTENDS Integers, FiniteSets, SequencesExt

CONSTANTS
    Files,        \* content hashes
    Exif,         \* the Orientation tag of each file, or NoOrientation
    Turns,        \* orientations a user or the classifier may choose
    BatchSize,    \* rows a verification cycle takes
    MaxEdits,     \* bound: uploads, metadata, trash and rotation requests, bit rot
    MaxStops      \* bound: crashes of the server

NoOrientation == -1

Valid == 1 .. 8

ASSUME MediaRowAssumption ==
    /\ IsFiniteSet(Files)
    /\ Exif \in [Files -> {NoOrientation} \cup 0 .. 8]
    /\ Turns \subseteq Valid
    /\ BatchSize \in Nat \ {0}
    /\ MaxEdits \in Nat /\ MaxStops \in Nat

Row == [there : BOOLEAN, trashed : BOOLEAN, status : -1 .. 1, thumbnail : BOOLEAN,
        orientation : {NoOrientation} \cup 0 .. 8, detected : BOOLEAN]

NoRow == [there |-> FALSE, trashed |-> FALSE, status |-> 0, thumbnail |-> FALSE,
          orientation |-> NoOrientation, detected |-> FALSE]

NoThumb == -2

\* What a verification task has read of its row, and where it is.
Task == [at : {"none", "hash", "thumb", "write"}, thumbnail : BOOLEAN,
         orientation : {NoOrientation} \cup 0 .. 8]

Idle == [at |-> "none", thumbnail |-> FALSE, orientation |-> NoOrientation]

VARIABLES
    row,        \* images
    verified,   \* the files whose last_verified_at is set, oldest first
    stale,      \* those for which it is more than a month ago
    content,    \* the file on disk: "none", "partial", "good" or "bad"
    thumbFile,  \* the thumbnail on disk
    ingest,     \* where an ingest of the file is
    task,       \* the verification tasks of the cycle
    asked,      \* files whose orientation the AI service was asked for
    rotating,   \* the new orientations of rotations not yet written to the row
    suspect,    \* history: two writers of the row overlapped, or one was cut off
    edits, stops

mediaVars == <<row, verified, stale, content, thumbFile, ingest, task, asked,
               rotating, suspect, edits, stops>>

MediaTypeOK ==
    /\ row \in [Files -> Row]
    /\ verified \in Seq(Files) /\ IsInjective(verified)
    /\ stale \subseteq ToSet(verified)
    /\ content \in [Files -> {"none", "partial", "good", "bad"}]
    /\ thumbFile \in [Files -> {NoThumb, NoOrientation} \cup 0 .. 8]
    /\ ingest \in [Files -> {"none", "placing", "insert", "exif"}]
    /\ task \in [Files -> Task]
    /\ asked \subseteq Files
    /\ rotating \in [Files -> SUBSET Turns]
    /\ suspect \subseteq Files
    /\ edits \in 0 .. MaxEdits
    /\ stops \in 0 .. MaxStops

\* Some files have been ingested and have not been verified yet; one may be lost.
MediaInit ==
    /\ \E S \in SUBSET Files :
          /\ row = [f \in Files |->
                      IF f \in S THEN [NoRow EXCEPT !.there = TRUE, !.orientation = Exif[f]]
                                 ELSE NoRow]
          /\ content \in {c \in [Files -> {"none", "good", "bad"}] :
                            \A f \in Files \ S : c[f] = "none"}
    /\ verified = <<>>
    /\ stale = {}
    /\ thumbFile = [f \in Files |-> NoThumb]
    /\ ingest = [f \in Files |-> "none"]
    /\ task = [f \in Files |-> Idle]
    /\ asked = {}
    /\ rotating = [f \in Files |-> {}]
    /\ suspect = {}
    /\ edits = 0
    /\ stops = 0

LiveRow(f) == row[f].there /\ ~row[f].trashed

\* generate_thumbnail_for_image: without a valid orientation from the row, the
\* tag of the file; anything outside 1 .. 8 leaves the picture as it is.
Rendered(f, o) ==
    CASE o \in Valid -> o
      [] o \notin Valid /\ Exif[f] \in Valid -> Exif[f]
      [] OTHER -> 1

Edit ==
    /\ edits < MaxEdits
    /\ edits' = edits + 1

\* A write of the row's orientation or thumbnail while a task that has read
\* them is on its way: from here on the two may disagree.
Overlap(f) ==
    suspect' = IF task[f].at # "none" \/ rotating[f] # {}
               THEN suspect \cup {f} ELSE suspect

-----------------------------------------------------------------------------
(* Ingest: the upload handlers and the directory import *)

\* process_image_file: validated, then renamed or copied under its hash; a copy
\* is partial until it is over.
BeginPlace(f) ==
    /\ Edit
    /\ ingest[f] = "none"
    /\ ingest' = [ingest EXCEPT ![f] = "placing"]
    /\ content' = [content EXCEPT ![f] = "partial"]
    /\ UNCHANGED <<row, verified, stale, thumbFile, task, asked, rotating, suspect, stops>>

EndPlace(f) ==
    /\ ingest[f] = "placing"
    /\ ingest' = [ingest EXCEPT ![f] = "insert"]
    /\ content' = [content EXCEPT ![f] = "good"]
    /\ UNCHANGED <<row, verified, stale, thumbFile, task, asked, rotating, suspect, edits, stops>>

\* INSERT ... ON CONFLICT DO UPDATE SET deleted_at = NULL
InsertRow(f) ==
    /\ ingest[f] = "insert"
    /\ ingest' = [ingest EXCEPT ![f] = "exif"]
    /\ row' = [row EXCEPT ![f] = IF @.there THEN [@ EXCEPT !.trashed = FALSE]
                                 ELSE [NoRow EXCEPT !.there = TRUE]]
    /\ UNCHANGED <<verified, stale, content, thumbFile, task, asked, rotating, suspect, edits, stops>>

\* UPDATE images SET orientation = ... WHERE orientation IS NULL
StoreExif(f) ==
    /\ ingest[f] = "exif"
    /\ ingest' = [ingest EXCEPT ![f] = "none"]
    /\ row' = [row EXCEPT ![f].orientation = IF @ = NoOrientation THEN Exif[f] ELSE @]
    /\ UNCHANGED <<verified, stale, content, thumbFile, task, asked, rotating, suspect, edits, stops>>

\* The row r, there or not, with the client's verification_status, if greater, and
\* has_thumbnail.
WithMetadata(r, given, thumbnail) ==
    IF r.there
    THEN [r EXCEPT !.status = IF r.status > given THEN r.status ELSE given,
                   !.thumbnail = thumbnail]
    ELSE [NoRow EXCEPT !.there = TRUE, !.status = given, !.thumbnail = thumbnail]

\* upload_image_metadata, which sets last_verified_at too.  A thumbnail the client
\* vouches for may be neither there nor right.
UploadMetadata(f) ==
    /\ Edit
    /\ \E given \in {0, 1}, thumbnail \in BOOLEAN :
          row' = [row EXCEPT ![f] = WithMetadata(@, given, thumbnail)]
    /\ \E dated \in BOOLEAN :
          verified' = IF dated THEN Append(RemoveFirst(verified, f), f) ELSE RemoveFirst(verified, f)
    /\ stale' = stale \ {f}
    /\ suspect' = IF row'[f].thumbnail THEN suspect \cup {f} ELSE suspect
    /\ UNCHANGED <<content, thumbFile, ingest, task, asked, rotating, stops>>

-----------------------------------------------------------------------------
(* The trash, and faults *)

TrashRow(f) ==
    /\ Edit
    /\ LiveRow(f)
    /\ row' = [row EXCEPT ![f].trashed = TRUE]
    /\ UNCHANGED <<verified, stale, content, thumbFile, ingest, task, asked, rotating, suspect, stops>>

UntrashRow(f) ==
    /\ row[f].trashed
    /\ row' = [row EXCEPT ![f].trashed = FALSE]
    /\ UNCHANGED <<verified, stale, content, thumbFile, ingest, task, asked, rotating, suspect, edits, stops>>

\* A file on the disk goes bad.
BitRot(f) ==
    /\ Edit
    /\ content[f] = "good"
    /\ content' = [content EXCEPT ![f] = "bad"]
    /\ UNCHANGED <<row, verified, stale, thumbFile, ingest, task, asked, rotating, suspect, stops>>

\* The server stops and starts again; what its tasks had in hand is lost.
StopServer ==
    /\ stops < MaxStops
    /\ stops' = stops + 1
    /\ ingest' = [f \in Files |-> "none"]
    /\ task' = [f \in Files |-> Idle]
    /\ asked' = {}
    /\ rotating' = [f \in Files |-> {}]
    /\ suspect' = suspect \cup {f \in Files : task[f].at = "write" \/ rotating[f] # {}}
    /\ UNCHANGED <<row, verified, stale, content, thumbFile, edits>>

MonthPasses ==
    /\ stale' = ToSet(verified)
    /\ stale' # stale
    /\ UNCHANGED <<row, verified, content, thumbFile, ingest, task, asked, rotating, suspect, edits, stops>>

-----------------------------------------------------------------------------
(* The verification worker *)

\* The condition of verify_files' query.
Due(f) ==
    /\ LiveRow(f)
    /\ \/ row[f].status # 1
       \/ f \notin ToSet(verified) \ stale
       \/ ~row[f].thumbnail

\* g comes before f: ORDER BY last_verified_at ASC NULLS FIRST
Before(g, f) ==
    IF g \in ToSet(verified)
    THEN f \in ToSet(verified) /\ SelectInSeq(verified, LAMBDA x : x = g)
                                    < SelectInSeq(verified, LAMBDA x : x = f)
    ELSE f \in ToSet(verified)

Batches ==
    LET due == {f \in Files : Due(f)}
    IN  {B \in SUBSET due :
            /\ Cardinality(B) = IF Cardinality(due) < BatchSize THEN Cardinality(due) ELSE BatchSize
            /\ \A f \in B, g \in due \ B : ~Before(g, f)}

\* verify_files, once the last cycle's tasks are over.
SelectBatch ==
    /\ \A f \in Files : task[f].at = "none"
    /\ \E B \in Batches :
          /\ B # {}
          /\ task' = [f \in Files |->
                        IF f \in B
                        THEN [at |-> "hash", thumbnail |-> row[f].thumbnail,
                              orientation |-> row[f].orientation]
                        ELSE Idle]
    /\ UNCHANGED <<row, verified, stale, content, thumbFile, ingest, asked, rotating, suspect, edits, stops>>

\* Bug: a failed verification leaves last_verified_at alone.
StampGood(f) ==
    IF content[f] = "good" THEN verified' = Append(RemoveFirst(verified, f), f) /\ stale' = stale \ {f}
                           ELSE UNCHANGED <<verified, stale>>

\* UPDATE ... SET last_verified_at = NOW()
StampVerified(f) ==
    /\ verified' = Append(RemoveFirst(verified, f), f)
    /\ stale' = stale \ {f}

\* The file is opened and hashed: missing, unreadable or different, the row gets
\* status -1; the same, the task goes on.
HashFile(f) ==
    /\ task[f].at = "hash"
    /\ IF content[f] = "good"
       THEN /\ task' = [task EXCEPT ![f].at = IF task[f].thumbnail THEN "write" ELSE "thumb"]
            /\ UNCHANGED <<row, verified, stale>>
       ELSE /\ task' = [task EXCEPT ![f] = Idle]
            /\ row' = [row EXCEPT ![f].status = -1]
            /\ StampVerified(f)
    /\ UNCHANGED <<content, thumbFile, ingest, asked, rotating, suspect, edits, stops>>

\* generate_thumbnail_for_image with the orientation read at the start; a failure
\* is logged and the task goes on without.
MakeThumbnail(f) ==
    /\ task[f].at = "thumb"
    /\ \/ /\ thumbFile' = [thumbFile EXCEPT ![f] = Rendered(f, task[f].orientation)]
          /\ task' = [task EXCEPT ![f].at = "write", ![f].thumbnail = TRUE]
       \/ /\ task' = [task EXCEPT ![f].at = "write"]
          /\ UNCHANGED thumbFile
    /\ UNCHANGED <<row, verified, stale, content, ingest, asked, rotating, suspect, edits, stops>>

\* The row is verified, and has_thumbnail is what the task believes.
WriteVerified(f) ==
    /\ task[f].at = "write"
    /\ row' = [row EXCEPT ![f].status = 1, ![f].thumbnail = task[f].thumbnail]
    /\ StampVerified(f)
    /\ suspect' = IF rotating[f] # {} THEN suspect \cup {f} ELSE suspect
    /\ task' = [task EXCEPT ![f] = Idle]
    /\ UNCHANGED <<content, thumbFile, ingest, asked, rotating, edits, stops>>

-----------------------------------------------------------------------------
(* Orientation: the AI worker and the user *)

\* The query of the orientation stage, and the request.
AskOrientation(f) ==
    /\ f \notin asked
    /\ LiveRow(f) /\ row[f].status = 1
    /\ row[f].orientation \notin Valid /\ ~row[f].detected
    /\ asked' = asked \cup {f}
    /\ UNCHANGED <<row, verified, stale, content, thumbFile, ingest, task, rotating, suspect, edits, stops>>

\* Bug: the thumbnail is not rendered again.
DetectedOnly(r, o) ==
    IF r.orientation = NoOrientation THEN [r EXCEPT !.orientation = o, !.detected = TRUE] ELSE r

\* Bug: an orientation that was set meanwhile is written over.
DetectedAnyway(r, o) == [r EXCEPT !.orientation = o, !.detected = TRUE, !.thumbnail = FALSE]

\* Both statements of process_orientation_detection on the row r: the first needs
\* an unset orientation and a thumbnail, the second an unset orientation.
Detected(r, o) ==
    CASE r.orientation # NoOrientation -> r
      [] r.orientation = NoOrientation /\ r.thumbnail ->
            [r EXCEPT !.orientation = o, !.detected = TRUE, !.thumbnail = FALSE]
      [] OTHER -> [r EXCEPT !.detected = TRUE]

\* The classifier is confident.
StoreDetected(f) ==
    /\ f \in asked
    /\ asked' = asked \ {f}
    /\ \E o \in Turns :
          row' = [row EXCEPT ![f] = Detected(@, o)]
    /\ Overlap(f)
    /\ UNCHANGED <<verified, stale, content, thumbFile, ingest, task, rotating, edits, stops>>

\* Not confident, or a failure that is permanent.
MarkDetected(f) ==
    /\ f \in asked
    /\ asked' = asked \ {f}
    /\ row' = [row EXCEPT ![f].detected = TRUE]
    /\ UNCHANGED <<verified, stale, content, thumbFile, ingest, task, rotating, suspect, edits, stops>>

\* A failure that is not, such as a picture that cannot be decoded: the row is
\* asked about again.
DetectionFails(f) ==
    /\ f \in asked
    /\ asked' = asked \ {f}
    /\ UNCHANGED <<row, verified, stale, content, thumbFile, ingest, task, rotating, suspect, edits, stops>>

\* update_image_orientation renders the thumbnail first, without a lock, ...  (One
\* that overlaps another is not counted by the bound.)
BeginRotation(f) ==
    /\ IF rotating[f] = {} THEN Edit ELSE UNCHANGED edits
    /\ LiveRow(f)
    /\ content[f] \in {"good", "bad"}      \* else it cannot be decoded
    /\ \E o \in Turns :
          /\ rotating' = [rotating EXCEPT ![f] = @ \cup {o}]
          /\ thumbFile' = [thumbFile EXCEPT ![f] = o]
    /\ Overlap(f)
    /\ UNCHANGED <<row, verified, stale, content, ingest, task, asked, stops>>

\* ... or finds no file and only writes the row, ...
RotateWithoutFile(f) ==
    /\ Edit
    /\ LiveRow(f)
    /\ content[f] = "none"
    /\ \E o \in Turns :
          row' = [row EXCEPT ![f].orientation = o, ![f].thumbnail = FALSE]
    /\ Overlap(f)
    /\ UNCHANGED <<verified, stale, content, thumbFile, ingest, task, asked, rotating, stops>>

\* ... then writes the row, unless it was trashed meanwhile.
WriteRotation(f) ==
    /\ \E o \in rotating[f] :
          /\ rotating' = [rotating EXCEPT ![f] = @ \ {o}]
          /\ row' = IF LiveRow(f)
                    THEN [row EXCEPT ![f].orientation = o, ![f].thumbnail = TRUE]
                    ELSE row
    /\ suspect' = IF task[f].at # "none" \/ ~LiveRow(f) THEN suspect \cup {f} ELSE suspect
    /\ UNCHANGED <<verified, stale, content, thumbFile, ingest, task, asked, edits, stops>>

\* A client asks for a thumbnail that is not there: get_thumbnail resets
\* has_thumbnail.
ThumbnailMissed(f) ==
    /\ row[f].thumbnail /\ thumbFile[f] = NoThumb
    /\ row' = [row EXCEPT ![f].thumbnail = FALSE]
    /\ UNCHANGED <<verified, stale, content, thumbFile, ingest, task, asked, rotating, suspect, edits, stops>>

-----------------------------------------------------------------------------

VerifyStep(f) == HashFile(f) \/ MakeThumbnail(f) \/ WriteVerified(f)

IngestStep(f) == EndPlace(f) \/ InsertRow(f) \/ StoreExif(f)

MediaNext ==
    \/ SelectBatch \/ StopServer \/ MonthPasses
    \/ \E f \in Files :
          \/ VerifyStep(f) \/ IngestStep(f) \/ BeginPlace(f) \/ UploadMetadata(f)
          \/ TrashRow(f) \/ UntrashRow(f) \/ BitRot(f)
          \/ AskOrientation(f) \/ StoreDetected(f) \/ MarkDetected(f) \/ DetectionFails(f)
          \/ BeginRotation(f) \/ RotateWithoutFile(f) \/ WriteRotation(f)
          \/ ThumbnailMissed(f)

\* The verification worker's loop runs; no user, no upload and no AI service need
\* do anything.
MediaFairness ==
    /\ WF_mediaVars(SelectBatch)
    /\ \A f \in Files : WF_mediaVars(VerifyStep(f))

MediaSpec == MediaInit /\ [][MediaNext]_mediaVars /\ MediaFairness

-----------------------------------------------------------------------------
(* Properties *)

\* has_thumbnail, the thumbnail on disk and the orientation agree whenever no
\* writer of the row overlapped another or was cut off by a crash, and no client
\* vouched for a thumbnail.
ThumbnailCurrent ==
    \A f \in Files :
        (/\ row[f].thumbnail
         /\ task[f].at = "none" /\ rotating[f] = {} /\ ingest[f] = "none"
         /\ f \notin suspect)
        => thumbFile[f] = Rendered(f, row[f].orientation)

\* A file that stays good under a live row is verified in the end, however many
\* rows fail or are due again each cycle.
GoodFileVerified ==
    \A f \in Files :
        <>[](LiveRow(f) /\ content[f] = "good") => <>[](row[f].status = 1)

\* An orientation that the file's tag, a user or an earlier detection has set is
\* changed by a user alone: a detection asked for while the row had none, and an
\* ingest whose tag is stored late, leave it as it is ("Race-safe: the UPDATE only
\* writes when orientation IS NULL").
OrientationKept ==
    [][\A f \in Files :
          (/\ row[f].there /\ row[f].orientation # NoOrientation
           /\ row'[f].orientation # row[f].orientation)
          => WriteRotation(f) \/ RotateWithoutFile(f)]_mediaVars

=============================================================================
