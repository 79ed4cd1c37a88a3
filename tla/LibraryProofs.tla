--------------------------- MODULE LibraryProofs ----------------------------
(***************************************************************************)
(* Proofs about the workers that complete the rows of the library: the     *)
(* row and its thumbnail under ingest, verification, orientation detection *)
(* and rotation, and the AI worker's cycle, for any files, any images and  *)
(* owners, any batch sizes and any number of requests, outages and         *)
(* crashes; and of the two side by side.  The specifications state         *)
(* fairness, which safety does not use.                                    *)
(***************************************************************************)
EXTENDS MCLibrary, SequenceTheorems, FiniteSetTheorems, WellFoundedInduction, TLAPS

-----------------------------------------------------------------------------
(* Rows and thumbnails *)

\* The types of what the thumbnail depends on.
RowTyped ==
    /\ row \in [Files -> Row]
    /\ thumbFile \in [Files -> {NoThumb, NoOrientation} \cup 0 .. 8]
    /\ task \in [Files -> Task]
    /\ rotating \in [Files -> SUBSET Turns]
    /\ suspect \subseteq Files

\* The writers of one row.  Without a rotation under way, a thumbnail that the row or the
\* task vouches for is rendered with an orientation that looks like the row's, and the
\* task has read such a one; a rotation has rendered its own, unless a task that began
\* after it has gone on to write.
FileInv(f) ==
    /\ task[f].at # "none" \/ rotating[f] # {} => row[f].there
    /\ f \notin suspect =>
         /\ rotating[f] = {} =>
              /\ row[f].thumbnail => thumbFile[f] = Rendered(f, row[f].orientation)
              /\ task[f].at # "none" =>
                   /\ Rendered(f, task[f].orientation) = Rendered(f, row[f].orientation)
                   /\ task[f].thumbnail => thumbFile[f] = Rendered(f, row[f].orientation)
         /\ rotating[f] # {} /\ task[f].at # "write" => rotating[f] = {thumbFile[f]}

ThumbInv == RowTyped /\ \A f \in Files : FileInv(f)

\* What the rendering makes of an orientation: a valid one as it is, any other like the
\* tag of the file, or not at all.
LEMMA RenderedFacts ==
    ASSUME NEW f \in Files
    PROVE  /\ \A o \in Turns : Rendered(f, o) = o /\ o \in 0 .. 8 /\ o # NoThumb
           /\ \A o : Rendered(f, o) \in 0 .. 8
           /\ Rendered(f, Exif[f]) = Rendered(f, NoOrientation)
           /\ Exif[f] \in {NoOrientation} \cup 0 .. 8
  <1>1. Turns \subseteq 1 .. 8 /\ Exif[f] \in {NoOrientation} \cup 0 .. 8
    BY MediaRowAssumption DEF Valid
  <1>. QED  BY <1>1 DEF Rendered, Valid, NoThumb, NoOrientation

\* Nothing that leaves a row's thumbnail, the look of its orientation and its writers
\* alone disturbs it.
LEMMA FileFrame ==
    ASSUME NEW f \in Files, FileInv(f),
           row'[f].there = row[f].there, row'[f].thumbnail = row[f].thumbnail,
           Rendered(f, row'[f].orientation) = Rendered(f, row[f].orientation),
           task'[f] = task[f], rotating'[f] = rotating[f], thumbFile'[f] = thumbFile[f],
           suspect \subseteq suspect'
    PROVE  FileInv(f)'
  <1>1. \A o : Rendered(f, o)' = Rendered(f, o)
    BY DEF Rendered
  <1>. QED  BY <1>1 DEF FileInv

LEMMA ThumbInit == MediaInit => ThumbInv
  <1> SUFFICES ASSUME MediaInit PROVE ThumbInv
    OBVIOUS
  <1>1. PICK S \in SUBSET Files :
          row = [f \in Files |-> IF f \in S THEN [NoRow EXCEPT !.there = TRUE, !.orientation = Exif[f]]
                                            ELSE NoRow]
    BY DEF MediaInit
  <1>2. ASSUME NEW f \in Files
        PROVE  row[f] \in Row /\ ~row[f].thumbnail
    <2> DEFINE r == [NoRow EXCEPT !.there = TRUE, !.orientation = Exif[f]]
    <2>1. Exif[f] \in {NoOrientation} \cup 0 .. 8
      BY RenderedFacts
    <2>2. NoRow \in Row /\ ~NoRow.thumbnail
      BY DEF NoRow, Row
    <2>3. r \in Row /\ ~r.thumbnail
      BY <2>1, <2>2 DEF Row
    <2>4. row[f] = r \/ row[f] = NoRow
      BY <1>1
    <2>. QED  BY <2>2, <2>3, <2>4
  <1>3. RowTyped
    BY <1>1, <1>2 DEF MediaInit, RowTyped, Task, Idle
  <1>4. ASSUME NEW f \in Files PROVE FileInv(f)
    BY <1>2 DEF MediaInit, FileInv, Idle
  <1>. QED  BY <1>3, <1>4 DEF ThumbInv

LEMMA NoRowFacts ==
    NoRow \in Row /\ ~NoRow.there /\ ~NoRow.thumbnail /\ NoRow.orientation = NoOrientation
  BY DEF NoRow, Row

LEMMA MetadataFacts ==
    ASSUME NEW r \in Row, NEW given \in {0, 1}, NEW thumbnail \in BOOLEAN
    PROVE  /\ WithMetadata(r, given, thumbnail) \in Row
           /\ WithMetadata(r, given, thumbnail).there
           /\ r.there => WithMetadata(r, given, thumbnail).orientation = r.orientation
  <1>1. CASE r.there
    <2> DEFINE st == IF r.status > given THEN r.status ELSE given
    <2>1. st \in -1 .. 1
      BY DEF Row
    <2>2. WithMetadata(r, given, thumbnail) = [r EXCEPT !.status = st, !.thumbnail = thumbnail]
      BY <1>1 DEF WithMetadata
    <2> HIDE DEF st
    <2>. QED  BY <1>1, <2>1, <2>2 DEF Row
  <1>2. CASE ~r.there
    <2> DEFINE q == [NoRow EXCEPT !.there = TRUE, !.status = given, !.thumbnail = thumbnail]
    <2>1. WithMetadata(r, given, thumbnail) = q
      BY <1>2 DEF WithMetadata
    <2>2. given \in -1 .. 1 /\ thumbnail \in BOOLEAN
      OBVIOUS
    <2>3. q \in Row
      BY <2>2, NoRowFacts DEF Row
    <2>4. q.there
      BY <2>2, NoRowFacts DEF Row
    <2> HIDE DEF q
    <2>. QED  BY <1>2, <2>1, <2>3, <2>4
  <1>. QED  BY <1>1, <1>2

LEMMA IdleFacts == Idle \in Task /\ Idle.at = "none" /\ ~Idle.thumbnail
  BY DEF Idle, Task

\* The invariant after a step that changes only what belongs to f.
LEMMA OneFile ==
    ASSUME ThumbInv, NEW f \in Files, RowTyped', FileInv(f)', suspect \subseteq suspect',
           \A g \in Files \ {f} : /\ row'[g] = row[g] /\ task'[g] = task[g]
                                  /\ rotating'[g] = rotating[g] /\ thumbFile'[g] = thumbFile[g]
    PROVE  ThumbInv'
  <1>1. ASSUME NEW g \in Files, g # f PROVE FileInv(g)'
    <2>1. FileInv(g)
      BY DEF ThumbInv
    <2>. QED  BY <1>1, <2>1, FileFrame
  <1>. QED  BY <1>1 DEF ThumbInv

\* Ingest, the client's metadata and the trash.
LEMMA IngestSteps ==
    ASSUME ThumbInv, NEW f \in Files,
           \/ BeginPlace(f) \/ IngestStep(f) \/ UploadMetadata(f)
           \/ TrashRow(f) \/ UntrashRow(f) \/ BitRot(f)
    PROVE  ThumbInv'
  <1>0. /\ RowTyped /\ FileInv(f) /\ row[f] \in Row /\ row \in [Files -> Row]
    BY DEF ThumbInv, RowTyped
  <1>1. CASE BeginPlace(f) \/ EndPlace(f) \/ BitRot(f)
    <2>1. UNCHANGED <<row, thumbFile, task, rotating, suspect>>
      BY <1>1 DEF BeginPlace, EndPlace, BitRot
    <2>2. FileInv(f)'
      BY <1>0, <2>1, FileFrame
    <2>3. RowTyped'
      BY <1>0, <2>1 DEF RowTyped
    <2>. QED  BY <2>1, <2>2, <2>3, OneFile
  <1>2. ASSUME UNCHANGED <<thumbFile, task, rotating, suspect>>,
               NEW r \in Row, row' = [row EXCEPT ![f] = r],
               r.there = row[f].there, r.thumbnail = row[f].thumbnail,
               Rendered(f, r.orientation) = Rendered(f, row[f].orientation)
        PROVE  ThumbInv'
    <2>1. row'[f] = r /\ \A g \in Files \ {f} : row'[g] = row[g]
      BY <1>0, <1>2
    <2>2. FileInv(f)'
      BY <1>0, <1>2, <2>1, FileFrame
    <2>3. RowTyped'
      BY <1>0, <1>2 DEF RowTyped
    <2>. QED  BY <1>2, <2>1, <2>2, <2>3, OneFile
  <1>3. CASE TrashRow(f)
    <2> DEFINE r == [row[f] EXCEPT !.trashed = TRUE]
    <2>1. /\ r \in Row /\ r.there = row[f].there /\ r.thumbnail = row[f].thumbnail
          /\ r.orientation = row[f].orientation
      BY <1>0 DEF Row
    <2>2. row' = [row EXCEPT ![f] = r] /\ UNCHANGED <<thumbFile, task, rotating, suspect>>
      BY <1>3 DEF TrashRow
    <2> HIDE DEF r
    <2>. QED  BY <1>2, <2>1, <2>2
  <1>4. CASE UntrashRow(f)
    <2> DEFINE r == [row[f] EXCEPT !.trashed = FALSE]
    <2>1. /\ r \in Row /\ r.there = row[f].there /\ r.thumbnail = row[f].thumbnail
          /\ r.orientation = row[f].orientation
      BY <1>0 DEF Row
    <2>2. row' = [row EXCEPT ![f] = r] /\ UNCHANGED <<thumbFile, task, rotating, suspect>>
      BY <1>4 DEF UntrashRow
    <2> HIDE DEF r
    <2>. QED  BY <1>2, <2>1, <2>2
  <1>5. CASE StoreExif(f)
    <2> DEFINE o == IF row[f].orientation = NoOrientation THEN Exif[f] ELSE row[f].orientation
               r == [row[f] EXCEPT !.orientation = o]
    <2>1. /\ o \in {NoOrientation} \cup 0 .. 8
          /\ Rendered(f, o) = Rendered(f, row[f].orientation)
      BY <1>0, RenderedFacts DEF Row
    <2>2. row' = [row EXCEPT ![f] = r] /\ UNCHANGED <<thumbFile, task, rotating, suspect>>
      BY <1>5 DEF StoreExif
    <2> HIDE DEF o
    <2>3. /\ r \in Row /\ r.there = row[f].there /\ r.thumbnail = row[f].thumbnail
          /\ r.orientation = o
      BY <1>0, <2>1 DEF Row
    <2> HIDE DEF r
    <2>. QED  BY <1>2, <2>1, <2>2, <2>3
  <1>6. CASE InsertRow(f)
    <2>1. UNCHANGED <<thumbFile, task, rotating, suspect>>
      BY <1>6 DEF InsertRow
    <2>2. CASE row[f].there
      <3> DEFINE r == [row[f] EXCEPT !.trashed = FALSE]
      <3>1. /\ r \in Row /\ r.there = row[f].there /\ r.thumbnail = row[f].thumbnail
            /\ r.orientation = row[f].orientation
        BY <1>0 DEF Row
      <3>2. row' = [row EXCEPT ![f] = r]
        BY <1>6, <2>2 DEF InsertRow
      <3> HIDE DEF r
      <3>. QED  BY <1>2, <2>1, <3>1, <3>2
    <2>3. CASE ~row[f].there
      <3> DEFINE r == [NoRow EXCEPT !.there = TRUE]
      <3>1. r \in Row /\ r.there /\ ~r.thumbnail
        BY NoRowFacts DEF Row
      <3>2. row' = [row EXCEPT ![f] = r]
        BY <1>6, <2>3 DEF InsertRow
      <3> HIDE DEF r
      <3>3. row'[f] = r /\ \A g \in Files \ {f} : row'[g] = row[g]
        BY <1>0, <3>2
      <3>4. FileInv(f)'
        BY <1>0, <2>1, <2>3, <3>1, <3>3 DEF FileInv
      <3>5. RowTyped'
        BY <1>0, <2>1, <3>1, <3>2 DEF RowTyped
      <3>. QED  BY <2>1, <3>3, <3>4, <3>5, OneFile
    <2>. QED  BY <2>2, <2>3
  <1>7. CASE UploadMetadata(f)
    <2>1. PICK given \in {0, 1}, thumbnail \in BOOLEAN :
             row' = [row EXCEPT ![f] = WithMetadata(@, given, thumbnail)]
      BY <1>7 DEF UploadMetadata
    <2>2. UNCHANGED <<thumbFile, task, rotating>>
      BY <1>7 DEF UploadMetadata
    <2>3. suspect' = IF row'[f].thumbnail THEN suspect \cup {f} ELSE suspect
      BY <1>7 DEF UploadMetadata
    <2>4. PICK r \in Row : /\ row' = [row EXCEPT ![f] = r]
                           /\ r.there
                           /\ row[f].there => r.orientation = row[f].orientation
      <3>1. PICK q \in Row : q = row[f]
        BY <1>0
      <3>. QED  BY <2>1, <3>1, MetadataFacts
    <2>5. row'[f] = r /\ \A g \in Files \ {f} : row'[g] = row[g]
      BY <1>0, <2>4
    <2>6. RowTyped'
      BY <1>0, <2>2, <2>3, <2>4 DEF RowTyped
    <2>7. FileInv(f)'
      BY <1>0, <2>2, <2>3, <2>4, <2>5 DEF FileInv, Rendered
    <2>. QED  BY <2>2, <2>3, <2>5, <2>6, <2>7, OneFile
  <1>. QED  BY <1>1, <1>3, <1>4, <1>5, <1>6, <1>7 DEF IngestStep

\* The verification worker.
LEMMA VerifySteps ==
    ASSUME ThumbInv, NEW f \in Files, VerifyStep(f)
    PROVE  ThumbInv'
  <1>0. /\ RowTyped /\ FileInv(f) /\ row[f] \in Row /\ row \in [Files -> Row]
        /\ task[f] \in Task /\ task \in [Files -> Task]
        /\ thumbFile \in [Files -> {NoThumb, NoOrientation} \cup 0 .. 8]
    BY DEF ThumbInv, RowTyped
  <1>1. CASE HashFile(f) /\ content[f] = "good"
    <2> DEFINE at == IF task[f].thumbnail THEN "write" ELSE "thumb"
               t == [task[f] EXCEPT !.at = at]
    <2>1. at \in {"write", "thumb"} /\ (at = "thumb" => ~task[f].thumbnail)
      OBVIOUS
    <2>2. /\ task[f].at = "hash" /\ task' = [task EXCEPT ![f] = t]
          /\ UNCHANGED <<row, thumbFile, rotating, suspect>>
      BY <1>1 DEF HashFile
    <2> HIDE DEF at
    <2>3. t \in Task /\ t.at = at /\ t.thumbnail = task[f].thumbnail /\ t.orientation = task[f].orientation
      BY <1>0, <2>1 DEF Task
    <2> HIDE DEF t
    <2>4. task'[f] = t /\ \A g \in Files \ {f} : task'[g] = task[g]
      BY <1>0, <2>2
    <2>5. RowTyped'
      BY <1>0, <2>2, <2>3 DEF RowTyped
    <2>6. FileInv(f)'
      BY <1>0, <2>1, <2>2, <2>3, <2>4 DEF FileInv, Rendered
    <2>. QED  BY <2>2, <2>4, <2>5, <2>6, OneFile
  <1>2. CASE HashFile(f) /\ content[f] # "good"
    <2> DEFINE r == [row[f] EXCEPT !.status = -1]
    <2>1. /\ task[f].at = "hash" /\ task' = [task EXCEPT ![f] = Idle]
          /\ row' = [row EXCEPT ![f] = r]
          /\ UNCHANGED <<thumbFile, rotating, suspect>>
      BY <1>2 DEF HashFile
    <2>2. /\ r \in Row /\ r.there = row[f].there /\ r.thumbnail = row[f].thumbnail
          /\ r.orientation = row[f].orientation
      BY <1>0 DEF Row
    <2> HIDE DEF r
    <2>3. /\ task'[f] = Idle /\ row'[f] = r
          /\ \A g \in Files \ {f} : task'[g] = task[g] /\ row'[g] = row[g]
      BY <1>0, <2>1
    <2>4. RowTyped'
      BY <1>0, <2>1, <2>2, IdleFacts DEF RowTyped
    <2>5. FileInv(f)'
      BY <1>0, <2>1, <2>2, <2>3, IdleFacts DEF FileInv, Rendered
    <2>. QED  BY <2>1, <2>3, <2>4, <2>5, OneFile
  <1>3. CASE MakeThumbnail(f)
    <2>0. task[f].at = "thumb" /\ UNCHANGED <<row, rotating, suspect>>
      BY <1>3 DEF MakeThumbnail
    <2>1. CASE /\ thumbFile' = [thumbFile EXCEPT ![f] = Rendered(f, task[f].orientation)]
               /\ task' = [task EXCEPT ![f].at = "write", ![f].thumbnail = TRUE]
      <3> DEFINE t == [task[f] EXCEPT !.at = "write", !.thumbnail = TRUE]
      <3>1. task' = [task EXCEPT ![f] = t]
        BY <2>1
      <3>2. t \in Task /\ t.at = "write" /\ t.orientation = task[f].orientation
        BY <1>0 DEF Task
      <3> HIDE DEF t
      <3>3. /\ task'[f] = t /\ thumbFile'[f] = Rendered(f, task[f].orientation)
            /\ \A g \in Files \ {f} : task'[g] = task[g] /\ thumbFile'[g] = thumbFile[g]
        BY <1>0, <2>1, <3>1
      <3>4. RowTyped'
        BY <1>0, <2>0, <2>1, <3>1, <3>2, RenderedFacts, ZenonT(60) DEF RowTyped
      <3>5. FileInv(f)'
        BY <1>0, <2>0, <3>2, <3>3 DEF FileInv, Rendered
      <3>. QED  BY <2>0, <3>3, <3>4, <3>5, OneFile
    <2>2. CASE task' = [task EXCEPT ![f].at = "write"] /\ UNCHANGED thumbFile
      <3> DEFINE t == [task[f] EXCEPT !.at = "write"]
      <3>1. task' = [task EXCEPT ![f] = t]
        BY <2>2
      <3>2. /\ t \in Task /\ t.at = "write" /\ t.orientation = task[f].orientation
            /\ t.thumbnail = task[f].thumbnail
        BY <1>0 DEF Task
      <3> HIDE DEF t
      <3>3. task'[f] = t /\ \A g \in Files \ {f} : task'[g] = task[g]
        BY <1>0, <3>1
      <3>4. RowTyped'
        BY <1>0, <2>0, <2>2, <3>1, <3>2 DEF RowTyped
      <3>5. FileInv(f)'
        BY <1>0, <2>0, <2>2, <3>2, <3>3 DEF FileInv, Rendered
      <3>. QED  BY <2>0, <2>2, <3>3, <3>4, <3>5, OneFile
    <2>. QED  BY <1>3, <2>1, <2>2 DEF MakeThumbnail
  <1>4. CASE WriteVerified(f)
    <2>1. PICK b \in BOOLEAN : b = task[f].thumbnail
      BY <1>0 DEF Task
    <2> DEFINE r == [row[f] EXCEPT !.status = 1, !.thumbnail = b]
    <2>2. /\ task[f].at = "write" /\ task' = [task EXCEPT ![f] = Idle]
          /\ row' = [row EXCEPT ![f] = r]
          /\ suspect' = IF rotating[f] # {} THEN suspect \cup {f} ELSE suspect
          /\ UNCHANGED <<thumbFile, rotating>>
      BY <1>4, <2>1 DEF WriteVerified
    <2>3. /\ r \in Row /\ r.there = row[f].there /\ r.thumbnail = b
          /\ r.orientation = row[f].orientation
      <3>1. PICK q \in Row : q = row[f]
        BY <1>0
      <3>2. 1 \in -1 .. 1
        OBVIOUS
      <3>3. [q EXCEPT !.status = 1, !.thumbnail = b] \in Row
        BY <3>2 DEF Row
      <3>4. /\ [q EXCEPT !.status = 1, !.thumbnail = b].there = q.there
            /\ [q EXCEPT !.status = 1, !.thumbnail = b].thumbnail = b
            /\ [q EXCEPT !.status = 1, !.thumbnail = b].orientation = q.orientation
        BY DEF Row
      <3>. QED  BY <3>1, <3>3, <3>4
    <2> HIDE DEF r
    <2>4. /\ task'[f] = Idle /\ row'[f] = r
          /\ \A g \in Files \ {f} : task'[g] = task[g] /\ row'[g] = row[g]
      BY <1>0, <2>2
    <2>5. RowTyped'
      BY <1>0, <2>2, <2>3, IdleFacts DEF RowTyped
    <2>6. FileInv(f)'
      BY <1>0, <2>1, <2>2, <2>3, <2>4, IdleFacts DEF FileInv, Rendered
    <2>. QED  BY <2>2, <2>4, <2>5, <2>6, OneFile
  <1>. QED  BY <1>1, <1>2, <1>3, <1>4 DEF VerifyStep

\* What the orientation detection makes of a row.
LEMMA DetectedFacts ==
    ASSUME NEW r \in Row, NEW o \in Turns
    PROVE  /\ Detected(r, o) \in Row /\ Detected(r, o).there = r.there
           /\ Detected(r, o).thumbnail => r.thumbnail /\ Detected(r, o).orientation = r.orientation
  <1>0. o \in {NoOrientation} \cup 0 .. 8
    BY MediaRowAssumption DEF Valid
  <1>1. CASE r.orientation # NoOrientation
    BY <1>1 DEF Detected
  <1>2. CASE r.orientation = NoOrientation /\ r.thumbnail
    <2> DEFINE q == [r EXCEPT !.orientation = o, !.detected = TRUE, !.thumbnail = FALSE]
    <2>1. Detected(r, o) = q
      BY <1>2 DEF Detected
    <2>2. q \in Row /\ q.there = r.there /\ ~q.thumbnail
      BY <1>0 DEF Row
    <2>. QED  BY <2>1, <2>2
  <1>3. CASE r.orientation = NoOrientation /\ ~r.thumbnail
    <2> DEFINE q == [r EXCEPT !.detected = TRUE]
    <2>1. Detected(r, o) = q
      BY <1>3 DEF Detected
    <2>2. q \in Row /\ q.there = r.there /\ q.thumbnail = r.thumbnail
      BY DEF Row
    <2>. QED  BY <1>3, <2>1, <2>2
  <1>. QED  BY <1>1, <1>2, <1>3

\* The AI worker's orientation stage and the user's rotation.
LEMMA OrientationSteps ==
    ASSUME ThumbInv, NEW f \in Files,
           \/ AskOrientation(f) \/ StoreDetected(f) \/ MarkDetected(f) \/ DetectionFails(f)
           \/ BeginRotation(f) \/ RotateWithoutFile(f) \/ WriteRotation(f) \/ ThumbnailMissed(f)
    PROVE  ThumbInv'
  <1>0. /\ RowTyped /\ FileInv(f) /\ row[f] \in Row /\ row \in [Files -> Row]
        /\ f \in DOMAIN rotating /\ f \in DOMAIN thumbFile
    BY DEF ThumbInv, RowTyped
  <1>1. CASE AskOrientation(f) \/ DetectionFails(f)
    <2>1. UNCHANGED <<row, thumbFile, task, rotating, suspect>>
      BY <1>1 DEF AskOrientation, DetectionFails
    <2>2. FileInv(f)'
      BY <1>0, <2>1, FileFrame
    <2>3. RowTyped'
      BY <1>0, <2>1 DEF RowTyped
    <2>. QED  BY <2>1, <2>2, <2>3, OneFile
  <1>2. CASE StoreDetected(f)
    <2>1. PICK o \in Turns : row' = [row EXCEPT ![f] = Detected(@, o)]
      BY <1>2 DEF StoreDetected
    <2>2. /\ UNCHANGED <<thumbFile, task, rotating>>
          /\ suspect' = IF task[f].at # "none" \/ rotating[f] # {}
                        THEN suspect \cup {f} ELSE suspect
      BY <1>2 DEF StoreDetected, Overlap
    <2>3. PICK r \in Row, q \in Row :
             /\ r = row[f] /\ q = Detected(r, o) /\ q.there = r.there
             /\ q.thumbnail => r.thumbnail /\ q.orientation = r.orientation
      BY <1>0, DetectedFacts
    <2>4. row'[f] = q /\ row' = [row EXCEPT ![f] = q] /\ \A g \in Files \ {f} : row'[g] = row[g]
      BY <1>0, <2>1, <2>3
    <2>5. RowTyped'
      BY <1>0, <2>2, <2>4 DEF RowTyped
    <2>6. FileInv(f)'
      BY <1>0, <2>2, <2>3, <2>4 DEF FileInv, Rendered
    <2>. QED  BY <2>2, <2>4, <2>5, <2>6, OneFile
  <1>3. CASE MarkDetected(f)
    <2> DEFINE r == [row[f] EXCEPT !.detected = TRUE]
    <2>1. row' = [row EXCEPT ![f] = r] /\ UNCHANGED <<thumbFile, task, rotating, suspect>>
      BY <1>3 DEF MarkDetected
    <2>2. /\ r \in Row /\ r.there = row[f].there /\ r.thumbnail = row[f].thumbnail
          /\ r.orientation = row[f].orientation
      BY <1>0 DEF Row
    <2> HIDE DEF r
    <2>3. row'[f] = r /\ \A g \in Files \ {f} : row'[g] = row[g]
      BY <1>0, <2>1
    <2>4. RowTyped'
      BY <1>0, <2>1, <2>2 DEF RowTyped
    <2>5. FileInv(f)'
      BY <1>0, <2>1, <2>2, <2>3, FileFrame
    <2>. QED  BY <2>1, <2>3, <2>4, <2>5, OneFile
  <1>4. CASE BeginRotation(f)
    <2>1. PICK o \in Turns : /\ rotating' = [rotating EXCEPT ![f] = @ \cup {o}]
                             /\ thumbFile' = [thumbFile EXCEPT ![f] = o]
      BY <1>4 DEF BeginRotation
    <2>2. /\ row[f].there /\ UNCHANGED <<row, task>>
          /\ suspect' = IF task[f].at # "none" \/ rotating[f] # {}
                        THEN suspect \cup {f} ELSE suspect
      BY <1>4 DEF BeginRotation, Overlap, LiveRow
    <2>3. o # NoThumb /\ o \in 0 .. 8
      BY RenderedFacts
    <2>4. /\ rotating'[f] = rotating[f] \cup {o} /\ thumbFile'[f] = o
          /\ \A g \in Files \ {f} : rotating'[g] = rotating[g] /\ thumbFile'[g] = thumbFile[g]
      BY <1>0, <2>1
    <2>5. RowTyped'
      BY <1>0, <2>1, <2>2, <2>3 DEF RowTyped
    <2>6. FileInv(f)'
      BY <1>0, <2>2, <2>3, <2>4 DEF FileInv
    <2>. QED  BY <2>2, <2>4, <2>5, <2>6, OneFile
  <1>5. CASE RotateWithoutFile(f)
    <2>1. PICK o \in Turns : row' = [row EXCEPT ![f].orientation = o, ![f].thumbnail = FALSE]
      BY <1>5 DEF RotateWithoutFile
    <2>2. /\ UNCHANGED <<thumbFile, task, rotating>>
          /\ suspect' = IF task[f].at # "none" \/ rotating[f] # {}
                        THEN suspect \cup {f} ELSE suspect
      BY <1>5 DEF RotateWithoutFile, Overlap
    <2> DEFINE r == [row[f] EXCEPT !.orientation = o, !.thumbnail = FALSE]
    <2>3. row' = [row EXCEPT ![f] = r]
      BY <2>1
    <2>4. o \in {NoOrientation} \cup 0 .. 8
      BY RenderedFacts
    <2>5. r \in Row /\ r.there = row[f].there /\ ~r.thumbnail
      BY <1>0, <2>4 DEF Row
    <2> HIDE DEF r
    <2>6. row'[f] = r /\ \A g \in Files \ {f} : row'[g] = row[g]
      BY <1>0, <2>3
    <2>7. RowTyped'
      BY <1>0, <2>2, <2>3, <2>5 DEF RowTyped
    <2>8. FileInv(f)'
      BY <1>0, <2>2, <2>5, <2>6 DEF FileInv
    <2>. QED  BY <2>2, <2>6, <2>7, <2>8, OneFile
  <1>6. CASE WriteRotation(f)
    <2>1. /\ suspect' = IF task[f].at # "none" \/ ~LiveRow(f) THEN suspect \cup {f} ELSE suspect
          /\ UNCHANGED <<thumbFile, task>>
      BY <1>6 DEF WriteRotation
    <2>2. PICK o \in Turns :
             /\ o \in rotating[f] /\ rotating' = [rotating EXCEPT ![f] = @ \ {o}]
             /\ row' = IF LiveRow(f)
                       THEN [row EXCEPT ![f].orientation = o, ![f].thumbnail = TRUE]
                       ELSE row
      BY <1>0, <1>6 DEF RowTyped, WriteRotation
    <2>3. o \in {NoOrientation} \cup 0 .. 8 /\ Rendered(f, o) = o
      BY RenderedFacts
    <2>4. /\ rotating'[f] = rotating[f] \ {o} /\ rotating' \in [Files -> SUBSET Turns]
          /\ \A g \in Files \ {f} : rotating'[g] = rotating[g]
      BY <1>0, <2>2 DEF RowTyped
    <2>5. CASE LiveRow(f)
      <3> DEFINE r == [row[f] EXCEPT !.orientation = o, !.thumbnail = TRUE]
      <3>1. row' = [row EXCEPT ![f] = r]
        BY <2>2, <2>5
      <3>2. r \in Row /\ r.there = row[f].there /\ r.orientation = o
        BY <1>0, <2>3 DEF Row
      <3> HIDE DEF r
      <3>3. row'[f] = r /\ \A g \in Files \ {f} : row'[g] = row[g]
        BY <1>0, <3>1
      <3>4. RowTyped'
        BY <1>0, <2>1, <2>4, <3>1, <3>2 DEF RowTyped
      <3>5. FileInv(f)'
        BY <1>0, <2>1, <2>2, <2>3, <2>4, <3>2, <3>3 DEF FileInv, Rendered
      <3>. QED  BY <2>1, <2>4, <3>3, <3>4, <3>5, OneFile
    <2>6. CASE ~LiveRow(f)
      <3>1. row' = row /\ suspect' = suspect \cup {f}
        BY <2>1, <2>2, <2>6
      <3>2. RowTyped'
        BY <1>0, <2>1, <2>4, <3>1 DEF RowTyped
      <3>3. FileInv(f)'
        BY <1>0, <2>1, <2>2, <2>4, <3>1 DEF FileInv
      <3>. QED  BY <2>1, <2>4, <3>1, <3>2, <3>3, OneFile
    <2>. QED  BY <2>5, <2>6
  <1>7. CASE ThumbnailMissed(f)
    <2> DEFINE r == [row[f] EXCEPT !.thumbnail = FALSE]
    <2>1. row' = [row EXCEPT ![f] = r] /\ UNCHANGED <<thumbFile, task, rotating, suspect>>
      BY <1>7 DEF ThumbnailMissed
    <2>2. /\ r \in Row /\ r.there = row[f].there /\ ~r.thumbnail
          /\ r.orientation = row[f].orientation
      BY <1>0 DEF Row
    <2> HIDE DEF r
    <2>3. row'[f] = r /\ \A g \in Files \ {f} : row'[g] = row[g]
      BY <1>0, <2>1
    <2>4. RowTyped'
      BY <1>0, <2>1, <2>2 DEF RowTyped
    <2>5. FileInv(f)'
      BY <1>0, <2>1, <2>2, <2>3 DEF FileInv, Rendered
    <2>. QED  BY <2>1, <2>3, <2>4, <2>5, OneFile
  <1>. QED  BY <1>1, <1>2, <1>3, <1>4, <1>5, <1>6, <1>7

LEMMA ThumbStep == ThumbInv /\ [MediaNext]_mediaVars => ThumbInv'
  <1> SUFFICES ASSUME ThumbInv, [MediaNext]_mediaVars PROVE ThumbInv'
    OBVIOUS
  <1>0. RowTyped /\ \A f \in Files : FileInv(f) /\ row[f] \in Row
    BY DEF ThumbInv, RowTyped
  <1>1. CASE SelectBatch
    <2>1. PICK B \in Batches :
             task' = [f \in Files |->
                        IF f \in B
                        THEN [at |-> "hash", thumbnail |-> row[f].thumbnail,
                              orientation |-> row[f].orientation]
                        ELSE Idle]
      BY <1>1 DEF SelectBatch
    <2>2. /\ \A f \in Files : task[f].at = "none"
          /\ UNCHANGED <<row, thumbFile, rotating, suspect>>
      BY <1>1 DEF SelectBatch
    <2>3. \A f \in B : row[f].there
      BY DEF Batches, Due, LiveRow
    <2>4. ASSUME NEW f \in Files
          PROVE  /\ task'[f] \in Task
                 /\ task'[f].at # "none" =>
                      /\ f \in B /\ task'[f].at = "hash" /\ task'[f].thumbnail = row[f].thumbnail
                      /\ task'[f].orientation = row[f].orientation
      <3>1. CASE f \in B
        BY <1>0, <2>1, <3>1 DEF Row, Task
      <3>2. CASE f \notin B
        BY <2>1, <3>2, IdleFacts
      <3>. QED  BY <3>1, <3>2
    <2>5. RowTyped'
      <3>1. task' \in [Files -> Task]
        BY <2>1, <2>4
      <3>. QED  BY <1>0, <2>2, <3>1 DEF RowTyped
    <2>6. ASSUME NEW f \in Files PROVE FileInv(f)'
      BY <1>0, <2>2, <2>3, <2>4 DEF FileInv, Rendered
    <2>. QED  BY <2>5, <2>6 DEF ThumbInv
  <1>2. CASE StopServer
    <2>1. /\ task' = [f \in Files |-> Idle] /\ rotating' = [f \in Files |-> {}]
          /\ suspect' = suspect \cup {f \in Files : task[f].at = "write" \/ rotating[f] # {}}
          /\ UNCHANGED <<row, thumbFile>>
      BY <1>2 DEF StopServer
    <2>2. RowTyped'
      BY <1>0, <2>1, IdleFacts DEF RowTyped
    <2>3. ASSUME NEW f \in Files PROVE FileInv(f)'
      <3>1. task'[f] = Idle /\ rotating'[f] = {}
        BY <2>1
      <3>2. f \notin suspect' => f \notin suspect /\ rotating[f] = {}
        BY <2>1
      <3>. QED  BY <1>0, <2>1, <3>1, <3>2, IdleFacts DEF FileInv, Rendered
    <2>. QED  BY <2>2, <2>3 DEF ThumbInv
  <1>3. CASE MonthPasses \/ UNCHANGED mediaVars
    <2>1. UNCHANGED <<row, thumbFile, task, rotating, suspect>>
      BY <1>3 DEF MonthPasses, mediaVars
    <2>2. ASSUME NEW f \in Files PROVE FileInv(f)'
      BY <1>0, <2>1, FileFrame
    <2>. QED  BY <1>0, <2>1, <2>2 DEF ThumbInv, RowTyped
  <1>. QED  BY <1>1, <1>2, <1>3, VerifySteps, IngestSteps, OrientationSteps DEF MediaNext

\* The thumbnail on disk is of the row's orientation whenever the row vouches for it and
\* no writer is at work, whatever order ingest, verification, detection and rotation come
\* in, but for rows whose writers overlapped, were cut off by a crash or believed a client.
THEOREM ThumbnailsCurrent == MediaSpec => []ThumbnailCurrent
  <1>1. ThumbInv => ThumbnailCurrent
    BY DEF ThumbInv, FileInv, ThumbnailCurrent
  <1>. QED  BY <1>1, ThumbInit, ThumbStep, PTL DEF MediaSpec

\* Who changes an orientation that is set.
LEMMA KeptStep ==
    ASSUME row \in [Files -> Row], [MediaNext]_mediaVars, NEW f \in Files,
           row[f].there, row[f].orientation # NoOrientation,
           row'[f].orientation # row[f].orientation
    PROVE  WriteRotation(f) \/ RotateWithoutFile(f)
  <1>0. row[f] \in Row /\ row'[f] # row[f]
    OBVIOUS
  <1>1. ~(SelectBatch \/ StopServer \/ MonthPasses \/ UNCHANGED mediaVars)
    BY <1>0 DEF SelectBatch, StopServer, MonthPasses, mediaVars
  <1>2. PICK g \in Files :
           \/ VerifyStep(g) \/ IngestStep(g) \/ BeginPlace(g) \/ UploadMetadata(g)
           \/ TrashRow(g) \/ UntrashRow(g) \/ BitRot(g)
           \/ AskOrientation(g) \/ StoreDetected(g) \/ MarkDetected(g) \/ DetectionFails(g)
           \/ BeginRotation(g) \/ RotateWithoutFile(g) \/ WriteRotation(g)
           \/ ThumbnailMissed(g)
    BY <1>1 DEF MediaNext
  <1>3. ASSUME NEW r, row' = [row EXCEPT ![g] = r] PROVE g = f /\ row'[f] = r
    BY <1>0, <1>3
  <1>4. ASSUME NEW r \in Row
        PROVE  /\ \A b \in BOOLEAN : /\ [r EXCEPT !.trashed = b].orientation = r.orientation
                                     /\ [r EXCEPT !.thumbnail = b].orientation = r.orientation
                                     /\ [r EXCEPT !.detected = b].orientation = r.orientation
               /\ [r EXCEPT !.status = -1].orientation = r.orientation
               /\ \A b \in BOOLEAN :
                     [r EXCEPT !.status = 1, !.thumbnail = b].orientation = r.orientation
    BY DEF Row
  <1>5. ~(BeginPlace(g) \/ EndPlace(g) \/ BitRot(g) \/ AskOrientation(g) \/ DetectionFails(g)
            \/ MakeThumbnail(g) \/ BeginRotation(g))
    BY <1>0 DEF BeginPlace, EndPlace, BitRot, AskOrientation, DetectionFails, MakeThumbnail,
                BeginRotation
  <1>6. ~(TrashRow(g) \/ UntrashRow(g) \/ MarkDetected(g) \/ ThumbnailMissed(g))
    <2>1. CASE TrashRow(g)
      BY <1>0, <1>3, <1>4, <2>1 DEF TrashRow
    <2>2. CASE UntrashRow(g)
      BY <1>0, <1>3, <1>4, <2>2 DEF UntrashRow
    <2>3. CASE MarkDetected(g)
      BY <1>0, <1>3, <1>4, <2>3 DEF MarkDetected
    <2>4. CASE ThumbnailMissed(g)
      BY <1>0, <1>3, <1>4, <2>4 DEF ThumbnailMissed
    <2>. QED  BY <2>1, <2>2, <2>3, <2>4
  <1>7. ~StoreDetected(g)
    <2>1. ASSUME NEW o \in Turns, row' = [row EXCEPT ![g] = Detected(@, o)] PROVE FALSE
      <3>1. row' = [row EXCEPT ![g] = Detected(row[g], o)]
        BY <2>1
      <3>2. Detected(row[f], o) = row[f]
        BY DEF Detected
      <3>. QED  BY <1>0, <1>3, <3>1, <3>2
    <2>. QED  BY <2>1 DEF StoreDetected
  <1>8. ~UploadMetadata(g)
    <2>1. ASSUME NEW given \in {0, 1}, NEW thumbnail \in BOOLEAN,
                 row' = [row EXCEPT ![g] = WithMetadata(@, given, thumbnail)]
          PROVE  FALSE
      <3>1. row' = [row EXCEPT ![g] = WithMetadata(row[g], given, thumbnail)]
        BY <2>1
      <3>2. row'[f] = WithMetadata(row[f], given, thumbnail)
        BY <1>3, <3>1
      <3>. QED  BY <1>0, <3>2, MetadataFacts
    <2>. QED  BY <2>1 DEF UploadMetadata
  <1>9. ~(InsertRow(g) \/ StoreExif(g))
    <2>1. CASE InsertRow(g)
      <3>1. row' = [row EXCEPT ![g] = IF row[g].there THEN [row[g] EXCEPT !.trashed = FALSE]
                                      ELSE [NoRow EXCEPT !.there = TRUE]]
        BY <2>1 DEF InsertRow
      <3>2. row'[f] = [row[f] EXCEPT !.trashed = FALSE]
        BY <1>3, <3>1
      <3>. QED  BY <1>0, <1>4, <3>2
    <2>2. CASE StoreExif(g)
      <3>1. row' = [row EXCEPT ![g] = [row[g] EXCEPT !.orientation =
                                 IF row[g].orientation = NoOrientation THEN Exif[g] ELSE @]]
        BY <2>2 DEF StoreExif
      <3>2. row'[f] = [row[f] EXCEPT !.orientation = row[f].orientation]
        BY <1>3, <3>1
      <3>. QED  BY <1>0, <3>2 DEF Row
    <2>. QED  BY <2>1, <2>2
  <1>10. ~(HashFile(g) \/ WriteVerified(g))
    <2>1. CASE HashFile(g)
      <3>1. row' = [row EXCEPT ![g] = [row[g] EXCEPT !.status = -1]]
        BY <1>0, <2>1 DEF HashFile
      <3>. QED  BY <1>0, <1>3, <1>4, <3>1
    <2>2. CASE WriteVerified(g)
      <3>1. row' = [row EXCEPT ![g] = [row[g] EXCEPT !.status = 1, !.thumbnail = task[g].thumbnail]]
        BY <2>2 DEF WriteVerified
      <3>2. row'[f] = [row[f] EXCEPT !.status = 1, !.thumbnail = task[f].thumbnail]
        BY <1>3, <3>1
      <3>. QED  BY <1>0, <3>2 DEF Row
    <2>. QED  BY <2>1, <2>2
  <1>11. WriteRotation(g) \/ RotateWithoutFile(g)
    BY <1>2, <1>5, <1>6, <1>7, <1>8, <1>9, <1>10 DEF VerifyStep, IngestStep
  <1>12. g = f
    <2>1. PICK r : row' = [row EXCEPT ![g] = r]
      BY <1>0, <1>11 DEF WriteRotation, RotateWithoutFile
    <2>. QED  BY <1>3, <2>1
  <1>. QED  BY <1>11, <1>12

\* A detection that is answered late and an ingest whose tag comes late never write over
\* an orientation, for any files and any number of requests.
THEOREM OrientationsKept == MediaSpec => OrientationKept
  <1>1. ThumbInv /\ [MediaNext]_mediaVars
        => [\A f \in Files :
              (/\ row[f].there /\ row[f].orientation # NoOrientation
               /\ row'[f].orientation # row[f].orientation)
              => WriteRotation(f) \/ RotateWithoutFile(f)]_mediaVars
    BY KeptStep DEF ThumbInv, RowTyped
  <1>. QED  BY <1>1, ThumbInit, ThumbStep, PTL DEF MediaSpec, OrientationKept

-----------------------------------------------------------------------------
(* The types of the rows and of what their writers keep *)

\* A file comes once in the order of the verifications; taking it out keeps the others
\* in theirs.
LEMMA RemoveFirstFacts ==
    ASSUME NEW v \in Seq(Files), IsInjective(v), NEW f \in Files
    PROVE  /\ RemoveFirst(v, f) \in Seq(Files)
           /\ IsInjective(RemoveFirst(v, f))
           /\ ToSet(RemoveFirst(v, f)) = ToSet(v) \ {f}
  <1>0. PICK n \in Nat : Len(v) = n /\ DOMAIN v = 1 .. n
    OBVIOUS
  <1>1. CASE ~\E i \in 1 .. n : v[i] = f
    <2>1. RemoveFirst(v, f) = v
      BY <1>0, <1>1 DEF RemoveFirst
    <2>2. f \notin ToSet(v)
      BY <1>0, <1>1 DEF ToSet
    <2>. QED  BY <2>1, <2>2
  <1>2. ASSUME NEW i \in 1 .. n, v[i] = f
        PROVE  /\ RemoveFirst(v, f) \in Seq(Files)
               /\ IsInjective(RemoveFirst(v, f))
               /\ ToSet(RemoveFirst(v, f)) = ToSet(v) \ {f}
    <2> DEFINE I == {k \in 1 .. n : v[k] = f}
               w == RemoveFirst(v, f)
               p == SubSeq(v, 1, i - 1)
               q == SubSeq(v, i + 1, n)
    <2>1. I = {i}
      BY <1>0, <1>2 DEF IsInjective
    <2>2. SelectInSeq(v, LAMBDA x : x = f) = IF I # {} THEN Min(I) ELSE 0
      BY <1>0 DEF SelectInSeq
    <2>3. Min({i}) = i
      BY DEF Min
    <2>4. w = p \o q
      BY <1>0, <1>2, <2>1, <2>2, <2>3 DEF RemoveFirst, RemoveAt
    <2>5. /\ p \in Seq(Files) /\ Len(p) = i - 1
          /\ \A k \in 1 .. i - 1 : p[k] = v[k]
      BY <1>0, SubSeqProperties
    <2>6. /\ q \in Seq(Files) /\ Len(q) = n - i
          /\ \A k \in 1 .. n - i : q[k] = v[i + k]
      <3>1. \A k \in i + 1 .. n : v[k] \in Files
        BY <1>0
      <3>2. /\ q \in Seq(Files)
            /\ Len(q) = IF i + 1 =< n THEN n - (i + 1) + 1 ELSE 0
            /\ \A k \in 1 .. n - (i + 1) + 1 : q[k] = v[i + 1 + k - 1]
        BY <1>0, <3>1, SubSeqProperties
      <3> HIDE DEF q
      <3>3. Len(q) = n - i
        <4>1. CASE i + 1 =< n
          <5>1. Len(q) = n - (i + 1) + 1
            BY <3>2, <4>1
          <5>. QED  BY <1>0, <5>1
        <4>2. CASE i = n
          <5>1. ~(i + 1 =< n) /\ n - i = 0
            BY <1>0, <4>2
          <5>2. Len(q) = 0
            BY <3>2, <5>1
          <5>. QED  BY <5>1, <5>2
        <4>. QED  BY <1>0, <4>1, <4>2
      <3>4. ASSUME NEW k \in 1 .. n - i PROVE q[k] = v[i + k]
        <4>1. k \in 1 .. n - (i + 1) + 1 /\ i + 1 + k - 1 = i + k
          BY <1>0
        <4>. QED  BY <3>2, <4>1
      <3>. QED  BY <3>2, <3>3, <3>4
    <2> HIDE DEF w, p, q
    <2>7. /\ w \in Seq(Files) /\ Len(w) = n - 1
          /\ \A k \in 1 .. Len(w) : w[k] = IF k < i THEN v[k] ELSE v[k + 1]
      <3>1. /\ w \in Seq(Files) /\ Len(w) = Len(p) + Len(q)
            /\ \A k \in 1 .. Len(p) + Len(q) : w[k] = IF k =< Len(p) THEN p[k] ELSE q[k - Len(p)]
        BY <2>4, <2>5, <2>6, ConcatProperties, ZenonT(60)
      <3>2. Len(w) = n - 1
        BY <1>0, <2>5, <2>6, <3>1
      <3>3. ASSUME NEW k \in 1 .. Len(w) PROVE w[k] = IF k < i THEN v[k] ELSE v[k + 1]
        <4>1. CASE k < i
          BY <1>0, <2>5, <2>6, <3>1, <3>2, <4>1
        <4>2. CASE k >= i
          <5>1. k - (i - 1) \in 1 .. n - i /\ i + (k - (i - 1)) = k + 1
            BY <1>0, <3>2, <4>2
          <5>. QED  BY <1>0, <2>5, <2>6, <3>1, <3>2, <4>2, <5>1
        <4>. QED  BY <1>0, <3>2, <4>1, <4>2
      <3>. QED  BY <3>1, <3>2, <3>3
    <2>8. DOMAIN w = 1 .. n - 1
      BY <2>7
    <2>9. IsInjective(w)
      <3>0. ASSUME NEW k \in 1 .. n - 1
            PROVE  \E x \in 1 .. n : w[k] = v[x] /\ ((x = k /\ k < i) \/ (x = k + 1 /\ k >= i))
        <4>1. CASE k < i
          <5>1. k \in 1 .. n /\ w[k] = v[k]
            BY <2>7, <2>8, <4>1
          <5>. QED  BY <4>1, <5>1
        <4>2. CASE k >= i
          <5>1. k + 1 \in 1 .. n /\ ~(k < i)
            BY <4>2
          <5>2. w[k] = v[k + 1]
            BY <2>7, <2>8, <5>1
          <5>. QED  BY <4>2, <5>1, <5>2
        <4>. QED  BY <4>1, <4>2
      <3>1. ASSUME NEW j \in 1 .. n - 1, NEW k \in 1 .. n - 1, w[j] = w[k], j < k PROVE FALSE
        <4>1. PICK x \in 1 .. n : w[j] = v[x] /\ ((x = j /\ j < i) \/ (x = j + 1 /\ j >= i))
          BY <3>0
        <4>2. PICK y \in 1 .. n : w[k] = v[y] /\ ((y = k /\ k < i) \/ (y = k + 1 /\ k >= i))
          BY <3>0
        <4>3. x # y
          BY <3>1, <4>1, <4>2
        <4>. QED  BY <1>0, <3>1, <4>1, <4>2, <4>3 DEF IsInjective
      <3>2. \A j, k \in 1 .. n - 1 : w[j] = w[k] => ~(j < k) /\ ~(k < j)
        BY <3>1
      <3>. QED  BY <2>8, <3>2 DEF IsInjective
    <2>10. ToSet(w) \subseteq ToSet(v) \ {f}
      <3>1. ASSUME NEW k \in 1 .. n - 1
            PROVE  \E j \in 1 .. n : j # i /\ w[k] = v[j]
        <4>1. CASE k < i
          <5>1. k \in 1 .. n /\ k # i /\ w[k] = v[k]
            BY <2>7, <2>8, <4>1
          <5>. QED  BY <5>1
        <4>2. CASE k >= i
          <5>1. k + 1 \in 1 .. n /\ k + 1 # i /\ ~(k < i)
            BY <4>2
          <5>. QED  BY <2>7, <2>8, <5>1
        <4>. QED  BY <4>1, <4>2
      <3>2. \A j \in 1 .. n : j # i => v[j] # f
        BY <1>0, <1>2 DEF IsInjective
      <3>3. \A k \in 1 .. n - 1 : w[k] \in ToSet(v) \ {f}
        BY <1>0, <3>1, <3>2, ZenonT(60) DEF ToSet
      <3>. QED  BY <2>8, <3>3 DEF ToSet
    <2>11. ASSUME NEW k \in 1 .. n, k # i PROVE v[k] \in ToSet(w)
      <3>1. CASE k < i
        BY <1>0, <2>7, <2>8, <3>1 DEF ToSet
      <3>2. CASE k > i
        <4>1. k - 1 \in 1 .. n - 1 /\ ~(k - 1 < i) /\ k - 1 + 1 = k
          BY <1>0, <3>2
        <4>2. w[k - 1] = v[k]
          BY <2>7, <4>1
        <4>. QED  BY <2>8, <4>1, <4>2 DEF ToSet
      <3>. QED  BY <1>0, <2>11, <3>1, <3>2
    <2>12. ToSet(v) \ {f} \subseteq ToSet(w)
      BY <1>0, <1>2, <2>11 DEF ToSet
    <2>. QED  BY <2>7, <2>9, <2>10, <2>12 DEF w
  <1>. QED  BY <1>1, <1>2

\* The file that is verified now comes last.
LEMMA StampFacts ==
    ASSUME NEW v \in Seq(Files), IsInjective(v), NEW f \in Files
    PROVE  /\ Append(RemoveFirst(v, f), f) \in Seq(Files)
           /\ IsInjective(Append(RemoveFirst(v, f), f))
           /\ ToSet(Append(RemoveFirst(v, f), f)) = ToSet(v) \cup {f}
  <1> DEFINE w == RemoveFirst(v, f)
             u == Append(w, f)
  <1>1. w \in Seq(Files) /\ IsInjective(w) /\ ToSet(w) = ToSet(v) \ {f}
    BY RemoveFirstFacts
  <1> HIDE DEF w
  <1>2. /\ u \in Seq(Files) /\ Len(u) = Len(w) + 1 /\ Len(w) \in Nat
        /\ u[Len(w) + 1] = f /\ \A k \in 1 .. Len(w) : u[k] = w[k]
    BY <1>1
  <1>3. DOMAIN w = 1 .. Len(w) /\ DOMAIN u = 1 .. Len(w) + 1
    BY <1>1, <1>2
  <1> HIDE DEF u
  <1>4. \A k \in 1 .. Len(w) : w[k] # f
    BY <1>1, <1>3 DEF ToSet
  <1>5. IsInjective(u)
    BY <1>1, <1>2, <1>3, <1>4 DEF IsInjective
  <1>6. ToSet(u) = ToSet(w) \cup {f}
    BY <1>2, <1>3 DEF ToSet
  <1>7. ToSet(v) \cup {f} = ToSet(w) \cup {f}
    BY <1>1
  <1>. QED  BY <1>2, <1>5, <1>6, <1>7 DEF u, w

\* What RowTyped leaves out.
RestTyped ==
    /\ verified \in Seq(Files) /\ IsInjective(verified)
    /\ stale \subseteq ToSet(verified)
    /\ content \in [Files -> {"none", "partial", "good", "bad"}]
    /\ ingest \in [Files -> {"none", "placing", "insert", "exif"}]
    /\ asked \subseteq Files
    /\ edits \in 0 .. MaxEdits
    /\ stops \in 0 .. MaxStops

LEMMA RestInit == MediaInit => RestTyped
  <1> SUFFICES ASSUME MediaInit PROVE RestTyped
    OBVIOUS
  <1>1. content \in [Files -> {"none", "partial", "good", "bad"}]
    BY DEF MediaInit
  <1>2. verified = <<>> /\ stale = {}
    BY DEF MediaInit
  <1>3. verified \in Seq(Files) /\ IsInjective(verified)
    BY <1>2 DEF IsInjective
  <1>4. ingest \in [Files -> {"none", "placing", "insert", "exif"}] /\ asked \subseteq Files
    BY DEF MediaInit
  <1>5. edits \in 0 .. MaxEdits /\ stops \in 0 .. MaxStops
    <2>1. edits = 0 /\ stops = 0
      BY DEF MediaInit
    <2>. QED  BY <2>1, MediaRowAssumption
  <1>6. stale = {}
    BY <1>2
  <1>. QED  BY <1>1, <1>3, <1>4, <1>5, <1>6 DEF RestTyped

\* last_verified_at is set to now, or to NULL.
LEMMA DatedTyped ==
    ASSUME RestTyped, NEW f \in Files, stale' = stale \ {f},
           verified' \in {RemoveFirst(verified, f), Append(RemoveFirst(verified, f), f)}
    PROVE  verified' \in Seq(Files) /\ IsInjective(verified') /\ stale' \subseteq ToSet(verified')
  <1>1. verified \in Seq(Files) /\ IsInjective(verified) /\ stale \subseteq ToSet(verified)
    BY DEF RestTyped
  <1>2. CASE verified' = RemoveFirst(verified, f)
    <2>1. /\ verified' \in Seq(Files) /\ IsInjective(verified')
          /\ ToSet(verified') = ToSet(verified) \ {f}
      BY <1>1, <1>2, RemoveFirstFacts
    <2>. QED  BY <1>1, <2>1
  <1>3. CASE verified' = Append(RemoveFirst(verified, f), f)
    <2>1. /\ verified' \in Seq(Files) /\ IsInjective(verified')
          /\ ToSet(verified') = ToSet(verified) \cup {f}
      BY <1>1, <1>3, StampFacts
    <2>. QED  BY <1>1, <2>1
  <1>. QED  BY <1>2, <1>3

LEMMA RestStep == RestTyped /\ [MediaNext]_mediaVars => RestTyped'
  <1> SUFFICES ASSUME RestTyped, [MediaNext]_mediaVars PROVE RestTyped'
    OBVIOUS
  <1>1. CASE SelectBatch \/ UNCHANGED mediaVars
    BY <1>1 DEF SelectBatch, mediaVars, RestTyped
  <1>2. CASE StopServer
    BY <1>2, MediaRowAssumption DEF StopServer, RestTyped
  <1>3. CASE MonthPasses
    BY <1>3 DEF MonthPasses, RestTyped
  <1>4. ASSUME NEW f \in Files,
               \/ MakeThumbnail(f) \/ UntrashRow(f) \/ AskOrientation(f) \/ StoreDetected(f)
               \/ MarkDetected(f) \/ DetectionFails(f) \/ WriteRotation(f) \/ ThumbnailMissed(f)
        PROVE  RestTyped'
    <2>1. UNCHANGED <<verified, stale, content, ingest, edits, stops>>
      BY <1>4 DEF MakeThumbnail, UntrashRow, AskOrientation, StoreDetected, MarkDetected,
                  DetectionFails, WriteRotation, ThumbnailMissed
    <2>2. asked' \subseteq asked \cup {f}
      BY <1>4 DEF MakeThumbnail, UntrashRow, AskOrientation, StoreDetected, MarkDetected,
                  DetectionFails, WriteRotation, ThumbnailMissed
    <2>. QED  BY <2>1, <2>2 DEF RestTyped
  <1>5. ASSUME NEW f \in Files, TrashRow(f) \/ BeginRotation(f) \/ RotateWithoutFile(f)
        PROVE  RestTyped'
    <2>1. UNCHANGED <<verified, stale, content, ingest, asked, stops>> /\ (Edit \/ UNCHANGED edits)
      BY <1>5 DEF TrashRow, BeginRotation, RotateWithoutFile
    <2>. QED  BY <2>1, MediaRowAssumption DEF RestTyped, Edit
  <1>6. ASSUME NEW f \in Files, BitRot(f) \/ BeginPlace(f) PROVE RestTyped'
    <2>1. UNCHANGED <<verified, stale, asked, stops>> /\ Edit
      BY <1>6 DEF BitRot, BeginPlace
    <2>2. /\ content' \in [Files -> {"none", "partial", "good", "bad"}]
          /\ ingest' \in [Files -> {"none", "placing", "insert", "exif"}]
      BY <1>6 DEF BitRot, BeginPlace, RestTyped
    <2>. QED  BY <2>1, <2>2, MediaRowAssumption DEF RestTyped, Edit
  <1>7. ASSUME NEW f \in Files, IngestStep(f) PROVE RestTyped'
    <2>1. UNCHANGED <<verified, stale, asked, edits, stops>>
      BY <1>7 DEF IngestStep, EndPlace, InsertRow, StoreExif
    <2>2. /\ content' \in [Files -> {"none", "partial", "good", "bad"}]
          /\ ingest' \in [Files -> {"none", "placing", "insert", "exif"}]
      BY <1>7 DEF IngestStep, EndPlace, InsertRow, StoreExif, RestTyped
    <2>. QED  BY <2>1, <2>2 DEF RestTyped
  <1>8. ASSUME NEW f \in Files, UploadMetadata(f) PROVE RestTyped'
    <2>1. UNCHANGED <<content, ingest, asked, stops>> /\ Edit /\ stale' = stale \ {f}
      BY <1>8 DEF UploadMetadata
    <2>2. verified' \in {RemoveFirst(verified, f), Append(RemoveFirst(verified, f), f)}
      BY <1>8 DEF UploadMetadata
    <2>. QED  BY <2>1, <2>2, DatedTyped, MediaRowAssumption DEF RestTyped, Edit
  <1>9. ASSUME NEW f \in Files, HashFile(f) \/ WriteVerified(f) PROVE RestTyped'
    <2>1. UNCHANGED <<content, ingest, asked, edits, stops>>
      BY <1>9 DEF HashFile, WriteVerified
    <2>2. CASE UNCHANGED <<verified, stale>>
      BY <2>1, <2>2 DEF RestTyped
    <2>3. CASE StampVerified(f)
      <3>1. /\ stale' = stale \ {f}
            /\ verified' \in {RemoveFirst(verified, f), Append(RemoveFirst(verified, f), f)}
        BY <2>3 DEF StampVerified
      <3>. QED  BY <2>1, <3>1, DatedTyped DEF RestTyped
    <2>. QED  BY <1>9, <2>2, <2>3 DEF HashFile, WriteVerified
  <1>. QED
    BY <1>1, <1>2, <1>3, <1>4, <1>5, <1>6, <1>7, <1>8, <1>9 DEF MediaNext, VerifyStep

LEMMA MediaTyped == RowTyped /\ RestTyped => MediaTypeOK
  BY DEF RowTyped, RestTyped, MediaTypeOK

-----------------------------------------------------------------------------
(* The AI worker *)

LEMMA AiFacts ==
    /\ IsFiniteSet(Images) /\ HashOf \in [Images -> Hashes] /\ Rank \in [Images -> Nat]
    /\ Kind \in [Hashes -> Kinds] /\ NoImage \notin Images
    /\ DESC_FAIL_CAP \in Nat /\ DESC_FAIL_CAP > 0
    /\ MinCycles \in Nat /\ MaxAiOutages \in Nat /\ MaxAborts \in Nat
  BY AiPipelineAssumption

\* One of several images has the least created_at ...
LEMMA EarliestFacts ==
    ASSUME NEW S, S \subseteq Images, S # {}
    PROVE  Earliest(S) \in S
  <1> DEFINE R == {Rank[i] : i \in S}
  <1>1. R \subseteq Nat /\ R # {}
    BY AiFacts
  <1>2. PICK r \in R : \A q \in R : ~(<<q, r>> \in OpToRel(<, Nat))
    <2> HIDE DEF R
    <2>. QED  BY <1>1, WFMin, NatLessThanWellFounded
  <1>3. \A q \in R : ~(q < r)
    BY <1>1, <1>2 DEF OpToRel
  <1>4. PICK i \in S : Rank[i] = r
    OBVIOUS
  <1>5. ASSUME NEW j \in S PROVE Rank[i] =< Rank[j]
    <2>1. Rank[j] \in R /\ Rank[j] \in Nat /\ Rank[i] \in Nat
      BY AiFacts
    <2>. QED  BY <1>3, <1>4, <2>1
  <1>. QED  BY <1>5 DEF Earliest

\* ... and, as there are finitely many, one the greatest: a smallest set without one
\* would have an image whose removal leaves another.
LEMMA LatestFacts ==
    ASSUME NEW S, S \subseteq Images, S # {}
    PROVE  Latest(S) \in S
  <1> DEFINE Greatest(T, i) == i \in T /\ \A j \in T : Rank[j] =< Rank[i]
             Bad == {T \in SUBSET Images : T # {} /\ ~\E i \in T : Greatest(T, i)}
  <1>1. Bad = {}
    <2> SUFFICES ASSUME Bad # {} PROVE FALSE
      OBVIOUS
    <2>1. IsWellFoundedOn(StrictSubsetOrdering(Images), SUBSET Images)
      BY AiFacts, FS_StrictSubsetOrderingWellFounded, FS_FiniteSubsetsOfFinite
    <2>2. PICK T \in Bad : \A U \in Bad : ~(<<U, T>> \in StrictSubsetOrdering(Images))
      <3>1. Bad \subseteq SUBSET Images
        OBVIOUS
      <3> HIDE DEF Bad
      <3>. QED  BY <2>1, <3>1, WFMin
    <2>3. T \subseteq Images /\ T # {} /\ ~\E i \in T : Greatest(T, i)
      OBVIOUS
    <2>4. PICK x \in T : TRUE
      BY <2>3
    <2>5. T \ {x} \notin Bad
      <3>1. <<T \ {x}, T>> \in StrictSubsetOrdering(Images)
        BY <2>3, <2>4 DEF StrictSubsetOrdering
      <3>. QED  BY <2>2, <3>1
    <2>6. \A i \in T : Rank[i] \in Nat
      BY <2>3, AiFacts
    <2>7. CASE T \ {x} = {}
      <3>1. \A j \in T : j = x
        BY <2>7
      <3>. QED  BY <2>3, <2>4, <2>6, <3>1
    <2>8. CASE T \ {x} # {}
      <3>1. PICK m \in T \ {x} : \A j \in T \ {x} : Rank[j] =< Rank[m]
        BY <2>3, <2>5, <2>8
      <3>2. CASE Rank[m] =< Rank[x]
        <4>1. ASSUME NEW j \in T PROVE Rank[j] =< Rank[x]
          BY <2>4, <2>6, <3>1, <3>2
        <4>. QED  BY <2>3, <2>4, <4>1
      <3>3. CASE ~(Rank[m] =< Rank[x])
        <4>1. ASSUME NEW j \in T PROVE Rank[j] =< Rank[m]
          BY <2>4, <2>6, <3>1, <3>3
        <4>. QED  BY <2>3, <3>1, <4>1
      <3>. QED  BY <3>2, <3>3
    <2>. QED  BY <2>7, <2>8
  <1>2. \E i \in S : \A j \in S : Rank[j] =< Rank[i]
    BY <1>1
  <1>. QED  BY <1>2 DEF Latest

\* A hash has work exactly while an image stands for it, and that image has the hash.
TasksOK(tasks) ==
    /\ tasks \in [Hashes -> AiTask]
    /\ \A h \in Hashes :
          \/ tasks[h].image = NoImage /\ tasks[h].work = {}
          \/ tasks[h].image \in Images /\ HashOf[tasks[h].image] = h /\ tasks[h].work # {}

LEMMA CollectEmbeddingsFacts == TasksOK(CollectEmbeddings)
  <1> DEFINE due == Oldest({j \in Images : embedding[j] = "null"}, BatchLimit)
             Of(h) == {i \in due : HashOf[i] = h}
  <1>1. due \subseteq Images
    BY DEF Oldest
  <1>2. CollectEmbeddings = [h \in Hashes |-> IF \E i \in due : HashOf[i] = h
                                THEN [image |-> Latest(Of(h)), work |-> {"embedding"}]
                                ELSE NoAiTask]
    BY DEF CollectEmbeddings
  <1> HIDE DEF due
  <1>3. ASSUME NEW h \in Hashes, \E i \in due : HashOf[i] = h
        PROVE  Latest(Of(h)) \in Images /\ HashOf[Latest(Of(h))] = h
    <2>1. Of(h) \subseteq Images /\ Of(h) # {}
      BY <1>1, <1>3
    <2>2. Latest(Of(h)) \in Of(h)
      BY <2>1, LatestFacts
    <2>. QED  BY <1>1, <2>2
  <1> HIDE DEF Of
  <1>4. ASSUME NEW h \in Hashes
        PROVE  /\ CollectEmbeddings[h] \in AiTask
               /\ \/ CollectEmbeddings[h].image = NoImage /\ CollectEmbeddings[h].work = {}
                  \/ /\ CollectEmbeddings[h].image \in Images
                     /\ HashOf[CollectEmbeddings[h].image] = h /\ CollectEmbeddings[h].work # {}
    <2>1. CASE \E i \in due : HashOf[i] = h
      <3>1. CollectEmbeddings[h] = [image |-> Latest(Of(h)), work |-> {"embedding"}]
        BY <1>2, <2>1
      <3>. QED  BY <1>3, <2>1, <3>1 DEF AiTask, Stages
    <2>2. CASE ~\E i \in due : HashOf[i] = h
      <3>1. CollectEmbeddings[h] = NoAiTask
        BY <1>2, <2>2
      <3>. QED  BY <3>1 DEF NoAiTask, AiTask, Stages
    <2>. QED  BY <2>1, <2>2
  <1>5. CollectEmbeddings \in [Hashes -> AiTask]
    BY <1>2, <1>4
  <1>. QED  BY <1>4, <1>5 DEF TasksOK

LEMMA CollectFacts ==
    ASSUME NEW tasks, TasksOK(tasks), NEW due \in SUBSET Images, NEW stage \in Stages
    PROVE  TasksOK(Collect(tasks, due, stage))
  <1> DEFINE all    == Oldest(due, BatchLimit - Cardinality(Taken(tasks)))
             hit    == {HashOf[i] : i \in all}
             Of(h)  == {i \in all : HashOf[i] = h}
             result == Collect(tasks, due, stage)
  <1>1. all \subseteq Images
    BY DEF Oldest
  <1>2. result = [h \in Hashes |->
            CASE h \notin hit -> tasks[h]
              [] h \in hit \cap Taken(tasks) -> [tasks[h] EXCEPT !.work = @ \cup {stage}]
              [] OTHER -> [image |-> Earliest(Of(h)), work |-> {stage}]]
    BY DEF Collect
  <1> HIDE DEF result
  <1>3. ASSUME NEW h \in Hashes
        PROVE  /\ result[h] \in AiTask
               /\ \/ result[h].image = NoImage /\ result[h].work = {}
                  \/ result[h].image \in Images /\ HashOf[result[h].image] = h /\ result[h].work # {}
    <2>0. tasks[h] \in AiTask
      BY DEF TasksOK
    <2>1. CASE h \notin hit
      <3>1. result[h] = tasks[h]
        BY <1>2, <2>1
      <3>. QED  BY <3>1 DEF TasksOK
    <2>2. CASE h \in hit \cap Taken(tasks)
      <3> DEFINE t == [tasks[h] EXCEPT !.work = @ \cup {stage}]
      <3>1. result[h] = t
        BY <1>2, <2>2
      <3>2. tasks[h].image \in Images /\ HashOf[tasks[h].image] = h
        BY <2>2 DEF TasksOK, Taken
      <3>3. t \in AiTask /\ t.image = tasks[h].image /\ t.work = tasks[h].work \cup {stage}
        BY <2>0 DEF AiTask
      <3> HIDE DEF t
      <3>. QED  BY <3>1, <3>2, <3>3
    <2>3. CASE h \in hit /\ h \notin Taken(tasks)
      <3>1. result[h] = [image |-> Earliest(Of(h)), work |-> {stage}]
        BY <1>2, <2>3
      <3>2. Of(h) \subseteq Images /\ Of(h) # {}
        BY <1>1, <2>3
      <3>3. Earliest(Of(h)) \in Of(h)
        BY <3>2, EarliestFacts
      <3>4. Earliest(Of(h)) \in Images /\ HashOf[Earliest(Of(h))] = h
        BY <1>1, <3>3
      <3>. QED  BY <3>1, <3>4 DEF AiTask
    <2>. QED  BY <2>1, <2>2, <2>3
  <1>4. result \in [Hashes -> AiTask]
    BY <1>2, <1>3
  <1>5. TasksOK(result)
    BY <1>3, <1>4 DEF TasksOK
  <1>. QED  BY <1>5 DEF result

\* Besides the types: no attempt is ever counted, tasks and images match, and only a
\* picture that cannot be described is parked.
AiInv ==
    /\ AiTypeOK /\ TasksOK(aiTasks)
    /\ \A i \in Images : attempts[i] = 0
    /\ OnlyBadSkipped

LEMMA NoAiTaskFacts == NoAiTask \in AiTask /\ NoAiTask.image = NoImage /\ NoAiTask.work = {}
  BY DEF NoAiTask, AiTask

LEMMA AiInvInit == AiInit => AiInv
  <1> SUFFICES ASSUME AiInit PROVE AiInv
    OBVIOUS
  <1>1. TasksOK(aiTasks)
    BY NoAiTaskFacts DEF AiInit, TasksOK
  <1>2. \A i \in Images : attempts[i] = 0
    BY DEF AiInit
  <1>3. AiTypeOK
    BY <1>1, AiFacts DEF AiInit, AiTypeOK, TasksOK
  <1>4. OnlyBadSkipped
    BY DEF AiInit, OnlyBadSkipped
  <1>. QED  BY <1>1, <1>2, <1>3, <1>4 DEF AiInv

LEMMA WithoutStageFacts ==
    ASSUME NEW t \in AiTask, NEW stage \in t.work
    PROVE  /\ WithoutStage(t, stage) \in AiTask
           /\ WithoutStage(t, stage).work = t.work \ {stage}
           /\ \/ WithoutStage(t, stage).image = NoImage /\ WithoutStage(t, stage).work = {}
              \/ WithoutStage(t, stage).image = t.image /\ WithoutStage(t, stage).work # {}
  <1>1. CASE t.work = {stage}
    BY <1>1, NoAiTaskFacts DEF WithoutStage
  <1>2. CASE t.work # {stage}
    <2> DEFINE q == [t EXCEPT !.work = t.work \ {stage}]
    <2>1. q \in AiTask /\ q.image = t.image /\ q.work = t.work \ {stage}
      BY DEF AiTask
    <2>2. WithoutStage(t, stage) = q
      BY <1>2 DEF WithoutStage
    <2> HIDE DEF q
    <2>. QED  BY <1>2, <2>1, <2>2
  <1>. QED  BY <1>1, <1>2

\* A stage that is at work has an image, which has the hash; when it is over, the task
\* has the stages that follow.
LEMMA StageFacts ==
    ASSUME AiInv, NEW h \in Hashes, NEW stage \in Stages, At(h, stage)
    PROVE  /\ aiTasks[h].image \in Images /\ HashOf[aiTasks[h].image] = h
           /\ StageOver(h, stage) =>
                /\ TasksOK(aiTasks')
                /\ \A g \in Hashes : /\ aiTasks'[g].work \subseteq aiTasks[g].work
                                     /\ aiTasks[g].work \ {stage} \subseteq aiTasks'[g].work
                                     /\ g # h => aiTasks'[g] = aiTasks[g]
  <1>0. TasksOK(aiTasks)
    BY DEF AiInv
  <1>1. stage \in aiTasks[h].work
    BY DEF At
  <1>2. aiTasks[h].image \in Images /\ HashOf[aiTasks[h].image] = h /\ aiTasks[h] \in AiTask
    BY <1>0, <1>1 DEF TasksOK
  <1>3. ASSUME StageOver(h, stage)
        PROVE  /\ TasksOK(aiTasks')
               /\ \A g \in Hashes : /\ aiTasks'[g].work \subseteq aiTasks[g].work
                                    /\ aiTasks[g].work \ {stage} \subseteq aiTasks'[g].work
                                    /\ g # h => aiTasks'[g] = aiTasks[g]
    <2>1. PICK t \in AiTask : /\ aiTasks' = [aiTasks EXCEPT ![h] = t]
                              /\ t.work = aiTasks[h].work \ {stage}
                              /\ \/ t.image = NoImage /\ t.work = {}
                                 \/ t.image = aiTasks[h].image /\ t.work # {}
      <3>1. PICK q \in AiTask : q = aiTasks[h]
        BY <1>2
      <3>2. aiTasks' = [aiTasks EXCEPT ![h] = WithoutStage(q, stage)]
        BY <1>3, <3>1 DEF StageOver
      <3>. QED  BY <1>1, <3>1, <3>2, WithoutStageFacts, ZenonT(60)
    <2>2. aiTasks'[h] = t /\ \A g \in Hashes \ {h} : aiTasks'[g] = aiTasks[g]
      BY <1>0, <2>1 DEF TasksOK
    <2>3. TasksOK(aiTasks')
      <3>1. aiTasks' \in [Hashes -> AiTask]
        BY <1>0, <2>1 DEF TasksOK
      <3>2. ASSUME NEW g \in Hashes
            PROVE  \/ aiTasks'[g].image = NoImage /\ aiTasks'[g].work = {}
                   \/ /\ aiTasks'[g].image \in Images /\ HashOf[aiTasks'[g].image] = g
                      /\ aiTasks'[g].work # {}
        <4>1. CASE g = h
          BY <1>2, <2>1, <2>2, <4>1
        <4>2. CASE g # h
          <5>1. aiTasks'[g] = aiTasks[g]
            BY <2>2, <4>2
          <5>. QED  BY <1>0, <5>1 DEF TasksOK
        <4>. QED  BY <4>1, <4>2
      <3>. QED  BY <3>1, <3>2 DEF TasksOK
    <2>4. ASSUME NEW g \in Hashes
          PROVE  /\ aiTasks'[g].work \subseteq aiTasks[g].work
                 /\ aiTasks[g].work \ {stage} \subseteq aiTasks'[g].work
                 /\ g # h => aiTasks'[g] = aiTasks[g]
      <3>1. CASE g = h
        BY <2>1, <2>2, <3>1
      <3>2. CASE g # h
        <4>1. aiTasks'[g] = aiTasks[g]
          BY <2>2, <3>2
        <4>. QED  BY <4>1
      <3>. QED  BY <3>1, <3>2
    <2>. QED  BY <2>3, <2>4
  <1>. QED  BY <1>2, <1>3

\* A new cycle: the sweep parks nothing, as no attempt is counted.
LEMMA StartCycleStep ==
    ASSUME AiInv, NEW sweep \in BOOLEAN, NEW skip \in BOOLEAN, StartCycle(sweep, skip)
    PROVE  AiInv'
  <1>0. /\ description \in [Images -> {"null", "processing", "skipped", "text"}]
        /\ attempts \in [Images -> 0 .. DESC_FAIL_CAP] /\ \A i \in Images : attempts[i] = 0
        /\ oldMark \subseteq {i \in Images : description[i] = "processing"}
        /\ embedding \in [Images -> {"null", "done", "failed"}]
        /\ facesDone \subseteq Images /\ qualityDone \subseteq Images
        /\ calling \subseteq {h \in Hashes : "description" \in aiTasks[h].work}
        /\ serviceUp \in BOOLEAN /\ TasksOK(aiTasks) /\ OnlyBadSkipped
    BY Zenon DEF AiInv, AiTypeOK
  <1>1. UNCHANGED <<attempts, embedding, facesDone, qualityDone, calling, serviceUp, aiOutages, aborts>>
    BY DEF StartCycle
  <1>2. calling = {}
    <2>1. \A h \in Hashes : aiTasks[h].work = {}
      BY <1>0, AiFacts DEF StartCycle, Taken, TasksOK
    <2>. QED  BY <1>0, <2>1
  <1>3. cycles' \in 0 .. MinCycles /\ aiOutages' \in 0 .. MaxAiOutages /\ aborts' \in 0 .. MaxAborts
    <2>1. cycles \in 0 .. MinCycles /\ aiOutages \in 0 .. MaxAiOutages /\ aborts \in 0 .. MaxAborts
      BY Zenon DEF AiInv, AiTypeOK
    <2>2. cycles' = cycles \/ (cycles < MinCycles /\ cycles' = cycles + 1)
      BY DEF StartCycle
    <2>. QED  BY <1>1, <2>1, <2>2, AiFacts
  <1>4. /\ description' \in [Images -> {"null", "processing", "skipped", "text"}]
        /\ \A i \in Images : description'[i] = description[i] \/ description'[i] = "null"
        /\ oldMark' \subseteq {i \in Images : description'[i] = "processing"}
    <2>1. CASE sweep
      <3>1. description' = Unparked /\ oldMark' = {}
        BY <2>1 DEF StartCycle
      <3>2. \A i \in Images : ~(attempts[i] >= DESC_FAIL_CAP)
        BY <1>0, AiFacts
      <3>3. ASSUME NEW i \in Images PROVE Unparked[i] = description[i] \/ Unparked[i] = "null"
        BY <3>2 DEF Unparked
      <3>4. Unparked \in [Images -> {"null", "processing", "skipped", "text"}]
        BY <1>0, <3>3 DEF Unparked
      <3>. QED  BY <3>1, <3>3, <3>4
    <2>2. CASE ~sweep
      <3>1. description' = description /\ oldMark' = oldMark
        BY <2>2 DEF StartCycle
      <3>. QED  BY <1>0, <3>1
    <2>. QED  BY <2>1, <2>2
  <1>5. TasksOK(aiTasks')
    <2>1. CASE skip
      <3>1. aiTasks' = aiTasks
        BY <2>1 DEF StartCycle
      <3>. QED  BY <1>0, <3>1
    <2>2. CASE ~skip
      <3> DEFINE D1 == Images \ facesDone
                 D2 == {i \in Images : description'[i] = "null"}
                 D3 == {i \in Images : embedding[i] = "done"} \ qualityDone
      <3>1. PICK d1 \in SUBSET Images, d2 \in SUBSET Images, d3 \in SUBSET Images :
               d1 = D1 /\ d2 = D2 /\ d3 = D3
        OBVIOUS
      <3>2. PICK t1 : t1 = CollectEmbeddings /\
               \E t2 \in {Collect(t1, D1, "faces")} :
               \E t3 \in {Collect(t2, D2, "description")} : aiTasks' = Collect(t3, D3, "quality")
        BY <2>2 DEF StartCycle, CollectTasks
      <3> HIDE DEF D1, D2, D3
      <3>3. aiTasks' = Collect(Collect(Collect(t1, d1, "faces"), d2, "description"), d3, "quality")
        BY <3>1, <3>2
      <3>4. PICK t2 : t2 = Collect(t1, d1, "faces")
        OBVIOUS
      <3>5. PICK t3 : t3 = Collect(t2, d2, "description")
        OBVIOUS
      <3>6. TasksOK(t1)
        BY <3>2, CollectEmbeddingsFacts
      <3>7. TasksOK(t2)
        BY <3>4, <3>6, CollectFacts DEF Stages
      <3>8. TasksOK(t3)
        BY <3>5, <3>7, CollectFacts DEF Stages
      <3>9. TasksOK(Collect(t3, d3, "quality"))
        BY <3>8, CollectFacts DEF Stages
      <3>. QED  BY <3>3, <3>4, <3>5, <3>9
    <2>. QED  BY <2>1, <2>2
  <1>6. OnlyBadSkipped'
    BY <1>0, <1>4 DEF OnlyBadSkipped
  <1>7. AiTypeOK'
    BY <1>0, <1>1, <1>2, <1>3, <1>4, <1>5 DEF AiTypeOK, TasksOK
  <1>8. TasksOK(aiTasks)'
    BY <1>5 DEF TasksOK
  <1>. QED  BY <1>0, <1>1, <1>6, <1>7, <1>8 DEF AiInv

\* What a stage's step leaves to show: the types of what it writes, and what it parks.
LEMMA TaskSteps ==
    ASSUME AiInv, NEW h \in Hashes, TaskStep(h)
    PROVE  AiInv'
  <1>0. /\ description \in [Images -> {"null", "processing", "skipped", "text"}]
        /\ attempts \in [Images -> 0 .. DESC_FAIL_CAP] /\ \A i \in Images : attempts[i] = 0
        /\ oldMark \subseteq {i \in Images : description[i] = "processing"}
        /\ embedding \in [Images -> {"null", "done", "failed"}]
        /\ facesDone \subseteq Images /\ qualityDone \subseteq Images
        /\ calling \subseteq {g \in Hashes : "description" \in aiTasks[g].work}
        /\ serviceUp \in BOOLEAN /\ TasksOK(aiTasks) /\ OnlyBadSkipped
    BY Zenon DEF AiInv, AiTypeOK
  <1>a. cycles \in 0 .. MinCycles /\ aiOutages \in 0 .. MaxAiOutages /\ aborts \in 0 .. MaxAborts
    BY Zenon DEF AiInv, AiTypeOK
  <1>b. /\ "description" \in Stages /\ "embedding" \in Stages /\ "faces" \in Stages
        /\ "quality" \in Stages
    BY DEF Stages
  <1>c. TasksOK(aiTasks') => aiTasks' \in [Hashes -> AiTask] /\ TasksOK(aiTasks)'
    BY DEF TasksOK
  <1>d. ASSUME NEW stage \in Stages, At(h, stage), StageOver(h, stage),
               calling' \subseteq IF stage = "description" THEN calling \ {h} ELSE calling
        PROVE  /\ TasksOK(aiTasks')
               /\ calling' \subseteq {g \in Hashes : "description" \in aiTasks'[g].work}
    <2>1. /\ TasksOK(aiTasks')
          /\ \A g \in Hashes : /\ aiTasks[g].work \ {stage} \subseteq aiTasks'[g].work
                               /\ g # h => aiTasks'[g] = aiTasks[g]
      BY <1>d, StageFacts
    <2>2. ASSUME NEW g \in calling' PROVE g \in Hashes /\ "description" \in aiTasks'[g].work
      <3>1. g \in calling /\ g \in Hashes /\ "description" \in aiTasks[g].work
        BY <1>0, <1>d
      <3>2. CASE stage = "description"
        <4>1. aiTasks'[g] = aiTasks[g]
          BY <1>d, <2>1, <3>1, <3>2
        <4>. QED  BY <3>1, <4>1
      <3>3. CASE stage # "description"
        BY <2>1, <3>1, <3>3
      <3>. QED  BY <3>2, <3>3
    <2>. QED  BY <2>1, <2>2
  <1>1. CASE MarkDescription(h)
    <2>1. /\ At(h, "description") /\ SetDescription(h, "processing")
          /\ oldMark' = oldMark \ {aiTasks[h].image} /\ calling' = calling \cup {h}
          /\ UNCHANGED <<attempts, embedding, facesDone, qualityDone, aiTasks, serviceUp, cycles,
                         aiOutages, aborts>>
      BY <1>1 DEF MarkDescription
    <2>2. PICK i \in Images : i = aiTasks[h].image
      BY <1>b, <2>1, StageFacts
    <2>3. description' = [description EXCEPT ![i] = "processing"]
      BY <2>1, <2>2 DEF SetDescription
    <2>4. AiTypeOK'
      BY <1>0, <1>a, <2>1, <2>2, <2>3 DEF AiTypeOK, TasksOK, At
    <2>5. OnlyBadSkipped'
      BY <1>0, <2>3 DEF OnlyBadSkipped
    <2>6. TasksOK(aiTasks)' /\ \A j \in Images : attempts'[j] = 0
      BY <1>0, <2>1 DEF TasksOK
    <2>. QED  BY <2>4, <2>5, <2>6 DEF AiInv
  <1>2. ASSUME NEW d \in {"text", "skipped"}, DescribeEnds(h, d), d = "skipped" => Kind[h] # "good"
        PROVE  AiInv'
    <2>1. /\ At(h, "description") /\ SetDescription(h, d)
          /\ oldMark' = oldMark \ {aiTasks[h].image} /\ calling' = calling \ {h}
          /\ attempts' = [attempts EXCEPT ![aiTasks[h].image] = 0]
          /\ aiTasks' = [aiTasks EXCEPT ![h] = NoAiTask] \/ StageOver(h, "description")
          /\ UNCHANGED <<embedding, facesDone, qualityDone, serviceUp, cycles, aiOutages, aborts>>
      BY <1>2 DEF DescribeEnds
    <2>2. PICK i \in Images : i = aiTasks[h].image /\ HashOf[i] = h
      BY <1>b, <2>1, StageFacts
    <2>3. description' = [description EXCEPT ![i] = d]
      BY <2>1, <2>2 DEF SetDescription
    <2>4. TasksOK(aiTasks') /\ calling' \subseteq {g \in Hashes : "description" \in aiTasks'[g].work}
      <3>1. CASE StageOver(h, "description")
        BY <1>b, <1>d, <2>1, <3>1
      <3>2. CASE aiTasks' = [aiTasks EXCEPT ![h] = NoAiTask]
        <4>1. aiTasks'[h] = NoAiTask /\ \A g \in Hashes \ {h} : aiTasks'[g] = aiTasks[g]
          BY <1>0, <3>2 DEF TasksOK
        <4>2. aiTasks' \in [Hashes -> AiTask]
          BY <1>0, <3>2, NoAiTaskFacts DEF TasksOK
        <4>3. TasksOK(aiTasks')
          BY <1>0, <4>1, <4>2, NoAiTaskFacts DEF TasksOK
        <4>. QED  BY <1>0, <2>1, <4>1, <4>3
      <3>. QED  BY <2>1, <3>1, <3>2
    <2>5. attempts' \in [Images -> 0 .. DESC_FAIL_CAP] /\ \A j \in Images : attempts'[j] = 0
      BY <1>0, <2>1, AiFacts
    <2>6. /\ description' \in [Images -> {"null", "processing", "skipped", "text"}]
          /\ oldMark' \subseteq {j \in Images : description'[j] = "processing"}
      BY <1>0, <2>1, <2>2, <2>3
    <2>7. AiTypeOK'
      BY <1>0, <1>a, <1>c, <2>1, <2>4, <2>5, <2>6 DEF AiTypeOK
    <2>8. OnlyBadSkipped'
      BY <1>0, <1>2, <2>2, <2>3 DEF OnlyBadSkipped
    <2>. QED  BY <1>c, <2>4, <2>5, <2>7, <2>8 DEF AiInv
  <1>3. CASE Described(h)
    <2>1. \/ Kind[h] = "good" /\ DescribeEnds(h, "text")
          \/ Kind[h] \in {"empty", "refused"} /\ DescribeEnds(h, "skipped")
      BY <1>3 DEF Described
    <2>. QED  BY <1>2, <2>1
  <1>4. ASSUME NEW stage \in Stages, At(h, stage), StageOver(h, stage),
               UNCHANGED <<description, attempts, oldMark, serviceUp, cycles, aiOutages, aborts>>,
               calling' \subseteq IF stage = "description" THEN calling \ {h} ELSE calling,
               embedding' \in [Images -> {"null", "done", "failed"}],
               facesDone' \subseteq Images, qualityDone' \subseteq Images
        PROVE  AiInv'
    <2>1. /\ TasksOK(aiTasks')
          /\ calling' \subseteq {g \in Hashes : "description" \in aiTasks'[g].work}
      BY <1>4, <1>d
    <2>2. AiTypeOK'
      BY <1>0, <1>4, <1>a, <1>c, <2>1 DEF AiTypeOK
    <2>3. OnlyBadSkipped'
      BY <1>0, <1>4 DEF OnlyBadSkipped
    <2>. QED  BY <1>0, <1>4, <1>c, <2>1, <2>2, <2>3 DEF AiInv
  <1>5. CASE DescribeFails(h)
    BY <1>0, <1>4, <1>5, <1>b DEF DescribeFails, AfterFailure
  <1>6. CASE EmbedStage(h)
    <2>1. At(h, "embedding") /\ StageOver(h, "embedding")
          /\ UNCHANGED <<description, attempts, oldMark, facesDone, qualityDone, calling, serviceUp,
                         cycles, aiOutages, aborts>>
      BY <1>6 DEF EmbedStage
    <2>2. embedding' \in [Images -> {"null", "done", "failed"}]
      <3>1. PICK i \in Images : i = aiTasks[h].image
        BY <1>b, <2>1, StageFacts
      <3> DEFINE e == CASE serviceUp /\ Kind[h] = "refused" -> "failed"
                        [] serviceUp /\ Kind[h] \in {"good", "empty", "poison"} -> "done"
                        [] OTHER -> embedding[i]
      <3>2. embedding' = [embedding EXCEPT ![i] = e]
        BY <1>6, <3>1 DEF EmbedStage
      <3>3. e \in {"null", "done", "failed"}
        BY <1>0
      <3>. QED  BY <1>0, <3>2, <3>3
    <2>. QED  BY <1>0, <1>4, <1>b, <2>1, <2>2
  <1>7. CASE FaceStage(h)
    <2>1. At(h, "faces") /\ StageOver(h, "faces")
          /\ UNCHANGED <<description, attempts, oldMark, embedding, qualityDone, calling, serviceUp,
                         cycles, aiOutages, aborts>>
      BY <1>7 DEF FaceStage
    <2>2. facesDone' \subseteq Images
      BY <1>0, <1>7, <1>b, <2>1, StageFacts DEF FaceStage
    <2>. QED  BY <1>0, <1>4, <1>b, <2>1, <2>2
  <1>8. CASE QualityStage(h)
    <2>1. At(h, "quality") /\ StageOver(h, "quality")
          /\ UNCHANGED <<description, attempts, oldMark, embedding, facesDone, calling, serviceUp,
                         cycles, aiOutages, aborts>>
      BY <1>8 DEF QualityStage
    <2>2. qualityDone' \subseteq Images
      BY <1>0, <1>8, <1>b, <2>1, StageFacts DEF QualityStage
    <2>. QED  BY <1>0, <1>4, <1>b, <2>1, <2>2
  <1>. QED  BY <1>1, <1>3, <1>5, <1>6, <1>7, <1>8 DEF TaskStep

LEMMA AiInvStep == AiInv /\ [AiNext]_aiVars => AiInv'
  <1> SUFFICES ASSUME AiInv, [AiNext]_aiVars PROVE AiInv'
    OBVIOUS
  <1>0. /\ cycles \in 0 .. MinCycles /\ aiOutages \in 0 .. MaxAiOutages /\ aborts \in 0 .. MaxAborts
    BY Zenon DEF AiInv, AiTypeOK
  <1>1. CASE MarkersAge
    <2>1. cycles' \in 0 .. MinCycles
      BY <1>1, AiFacts DEF MarkersAge
    <2>. QED  BY <1>1, <2>1 DEF MarkersAge, AiInv, AiTypeOK, OnlyBadSkipped, TasksOK
  <1>2. CASE ServiceDown
    <2>1. aiOutages' \in 0 .. MaxAiOutages
      BY <1>0, <1>2, AiFacts DEF ServiceDown
    <2>. QED  BY <1>2, <2>1 DEF ServiceDown, AiInv, AiTypeOK, OnlyBadSkipped, TasksOK
  <1>3. CASE ServiceBack
    BY <1>3 DEF ServiceBack, AiInv, AiTypeOK, OnlyBadSkipped, TasksOK
  <1>4. CASE AbortServer
    <2>1. aborts' \in 0 .. MaxAborts
      BY <1>0, <1>4, AiFacts DEF AbortServer
    <2>2. aiTasks' = [h \in Hashes |-> NoAiTask] /\ calling' = {}
      BY <1>4 DEF AbortServer
    <2>3. TasksOK(aiTasks)' /\ aiTasks' \in [Hashes -> AiTask]
      BY <2>2, NoAiTaskFacts DEF TasksOK
    <2>. QED  BY <1>4, <2>1, <2>2, <2>3 DEF AbortServer, AiInv, AiTypeOK, OnlyBadSkipped
  <1>5. CASE UNCHANGED aiVars
    BY <1>5 DEF aiVars, AiInv, AiTypeOK, OnlyBadSkipped, TasksOK
  <1>. QED  BY <1>1, <1>2, <1>3, <1>4, <1>5, StartCycleStep, TaskSteps DEF AiNext

\* The state of the AI worker is well typed: what is being described has a task that says
\* so, and an old marker is one that is still there.
THEOREM AiTypeCorrect == AiSpec => []AiTypeOK
  <1>1. AiInv => AiTypeOK
    BY DEF AiInv
  <1>. QED  BY <1>1, AiInvInit, AiInvStep, PTL DEF AiSpec

\* No outage, crash or batch parks a picture that could be described, whichever owner's row
\* its task stands for.
THEOREM GoodNeverParked == AiSpec => []OnlyBadSkipped
  <1>1. AiInv => OnlyBadSkipped
    BY DEF AiInv
  <1>. QED  BY <1>1, AiInvInit, AiInvStep, PTL DEF AiSpec

-----------------------------------------------------------------------------
(* The two workers side by side *)

LEMMA LibrarySteps ==
    ASSUME [LibraryNext]_allVars
    PROVE  [MediaNext]_mediaVars /\ [AiNext]_aiVars
  BY DEF LibraryNext, InMedia, InAi, allVars

\* The rows, what the writers of a row keep, and the AI worker's cycle are of their types
\* throughout; in particular a file comes once in the order of the verifications.
THEOREM LibraryTypeCorrect == LibrarySpec => []LibraryTypeOK
  <1> DEFINE Inv == ThumbInv /\ RestTyped /\ AiInv
  <1>1. LibraryInit => Inv
    BY ThumbInit, RestInit, AiInvInit DEF LibraryInit
  <1>2. Inv /\ [LibraryNext]_allVars => Inv'
    BY LibrarySteps, ThumbStep, RestStep, AiInvStep
  <1>3. Inv => LibraryTypeOK
    BY MediaTyped DEF ThumbInv, AiInv, LibraryTypeOK
  <1> HIDE DEF Inv
  <1>. QED  BY <1>1, <1>2, <1>3, PTL DEF LibrarySpec

\* Side by side, the rows' thumbnails are current, only pictures that cannot be
\* processed are parked, and an orientation is changed by a user alone.
THEOREM LibrarySafe ==
    LibrarySpec => [](ThumbnailCurrent /\ OnlyBadSkipped) /\ OrientationKept
  <1> DEFINE Inv == ThumbInv /\ AiInv
  <1>1. LibraryInit => Inv
    BY ThumbInit, AiInvInit DEF LibraryInit
  <1>2. Inv /\ [LibraryNext]_allVars => Inv'
    BY LibrarySteps, ThumbStep, AiInvStep
  <1>3. Inv => ThumbnailCurrent /\ OnlyBadSkipped
    BY DEF ThumbInv, FileInv, ThumbnailCurrent, AiInv
  <1>4. Inv /\ [LibraryNext]_allVars
        => [\A f \in Files :
              (/\ row[f].there /\ row[f].orientation # NoOrientation
               /\ row'[f].orientation # row[f].orientation)
              => WriteRotation(f) \/ RotateWithoutFile(f)]_mediaVars
    BY LibrarySteps, KeptStep DEF ThumbInv, RowTyped
  <1> HIDE DEF Inv
  <1>. QED  BY <1>1, <1>2, <1>3, <1>4, PTL DEF LibrarySpec, OrientationKept

=============================================================================
