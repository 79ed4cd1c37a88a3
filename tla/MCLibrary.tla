----------------------------- MODULE MCLibrary ------------------------------
(***************************************************************************)
(* Small instances for TLC of the workers that complete the rows of the    *)
(* library, MediaRow and AiPipeline: a behaviour is one of the two.        *)
(***************************************************************************)
EXTENDS MediaRow, AiPipeline, TLC

CONSTANTS f1, f2, i1, i2, i3, h1, h2

VARIABLE part

allVars == <<mediaVars, aiVars, part>>

\* One file with an Orientation tag and one without it.
MCExif == (f1 :> 6) @@ (f2 :> NoOrientation)

\* Two owners of one good picture, and an older picture that cannot be decoded.
MCHashOf == (i1 :> h1) @@ (i2 :> h2) @@ (i3 :> h2)

MCRank == (i1 :> 1) @@ (i2 :> 2) @@ (i3 :> 3)

MCKind == (h1 :> "broken") @@ (h2 :> "good")

LibraryInit ==
    /\ MediaInit /\ AiInit
    /\ part \in {"media", "ai"}
    /\ part = "ai" => \A f \in Files : ~row[f].there
    /\ part = "media" => row[f2].there /\ content[f2] = "good" /\ content[f1] = "none"

InMedia(A) == part = "media" /\ A /\ UNCHANGED <<aiVars, part>>

InAi(A) == part = "ai" /\ A /\ UNCHANGED <<mediaVars, part>>

LibraryNext == InMedia(MediaNext) \/ InAi(AiNext)

\* The fairness of each part's own specification, for the part that runs.
LibraryFairness ==
    /\ WF_allVars(InMedia(SelectBatch))
    /\ \A f \in Files : WF_allVars(InMedia(VerifyStep(f)))
    /\ WF_allVars(InAi(\E sweep \in BOOLEAN : StartCycle(sweep, FALSE)))
    /\ WF_allVars(InAi(MarkersAge))
    /\ \A h \in Hashes : WF_allVars(InAi(TaskStep(h)))
    /\ SF_allVars(InAi(\E skip \in BOOLEAN : StartCycle(TRUE, skip)))
    /\ SF_allVars(InAi(Described(h2)))

LibrarySpec == LibraryInit /\ [][LibraryNext]_allVars /\ LibraryFairness

\* The type invariants of both parts: of the rows (images) and of the AI worker's
\* cycle.
LibraryTypeOK == MediaTypeOK /\ AiTypeOK

\* Once the AI service stays up, every picture it can describe is described.
PicturesDescribed == part = "ai" => GoodDescribed

=============================================================================
