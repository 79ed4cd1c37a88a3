------------------------------ MODULE MCPoison ------------------------------
(***************************************************************************)
(* AiPipeline for TLC: a picture on which the AI service always crashes,   *)
(* and a good one.                                                         *)
(***************************************************************************)
EXTENDS AiPipeline, TLC

CONSTANTS i1, i2, h1, h2

MCHashOf == (i1 :> h1) @@ (i2 :> h2)

MCRank == (i1 :> 1) @@ (i2 :> 2)

MCKind == (h1 :> "poison") @@ (h2 :> "good")

=============================================================================
