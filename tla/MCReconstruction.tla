--------------------------- MODULE MCReconstruction ---------------------------
(***************************************************************************)
(* Every graph on four nodes, one of which is an entity cue that can never *)
(* be evidence, with every choice of evidence.                             *)
(***************************************************************************)
EXTENDS Reconstruction

MCNodes == 1..4

MCAnswerable == 1..3

MCTokens == <<1, 2, 1, 1>>

MCGraphs == SUBSET {e \in MCNodes \X MCNodes : e[1] < e[2]}

MCSelections == SUBSET MCAnswerable
=============================================================================
