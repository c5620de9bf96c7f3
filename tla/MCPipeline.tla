----------------------------- MODULE MCPipeline -----------------------------
(***************************************************************************)
(* Instance of Pipeline for TLC: two overlapping jobs over the stages between  *)
(* Gold and training, two releases after the first.                            *)
(***************************************************************************)
EXTENDS Pipeline, TLC

MCStages == <<"gold", "warehouse", "dbt", "features", "training">>

\* The first bootstrap; a revision that alters gold (0013, 0016); one that alters none (0011)
MCNeeds == <<SCHEMAS, {"gold"}, {}>>

MCOnce == {"gold"}

MCSymmetry == Permutations(Jobs)
=============================================================================
