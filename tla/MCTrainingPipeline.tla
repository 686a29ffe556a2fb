------------------------ MODULE MCTrainingPipeline ------------------------
(* The training pipeline for TLC: the jobs are model values. *)
EXTENDS TrainingPipeline, TLC

Symmetry == Permutations(Jobs)
=============================================================================
