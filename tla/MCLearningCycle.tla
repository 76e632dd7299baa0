--------------------------- MODULE MCLearningCycle ---------------------------
(* Small instances of the learning cycle for TLC. *)
EXTENDS LearningCycle

MCDocuments == [expert : BOOLEAN, merges : BOOLEAN]
=============================================================================
