-------------------------- MODULE MCOperationJobs --------------------------
(* OperationJobs with jobs that are interchangeable.                       *)
EXTENDS OperationJobs, TLC

JobSymmetry == Permutations(Jobs)
=============================================================================
