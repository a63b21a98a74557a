--------------------------- MODULE MCCapsuleBuild ---------------------------
(* Two build jobs and a release that write one capsule file.  The second job *)
(* has lost its source directory: it is there to wait behind the first.      *)
EXTENDS CapsuleBuild

CONSTANTS job1, job2, release1, capsule

OneOutput == [b \in Builds |-> capsule]
Wishes ==
  [b \in Builds |-> CASE b = job1 -> {"build", "force", "rebuild"}
                      [] b = job2 -> {"build"}
                      [] b = release1 -> {"force"}]
=============================================================================
