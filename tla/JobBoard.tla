------------------------------ MODULE JobBoard ------------------------------
(***************************************************************************)
(* What the Manager promises about a persistent job, whoever runs it: a    *)
(* job is recorded once, is started at most once, and the verdict it is    *)
(* closed with is the last thing its record ever says.                     *)
(* OperationJobs implements this board with request handlers, a thread     *)
(* pool, heartbeat threads and one JSON file per job.                      *)
(***************************************************************************)
EXTENDS Naturals

CONSTANT Jobs

VARIABLE board

\* ACTIVE_STATUSES and the two members of FINAL_STATUSES that are ever written.
Active == {"queued", "running"}
Closed == {"succeeded", "failed"}

BoardTypeOK == board \in [Jobs -> {"absent"} \union Active \union Closed]

BoardInit == board = [j \in Jobs |-> "absent"]

Enqueue(j) == board[j] = "absent" /\ board' = [board EXCEPT ![j] = "queued"]

Begin(j) == board[j] = "queued" /\ board' = [board EXCEPT ![j] = "running"]

\* A job may fail before it was ever marked running.
Finish(j) == /\ board[j] \in Active
             /\ \E v \in Closed :
                  /\ board[j] = "queued" => v = "failed"
                  /\ board' = [board EXCEPT ![j] = v]

BoardNext == \E j \in Jobs : Enqueue(j) \/ Begin(j) \/ Finish(j)

BoardSafety == BoardInit /\ [][BoardNext]_board

\* Nothing obliges a job to be submitted; once recorded it is started and closed.
BoardSpec == /\ BoardSafety
             /\ \A j \in Jobs : WF_board(Begin(j) \/ Finish(j))
=============================================================================
