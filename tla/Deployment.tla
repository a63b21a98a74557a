----------------------------- MODULE Deployment -----------------------------
(***************************************************************************)
(* What the Manager may rely on about one instance at the Agent, whatever  *)
(* actions the Agent serves, finishes, fails or dies in: the Compose file  *)
(* is rewritten under running containers, containers go away, and new ones *)
(* come up from the Compose file as it is, never beside those of another.  *)
(* InstanceRuntime implements this with the single steps of its handlers,  *)
(* GoLive with one step per action: what GoLive takes for the containers   *)
(* of an instance is what the handlers can leave.                          *)
(***************************************************************************)
CONSTANTS Release,   \* the Compose files that are rendered
          None       \* no Compose file

VARIABLES file,      \* the Compose file of the instance
          up,        \* how many of its services run: "none", "infra" or "all"
          of         \* the Compose files its containers were created from

deployment == <<file, up, of>>

NothingUp == up = "none" /\ of = {}

DeploymentInit ==
  /\ file \in Release \union {None}
  /\ NothingUp \/ (file # None /\ up = "all" /\ of = {file})

Rewrite == file' \in Release /\ UNCHANGED <<up, of>>

\* All containers go, or some stay.
TakeDown ==
  /\ UNCHANGED file
  /\ NothingUp' \/ (up # "none" /\ up' = "infra" /\ of' = of)

BringUp ==
  /\ file # None /\ UNCHANGED file
  /\ up' \in {"infra", "all"} /\ of' = {file}

DeploymentNext == Rewrite \/ TakeDown \/ BringUp

DeploymentSpec == DeploymentInit /\ [][DeploymentNext]_deployment
=============================================================================
