----------------------------- MODULE Inventory -----------------------------
(***************************************************************************)
(* What the Agent promises about its installed artifacts, whatever files   *)
(* and steps it takes: an artifact is installed, replaced or removed in    *)
(* one step, which is allowed by the inventory as it is in that moment,    *)
(* and each such step has a generation of its own.                         *)
(* ArtifactStore implements this inventory with three stores that are      *)
(* written one after another, checks that are made some steps before they  *)
(* are needed, failures and crashes.                                       *)
(***************************************************************************)
EXTENDS Naturals

CONSTANTS Artifacts, Releases, Nothing,
          ArtifactOf, Needs, Accepts, Provides, Requires, Fixed

VARIABLES installed, generation

InventoryInit == installed = [a \in Artifacts |-> Nothing] /\ generation = 0

Present == {a \in Artifacts : installed[a] # Nothing}

\* What the artifacts of a set provide together.
Provided(present) == UNION {Provides[installed[a]] : a \in present}

\* A release may come in, also in the place of another of its artifact.
Install(r) ==
  /\ \A a \in Needs[r] : a \in Present /\ installed[a] \in Accepts[r]
  /\ Requires[r] \subseteq Provided(Present)
  /\ installed' = [installed EXCEPT ![ArtifactOf[r]] = r]
  /\ generation' = generation + 1

\* An artifact may go when nobody needs it, nor a capability that is only its.
Remove(a) ==
  /\ installed[a] # Nothing
  /\ installed[a] \notin Fixed
  /\ \A b \in Present \ {a} :
       /\ a \notin Needs[installed[b]]
       /\ Requires[installed[b]] \intersect Provides[installed[a]]
            \subseteq Provided(Present \ {a})
  /\ installed' = [installed EXCEPT ![a] = Nothing]
  /\ generation' = generation + 1

InventoryNext == (\E r \in Releases : Install(r)) \/ (\E a \in Artifacts : Remove(a))

InventorySpec == InventoryInit /\ [][InventoryNext]_<<installed, generation>>
=============================================================================
