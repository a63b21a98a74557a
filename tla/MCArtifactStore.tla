-------------------------- MODULE MCArtifactStore --------------------------
(***************************************************************************)
(* A small inventory for ArtifactStore: the library ui and the product     *)
(* orgo, which needs it.                                                   *)
(*   ui1    ui, provides the widgets capability                            *)
(*   ui2    a later ui that has dropped it and that orgo1 does not accept  *)
(*   orgo1  orgo, needs a ui of the first kind, contributes a UI manifest  *)
(*   orgo2  a later orgo that takes widgets from whomever and contributes  *)
(*          a UI manifest                                                  *)
(*   forged orgo again, in a capsule the verifier rejects                  *)
(***************************************************************************)
EXTENDS ArtifactStore, TLC

CONSTANTS ui1, ui2, orgo1, orgo2, forged,   \* releases
          c1, c2, c3, c4                     \* capsule ids

MCReleases == {ui1, ui2, orgo1, orgo2, forged}
MCArtifactOf == [r \in MCReleases |-> IF r \in {ui1, ui2} THEN "ui" ELSE "orgo"]
MCGenuine == MCReleases \ {forged}
MCNeeds == [r \in MCReleases |-> IF r = orgo1 THEN {"ui"} ELSE {}]
MCAccepts == [r \in MCReleases |-> IF r = orgo1 THEN {ui1} ELSE {}]
MCProvides == [r \in MCReleases |-> IF r = ui1 THEN {"widgets"} ELSE {}]
MCRequires == [r \in MCReleases |-> IF r = orgo2 THEN {"widgets"} ELSE {}]
MCContributes == {orgo1, orgo2, forged}

\* Every release has a capsule id of its own.
OwnIds == {<<c1, ui1>>, <<c2, orgo1>>, <<c3, orgo2>>, <<c4, ui2>>}

\* Capsule ids are used again for another content.
SharedIds == {<<c1, ui1>>, <<c1, ui2>>, <<c2, orgo1>>, <<c2, orgo2>>, <<c2, forged>>,
              <<c1, orgo2>>}
=============================================================================
