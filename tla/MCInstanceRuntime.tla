-------------------------- MODULE MCInstanceRuntime --------------------------
(* Two capsules, two services; the values the runs share. *)
EXTENDS InstanceRuntime, TLC

CONSTANTS i1, i2, c1, c2, app, web

\* With one tag, instances and capsules are interchangeable.
Alike == Permutations({i1, i2}) \union Permutations({c1, c2})

\* Both capsules load their images under one tag.
SharedTag == [c \in Capsules |-> "v14"]

\* Each capsule has a tag of its own.
OwnTag == [c \in Capsules |-> IF c = c1 THEN "v14" ELSE "v15"]
==============================================================================
