----------------------------- MODULE MCRecovery -----------------------------
(* Restores of the instance, with and without the optional steps, and into a  *)
(* new one, for real and as a dry run; rollbacks between two capsules.        *)
EXTENDS Recovery

CONSTANTS c1, c2

All == {"media", "env"} \union Checks
ThePlans ==
  {[t |-> "home", steps |-> All, overwrite |-> FALSE, dry |-> FALSE],
   [t |-> "home", steps |-> {"gate"}, overwrite |-> FALSE, dry |-> FALSE],
   [t |-> "spare", steps |-> {"media"} \union Checks, overwrite |-> FALSE, dry |-> FALSE],
   [t |-> "spare", steps |-> {"media", "health"}, overwrite |-> TRUE, dry |-> FALSE],
   [t |-> "spare", steps |-> All, overwrite |-> FALSE, dry |-> TRUE]}
=============================================================================
