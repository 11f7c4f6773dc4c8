------------------------------ MODULE MCProfiles ------------------------------
(* Instances of Profiles: an author and a series or style of theirs. *)
EXTENDS Profiles

CONSTANTS au, se, x, y

Names     == [z \in {x, y} |-> au]
Revisions == [p \in {au, se} |-> 2]
===============================================================================
