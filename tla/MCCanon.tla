-------------------------------- MODULE MCCanon --------------------------------
(* A book of one series, its locked masters, and calls that race. *)
EXTENDS Canon, TLC

CONSTANTS au, se, x, y

\* One content names the author, the other an id that is nobody's.
Names     == [z \in {x, y} |-> IF z = x THEN au ELSE "other"]
Revisions == [p \in {au, se} |-> IF p = au THEN 1 ELSE 2]
Symmetry  == Permutations(Client) \union Permutations(Asset) \union Permutations(Master)

\* Two ways to begin, to keep the instance small: with no profile yet and the ledger closed, or with
\* the profiles in their last revision, approved and bound.
InitClosed ==
  /\ Init
  /\ canon = [a \in Asset |-> "RELEASED"]
  /\ closures = [master : Master, used : {{}}, released : {Asset}]
  /\ deed = [c \in Client |-> NoDeed] /\ overwrote = {}

Approved(c) == [content |-> c, status |-> "APPROVED"]

InitBound ==
  /\ file = [p \in Profile |-> IF p = au THEN <<Approved(x)>> ELSE <<Draft(y), Approved(x)>>]
  /\ temp = Absent
  /\ bound = [p \in Profile |-> x]
  /\ work = [c \in Client |-> NoCall]
  /\ approved = {<<au, x>>, <<se, x>>} /\ overlapped = FALSE
  /\ InitCanon

MCSpec == (InitClosed \/ InitBound) /\ [][ProfileNext \/ CanonNext]_<<vars, canonVars>>
================================================================================
