------------------------------ MODULE MCProjects ------------------------------
EXTENDS Projects, TLC

Symmetry == Permutations(Chapter) \union Permutations(Client)

\* The states four undisturbed calls lead to: the book contract and an architecture saved and
\* approved.  The count of calls lets MaxCalls - 2 more follow.
InitPlanned ==
  \E listed \in SUBSET Chapter \ {{}} :
    /\ revisions = << [slot |-> "contract", entity |-> 1, chapters |-> {}, source |-> 1],
                      [slot |-> "contract", entity |-> 1, chapters |-> {}, source |-> 1],
                      [slot |-> "architecture", entity |-> 3, chapters |-> listed, source |-> 3],
                      [slot |-> "architecture", entity |-> 3, chapters |-> listed, source |-> 3] >>
    /\ ref      = [s \in Slot |-> CASE s = "contract" -> 1 [] s = "architecture" -> 3 [] OTHER -> 0]
    /\ head     = [e \in Rev |-> CASE e = 1 -> 2 [] e = 3 -> 4 [] OTHER -> 0]
    /\ approved = {2, 4}
    /\ working  = [e \in Rev |-> 0]
    /\ chapters = [k \in Chapter |-> IF k \in listed THEN "PLANNED" ELSE "absent"]
    /\ stage    = "ARCHITECTURE"
    /\ saved    = [s \in Slot |-> ref[s]]
    /\ op       = [c \in Client |-> Idle]
    /\ calls    = 2
    /\ overlapped = FALSE

\* The states seven undisturbed calls lead to: an architecture of one chapter approved, a contract
\* for it saved, then an architecture of the others approved in its place.
InitReplanned ==
  \E k \in Chapter :
    LET row(s, e, x, d) == [slot |-> s, entity |-> e, chapters |-> x, source |-> d]
        others == Chapter \ {k}
    IN
    /\ revisions = << row("contract", 1, {}, 1), row("contract", 1, {}, 1),
                      row("architecture", 3, {k}, 3), row("architecture", 3, {k}, 3), row(k, 5, {}, 5),
                      row("architecture", 3, others, 6), row("architecture", 3, others, 6) >>
    /\ ref      = [s \in Slot |-> CASE s = "contract" -> 1 [] s = "architecture" -> 3
                                     [] s = k -> 5 [] OTHER -> 0]
    /\ head     = [e \in Rev |-> CASE e = 1 -> 2 [] e = 3 -> 7 [] e = 5 -> 5 [] OTHER -> 0]
    /\ approved = {2, 4, 7}
    /\ working  = [e \in Rev |-> 0]
    /\ chapters = [j \in Chapter |-> IF j = k THEN "SUPERSEDED" ELSE "PLANNED"]
    /\ stage    = "ARCHITECTURE"
    /\ saved    = [s \in Slot |-> IF s = "architecture" THEN 6 ELSE ref[s]]
    /\ op       = [c \in Client |-> Idle]
    /\ calls    = 2
    /\ overlapped = FALSE

SpecAny == (Init \/ InitPlanned \/ InitReplanned) /\ [][Next]_vars
===============================================================================
