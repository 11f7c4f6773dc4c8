---------------------------- MODULE AuthorityLine ----------------------------
(***************************************************************************)
(* What the authority engine promises a reader: every entity has at most   *)
(* one current revision; it changes only by being replaced by a revision   *)
(* that was never current before, and what was replaced never returns.     *)
(***************************************************************************)
EXTENDS Naturals

CONSTANT Entity

VARIABLES current,   \* the authoritative revision of each entity, 0 for none
          retired    \* the revisions that have been replaced

Fresh(r) == r \in Nat \ (retired \union {0} \union {current[e] : e \in Entity})

Init == /\ current = [e \in Entity |-> 0]
        /\ retired = {}

Establish(e, r) == /\ current[e] = 0
                   /\ Fresh(r)
                   /\ current' = [current EXCEPT ![e] = r]
                   /\ UNCHANGED retired

Replace(e, r) == /\ current[e] # 0
                 /\ Fresh(r)
                 /\ current' = [current EXCEPT ![e] = r]
                 /\ retired' = retired \union {current[e]}

\* The next current revision is any fresh number: it is read off the step itself.
Next == \E e \in Entity : Establish(e, current'[e]) \/ Replace(e, current'[e])

Spec == Init /\ [][Next]_<<current, retired>>
==============================================================================
