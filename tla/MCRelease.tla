------------------------------ MODULE MCRelease ------------------------------
EXTENDS Release, TLC

Symmetry == Permutations(Unit) \union Permutations(Client) \union Permutations(Officer)

\* A finding is worked on from an empty manuscript on; no release is attempted.
InitEditing == Init /\ InitRelease /\ jobs = MaxJobs

Units == Cardinality(Unit)

\* The book is reviewed and its units are written by undisturbed calls, the last of them perhaps
\* not edited yet; what follows is three editorial calls and two of the release, or one and four.
InitWritten ==
  \E rank \in [Unit -> 1..Units], drafts \in 0..1, spare \in {<<3, 2>>, <<1, 4>>} :
    /\ \A u, v \in Unit : rank[u] = rank[v] => u = v
    /\ head      = [u \in Unit |-> IF rank[u] = Units THEN 2 * Units - drafts ELSE 2 * rank[u]]
    /\ revisions = 2 * Units - drafts
    /\ approvals = {[proposal |-> 0, prior |-> 2 * i - 1, rev |-> 2 * i] : i \in 1..Units - drafts}
    /\ findings  = <<>> /\ proposals = <<>> /\ links = {} /\ waivers = {}
    /\ op        = [c \in Client |-> Idle]
    /\ calls     = MaxCalls - spare[1] /\ overlapped = FALSE
    /\ active    = Unit /\ claims = [version |-> 1, at |-> 0] /\ clock = 0
    /\ snapshots = <<>> /\ runs = {} /\ review = "passed" /\ masters = <<>>
    /\ job       = [o \in Officer |-> Free]
    /\ jobs      = MaxJobs - spare[2] /\ raced = FALSE

SpecBoth == (InitEditing \/ InitWritten) /\ [][Next]_all
==============================================================================
