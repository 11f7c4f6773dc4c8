------------------------------ MODULE MCAutoBook ------------------------------
EXTENDS AutoBook, TLC

Symmetry == Permutations(Client)

\* The owner has approved every contract by hand, has written and edited all chapters but the last,
\* and leaves that one to the last run.
InitWriting ==
  /\ file = NoRun /\ temp = NoRun
  /\ contract = "approved" /\ architecture = "approved"
  /\ contracts = [k \in Chapter |-> "approved"]
  /\ tasks = 1 .. Chapters - 1
  /\ units = [k \in Chapter |-> IF k < Chapters THEN <<"APPROVED">> ELSE <<>>]
  /\ masters = {}
  /\ op = [c \in Client |-> Idle]
  /\ drive = {}
  /\ runs = MaxRuns - 1 /\ crashes = 0
  /\ sent = [r \in 1..MaxRuns |-> 0]
  /\ clean = 1..MaxRuns

SpecBoth    == (Init \/ InitWriting) /\ [][Next]_vars
SpecWriting == InitWriting /\ [][Next]_vars
===============================================================================
