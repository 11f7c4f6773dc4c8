------------------------------- MODULE MCMemory -------------------------------
(* One claim, one source and two clients: the calls of Research race without Book Memory, and *)
(* Book Memory races with itself while the unit and the claim change, or while the unit leaves *)
(* and comes back. *)
EXTENDS Memory, TLC

CONSTANT MemoryChanges   \* changes of the claim in the instance with memory

VARIABLE memory          \* whether Book Memory is called in this behaviour, and while what happens

Symmetry == Permutations(Client)

\* With memory: the claim is registered, and what happens to it is one edit.
InitKnowledge ==
  \/ Init /\ InitMemory /\ memory = "none"
  \/ /\ head = 1 /\ claims = [k \in Claim |-> [rev |-> 1, ver |-> 0, state |-> "UNREVIEWED"]]
     /\ logged = [k \in Claim |-> "UNREVIEWED"] /\ access = [s \in Source |-> "none"]
     /\ evidence = {} /\ op = [c \in Client |-> NoOp]
     /\ verdict = [k \in Claim |-> "none"] /\ unsettled = {} /\ overlapped = {}
     /\ InitMemory /\ memory \in {"edited", "listed"}

EditsOnly == \A c \in Client, k \in Claim :
               op'[c].pc \in {"idle", "edit"} /\ claims'[k].ver <= MemoryChanges

NextKnowledge ==
  /\ UNCHANGED memory
  /\ CASE memory = "none"   -> ResearchAlongside
       [] memory = "edited" -> (ResearchAlongside /\ EditsOnly) \/ MemoryNext
       [] memory = "listed" -> (ResearchAlongside /\ UNCHANGED op) \/ ListUnit \/ MemoryNext

MCSpec == InitKnowledge /\ [][NextKnowledge]_<<allVars, memory>>
===============================================================================
