-------------------------------- MODULE Memory --------------------------------
(***************************************************************************)
(* Book Memory (BookMemoryService, memory.py; the tables of migration      *)
(* 0006): a copy of what is current, to be searched, and a vector for each *)
(* entry.                                                                  *)
(*                                                                         *)
(* Every search first synchronizes: it reads the canonical documents, then *)
(* what the index holds as CURRENT, and in one transaction puts the first  *)
(* in the place of the second.  It then selects rows and checks each       *)
(* against the canonical documents, read once more.  Vectors come from a   *)
(* provider between the transaction that lists the documents and the one   *)
(* that stores them.                                                       *)
(*                                                                         *)
(* The unit stands for the manuscript units and contracts, the documents   *)
(* under authority; claims are indexed too.  A contract is a document as   *)
(* long as its chapter is in the approved architecture (projects.py), a    *)
(* unit as long as it has text.  There is one embedding configuration:     *)
(* with another the search refuses until a rebuild.                        *)
(***************************************************************************)
EXTENDS Research

ASSUME MemoryAssumption == "unit" \notin Claim

VARIABLES
  listed,     \* whether the unit is one of the documents
  index,      \* identities of table memory_documents, each with its FTS entry
  current,    \* those whose currentness is CURRENT
  vectors,    \* identities with a row in memory_embeddings
  status,     \* memory_index_state.status, "none" without a row
  job,        \* the memory call each client has in flight
  patchy      \* history: a document changed under the call that stored the last vectors, or under
              \* a synchronization since that found nothing changed; a semantic search then does
              \* not count as fresh

indexed    == <<index, current, vectors, status>>
memoryVars == <<listed, indexed, job, patchy>>
allVars    == <<vars, memoryVars>>

Document == [object : Claim \union {"unit"}, rev : 1..MaxHead, ver : 0..MaxChanges]

\* _canonical_documents: which documents there are and the claims, and later the head of each
\* document under authority.
ClaimDocuments ==
  {[object |-> k, rev |-> claims[k].rev, ver |-> claims[k].ver] : k \in {x \in Claim : Registered(x)}}
UnitDocument   == [object |-> "unit", rev |-> head, ver |-> 0]
Canonical      == ClaimDocuments \union (IF listed THEN {UnitDocument} ELSE {})

Purpose == {"lexical", "semantic", "rebuild"}

\* docs: the documents the call is at work on.  fresh: nothing has changed under it.
JobState == [pc : {"idle", "heads", "prior", "write", "ready", "select", "recheck", "answer",
                   "embed", "store"},
             purpose : Purpose \union {"none"}, docs : SUBSET Document, changed : BOOLEAN,
             began : SUBSET Document, fresh : BOOLEAN]

NoJob == [pc |-> "idle", purpose |-> "none", docs |-> {}, changed |-> FALSE,
          began |-> {}, fresh |-> TRUE]

InitMemory ==
  /\ listed = TRUE /\ index = {} /\ current = {} /\ vectors = {} /\ status = "none"
  /\ job = [c \in Client |-> NoJob] /\ patchy = FALSE

Do(c, j) == job' = [job EXCEPT ![c] = j]

Disturbed(c, changed) == [job[c] EXCEPT !.fresh = @ /\ ~(changed /\ job[c].pc # "idle")]

\* A call that works on what is no longer true disturbs the others when it writes.
DoWriting(c, j) ==
  job' = [d \in Client |-> IF d = c THEN j ELSE Disturbed(d, ~job[c].fresh)]

(***************************************************************************)
(* synchronize.                                                            *)
(***************************************************************************)
SyncBegin(c, p) ==
  /\ op[c].pc = "idle" /\ job[c].pc = "idle"
  /\ Do(c, [NoJob EXCEPT !.pc = "heads", !.purpose = p, !.docs = Canonical, !.began = Canonical])
  /\ UNCHANGED <<vars, listed, indexed, patchy>>

AtHead(d) == IF d.object = "unit" THEN UnitDocument ELSE d

SyncReadHeads(c) ==
  /\ job[c].pc = "heads"
  /\ Do(c, [job[c] EXCEPT !.pc = "prior", !.docs = {AtHead(d) : d \in @}])
  /\ UNCHANGED <<vars, listed, indexed, patchy>>

SyncReadPrior(c) ==
  /\ job[c].pc = "prior"
  /\ Do(c, [job[c] EXCEPT !.pc = "write", !.changed = (current # job[c].docs)])
  /\ UNCHANGED <<vars, listed, indexed, patchy>>

\* Variant: a change of the documents leaves the index SEMANTIC_READY.
StatusKept(j) ==
  IF j.docs = {} THEN "EMPTY" ELSE IF status \in {"none", "FAILED"} THEN "LEXICAL_READY" ELSE status

StatusAfter(j) ==
  IF j.docs = {} THEN "EMPTY"
  ELSE IF j.changed \/ status \in {"none", "FAILED"} THEN "LEXICAL_READY" ELSE status

SyncWrite(c) ==
  LET j == job[c] IN
  /\ j.pc = "write"
  /\ index' = index \union j.docs /\ current' = j.docs
  /\ status' = StatusAfter(j) /\ patchy' = (patchy \/ ~(j.fresh \/ j.changed))
  /\ DoWriting(c, [j EXCEPT !.pc = CASE j.purpose = "lexical"  -> "select"
                                     [] j.purpose = "semantic" -> "ready"
                                     [] j.purpose = "rebuild"  -> "embed",
                            !.docs = {}, !.changed = FALSE])
  /\ UNCHANGED <<vars, listed, vectors>>

(***************************************************************************)
(* Searches of scope CURRENT for what every document contains; a hybrid    *)
(* search is a lexical one followed by a semantic one.                     *)
(***************************************************************************)
\* The semantic search goes on only with a complete index, and asks for the vector of the query.
SearchReady(c) ==
  /\ job[c].pc = "ready" /\ status = "SEMANTIC_READY"
  /\ Do(c, [job[c] EXCEPT !.pc = "select"])
  /\ UNCHANGED <<vars, listed, indexed, patchy>>

Matching(p) == IF p = "semantic" THEN current \intersect vectors ELSE current

SearchSelect(c) ==
  /\ job[c].pc = "select"
  /\ Do(c, [job[c] EXCEPT !.pc = "recheck", !.docs = Matching(job[c].purpose),
                          !.fresh = @ /\ (job[c].purpose = "semantic" => ~patchy)])
  /\ UNCHANGED <<vars, listed, indexed, patchy>>

\* Variant: what the index calls CURRENT is taken as such.
AnyRow(D) == D

\* _row_is_current, for each row.
RowsCurrent(D) == D \intersect Canonical

SearchRecheck(c) ==
  /\ job[c].pc = "recheck"
  /\ Do(c, [job[c] EXCEPT !.pc = "answer", !.docs = RowsCurrent(job[c].docs)])
  /\ UNCHANGED <<vars, listed, indexed, patchy>>

(***************************************************************************)
(* rebuild: synchronize, and rebuild_embeddings, which synchronizes again. *)
(* The rows are read when the provider is asked; without one the call ends *)
(* there.                                                                  *)
(***************************************************************************)
RebuildRead(c) ==
  /\ job[c].pc = "embed" /\ current # {}
  /\ Do(c, [job[c] EXCEPT !.pc = "store", !.docs = current])
  /\ UNCHANGED <<vars, listed, indexed, patchy>>

\* The vectors of rows that are CURRENT now are replaced; a second vector for any other is refused.
RebuildStore(c) ==
  LET j == job[c] IN
  /\ j.pc = "store"
  /\ (j.docs \ current) \intersect vectors = {}
  /\ vectors' = (vectors \ current) \union j.docs
  /\ status' = "SEMANTIC_READY" /\ patchy' = ~j.fresh
  /\ DoWriting(c, NoJob)
  /\ UNCHANGED <<vars, listed, index, current>>

\* The provider refuses or sends too little, the INSERT is refused, or a read before them fails.
RebuildFail(c) ==
  /\ job[c].pc \in {"embed", "store"}
  /\ status' = "FAILED"
  /\ Do(c, NoJob)
  /\ UNCHANGED <<vars, listed, index, current, vectors, patchy>>

\* The answer is returned, or the call ends with an error, a refusal or an exit.
JobEnds(c) ==
  /\ job[c].pc # "idle"
  /\ Do(c, NoJob)
  /\ UNCHANGED <<vars, listed, indexed, patchy>>

MemoryNext ==
  \E c \in Client :
    \/ \E p \in Purpose : SyncBegin(c, p)
    \/ SyncReadHeads(c) \/ SyncReadPrior(c) \/ SyncWrite(c)
    \/ SearchReady(c) \/ SearchSelect(c) \/ SearchRecheck(c)
    \/ RebuildRead(c) \/ RebuildStore(c) \/ RebuildFail(c)
    \/ JobEnds(c)

\* approve_architecture drops the chapter, or lists it again (projects.py).
ListUnit ==
  /\ listed' = ~listed
  /\ job' = [c \in Client |-> Disturbed(c, TRUE)]
  /\ UNCHANGED <<vars, indexed, patchy>>

\* A call of Research.  It changes what memory calls in flight have read when it changes a document.
ResearchAlongside ==
  /\ Next
  /\ \A c \in Client : op[c].pc = "idle" /\ op'[c].pc # "idle" => job[c].pc = "idle"
  /\ UNCHANGED <<listed, indexed, patchy>>
  /\ job' = [c \in Client |-> Disturbed(c, Canonical' # Canonical)]

KnowledgeNext == ResearchAlongside \/ MemoryNext \/ ListUnit

KnowledgeSpec == Init /\ InitMemory /\ [][KnowledgeNext]_allVars

(***************************************************************************)
(* Properties.                                                             *)
(***************************************************************************)
MemoryTypeOK ==
  /\ TypeOK /\ listed \in BOOLEAN
  /\ index \subseteq Document /\ current \subseteq index /\ vectors \subseteq index
  /\ status \in {"none", "EMPTY", "LEXICAL_READY", "SEMANTIC_READY", "FAILED"}
  /\ job \in [Client -> JobState] /\ patchy \in BOOLEAN

Answered(c) == job[c].pc = "answer"

\* The versions of a claim follow each other, whatever revision each names, and so do the unit's
\* revisions.
NotOlder(d, b) == d.ver > b.ver \/ (d.ver = b.ver /\ d.rev >= b.rev)

\* A search never returns a document that was out of date before the search began, whatever slower
\* synchronizations put back into the index meanwhile (synchronize, lexical_search,
\* semantic_search).
NothingOutdated ==
  \A c \in Client : Answered(c) =>
    \A d \in job[c].docs, b \in job[c].began : d.object = b.object => NotOlder(d, b)

\* A search that nothing changed under answers with the current documents, every one of them and no
\* other: whatever calls did before it left in the index, documents that left and came back included,
\* it is up to date when the rows are selected, and an index that says SEMANTIC_READY has all the
\* vectors, unless a document changed under the call that stored them or under a synchronization
\* since that saw no change.
QuietSearchIsComplete ==
  \A c \in Client :
    Answered(c) /\ job[c].fresh => job[c].docs = Canonical
===============================================================================
