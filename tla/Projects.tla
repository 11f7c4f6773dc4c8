------------------------------- MODULE Projects -------------------------------
(***************************************************************************)
(* The contract workspace of one book: ProjectService (projects.py).       *)
(* The owner saves drafts of the Book Contract, of the Architecture and of *)
(* a contract per chapter, and approves them in that order.                *)
(*                                                                         *)
(* Each document is an entity of the authority engine; a save after the    *)
(* first creates a revision and points working_revisions at it, an         *)
(* approval proposes the working revision on the head it read, accepts it  *)
(* and clears the pointer.  The engine is used through what Authority is   *)
(* proved to implement: a head moves by compare-and-set to a fresh         *)
(* revision.  Every statement of the service outside an engine call        *)
(* commits by itself, so calls of concurrent requests interleave between   *)
(* any two steps below and a crash can leave a call half done.             *)
(***************************************************************************)
EXTENDS Integers, Sequences, FiniteSets

CONSTANTS Chapter,        \* stable chapter identifiers
          Client,         \* threads serving requests
          MaxRevisions, MaxCalls   \* bounds of a finite instance

ASSUME BoundsAssumption == MaxRevisions \in Nat /\ MaxCalls \in Nat

\* A chapter is neither of the two documents of the project (its reference is in another table).
ASSUME ChapterAssumption == {"contract", "architecture"} \intersect Chapter = {}

Slot  == {"contract", "architecture"} \union Chapter
Stage == {"BOOK DEFINITION", "ARCHITECTURE", "WRITING"}
ChapterState == {"absent", "PLANNED", "CONTRACT_APPROVED", "SUPERSEDED"}

VARIABLES
  revisions,   \* rows: slot, entity, chapters of an architecture, the draft it came from
  ref,         \* the entity a slot refers to; an entity is named by its first revision
  head,        \* authority head of an entity, 0 if there is none
  approved,    \* the revisions accepted as authority
  working,     \* working_revisions: the draft newer than the head, 0 if there is none
  chapters,    \* workflow_state of the rows of chapters
  stage,       \* workflow_stage of the project
  saved,       \* the draft each slot's last finished save stored (history)
  overlapped,  \* whether two calls have ever been in flight together (history)
  op,          \* the calls in flight
  calls        \* the number of calls started so far (bound)

store == <<revisions, ref, head, approved, working, chapters, stage, saved>>
count == <<calls, overlapped>>
vars  == <<store, op, count>>

Rev  == 1..MaxRevisions
Rev0 == 0..MaxRevisions
Idle == [pc |-> "idle", slot |-> "contract", content |-> {}, entity |-> 0, base |-> 0, source |-> 0]

OpState ==
  [pc : {"idle", "register", "set_ref", "create", "set_working", "read_ref", "read_head",
         "read_working", "accept", "clear_working", "view_head", "view_working", "finish"},
   slot : Slot, content : SUBSET Chapter, entity : Rev0, base : Rev0, source : Rev0]

\* create_project has just returned.
Init ==
  /\ revisions = <<>>
  /\ ref       = [s \in Slot |-> 0]
  /\ head      = [e \in Rev |-> 0]
  /\ approved  = {}
  /\ working   = [e \in Rev |-> 0]
  /\ chapters  = [k \in Chapter |-> "absent"]
  /\ stage     = "BOOK DEFINITION"
  /\ saved     = [s \in Slot |-> 0]
  /\ op        = [c \in Client |-> Idle]
  /\ calls     = 0 /\ overlapped = FALSE

NewRevision == Len(revisions) + 1

\* Variant: the row is filed under an entity of its own.
InsertForeign(s, e, content, source) ==
  /\ Len(revisions) < MaxRevisions
  /\ revisions' = Append(revisions, [slot |-> s, entity |-> NewRevision,
                                     chapters |-> content, source |-> source])

Insert(s, e, content, source) ==
  /\ Len(revisions) < MaxRevisions
  /\ revisions' = Append(revisions, [slot |-> s, entity |-> e,
                                     chapters |-> content, source |-> source])

Goto(c, o) == op' = [op EXCEPT ![c] = o]
Step(c, pc) == Goto(c, [op[c] EXCEPT !.pc = pc])
Finish(c)   == Goto(c, Idle)

Start(c, o) == /\ op[c].pc = "idle"
               /\ calls < MaxCalls
               /\ calls' = calls + 1
               /\ overlapped' = (overlapped \/ \E d \in Client : op[d].pc # "idle")
               /\ Goto(c, o)

\* The owner's draft of an architecture lists chapters; other contents carry no structure here.
ContentOf(s) == IF s = "architecture" THEN SUBSET Chapter \ {{}} ELSE {{}}

(***************************************************************************)
(* _save_document_on_engine.                                               *)
(***************************************************************************)
\* Variant: every save takes itself for the first one.
SaveBeginRegister(c, s, content) ==
  /\ s \in Chapter => chapters[s] \notin {"absent", "SUPERSEDED"}
  /\ Start(c, [Idle EXCEPT !.pc = "register", !.slot = s, !.content = content])
  /\ UNCHANGED store

\* Read the reference; a chapter must be in the project and not superseded.
SaveBegin(c, s, content) ==
  /\ s \in Chapter => chapters[s] \notin {"absent", "SUPERSEDED"}
  /\ Start(c, [Idle EXCEPT !.pc = IF ref[s] = 0 THEN "register" ELSE "create",
                           !.slot = s, !.content = content, !.entity = ref[s]])
  /\ UNCHANGED store

SaveRegister(c) ==
  /\ op[c].pc = "register"
  /\ Insert(op[c].slot, NewRevision, op[c].content, NewRevision)
  /\ head' = [head EXCEPT ![NewRevision] = NewRevision]
  /\ Goto(c, [op[c] EXCEPT !.pc = "set_ref", !.entity = NewRevision])
  /\ UNCHANGED <<ref, approved, working, chapters, stage, saved, count>>

SaveSetRef(c) ==
  /\ op[c].pc = "set_ref"
  /\ ref' = [ref EXCEPT ![op[c].slot] = op[c].entity]
  /\ saved' = [saved EXCEPT ![op[c].slot] = op[c].entity]
  /\ Finish(c)
  /\ UNCHANGED <<revisions, head, approved, working, chapters, stage, count>>

SaveCreate(c) ==
  /\ op[c].pc = "create"
  /\ Insert(op[c].slot, op[c].entity, op[c].content, NewRevision)
  /\ Goto(c, [op[c] EXCEPT !.pc = "set_working", !.source = NewRevision])
  /\ UNCHANGED <<ref, head, approved, working, chapters, stage, saved, count>>

SaveSetWorking(c) ==
  /\ op[c].pc = "set_working"
  /\ working' = [working EXCEPT ![op[c].entity] = op[c].source]
  /\ saved' = [saved EXCEPT ![op[c].slot] = op[c].source]
  /\ Finish(c)
  /\ UNCHANGED <<revisions, ref, head, approved, chapters, stage, count>>

(***************************************************************************)
(* approve_book_contract, approve_architecture, approve_chapter_contract.  *)
(***************************************************************************)
Approved(s) == ref[s] # 0 /\ head[ref[s]] \in approved

\* Variant: an architecture needs nothing.
NoContractGate(s) == s \in Chapter => /\ Approved("architecture")
                                      /\ s \in revisions[head[ref["architecture"]]].chapters

\* What a document needs before it may be approved, as read at the start of the call.
Gate(s) ==
  /\ s = "architecture" => Approved("contract")
  /\ s \in Chapter => /\ Approved("architecture")
                      /\ s \in revisions[head[ref["architecture"]]].chapters

ApproveBegin(c, s) ==
  /\ Gate(s)
  /\ Start(c, [Idle EXCEPT !.pc = "read_ref", !.slot = s])
  /\ UNCHANGED store

ApproveReadRef(c) ==
  /\ op[c].pc = "read_ref"
  /\ ref[op[c].slot] # 0
  /\ Goto(c, [op[c] EXCEPT !.pc = "read_head", !.entity = ref[op[c].slot]])
  /\ UNCHANGED <<store, count>>

\* _approve_entity: head, working revision, proposal and acceptance, end of the draft.
ApproveReadHead(c) ==
  /\ op[c].pc = "read_head"
  /\ Goto(c, [op[c] EXCEPT !.pc = "read_working", !.base = head[op[c].entity]])
  /\ UNCHANGED <<store, count>>

\* Variant: the draft is not looked at.
HeadOnly(e, base) == base

DraftOrHead(e, base) == IF working[e] # 0 THEN working[e] ELSE base

ApproveReadWorking(c) ==
  /\ op[c].pc = "read_working"
  /\ Goto(c, [op[c] EXCEPT !.pc = "accept",
                           !.source = DraftOrHead(op[c].entity, op[c].base)])
  /\ UNCHANGED <<store, count>>

\* Variant: acceptance does not compare the baseline with the head.
AnyBaseline(e, base) == TRUE

BaselineIsHead(e, base) == head[e] = base

Accept(c) ==
  LET o == op[c]
  IN /\ o.pc = "accept"
     /\ BaselineIsHead(o.entity, o.base)
     /\ Insert(o.slot, o.entity, revisions[o.source].chapters, revisions[o.source].source)
     /\ head' = [head EXCEPT ![o.entity] = NewRevision]
     /\ approved' = approved \union {NewRevision}
     /\ Step(c, "clear_working")
     /\ UNCHANGED <<ref, working, chapters, stage, saved, count>>

ClearWorking(c) ==
  /\ op[c].pc = "clear_working"
  /\ working' = [working EXCEPT ![op[c].entity] = 0]
  /\ Step(c, IF op[c].slot = "architecture" THEN "view_head" ELSE "finish")
  /\ UNCHANGED <<revisions, ref, head, approved, chapters, stage, saved, count>>

\* approve_architecture goes on with the document as _document_view shows it by then.
ViewHead(c) ==
  /\ op[c].pc = "view_head"
  /\ Goto(c, [op[c] EXCEPT !.pc = "view_working", !.base = head[op[c].entity]])
  /\ UNCHANGED <<store, count>>

ViewWorking(c) ==
  /\ op[c].pc = "view_working"
  /\ Goto(c, [op[c] EXCEPT !.pc = "finish",
                           !.source = DraftOrHead(op[c].entity, op[c].base)])
  /\ UNCHANGED <<store, count>>

\* Variant of NextState: a chapter left out keeps its row as it is.
KeepOutside(k, listed) ==
  IF k \in listed /\ chapters[k] # "CONTRACT_APPROVED" THEN "PLANNED" ELSE chapters[k]

NextState(k, listed) ==
  CASE k \in listed -> IF chapters[k] = "CONTRACT_APPROVED" THEN "CONTRACT_APPROVED" ELSE "PLANNED"
    [] k \notin listed -> IF chapters[k] = "absent" THEN "absent" ELSE "SUPERSEDED"

FinishArchitecture(c) ==
  /\ op[c].pc = "finish" /\ op[c].slot = "architecture"
  /\ chapters' = [k \in Chapter |-> NextState(k, revisions[op[c].source].chapters)]
  /\ stage' = "ARCHITECTURE"
  /\ Finish(c)
  /\ UNCHANGED <<revisions, ref, head, approved, working, saved, count>>

FinishContract(c) ==
  /\ op[c].pc = "finish" /\ op[c].slot = "contract"
  /\ stage' = "ARCHITECTURE"
  /\ Finish(c)
  /\ UNCHANGED <<revisions, ref, head, approved, working, chapters, saved, count>>

FinishChapter(c) ==
  /\ op[c].pc = "finish" /\ op[c].slot \in Chapter
  /\ chapters' = [chapters EXCEPT ![op[c].slot] = "CONTRACT_APPROVED"]
  /\ stage' = "WRITING"
  /\ Finish(c)
  /\ UNCHANGED <<revisions, ref, head, approved, working, saved, count>>

\* A call that raises ends where it is; a crash ends every call.
Abort(c) == /\ op[c].pc # "idle"
            /\ Finish(c)
            /\ UNCHANGED <<store, count>>

Crash == /\ \E c \in Client : op[c].pc # "idle"
         /\ op' = [c \in Client |-> Idle]
         /\ UNCHANGED <<store, count>>

Next ==
  \/ \E c \in Client :
       \/ \E s \in Slot : ApproveBegin(c, s) \/ \E x \in ContentOf(s) : SaveBegin(c, s, x)
       \/ SaveRegister(c) \/ SaveSetRef(c) \/ SaveCreate(c) \/ SaveSetWorking(c)
       \/ ApproveReadRef(c) \/ ApproveReadHead(c) \/ ApproveReadWorking(c)
       \/ Accept(c) \/ ClearWorking(c) \/ ViewHead(c) \/ ViewWorking(c)
       \/ FinishArchitecture(c) \/ FinishContract(c) \/ FinishChapter(c)
       \/ Abort(c)
  \/ Crash

Spec == Init /\ [][Next]_vars

(***************************************************************************)
(* Properties.                                                             *)
(***************************************************************************)
\* Every reference names a row of the right document.
TypeOK ==
  /\ revisions \in Seq([slot : Slot, entity : Rev, chapters : SUBSET Chapter, source : Rev])
  /\ Len(revisions) <= MaxRevisions
  /\ ref \in [Slot -> 0..Len(revisions)]
  /\ \A s \in Slot : ref[s] # 0 => revisions[ref[s]].slot = s
  /\ head \in [Rev -> 0..Len(revisions)]
  /\ working \in [Rev -> 0..Len(revisions)]
  /\ \A e \in Rev : /\ head[e] # 0 => revisions[head[e]].entity = e
                    /\ working[e] # 0 => revisions[working[e]].entity = e
  /\ approved \subseteq 1..Len(revisions)
  /\ chapters \in [Chapter -> ChapterState]
  /\ stage \in Stage
  /\ saved \in [Slot -> 0..Len(revisions)]
  /\ op \in [Client -> OpState]
  /\ calls \in 0..MaxCalls /\ overlapped \in BOOLEAN

ApprovalsOf(s) == {r \in approved : revisions[r].slot = s}

\* Authority is built in order whatever requests race: an architecture is approved after a book
\* contract, a chapter is CONTRACT_APPROVED only after an approved architecture listed it and its
\* contract was approved, and the project is WRITING only if some chapter contract was approved
\* (the gates of approve_architecture and approve_chapter_contract, read before the acceptance).
BuiltInOrder ==
  /\ \A a \in ApprovalsOf("architecture") : \E b \in ApprovalsOf("contract") : b < a
  /\ \A k \in Chapter : \A r \in ApprovalsOf(k) :
       \E a \in ApprovalsOf("architecture") : a < r /\ k \in revisions[a].chapters
  /\ \A k \in Chapter : chapters[k] = "CONTRACT_APPROVED" => ApprovalsOf(k) # {}
  /\ stage = "WRITING" => \E k \in Chapter : ApprovalsOf(k) # {}

\* Once a newer draft has been approved, an older one is never approved again: two approvals that
\* read the workspace at different times cannot undo each other (_approve_entity proposes on the
\* head it read first and the engine compares it).
NoDraftReinstated ==
  \A r, s, t \in approved :
    /\ revisions[r].entity = revisions[s].entity /\ revisions[s].entity = revisions[t].entity
    /\ r < s /\ s < t
    /\ revisions[r].source = revisions[t].source
    => revisions[s].source = revisions[r].source

View(s) == IF working[ref[s]] # 0 THEN working[ref[s]] ELSE head[ref[s]]

(***************************************************************************)
(* While requests come one at a time, though any of them may be cut short. *)
(***************************************************************************)
\* What the workspace shows is the last draft saved, whatever was approved or interrupted since
\* (_document_view prefers the working revision, and approval takes its content from there).
SavedDraftIsShown ==
  ~overlapped => \A s \in Slot : saved[s] # 0 => ref[s] # 0 /\ revisions[View(s)].source = saved[s]

CurrentChapters == {k \in Chapter : chapters[k] \in {"PLANNED", "CONTRACT_APPROVED"}}

\* The current chapters are those of one approved architecture, and a chapter beside them has an
\* approved contract and is listed by a later one: approve_architecture was interrupted between its
\* acceptance and the update of the chapter rows, and the contract's gate reads only the acceptance.
CurrentChaptersApproved ==
  ~overlapped /\ CurrentChapters # {} =>
    \E a \in ApprovalsOf("architecture") :
      /\ revisions[a].chapters \subseteq CurrentChapters
      /\ \A k \in CurrentChapters \ revisions[a].chapters :
           /\ chapters[k] = "CONTRACT_APPROVED"
           /\ \E b \in ApprovalsOf("architecture") : b > a /\ k \in revisions[b].chapters

\* A chapter recorded as CONTRACT_APPROVED has an approved contract, and a project past its
\* definition an approved book contract: no later draft takes an approval back.
ApprovalsStand ==
  ~overlapped =>
    /\ \A k \in Chapter : chapters[k] = "CONTRACT_APPROVED" => Approved(k)
    /\ stage # "BOOK DEFINITION" => Approved("contract")
==============================================================================
