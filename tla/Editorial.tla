------------------------------ MODULE Editorial ------------------------------
(***************************************************************************)
(* Editorial findings on manuscript units: EditorialService (editorial.py).*)
(* A finding names the exact revision it diagnoses; a correction of it is  *)
(* a proposal of the authority engine on that revision, tied to the        *)
(* finding by a row of its own; the owner accepts, rejects, sends back or  *)
(* waives.                                                                 *)
(*                                                                         *)
(* No call is one transaction: status and head are read in connections of  *)
(* their own, the engine decides in one transaction and the finding is     *)
(* closed in the next.  Each read another call can invalidate and each     *)
(* transaction is a step; a call can end after any of them.  Contracts are *)
(* targets of findings too, which can only be waived; severities below     *)
(* MAJOR gate nothing and are left out.                                    *)
(***************************************************************************)
EXTENDS Integers, Sequences, FiniteSets

CONSTANTS Unit,           \* manuscript units
          Client,         \* threads serving requests
          MaxRevisions, MaxFindings, MaxProposals, MaxCalls   \* bounds of a finite instance

ASSUME BoundsAssumption ==
  {MaxRevisions, MaxFindings, MaxProposals, MaxCalls} \subseteq Nat

ASSUME UnitAssumption == Unit # {}

VARIABLES
  head,        \* authority head of a unit, 0 before its first draft
  revisions,   \* the number of revisions of units stored so far
  approvals,   \* rows of approvals: the proposal (0: not editorial), what it replaced, the result
  findings,    \* rows: unit, revision diagnosed, status, closing rows of the state history
  proposals,   \* rows of change_proposals made from findings: unit, baseline, status
  links,       \* editorial_finding_proposals: pairs finding, proposal
  waivers,     \* findings with a WAIVE decision
  op,          \* the calls in flight
  calls,       \* the number of calls started so far (bound)
  overlapped   \* whether two of them were ever in flight together (history)

text   == <<head, revisions, approvals>>
corpus == <<findings, proposals, links, waivers>>
count  == <<calls, overlapped>>
vars   == <<text, corpus, op, count>>

Rev  == 1..MaxRevisions
Rev0 == 0..MaxRevisions
FindingStatus  == {"OPEN", "RESOLVED", "WAIVED"}
ProposalStatus == {"OPEN", "ACCEPTED", "REJECTED", "SUPERSEDED"}

Idle == [pc |-> "idle", finding |-> 0, proposal |-> 0, unit |-> CHOOSE u \in Unit : TRUE,
         base |-> 0, linked |-> {}, verdict |-> "OPEN", prior |-> "OPEN"]

OpState ==
  [pc : {"idle", "insert_finding", "propose_target", "propose_insert", "propose_link",
         "accept_open", "accept_write", "reject_write", "revise_write", "waive_list",
         "waive_write", "close_read", "close_write"},
   finding : 0..MaxFindings, proposal : 0..MaxProposals, unit : Unit, base : Rev0,
   linked : SUBSET (1..MaxProposals), verdict : FindingStatus, prior : FindingStatus]

Init ==
  /\ head      = [u \in Unit |-> 0]
  /\ revisions = 0
  /\ approvals = {}
  /\ findings  = <<>>
  /\ proposals = <<>>
  /\ links     = {}
  /\ waivers   = {}
  /\ op        = [c \in Client |-> Idle]
  /\ calls     = 0 /\ overlapped = FALSE

NewRevision == revisions + 1
NewRow      == revisions < MaxRevisions /\ revisions' = NewRevision

Goto(c, o)   == op' = [op EXCEPT ![c] = o]
Step(c, pc)  == Goto(c, [op[c] EXCEPT !.pc = pc])
Finish(c)    == Goto(c, Idle)

Count == /\ calls < MaxCalls
         /\ calls' = calls + 1
         /\ overlapped' = (overlapped \/ \E d \in Client : op[d].pc # "idle")

Start(c, o) == op[c].pc = "idle" /\ Count /\ Goto(c, o)

(***************************************************************************)
(* The other services: a draft is registered as a unit's first revision,   *)
(* and the final edit of Auto Book replaces a head that is still a draft.  *)
(***************************************************************************)
WriteUnit(u) ==
  /\ head[u] = 0
  /\ Count /\ NewRow
  /\ head' = [head EXCEPT ![u] = NewRevision]
  /\ UNCHANGED <<approvals, corpus, op>>

Approved(r) == \E a \in approvals : a.rev = r

\* Variant: the head names a revision that was not stored.
ApproveUnstored(p, u, base) ==
  /\ revisions < MaxRevisions /\ UNCHANGED revisions
  /\ head' = [head EXCEPT ![u] = NewRevision]
  /\ approvals' = approvals \union {[proposal |-> p, prior |-> base, rev |-> NewRevision]}

Approve(p, u, base) ==
  /\ NewRow
  /\ head' = [head EXCEPT ![u] = NewRevision]
  /\ approvals' = approvals \union {[proposal |-> p, prior |-> base, rev |-> NewRevision]}

EditUnit(u) ==
  /\ head[u] # 0 /\ ~Approved(head[u])
  /\ Count
  /\ Approve(0, u, head[u])
  /\ UNCHANGED <<corpus, op>>

(***************************************************************************)
(* create_finding, also behind diagnostics and BookBench's handoff: the    *)
(* baseline asked for must be the head.                                    *)
(***************************************************************************)
FindingRead(c, u) ==
  /\ head[u] # 0
  /\ Start(c, [Idle EXCEPT !.pc = "insert_finding", !.unit = u, !.base = head[u]])
  /\ UNCHANGED <<text, corpus>>

FindingInsert(c) ==
  /\ op[c].pc = "insert_finding"
  /\ Len(findings) < MaxFindings
  /\ findings' = Append(findings, [unit |-> op[c].unit, base |-> op[c].base,
                                   status |-> "OPEN", closings |-> <<>>])
  /\ Finish(c)
  /\ UNCHANGED <<text, proposals, links, waivers, count>>

(***************************************************************************)
(* create_manuscript_proposal                                              *)
(***************************************************************************)
ProposeRead(c, f) ==
  /\ findings[f].status = "OPEN"
  /\ Start(c, [Idle EXCEPT !.pc = "propose_target", !.finding = f])
  /\ UNCHANGED <<text, corpus>>

ProposeTarget(c) ==
  LET f == findings[op[c].finding]
  IN /\ op[c].pc = "propose_target"
     /\ head[f.unit] = f.base
     /\ Goto(c, [op[c] EXCEPT !.pc = "propose_insert", !.unit = f.unit, !.base = f.base])
     /\ UNCHANGED <<text, corpus, count>>

ProposeInsert(c) ==
  /\ op[c].pc = "propose_insert"
  /\ Len(proposals) < MaxProposals
  /\ proposals' = Append(proposals, [unit |-> op[c].unit, base |-> op[c].base,
                                     status |-> "OPEN"])
  /\ Goto(c, [op[c] EXCEPT !.pc = "propose_link", !.proposal = Len(proposals) + 1])
  /\ UNCHANGED <<text, findings, links, waivers, count>>

ProposeLink(c) ==
  /\ op[c].pc = "propose_link"
  /\ links' = links \union {<<op[c].finding, op[c].proposal>>}
  /\ Finish(c)
  /\ UNCHANGED <<text, findings, proposals, waivers, count>>

(***************************************************************************)
(* accept: the proposal must not be stale; the engine checks that it is    *)
(* open, then moves the head by compare-and-set; then the finding closes.  *)
(***************************************************************************)
AcceptRead(c, f, p) ==
  /\ <<f, p>> \in links
  /\ head[proposals[p].unit] = proposals[p].base
  /\ Start(c, [Idle EXCEPT !.pc = "accept_open", !.finding = f, !.proposal = p,
                           !.verdict = "RESOLVED"])
  /\ UNCHANGED <<text, corpus>>

AcceptOpen(c) ==
  /\ op[c].pc = "accept_open"
  /\ proposals[op[c].proposal].status = "OPEN"
  /\ Step(c, "accept_write")
  /\ UNCHANGED <<text, corpus, count>>

\* UPDATE change_proposals ... WHERE status = 'OPEN'.
Resolve(ps, status) ==
  proposals' = [p \in 1..Len(proposals) |->
                  IF p \in ps /\ proposals[p].status = "OPEN"
                  THEN [proposals[p] EXCEPT !.status = status] ELSE proposals[p]]

\* Variant: the head is moved whatever it is by now.
AnyBaseline(p) == TRUE

BaselineIsHead(p) == head[proposals[p].unit] = proposals[p].base

AcceptWrite(c) ==
  LET p == op[c].proposal
  IN /\ op[c].pc = "accept_write"
     /\ BaselineIsHead(p)
     /\ Approve(p, proposals[p].unit, head[proposals[p].unit])
     /\ Resolve({p}, "ACCEPTED")
     /\ Step(c, "close_read")
     /\ UNCHANGED <<findings, links, waivers, count>>

(***************************************************************************)
(* _transition_finding: the prior status is read before the write lock is  *)
(* taken and not compared when the new one is written.                     *)
(***************************************************************************)
CloseRead(c) ==
  /\ op[c].pc = "close_read"
  /\ IF findings[op[c].finding].status = op[c].verdict
     THEN Finish(c)
     ELSE Goto(c, [op[c] EXCEPT !.pc = "close_write",
                                !.prior = findings[op[c].finding].status])
  /\ UNCHANGED <<text, corpus, count>>

CloseWrite(c) ==
  /\ op[c].pc = "close_write"
  /\ findings' = [findings EXCEPT
       ![op[c].finding].status   = op[c].verdict,
       ![op[c].finding].closings = Append(@, [prior |-> op[c].prior, new |-> op[c].verdict])]
  /\ Finish(c)
  /\ UNCHANGED <<text, proposals, links, waivers, count>>

(***************************************************************************)
(* reject and request_revision: the finding stays open.                    *)
(***************************************************************************)
RejectRead(c, f, p) ==
  /\ <<f, p>> \in links /\ proposals[p].status = "OPEN"
  /\ Start(c, [Idle EXCEPT !.pc = "reject_write", !.finding = f, !.proposal = p])
  /\ UNCHANGED <<text, corpus>>

\* Variant: a decision on the proposal closes the finding whatever it is.
RejectCloses(c) ==
  /\ op[c].pc = "reject_write"
  /\ Resolve({op[c].proposal}, "REJECTED")
  /\ Goto(c, [op[c] EXCEPT !.pc = "close_read", !.verdict = "RESOLVED"])
  /\ UNCHANGED <<text, findings, links, waivers, count>>

RejectWrite(c) ==
  /\ op[c].pc = "reject_write"
  /\ Resolve({op[c].proposal}, "REJECTED")
  /\ Finish(c)
  /\ UNCHANGED <<text, findings, links, waivers, count>>

ReviseRead(c, f, p) ==
  /\ <<f, p>> \in links /\ proposals[p].status = "OPEN"
  /\ Start(c, [Idle EXCEPT !.pc = "revise_write", !.finding = f, !.proposal = p])
  /\ UNCHANGED <<text, corpus>>

\* The row count is checked: a proposal decided in the meantime rolls the call back.
ReviseWrite(c) ==
  /\ op[c].pc = "revise_write"
  /\ proposals[op[c].proposal].status = "OPEN"
  /\ Resolve({op[c].proposal}, "SUPERSEDED")
  /\ Finish(c)
  /\ UNCHANGED <<text, findings, links, waivers, count>>

(***************************************************************************)
(* waive: list the open proposals, record the decision and supersede them, *)
(* then close the finding.                                                 *)
(***************************************************************************)
\* Variant: a finding is waived in any state.
WaiveAny(c, f) ==
  /\ Start(c, [Idle EXCEPT !.pc = "waive_list", !.finding = f, !.verdict = "WAIVED"])
  /\ UNCHANGED <<text, corpus>>

WaiveRead(c, f) ==
  /\ findings[f].status = "OPEN"
  /\ Start(c, [Idle EXCEPT !.pc = "waive_list", !.finding = f, !.verdict = "WAIVED"])
  /\ UNCHANGED <<text, corpus>>

\* Variant: no proposal is looked for.
NoProposals(f) == {}

OpenProposals(f) == {p \in 1..Len(proposals) : <<f, p>> \in links /\ proposals[p].status = "OPEN"}

WaiveList(c) ==
  /\ op[c].pc = "waive_list"
  /\ Goto(c, [op[c] EXCEPT !.pc = "waive_write", !.linked = OpenProposals(op[c].finding)])
  /\ UNCHANGED <<text, corpus, count>>

WaiveWrite(c) ==
  /\ op[c].pc = "waive_write"
  /\ waivers' = waivers \union {op[c].finding}
  /\ Resolve(op[c].linked, "SUPERSEDED")
  /\ Step(c, "close_read")
  /\ UNCHANGED <<text, findings, links, count>>

\* A call that raises ends where it is; a crash ends every call.
Abort(c) == /\ op[c].pc # "idle"
            /\ Finish(c)
            /\ UNCHANGED <<text, corpus, count>>

Crash == /\ op' = [c \in Client |-> Idle]
         /\ UNCHANGED <<text, corpus, count>>

Serve ==
  \E c \in Client :
    \/ \E u \in Unit : FindingRead(c, u)
    \/ \E f \in 1..Len(findings) : ProposeRead(c, f) \/ WaiveRead(c, f)
    \/ \E l \in links : AcceptRead(c, l[1], l[2]) \/ RejectRead(c, l[1], l[2])
                         \/ ReviseRead(c, l[1], l[2])
    \/ FindingInsert(c)
    \/ ProposeTarget(c) \/ ProposeInsert(c) \/ ProposeLink(c)
    \/ AcceptOpen(c) \/ AcceptWrite(c) \/ CloseRead(c) \/ CloseWrite(c)
    \/ RejectWrite(c) \/ ReviseWrite(c)
    \/ WaiveList(c) \/ WaiveWrite(c)

EditorialStep ==
  \/ \E u \in Unit : WriteUnit(u) \/ EditUnit(u)
  \/ Serve
  \/ \E c \in Client : Abort(c)

EditorialNext == EditorialStep \/ Crash

EditorialSpec == Init /\ [][EditorialNext]_vars

(***************************************************************************)
(* Properties.                                                             *)
(***************************************************************************)
\* Every row names rows that exist; what is approved is at most the number of revisions stored.
EditorialTypeOK ==
  /\ revisions \in Rev0
  /\ head \in [Unit -> 0..revisions]
  /\ approvals \subseteq [proposal : 0..Len(proposals), prior : 1..revisions, rev : 1..revisions]
  /\ findings \in Seq([unit : Unit, base : Rev, status : FindingStatus,
                       closings : Seq([prior : FindingStatus, new : FindingStatus])])
  /\ Len(findings) <= MaxFindings
  /\ proposals \in Seq([unit : Unit, base : Rev, status : ProposalStatus])
  /\ Len(proposals) <= MaxProposals
  /\ links \subseteq (1..Len(findings)) \X (1..Len(proposals))
  /\ waivers \subseteq 1..Len(findings)
  /\ op \in [Client -> OpState]
  /\ calls \in 0..MaxCalls /\ overlapped \in BOOLEAN

\* The corrections of a finding that became text.
Corrections(f) == {a \in approvals : <<f, a.proposal>> \in links}

\* A correction replaces exactly the revision its finding diagnosed, and of several corrections
\* proposed for the findings on a revision one at most becomes text, whichever calls race
\* (create_manuscript_proposal takes the finding's baseline, accept_proposal compares it).
AppliedAsDiagnosed ==
  \A f \in 1..Len(findings) : \A a \in Corrections(f) :
    /\ a.prior = findings[f].base
    /\ \A b \in approvals : a.prior = b.prior => a = b

\* A finding is closed for a reason that is on record: RESOLVED only when a correction of its
\* own has replaced the text it diagnosed, WAIVED only after the owner's decision (the closing
\* transaction of accept and waive comes after the deciding one and trusts it).
ClosedForCause ==
  \A f \in 1..Len(findings) :
    /\ findings[f].status = "RESOLVED" =>
         Corrections(f) # {} /\ head[findings[f].unit] # findings[f].base
    /\ findings[f].status = "WAIVED" => f \in waivers

\* While calls come one at a time, though any may be cut short: a finding is closed at most
\* once, and from OPEN (accept does not look at the status of the finding).
ClosedOnce ==
  ~overlapped => \A f \in 1..Len(findings) :
                   /\ Len(findings[f].closings) <= 1
                   /\ \A i \in 1..Len(findings[f].closings) : findings[f].closings[i].prior = "OPEN"

AcceptReady(p) == proposals[p].status = "OPEN" /\ BaselineIsHead(p)

\* While calls come one at a time: nothing can be accepted for a finding that is closed, so a
\* waived diagnosis never changes the text (waive supersedes the open proposals it lists).
NothingAcceptReady ==
  ~overlapped => \A f \in 1..Len(findings) :
                   findings[f].status # "OPEN" => ~\E p \in 1..Len(proposals) :
                                                     <<f, p>> \in links /\ AcceptReady(p)
==============================================================================
