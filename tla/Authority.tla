------------------------------ MODULE Authority ------------------------------
(***************************************************************************)
(* The authority engine of the local core: AuthorityService and the        *)
(* AuthorityStore under it (authority.py, authority_store.py), with the    *)
(* tables of migration 0002.                                               *)
(*                                                                         *)
(* The web server runs each request on a thread of its own, so several     *)
(* clients execute service calls at once against one SQLite file.  A       *)
(* service call opens engine.begin(), but the driver starts the SQLite     *)
(* transaction only at the first INSERT or UPDATE: every SELECT before it  *)
(* reads the last committed state on its own.  From the first INSERT to    *)
(* the COMMIT the call holds the single write lock.  A call is therefore a *)
(* few separate reads followed by one atomic write, and other calls may    *)
(* commit between any two of them.                                         *)
(***************************************************************************)
EXTENDS Integers, Sequences, FiniteSets

CONSTANTS Entity,         \* the documents that can be placed under authority
          Content,        \* canonical payloads; the SHA-256 of a payload is the payload
          Client,         \* threads serving requests
          MaxRevisions, MaxProposals, MaxClock   \* bounds of a finite instance

ASSUME BoundsAssumption == /\ MaxRevisions \in Nat
                           /\ MaxProposals \in Nat
                           /\ MaxClock \in Nat

\* SUPERSEDED proposals and the decisions WAIVE and REQUEST_REVISION come from editorial.py alone.
Status         == {"DRAFT", "PROPOSED", "REVIEWED", "APPROVED", "LOCKED", "SUPERSEDED"}
ProposalStatus == {"OPEN", "ACCEPTED", "REJECTED"}
ActorKind      == {"HUMAN", "SYSTEM", "AI"}
Verdict        == {"ACCEPT", "REJECT"}

VARIABLES
  revisions,   \* table revisions; a revision is identified by its position
  history,     \* table revision_status_history
  head,        \* table authority_heads; 0 for an entity not registered yet
  proposals,   \* table change_proposals
  decisions,   \* table decisions
  approvals,   \* table approvals
  clock,       \* the last timestamp utc_now() returned
  op           \* what each client has read so far

tables == <<revisions, history, head, proposals, decisions, approvals>>
vars   == <<tables, clock, op>>

Idle == [pc |-> "idle", prop |-> 0, rev |-> 0, to |-> "DRAFT", at |-> 0]

OpState ==
  [pc   : {"idle", "accept_head", "accept_write", "reject_write",
           "advance_write", "lock_status", "lock_write"},
   prop : 0..MaxProposals, rev : 0..MaxRevisions, to : Status, at : 0..MaxClock]

Init ==
  /\ revisions = <<>>
  /\ history   = {}
  /\ head      = [e \in Entity |-> 0]
  /\ proposals = <<>>
  /\ decisions = {}
  /\ approvals = {}
  /\ clock     = 0
  /\ op        = [c \in Client |-> Idle]

(***************************************************************************)
(* Helpers of the store.                                                   *)
(***************************************************************************)
Tick == /\ clock < MaxClock
        /\ clock' = clock + 1

HasRoom == Len(revisions) < MaxRevisions

InsertRevision(e, content, parents) ==
  revisions' = Append(revisions, [entity |-> e, content |-> content, parents |-> parents])

NewRevision == Len(revisions) + 1

StatusEvent(r, s, t) == [rev |-> r, status |-> s, at |-> t]

\* Events carry the time the caller captured, which need not be commit order.
EffectiveStatus(r) ==
  (CHOOSE h \in history : /\ h.rev = r
                          /\ \A g \in history : g.rev = r => g.at <= h.at).status

Reset(c) == op' = [op EXCEPT ![c] = Idle]

(***************************************************************************)
(* Calls whose reads touch immutable rows only: one atomic step each.      *)
(***************************************************************************)
RegisterEntity(c, e, content, kind, status) ==
  /\ op[c].pc = "idle"
  /\ head[e] = 0                    \* a fresh ULID names a fresh entity
  /\ status \in {"DRAFT", "APPROVED", "LOCKED"}
  /\ status \in {"APPROVED", "LOCKED"} => kind = "HUMAN"
  /\ HasRoom /\ Tick
  /\ InsertRevision(e, content, {})
  /\ history' = history \union {StatusEvent(NewRevision, status, clock')}
  /\ head' = [head EXCEPT ![e] = NewRevision]
  /\ UNCHANGED <<proposals, decisions, approvals, op>>

CreateRevision(c, e, content, parent) ==
  /\ op[c].pc = "idle"
  /\ head[e] # 0
  /\ HasRoom /\ Tick
  /\ InsertRevision(e, content, {parent})
  /\ history' = history \union {StatusEvent(NewRevision, "DRAFT", clock')}
  /\ UNCHANGED <<head, proposals, decisions, approvals, op>>

CreateProposal(c, e, base, baseHash, content) ==
  /\ op[c].pc = "idle"
  /\ revisions[base].entity = e
  /\ revisions[base].content = baseHash
  /\ Len(proposals) < MaxProposals
  /\ proposals' = Append(proposals, [entity |-> e, base |-> base, hash |-> baseHash,
                                     content |-> content, status |-> "OPEN"])
  /\ UNCHANGED <<revisions, history, head, decisions, approvals, clock, op>>

(***************************************************************************)
(* accept_proposal: read the proposal, read the head, then write.          *)
(***************************************************************************)
AcceptReadProposal(c, p, kind) ==
  /\ op[c].pc = "idle"
  /\ kind = "HUMAN"
  /\ proposals[p].status = "OPEN"
  /\ Tick
  /\ op' = [op EXCEPT ![c] = [Idle EXCEPT !.pc = "accept_head", !.prop = p, !.at = clock']]
  /\ UNCHANGED tables

\* Variant: the baseline is recognised by content hash alone.
HeadHashMatches(p) == revisions[head[proposals[p].entity]].content = proposals[p].hash

HeadMatches(p) == /\ head[proposals[p].entity] = proposals[p].base
                  /\ revisions[head[proposals[p].entity]].content = proposals[p].hash

AcceptReadHead(c) ==
  /\ op[c].pc = "accept_head"
  /\ HeadMatches(op[c].prop)
  /\ op' = [op EXCEPT ![c].pc = "accept_write"]
  /\ UNCHANGED <<tables, clock>>

\* Variants: siblings resolved along with the proposal; the status of a revision written.
ResolveEntity(p, status) ==
  proposals' = [q \in 1..Len(proposals) |->
                  IF proposals[q].entity = proposals[p].entity
                  THEN [proposals[q] EXCEPT !.status = status] ELSE proposals[q]]
ResolveApproved(p, status) == proposals' = [proposals EXCEPT ![p].status = "APPROVED"]

\* UPDATE change_proposals ... WHERE status='OPEN'; the row count is not checked.
Resolve(p, status) ==
  proposals' = [proposals EXCEPT ![p].status = IF @ = "OPEN" THEN status ELSE @]

Decide(p, verdict, t) ==
  decisions' = decisions \union {[prop |-> p, verdict |-> verdict, at |-> t]}

\* Variant: the head is left where it was.
KeepHead(e, r) == UNCHANGED head

\* UPDATE authority_heads, guarded by HeadMatches in AcceptWrite.
MoveHead(e, r) == head' = [head EXCEPT ![e] = r]

\* The compare-and-set on authority_heads decides; when it fails everything rolls back.
AcceptWrite(c) ==
  LET p == op[c].prop
      q == proposals[p]
      t == op[c].at
  IN /\ op[c].pc = "accept_write"
     /\ HeadMatches(p)
     /\ HasRoom
     /\ Decide(p, "ACCEPT", t)
     /\ InsertRevision(q.entity, q.content, {q.base})
     /\ history' = history \union {StatusEvent(NewRevision, "APPROVED", t),
                                   StatusEvent(q.base, "SUPERSEDED", t)}
     /\ MoveHead(q.entity, NewRevision)
     /\ Resolve(p, "ACCEPTED")
     /\ approvals' = approvals \union {[prop |-> p, rev |-> NewRevision, prior |-> q.base]}
     /\ Reset(c)
     /\ UNCHANGED clock

(***************************************************************************)
(* reject_proposal: read the proposal, then write.                         *)
(***************************************************************************)
RejectReadProposal(c, p, kind) ==
  /\ op[c].pc = "idle"
  /\ kind = "HUMAN"
  /\ proposals[p].status = "OPEN"
  /\ Tick
  /\ op' = [op EXCEPT ![c] = [Idle EXCEPT !.pc = "reject_write", !.prop = p, !.at = clock']]
  /\ UNCHANGED tables

RejectWrite(c) ==
  /\ op[c].pc = "reject_write"
  /\ Decide(op[c].prop, "REJECT", op[c].at)
  /\ Resolve(op[c].prop, "REJECTED")
  /\ Reset(c)
  /\ UNCHANGED <<revisions, history, head, approvals, clock>>

(***************************************************************************)
(* advance_revision_status and lock_authority append one status event each *)
(* for a revision whose status they read earlier.                          *)
(***************************************************************************)
AdvanceReadStatus(c, r, to) ==
  /\ op[c].pc = "idle"
  /\ <<EffectiveStatus(r), to>> \in {<<"DRAFT", "PROPOSED">>, <<"PROPOSED", "REVIEWED">>}
  /\ op' = [op EXCEPT ![c] = [Idle EXCEPT !.pc = "advance_write", !.rev = r, !.to = to]]
  /\ UNCHANGED <<tables, clock>>

LockReadHead(c, e, kind) ==
  /\ op[c].pc = "idle"
  /\ kind = "HUMAN"
  /\ head[e] # 0
  /\ op' = [op EXCEPT ![c] = [Idle EXCEPT !.pc = "lock_status", !.rev = head[e]]]
  /\ UNCHANGED <<tables, clock>>

LockReadStatus(c) ==
  /\ op[c].pc = "lock_status"
  /\ EffectiveStatus(op[c].rev) = "APPROVED"
  /\ op' = [op EXCEPT ![c].pc = "lock_write", ![c].to = "LOCKED"]
  /\ UNCHANGED <<tables, clock>>

AppendStatus(c) ==
  /\ op[c].pc \in {"advance_write", "lock_write"}
  /\ Tick
  /\ history' = history \union {StatusEvent(op[c].rev, op[c].to, clock')}
  /\ Reset(c)
  /\ UNCHANGED <<revisions, head, proposals, decisions, approvals>>

(***************************************************************************)
(* A call that raises (a failed check, a failed compare-and-set, a locked  *)
(* database, an injected fault) rolls back; a crash ends every call.       *)
(***************************************************************************)
Abort(c) ==
  /\ op[c].pc # "idle"
  /\ Reset(c)
  /\ UNCHANGED <<tables, clock>>

Crash ==
  /\ \E c \in Client : op[c].pc # "idle"
  /\ op' = [c \in Client |-> Idle]
  /\ UNCHANGED <<tables, clock>>

Next ==
  \/ \E c \in Client :
       \/ \E e \in Entity, x \in Content :
            \/ \E k \in ActorKind, s \in Status : RegisterEntity(c, e, x, k, s)
            \/ \E r \in 1..Len(revisions) : CreateRevision(c, e, x, r)
            \/ \E r \in 1..Len(revisions), h \in Content : CreateProposal(c, e, r, h, x)
       \/ \E p \in 1..Len(proposals), k \in ActorKind :
            AcceptReadProposal(c, p, k) \/ RejectReadProposal(c, p, k)
       \/ AcceptReadHead(c) \/ AcceptWrite(c) \/ RejectWrite(c)
       \/ \E r \in 1..Len(revisions), s \in Status : AdvanceReadStatus(c, r, s)
       \/ \E e \in Entity, k \in ActorKind : LockReadHead(c, e, k)
       \/ LockReadStatus(c) \/ AppendStatus(c) \/ Abort(c)
  \/ Crash

Spec == Init /\ [][Next]_vars

\* The heads alone: what a reader of current authority can observe.
Line == INSTANCE AuthorityLine WITH current <- head,
                                    retired <- {a.prior : a \in approvals}

\* accept_proposal, in any interleaving and with crashes, only ever extends the line of
\* authority of each entity by one fresh revision (the promise of AuthorityLine).
ImplementsLine == Line!Spec

(***************************************************************************)
(* Properties.                                                             *)
(***************************************************************************)
Revision == 1..Len(revisions)
Proposal == 1..Len(proposals)

\* Every table holds rows of its schema and every foreign key names an existing row.
TypeOK ==
  /\ revisions \in Seq([entity : Entity, content : Content, parents : SUBSET Nat])
  /\ Len(revisions) <= MaxRevisions
  /\ \A r \in Revision : revisions[r].parents \subseteq Revision
  /\ history \subseteq [rev : Revision, status : Status, at : 0..MaxClock]
  /\ head \in [Entity -> 0..Len(revisions)]
  /\ proposals \in Seq([entity : Entity, base : Nat, hash : Content,
                        content : Content, status : ProposalStatus])
  /\ Len(proposals) <= MaxProposals
  /\ \A p \in Proposal : proposals[p].base \in Revision
  /\ decisions \subseteq [prop : Proposal, verdict : Verdict, at : 0..MaxClock]
  /\ approvals \subseteq [prop : Proposal, rev : Revision, prior : Revision]
  /\ clock \in 0..MaxClock
  /\ op \in [Client -> OpState]

\* Authority is a line, never a tree: a baseline is superseded by one approval at most, and
\* the head of an entity is the only approved revision not superseded (accept_proposal's
\* compare-and-set, with any number of acceptances in flight).
LinearAuthority ==
  /\ \A a, b \in approvals : a.prior = b.prior => a = b
  /\ \A a \in approvals :
       LET e == revisions[a.rev].entity
       IN head[e] # a.rev => \E b \in approvals : b.prior = a.rev

\* A proposal becomes authority at most once, as exactly the content it proposed on exactly the
\* baseline it named, and every approval is backed by an ACCEPT decision (accept_proposal is
\* all or nothing).
AcceptedExactlyOnce ==
  /\ \A a, b \in approvals : a.prop = b.prop => a = b
  /\ \A p \in Proposal : proposals[p].status = "ACCEPTED" => \E a \in approvals : a.prop = p
  /\ \A a \in approvals :
       /\ revisions[a.rev].content = proposals[a.prop].content
       /\ revisions[a.rev].entity = proposals[a.prop].entity
       /\ revisions[a.rev].parents = {proposals[a.prop].base}
       /\ a.prior = proposals[a.prop].base
       /\ Cardinality({d \in decisions : d.prop = a.prop /\ d.verdict = "ACCEPT"}) = 1

\* What get_head reports is never a superseded revision, although status events are ordered by
\* the time their caller captured and not by commit.
HeadIsLive == \A e \in Entity : head[e] # 0 => EffectiveStatus(head[e]) # "SUPERSEDED"

\* A head moves only to a revision whose parent is the head it replaces, and never back: no
\* committed change to authority is lost to a stale proposal.
NoLostUpdate ==
  [][\A e \in Entity : head'[e] # head[e] /\ head[e] # 0 =>
       /\ head'[e] > head[e]
       /\ revisions'[head'[e]].parents = {head[e]}]_vars
==============================================================================
