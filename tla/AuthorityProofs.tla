--------------------------- MODULE AuthorityProofs ---------------------------
(***************************************************************************)
(* Proofs about Authority: type correctness, the linearity of authority,   *)
(* the absence of lost updates, acceptance exactly once, the live head,    *)
(* and the refinement of AuthorityLine.                                    *)
(***************************************************************************)
EXTENDS Authority, FiniteSetTheorems, WellFoundedInduction, TLAPS

RevisionRow == [entity : Entity, content : Content, parents : SUBSET Nat]
ProposalRow == [entity : Entity, base : Nat, hash : Content,
                content : Content, status : ProposalStatus]

\* A call between its reads and its write refers to rows that exist.
OpRefs ==
  \A c \in Client :
    /\ op[c].pc \in {"accept_head", "accept_write", "reject_write"} => op[c].prop \in Proposal
    /\ op[c].pc \in {"advance_write", "lock_status", "lock_write"} => op[c].rev \in Revision

TypeInv == TypeOK /\ OpRefs

\* One step per conjunct of TypeOK that an inserted row can disturb.
LEMMA AppendRow ==
  ASSUME NEW S, NEW s \in Seq(S), NEW x \in S
  PROVE  /\ Append(s, x) \in Seq(S)
         /\ Len(Append(s, x)) = Len(s) + 1
         /\ \A i \in 1..Len(s) : Append(s, x)[i] = s[i]
         /\ Append(s, x)[Len(s) + 1] = x
OBVIOUS

\* Reset, Abort and Crash leave calls well-formed.
LEMMA IdleOK == Idle \in OpState
BY BoundsAssumption DEF Idle, OpState, Status

LEMMA TypeInit == Init => TypeInv
<1> SUFFICES ASSUME Init PROVE TypeInv
  OBVIOUS
<1>1. op \in [Client -> OpState]
  BY IdleOK DEF Init
<1>2. OpRefs
  BY DEF Init, OpRefs, Idle
<1>3. TypeOK
  BY <1>1, BoundsAssumption DEF Init, TypeOK, Revision, Proposal
<1> QED
  BY <1>2, <1>3 DEF TypeInv

\* Inserting a revision keeps the tables that refer to revisions well-formed.
LEMMA InsertRevisionType ==
  ASSUME TypeInv, NEW e \in Entity, NEW x \in Content, NEW ps \in SUBSET Revision,
         HasRoom, InsertRevision(e, x, ps)
  PROVE  /\ revisions' \in Seq(RevisionRow)
         /\ Len(revisions') = Len(revisions) + 1
         /\ Len(revisions') <= MaxRevisions
         /\ \A r \in Revision : revisions'[r] = revisions[r]
         /\ revisions'[NewRevision].entity = e
         /\ revisions'[NewRevision].parents = ps
         /\ \A r \in Revision' : revisions'[r].parents \subseteq Revision'
         /\ Revision \subseteq Revision'
         /\ NewRevision \in Revision'
<1> DEFINE row == [entity |-> e, content |-> x, parents |-> ps]
<1>1. revisions \in Seq(RevisionRow) /\ Len(revisions) \in Nat
  BY DEF TypeInv, TypeOK, RevisionRow
<1>2. row \in RevisionRow
  BY <1>1 DEF RevisionRow, Revision
<1>3. revisions' = Append(revisions, row) /\ row.entity = e /\ row.parents = ps
  BY DEF InsertRevision
<1> HIDE DEF row
<1>4. /\ revisions' \in Seq(RevisionRow)
      /\ Len(revisions') = Len(revisions) + 1
      /\ \A r \in 1..Len(revisions) : revisions'[r] = revisions[r]
      /\ revisions'[Len(revisions) + 1] = row
  BY <1>1, <1>2, <1>3, AppendRow
<1>5. Len(revisions') <= MaxRevisions
  BY <1>1, <1>4, BoundsAssumption DEF HasRoom
<1>6. Revision \subseteq Revision' /\ NewRevision \in Revision'
  BY <1>1, <1>4 DEF Revision, NewRevision
<1>7. ASSUME NEW r \in Revision'
      PROVE  revisions'[r].parents \subseteq Revision'
  <2>1. CASE r \in Revision
    BY <2>1, <1>4, <1>6 DEF TypeInv, TypeOK, Revision
  <2>2. CASE r = NewRevision
    BY <2>2, <1>3, <1>4, <1>6 DEF NewRevision
  <2> QED
    BY <2>1, <2>2, <1>1, <1>4 DEF Revision, NewRevision
<1> QED
  BY <1>1, <1>3, <1>4, <1>5, <1>6, <1>7 DEF Revision, NewRevision

\* A step that writes no table keeps every row; a call in flight keeps existing rows.
LEMMA ReadOnlyType ==
  ASSUME TypeInv, UNCHANGED tables, clock' \in 0..MaxClock,
         op' \in [Client -> OpState], OpRefs'
  PROVE  TypeInv'
<1>1. UNCHANGED <<revisions, history, head, proposals, decisions, approvals>>
  BY DEF tables
<1> QED
  BY <1>1 DEF TypeInv, TypeOK, Revision, Proposal

\* Ending a call, or starting one that names existing rows.
LEMMA ResetType ==
  ASSUME TypeInv, NEW c \in Client, Reset(c)
  PROVE  /\ op' \in [Client -> OpState]
         /\ \A d \in Client : op'[d] = op[d] \/ op'[d].pc = "idle"
<1>1. op \in [Client -> OpState]
  BY DEF TypeInv, TypeOK
<1> QED
  BY <1>1, IdleOK DEF Reset, Idle

\* The rows calls refer to are still there when tables only grow.
LEMMA KeepOpRefs ==
  ASSUME TypeInv, Revision \subseteq Revision', Proposal \subseteq Proposal',
         \A d \in Client : op'[d] = op[d] \/ op'[d].pc = "idle"
  PROVE  OpRefs'
BY DEF TypeInv, OpRefs

\* A tick is a later time within the bound.
LEMMA TickType ==
  ASSUME TypeInv, Tick
  PROVE  clock' \in 0..MaxClock
BY BoundsAssumption DEF TypeInv, TypeOK, Tick

\* Resolving a proposal changes its status and nothing else.
LEMMA ResolveType ==
  ASSUME TypeInv, NEW p \in Proposal, NEW s \in ProposalStatus, Resolve(p, s)
  PROVE  /\ proposals' \in Seq(ProposalRow)
         /\ Len(proposals') = Len(proposals)
         /\ \A q \in Proposal : /\ proposals'[q].entity = proposals[q].entity
                                /\ proposals'[q].base = proposals[q].base
                                /\ proposals'[q].hash = proposals[q].hash
                                /\ proposals'[q].content = proposals[q].content
<1>1. proposals \in Seq(ProposalRow)
  BY DEF TypeInv, TypeOK, ProposalRow
<1>2. \A q \in Proposal : proposals[q] \in ProposalRow
  BY <1>1 DEF Proposal
<1> DEFINE t == IF proposals[p].status = "OPEN" THEN s ELSE proposals[p].status
           row == [proposals[p] EXCEPT !.status = t]
<1>3. row \in ProposalRow
  BY <1>2 DEF ProposalRow
<1>4. proposals' = [proposals EXCEPT ![p] = row]
  BY DEF Resolve
<1> QED
  BY <1>1, <1>2, <1>3, <1>4 DEF Proposal, ProposalRow

LEMMA TypeRegister ==
  ASSUME TypeInv, NEW c \in Client, NEW e \in Entity, NEW x \in Content,
         NEW k \in ActorKind, NEW s \in Status, RegisterEntity(c, e, x, k, s)
  PROVE  TypeInv'
<1> USE DEF RegisterEntity
<1>1. {} \in SUBSET Revision
  OBVIOUS
<1>2. /\ revisions' \in Seq(RevisionRow)
      /\ Len(revisions') = Len(revisions) + 1
      /\ Len(revisions') <= MaxRevisions
      /\ \A r \in Revision' : revisions'[r].parents \subseteq Revision'
      /\ Revision \subseteq Revision' /\ NewRevision \in Revision'
  BY <1>1, InsertRevisionType
<1>3. clock' \in 0..MaxClock
  BY TickType
<1>4. history' \subseteq [rev : Revision', status : Status, at : 0..MaxClock]
  BY <1>2, <1>3 DEF TypeInv, TypeOK, StatusEvent
<1>5. head' \in [Entity -> 0..Len(revisions')]
  BY <1>2 DEF TypeInv, TypeOK, Revision, NewRevision
<1>6. approvals' \subseteq [prop : Proposal', rev : Revision', prior : Revision']
  BY <1>2 DEF TypeInv, TypeOK, Proposal
<1>7. Proposal' = Proposal
  BY DEF Proposal
<1>8. OpRefs'
  BY <1>2, <1>7, KeepOpRefs
<1>9. TypeOK'
  BY <1>2, <1>3, <1>4, <1>5, <1>6, <1>7 DEF TypeInv, TypeOK, RevisionRow
<1> QED
  BY <1>8, <1>9 DEF TypeInv

LEMMA TypeCreateRevision ==
  ASSUME TypeInv, NEW c \in Client, NEW e \in Entity, NEW x \in Content,
         NEW parent \in Revision, CreateRevision(c, e, x, parent)
  PROVE  TypeInv'
<1> USE DEF CreateRevision
<1>1. {parent} \in SUBSET Revision
  OBVIOUS
<1>2. /\ revisions' \in Seq(RevisionRow)
      /\ Len(revisions') = Len(revisions) + 1
      /\ Len(revisions') <= MaxRevisions
      /\ \A r \in Revision' : revisions'[r].parents \subseteq Revision'
      /\ Revision \subseteq Revision' /\ NewRevision \in Revision'
  BY <1>1, InsertRevisionType
<1>3. clock' \in 0..MaxClock
  BY TickType
<1>4. history' \subseteq [rev : Revision', status : Status, at : 0..MaxClock]
  BY <1>2, <1>3 DEF TypeInv, TypeOK, StatusEvent, Status
<1>5. head' \in [Entity -> 0..Len(revisions')]
  BY <1>2 DEF TypeInv, TypeOK, Revision, NewRevision
<1>6. approvals' \subseteq [prop : Proposal', rev : Revision', prior : Revision']
  BY <1>2 DEF TypeInv, TypeOK, Proposal
<1>7. Proposal' = Proposal
  BY DEF Proposal
<1>8. OpRefs'
  BY <1>2, <1>7, KeepOpRefs
<1>9. TypeOK'
  BY <1>2, <1>3, <1>4, <1>5, <1>6, <1>7 DEF TypeInv, TypeOK, RevisionRow
<1> QED
  BY <1>8, <1>9 DEF TypeInv

LEMMA TypeCreateProposal ==
  ASSUME TypeInv, NEW c \in Client, NEW e \in Entity, NEW base \in Revision,
         NEW h \in Content, NEW x \in Content, CreateProposal(c, e, base, h, x)
  PROVE  TypeInv'
<1> USE DEF CreateProposal
<1> DEFINE row == [entity |-> e, base |-> base, hash |-> h, content |-> x, status |-> "OPEN"]
<1>1. proposals \in Seq(ProposalRow) /\ row \in ProposalRow
  BY DEF TypeInv, TypeOK, ProposalRow, Revision, ProposalStatus
<1>2. proposals' = Append(proposals, row)
  OBVIOUS
<1>3. row.base = base
  OBVIOUS
<1> HIDE DEF row
<1>4. /\ proposals' \in Seq(ProposalRow)
      /\ Len(proposals') = Len(proposals) + 1
      /\ \A i \in 1..Len(proposals) : proposals'[i] = proposals[i]
      /\ proposals'[Len(proposals) + 1] = row
  BY <1>1, <1>2, AppendRow
<1>5. Revision' = Revision /\ Proposal \subseteq Proposal' /\ Len(proposals) \in Nat
  BY <1>1, <1>4 DEF Revision, Proposal
<1>6. \A p \in Proposal' : proposals'[p].base \in Revision'
  BY <1>1, <1>3, <1>4, <1>5 DEF TypeInv, TypeOK, Proposal
<1>7. Len(proposals') <= MaxProposals
  BY <1>4, <1>5, BoundsAssumption
<1>8. OpRefs'
  BY <1>5, KeepOpRefs
<1>9. decisions' \subseteq [prop : Proposal', verdict : Verdict, at : 0..MaxClock]
  BY <1>5 DEF TypeInv, TypeOK
<1>10. approvals' \subseteq [prop : Proposal', rev : Revision', prior : Revision']
  BY <1>5 DEF TypeInv, TypeOK
<1>11. TypeOK'
  BY <1>4, <1>5, <1>6, <1>7, <1>9, <1>10 DEF TypeInv, TypeOK, ProposalRow, Revision
<1> QED
  BY <1>8, <1>11 DEF TypeInv

\* The calls that only read, and the ends of a call that write nothing.
LEMMA TypeReads ==
  ASSUME TypeInv, NEW c \in Client,
         \/ \E p \in Proposal, k \in ActorKind :
              AcceptReadProposal(c, p, k) \/ RejectReadProposal(c, p, k)
         \/ AcceptReadHead(c)
         \/ \E r \in Revision, s \in Status : AdvanceReadStatus(c, r, s)
         \/ \E e \in Entity, k \in ActorKind : LockReadHead(c, e, k)
         \/ LockReadStatus(c)
         \/ Abort(c)
  PROVE  TypeInv'
<1>1. op \in [Client -> OpState] /\ clock \in 0..MaxClock
  BY DEF TypeInv, TypeOK
<1>2. /\ Len(proposals) \in Nat /\ Len(proposals) <= MaxProposals
      /\ Len(revisions) \in Nat /\ Len(revisions) <= MaxRevisions
  BY DEF TypeInv, TypeOK
<1>3. ASSUME NEW p \in Proposal, NEW k \in ActorKind,
             AcceptReadProposal(c, p, k) \/ RejectReadProposal(c, p, k)
      PROVE  TypeInv'
  <2>1. clock' \in 0..MaxClock /\ UNCHANGED tables
    BY <1>3, TickType DEF AcceptReadProposal, RejectReadProposal
  <2>2. p \in 0..MaxProposals
    BY <1>2, BoundsAssumption DEF Proposal
  <2>3. PICK pc \in {"accept_head", "reject_write"} :
          op' = [op EXCEPT ![c] = [pc |-> pc, prop |-> p, rev |-> 0, to |-> "DRAFT",
                                   at |-> clock']]
    BY <1>3 DEF AcceptReadProposal, RejectReadProposal, Idle
  <2>4. [pc |-> pc, prop |-> p, rev |-> 0, to |-> "DRAFT", at |-> clock'] \in OpState
    BY <2>1, <2>2, <2>3, BoundsAssumption DEF OpState, Status
  <2>5. op' \in [Client -> OpState]
    BY <1>1, <2>3, <2>4
  <2>6. OpRefs'
    BY <1>1, <2>1, <2>3 DEF TypeInv, OpRefs, tables, Proposal, Revision
  <2> QED
    BY <2>1, <2>5, <2>6, ReadOnlyType
<1>4. ASSUME AcceptReadHead(c) \/ LockReadStatus(c)
      PROVE  TypeInv'
  <2>1. UNCHANGED tables /\ clock' \in 0..MaxClock
    BY <1>1, <1>4 DEF AcceptReadHead, LockReadStatus
  <2>2. op' \in [Client -> OpState]
    BY <1>1, <1>4 DEF AcceptReadHead, LockReadStatus, OpState, Status
  <2>3. \A d \in Client : /\ op'[d].prop = op[d].prop /\ op'[d].rev = op[d].rev
                          /\ d # c => op'[d] = op[d]
    BY <1>1, <1>4 DEF AcceptReadHead, LockReadStatus, OpState
  <2>4. \/ op[c].pc = "accept_head" /\ op'[c].pc = "accept_write"
        \/ op[c].pc = "lock_status" /\ op'[c].pc = "lock_write"
    BY <1>1, <1>4 DEF AcceptReadHead, LockReadStatus, OpState
  <2>5. Revision' = Revision /\ Proposal' = Proposal
    BY <2>1 DEF tables, Revision, Proposal
  <2>6. OpRefs'
    BY <2>3, <2>4, <2>5 DEF TypeInv, OpRefs
  <2> QED
    BY <2>1, <2>2, <2>6, ReadOnlyType
<1>5. ASSUME NEW r \in Revision, NEW s \in Status, AdvanceReadStatus(c, r, s)
      PROVE  TypeInv'
  <2>1. UNCHANGED tables /\ clock' \in 0..MaxClock
    BY <1>1, <1>5 DEF AdvanceReadStatus
  <2> DEFINE o == [Idle EXCEPT !.pc = "advance_write", !.rev = r, !.to = s]
  <2>2. op' = [op EXCEPT ![c] = o]
    BY <1>5 DEF AdvanceReadStatus
  <2>3. r \in 0..MaxRevisions
    BY <1>2, BoundsAssumption DEF Revision
  <2>4. o \in OpState /\ o.pc = "advance_write" /\ o.rev = r
    BY <2>3, IdleOK DEF OpState, Idle
  <2>5. op' \in [Client -> OpState]
    BY <1>1, <2>2, <2>4
  <2> HIDE DEF o
  <2>6. OpRefs'
    BY <1>1, <2>1, <2>2, <2>4 DEF TypeInv, OpRefs, tables, Proposal, Revision
  <2> QED
    BY <2>1, <2>5, <2>6, ReadOnlyType
<1>6. ASSUME NEW e \in Entity, NEW k \in ActorKind, LockReadHead(c, e, k)
      PROVE  TypeInv'
  <2>1. UNCHANGED tables /\ clock' \in 0..MaxClock
    BY <1>1, <1>6 DEF LockReadHead
  <2>2. head[e] \in Revision
    <3>1. head[e] \in 0..Len(revisions)
      BY DEF TypeInv, TypeOK
    <3>2. head[e] # 0
      BY <1>6 DEF LockReadHead
    <3> QED
      BY <1>2, <3>1, <3>2 DEF Revision
  <2> DEFINE o == [Idle EXCEPT !.pc = "lock_status", !.rev = head[e]]
  <2>3. op' = [op EXCEPT ![c] = o]
    BY <1>6 DEF LockReadHead
  <2>4. head[e] \in 0..MaxRevisions
    BY <1>2, <2>2, BoundsAssumption DEF Revision
  <2>5. o \in OpState /\ o.pc = "lock_status" /\ o.rev = head[e]
    BY <2>4, IdleOK DEF OpState, Idle
  <2>6. op' \in [Client -> OpState]
    BY <1>1, <2>3, <2>5
  <2> HIDE DEF o
  <2>7. OpRefs'
    BY <1>1, <2>1, <2>2, <2>3, <2>5 DEF TypeInv, OpRefs, tables, Proposal, Revision
  <2> QED
    BY <2>1, <2>6, <2>7, ReadOnlyType
<1>7. ASSUME Abort(c)
      PROVE  TypeInv'
  <2>1. UNCHANGED tables /\ clock' \in 0..MaxClock
    BY <1>1, <1>7 DEF Abort
  <2>2. op' \in [Client -> OpState] /\ \A d \in Client : op'[d] = op[d] \/ op'[d].pc = "idle"
    BY <1>7, ResetType DEF Abort
  <2>3. OpRefs'
    BY <2>1, <2>2, KeepOpRefs DEF tables, Revision, Proposal
  <2> QED
    BY <2>1, <2>2, <2>3, ReadOnlyType
<1> QED
  BY <1>3, <1>4, <1>5, <1>6, <1>7

\* A crash forgets every call in flight and no row.
LEMMA TypeCrash ==
  ASSUME TypeInv, Crash
  PROVE  TypeInv'
<1>1. UNCHANGED tables /\ clock' \in 0..MaxClock
  BY DEF Crash, TypeInv, TypeOK
<1>2. op' \in [Client -> OpState] /\ \A d \in Client : op'[d].pc = "idle"
  BY IdleOK DEF Crash, Idle
<1>3. OpRefs'
  BY <1>2 DEF OpRefs
<1> QED
  BY <1>1, <1>2, <1>3, ReadOnlyType

LEMMA TypeAppendStatus ==
  ASSUME TypeInv, NEW c \in Client, AppendStatus(c)
  PROVE  TypeInv'
<1> USE DEF AppendStatus
<1>1. clock' \in 0..MaxClock
  BY TickType
<1>2. op[c].rev \in Revision /\ op[c].to \in Status
  BY DEF TypeInv, TypeOK, OpRefs, OpState
<1>3. history' \subseteq [rev : Revision, status : Status, at : 0..MaxClock]
  BY <1>1, <1>2 DEF TypeInv, TypeOK, StatusEvent
<1>4. Revision' = Revision /\ Proposal' = Proposal
  BY DEF Revision, Proposal
<1>5. OpRefs'
  BY <1>4, ResetType, KeepOpRefs
<1>6. TypeOK'
  BY <1>1, <1>3, <1>4, ResetType DEF TypeInv, TypeOK
<1> QED
  BY <1>5, <1>6 DEF TypeInv

LEMMA TypeRejectWrite ==
  ASSUME TypeInv, NEW c \in Client, RejectWrite(c)
  PROVE  TypeInv'
<1> USE DEF RejectWrite
<1> DEFINE p == op[c].prop
<1>1. p \in Proposal /\ op[c].at \in 0..MaxClock
  BY DEF TypeInv, TypeOK, OpRefs, OpState
<1>2. "REJECTED" \in ProposalStatus
  BY DEF ProposalStatus
<1>3. /\ proposals' \in Seq(ProposalRow)
      /\ Len(proposals') = Len(proposals)
      /\ \A q \in Proposal : proposals'[q].base = proposals[q].base
  BY <1>1, <1>2, ResolveType
<1>4. Revision' = Revision /\ Proposal' = Proposal
  BY <1>3 DEF Revision, Proposal
<1>5. decisions' \subseteq [prop : Proposal', verdict : Verdict, at : 0..MaxClock]
  BY <1>1, <1>4 DEF Decide, TypeInv, TypeOK, Verdict
<1>6. OpRefs'
  BY <1>4, ResetType, KeepOpRefs
<1>7. TypeOK'
  BY <1>3, <1>4, <1>5, ResetType DEF TypeInv, TypeOK, ProposalRow
<1> QED
  BY <1>6, <1>7 DEF TypeInv

LEMMA TypeAcceptWrite ==
  ASSUME TypeInv, NEW c \in Client, AcceptWrite(c)
  PROVE  TypeInv'
<1> USE DEF AcceptWrite
<1> DEFINE p == op[c].prop
           q == proposals[p]
<1>1. p \in Proposal /\ op[c].at \in 0..MaxClock
  BY DEF TypeInv, TypeOK, OpRefs, OpState
<1>2. q \in ProposalRow /\ q.base \in Revision
  <2>1. proposals \in Seq(ProposalRow) /\ \A i \in Proposal : proposals[i].base \in Revision
    BY DEF TypeInv, TypeOK, ProposalRow
  <2> HIDE DEF p
  <2> QED
    BY <1>1, <2>1 DEF Proposal
<1>3. q.entity \in Entity /\ q.content \in Content /\ {q.base} \in SUBSET Revision
  BY <1>2 DEF ProposalRow
<1>4. HasRoom /\ InsertRevision(q.entity, q.content, {q.base})
  OBVIOUS
<1>5. /\ revisions' \in Seq(RevisionRow)
      /\ Len(revisions') = Len(revisions) + 1
      /\ Len(revisions') <= MaxRevisions
      /\ \A r \in Revision' : revisions'[r].parents \subseteq Revision'
      /\ Revision \subseteq Revision' /\ NewRevision \in Revision'
  BY <1>3, <1>4, InsertRevisionType
<1>6. "ACCEPTED" \in ProposalStatus /\ Resolve(p, "ACCEPTED")
  BY DEF ProposalStatus
<1>7. /\ proposals' \in Seq(ProposalRow)
      /\ Len(proposals') = Len(proposals)
      /\ \A r \in Proposal : proposals'[r].base = proposals[r].base
  BY <1>1, <1>6, ResolveType
<1>8. Proposal' = Proposal
  BY <1>7 DEF Proposal
<1>9. decisions' \subseteq [prop : Proposal', verdict : Verdict, at : 0..MaxClock]
  BY <1>1, <1>8 DEF Decide, TypeInv, TypeOK, Verdict
<1>10. history' \subseteq [rev : Revision', status : Status, at : 0..MaxClock]
  BY <1>1, <1>2, <1>5 DEF TypeInv, TypeOK, StatusEvent, Status
<1>11. head' \in [Entity -> 0..Len(revisions')]
  BY <1>3, <1>5 DEF TypeInv, TypeOK, Revision, NewRevision, MoveHead
<1>12. approvals' \subseteq [prop : Proposal', rev : Revision', prior : Revision']
  BY <1>1, <1>2, <1>5, <1>8 DEF TypeInv, TypeOK
<1>13. OpRefs'
  BY <1>5, <1>8, ResetType, KeepOpRefs
<1>14. TypeOK'
  BY <1>5, <1>7, <1>8, <1>9, <1>10, <1>11, <1>12, ResetType
     DEF TypeInv, TypeOK, RevisionRow, ProposalRow
<1> QED
  BY <1>13, <1>14 DEF TypeInv

LEMMA TypeNext == TypeInv /\ [Next]_vars => TypeInv'
<1> SUFFICES ASSUME TypeInv, [Next]_vars PROVE TypeInv'
  OBVIOUS
<1>1. CASE UNCHANGED vars
  BY <1>1 DEF vars, tables, TypeInv, TypeOK, OpRefs, Revision, Proposal
<1>2. ASSUME NEW c \in Client, NEW e \in Entity, NEW x \in Content,
             \/ \E k \in ActorKind, s \in Status : RegisterEntity(c, e, x, k, s)
             \/ \E r \in Revision : CreateRevision(c, e, x, r)
             \/ \E r \in Revision, h \in Content : CreateProposal(c, e, r, h, x)
      PROVE  TypeInv'
  BY <1>2, TypeRegister, TypeCreateRevision, TypeCreateProposal
<1>3. ASSUME NEW c \in Client, AcceptWrite(c) \/ RejectWrite(c) \/ AppendStatus(c)
      PROVE  TypeInv'
  BY <1>3, TypeAppendStatus, TypeRejectWrite, TypeAcceptWrite
<1> QED
  BY <1>1, <1>2, <1>3, TypeReads, TypeCrash DEF Next, Revision, Proposal

\* Type correctness: every row of every table is well-formed and every foreign key resolves,
\* whatever the clients interleave (the schema of migration 0002).
THEOREM TypeCorrect == Spec => []TypeOK
<1>1. TypeInv => TypeOK
  BY DEF TypeInv
<1> QED
  BY <1>1, TypeInit, TypeNext, PTL DEF Spec

(***************************************************************************)
(* Linearity.  LinearAuthority is not inductive: that two approvals never  *)
(* share a prior follows from the compare-and-set only because a prior     *)
(* lies strictly below the head of its own entity.                         *)
(***************************************************************************)
EntityOf(r) == revisions[r].entity

\* A head belongs to the entity it heads, a baseline to the entity of its proposal.
RowsAgree ==
  /\ \A e \in Entity : head[e] # 0 => EntityOf(head[e]) = e
  /\ \A p \in Proposal : EntityOf(proposals[p].base) = proposals[p].entity

\* Each approval moved the head of one entity from its prior up to its revision.
ApprovalsClimb ==
  \A a \in approvals : /\ EntityOf(a.prior) = EntityOf(a.rev)
                        /\ a.prior < a.rev
                        /\ a.rev <= head[EntityOf(a.rev)]

LineInv == TypeInv /\ RowsAgree /\ ApprovalsClimb /\ LinearAuthority

LEMMA LineInit == Init => LineInv
<1> SUFFICES ASSUME Init PROVE LineInv
  OBVIOUS
<1>1. TypeInv
  BY TypeInit
<1>2. approvals = {} /\ Proposal = {} /\ \A e \in Entity : head[e] = 0
  BY DEF Init, Proposal
<1> QED
  BY <1>1, <1>2 DEF LineInv, RowsAgree, ApprovalsClimb, LinearAuthority

\* Types the proofs below use again and again.
LEMMA LineTypes ==
  ASSUME TypeInv
  PROVE  /\ \A a \in approvals : a.rev \in Revision /\ a.prior \in Revision
         /\ \A e \in Entity : head[e] \in 0..Len(revisions)
         /\ \A e \in Entity : head[e] # 0 => head[e] \in Revision
         /\ \A r \in Revision : revisions[r] \in RevisionRow /\ EntityOf(r) \in Entity
         /\ \A p \in Proposal : proposals[p] \in ProposalRow /\ proposals[p].base \in Revision
         /\ Len(revisions) \in Nat /\ Revision \subseteq Nat
<1>1. revisions \in Seq(RevisionRow) /\ proposals \in Seq(ProposalRow)
  BY DEF TypeInv, TypeOK, RevisionRow, ProposalRow
<1>2. \A r \in Revision : revisions[r] \in RevisionRow /\ EntityOf(r) \in Entity
  <2>1. \A r \in Revision : revisions[r] \in RevisionRow
    BY <1>1 DEF Revision
  <2> QED
    BY <2>1 DEF RevisionRow, EntityOf
<1>3. \A p \in Proposal : proposals[p] \in ProposalRow
  BY <1>1 DEF Proposal
<1>4. \A e \in Entity : head[e] \in 0..Len(revisions)
  BY DEF TypeInv, TypeOK
<1>5. Len(revisions) \in Nat /\ Revision \subseteq Nat
  BY <1>1 DEF Revision
<1>6. \A a \in approvals : a.rev \in Revision /\ a.prior \in Revision
  BY DEF TypeInv, TypeOK
<1>7. \A p \in Proposal : proposals[p].base \in Revision
  BY DEF TypeInv, TypeOK
<1> QED
  BY <1>2, <1>3, <1>4, <1>5, <1>6, <1>7 DEF Revision

\* A step that moves no head, approves nothing and keeps the entity of every revision and of
\* every proposal keeps the line.
LEMMA LineKept ==
  ASSUME LineInv, TypeInv', UNCHANGED <<head, approvals>>,
         \A r \in Revision : revisions'[r].entity = revisions[r].entity,
         \A p \in Proposal' : EntityOf(proposals[p].base)' = proposals'[p].entity
  PROVE  LineInv'
<1>1. \A a \in approvals : a.rev \in Revision /\ a.prior \in Revision
  BY LineTypes DEF LineInv
<1>2. \A e \in Entity : head[e] # 0 => head[e] \in Revision
  BY LineTypes DEF LineInv
<1>3. RowsAgree'
  BY <1>2 DEF LineInv, RowsAgree, EntityOf
<1>4. ApprovalsClimb' /\ LinearAuthority'
  BY <1>1 DEF LineInv, ApprovalsClimb, LinearAuthority, EntityOf
<1> QED
  BY <1>3, <1>4 DEF LineInv

\* A step that leaves the revisions, the heads and the approvals alone and only resolves
\* proposals.
LEMMA LineQuiet ==
  ASSUME LineInv, TypeInv', UNCHANGED <<revisions, head, approvals>>,
         Proposal' = Proposal,
         \A p \in Proposal : /\ proposals'[p].base = proposals[p].base
                              /\ proposals'[p].entity = proposals[p].entity
  PROVE  LineInv'
BY LineKept DEF LineInv, RowsAgree, EntityOf

LEMMA LineRegister ==
  ASSUME LineInv, TypeInv', NEW c \in Client, NEW e \in Entity, NEW x \in Content,
         NEW k \in ActorKind, NEW s \in Status, RegisterEntity(c, e, x, k, s)
  PROVE  LineInv'
<1>1. TypeInv /\ {} \in SUBSET Revision /\ HasRoom /\ InsertRevision(e, x, {})
  BY DEF LineInv, RegisterEntity
<1>2. /\ \A r \in Revision : revisions'[r] = revisions[r]
      /\ revisions'[NewRevision].entity = e
      /\ NewRevision \notin Revision
  <2>1. NewRevision \notin Revision
    BY <1>1, LineTypes DEF Revision, NewRevision
  <2> QED
    BY <1>1, <2>1, InsertRevisionType
<1>3. /\ UNCHANGED <<approvals, proposals>> /\ head[e] = 0
      /\ head' = [head EXCEPT ![e] = NewRevision]
  BY DEF RegisterEntity
<1>4. head \in [Entity -> 0..Len(revisions)]
  BY <1>1 DEF TypeInv, TypeOK
<1>5. RowsAgree'
  BY <1>1, <1>2, <1>3, <1>4, LineTypes DEF LineInv, RowsAgree, EntityOf, Proposal
<1>6. \A a \in approvals : /\ EntityOf(a.rev) # e
                            /\ EntityOf(a.rev)' = EntityOf(a.rev)
                            /\ EntityOf(a.prior)' = EntityOf(a.prior)
                            /\ head'[EntityOf(a.rev)] = head[EntityOf(a.rev)]
  <2>1. ASSUME NEW a \in approvals
        PROVE  EntityOf(a.rev) # e
    BY <1>1, <1>3, LineTypes DEF LineInv, ApprovalsClimb
  <2> QED
    BY <1>1, <1>2, <1>3, <1>4, <2>1, LineTypes DEF EntityOf
<1>7. ApprovalsClimb' /\ LinearAuthority'
  BY <1>3, <1>6 DEF LineInv, ApprovalsClimb, LinearAuthority, EntityOf
<1> QED
  BY <1>5, <1>7 DEF LineInv

LEMMA LineCreateRevision ==
  ASSUME LineInv, TypeInv', NEW c \in Client, NEW e \in Entity, NEW x \in Content,
         NEW parent \in Revision, CreateRevision(c, e, x, parent)
  PROVE  LineInv'
<1>1. TypeInv /\ {parent} \in SUBSET Revision /\ HasRoom /\ InsertRevision(e, x, {parent})
  BY DEF LineInv, CreateRevision
<1>2. \A r \in Revision : revisions'[r] = revisions[r]
  BY <1>1, InsertRevisionType
<1>3. UNCHANGED <<head, approvals, proposals>>
  BY DEF CreateRevision
<1>4. \A p \in Proposal' : EntityOf(proposals[p].base)' = proposals'[p].entity
  BY <1>1, <1>2, <1>3, LineTypes DEF LineInv, RowsAgree, EntityOf, Proposal
<1> QED
  BY <1>2, <1>3, <1>4, LineKept

LEMMA LineCreateProposal ==
  ASSUME LineInv, TypeInv', NEW c \in Client, NEW e \in Entity, NEW base \in Revision,
         NEW h \in Content, NEW x \in Content, CreateProposal(c, e, base, h, x)
  PROVE  LineInv'
<1>1. UNCHANGED <<revisions, head, approvals>> /\ revisions[base].entity = e
  BY DEF CreateProposal
<1> DEFINE row == [entity |-> e, base |-> base, hash |-> h, content |-> x, status |-> "OPEN"]
<1>2. proposals' = Append(proposals, row)
  BY DEF CreateProposal
<1>3. proposals \in Seq(ProposalRow) /\ row \in ProposalRow
  BY LineTypes DEF LineInv, TypeInv, TypeOK, ProposalRow, Revision, ProposalStatus
<1>4. row.base = base /\ row.entity = e
  OBVIOUS
<1> HIDE DEF row
<1>5. /\ Len(proposals') = Len(proposals) + 1 /\ Len(proposals) \in Nat
      /\ \A i \in 1..Len(proposals) : proposals'[i] = proposals[i]
      /\ proposals'[Len(proposals) + 1] = row
  BY <1>2, <1>3, AppendRow
<1>6. \A p \in Proposal' : EntityOf(proposals[p].base)' = proposals'[p].entity
  BY <1>1, <1>4, <1>5 DEF LineInv, RowsAgree, EntityOf, Proposal
<1> QED
  BY <1>1, <1>6, LineKept

\* The compare-and-set: the baseline is the head, so it lies above every earlier prior of its
\* entity, and the new revision lies above it.
LEMMA LineAcceptWrite ==
  ASSUME LineInv, TypeInv', NEW c \in Client, AcceptWrite(c)
  PROVE  LineInv'
<1> DEFINE p == op[c].prop
           q == proposals[p]
           e == q.entity
           new == [prop |-> p, rev |-> NewRevision, prior |-> q.base]
<1>1. TypeInv /\ RowsAgree /\ ApprovalsClimb /\ LinearAuthority
  BY DEF LineInv
<1>2. p \in Proposal
  BY <1>1 DEF TypeInv, OpRefs, AcceptWrite
<1>3. /\ HeadMatches(p) /\ HasRoom /\ InsertRevision(e, q.content, {q.base})
      /\ MoveHead(e, NewRevision) /\ Resolve(p, "ACCEPTED")
      /\ approvals' = approvals \union {new}
  BY DEF AcceptWrite
<1>4. q \in ProposalRow /\ q.base \in Revision
  BY <1>1, <1>2, LineTypes
<1>5. e \in Entity /\ q.content \in Content /\ {q.base} \in SUBSET Revision
  BY <1>4 DEF ProposalRow
<1>6. head[e] = q.base /\ EntityOf(q.base) = e
  BY <1>1, <1>2, <1>3 DEF HeadMatches, RowsAgree
<1> HIDE DEF q, e, p
<1>7. /\ \A r \in Revision : revisions'[r] = revisions[r]
      /\ revisions'[NewRevision].entity = e
  BY <1>1, <1>3, <1>5, InsertRevisionType
<1>8. NewRevision \in Nat /\ \A r \in Revision : r \in Nat /\ r < NewRevision
  BY <1>1, LineTypes DEF Revision, NewRevision
<1>9. head' = [head EXCEPT ![e] = NewRevision] /\ head \in [Entity -> 0..Len(revisions)]
  BY <1>1, <1>3 DEF MoveHead, TypeInv, TypeOK
<1>10. \A r \in Revision : EntityOf(r)' = EntityOf(r)
  BY <1>7 DEF EntityOf
<1>11. new.rev = NewRevision /\ new.prior = q.base
  OBVIOUS
<1> HIDE DEF new
<1>12. RowsAgree'
  <2>1. \A d \in Entity : head'[d] # 0 => revisions'[head'[d]].entity = d
    BY <1>1, <1>5, <1>7, <1>9, LineTypes DEF RowsAgree, EntityOf
  <2>2. Proposal' = Proposal
        /\ \A r \in Proposal : /\ proposals'[r].base = proposals[r].base
                               /\ proposals'[r].entity = proposals[r].entity
    BY <1>1, <1>2, <1>3, ResolveType DEF Proposal, ProposalStatus
  <2>3. \A r \in Proposal' : revisions'[proposals'[r].base].entity = proposals'[r].entity
    BY <1>1, <1>7, <2>2, LineTypes DEF RowsAgree, EntityOf
  <2> QED
    BY <2>1, <2>3 DEF RowsAgree, EntityOf
<1>13. \A a \in approvals : a.prior # q.base /\ a.rev # NewRevision
  <2>1. ASSUME NEW a \in approvals, a.prior = q.base
        PROVE  FALSE
    \* its revision would be above the head
    BY <1>1, <1>6, <2>1, <1>5, LineTypes DEF ApprovalsClimb
  <2>2. ASSUME NEW a \in approvals
        PROVE  a.rev # NewRevision
    BY <1>1, <1>8, LineTypes
  <2> QED
    BY <2>1, <2>2
<1>14. ApprovalsClimb'
  <2>1. ASSUME NEW a \in approvals
        PROVE  /\ revisions'[a.prior].entity = revisions'[a.rev].entity
               /\ a.prior < a.rev
               /\ a.rev <= head'[revisions'[a.rev].entity]
    <3>1. /\ a.rev \in Revision /\ a.prior \in Revision
          /\ revisions'[a.rev].entity = EntityOf(a.rev)
          /\ revisions'[a.prior].entity = EntityOf(a.prior)
      BY <1>1, <1>7, LineTypes DEF EntityOf
    <3> QED
      BY <1>1, <1>5, <1>8, <1>9, <3>1, LineTypes DEF ApprovalsClimb
  <2>2. /\ revisions'[q.base].entity = revisions'[NewRevision].entity
        /\ q.base < NewRevision
        /\ NewRevision <= head'[revisions'[NewRevision].entity]
    BY <1>4, <1>5, <1>6, <1>7, <1>8, <1>9 DEF EntityOf
  <2> QED
    BY <1>3, <1>11, <2>1, <2>2 DEF ApprovalsClimb, EntityOf
<1>15. LinearAuthority'
  <2>1. \A a, b \in approvals' : a.prior = b.prior => a = b
    BY <1>1, <1>3, <1>11, <1>13 DEF LinearAuthority
  <2>2. ASSUME NEW a \in approvals', head'[revisions'[a.rev].entity] # a.rev
        PROVE  \E b \in approvals' : b.prior = a.rev
    <3>1. a # new
      BY <1>5, <1>7, <1>9, <1>11, <2>2
    <3>2. a \in approvals /\ a.rev \in Revision /\ revisions'[a.rev].entity = EntityOf(a.rev)
      BY <1>1, <1>3, <1>7, <3>1, LineTypes DEF EntityOf
    <3>3. CASE head[EntityOf(a.rev)] = a.rev
      \* it was the head until now: the new approval supersedes it
      BY <1>3, <1>5, <1>6, <1>9, <1>11, <2>2, <3>2, <3>3, <1>1, LineTypes
    <3>4. CASE head[EntityOf(a.rev)] # a.rev
      BY <1>1, <1>3, <3>2, <3>4 DEF LinearAuthority, EntityOf
    <3> QED
      BY <3>3, <3>4
  <2> QED
    BY <2>1, <2>2 DEF LinearAuthority
<1> QED
  BY <1>12, <1>14, <1>15 DEF LineInv

\* Every step but the four above leaves revisions, heads and approvals alone.
LEMMA LineQuietSteps ==
  ASSUME LineInv, TypeInv', NEW c \in Client,
         \/ \E p \in Proposal, k \in ActorKind :
              AcceptReadProposal(c, p, k) \/ RejectReadProposal(c, p, k)
         \/ AcceptReadHead(c) \/ RejectWrite(c)
         \/ \E r \in Revision, s \in Status : AdvanceReadStatus(c, r, s)
         \/ \E e \in Entity, k \in ActorKind : LockReadHead(c, e, k)
         \/ LockReadStatus(c) \/ AppendStatus(c) \/ Abort(c) \/ Crash
  PROVE  LineInv'
<1>1. CASE RejectWrite(c)
  <2>1. TypeInv /\ op[c].prop \in Proposal /\ Resolve(op[c].prop, "REJECTED")
    BY <1>1 DEF LineInv, TypeInv, OpRefs, RejectWrite
  <2>2. /\ Len(proposals') = Len(proposals)
        /\ \A p \in Proposal : /\ proposals'[p].base = proposals[p].base
                                /\ proposals'[p].entity = proposals[p].entity
    BY <2>1, ResolveType DEF ProposalStatus
  <2>3. UNCHANGED <<revisions, head, approvals>>
    BY <1>1 DEF RejectWrite
  <2> QED
    BY <2>2, <2>3, LineQuiet DEF Proposal
<1>2. CASE ~ RejectWrite(c)
  <2>1. UNCHANGED <<revisions, head, approvals, proposals>>
    BY <1>2 DEF AcceptReadProposal, RejectReadProposal, AcceptReadHead, AdvanceReadStatus,
       LockReadHead, LockReadStatus, AppendStatus, Abort, Crash, tables
  <2> QED
    BY <2>1, LineQuiet DEF Proposal
<1> QED
  BY <1>1, <1>2

LEMMA LineNext == LineInv /\ [Next]_vars => LineInv'
<1> SUFFICES ASSUME LineInv, [Next]_vars PROVE LineInv'
  OBVIOUS
<1>1. TypeInv'
  BY TypeNext DEF LineInv
<1>2. CASE UNCHANGED vars
  BY <1>1, <1>2, LineQuiet DEF vars, tables, Proposal
<1>3. ASSUME NEW c \in Client, NEW e \in Entity, NEW x \in Content,
             \/ \E k \in ActorKind, s \in Status : RegisterEntity(c, e, x, k, s)
             \/ \E r \in Revision : CreateRevision(c, e, x, r)
             \/ \E r \in Revision, h \in Content : CreateProposal(c, e, r, h, x)
      PROVE  LineInv'
  BY <1>1, <1>3, LineRegister, LineCreateRevision, LineCreateProposal
<1>4. ASSUME NEW c \in Client, AcceptWrite(c)
      PROVE  LineInv'
  BY <1>1, <1>4, LineAcceptWrite
<1>5. CASE Crash
  <2>1. PICK c \in Client : op[c].pc # "idle"
    BY <1>5 DEF Crash
  <2> QED
    BY <1>1, <1>5, <2>1, LineQuietSteps
<1> QED
  BY <1>1, <1>2, <1>3, <1>4, <1>5, LineQuietSteps DEF Next, Revision, Proposal

LEMMA LineAlways == Spec => []LineInv
BY LineInit, LineNext, PTL DEF Spec

\* Authority stays a line for any number of clients, entities, revisions and proposals: a
\* baseline is superseded once, and only the head is approved and not superseded.
THEOREM AuthorityIsLinear == Spec => []LinearAuthority
<1>1. LineInv => LinearAuthority
  BY DEF LineInv
<1> QED
  BY <1>1, LineAlways, PTL

\* What a step can do to the heads: nothing, or install one new revision at one entity.
LEMMA HeadStep ==
  ASSUME TypeInv, [Next]_vars
  PROVE  \/ UNCHANGED <<head, approvals>>
         \/ \E e \in Entity :
              /\ head[e] = 0
              /\ head' = [head EXCEPT ![e] = NewRevision]
              /\ UNCHANGED approvals
         \/ \E e \in Entity, p \in Proposal :
              /\ head[e] # 0
              /\ head' = [head EXCEPT ![e] = NewRevision]
              /\ revisions'[NewRevision].parents = {head[e]}
              /\ approvals' = approvals \union
                    {[prop |-> p, rev |-> NewRevision, prior |-> head[e]]}
<1>1. ASSUME NEW c \in Client, NEW e \in Entity, NEW x \in Content, NEW k \in ActorKind,
             NEW s \in Status, RegisterEntity(c, e, x, k, s)
      PROVE  /\ head[e] = 0
             /\ head' = [head EXCEPT ![e] = NewRevision]
             /\ UNCHANGED approvals
  BY <1>1 DEF RegisterEntity
<1>2. ASSUME NEW c \in Client, AcceptWrite(c)
      PROVE  \E e \in Entity, p \in Proposal :
               /\ head[e] # 0
               /\ head' = [head EXCEPT ![e] = NewRevision]
               /\ revisions'[NewRevision].parents = {head[e]}
               /\ approvals' = approvals \union
                     {[prop |-> p, rev |-> NewRevision, prior |-> head[e]]}
  <2> DEFINE p == op[c].prop
             q == proposals[p]
  <2>1. p \in Proposal
    BY <1>2 DEF TypeInv, OpRefs, AcceptWrite
  <2>2. q \in ProposalRow /\ q.base \in Revision /\ Revision \subseteq Nat
    BY <2>1, LineTypes
  <2>3. q.entity \in Entity /\ q.content \in Content /\ {q.base} \in SUBSET Revision
    BY <2>2 DEF ProposalRow
  <2>4. /\ HasRoom /\ InsertRevision(q.entity, q.content, {q.base})
        /\ head[q.entity] = q.base
        /\ head' = [head EXCEPT ![q.entity] = NewRevision]
        /\ approvals' = approvals \union {[prop |-> p, rev |-> NewRevision, prior |-> q.base]}
    BY <1>2 DEF AcceptWrite, HeadMatches, MoveHead
  <2>5. q.base # 0
    BY <2>2 DEF Revision
  <2> HIDE DEF q, p
  <2>6. revisions'[NewRevision].parents = {q.base}
    BY <2>3, <2>4, InsertRevisionType
  <2> QED
    BY <2>1, <2>3, <2>4, <2>5, <2>6
<1>3. ASSUME UNCHANGED vars
      PROVE  UNCHANGED <<head, approvals>>
  BY <1>3 DEF vars, tables
<1>4. ASSUME NEW c \in Client, NEW e \in Entity, NEW x \in Content,
             \/ \E r \in Revision : CreateRevision(c, e, x, r)
             \/ \E r \in Revision, h \in Content : CreateProposal(c, e, r, h, x)
      PROVE  UNCHANGED <<head, approvals>>
  BY <1>4 DEF CreateRevision, CreateProposal
<1>5. ASSUME NEW c \in Client,
             \/ \E p \in Proposal, k \in ActorKind :
                  AcceptReadProposal(c, p, k) \/ RejectReadProposal(c, p, k)
             \/ AcceptReadHead(c) \/ RejectWrite(c)
             \/ \E r \in Revision, s \in Status : AdvanceReadStatus(c, r, s)
             \/ \E e \in Entity, k \in ActorKind : LockReadHead(c, e, k)
             \/ LockReadStatus(c) \/ AppendStatus(c) \/ Abort(c)
      PROVE  UNCHANGED <<head, approvals>>
  BY <1>5 DEF AcceptReadProposal, RejectReadProposal, AcceptReadHead, RejectWrite,
     AdvanceReadStatus, LockReadHead, LockReadStatus, AppendStatus, Abort, tables
<1>6. ASSUME Crash
      PROVE  UNCHANGED <<head, approvals>>
  BY <1>6 DEF Crash, tables
<1> QED
  BY <1>1, <1>2, <1>3, <1>4, <1>5, <1>6 DEF Next, Revision, Proposal

\* A head moves forward only, to a child of the head it replaces: an acceptance computed on a
\* stale baseline never overwrites a committed one.
THEOREM NoUpdateIsLost == Spec => NoLostUpdate
<1> DEFINE Kept == \A e \in Entity : head'[e] # head[e] /\ head[e] # 0 =>
                     /\ head'[e] > head[e]
                     /\ revisions'[head'[e]].parents = {head[e]}
<1>1. ASSUME LineInv, [Next]_vars PROVE Kept
  <2>1. TypeInv
    BY <1>1 DEF LineInv
  <2>2. head \in [Entity -> 0..Len(revisions)] /\ Len(revisions) \in Nat
    BY <2>1 DEF TypeInv, TypeOK
  <2>3. \A e \in Entity : NewRevision > head[e]
    BY <2>2 DEF NewRevision
  <2> QED
    BY <1>1, <2>1, <2>2, <2>3, HeadStep
<1>2. LineInv /\ [Next]_vars => [Kept]_vars
  BY <1>1
<1> QED
  BY <1>2, LineAlways, PTL DEF Spec, NoLostUpdate

(***************************************************************************)
(* Each proposal is accepted once, as it was written.  That no two         *)
(* approvals share a proposal follows from linearity once an approval is   *)
(* known to supersede the baseline its proposal names; that a proposal     *)
(* being accepted has no ACCEPT decision yet, from every such decision     *)
(* having its approval.                                                    *)
(***************************************************************************)
AcceptDecisions(p) == {d \in decisions : d.prop = p /\ d.verdict = "ACCEPT"}

\* An approval carries the content and the baseline of its proposal, and one decision.
ApprovalsMatch ==
  \A a \in approvals :
    /\ revisions[a.rev].content = proposals[a.prop].content
    /\ revisions[a.rev].entity = proposals[a.prop].entity
    /\ revisions[a.rev].parents = {proposals[a.prop].base}
    /\ a.prior = proposals[a.prop].base
    /\ \E d \in decisions : AcceptDecisions(a.prop) = {d}

\* An ACCEPT decision, and the ACCEPTED status, come with an approval.
AcceptsApproved ==
  /\ \A d \in decisions : d.verdict = "ACCEPT" => \E a \in approvals : a.prop = d.prop
  /\ \A p \in Proposal : proposals[p].status = "ACCEPTED" => \E a \in approvals : a.prop = p

AcceptInv == LineInv /\ ApprovalsMatch /\ AcceptsApproved

LEMMA AcceptInit == Init => AcceptInv
<1> SUFFICES ASSUME Init PROVE AcceptInv
  OBVIOUS
<1>1. approvals = {} /\ decisions = {} /\ Proposal = {}
  BY DEF Init, Proposal
<1> QED
  BY <1>1, LineInit DEF AcceptInv, ApprovalsMatch, AcceptsApproved

LEMMA ApprovalTypes ==
  ASSUME TypeInv
  PROVE  \A a \in approvals : a.prop \in Proposal /\ a.rev \in Revision
BY DEF TypeInv, TypeOK

\* A step that approves nothing, accepts nothing and keeps the rows approvals refer to.
LEMMA AcceptKept ==
  ASSUME AcceptInv, LineInv', UNCHANGED approvals,
         \A r \in Revision : revisions'[r] = revisions[r],
         \A p \in Proposal : /\ proposals'[p].content = proposals[p].content
                              /\ proposals'[p].entity = proposals[p].entity
                              /\ proposals'[p].base = proposals[p].base,
         \A p \in Proposal' : proposals'[p].status = "ACCEPTED" =>
                               p \in Proposal /\ proposals[p].status = "ACCEPTED",
         decisions \subseteq decisions',
         \A d \in decisions' : d.verdict = "ACCEPT" => d \in decisions
  PROVE  AcceptInv'
<1>1. \A a \in approvals : a.prop \in Proposal /\ a.rev \in Revision
  BY ApprovalTypes DEF AcceptInv, LineInv
<1>2. \A p : AcceptDecisions(p)' = AcceptDecisions(p)
  BY DEF AcceptDecisions
<1>3. ApprovalsMatch'
  BY <1>1, <1>2 DEF AcceptInv, ApprovalsMatch
<1>4. AcceptsApproved'
  BY DEF AcceptInv, AcceptsApproved
<1> QED
  BY <1>3, <1>4 DEF AcceptInv

\* The acceptance itself.
LEMMA AcceptAccepts ==
  ASSUME AcceptInv, LineInv', NEW c \in Client, AcceptWrite(c)
  PROVE  AcceptInv'
<1> DEFINE p == op[c].prop
           q == proposals[p]
           t == op[c].at
           new == [prop |-> p, rev |-> NewRevision, prior |-> q.base]
           verdict == [prop |-> p, verdict |-> "ACCEPT", at |-> t]
<1>1. TypeInv /\ LineInv /\ ApprovalsClimb /\ RowsAgree
  BY DEF AcceptInv, LineInv
<1>2. p \in Proposal
  BY <1>1 DEF TypeInv, OpRefs, AcceptWrite
<1>3. q \in ProposalRow /\ q.base \in Revision
  BY <1>1, <1>2, LineTypes
<1>4. q.entity \in Entity /\ q.content \in Content /\ {q.base} \in SUBSET Revision
  BY <1>3 DEF ProposalRow
<1>5. /\ HeadMatches(p) /\ HasRoom /\ InsertRevision(q.entity, q.content, {q.base})
      /\ Resolve(p, "ACCEPTED")
      /\ approvals' = approvals \union {new}
      /\ decisions' = decisions \union {verdict}
  BY DEF AcceptWrite, Decide
<1>6. /\ new.prop = p /\ new.rev = NewRevision /\ new.prior = q.base
      /\ verdict.prop = p /\ verdict.verdict = "ACCEPT"
  OBVIOUS
<1>7. /\ \A r \in Revision : revisions'[r] = revisions[r]
      /\ revisions'[NewRevision].entity = q.entity
      /\ revisions'[NewRevision].parents = {q.base}
      /\ revisions'[NewRevision].content = q.content
  <2>1. revisions'[NewRevision] = [entity |-> q.entity, content |-> q.content,
                                    parents |-> {q.base}]
    BY <1>1, <1>5 DEF InsertRevision, NewRevision, TypeInv, TypeOK
  <2>2. \A r \in Revision : revisions'[r] = revisions[r]
    BY <1>1, <1>4, <1>5, InsertRevisionType
  <2> QED
    BY <2>1, <2>2
<1>8. /\ Proposal' = Proposal
      /\ \A r \in Proposal : /\ proposals'[r].content = proposals[r].content
                              /\ proposals'[r].entity = proposals[r].entity
                              /\ proposals'[r].base = proposals[r].base
  BY <1>1, <1>2, <1>5, ResolveType DEF Proposal, ProposalStatus
<1>9. \A r \in Proposal : r # p => proposals'[r] = proposals[r]
  BY <1>5 DEF Resolve, Proposal
<1>10. head[q.entity] = q.base
  BY <1>5 DEF HeadMatches
<1> HIDE DEF new, verdict, q, p
<1>11. \A a \in approvals : a.prop # p
  \* its approval would supersede the baseline, which is still the head
  <2> SUFFICES ASSUME NEW a \in approvals, a.prop = p
               PROVE  FALSE
    OBVIOUS
  <2>1. a.prior = q.base /\ revisions[a.rev].entity = q.entity
    BY DEF AcceptInv, ApprovalsMatch, q
  <2>2. a.prior < a.rev /\ a.rev <= head[q.entity]
    BY <1>1, <2>1 DEF ApprovalsClimb, EntityOf
  <2> QED
    BY <1>1, <1>10, <2>1, <2>2, <1>3, LineTypes
<1>12. AcceptDecisions(p) = {}
  BY <1>11 DEF AcceptInv, AcceptsApproved, AcceptDecisions
<1>13. /\ \A r : r = p => AcceptDecisions(r)' = {verdict}
       /\ \A r : r # p => AcceptDecisions(r)' = AcceptDecisions(r)
  <2>1. ASSUME NEW r
        PROVE  AcceptDecisions(r)' = {d \in decisions \union {verdict} :
                                        d.prop = r /\ d.verdict = "ACCEPT"}
    BY <1>5 DEF AcceptDecisions
  <2>2. \A r : r = p => AcceptDecisions(r)' = AcceptDecisions(r) \union {verdict}
    BY <1>6, <2>1 DEF AcceptDecisions
  <2>3. \A r : r # p => AcceptDecisions(r)' = AcceptDecisions(r)
    BY <1>6, <2>1 DEF AcceptDecisions
  <2> QED
    BY <1>12, <2>2, <2>3
<1>14. ASSUME NEW a \in approvals'
       PROVE  /\ revisions'[a.rev].content = proposals'[a.prop].content
              /\ revisions'[a.rev].entity = proposals'[a.prop].entity
              /\ revisions'[a.rev].parents = {proposals'[a.prop].base}
              /\ a.prior = proposals'[a.prop].base
              /\ \E d \in decisions' : AcceptDecisions(a.prop)' = {d}
  <2>1. CASE a = new
    <3>1. verdict \in decisions' /\ AcceptDecisions(a.prop)' = {verdict}
      BY <1>5, <1>6, <1>13, <2>1
    <3>2. /\ proposals'[p].content = q.content
          /\ proposals'[p].entity = q.entity
          /\ proposals'[p].base = q.base
      BY <1>2, <1>8 DEF q
    <3> QED
      BY <1>6, <1>7, <2>1, <3>1, <3>2
  <2>2. CASE a \in approvals
    <3>1. a.prop \in Proposal /\ a.rev \in Revision /\ a.prop # p
      BY <1>1, <1>11, <2>2, ApprovalTypes
    <3> QED
      BY <1>5, <1>7, <1>8, <1>13, <2>2, <3>1 DEF AcceptInv, ApprovalsMatch
  <2> QED
    BY <1>5, <2>1, <2>2
<1>15. ApprovalsMatch'
  BY <1>14 DEF ApprovalsMatch
<1>16. AcceptsApproved'
  BY <1>5, <1>6, <1>8, <1>9 DEF AcceptInv, AcceptsApproved
<1> QED
  BY <1>15, <1>16 DEF AcceptInv

LEMMA AcceptNext == AcceptInv /\ [Next]_vars => AcceptInv'
<1> SUFFICES ASSUME AcceptInv, [Next]_vars PROVE AcceptInv'
  OBVIOUS
<1>1. LineInv' /\ TypeInv
  BY LineNext DEF AcceptInv, LineInv
<1>2. ASSUME UNCHANGED <<revisions, approvals, proposals, decisions>>
      PROVE  AcceptInv'
  BY <1>1, <1>2, AcceptKept DEF Proposal
<1>3. CASE UNCHANGED vars
  BY <1>2, <1>3 DEF vars, tables
<1>4. ASSUME NEW c \in Client, NEW e \in Entity, NEW x \in Content, NEW ps \in SUBSET Revision,
             HasRoom, InsertRevision(e, x, ps), UNCHANGED <<approvals, proposals, decisions>>
      PROVE  AcceptInv'
  <2>1. \A r \in Revision : revisions'[r] = revisions[r]
    BY <1>1, <1>4, InsertRevisionType
  <2> QED
    BY <1>1, <1>4, <2>1, AcceptKept DEF Proposal
<1>5. ASSUME NEW c \in Client, NEW e \in Entity, NEW x \in Content,
             \/ \E k \in ActorKind, s \in Status : RegisterEntity(c, e, x, k, s)
             \/ \E r \in Revision : CreateRevision(c, e, x, r)
      PROVE  AcceptInv'
  <2>1. PICK ps \in SUBSET Revision : InsertRevision(e, x, ps)
    BY <1>5 DEF RegisterEntity, CreateRevision
  <2> QED
    BY <1>4, <1>5, <2>1 DEF RegisterEntity, CreateRevision
<1>6. ASSUME NEW c \in Client, NEW e \in Entity, NEW x \in Content,
             NEW r \in Revision, NEW h \in Content, CreateProposal(c, e, r, h, x)
      PROVE  AcceptInv'
  <2> DEFINE row == [entity |-> e, base |-> r, hash |-> h, content |-> x, status |-> "OPEN"]
  <2>1. proposals \in Seq(ProposalRow) /\ row \in ProposalRow
    BY <1>1 DEF TypeInv, TypeOK, ProposalRow, Revision, ProposalStatus
  <2>2. proposals' = Append(proposals, row) /\ row.status = "OPEN"
    BY <1>6 DEF CreateProposal
  <2> HIDE DEF row
  <2>3. /\ \A p \in Proposal : proposals'[p] = proposals[p]
        /\ \A p \in Proposal' : p \in Proposal \/ proposals'[p].status = "OPEN"
    BY <2>1, <2>2, AppendRow DEF Proposal
  <2>4. UNCHANGED <<revisions, approvals, decisions>>
    BY <1>6 DEF CreateProposal
  <2> QED
    BY <1>1, <2>3, <2>4, AcceptKept
<1>7. ASSUME NEW c \in Client, RejectWrite(c)
      PROVE  AcceptInv'
  <2>1. op[c].prop \in Proposal /\ Resolve(op[c].prop, "REJECTED")
    BY <1>1, <1>7 DEF TypeInv, OpRefs, RejectWrite
  <2>2. /\ Proposal' = Proposal
        /\ \A p \in Proposal : /\ proposals'[p].content = proposals[p].content
                                /\ proposals'[p].entity = proposals[p].entity
                                /\ proposals'[p].base = proposals[p].base
    BY <1>1, <2>1, ResolveType DEF Proposal, ProposalStatus
  <2>3. \A p \in Proposal : proposals'[p].status = "ACCEPTED" =>
                             proposals[p].status = "ACCEPTED"
    <3>1. \A p \in Proposal : proposals[p] \in ProposalRow
      BY <1>1, LineTypes
    <3> QED
      BY <2>1, <3>1 DEF Resolve, Proposal, ProposalRow
  <2>4. /\ decisions' = decisions \union
                          {[prop |-> op[c].prop, verdict |-> "REJECT", at |-> op[c].at]}
        /\ UNCHANGED <<revisions, approvals>>
    BY <1>7 DEF RejectWrite, Decide
  <2>5. \A d \in decisions' : d.verdict = "ACCEPT" => d \in decisions
    BY <2>4
  <2> QED
    BY <1>1, <2>2, <2>3, <2>4, <2>5, AcceptKept
<1>8. ASSUME NEW c \in Client,
             \/ \E p \in Proposal, k \in ActorKind :
                  AcceptReadProposal(c, p, k) \/ RejectReadProposal(c, p, k)
             \/ AcceptReadHead(c)
             \/ \E r \in Revision, s \in Status : AdvanceReadStatus(c, r, s)
             \/ \E e \in Entity, k \in ActorKind : LockReadHead(c, e, k)
             \/ LockReadStatus(c) \/ AppendStatus(c) \/ Abort(c)
      PROVE  AcceptInv'
  BY <1>2, <1>8 DEF AcceptReadProposal, RejectReadProposal, AcceptReadHead, AdvanceReadStatus,
     LockReadHead, LockReadStatus, AppendStatus, Abort, tables
<1>9. CASE Crash
  BY <1>2, <1>9 DEF Crash, tables
<1> QED
  BY <1>1, <1>3, <1>5, <1>6, <1>7, <1>8, <1>9, AcceptAccepts DEF Next, Revision, Proposal

\* However many clients accept and reject it, a proposal becomes authority at most once, as the
\* content it proposed on the baseline it named, with exactly one ACCEPT decision.
THEOREM ProposalsAreAcceptedOnce == Spec => []AcceptedExactlyOnce
<1>1. ASSUME AcceptInv PROVE AcceptedExactlyOnce
  <2>1. \A a, b \in approvals : a.prop = b.prop => a = b
    BY <1>1 DEF AcceptInv, ApprovalsMatch, LineInv, LinearAuthority
  <2>2. ASSUME NEW a \in approvals
        PROVE  Cardinality({d \in decisions : d.prop = a.prop /\ d.verdict = "ACCEPT"}) = 1
    <3>1. PICK d \in decisions : AcceptDecisions(a.prop) = {d}
      BY <1>1 DEF AcceptInv, ApprovalsMatch
    <3>2. Cardinality({d}) = 1
      BY FS_Singleton
    <3> QED
      BY <3>1, <3>2 DEF AcceptDecisions
  <2> QED
    BY <1>1, <2>1, <2>2 DEF AcceptedExactlyOnce, AcceptInv, ApprovalsMatch, AcceptsApproved
<1>2. AcceptInv => AcceptedExactlyOnce
  BY <1>1
<1> QED
  BY <1>2, AcceptInit, AcceptNext, PTL DEF Spec

(***************************************************************************)
(* The head is never superseded, whatever the times of its status events:  *)
(* only an acceptance writes SUPERSEDED, for the prior of its approval,    *)
(* and a prior lies strictly below the head of its entity.                 *)
(***************************************************************************)
\* The status the latest event gives exists: a head has an event, and times are bounded.
HeadsHaveEvents == \A e \in Entity : head[e] # 0 => \E h \in history : h.rev = head[e]

SupersededArePriors ==
  \A h \in history : h.status = "SUPERSEDED" => \E a \in approvals : a.prior = h.rev

\* A call that will append a status event appends none of SUPERSEDED.
NoCallSupersedes == \A c \in Client : op[c].to # "SUPERSEDED"

HeadInv == LineInv /\ HeadsHaveEvents /\ SupersededArePriors /\ NoCallSupersedes

\* Of finitely many times one is the latest.
LEMMA LatestEvent ==
  ASSUME NEW m \in Nat, NEW H, H # {}, \A h \in H : h.at \in 0..m
  PROVE  \E h \in H : \A g \in H : g.at <= h.at
<1> DEFINE back == {m - h.at : h \in H}
<1>1. back \subseteq Nat /\ back # {}
  OBVIOUS
<1>2. PICK k \in back : \A j \in back : ~ (<<j, k>> \in OpToRel(<, Nat))
  BY <1>1, NatLessThanWellFounded, WFMin
<1>3. \A j \in back : ~ (j < k)
  BY <1>1, <1>2 DEF OpToRel
<1>4. PICK h \in H : k = m - h.at
  OBVIOUS
<1>5. ASSUME NEW g \in H
      PROVE  g.at <= h.at
  <2>1. g.at \in Nat /\ h.at \in Nat
    OBVIOUS
  <2>2. m - g.at \in back
    OBVIOUS
  <2>3. ~ (m - g.at < m - h.at)
    BY <1>3, <1>4, <2>2
  <2> QED
    BY <2>1, <2>3
<1> QED
  BY <1>5

LEMMA HeadInit == Init => HeadInv
<1> SUFFICES ASSUME Init PROVE HeadInv
  OBVIOUS
<1>1. history = {} /\ \A e \in Entity : head[e] = 0
  BY DEF Init
<1>2. NoCallSupersedes
  BY DEF Init, NoCallSupersedes, Idle
<1> QED
  BY <1>1, <1>2, LineInit DEF HeadInv, HeadsHaveEvents, SupersededArePriors

\* A step that moves no head keeps the events and writes no SUPERSEDED event.
LEMMA HeadKept ==
  ASSUME HeadInv, LineInv', NoCallSupersedes', UNCHANGED <<head, approvals>>,
         history \subseteq history',
         \A h \in history' : h.status = "SUPERSEDED" => h \in history
  PROVE  HeadInv'
BY DEF HeadInv, HeadsHaveEvents, SupersededArePriors

LEMMA HeadNext == HeadInv /\ [Next]_vars => HeadInv'
<1> SUFFICES ASSUME HeadInv, [Next]_vars PROVE HeadInv'
  OBVIOUS
<1>1. LineInv' /\ LineInv /\ TypeInv /\ op \in [Client -> OpState]
  BY LineNext DEF HeadInv, LineInv, TypeInv, TypeOK
<1>2. head \in [Entity -> 0..Len(revisions)]
  BY <1>1 DEF TypeInv, TypeOK
<1>3. CASE UNCHANGED vars
  BY <1>1, <1>3, HeadKept DEF vars, tables, HeadInv, NoCallSupersedes
<1>4. ASSUME NEW c \in Client, NEW e \in Entity, NEW x \in Content, NEW k \in ActorKind,
             NEW s \in Status, RegisterEntity(c, e, x, k, s)
      PROVE  HeadInv'
  <2> DEFINE event == [rev |-> NewRevision, status |-> s, at |-> clock']
  <2>1. /\ head' = [head EXCEPT ![e] = NewRevision] /\ history' = history \union {event}
        /\ s # "SUPERSEDED" /\ UNCHANGED <<approvals, op>>
    BY <1>4 DEF RegisterEntity, StatusEvent
  <2>2. event.rev = NewRevision /\ event.status = s
    OBVIOUS
  <2> HIDE DEF event
  <2> QED
    BY <1>1, <1>2, <2>1, <2>2
       DEF HeadInv, HeadsHaveEvents, SupersededArePriors, NoCallSupersedes
<1>5. ASSUME NEW c \in Client, NEW e \in Entity, NEW x \in Content,
             \/ \E r \in Revision : CreateRevision(c, e, x, r)
             \/ \E r \in Revision, h \in Content : CreateProposal(c, e, r, h, x)
      PROVE  HeadInv'
  <2>1. UNCHANGED <<head, approvals, op>> /\ history \subseteq history'
    BY <1>5 DEF CreateRevision, CreateProposal
  <2>2. \A h \in history' : h \in history \/ h.status = "DRAFT"
    <3> DEFINE event == [rev |-> NewRevision, status |-> "DRAFT", at |-> clock']
    <3>1. history' = history \/ history' = history \union {event}
      BY <1>5 DEF CreateRevision, CreateProposal, StatusEvent
    <3>2. event.status = "DRAFT"
      OBVIOUS
    <3> HIDE DEF event
    <3> QED
      BY <3>1, <3>2
  <2> QED
    BY <1>1, <2>1, <2>2, HeadKept DEF HeadInv, NoCallSupersedes
<1>6. ASSUME NEW c \in Client, AcceptWrite(c)
      PROVE  HeadInv'
  <2> DEFINE p == op[c].prop
             q == proposals[p]
             t == op[c].at
             new == [prop |-> p, rev |-> NewRevision, prior |-> q.base]
             up == [rev |-> NewRevision, status |-> "APPROVED", at |-> t]
             down == [rev |-> q.base, status |-> "SUPERSEDED", at |-> t]
  <2>1. /\ head' = [head EXCEPT ![q.entity] = NewRevision]
        /\ approvals' = approvals \union {new}
        /\ history' = history \union {up, down}
        /\ op' = [op EXCEPT ![c] = Idle]
    BY <1>6 DEF AcceptWrite, MoveHead, StatusEvent, Reset
  <2>2. /\ new.prior = q.base /\ up.rev = NewRevision /\ up.status = "APPROVED"
        /\ down.rev = q.base /\ down.status = "SUPERSEDED"
    OBVIOUS
  <2> HIDE DEF p, q, t, new, up, down
  <2>3. HeadsHaveEvents'
    BY <1>2, <2>1, <2>2 DEF HeadInv, HeadsHaveEvents
  <2>4. SupersededArePriors'
    BY <2>1, <2>2 DEF HeadInv, SupersededArePriors
  <2>5. NoCallSupersedes'
    BY <1>1, <2>1 DEF HeadInv, NoCallSupersedes, Idle
  <2> QED
    BY <1>1, <2>3, <2>4, <2>5 DEF HeadInv
<1>7. ASSUME NEW c \in Client, RejectWrite(c) \/ Abort(c)
      PROVE  HeadInv'
  <2>1. UNCHANGED <<head, approvals, history>> /\ op' = [op EXCEPT ![c] = Idle]
    BY <1>7 DEF RejectWrite, Abort, Reset, tables
  <2>2. NoCallSupersedes'
    BY <1>1, <2>1 DEF HeadInv, NoCallSupersedes, Idle
  <2> QED
    BY <1>1, <2>1, <2>2, HeadKept
<1>8. ASSUME NEW c \in Client, AppendStatus(c)
      PROVE  HeadInv'
  <2> DEFINE event == [rev |-> op[c].rev, status |-> op[c].to, at |-> clock']
  <2>1. /\ UNCHANGED <<head, approvals>> /\ op' = [op EXCEPT ![c] = Idle]
        /\ history' = history \union {event}
    BY <1>8 DEF AppendStatus, Reset, StatusEvent
  <2>2. event.status # "SUPERSEDED"
    BY DEF HeadInv, NoCallSupersedes
  <2> HIDE DEF event
  <2>3. NoCallSupersedes'
    BY <1>1, <2>1 DEF HeadInv, NoCallSupersedes, Idle
  <2> QED
    BY <1>1, <2>1, <2>2, <2>3, HeadKept
<1>9. ASSUME NEW c \in Client,
             \/ \E p \in Proposal, k \in ActorKind :
                  AcceptReadProposal(c, p, k) \/ RejectReadProposal(c, p, k)
             \/ AcceptReadHead(c)
             \/ \E r \in Revision, s \in Status : AdvanceReadStatus(c, r, s)
             \/ \E e \in Entity, k \in ActorKind : LockReadHead(c, e, k)
             \/ LockReadStatus(c)
      PROVE  HeadInv'
  <2>1. UNCHANGED <<head, approvals, history>>
    BY <1>9 DEF AcceptReadProposal, RejectReadProposal, AcceptReadHead, AdvanceReadStatus,
       LockReadHead, LockReadStatus, tables
  <2>2. \A d \in Client : op'[d] = op[d] \/ op'[d].to # "SUPERSEDED"
    <3>1. CASE AcceptReadHead(c)
      <4>1. op' = [op EXCEPT ![c] = [op[c] EXCEPT !.pc = "accept_write"]]
        BY <3>1 DEF AcceptReadHead
      <4>2. op'[c].to = op[c].to
        BY <1>1, <4>1 DEF OpState
      <4> QED
        BY <1>1, <4>1, <4>2 DEF HeadInv, NoCallSupersedes
    <3>2. CASE LockReadStatus(c)
      <4>1. op' = [op EXCEPT ![c] = [op[c] EXCEPT !.pc = "lock_write", !.to = "LOCKED"]]
        BY <1>1, <3>2 DEF LockReadStatus
      <4>2. op'[c].to = "LOCKED"
        BY <1>1, <4>1 DEF OpState
      <4> QED
        BY <1>1, <4>1, <4>2
    <3>3. ASSUME NEW p \in Proposal, NEW k \in ActorKind,
                 AcceptReadProposal(c, p, k) \/ RejectReadProposal(c, p, k)
          PROVE  \A d \in Client : op'[d] = op[d] \/ op'[d].to # "SUPERSEDED"
      <4>1. PICK pc \in {"accept_head", "reject_write"} :
              op' = [op EXCEPT ![c] = [pc |-> pc, prop |-> p, rev |-> 0, to |-> "DRAFT",
                                       at |-> clock']]
        BY <3>3 DEF AcceptReadProposal, RejectReadProposal, Idle
      <4> QED
        BY <1>1, <4>1
    <3>4. ASSUME NEW e \in Entity, NEW k \in ActorKind, LockReadHead(c, e, k)
          PROVE  \A d \in Client : op'[d] = op[d] \/ op'[d].to # "SUPERSEDED"
      <4> DEFINE o == [Idle EXCEPT !.pc = "lock_status", !.rev = head[e]]
      <4>1. op' = [op EXCEPT ![c] = o] /\ o.to = "DRAFT"
        BY <3>4 DEF LockReadHead, Idle
      <4> HIDE DEF o
      <4> QED
        BY <1>1, <4>1
    <3>5. ASSUME NEW r \in Revision, NEW s \in Status, AdvanceReadStatus(c, r, s)
          PROVE  \A d \in Client : op'[d] = op[d] \/ op'[d].to # "SUPERSEDED"
      <4>1. s # "SUPERSEDED"
        BY <3>5 DEF AdvanceReadStatus
      <4> DEFINE o == [Idle EXCEPT !.pc = "advance_write", !.rev = r, !.to = s]
      <4>2. op' = [op EXCEPT ![c] = o] /\ o.to = s
        BY <3>5 DEF AdvanceReadStatus, Idle
      <4> HIDE DEF o
      <4> QED
        BY <1>1, <4>1, <4>2
    <3> QED
      BY <1>9, <3>1, <3>2, <3>3, <3>4, <3>5
  <2>3. NoCallSupersedes'
    BY <2>2 DEF HeadInv, NoCallSupersedes
  <2> QED
    BY <1>1, <2>1, <2>3, HeadKept
<1>10. CASE Crash
  <2>1. UNCHANGED <<head, approvals, history>> /\ op' = [c \in Client |-> Idle]
    BY <1>10 DEF Crash, tables
  <2>2. NoCallSupersedes'
    BY <2>1 DEF NoCallSupersedes, Idle
  <2> QED
    BY <1>1, <2>1, <2>2, HeadKept
<1> QED
  BY <1>3, <1>4, <1>5, <1>6, <1>7, <1>8, <1>9, <1>10 DEF Next, Revision, Proposal

\* What get_head reports is never superseded, for any times the callers captured.
THEOREM HeadsAreLive == Spec => []HeadIsLive
<1>1. ASSUME HeadInv PROVE HeadIsLive
  <2> SUFFICES ASSUME NEW e \in Entity, head[e] # 0
               PROVE  EffectiveStatus(head[e]) # "SUPERSEDED"
    BY DEF HeadIsLive
  <2> DEFINE H == {h \in history : h.rev = head[e]}
             latest == CHOOSE h \in history : /\ h.rev = head[e]
                                              /\ \A g \in history : g.rev = head[e] =>
                                                                      g.at <= h.at
  <2>1. H # {} /\ \A h \in H : h.at \in 0..MaxClock
    BY <1>1 DEF HeadInv, HeadsHaveEvents, LineInv, TypeInv, TypeOK
  <2>2. \E h \in H : \A g \in H : g.at <= h.at
    <3> HIDE DEF H
    <3> QED
      BY <2>1, LatestEvent, BoundsAssumption
  <2>3. latest \in history /\ latest.rev = head[e]
    <3>1. \E h \in history : /\ h.rev = head[e]
                             /\ \A g \in history : g.rev = head[e] => g.at <= h.at
      BY <2>2
    <3> QED
      BY <3>1
  <2>4. EffectiveStatus(head[e]) = latest.status
    BY DEF EffectiveStatus
  <2> HIDE DEF latest, H
  <2>5. ASSUME latest.status = "SUPERSEDED" PROVE FALSE
    <3>1. PICK a \in approvals : a.prior = head[e]
      BY <1>1, <2>3, <2>5 DEF HeadInv, SupersededArePriors
    <3>2. EntityOf(a.rev) = e
      BY <1>1, <3>1 DEF HeadInv, LineInv, RowsAgree, ApprovalsClimb
    <3>3. a.prior < a.rev /\ a.rev <= head[e]
      BY <1>1, <3>2 DEF HeadInv, LineInv, ApprovalsClimb
    <3> QED
      BY <1>1, <3>1, <3>3, LineTypes DEF HeadInv, LineInv
  <2> QED
    BY <2>4, <2>5
<1>2. HeadInv => HeadIsLive
  BY <1>1
<1> QED
  BY <1>2, HeadInit, HeadNext, PTL DEF Spec

(***************************************************************************)
(* Refinement: heads and superseded baselines behave as AuthorityLine.     *)
(***************************************************************************)
LEMMA RefinesInit == Init => Line!Init
BY DEF Init, Line!Init

LEMMA RefinesNext ==
  ASSUME LineInv, [Next]_vars
  PROVE  [Line!Next]_<<head, {a.prior : a \in approvals}>>
<1>1. TypeInv
  BY DEF LineInv
<1>2. head \in [Entity -> 0..Len(revisions)] /\ Len(revisions) \in Nat
  BY <1>1 DEF TypeInv, TypeOK
<1>3. Line!Fresh(NewRevision)
  <2>1. \A a \in approvals : a.prior # NewRevision
    BY <1>1, LineTypes DEF Revision, NewRevision
  <2>2. \A e \in Entity : head[e] # NewRevision
    BY <1>2 DEF NewRevision
  <2>3. NewRevision \in Nat /\ NewRevision # 0
    BY <1>2 DEF NewRevision
  <2> QED
    BY <2>1, <2>2, <2>3 DEF Line!Fresh
<1>4. CASE UNCHANGED <<head, approvals>>
  BY <1>4
<1>5. ASSUME NEW e \in Entity, head[e] = 0, head' = [head EXCEPT ![e] = NewRevision],
             UNCHANGED approvals
      PROVE  Line!Next
  <2>1. head'[e] = NewRevision
    BY <1>2, <1>5
  <2> QED
    BY <1>3, <1>5, <2>1 DEF Line!Next, Line!Establish
<1>6. ASSUME NEW e \in Entity, NEW p \in Proposal, head[e] # 0,
             head' = [head EXCEPT ![e] = NewRevision],
             approvals' = approvals \union
               {[prop |-> p, rev |-> NewRevision, prior |-> head[e]]}
      PROVE  Line!Next
  <2>1. head'[e] = NewRevision
    BY <1>2, <1>6
  <2>2. {a.prior : a \in approvals'} = {a.prior : a \in approvals} \union {head[e]}
    <3> DEFINE new == [prop |-> p, rev |-> NewRevision, prior |-> head[e]]
    <3>1. approvals' = approvals \union {new} /\ new.prior = head[e]
      BY <1>6
    <3> HIDE DEF new
    <3> QED
      BY <3>1
  <2> QED
    BY <1>3, <1>6, <2>1, <2>2 DEF Line!Next, Line!Replace
<1> QED
  BY <1>1, <1>4, <1>5, <1>6, HeadStep

\* The engine, with any number of requests in flight and with crashes, implements the promise
\* of AuthorityLine: one current revision per entity, replaced only by a fresh one.
THEOREM EngineImplementsLine == Spec => ImplementsLine
<1>1. LineInv /\ [Next]_vars => [Line!Next]_<<head, {a.prior : a \in approvals}>>
  BY RefinesNext
<1> QED
  BY <1>1, RefinesInit, LineAlways, PTL DEF Spec, ImplementsLine, Line!Spec
==============================================================================
