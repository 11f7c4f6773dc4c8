--------------------------- MODULE EditorialProofs ---------------------------
(***************************************************************************)
(* Proofs about Editorial: type correctness, that corrections are applied  *)
(* as diagnosed, that findings are closed for a cause on record and, while *)
(* calls come one at a time, once and for good; and the refinement of      *)
(* AuthorityLine.                                                          *)
(***************************************************************************)
EXTENDS Editorial, TLAPS

FindingRow  == [unit : Unit, base : Rev, status : FindingStatus,
                closings : Seq([prior : FindingStatus, new : FindingStatus])]
ProposalRow == [unit : Unit, base : Rev, status : ProposalStatus]

(***************************************************************************)
(* The inductive invariant, part by part.                                  *)
(***************************************************************************)
\* A current head was never replaced, no two units share one, and no revision is replaced twice.
TextInv ==
  /\ revisions \in Rev0
  /\ head \in [Unit -> 0..revisions]
  /\ approvals \subseteq [proposal : 0..Len(proposals), prior : 1..revisions, rev : 1..revisions]
  /\ \A u, v \in Unit : head[u] = head[v] /\ head[u] # 0 => u = v
  /\ \A a \in approvals, u \in Unit : a.prior # head[u]
  /\ \A a, b \in approvals : a.prior = b.prior => a = b

RowsInv ==
  /\ findings \in Seq(FindingRow) /\ Len(findings) <= MaxFindings
  /\ proposals \in Seq(ProposalRow) /\ Len(proposals) <= MaxProposals
  /\ links \subseteq (1..Len(findings)) \X (1..Len(proposals))
  /\ waivers \subseteq 1..Len(findings)

\* A proposal is based on what its finding diagnosed, an approval replaced what its proposal
\* was based on.
AgreeInv ==
  /\ \A l \in links : proposals[l[2]].base = findings[l[1]].base
                      /\ proposals[l[2]].unit = findings[l[1]].unit
  /\ \A a \in approvals : a.proposal # 0 => a.prior = proposals[a.proposal].base

CauseInv ==
  \A f \in 1..Len(findings) :
    /\ findings[f].status = "RESOLVED" => Corrections(f) # {}
    /\ findings[f].status = "WAIVED" => f \in waivers

\* What a call in flight has read, or written in an earlier transaction of its own.
Facts(c) ==
  LET o == op[c]
  IN /\ o.pc = "insert_finding" => o.base \in Rev
     /\ o.pc \notin {"idle", "insert_finding"} => o.finding \in 1..Len(findings)
     /\ o.pc = "propose_insert" => /\ o.base = findings[o.finding].base
                                   /\ o.unit = findings[o.finding].unit
     /\ o.pc = "propose_link" => /\ o.proposal \in 1..Len(proposals)
                                 /\ proposals[o.proposal].base = findings[o.finding].base
                                 /\ proposals[o.proposal].unit = findings[o.finding].unit
     /\ o.pc \in {"accept_open", "accept_write", "reject_write", "revise_write"} =>
          <<o.finding, o.proposal>> \in links
     /\ o.pc \in {"accept_open", "accept_write"} => o.verdict = "RESOLVED"
     /\ o.pc \in {"waive_list", "waive_write"} => o.verdict = "WAIVED"
     /\ o.pc \in {"close_read", "close_write"} =>
          \/ o.verdict = "RESOLVED" /\ Corrections(o.finding) # {}
          \/ o.verdict = "WAIVED" /\ o.finding \in waivers

OpsInv == op \in [Client -> OpState] /\ \A c \in Client : Facts(c)

CountInv == calls \in 0..MaxCalls /\ overlapped \in BOOLEAN

EditInv == TextInv /\ RowsInv /\ AgreeInv /\ CauseInv /\ OpsInv /\ CountInv

\* Tables only grow, and a row keeps its unit and its base.
Grows ==
  /\ Len(findings) <= Len(findings') /\ Len(findings') \in Nat
  /\ \A f \in 1..Len(findings) : /\ findings'[f].unit = findings[f].unit
                                 /\ findings'[f].base = findings[f].base
  /\ Len(proposals) <= Len(proposals') /\ Len(proposals') \in Nat
  /\ \A p \in 1..Len(proposals) : /\ proposals'[p].unit = proposals[p].unit
                                  /\ proposals'[p].base = proposals[p].base
  /\ links \subseteq links' /\ waivers \subseteq waivers' /\ approvals \subseteq approvals'

(***************************************************************************)
(* Calls.                                                                  *)
(***************************************************************************)
LEMMA IdleOK == Idle \in OpState /\ Idle.pc = "idle"
BY BoundsAssumption, UnitAssumption DEF Idle, OpState, FindingStatus, Rev0

\* A correction stays on record.
LEMMA CorrectionsStay ==
  ASSUME NEW f, Corrections(f) # {}, links \subseteq links', approvals \subseteq approvals', f' = f
  PROVE  Corrections(f)' # {}
BY DEF Corrections

\* What an untouched call knows stays true while tables grow.
LEMMA KeepFacts ==
  ASSUME RowsInv, Grows, NEW d \in Client, Facts(d), op'[d] = op[d]
  PROVE  Facts(d)'
<1> DEFINE o == op[d]
<1>1. Len(findings) \in Nat /\ Len(proposals) \in Nat
  BY DEF RowsInv
<1>2. \A f \in 1..Len(findings) : f \in 1..Len(findings')
  BY <1>1 DEF Grows
<1>3. \A p \in 1..Len(proposals) : p \in 1..Len(proposals')
  BY <1>1 DEF Grows
<1>4. \A l \in links : l[1] \in 1..Len(findings) /\ l[2] \in 1..Len(proposals)
  BY DEF RowsInv
<1>5. Corrections(op[d].finding) # {} => {a \in approvals' : <<op[d].finding, a.proposal>> \in links'} # {}
  BY DEF Corrections, Grows
<1> QED
  BY <1>2, <1>3, <1>4, <1>5 DEF Facts, Grows, Corrections

LEMMA IdleFacts ==
  ASSUME NEW d \in Client, op'[d] = Idle
  PROVE  Facts(d)'
BY IdleOK DEF Facts

\* One call goes on, the others stay.
LEMMA GotoOps ==
  ASSUME RowsInv, OpsInv, Grows, NEW c \in Client, NEW o \in OpState, Goto(c, o),
         op'[c] = o => Facts(c)'
  PROVE  OpsInv'
<1>1. op' \in [Client -> OpState] /\ op'[c] = o /\ \A d \in Client \ {c} : op'[d] = op[d]
  BY DEF Goto, OpsInv
<1>2. \A d \in Client \ {c} : Facts(d)'
  BY <1>1, KeepFacts DEF OpsInv
<1> QED
  BY <1>1, <1>2 DEF OpsInv

LEMMA FinishOps ==
  ASSUME RowsInv, OpsInv, Grows, NEW c \in Client, Finish(c)
  PROVE  OpsInv'
BY GotoOps, IdleOK, IdleFacts DEF Finish

\* Untouched calls.
LEMMA SameOps ==
  ASSUME RowsInv, OpsInv, Grows, UNCHANGED op
  PROVE  OpsInv'
BY KeepFacts DEF OpsInv

LEMMA CountOK ==
  ASSUME CountInv, Count \/ UNCHANGED count
  PROVE  CountInv'
<1>1. CASE Count
  <2>1. calls' \in 0..MaxCalls
    BY <1>1, BoundsAssumption DEF CountInv, Count
  <2>2. overlapped' \in BOOLEAN
    BY <1>1, Zenon DEF Count
  <2> QED
    BY <2>1, <2>2 DEF CountInv
<1>2. CASE UNCHANGED count
  BY <1>2 DEF CountInv, count
<1> QED
  BY <1>1, <1>2

\* A read changes no table.
LEMMA SameTables ==
  ASSUME RowsInv, UNCHANGED <<text, corpus>>
  PROVE  /\ Grows
         /\ TextInv => TextInv'
         /\ RowsInv'
         /\ AgreeInv => AgreeInv'
         /\ CauseInv => CauseInv'
<1>1. UNCHANGED <<head, revisions, approvals, findings, proposals, links, waivers>>
  BY DEF text, corpus
<1> QED
  BY <1>1 DEF Grows, RowsInv, TextInv, AgreeInv, CauseInv, Corrections

(***************************************************************************)
(* Steps that change tables.                                               *)
(***************************************************************************)
LEMMA AppendRow ==
  ASSUME NEW S, NEW s \in Seq(S), NEW x \in S
  PROVE  /\ Append(s, x) \in Seq(S)
         /\ Len(Append(s, x)) = Len(s) + 1
         /\ \A i \in 1..Len(s) : Append(s, x)[i] = s[i]
         /\ Append(s, x)[Len(s) + 1] = x
OBVIOUS

\* Deciding proposals changes their status and nothing else.
LEMMA ResolveRows ==
  ASSUME RowsInv, NEW ps, NEW status \in ProposalStatus, Resolve(ps, status)
  PROVE  /\ proposals' \in Seq(ProposalRow) /\ Len(proposals') = Len(proposals)
         /\ \A p \in 1..Len(proposals) : /\ proposals'[p].unit = proposals[p].unit
                                         /\ proposals'[p].base = proposals[p].base
<1> DEFINE n == Len(proposals)
           row(p) == IF p \in ps /\ proposals[p].status = "OPEN"
                     THEN [proposals[p] EXCEPT !.status = status] ELSE proposals[p]
<1>1. n \in Nat /\ \A p \in 1..n : proposals[p] \in ProposalRow
  BY DEF RowsInv
<1>2. ASSUME NEW p \in 1..n
      PROVE  row(p) \in ProposalRow /\ row(p).unit = proposals[p].unit /\ row(p).base = proposals[p].base
  BY <1>1 DEF ProposalRow
<1>3. proposals' = [p \in 1..n |-> row(p)]
  BY DEF Resolve
<1> HIDE DEF row
<1>4. proposals' \in [1..n -> ProposalRow] /\ \A p \in 1..n : proposals'[p] = row(p)
  BY <1>2, <1>3
<1>5. proposals' \in Seq(ProposalRow) /\ Len(proposals') = n
  BY <1>1, <1>3, <1>4
<1> QED
  BY <1>2, <1>4, <1>5

\* The same with the tables that refer to proposals.
LEMMA ResolveTables ==
  ASSUME EditInv, NEW ps, NEW status \in ProposalStatus, Resolve(ps, status),
         UNCHANGED <<text, findings, links>>, waivers \subseteq waivers',
         waivers' \subseteq 1..Len(findings)
  PROVE  Grows /\ TextInv' /\ RowsInv' /\ AgreeInv' /\ CauseInv'
<1>1. UNCHANGED <<head, revisions, approvals, findings, links>>
  BY DEF text
<1>2. /\ proposals' \in Seq(ProposalRow) /\ Len(proposals') = Len(proposals)
      /\ \A p \in 1..Len(proposals) : /\ proposals'[p].unit = proposals[p].unit
                                      /\ proposals'[p].base = proposals[p].base
  BY ResolveRows DEF EditInv
<1>3. Grows
  BY <1>1, <1>2 DEF Grows, EditInv, RowsInv
<1>4. TextInv' /\ RowsInv'
  BY <1>1, <1>2 DEF EditInv, TextInv, RowsInv
<1>5. AgreeInv'
  <2>1. \A l \in links : l[1] \in 1..Len(findings) /\ l[2] \in 1..Len(proposals)
    BY DEF EditInv, RowsInv
  <2>2. \A a \in approvals : a.proposal # 0 => a.proposal \in 1..Len(proposals)
    <3>1. Len(proposals) \in Nat
      BY DEF EditInv, RowsInv
    <3> QED
      BY <3>1 DEF EditInv, TextInv
  <2> QED
    BY <1>1, <1>2, <2>1, <2>2 DEF EditInv, AgreeInv
<1>6. CauseInv'
  BY <1>1 DEF EditInv, CauseInv, Corrections
<1> QED
  BY <1>3, <1>4, <1>5, <1>6

\* A fresh revision replaces the head of a unit, under the proposal that was based on it.
LEMMA ApproveText ==
  ASSUME EditInv, NEW p \in 0..Len(proposals), NEW u \in Unit, head[u] # 0,
         Approve(p, u, head[u]), Len(proposals') = Len(proposals)
  PROVE  /\ TextInv' /\ approvals \subseteq approvals'
         /\ \A a \in approvals' : a \in approvals \/ (a.proposal = p /\ a.prior = head[u])
         /\ \E a \in approvals' : a.proposal = p
<1> DEFINE row == [proposal |-> p, prior |-> head[u], rev |-> NewRevision]
<1>1. /\ revisions < MaxRevisions /\ revisions' = revisions + 1 /\ NewRevision = revisions + 1
      /\ head' = [head EXCEPT ![u] = revisions + 1]
      /\ approvals' = approvals \union {row}
  BY DEF Approve, NewRow, NewRevision
<1>2. revisions \in Nat /\ revisions' \in Rev0
  BY <1>1, BoundsAssumption DEF EditInv, TextInv, Rev0
<1>3. /\ head' \in [Unit -> 0..revisions']
      /\ \A v \in Unit : head'[v] = IF v = u THEN revisions + 1 ELSE head[v]
      /\ \A v \in Unit : head[v] \in 0..revisions
  BY <1>1, <1>2 DEF EditInv, TextInv
<1>4. row.proposal = p /\ row.prior = head[u] /\ row.rev = revisions + 1
  BY <1>1
<1>5. row \in [proposal : 0..Len(proposals'), prior : 1..revisions', rev : 1..revisions']
  BY <1>1, <1>2, <1>3
<1> HIDE DEF row
<1>6. /\ approvals' \subseteq [proposal : 0..Len(proposals'), prior : 1..revisions', rev : 1..revisions']
      /\ \A a \in approvals : a.prior \in 1..revisions
  <2>1. approvals \subseteq [proposal : 0..Len(proposals), prior : 1..revisions, rev : 1..revisions]
    BY DEF EditInv, TextInv
  <2>2. 1..revisions \subseteq 1..revisions'
    BY <1>1, <1>2
  <2>3. approvals \subseteq [proposal : 0..Len(proposals'), prior : 1..revisions', rev : 1..revisions']
    BY <2>1, <2>2
  <2> QED
    BY <1>1, <1>5, <2>1, <2>3
<1>7. \A v, w \in Unit : head'[v] = head'[w] /\ head'[v] # 0 => v = w
  BY <1>2, <1>3 DEF EditInv, TextInv
<1>8. \A a \in approvals', v \in Unit : a.prior # head'[v]
  <2>1. \A v \in Unit : row.prior # head'[v]
    BY <1>2, <1>3, <1>4 DEF EditInv, TextInv
  <2>2. \A a \in approvals, v \in Unit : a.prior # head'[v]
    BY <1>2, <1>3, <1>6 DEF EditInv, TextInv
  <2> QED
    BY <1>1, <2>1, <2>2
<1>9. \A a, b \in approvals' : a.prior = b.prior => a = b
  BY <1>1, <1>4 DEF EditInv, TextInv
<1>10. TextInv'
  BY <1>2, <1>3, <1>6, <1>7, <1>8, <1>9 DEF TextInv, Rev0
<1> QED
  BY <1>1, <1>4, <1>10

\* A closed finding keeps its cause while tables grow.
LEMMA CauseStays ==
  ASSUME EditInv, Grows, UNCHANGED findings
  PROVE  CauseInv'
<1>1. \A f \in 1..Len(findings) : Corrections(f) # {} => Corrections(f)' # {}
  BY DEF Grows, Corrections
<1> QED
  BY <1>1 DEF EditInv, CauseInv, Grows

(***************************************************************************)
(* One step per action.                                                    *)
(***************************************************************************)
\* A call starts with a read.
LEMMA StartStep ==
  ASSUME EditInv, NEW c \in Client, NEW o \in OpState, Start(c, o), UNCHANGED <<text, corpus>>,
         op'[c] = o => Facts(c)'
  PROVE  EditInv'
<1>1. Grows /\ TextInv' /\ RowsInv' /\ AgreeInv' /\ CauseInv'
  BY SameTables DEF EditInv
<1>2. OpsInv'
  BY <1>1, GotoOps DEF EditInv, Start
<1>3. CountInv'
  BY CountOK DEF EditInv, Start
<1> QED
  BY <1>1, <1>2, <1>3 DEF EditInv

\* A call goes on with a read.
LEMMA ReadStep ==
  ASSUME EditInv, NEW c \in Client, NEW o \in OpState, Goto(c, o), UNCHANGED <<text, corpus, count>>,
         op'[c] = o => Facts(c)'
  PROVE  EditInv'
<1>1. Grows /\ TextInv' /\ RowsInv' /\ AgreeInv' /\ CauseInv'
  BY SameTables DEF EditInv
<1>2. OpsInv'
  BY <1>1, GotoOps DEF EditInv
<1>3. CountInv'
  BY CountOK DEF EditInv
<1> QED
  BY <1>1, <1>2, <1>3 DEF EditInv

\* A call decides a proposal, and goes on.
LEMMA ResolveStep ==
  ASSUME EditInv, NEW c \in Client, NEW o \in OpState, Goto(c, o),
         NEW ps, NEW status \in ProposalStatus, Resolve(ps, status),
         UNCHANGED <<text, findings, links, count>>, waivers \subseteq waivers',
         waivers' \subseteq 1..Len(findings),
         op'[c] = o => Facts(c)'
  PROVE  EditInv'
<1>1. Grows /\ TextInv' /\ RowsInv' /\ AgreeInv' /\ CauseInv'
  BY ResolveTables
<1>2. OpsInv'
  BY <1>1, GotoOps DEF EditInv
<1>3. CountInv'
  BY CountOK DEF EditInv
<1> QED
  BY <1>1, <1>2, <1>3 DEF EditInv

LEMMA WriteUnitStep ==
  ASSUME EditInv, NEW u \in Unit, WriteUnit(u)
  PROVE  EditInv'
<1>1. /\ head[u] = 0 /\ revisions < MaxRevisions /\ revisions' = revisions + 1
      /\ head' = [head EXCEPT ![u] = revisions + 1]
      /\ UNCHANGED <<approvals, findings, proposals, links, waivers, op>>
  BY DEF WriteUnit, NewRow, NewRevision, corpus
<1>2. revisions \in Nat /\ revisions' \in Rev0
  BY <1>1, BoundsAssumption DEF EditInv, TextInv, Rev0
<1>3. /\ head' \in [Unit -> 0..revisions']
      /\ \A v \in Unit : head'[v] = IF v = u THEN revisions + 1 ELSE head[v]
      /\ \A v \in Unit : head[v] \in 0..revisions
  BY <1>1, <1>2 DEF EditInv, TextInv
<1>4. Grows
  BY <1>1 DEF Grows, EditInv, RowsInv
<1>5. /\ approvals \subseteq [proposal : 0..Len(proposals'), prior : 1..revisions', rev : 1..revisions']
      /\ \A a \in approvals : a.prior \in 1..revisions
  <2>1. approvals \subseteq [proposal : 0..Len(proposals), prior : 1..revisions, rev : 1..revisions]
    BY DEF EditInv, TextInv
  <2>2. 1..revisions \subseteq 1..revisions'
    BY <1>1, <1>2
  <2> QED
    BY <1>1, <2>1, <2>2
<1>6. TextInv'
  BY <1>1, <1>2, <1>3, <1>5 DEF EditInv, TextInv
<1>7. RowsInv' /\ AgreeInv' /\ CauseInv'
  BY <1>1 DEF EditInv, RowsInv, AgreeInv, CauseInv, Corrections
<1>8. OpsInv'
  BY <1>1, <1>4, SameOps DEF EditInv
<1>9. CountInv'
  BY CountOK DEF WriteUnit, EditInv
<1> QED
  BY <1>6, <1>7, <1>8, <1>9 DEF EditInv

LEMMA EditUnitStep ==
  ASSUME EditInv, NEW u \in Unit, EditUnit(u)
  PROVE  EditInv'
<1>1. head[u] # 0 /\ Approve(0, u, head[u]) /\ UNCHANGED <<findings, proposals, links, waivers, op>>
  BY DEF EditUnit, corpus
<1>2. Len(proposals) \in Nat
  BY DEF EditInv, RowsInv
<1>3. /\ TextInv' /\ approvals \subseteq approvals'
      /\ \A a \in approvals' : a \in approvals \/ (a.proposal = 0 /\ a.prior = head[u])
  BY <1>1, <1>2, ApproveText
<1>4. Grows
  BY <1>1, <1>3 DEF Grows, EditInv, RowsInv
<1>5. RowsInv'
  BY <1>1 DEF EditInv, RowsInv
<1>6. AgreeInv'
  BY <1>1, <1>3 DEF EditInv, AgreeInv
<1>7. CauseInv'
  BY <1>1, <1>4, CauseStays
<1>8. OpsInv'
  BY <1>1, <1>4, SameOps DEF EditInv
<1>9. CountInv'
  BY CountOK DEF EditUnit, EditInv
<1> QED
  BY <1>3, <1>5, <1>6, <1>7, <1>8, <1>9 DEF EditInv

LEMMA FindingReadStep ==
  ASSUME EditInv, NEW c \in Client, NEW u \in Unit, FindingRead(c, u)
  PROVE  EditInv'
<1> DEFINE o == [Idle EXCEPT !.pc = "insert_finding", !.unit = u, !.base = head[u]]
<1>1. head[u] \in Rev /\ head[u] \in Rev0 /\ UNCHANGED revisions
  BY BoundsAssumption DEF FindingRead, EditInv, TextInv, Rev, Rev0, text
<1>2. o \in OpState /\ o.pc = "insert_finding" /\ o.base = head[u]
  BY <1>1, IdleOK DEF OpState
<1>3. Start(c, o) /\ UNCHANGED <<text, corpus>>
  BY DEF FindingRead
<1> HIDE DEF o
<1>4. op'[c] = o => Facts(c)'
  BY <1>1, <1>2 DEF Facts, Rev
<1> QED
  BY <1>2, <1>3, <1>4, StartStep

LEMMA ProposeReadStep ==
  ASSUME EditInv, NEW c \in Client, NEW f \in 1..Len(findings), ProposeRead(c, f)
  PROVE  EditInv'
<1> DEFINE o == [Idle EXCEPT !.pc = "propose_target", !.finding = f]
<1>1. f \in 0..MaxFindings /\ UNCHANGED <<findings>>
  BY BoundsAssumption DEF EditInv, RowsInv, ProposeRead, corpus
<1>2. o \in OpState /\ o.pc = "propose_target" /\ o.finding = f
  BY <1>1, IdleOK DEF OpState
<1>3. Start(c, o) /\ UNCHANGED <<text, corpus>>
  BY DEF ProposeRead
<1> HIDE DEF o
<1>4. op'[c] = o => Facts(c)'
  BY <1>1, <1>2 DEF Facts
<1> QED
  BY <1>2, <1>3, <1>4, StartStep

LEMMA WaiveReadStep ==
  ASSUME EditInv, NEW c \in Client, NEW f \in 1..Len(findings), WaiveRead(c, f)
  PROVE  EditInv'
<1> DEFINE o == [Idle EXCEPT !.pc = "waive_list", !.finding = f, !.verdict = "WAIVED"]
<1>1. f \in 0..MaxFindings /\ UNCHANGED <<findings>>
  BY BoundsAssumption DEF EditInv, RowsInv, WaiveRead, corpus
<1>2. o \in OpState /\ o.pc = "waive_list" /\ o.finding = f /\ o.verdict = "WAIVED"
  BY <1>1, IdleOK DEF OpState, FindingStatus
<1>3. Start(c, o) /\ UNCHANGED <<text, corpus>>
  BY DEF WaiveRead
<1> HIDE DEF o
<1>4. op'[c] = o => Facts(c)'
  BY <1>1, <1>2 DEF Facts
<1> QED
  BY <1>2, <1>3, <1>4, StartStep

LEMMA LinkRange ==
  ASSUME EditInv, NEW f, NEW p, <<f, p>> \in links
  PROVE  /\ f \in 1..Len(findings) /\ f \in 0..MaxFindings
         /\ p \in 1..Len(proposals) /\ p \in 0..MaxProposals
<1>1. f \in 1..Len(findings) /\ p \in 1..Len(proposals)
  BY DEF EditInv, RowsInv
<1>2. /\ Len(findings) \in Nat /\ Len(findings) <= MaxFindings
      /\ Len(proposals) \in Nat /\ Len(proposals) <= MaxProposals
  BY DEF EditInv, RowsInv
<1> QED
  BY <1>1, <1>2, BoundsAssumption

LEMMA AcceptReadStep ==
  ASSUME EditInv, NEW c \in Client, NEW f, NEW p, AcceptRead(c, f, p)
  PROVE  EditInv'
<1> DEFINE o == [Idle EXCEPT !.pc = "accept_open", !.finding = f, !.proposal = p,
                             !.verdict = "RESOLVED"]
<1>1. <<f, p>> \in links /\ UNCHANGED <<findings, links>>
  BY DEF AcceptRead, corpus
<1>2. /\ f \in 1..Len(findings) /\ f \in 0..MaxFindings /\ p \in 0..MaxProposals
  BY <1>1, LinkRange
<1>3. o \in OpState /\ o.pc = "accept_open" /\ o.finding = f /\ o.proposal = p /\ o.verdict = "RESOLVED"
  BY <1>2, IdleOK DEF OpState, FindingStatus
<1>4. Start(c, o) /\ UNCHANGED <<text, corpus>>
  BY DEF AcceptRead
<1> HIDE DEF o
<1>5. op'[c] = o => Facts(c)'
  BY <1>1, <1>2, <1>3 DEF Facts
<1> QED
  BY <1>3, <1>4, <1>5, StartStep

\* reject and request_revision read alike.
LEMMA DecideReadStep ==
  ASSUME EditInv, NEW c \in Client, NEW f, NEW p, RejectRead(c, f, p) \/ ReviseRead(c, f, p)
  PROVE  EditInv'
<1> DEFINE o(pc) == [Idle EXCEPT !.pc = pc, !.finding = f, !.proposal = p]
<1>1. <<f, p>> \in links /\ UNCHANGED <<findings, links>> /\ UNCHANGED <<text, corpus>>
  BY DEF RejectRead, ReviseRead, corpus
<1>2. /\ f \in 1..Len(findings) /\ f \in 0..MaxFindings /\ p \in 0..MaxProposals
  BY <1>1, LinkRange
<1>3. \A pc \in {"reject_write", "revise_write"} :
        o(pc) \in OpState /\ o(pc).pc = pc /\ o(pc).finding = f /\ o(pc).proposal = p
  BY <1>2, IdleOK DEF OpState
<1>4. \E pc \in {"reject_write", "revise_write"} : Start(c, o(pc))
  BY DEF RejectRead, ReviseRead
<1> HIDE DEF o
<1>5. PICK pc \in {"reject_write", "revise_write"} : Start(c, o(pc))
  BY <1>4
<1>6. op'[c] = o(pc) => Facts(c)'
  BY <1>1, <1>2, <1>3 DEF Facts
<1> QED
  BY <1>1, <1>3, <1>5, <1>6, StartStep

LEMMA OpRow ==
  ASSUME EditInv, NEW c \in Client
  PROVE  op[c] \in OpState /\ Facts(c)
BY DEF EditInv, OpsInv

LEMMA FindingInsertStep ==
  ASSUME EditInv, NEW c \in Client, FindingInsert(c)
  PROVE  EditInv'
<1> DEFINE row == [unit |-> op[c].unit, base |-> op[c].base, status |-> "OPEN", closings |-> <<>>]
<1>1. op[c].unit \in Unit /\ op[c].base \in Rev
  BY OpRow DEF FindingInsert, OpState, Facts
<1>2. row \in FindingRow /\ row.status = "OPEN"
  BY <1>1 DEF FindingRow, FindingStatus
<1>3. /\ findings' = Append(findings, row) /\ Len(findings) < MaxFindings /\ Finish(c)
      /\ UNCHANGED <<head, revisions, approvals, proposals, links, waivers>> /\ UNCHANGED count
  BY DEF FindingInsert, text
<1> HIDE DEF row
<1>4. findings \in Seq(FindingRow) /\ Len(findings) \in Nat
  BY DEF EditInv, RowsInv
<1>5. /\ findings' \in Seq(FindingRow) /\ Len(findings') = Len(findings) + 1
      /\ \A f \in 1..Len(findings) : findings'[f] = findings[f]
      /\ findings'[Len(findings) + 1] = row
  BY <1>2, <1>3, <1>4, AppendRow
<1>6. Grows
  BY <1>3, <1>4, <1>5 DEF Grows, EditInv, RowsInv
<1>7. TextInv'
  BY <1>3 DEF EditInv, TextInv
<1>8. RowsInv'
  <2>1. 1..Len(findings) \subseteq 1..Len(findings') /\ Len(findings') <= MaxFindings
    BY <1>3, <1>4, <1>5, BoundsAssumption
  <2> QED
    BY <1>3, <1>5, <2>1 DEF EditInv, RowsInv
<1>9. AgreeInv'
  <2>1. \A l \in links : l[1] \in 1..Len(findings)
    BY DEF EditInv, RowsInv
  <2> QED
    BY <1>3, <1>5, <2>1 DEF EditInv, AgreeInv
<1>10. CauseInv'
  <2>1. \A f \in 1..Len(findings') : f \in 1..Len(findings) \/ findings'[f] = row
    BY <1>4, <1>5
  <2> QED
    BY <1>2, <1>3, <1>5, <2>1 DEF EditInv, CauseInv, Corrections
<1>11. OpsInv' /\ CountInv'
  BY <1>3, <1>6, FinishOps, CountOK DEF EditInv
<1> QED
  BY <1>7, <1>8, <1>9, <1>10, <1>11 DEF EditInv

LEMMA ProposeTargetStep ==
  ASSUME EditInv, NEW c \in Client, ProposeTarget(c)
  PROVE  EditInv'
<1> DEFINE f == op[c].finding
           o == [op[c] EXCEPT !.pc = "propose_insert", !.unit = findings[f].unit, !.base = findings[f].base]
<1>1. /\ op[c].pc = "propose_target" /\ Goto(c, o) /\ UNCHANGED <<text, corpus, count>>
      /\ UNCHANGED findings
  BY DEF ProposeTarget, corpus
<1>2. f \in 1..Len(findings)
  BY <1>1, OpRow DEF Facts
<1>3. findings[f] \in FindingRow
  BY <1>2 DEF EditInv, RowsInv
<1>4. findings[f].unit \in Unit /\ findings[f].base \in Rev0
  BY <1>3, BoundsAssumption DEF FindingRow, Rev, Rev0
<1>5. /\ o \in OpState /\ o.pc = "propose_insert" /\ o.finding = f
      /\ o.unit = findings[f].unit /\ o.base = findings[f].base
  BY <1>4, OpRow DEF OpState
<1> HIDE DEF o
<1>6. op'[c] = o => Facts(c)'
  BY <1>1, <1>2, <1>5 DEF Facts
<1> QED
  BY <1>1, <1>5, <1>6, ReadStep

LEMMA ProposeInsertStep ==
  ASSUME EditInv, NEW c \in Client, ProposeInsert(c)
  PROVE  EditInv'
<1> DEFINE row == [unit |-> op[c].unit, base |-> op[c].base, status |-> "OPEN"]
           n   == Len(proposals)
           f   == op[c].finding
           o   == [op[c] EXCEPT !.pc = "propose_link", !.proposal = n + 1]
<1>1. /\ op[c].pc = "propose_insert" /\ n < MaxProposals
      /\ proposals' = Append(proposals, row) /\ Goto(c, o)
      /\ UNCHANGED <<head, revisions, approvals, findings, links, waivers>> /\ UNCHANGED count
  BY DEF ProposeInsert, text
<1>2. f \in 1..Len(findings) /\ op[c].base = findings[f].base /\ op[c].unit = findings[f].unit
  BY <1>1, OpRow DEF Facts
<1>3. findings[f] \in FindingRow
  BY <1>2 DEF EditInv, RowsInv
<1>4. row \in ProposalRow /\ row.base = findings[f].base /\ row.unit = findings[f].unit
  BY <1>2, <1>3 DEF FindingRow, ProposalRow, ProposalStatus
<1>5. proposals \in Seq(ProposalRow) /\ n \in Nat
  BY DEF EditInv, RowsInv
<1>6. n + 1 \in 0..MaxProposals
  BY <1>1, <1>5, BoundsAssumption
<1>7. o \in OpState /\ o.pc = "propose_link" /\ o.finding = f /\ o.proposal = n + 1
  BY <1>6, OpRow DEF OpState
<1> HIDE DEF row, o
<1>8. /\ proposals' \in Seq(ProposalRow) /\ Len(proposals') = n + 1
      /\ \A p \in 1..n : proposals'[p] = proposals[p]
      /\ proposals'[n + 1] = row
  BY <1>1, <1>4, <1>5, AppendRow
<1>9. Grows
  BY <1>1, <1>5, <1>8 DEF Grows, EditInv, RowsInv
<1>10. 0..n \subseteq 0..Len(proposals') /\ 1..n \subseteq 1..Len(proposals') /\ n + 1 \in 1..Len(proposals')
  BY <1>5, <1>8
<1>11. TextInv'
  <2>1. approvals \subseteq [proposal : 0..n, prior : 1..revisions, rev : 1..revisions]
    BY DEF EditInv, TextInv
  <2>2. approvals \subseteq [proposal : 0..Len(proposals'), prior : 1..revisions, rev : 1..revisions]
    BY <1>10, <2>1
  <2> QED
    BY <1>1, <2>2 DEF EditInv, TextInv
<1>12. RowsInv'
  <2>1. Len(proposals') <= MaxProposals
    BY <1>1, <1>5, <1>8, BoundsAssumption
  <2> QED
    BY <1>1, <1>8, <1>10, <2>1 DEF EditInv, RowsInv
<1>13. AgreeInv'
  <2>1. \A l \in links : l[2] \in 1..n
    BY DEF EditInv, RowsInv
  <2>2. \A a \in approvals : a.proposal # 0 => a.proposal \in 1..n
    BY <1>5 DEF EditInv, TextInv
  <2> QED
    BY <1>1, <1>8, <2>1, <2>2 DEF EditInv, AgreeInv
<1>14. CauseInv'
  BY <1>1, <1>9, CauseStays
<1>15. op'[c] = o => Facts(c)'
  BY <1>1, <1>2, <1>4, <1>7, <1>8, <1>10 DEF Facts
<1>16. OpsInv' /\ CountInv'
  BY <1>1, <1>7, <1>9, <1>15, GotoOps, CountOK DEF EditInv
<1> QED
  BY <1>11, <1>12, <1>13, <1>14, <1>16 DEF EditInv

LEMMA ProposeLinkStep ==
  ASSUME EditInv, NEW c \in Client, ProposeLink(c)
  PROVE  EditInv'
<1> DEFINE l == <<op[c].finding, op[c].proposal>>
<1>1. /\ op[c].pc = "propose_link" /\ links' = links \union {l} /\ Finish(c)
      /\ UNCHANGED <<head, revisions, approvals, findings, proposals, waivers>> /\ UNCHANGED count
  BY DEF ProposeLink, text
<1>2. /\ l \in (1..Len(findings)) \X (1..Len(proposals))
      /\ proposals[l[2]].base = findings[l[1]].base /\ proposals[l[2]].unit = findings[l[1]].unit
  BY <1>1, OpRow DEF Facts
<1> HIDE DEF l
<1>3. Grows
  BY <1>1 DEF Grows, EditInv, RowsInv
<1>4. TextInv'
  BY <1>1 DEF EditInv, TextInv
<1>5. RowsInv' /\ AgreeInv'
  BY <1>1, <1>2 DEF EditInv, RowsInv, AgreeInv
<1>6. CauseInv'
  BY <1>1, <1>3, CauseStays
<1>7. OpsInv' /\ CountInv'
  BY <1>1, <1>3, FinishOps, CountOK DEF EditInv
<1> QED
  BY <1>4, <1>5, <1>6, <1>7 DEF EditInv

LEMMA AcceptOpenStep ==
  ASSUME EditInv, NEW c \in Client, AcceptOpen(c)
  PROVE  EditInv'
<1> DEFINE o == [op[c] EXCEPT !.pc = "accept_write"]
<1>1. /\ op[c].pc = "accept_open" /\ Goto(c, o) /\ UNCHANGED <<text, corpus, count>>
      /\ UNCHANGED <<findings, links>>
  BY DEF AcceptOpen, Step, corpus
<1>2. /\ o \in OpState /\ o.pc = "accept_write" /\ o.finding = op[c].finding
      /\ o.proposal = op[c].proposal /\ o.verdict = op[c].verdict
  BY OpRow DEF OpState
<1> HIDE DEF o
<1>3. op'[c] = o => Facts(c)'
  BY <1>1, <1>2, OpRow DEF Facts
<1> QED
  BY <1>1, <1>2, <1>3, ReadStep

LEMMA AcceptWriteStep ==
  ASSUME EditInv, NEW c \in Client, AcceptWrite(c)
  PROVE  EditInv'
<1> DEFINE p == op[c].proposal
           f == op[c].finding
           u == proposals[p].unit
           o == [op[c] EXCEPT !.pc = "close_read"]
<1>1. /\ op[c].pc = "accept_write" /\ head[u] = proposals[p].base /\ Approve(p, u, head[u])
      /\ Resolve({p}, "ACCEPTED") /\ Goto(c, o)
      /\ UNCHANGED <<findings, links, waivers>> /\ UNCHANGED count
  BY DEF AcceptWrite, BaselineIsHead, Step
<1>2. <<f, p>> \in links /\ op[c].verdict = "RESOLVED"
  BY <1>1, OpRow DEF Facts
<1>3. f \in 1..Len(findings) /\ p \in 1..Len(proposals) /\ p \in 0..Len(proposals)
  <2>1. Len(proposals) \in Nat
    BY DEF EditInv, RowsInv
  <2> QED
    BY <1>2, <2>1, LinkRange
<1>4. proposals[p] \in ProposalRow
  BY <1>3 DEF EditInv, RowsInv
<1>5. u \in Unit /\ head[u] # 0
  BY <1>1, <1>4, BoundsAssumption DEF ProposalRow, Rev
<1>6. /\ o \in OpState /\ o.pc = "close_read" /\ o.finding = f /\ o.verdict = op[c].verdict
  BY OpRow DEF OpState
<1> HIDE DEF o
<1>7. /\ proposals' \in Seq(ProposalRow) /\ Len(proposals') = Len(proposals)
      /\ \A q \in 1..Len(proposals) : /\ proposals'[q].unit = proposals[q].unit
                                      /\ proposals'[q].base = proposals[q].base
  BY <1>1, ResolveRows DEF EditInv, ProposalStatus
<1>8. /\ TextInv' /\ approvals \subseteq approvals'
      /\ \A a \in approvals' : a \in approvals \/ (a.proposal = p /\ a.prior = head[u])
      /\ \E a \in approvals' : a.proposal = p
  BY <1>1, <1>3, <1>5, <1>7, ApproveText
<1>9. Grows
  BY <1>1, <1>7, <1>8 DEF Grows, EditInv, RowsInv
<1>10. RowsInv'
  BY <1>1, <1>7 DEF EditInv, RowsInv
<1>11. AgreeInv'
  <2>1. \A l \in links : l[1] \in 1..Len(findings) /\ l[2] \in 1..Len(proposals)
    BY DEF EditInv, RowsInv
  <2>2. \A a \in approvals : a.proposal # 0 => a.proposal \in 1..Len(proposals)
    <3>1. Len(proposals) \in Nat
      BY DEF EditInv, RowsInv
    <3> QED
      BY <3>1 DEF EditInv, TextInv
  <2>3. \A a \in approvals : a.proposal # 0 => a.prior = proposals'[a.proposal].base
    BY <1>7, <2>2 DEF EditInv, AgreeInv
  <2>4. \A a \in approvals' : a.proposal # 0 => a.prior = proposals'[a.proposal].base
    BY <1>1, <1>3, <1>7, <1>8, <2>3
  <2> QED
    BY <1>1, <1>7, <2>1, <2>4 DEF EditInv, AgreeInv
<1>12. CauseInv'
  BY <1>1, <1>9, CauseStays
<1>13. op'[c] = o => Facts(c)'
  BY <1>1, <1>2, <1>3, <1>6, <1>8 DEF Facts, Corrections
<1>14. OpsInv' /\ CountInv'
  BY <1>1, <1>6, <1>9, <1>13, GotoOps, CountOK DEF EditInv
<1> QED
  BY <1>8, <1>10, <1>11, <1>12, <1>14 DEF EditInv

LEMMA CloseReadStep ==
  ASSUME EditInv, NEW c \in Client, CloseRead(c)
  PROVE  EditInv'
<1>1. /\ op[c].pc = "close_read" /\ UNCHANGED <<text, corpus, count>>
      /\ UNCHANGED <<approvals, findings, links, waivers>>
  BY DEF CloseRead, corpus, text
<1>2. CASE Finish(c)
  BY <1>1, <1>2, IdleOK, IdleFacts, ReadStep DEF Finish
<1>3. CASE Goto(c, [op[c] EXCEPT !.pc = "close_write", !.prior = findings[op[c].finding].status])
  <2> DEFINE o == [op[c] EXCEPT !.pc = "close_write", !.prior = findings[op[c].finding].status]
  <2>1. findings[op[c].finding] \in FindingRow
    <3>1. op[c].finding \in 1..Len(findings)
      BY <1>1, OpRow DEF Facts
    <3> QED
      BY <3>1 DEF EditInv, RowsInv
  <2>2. /\ o \in OpState /\ o.pc = "close_write" /\ o.finding = op[c].finding
        /\ o.verdict = op[c].verdict
    BY <2>1, OpRow DEF OpState, FindingRow
  <2> HIDE DEF o
  <2>3. op'[c] = o => Facts(c)'
    BY <1>1, <2>2, OpRow DEF Facts, Corrections
  <2> QED
    BY <1>1, <1>3, <2>2, <2>3, ReadStep DEF o
<1> QED
  BY <1>2, <1>3 DEF CloseRead

LEMMA CloseWriteStep ==
  ASSUME EditInv, NEW c \in Client, CloseWrite(c)
  PROVE  EditInv'
<1> DEFINE f == op[c].finding
           v == op[c].verdict
           event == [prior |-> op[c].prior, new |-> v]
           row == [findings[f] EXCEPT !.status = v, !.closings = Append(@, event)]
<1>1. /\ op[c].pc = "close_write" /\ Finish(c)
      /\ UNCHANGED <<head, revisions, approvals, proposals, links, waivers>> /\ UNCHANGED count
  BY DEF CloseWrite, text
<1>2. /\ f \in 1..Len(findings)
      /\ \/ v = "RESOLVED" /\ Corrections(f) # {}
         \/ v = "WAIVED" /\ f \in waivers
  BY <1>1, OpRow DEF Facts
<1>3. findings \in Seq(FindingRow) /\ findings[f] \in FindingRow
  BY <1>2 DEF EditInv, RowsInv
<1>4. findings' = [findings EXCEPT ![f] = row]
  BY DEF CloseWrite
<1>5. event \in [prior : FindingStatus, new : FindingStatus]
  BY OpRow DEF OpState
<1>6. /\ row \in FindingRow /\ row.status = v
      /\ row.unit = findings[f].unit /\ row.base = findings[f].base
  <2>1. findings[f].closings \in Seq([prior : FindingStatus, new : FindingStatus])
    BY <1>3 DEF FindingRow
  <2> HIDE DEF event
  <2>2. Append(findings[f].closings, event) \in Seq([prior : FindingStatus, new : FindingStatus])
    BY <1>5, <2>1, AppendRow
  <2>3. v \in FindingStatus
    BY OpRow DEF OpState
  <2> QED
    BY <1>3, <2>2, <2>3 DEF FindingRow
<1> HIDE DEF row
<1>7. /\ findings' \in Seq(FindingRow) /\ Len(findings') = Len(findings)
      /\ findings'[f] = row /\ \A g \in 1..Len(findings) : g # f => findings'[g] = findings[g]
  BY <1>2, <1>3, <1>4, <1>6
<1>8. \A g \in 1..Len(findings) : /\ findings'[g].unit = findings[g].unit
                                 /\ findings'[g].base = findings[g].base
  BY <1>6, <1>7
<1>9. Grows
  BY <1>1, <1>7, <1>8 DEF Grows, EditInv, RowsInv
<1>10. TextInv' /\ RowsInv'
  BY <1>1, <1>7 DEF EditInv, TextInv, RowsInv
<1>11. AgreeInv'
  <2>1. \A l \in links : l[1] \in 1..Len(findings)
    BY DEF EditInv, RowsInv
  <2> QED
    BY <1>1, <1>8, <2>1 DEF EditInv, AgreeInv
<1>12. CauseInv'
  BY <1>1, <1>2, <1>6, <1>7 DEF EditInv, CauseInv, Corrections
<1>13. OpsInv' /\ CountInv'
  BY <1>1, <1>9, FinishOps, CountOK DEF EditInv
<1> QED
  BY <1>10, <1>11, <1>12, <1>13 DEF EditInv

\* reject and request_revision end with their write.
LEMMA DecideWriteStep ==
  ASSUME EditInv, NEW c \in Client, RejectWrite(c) \/ ReviseWrite(c)
  PROVE  EditInv'
<1>1. /\ \E status \in ProposalStatus : Resolve({op[c].proposal}, status)
      /\ Goto(c, Idle)
      /\ UNCHANGED <<text, findings, links, count>> /\ UNCHANGED waivers
  BY DEF RejectWrite, ReviseWrite, Finish, ProposalStatus
<1>2. waivers' \subseteq 1..Len(findings)
  BY <1>1 DEF EditInv, RowsInv
<1>3. PICK status \in ProposalStatus : Resolve({op[c].proposal}, status)
  BY <1>1
<1> QED
  BY <1>1, <1>2, <1>3, IdleOK, IdleFacts, ResolveStep

LEMMA WaiveListStep ==
  ASSUME EditInv, NEW c \in Client, WaiveList(c)
  PROVE  EditInv'
<1> DEFINE found == OpenProposals(op[c].finding)
           o == [op[c] EXCEPT !.pc = "waive_write", !.linked = found]
<1>1. /\ op[c].pc = "waive_list" /\ Goto(c, o) /\ UNCHANGED <<text, corpus, count>>
      /\ UNCHANGED findings
  BY DEF WaiveList, corpus
<1>2. found \subseteq 1..MaxProposals
  <2>1. Len(proposals) \in Nat /\ Len(proposals) <= MaxProposals
    BY DEF EditInv, RowsInv
  <2> QED
    BY <2>1, BoundsAssumption DEF OpenProposals
<1> HIDE DEF found
<1>3. /\ o \in OpState /\ o.pc = "waive_write" /\ o.finding = op[c].finding
      /\ o.verdict = op[c].verdict
  BY <1>2, OpRow DEF OpState
<1> HIDE DEF o
<1>4. op'[c] = o => Facts(c)'
  BY <1>1, <1>3, OpRow DEF Facts
<1> QED
  BY <1>1, <1>3, <1>4, ReadStep

LEMMA WaiveWriteStep ==
  ASSUME EditInv, NEW c \in Client, WaiveWrite(c)
  PROVE  EditInv'
<1> DEFINE o == [op[c] EXCEPT !.pc = "close_read"]
<1>1. /\ op[c].pc = "waive_write" /\ waivers' = waivers \union {op[c].finding}
      /\ Resolve(op[c].linked, "SUPERSEDED") /\ Goto(c, o)
      /\ UNCHANGED <<text, findings, links, count>> /\ UNCHANGED findings
  BY DEF WaiveWrite, Step
<1>2. op[c].finding \in 1..Len(findings) /\ op[c].verdict = "WAIVED"
  BY <1>1, OpRow DEF Facts
<1>3. waivers' \subseteq 1..Len(findings)
  BY <1>1, <1>2 DEF EditInv, RowsInv
<1>4. /\ o \in OpState /\ o.pc = "close_read" /\ o.finding = op[c].finding
      /\ o.verdict = op[c].verdict
  BY OpRow DEF OpState
<1> HIDE DEF o
<1>5. op'[c] = o => Facts(c)'
  BY <1>1, <1>2, <1>4 DEF Facts
<1>6. "SUPERSEDED" \in ProposalStatus /\ waivers \subseteq waivers'
  BY <1>1 DEF ProposalStatus
<1> QED
  BY <1>1, <1>3, <1>4, <1>5, <1>6, ResolveStep

LEMMA CrashStep ==
  ASSUME EditInv, Crash
  PROVE  EditInv'
<1>1. UNCHANGED <<text, corpus>> /\ UNCHANGED count /\ op' = [c \in Client |-> Idle]
  BY DEF Crash
<1>2. TextInv' /\ RowsInv' /\ AgreeInv' /\ CauseInv'
  BY <1>1, SameTables DEF EditInv
<1>3. OpsInv'
  BY <1>1, IdleOK, IdleFacts DEF OpsInv
<1>4. CountInv'
  BY <1>1, CountOK DEF EditInv
<1> QED
  BY <1>2, <1>3, <1>4 DEF EditInv

LEMMA StutterStep ==
  ASSUME EditInv, UNCHANGED vars
  PROVE  EditInv'
<1>1. UNCHANGED <<text, corpus>> /\ UNCHANGED count /\ UNCHANGED op
  BY DEF vars
<1>2. Grows /\ TextInv' /\ RowsInv' /\ AgreeInv' /\ CauseInv'
  BY <1>1, SameTables DEF EditInv
<1> QED
  BY <1>1, <1>2, SameOps, CountOK DEF EditInv

LEMMA InitInv == Init => EditInv
<1> SUFFICES ASSUME Init PROVE EditInv
  OBVIOUS
<1>1. TextInv
  BY BoundsAssumption DEF Init, TextInv, Rev0
<1>2. RowsInv /\ AgreeInv /\ CauseInv
  BY BoundsAssumption DEF Init, RowsInv, AgreeInv, CauseInv
<1>3. OpsInv
  BY IdleOK DEF Init, OpsInv, Facts
<1>4. CountInv
  <2>1. calls \in 0..MaxCalls
    BY BoundsAssumption DEF Init
  <2>2. overlapped \in BOOLEAN
    BY Zenon DEF Init
  <2> QED
    BY <2>1, <2>2 DEF CountInv
<1> QED
  BY <1>1, <1>2, <1>3, <1>4 DEF EditInv

LEMMA NextInv == EditInv /\ [EditorialNext]_vars => EditInv'
<1> SUFFICES ASSUME EditInv, [EditorialNext]_vars PROVE EditInv'
  OBVIOUS
<1>1. CASE UNCHANGED vars
  BY <1>1, StutterStep
<1>2. CASE Crash
  BY <1>2, CrashStep
<1>3. ASSUME NEW u \in Unit, WriteUnit(u) \/ EditUnit(u)
      PROVE  EditInv'
  BY <1>3, WriteUnitStep, EditUnitStep
<1>4. ASSUME NEW c \in Client, Abort(c)
      PROVE  EditInv'
  BY <1>4, IdleOK, IdleFacts, ReadStep DEF Abort, Finish
<1>5. CASE Serve
  <2>1. ASSUME NEW c \in Client, NEW u \in Unit, FindingRead(c, u)
        PROVE  EditInv'
    BY <2>1, FindingReadStep
  <2>2. ASSUME NEW c \in Client, NEW f \in 1..Len(findings), ProposeRead(c, f) \/ WaiveRead(c, f)
        PROVE  EditInv'
    BY <2>2, ProposeReadStep, WaiveReadStep
  <2>3. ASSUME NEW c \in Client, NEW l \in links,
               AcceptRead(c, l[1], l[2]) \/ RejectRead(c, l[1], l[2]) \/ ReviseRead(c, l[1], l[2])
        PROVE  EditInv'
    BY <2>3, AcceptReadStep, DecideReadStep
  <2>4. ASSUME NEW c \in Client, FindingInsert(c) \/ ProposeTarget(c) \/ ProposeInsert(c) \/ ProposeLink(c)
        PROVE  EditInv'
    BY <2>4, FindingInsertStep, ProposeTargetStep, ProposeInsertStep, ProposeLinkStep
  <2>5. ASSUME NEW c \in Client, AcceptOpen(c) \/ AcceptWrite(c) \/ CloseRead(c) \/ CloseWrite(c)
        PROVE  EditInv'
    BY <2>5, AcceptOpenStep, AcceptWriteStep, CloseReadStep, CloseWriteStep
  <2>6. ASSUME NEW c \in Client, RejectWrite(c) \/ ReviseWrite(c) \/ WaiveList(c) \/ WaiveWrite(c)
        PROVE  EditInv'
    BY <2>6, DecideWriteStep, WaiveListStep, WaiveWriteStep
  <2> QED
    BY <1>5, <2>1, <2>2, <2>3, <2>4, <2>5, <2>6 DEF Serve
<1> QED
  BY <1>1, <1>2, <1>3, <1>4, <1>5 DEF EditorialNext, EditorialStep

LEMMA EditorialInvariant == EditorialSpec => []EditInv
BY InitInv, NextInv, PTL DEF EditorialSpec

(***************************************************************************)
(* What follows.                                                           *)
(***************************************************************************)
LEMMA InvType == EditInv => EditorialTypeOK
BY DEF EditInv, TextInv, RowsInv, OpsInv, CountInv, EditorialTypeOK, FindingRow, ProposalRow

LEMMA InvApplied == EditInv => AppliedAsDiagnosed
<1> SUFFICES ASSUME EditInv, NEW f \in 1..Len(findings), NEW a \in Corrections(f)
             PROVE  a.prior = findings[f].base /\ \A b \in approvals : a.prior = b.prior => a = b
  BY DEF AppliedAsDiagnosed
<1>1. a \in approvals /\ <<f, a.proposal>> \in links
  BY DEF Corrections
<1>2. a.proposal # 0
  BY <1>1, LinkRange
<1>3. a.prior = proposals[a.proposal].base /\ proposals[a.proposal].base = findings[f].base
  BY <1>1, <1>2 DEF EditInv, AgreeInv
<1> QED
  BY <1>1, <1>3 DEF EditInv, TextInv

LEMMA InvClosed == EditInv => ClosedForCause
<1> SUFFICES ASSUME EditInv, NEW f \in 1..Len(findings)
             PROVE  /\ findings[f].status = "RESOLVED" =>
                         Corrections(f) # {} /\ head[findings[f].unit] # findings[f].base
                    /\ findings[f].status = "WAIVED" => f \in waivers
  BY DEF ClosedForCause
<1>1. ASSUME findings[f].status = "RESOLVED"
      PROVE  Corrections(f) # {} /\ head[findings[f].unit] # findings[f].base
  <2>1. Corrections(f) # {}
    BY <1>1 DEF EditInv, CauseInv
  <2>2. PICK a \in Corrections(f) : TRUE
    BY <2>1
  <2>3. a.prior = findings[f].base /\ a \in approvals
    BY <2>2, InvApplied DEF AppliedAsDiagnosed, Corrections
  <2>4. findings[f].unit \in Unit
    <3>1. findings[f] \in FindingRow
      BY DEF EditInv, RowsInv
    <3> QED
      BY <3>1 DEF FindingRow
  <2> QED
    BY <2>1, <2>3, <2>4 DEF EditInv, TextInv
<1> QED
  BY <1>1 DEF EditInv, CauseInv

\* Rows name rows that exist, statuses and heads have their ranges, whatever races.
THEOREM EditorialTypeCorrect == EditorialSpec => []EditorialTypeOK
BY EditorialInvariant, InvType, PTL

\* A correction replaces exactly the revision its finding diagnosed, and one at most of those
\* proposed on a revision becomes text (editorial.py create_manuscript_proposal and accept,
\* authority.py accept_proposal).
THEOREM CorrectionsApplyAsDiagnosed == EditorialSpec => []AppliedAsDiagnosed
BY EditorialInvariant, InvApplied, PTL

\* A closed finding has a correction that replaced what it diagnosed, or the owner's waiver
\* (editorial.py _transition_finding after accept and waive).
THEOREM FindingsCloseForCause == EditorialSpec => []ClosedForCause
BY EditorialInvariant, InvClosed, PTL

(***************************************************************************)
(* While calls come one at a time.                                         *)
(***************************************************************************)
NoneReady(f) == \A p \in 1..Len(proposals) : <<f, p>> \in links => ~AcceptReady(p)

\* Nothing is based on a revision that is not stored yet.
BasesInv ==
  /\ \A f \in 1..Len(findings) : findings[f].base <= revisions
  /\ \A c \in Client : op[c].pc = "insert_finding" => op[c].base <= revisions

\* A finding is open and was never closed, or was closed once and has nothing left to accept.
ClosedFacts(f) ==
  /\ findings[f].status = "OPEN" => findings[f].closings = <<>>
  /\ findings[f].status # "OPEN" => /\ Len(findings[f].closings) = 1
                                    /\ findings[f].closings[1].prior = "OPEN"
                                    /\ NoneReady(f)

Deciding == {"propose_target", "propose_insert", "propose_link", "accept_write", "waive_list",
             "waive_write", "close_read", "close_write"}

\* What a call that is alone has read is still so; before it closes its finding, the deciding
\* transaction has left nothing to accept for it.
CallFacts(o) ==
  /\ o.pc \in Deciding => findings[o.finding].status = "OPEN"
  /\ o.pc = "accept_open" => BaselineIsHead(o.proposal)
  /\ o.pc = "waive_write" => OpenProposals(o.finding) \subseteq o.linked
  /\ o.pc \in {"close_read", "close_write"} => NoneReady(o.finding)
  /\ o.pc = "close_write" => o.prior = "OPEN"

Alone == \A c, d \in Client : op[c].pc # "idle" /\ op[d].pc # "idle" => c = d

Sequential == /\ Alone
              /\ \A f \in 1..Len(findings) : ClosedFacts(f)
              /\ \A c \in Client : CallFacts(op[c])

CallsInv == BasesInv /\ (~overlapped => Sequential)

\* A step of c that leaves the calls unoverlapped found every other client idle.
LEMMA OthersIdle ==
  ASSUME EditInv, CallsInv, NEW c \in Client,
         Count \/ (op[c].pc # "idle" /\ UNCHANGED count), ~overlapped'
  PROVE  Sequential /\ \A d \in Client \ {c} : op[d].pc = "idle"
<1>1. CASE Count
  <2>1. ~overlapped /\ ~\E d \in Client : op[d].pc # "idle"
    <3>1. overlapped' = (overlapped \/ \E d \in Client : op[d].pc # "idle")
      BY <1>1, Zenon DEF Count
    <3> QED
      BY <3>1, Zenon
  <2> QED
    BY <2>1 DEF CallsInv
<1>2. CASE op[c].pc # "idle" /\ UNCHANGED count
  <2>1. ~overlapped
    BY <1>2, Zenon DEF count
  <2>2. Sequential
    BY <2>1, Zenon DEF CallsInv
  <2> QED
    BY <1>2, <2>2 DEF Sequential, Alone
<1> QED
  BY <1>1, <1>2

\* One call moves to o.
LEMMA QuietTo ==
  ASSUME EditInv, CallsInv, NEW c \in Client, NEW o \in OpState, Goto(c, o), BasesInv',
         Count \/ (op[c].pc # "idle" /\ UNCHANGED count),
         Sequential => (\A f \in 1..Len(findings') : ClosedFacts(f)') /\ CallFacts(o)'
  PROVE  CallsInv'
<1>1. SUFFICES ASSUME ~overlapped' PROVE Sequential'
  BY Zenon DEF CallsInv
<1>2. Sequential /\ \A d \in Client \ {c} : op[d].pc = "idle"
  BY <1>1, OthersIdle
<1>3. op'[c] = o /\ \A d \in Client \ {c} : op'[d].pc = "idle"
  BY <1>2 DEF Goto, EditInv, OpsInv
<1>4. \A d \in Client \ {c} : CallFacts(op[d])'
  BY <1>3 DEF CallFacts, Deciding
<1>5. CallFacts(op[c])'
  BY <1>2, <1>3 DEF CallFacts
<1>6. Alone'
  BY <1>3 DEF Alone
<1> QED
  BY <1>2, <1>4, <1>5, <1>6 DEF Sequential

\* The base of a row is never ahead of the revisions stored.
LEMMA BasesTo ==
  ASSUME EditInv, CallsInv, NEW c \in Client, NEW o \in OpState, Goto(c, o),
         revisions <= revisions', revisions' \in Nat,
         Len(findings') = Len(findings),
         \A f \in 1..Len(findings) : findings'[f].base = findings[f].base,
         o.pc = "insert_finding" => o.base <= revisions
  PROVE  BasesInv'
<1>1. revisions \in Nat /\ \A f \in 1..Len(findings) : findings[f] \in FindingRow
  BY BoundsAssumption DEF EditInv, TextInv, RowsInv, Rev0
<1>2. \A f \in 1..Len(findings) : findings[f].base \in Nat
  BY <1>1, BoundsAssumption DEF FindingRow, Rev
<1>3. ASSUME NEW d \in Client
      PROVE  op[d].base \in Nat
  BY OpRow, BoundsAssumption DEF OpState, Rev0
<1>4. op'[c] = o /\ \A d \in Client \ {c} : op'[d] = op[d]
  BY DEF Goto, EditInv, OpsInv
<1>5. \A f \in 1..Len(findings') : findings'[f].base <= revisions'
  BY <1>1, <1>2 DEF CallsInv, BasesInv
<1>6. ASSUME NEW d \in Client, op'[d].pc = "insert_finding"
      PROVE  op'[d].base <= revisions'
  <2>1. CASE d = c
    <3>1. o.pc = "insert_finding" /\ op'[d] = o
      BY <1>4, <1>6, <2>1
    <3>2. o.base \in Int
      BY BoundsAssumption DEF OpState, Rev0
    <3> QED
      BY <1>1, <3>1, <3>2
  <2>2. CASE d # c
    BY <1>1, <1>3, <1>4, <1>6, <2>2 DEF CallsInv, BasesInv
  <2> QED
    BY <2>1, <2>2
<1> QED
  BY <1>5, <1>6 DEF BasesInv

\* Proposals decided and fresh heads make nothing ready that was not.
LEMMA NoNewReady ==
  ASSUME EditInv, CallsInv,
         \A u \in Unit : head'[u] = head[u] \/ head'[u] = revisions + 1,
         \A p \in 1..Len(proposals) : /\ proposals'[p].unit = proposals[p].unit
                                      /\ proposals'[p].base = proposals[p].base
                                      /\ proposals'[p].status = "OPEN" => proposals[p].status = "OPEN"
  PROVE  \A l \in links : AcceptReady(l[2])' => AcceptReady(l[2])
<1> SUFFICES ASSUME NEW f, NEW p, <<f, p>> \in links, AcceptReady(p)'
             PROVE  AcceptReady(p)
  BY DEF EditInv, RowsInv
<1>1. f \in 1..Len(findings) /\ p \in 1..Len(proposals)
  BY LinkRange
<1>2. proposals[p] \in ProposalRow /\ findings[f] \in FindingRow /\ revisions \in Nat
  BY <1>1, BoundsAssumption DEF EditInv, RowsInv, TextInv, Rev0
<1>3. proposals[p].base <= revisions /\ proposals[p].base \in Nat /\ proposals[p].unit \in Unit
  <2>1. proposals[p].base = findings[f].base
    BY DEF EditInv, AgreeInv
  <2>2. findings[f].base <= revisions
    BY <1>1 DEF CallsInv, BasesInv
  <2> QED
    BY <1>2, <2>1, <2>2, BoundsAssumption DEF ProposalRow, Rev
<1>4. /\ proposals'[p].status = "OPEN"
      /\ head'[proposals[p].unit] = proposals[p].base
  BY <1>1 DEF AcceptReady, BaselineIsHead
<1>5. head[proposals[p].unit] = proposals[p].base
  BY <1>2, <1>3, <1>4
<1> QED
  BY <1>1, <1>4, <1>5 DEF AcceptReady, BaselineIsHead

\* A finding whose row stays is closed as before when nothing became ready for it.
LEMMA KeepClosed ==
  ASSUME EditInv, NEW f \in 1..Len(findings), ClosedFacts(f), findings'[f] = findings[f],
         findings[f].status # "OPEN" => \A p : <<f, p>> \in links' => <<f, p>> \in links,
         \A l \in links : AcceptReady(l[2])' => AcceptReady(l[2])
  PROVE  ClosedFacts(f)'
<1>1. ASSUME findings[f].status # "OPEN", NEW p \in 1..Len(proposals'), <<f, p>> \in links'
      PROVE  ~AcceptReady(p)'
  <2>1. <<f, p>> \in links
    BY <1>1
  <2>2. p \in 1..Len(proposals)
    BY <2>1, LinkRange
  <2>3. ~AcceptReady(p)
    BY <1>1, <2>1, <2>2 DEF ClosedFacts, NoneReady
  <2>4. AcceptReady(p)' => AcceptReady(p)
    BY <2>1
  <2> QED
    BY <2>3, <2>4
<1>2. findings[f].status # "OPEN" => NoneReady(f)'
  BY <1>1 DEF NoneReady
<1> QED
  BY <1>2 DEF ClosedFacts

\* A step that writes no table.
LEMMA QuietRead ==
  ASSUME EditInv, CallsInv, NEW c \in Client, NEW o \in OpState, Goto(c, o), UNCHANGED <<text, corpus>>,
         Count \/ (op[c].pc # "idle" /\ UNCHANGED count),
         o.pc = "insert_finding" => o.base <= revisions,
         Sequential => CallFacts(o)
  PROVE  CallsInv'
<1>1. UNCHANGED <<head, revisions, findings, proposals, links>>
  BY DEF text, corpus
<1>2. BasesInv'
  <2>1. revisions \in Nat
    BY BoundsAssumption DEF EditInv, TextInv, Rev0
  <2> QED
    BY <1>1, <2>1, BasesTo
<1>3. CallFacts(o)' <=> CallFacts(o)
  BY <1>1 DEF CallFacts, BaselineIsHead, OpenProposals, NoneReady, AcceptReady
<1>4. ASSUME Sequential, NEW f \in 1..Len(findings')
      PROVE  ClosedFacts(f)'
  BY <1>1, <1>4 DEF Sequential, ClosedFacts, NoneReady, AcceptReady, BaselineIsHead
<1> QED
  BY <1>2, <1>3, <1>4, QuietTo

LEMMA QuietFindingRead ==
  ASSUME EditInv, CallsInv, NEW c \in Client, NEW u \in Unit, FindingRead(c, u)
  PROVE  CallsInv'
<1> DEFINE o == [Idle EXCEPT !.pc = "insert_finding", !.unit = u, !.base = head[u]]
<1>1. Start(c, o) /\ UNCHANGED <<text, corpus>> /\ head[u] # 0
  BY DEF FindingRead
<1>2. revisions \in Rev0 /\ head[u] \in 0..revisions
  BY DEF EditInv, TextInv
<1>3. head[u] \in Rev0 /\ head[u] <= revisions
  BY <1>2, BoundsAssumption DEF Rev0
<1>4. o \in OpState /\ o.pc = "insert_finding" /\ o.base = head[u]
  BY <1>3, IdleOK DEF OpState
<1> HIDE DEF o
<1>5. CallFacts(o)
  BY <1>4 DEF CallFacts, Deciding
<1> QED
  BY <1>1, <1>3, <1>4, <1>5, QuietRead DEF Start

\* The reads of the calls on a finding.
LEMMA QuietStarts ==
  ASSUME EditInv, CallsInv, NEW c \in Client, NEW o \in OpState, Start(c, o),
         UNCHANGED <<text, corpus>>,
         o.pc \in {"propose_target", "waive_list", "accept_open", "reject_write", "revise_write"},
         o.pc \in {"propose_target", "waive_list"} => findings[o.finding].status = "OPEN",
         o.pc = "accept_open" => BaselineIsHead(o.proposal)
  PROVE  CallsInv'
<1>1. CallFacts(o)
  BY DEF CallFacts, Deciding
<1> QED
  BY <1>1, QuietRead DEF Start

LEMMA QuietFindingStarts ==
  ASSUME EditInv, CallsInv, NEW c \in Client, NEW f \in 1..Len(findings),
         ProposeRead(c, f) \/ WaiveRead(c, f)
  PROVE  CallsInv'
<1>0. f \in 0..MaxFindings
  BY BoundsAssumption DEF EditInv, RowsInv
<1>1. CASE ProposeRead(c, f)
  <2> DEFINE o == [Idle EXCEPT !.pc = "propose_target", !.finding = f]
  <2>1. Start(c, o) /\ findings[f].status = "OPEN" /\ UNCHANGED <<text, corpus>>
    BY <1>1 DEF ProposeRead
  <2>2. o \in OpState /\ o.pc = "propose_target" /\ o.finding = f
    BY <1>0, IdleOK DEF OpState
  <2> HIDE DEF o
  <2> QED
    BY <2>1, <2>2, QuietStarts
<1>2. CASE WaiveRead(c, f)
  <2> DEFINE o == [Idle EXCEPT !.pc = "waive_list", !.finding = f, !.verdict = "WAIVED"]
  <2>1. Start(c, o) /\ findings[f].status = "OPEN" /\ UNCHANGED <<text, corpus>>
    BY <1>2 DEF WaiveRead
  <2>2. o \in OpState /\ o.pc = "waive_list" /\ o.finding = f
    BY <1>0, IdleOK DEF OpState, FindingStatus
  <2> HIDE DEF o
  <2> QED
    BY <2>1, <2>2, QuietStarts
<1> QED
  BY <1>1, <1>2

LEMMA QuietProposalStarts ==
  ASSUME EditInv, CallsInv, NEW c \in Client, NEW f, NEW p, <<f, p>> \in links,
         AcceptRead(c, f, p) \/ RejectRead(c, f, p) \/ ReviseRead(c, f, p)
  PROVE  CallsInv'
<1>1. f \in 0..MaxFindings /\ p \in 0..MaxProposals
  BY LinkRange
<1>2. CASE AcceptRead(c, f, p)
  <2> DEFINE o == [Idle EXCEPT !.pc = "accept_open", !.finding = f, !.proposal = p,
                               !.verdict = "RESOLVED"]
  <2>1. Start(c, o) /\ BaselineIsHead(p) /\ UNCHANGED <<text, corpus>>
    BY <1>2 DEF AcceptRead, BaselineIsHead
  <2>2. o \in OpState /\ o.pc = "accept_open" /\ o.proposal = p
    BY <1>1, IdleOK DEF OpState, FindingStatus
  <2> HIDE DEF o
  <2> QED
    BY <2>1, <2>2, QuietStarts
<1>3. ASSUME NEW pc \in {"reject_write", "revise_write"}, UNCHANGED <<text, corpus>>,
             Start(c, [Idle EXCEPT !.pc = pc, !.finding = f, !.proposal = p])
      PROVE  CallsInv'
  <2> DEFINE o == [Idle EXCEPT !.pc = pc, !.finding = f, !.proposal = p]
  <2>1. o \in OpState /\ o.pc = pc /\ Start(c, o)
    BY <1>1, <1>3, IdleOK DEF OpState
  <2> HIDE DEF o
  <2> QED
    BY <1>3, <2>1, QuietStarts
<1> QED
  BY <1>2, <1>3 DEF RejectRead, ReviseRead

LEMMA QuietAbort ==
  ASSUME EditInv, CallsInv, NEW c \in Client, Abort(c)
  PROVE  CallsInv'
<1>1. CallFacts(Idle)
  BY IdleOK DEF CallFacts, Deciding
<1> QED
  BY <1>1, IdleOK, QuietRead DEF Abort, Finish

LEMMA QuietTarget ==
  ASSUME EditInv, CallsInv, NEW c \in Client, ProposeTarget(c)
  PROVE  CallsInv'
<1> DEFINE f == findings[op[c].finding]
           o == [op[c] EXCEPT !.pc = "propose_insert", !.unit = f.unit, !.base = f.base]
<1>1. op[c].pc = "propose_target" /\ Goto(c, o) /\ UNCHANGED <<text, corpus>> /\ UNCHANGED count
  BY DEF ProposeTarget
<1>2. f \in FindingRow
  <2>1. op[c].finding \in 1..Len(findings)
    BY <1>1, OpRow DEF Facts
  <2> QED
    BY <2>1 DEF EditInv, RowsInv
<1>3. /\ o \in OpState /\ o.pc = "propose_insert" /\ o.finding = op[c].finding
  <2>1. f.unit \in Unit /\ f.base \in Rev0
    BY <1>2, BoundsAssumption DEF FindingRow, Rev, Rev0
  <2> HIDE DEF f
  <2> QED
    BY <2>1, OpRow DEF OpState
<1> HIDE DEF o
<1>4. Sequential => CallFacts(o)
  BY <1>1, <1>3 DEF Sequential, CallFacts, Deciding
<1> QED
  BY <1>1, <1>3, <1>4, QuietRead

\* The engine finds the proposal open: so is the finding, which would have left nothing to accept.
LEMMA QuietAcceptOpen ==
  ASSUME EditInv, CallsInv, NEW c \in Client, AcceptOpen(c)
  PROVE  CallsInv'
<1> DEFINE o == [op[c] EXCEPT !.pc = "accept_write"]
<1>1. /\ op[c].pc = "accept_open" /\ Goto(c, o) /\ UNCHANGED <<text, corpus>> /\ UNCHANGED count
      /\ proposals[op[c].proposal].status = "OPEN"
  BY DEF AcceptOpen, Step
<1>2. /\ o \in OpState /\ o.pc = "accept_write" /\ o.finding = op[c].finding
  BY OpRow DEF OpState
<1> HIDE DEF o
<1>3. <<op[c].finding, op[c].proposal>> \in links
  BY <1>1, OpRow DEF Facts
<1>4. op[c].finding \in 1..Len(findings) /\ op[c].proposal \in 1..Len(proposals)
  BY <1>3, LinkRange
<1>5. ASSUME Sequential
      PROVE  findings[op[c].finding].status = "OPEN"
  <2>1. AcceptReady(op[c].proposal)
    BY <1>1, <1>5 DEF Sequential, CallFacts, AcceptReady
  <2> QED
    BY <1>3, <1>4, <1>5, <2>1 DEF Sequential, ClosedFacts, NoneReady
<1>6. Sequential => CallFacts(o)
  BY <1>2, <1>5 DEF CallFacts
<1> QED
  BY <1>1, <1>2, <1>6, QuietRead

LEMMA QuietCloseRead ==
  ASSUME EditInv, CallsInv, NEW c \in Client, CloseRead(c)
  PROVE  CallsInv'
<1>1. op[c].pc = "close_read" /\ UNCHANGED <<text, corpus>> /\ UNCHANGED count
  BY DEF CloseRead
<1>2. CASE Finish(c)
  <2>1. CallFacts(Idle)
    BY IdleOK DEF CallFacts, Deciding
  <2> QED
    BY <1>1, <1>2, <2>1, IdleOK, QuietRead DEF Finish
<1>3. CASE Goto(c, [op[c] EXCEPT !.pc = "close_write", !.prior = findings[op[c].finding].status])
  <2> DEFINE o == [op[c] EXCEPT !.pc = "close_write", !.prior = findings[op[c].finding].status]
  <2>1. findings[op[c].finding] \in FindingRow
    <3>1. op[c].finding \in 1..Len(findings)
      BY <1>1, OpRow DEF Facts
    <3> QED
      BY <3>1 DEF EditInv, RowsInv
  <2>2. /\ o \in OpState /\ o.pc = "close_write" /\ o.finding = op[c].finding
        /\ o.prior = findings[op[c].finding].status
    BY <2>1, OpRow DEF OpState, FindingRow
  <2>3. Goto(c, o)
    BY <1>3
  <2> HIDE DEF o
  <2>4. Sequential => CallFacts(op[c])
    BY DEF Sequential
  <2>5. Sequential => CallFacts(o)
    BY <1>1, <2>2, <2>4 DEF CallFacts, Deciding
  <2> QED
    BY <1>1, <2>2, <2>3, <2>5, QuietRead
<1> QED
  BY <1>2, <1>3 DEF CloseRead

LEMMA QuietWaiveList ==
  ASSUME EditInv, CallsInv, NEW c \in Client, WaiveList(c)
  PROVE  CallsInv'
<1> DEFINE found == OpenProposals(op[c].finding)
           o == [op[c] EXCEPT !.pc = "waive_write", !.linked = found]
<1>1. op[c].pc = "waive_list" /\ Goto(c, o) /\ UNCHANGED <<text, corpus>> /\ UNCHANGED count
  BY DEF WaiveList
<1>2. found \subseteq 1..MaxProposals
  <2>1. Len(proposals) \in Nat /\ Len(proposals) <= MaxProposals
    BY DEF EditInv, RowsInv
  <2> QED
    BY <2>1, BoundsAssumption DEF OpenProposals
<1> HIDE DEF found
<1>3. o \in OpState /\ o.pc = "waive_write" /\ o.finding = op[c].finding /\ o.linked = found
  BY <1>2, OpRow DEF OpState
<1> HIDE DEF o
<1>4. Sequential => CallFacts(op[c])
  BY DEF Sequential
<1>5. OpenProposals(o.finding) \subseteq o.linked
  BY <1>3 DEF found
<1>6. Sequential => CallFacts(o)
  BY <1>1, <1>3, <1>4, <1>5 DEF CallFacts, Deciding
<1> QED
  BY <1>1, <1>3, <1>6, QuietRead

\* A draft is registered or edited: a fresh head was nobody's baseline.
LEMMA QuietOthers ==
  ASSUME EditInv, CallsInv, NEW u \in Unit, WriteUnit(u) \/ EditUnit(u)
  PROVE  CallsInv'
<1>1. /\ Count /\ revisions' = revisions + 1 /\ head' = [head EXCEPT ![u] = revisions + 1]
      /\ UNCHANGED <<findings, proposals, links, op>>
  BY DEF WriteUnit, EditUnit, Approve, NewRow, NewRevision, corpus
<1>2. revisions \in Nat /\ \A v \in Unit : head'[v] = head[v] \/ head'[v] = revisions + 1
  BY <1>1, BoundsAssumption DEF EditInv, TextInv, Rev0
<1>3. BasesInv'
  <2>1. ASSUME NEW f \in 1..Len(findings)
        PROVE  findings[f].base <= revisions'
    <3>1. findings[f] \in FindingRow
      BY DEF EditInv, RowsInv
    <3>2. findings[f].base \in Nat
      BY <3>1, BoundsAssumption DEF FindingRow, Rev
    <3> QED
      BY <1>1, <1>2, <3>2 DEF CallsInv, BasesInv
  <2>2. ASSUME NEW c \in Client, op[c].pc = "insert_finding"
        PROVE  op[c].base <= revisions'
    <3>1. op[c].base \in Nat
      BY OpRow, BoundsAssumption DEF OpState, Rev0
    <3> QED
      BY <1>1, <1>2, <2>2, <3>1 DEF CallsInv, BasesInv
  <2> QED
    BY <1>1, <2>1, <2>2 DEF BasesInv
<1>4. SUFFICES ASSUME ~overlapped' PROVE Sequential'
  BY <1>3, Zenon DEF CallsInv
<1>5. Sequential /\ \A c \in Client : op[c].pc = "idle"
  <2>1. overlapped' = (overlapped \/ \E d \in Client : op[d].pc # "idle")
    BY <1>1, Zenon DEF Count
  <2>2. ~overlapped /\ ~\E d \in Client : op[d].pc # "idle"
    BY <1>4, <2>1, Zenon
  <2> QED
    BY <2>2 DEF CallsInv
<1>6. \A l \in links : AcceptReady(l[2])' => AcceptReady(l[2])
  BY <1>1, <1>2, NoNewReady
<1>7. ASSUME NEW f \in 1..Len(findings)
      PROVE  ClosedFacts(f)'
  <2>1. ClosedFacts(f)
    BY <1>5 DEF Sequential
  <2> QED
    BY <1>1, <1>6, <2>1, KeepClosed
<1>8. \A c \in Client : CallFacts(op[c])'
  BY <1>1, <1>5 DEF CallFacts, Deciding
<1> QED
  BY <1>1, <1>5, <1>7, <1>8 DEF Sequential, Alone

LEMMA QuietFindingInsert ==
  ASSUME EditInv, CallsInv, NEW c \in Client, FindingInsert(c)
  PROVE  CallsInv'
<1> DEFINE row == [unit |-> op[c].unit, base |-> op[c].base, status |-> "OPEN", closings |-> <<>>]
           n == Len(findings)
<1>1. /\ op[c].pc = "insert_finding" /\ findings' = Append(findings, row) /\ Goto(c, Idle)
      /\ UNCHANGED <<head, revisions, proposals, links>> /\ UNCHANGED count
  BY DEF FindingInsert, Finish, text
<1>2. row \in FindingRow /\ row.base = op[c].base /\ row.status = "OPEN" /\ row.closings = <<>>
  <2>1. op[c].unit \in Unit /\ op[c].base \in Rev
    BY <1>1, OpRow DEF OpState, Facts
  <2> QED
    BY <2>1 DEF FindingRow, FindingStatus
<1>3. row.base <= revisions
  BY <1>1, <1>2 DEF CallsInv, BasesInv
<1> HIDE DEF row
<1>4. /\ n \in Nat /\ Len(findings') = n + 1
      /\ \A f \in 1..n : findings'[f] = findings[f]
      /\ findings'[n + 1] = row
  <2>1. findings \in Seq(FindingRow)
    BY DEF EditInv, RowsInv
  <2> QED
    BY <1>1, <1>2, <2>1, AppendRow
<1>5. op'[c] = Idle /\ \A d \in Client \ {c} : op'[d] = op[d]
  BY <1>1 DEF Goto, EditInv, OpsInv
<1>6. BasesInv'
  <2>1. ASSUME NEW f \in 1..Len(findings')
        PROVE  findings'[f].base <= revisions
    <3>1. f \in 1..n \/ f = n + 1
      BY <1>4
    <3> QED
      BY <1>3, <1>4, <3>1 DEF CallsInv, BasesInv
  <2>2. ASSUME NEW d \in Client, op'[d].pc = "insert_finding"
        PROVE  op'[d].base <= revisions
    BY <1>5, <2>2, IdleOK DEF CallsInv, BasesInv
  <2> QED
    BY <1>1, <2>1, <2>2 DEF BasesInv
<1>7. \A l \in links : AcceptReady(l[2])' => AcceptReady(l[2])
  BY <1>1 DEF AcceptReady, BaselineIsHead
<1>8. ASSUME Sequential, NEW f \in 1..Len(findings')
      PROVE  ClosedFacts(f)'
  <2>1. CASE f \in 1..n
    <3>1. ClosedFacts(f)
      BY <1>8, <2>1 DEF Sequential
    <3> QED
      BY <1>1, <1>4, <1>7, <2>1, <3>1, KeepClosed
  <2>2. CASE f = n + 1
    BY <1>2, <1>4, <2>2 DEF ClosedFacts
  <2> QED
    BY <1>4, <2>1, <2>2
<1>9. CallFacts(Idle)'
  BY IdleOK DEF CallFacts, Deciding
<1> QED
  BY <1>1, <1>6, <1>8, <1>9, IdleOK, QuietTo

\* A call writes proposals or links and leaves every finding's row.
LEMMA QuietProposals ==
  ASSUME EditInv, CallsInv, NEW c \in Client, NEW o \in OpState, Goto(c, o),
         op[c].pc # "idle", UNCHANGED count, UNCHANGED findings,
         revisions <= revisions', revisions' \in Nat, o.pc # "insert_finding",
         \A u \in Unit : head'[u] = head[u] \/ head'[u] = revisions + 1,
         \A p \in 1..Len(proposals) : /\ proposals'[p].unit = proposals[p].unit
                                      /\ proposals'[p].base = proposals[p].base
                                      /\ proposals'[p].status = "OPEN" => proposals[p].status = "OPEN",
         \A l \in links' \ links : Sequential => findings[l[1]].status = "OPEN",
         Sequential => CallFacts(o)'
  PROVE  CallsInv'
<1>1. BasesInv'
  BY BasesTo
<1>2. \A l \in links : AcceptReady(l[2])' => AcceptReady(l[2])
  BY NoNewReady
<1>3. ASSUME Sequential, NEW f \in 1..Len(findings)
      PROVE  ClosedFacts(f)'
  <2>1. ClosedFacts(f)
    BY <1>3 DEF Sequential
  <2>2. findings[f].status # "OPEN" => \A p : <<f, p>> \in links' => <<f, p>> \in links
    BY <1>3
  <2> QED
    BY <1>2, <2>1, <2>2, KeepClosed
<1> QED
  BY <1>1, <1>3, QuietTo

LEMMA QuietInsert ==
  ASSUME EditInv, CallsInv, NEW c \in Client, ProposeInsert(c)
  PROVE  CallsInv'
<1> DEFINE row == [unit |-> op[c].unit, base |-> op[c].base, status |-> "OPEN"]
<1>0. PICK o : o = [op[c] EXCEPT !.pc = "propose_link", !.proposal = Len(proposals) + 1]
  OBVIOUS
<1>1. /\ op[c].pc = "propose_insert" /\ proposals' = Append(proposals, row) /\ Goto(c, o)
      /\ UNCHANGED <<head, revisions, findings, links>> /\ UNCHANGED count
      /\ Len(proposals) < MaxProposals
  BY <1>0 DEF ProposeInsert, text
<1>2. proposals \in Seq(ProposalRow) /\ Len(proposals) \in Nat
  BY DEF EditInv, RowsInv
<1>3. row \in ProposalRow
  <2>1. op[c].finding \in 1..Len(findings) /\ op[c].base = findings[op[c].finding].base
    BY <1>1, OpRow DEF Facts
  <2>2. findings[op[c].finding] \in FindingRow
    BY <2>1 DEF EditInv, RowsInv
  <2>3. op[c].base \in Rev /\ op[c].unit \in Unit
    BY <2>1, <2>2, OpRow DEF FindingRow, OpState
  <2> QED
    BY <2>3 DEF ProposalRow, ProposalStatus
<1> HIDE DEF row
<1>4. \A p \in 1..Len(proposals) : proposals'[p] = proposals[p]
  BY <1>1, <1>2, <1>3, AppendRow
<1>5. o \in OpState /\ o.pc = "propose_link" /\ o.finding = op[c].finding
  <2>1. Len(proposals) + 1 \in 0..MaxProposals
    BY <1>1, <1>2, BoundsAssumption
  <2> QED
    BY <1>0, <2>1, OpRow DEF OpState
<1>6. Sequential => findings[o.finding].status = "OPEN"
  BY <1>1, <1>5 DEF Sequential, CallFacts, Deciding
<1>7. Sequential => CallFacts(o)'
  BY <1>1, <1>5, <1>6 DEF CallFacts
<1>8. revisions \in Nat
  BY BoundsAssumption DEF EditInv, TextInv, Rev0
<1> QED
  BY <1>1, <1>4, <1>5, <1>7, <1>8, QuietProposals

\* A proposal is tied to a finding that is still open.
LEMMA QuietLink ==
  ASSUME EditInv, CallsInv, NEW c \in Client, ProposeLink(c)
  PROVE  CallsInv'
<1>1. /\ op[c].pc = "propose_link" /\ links' = links \union {<<op[c].finding, op[c].proposal>>}
      /\ Goto(c, Idle) /\ UNCHANGED <<head, revisions, findings, proposals>> /\ UNCHANGED count
  BY DEF ProposeLink, Finish, text
<1>2. Sequential => findings[op[c].finding].status = "OPEN"
  BY <1>1 DEF Sequential, CallFacts, Deciding
<1>3. \A l \in links' \ links : Sequential => findings[l[1]].status = "OPEN"
  BY <1>1, <1>2
<1>4. CallFacts(Idle)'
  BY IdleOK DEF CallFacts, Deciding
<1>5. revisions \in Nat
  BY BoundsAssumption DEF EditInv, TextInv, Rev0
<1> QED
  BY <1>1, <1>3, <1>4, <1>5, IdleOK, QuietProposals

\* Deciding proposals opens none, and decides those it names.
LEMMA ResolveStatus ==
  ASSUME EditInv, NEW ps, NEW status \in ProposalStatus \ {"OPEN"}, Resolve(ps, status)
  PROVE  \A p \in 1..Len(proposals) :
           /\ proposals'[p].unit = proposals[p].unit
           /\ proposals'[p].base = proposals[p].base
           /\ proposals'[p].status = "OPEN" => proposals[p].status = "OPEN" /\ p \notin ps
<1>1. \A p \in 1..Len(proposals) : /\ proposals'[p].unit = proposals[p].unit
                                   /\ proposals'[p].base = proposals[p].base
  BY ResolveRows DEF EditInv
<1>2. ASSUME NEW p \in 1..Len(proposals), proposals'[p].status = "OPEN"
      PROVE  proposals[p].status = "OPEN" /\ p \notin ps
  <2>1. proposals[p] \in ProposalRow
    BY DEF EditInv, RowsInv
  <2>2. proposals'[p] = IF p \in ps /\ proposals[p].status = "OPEN"
                        THEN [proposals[p] EXCEPT !.status = status] ELSE proposals[p]
    BY DEF Resolve
  <2>3. [proposals[p] EXCEPT !.status = status].status = status
    BY <2>1 DEF ProposalRow
  <2>4. ~(p \in ps /\ proposals[p].status = "OPEN")
    BY <1>2, <2>2, <2>3
  <2> QED
    BY <1>2, <2>2, <2>4
<1> QED
  BY <1>1, <1>2

LEMMA QuietDecide ==
  ASSUME EditInv, CallsInv, NEW c \in Client, RejectWrite(c) \/ ReviseWrite(c)
  PROVE  CallsInv'
<1>1. /\ \E status \in ProposalStatus \ {"OPEN"} : Resolve({op[c].proposal}, status)
      /\ op[c].pc # "idle" /\ Goto(c, Idle)
      /\ UNCHANGED <<head, revisions, findings, links>> /\ UNCHANGED count
  BY DEF RejectWrite, ReviseWrite, Finish, ProposalStatus, text
<1>2. PICK status \in ProposalStatus \ {"OPEN"} : Resolve({op[c].proposal}, status)
  BY <1>1
<1>3. \A p \in 1..Len(proposals) :
        /\ proposals'[p].unit = proposals[p].unit
        /\ proposals'[p].base = proposals[p].base
        /\ proposals'[p].status = "OPEN" => proposals[p].status = "OPEN"
  BY <1>2, ResolveStatus
<1>4. CallFacts(Idle)'
  BY IdleOK DEF CallFacts, Deciding
<1>5. revisions \in Nat
  BY BoundsAssumption DEF EditInv, TextInv, Rev0
<1> QED
  BY <1>1, <1>3, <1>4, <1>5, IdleOK, QuietProposals

\* The waiver supersedes everything that was open for the finding.
LEMMA QuietWaiveWrite ==
  ASSUME EditInv, CallsInv, NEW c \in Client, WaiveWrite(c)
  PROVE  CallsInv'
<1>0. PICK o : o = [op[c] EXCEPT !.pc = "close_read"]
  OBVIOUS
<1>1. /\ op[c].pc = "waive_write" /\ Resolve(op[c].linked, "SUPERSEDED") /\ Goto(c, o)
      /\ UNCHANGED <<head, revisions, findings, links>> /\ UNCHANGED count
  BY <1>0 DEF WaiveWrite, Step, text
<1>2. o \in OpState /\ o.pc = "close_read" /\ o.finding = op[c].finding
  BY <1>0, OpRow DEF OpState
<1>3. \A p \in 1..Len(proposals) :
        /\ proposals'[p].unit = proposals[p].unit
        /\ proposals'[p].base = proposals[p].base
        /\ proposals'[p].status = "OPEN" => proposals[p].status = "OPEN" /\ p \notin op[c].linked
  BY <1>1, ResolveStatus DEF ProposalStatus
<1>4. ASSUME Sequential
      PROVE  CallFacts(o)'
  <2>1. CallFacts(op[c])
    BY <1>4 DEF Sequential
  <2>2. findings[op[c].finding].status = "OPEN" /\ OpenProposals(op[c].finding) \subseteq op[c].linked
    BY <1>1, <2>1 DEF CallFacts, Deciding
  <2>3. ASSUME NEW p \in 1..Len(proposals'), <<op[c].finding, p>> \in links
        PROVE  proposals'[p].status # "OPEN"
    <3>1. p \in 1..Len(proposals)
      BY <2>3, LinkRange
    <3> QED
      BY <1>3, <2>2, <2>3, <3>1 DEF OpenProposals
  <2>4. NoneReady(o.finding)'
    BY <1>1, <1>2, <2>3 DEF NoneReady, AcceptReady
  <2> QED
    BY <1>1, <1>2, <2>2, <2>4 DEF CallFacts
<1>5. revisions \in Nat
  BY BoundsAssumption DEF EditInv, TextInv, Rev0
<1> QED
  BY <1>1, <1>2, <1>3, <1>4, <1>5, QuietProposals

\* The correction replaces the text its finding diagnosed: no other proposal of it can follow.
LEMMA QuietAcceptWrite ==
  ASSUME EditInv, CallsInv, NEW c \in Client, AcceptWrite(c)
  PROVE  CallsInv'
<1> DEFINE p == op[c].proposal
           f == op[c].finding
           u == proposals[p].unit
<1>0. PICK o : o = [op[c] EXCEPT !.pc = "close_read"]
  OBVIOUS
<1>1. /\ op[c].pc = "accept_write" /\ Resolve({p}, "ACCEPTED") /\ Goto(c, o)
      /\ revisions' = revisions + 1 /\ head' = [head EXCEPT ![u] = revisions + 1]
      /\ UNCHANGED <<findings, links>> /\ UNCHANGED count
  BY <1>0 DEF AcceptWrite, Step, Approve, NewRow, NewRevision
<1>2. o \in OpState /\ o.pc = "close_read" /\ o.finding = f
  BY <1>0, OpRow DEF OpState
<1>3. <<f, p>> \in links /\ f \in 1..Len(findings) /\ p \in 1..Len(proposals)
  BY <1>1, OpRow, LinkRange DEF Facts
<1>4. findings[f] \in FindingRow /\ proposals[p] \in ProposalRow
  BY <1>3 DEF EditInv, RowsInv
<1>5. /\ u \in Unit /\ u = findings[f].unit
      /\ findings[f].base \in Nat /\ findings[f].base <= revisions /\ revisions \in Nat
  <2>1. u \in Unit /\ findings[f].base \in Nat
    BY <1>4, BoundsAssumption DEF ProposalRow, FindingRow, Rev
  <2>2. u = findings[f].unit
    BY <1>3 DEF EditInv, AgreeInv
  <2>3. findings[f].base <= revisions
    BY <1>3 DEF CallsInv, BasesInv
  <2>4. revisions \in Nat
    BY BoundsAssumption DEF EditInv, TextInv, Rev0
  <2> QED
    BY <2>1, <2>2, <2>3, <2>4
<1>6. /\ \A v \in Unit : head'[v] = head[v] \/ head'[v] = revisions + 1
      /\ head'[u] = revisions + 1
  BY <1>1, <1>5 DEF EditInv, TextInv
<1>7. \A q \in 1..Len(proposals) :
        /\ proposals'[q].unit = proposals[q].unit
        /\ proposals'[q].base = proposals[q].base
        /\ proposals'[q].status = "OPEN" => proposals[q].status = "OPEN"
  BY <1>1, ResolveStatus DEF ProposalStatus
<1>8. ASSUME NEW q \in 1..Len(proposals'), <<f, q>> \in links
      PROVE  head'[proposals'[q].unit] # proposals'[q].base
  <2>1. q \in 1..Len(proposals)
    BY <1>8, LinkRange
  <2>2. proposals[q].unit = u /\ proposals[q].base = findings[f].base
    BY <1>5, <1>8 DEF EditInv, AgreeInv
  <2> QED
    BY <1>5, <1>6, <1>7, <2>1, <2>2
<1>9. NoneReady(o.finding)'
  BY <1>1, <1>2, <1>8 DEF NoneReady, AcceptReady, BaselineIsHead
<1>10. ASSUME Sequential
       PROVE  CallFacts(o)'
  <2>1. findings[f].status = "OPEN"
    BY <1>1, <1>10 DEF Sequential, CallFacts, Deciding
  <2> QED
    BY <1>1, <1>2, <1>9, <2>1 DEF CallFacts
<1> QED
  BY <1>1, <1>2, <1>5, <1>6, <1>7, <1>10, QuietProposals

\* The finding closes, from OPEN and for the first time.
LEMMA QuietCloseWrite ==
  ASSUME EditInv, CallsInv, NEW c \in Client, CloseWrite(c)
  PROVE  CallsInv'
<1> DEFINE f == op[c].finding
           v == op[c].verdict
           event == [prior |-> op[c].prior, new |-> v]
           row == [findings[f] EXCEPT !.status = v, !.closings = Append(@, event)]
<1>1. /\ op[c].pc = "close_write" /\ Goto(c, Idle) /\ findings' = [findings EXCEPT ![f] = row]
      /\ UNCHANGED <<head, revisions, proposals, links>> /\ UNCHANGED count
  BY DEF CloseWrite, Finish, text
<1>2. f \in 1..Len(findings) /\ v # "OPEN"
  BY <1>1, OpRow DEF Facts
<1>3. findings \in Seq(FindingRow) /\ findings[f] \in FindingRow
  BY <1>2 DEF EditInv, RowsInv
<1>4. event.prior = op[c].prior
  OBVIOUS
<1> HIDE DEF event
<1>5. /\ row.status = v /\ row.closings = Append(findings[f].closings, event)
      /\ row.base = findings[f].base
  BY <1>3 DEF FindingRow
<1> HIDE DEF row
<1>6. /\ Len(findings') = Len(findings) /\ findings'[f] = row
      /\ \A g \in 1..Len(findings) : g # f => findings'[g] = findings[g]
  BY <1>1, <1>2, <1>3
<1>7. BasesInv'
  <2>1. \A g \in 1..Len(findings) : findings'[g].base = findings[g].base
    BY <1>5, <1>6
  <2>2. revisions \in Nat /\ revisions' \in Nat /\ revisions <= revisions'
    BY <1>1, BoundsAssumption DEF EditInv, TextInv, Rev0
  <2> QED
    BY <1>1, <1>6, <2>1, <2>2, IdleOK, BasesTo
<1>8. \A l \in links : AcceptReady(l[2])' => AcceptReady(l[2])
  BY <1>1 DEF AcceptReady, BaselineIsHead
<1>9. ASSUME Sequential, NEW g \in 1..Len(findings')
      PROVE  ClosedFacts(g)'
  <2>1. ClosedFacts(g) /\ g \in 1..Len(findings)
    BY <1>6, <1>9 DEF Sequential
  <2>2. CASE g # f
    BY <1>1, <1>6, <1>8, <2>1, <2>2, KeepClosed
  <2>3. CASE g = f
    <3>1. CallFacts(op[c])
      BY <1>9 DEF Sequential
    <3>2. findings[f].status = "OPEN" /\ op[c].prior = "OPEN" /\ NoneReady(f)
      BY <1>1, <3>1 DEF CallFacts, Deciding
    <3>3. findings[f].closings = <<>>
      BY <2>1, <2>3, <3>2 DEF ClosedFacts
    <3>4. row.closings = <<event>>
      BY <1>5, <3>3
    <3>5. findings'[g].status # "OPEN" /\ Len(findings'[g].closings) = 1
          /\ findings'[g].closings[1].prior = "OPEN"
      <4>1. findings'[g] = row
        BY <1>6, <2>3
      <4>2. Len(row.closings) = 1 /\ row.closings[1] = event
        BY <3>4
      <4> QED
        BY <1>2, <1>4, <1>5, <3>2, <4>1, <4>2
    <3>6. NoneReady(g)'
      BY <1>1, <2>3, <3>2 DEF NoneReady, AcceptReady, BaselineIsHead
    <3> QED
      BY <3>5, <3>6 DEF ClosedFacts
  <2> QED
    BY <2>2, <2>3
<1>10. CallFacts(Idle)'
  BY IdleOK DEF CallFacts, Deciding
<1> QED
  BY <1>1, <1>7, <1>9, <1>10, IdleOK, QuietTo

\* An exit ends every call.
LEMMA QuietCrash ==
  ASSUME EditInv, CallsInv, Crash
  PROVE  CallsInv'
<1>1. /\ UNCHANGED <<head, revisions, findings, proposals, links>> /\ UNCHANGED overlapped
      /\ op' = [c \in Client |-> Idle]
  BY DEF Crash, text, corpus, count
<1>2. \A c \in Client : op'[c].pc = "idle"
  BY <1>1, IdleOK
<1>3. BasesInv'
  BY <1>1, <1>2 DEF CallsInv, BasesInv
<1>4. ASSUME Sequential
      PROVE  Sequential'
  <2>1. \A f \in 1..Len(findings') : ClosedFacts(f)'
    BY <1>1, <1>4 DEF Sequential, ClosedFacts, NoneReady, AcceptReady, BaselineIsHead
  <2>2. \A c \in Client : CallFacts(op[c])'
    BY <1>2 DEF CallFacts, Deciding
  <2>3. Alone'
    BY <1>2 DEF Alone
  <2> QED
    BY <2>1, <2>2, <2>3 DEF Sequential
<1> QED
  BY <1>1, <1>3, <1>4, Zenon DEF CallsInv

LEMMA QuietStutter ==
  ASSUME EditInv, CallsInv, UNCHANGED vars
  PROVE  CallsInv'
BY DEF vars, text, corpus, count, CallsInv, BasesInv, Sequential, Alone, ClosedFacts, CallFacts,
       NoneReady, AcceptReady, BaselineIsHead, OpenProposals

LEMMA QuietInit == Init => CallsInv
<1> SUFFICES ASSUME Init PROVE CallsInv
  OBVIOUS
<1>1. \A c \in Client : op[c].pc = "idle"
  BY IdleOK DEF Init
<1>2. findings = <<>>
  BY DEF Init
<1> QED
  BY <1>1, <1>2 DEF CallsInv, BasesInv, Sequential, Alone, ClosedFacts, CallFacts, Deciding

LEMMA QuietNext == EditInv /\ CallsInv /\ [EditorialNext]_vars => CallsInv'
<1> SUFFICES ASSUME EditInv, CallsInv, [EditorialNext]_vars PROVE CallsInv'
  OBVIOUS
<1>1. CASE UNCHANGED vars
  BY <1>1, QuietStutter
<1>2. CASE Crash
  BY <1>2, QuietCrash
<1>3. ASSUME NEW u \in Unit, WriteUnit(u) \/ EditUnit(u)
      PROVE  CallsInv'
  BY <1>3, QuietOthers
<1>4. ASSUME NEW c \in Client, Abort(c)
      PROVE  CallsInv'
  BY <1>4, QuietAbort
<1>5. CASE Serve
  <2>1. ASSUME NEW c \in Client, NEW u \in Unit, FindingRead(c, u)
        PROVE  CallsInv'
    BY <2>1, QuietFindingRead
  <2>2. ASSUME NEW c \in Client, NEW f \in 1..Len(findings), ProposeRead(c, f) \/ WaiveRead(c, f)
        PROVE  CallsInv'
    BY <2>2, QuietFindingStarts
  <2>3. ASSUME NEW c \in Client, NEW l \in links,
               AcceptRead(c, l[1], l[2]) \/ RejectRead(c, l[1], l[2]) \/ ReviseRead(c, l[1], l[2])
        PROVE  CallsInv'
    <3>1. <<l[1], l[2]>> \in links
      BY DEF EditInv, RowsInv
    <3> QED
      BY <2>3, <3>1, QuietProposalStarts
  <2>4. ASSUME NEW c \in Client,
               FindingInsert(c) \/ ProposeTarget(c) \/ ProposeInsert(c) \/ ProposeLink(c)
        PROVE  CallsInv'
    BY <2>4, QuietFindingInsert, QuietTarget, QuietInsert, QuietLink
  <2>5. ASSUME NEW c \in Client, AcceptOpen(c) \/ AcceptWrite(c) \/ CloseRead(c) \/ CloseWrite(c)
        PROVE  CallsInv'
    BY <2>5, QuietAcceptOpen, QuietAcceptWrite, QuietCloseRead, QuietCloseWrite
  <2>6. ASSUME NEW c \in Client, RejectWrite(c) \/ ReviseWrite(c) \/ WaiveList(c) \/ WaiveWrite(c)
        PROVE  CallsInv'
    BY <2>6, QuietDecide, QuietWaiveList, QuietWaiveWrite
  <2> QED
    BY <1>5, <2>1, <2>2, <2>3, <2>4, <2>5, <2>6 DEF Serve
<1> QED
  BY <1>1, <1>2, <1>3, <1>4, <1>5 DEF EditorialNext, EditorialStep

LEMMA CallsInvariant == EditorialSpec => []CallsInv
<1>1. EditInv /\ CallsInv /\ EditInv' /\ [EditorialNext]_vars => CallsInv'
  BY QuietNext
<1> QED
  BY <1>1, QuietInit, EditorialInvariant, PTL DEF EditorialSpec

LEMMA InvOnce == EditInv /\ CallsInv => ClosedOnce
<1> SUFFICES ASSUME EditInv, CallsInv, ~overlapped, NEW f \in 1..Len(findings)
             PROVE  /\ Len(findings[f].closings) <= 1
                    /\ \A i \in 1..Len(findings[f].closings) : findings[f].closings[i].prior = "OPEN"
  BY Zenon DEF ClosedOnce
<1>1. ClosedFacts(f)
  BY Zenon DEF CallsInv, Sequential
<1>2. CASE findings[f].status = "OPEN"
  BY <1>1, <1>2 DEF ClosedFacts
<1>3. CASE findings[f].status # "OPEN"
  <2>1. Len(findings[f].closings) = 1 /\ findings[f].closings[1].prior = "OPEN"
    BY <1>1, <1>3 DEF ClosedFacts
  <2>2. \A i \in 1..Len(findings[f].closings) : i = 1
    BY <2>1
  <2> QED
    BY <2>1, <2>2
<1> QED
  BY <1>2, <1>3

LEMMA InvNothingReady == EditInv /\ CallsInv => NothingAcceptReady
<1> SUFFICES ASSUME CallsInv, ~overlapped, NEW f \in 1..Len(findings), findings[f].status # "OPEN"
             PROVE  ~\E p \in 1..Len(proposals) : <<f, p>> \in links /\ AcceptReady(p)
  BY Zenon DEF NothingAcceptReady
<1>1. ClosedFacts(f)
  BY Zenon DEF CallsInv, Sequential
<1> QED
  BY <1>1 DEF ClosedFacts, NoneReady

\* While calls come one at a time, though any may be cut short, a finding is closed at most
\* once, and from OPEN (editorial.py accept, waive and _transition_finding).
THEOREM FindingsCloseOnce == EditorialSpec => []ClosedOnce
BY EditorialInvariant, CallsInvariant, InvOnce, PTL

\* While calls come one at a time, nothing can be accepted for a closed finding: a waived or
\* resolved diagnosis never changes the text (editorial.py waive and accept).
THEOREM ClosedFindingsChangeNothing == EditorialSpec => []NothingAcceptReady
BY EditorialInvariant, CallsInvariant, InvNothingReady, PTL
(***************************************************************************)
(* Refinement: the heads of the units, and the revisions that what became  *)
(* text was made for, behave as AuthorityLine, the promise of the engine   *)
(* Editorial is built on.                                                  *)
(***************************************************************************)
MadeFor(a) == IF a.proposal = 0 THEN a.prior ELSE proposals[a.proposal].base
Replaced == {MadeFor(a) : a \in approvals}
Line == INSTANCE AuthorityLine WITH Entity <- Unit, current <- head, retired <- Replaced

LEMMA LineStart == Init => Line!Init
BY DEF Init, Line!Init, Replaced

\* What was made for a revision has replaced it, and nothing else.
Priors == {a.prior : a \in approvals}

LEMMA MadeForPriors == EditInv => Replaced = Priors
<1>1. EditInv => \A a \in approvals : MadeFor(a) = a.prior
  BY DEF EditInv, AgreeInv, MadeFor
<1> QED
  BY <1>1 DEF Replaced, Priors

LEMMA LineFresh ==
  ASSUME TextInv, Replaced = Priors
  PROVE  Line!Fresh(NewRevision)
<1>1. revisions \in Nat
  BY BoundsAssumption DEF TextInv, Rev0
<1>2. \A a \in approvals : a.prior \in 1..revisions
  BY DEF TextInv
<1>3. \A r \in Replaced : r # NewRevision
  BY <1>1, <1>2 DEF Priors, NewRevision
<1>4. \A u \in Unit : head[u] # NewRevision
  BY <1>1 DEF TextInv, NewRevision
<1>5. NewRevision \in Nat \ {0}
  BY <1>1 DEF NewRevision
<1> QED
  BY <1>3, <1>4, <1>5 DEF Line!Fresh

LEMMA LineEstablish ==
  ASSUME TextInv, Replaced = Priors, Replaced' = Priors', NEW u \in Unit, WriteUnit(u)
  PROVE  Line!Next
<1>1. head[u] = 0 /\ head' = [head EXCEPT ![u] = NewRevision] /\ Replaced' = Replaced
  BY DEF WriteUnit, Priors
<1>2. head'[u] = NewRevision
  BY <1>1 DEF TextInv
<1> QED
  BY <1>1, <1>2, LineFresh DEF Line!Next, Line!Establish

LEMMA LineReplace ==
  ASSUME TextInv, Replaced = Priors, Replaced' = Priors',
         NEW u \in Unit, head[u] # 0, NEW p, Approve(p, u, head[u])
  PROVE  Line!Next
<1> DEFINE row == [proposal |-> p, prior |-> head[u], rev |-> NewRevision]
<1>1. head' = [head EXCEPT ![u] = NewRevision] /\ approvals' = approvals \union {row}
  BY DEF Approve
<1>2. head'[u] = NewRevision
  BY <1>1 DEF TextInv
<1>3. row.prior = head[u]
  OBVIOUS
<1> HIDE DEF row
<1>4. Replaced' = Replaced \union {head[u]}
  BY <1>1, <1>3 DEF Priors
<1> QED
  BY <1>1, <1>2, <1>4, LineFresh DEF Line!Next, Line!Replace

\* What does not touch the text leaves the line as it is.
LEMMA LineQuiet ==
  ASSUME NEW c \in Client,
         \/ \E u \in Unit : FindingRead(c, u)
         \/ \E f \in 1..Len(findings) : ProposeRead(c, f) \/ WaiveRead(c, f)
         \/ \E l \in links : AcceptRead(c, l[1], l[2]) \/ RejectRead(c, l[1], l[2])
                              \/ ReviseRead(c, l[1], l[2])
         \/ FindingInsert(c) \/ ProposeTarget(c) \/ ProposeInsert(c) \/ ProposeLink(c)
         \/ AcceptOpen(c) \/ CloseRead(c) \/ CloseWrite(c) \/ RejectWrite(c) \/ ReviseWrite(c)
         \/ WaiveList(c) \/ WaiveWrite(c) \/ Abort(c)
  PROVE  UNCHANGED text
BY DEF FindingRead, ProposeRead, WaiveRead, AcceptRead, RejectRead, ReviseRead, FindingInsert,
       ProposeTarget, ProposeInsert, ProposeLink, AcceptOpen, CloseRead, CloseWrite, RejectWrite,
       ReviseWrite, WaiveList, WaiveWrite, Abort

LEMMA LineNext ==
  ASSUME EditInv, [EditorialNext]_vars
  PROVE  [Line!Next]_<<head, Replaced>>
<1>0. (EditInv => Replaced = Priors)'
  BY MadeForPriors, PTL
<1>1. TextInv /\ Replaced = Priors /\ Replaced' = Priors'
  BY <1>0, NextInv, MadeForPriors DEF EditInv
<1>2. ASSUME UNCHANGED text PROVE UNCHANGED <<head, Replaced>>
  BY <1>1, <1>2 DEF text, Priors
<1>3. ASSUME NEW u \in Unit, WriteUnit(u) PROVE Line!Next
  BY <1>1, <1>3, LineEstablish
<1>4. ASSUME NEW u \in Unit, EditUnit(u) PROVE Line!Next
  BY <1>1, <1>4, LineReplace DEF EditUnit
<1>5. ASSUME NEW c \in Client, AcceptWrite(c) PROVE Line!Next
  <2> DEFINE p == op[c].proposal
             u == proposals[p].unit
  <2>1. Approve(p, u, head[u]) /\ head[u] = proposals[p].base /\ op[c].pc = "accept_write"
    BY <1>5 DEF AcceptWrite, BaselineIsHead
  <2>2. p \in 1..Len(proposals)
    BY <2>1, OpRow, LinkRange DEF Facts
  <2>3. proposals[p] \in ProposalRow
    BY <2>2 DEF EditInv, RowsInv
  <2>4. u \in Unit /\ head[u] # 0
    BY <2>1, <2>3, BoundsAssumption DEF ProposalRow, Rev
  <2> QED
    BY <1>1, <2>1, <2>4, LineReplace
<1>6. CASE Crash \/ UNCHANGED vars
  BY <1>2, <1>6 DEF Crash, vars, text
<1>7. CASE Serve \/ \E c \in Client : Abort(c)
  BY <1>2, <1>5, <1>7, LineQuiet DEF Serve
<1> QED
  BY <1>3, <1>4, <1>6, <1>7 DEF EditorialNext, EditorialStep

\* The text of a unit is a line of revisions: a correction or an edit retires exactly the revision
\* it was made for, which was current, the new one was never seen before, and what was retired
\* never returns, whichever corrections, edits and decisions race and wherever they end
\* (editorial.py accept, through authority.py accept_proposal).
THEOREM UnitsKeepTheLine == EditorialSpec => Line!Spec
<1>1. EditInv /\ [EditorialNext]_vars => [Line!Next]_<<head, Replaced>>
  BY LineNext
<1> QED
  BY <1>1, LineStart, EditorialInvariant, PTL DEF EditorialSpec, Line!Spec
==============================================================================
