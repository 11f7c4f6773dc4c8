---------------------------- MODULE KnowledgeProofs ----------------------------
(***************************************************************************)
(* Proofs about Research and Memory: type correctness; that a claim is as  *)
(* its evidence or the owner decided; that a search returns nothing that   *)
(* was out of date when it began, and, undisturbed, all that is current.   *)
(***************************************************************************)
EXTENDS Memory, TLAPS

(***************************************************************************)
(* The inductive invariant, part by part.                                  *)
(***************************************************************************)
ClaimsInv ==
  /\ head \in 1..MaxHead
  /\ claims \in [Claim -> ClaimRow] /\ logged \in [Claim -> ClaimState]
  /\ access \in [Source -> Access \union {"none"}]
  /\ evidence \subseteq Evidence
  /\ \A e \in evidence : Registered(e.claim) /\ access[e.source] # "none"
  /\ verdict \in [Claim -> Reviewed \union {"none"}]
  /\ unsettled \subseteq Claim /\ overlapped \subseteq Claim

\* What a call of Research is about.
Facts(c) ==
  LET o == op[c] IN
  /\ o.pc \notin {"idle", "import"} => o.claim \in Claim
  /\ o.pc \in {"create", "edit"} => o.rev # 0
  /\ o.pc \notin {"idle", "import", "create"} => claims[o.claim].rev # 0
  /\ o.pc = "import" => o.source \in Source
  /\ o.pc = "review" => o.state \in Reviewed

OpsInv == op \in [Client -> OpState] /\ \A c \in Client : Facts(c)

ResearchInv == ClaimsInv /\ OpsInv

\* Claims stay registered.
Stays == \A k \in Claim : claims[k].rev # 0 => claims'[k].rev # 0

(***************************************************************************)
(* Calls of Research.                                                      *)
(***************************************************************************)
LEMMA IdleOK == NoOp \in OpState /\ NoOp.pc = "idle"
BY ResearchAssumption DEF NoOp, OpState, ClaimState

LEMMA FreshRow ==
  ASSUME NEW o \in OpState, NEW b \in BOOLEAN
  PROVE  LET x == [o EXCEPT !.fresh = b] IN
         /\ x \in OpState /\ x.pc = o.pc /\ x.claim = o.claim /\ x.source = o.source
         /\ x.rev = o.rev /\ x.prior = o.prior /\ x.state = o.state
BY DEF OpState

\* One call goes on; the others may learn that their claim changed.
LEMMA ChangingOps ==
  ASSUME OpsInv, Stays, NEW c \in Client, NEW o \in OpState, NEW K, GotoChanging(c, o, K),
         op'[c] = o => Facts(c)'
  PROVE  OpsInv'
<1> DEFINE fresh(d) == op[d].fresh /\ op[d].claim \notin K
<1>1. ASSUME NEW d \in Client PROVE fresh(d) \in BOOLEAN
  BY Zenon
<1>2. op' = [d \in Client |-> IF d = c THEN o ELSE [op[d] EXCEPT !.fresh = fresh(d)]]
  BY DEF GotoChanging
<1> HIDE DEF fresh
<1>3. ASSUME NEW d \in Client, d # c
      PROVE  /\ op'[d] \in OpState /\ op'[d].pc = op[d].pc /\ op'[d].claim = op[d].claim
             /\ op'[d].source = op[d].source /\ op'[d].rev = op[d].rev /\ op'[d].state = op[d].state
  <2>1. op[d] \in OpState
    BY DEF OpsInv
  <2>2. op'[d] = [op[d] EXCEPT !.fresh = fresh(d)]
    BY <1>2, <1>3
  <2> QED BY <1>1, <2>1, <2>2, FreshRow
<1>4. ASSUME NEW d \in Client, d # c PROVE Facts(d)'
  <2>1. Facts(d)
    BY DEF OpsInv
  <2> QED BY <1>3, <1>4, <2>1 DEF Facts, Stays
<1>5. op' \in [Client -> OpState] /\ op'[c] = o
  BY <1>2, <1>3
<1> QED BY <1>4, <1>5 DEF OpsInv

LEMMA GotoOps ==
  ASSUME OpsInv, Stays, NEW c \in Client, NEW o \in OpState, Goto(c, o), op'[c] = o => Facts(c)'
  PROVE  OpsInv'
<1>1. op' \in [Client -> OpState] /\ op'[c] = o /\ \A d \in Client \ {c} : op'[d] = op[d]
  BY DEF Goto, OpsInv
<1>2. \A d \in Client \ {c} : Facts(d)'
  BY <1>1 DEF OpsInv, Facts, Stays
<1> QED BY <1>1, <1>2 DEF OpsInv

LEMMA IdleFacts ==
  ASSUME NEW c \in Client, op'[c] = NoOp
  PROVE  Facts(c)'
BY IdleOK DEF Facts

(***************************************************************************)
(* Steps of Research.                                                      *)
(***************************************************************************)
LEMMA ReadStep ==
  ASSUME ResearchInv, NEW c \in Client, NEW o \in OpState, Goto(c, o),
         UNCHANGED <<head, rows, history>>, op'[c] = o => Facts(c)'
  PROVE  ResearchInv'
<1>1. UNCHANGED <<head, claims, logged, access, evidence, verdict, unsettled, overlapped>>
  BY DEF rows, history
<1>2. ClaimsInv' /\ Stays
  BY <1>1 DEF ResearchInv, ClaimsInv, Registered, Stays
<1>3. OpsInv'
  BY <1>2, GotoOps DEF ResearchInv
<1> QED BY <1>2, <1>3 DEF ResearchInv

LEMMA OpRow ==
  ASSUME ResearchInv, NEW c \in Client
  PROVE  op[c] \in OpState /\ Facts(c)
BY DEF ResearchInv, OpsInv

LEMMA ReadHeadStep ==
  ASSUME ResearchInv, NEW c \in Client, NEW k \in Claim, CreateBegin(c, k) \/ EditBegin(c, k)
  PROVE  ResearchInv'
<1>1. PICK pc \in {"create", "edit"} : ReadHead(c, pc, k) /\ (pc = "edit" => claims[k].rev # 0)
  BY DEF CreateBegin, EditBegin, Registered
<1> DEFINE o == [NoOp EXCEPT !.pc = pc, !.claim = k, !.rev = head, !.prior = claims[k].state]
<1>2. Goto(c, o) /\ UNCHANGED <<head, rows, history>>
  BY <1>1 DEF ReadHead
<1>3. head \in 0..MaxHead /\ head # 0 /\ claims[k].state \in ClaimState
  BY ResearchAssumption DEF ResearchInv, ClaimsInv, ClaimRow
<1>4. o \in OpState /\ o.pc = pc /\ o.claim = k /\ o.rev = head
  BY <1>3, IdleOK DEF OpState
<1> HIDE DEF o
<1>5. op'[c] = o => Facts(c)'
  BY <1>1, <1>2, <1>3, <1>4 DEF Facts, rows
<1> QED BY <1>2, <1>4, <1>5, ReadStep

LEMMA CreateStep ==
  ASSUME ResearchInv, NEW c \in Client, CreateWrite(c)
  PROVE  ResearchInv'
<1> DEFINE k == op[c].claim
<1>1. /\ op[c].pc = "create" /\ claims' = [claims EXCEPT ![k].rev = op[c].rev]
      /\ GotoChanging(c, NoOp, {})
      /\ UNCHANGED <<head, logged, access, evidence, verdict, unsettled, overlapped>>
  BY DEF CreateWrite, history
<1>2. k \in Claim /\ op[c].rev # 0 /\ op[c].rev \in 0..MaxHead
  BY <1>1, OpRow DEF Facts, OpState
<1>3. claims \in [Claim -> ClaimRow]
  BY DEF ResearchInv, ClaimsInv
<1>4. claims' \in [Claim -> ClaimRow] /\ claims'[k].rev = op[c].rev
      /\ \A x \in Claim \ {k} : claims'[x] = claims[x]
  BY <1>1, <1>2, <1>3 DEF ClaimRow
<1>5. Stays
  BY <1>2, <1>4 DEF Stays
<1>6. ClaimsInv'
  BY <1>1, <1>4, <1>5 DEF ResearchInv, ClaimsInv, Registered, Stays, Evidence
<1>7. OpsInv'
  BY <1>1, <1>5, ChangingOps, IdleOK, IdleFacts DEF ResearchInv
<1> QED BY <1>6, <1>7 DEF ResearchInv

\* A claim is written with another state, and its history settled or not.
LEMMA ClaimChanges ==
  ASSUME ResearchInv, NEW c \in Client, NEW k \in Claim, NEW r \in 1..MaxHead, NEW s \in ClaimState,
         NEW by \in Reviewed \union {"none"}, NEW E \in SUBSET evidence,
         claims[k].ver < MaxChanges, op[c].claim = k,
         claims' = [claims EXCEPT ![k] = [rev |-> r, ver |-> claims[k].ver + 1, state |-> s]],
         logged' = logged \/ logged' = [logged EXCEPT ![k] = s],
         verdict' = [verdict EXCEPT ![k] = by], Settle(op[c]), evidence' = E,
         GotoChanging(c, NoOp, {k}), UNCHANGED <<head, access>>
  PROVE  ResearchInv'
<1>1. claims \in [Claim -> ClaimRow] /\ claims[k].ver \in 0..MaxChanges /\ MaxChanges \in Nat
      /\ MaxHead \in Nat
  BY ResearchAssumption DEF ResearchInv, ClaimsInv, ClaimRow
<1>2. [rev |-> r, ver |-> claims[k].ver + 1, state |-> s] \in ClaimRow
  BY <1>1 DEF ClaimRow
<1>3. claims' \in [Claim -> ClaimRow] /\ claims'[k].rev = r
      /\ \A x \in Claim \ {k} : claims'[x] = claims[x]
  BY <1>1, <1>2
<1>4. Stays
  BY <1>3 DEF Stays
<1>5. logged' \in [Claim -> ClaimState] /\ verdict' \in [Claim -> Reviewed \union {"none"}]
  BY DEF ResearchInv, ClaimsInv
<1>6. unsettled' \subseteq Claim /\ overlapped' \subseteq Claim
  BY DEF Settle, ResearchInv, ClaimsInv
<1>7. ClaimsInv'
  BY <1>3, <1>4, <1>5, <1>6 DEF ResearchInv, ClaimsInv, Registered, Stays, Evidence
<1>8. OpsInv'
  BY <1>4, ChangingOps, IdleOK, IdleFacts DEF ResearchInv
<1> QED BY <1>7, <1>8 DEF ResearchInv

LEMMA EditStep ==
  ASSUME ResearchInv, NEW c \in Client, EditWrite(c)
  PROVE  ResearchInv'
<1> DEFINE k == op[c].claim
<1>1. op[c].pc = "edit" /\ k \in Claim /\ op[c].rev \in 1..MaxHead
  BY OpRow, ResearchAssumption DEF EditWrite, Facts, OpState
<1>2. /\ claims' = [claims EXCEPT ![k] = [rev |-> op[c].rev, ver |-> claims[k].ver + 1,
                                          state |-> "UNREVIEWED"]]
      /\ claims[k].ver < MaxChanges
      /\ logged' = logged \/ logged' = [logged EXCEPT ![k] = "UNREVIEWED"]
      /\ verdict' = [verdict EXCEPT ![k] = "none"] /\ Settle(op[c])
      /\ evidence' \subseteq evidence /\ GotoChanging(c, NoOp, {k}) /\ UNCHANGED <<head, access>>
  BY <1>1 DEF EditWrite, LeftActive, ResearchInv, ClaimsInv
<1> HIDE DEF k
<1>3. "UNREVIEWED" \in ClaimState /\ evidence' \in SUBSET evidence
  BY <1>2 DEF ClaimState
<1> QED BY <1>1, <1>2, <1>3, ClaimChanges DEF k

LEMMA WriteStateStep ==
  ASSUME ResearchInv, NEW c \in Client, NEW by \in Reviewed \union {"none"},
         op[c].pc \in {"state", "review"}, WriteState(c, by)
  PROVE  ResearchInv'
<1> DEFINE k == op[c].claim
           s == op[c].state
<1>1. k \in Claim /\ s \in ClaimState /\ claims[k].rev \in 1..MaxHead
  <2>1. k \in Claim /\ claims[k].rev # 0 /\ s \in ClaimState
    BY OpRow DEF Facts, OpState
  <2>2. claims[k] \in ClaimRow /\ claims[k].rev \in 0..MaxHead
    BY <2>1 DEF ResearchInv, ClaimsInv, ClaimRow
  <2> QED BY <2>1, <2>2, ResearchAssumption
<1>2. /\ claims' = [claims EXCEPT ![k] = [rev |-> claims[k].rev, ver |-> claims[k].ver + 1,
                                          state |-> s]]
      /\ claims[k].ver < MaxChanges
      /\ logged' = logged \/ logged' = [logged EXCEPT ![k] = s]
      /\ verdict' = [verdict EXCEPT ![k] = by] /\ Settle(op[c])
      /\ evidence' \in SUBSET evidence /\ GotoChanging(c, NoOp, {k}) /\ UNCHANGED <<head, access>>
  BY <1>1 DEF WriteState
<1> HIDE DEF k, s
<1> QED BY <1>1, <1>2, ClaimChanges DEF k

LEMMA DerivedIsState ==
  ASSUME NEW k
  PROVE  Derived(k) \in ClaimState
BY DEF Derived, ClaimState

LEMMA RecalcWriteStep ==
  ASSUME ResearchInv, NEW c \in Client, RecalcWrite(c)
  PROVE  ResearchInv'
BY WriteStateStep DEF RecalcWrite

LEMMA ReviewWriteStep ==
  ASSUME ResearchInv, NEW c \in Client, ReviewWrite(c)
  PROVE  ResearchInv'
<1>1. op[c].pc = "review" /\ op[c].state \in Reviewed /\ WriteState(c, op[c].state)
  BY OpRow DEF ReviewWrite, Facts
<1> QED BY <1>1, WriteStateStep

LEMMA RecalcReadStep ==
  ASSUME ResearchInv, NEW c \in Client, RecalcReadClaim(c) \/ RecalcReadEvidence(c)
  PROVE  ResearchInv'
<1> DEFINE k == op[c].claim
<1>1. op[c] \in OpState /\ k \in Claim /\ claims[k].rev # 0 /\ op[c].pc \in {"claim", "evidence"}
  BY OpRow DEF RecalcReadClaim, RecalcReadEvidence, Facts
<1>2. claims[k].state \in ClaimState
  BY <1>1 DEF ResearchInv, ClaimsInv, ClaimRow
<1>3. CASE RecalcReadClaim(c)
  <2> DEFINE o == [op[c] EXCEPT !.pc = "evidence", !.prior = claims[k].state, !.fresh = TRUE]
  <2>1. o \in OpState /\ o.pc = "evidence" /\ o.claim = k
    BY <1>1, <1>2 DEF OpState
  <2>2. Goto(c, o) /\ UNCHANGED <<head, rows, history>>
    BY <1>3 DEF RecalcReadClaim
  <2> HIDE DEF o
  <2>3. op'[c] = o => Facts(c)'
    BY <1>1, <2>1, <2>2 DEF Facts, rows
  <2> QED BY <2>1, <2>2, <2>3, ReadStep
<1>4. CASE RecalcReadEvidence(c)
  <2> DEFINE o == [op[c] EXCEPT !.pc = "state", !.state = Derived(k)]
  <2>1. CASE op[c].prior \in {"REJECTED", Derived(k)}
    <3>1. /\ Goto(c, NoOp) /\ unsettled' \subseteq Claim
          /\ UNCHANGED <<head, claims, logged, access, evidence, verdict, overlapped>>
      BY <1>4, <2>1 DEF RecalcReadEvidence, rows, ResearchInv, ClaimsInv
    <3>2. ClaimsInv' /\ Stays
      BY <3>1 DEF ResearchInv, ClaimsInv, Registered, Stays
    <3> QED BY <3>1, <3>2, GotoOps, IdleOK, IdleFacts DEF ResearchInv
  <2>2. CASE op[c].prior \notin {"REJECTED", Derived(k)}
    <3>1. o \in OpState /\ o.pc = "state" /\ o.claim = k
      BY <1>1, DerivedIsState DEF OpState
    <3>2. Goto(c, o) /\ UNCHANGED <<head, rows, history>>
      BY <1>4, <2>2 DEF RecalcReadEvidence, history
    <3> HIDE DEF o
    <3>3. op'[c] = o => Facts(c)'
      BY <1>1, <3>1, <3>2 DEF Facts, rows
    <3> QED BY <3>1, <3>2, <3>3, ReadStep
  <2> QED BY <2>1, <2>2
<1> QED BY <1>3, <1>4

LEMMA BeginStep ==
  ASSUME ResearchInv, NEW c \in Client,
         \/ \E k \in Claim, s \in Reviewed : ReviewBegin(c, k, s)
         \/ \E s \in Source : ImportBegin(c, s)
         \/ Ends(c)
  PROVE  ResearchInv'
<1>1. ASSUME NEW k \in Claim, NEW s \in Reviewed, ReviewBegin(c, k, s) PROVE ResearchInv'
  <2> DEFINE o == [NoOp EXCEPT !.pc = "review", !.claim = k, !.prior = claims[k].state, !.state = s]
  <2>1. claims[k].state \in ClaimState /\ claims[k].rev # 0 /\ s \in ClaimState
    BY <1>1 DEF ReviewBegin, Registered, ResearchInv, ClaimsInv, ClaimRow, Reviewed, ClaimState
  <2>2. o \in OpState /\ o.pc = "review" /\ o.claim = k /\ o.state = s
    BY <2>1, IdleOK DEF OpState
  <2>3. Goto(c, o) /\ UNCHANGED <<head, rows, history>>
    BY <1>1 DEF ReviewBegin
  <2> HIDE DEF o
  <2>4. op'[c] = o => Facts(c)'
    BY <2>1, <2>2, <2>3 DEF Facts, rows
  <2> QED BY <2>2, <2>3, <2>4, ReadStep
<1>2. ASSUME NEW s \in Source, ImportBegin(c, s) PROVE ResearchInv'
  <2> DEFINE o == [NoOp EXCEPT !.pc = "import", !.source = s]
  <2>1. o \in OpState /\ o.pc = "import" /\ o.source = s
    BY IdleOK DEF OpState
  <2>2. Goto(c, o) /\ UNCHANGED <<head, rows, history>>
    BY <1>2 DEF ImportBegin
  <2> HIDE DEF o
  <2>3. op'[c] = o => Facts(c)'
    BY <2>1 DEF Facts
  <2> QED BY <2>1, <2>2, <2>3, ReadStep
<1>3. CASE Ends(c)
  BY <1>3, ReadStep, IdleOK, IdleFacts DEF Ends
<1> QED BY <1>1, <1>2, <1>3

LEMMA SourceStep ==
  ASSUME ResearchInv, NEW c \in Client,
         ImportWrite(c) \/ \E s \in Source, a \in Access : MarkAccess(c, s, a)
  PROVE  ResearchInv'
<1>1. CASE ImportWrite(c)
  <2> DEFINE s == op[c].source
  <2>1. s \in Source
    BY <1>1, OpRow DEF ImportWrite, Facts
  <2>2. /\ access' = [access EXCEPT ![s] = "METADATA_ONLY"] /\ Goto(c, NoOp)
        /\ UNCHANGED <<head, claims, logged, evidence, verdict, unsettled, overlapped>>
    BY <1>1 DEF ImportWrite, history
  <2>3. access' \in [Source -> Access \union {"none"}] /\ access'[s] # "none"
        /\ \A t \in Source : access[t] # "none" => access'[t] # "none"
    BY <2>1, <2>2 DEF ResearchInv, ClaimsInv, Access
  <2>4. ClaimsInv' /\ Stays
    BY <2>2, <2>3 DEF ResearchInv, ClaimsInv, Registered, Stays, Evidence
  <2> QED BY <2>2, <2>4, GotoOps, IdleOK, IdleFacts DEF ResearchInv
<1>2. ASSUME NEW s \in Source, NEW a \in Access, MarkAccess(c, s, a) PROVE ResearchInv'
  <2>1. /\ access' = [access EXCEPT ![s] = a] /\ GotoChanging(c, NoOp, Cited(s))
        /\ unsettled' = unsettled \union Cited(s)
        /\ UNCHANGED <<head, claims, logged, evidence, verdict, overlapped>>
    BY <1>2 DEF MarkAccess
  <2>2. access' \in [Source -> Access \union {"none"}]
        /\ \A t \in Source : access[t] # "none" => access'[t] # "none"
    BY <2>1 DEF ResearchInv, ClaimsInv, Access
  <2>3. Cited(s) \subseteq Claim
    BY DEF Cited, ResearchInv, ClaimsInv, Evidence
  <2>4. ClaimsInv' /\ Stays
    BY <2>1, <2>2, <2>3 DEF ResearchInv, ClaimsInv, Registered, Stays, Evidence
  <2> QED BY <2>1, <2>4, ChangingOps, IdleOK, IdleFacts DEF ResearchInv
<1> QED BY <1>1, <1>2

LEMMA AddEvidenceStep ==
  ASSUME ResearchInv, NEW c \in Client, NEW k \in Claim, NEW s \in Source,
         NEW r \in Relationship, AddEvidence(c, k, s, r)
  PROVE  ResearchInv'
<1> DEFINE o == [NoOp EXCEPT !.pc = "claim", !.claim = k]
           e == [claim |-> k, source |-> s, relationship |-> r]
<1>1. /\ evidence' = evidence \union {e} /\ unsettled' = unsettled \union {k}
      /\ GotoChanging(c, o, {k}) /\ claims[k].rev # 0 /\ access[s] # "none"
      /\ UNCHANGED <<head, claims, logged, access, verdict, overlapped>>
  BY DEF AddEvidence, Citable, Registered
<1>2. o \in OpState /\ o.pc = "claim" /\ o.claim = k
  BY IdleOK DEF OpState
<1>3. e \in Evidence /\ e.claim = k /\ e.source = s
  BY DEF Evidence
<1> HIDE DEF o, e
<1>4. ClaimsInv' /\ Stays
  BY <1>1, <1>3 DEF ResearchInv, ClaimsInv, Registered, Stays
<1>5. op'[c] = o => Facts(c)'
  BY <1>1, <1>2 DEF Facts
<1> QED BY <1>1, <1>2, <1>4, <1>5, ChangingOps DEF ResearchInv

LEMMA AcceptUnitStep ==
  ASSUME ResearchInv, AcceptUnit
  PROVE  ResearchInv'
<1>1. /\ head' \in 1..MaxHead
      /\ UNCHANGED <<claims, logged, access, evidence, op, verdict, unsettled, overlapped>>
  BY ResearchAssumption DEF AcceptUnit, ResearchInv, ClaimsInv, rows, history
<1> QED BY <1>1 DEF ResearchInv, ClaimsInv, OpsInv, Facts, Registered

LEMMA ResearchInit == Init => ResearchInv
<1> SUFFICES ASSUME Init PROVE ResearchInv
  OBVIOUS
<1>1. ClaimsInv
  BY ResearchAssumption DEF Init, ClaimsInv, ClaimRow, ClaimState
<1>2. OpsInv
  BY IdleOK DEF Init, OpsInv, Facts
<1> QED BY <1>1, <1>2 DEF ResearchInv

LEMMA ResearchStep == ResearchInv /\ Next => ResearchInv'
<1> SUFFICES ASSUME ResearchInv, Next PROVE ResearchInv'
  OBVIOUS
<1>1. CASE AcceptUnit
  BY <1>1, AcceptUnitStep
<1>2. ASSUME NEW c \in Client, NEW k \in Claim,
             \/ CreateBegin(c, k) \/ EditBegin(c, k)
             \/ \E s \in Source, r \in Relationship : AddEvidence(c, k, s, r)
             \/ \E s \in Reviewed : ReviewBegin(c, k, s)
      PROVE  ResearchInv'
  BY <1>2, ReadHeadStep, AddEvidenceStep, BeginStep
<1>3. ASSUME NEW c \in Client, NEW s \in Source,
             ImportBegin(c, s) \/ \E a \in Access : MarkAccess(c, s, a)
      PROVE  ResearchInv'
  BY <1>3, BeginStep, SourceStep
<1>4. ASSUME NEW c \in Client,
             \/ CreateWrite(c) \/ EditWrite(c) \/ ImportWrite(c) \/ RecalcReadClaim(c)
             \/ RecalcReadEvidence(c) \/ RecalcWrite(c) \/ ReviewWrite(c) \/ Ends(c)
      PROVE  ResearchInv'
  BY <1>4, CreateStep, EditStep, SourceStep, RecalcReadStep, RecalcWriteStep, ReviewWriteStep,
     BeginStep
<1> QED BY <1>1, <1>2, <1>3, <1>4 DEF Next

(***************************************************************************)
(* Documents and what becomes of them.                                     *)
(***************************************************************************)
\* A registered claim stays as it is or gets its next version; the unit's revisions go up.
Moves ==
  /\ head' >= head
  /\ \A k \in Claim : claims[k].rev # 0 =>
       claims'[k].rev # 0 /\ (claims'[k] = claims[k] \/ claims'[k].ver = claims[k].ver + 1)

LEMMA NextMoves ==
  ASSUME ResearchInv, Next
  PROVE  Moves
<1>1. head \in Nat /\ claims \in [Claim -> ClaimRow]
  BY ResearchAssumption DEF ResearchInv, ClaimsInv
<1>2. CASE claims' = claims /\ head' = head
  BY <1>1, <1>2 DEF Moves
<1>3. CASE AcceptUnit
  BY <1>1, <1>3 DEF AcceptUnit, rows, Moves
<1>4. ASSUME NEW c \in Client, CreateWrite(c) PROVE Moves
  BY <1>1, <1>4 DEF CreateWrite, Registered, Moves
<1>5. ASSUME NEW c \in Client, EditWrite(c) PROVE Moves
  <2> DEFINE k == op[c].claim
  <2>1. k \in Claim /\ op[c].rev # 0
    BY <1>5, OpRow DEF EditWrite, Facts
  <2>2. /\ claims' = [claims EXCEPT ![k] = [rev |-> op[c].rev, ver |-> claims[k].ver + 1,
                                            state |-> "UNREVIEWED"]]
        /\ head' = head
    BY <1>5 DEF EditWrite
  <2> QED BY <1>1, <2>1, <2>2 DEF Moves
<1>6. ASSUME NEW c \in Client, NEW by, op[c].pc \in {"state", "review"}, WriteState(c, by)
      PROVE  Moves
  <2> DEFINE k == op[c].claim
  <2>1. k \in Claim /\ claims[k].rev # 0
    BY <1>6, OpRow DEF Facts
  <2>2. /\ claims' = [claims EXCEPT ![k] = [rev |-> claims[k].rev, ver |-> claims[k].ver + 1,
                                            state |-> op[c].state]]
        /\ head' = head
    BY <1>6 DEF WriteState
  <2> QED BY <1>1, <2>1, <2>2 DEF Moves
<1>7. ASSUME NEW c \in Client, NEW k \in Claim,
             \/ CreateBegin(c, k) \/ EditBegin(c, k)
             \/ \E s \in Source, r \in Relationship : AddEvidence(c, k, s, r)
             \/ \E s \in Reviewed : ReviewBegin(c, k, s)
      PROVE  Moves
  BY <1>2, <1>7 DEF CreateBegin, EditBegin, ReadHead, AddEvidence, ReviewBegin, rows
<1>8. ASSUME NEW c \in Client, NEW s \in Source,
             ImportBegin(c, s) \/ \E a \in Access : MarkAccess(c, s, a)
      PROVE  Moves
  BY <1>2, <1>8 DEF ImportBegin, MarkAccess, rows
<1>9. ASSUME NEW c \in Client,
             ImportWrite(c) \/ RecalcReadClaim(c) \/ RecalcReadEvidence(c) \/ Ends(c)
      PROVE  Moves
  BY <1>2, <1>9 DEF ImportWrite, RecalcReadClaim, RecalcReadEvidence, Ends, rows
<1>10. ASSUME NEW c \in Client, RecalcWrite(c) \/ ReviewWrite(c) PROVE Moves
  BY <1>6, <1>10 DEF RecalcWrite, ReviewWrite
<1> QED BY <1>3, <1>4, <1>5, <1>7, <1>8, <1>9, <1>10 DEF Next

LEMMA CanonicalDocuments ==
  ASSUME ResearchInv
  PROVE  Canonical \subseteq Document /\ UnitDocument \in Document
<1>1. \A k \in Claim : Registered(k) =>
        [object |-> k, rev |-> claims[k].rev, ver |-> claims[k].ver] \in Document
  BY ResearchAssumption DEF Document, ResearchInv, ClaimsInv, ClaimRow, Registered
<1>2. UnitDocument \in Document
  BY ResearchAssumption DEF UnitDocument, Document, ResearchInv, ClaimsInv
<1> QED BY <1>1, <1>2 DEF Canonical, ClaimDocuments

\* The document is a current one or an earlier state of one.
Behind(b) ==
  /\ b.object = "unit" => b.ver = 0 /\ b.rev <= head
  /\ b.object # "unit" =>
       /\ b.object \in Claim /\ claims[b.object].rev # 0
       /\ NotOlder(claims[b.object], b)

LEMMA CanonicalBehind ==
  ASSUME ResearchInv
  PROVE  \A b \in Canonical : Behind(b)
<1>1. head \in Nat /\ claims \in [Claim -> ClaimRow]
  BY ResearchAssumption DEF ResearchInv, ClaimsInv
<1>2. ASSUME NEW k \in Claim, Registered(k)
      PROVE  Behind([object |-> k, rev |-> claims[k].rev, ver |-> claims[k].ver])
  BY <1>1, <1>2, MemoryAssumption, ResearchAssumption DEF Behind, NotOlder, Registered, ClaimRow
<1>3. Behind(UnitDocument)
  BY <1>1 DEF Behind, UnitDocument
<1> QED BY <1>2, <1>3 DEF Canonical, ClaimDocuments

LEMMA BehindStays ==
  ASSUME ResearchInv, Moves, ResearchInv', NEW b \in Document, Behind(b)
  PROVE  Behind(b)'
<1>1. head \in Nat /\ head' \in Nat /\ claims \in [Claim -> ClaimRow]
      /\ claims' \in [Claim -> ClaimRow] /\ MaxHead \in Nat /\ MaxChanges \in Nat
      /\ b.rev \in Nat /\ b.ver \in Nat
  BY ResearchAssumption DEF ResearchInv, ClaimsInv, Document
<1>2. CASE b.object = "unit"
  BY <1>1, <1>2 DEF Behind, Moves
<1>3. CASE b.object # "unit"
  <2> DEFINE k == b.object
  <2>1. k \in Claim /\ claims[k].rev # 0 /\ NotOlder(claims[k], b)
    BY <1>3 DEF Behind
  <2>2. claims'[k].rev # 0 /\ (claims'[k] = claims[k] \/ claims'[k].ver = claims[k].ver + 1)
    BY <2>1 DEF Moves
  <2>3. claims[k] \in ClaimRow /\ claims[k].ver \in Nat
    BY <1>1, <2>1 DEF ClaimRow
  <2>4. NotOlder(claims'[k], b)
    BY <1>1, <2>1, <2>2, <2>3 DEF NotOlder
  <2> QED BY <1>3, <2>1, <2>2, <2>4 DEF Behind, NotOlder
<1> QED BY <1>2, <1>3

LEMMA CurrentIsNotOlder ==
  ASSUME ResearchInv, NEW d \in Canonical, NEW b \in Document, Behind(b), d.object = b.object
  PROVE  NotOlder(d, b)
<1>1. head \in Nat
  BY ResearchAssumption DEF ResearchInv, ClaimsInv
<1>2. CASE d = UnitDocument
  BY <1>1, <1>2 DEF UnitDocument, Behind, NotOlder
<1>3. ASSUME NEW k \in Claim, d = [object |-> k, rev |-> claims[k].rev, ver |-> claims[k].ver]
      PROVE  NotOlder(d, b)
  BY <1>3, MemoryAssumption DEF Behind, NotOlder
<1> QED BY <1>2, <1>3 DEF Canonical, ClaimDocuments

(***************************************************************************)
(* Calls of Book Memory.                                                   *)
(***************************************************************************)
IndexInv ==
  /\ index \subseteq Document /\ current \subseteq index /\ vectors \subseteq index
  /\ status \in {"none", "EMPTY", "LEXICAL_READY", "SEMANTIC_READY", "FAILED"}
  /\ patchy \in BOOLEAN /\ listed \in BOOLEAN

NoneOutdated(D, B) == \A d \in D, b \in B : d.object = b.object => NotOlder(d, b)

\* What a call began with is behind the current documents, and what it answers is not.
JobFacts(c) ==
  /\ \A b \in job[c].began : Behind(b)
  /\ job[c].pc = "store" => job[c].docs \subseteq index
  /\ job[c].pc = "answer" => NoneOutdated(job[c].docs, job[c].began)
  /\ job[c].pc # "idle" => job[c].purpose # "none"

JobsInv == job \in [Client -> JobState] /\ \A c \in Client : JobFacts(c)

KnowledgeInv == ResearchInv /\ IndexInv /\ JobsInv

LEMMA DisturbedRow ==
  ASSUME NEW j \in JobState, NEW b \in BOOLEAN
  PROVE  LET x == [j EXCEPT !.fresh = b] IN
         /\ x \in JobState /\ x.pc = j.pc /\ x.docs = j.docs /\ x.began = j.began /\ x.purpose = j.purpose
BY DEF JobState

LEMMA DisturbedJob ==
  ASSUME JobsInv, NEW d \in Client, NEW b
  PROVE  /\ Disturbed(d, b) \in JobState /\ Disturbed(d, b).pc = job[d].pc
         /\ Disturbed(d, b).purpose = job[d].purpose
         /\ Disturbed(d, b).docs = job[d].docs /\ Disturbed(d, b).began = job[d].began
<1> DEFINE fresh == job[d].fresh /\ ~(b /\ job[d].pc # "idle")
<1>1. fresh \in BOOLEAN
  BY Zenon
<1>2. Disturbed(d, b) = [job[d] EXCEPT !.fresh = fresh]
  BY DEF Disturbed
<1>3. job[d] \in JobState
  BY DEF JobsInv
<1> HIDE DEF fresh
<1> QED BY <1>1, <1>2, <1>3, DisturbedRow

\* A call goes on to j; the others have the same documents as before.
OneJob(c, j) ==
  /\ job' \in [Client -> JobState] /\ job'[c] = j
  /\ \A d \in Client \ {c} :
       /\ job'[d].pc = job[d].pc /\ job'[d].purpose = job[d].purpose
       /\ job'[d].docs = job[d].docs /\ job'[d].began = job[d].began

LEMMA DoIsOneJob ==
  ASSUME JobsInv, NEW c \in Client, NEW j \in JobState, Do(c, j) \/ DoWriting(c, j)
  PROVE  OneJob(c, j)
<1>1. CASE Do(c, j)
  BY <1>1 DEF Do, JobsInv, OneJob
<1>2. CASE DoWriting(c, j)
  <2>1. job' = [d \in Client |-> IF d = c THEN j ELSE Disturbed(d, ~job[c].fresh)]
    BY <1>2 DEF DoWriting
  <2> QED BY <2>1, DisturbedJob DEF OneJob
<1> QED BY <1>1, <1>2

\* A step of a memory call that changes no document.
LEMMA MemoryStep ==
  ASSUME KnowledgeInv, NEW c \in Client, NEW j \in JobState, OneJob(c, j), UNCHANGED vars,
         IndexInv', index \subseteq index',
         \A b \in j.began : Behind(b),
         j.pc = "store" => j.docs \subseteq index',
         j.pc = "answer" => NoneOutdated(j.docs, j.began),
         j.pc # "idle" => j.purpose # "none"
  PROVE  KnowledgeInv'
<1>1. ResearchInv'
  BY DEF KnowledgeInv, ResearchInv, ClaimsInv, OpsInv, Facts, Registered, vars, rows, history
<1>2. \A b : Behind(b)' <=> Behind(b)
  BY DEF Behind, NotOlder, vars, rows
<1>3. \A D, B : NoneOutdated(D, B)' <=> NoneOutdated(D, B)
  BY DEF NoneOutdated, NotOlder
<1>4. ASSUME NEW d \in Client PROVE JobFacts(d)'
  <2>1. CASE d = c
    BY <1>2, <2>1 DEF OneJob, JobFacts, NoneOutdated, NotOlder
  <2>2. CASE d # c
    <3>1. JobFacts(d)
      BY DEF KnowledgeInv, JobsInv
    <3>2. /\ job'[d].pc = job[d].pc /\ job'[d].purpose = job[d].purpose
          /\ job'[d].docs = job[d].docs /\ job'[d].began = job[d].began
      BY <2>2 DEF OneJob
    <3> QED BY <1>2, <3>1, <3>2 DEF JobFacts, NoneOutdated, NotOlder
  <2> QED BY <2>1, <2>2
<1> QED BY <1>1, <1>4 DEF KnowledgeInv, JobsInv, OneJob

LEMMA JobRow ==
  ASSUME KnowledgeInv, NEW c \in Client
  PROVE  /\ job[c] \in JobState /\ JobFacts(c) /\ job[c].docs \subseteq Document
         /\ job[c].began \subseteq Document
BY DEF KnowledgeInv, JobsInv, JobState

LEMMA NoJobOK == NoJob \in JobState /\ NoJob.began = {} /\ NoJob.pc = "idle"
BY DEF NoJob, JobState

\* A call goes on with other documents; the index is left alone.
LEMMA OnlyJobStep ==
  ASSUME KnowledgeInv, NEW c \in Client, NEW j \in JobState, Do(c, j),
         UNCHANGED <<vars, listed, indexed, patchy>>,
         j.began = job[c].began \/ j.began = Canonical \/ j.began = {},
         j.pc = "store" => j.docs \subseteq index,
         j.pc = "answer" => NoneOutdated(j.docs, j.began),
         j.pc # "idle" => j.purpose # "none"
  PROVE  KnowledgeInv'
<1>1. OneJob(c, j)
  BY DoIsOneJob DEF KnowledgeInv
<1>2. \A b \in j.began : Behind(b)
  BY CanonicalBehind, JobRow DEF KnowledgeInv, JobFacts
<1>3. IndexInv' /\ index' = index
  BY DEF KnowledgeInv, IndexInv, indexed
<1>4. UNCHANGED vars
  OBVIOUS
<1> QED BY <1>1, <1>2, <1>3, <1>4, MemoryStep

LEMMA SyncReadsStep ==
  ASSUME KnowledgeInv, NEW c \in Client,
         (\E p \in Purpose : SyncBegin(c, p)) \/ SyncReadHeads(c) \/ SyncReadPrior(c)
  PROVE  KnowledgeInv'
<1>1. Canonical \subseteq Document /\ UnitDocument \in Document
  BY CanonicalDocuments DEF KnowledgeInv
<1>2. job[c] \in JobState /\ job[c].docs \subseteq Document
      /\ (job[c].pc # "idle" => job[c].purpose # "none")
  BY JobRow DEF JobFacts
<1>3. ASSUME NEW p \in Purpose, SyncBegin(c, p) PROVE KnowledgeInv'
  <2> DEFINE j == [NoJob EXCEPT !.pc = "heads", !.purpose = p, !.docs = Canonical,
                                !.began = Canonical]
  <2>1. j \in JobState /\ j.pc = "heads" /\ j.began = Canonical /\ j.purpose # "none"
    BY <1>1, NoJobOK DEF JobState, Purpose
  <2>2. Do(c, j) /\ UNCHANGED <<vars, listed, indexed, patchy>>
    BY <1>3 DEF SyncBegin
  <2> HIDE DEF j
  <2> QED BY <2>1, <2>2, OnlyJobStep
<1>4. CASE SyncReadHeads(c)
  <2> DEFINE D == {AtHead(d) : d \in job[c].docs}
             j == [job[c] EXCEPT !.pc = "prior", !.docs = D]
  <2>1. D \subseteq Document
    BY <1>1, <1>2 DEF AtHead
  <2> HIDE DEF D
  <2>2. j \in JobState /\ j.pc = "prior" /\ j.began = job[c].began
        /\ j.purpose = job[c].purpose
    BY <1>2, <2>1 DEF JobState
  <2>3. Do(c, j) /\ UNCHANGED <<vars, listed, indexed, patchy>> /\ job[c].pc # "idle"
    BY <1>4 DEF SyncReadHeads, D
  <2> HIDE DEF j
  <2> QED BY <1>2, <2>2, <2>3, OnlyJobStep
<1>5. CASE SyncReadPrior(c)
  <2> DEFINE b == current # job[c].docs
             j == [job[c] EXCEPT !.pc = "write", !.changed = b]
  <2>1. b \in BOOLEAN
    OBVIOUS
  <2> HIDE DEF b
  <2>2. j \in JobState /\ j.pc = "write" /\ j.began = job[c].began
        /\ j.purpose = job[c].purpose
    BY <1>2, <2>1 DEF JobState
  <2>3. Do(c, j) /\ UNCHANGED <<vars, listed, indexed, patchy>> /\ job[c].pc # "idle"
    BY <1>5 DEF SyncReadPrior, b
  <2> HIDE DEF j
  <2> QED BY <1>2, <2>2, <2>3, OnlyJobStep
<1> QED BY <1>3, <1>4, <1>5

LEMMA SyncWriteStep ==
  ASSUME KnowledgeInv, NEW c \in Client, SyncWrite(c)
  PROVE  KnowledgeInv'
<1>1. job[c] \in JobState /\ job[c].docs \subseteq Document /\ JobFacts(c)
  BY JobRow
<1> DEFINE p == CASE job[c].purpose = "lexical"  -> "select"
                  [] job[c].purpose = "semantic" -> "ready"
                  [] job[c].purpose = "rebuild"  -> "embed"
           j(x) == [job[c] EXCEPT !.pc = x, !.docs = {}, !.changed = FALSE]
<1>2. ASSUME NEW x \in {"select", "ready", "embed"}
      PROVE  j(x) \in JobState /\ j(x).pc = x /\ j(x).began = job[c].began
             /\ j(x).purpose = job[c].purpose
  BY <1>1 DEF JobState
<1>3. /\ index' = index \union job[c].docs /\ current' = job[c].docs
      /\ status' = StatusAfter(job[c]) /\ UNCHANGED <<vars, listed, vectors>>
      /\ patchy' = (patchy \/ ~(job[c].fresh \/ job[c].changed)) /\ DoWriting(c, j(p))
  BY DEF SyncWrite
<1>4. IndexInv' /\ index \subseteq index'
  BY <1>1, <1>3 DEF KnowledgeInv, IndexInv, StatusAfter
<1>5. CASE job[c].purpose \in Purpose
  <2>1. p \in {"select", "ready", "embed"}
    BY <1>5 DEF Purpose
  <2> HIDE DEF p
  <2> DEFINE jp == j(p)
  <2>2. jp \in JobState /\ jp.pc \in {"select", "ready", "embed"} /\ jp.began = job[c].began
        /\ jp.purpose # "none"
    BY <1>2, <1>5, <2>1 DEF Purpose
  <2>3. DoWriting(c, jp)
    BY <1>3
  <2> HIDE DEF jp
  <2>4. OneJob(c, jp)
    BY <2>2, <2>3, DoIsOneJob DEF KnowledgeInv
  <2> QED BY <1>1, <1>3, <1>4, <2>2, <2>4, MemoryStep DEF JobFacts
<1>6. job[c].pc = "write" /\ job[c].purpose \in Purpose
  BY <1>1 DEF SyncWrite, JobFacts, JobState
<1> QED BY <1>5, <1>6

LEMMA SearchStep ==
  ASSUME KnowledgeInv, NEW c \in Client,
         SearchReady(c) \/ SearchSelect(c) \/ SearchRecheck(c) \/ RebuildRead(c)
  PROVE  KnowledgeInv'
<1>1. job[c] \in JobState /\ job[c].docs \subseteq Document /\ JobFacts(c)
      /\ job[c].began \subseteq Document /\ (job[c].pc # "idle" => job[c].purpose # "none")
  BY JobRow DEF JobFacts
<1>2. current \subseteq index /\ index \subseteq Document
  BY DEF KnowledgeInv, IndexInv
<1> DEFINE j(x, D) == [job[c] EXCEPT !.pc = x, !.docs = D]
<1>3. ASSUME NEW x \in {"recheck", "answer", "store"}, NEW D \in SUBSET Document
      PROVE  j(x, D) \in JobState /\ j(x, D).pc = x /\ j(x, D).docs = D
             /\ j(x, D).began = job[c].began /\ j(x, D).purpose = job[c].purpose
  BY <1>1 DEF JobState
<1>4. CASE SearchReady(c)
  <2> DEFINE k == [job[c] EXCEPT !.pc = "select"]
  <2>1. k \in JobState /\ k.pc = "select" /\ k.began = job[c].began
        /\ k.purpose = job[c].purpose
    BY <1>1 DEF JobState
  <2>2. Do(c, k) /\ UNCHANGED <<vars, listed, indexed, patchy>> /\ job[c].pc # "idle"
    BY <1>4 DEF SearchReady
  <2> HIDE DEF k
  <2> QED BY <1>1, <2>1, <2>2, OnlyJobStep
<1>5. CASE SearchSelect(c)
  <2> DEFINE D == Matching(job[c].purpose)
             b == job[c].fresh /\ (job[c].purpose = "semantic" => ~patchy)
             k == [job[c] EXCEPT !.pc = "recheck", !.docs = D, !.fresh = b]
  <2>1. D \in SUBSET Document
    BY <1>2 DEF Matching
  <2>2. b \in BOOLEAN
    BY Zenon
  <2>3. Do(c, k) /\ UNCHANGED <<vars, listed, indexed, patchy>> /\ job[c].pc # "idle"
    BY <1>5 DEF SearchSelect
  <2> HIDE DEF D, b
  <2>4. k \in JobState /\ k.pc = "recheck" /\ k.began = job[c].began
        /\ k.purpose = job[c].purpose
    BY <1>1, <2>1, <2>2 DEF JobState
  <2> HIDE DEF k
  <2> QED BY <1>1, <2>3, <2>4, OnlyJobStep
<1>6. CASE SearchRecheck(c)
  <2> DEFINE D == RowsCurrent(job[c].docs)
             k == j("answer", D)
  <2>1. D \in SUBSET Document /\ D \subseteq Canonical
    BY <1>1 DEF RowsCurrent
  <2>2. Do(c, k) /\ UNCHANGED <<vars, listed, indexed, patchy>> /\ job[c].pc # "idle"
    BY <1>6 DEF SearchRecheck
  <2>3. NoneOutdated(D, job[c].began)
    BY <1>1, <2>1, CurrentIsNotOlder DEF NoneOutdated, JobFacts, KnowledgeInv
  <2> HIDE DEF D
  <2>4. k \in JobState /\ k.pc = "answer" /\ k.docs = D /\ k.began = job[c].began
        /\ k.purpose = job[c].purpose
    BY <1>3, <2>1
  <2> HIDE DEF k
  <2> QED BY <1>1, <2>2, <2>3, <2>4, OnlyJobStep
<1>7. CASE RebuildRead(c)
  <2> DEFINE k == j("store", current)
  <2>1. Do(c, k) /\ UNCHANGED <<vars, listed, indexed, patchy>> /\ job[c].pc # "idle"
    BY <1>7 DEF RebuildRead
  <2>2. k \in JobState /\ k.pc = "store" /\ k.docs = current /\ k.began = job[c].began
        /\ k.purpose = job[c].purpose
    BY <1>2, <1>3
  <2> HIDE DEF k
  <2> QED BY <1>1, <1>2, <2>1, <2>2, OnlyJobStep
<1> QED BY <1>4, <1>5, <1>6, <1>7

LEMMA EndingStep ==
  ASSUME KnowledgeInv, NEW c \in Client, RebuildStore(c) \/ RebuildFail(c) \/ JobEnds(c)
  PROVE  KnowledgeInv'
<1>1. job[c] \in JobState /\ JobFacts(c)
  BY JobRow
<1>2. NoJob \in JobState /\ NoJob.began = {} /\ NoJob.pc = "idle"
  BY NoJobOK
<1>3. CASE RebuildStore(c)
  <2>1. /\ vectors' = (vectors \ current) \union job[c].docs /\ status' = "SEMANTIC_READY"
        /\ patchy' = ~job[c].fresh /\ DoWriting(c, NoJob) /\ job[c].pc = "store"
        /\ UNCHANGED <<vars, listed, index, current>>
    BY <1>3 DEF RebuildStore
  <2>2. IndexInv' /\ index \subseteq index'
    BY <1>1, <2>1 DEF KnowledgeInv, IndexInv, JobFacts
  <2>3. OneJob(c, NoJob)
    BY <1>2, <2>1, DoIsOneJob DEF KnowledgeInv
  <2> QED BY <1>2, <2>1, <2>2, <2>3, MemoryStep
<1>4. CASE RebuildFail(c)
  <2>1. status' = "FAILED" /\ Do(c, NoJob) /\ UNCHANGED <<vars, listed, index, current, vectors, patchy>>
    BY <1>4 DEF RebuildFail
  <2>2. IndexInv' /\ index \subseteq index'
    BY <2>1 DEF KnowledgeInv, IndexInv
  <2>3. OneJob(c, NoJob)
    BY <1>2, <2>1, DoIsOneJob DEF KnowledgeInv
  <2> QED BY <1>2, <2>1, <2>2, <2>3, MemoryStep
<1>5. CASE JobEnds(c)
  BY <1>2, <1>5, OnlyJobStep DEF JobEnds
<1> QED BY <1>3, <1>4, <1>5

LEMMA ResearchAlongsideStep ==
  ASSUME KnowledgeInv, ResearchAlongside
  PROVE  KnowledgeInv'
<1>1. ResearchInv' /\ Moves
  BY ResearchStep, NextMoves DEF ResearchAlongside, KnowledgeInv
<1>2. IndexInv' /\ index' = index
  BY DEF ResearchAlongside, KnowledgeInv, IndexInv, indexed
<1>3. ASSUME NEW c \in Client
      PROVE  /\ job'[c] \in JobState /\ job'[c].pc = job[c].pc /\ job'[c].docs = job[c].docs
             /\ job'[c].began = job[c].began /\ job'[c].purpose = job[c].purpose
  <2>1. job'[c] = Disturbed(c, Canonical' # Canonical)
    BY DEF ResearchAlongside
  <2> QED BY <2>1, DisturbedJob DEF KnowledgeInv
<1>4. job' \in [Client -> JobState]
  BY <1>3 DEF ResearchAlongside
<1>5. ASSUME NEW c \in Client PROVE JobFacts(c)'
  <2>1. JobFacts(c) /\ job[c].began \subseteq Document
    BY JobRow
  <2>2. \A b \in job[c].began : Behind(b)'
    BY <1>1, <2>1, BehindStays DEF JobFacts, KnowledgeInv
  <2> QED BY <1>2, <1>3, <2>1, <2>2 DEF JobFacts, NoneOutdated, NotOlder
<1> QED BY <1>1, <1>2, <1>4, <1>5 DEF KnowledgeInv, JobsInv

\* The documents become others without a write: only whom it disturbs changes.
LEMMA ListUnitStep ==
  ASSUME KnowledgeInv, ListUnit
  PROVE  KnowledgeInv'
<1>1. UNCHANGED vars /\ UNCHANGED <<index, current, vectors, status, patchy>> /\ listed' = ~listed
  BY DEF ListUnit, indexed
<1>2. ResearchInv'
  BY <1>1 DEF KnowledgeInv, ResearchInv, ClaimsInv, OpsInv, Facts, Registered, vars, rows, history
<1>3. IndexInv'
  BY <1>1 DEF KnowledgeInv, IndexInv
<1>4. \A b : Behind(b)' <=> Behind(b)
  BY <1>1 DEF Behind, NotOlder, vars, rows
<1>5. ASSUME NEW c \in Client
      PROVE  /\ job'[c] \in JobState /\ job'[c].pc = job[c].pc /\ job'[c].docs = job[c].docs
             /\ job'[c].began = job[c].began /\ job'[c].purpose = job[c].purpose
  BY DisturbedJob DEF ListUnit, KnowledgeInv
<1>6. job' \in [Client -> JobState]
  BY <1>5 DEF ListUnit
<1>7. ASSUME NEW c \in Client PROVE JobFacts(c)'
  BY <1>1, <1>4, <1>5, JobRow DEF JobFacts, NoneOutdated, NotOlder
<1> QED BY <1>2, <1>3, <1>6, <1>7 DEF KnowledgeInv, JobsInv

LEMMA KnowledgeStutter == KnowledgeInv /\ UNCHANGED allVars => KnowledgeInv'
<1> SUFFICES ASSUME KnowledgeInv, UNCHANGED allVars PROVE KnowledgeInv'
  OBVIOUS
<1>1. /\ UNCHANGED <<head, claims, logged, access, evidence, op, verdict, unsettled, overlapped>>
      /\ UNCHANGED <<listed, index, current, vectors, status, job, patchy>>
  BY DEF allVars, memoryVars, indexed, vars, rows, history
<1>2. ResearchInv'
  BY <1>1 DEF KnowledgeInv, ResearchInv, ClaimsInv, OpsInv, Facts, Registered
<1>3. IndexInv' /\ JobsInv'
  BY <1>1 DEF KnowledgeInv, IndexInv, JobsInv, JobFacts, Behind, NoneOutdated, NotOlder
<1> QED BY <1>2, <1>3 DEF KnowledgeInv

LEMMA KnowledgeStep == KnowledgeInv /\ [KnowledgeNext]_allVars => KnowledgeInv'
<1> SUFFICES ASSUME KnowledgeInv,
                    ResearchAlongside \/ MemoryNext \/ ListUnit \/ UNCHANGED allVars
             PROVE  KnowledgeInv'
  BY DEF KnowledgeNext
<1>1. ASSUME NEW c \in Client,
             \/ \E p \in Purpose : SyncBegin(c, p)
             \/ SyncReadHeads(c) \/ SyncReadPrior(c) \/ SyncWrite(c)
             \/ SearchReady(c) \/ SearchSelect(c) \/ SearchRecheck(c)
             \/ RebuildRead(c) \/ RebuildStore(c) \/ RebuildFail(c)
             \/ JobEnds(c)
      PROVE  KnowledgeInv'
  BY <1>1, SyncReadsStep, SyncWriteStep, SearchStep, EndingStep
<1> QED BY <1>1, ResearchAlongsideStep, ListUnitStep, KnowledgeStutter DEF MemoryNext

LEMMA KnowledgeStart == Init /\ InitMemory => KnowledgeInv
<1> SUFFICES ASSUME Init, InitMemory PROVE KnowledgeInv
  OBVIOUS
<1>1. JobsInv
  BY NoJobOK DEF InitMemory, JobsInv, JobFacts, NoJob
<1>2. IndexInv
  BY DEF InitMemory, IndexInv
<1> QED BY <1>1, <1>2, ResearchInit DEF KnowledgeInv

LEMMA KnowledgeInvariant == KnowledgeSpec => []KnowledgeInv
BY KnowledgeStart, KnowledgeStep, PTL DEF KnowledgeSpec

(***************************************************************************)
(* A claim is as decided.                                                  *)
(***************************************************************************)
\* What a call read of its claim is so until somebody changes it, and only the owner rejects.
Knows(d) ==
  \A k \in Claim : op[d].claim = k =>
    /\ op[d].fresh /\ op[d].pc \in {"edit", "evidence", "state", "review"} =>
         op[d].prior = claims[k].state
    /\ op[d].pc = "state" => op[d].state # "REJECTED"
    /\ op[d].pc = "state" /\ op[d].fresh => op[d].state = Derived(k)

\* ClaimAsDecided of one claim, and: the owner's last word is the state.
DecidedFor(k) ==
  /\ k \notin unsettled => claims[k].state = IF verdict[k] # "none" THEN verdict[k] ELSE Derived(k)
  /\ k \notin overlapped => logged[k] = claims[k].state
  /\ verdict[k] # "none" => claims[k].state = verdict[k]
  /\ claims[k].state = "REJECTED" => verdict[k] = "REJECTED"

DecidedInv == (\A k \in Claim : DecidedFor(k)) /\ \A d \in Client : Knows(d)

\* What a claim derives from its evidence is so until its evidence, or the access to it, changes.
LEMMA DerivedStays ==
  ASSUME NEW k, \A e : e.claim = k => (e \in evidence' <=> e \in evidence),
         \A e \in evidence : e.claim = k => access'[e.source] = access[e.source]
  PROVE  Derived(k)' = Derived(k)
<1>1. ASSUME NEW r PROVE Some(k, r)' <=> Some(k, r)
  BY DEF Some
<1>2. FullSupport(k)' <=> FullSupport(k)
  BY DEF FullSupport
<1> QED BY <1>1, <1>2, Zenon DEF Derived

LEMMA NoEvidence ==
  ASSUME NEW k, \A e \in evidence' : e.claim # k
  PROVE  Derived(k)' = "UNREVIEWED"
<1>1. ASSUME NEW r PROVE ~Some(k, r)'
  BY DEF Some
<1>2. ~FullSupport(k)'
  BY DEF FullSupport
<1> QED BY <1>1, <1>2 DEF Derived

LEMMA NeverDerivesRejection ==
  ASSUME NEW k
  PROVE  Derived(k) # "REJECTED"
BY DEF Derived

\* A claim none of whose rows change.
Untouched(k) ==
  /\ claims'[k].state = claims[k].state /\ logged'[k] = logged[k] /\ verdict'[k] = verdict[k]
  /\ k \notin unsettled' => k \notin unsettled
  /\ k \notin overlapped' => k \notin overlapped
  /\ Derived(k)' = Derived(k)

LEMMA UntouchedStays ==
  ASSUME NEW k, DecidedFor(k), Untouched(k)
  PROVE  DecidedFor(k)'
BY DEF DecidedFor, Untouched

\* A step of client c changes what the claims of K stand on.
LEMMA ChangingKnows ==
  ASSUME ResearchInv, DecidedInv, NEW c \in Client, NEW o \in OpState, NEW K, GotoChanging(c, o, K),
         \A k \in Claim \ K : claims'[k].state = claims[k].state /\ Derived(k)' = Derived(k),
         op'[c] = o => Knows(c)'
  PROVE  \A d \in Client : Knows(d)'
<1> DEFINE fresh(d) == op[d].fresh /\ op[d].claim \notin K
<1>1. ASSUME NEW d \in Client PROVE fresh(d) \in BOOLEAN
  BY Zenon
<1>2. op' = [d \in Client |-> IF d = c THEN o ELSE [op[d] EXCEPT !.fresh = fresh(d)]]
  BY DEF GotoChanging
<1>3. ASSUME NEW d \in Client, d # c, NEW k \in Claim, op'[d].claim = k
      PROVE  /\ op'[d].fresh /\ op'[d].pc \in {"edit", "evidence", "state", "review"} =>
                  op'[d].prior = claims'[k].state
             /\ op'[d].pc = "state" => op'[d].state # "REJECTED"
             /\ op'[d].pc = "state" /\ op'[d].fresh => op'[d].state = Derived(k)'
  <2>1. op[d] \in OpState
    BY OpRow
  <2>2. fresh(d) => op[d].fresh /\ op[d].claim \notin K
    BY Zenon
  <2> HIDE DEF fresh
  <2>3. op'[d] = [op[d] EXCEPT !.fresh = fresh(d)]
    BY <1>2, <1>3
  <2>4. /\ op'[d].pc = op[d].pc /\ op'[d].claim = op[d].claim /\ op'[d].prior = op[d].prior
        /\ op'[d].state = op[d].state /\ op'[d].fresh = fresh(d)
    BY <1>1, <2>1, <2>3, FreshRow DEF OpState
  <2>5. Knows(d)
    BY DEF DecidedInv
  <2>6. op[d].claim = k
    BY <1>3, <2>4
  <2>7. fresh(d) => k \notin K /\ op[d].fresh
    BY <2>2, <2>6
  <2> QED BY <1>3, <2>4, <2>5, <2>6, <2>7 DEF Knows
<1>4. op'[c] = o
  BY <1>2
<1>5. ASSUME NEW d \in Client, d # c PROVE Knows(d)'
  BY <1>3, <1>5 DEF Knows
<1> QED BY <1>4, <1>5

LEMMA GotoKnows ==
  ASSUME ResearchInv, DecidedInv, NEW c \in Client, NEW o, Goto(c, o),
         \A k \in Claim : claims'[k].state = claims[k].state /\ Derived(k)' = Derived(k),
         op'[c] = o => Knows(c)'
  PROVE  \A d \in Client : Knows(d)'
<1>1. op'[c] = o /\ \A d \in Client \ {c} : op'[d] = op[d]
  BY DEF Goto, ResearchInv, OpsInv
<1>2. ASSUME NEW d \in Client, d # c PROVE Knows(d)'
  BY <1>1, <1>2 DEF DecidedInv, Knows
<1> QED BY <1>1, <1>2

LEMMA IdleKnows ==
  ASSUME NEW c \in Client, op'[c] = NoOp
  PROVE  Knows(c)'
BY DEF Knows, NoOp

\* A step that leaves the rows alone, and of the calls only starts or moves one.
LEMMA ReadKeepsDecided ==
  ASSUME ResearchInv, DecidedInv, NEW c \in Client, NEW o, Goto(c, o), UNCHANGED <<rows, history>>,
         op'[c] = o => Knows(c)'
  PROVE  DecidedInv'
<1>1. UNCHANGED <<claims, logged, access, evidence, verdict, unsettled, overlapped>>
  BY DEF rows, history
<1>2. ASSUME NEW k \in Claim PROVE Derived(k)' = Derived(k) /\ Untouched(k)
  BY <1>1, DerivedStays DEF Untouched
<1>3. \A k \in Claim : DecidedFor(k)'
  BY <1>2, UntouchedStays DEF DecidedInv
<1>4. \A d \in Client : Knows(d)'
  BY <1>1, <1>2, GotoKnows
<1> QED BY <1>3, <1>4 DEF DecidedInv

LEMMA ReadsKeepDecided ==
  ASSUME ResearchInv, DecidedInv, NEW c \in Client,
         \/ \E k \in Claim : \/ CreateBegin(c, k) \/ EditBegin(c, k)
                             \/ \E s \in Reviewed : ReviewBegin(c, k, s)
         \/ \E s \in Source : ImportBegin(c, s)
         \/ RecalcReadClaim(c) \/ Ends(c)
  PROVE  DecidedInv'
<1>1. ASSUME NEW k \in Claim, CreateBegin(c, k) \/ EditBegin(c, k) PROVE DecidedInv'
  <2>1. PICK pc \in {"create", "edit"} : ReadHead(c, pc, k)
    BY <1>1 DEF CreateBegin, EditBegin
  <2> DEFINE o == [NoOp EXCEPT !.pc = pc, !.claim = k, !.rev = head, !.prior = claims[k].state]
  <2>2. o.pc = pc /\ o.claim = k /\ o.prior = claims[k].state
    BY DEF NoOp
  <2>3. Goto(c, o) /\ UNCHANGED <<rows, history>>
    BY <2>1 DEF ReadHead
  <2> HIDE DEF o
  <2>4. op'[c] = o => Knows(c)'
    BY <2>2, <2>3 DEF Knows, rows
  <2> QED BY <2>3, <2>4, ReadKeepsDecided
<1>2. ASSUME NEW k \in Claim, NEW s \in Reviewed, ReviewBegin(c, k, s) PROVE DecidedInv'
  <2> DEFINE o == [NoOp EXCEPT !.pc = "review", !.claim = k, !.prior = claims[k].state, !.state = s]
  <2>1. o.pc = "review" /\ o.claim = k /\ o.prior = claims[k].state
    BY DEF NoOp
  <2>2. Goto(c, o) /\ UNCHANGED <<rows, history>>
    BY <1>2 DEF ReviewBegin
  <2> HIDE DEF o
  <2>3. op'[c] = o => Knows(c)'
    BY <2>1, <2>2 DEF Knows, rows
  <2> QED BY <2>2, <2>3, ReadKeepsDecided
<1>3. ASSUME NEW s \in Source, ImportBegin(c, s) PROVE DecidedInv'
  <2> DEFINE o == [NoOp EXCEPT !.pc = "import", !.source = s]
  <2>1. o.pc = "import"
    BY DEF NoOp
  <2>2. Goto(c, o) /\ UNCHANGED <<rows, history>>
    BY <1>3 DEF ImportBegin
  <2> HIDE DEF o
  <2>3. op'[c] = o => Knows(c)'
    BY <2>1 DEF Knows
  <2> QED BY <2>2, <2>3, ReadKeepsDecided
<1>4. CASE RecalcReadClaim(c)
  <2> DEFINE k == op[c].claim
             o == [op[c] EXCEPT !.pc = "evidence", !.prior = claims[k].state, !.fresh = TRUE]
  <2>1. op[c] \in OpState
    BY OpRow
  <2>2. o.pc = "evidence" /\ o.claim = k /\ o.prior = claims[k].state
    BY <2>1 DEF OpState
  <2>3. Goto(c, o) /\ UNCHANGED <<rows, history>>
    BY <1>4 DEF RecalcReadClaim
  <2> HIDE DEF o
  <2>4. op'[c] = o => Knows(c)'
    BY <2>2, <2>3 DEF Knows, rows
  <2> QED BY <2>3, <2>4, ReadKeepsDecided
<1>5. CASE Ends(c)
  BY <1>5, IdleKnows, ReadKeepsDecided DEF Ends
<1> QED BY <1>1, <1>2, <1>3, <1>4, <1>5

\* A step changes what the claims of K stand on, and leaves each of them as decided.
LEMMA ChangeKeepsDecided ==
  ASSUME ResearchInv, DecidedInv, NEW c \in Client, NEW o \in OpState, NEW K, GotoChanging(c, o, K),
         \A k \in Claim \ K : Untouched(k), \A k \in Claim \intersect K : DecidedFor(k)',
         op'[c] = o => Knows(c)'
  PROVE  DecidedInv'
<1>1. \A k \in Claim \ K : DecidedFor(k)'
  BY UntouchedStays DEF DecidedInv
<1>2. \A k \in Claim \ K : claims'[k].state = claims[k].state /\ Derived(k)' = Derived(k)
  BY DEF Untouched
<1>3. \A d \in Client : Knows(d)'
  BY <1>2, ChangingKnows
<1> QED BY <1>1, <1>3 DEF DecidedInv

LEMMA CreateKeepsDecided ==
  ASSUME ResearchInv, DecidedInv, NEW c \in Client, CreateWrite(c)
  PROVE  DecidedInv'
<1> DEFINE k == op[c].claim
<1>1. /\ op[c].pc = "create" /\ claims' = [claims EXCEPT ![k].rev = op[c].rev]
      /\ GotoChanging(c, NoOp, {})
      /\ UNCHANGED <<logged, access, evidence, verdict, unsettled, overlapped>>
  BY DEF CreateWrite, history
<1>2. claims \in [Claim -> ClaimRow] /\ k \in Claim
  BY <1>1, OpRow DEF ResearchInv, ClaimsInv, Facts
<1>3. \A x \in Claim : claims'[x].state = claims[x].state
  BY <1>1, <1>2 DEF ClaimRow
<1>4. \A x \in Claim : Untouched(x)
  BY <1>1, <1>3, DerivedStays DEF Untouched
<1> QED BY <1>1, <1>4, IdleOK, IdleKnows, ChangeKeepsDecided

LEMMA EditKeepsDecided ==
  ASSUME ResearchInv, DecidedInv, NEW c \in Client, EditWrite(c)
  PROVE  DecidedInv'
<1>0. PICK k \in Claim : k = op[c].claim
  BY OpRow DEF EditWrite, Facts
<1>1. /\ op[c].pc = "edit"
      /\ claims' = [claims EXCEPT ![k] = [rev |-> op[c].rev, ver |-> claims[k].ver + 1,
                                          state |-> "UNREVIEWED"]]
      /\ evidence' = {e \in evidence : e.claim # k}
      /\ logged' = IF op[c].prior # "UNREVIEWED" THEN [logged EXCEPT ![k] = "UNREVIEWED"]
                   ELSE logged
      /\ verdict' = [verdict EXCEPT ![k] = "none"] /\ GotoChanging(c, NoOp, {k})
      /\ unsettled' = IF op[c].fresh THEN unsettled \ {k} ELSE unsettled \union {k}
      /\ overlapped' = IF op[c].fresh THEN overlapped ELSE overlapped \union {k}
      /\ access' = access
  BY <1>0 DEF EditWrite, LeftActive, Settle
<1>2. k \in Claim /\ Knows(c) /\ DecidedFor(k)
  BY DEF DecidedInv
<1>3. /\ claims \in [Claim -> ClaimRow] /\ logged \in [Claim -> ClaimState]
      /\ verdict \in [Claim -> Reviewed \union {"none"}]
  BY DEF ResearchInv, ClaimsInv
<1>4. \A x \in Claim \ {k} : Untouched(x)
  <2>1. ASSUME NEW x \in Claim, x # k PROVE Derived(x)' = Derived(x)
    BY <1>1, <2>1, DerivedStays
  <2> QED BY <1>1, <1>3, <2>1 DEF Untouched
<1>5. claims'[k].state = "UNREVIEWED" /\ verdict'[k] = "none" /\ Derived(k)' = "UNREVIEWED"
  BY <1>1, <1>2, <1>3, NoEvidence
<1>6. k \notin overlapped' => logged'[k] = "UNREVIEWED"
  BY <1>0, <1>1, <1>2, <1>3 DEF Knows, DecidedFor
<1>7. \A x \in Claim \intersect {k} : DecidedFor(x)'
  BY <1>5, <1>6 DEF DecidedFor
<1> QED BY <1>1, <1>4, <1>7, IdleOK, IdleKnows, ChangeKeepsDecided

LEMMA WriteStateKeepsDecided ==
  ASSUME ResearchInv, DecidedInv, NEW c \in Client, NEW by \in Reviewed \union {"none"},
         op[c].pc \in {"state", "review"}, WriteState(c, by), by # "none" => by = op[c].state,
         by = "none" => op[c].pc = "state"
  PROVE  DecidedInv'
<1> DEFINE k == op[c].claim
           s == op[c].state
<1>1. /\ claims' = [claims EXCEPT ![k] = [rev |-> claims[k].rev, ver |-> claims[k].ver + 1,
                                          state |-> s]]
      /\ logged' = IF op[c].prior # s THEN [logged EXCEPT ![k] = s] ELSE logged
      /\ verdict' = [verdict EXCEPT ![k] = by] /\ GotoChanging(c, NoOp, {k})
      /\ unsettled' = IF op[c].fresh THEN unsettled \ {k} ELSE unsettled \union {k}
      /\ overlapped' = IF op[c].fresh THEN overlapped ELSE overlapped \union {k}
      /\ UNCHANGED <<access, evidence>>
  BY DEF WriteState, Settle
<1>2. k \in Claim /\ Knows(c) /\ DecidedFor(k)
  BY <1>1, OpRow DEF Facts, DecidedInv
<1>3. /\ claims \in [Claim -> ClaimRow] /\ logged \in [Claim -> ClaimState]
      /\ verdict \in [Claim -> Reviewed \union {"none"}]
  BY DEF ResearchInv, ClaimsInv
<1>4. \A x \in Claim : Derived(x)' = Derived(x)
  BY <1>1, DerivedStays
<1>5. \A x \in Claim \ {k} : Untouched(x)
  BY <1>1, <1>3, <1>4 DEF Untouched
<1>6. claims'[k].state = s /\ verdict'[k] = by
  BY <1>1, <1>2, <1>3
<1>7. k \notin overlapped' => logged'[k] = s
  BY <1>1, <1>2, <1>3 DEF Knows, DecidedFor
<1>8. by = "none" => s # "REJECTED" /\ (op[c].fresh => s = Derived(k))
  BY <1>2 DEF Knows
<1>9. k \notin unsettled' => op[c].fresh
  BY <1>1
<1>10. \A x \in Claim \intersect {k} : DecidedFor(x)'
  BY <1>2, <1>4, <1>6, <1>7, <1>8, <1>9 DEF DecidedFor
<1> QED BY <1>1, <1>5, <1>10, IdleOK, IdleKnows, ChangeKeepsDecided

LEMMA SourcesKeepDecided ==
  ASSUME ResearchInv, DecidedInv, NEW c \in Client,
         ImportWrite(c) \/ \E s \in Source, a \in Access : MarkAccess(c, s, a)
  PROVE  DecidedInv'
<1>1. CASE ImportWrite(c)
  <2> DEFINE s == op[c].source
  <2>1. /\ access' = [access EXCEPT ![s] = "METADATA_ONLY"] /\ Goto(c, NoOp) /\ access[s] = "none"
        /\ UNCHANGED <<claims, logged, evidence, verdict, unsettled, overlapped>>
    BY <1>1 DEF ImportWrite, history
  <2>2. /\ access \in [Source -> Access \union {"none"}]
        /\ \A e \in evidence : e.source \in Source /\ access[e.source] # "none"
    BY DEF ResearchInv, ClaimsInv, Evidence
  <2>3. \A e \in evidence : access'[e.source] = access[e.source]
    BY <2>1, <2>2
  <2>4. \A k \in Claim : Derived(k)' = Derived(k) /\ Untouched(k)
    BY <2>1, <2>3, DerivedStays DEF Untouched
  <2>5. \A k \in Claim : DecidedFor(k)'
    BY <2>4, UntouchedStays DEF DecidedInv
  <2>6. \A d \in Client : Knows(d)'
    BY <2>1, <2>4, IdleKnows, GotoKnows
  <2> QED BY <2>5, <2>6 DEF DecidedInv
<1>2. ASSUME NEW s \in Source, NEW a \in Access, MarkAccess(c, s, a) PROVE DecidedInv'
  <2>1. /\ access' = [access EXCEPT ![s] = a] /\ GotoChanging(c, NoOp, Cited(s))
        /\ unsettled' = unsettled \union Cited(s)
        /\ UNCHANGED <<claims, logged, evidence, verdict, overlapped>>
    BY <1>2 DEF MarkAccess
  <2>2. access \in [Source -> Access \union {"none"}] /\ \A e \in evidence : e.source \in Source
    BY DEF ResearchInv, ClaimsInv, Evidence
  <2>3. ASSUME NEW k \in Claim, k \notin Cited(s) PROVE Derived(k)' = Derived(k) /\ Untouched(k)
    <3>1. \A e \in evidence : e.claim = k => access'[e.source] = access[e.source]
      BY <2>1, <2>2, <2>3 DEF Cited
    <3> QED BY <2>1, <3>1, DerivedStays DEF Untouched
  <2>4. \A k \in Claim \intersect Cited(s) : DecidedFor(k)'
    BY <2>1 DEF DecidedInv, DecidedFor
  <2> QED BY <2>1, <2>3, <2>4, IdleOK, IdleKnows, ChangeKeepsDecided
<1> QED BY <1>1, <1>2

LEMMA AddKeepsDecided ==
  ASSUME ResearchInv, DecidedInv, NEW c \in Client, NEW k \in Claim, NEW s \in Source,
         NEW r \in Relationship, AddEvidence(c, k, s, r)
  PROVE  DecidedInv'
<1> DEFINE o == [NoOp EXCEPT !.pc = "claim", !.claim = k]
           e == [claim |-> k, source |-> s, relationship |-> r]
<1>1. /\ evidence' = evidence \union {e} /\ unsettled' = unsettled \union {k}
      /\ GotoChanging(c, o, {k})
      /\ UNCHANGED <<claims, logged, access, verdict, overlapped>>
  BY DEF AddEvidence
<1>2. o \in OpState /\ o.pc = "claim"
  BY IdleOK DEF OpState
<1>3. e.claim = k
  OBVIOUS
<1> HIDE DEF o, e
<1>4. ASSUME NEW x \in Claim, x # k PROVE Untouched(x)
  BY <1>1, <1>3, <1>4, DerivedStays DEF Untouched
<1>5. \A x \in Claim \intersect {k} : DecidedFor(x)'
  BY <1>1 DEF DecidedInv, DecidedFor
<1>6. op'[c] = o => Knows(c)'
  BY <1>2 DEF Knows
<1> QED BY <1>1, <1>2, <1>4, <1>5, <1>6, ChangeKeepsDecided

LEMMA RecalcKeepsDecided ==
  ASSUME ResearchInv, DecidedInv, NEW c \in Client, RecalcReadEvidence(c)
  PROVE  DecidedInv'
<1>0. PICK k \in Claim : k = op[c].claim
  BY OpRow DEF RecalcReadEvidence, Facts
<1>1. op[c].pc = "evidence" /\ UNCHANGED <<rows, verdict, overlapped>>
  BY DEF RecalcReadEvidence
<1>2. k \in Claim /\ Knows(c) /\ DecidedFor(k) /\ op[c] \in OpState
  BY OpRow DEF DecidedInv
<1>3. CASE op[c].prior \in {"REJECTED", Derived(k)}
  <2>1. /\ unsettled' = IF op[c].fresh THEN unsettled \ {k} ELSE unsettled
        /\ Goto(c, NoOp) /\ UNCHANGED <<claims, logged, access, evidence, verdict, overlapped>>
    BY <1>0, <1>3 DEF RecalcReadEvidence, rows
  <2>2. \A x \in Claim : Derived(x)' = Derived(x)
    BY <2>1, DerivedStays
  <2>3. \A x \in Claim \ {k} : Untouched(x)
    BY <2>1, <2>2 DEF Untouched
  <2>4. op[c].fresh => op[c].prior = claims[k].state
    BY <1>0, <1>1, <1>2 DEF Knows
  <2>5. DecidedFor(k)'
    BY <1>2, <1>3, <2>1, <2>2, <2>4 DEF DecidedFor
  <2>6. \A x \in Claim : DecidedFor(x)'
    BY <2>3, <2>5, UntouchedStays DEF DecidedInv
  <2>7. \A d \in Client : Knows(d)'
    BY <2>1, <2>2, IdleKnows, GotoKnows
  <2> QED BY <2>6, <2>7 DEF DecidedInv
<1>4. CASE op[c].prior \notin {"REJECTED", Derived(k)}
  <2> DEFINE o == [op[c] EXCEPT !.pc = "state", !.state = Derived(k)]
  <2>1. /\ Goto(c, o) /\ UNCHANGED <<rows, history>>
    BY <1>0, <1>4 DEF RecalcReadEvidence, history
  <2>2. /\ o.pc = "state" /\ o.claim = k /\ o.state = Derived(k) /\ o.prior = op[c].prior
        /\ o.fresh = op[c].fresh
    BY <1>0, <1>2 DEF OpState
  <2> HIDE DEF o
  <2>3. \A x \in Claim : Derived(x)' = Derived(x)
    BY <2>1, DerivedStays DEF rows
  <2>4. op'[c] = o => Knows(c)'
    <3> SUFFICES ASSUME op'[c] = o, NEW x \in Claim, op'[c].claim = x
                 PROVE  /\ op'[c].fresh /\ op'[c].pc \in {"edit", "evidence", "state", "review"} =>
                             op'[c].prior = claims'[x].state
                        /\ op'[c].pc = "state" => op'[c].state # "REJECTED"
                        /\ op'[c].pc = "state" /\ op'[c].fresh => op'[c].state = Derived(x)'
      BY DEF Knows
    <3>1. x = k
      BY <2>2
    <3> QED BY <1>0, <1>1, <1>2, <2>1, <2>2, <2>3, <3>1, NeverDerivesRejection DEF Knows, rows
  <2> QED BY <2>1, <2>4, ReadKeepsDecided
<1> QED BY <1>3, <1>4

LEMMA AcceptUnitKeepsDecided ==
  ASSUME DecidedInv, UNCHANGED <<rows, op, history>>
  PROVE  DecidedInv'
<1>1. UNCHANGED <<claims, logged, access, evidence, op, verdict, unsettled, overlapped>>
  BY DEF rows, history
<1>2. \A k \in Claim : Derived(k)' = Derived(k) /\ Untouched(k)
  BY <1>1, DerivedStays DEF Untouched
<1>3. \A k \in Claim : DecidedFor(k)'
  BY <1>2, UntouchedStays DEF DecidedInv
<1>4. \A d \in Client : Knows(d)'
  BY <1>1, <1>2 DEF DecidedInv, Knows
<1> QED BY <1>3, <1>4 DEF DecidedInv

LEMMA DecidedStep == ResearchInv /\ DecidedInv /\ Next => DecidedInv'
<1> SUFFICES ASSUME ResearchInv, DecidedInv, Next PROVE DecidedInv'
  OBVIOUS
<1>1. CASE AcceptUnit
  BY <1>1, AcceptUnitKeepsDecided DEF AcceptUnit
<1>2. ASSUME NEW c \in Client, NEW k \in Claim,
             \/ CreateBegin(c, k) \/ EditBegin(c, k)
             \/ \E s \in Source, r \in Relationship : AddEvidence(c, k, s, r)
             \/ \E s \in Reviewed : ReviewBegin(c, k, s)
      PROVE  DecidedInv'
  BY <1>2, ReadsKeepDecided, AddKeepsDecided
<1>3. ASSUME NEW c \in Client, NEW s \in Source,
             ImportBegin(c, s) \/ \E a \in Access : MarkAccess(c, s, a)
      PROVE  DecidedInv'
  BY <1>3, ReadsKeepDecided, SourcesKeepDecided
<1>4. ASSUME NEW c \in Client, RecalcWrite(c) PROVE DecidedInv'
  BY <1>4, WriteStateKeepsDecided DEF RecalcWrite
<1>5. ASSUME NEW c \in Client, ReviewWrite(c) PROVE DecidedInv'
  <2>1. op[c].pc = "review" /\ op[c].state \in Reviewed /\ WriteState(c, op[c].state)
        /\ op[c].state # "none"
    BY <1>5, OpRow DEF ReviewWrite, Facts, Reviewed
  <2> QED BY <2>1, WriteStateKeepsDecided
<1>6. ASSUME NEW c \in Client,
             \/ CreateWrite(c) \/ EditWrite(c) \/ ImportWrite(c) \/ RecalcReadClaim(c)
             \/ RecalcReadEvidence(c) \/ Ends(c)
      PROVE  DecidedInv'
  BY <1>6, CreateKeepsDecided, EditKeepsDecided, SourcesKeepDecided, RecalcKeepsDecided,
     ReadsKeepDecided
<1> QED BY <1>1, <1>2, <1>3, <1>4, <1>5, <1>6 DEF Next

LEMMA DecidedInit == Init => DecidedInv
<1> SUFFICES ASSUME Init PROVE DecidedInv
  OBVIOUS
<1>1. \A k \in Claim : Derived(k) = "UNREVIEWED"
  BY DEF Init, Derived, Some, FullSupport
<1>2. \A k \in Claim : DecidedFor(k)
  BY <1>1 DEF Init, DecidedFor
<1>3. \A d \in Client : Knows(d)
  BY DEF Init, Knows, NoOp
<1> QED BY <1>2, <1>3 DEF DecidedInv

(***************************************************************************)
(* A search that nothing changed under.                                    *)
(***************************************************************************)
\* An index that says SEMANTIC_READY has the vectors of what it calls CURRENT: a synchronization that
\* brings something else takes SEMANTIC_READY back, and a rebuild that gives it stores the vectors of
\* what is CURRENT.
VectorsInv == status = "SEMANTIC_READY" /\ ~patchy => current \subseteq vectors

\* What a call knows while nothing changes under it.
Knowing(c) ==
  LET j == job[c] IN
  /\ j.pc \in {"heads", "prior", "write", "recheck", "store", "answer"} => j.docs = Canonical
  /\ j.pc \in {"ready", "select", "embed", "store"} => current = Canonical
  /\ j.pc = "write" /\ ~j.changed => current = Canonical
  /\ j.pc = "select" /\ j.purpose = "semantic" /\ ~patchy => Canonical \subseteq vectors

Quiet(c) == job[c].fresh => Knowing(c)

QuietInv == VectorsInv /\ \A c \in Client : Quiet(c)

\* While nothing changes, the heads of the documents are the documents.
LEMMA HeadsOfDocuments == {AtHead(d) : d \in Canonical} = Canonical
<1>1. \A d \in Canonical : AtHead(d) = d
  BY MemoryAssumption DEF Canonical, ClaimDocuments, UnitDocument, AtHead
<1> QED BY <1>1

\* The other calls are where they were, and none is less disturbed.
OthersStay(c) ==
  \A d \in Client \ {c} :
    /\ job'[d].pc = job[d].pc /\ job'[d].purpose = job[d].purpose /\ job'[d].docs = job[d].docs
    /\ job'[d].changed = job[d].changed /\ (job'[d].fresh => job[d].fresh)

LEMMA DisturbedStays ==
  ASSUME JobsInv, NEW d \in Client, NEW b
  PROVE  /\ Disturbed(d, b).changed = job[d].changed
         /\ Disturbed(d, b).fresh => job[d].fresh /\ ~(b /\ job[d].pc # "idle")
<1> DEFINE fresh == job[d].fresh /\ ~(b /\ job[d].pc # "idle")
<1>1. job[d] \in JobState
  BY DEF JobsInv
<1>2. Disturbed(d, b) = [job[d] EXCEPT !.fresh = fresh]
  BY DEF Disturbed
<1>3. fresh => job[d].fresh /\ ~(b /\ job[d].pc # "idle")
  BY Zenon
<1> HIDE DEF fresh
<1>4. Disturbed(d, b).fresh = fresh /\ Disturbed(d, b).changed = job[d].changed
  BY <1>1, <1>2 DEF JobState
<1> QED BY <1>3, <1>4

\* A memory call that is disturbed disturbs those it writes under.
LEMMA OthersAfter ==
  ASSUME JobsInv, NEW c \in Client, NEW j, Do(c, j) \/ DoWriting(c, j)
  PROVE  /\ OthersStay(c) /\ job'[c] = j
         /\ DoWriting(c, j) /\ ~job[c].fresh =>
              \A d \in Client \ {c} : job'[d].fresh => job[d].pc = "idle"
<1>1. CASE Do(c, j) /\ ~DoWriting(c, j)
  <2>1. job'[c] = j /\ \A d \in Client \ {c} : job'[d] = job[d]
    BY <1>1 DEF Do, JobsInv
  <2> QED BY <1>1, <2>1 DEF OthersStay
<1>2. CASE DoWriting(c, j)
  <2>1. PICK b \in BOOLEAN : b = ~job[c].fresh
    OBVIOUS
  <2>2. job' = [d \in Client |-> IF d = c THEN j ELSE Disturbed(d, b)]
    BY <1>2, <2>1 DEF DoWriting
  <2>3. ASSUME NEW d \in Client, d # c
        PROVE  /\ job'[d].pc = job[d].pc /\ job'[d].purpose = job[d].purpose
               /\ job'[d].docs = job[d].docs /\ job'[d].changed = job[d].changed
               /\ job'[d].fresh => job[d].fresh /\ ~(b /\ job[d].pc # "idle")
    BY <2>2, <2>3, DisturbedJob, DisturbedStays
  <2>4. job'[c] = j
    BY <2>2
  <2> QED BY <2>1, <2>3, <2>4 DEF OthersStay
<1> QED BY <1>1, <1>2

LEMMA MemoryLeavesDocuments == UNCHANGED <<vars, listed>> => Canonical' = Canonical
BY DEF vars, rows, Canonical, ClaimDocuments, Registered, UnitDocument

\* A step of a memory call over the same documents.
LEMMA QuietStep ==
  ASSUME QuietInv, NEW c \in Client, UNCHANGED <<vars, listed>>, OthersStay(c), VectorsInv', Quiet(c)',
         \A d \in Client \ {c} : job'[d].fresh =>
           /\ job[d].pc \in {"ready", "select", "embed", "store", "write"} /\ current = Canonical =>
                current' = Canonical
           /\ job[d].pc = "select" /\ ~patchy' =>
                Canonical \subseteq vectors' \/ (~patchy /\ vectors' = vectors)
  PROVE  QuietInv'
<1>1. Canonical' = Canonical
  BY MemoryLeavesDocuments
<1>2. ASSUME NEW d \in Client, d # c PROVE Quiet(d)'
  <2>1. Quiet(d)
    BY DEF QuietInv
  <2>2. /\ job'[d].pc = job[d].pc /\ job'[d].purpose = job[d].purpose
        /\ job'[d].docs = job[d].docs /\ job'[d].changed = job[d].changed
        /\ job'[d].fresh => job[d].fresh
    BY <1>2 DEF OthersStay
  <2>3. job'[d].fresh => Knowing(d)'
    BY <1>1, <1>2, <2>1, <2>2 DEF Quiet, Knowing
  <2> QED BY <2>3 DEF Quiet
<1> QED BY <1>2 DEF QuietInv

\* ... that leaves the index alone.
LEMMA QuietRead ==
  ASSUME KnowledgeInv, QuietInv, NEW c \in Client, NEW j, Do(c, j),
         UNCHANGED <<vars, listed, indexed, patchy>>, job'[c] = j => Quiet(c)'
  PROVE  QuietInv'
<1>1. UNCHANGED <<index, current, vectors, status>> /\ UNCHANGED <<vars, listed>>
  BY DEF indexed
<1>2. OthersStay(c) /\ job'[c] = j
  BY OthersAfter DEF KnowledgeInv
<1>3. VectorsInv'
  BY <1>1 DEF QuietInv, VectorsInv
<1> QED BY <1>1, <1>2, <1>3, MemoryLeavesDocuments, QuietStep

LEMMA SyncReadsQuiet ==
  ASSUME KnowledgeInv, QuietInv, NEW c \in Client,
         (\E p \in Purpose : SyncBegin(c, p)) \/ SyncReadHeads(c) \/ SyncReadPrior(c) \/ JobEnds(c)
  PROVE  QuietInv'
<1>1. job[c] \in JobState /\ Quiet(c)
  BY JobRow DEF QuietInv
<1>2. ASSUME NEW p \in Purpose, SyncBegin(c, p) PROVE QuietInv'
  <2> DEFINE j == [NoJob EXCEPT !.pc = "heads", !.purpose = p, !.docs = Canonical,
                                !.began = Canonical]
  <2>1. j.pc = "heads" /\ j.docs = Canonical
    BY DEF NoJob
  <2>2. Do(c, j) /\ UNCHANGED <<vars, listed, indexed, patchy>>
    BY <1>2 DEF SyncBegin
  <2> HIDE DEF j
  <2>3. job'[c] = j => Quiet(c)'
    BY <2>1, <2>2, MemoryLeavesDocuments DEF Quiet, Knowing
  <2> QED BY <2>2, <2>3, QuietRead
<1>3. CASE SyncReadHeads(c)
  <2> DEFINE D == {AtHead(d) : d \in job[c].docs}
             j == [job[c] EXCEPT !.pc = "prior", !.docs = D]
  <2>1. job[c].fresh => D = Canonical
    BY <1>1, <1>3, HeadsOfDocuments DEF Quiet, Knowing, SyncReadHeads
  <2>2. Do(c, j) /\ UNCHANGED <<vars, listed, indexed, patchy>>
    BY <1>3 DEF SyncReadHeads
  <2> HIDE DEF D
  <2>3. j.pc = "prior" /\ j.docs = D /\ j.fresh = job[c].fresh
    BY <1>1 DEF JobState
  <2> HIDE DEF j
  <2>4. job'[c] = j => Quiet(c)'
    BY <2>1, <2>2, <2>3, MemoryLeavesDocuments DEF Quiet, Knowing
  <2> QED BY <2>2, <2>4, QuietRead
<1>4. CASE SyncReadPrior(c)
  <2> DEFINE b == current # job[c].docs
             j == [job[c] EXCEPT !.pc = "write", !.changed = b]
  <2>1. job[c].fresh => job[c].docs = Canonical /\ (~b => current = Canonical)
    BY <1>1, <1>4 DEF Quiet, Knowing, SyncReadPrior
  <2>2. Do(c, j) /\ UNCHANGED <<vars, listed, indexed, patchy>>
    BY <1>4 DEF SyncReadPrior
  <2> HIDE DEF b
  <2>3. j.pc = "write" /\ j.docs = job[c].docs /\ j.fresh = job[c].fresh /\ j.changed = b
    BY <1>1 DEF JobState
  <2> HIDE DEF j
  <2>4. job'[c] = j => Quiet(c)'
    BY <2>1, <2>2, <2>3, MemoryLeavesDocuments DEF Quiet, Knowing, indexed
  <2> QED BY <2>2, <2>4, QuietRead
<1>5. CASE JobEnds(c)
  <2>1. Do(c, NoJob) /\ UNCHANGED <<vars, listed, indexed, patchy>>
    BY <1>5 DEF JobEnds
  <2>2. job'[c] = NoJob => Quiet(c)'
    BY DEF NoJob, Quiet, Knowing
  <2> QED BY <2>1, <2>2, QuietRead
<1> QED BY <1>2, <1>3, <1>4, <1>5

LEMMA SyncWriteQuiet ==
  ASSUME KnowledgeInv, QuietInv, NEW c \in Client, SyncWrite(c)
  PROVE  QuietInv'
<1>1. job[c] \in JobState /\ Quiet(c) /\ job[c].pc = "write"
      /\ job[c].purpose \in {"lexical", "semantic", "rebuild"}
  BY JobRow DEF QuietInv, SyncWrite, JobFacts, JobState, Purpose
<1>2. PICK pc \in {"select", "ready", "embed"} :
        /\ job[c].purpose = "semantic" => pc # "select"
        /\ DoWriting(c, [job[c] EXCEPT !.pc = pc, !.docs = {}, !.changed = FALSE])
  <2>1. CASE job[c].purpose = "lexical"
    BY <2>1 DEF SyncWrite
  <2>2. CASE job[c].purpose = "semantic"
    BY <2>2 DEF SyncWrite
  <2>3. CASE job[c].purpose = "rebuild"
    BY <2>3 DEF SyncWrite
  <2> QED BY <1>1, <2>1, <2>2, <2>3
<1> DEFINE j == [job[c] EXCEPT !.pc = pc, !.docs = {}, !.changed = FALSE]
<1>3. j.pc = pc /\ j.docs = {} /\ j.purpose = job[c].purpose /\ j.fresh = job[c].fresh
  BY <1>1 DEF JobState
<1>4. /\ current' = job[c].docs /\ status' = StatusAfter(job[c])
      /\ UNCHANGED <<vars, listed>> /\ vectors' = vectors
      /\ patchy' = (patchy \/ ~(job[c].fresh \/ job[c].changed)) /\ DoWriting(c, j)
  BY <1>2 DEF SyncWrite
<1> HIDE DEF j
<1>5. /\ OthersStay(c) /\ job'[c] = j
      /\ ~job[c].fresh => \A d \in Client \ {c} : job'[d].fresh => job[d].pc = "idle"
  BY <1>4, OthersAfter DEF KnowledgeInv
<1>6. Canonical' = Canonical
  BY <1>4, MemoryLeavesDocuments
<1>7. job[c].fresh => current' = Canonical /\ (~job[c].changed => current = Canonical)
  BY <1>1, <1>4 DEF Quiet, Knowing
<1>8. ~patchy' => ~patchy /\ (job[c].fresh \/ job[c].changed)
  BY <1>4
<1>9. VectorsInv'
  <2> SUFFICES ASSUME status' = "SEMANTIC_READY", ~patchy' PROVE current' \subseteq vectors
    BY <1>4 DEF VectorsInv
  <2>1. ~job[c].changed /\ status = "SEMANTIC_READY"
    BY <1>4 DEF StatusAfter
  <2>2. current' = current
    BY <1>7, <1>8, <2>1
  <2> QED BY <1>8, <2>1, <2>2 DEF QuietInv, VectorsInv
<1>10. Quiet(c)'
  BY <1>2, <1>3, <1>5, <1>6, <1>7 DEF Quiet, Knowing
<1>11. ASSUME NEW d \in Client, d # c, job'[d].fresh
       PROVE  /\ job[d].pc \in {"ready", "select", "embed", "store", "write"} /\ current = Canonical =>
                   current' = Canonical
              /\ job[d].pc = "select" /\ ~patchy' =>
                   Canonical \subseteq vectors' \/ (~patchy /\ vectors' = vectors)
  BY <1>4, <1>5, <1>7, <1>8, <1>11
<1> QED BY <1>4, <1>5, <1>9, <1>10, <1>11, QuietStep

LEMMA SearchQuiet ==
  ASSUME KnowledgeInv, QuietInv, NEW c \in Client,
         SearchReady(c) \/ SearchSelect(c) \/ SearchRecheck(c) \/ RebuildRead(c)
  PROVE  QuietInv'
<1>1. job[c] \in JobState /\ Quiet(c)
  BY JobRow DEF QuietInv
<1>2. CASE SearchReady(c)
  <2> DEFINE j == [job[c] EXCEPT !.pc = "select"]
  <2>1. /\ Do(c, j) /\ UNCHANGED <<vars, listed, indexed, patchy>>
        /\ job[c].pc = "ready" /\ status = "SEMANTIC_READY"
    BY <1>2 DEF SearchReady
  <2>2. j.pc = "select" /\ j.docs = job[c].docs /\ j.fresh = job[c].fresh
    BY <1>1 DEF JobState
  <2> HIDE DEF j
  <2>3. job[c].fresh => current = Canonical /\ (~patchy => Canonical \subseteq vectors)
    BY <1>1, <2>1 DEF Quiet, Knowing, QuietInv, VectorsInv
  <2>4. UNCHANGED <<current, vectors, patchy>> /\ Canonical' = Canonical
    BY <2>1, MemoryLeavesDocuments DEF indexed
  <2>5. job'[c] = j => Quiet(c)'
    BY <2>2, <2>3, <2>4 DEF Quiet, Knowing
  <2> QED BY <2>1, <2>5, QuietRead
<1>3. CASE SearchSelect(c)
  <2> DEFINE D == Matching(job[c].purpose)
             b == job[c].fresh /\ (job[c].purpose = "semantic" => ~patchy)
             j == [job[c] EXCEPT !.pc = "recheck", !.docs = D, !.fresh = b]
  <2>1. Do(c, j) /\ UNCHANGED <<vars, listed, indexed, patchy>> /\ job[c].pc = "select"
    BY <1>3 DEF SearchSelect
  <2>2. b => job[c].fresh /\ (job[c].purpose = "semantic" => ~patchy)
    BY Zenon
  <2>3. b => D = Canonical
    BY <1>1, <2>1, <2>2 DEF Matching, Quiet, Knowing
  <2> HIDE DEF D, b
  <2>4. j.pc = "recheck" /\ j.docs = D /\ j.fresh = b
    BY <1>1 DEF JobState
  <2> HIDE DEF j
  <2>5. job'[c] = j => Quiet(c)'
    BY <2>1, <2>3, <2>4, MemoryLeavesDocuments DEF Quiet, Knowing
  <2> QED BY <2>1, <2>5, QuietRead
<1>4. CASE SearchRecheck(c)
  <2> DEFINE D == RowsCurrent(job[c].docs)
             j == [job[c] EXCEPT !.pc = "answer", !.docs = D]
  <2>1. Do(c, j) /\ UNCHANGED <<vars, listed, indexed, patchy>> /\ job[c].pc = "recheck"
    BY <1>4 DEF SearchRecheck
  <2>2. job[c].fresh => D = Canonical
    BY <1>1, <2>1 DEF RowsCurrent, Quiet, Knowing
  <2> HIDE DEF D
  <2>3. j.pc = "answer" /\ j.docs = D /\ j.fresh = job[c].fresh
    BY <1>1 DEF JobState
  <2> HIDE DEF j
  <2>4. job'[c] = j => Quiet(c)'
    BY <2>1, <2>2, <2>3, MemoryLeavesDocuments DEF Quiet, Knowing
  <2> QED BY <2>1, <2>4, QuietRead
<1>5. CASE RebuildRead(c)
  <2> DEFINE j == [job[c] EXCEPT !.pc = "store", !.docs = current]
  <2>1. Do(c, j) /\ UNCHANGED <<vars, listed, indexed, patchy>> /\ job[c].pc = "embed"
    BY <1>5 DEF RebuildRead
  <2>2. job[c].fresh => current = Canonical
    BY <1>1, <2>1 DEF Quiet, Knowing
  <2>3. j.pc = "store" /\ j.docs = current /\ j.fresh = job[c].fresh
    BY <1>1 DEF JobState
  <2> HIDE DEF j
  <2>4. job'[c] = j => Quiet(c)'
    BY <2>1, <2>2, <2>3, MemoryLeavesDocuments DEF Quiet, Knowing, indexed
  <2> QED BY <2>1, <2>4, QuietRead
<1> QED BY <1>2, <1>3, <1>4, <1>5

LEMMA RebuildQuiet ==
  ASSUME KnowledgeInv, QuietInv, NEW c \in Client, RebuildStore(c) \/ RebuildFail(c)
  PROVE  QuietInv'
<1>1. /\ job[c] \in JobState /\ Quiet(c) /\ UNCHANGED <<vars, listed>> /\ current' = current
  BY JobRow DEF QuietInv, RebuildStore, RebuildFail
<1>2. Do(c, NoJob) \/ DoWriting(c, NoJob)
  BY DEF RebuildStore, RebuildFail
<1>3. OthersStay(c) /\ job'[c] = NoJob /\ Canonical' = Canonical
  BY <1>1, <1>2, OthersAfter, MemoryLeavesDocuments DEF KnowledgeInv
<1>4. Quiet(c)'
  BY <1>3 DEF NoJob, Quiet, Knowing
<1>5. CASE RebuildStore(c)
  <2>1. /\ vectors' = (vectors \ current) \union job[c].docs /\ patchy' = ~job[c].fresh
        /\ DoWriting(c, NoJob) /\ job[c].pc = "store"
    BY <1>5 DEF RebuildStore
  <2>2. job[c].fresh => current = Canonical /\ Canonical \subseteq vectors'
    BY <1>1, <2>1 DEF Quiet, Knowing
  <2>3. VectorsInv'
    BY <1>1, <2>1, <2>2 DEF VectorsInv
  <2>4. ~job[c].fresh => \A d \in Client \ {c} : job'[d].fresh => job[d].pc = "idle"
    BY <2>1, OthersAfter DEF KnowledgeInv
  <2>5. ASSUME NEW d \in Client, d # c, job'[d].fresh, job[d].pc = "select"
        PROVE  Canonical \subseteq vectors'
    BY <2>2, <2>4, <2>5
  <2> QED BY <1>1, <1>3, <1>4, <2>3, <2>5, QuietStep
<1>6. CASE RebuildFail(c)
  <2>1. status' = "FAILED" /\ UNCHANGED <<vectors, patchy>>
    BY <1>6 DEF RebuildFail
  <2>2. VectorsInv'
    BY <2>1 DEF VectorsInv
  <2> QED BY <1>1, <1>3, <1>4, <2>1, <2>2, QuietStep
<1> QED BY <1>5, <1>6

\* What changes a document disturbs every call.
LEMMA ChangesAlongsideQuiet ==
  ASSUME KnowledgeInv, QuietInv, UNCHANGED <<indexed, patchy>>,
         NEW b \in BOOLEAN, Canonical' # Canonical => b,
         job' = [c \in Client |-> Disturbed(c, b)]
  PROVE  QuietInv'
<1>1. UNCHANGED <<index, current, vectors, status, patchy>>
  BY DEF indexed
<1>2. VectorsInv'
  BY <1>1 DEF QuietInv, VectorsInv
<1>3. ASSUME NEW c \in Client PROVE Quiet(c)'
  <2>1. /\ job'[c].pc = job[c].pc /\ job'[c].purpose = job[c].purpose
        /\ job'[c].docs = job[c].docs /\ job'[c].changed = job[c].changed
        /\ job'[c].fresh => job[c].fresh /\ ~(b /\ job[c].pc # "idle")
    BY DisturbedJob, DisturbedStays DEF KnowledgeInv
  <2>2. ASSUME job'[c].fresh PROVE Knowing(c)'
    <3>1. CASE job[c].pc = "idle"
      BY <2>1, <3>1 DEF Knowing
    <3>2. CASE job[c].pc # "idle"
      <4>1. Canonical' = Canonical /\ Knowing(c)
        BY <2>1, <2>2, <3>2 DEF QuietInv, Quiet
      <4> QED BY <1>1, <2>1, <4>1 DEF Knowing
    <3> QED BY <3>1, <3>2
  <2> QED BY <2>2 DEF Quiet
<1> QED BY <1>2, <1>3 DEF QuietInv

LEMMA QuietStutter ==
  ASSUME QuietInv, UNCHANGED allVars
  PROVE  QuietInv'
<1>1. UNCHANGED <<index, current, vectors, status, job, patchy>> /\ UNCHANGED <<vars, listed>>
  BY DEF allVars, memoryVars, indexed
<1>2. Canonical' = Canonical
  BY <1>1, MemoryLeavesDocuments
<1>3. VectorsInv' /\ \A c \in Client : Quiet(c)'
  BY <1>1, <1>2 DEF QuietInv, VectorsInv, Quiet, Knowing
<1> QED BY <1>3 DEF QuietInv

LEMMA QuietNext == KnowledgeInv /\ QuietInv /\ [KnowledgeNext]_allVars => QuietInv'
<1> SUFFICES ASSUME KnowledgeInv, QuietInv,
                    ResearchAlongside \/ MemoryNext \/ ListUnit \/ UNCHANGED allVars
             PROVE  QuietInv'
  BY DEF KnowledgeNext
<1>1. ASSUME NEW c \in Client,
             \/ \E p \in Purpose : SyncBegin(c, p)
             \/ SyncReadHeads(c) \/ SyncReadPrior(c) \/ SyncWrite(c)
             \/ SearchReady(c) \/ SearchSelect(c) \/ SearchRecheck(c)
             \/ RebuildRead(c) \/ RebuildStore(c) \/ RebuildFail(c)
             \/ JobEnds(c)
      PROVE  QuietInv'
  BY <1>1, SyncReadsQuiet, SyncWriteQuiet, SearchQuiet, RebuildQuiet
<1>2. CASE ResearchAlongside
  <2>1. PICK b \in BOOLEAN : b = (Canonical' # Canonical)
    OBVIOUS
  <2>2. job' = [c \in Client |-> Disturbed(c, b)]
    BY <1>2, <2>1 DEF ResearchAlongside
  <2> QED BY <1>2, <2>1, <2>2, ChangesAlongsideQuiet DEF ResearchAlongside
<1>3. CASE ListUnit
  BY <1>3, ChangesAlongsideQuiet DEF ListUnit
<1> QED BY <1>1, <1>2, <1>3, QuietStutter DEF MemoryNext

LEMMA QuietStart == InitMemory => QuietInv
BY DEF InitMemory, QuietInv, VectorsInv, Quiet, Knowing, NoJob

LEMMA QuietInvariant == KnowledgeSpec => []QuietInv
BY QuietStart, QuietNext, KnowledgeInvariant, PTL DEF KnowledgeSpec

\* Calls of Research beside Book Memory, and Book Memory beside them.
LEMMA DecidedAlongside ==
  KnowledgeInv /\ DecidedInv /\ [KnowledgeNext]_allVars => DecidedInv'
<1>1. KnowledgeInv /\ DecidedInv /\ ResearchAlongside => DecidedInv'
  BY DecidedStep DEF KnowledgeInv, ResearchAlongside
<1>2. MemoryNext \/ ListUnit \/ UNCHANGED allVars => UNCHANGED <<rows, op, history>>
  BY DEF MemoryNext, ListUnit, allVars, vars, SyncBegin, SyncReadHeads, SyncReadPrior, SyncWrite,
         SearchReady, SearchSelect, SearchRecheck, RebuildRead, RebuildStore, RebuildFail, JobEnds
<1> QED BY <1>1, <1>2, AcceptUnitKeepsDecided DEF KnowledgeNext

LEMMA DecidedInvariant == KnowledgeSpec => []DecidedInv
BY DecidedInit, DecidedAlongside, KnowledgeInvariant, PTL DEF KnowledgeSpec

(***************************************************************************)
(* The theorems.                                                           *)
(***************************************************************************)
\* The tables of Research and of Book Memory, and the calls in flight over them, stay what the code
\* stores: the rows an index calls CURRENT and those with a vector are rows of it, and evidence is
\* about a registered claim and an imported source (research.py, memory.py).
THEOREM KnowledgeTypeCorrect == KnowledgeSpec => []MemoryTypeOK
<1>1. KnowledgeInv => MemoryTypeOK
  BY DEF KnowledgeInv, ResearchInv, ClaimsInv, OpsInv, IndexInv, JobsInv, MemoryTypeOK, TypeOK
<1> QED BY <1>1, KnowledgeInvariant, PTL

\* For any claims, clients and bounds, a search never returns a document that was out of date
\* before it began, however synchronizations and changes of the documents overlap
\* (synchronize, lexical_search, semantic_search).
THEOREM SearchesAnswerNothingOutdated == KnowledgeSpec => []NothingOutdated
<1>1. KnowledgeInv => NothingOutdated
  BY DEF KnowledgeInv, JobsInv, JobFacts, NoneOutdated, NothingOutdated, Answered
<1> QED BY <1>1, KnowledgeInvariant, PTL

\* For any claims, sources, clients and bounds, however calls overlap: a claim has the state its
\* active evidence gives it or the one the owner gave it last, and its history ends there, unless
\* its evidence changed without a recalculation or its calls overlapped and no undisturbed call has
\* settled it since (add_evidence, review_claim, update_claim).
THEOREM ClaimsStandAsDecided == KnowledgeSpec => []ClaimAsDecided
<1>1. DecidedInv => ClaimAsDecided
  BY DEF DecidedInv, DecidedFor, ClaimAsDecided
<1> QED BY <1>1, DecidedInvariant, PTL

\* A search that nothing changed under answers with the current documents, whatever any number of
\* synchronizations, rebuilds and failures, and documents that left and came back, left in the index
\* before it (synchronize, lexical_search, semantic_search, rebuild_embeddings).
THEOREM QuietSearchesFindEverything == KnowledgeSpec => []QuietSearchIsComplete
<1>1. QuietInv => QuietSearchIsComplete
  BY DEF QuietInv, Quiet, Knowing, QuietSearchIsComplete, Answered
<1> QED BY <1>1, QuietInvariant, PTL

================================================================================
