----------------------------- MODULE WritingProofs -----------------------------
(***************************************************************************)
(* Proofs about Writing: type correctness, that a section is written from  *)
(* what its task was let in by, and that both gates rest on evidence for   *)
(* the authority of this instant.                                          *)
(***************************************************************************)
EXTENDS Writing, TLAPS, WellFoundedInduction

(***************************************************************************)
(* The inductive invariant, part by part.                                  *)
(***************************************************************************)
AuthorityInv ==
  /\ arch \in Rev /\ contract \in [Chapter -> Rev] /\ byOwnerRun \subseteq Chapter \X Rev
  /\ listed \subseteq Chapter /\ inSeries \in BOOLEAN

EvidenceInv ==
  /\ packs \in Seq({"DRAFT", "APPROVED"}) /\ Len(packs) <= MaxPacks
  /\ prods \in Seq(Prod) /\ Len(prods) <= MaxProds
  /\ ledger \in Seq(Overlap)
  /\ admissions \in Seq(Admission) /\ Len(admissions) <= MaxAdmissions
  /\ audited \in BOOLEAN

DraftsInv ==
  /\ tasks \in Seq(Task) /\ Len(tasks) <= MaxTasks
  /\ units \subseteq 1..Len(tasks) /\ abandoned \subseteq 1..Len(tasks)

\* Production contract p was approved for chapter k under this authority.
Produced(p, k, a, r) ==
  /\ p \in 1..Len(prods) /\ prods[p].chapter = k /\ prods[p].status = "APPROVED"
  /\ Bound(prods[p], a, r)

\* The overlap of chapter k was checked under this authority, and passed.
Cleared(k, a, r) ==
  \E u \in 1..Len(ledger) :
    ledger[u].chapter = k /\ ledger[u].status = "PASS" /\ Bound(ledger[u], a, r)

AdmissionsInv ==
  \A i \in 1..Len(admissions) :
    LET x == admissions[i] IN
    /\ Produced(x.prod, x.chapter, x.arch, x.contract) /\ Cleared(x.chapter, x.arch, x.contract)
    /\ x.contract <= contract[x.chapter]

\* What let a task in is about the contract it reads, or a later one.
LetIn(t) ==
  LET x == tasks[t] IN
  /\ x.lane = "admitted" => /\ x.admission \in 1..Len(admissions)
                            /\ admissions[x.admission].chapter = x.chapter
                            /\ x.input <= admissions[x.admission].contract
  /\ x.lane = "auto" => \E r \in Rev : x.input <= r /\ r <= contract[x.chapter]
                                       /\ <<x.chapter, r>> \in byOwnerRun

\* It is about this contract.
AsAdmitted(t) ==
  LET x == tasks[t] IN
  /\ x.lane = "admitted" => admissions[x.admission].contract = x.input
  /\ x.lane = "auto" => <<x.chapter, x.input>> \in byOwnerRun

TasksInv ==
  /\ \A t \in 1..Len(tasks) : LetIn(t)
  /\ \A t \in units : AsAdmitted(t)

\* What a call in flight has read, or written in an earlier transaction of its own.
Facts(c) ==
  LET o == op[c] IN
  /\ o.pc # "idle" => o.chapter \in Chapter /\ o.contract <= contract[o.chapter]
  /\ o.task # 0 => o.task \in 1..Len(tasks)
  /\ o.pc = "approve" => o.prod \in 1..Len(prods)
  /\ o.pc \in {"admit_prod", "admit_overlap", "admit"} => o.pack # 0
  /\ o.pc \in {"admit_overlap", "admit"} => Produced(o.prod, o.chapter, o.arch, o.contract)
  /\ o.pc = "admit" => Cleared(o.chapter, o.arch, o.contract)
  /\ o.pc \in {"ask", "check", "store", "fail"} =>
       o.task # 0 /\ tasks[o.task].chapter = o.chapter /\ tasks[o.task].input = o.contract
  /\ o.pc = "store" => AsAdmitted(o.task)

OpsInv == op \in [Client -> OpState] /\ \A c \in Client : Facts(c)

TablesInv == AuthorityInv /\ EvidenceInv /\ DraftsInv
WritingInv == TablesInv /\ AdmissionsInv /\ TasksInv /\ OpsInv

\* Rows are added and keep what they are about, approvals last, heads go up.
Grows ==
  /\ Len(prods) <= Len(prods') /\ Len(prods') \in Nat
  /\ \A p \in 1..Len(prods) : /\ prods'[p].chapter = prods[p].chapter
                              /\ prods'[p].arch = prods[p].arch
                              /\ prods'[p].contract = prods[p].contract
                              /\ prods[p].status = "APPROVED" => prods'[p].status = "APPROVED"
  /\ Len(ledger) <= Len(ledger') /\ Len(ledger') \in Nat
  /\ \A u \in 1..Len(ledger) : ledger'[u] = ledger[u]
  /\ Len(admissions) <= Len(admissions') /\ Len(admissions') \in Nat
  /\ \A i \in 1..Len(admissions) : admissions'[i] = admissions[i]
  /\ Len(tasks) <= Len(tasks') /\ Len(tasks') \in Nat
  /\ \A t \in 1..Len(tasks) : /\ tasks'[t].chapter = tasks[t].chapter
                              /\ tasks'[t].input = tasks[t].input
                              /\ tasks'[t].lane = tasks[t].lane
                              /\ tasks'[t].admission = tasks[t].admission
  /\ contract' \in [Chapter -> Rev] /\ \A k \in Chapter : contract[k] <= contract'[k]
  /\ byOwnerRun \subseteq byOwnerRun'

(***************************************************************************)
(* The latest of a set of rows.                                            *)
(***************************************************************************)
LEMMA GreatestExists ==
  ASSUME NEW n \in Nat, NEW S \in SUBSET (1..n), S # {}
  PROVE  Max(S) \in S
<1> DEFINE T == {n - x : x \in S}
<1>1. T \subseteq Nat /\ T # {}
  <2>1. ASSUME NEW x \in S PROVE n - x \in Nat
    OBVIOUS
  <2>2. \E x \in S : n - x \in T
    OBVIOUS
  <2> QED BY <2>1, <2>2
<1>2. PICK y \in T : \A z \in T : ~ (<<z, y>> \in OpToRel(<, Nat))
  BY <1>1, WFMin, NatLessThanWellFounded, Zenon
<1>3. \A z \in T : ~ (z < y)
  <2> TAKE z \in T
  <2>1. z \in Nat /\ y \in Nat
    BY <1>1
  <2>2. z < y => <<z, y>> \in OpToRel(<, Nat)
    BY <2>1 DEF OpToRel
  <2> QED BY <2>2, <1>2
<1>4. PICK x \in S : y = n - x
  OBVIOUS
<1>5. \A w \in S : x >= w
  <2> TAKE w \in S
  <2>1. ~ (n - w < n - x)
    BY <1>3, <1>4
  <2> HIDE DEF T
  <2> QED BY <2>1
<1> QED BY <1>5 DEF Max

LEMMA LatestExists ==
  ASSUME NEW n \in Nat, NEW S \in SUBSET (1..n)
  PROVE  LatestOf(S) \in 0..n /\ (LatestOf(S) # 0 => LatestOf(S) \in S)
<1>1. CASE S = {}
  BY <1>1 DEF LatestOf
<1>2. CASE S # {}
  <2>1. Max(S) \in S
    BY <1>2, GreatestExists
  <2>2. LatestOf(S) = Max(S)
    BY <1>2 DEF LatestOf
  <2>3. Max(S) \in 1..n
    BY <2>1
  <2> QED BY <2>1, <2>2, <2>3
<1> QED BY <1>1, <1>2

LEMMA LatestRows ==
  ASSUME TablesInv, NEW k \in Chapter
  PROVE  /\ CurrentPack \in 0..Len(packs)
         /\ CurrentProd(k) \in 0..Len(prods)
         /\ CurrentProd(k) # 0 => /\ prods[CurrentProd(k)].chapter = k
                                  /\ prods[CurrentProd(k)].status = "APPROVED"
         /\ CurrentOverlap(k) \in 0..Len(ledger)
         /\ CurrentOverlap(k) # 0 => ledger[CurrentOverlap(k)].chapter = k
         /\ CurrentAdmission(k) \in 0..Len(admissions)
         /\ CurrentAdmission(k) # 0 => admissions[CurrentAdmission(k)].chapter = k
<1>1. /\ Len(packs) \in Nat /\ DOMAIN packs = 1..Len(packs)
      /\ Len(prods) \in Nat /\ DOMAIN prods = 1..Len(prods)
      /\ Len(ledger) \in Nat /\ DOMAIN ledger = 1..Len(ledger)
      /\ Len(admissions) \in Nat /\ DOMAIN admissions = 1..Len(admissions)
  BY DEF TablesInv, EvidenceInv
<1> DEFINE D == {d \in DOMAIN packs : packs[d] = "APPROVED"}
           P == {p \in DOMAIN prods : prods[p].chapter = k /\ prods[p].status = "APPROVED"}
           U == {u \in DOMAIN ledger : ledger[u].chapter = k}
           A == {a \in DOMAIN admissions : admissions[a].chapter = k}
<1>2. LatestOf(D) \in 0..Len(packs)
  BY <1>1, LatestExists
<1>3. LatestOf(P) \in 0..Len(prods) /\ (LatestOf(P) # 0 => LatestOf(P) \in P)
  BY <1>1, LatestExists
<1>4. LatestOf(U) \in 0..Len(ledger) /\ (LatestOf(U) # 0 => LatestOf(U) \in U)
  BY <1>1, LatestExists
<1>5. LatestOf(A) \in 0..Len(admissions) /\ (LatestOf(A) # 0 => LatestOf(A) \in A)
  BY <1>1, LatestExists
<1> QED
  BY <1>2, <1>3, <1>4, <1>5 DEF CurrentPack, CurrentProd, CurrentOverlap, CurrentAdmission

(***************************************************************************)
(* Calls.                                                                  *)
(***************************************************************************)
LEMMA IdleOK == NoOp \in OpState /\ NoOp.pc = "idle" /\ NoOp.task = 0 /\ NoOp.contract = 0
BY WritingAssumption DEF NoOp, OpState, Result, Rev

\* What an untouched call knows stays true while tables grow.
LEMMA KeepFacts ==
  ASSUME TablesInv, TasksInv, OpsInv, Grows, NEW d \in Client, op'[d] = op[d]
  PROVE  Facts(d)'
<1> DEFINE o == op[d]
<1>1. /\ Len(prods) \in Nat /\ Len(ledger) \in Nat /\ Len(admissions) \in Nat /\ Len(tasks) \in Nat
      /\ contract \in [Chapter -> Rev] /\ contract' \in [Chapter -> Rev]
      /\ o \in OpState /\ o.contract \in Rev /\ Rev \subseteq Nat
  <2>1. Len(prods) \in Nat /\ Len(ledger) \in Nat /\ Len(admissions) \in Nat /\ Len(tasks) \in Nat
    BY DEF TablesInv, EvidenceInv, DraftsInv
  <2>2. contract \in [Chapter -> Rev] /\ contract' \in [Chapter -> Rev] /\ Rev \subseteq Nat
    BY WritingAssumption DEF TablesInv, AuthorityInv, Grows, Rev
  <2>3. o \in OpState /\ o.contract \in Rev
    BY DEF OpsInv, OpState
  <2> QED BY <2>1, <2>2, <2>3
<1>2. Facts(d)
  BY DEF OpsInv
<1>3. /\ o.pc # "idle" => o.chapter \in Chapter /\ o.contract <= contract'[o.chapter]
      /\ o.task # 0 => o.task \in 1..Len(tasks')
      /\ o.pc = "approve" => o.prod \in 1..Len(prods')
  <2>1. o.pc # "idle" => o.chapter \in Chapter /\ o.contract <= contract'[o.chapter]
    BY <1>1, <1>2 DEF Facts, Grows, Rev
  <2> QED BY <2>1, <1>1, <1>2 DEF Facts, Grows
<1>4. Produced(o.prod, o.chapter, o.arch, o.contract) =>
        /\ o.prod \in 1..Len(prods') /\ prods'[o.prod].chapter = o.chapter
        /\ prods'[o.prod].status = "APPROVED" /\ Bound(prods'[o.prod], o.arch, o.contract)
  BY <1>1 DEF Produced, Bound, Grows
<1>5. Cleared(o.chapter, o.arch, o.contract) =>
        \E u \in 1..Len(ledger') : /\ ledger'[u].chapter = o.chapter /\ ledger'[u].status = "PASS"
                                   /\ Bound(ledger'[u], o.arch, o.contract)
  <2>1. ASSUME NEW u \in 1..Len(ledger) PROVE u \in 1..Len(ledger') /\ ledger'[u] = ledger[u]
    BY <1>1 DEF Grows
  <2> QED BY <2>1 DEF Cleared
<1>6. o.pc \in {"ask", "check", "store", "fail"} =>
        o.task # 0 /\ tasks'[o.task].chapter = o.chapter /\ tasks'[o.task].input = o.contract
  BY <1>1, <1>2 DEF Facts, Grows
<1>7. o.pc = "store" =>
        LET x == tasks'[o.task] IN
        /\ x.lane = "admitted" => admissions'[x.admission].contract = x.input
        /\ x.lane = "auto" => <<x.chapter, x.input>> \in byOwnerRun'
  <2> SUFFICES ASSUME o.pc = "store"
               PROVE  LET x == tasks'[o.task] IN
                      /\ x.lane = "admitted" => admissions'[x.admission].contract = x.input
                      /\ x.lane = "auto" => <<x.chapter, x.input>> \in byOwnerRun'
    OBVIOUS
  <2>1. o.task \in 1..Len(tasks) /\ AsAdmitted(o.task)
    BY <1>2 DEF Facts
  <2>2. tasks[o.task].lane = "admitted" => tasks[o.task].admission \in 1..Len(admissions)
    BY <2>1 DEF TasksInv, LetIn
  <2> QED BY <2>1, <2>2 DEF AsAdmitted, Grows
<1> QED
  BY <1>2, <1>3, <1>4, <1>5, <1>6, <1>7 DEF Facts, Produced, Cleared, AsAdmitted

LEMMA GotoOps ==
  ASSUME TablesInv, TasksInv, OpsInv, Grows, NEW c \in Client, NEW o \in OpState, Goto(c, o),
         op'[c] = o => Facts(c)'
  PROVE  OpsInv'
<1>1. op' \in [Client -> OpState] /\ op'[c] = o /\ \A d \in Client \ {c} : op'[d] = op[d]
  BY DEF Goto, OpsInv
<1>2. \A d \in Client \ {c} : Facts(d)'
  BY <1>1, KeepFacts
<1> QED
  BY <1>1, <1>2 DEF OpsInv

LEMMA FinishOps ==
  ASSUME TablesInv, TasksInv, OpsInv, Grows, NEW c \in Client, Finish(c)
  PROVE  OpsInv'
<1>1. op'[c] = NoOp => Facts(c)'
  BY IdleOK DEF Facts
<1> QED
  BY <1>1, GotoOps, IdleOK DEF Finish

LEMMA SameOps ==
  ASSUME TablesInv, TasksInv, OpsInv, Grows, UNCHANGED op
  PROVE  OpsInv'
BY KeepFacts DEF OpsInv

(***************************************************************************)
(* Rows.                                                                   *)
(***************************************************************************)
LEMMA Lengths ==
  ASSUME TablesInv
  PROVE  /\ Len(packs) \in Nat /\ Len(prods) \in Nat /\ Len(ledger) \in Nat
         /\ Len(admissions) \in Nat /\ Len(tasks) \in Nat
         /\ DOMAIN packs = 1..Len(packs) /\ DOMAIN prods = 1..Len(prods)
         /\ DOMAIN ledger = 1..Len(ledger) /\ DOMAIN admissions = 1..Len(admissions)
         /\ DOMAIN tasks = 1..Len(tasks)
         /\ contract \in [Chapter -> Rev] /\ arch \in Rev /\ Rev \subseteq Nat
         /\ \A i \in 1..Len(prods) : prods[i] \in Prod
         /\ \A i \in 1..Len(ledger) : ledger[i] \in Overlap
         /\ \A i \in 1..Len(admissions) : admissions[i] \in Admission
         /\ \A i \in 1..Len(tasks) : tasks[i] \in Task
BY WritingAssumption DEF TablesInv, AuthorityInv, EvidenceInv, DraftsInv, Rev

LEMMA AppendRow ==
  ASSUME NEW S, NEW s \in Seq(S), NEW x \in S
  PROVE  /\ Append(s, x) \in Seq(S)
         /\ Len(Append(s, x)) = Len(s) + 1
         /\ \A i \in 1..Len(s) : Append(s, x)[i] = s[i]
         /\ Append(s, x)[Len(s) + 1] = x
OBVIOUS

LEMMA ChangeRow ==
  ASSUME NEW S, NEW s \in Seq(S), NEW i \in 1..Len(s), NEW x \in S
  PROVE  [s EXCEPT ![i] = x] \in Seq(S)
OBVIOUS

\* What an admission was made on stays.
LEMMA AdmissionsStay ==
  ASSUME TablesInv, AdmissionsInv, Grows, NEW i \in 1..Len(admissions)
  PROVE  LET x == admissions[i] IN
         /\ Produced(x.prod, x.chapter, x.arch, x.contract)'
         /\ Cleared(x.chapter, x.arch, x.contract)'
         /\ (x.contract <= contract[x.chapter])'
<1> DEFINE x == admissions[i]
<1>1. admissions'[i] = x /\ x \in Admission /\ x.chapter \in Chapter /\ x.contract \in Rev
  BY Lengths DEF Grows, Admission
<1>2. Produced(x.prod, x.chapter, x.arch, x.contract) /\ Cleared(x.chapter, x.arch, x.contract)
      /\ x.contract <= contract[x.chapter]
  BY DEF AdmissionsInv
<1>3. Produced(x.prod, x.chapter, x.arch, x.contract)'
  BY <1>1, <1>2, Lengths DEF Produced, Bound, Grows
<1>4. Cleared(x.chapter, x.arch, x.contract)'
  <2>1. PICK u \in 1..Len(ledger) :
          ledger[u].chapter = x.chapter /\ ledger[u].status = "PASS" /\ Bound(ledger[u], x.arch, x.contract)
    BY <1>2 DEF Cleared
  <2>2. u \in 1..Len(ledger') /\ ledger'[u] = ledger[u]
    BY <2>1, Lengths DEF Grows
  <2> QED BY <1>1, <2>1, <2>2 DEF Cleared, Bound
<1>5. (x.contract <= contract[x.chapter])'
  BY <1>1, <1>2, Lengths DEF Grows
<1> QED BY <1>3, <1>4, <1>5

LEMMA SameAdmissions ==
  ASSUME TablesInv, AdmissionsInv, Grows, UNCHANGED admissions
  PROVE  AdmissionsInv'
BY AdmissionsStay DEF AdmissionsInv

\* So does what let a task in.
LEMMA TasksStay ==
  ASSUME TablesInv, TasksInv, Grows, NEW t \in 1..Len(tasks)
  PROVE  LetIn(t)' /\ (AsAdmitted(t) => AsAdmitted(t)')
<1> DEFINE x == tasks[t]
<1>1. /\ tasks'[t].chapter = x.chapter /\ tasks'[t].input = x.input
      /\ tasks'[t].lane = x.lane /\ tasks'[t].admission = x.admission
      /\ x.chapter \in Chapter /\ x.input \in Rev
  BY Lengths DEF Grows, Task
<1>2. LetIn(t)
  BY DEF TasksInv
<1>3. x.lane = "admitted" => /\ x.admission \in 1..Len(admissions')
                             /\ x.admission \in 1..Len(admissions)
                             /\ admissions'[x.admission] = admissions[x.admission]
  BY <1>2, Lengths DEF LetIn, Grows
<1>4. x.lane = "auto" => \E r \in Rev : x.input <= r /\ r <= contract'[x.chapter]
                                        /\ <<x.chapter, r>> \in byOwnerRun'
  <2> SUFFICES ASSUME x.lane = "auto"
               PROVE  \E r \in Rev : x.input <= r /\ r <= contract'[x.chapter]
                                     /\ <<x.chapter, r>> \in byOwnerRun'
    OBVIOUS
  <2>1. PICK r \in Rev : x.input <= r /\ r <= contract[x.chapter] /\ <<x.chapter, r>> \in byOwnerRun
    BY <1>2 DEF LetIn
  <2>2. r <= contract'[x.chapter]
    BY <1>1, <2>1, Lengths DEF Grows
  <2> QED BY <2>1, <2>2 DEF Grows
<1>5. LetIn(t)'
  BY <1>1, <1>2, <1>3, <1>4 DEF LetIn
<1> QED BY <1>1, <1>3, <1>5 DEF AsAdmitted, Grows

LEMMA SameTasks ==
  ASSUME TablesInv, TasksInv, Grows, Len(tasks') = Len(tasks), units' \subseteq units
  PROVE  TasksInv'
BY TasksStay DEF TasksInv, TablesInv, DraftsInv

LEMMA SameTables ==
  ASSUME TablesInv, UNCHANGED <<authority, evidence, drafts>>
  PROVE  TablesInv' /\ Grows /\ UNCHANGED <<admissions, tasks, units>>
<1>1. UNCHANGED <<arch, contract, byOwnerRun, listed, inSeries, packs, prods, ledger, admissions,
                  audited, tasks, units, abandoned>>
  BY DEF authority, evidence, drafts
<1>2. TablesInv'
  BY <1>1 DEF TablesInv, AuthorityInv, EvidenceInv, DraftsInv
<1> QED BY <1>1, <1>2, Lengths DEF Grows

(***************************************************************************)
(* Steps.                                                                  *)
(***************************************************************************)
\* A call goes on with a read.
LEMMA ReadStep ==
  ASSUME WritingInv, NEW c \in Client, NEW o \in OpState, Goto(c, o),
         UNCHANGED <<authority, evidence, drafts>>, op'[c] = o => Facts(c)'
  PROVE  WritingInv'
<1>1. TablesInv' /\ Grows /\ UNCHANGED <<admissions, tasks, units>>
  BY SameTables DEF WritingInv
<1>2. AdmissionsInv' /\ TasksInv'
  BY <1>1, SameAdmissions, SameTasks DEF WritingInv
<1>3. OpsInv'
  BY <1>1, GotoOps DEF WritingInv
<1> QED BY <1>1, <1>2, <1>3 DEF WritingInv

\* A call ends after it changed tables that no admission or task depends on.
LEMMA EvidenceStep ==
  ASSUME WritingInv, TablesInv', Grows, (\E c \in Client : Finish(c)) \/ UNCHANGED op,
         UNCHANGED <<admissions, drafts>>
  PROVE  WritingInv'
<1>1. AdmissionsInv' /\ TasksInv'
  BY SameAdmissions, SameTasks DEF WritingInv, drafts
<1>2. OpsInv'
  BY FinishOps, SameOps DEF WritingInv
<1> QED BY <1>1, <1>2 DEF WritingInv

\* Acceptances and the binding of the book to a series.
LEMMA AuthorityStep ==
  ASSUME WritingInv, AuthorityInv', UNCHANGED <<evidence, drafts, op>>,
         \A k \in Chapter : contract[k] <= contract'[k], byOwnerRun \subseteq byOwnerRun'
  PROVE  WritingInv'
<1>1. UNCHANGED <<packs, prods, ledger, admissions, audited, tasks, units, abandoned>>
  BY DEF evidence, drafts
<1>2. TablesInv'
  BY <1>1 DEF WritingInv, TablesInv, EvidenceInv, DraftsInv
<1>3. Grows
  BY <1>1, Lengths DEF Grows, WritingInv, AuthorityInv
<1> QED BY <1>1, <1>2, <1>3, EvidenceStep

LEMMA AcceptArchitectureStep ==
  ASSUME WritingInv, NEW L \in SUBSET Chapter, AcceptArchitecture(L)
  PROVE  WritingInv'
<1>1. /\ arch < MaxAccepted /\ arch' = arch + 1 /\ listed' = L
      /\ UNCHANGED <<contract, byOwnerRun, inSeries, evidence, drafts, op>>
  BY DEF AcceptArchitecture, MayAccept
<1>2. arch \in Rev /\ contract \in [Chapter -> Rev] /\ Rev \subseteq Nat
  BY Lengths DEF WritingInv
<1>3. arch' \in Rev
  BY <1>1, <1>2, WritingAssumption DEF Rev
<1>4. AuthorityInv'
  BY <1>1, <1>3 DEF WritingInv, TablesInv, AuthorityInv
<1>5. \A k \in Chapter : contract[k] \in Nat
  BY <1>2
<1>6. \A k \in Chapter : contract[k] <= contract'[k]
  BY <1>1, <1>5
<1> QED BY <1>1, <1>4, <1>6, AuthorityStep

LEMMA AcceptContractStep ==
  ASSUME WritingInv, NEW k \in Chapter, NEW run \in BOOLEAN, AcceptContract(k, run)
  PROVE  WritingInv'
<1> DEFINE r == contract[k] + 1
<1>1. /\ arch + contract[k] < MaxAccepted /\ contract' = [contract EXCEPT ![k] = r]
      /\ byOwnerRun' = byOwnerRun \/ byOwnerRun' = byOwnerRun \union {<<k, r>>}
      /\ UNCHANGED <<arch, listed, inSeries, evidence, drafts, op>>
  BY DEF AcceptContract, MayAccept
<1>2. arch \in Rev /\ contract \in [Chapter -> Rev] /\ Rev \subseteq Nat
  BY Lengths DEF WritingInv
<1>3. r \in Rev
  BY <1>1, <1>2, WritingAssumption DEF Rev
<1>4. AuthorityInv'
  BY <1>1, <1>3 DEF WritingInv, TablesInv, AuthorityInv
<1>5. \A x \in Chapter : contract[x] <= contract'[x]
  <2>1. \A x \in Chapter : contract[x] \in Nat
    BY <1>2
  <2>2. \A x \in Chapter : contract'[x] = IF x = k THEN contract[k] + 1 ELSE contract[x]
    BY <1>1, <1>2
  <2> QED BY <2>1, <2>2
<1>6. byOwnerRun \subseteq byOwnerRun'
  BY <1>1
<1> QED BY <1>1, <1>4, <1>5, <1>6, AuthorityStep

LEMMA BindSeriesStep ==
  ASSUME WritingInv, BindSeries
  PROVE  WritingInv'
<1>1. AuthorityInv'
  <2>1. inSeries' \in BOOLEAN
    BY Zenon DEF BindSeries
  <2> QED BY <2>1 DEF BindSeries, WritingInv, TablesInv, AuthorityInv
<1>2. \A k \in Chapter : contract[k] <= contract'[k]
  BY Lengths DEF WritingInv, BindSeries
<1> QED BY <1>1, <1>2, AuthorityStep DEF BindSeries

\* A table of evidence changes and the authority and the tasks do not.
LEMMA EvidenceGrows ==
  ASSUME WritingInv, EvidenceInv', UNCHANGED <<authority, admissions, drafts>>,
         Len(prods) <= Len(prods'), Len(ledger) <= Len(ledger'),
         \A p \in 1..Len(prods) : /\ prods'[p].chapter = prods[p].chapter
                                  /\ prods'[p].arch = prods[p].arch
                                  /\ prods'[p].contract = prods[p].contract
                                  /\ prods[p].status = "APPROVED" => prods'[p].status = "APPROVED",
         \A u \in 1..Len(ledger) : ledger'[u] = ledger[u],
         (\E c \in Client : Finish(c)) \/ UNCHANGED op
  PROVE  WritingInv'
<1>1. UNCHANGED <<arch, contract, byOwnerRun, listed, inSeries, tasks, units, abandoned, admissions>>
  BY DEF authority, drafts
<1>2. TablesInv'
  BY <1>1 DEF WritingInv, TablesInv, AuthorityInv, DraftsInv
<1>3. Len(prods') \in Nat /\ Len(ledger') \in Nat
  BY DEF EvidenceInv
<1>4. Grows
  BY <1>1, <1>3, Lengths DEF Grows, WritingInv
<1> QED BY <1>2, <1>4, EvidenceStep DEF drafts

LEMMA DefinitionStep ==
  ASSUME WritingInv, CreateDefinition \/ (\E d \in DOMAIN packs : ApproveDefinition(d))
  PROVE  WritingInv'
<1>1. UNCHANGED <<authority, prods, ledger, admissions, audited, drafts, op>>
  BY DEF CreateDefinition, ApproveDefinition
<1>2. packs \in Seq({"DRAFT", "APPROVED"}) /\ Len(packs) \in Nat
  BY Lengths DEF WritingInv, TablesInv, EvidenceInv
<1>3. packs' \in Seq({"DRAFT", "APPROVED"}) /\ Len(packs') <= MaxPacks
  <2>1. CASE CreateDefinition
    BY <1>2, <2>1, AppendRow, WritingAssumption DEF CreateDefinition
  <2>2. CASE \E d \in DOMAIN packs : ApproveDefinition(d)
    BY <1>2, <2>2 DEF ApproveDefinition, WritingInv, TablesInv, EvidenceInv
  <2> QED BY <2>1, <2>2
<1>4. EvidenceInv'
  BY <1>1, <1>3 DEF WritingInv, TablesInv, EvidenceInv
<1>5. Len(prods) <= Len(prods') /\ Len(ledger) <= Len(ledger')
  BY <1>1, Lengths DEF WritingInv
<1> QED BY <1>1, <1>4, <1>5, EvidenceGrows

LEMMA AuditStep ==
  ASSUME WritingInv, NEW s \in Result, RecordAudit(s)
  PROVE  WritingInv'
<1>1. UNCHANGED <<authority, packs, prods, ledger, admissions, drafts, op>>
  BY DEF RecordAudit
<1>2. audited' \in BOOLEAN
  BY Zenon DEF RecordAudit
<1>3. EvidenceInv'
  BY <1>1, <1>2 DEF WritingInv, TablesInv, EvidenceInv
<1>4. Len(prods) <= Len(prods') /\ Len(ledger) <= Len(ledger')
  BY <1>1, Lengths DEF WritingInv
<1> QED BY <1>1, <1>3, <1>4, EvidenceGrows

LEMMA OpRow ==
  ASSUME WritingInv, NEW c \in Client
  PROVE  op[c] \in OpState /\ Facts(c)
BY DEF WritingInv, OpsInv

LEMMA CreateProdStep ==
  ASSUME WritingInv, NEW c \in Client, CreateProdWrite(c)
  PROVE  WritingInv'
<1> DEFINE o == op[c]
           x == [chapter |-> o.chapter, arch |-> o.arch, contract |-> o.contract, status |-> "DRAFT"]
<1>1. /\ o.pc = "create" /\ Len(prods) < MaxProds /\ prods' = Append(prods, x) /\ Finish(c)
      /\ UNCHANGED <<authority, packs, ledger, admissions, audited, drafts>>
  BY DEF CreateProdWrite
<1>2. x \in Prod
  BY <1>1, OpRow DEF Facts, OpState, Prod
<1>3. prods \in Seq(Prod) /\ Len(prods) \in Nat /\ Len(ledger) \in Nat
  BY Lengths DEF WritingInv, TablesInv, EvidenceInv
<1> HIDE DEF x
<1>4. /\ prods' \in Seq(Prod) /\ Len(prods') = Len(prods) + 1
      /\ \A p \in 1..Len(prods) : prods'[p] = prods[p]
  BY <1>1, <1>2, <1>3, AppendRow
<1>5. EvidenceInv'
  BY <1>1, <1>3, <1>4, WritingAssumption DEF WritingInv, TablesInv, EvidenceInv
<1>6. Len(prods) <= Len(prods') /\ Len(ledger) <= Len(ledger')
  BY <1>1, <1>3, <1>4
<1> QED BY <1>1, <1>4, <1>5, <1>6, EvidenceGrows

LEMMA ApproveProdStep ==
  ASSUME WritingInv, NEW c \in Client, ApproveProdWrite(c)
  PROVE  WritingInv'
<1> DEFINE i == op[c].prod
<1>1. /\ op[c].pc = "approve" /\ prods' = [prods EXCEPT ![i].status = "APPROVED"] /\ Finish(c)
      /\ UNCHANGED <<authority, packs, ledger, admissions, audited, drafts>>
  BY DEF ApproveProdWrite
<1>2. /\ prods \in Seq(Prod) /\ Len(prods) \in Nat /\ Len(ledger) \in Nat /\ DOMAIN prods = 1..Len(prods)
      /\ i \in 1..Len(prods) /\ \A p \in 1..Len(prods) : prods[p] \in Prod
  BY <1>1, OpRow, Lengths DEF WritingInv, TablesInv, EvidenceInv, Facts
<1> HIDE DEF i
<1>3. /\ Len(prods') = Len(prods)
      /\ \A p \in 1..Len(prods) :
           prods'[p] = IF p = i THEN [prods[p] EXCEPT !.status = "APPROVED"] ELSE prods[p]
  BY <1>1, <1>2
<1>4. \A p \in 1..Len(prods) :
        /\ prods'[p].chapter = prods[p].chapter /\ prods'[p].arch = prods[p].arch
        /\ prods'[p].contract = prods[p].contract
        /\ prods[p].status = "APPROVED" => prods'[p].status = "APPROVED"
  BY <1>2, <1>3 DEF Prod
<1>5. prods' \in Seq(Prod)
  BY <1>1, <1>2 DEF Prod
<1>6. EvidenceInv'
  BY <1>1, <1>3, <1>5 DEF WritingInv, TablesInv, EvidenceInv
<1>7. Len(prods) <= Len(prods') /\ Len(ledger) <= Len(ledger')
  BY <1>1, <1>2, <1>3
<1> QED BY <1>1, <1>4, <1>6, <1>7, EvidenceGrows

LEMMA OverlapStep ==
  ASSUME WritingInv, NEW c \in Client, OverlapWrite(c)
  PROVE  WritingInv'
<1> DEFINE o == op[c]
           x == [chapter |-> o.chapter, arch |-> o.arch, contract |-> o.contract, status |-> o.status]
<1>1. /\ o.pc = "overlap" /\ ledger' = Append(ledger, x) /\ Finish(c)
      /\ UNCHANGED <<authority, packs, prods, admissions, audited, drafts>>
  BY DEF OverlapWrite
<1>2. x \in Overlap
  BY <1>1, OpRow DEF Facts, OpState, Overlap
<1>3. ledger \in Seq(Overlap) /\ Len(prods) \in Nat /\ Len(ledger) \in Nat
  BY Lengths DEF WritingInv, TablesInv, EvidenceInv
<1> HIDE DEF x
<1>4. /\ ledger' \in Seq(Overlap) /\ Len(ledger') = Len(ledger) + 1
      /\ \A p \in 1..Len(ledger) : ledger'[p] = ledger[p]
  BY <1>1, <1>2, <1>3, AppendRow
<1>5. EvidenceInv'
  BY <1>1, <1>4 DEF WritingInv, TablesInv, EvidenceInv
<1>6. Len(prods) <= Len(prods') /\ Len(ledger) <= Len(ledger')
  BY <1>1, <1>3, <1>4
<1> QED BY <1>1, <1>4, <1>5, <1>6, EvidenceGrows

LEMMA SameVars ==
  ASSUME UNCHANGED <<authority, evidence, drafts>>
  PROVE  UNCHANGED <<arch, contract, byOwnerRun, listed, inSeries, packs, prods, ledger, admissions,
                     audited, tasks, units, abandoned>>
BY DEF authority, evidence, drafts

LEMMA BeginHeadsStep ==
  ASSUME WritingInv, NEW c \in Client, NEW k \in Chapter, NEW s \in Result,
         NEW pc \in {"create", "approve", "overlap", "admit_prod"},
         NEW d \in 0..MaxPacks, NEW p \in 0..MaxProds,
         pc = "approve" => p \in 1..Len(prods), pc = "admit_prod" => d # 0,
         BeginWithHeads(c, pc, k, s, d, p)
  PROVE  WritingInv'
<1> DEFINE o == [NoOp EXCEPT !.pc = pc, !.chapter = k, !.arch = arch, !.contract = contract[k],
                             !.status = s, !.pack = d, !.prod = p]
<1>1. Goto(c, o) /\ UNCHANGED <<authority, evidence, drafts>>
  BY DEF BeginWithHeads, Begin
<1>2. arch \in Rev /\ contract[k] \in Rev /\ contract[k] \in Nat
  BY Lengths DEF WritingInv
<1>3. /\ o \in OpState /\ o.pc = pc /\ o.chapter = k /\ o.contract = contract[k]
      /\ o.pack = d /\ o.prod = p /\ o.task = 0
  BY <1>2, IdleOK DEF OpState
<1> HIDE DEF o
<1>4. op'[c] = o => Facts(c)'
  BY <1>1, <1>2, <1>3, SameVars DEF Facts
<1> QED BY <1>1, <1>3, <1>4, ReadStep

LEMMA GateRequestStep ==
  ASSUME WritingInv, NEW c \in Client, GateRequest(c)
  PROVE  WritingInv'
<1>1. /\ Len(packs) <= MaxPacks /\ Len(prods) <= MaxProds /\ Len(packs) \in Nat /\ Len(prods) \in Nat
      /\ MaxPacks \in Nat /\ MaxProds \in Nat /\ DOMAIN prods = 1..Len(prods)
      /\ \A p \in 1..Len(prods) : prods[p] \in Prod
  BY WritingAssumption, Lengths DEF WritingInv, TablesInv, EvidenceInv
<1>2. ASSUME NEW k \in Chapter, CreateProdBegin(c, k) PROVE WritingInv'
  BY <1>1, <1>2, BeginHeadsStep DEF CreateProdBegin, Result
<1>3. ASSUME NEW k \in Chapter, AdmitBegin(c, k) PROVE WritingInv'
  <2>1. CurrentPack \in 0..MaxPacks
    BY <1>1, LatestRows DEF WritingInv
  <2> QED BY <1>1, <1>3, <2>1, BeginHeadsStep DEF AdmitBegin, Result
<1>4. ASSUME NEW k \in Chapter, NEW s \in Result, OverlapBegin(c, k, s) PROVE WritingInv'
  BY <1>1, <1>4, BeginHeadsStep DEF OverlapBegin
<1>5. ASSUME NEW p \in DOMAIN prods, ApproveProdBegin(c, p) PROVE WritingInv'
  <2>1. prods[p].chapter \in Chapter /\ p \in 0..MaxProds /\ p \in 1..Len(prods)
    BY <1>1 DEF Prod
  <2> QED BY <1>1, <1>5, <2>1, BeginHeadsStep DEF ApproveProdBegin, Result
<1> QED BY <1>2, <1>3, <1>4, <1>5 DEF GateRequest

LEMMA AdmitReadProdStep ==
  ASSUME WritingInv, NEW c \in Client, AdmitReadProd(c)
  PROVE  WritingInv'
<1> DEFINE p == CurrentProd(op[c].chapter)
           o == [op[c] EXCEPT !.pc = "admit_overlap", !.prod = p]
<1>1. /\ op[c].pc = "admit_prod" /\ p # 0 /\ Bound(prods[p], op[c].arch, op[c].contract)
      /\ Goto(c, o) /\ UNCHANGED <<authority, evidence, drafts>>
  BY DEF AdmitReadProd, ProdFits
<1>2. op[c] \in OpState /\ Facts(c) /\ op[c].chapter \in Chapter
  BY <1>1, OpRow DEF Facts
<1>3. /\ p \in 1..Len(prods) /\ prods[p].chapter = op[c].chapter /\ prods[p].status = "APPROVED"
      /\ p \in 0..MaxProds
  <2>1. Len(prods) \in Nat /\ Len(prods) <= MaxProds /\ MaxProds \in Nat
    BY Lengths, WritingAssumption DEF WritingInv, TablesInv, EvidenceInv
  <2>2. p \in 0..Len(prods) /\ prods[p].chapter = op[c].chapter /\ prods[p].status = "APPROVED"
    BY <1>1, <1>2, LatestRows DEF WritingInv
  <2> QED BY <1>1, <2>1, <2>2
<1> HIDE DEF p
<1>4. /\ o \in OpState /\ o.pc = "admit_overlap" /\ o.chapter = op[c].chapter /\ o.prod = p
      /\ o.arch = op[c].arch /\ o.contract = op[c].contract /\ o.task = op[c].task
      /\ o.pack = op[c].pack
  BY <1>2, <1>3 DEF OpState
<1> HIDE DEF o
<1>5. op'[c] = o => Facts(c)'
  BY <1>1, <1>2, <1>3, <1>4, SameVars DEF Facts, Produced, Bound
<1> QED BY <1>1, <1>4, <1>5, ReadStep

LEMMA AdmitReadOverlapStep ==
  ASSUME WritingInv, NEW c \in Client, AdmitReadOverlap(c)
  PROVE  WritingInv'
<1> DEFINE u == CurrentOverlap(op[c].chapter)
           o == [op[c] EXCEPT !.pc = "admit"]
<1>1. /\ op[c].pc = "admit_overlap" /\ u # 0 /\ ledger[u].status = "PASS"
      /\ Bound(ledger[u], op[c].arch, op[c].contract)
      /\ Goto(c, o) /\ UNCHANGED <<authority, evidence, drafts>>
  BY DEF AdmitReadOverlap
<1>2. op[c] \in OpState /\ Facts(c) /\ op[c].chapter \in Chapter
  BY <1>1, OpRow DEF Facts
<1>3. u \in 1..Len(ledger) /\ ledger[u].chapter = op[c].chapter
  BY <1>1, <1>2, LatestRows, Lengths DEF WritingInv
<1>4. Cleared(op[c].chapter, op[c].arch, op[c].contract)
  BY <1>1, <1>3 DEF Cleared
<1>5. /\ o \in OpState /\ o.pc = "admit" /\ o.chapter = op[c].chapter /\ o.prod = op[c].prod
      /\ o.arch = op[c].arch /\ o.contract = op[c].contract /\ o.task = op[c].task
      /\ o.pack = op[c].pack
  BY <1>2 DEF OpState
<1> HIDE DEF o
<1>6. op'[c] = o => Facts(c)'
  BY <1>1, <1>2, <1>4, <1>5, SameVars DEF Facts, Produced, Cleared, Bound
<1> QED BY <1>1, <1>5, <1>6, ReadStep

LEMMA AdmitStep ==
  ASSUME WritingInv, NEW c \in Client, AdmitWrite(c)
  PROVE  WritingInv'
<1> DEFINE o == op[c]
           x == [chapter |-> o.chapter, pack |-> o.pack, arch |-> o.arch,
                 contract |-> o.contract, prod |-> o.prod]
<1>1. /\ o.pc = "admit" /\ Len(admissions) < MaxAdmissions
      /\ admissions' = Append(admissions, x) /\ Finish(c)
      /\ UNCHANGED <<authority, packs, prods, ledger, audited, drafts>>
  BY DEF AdmitWrite
<1>2. o \in OpState /\ Facts(c) /\ o.chapter \in Chapter /\ o.pack # 0
      /\ o.contract <= contract[o.chapter]
      /\ Produced(o.prod, o.chapter, o.arch, o.contract) /\ Cleared(o.chapter, o.arch, o.contract)
  BY <1>1, OpRow DEF Facts
<1>3. /\ Len(prods) \in Nat /\ Len(prods) <= MaxProds /\ MaxProds \in Nat /\ Len(admissions) \in Nat
      /\ admissions \in Seq(Admission) /\ MaxPacks \in Nat /\ MaxAdmissions \in Nat
  BY WritingAssumption, Lengths DEF WritingInv, TablesInv, EvidenceInv
<1>4. x \in Admission
  <2>1. o.prod \in 1..MaxProds
    BY <1>2, <1>3 DEF Produced
  <2>2. o.pack \in 1..MaxPacks
    BY <1>2, <1>3 DEF OpState
  <2> QED BY <1>2, <2>1, <2>2 DEF Admission, OpState
<1>5. x.chapter = o.chapter /\ x.arch = o.arch /\ x.contract = o.contract /\ x.prod = o.prod
  OBVIOUS
<1> HIDE DEF x
<1>6. /\ admissions' \in Seq(Admission) /\ Len(admissions') = Len(admissions) + 1
      /\ \A i \in 1..Len(admissions) : admissions'[i] = admissions[i]
      /\ admissions'[Len(admissions) + 1] = x
  BY <1>1, <1>3, <1>4, AppendRow
<1>7. UNCHANGED <<arch, contract, byOwnerRun, listed, inSeries, tasks, units, abandoned>>
  BY <1>1 DEF authority, drafts
<1>8. TablesInv'
  BY <1>1, <1>3, <1>6, <1>7 DEF WritingInv, TablesInv, AuthorityInv, EvidenceInv, DraftsInv
<1>9. Grows
  BY <1>1, <1>3, <1>6, <1>7, Lengths DEF Grows, WritingInv
<1>10. AdmissionsInv'
  <2>1. ASSUME NEW i \in 1..Len(admissions)
        PROVE  LET y == admissions[i] IN
               /\ Produced(y.prod, y.chapter, y.arch, y.contract)'
               /\ Cleared(y.chapter, y.arch, y.contract)'
               /\ (y.contract <= contract[y.chapter])'
    BY <1>9, AdmissionsStay DEF WritingInv
  <2>2. /\ Produced(o.prod, o.chapter, o.arch, o.contract) /\ Cleared(o.chapter, o.arch, o.contract)
        /\ o.contract <= contract[o.chapter]
    BY <1>2
  <2>3. LET y == admissions'[Len(admissions) + 1] IN
        /\ y.prod \in 1..Len(prods) /\ prods[y.prod].chapter = y.chapter
        /\ prods[y.prod].status = "APPROVED" /\ Bound(prods[y.prod], y.arch, y.contract)
        /\ \E u \in 1..Len(ledger) : /\ ledger[u].chapter = y.chapter /\ ledger[u].status = "PASS"
                                     /\ Bound(ledger[u], y.arch, y.contract)
        /\ y.contract <= contract[y.chapter]
    BY <1>5, <1>6, <2>2 DEF Produced, Cleared
  <2>4. \A i \in 1..Len(admissions') : i \in 1..Len(admissions) \/ i = Len(admissions) + 1
    BY <1>3, <1>6
  <2> DEFINE Good(i) == LET y == admissions[i] IN
                        /\ Produced(y.prod, y.chapter, y.arch, y.contract)
                        /\ Cleared(y.chapter, y.arch, y.contract)
                        /\ y.contract <= contract[y.chapter]
  <2>5. ASSUME NEW i \in 1..Len(admissions) PROVE Good(i)'
    BY <2>1
  <2>6. ASSUME NEW i \in Nat, i = Len(admissions) + 1 PROVE Good(i)'
    <3>1. UNCHANGED <<prods, ledger, contract>>
      BY <1>1, <1>7
    <3> QED BY <2>3, <2>6, <3>1 DEF Produced, Cleared, Bound
  <2>7. \A i \in 1..Len(admissions') : Good(i)'
    BY <2>4, <2>5, <2>6
  <2> QED BY <2>7 DEF AdmissionsInv
<1>11. TasksInv'
  BY <1>7, <1>9, SameTasks DEF WritingInv
<1>12. OpsInv'
  BY <1>1, <1>9, FinishOps DEF WritingInv
<1> QED BY <1>8, <1>10, <1>11, <1>12 DEF WritingInv

LEMMA DraftBeginStep ==
  ASSUME WritingInv, NEW c \in Client, NEW k \in Chapter, NEW run \in BOOLEAN, DraftBegin(c, k, run)
  PROVE  WritingInv'
<1> DEFINE o == [NoOp EXCEPT !.pc = "draft_read", !.chapter = k]
<1>1. Goto(c, o) /\ UNCHANGED <<authority, evidence, drafts>>
  BY DEF DraftBegin, Begin
<1>2. o \in OpState /\ o.pc = "draft_read" /\ o.chapter = k /\ o.task = 0 /\ o.contract = 0
  BY IdleOK DEF OpState
<1>3. contract[k] \in Nat
  BY Lengths DEF WritingInv
<1> HIDE DEF o
<1>4. op'[c] = o => Facts(c)'
  BY <1>1, <1>2, <1>3, SameVars DEF Facts
<1> QED BY <1>1, <1>2, <1>4, ReadStep

LEMMA DraftReadStep ==
  ASSUME WritingInv, NEW c \in Client, DraftRead(c)
  PROVE  WritingInv'
<1> DEFINE k == op[c].chapter
           o == [op[c] EXCEPT !.pc = "draft_start", !.contract = contract[k]]
<1>1. op[c].pc = "draft_read" /\ Goto(c, o) /\ UNCHANGED <<authority, evidence, drafts>>
  BY DEF DraftRead
<1>2. op[c] \in OpState /\ Facts(c) /\ k \in Chapter
  BY <1>1, OpRow DEF Facts
<1>3. contract[k] \in Rev /\ contract[k] \in Nat
  BY <1>2, Lengths DEF WritingInv
<1>4. /\ o \in OpState /\ o.pc = "draft_start" /\ o.chapter = k /\ o.task = op[c].task
      /\ o.contract = contract[k]
  BY <1>2, <1>3 DEF OpState
<1> HIDE DEF o
<1>5. op'[c] = o => Facts(c)'
  BY <1>1, <1>2, <1>3, <1>4, SameVars DEF Facts
<1> QED BY <1>1, <1>4, <1>5, ReadStep

LEMMA AnswerStep ==
  ASSUME WritingInv, NEW c \in Client, Answer(c)
  PROVE  WritingInv'
<1>1. PICK pc \in {"check", "fail"} : Goto(c, [op[c] EXCEPT !.pc = pc])
  BY DEF Answer
<1> DEFINE o == [op[c] EXCEPT !.pc = pc]
<1>2. op[c].pc = "ask" /\ UNCHANGED <<authority, evidence, drafts>>
  BY DEF Answer
<1>3. op[c] \in OpState /\ Facts(c)
  BY OpRow
<1>4. /\ o \in OpState /\ o.pc = pc /\ o.chapter = op[c].chapter /\ o.task = op[c].task
      /\ o.contract = op[c].contract
  BY <1>3 DEF OpState
<1> HIDE DEF o
<1>5. op'[c] = o => Facts(c)'
  BY <1>2, <1>3, <1>4, SameVars DEF Facts
<1> QED BY <1>1, <1>2, <1>4, <1>5, ReadStep DEF o

\* The head read again makes what let the task in agree with what it was asked from.
LEMMA DraftCheckStep ==
  ASSUME WritingInv, NEW c \in Client, DraftCheck(c)
  PROVE  WritingInv'
<1> DEFINE k == op[c].chapter
           t == op[c].task
           current == StillCurrent(k, op[c].contract)
           o == [op[c] EXCEPT !.pc = IF current THEN "store" ELSE "fail"]
<1>1. op[c].pc = "check" /\ Goto(c, o) /\ UNCHANGED <<authority, evidence, drafts>>
  BY DEF DraftCheck
<1>2. /\ op[c] \in OpState /\ Facts(c) /\ k \in Chapter /\ t \in 1..Len(tasks)
      /\ tasks[t].chapter = k /\ tasks[t].input = op[c].contract
  BY <1>1, OpRow DEF Facts
<1>3. current => AsAdmitted(t)
  <2> SUFFICES ASSUME contract[k] = tasks[t].input PROVE AsAdmitted(t)
    BY <1>2 DEF StillCurrent
  <2>1. LetIn(t) /\ tasks[t] \in Task /\ tasks[t].input \in Nat
    BY <1>2, Lengths DEF WritingInv, TasksInv, Task
  <2>2. ASSUME tasks[t].lane = "admitted"
        PROVE  admissions[tasks[t].admission].contract = tasks[t].input
    <3>1. LET a == tasks[t].admission IN
          /\ a \in 1..Len(admissions) /\ admissions[a].chapter = k
          /\ tasks[t].input <= admissions[a].contract
      BY <1>2, <2>1, <2>2 DEF LetIn
    <3>2. LET a == tasks[t].admission IN
          admissions[a].contract \in Nat /\ admissions[a].contract <= contract[k]
      BY <3>1, Lengths DEF WritingInv, AdmissionsInv, Admission
    <3> QED BY <2>1, <3>1, <3>2
  <2>3. ASSUME tasks[t].lane = "auto"
        PROVE  <<k, tasks[t].input>> \in byOwnerRun
    <3>1. PICK r \in Rev : tasks[t].input <= r /\ r <= contract[k] /\ <<k, r>> \in byOwnerRun
      BY <1>2, <2>1, <2>3 DEF LetIn
    <3>2. r \in Nat
      BY Lengths DEF WritingInv
    <3>3. r = tasks[t].input
      BY <2>1, <3>1, <3>2
    <3> QED BY <3>1, <3>3
  <2> QED BY <1>2, <2>2, <2>3 DEF AsAdmitted
<1>4. /\ o \in OpState /\ o.pc \in {"store", "fail"} /\ (o.pc = "store" => AsAdmitted(t))
      /\ o.chapter = k /\ o.task = t /\ o.contract = op[c].contract
  BY <1>2, <1>3 DEF OpState
<1> HIDE DEF o
<1>5. op'[c] = o => Facts(c)'
  BY <1>1, <1>2, <1>4, SameVars DEF Facts, AsAdmitted
<1> QED BY <1>1, <1>4, <1>5, ReadStep

LEMMA DraftStartStep ==
  ASSUME WritingInv, NEW c \in Client, DraftStart(c)
  PROVE  WritingInv'
<1> DEFINE k == op[c].chapter
           n == Len(tasks) + 1
           a == CurrentAdmission(k)
           x == [chapter |-> k, input |-> op[c].contract, status |-> "RUNNING",
                 lane |-> IF ~inSeries THEN "standalone" ELSE IF Admitted(k) THEN "admitted" ELSE "auto",
                 admission |-> IF inSeries /\ Admitted(k) THEN a ELSE 0]
           o == [op[c] EXCEPT !.pc = "ask", !.task = n]
<1>1. /\ op[c].pc = "draft_start" /\ Len(tasks) < MaxTasks /\ GateOpen(k)
      /\ tasks' = Append(tasks, x) /\ Goto(c, o)
      /\ UNCHANGED <<authority, evidence, units, abandoned>>
  BY DEF DraftStart
<1>2. op[c] \in OpState /\ Facts(c) /\ k \in Chapter /\ op[c].contract <= contract[k]
  BY <1>1, OpRow DEF Facts
<1>3. /\ contract[k] \in Rev /\ contract[k] \in Nat /\ Len(tasks) \in Nat /\ MaxTasks \in Nat
      /\ Len(admissions) \in Nat /\ Len(admissions) <= MaxAdmissions /\ MaxAdmissions \in Nat
      /\ tasks \in Seq(Task)
  BY <1>2, Lengths, WritingAssumption DEF WritingInv, TablesInv, EvidenceInv, DraftsInv
<1>4. Admitted(k) => /\ a \in 1..Len(admissions) /\ admissions[a].chapter = k
                     /\ admissions[a].contract = contract[k]
  <2>1. a \in 0..Len(admissions) /\ (a # 0 => admissions[a].chapter = k)
    BY <1>2, LatestRows DEF WritingInv
  <2>2. Admitted(k) => a # 0 /\ admissions[a].contract = contract[k]
    BY DEF Admitted, Bound
  <2> QED BY <1>3, <2>1, <2>2
<1>5. inSeries /\ ~Admitted(k) => <<k, contract[k]>> \in byOwnerRun
  BY <1>1 DEF GateOpen, OwnerRunAccepted
<1>6. /\ x \in Task /\ x.chapter = k /\ x.input = op[c].contract
      /\ x.lane = "admitted" => inSeries /\ Admitted(k) /\ x.admission = a
      /\ x.lane = "auto" => inSeries /\ ~Admitted(k)
  <2>1. inSeries /\ Admitted(k) => a \in 0..MaxAdmissions
    BY <1>3, <1>4
  <2> HIDE DEF a
  <2>2. x.admission \in 0..MaxAdmissions
    BY <1>3, <2>1
  <2>3. x.lane \in Lane
    BY DEF Lane
  <2>4. x.input \in Rev /\ x.chapter \in Chapter /\ x.status \in {"RUNNING", "SUCCEEDED", "FAILED"}
    BY <1>2 DEF OpState
  <2>5. x \in Task
    BY <2>2, <2>3, <2>4 DEF Task
  <2> QED BY <2>5
<1> HIDE DEF x
<1>7. /\ tasks' \in Seq(Task) /\ Len(tasks') = n /\ tasks'[n] = x
      /\ \A t \in 1..Len(tasks) : tasks'[t] = tasks[t]
  BY <1>1, <1>3, <1>6, AppendRow
<1>8. UNCHANGED <<arch, contract, byOwnerRun, listed, inSeries, packs, prods, ledger, admissions, audited>>
  BY <1>1 DEF authority, evidence
<1>9. TablesInv'
  <2>1. units \subseteq 1..Len(tasks') /\ abandoned \subseteq 1..Len(tasks')
    BY <1>3, <1>7 DEF WritingInv, TablesInv, DraftsInv
  <2>2. Len(tasks') <= MaxTasks
    BY <1>1, <1>3, <1>7
  <2>3. AuthorityInv' /\ EvidenceInv'
    BY <1>8 DEF WritingInv, TablesInv, AuthorityInv, EvidenceInv
  <2> QED BY <1>1, <1>7, <2>1, <2>2, <2>3 DEF TablesInv, DraftsInv
<1>10. Grows
  BY <1>3, <1>7, <1>8, Lengths DEF Grows, WritingInv
<1>11. AdmissionsInv'
  BY <1>8, <1>10, SameAdmissions DEF WritingInv
<1>12. TasksInv'
  <2>1. \A t \in 1..Len(tasks) : LetIn(t)' /\ (AsAdmitted(t) => AsAdmitted(t)')
    BY <1>10, TasksStay DEF WritingInv
  <2>2. \A t \in units' : AsAdmitted(t)'
    BY <1>1, <2>1 DEF WritingInv, TasksInv, TablesInv, DraftsInv
  <2>3. LET y == tasks'[n] IN
        /\ y.lane = "admitted" => /\ y.admission \in 1..Len(admissions')
                                  /\ admissions'[y.admission].chapter = y.chapter
                                  /\ y.input <= admissions'[y.admission].contract
        /\ y.lane = "auto" => \E r \in Rev : y.input <= r /\ r <= contract'[y.chapter]
                                             /\ <<y.chapter, r>> \in byOwnerRun'
    BY <1>2, <1>3, <1>4, <1>5, <1>6, <1>7, <1>8
  <2>4. ASSUME NEW t \in 1..Len(tasks') PROVE LetIn(t)'
    <3>1. CASE t = n
      BY <2>3, <3>1 DEF LetIn
    <3>2. CASE t # n
      BY <1>3, <1>7, <2>1, <3>2
    <3> QED BY <3>1, <3>2
  <2> QED BY <2>2, <2>4 DEF TasksInv
<1>13. /\ o \in OpState /\ o.pc = "ask" /\ o.chapter = k /\ o.task = n /\ o.contract = op[c].contract
  <2>1. n \in 0..MaxTasks
    BY <1>1, <1>3
  <2> HIDE DEF n
  <2> QED BY <1>2, <2>1 DEF OpState
<1> HIDE DEF o
<1>14. op'[c] = o => Facts(c)'
  BY <1>2, <1>3, <1>6, <1>7, <1>8, <1>13 DEF Facts
<1>15. OpsInv'
  BY <1>1, <1>10, <1>13, <1>14, GotoOps DEF WritingInv
<1> QED BY <1>9, <1>11, <1>12, <1>15 DEF WritingInv

\* A call records how its task ended.
LEMMA TaskEnds ==
  ASSUME WritingInv, NEW c \in Client, NEW status \in {"SUCCEEDED", "FAILED"},
         op[c].pc \in {"store", "fail"}, tasks' = [tasks EXCEPT ![op[c].task].status = status],
         units' = units \/ (units' = units \union {op[c].task} /\ op[c].pc = "store"),
         Finish(c), UNCHANGED <<authority, evidence, abandoned>>
  PROVE  WritingInv'
<1> DEFINE i == op[c].task
<1>1. /\ i \in 1..Len(tasks) /\ (op[c].pc = "store" => AsAdmitted(i))
      /\ tasks \in Seq(Task) /\ Len(tasks) \in Nat /\ Len(tasks) <= MaxTasks
      /\ \A t \in 1..Len(tasks) : tasks[t] \in Task
  BY OpRow, Lengths DEF Facts, WritingInv, TablesInv, DraftsInv
<1> HIDE DEF i
<1>2. /\ Len(tasks') = Len(tasks)
      /\ \A t \in 1..Len(tasks) :
           tasks'[t] = IF t = i THEN [tasks[t] EXCEPT !.status = status] ELSE tasks[t]
  BY <1>1 DEF i
<1>3. tasks' \in Seq(Task)
  <2>1. tasks' = [tasks EXCEPT ![i] = [tasks[i] EXCEPT !.status = status]]
    BY DEF i
  <2>2. [tasks[i] EXCEPT !.status = status] \in Task
    BY <1>1 DEF Task
  <2> DEFINE x == [tasks[i] EXCEPT !.status = status]
  <2> HIDE DEF x
  <2>3. [tasks EXCEPT ![i] = x] \in Seq(Task)
    BY <1>1, <2>2, ChangeRow DEF x
  <2> QED BY <2>1, <2>3 DEF x
<1>4. \A t \in 1..Len(tasks) : /\ tasks'[t].chapter = tasks[t].chapter
                               /\ tasks'[t].input = tasks[t].input
                               /\ tasks'[t].lane = tasks[t].lane
                               /\ tasks'[t].admission = tasks[t].admission
  BY <1>1, <1>2 DEF Task
<1>5. UNCHANGED <<arch, contract, byOwnerRun, listed, inSeries, packs, prods, ledger, admissions,
                  audited, abandoned>>
  BY DEF authority, evidence
<1>6. units' \subseteq 1..Len(tasks) /\ \A t \in units' : t \in units \/ AsAdmitted(t)
  BY <1>1 DEF WritingInv, TablesInv, DraftsInv, i
<1>7. TablesInv'
  <2>1. AuthorityInv' /\ EvidenceInv'
    BY <1>5 DEF WritingInv, TablesInv, AuthorityInv, EvidenceInv
  <2> QED BY <1>1, <1>2, <1>3, <1>5, <1>6, <2>1 DEF WritingInv, TablesInv, DraftsInv
<1>8. Grows
  BY <1>1, <1>2, <1>4, <1>5, Lengths DEF Grows, WritingInv
<1>9. AdmissionsInv'
  BY <1>5, <1>8, SameAdmissions DEF WritingInv
<1>10. TasksInv'
  <2>1. \A t \in 1..Len(tasks) : LetIn(t)' /\ (AsAdmitted(t) => AsAdmitted(t)')
    BY <1>8, TasksStay DEF WritingInv
  <2>2. \A t \in units' : t \in 1..Len(tasks) /\ AsAdmitted(t)
    BY <1>6 DEF WritingInv, TasksInv
  <2> QED BY <1>2, <2>1, <2>2 DEF TasksInv
<1>11. OpsInv'
  BY <1>8, FinishOps DEF WritingInv
<1> QED BY <1>7, <1>9, <1>10, <1>11 DEF WritingInv

\* Calls end where they are, all or one, and leave tasks to nobody.
LEMMA Abandon ==
  ASSUME WritingInv, NEW T \in SUBSET (1..Len(tasks)), abandoned' = abandoned \union T,
         UNCHANGED <<authority, evidence, tasks, units>>
  PROVE  TablesInv' /\ AdmissionsInv' /\ TasksInv' /\ Grows
<1>1. UNCHANGED <<arch, contract, byOwnerRun, listed, inSeries, packs, prods, ledger, admissions,
                  audited, tasks, units>>
  BY DEF authority, evidence
<1>2. TablesInv'
  BY <1>1 DEF WritingInv, TablesInv, AuthorityInv, EvidenceInv, DraftsInv
<1>3. Grows
  BY <1>1, Lengths DEF Grows, WritingInv
<1> QED BY <1>1, <1>2, <1>3, SameAdmissions, SameTasks DEF WritingInv

LEMMA AbortStep ==
  ASSUME WritingInv, NEW c \in Client, Abort(c)
  PROVE  WritingInv'
<1>1. CASE op[c].pc \in {"check", "store"}
  <2> DEFINE o == [op[c] EXCEPT !.pc = "fail"]
  <2>1. Goto(c, o) /\ UNCHANGED <<authority, evidence, drafts>>
    BY <1>1 DEF Abort, drafts
  <2>2. op[c] \in OpState /\ Facts(c)
    BY OpRow
  <2>3. /\ o \in OpState /\ o.pc = "fail" /\ o.chapter = op[c].chapter /\ o.task = op[c].task
        /\ o.contract = op[c].contract
    BY <2>2 DEF OpState
  <2> HIDE DEF o
  <2>4. op'[c] = o => Facts(c)'
    BY <1>1, <2>1, <2>2, <2>3, SameVars DEF Facts
  <2> QED BY <2>1, <2>3, <2>4, ReadStep
<1>2. CASE op[c].pc \notin {"check", "store"}
  <2>1. /\ Finish(c) /\ abandoned' = abandoned \union ({op[c].task} \ {0})
        /\ UNCHANGED <<authority, evidence, tasks, units>>
    BY <1>2 DEF Abort
  <2>2. {op[c].task} \ {0} \in SUBSET (1..Len(tasks))
    BY OpRow DEF Facts
  <2>3. TablesInv' /\ AdmissionsInv' /\ TasksInv' /\ Grows
    BY <2>1, <2>2, Abandon
  <2> QED BY <2>1, <2>3, FinishOps DEF WritingInv
<1> QED BY <1>1, <1>2

LEMMA CrashStep ==
  ASSUME WritingInv, Crash
  PROVE  WritingInv'
<1>1. {op[c].task : c \in Client} \ {0} \in SUBSET (1..Len(tasks))
  BY OpRow DEF Facts
<1>2. TablesInv' /\ AdmissionsInv' /\ TasksInv'
  BY <1>1, Abandon DEF Crash
<1>3. OpsInv'
  BY IdleOK DEF Crash, OpsInv, Facts
<1> QED BY <1>2, <1>3 DEF WritingInv

LEMMA ServeStep ==
  ASSUME WritingInv, NEW c \in Client, Serve(c)
  PROVE  WritingInv'
<1>1. CASE CreateProdWrite(c) \/ ApproveProdWrite(c) \/ OverlapWrite(c)
  BY <1>1, CreateProdStep, ApproveProdStep, OverlapStep
<1>2. CASE AdmitReadProd(c) \/ AdmitReadOverlap(c) \/ AdmitWrite(c)
  BY <1>2, AdmitReadProdStep, AdmitReadOverlapStep, AdmitStep
<1>3. CASE DraftRead(c) \/ DraftStart(c) \/ Answer(c) \/ DraftCheck(c)
  BY <1>3, DraftReadStep, DraftStartStep, AnswerStep, DraftCheckStep
<1>4. CASE DraftStore(c)
  BY <1>4, TaskEnds DEF DraftStore
<1>5. CASE DraftFail(c)
  BY <1>5, TaskEnds DEF DraftFail
<1>6. CASE Abort(c)
  BY <1>6, AbortStep
<1> QED BY <1>1, <1>2, <1>3, <1>4, <1>5, <1>6 DEF Serve

LEMMA InitInv == Init => WritingInv
<1> SUFFICES ASSUME Init PROVE WritingInv
  OBVIOUS
<1>1. AuthorityInv
  <2>1. inSeries \in BOOLEAN
    BY Zenon DEF Init
  <2> QED BY <2>1, WritingAssumption DEF Init, AuthorityInv, Rev
<1>2. EvidenceInv
  <2>1. audited \in BOOLEAN
    BY DEF Init
  <2> QED BY <2>1, WritingAssumption DEF Init, EvidenceInv
<1>3. DraftsInv /\ AdmissionsInv /\ TasksInv
  BY WritingAssumption DEF Init, DraftsInv, AdmissionsInv, TasksInv
<1>4. OpsInv
  BY IdleOK DEF Init, OpsInv, Facts
<1> QED BY <1>1, <1>2, <1>3, <1>4 DEF WritingInv, TablesInv

LEMMA NextInv == WritingInv /\ [Next]_vars => WritingInv'
<1> SUFFICES ASSUME WritingInv, [Next]_vars PROVE WritingInv'
  OBVIOUS
<1>1. CASE UNCHANGED vars
  <2>1. UNCHANGED <<authority, evidence, drafts, op>>
    BY <1>1 DEF vars
  <2>2. TablesInv' /\ Grows /\ UNCHANGED <<admissions, drafts>>
    BY <2>1, SameTables DEF WritingInv, evidence
  <2> QED BY <2>1, <2>2, EvidenceStep
<1>2. ASSUME NEW c \in Desk, GateRequest(c) PROVE WritingInv'
  BY <1>2, GateRequestStep DEF Client
<1>3. ASSUME NEW c \in Pen, NEW k \in Chapter, NEW run \in BOOLEAN, DraftBegin(c, k, run) PROVE WritingInv'
  BY <1>3, DraftBeginStep DEF Client
<1>4. ASSUME NEW c \in Client, Serve(c) PROVE WritingInv'
  BY <1>4, ServeStep
<1>5. ASSUME NEW L \in SUBSET Chapter, AcceptArchitecture(L) PROVE WritingInv'
  BY <1>5, AcceptArchitectureStep
<1>6. ASSUME NEW k \in Chapter, NEW run \in BOOLEAN, AcceptContract(k, run) PROVE WritingInv'
  BY <1>6, AcceptContractStep
<1>7. CASE BindSeries \/ CreateDefinition \/ (\E d \in DOMAIN packs : ApproveDefinition(d))
  BY <1>7, BindSeriesStep, DefinitionStep
<1>8. ASSUME NEW s \in Result, RecordAudit(s) PROVE WritingInv'
  BY <1>8, AuditStep
<1>9. CASE Crash
  BY <1>9, CrashStep
<1> QED
  BY <1>1, <1>2, <1>3, <1>4, <1>5, <1>6, <1>7, <1>8, <1>9 DEF Next

LEMMA WritingInvariant == Spec => []WritingInv
BY InitInv, NextInv, PTL DEF Spec

(***************************************************************************)
(* What follows.                                                           *)
(***************************************************************************)
LEMMA InvType == WritingInv => TypeOK
<1> SUFFICES ASSUME WritingInv PROVE TypeOK
  OBVIOUS
<1>1. DOMAIN tasks = 1..Len(tasks)
  BY Lengths DEF WritingInv
<1> QED BY <1>1 DEF WritingInv, TablesInv, AuthorityInv, EvidenceInv, DraftsInv, OpsInv, TypeOK

LEMMA InvWritten == WritingInv => WrittenAsAdmitted
<1> SUFFICES ASSUME WritingInv, NEW t \in units
             PROVE  LET x == tasks[t]  k == tasks[t].chapter IN
                    /\ x.lane = "admitted" =>
                         LET a == admissions[x.admission]  p == prods[a.prod] IN
                         /\ a.chapter = k /\ a.contract = x.input
                         /\ p.chapter = k /\ p.status = "APPROVED" /\ Bound(p, a.arch, a.contract)
                         /\ \E u \in DOMAIN ledger : /\ ledger[u].chapter = k /\ ledger[u].status = "PASS"
                                                     /\ Bound(ledger[u], a.arch, a.contract)
                    /\ x.lane = "auto" => <<k, x.input>> \in byOwnerRun
  BY DEF WrittenAsAdmitted
<1> DEFINE x == tasks[t]
<1>1. LetIn(t) /\ AsAdmitted(t) /\ DOMAIN ledger = 1..Len(ledger)
  BY Lengths DEF WritingInv, TasksInv, TablesInv, DraftsInv
<1>2. ASSUME x.lane = "admitted"
      PROVE  LET a == admissions[x.admission] IN
             /\ a.chapter = x.chapter /\ a.contract = x.input
             /\ Produced(a.prod, x.chapter, a.arch, a.contract)
             /\ Cleared(x.chapter, a.arch, a.contract)
  BY <1>1, <1>2 DEF LetIn, AsAdmitted, WritingInv, AdmissionsInv
<1> QED BY <1>1, <1>2 DEF AsAdmitted, Produced, Cleared

LEMMA InvEvidence == WritingInv => AdmittedOnEvidence
<1> SUFFICES ASSUME WritingInv, NEW k \in Chapter
             PROVE  /\ WritingAllowed(k) => Admitted(k)
                    /\ Admitted(k) =>
                         /\ Bound(prods[CurrentProd(k)], arch, contract[k])
                         /\ \E u \in DOMAIN ledger : /\ ledger[u].chapter = k /\ ledger[u].status = "PASS"
                                                     /\ Bound(ledger[u], arch, contract[k])
  BY DEF AdmittedOnEvidence
<1>1. WritingAllowed(k) => Admitted(k)
  BY DEF WritingAllowed, Admitted
<1>2. ASSUME Admitted(k)
      PROVE  /\ Bound(prods[CurrentProd(k)], arch, contract[k])
             /\ \E u \in DOMAIN ledger : /\ ledger[u].chapter = k /\ ledger[u].status = "PASS"
                                         /\ Bound(ledger[u], arch, contract[k])
  <2> DEFINE a == CurrentAdmission(k)
  <2>1. a \in 1..Len(admissions) /\ admissions[a].chapter = k
    BY <1>2, LatestRows, Lengths DEF WritingInv, Admitted
  <2>2. /\ admissions[a].prod = CurrentProd(k) /\ admissions[a].arch = arch
        /\ admissions[a].contract = contract[k]
    BY <1>2 DEF Admitted, Bound
  <2> HIDE DEF a
  <2>3. Produced(admissions[a].prod, k, arch, contract[k]) /\ Cleared(k, arch, contract[k])
    BY <2>1, <2>2 DEF WritingInv, AdmissionsInv
  <2>4. DOMAIN ledger = 1..Len(ledger)
    BY Lengths DEF WritingInv
  <2> QED BY <2>2, <2>3, <2>4 DEF Produced, Cleared
<1> QED BY <1>1, <1>2

\* Heads, rows and calls have their ranges whatever races: a call writes about rows that exist.
THEOREM WritingTypeCorrect == Spec => []TypeOK
BY WritingInvariant, InvType, PTL

\* A section of a series book is written from the contract its task was let in for, by an admission
\* made on an approved production contract and passing overlap evidence for that authority, or by
\* a run the owner authorized (series_production.py admit_chapter, the trigger of migration 0019,
\* drafting.py generate_section_draft).
THEOREM SectionsAreWrittenAsAdmitted == Spec => []WrittenAsAdmitted
BY WritingInvariant, InvWritten, PTL

\* What the trigger and admission_status do not look at holds all the same when they let a task in
\* (series_production.py admission_status, the trigger of migration 0019).
THEOREM GatesRestOnEvidence == Spec => []AdmittedOnEvidence
BY WritingInvariant, InvEvidence, PTL
================================================================================
