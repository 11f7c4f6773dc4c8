------------------------------- MODULE Writing -------------------------------
(***************************************************************************)
(* Permission to write and the writing of sections: the gates of           *)
(* SeriesProductionService (series_production.py), the trigger             *)
(* require_current_writing_admission on bounded_tasks (migrations 0016 and *)
(* 0019) and DraftingService (drafting.py).                                *)
(*                                                                         *)
(* The owner approves a Definition Pack and, for a chapter, a production   *)
(* contract, has the overlap checked, and admits the chapter.  Every one   *)
(* of these calls reads the authority heads and rows it depends on one     *)
(* statement at a time and inserts its own row afterwards.  A draft is     *)
(* asked of a model between two transactions.                              *)
(*                                                                         *)
(* Acceptances are those of the authority engine (module Authority): each  *)
(* is a fresh revision and the head never goes back, so a document's head  *)
(* is the number of its acceptances.                                       *)
(***************************************************************************)
EXTENDS Integers, Sequences, FiniteSets, FiniteSetsExt

CONSTANTS Chapter,
          Desk,          \* callers of the gates
          Pen,           \* callers of the drafting endpoint, the window and Auto Book
          HalfBook,      \* manuscript units that make 40% of the planned length
          MaxAccepted, MaxPacks, MaxProds, MaxChecks, MaxAdmissions, MaxTasks  \* bounds

ASSUME WritingAssumption ==
  /\ {HalfBook, MaxProds, MaxChecks, MaxAdmissions, MaxTasks} \subseteq Nat
  /\ {MaxAccepted, MaxPacks} \subseteq Nat \ {0}

VARIABLES
  arch,         \* head of the Architecture, 0 before the first acceptance
  contract,     \* head of each Chapter Contract
  byOwnerRun,   \* <<chapter, revision>> accepted under an Auto Book authorization
  listed,       \* chapters that are not SUPERSEDED
  inSeries,     \* book_context_settings.series_profile_id is set
  packs,        \* status of the definition_packs, in the order of their revision
  prods,        \* chapter_production_contracts, in the order of created_at
  ledger,       \* book_uniqueness_ledger
  admissions,   \* chapter_admissions
  audited,      \* the last MID_BOOK production checkpoint exists and is not BLOCKING
  tasks,        \* bounded_tasks of type SECTION_DRAFT, and by what each was let in
  units,        \* the tasks whose manuscript unit is stored
  op,           \* the call each client has in flight
  abandoned     \* tasks whose call ended without recording it

authority == <<arch, contract, byOwnerRun, listed, inSeries>>
evidence  == <<packs, prods, ledger, admissions, audited>>
drafts    == <<tasks, units, abandoned>>
vars      == <<authority, evidence, drafts, op>>

Client == Desk \union Pen
Rev    == 0..MaxAccepted
Result == {"PASS", "BLOCKING"}     \* ATTENTION counts as BLOCKING in the ledger, as PASS in an audit
Lane   == {"standalone", "admitted", "auto"}

Prod      == [chapter : Chapter, arch : Rev, contract : Rev, status : {"DRAFT", "APPROVED"}]
Overlap   == [chapter : Chapter, arch : Rev, contract : Rev, status : Result]
Admission == [chapter : Chapter, pack : 1..MaxPacks, arch : Rev, contract : Rev, prod : 1..MaxProds]
Task      == [chapter : Chapter, input : Rev, status : {"RUNNING", "SUCCEEDED", "FAILED"},
              lane : Lane, admission : 0..MaxAdmissions]

NoOp == [pc |-> "idle", chapter |-> "none", status |-> "PASS",
         pack |-> 0, arch |-> 0, contract |-> 0, prod |-> 0, task |-> 0]

OpState ==
  [pc : {"idle", "create", "approve", "overlap", "admit_prod", "admit_overlap", "admit",
         "draft_read", "draft_start", "ask", "check", "store", "fail"},
   chapter : Chapter \union {"none"}, status : Result,
   pack : 0..MaxPacks, arch : Rev, contract : Rev, prod : 0..MaxProds, task : 0..MaxTasks]

\* The owner has approved the Architecture and the Chapter Contracts once.
Init ==
  /\ arch = 1 /\ contract = [k \in Chapter |-> 1]
  /\ byOwnerRun = {} /\ listed = Chapter /\ inSeries \in BOOLEAN
  /\ packs = <<"APPROVED">> /\ prods = <<>> /\ ledger = <<>> /\ admissions = <<>> /\ audited = FALSE
  /\ tasks = <<>> /\ units = {} /\ abandoned = {}
  /\ op = [c \in Client |-> NoOp]

Goto(c, o) == op' = [op EXCEPT ![c] = o]
Finish(c)  == Goto(c, NoOp)

(***************************************************************************)
(* What the other components do.                                           *)
(***************************************************************************)
MayAccept == arch < MaxAccepted /\ \A k \in Chapter : arch + contract[k] < MaxAccepted

\* approve_architecture: the chapters it lists are the current ones.
AcceptArchitecture(L) ==
  /\ MayAccept
  /\ arch' = arch + 1 /\ listed' = L
  /\ UNCHANGED <<contract, byOwnerRun, inSeries, evidence, drafts, op>>

\* approve_chapter_contract by the owner's hand, or by an Auto Book run the owner authorized.
AcceptContract(k, run) ==
  /\ k \in listed /\ MayAccept
  /\ contract' = [contract EXCEPT ![k] = @ + 1]
  /\ byOwnerRun' = IF run THEN byOwnerRun \union {<<k, contract[k] + 1>>} ELSE byOwnerRun
  /\ UNCHANGED <<arch, listed, inSeries, evidence, drafts, op>>

\* save_context puts the book into a series or takes it out.
BindSeries ==
  /\ inSeries' = ~inSeries
  /\ UNCHANGED <<arch, contract, byOwnerRun, listed, evidence, drafts, op>>

(***************************************************************************)
(* Which row counts.                                                       *)
(***************************************************************************)
\* ORDER BY created_at DESC LIMIT 1 over a set of rows; 0 if there is none.  A row is stamped in
\* the step that inserts it.
LatestOf(S) == IF S = {} THEN 0 ELSE Max(S)

CurrentPack      == LatestOf({d \in DOMAIN packs : packs[d] = "APPROVED"})
CurrentProd(k)   == LatestOf({p \in DOMAIN prods : prods[p].chapter = k /\ prods[p].status = "APPROVED"})
CurrentOverlap(k)   == LatestOf({u \in DOMAIN ledger : ledger[u].chapter = k})
CurrentAdmission(k) == LatestOf({a \in DOMAIN admissions : admissions[a].chapter = k})

Bound(row, a, r) == row.arch = a /\ row.contract = r

(***************************************************************************)
(* Definition Packs.  Both calls change one row by a statement that checks *)
(* what it needs (a unique revision, WHERE status='DRAFT'); contents that  *)
(* do not pass their quality gates are drafts that are never approved.     *)
(***************************************************************************)
CreateDefinition ==
  /\ Len(packs) < MaxPacks
  /\ packs' = Append(packs, "DRAFT")
  /\ UNCHANGED <<authority, prods, ledger, admissions, audited, drafts, op>>

ApproveDefinition(d) ==
  /\ packs[d] = "DRAFT"
  /\ packs' = [packs EXCEPT ![d] = "APPROVED"]
  /\ UNCHANGED <<authority, prods, ledger, admissions, audited, drafts, op>>

Begin(c, o) ==
  /\ op[c].pc = "idle"
  /\ Goto(c, o)
  /\ UNCHANGED <<authority, evidence, drafts>>

(***************************************************************************)
(* _heads reads the Architecture's head and then the chapter's.  An        *)
(* acceptance between the two leaves the old Architecture with the new     *)
(* contract, a pair that is bound to nothing: heads never go back, so no   *)
(* gate ever finds it current.  The model reads both in one step.          *)
(***************************************************************************)
BeginWithHeads(c, pc, k, s, d, p) ==
  /\ arch > 0 /\ k \in listed /\ contract[k] > 0
  /\ Begin(c, [NoOp EXCEPT !.pc = pc, !.chapter = k, !.arch = arch, !.contract = contract[k],
                           !.status = s, !.pack = d, !.prod = p])

(***************************************************************************)
(* Chapter production contracts and overlap evidence.                      *)
(***************************************************************************)
CreateProdBegin(c, k) == BeginWithHeads(c, "create", k, "PASS", 0, 0)

CreateProdWrite(c) ==
  LET o == op[c] IN
  /\ o.pc = "create" /\ Len(prods) < MaxProds
  /\ prods' = Append(prods, [chapter |-> o.chapter, arch |-> o.arch, contract |-> o.contract,
                             status |-> "DRAFT"])
  /\ Finish(c)
  /\ UNCHANGED <<authority, packs, ledger, admissions, audited, drafts>>

ApproveProdBegin(c, p) ==
  /\ prods[p].status = "DRAFT"
  /\ BeginWithHeads(c, "approve", prods[p].chapter, "PASS", 0, p)

ApproveProdWrite(c) ==
  LET o == op[c] IN
  /\ o.pc = "approve"
  /\ Bound(prods[o.prod], o.arch, o.contract)
  /\ prods' = [prods EXCEPT ![o.prod].status = "APPROVED"]
  /\ Finish(c)
  /\ UNCHANGED <<authority, packs, ledger, admissions, audited, drafts>>

OverlapBegin(c, k, s) == BeginWithHeads(c, "overlap", k, s, 0, 0)

OverlapWrite(c) ==
  LET o == op[c] IN
  /\ o.pc = "overlap" /\ Len(ledger) < MaxChecks
  /\ ledger' = Append(ledger, [chapter |-> o.chapter, arch |-> o.arch, contract |-> o.contract,
                               status |-> o.status])
  /\ Finish(c)
  /\ UNCHANGED <<authority, packs, prods, admissions, audited, drafts>>

(***************************************************************************)
(* admit_chapter.                                                          *)
(***************************************************************************)
AdmitBegin(c, k) ==
  /\ CurrentPack # 0
  /\ BeginWithHeads(c, "admit_prod", k, "PASS", CurrentPack, 0)

\* Variant: an admission without a production contract.
AnyProd(o, p) == TRUE

ProdFits(o, p) == p # 0 /\ Bound(prods[p], o.arch, o.contract)

AdmitReadProd(c) ==
  LET p == CurrentProd(op[c].chapter) IN
  /\ op[c].pc = "admit_prod" /\ ProdFits(op[c], p)
  /\ Goto(c, [op[c] EXCEPT !.pc = "admit_overlap", !.prod = p])
  /\ UNCHANGED <<authority, evidence, drafts>>

AdmitReadOverlap(c) ==
  LET u == CurrentOverlap(op[c].chapter) IN
  /\ op[c].pc = "admit_overlap"
  /\ u # 0
  /\ ledger[u].status = "PASS" /\ Bound(ledger[u], op[c].arch, op[c].contract)
  /\ Goto(c, [op[c] EXCEPT !.pc = "admit"])
  /\ UNCHANGED <<authority, evidence, drafts>>

AdmitWrite(c) ==
  LET o == op[c] IN
  /\ o.pc = "admit" /\ Len(admissions) < MaxAdmissions
  /\ admissions' = Append(admissions, [chapter |-> o.chapter, pack |-> o.pack, arch |-> o.arch,
                                       contract |-> o.contract, prod |-> o.prod])
  /\ Finish(c)
  /\ UNCHANGED <<authority, packs, prods, ledger, audited, drafts>>

\* record_checkpoint of kind MID_BOOK.
RecordAudit(s) ==
  /\ audited' = (s # "BLOCKING")
  /\ UNCHANGED <<authority, packs, prods, ledger, admissions, drafts, op>>

(***************************************************************************)
(* The two gates.  admission_status answers the window and Auto Book, the  *)
(* trigger decides the INSERT of a task.                                   *)
(***************************************************************************)
MidBookBlocks ==
  /\ Cardinality(units) >= HalfBook
  /\ ~audited

WritingAllowed(k) ==
  LET a == CurrentAdmission(k)  u == CurrentOverlap(k)  p == CurrentProd(k) IN
  /\ CurrentPack # 0 /\ arch > 0 /\ k \in listed /\ contract[k] > 0
  /\ p # 0
  /\ u # 0 /\ ledger[u].status = "PASS" /\ Bound(ledger[u], arch, contract[k])
  /\ a # 0 /\ Bound(admissions[a], arch, contract[k])
  /\ admissions[a].pack = CurrentPack /\ admissions[a].prod = p
  /\ ~MidBookBlocks

\* Variant: the trigger takes the oldest admission (ORDER BY without DESC).
AdmittedByFirst(k) ==
  LET A == {x \in DOMAIN admissions : admissions[x].chapter = k}  a == Min(A) IN
  /\ A # {} /\ Bound(admissions[a], arch, contract[k])
  /\ admissions[a].pack = CurrentPack /\ admissions[a].prod = CurrentProd(k)

Admitted(k) ==
  LET a == CurrentAdmission(k) IN
  /\ a # 0 /\ Bound(admissions[a], arch, contract[k])
  /\ admissions[a].pack = CurrentPack /\ admissions[a].prod = CurrentProd(k)

OwnerRunAccepted(k) == <<k, contract[k]>> \in byOwnerRun

GateOpen(k) == ~inSeries \/ Admitted(k) \/ OwnerRunAccepted(k)

(***************************************************************************)
(* generate_section_draft.                                                 *)
(***************************************************************************)
\* An Auto Book run asks admission_status first, for a book in a series.
DraftBegin(c, k, run) ==
  /\ run /\ inSeries => WritingAllowed(k)
  /\ Begin(c, [NoOp EXCEPT !.pc = "draft_read", !.chapter = k])

DraftRead(c) ==
  LET k == op[c].chapter IN
  /\ op[c].pc = "draft_read" /\ k \in listed /\ contract[k] > 0
  /\ Goto(c, [op[c] EXCEPT !.pc = "draft_start", !.contract = contract[k]])
  /\ UNCHANGED <<authority, evidence, drafts>>

\* The INSERT that the trigger guards, and that of the model run.
DraftStart(c) ==
  LET o == op[c]  k == op[c].chapter IN
  /\ o.pc = "draft_start" /\ Len(tasks) < MaxTasks
  /\ GateOpen(k)
  /\ tasks' = Append(tasks,
       [chapter |-> k, input |-> o.contract, status |-> "RUNNING",
        lane |-> IF ~inSeries THEN "standalone" ELSE IF Admitted(k) THEN "admitted" ELSE "auto",
        admission |-> IF inSeries /\ Admitted(k) THEN CurrentAdmission(k) ELSE 0])
  /\ Goto(c, [o EXCEPT !.pc = "ask", !.task = Len(tasks) + 1])
  /\ UNCHANGED <<authority, evidence, units, abandoned>>

\* The provider answers, or refuses, fails, times out, or sends what the schema rejects.
Answer(c) ==
  /\ op[c].pc = "ask"
  /\ \E pc \in {"check", "fail"} : Goto(c, [op[c] EXCEPT !.pc = pc])
  /\ UNCHANGED <<authority, evidence, drafts>>

\* Variant: the head is not read again.
Unchecked(k, r) == TRUE

StillCurrent(k, r) == contract[k] = r

\* Variant: a changed head is raised outside the try, so nothing records the failure.
DraftCheckRaises(c) ==
  LET o == op[c] IN
  /\ o.pc = "check"
  /\ IF StillCurrent(o.chapter, o.contract) THEN Goto(c, [o EXCEPT !.pc = "store"]) ELSE Finish(c)
  /\ UNCHANGED <<authority, evidence, drafts>>

DraftCheck(c) ==
  LET o == op[c] IN
  /\ o.pc = "check"
  /\ Goto(c, [o EXCEPT !.pc = IF StillCurrent(o.chapter, o.contract) THEN "store" ELSE "fail"])
  /\ UNCHANGED <<authority, evidence, drafts>>

DraftStore(c) ==
  /\ op[c].pc = "store"
  /\ tasks' = [tasks EXCEPT ![op[c].task].status = "SUCCEEDED"]
  /\ units' = units \union {op[c].task}
  /\ Finish(c)
  /\ UNCHANGED <<authority, evidence, abandoned>>

DraftFail(c) ==
  /\ op[c].pc = "fail"
  /\ tasks' = [tasks EXCEPT ![op[c].task].status = "FAILED"]
  /\ Finish(c)
  /\ UNCHANGED <<authority, evidence, units, abandoned>>

\* A call that raises ends where it is; a draft past its INSERT goes through _persist_failure,
\* which swallows an error of its own.
Abort(c) ==
  /\ op[c].pc # "idle"
  /\ IF op[c].pc \in {"check", "store"}
     THEN Goto(c, [op[c] EXCEPT !.pc = "fail"]) /\ UNCHANGED abandoned
     ELSE Finish(c) /\ abandoned' = abandoned \union ({op[c].task} \ {0})
  /\ op[c].pc # "ask"
  /\ UNCHANGED <<authority, evidence, tasks, units>>

Crash ==
  /\ \E c \in Client : op[c].pc # "idle"
  /\ abandoned' = abandoned \union ({op[c].task : c \in Client} \ {0})
  /\ op' = [c \in Client |-> NoOp]
  /\ UNCHANGED <<authority, evidence, tasks, units>>

Serve(c) ==
  \/ CreateProdWrite(c) \/ ApproveProdWrite(c) \/ OverlapWrite(c)
  \/ AdmitReadProd(c) \/ AdmitReadOverlap(c) \/ AdmitWrite(c)
  \/ DraftRead(c) \/ DraftStart(c) \/ Answer(c) \/ DraftCheck(c) \/ DraftStore(c) \/ DraftFail(c)
  \/ Abort(c)

GateRequest(c) ==
  \/ \E k \in Chapter :
       \/ CreateProdBegin(c, k) \/ AdmitBegin(c, k)
       \/ \E s \in Result : OverlapBegin(c, k, s)
  \/ \E p \in DOMAIN prods : ApproveProdBegin(c, p)

Next ==
  \/ \E c \in Desk : GateRequest(c)
  \/ \E c \in Pen, k \in Chapter, run \in BOOLEAN : DraftBegin(c, k, run)
  \/ \E c \in Client : Serve(c)
  \/ \E L \in SUBSET Chapter : AcceptArchitecture(L)
  \/ \E k \in Chapter, run \in BOOLEAN : AcceptContract(k, run)
  \/ BindSeries
  \/ CreateDefinition
  \/ \E d \in DOMAIN packs : ApproveDefinition(d)
  \/ \E s \in Result : RecordAudit(s)
  \/ Crash

Spec == Init /\ [][Next]_vars /\ \A c \in Pen : WF_vars(Serve(c))

(***************************************************************************)
(* Properties.                                                             *)
(***************************************************************************)
TypeOK ==
  /\ arch \in Rev /\ contract \in [Chapter -> Rev]
  /\ byOwnerRun \subseteq Chapter \X Rev
  /\ listed \subseteq Chapter /\ inSeries \in BOOLEAN
  /\ packs \in Seq({"DRAFT", "APPROVED"}) /\ Len(packs) <= MaxPacks
  /\ prods \in Seq(Prod) /\ ledger \in Seq(Overlap) /\ admissions \in Seq(Admission)
  /\ audited \in BOOLEAN
  /\ tasks \in Seq(Task) /\ Len(tasks) <= MaxTasks
  /\ units \subseteq DOMAIN tasks /\ abandoned \subseteq DOMAIN tasks
  /\ op \in [Client -> OpState]

\* A section stored in a series book was written from what its task was let in by, however the
\* admission, the contract and the draft raced: an admission of this very contract revision, made
\* under a production contract approved for the same authority and under passing overlap evidence
\* about it, or the acceptance of this revision by a run the owner authorized (the reads of
\* admit_chapter, the trigger, and the head read before and after the model request).
WrittenAsAdmitted ==
  \A t \in units :
    LET x == tasks[t]  k == tasks[t].chapter IN
    /\ x.lane = "admitted" =>
         LET a == admissions[x.admission]  p == prods[a.prod] IN
         /\ a.chapter = k /\ a.contract = x.input
         /\ p.chapter = k /\ p.status = "APPROVED" /\ Bound(p, a.arch, a.contract)
         /\ \E u \in DOMAIN ledger : /\ ledger[u].chapter = k /\ ledger[u].status = "PASS"
                                     /\ Bound(ledger[u], a.arch, a.contract)
    /\ x.lane = "auto" => <<k, x.input>> \in byOwnerRun

\* The trigger never looks at the production contract's revisions or at the overlap evidence, and
\* admission_status not at the former: what both let through rests on them all the same, for the
\* authority of this instant, whatever was accepted or admitted since, and whatever the second
\* allows the first lets in.
AdmittedOnEvidence ==
  \A k \in Chapter :
    /\ WritingAllowed(k) => Admitted(k)
    /\ Admitted(k) =>
         /\ Bound(prods[CurrentProd(k)], arch, contract[k])
         /\ \E u \in DOMAIN ledger : /\ ledger[u].chapter = k /\ ledger[u].status = "PASS"
                                     /\ Bound(ledger[u], arch, contract[k])

\* Unless the core exits, or cannot record a failure, every drafting task ends: no answer of the
\* provider and no change of authority meanwhile leaves it RUNNING.
Running(t) == t \in DOMAIN tasks /\ tasks[t].status = "RUNNING"

TasksEnd == \A t \in 1..MaxTasks : Running(t) ~> (~Running(t) \/ t \in abandoned)
===============================================================================
