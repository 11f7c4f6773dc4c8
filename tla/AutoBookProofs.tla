----------------------------- MODULE AutoBookProofs -----------------------------
(***************************************************************************)
(* Proofs about AutoBook: type correctness, the budget, the phases, the    *)
(* completed run, and what holds of a run that one window drives.          *)
(*                                                                         *)
(* The first four rest on one idea.  The run exists in many copies, in the *)
(* file, in the temporary file and in every request, and any of them may   *)
(* become the file; so what is claimed of the file is shown of every copy. *)
(* The documents of the book only go forward, so a copy stays right while  *)
(* other requests change the book.  With one window more is true: the copy *)
(* in hand is never behind the file (section "One window").                *)
(***************************************************************************)
EXTENDS AutoBook, WellFoundedInduction, SequenceTheorems, TLAPS

(***************************************************************************)
(* The inductive invariant.                                                *)
(***************************************************************************)
BookInv ==
  /\ contract \in Document /\ architecture \in Document
  /\ contracts \in [Chapter -> Document]
  /\ tasks \subseteq Chapter
  /\ units \in [Chapter -> Seq({"DRAFT", "APPROVED"})]
  /\ \A k \in Chapter : Len(units[k]) <= MaxUnits /\ (units[k] # <<>> => k \in tasks)
  /\ masters \subseteq [Chapter -> 0..MaxUnits]
  /\ architecture # "none" => contract = "approved"

SideInv ==
  /\ drive \subseteq Client
  /\ runs \in 0..MaxRuns /\ crashes \in 0..MaxCrashes
  /\ sent \in [1..MaxRuns -> 0..MaxRequests + 1]
  /\ clean \subseteq 1..MaxRuns

Mastered == \E m \in masters : \A k \in Chapter : m[k] \in 1..Len(units[k])

Justified(st) ==
  /\ st.phase = "APPROVE_BOOK_CONTRACT" => contract # "none"
  /\ st.phase \notin {"BOOK_CONTRACT", "APPROVE_BOOK_CONTRACT"} => contract = "approved"
  /\ st.phase = "APPROVE_ARCHITECTURE" => architecture # "none"
  /\ st.phase \in {"CHAPTER_CONTRACT", "APPROVE_CHAPTER", "CHAPTER_DRAFT", "EXPORT", "DONE"} =>
       architecture = "approved"
  /\ st.phase \in {"CHAPTER_CONTRACT", "APPROVE_CHAPTER", "CHAPTER_DRAFT"} => st.chapter # 0
  /\ st.phase = "APPROVE_CHAPTER" => contracts[st.chapter] # "none"
  /\ st.phase = "CHAPTER_DRAFT" => contracts[st.chapter] = "approved"

Within(st) == st.used <= MaxRequests /\ st.cost <= MaxTotalCost

\* What every copy of a run satisfies.
Good(st) ==
  /\ st \in RunState /\ Within(st)
  /\ st.run # 0 => Justified(st)
  /\ st.run = 0 => st.status = "STOPPED"
  /\ st.status = "DONE" => st.phase = "DONE"
  /\ st.final => Mastered

\* What a request knows: it has a run, the file has one, it may ask, its task is stored.
RowFacts(o) ==
  /\ Good(o.st)
  /\ o.pc \notin {"idle", "start"} =>
       o.st.run # 0 /\ (o.then # "started" => file.run # 0)
  /\ o.then = "started" => o.pc \in {"write", "publish"}
  /\ o.pc \in {"idle", "start"} => o.then = "raised"
  /\ o.pc \in {"export", "list", "edit", "edit_ask", "edit_answered", "review", "master"}
       => o.st.phase = "EXPORT"
  /\ o.then = "list" => o.st.phase = "EXPORT"
  /\ o.pc \in {"ask", "answered", "edit_ask", "edit_answered"} => HasCap(o.st)
  /\ o.pc \in {"ask", "answered"} /\ o.st.phase = "CHAPTER_DRAFT" => o.st.chapter \in tasks

FilesInv == Good(file) /\ Good(temp) /\ (temp.run = 0 => temp = NoRun)

OpsInv == op \in [Client -> OpState] /\ \A c \in Client : RowFacts(op[c])

AutoInv == BookInv /\ SideInv /\ FilesInv /\ OpsInv

\* The book only goes forward.
Grows ==
  /\ contract # "none" => contract' # "none"
  /\ contract = "approved" => contract' = "approved"
  /\ architecture # "none" => architecture' # "none"
  /\ architecture = "approved" => architecture' = "approved"
  /\ \A k \in Chapter : /\ contracts[k] # "none" => contracts'[k] # "none"
                        /\ contracts[k] = "approved" => contracts'[k] = "approved"
                        /\ Len(units[k]) <= Len(units'[k])
  /\ tasks \subseteq tasks' /\ masters \subseteq masters'

(***************************************************************************)
(* Smallest elements.                                                      *)
(***************************************************************************)
LEMMA LeastExists ==
  ASSUME NEW S \in SUBSET Nat, S # {}
  PROVE  Min(S) \in S /\ \A y \in S : Min(S) <= y
<1>1. PICK x \in S : \A y \in S : ~(<<y, x>> \in OpToRel(<, Nat))
  BY NatLessThanWellFounded, WFMin, Zenon
<1>2. \A y \in S : ~(y < x)
  <2> TAKE y \in S
  <2>1. x \in Nat /\ y \in Nat
    OBVIOUS
  <2>2. y < x => <<y, x>> \in OpToRel(<, Nat)
    BY <2>1 DEF OpToRel
  <2> QED BY <1>1, <2>2
<1>3. \A y \in S : x <= y
  BY <1>2
<1> QED BY <1>3, Zenon DEF Min

LEMMA MinOfTwo ==
  ASSUME NEW a \in Int, NEW b \in Int
  PROVE  Min({a, b}) \in Int /\ Min({a, b}) \in {a, b} /\ Min({a, b}) <= a /\ Min({a, b}) <= b
<1>1. \E x \in {a, b} : \A y \in {a, b} : x <= y
  OBVIOUS
<1>2. Min({a, b}) \in {a, b} /\ \A y \in {a, b} : Min({a, b}) <= y
  BY <1>1, Zenon DEF Min
<1> QED BY <1>2

LEMMA Limits ==
  /\ Chapters \in Nat \ {0} /\ MaxRequests \in Nat \ {0} /\ MaxRequestCost \in Nat \ {0}
  /\ MaxTotalCost \in Nat \ {0} /\ MaxRuns \in Nat /\ MaxUnits \in Nat /\ MaxCrashes \in Nat
BY LimitsAssumption

(***************************************************************************)
(* Copies of a run.                                                        *)
(***************************************************************************)
\* A request there is room for is charged within the authorization.
LEMMA ChargeFits ==
  ASSUME NEW st \in RunState, Within(st), HasCap(st)
  PROVE  LET x == Charge(st) IN
         /\ x \in RunState /\ Within(x)
         /\ x.run = st.run /\ x.status = st.status /\ x.phase = st.phase /\ x.chapter = st.chapter
         /\ x.litres = st.litres /\ x.final = st.final
<1>1. st.used \in Nat /\ st.cost \in Nat
  BY DEF RunState
<1>2. Cap(st) \in Nat /\ Cap(st) <= MaxTotalCost - st.cost
  <2>1. MaxTotalCost - st.cost \in Int /\ MaxRequestCost \in Int
    BY <1>1, Limits
  <2>2. Cap(st) \in Int /\ Cap(st) <= MaxTotalCost - st.cost
    BY <2>1, MinOfTwo DEF Cap
  <2> QED BY <2>2 DEF HasCap
<1> DEFINE u == st.used + 1
           v == st.cost + Cap(st)
<1>3. u \in Nat /\ v \in Nat /\ u <= MaxRequests /\ v <= MaxTotalCost
  BY <1>1, <1>2, Limits DEF HasCap
<1> HIDE DEF u, v
<1>4. Charge(st) = [st EXCEPT !.used = u, !.cost = v]
  BY DEF Charge, u, v
<1> QED BY <1>3, <1>4 DEF RunState, Within

\* A copy of another status, or with the note of its completion gone.
LEMMA SameRun ==
  ASSUME NEW st, NEW x \in RunState, Good(st), Within(x), x.run = st.run, x.run # 0,
         x.phase = st.phase, x.chapter = st.chapter, x.status = "DONE" => x.phase = "DONE",
         x.final => st.final
  PROVE  Good(x)
BY DEF Good, Justified

LEMMA NewActionRow ==
  ASSUME NEW st \in RunState, Within(st)
  PROVE  LET x == NewAction(st) IN
         /\ x \in RunState /\ Within(x) /\ x.run = st.run /\ x.status = st.status
         /\ x.phase = st.phase /\ x.chapter = st.chapter /\ x.used = st.used /\ x.cost = st.cost
         /\ x.litres = st.litres /\ (x.final => st.final)
<1> DEFINE f == st.final /\ st.litres
<1>1. f \in BOOLEAN /\ (f => st.final)
  BY Zenon
<1>2. NewAction(st) = [st EXCEPT !.final = f]
  BY DEF NewAction
<1> HIDE DEF f
<1>3. NewAction(st).final = f
  BY <1>2 DEF RunState
<1> QED BY <1>1, <1>2, <1>3 DEF RunState, Within

LEMMA WithStatus ==
  ASSUME NEW st \in RunState, Within(st), NEW s \in RunStatus
  PROVE  LET x == [st EXCEPT !.status = s] IN
         /\ x \in RunState /\ Within(x) /\ x.run = st.run /\ x.status = s
         /\ x.phase = st.phase /\ x.chapter = st.chapter /\ x.final = st.final
BY DEF RunState, Within

LEMMA GoodRow ==
  ASSUME NEW st, Good(st)
  PROVE  st \in RunState /\ Within(st) /\ st.run \in 0..MaxRuns /\ st.phase \in Phase
         /\ st.chapter \in 0..Chapters /\ st.status \in RunStatus
BY DEF Good, RunState

LEMMA NoRunIsGood == Good(NoRun)
<1>1. NoRun \in RunState
  BY Limits DEF NoRun, RunState, RunStatus, Phase
<1>2. Within(NoRun)
  BY Limits DEF NoRun, Within
<1> QED BY <1>1, <1>2 DEF Good, NoRun

LEMMA FailedIsGood ==
  ASSUME NEW st, Good(st), st.run # 0
  PROVE  Good(Failed(st)) /\ Failed(st).run = st.run /\ Failed(st).phase = st.phase
         /\ Failed(st).status = "FAILED"
<1> DEFINE y == NewAction(st)
           x == [y EXCEPT !.status = "FAILED"]
<1>1. st \in RunState /\ Within(st)
  BY GoodRow
<1>2. /\ y \in RunState /\ Within(y) /\ y.run = st.run /\ y.phase = st.phase
      /\ y.chapter = st.chapter /\ (y.final => st.final)
  BY <1>1, NewActionRow
<1>3. Failed(st) = x
  BY DEF Failed
<1> HIDE DEF y
<1>4. /\ x \in RunState /\ Within(x) /\ x.run = st.run /\ x.phase = st.phase
      /\ x.chapter = st.chapter /\ x.status = "FAILED" /\ (x.final => st.final)
  BY <1>2, WithStatus DEF RunStatus
<1> HIDE DEF x
<1>5. Good(x)
  BY <1>4, SameRun
<1> QED BY <1>3, <1>4, <1>5

LEMMA StoppedIsGood ==
  ASSUME NEW st, Good(st), st.run # 0
  PROVE  LET x == [NewAction(st) EXCEPT !.status = "STOPPED"] IN Good(x) /\ x.run = st.run
<1> DEFINE y == NewAction(st)
           x == [y EXCEPT !.status = "STOPPED"]
<1>1. st \in RunState /\ Within(st)
  BY GoodRow
<1>2. /\ y \in RunState /\ Within(y) /\ y.run = st.run /\ y.phase = st.phase
      /\ y.chapter = st.chapter /\ (y.final => st.final)
  BY <1>1, NewActionRow
<1> HIDE DEF y
<1>3. /\ x \in RunState /\ Within(x) /\ x.run = st.run /\ x.phase = st.phase
      /\ x.chapter = st.chapter /\ x.status = "STOPPED" /\ (x.final => st.final)
  BY <1>2, WithStatus DEF RunStatus
<1> HIDE DEF x
<1>4. Good(x)
  BY <1>3, SameRun
<1> QED BY <1>3, <1>4 DEF x, y

\* A run finalized or exported is past its Architecture; reopened, it stands at EXPORT.
LEMMA ReopenedIsGood ==
  ASSUME NEW st, Good(st), st.run # 0, st.phase \in {"EXPORT", "DONE"}
  PROVE  Good(Reopened(st)) /\ Reopened(st).run = st.run /\ Reopened(st).phase = "EXPORT"
<1> DEFINE x == [st EXCEPT !.status = "RUNNING", !.phase = "EXPORT", !.final = FALSE]
<1>1. st \in RunState /\ Within(st)
  BY GoodRow
<1>2. /\ x \in RunState /\ Within(x) /\ x.run = st.run /\ x.phase = "EXPORT"
      /\ x.status = "RUNNING" /\ x.final = FALSE
  BY <1>1 DEF RunState, Within, Phase, RunStatus
<1>3. Reopened(st) = x
  BY DEF Reopened
<1> HIDE DEF x
<1>4. Justified(x)
  BY <1>2 DEF Good, Justified
<1>5. Good(x)
  BY <1>2, <1>4 DEF Good
<1> QED BY <1>2, <1>3, <1>5

LEMMA ReopenedAnewIsGood ==
  ASSUME NEW st, Good(st), st.run # 0, st.phase \in {"EXPORT", "DONE"}
  PROVE  LET x == Reopened(NewAction(st)) IN Good(x) /\ x.run = st.run /\ x.phase = "EXPORT"
<1> DEFINE y == NewAction(st)
<1>1. st \in RunState /\ Within(st)
  BY GoodRow
<1>2. /\ y \in RunState /\ Within(y) /\ y.run = st.run /\ y.phase = st.phase
      /\ y.chapter = st.chapter /\ (y.final => st.final) /\ y.status = st.status
  BY <1>1, NewActionRow
<1>3. Good(y)
  BY <1>2, SameRun DEF Good
<1> HIDE DEF y
<1> QED BY <1>2, <1>3, ReopenedIsGood DEF y

(***************************************************************************)
(* The next copy of a run, phase by phase.                                 *)
(***************************************************************************)
LEMMA PhaseRow ==
  ASSUME NEW st \in RunState, Within(st), NEW p \in Phase
  PROVE  LET x == [st EXCEPT !.phase = p] IN
         /\ x \in RunState /\ Within(x) /\ x.run = st.run /\ x.phase = p
         /\ x.chapter = st.chapter /\ x.status = st.status /\ x.final = st.final
BY DEF RunState, Within

LEMMA DoneRow ==
  ASSUME NEW st \in RunState, Within(st), NEW f \in BOOLEAN
  PROVE  LET x == [st EXCEPT !.status = "DONE", !.phase = "DONE", !.final = f] IN
         /\ x \in RunState /\ Within(x) /\ x.run = st.run /\ x.phase = "DONE"
         /\ x.chapter = st.chapter /\ x.status = "DONE" /\ x.final = f
<1> DEFINE x == [st EXCEPT !.status = "DONE", !.phase = "DONE", !.final = f]
<1>1. x \in RunState
  <2>1. "DONE" \in RunStatus /\ "DONE" \in Phase
    BY DEF RunStatus, Phase
  <2> QED BY <2>1, Zenon DEF RunState
<1>2. x.run = st.run /\ x.phase = "DONE" /\ x.chapter = st.chapter /\ x.status = "DONE"
      /\ x.used = st.used /\ x.cost = st.cost
  BY DEF RunState
<1>3. x.final = f
  BY Zenon DEF RunState
<1> QED BY <1>1, <1>2, <1>3 DEF Within

LEMMA FirstPendingRow ==
  ASSUME BookInv
  PROVE  /\ FirstPending \in 0..Chapters
         /\ FirstPending # 0 => FirstPending \in Chapter
<1>1. Pending \subseteq Chapter /\ Chapter \subseteq Nat
  BY Limits DEF Pending, Chapter
<1>2. Pending # {} => Min(Pending) \in Chapter
  BY <1>1, LeastExists
<1> QED BY <1>2, Limits DEF FirstPending, Chapter

(***************************************************************************)
(* Steps.                                                                  *)
(***************************************************************************)
LEMMA MasteredStays ==
  ASSUME BookInv, BookInv', Grows, Mastered
  PROVE  Mastered'
<1>1. PICK m \in masters : \A k \in Chapter : m[k] \in 1..Len(units[k])
  BY DEF Mastered
<1>2. ASSUME NEW k \in Chapter PROVE m[k] \in 1..Len(units'[k])
  <2>1. Len(units[k]) \in Nat /\ Len(units'[k]) \in Nat /\ Len(units[k]) <= Len(units'[k])
    BY LenProperties DEF BookInv, Grows
  <2> QED BY <1>1, <2>1
<1> QED BY <1>1, <1>2 DEF Mastered, Grows

LEMMA GoodStays ==
  ASSUME BookInv, BookInv', Grows, NEW st, Good(st)
  PROVE  Good(st)'
<1>1. st.final => Mastered'
  BY MasteredStays DEF Good
<1>2. st.chapter # 0 => st.chapter \in Chapter
  BY GoodRow, Limits DEF Chapter
<1>3. Justified(st) => Justified(st)'
  BY <1>2 DEF Justified, Grows
<1> QED BY <1>1, <1>3 DEF Good, Within

LEMMA NothingGrows ==
  ASSUME BookInv, UNCHANGED project
  PROVE  BookInv' /\ Grows
<1>1. UNCHANGED <<contract, architecture, contracts, tasks, units, masters>>
  BY DEF project
<1>2. BookInv'
  BY <1>1 DEF BookInv, Chapter
<1>3. \A k \in Chapter : Len(units[k]) <= Len(units'[k])
  BY <1>1, LenProperties DEF BookInv
<1> QED BY <1>1, <1>2, <1>3 DEF Grows

\* One request goes on to o; the files and the book may change too.
LEMMA StepTo ==
  ASSUME AutoInv, NEW c \in Client, NEW o \in OpState, op' = [op EXCEPT ![c] = o],
         BookInv', Grows, SideInv', FilesInv', file.run # 0 => file'.run # 0, RowFacts(o)'
  PROVE  AutoInv'
<1>1. op' \in [Client -> OpState] /\ op'[c] = o /\ \A d \in Client \ {c} : op'[d] = op[d]
  BY DEF AutoInv, OpsInv
<1>2. ASSUME NEW x, RowFacts(x) PROVE RowFacts(x)'
  BY <1>2, GoodStays DEF RowFacts, AutoInv, Grows, HasCap, Cap
<1>3. ASSUME NEW d \in Client PROVE \E x : op'[d] = x /\ RowFacts(x)'
  BY <1>1, <1>2 DEF AutoInv, OpsInv
<1>4. \A d \in Client : RowFacts(op[d])'
  <2> TAKE d \in Client
  <2>1. PICK x : op'[d] = x /\ RowFacts(x)'
    BY <1>3
  <2> QED BY <2>1 DEF RowFacts
<1> QED BY <1>1, <1>4 DEF AutoInv, OpsInv

LEMMA OpRow ==
  ASSUME AutoInv, NEW c \in Client
  PROVE  op[c] \in OpState /\ RowFacts(op[c]) /\ Good(op[c].st)
BY DEF AutoInv, OpsInv, RowFacts

LEMMA FileRow ==
  ASSUME AutoInv
  PROVE  Good(file) /\ (file.status # "STOPPED" => file.run # 0)
BY DEF AutoInv, FilesInv, Good

LEMMA HistoryKept ==
  ASSUME AutoInv, UNCHANGED history, drive' \subseteq Client
  PROVE  SideInv'
BY DEF AutoInv, SideInv, history

\* A request that leaves files and book alone.
LEMMA OpStep ==
  ASSUME AutoInv, NEW c \in Client, NEW o \in OpState, op' = [op EXCEPT ![c] = o],
         UNCHANGED <<file, temp, project>>, SideInv', RowFacts(o)
  PROVE  AutoInv'
<1>1. BookInv' /\ Grows
  BY NothingGrows DEF AutoInv
<1>2. UNCHANGED <<file, temp, contract, architecture, contracts, tasks, units, masters>>
  BY DEF project
<1>3. \A st : Good(st) => Good(st)'
  BY <1>1, GoodStays DEF AutoInv
<1>4. FilesInv'
  BY <1>2, <1>3 DEF AutoInv, FilesInv
<1>5. RowFacts(o)'
  BY <1>2, <1>3 DEF RowFacts, HasCap, Cap
<1> QED BY <1>1, <1>2, <1>4, <1>5, StepTo

Then == {"returned", "finished", "raised", "pause", "list", "started", "stopped"}

LEMMA IdleRow == Idle \in OpState /\ RowFacts(Idle) /\ Idle.pc = "idle"
<1>1. NoRun \in RunState
  BY NoRunIsGood, GoodRow
<1> QED BY <1>1, NoRunIsGood DEF Idle, OpState, RowFacts

\* What a request that is to write st has in hand.
LEMMA WriteRow ==
  ASSUME NEW st \in RunState, NEW then \in Then
  PROVE  LET o == [Idle EXCEPT !.pc = "write", !.then = then, !.st = st] IN
         o \in OpState /\ o.pc = "write" /\ o.then = then /\ o.st = st
BY IdleRow DEF OpState, Then

LEMMA WriteStep ==
  ASSUME AutoInv, NEW c \in Client, NEW st, NEW then \in Then, Good(st), st.run # 0,
         then # "started" => file.run # 0, then = "list" => st.phase = "EXPORT",
         Write(c, st, then), UNCHANGED <<file, temp, project>>, SideInv'
  PROVE  AutoInv'
<1> DEFINE o == [Idle EXCEPT !.pc = "write", !.then = then, !.st = st]
<1>1. o \in OpState /\ o.pc = "write" /\ o.then = then /\ o.st = st
  BY WriteRow, GoodRow
<1>2. op' = [op EXCEPT ![c] = o]
  BY DEF Write
<1> HIDE DEF o
<1>3. RowFacts(o)
  BY <1>1 DEF RowFacts
<1> QED BY <1>1, <1>2, <1>3, OpStep

\* The same after a change of the book.
LEMMA BookStep ==
  ASSUME AutoInv, NEW c \in Client, NEW st \in RunState, NEW then \in Then,
         Within(st), Justified(st)', st.run # 0, st.status = "DONE" => st.phase = "DONE",
         st.final => Mastered \/ Mastered', file.run # 0, then # "started",
         then = "list" => st.phase = "EXPORT",
         Write(c, st, then), UNCHANGED <<file, temp>>, BookInv', Grows, SideInv'
  PROVE  AutoInv'
<1> DEFINE o == [Idle EXCEPT !.pc = "write", !.then = then, !.st = st]
<1>1. Good(st)'
  BY MasteredStays DEF Good, Within, AutoInv
<1>2. o \in OpState /\ o.pc = "write" /\ o.then = then /\ o.st = st
  BY WriteRow
<1>3. op' = [op EXCEPT ![c] = o]
  BY DEF Write
<1> HIDE DEF o
<1>4. RowFacts(o)'
  BY <1>1, <1>2 DEF RowFacts
<1>5. FilesInv'
  <2>1. \A x : Good(x) => Good(x)'
    BY GoodStays DEF AutoInv
  <2> QED BY <2>1 DEF AutoInv, FilesInv
<1> QED BY <1>2, <1>3, <1>4, <1>5, StepTo

LEMMA RespondStep ==
  ASSUME AutoInv, NEW c \in Client, NEW b, Respond(c, b),
         UNCHANGED <<file, temp, project, history>>
  PROVE  AutoInv'
<1>1. op' = [op EXCEPT ![c] = Idle] /\ drive' \subseteq Client
  BY DEF Respond, AutoInv, SideInv
<1>2. SideInv'
  BY <1>1, HistoryKept
<1> QED BY <1>1, <1>2, IdleRow, OpStep

LEMMA GotoRow ==
  ASSUME AutoInv, NEW c \in Client, NEW st \in RunState,
         NEW pc \in {"idle", "start", "ask", "answered", "approve", "export", "write", "publish",
                    "pause", "list", "edit", "edit_ask", "edit_answered", "review", "master"},
         \/ Goto(c, pc) /\ st = op[c].st
         \/ GotoWith(c, pc, st)
  PROVE  \E o \in OpState :
           /\ op' = [op EXCEPT ![c] = o]
           /\ o.pc = pc /\ o.then = op[c].then /\ o.st = st /\ o.todo = op[c].todo
<1> DEFINE o == [op[c] EXCEPT !.pc = pc, !.st = st]
<1>1. op[c] \in OpState /\ op \in [Client -> OpState]
  BY DEF AutoInv, OpsInv
<1>2. o \in OpState /\ o.pc = pc /\ o.then = op[c].then /\ o.st = st /\ o.todo = op[c].todo
  BY <1>1 DEF OpState
<1>3. CASE GotoWith(c, pc, st)
  BY <1>1, <1>2, <1>3 DEF GotoWith
<1>4. CASE Goto(c, pc) /\ st = op[c].st
  <2> DEFINE x == [op[c] EXCEPT !.pc = pc]
  <2>1. x \in OpState /\ x.pc = pc /\ x.then = op[c].then /\ x.st = st /\ x.todo = op[c].todo
    BY <1>1, <1>4 DEF OpState
  <2>2. op' = [op EXCEPT ![c] = x]
    BY <1>1, <1>4 DEF Goto
  <2> HIDE DEF x
  <2> QED BY <2>1, <2>2
<1> QED BY <1>3, <1>4

(***************************************************************************)
(* start, stop and the first reads of advance.                             *)
(***************************************************************************)
LEMMA ResumeIsJustified ==
  ASSUME BookInv, NEW st, st.phase = ResumePhase,
         st.chapter = IF architecture = "approved" THEN FirstPending ELSE 0
  PROVE  ResumePhase \in Phase /\ Justified(st)
<1>1. /\ contract \in Document /\ architecture \in Document /\ contracts \in [Chapter -> Document]
      /\ architecture # "none" => contract = "approved"
  BY DEF BookInv
<1>2. CASE architecture = "approved" /\ FirstPending = 0
  <2>1. ResumePhase = "EXPORT"
    BY <1>1, <1>2 DEF ResumePhase, Document
  <2> QED BY <1>1, <1>2, <2>1 DEF Justified, Phase
<1>3. CASE architecture = "approved" /\ FirstPending # 0
  <2> DEFINE k == FirstPending
  <2>1. k \in Chapter
    BY <1>3, FirstPendingRow
  <2>2. ResumePhase = ChapterPhase(k) /\ st.chapter = k
    BY <1>1, <1>3 DEF ResumePhase, Document
  <2>3. contracts[k] \in Document
    BY <1>1, <2>1
  <2> HIDE DEF k
  <2>4. /\ contracts[k] = "approved" => ResumePhase = "CHAPTER_DRAFT"
        /\ contracts[k] = "draft" => ResumePhase = "APPROVE_CHAPTER"
        /\ contracts[k] = "none" => ResumePhase = "CHAPTER_CONTRACT"
    BY <2>2 DEF ChapterPhase
  <2>5. k # 0
    BY <1>3 DEF k
  <2> QED BY <1>1, <1>3, <2>2, <2>3, <2>4, <2>5 DEF Justified, Phase, Document
<1>4. CASE architecture = "draft"
  <2>1. ResumePhase = "APPROVE_ARCHITECTURE"
    BY <1>1, <1>4 DEF ResumePhase, Document
  <2> QED BY <1>1, <1>4, <2>1 DEF Justified, Phase
<1>5. CASE architecture = "none"
  <2>1. /\ contract = "approved" => ResumePhase = "ARCHITECTURE"
        /\ contract = "draft" => ResumePhase = "APPROVE_BOOK_CONTRACT"
        /\ contract = "none" => ResumePhase = "BOOK_CONTRACT"
    BY <1>1, <1>5 DEF ResumePhase, Document
  <2> QED BY <1>1, <1>5, <2>1 DEF Justified, Phase, Document
<1> QED BY <1>1, <1>2, <1>3, <1>4, <1>5 DEF Document

LEMMA StartStep ==
  ASSUME AutoInv, NEW c \in Client,
         StartRead(c) \/ (\E litres \in BOOLEAN : StartWrite(c, litres)) \/ Stop(c) \/ Continue(c)
  PROVE  AutoInv'
<1>1. CASE StartRead(c)
  <2>1. /\ op[c].pc = "idle" /\ Goto(c, "start") /\ op[c].st \in RunState
        /\ UNCHANGED <<file, temp, project, drive, history>>
    BY <1>1, OpRow, GoodRow DEF StartRead
  <2>2. PICK o \in OpState : /\ op' = [op EXCEPT ![c] = o]
                             /\ o.pc = "start" /\ o.then = op[c].then /\ o.st = op[c].st
    BY <2>1, GotoRow
  <2>3. RowFacts(o)
    BY <2>1, <2>2, OpRow DEF RowFacts
  <2>4. SideInv'
    BY <2>1, HistoryKept DEF AutoInv, SideInv
  <2> QED BY <2>1, <2>2, <2>3, <2>4, OpStep
<1>2. ASSUME NEW litres \in BOOLEAN, StartWrite(c, litres) PROVE AutoInv'
  <2> DEFINE k == IF architecture = "approved" THEN FirstPending ELSE 0
             x == [NoRun EXCEPT !.run = runs + 1, !.status = "RUNNING", !.phase = ResumePhase,
                                !.chapter = k, !.litres = litres]
  <2>1. /\ Write(c, x, "started") /\ runs < MaxRuns /\ runs' = runs + 1
        /\ UNCHANGED <<file, temp, project, drive, crashes, sent, clean>>
    BY <1>2 DEF StartWrite
  <2>2. k \in 0..Chapters /\ runs + 1 \in 0..MaxRuns /\ runs + 1 # 0 /\ NoRun \in RunState
    BY <2>1, FirstPendingRow, Limits, NoRunIsGood, GoodRow DEF AutoInv, SideInv
  <2>3. \A y : y.phase = ResumePhase /\ y.chapter = k => ResumePhase \in Phase /\ Justified(y)
    BY ResumeIsJustified DEF AutoInv
  <2>4. ResumePhase \in Phase
    <3> DEFINE y == [phase |-> ResumePhase, chapter |-> k]
    <3>1. y.phase = ResumePhase /\ y.chapter = k
      OBVIOUS
    <3> HIDE DEF y, k
    <3> QED BY <2>3, <3>1
  <2> HIDE DEF k
  <2>5. /\ x \in RunState /\ x.run = runs + 1 /\ x.phase = ResumePhase /\ x.chapter = k
        /\ x.status = "RUNNING" /\ x.used = 0 /\ x.cost = 0 /\ x.final = FALSE
    BY <2>2, <2>4 DEF RunState, RunStatus, NoRun
  <2> HIDE DEF x
  <2>6. Good(x)
    BY <2>2, <2>3, <2>5, Limits DEF Good, Within
  <2>7. SideInv'
    BY <2>1, <2>2 DEF AutoInv, SideInv
  <2> QED BY <2>1, <2>2, <2>5, <2>6, <2>7, WriteStep DEF Then
<1>3. CASE Stop(c)
  <2> DEFINE x == [NewAction(file) EXCEPT !.status = "STOPPED"]
  <2>1. /\ Write(c, x, "stopped") /\ file.status = "RUNNING"
        /\ UNCHANGED <<file, temp, project, drive, history>>
    BY <1>3 DEF Stop
  <2>2. file.run # 0 /\ Good(file)
    BY <2>1, FileRow
  <2>3. Good(x) /\ x.run # 0
    BY <2>2, StoppedIsGood
  <2> HIDE DEF x
  <2>4. SideInv'
    BY <2>1, HistoryKept DEF AutoInv, SideInv
  <2> QED BY <2>1, <2>2, <2>3, <2>4, WriteStep DEF Then
<1>4. CASE Continue(c)
  <2>1. UNCHANGED <<file, temp, project, op, history>> /\ drive' \subseteq Client
    BY <1>4 DEF Continue, AutoInv, SideInv
  <2>2. SideInv' /\ op' = [op EXCEPT ![c] = op[c]]
    BY <2>1, HistoryKept DEF AutoInv, OpsInv
  <2> QED BY <2>1, <2>2, OpRow, OpStep
<1> QED BY <1>1, <1>2, <1>3, <1>4

(***************************************************************************)
(* The state file.                                                         *)
(***************************************************************************)
LEMMA WriteTempStep ==
  ASSUME AutoInv, NEW c \in Client, WriteTemp(c)
  PROVE  AutoInv'
<1> PICK st : st = op[c].st
  OBVIOUS
<1>1. /\ op[c].pc = "write" /\ temp' = st /\ Goto(c, "publish")
      /\ UNCHANGED <<file, project, drive, history>>
  BY DEF WriteTemp
<1>2. Good(st) /\ st \in RunState /\ st.run # 0
  BY <1>1, OpRow, GoodRow DEF RowFacts
<1>3. PICK o \in OpState : /\ op' = [op EXCEPT ![c] = o]
                           /\ o.pc = "publish" /\ o.then = op[c].then /\ o.st = st
  BY <1>1, <1>2, GotoRow
<1>4. BookInv' /\ Grows
  BY <1>1, NothingGrows DEF AutoInv
<1>5. \A x : Good(x) => Good(x)'
  BY <1>4, GoodStays DEF AutoInv
<1>6. FilesInv'
  BY <1>1, <1>2, <1>5 DEF AutoInv, FilesInv
<1>7. SideInv'
  BY <1>1, HistoryKept DEF AutoInv, SideInv
<1>8. RowFacts(o)'
  BY <1>1, <1>2, <1>3, <1>5, OpRow DEF RowFacts
<1> QED BY <1>1, <1>3, <1>4, <1>6, <1>7, <1>8, StepTo

LEMMA PublishStep ==
  ASSUME AutoInv, NEW c \in Client, Publish(c)
  PROVE  AutoInv'
<1> PICK st : st = op[c].st
  OBVIOUS
<1>1. /\ op[c].pc = "publish" /\ temp # NoRun /\ file' = temp /\ temp' = NoRun /\ Proceed(c)
      /\ UNCHANGED <<project, history>>
  BY DEF Publish
<1>2. Good(st) /\ st \in RunState /\ st.run # 0 /\ RowFacts(op[c])
  BY <1>1, OpRow, GoodRow DEF RowFacts
<1>3. BookInv' /\ Grows
  BY <1>1, NothingGrows DEF AutoInv
<1>4. \A x : Good(x) => Good(x)'
  BY <1>3, GoodStays DEF AutoInv
<1>5. FilesInv' /\ file'.run # 0
  BY <1>1, <1>4, NoRunIsGood DEF AutoInv, FilesInv
<1>6. SUFFICES \E o \in OpState : op' = [op EXCEPT ![c] = o] /\ drive' \subseteq Client /\ RowFacts(o)'
  <2>1. drive' \subseteq Client => SideInv'
    BY <1>1, HistoryKept
  <2> QED BY <1>3, <1>5, <2>1, StepTo
<1>7. ASSUME NEW b, Respond(c, b)
      PROVE  \E o \in OpState : op' = [op EXCEPT ![c] = o] /\ drive' \subseteq Client /\ RowFacts(o)'
  <2>1. op' = [op EXCEPT ![c] = Idle] /\ drive' \subseteq Client
    BY <1>7 DEF Respond, AutoInv, SideInv
  <2>2. PICK o : o = Idle
    OBVIOUS
  <2>3. o \in OpState /\ RowFacts(o) /\ o.pc = "idle"
    BY <2>2, IdleRow
  <2>4. RowFacts(o)'
    BY <2>3, <1>4 DEF RowFacts
  <2> QED BY <2>1, <2>2, <2>3, <2>4
<1>8. CASE op[c].then = "returned" /\ st.status = "DONE" /\ ~st.final
  <2> DEFINE x == Reopened(st)
             o == [Idle EXCEPT !.pc = "write", !.then = "list", !.st = x]
  <2>1. Write(c, x, "list") /\ UNCHANGED drive
    BY <1>1, <1>8 DEF Proceed
  <2>2. Good(x) /\ x.run = st.run /\ x.phase = "EXPORT" /\ x \in RunState
    BY <1>2, <1>8, ReopenedIsGood, GoodRow DEF Good
  <2> HIDE DEF x
  <2>3. o \in OpState /\ o.pc = "write" /\ o.then = "list" /\ o.st = x
    BY <2>2, WriteRow DEF Then
  <2>4. op' = [op EXCEPT ![c] = o]
    BY <2>1 DEF Write
  <2> HIDE DEF o
  <2>5. PICK y : y = o
    OBVIOUS
  <2>6. RowFacts(y)'
    BY <1>2, <1>4, <1>5, <2>2, <2>3, <2>5 DEF RowFacts
  <2> QED BY <2>1, <2>3, <2>4, <2>5, <2>6 DEF AutoInv, SideInv
<1>9. CASE op[c].then = "returned" /\ (st.status # "DONE" \/ st.final)
  <2>1. Respond(c, st.status = "RUNNING")
    BY <1>1, <1>9 DEF Proceed
  <2> QED BY <2>1, <1>7
<1>10. CASE op[c].then \in {"pause", "list"}
  <2>1. Goto(c, op[c].then) /\ UNCHANGED drive
    BY <1>1, <1>10 DEF Proceed
  <2>2. PICK o \in OpState : /\ op' = [op EXCEPT ![c] = o]
                             /\ o.pc = op[c].then /\ o.then = op[c].then /\ o.st = st
    BY <2>1, <1>2, <1>10, GotoRow
  <2>3. RowFacts(o)'
    BY <1>2, <1>4, <1>5, <1>10, <2>2 DEF RowFacts
  <2> QED BY <2>1, <2>2, <2>3 DEF AutoInv, SideInv
<1>11. CASE op[c].then \in {"started", "finished", "raised", "stopped"}
  <2>1. Respond(c, op[c].then = "started")
    BY <1>1, <1>11 DEF Proceed
  <2> QED BY <2>1, <1>7
<1>12. op[c].then \in Then
  BY OpRow DEF OpState, Then
<1> QED BY <1>8, <1>9, <1>10, <1>11, <1>12 DEF Then

LEMMA PublishLostStep ==
  ASSUME AutoInv, NEW c \in Client, PublishLost(c)
  PROVE  AutoInv'
<1> PICK st : st = op[c].st
  OBVIOUS
<1>1. /\ op[c].pc = "publish" /\ UNCHANGED <<file, temp, project, history>>
      /\ IF op[c].then = "returned"
         THEN Write(c, Failed(st), "raised") /\ UNCHANGED drive
         ELSE Respond(c, FALSE)
  BY DEF PublishLost
<1>2. CASE op[c].then = "returned"
  <2> DEFINE x == Failed(st)
  <2>1. Good(st) /\ st.run # 0 /\ file.run # 0
    BY <1>1, <1>2, OpRow DEF RowFacts
  <2>2. Good(x) /\ x.run # 0
    BY <2>1, FailedIsGood
  <2>3. Write(c, x, "raised") /\ UNCHANGED drive
    BY <1>1, <1>2
  <2> HIDE DEF x
  <2>4. SideInv'
    BY <1>1, <2>3, HistoryKept DEF AutoInv, SideInv
  <2> QED BY <1>1, <2>1, <2>2, <2>3, <2>4, WriteStep DEF Then
<1>3. CASE op[c].then # "returned"
  BY <1>1, <1>3, RespondStep
<1> QED BY <1>2, <1>3

(***************************************************************************)
(* The model request and its outcomes.                                     *)
(***************************************************************************)
LEMMA ChargedIsGood ==
  ASSUME NEW st, Good(st), st.run # 0, HasCap(st)
  PROVE  LET x == Charge(st) IN
         /\ Good(x) /\ x \in RunState /\ Within(x) /\ x.run = st.run /\ x.phase = st.phase
         /\ x.chapter = st.chapter /\ x.status = st.status /\ x.final = st.final
         /\ x.litres = st.litres
<1> DEFINE x == Charge(st)
<1>1. st \in RunState /\ Within(st)
  BY GoodRow
<1>2. /\ x \in RunState /\ Within(x) /\ x.run = st.run /\ x.status = st.status
      /\ x.phase = st.phase /\ x.chapter = st.chapter /\ x.litres = st.litres /\ x.final = st.final
  BY <1>1, ChargeFits
<1> HIDE DEF x
<1>3. Good(x)
  BY <1>2, SameRun DEF Good
<1> QED BY <1>2, <1>3 DEF x

LEMMA PaySide ==
  ASSUME AutoInv, NEW r \in 0..MaxRuns, r # 0, Pay(r) \/ UNCHANGED sent,
         UNCHANGED <<drive, runs, crashes>>, clean' \subseteq clean
  PROVE  SideInv'
<1> PICK a, b : a = sent[r] + 1 /\ b = MaxRequests + 1
  OBVIOUS
<1> PICK n : n = Min({a, b})
  OBVIOUS
<1>1. r \in 1..MaxRuns /\ sent \in [1..MaxRuns -> 0..MaxRequests + 1]
  BY Limits DEF AutoInv, SideInv
<1>2. a \in Int /\ b \in Int /\ a >= 0
  BY <1>1, Limits
<1>3. n \in {a, b} /\ n <= b /\ n \in Int
  BY <1>2, MinOfTwo
<1>4. n \in 0..MaxRequests + 1
  BY <1>2, <1>3, Limits
<1>5. CASE Pay(r)
  <2>1. sent' = [sent EXCEPT ![r] = n]
    BY <1>1, <1>5 DEF Pay
  <2>2. sent' \in [1..MaxRuns -> 0..MaxRequests + 1]
    BY <1>1, <1>4, <2>1
  <2> QED BY <2>2 DEF AutoInv, SideInv
<1>6. CASE UNCHANGED sent
  BY <1>6 DEF AutoInv, SideInv
<1> QED BY <1>5, <1>6

\* A step that raises, whatever it did to the book before.
LEMMA RaiseStep ==
  ASSUME AutoInv, NEW c \in Client, NEW st, NEW then \in {"raised", "pause"},
         Good(st), st.run # 0, Editing(c) => st.phase = "EXPORT",
         op[c].pc \notin {"idle", "start", "write", "publish"},
         Raise(c, st, then), UNCHANGED <<file, temp>>, BookInv', Grows, SideInv'
  PROVE  AutoInv'
<1>1. file.run # 0
  BY OpRow DEF RowFacts
<1>2. ASSUME NEW x, Good(x), x.run # 0, Write(c, x, then) PROVE AutoInv'
  <2>1. Good(x)'
    BY <1>2, GoodStays DEF AutoInv
  <2>2. /\ x \in RunState /\ Within(x) /\ Justified(x)' /\ (x.final => Mastered')
        /\ (x.status = "DONE" => x.phase = "DONE")
    BY <1>2, <2>1 DEF Good
  <2> QED BY <1>1, <1>2, <2>2, BookStep DEF Then
<1>3. CASE Editing(c)
  <2> PICK x : x = Reopened(NewAction(st))
    OBVIOUS
  <2>1. Write(c, x, then)
    BY <1>3 DEF Raise, FinalizationFails
  <2>2. Good(x) /\ x.run = st.run
    BY <1>3, ReopenedAnewIsGood
  <2> QED BY <1>2, <2>1, <2>2
<1>4. CASE ~Editing(c)
  <2> PICK x : x = Failed(st)
    OBVIOUS
  <2>1. Write(c, x, then)
    BY <1>4 DEF Raise
  <2>2. Good(x) /\ x.run = st.run
    BY <1>4, FailedIsGood
  <2> QED BY <1>2, <2>1, <2>2
<1> QED BY <1>3, <1>4

\* What is known of a request under way.
LEMMA AtWork ==
  ASSUME AutoInv, NEW c \in Client, op[c].pc \notin {"idle", "start"}
  PROVE  /\ Good(op[c].st) /\ op[c].st \in RunState /\ Within(op[c].st)
         /\ op[c].st.run \in 0..MaxRuns /\ op[c].st.run # 0
         /\ Editing(c) => op[c].st.phase = "EXPORT"
<1>1. RowFacts(op[c]) /\ Good(op[c].st)
  BY OpRow
<1>2. op[c].st \in RunState /\ Within(op[c].st) /\ op[c].st.run \in 0..MaxRuns
  BY <1>1, GoodRow
<1>3. op[c].st.run # 0
  BY <1>1 DEF RowFacts
<1>4. Editing(c) => op[c].st.phase = "EXPORT"
  BY <1>1 DEF RowFacts, Editing
<1> QED BY <1>1, <1>2, <1>3, <1>4

LEMMA AnswerStep ==
  ASSUME AutoInv, NEW c \in Client, Answer(c)
  PROVE  AutoInv'
<1> DEFINE pc == IF Editing(c) THEN "edit_answered" ELSE "answered"
<1>1. /\ op[c].pc \in {"ask", "edit_ask"} /\ Pay(op[c].st.run) /\ Goto(c, pc)
      /\ UNCHANGED <<file, temp, project, drive, runs, crashes, clean>>
  BY DEF Answer, Asking
<1>2. SideInv'
  BY <1>1, AtWork, PaySide
<1>3. pc \in {"answered", "edit_answered"}
  OBVIOUS
<1>4. op[c].pc = "ask" => pc = "answered"
  BY DEF Editing
<1>5. op[c].pc = "edit_ask" => pc = "edit_answered"
  BY DEF Editing
<1> HIDE DEF pc
<1>6. PICK o \in OpState : /\ op' = [op EXCEPT ![c] = o]
                           /\ o.pc = pc /\ o.then = op[c].then /\ o.st = op[c].st
  BY <1>1, <1>3, AtWork, GotoRow
<1>7. RowFacts(o)
  BY <1>1, <1>3, <1>4, <1>5, <1>6, OpRow DEF RowFacts
<1> QED BY <1>1, <1>2, <1>6, <1>7, OpStep

LEMMA OutcomeStep ==
  ASSUME AutoInv, NEW c \in Client,
         AnswerRefused(c) \/ (\E taken \in BOOLEAN : Disconnect(c, taken)) \/ Fail(c)
  PROVE  AutoInv'
<1> PICK st : st = op[c].st
  OBVIOUS
<1>1. PICK then \in {"raised", "pause"} :
        /\ op[c].pc \notin {"idle", "start", "write", "publish"} /\ Raise(c, st, then)
        /\ Pay(st.run) \/ UNCHANGED sent
        /\ clean' \subseteq clean /\ UNCHANGED <<file, temp, project, drive, runs, crashes>>
  <2>1. CASE AnswerRefused(c)
    <3>1. /\ op[c].pc \in {"ask", "edit_ask"} /\ Raise(c, st, "raised") /\ Pay(st.run)
          /\ clean' = clean \ {st.run} /\ UNCHANGED <<file, temp, project, drive, runs, crashes>>
      BY <2>1 DEF AnswerRefused, Asking
    <3> QED BY <3>1
  <2>2. ASSUME NEW taken \in BOOLEAN, Disconnect(c, taken)
        PROVE  /\ op[c].pc \in {"ask", "edit_ask"} /\ Raise(c, st, "pause")
               /\ Pay(st.run) \/ UNCHANGED sent
               /\ UNCHANGED <<file, temp, project, drive, runs, crashes, clean>>
    BY <2>2, Zenon DEF Disconnect, Asking
  <2>3. CASE Fail(c)
    <3>1. /\ Working(c) \/ op[c].pc \in {"edit_ask", "review", "master"}
          /\ Raise(c, st, "raised")
          /\ clean' = IF op[c].pc = "answered" THEN clean \ {st.run} ELSE clean
          /\ UNCHANGED <<file, temp, project, drive, runs, crashes, sent>>
      BY <2>3 DEF Fail
    <3> QED BY <3>1 DEF Working
  <2> QED BY <2>1, <2>2, <2>3
<1>2. Good(st) /\ st.run # 0 /\ st.run \in 0..MaxRuns /\ (Editing(c) => st.phase = "EXPORT")
  BY <1>1, AtWork
<1>3. SideInv'
  BY <1>1, <1>2, PaySide
<1>4. BookInv' /\ Grows
  BY <1>1, NothingGrows DEF AutoInv
<1> QED BY <1>1, <1>2, <1>3, <1>4, RaiseStep

LEMMA PauseStep ==
  ASSUME AutoInv, NEW c \in Client, Pause(c)
  PROVE  AutoInv'
<1> PICK f : f = file
  OBVIOUS
<1> DEFINE y == NewAction(f)
           z == Reserve(y)
           x == [z EXCEPT !.status = "RUNNING"]
<1>1. /\ op[c].pc = "pause" /\ Write(c, x, "raised")
      /\ UNCHANGED <<file, temp, project, drive, history>>
  BY DEF Pause
<1>2. Good(f) /\ f.run # 0
  BY <1>1, OpRow, FileRow DEF RowFacts
<1>3. /\ y \in RunState /\ Within(y) /\ y.run = f.run /\ y.status = f.status
      /\ y.phase = f.phase /\ y.chapter = f.chapter /\ (y.final => f.final)
  BY <1>2, GoodRow, NewActionRow
<1>4. Good(y)
  BY <1>2, <1>3, SameRun DEF Good
<1> HIDE DEF y
<1>5. Good(z) /\ z \in RunState /\ Within(z) /\ z.run = f.run
  BY <1>2, <1>3, <1>4, ChargedIsGood DEF Reserve
<1> HIDE DEF z
<1>6. /\ x \in RunState /\ Within(x) /\ x.run = z.run /\ x.status = "RUNNING"
      /\ x.phase = z.phase /\ x.chapter = z.chapter /\ x.final = z.final
  BY <1>5, WithStatus DEF RunStatus
<1> HIDE DEF x
<1>7. Good(x)
  BY <1>2, <1>5, <1>6, SameRun
<1>8. SideInv'
  BY <1>1, HistoryKept DEF AutoInv, SideInv
<1>9. file.run # 0 /\ x.run # 0
  BY <1>2, <1>5, <1>6
<1> QED BY <1>1, <1>7, <1>8, <1>9, WriteStep DEF Then

(***************************************************************************)
(* The first reads of advance.                                             *)
(***************************************************************************)
LEMMA ReadRow ==
  ASSUME AutoInv, NEW c \in Client, NEW pc \in {"ask", "approve", "export"},
         op[c].pc = "idle", GotoWith(c, pc, file)
  PROVE  \E o \in OpState : /\ op' = [op EXCEPT ![c] = o]
                            /\ o.pc = pc /\ o.then = "raised" /\ o.st = file
<1>1. file \in RunState /\ op[c].then = "raised"
  BY OpRow, FileRow, GoodRow DEF RowFacts
<1> QED BY <1>1, GotoRow

LEMMA AdvanceReadStep ==
  ASSUME AutoInv, NEW c \in Client,
         AdvanceOver(c) \/ AdvanceRefused(c) \/ AdvanceApprove(c) \/ AdvanceExport(c)
  PROVE  AutoInv'
<1>1. CASE AdvanceOver(c) \/ AdvanceRefused(c)
  <2>1. Respond(c, FALSE) /\ UNCHANGED <<file, temp, project, history>>
    BY <1>1 DEF AdvanceOver, AdvanceRefused
  <2> QED BY <2>1, RespondStep
<1>2. ASSUME NEW pc \in {"approve", "export"}, op[c].pc = "idle", file.status = "RUNNING",
             GotoWith(c, pc, file), pc = "export" => file.phase = "EXPORT",
             UNCHANGED <<file, temp, project, drive, history>>
      PROVE  AutoInv'
  <2>1. PICK o \in OpState : /\ op' = [op EXCEPT ![c] = o]
                             /\ o.pc = pc /\ o.then = "raised" /\ o.st = file
    BY <1>2, ReadRow
  <2>2. Good(file) /\ file.run # 0
    BY <1>2, FileRow
  <2>3. RowFacts(o)
    BY <1>2, <2>1, <2>2 DEF RowFacts
  <2>4. SideInv'
    BY <1>2, HistoryKept DEF AutoInv, SideInv
  <2> QED BY <1>2, <2>1, <2>3, <2>4, OpStep
<1>3. CASE AdvanceApprove(c)
  BY <1>2, <1>3 DEF AdvanceApprove, Running, Advancing
<1>4. CASE AdvanceExport(c)
  BY <1>2, <1>4 DEF AdvanceExport, Running, Advancing
<1> QED BY <1>1, <1>3, <1>4

LEMMA AdvanceAskStep ==
  ASSUME AutoInv, NEW c \in Client, AdvanceAsk(c)
  PROVE  AutoInv'
<1> PICK f : f = file
  OBVIOUS
<1>1. /\ op[c].pc = "idle" /\ file.status = "RUNNING" /\ HasCap(f) /\ GotoWith(c, "ask", file)
      /\ tasks' = IF f.phase = "CHAPTER_DRAFT" THEN tasks \union {f.chapter} ELSE tasks
      /\ UNCHANGED <<file, temp, contract, architecture, contracts, units, masters, drive, history>>
  BY DEF AdvanceAsk, Running, Advancing
<1>2. PICK o \in OpState : /\ op' = [op EXCEPT ![c] = o]
                           /\ o.pc = "ask" /\ o.then = "raised" /\ o.st = f
  BY <1>1, ReadRow
<1>3. Good(f) /\ f.run # 0 /\ f.chapter \in 0..Chapters
  BY <1>1, FileRow, GoodRow
<1>4. f.phase = "CHAPTER_DRAFT" => f.chapter \in Chapter
  BY <1>3, Limits DEF Good, Justified, Chapter
<1>5. BookInv'
  BY <1>1, <1>4 DEF AutoInv, BookInv, Chapter
<1>6. Grows
  <2>1. \A k \in Chapter : Len(units[k]) <= Len(units'[k])
    BY <1>1, LenProperties DEF AutoInv, BookInv
  <2> QED BY <1>1, <2>1 DEF Grows
<1>7. \A x : Good(x) => Good(x)'
  BY <1>5, <1>6, GoodStays DEF AutoInv
<1>8. FilesInv'
  BY <1>1, <1>7 DEF AutoInv, FilesInv
<1>9. SideInv'
  BY <1>1, HistoryKept DEF AutoInv, SideInv
<1>10. RowFacts(o)'
  BY <1>1, <1>2, <1>3, <1>7 DEF RowFacts, HasCap, Cap
<1> QED BY <1>1, <1>2, <1>5, <1>6, <1>8, <1>9, <1>10, StepTo

LEMMA AdvanceWriteStep ==
  ASSUME AutoInv, NEW c \in Client,
         AdvanceExhausted(c) \/ AdvanceContractReady(c) \/ AdvanceDone(c) \/ AdvanceFinalize(c)
  PROVE  AutoInv'
<1> PICK f : f = file
  OBVIOUS
<1>1. UNCHANGED <<file, temp, project, drive, history>> /\ f.status \in {"RUNNING", "DONE"}
  BY DEF AdvanceExhausted, AdvanceContractReady, AdvanceDone, AdvanceFinalize, Running
<1>2. Good(f) /\ f.run # 0 /\ f \in RunState /\ Within(f)
  BY <1>1, FileRow, GoodRow
<1>3. SideInv'
  BY <1>1, HistoryKept DEF AutoInv, SideInv
<1>4. ASSUME NEW x, NEW then \in Then \ {"started"}, Good(x), x.run = f.run,
             then = "list" => x.phase = "EXPORT", Write(c, x, then)
      PROVE  AutoInv'
  BY <1>1, <1>2, <1>3, <1>4, WriteStep
<1>5. CASE AdvanceExhausted(c)
  <2> PICK x : x = Failed(f)
    OBVIOUS
  <2>1. Write(c, x, "raised")
    BY <1>5 DEF AdvanceExhausted
  <2> QED BY <1>2, <1>4, <2>1, FailedIsGood DEF Then
<1>6. CASE AdvanceContractReady(c)
  <2> DEFINE x == [f EXCEPT !.phase = "CHAPTER_DRAFT"]
  <2>1. Write(c, x, "returned") /\ contracts[f.chapter] = "approved" /\ f.phase = "CHAPTER_CONTRACT"
        /\ f.status = "RUNNING"
    BY <1>6 DEF AdvanceContractReady, Running
  <2>2. /\ x \in RunState /\ Within(x) /\ x.run = f.run /\ x.phase = "CHAPTER_DRAFT"
        /\ x.chapter = f.chapter /\ x.status = f.status /\ x.final = f.final
    BY <1>2, PhaseRow DEF Phase
  <2> HIDE DEF x
  <2>3. Good(x)
    BY <1>2, <2>1, <2>2 DEF Good, Justified
  <2> QED BY <1>4, <2>1, <2>2, <2>3 DEF Then
<1>7. CASE AdvanceDone(c)
  <2> DEFINE x == [f EXCEPT !.status = "DONE"]
  <2>1. Write(c, x, "returned") /\ f.phase = "DONE"
    BY <1>7 DEF AdvanceDone, Running
  <2>2. /\ x \in RunState /\ Within(x) /\ x.run = f.run /\ x.phase = f.phase
        /\ x.chapter = f.chapter /\ x.status = "DONE" /\ x.final = f.final
    BY <1>2, WithStatus DEF RunStatus
  <2> HIDE DEF x
  <2>3. Good(x)
    BY <1>2, <2>1, <2>2, SameRun
  <2> QED BY <1>4, <2>1, <2>2, <2>3 DEF Then
<1>8. CASE AdvanceFinalize(c)
  <2> PICK x : x = Reopened(f)
    OBVIOUS
  <2>1. Write(c, x, "list") /\ f.status = "DONE"
    BY <1>8 DEF AdvanceFinalize
  <2>2. f.phase = "DONE"
    BY <1>2, <2>1 DEF Good
  <2> QED BY <1>2, <1>4, <2>1, <2>2, ReopenedIsGood DEF Then
<1> QED BY <1>5, <1>6, <1>7, <1>8

(***************************************************************************)
(* What each phase does to the book.                                       *)
(***************************************************************************)
\* A document saved or approved, and the copy with the next phase.
LEMMA PhaseStep ==
  ASSUME AutoInv, NEW c \in Client, op[c].pc \in {"answered", "approve", "export"},
         NEW st \in RunState, Within(st), st.run = op[c].st.run, Justified(st)',
         st.status = op[c].st.status, st.final = op[c].st.final, op[c].st.phase # "DONE",
         Write(c, st, "returned"), UNCHANGED <<file, temp>>, BookInv', Grows,
         UNCHANGED <<drive, history>>
  PROVE  AutoInv'
<1>1. RowFacts(op[c]) /\ Good(op[c].st)
  BY OpRow
<1>2. file.run # 0 /\ st.run # 0
  BY <1>1 DEF RowFacts
<1>3. st.status # "DONE" /\ (st.final => Mastered)
  BY <1>1 DEF Good
<1>4. SideInv'
  BY HistoryKept DEF AutoInv, SideInv
<1> QED BY <1>2, <1>3, <1>4, BookStep DEF Then

LEMMA ContractsGrow ==
  ASSUME BookInv, UNCHANGED <<tasks, units, masters>>,
         contract' \in Document, architecture' \in Document, contracts' \in [Chapter -> Document],
         contract # "none" => contract' # "none", contract = "approved" => contract' = "approved",
         architecture # "none" => architecture' # "none",
         architecture = "approved" => architecture' = "approved",
         \A k \in Chapter : /\ contracts[k] # "none" => contracts'[k] # "none"
                            /\ contracts[k] = "approved" => contracts'[k] = "approved",
         architecture' # "none" => contract' = "approved"
  PROVE  BookInv' /\ Grows
<1>1. \A k \in Chapter : Len(units[k]) <= Len(units'[k])
  BY LenProperties DEF BookInv
<1> QED BY <1>1 DEF BookInv, Grows, Chapter

LEMMA ChargeOfAnswer ==
  ASSUME AutoInv, NEW c \in Client, op[c].pc \in {"answered", "edit_answered"}
  PROVE  LET x == Charge(op[c].st) IN
         /\ Good(x) /\ x \in RunState /\ Within(x) /\ x.run = op[c].st.run
         /\ x.phase = op[c].st.phase /\ x.chapter = op[c].st.chapter
         /\ x.status = op[c].st.status /\ x.final = op[c].st.final
<1> PICK st : st = op[c].st
  OBVIOUS
<1>1. Good(st) /\ st.run # 0 /\ HasCap(st)
  BY OpRow DEF RowFacts
<1> QED BY <1>1, ChargedIsGood

\* What a phase stores or accepts: the tables of the book stay in their ranges and nothing is
\* taken back.
LEMMA DocumentsGrow ==
  ASSUME AutoInv, NEW c \in Client, UNCHANGED <<tasks, masters>>,
         \/ StoreContract(c) \/ StoreArchitecture(c) \/ StoreChapter(c)
         \/ AcceptContract(c) \/ AcceptArchitecture(c) \/ AcceptChapter(c)
  PROVE  BookInv' /\ Grows
<1> PICK st : st = op[c].st
  OBVIOUS
<1>1. op[c].pc \in {"answered", "approve"} /\ UNCHANGED <<tasks, units, masters>>
  BY DEF StoreContract, StoreArchitecture, StoreChapter, AcceptContract, AcceptArchitecture,
     AcceptChapter
<1>2. Good(st) /\ Justified(st)
  BY <1>1, AtWork DEF Good
<1>3. ASSUME NEW d \in Document
      PROVE  /\ Saved(d) \in Document /\ Saved(d) # "none"
             /\ d = "approved" => Saved(d) = "approved"
  BY DEF Saved, Document
<1>4. BookInv /\ "approved" \in Document
  BY DEF AutoInv, Document
<1>5. CASE StoreContract(c)
  BY <1>1, <1>3, <1>4, <1>5, ContractsGrow DEF BookInv, StoreContract
<1>6. CASE StoreArchitecture(c)
  <2>1. contract = "approved"
    BY <1>2, <1>6 DEF Justified, StoreArchitecture
  <2> QED BY <1>1, <1>3, <1>4, <1>6, <2>1, ContractsGrow DEF BookInv, StoreArchitecture
<1>7. CASE StoreChapter(c)
  <2>1. contracts' = [contracts EXCEPT ![st.chapter] = Saved(contracts[st.chapter])]
        /\ UNCHANGED <<contract, architecture>>
    BY <1>7 DEF StoreChapter
  <2> QED BY <1>1, <1>3, <1>4, <2>1, ContractsGrow DEF BookInv
<1>8. CASE AcceptContract(c)
  BY <1>1, <1>4, <1>8, ContractsGrow DEF BookInv, AcceptContract
<1>9. CASE AcceptArchitecture(c)
  BY <1>1, <1>4, <1>9, ContractsGrow DEF BookInv, AcceptArchitecture
<1>10. CASE AcceptChapter(c)
  <2>1. contracts' = [contracts EXCEPT ![st.chapter] = "approved"]
        /\ UNCHANGED <<contract, architecture>>
    BY <1>10 DEF AcceptChapter
  <2> QED BY <1>1, <1>4, <2>1, ContractsGrow DEF BookInv
<1> QED BY <1>5, <1>6, <1>7, <1>8, <1>9, <1>10

\* A draft adds a unit to a chapter that has a task.
LEMMA DraftGrows ==
  ASSUME AutoInv, NEW c \in Client, StoreDraft(c), UNCHANGED <<tasks, masters>>
  PROVE  /\ BookInv' /\ Grows
         /\ contract = "approved" /\ architecture = "approved" /\ op[c].st.phase = "CHAPTER_DRAFT"
<1> PICK st, k : st = op[c].st /\ k = st.chapter
  OBVIOUS
<1>1. /\ op[c].pc = "answered" /\ UNCHANGED <<contract, architecture, contracts, tasks, masters>>
  BY DEF StoreDraft
<1>2. /\ st.phase = "CHAPTER_DRAFT" /\ Len(units[k]) < MaxUnits
      /\ units' = [units EXCEPT ![k] = Append(units[k], "DRAFT")]
  BY Zenon DEF StoreDraft
<1>3. Good(st) /\ st.run # 0 /\ Justified(st) /\ RowFacts(op[c])
  BY <1>1, AtWork, OpRow DEF Good
<1>4. contract = "approved" /\ architecture = "approved" /\ k \in Chapter /\ k \in tasks
  <2>1. contract = "approved" /\ architecture = "approved" /\ k # 0
    BY <1>2, <1>3 DEF Justified
  <2>2. k \in 0..Chapters
    BY <1>3, GoodRow
  <2>3. k \in tasks
    BY <1>1, <1>2, <1>3 DEF RowFacts
  <2> QED BY <2>1, <2>2, <2>3, Limits DEF Chapter
<1>5. /\ BookInv /\ units[k] \in Seq({"DRAFT", "APPROVED"})
      /\ units \in [Chapter -> Seq({"DRAFT", "APPROVED"})]
  BY <1>4 DEF AutoInv, BookInv
<1>6. /\ units'[k] \in Seq({"DRAFT", "APPROVED"}) /\ Len(units'[k]) = Len(units[k]) + 1
       /\ Len(units[k]) \in Nat
  BY <1>2, <1>4, <1>5, AppendProperties, LenProperties
<1>7. \A j \in Chapter \ {k} : units'[j] = units[j]
  BY <1>2, <1>5
<1>8. units' \in [Chapter -> Seq({"DRAFT", "APPROVED"})]
  BY <1>2, <1>4, <1>5, <1>6
<1>9. BookInv'
  <2>1. \A j \in Chapter : Len(units'[j]) <= MaxUnits /\ (units'[j] # <<>> => j \in tasks)
    BY <1>2, <1>4, <1>5, <1>6, <1>7, Limits DEF BookInv
  <2> QED BY <1>1, <1>5, <1>8, <2>1 DEF BookInv, Chapter
<1>10. Grows
  <2>1. \A j \in Chapter : Len(units[j]) <= Len(units'[j])
    BY <1>5, <1>6, <1>7, LenProperties
  <2> QED BY <1>1, <2>1 DEF Grows
<1> QED BY <1>2, <1>4, <1>9, <1>10

LEMMA ProposeStep ==
  ASSUME AutoInv, NEW c \in Client,
         ProposeContract(c) \/ ProposeArchitecture(c) \/ ProposeChapter(c)
  PROVE  AutoInv'
<1> PICK st, y : st = op[c].st /\ y = Charge(st)
  OBVIOUS
<1>1. /\ op[c].pc = "answered" /\ UNCHANGED <<file, temp, tasks, units, masters, drive, history>>
  BY DEF ProposeContract, ProposeArchitecture, ProposeChapter, StoreContract, StoreArchitecture,
     StoreChapter, Onward
<1>2. /\ y \in RunState /\ Within(y) /\ y.run = st.run /\ y.phase = st.phase
      /\ y.chapter = st.chapter /\ y.status = st.status /\ y.final = st.final
  BY <1>1, ChargeOfAnswer
<1>3. Good(st) /\ st.run # 0 /\ Justified(st)
  BY <1>1, AtWork DEF Good
<1>4. ASSUME NEW d \in Document
      PROVE  /\ Saved(d) \in Document /\ Saved(d) # "none"
             /\ d = "approved" => Saved(d) = "approved"
  BY DEF Saved, Document
<1>5. BookInv
  BY DEF AutoInv
<1>6. ASSUME NEW p \in Phase, NEW x, x = [y EXCEPT !.phase = p]
      PROVE  /\ x \in RunState /\ Within(x) /\ x.run = st.run /\ x.phase = p
             /\ x.chapter = st.chapter /\ x.status = st.status /\ x.final = st.final
  BY <1>2, <1>6, PhaseRow
<1>7. CASE ProposeContract(c)
  <2> PICK x : x = [y EXCEPT !.phase = "APPROVE_BOOK_CONTRACT"]
    OBVIOUS
  <2>1. /\ st.phase = "BOOK_CONTRACT" /\ contract' = Saved(contract) /\ Write(c, x, "returned")
        /\ UNCHANGED <<architecture, contracts>>
    BY <1>7 DEF ProposeContract, StoreContract, Onward
  <2>2. /\ x \in RunState /\ Within(x) /\ x.run = st.run /\ x.phase = "APPROVE_BOOK_CONTRACT"
        /\ x.chapter = st.chapter /\ x.status = st.status /\ x.final = st.final
    <3>1. "APPROVE_BOOK_CONTRACT" \in Phase
      BY DEF Phase
    <3> QED BY <1>6, <3>1
  <2>3. BookInv' /\ Grows
    BY <1>1, <1>4, <1>5, <2>1, ContractsGrow DEF BookInv
  <2>4. Justified(x)'
    BY <1>4, <1>5, <2>1, <2>2 DEF Justified, BookInv
  <2> QED BY <1>1, <2>1, <2>2, <2>3, <2>4, PhaseStep
<1>8. CASE ProposeArchitecture(c)
  <2> PICK x : x = [y EXCEPT !.phase = "APPROVE_ARCHITECTURE"]
    OBVIOUS
  <2>1. /\ st.phase = "ARCHITECTURE" /\ architecture' = Saved(architecture)
        /\ Write(c, x, "returned") /\ UNCHANGED <<contract, contracts>>
    BY <1>8 DEF ProposeArchitecture, StoreArchitecture, Onward
  <2>2. /\ x \in RunState /\ Within(x) /\ x.run = st.run /\ x.phase = "APPROVE_ARCHITECTURE"
        /\ x.chapter = st.chapter /\ x.status = st.status /\ x.final = st.final
    BY <1>6 DEF Phase
  <2>3. contract = "approved"
    BY <1>3, <2>1 DEF Justified
  <2>4. BookInv' /\ Grows
    BY <1>1, <1>4, <1>5, <2>1, <2>3, ContractsGrow DEF BookInv
  <2>5. Justified(x)'
    BY <1>4, <1>5, <2>1, <2>2, <2>3 DEF Justified, BookInv
  <2> QED BY <1>1, <2>1, <2>2, <2>4, <2>5, PhaseStep
<1>9. CASE ProposeChapter(c)
  <2> PICK x, k : x = [y EXCEPT !.phase = "APPROVE_CHAPTER"] /\ k = st.chapter
    OBVIOUS
  <2>1. /\ st.phase = "CHAPTER_CONTRACT" /\ contracts' = [contracts EXCEPT ![k] = Saved(contracts[k])]
        /\ Write(c, x, "returned") /\ UNCHANGED <<contract, architecture>>
    BY <1>9 DEF ProposeChapter, StoreChapter, Onward
  <2>2. /\ x \in RunState /\ Within(x) /\ x.run = st.run /\ x.phase = "APPROVE_CHAPTER"
        /\ x.chapter = k /\ x.status = st.status /\ x.final = st.final
    <3>1. "APPROVE_CHAPTER" \in Phase
      BY DEF Phase
    <3> QED BY <1>6, <3>1
  <2>3. contract = "approved" /\ architecture = "approved" /\ k \in Chapter
    <3>1. contract = "approved" /\ architecture = "approved" /\ st.chapter # 0
      BY <1>3, <2>1 DEF Justified
    <3>2. st.chapter \in 0..Chapters
      BY <1>3, GoodRow
    <3> QED BY <3>1, <3>2, Limits DEF Chapter
  <2>4. BookInv' /\ Grows
    BY <1>1, <1>4, <1>5, <2>1, <2>3, ContractsGrow DEF BookInv
  <2>5. Justified(x)'
    BY <1>4, <1>5, <2>1, <2>2, <2>3, Limits DEF Justified, BookInv, Chapter
  <2> QED BY <1>1, <2>1, <2>2, <2>4, <2>5, PhaseStep
<1> QED BY <1>7, <1>8, <1>9

LEMMA ApproveStep ==
  ASSUME AutoInv, NEW c \in Client,
         ApproveContract(c) \/ ApproveArchitecture(c) \/ ApproveChapter(c)
  PROVE  AutoInv'
<1> PICK st : st = op[c].st
  OBVIOUS
<1>1. /\ op[c].pc = "approve" /\ UNCHANGED <<file, temp, tasks, units, masters, drive, history>>
  BY DEF ApproveContract, ApproveArchitecture, ApproveChapter, AcceptContract, AcceptArchitecture,
     AcceptChapter, Onward
<1>2. st \in RunState /\ Within(st) /\ Good(st) /\ st.run # 0 /\ Justified(st)
  BY <1>1, AtWork DEF Good
<1>3. BookInv /\ "approved" \in Document
  BY DEF AutoInv, Document
<1>4. ASSUME NEW p \in Phase, NEW x, x = [st EXCEPT !.phase = p]
      PROVE  /\ x \in RunState /\ Within(x) /\ x.run = st.run /\ x.phase = p
             /\ x.chapter = st.chapter /\ x.status = st.status /\ x.final = st.final
  BY <1>2, <1>4, PhaseRow
<1>5. CASE ApproveContract(c)
  <2> PICK x : x = [st EXCEPT !.phase = "ARCHITECTURE"]
    OBVIOUS
  <2>1. /\ st.phase = "APPROVE_BOOK_CONTRACT" /\ contract' = "approved" /\ Write(c, x, "returned")
        /\ UNCHANGED <<architecture, contracts>>
    BY <1>5 DEF ApproveContract, AcceptContract, Onward
  <2>2. /\ x \in RunState /\ Within(x) /\ x.run = st.run /\ x.phase = "ARCHITECTURE"
        /\ x.chapter = st.chapter /\ x.status = st.status /\ x.final = st.final
    BY <1>4 DEF Phase
  <2>3. BookInv' /\ Grows
    BY <1>1, <1>3, <2>1, ContractsGrow DEF BookInv
  <2>4. Justified(x)'
    BY <2>1, <2>2 DEF Justified
  <2> QED BY <1>1, <2>1, <2>2, <2>3, <2>4, PhaseStep
<1>6. CASE ApproveArchitecture(c)
  <2> PICK x : x = [st EXCEPT !.phase = "CHAPTER_CONTRACT", !.chapter = 1]
    OBVIOUS
  <2>1. /\ st.phase = "APPROVE_ARCHITECTURE" /\ contract = "approved" /\ architecture' = "approved"
        /\ Write(c, x, "returned") /\ UNCHANGED <<contract, contracts>>
    BY <1>6 DEF ApproveArchitecture, AcceptArchitecture, Onward
  <2>2. /\ x \in RunState /\ Within(x) /\ x.run = st.run /\ x.phase = "CHAPTER_CONTRACT"
        /\ x.chapter = 1 /\ x.status = st.status /\ x.final = st.final
    <3>1. "CHAPTER_CONTRACT" \in Phase /\ 1 \in 0..Chapters
      BY Limits DEF Phase
    <3> QED BY <1>2, <3>1 DEF RunState, Within
  <2>3. BookInv' /\ Grows
    BY <1>1, <1>3, <2>1, ContractsGrow DEF BookInv
  <2>4. Justified(x)'
    BY <2>1, <2>2 DEF Justified
  <2> QED BY <1>1, <2>1, <2>2, <2>3, <2>4, PhaseStep
<1>7. CASE ApproveChapter(c)
  <2> PICK x, k : x = [st EXCEPT !.phase = "CHAPTER_DRAFT"] /\ k = st.chapter
    OBVIOUS
  <2>1. /\ st.phase = "APPROVE_CHAPTER" /\ contracts' = [contracts EXCEPT ![k] = "approved"]
        /\ Write(c, x, "returned") /\ UNCHANGED <<contract, architecture>>
    BY <1>7 DEF ApproveChapter, AcceptChapter, Onward
  <2>2. /\ x \in RunState /\ Within(x) /\ x.run = st.run /\ x.phase = "CHAPTER_DRAFT"
        /\ x.chapter = k /\ x.status = st.status /\ x.final = st.final
    BY <1>4 DEF Phase
  <2>3. contract = "approved" /\ architecture = "approved" /\ k \in Chapter
    <3>1. contract = "approved" /\ architecture = "approved" /\ st.chapter # 0
      BY <1>2, <2>1 DEF Justified
    <3>2. st.chapter \in 0..Chapters
      BY <1>2, GoodRow
    <3> QED BY <3>1, <3>2, Limits DEF Chapter
  <2>4. BookInv' /\ Grows
    BY <1>1, <1>3, <2>1, <2>3, ContractsGrow DEF BookInv
  <2>5. Justified(x)'
    BY <1>3, <2>1, <2>2, <2>3, Limits DEF Justified, BookInv, Chapter
  <2> QED BY <1>1, <2>1, <2>2, <2>4, <2>5, PhaseStep
<1> QED BY <1>5, <1>6, <1>7

LEMMA DraftStep ==
  ASSUME AutoInv, NEW c \in Client, DraftChapter(c)
  PROVE  AutoInv'
<1> PICK st, y : st = op[c].st /\ y = Charge(st)
  OBVIOUS
<1> PICK n, p : n = FirstPending /\ p = IF n = 0 THEN "EXPORT" ELSE "CHAPTER_CONTRACT"
  OBVIOUS
<1> PICK x : x = [y EXCEPT !.chapter = n, !.phase = p]
  OBVIOUS
<1>1. /\ op[c].pc = "answered" /\ StoreDraft(c) /\ Write(c, x, "returned")
      /\ UNCHANGED <<file, temp, contract, architecture, contracts, tasks, masters, drive, history>>
  BY DEF DraftChapter, StoreDraft, Onward
<1>2. /\ y \in RunState /\ Within(y) /\ y.run = st.run /\ y.phase = st.phase
      /\ y.chapter = st.chapter /\ y.status = st.status /\ y.final = st.final
  BY <1>1, ChargeOfAnswer
<1>3. /\ BookInv' /\ Grows
      /\ contract = "approved" /\ architecture = "approved" /\ st.phase = "CHAPTER_DRAFT"
  BY <1>1, DraftGrows
<1>4. n \in 0..Chapters
  BY FirstPendingRow DEF AutoInv
<1>5. p \in Phase
  BY DEF Phase
<1>6. /\ x \in RunState /\ Within(x) /\ x.run = st.run /\ x.phase = p
      /\ x.chapter = n /\ x.status = st.status /\ x.final = st.final
  BY <1>2, <1>4, <1>5 DEF RunState, Within
<1>7. Justified(x)'
  BY <1>1, <1>3, <1>6 DEF Justified
<1> QED BY <1>1, <1>3, <1>6, <1>7, PhaseStep

\* An error once the document or the text is stored.
LEMMA FailStoredStep ==
  ASSUME AutoInv, NEW c \in Client, FailStored(c)
  PROVE  AutoInv'
<1> PICK st, y : st = op[c].st /\ y = Charge(st)
  OBVIOUS
<1>1. \/ /\ \/ StoreContract(c) \/ StoreArchitecture(c) \/ StoreChapter(c) \/ StoreDraft(c)
            \/ AcceptContract(c) \/ AcceptArchitecture(c) \/ AcceptChapter(c)
         /\ Raise(c, st, "raised")
      \/ StoreDraft(c) /\ Raise(c, y, "raised")
  BY DEF FailStored
<1>2. /\ clean' \subseteq clean
      /\ UNCHANGED <<file, temp, tasks, masters, drive, runs, crashes, sent>>
  BY DEF FailStored
<1>3. op[c].pc \in {"answered", "approve"} /\ (StoreDraft(c) => op[c].pc = "answered")
  BY <1>1 DEF StoreContract, StoreArchitecture, StoreChapter, StoreDraft, AcceptContract,
     AcceptArchitecture, AcceptChapter
<1>4. BookInv' /\ Grows
  BY <1>1, <1>2, DocumentsGrow, DraftGrows
<1>5. PICK x : Good(x) /\ x.run # 0 /\ Raise(c, x, "raised")
  <2>1. Good(st) /\ st.run # 0
    BY <1>3, AtWork
  <2>2. CASE Raise(c, st, "raised")
    BY <2>1, <2>2
  <2>3. CASE StoreDraft(c) /\ Raise(c, y, "raised")
    BY <1>3, <2>1, <2>3, ChargeOfAnswer
  <2> QED BY <1>1, <2>2, <2>3
<1>6. ~Editing(c)
  BY <1>3 DEF Editing
<1>7. SideInv'
  BY <1>2, HistoryKept DEF AutoInv, SideInv
<1> QED BY <1>2, <1>3, <1>4, <1>5, <1>6, <1>7, RaiseStep

LEMMA ExportStep ==
  ASSUME AutoInv, NEW c \in Client, Export(c)
  PROVE  AutoInv'
<1> PICK st : st = op[c].st
  OBVIOUS
<1> PICK x : x = [st EXCEPT !.status = "DONE", !.phase = "DONE", !.final = FALSE]
  OBVIOUS
<1>1. /\ op[c].pc = "export" /\ Write(c, x, "returned")
      /\ UNCHANGED <<file, temp, project, drive, history>>
  BY DEF Export
<1>2. RowFacts(op[c]) /\ Good(st) /\ st \in RunState /\ Within(st)
  BY OpRow, GoodRow
<1>3. st.run # 0 /\ file.run # 0 /\ st.phase = "EXPORT"
  BY <1>1, <1>2 DEF RowFacts
<1>4. /\ x \in RunState /\ Within(x) /\ x.run = st.run /\ x.phase = "DONE"
      /\ x.status = "DONE" /\ x.final = FALSE
  BY <1>2, DoneRow
<1>5. Good(x)
  BY <1>2, <1>3, <1>4 DEF Good, Justified
<1>6. SideInv'
  BY <1>1, HistoryKept DEF AutoInv, SideInv
<1> QED BY <1>1, <1>3, <1>4, <1>5, <1>6, WriteStep DEF Then

(***************************************************************************)
(* Finalization.                                                           *)
(***************************************************************************)
\* A request that only moves on, with another list of units or without.
LEMMA MoveStep ==
  ASSUME AutoInv, NEW c \in Client, NEW pc \in {"edit", "edit_ask", "review", "master"},
         NEW todo \in SUBSET Unit, op[c].pc \in {"list", "edit", "review"},
         pc = "edit_ask" => HasCap(op[c].st),
         op' = [op EXCEPT ![c].pc = pc, ![c].todo = todo],
         UNCHANGED <<file, temp, project, drive, history>>
  PROVE  AutoInv'
<1> DEFINE o == [op[c] EXCEPT !.pc = pc, !.todo = todo]
<1>1. op[c] \in OpState /\ op \in [Client -> OpState] /\ RowFacts(op[c])
  BY OpRow DEF AutoInv, OpsInv
<1>2. o \in OpState /\ o.pc = pc /\ o.then = op[c].then /\ o.st = op[c].st
  BY <1>1 DEF OpState
<1>3. op' = [op EXCEPT ![c] = o]
  BY <1>1
<1> HIDE DEF o
<1>4. RowFacts(o)
  BY <1>1, <1>2 DEF RowFacts
<1>5. SideInv'
  BY HistoryKept DEF AutoInv, SideInv
<1> QED BY <1>2, <1>3, <1>4, <1>5, OpStep

LEMMA ReviewStep ==
  ASSUME AutoInv, NEW c \in Client, NEW pc \in {"review", "master"},
         op[c].pc \in {"edit", "review"}, Goto(c, pc),
         UNCHANGED <<file, temp, project, drive, history>>
  PROVE  AutoInv'
<1>1. RowFacts(op[c]) /\ op[c].st \in RunState
  BY OpRow, GoodRow
<1>2. PICK o \in OpState : /\ op' = [op EXCEPT ![c] = o]
                           /\ o.pc = pc /\ o.then = op[c].then /\ o.st = op[c].st
  BY <1>1, GotoRow
<1>3. RowFacts(o)
  BY <1>1, <1>2 DEF RowFacts
<1>4. SideInv'
  BY HistoryKept DEF AutoInv, SideInv
<1> QED BY <1>2, <1>3, <1>4, OpStep

LEMMA BlockedStep ==
  ASSUME AutoInv, NEW c \in Client, op[c].pc \in {"list", "edit"}, Raise(c, op[c].st, "raised"),
         UNCHANGED <<file, temp, project, drive, history>>
  PROVE  AutoInv'
<1> PICK st : st = op[c].st
  OBVIOUS
<1>1. Good(st) /\ st.run # 0 /\ (Editing(c) => st.phase = "EXPORT")
  BY AtWork
<1>2. SideInv'
  BY HistoryKept DEF AutoInv, SideInv
<1>3. BookInv' /\ Grows
  BY NothingGrows DEF AutoInv
<1> QED BY <1>1, <1>2, <1>3, RaiseStep

LEMMA EditSteps ==
  ASSUME AutoInv, NEW c \in Client, ListUnits(c) \/ EditUnit(c) \/ ReviewPasses(c)
  PROVE  AutoInv'
<1>1. DraftUnits \subseteq Unit
  BY DEF DraftUnits
<1>2. CASE ListUnits(c)
  <2>1. op[c].pc = "list" /\ UNCHANGED <<file, temp, project, drive, history>>
    BY <1>2 DEF ListUnits
  <2>2. \/ op' = [op EXCEPT ![c].pc = "edit", ![c].todo = DraftUnits]
        \/ Raise(c, op[c].st, "raised")
    BY <1>2 DEF ListUnits
  <2> QED BY <1>1, <2>1, <2>2, MoveStep, BlockedStep
<1>3. CASE EditUnit(c)
  <2> DEFINE todo == op[c].todo \intersect DraftUnits
  <2>1. op[c].pc = "edit" /\ UNCHANGED <<file, temp, project, drive, history>>
    BY <1>3 DEF EditUnit
  <2>2. \/ Goto(c, "review")
        \/ HasCap(op[c].st) /\ op' = [op EXCEPT ![c].pc = "edit_ask", ![c].todo = todo]
        \/ Raise(c, op[c].st, "raised")
    BY <1>3 DEF EditUnit
  <2>3. todo \in SUBSET Unit
    BY <1>1
  <2> HIDE DEF todo
  <2> QED BY <2>1, <2>2, <2>3, ReviewStep, MoveStep, BlockedStep
<1>4. CASE ReviewPasses(c)
  BY <1>4, ReviewStep DEF ReviewPasses
<1> QED BY <1>2, <1>3, <1>4

LEMMA AcceptEditStep ==
  ASSUME AutoInv, NEW c \in Client, AcceptEdit(c)
  PROVE  AutoInv'
<1> PICK y : y = Charge(op[c].st)
  OBVIOUS
<1> PICK u : u = NextUnit(op[c].todo)
  OBVIOUS
<1>1. /\ op[c].pc = "edit_answered"
      /\ UNCHANGED <<file, temp, contract, architecture, contracts, tasks, masters, drive, history>>
  BY DEF AcceptEdit
<1>2. /\ Good(y) /\ y \in RunState /\ y.run = op[c].st.run /\ y.phase = op[c].st.phase
  BY <1>1, ChargeOfAnswer
<1>3. /\ op[c].st.run # 0 /\ op[c].st.phase = "EXPORT" /\ RowFacts(op[c])
  BY <1>1, OpRow DEF RowFacts
<1>4. SideInv'
  BY <1>1, HistoryKept DEF AutoInv, SideInv
<1>5. CASE UNCHANGED units /\ Raise(c, y, "raised")
  <2>1. BookInv' /\ Grows
    BY <1>1, <1>5, NothingGrows DEF AutoInv, project
  <2> QED BY <1>1, <1>2, <1>3, <1>4, <1>5, <2>1, RaiseStep
<1>6. CASE u \in DraftUnits /\ units' = [units EXCEPT ![u[1]][u[2]] = "APPROVED"] /\ GotoWith(c, "edit", y)
  <2> PICK k, i : k = u[1] /\ i = u[2]
    OBVIOUS
  <2>1. k \in Chapter /\ i \in DOMAIN units[k]
    BY <1>6 DEF DraftUnits, Unit
  <2>2. /\ units[k] \in Seq({"DRAFT", "APPROVED"})
        /\ units \in [Chapter -> Seq({"DRAFT", "APPROVED"})]
    BY <2>1 DEF AutoInv, BookInv
  <2> PICK s : s = [units[k] EXCEPT ![i] = "APPROVED"]
    OBVIOUS
  <2>3. units' = [units EXCEPT ![k] = s]
    BY <1>6, <2>1, <2>2
  <2>4. /\ s \in Seq({"DRAFT", "APPROVED"}) /\ Len(s) = Len(units[k]) /\ Len(s) \in Nat
        /\ units[k] # <<>>
    BY <2>1, <2>2, ExceptSeq, LenProperties, EmptySeq
  <2>5. units'[k] = s /\ \A j \in Chapter \ {k} : units'[j] = units[j]
    BY <2>1, <2>2, <2>3
  <2>6. BookInv'
    <3>1. units' \in [Chapter -> Seq({"DRAFT", "APPROVED"})]
      BY <2>1, <2>2, <2>3, <2>4
    <3>2. \A j \in Chapter : Len(units'[j]) <= MaxUnits /\ (units'[j] # <<>> => j \in tasks)
      BY <2>1, <2>4, <2>5 DEF AutoInv, BookInv
    <3> QED BY <1>1, <3>1, <3>2 DEF AutoInv, BookInv, Chapter
  <2>7. Grows
    <3>1. \A j \in Chapter : Len(units[j]) <= Len(units'[j])
      BY <2>2, <2>4, <2>5, LenProperties
    <3> QED BY <1>1, <3>1 DEF Grows
  <2>8. PICK o \in OpState : /\ op' = [op EXCEPT ![c] = o]
                             /\ o.pc = "edit" /\ o.then = op[c].then /\ o.st = y
    BY <1>2, <1>6, GotoRow
  <2>9. \A x : Good(x) => Good(x)'
    BY <2>6, <2>7, GoodStays DEF AutoInv
  <2>10. FilesInv'
    BY <1>1, <2>9 DEF AutoInv, FilesInv
  <2>11. RowFacts(o)'
    BY <1>1, <1>2, <1>3, <2>8, <2>9 DEF RowFacts
  <2> QED BY <1>1, <1>4, <2>6, <2>7, <2>8, <2>10, <2>11, StepTo
<1>7. \/ u \in DraftUnits /\ units' = [units EXCEPT ![u[1]][u[2]] = "APPROVED"] /\ GotoWith(c, "edit", y)
      \/ UNCHANGED units /\ Raise(c, y, "raised")
  BY Zenon DEF AcceptEdit
<1> QED BY <1>5, <1>6, <1>7

LEMMA LockStep ==
  ASSUME AutoInv, NEW c \in Client, LockMaster(c)
  PROVE  AutoInv'
<1> PICK st, m : st = op[c].st /\ m = [k \in Chapter |-> Len(units[k])]
  OBVIOUS
<1> PICK x : x = [st EXCEPT !.status = "DONE", !.phase = "DONE", !.final = TRUE]
  OBVIOUS
<1>1. /\ op[c].pc = "master" /\ ReleaseReady /\ masters' = masters \union {m}
      /\ Write(c, x, "finished") \/ Raise(c, st, "raised")
      /\ UNCHANGED <<file, temp, contract, architecture, contracts, tasks, units, drive, history>>
  BY DEF LockMaster
<1>2. RowFacts(op[c]) /\ Good(st) /\ st \in RunState /\ Within(st)
  BY OpRow, GoodRow
<1>3. st.run # 0 /\ file.run # 0 /\ st.phase = "EXPORT"
  BY <1>1, <1>2 DEF RowFacts
<1>4. \A k \in Chapter : Len(units[k]) \in 1..MaxUnits /\ units[k] \in Seq({"DRAFT", "APPROVED"})
  <2> TAKE k \in Chapter
  <2>1. units[k] # <<>> /\ units[k] \in Seq({"DRAFT", "APPROVED"}) /\ Len(units[k]) <= MaxUnits
    BY <1>1 DEF ReleaseReady, AutoInv, BookInv
  <2> QED BY <2>1, LenProperties, EmptySeq, Limits
<1>5. m \in [Chapter -> 0..MaxUnits]
  BY <1>4
<1>6. BookInv'
  BY <1>1, <1>5 DEF AutoInv, BookInv, Chapter
<1>7. Grows
  BY <1>1, <1>4 DEF Grows
<1>8. SideInv'
  BY <1>1, HistoryKept DEF AutoInv, SideInv
<1>9. CASE Raise(c, st, "raised")
  BY <1>1, <1>2, <1>3, <1>6, <1>7, <1>8, <1>9, RaiseStep
<1>10. CASE Write(c, x, "finished")
  <2>1. /\ x \in RunState /\ Within(x) /\ x.run = st.run /\ x.phase = "DONE"
        /\ x.status = "DONE" /\ x.final = TRUE
    BY <1>2, DoneRow
  <2>2. Mastered'
    <3>1. m \in masters' /\ \A k \in Chapter : m[k] \in 1..Len(units'[k])
      BY <1>1, <1>4
    <3> QED BY <3>1 DEF Mastered, Chapter
  <2>3. Justified(x)'
    BY <1>1, <2>1 DEF Justified, ReleaseReady
  <2> QED BY <1>1, <1>3, <1>6, <1>7, <1>8, <1>10, <2>1, <2>2, <2>3, BookStep DEF Then
<1> QED BY <1>1, <1>9, <1>10

(***************************************************************************)
(* The invariant.                                                          *)
(***************************************************************************)
LEMMA CrashStep ==
  ASSUME AutoInv, Crash
  PROVE  AutoInv'
<1>1. /\ op' = [c \in Client |-> Idle] /\ drive' = {} /\ crashes' = crashes + 1
      /\ crashes < MaxCrashes /\ clean' \subseteq clean
      /\ UNCHANGED <<file, temp, project, runs, sent>>
  BY DEF Crash
<1>2. BookInv' /\ Grows
  BY <1>1, NothingGrows DEF AutoInv
<1>3. \A x : Good(x) => Good(x)'
  BY <1>2, GoodStays DEF AutoInv
<1>4. FilesInv'
  BY <1>1, <1>3 DEF AutoInv, FilesInv
<1>5. SideInv'
  BY <1>1, Limits DEF AutoInv, SideInv
<1>6. PICK o : o = Idle
  OBVIOUS
<1>7. o \in OpState /\ RowFacts(o) /\ o.pc = "idle"
  BY <1>6, IdleRow
<1>8. RowFacts(o)'
  BY <1>3, <1>7 DEF RowFacts
<1>9. OpsInv'
  <2>1. op' = [c \in Client |-> o]
    BY <1>1, <1>6
  <2>2. \A c \in Client : op'[c] = o
    BY <2>1
  <2>3. ASSUME NEW c \in Client PROVE RowFacts(op[c])'
    BY <1>8, <2>2, <2>3 DEF RowFacts
  <2> QED BY <1>7, <2>1, <2>3 DEF OpsInv
<1> QED BY <1>2, <1>4, <1>5, <1>9 DEF AutoInv

LEMMA AutoStart == Init => AutoInv
<1> SUFFICES ASSUME Init PROVE AutoInv
  OBVIOUS
<1>1. BookInv
  BY Limits, EmptySeq, LenProperties DEF Init, BookInv, Document, Chapter
<1>2. SideInv
  BY Limits DEF Init, SideInv
<1>3. FilesInv
  BY NoRunIsGood DEF Init, FilesInv
<1>4. OpsInv
  BY IdleRow DEF Init, OpsInv
<1> QED BY <1>1, <1>2, <1>3, <1>4 DEF AutoInv

LEMMA AutoStep == AutoInv /\ [Next]_vars => AutoInv'
<1> SUFFICES ASSUME AutoInv, [Next]_vars PROVE AutoInv'
  OBVIOUS
<1>1. ASSUME NEW c \in Client, Handle(c) PROVE AutoInv'
  BY <1>1, AdvanceReadStep, AdvanceAskStep, AdvanceWriteStep, AnswerStep, OutcomeStep, PauseStep,
     ProposeStep, DraftStep, ApproveStep, FailStoredStep, ExportStep, EditSteps, AcceptEditStep,
     LockStep, WriteTempStep, PublishStep, PublishLostStep DEF Handle
<1>2. CASE Crash
  BY <1>2, CrashStep
<1>3. CASE UNCHANGED vars
  <2>1. BookInv' /\ UNCHANGED <<file, temp, op, history, drive>>
    BY <1>3, NothingGrows DEF vars, AutoInv
  <2>2. Grows
    BY <1>3, NothingGrows DEF vars, AutoInv
  <2>3. \A x : Good(x) => Good(x)'
    BY <2>1, <2>2, GoodStays DEF AutoInv
  <2>4. FilesInv' /\ SideInv'
    BY <2>1, <2>3, HistoryKept DEF AutoInv, FilesInv, SideInv
  <2>5. UNCHANGED tasks
    BY <1>3 DEF vars, project
  <2>6. OpsInv'
    BY <2>1, <2>3, <2>5 DEF AutoInv, OpsInv, RowFacts, HasCap, Cap
  <2> QED BY <2>1, <2>4, <2>6 DEF AutoInv
<1> QED BY <1>1, <1>2, <1>3, StartStep DEF Next

(***************************************************************************)
(* The theorems.                                                           *)
(***************************************************************************)
\* For any clients, chapters and limits, the state file, the temporary file and every request in
\* flight hold a well-formed run, and the tables of the book stay within their ranges (auto_book.py,
\* projects.py).
THEOREM AutoBookTypeCorrect == Spec => []TypeOK
<1>1. AutoInv => TypeOK
  BY GoodRow DEF AutoInv, BookInv, SideInv, FilesInv, OpsInv, TypeOK
<1> QED BY <1>1, AutoStart, AutoStep, PTL DEF Spec

\* For any limits the owner gives and any number of windows, no copy of the run ever charges more
\* requests or more cost than was authorized (_remaining_call_cap, pause_after_provider_disconnect).
THEOREM AuthorizationHolds == Spec => []WithinAuthorization
<1>1. AutoInv => WithinAuthorization
  <2> SUFFICES ASSUME AutoInv PROVE WithinAuthorization
    OBVIOUS
  <2>1. Within(file) /\ Within(temp) /\ \A c \in Client : Within(op[c].st)
    BY OpRow, GoodRow DEF AutoInv, FilesInv
  <2> QED BY <2>1 DEF WithinAuthorization, Within
<1> QED BY <1>1, AutoStart, AutoStep, PTL DEF Spec

\* For any number of windows, runs, stops and crashes, the run never stands at a step whose
\* prerequisite is missing (start, advance).
THEOREM PhasesAreJustified == Spec => []PhaseJustified
<1>1. AutoInv => PhaseJustified
  BY FileRow DEF Good, Justified, PhaseJustified
<1> QED BY <1>1, AutoStart, AutoStep, PTL DEF Spec

\* For any number of windows, runs, stops and crashes, a run that says its Literary Master is locked
\* has one with text in every chapter (finalize_if_needed, finalization_complete).
THEOREM CompletedRunsAreMastered == Spec => []CompletedIsMastered
<1>1. AutoInv => CompletedIsMastered
  BY FileRow DEF Good, Mastered, CompletedIsMastered
<1> QED BY <1>1, AutoStart, AutoStep, PTL DEF Spec

(***************************************************************************)
(* One window.  The progress of a run and the charge for what was paid     *)
(* hold when a single window drives it, so the proofs assume OneWindow;    *)
(* the inductive invariant says how the copy a request works on stands to  *)
(* the file.  The request took it from the file and nobody writes the file *)
(* meanwhile, so it is never behind; it lacks at most the charge of the    *)
(* model request in hand; and the chapters below its own are all written,  *)
(* so that the next chapter pending is never an earlier one.               *)
(***************************************************************************)
OneWindow == \E c \in Client : Client = {c}

ChapterPhases == {"CHAPTER_CONTRACT", "APPROVE_CHAPTER", "CHAPTER_DRAFT"}

Below(st) == st.phase \in ChapterPhases => \A k \in Chapter : k < st.chapter => k \notin Pending

NotBefore(x, st) ==
  x.run = st.run /\ Rank(x) >= Rank(st) /\ x.used >= st.used /\ x.cost >= st.cost

\* The request holds no copy of the run in the file.
Waiting(o) == o.pc \in {"idle", "start"} \/ o.then = "started"

Owed(o) == IF o.pc \in {"answered", "edit_answered"} \/ o.then = "pause" THEN 1 ELSE 0

Paid(st, n) == st.run \in clean => sent[st.run] <= st.used + n

WindowFacts(o) ==
  /\ Below(o.st) /\ o.st.run <= runs
  /\ ~Waiting(o) => NotBefore(o.st, file)
  /\ o.then = "started" => o.st.run # file.run
  /\ o.pc = "publish" => temp = o.st
  /\ o.pc = "pause" => o.st = file /\ o.then = "pause"
  /\ o.then = "pause" => HasCap(o.st) /\ o.pc \in {"write", "publish", "pause"}
  /\ o.pc \notin {"idle", "start"} => Paid(o.st, Owed(o))
  /\ Waiting(o) => Paid(file, 0)

FileFacts == /\ Below(file) /\ file.run <= runs
             /\ \A r \in 1..MaxRuns : r > runs => sent[r] = 0

WindowInv == AutoInv /\ OneWindow /\ FileFacts /\ \A c \in Client : WindowFacts(op[c])

(***************************************************************************)
(* The stations of copies.                                                 *)
(***************************************************************************)
LEMMA RankOf ==
  ASSUME NEW st, Good(st), st.run # 0
  PROVE  /\ Rank(st) \in Int /\ Rank(st) <= 4 + 3 * Chapters
         /\ st.phase = "BOOK_CONTRACT" => Rank(st) = 0
         /\ st.phase = "APPROVE_BOOK_CONTRACT" => Rank(st) = 1
         /\ st.phase = "ARCHITECTURE" => Rank(st) = 2
         /\ st.phase = "APPROVE_ARCHITECTURE" => Rank(st) = 3
         /\ st.phase = "CHAPTER_CONTRACT" => Rank(st) = 1 + 3 * st.chapter
         /\ st.phase = "APPROVE_CHAPTER" => Rank(st) = 2 + 3 * st.chapter
         /\ st.phase = "CHAPTER_DRAFT" => Rank(st) = 3 + 3 * st.chapter
         /\ st.phase \in {"EXPORT", "DONE"} => Rank(st) = 4 + 3 * Chapters
<1>1. st.phase \in Phase /\ st.chapter \in 0..Chapters
  BY GoodRow
<1>2. /\ st.phase = "BOOK_CONTRACT" => Rank(st) = 0
      /\ st.phase = "APPROVE_BOOK_CONTRACT" => Rank(st) = 1
      /\ st.phase = "ARCHITECTURE" => Rank(st) = 2
      /\ st.phase = "APPROVE_ARCHITECTURE" => Rank(st) = 3
      /\ st.phase = "CHAPTER_CONTRACT" => Rank(st) = 1 + 3 * st.chapter
      /\ st.phase = "APPROVE_CHAPTER" => Rank(st) = 2 + 3 * st.chapter
      /\ st.phase = "CHAPTER_DRAFT" => Rank(st) = 3 + 3 * st.chapter
      /\ st.phase \in {"EXPORT", "DONE"} => Rank(st) = 4 + 3 * Chapters
  BY DEF Rank
<1> QED BY <1>1, <1>2, Limits DEF Phase

\* A copy with another status, or another note of its completion.
Alike(x, st) == /\ x.run = st.run /\ x.phase = st.phase /\ x.chapter = st.chapter
                /\ x.used = st.used /\ x.cost = st.cost

LEMMA AlikeRank ==
  ASSUME NEW st, NEW x, Alike(x, st)
  PROVE  Rank(x) = Rank(st) /\ (HasCap(st) => HasCap(x)) /\ (Below(st) => Below(x))
BY DEF Alike, Rank, HasCap, Cap, Below

LEMMA NotBeforeItself ==
  ASSUME NEW st, Good(st), st.run # 0, NEW x, Alike(x, st)
  PROVE  NotBefore(x, st)
<1>1. Rank(x) = Rank(st) /\ Rank(st) \in Int /\ st.used \in Nat /\ st.cost \in Nat
  BY AlikeRank, RankOf, GoodRow DEF RunState
<1> QED BY <1>1 DEF NotBefore, Alike

LEMMA NotBeforeTransitive ==
  ASSUME NEW x, Good(x), NEW y, Good(y), NEW z, Good(z), z.run # 0,
         NotBefore(x, y), NotBefore(y, z)
  PROVE  NotBefore(x, z)
<1>1. x.run # 0 /\ y.run # 0
  BY DEF NotBefore
<1>2. /\ Rank(x) \in Int /\ Rank(y) \in Int /\ Rank(z) \in Int
      /\ x.used \in Nat /\ y.used \in Nat /\ z.used \in Nat
      /\ x.cost \in Nat /\ y.cost \in Nat /\ z.cost \in Nat
  BY <1>1, RankOf, GoodRow DEF RunState
<1> QED BY <1>2 DEF NotBefore

LEMMA NewActionAlike ==
  ASSUME NEW st \in RunState
  PROVE  NewAction(st) \in RunState /\ Alike(NewAction(st), st)
<1> DEFINE f == st.final /\ st.litres
<1>1. f \in BOOLEAN
  BY Zenon
<1>2. NewAction(st) = [st EXCEPT !.final = f]
  BY DEF NewAction
<1> HIDE DEF f
<1> QED BY <1>1, <1>2 DEF RunState, Alike

LEMMA StatusAlike ==
  ASSUME NEW st \in RunState, NEW s \in RunStatus
  PROVE  [st EXCEPT !.status = s] \in RunState /\ Alike([st EXCEPT !.status = s], st)
BY DEF RunState, Alike

LEMMA FailedAlike ==
  ASSUME NEW st \in RunState
  PROVE  Alike(Failed(st), st)
<1> DEFINE y == NewAction(st)
<1>1. y \in RunState /\ Alike(y, st) /\ "FAILED" \in RunStatus
  BY NewActionAlike DEF RunStatus
<1>2. Failed(st) = [y EXCEPT !.status = "FAILED"]
  BY DEF Failed
<1> HIDE DEF y
<1>3. Alike([y EXCEPT !.status = "FAILED"], y)
  BY <1>1, StatusAlike
<1> QED BY <1>1, <1>2, <1>3 DEF Alike

\* The charge goes up by one request and by what it may cost.
LEMMA ChargeMore ==
  ASSUME NEW st \in RunState, Within(st), HasCap(st)
  PROVE  LET x == Charge(st) IN
         /\ x.used = st.used + 1 /\ x.cost >= st.cost
         /\ x.run = st.run /\ x.phase = st.phase /\ x.chapter = st.chapter
<1>1. st.used \in Nat /\ st.cost \in Nat
  BY DEF RunState
<1> DEFINE u == st.used + 1
           v == st.cost + Cap(st)
<1>2. v >= st.cost /\ u \in Nat /\ v \in Nat
  <2>1. MaxTotalCost - st.cost \in Int /\ MaxRequestCost \in Int
    BY <1>1, Limits
  <2>2. Cap(st) \in Int /\ Cap(st) > 0
    BY <2>1, MinOfTwo DEF Cap, HasCap
  <2> QED BY <1>1, <2>2
<1>3. u = st.used + 1
  OBVIOUS
<1> HIDE DEF u, v
<1>4. Charge(st) = [st EXCEPT !.used = u, !.cost = v]
  BY DEF Charge, u, v
<1> QED BY <1>2, <1>3, <1>4 DEF RunState

LEMMA ChargeNotBefore ==
  ASSUME NEW st, Good(st), st.run # 0, HasCap(st)
  PROVE  /\ Good(Charge(st)) /\ NotBefore(Charge(st), st) /\ Charge(st).used = st.used + 1
         /\ Charge(st).phase = st.phase /\ Charge(st).chapter = st.chapter
         /\ Rank(Charge(st)) = Rank(st) /\ (Below(st) => Below(Charge(st)))
<1>1. PICK x : x = Charge(st)
  OBVIOUS
<1>2. /\ x.used = st.used + 1 /\ x.cost >= st.cost /\ Good(x)
      /\ x.run = st.run /\ x.phase = st.phase /\ x.chapter = st.chapter
  BY <1>1, GoodRow, ChargeMore, ChargedIsGood
<1>3. Rank(x) = Rank(st) /\ (Below(st) => Below(x))
  BY <1>2 DEF Rank, Below
<1>4. Rank(st) \in Int
  BY RankOf
<1>5. st.used \in Nat
  BY GoodRow DEF RunState
<1> QED BY <1>1, <1>2, <1>3, <1>4, <1>5 DEF NotBefore

\* Finished, or reopened for its finalization, a run stands at the last station.
LEMMA LastStation ==
  ASSUME NEW st, Good(st), st.run # 0, NEW x, x.run = st.run,
         x.phase \in {"EXPORT", "DONE"}, x.used >= st.used, x.cost >= st.cost
  PROVE  NotBefore(x, st) /\ Below(x) /\ Rank(x) \in Int
<1>1. Rank(x) = 4 + 3 * Chapters
  BY DEF Rank
<1>2. Rank(x) >= Rank(st) /\ Rank(x) \in Int
  BY <1>1, RankOf, Limits
<1> QED BY <1>2 DEF NotBefore, Below, ChapterPhases

LEMMA ReopenedFields ==
  ASSUME NEW st \in RunState
  PROVE  LET x == Reopened(st) IN
         x.run = st.run /\ x.phase = "EXPORT" /\ x.used = st.used /\ x.cost = st.cost
BY DEF Reopened, RunState

\* The next chapter pending lies above every chapter that is not.
LEMMA NextChapter ==
  ASSUME BookInv
  PROVE  /\ FirstPending \in 0..Chapters
         /\ FirstPending # 0 => \A k \in Chapter : k < FirstPending => k \notin Pending
         /\ FirstPending # 0 => FirstPending \in Pending
<1>1. FirstPending \in 0..Chapters
  BY FirstPendingRow
<1>2. Pending \subseteq Nat /\ Chapter \subseteq Nat
  BY Limits DEF Pending, Chapter
<1>3. ASSUME FirstPending # 0
      PROVE  FirstPending \in Pending /\ \A k \in Pending : FirstPending <= k
  BY <1>2, <1>3, LeastExists DEF FirstPending
<1> QED BY <1>1, <1>2, <1>3

(***************************************************************************)
(* Steps of the one window.                                                *)
(***************************************************************************)
LEMMA PendingShrinks ==
  ASSUME AutoInv, AutoInv', Grows
  PROVE  Pending' \subseteq Pending
BY DEF Pending, Grows

LEMMA SamePending ==
  ASSUME UNCHANGED <<contracts, tasks>>
  PROVE  Pending' = Pending
BY DEF Pending, Chapter

LEMMA BelowStays ==
  ASSUME NEW st, Below(st), Pending' \subseteq Pending
  PROVE  Below(st)'
BY DEF Below

LEMMA WindowTo ==
  ASSUME WindowInv, AutoInv', NEW c \in Client, NEW o, op' = [op EXCEPT ![c] = o],
         FileFacts', WindowFacts(o)'
  PROVE  WindowInv'
<1>1. \A d \in Client : op'[d] = o
  BY DEF WindowInv, OneWindow, AutoInv, OpsInv
<1>2. ASSUME NEW d \in Client
      PROVE  WindowFacts(op[d])'
  BY <1>1 DEF WindowFacts
<1> QED BY <1>2 DEF WindowInv

LEMMA WindowOf ==
  ASSUME WindowInv, NEW c \in Client
  PROVE  /\ AutoInv /\ FileFacts /\ WindowFacts(op[c]) /\ RowFacts(op[c])
         /\ Good(op[c].st) /\ Good(file)
         /\ op[c].pc \notin {"idle", "start"} => op[c].st.run # 0
         /\ ~Waiting(op[c]) => file.run # 0
BY OpRow, FileRow DEF WindowInv, RowFacts, Waiting

\* What is paid and which runs are clean: a payment for the run at hand, and nothing else.
PaysFor(r) == /\ clean' \subseteq clean
              /\ UNCHANGED sent \/ Pay(r)

LEMMA PayCounts ==
  ASSUME AutoInv, NEW r \in 1..MaxRuns, PaysFor(r)
  PROVE  /\ sent[r] \in Nat /\ sent'[r] \in Nat /\ sent'[r] <= sent[r] + 1
         /\ \A q \in 1..MaxRuns : q # r => sent'[q] = sent[q]
<1> PICK a, b : a = sent[r] + 1 /\ b = MaxRequests + 1
  OBVIOUS
<1> PICK n : n = Min({a, b})
  OBVIOUS
<1>1. sent \in [1..MaxRuns -> 0..MaxRequests + 1]
  BY DEF AutoInv, SideInv
<1>2. a \in Int /\ b \in Int /\ a >= 0 /\ sent[r] \in Nat
  BY <1>1, Limits
<1>3. n \in {a, b} /\ n <= a /\ n \in Nat
  <2>1. n \in {a, b} /\ n <= a /\ n \in Int
    BY <1>2, MinOfTwo
  <2>2. a >= 0 /\ b >= 0
    BY <1>2, Limits
  <2> QED BY <2>1, <2>2
<1>4. CASE Pay(r)
  <2>1. sent' = [sent EXCEPT ![r] = n]
    BY <1>4 DEF Pay
  <2> QED BY <1>1, <1>2, <1>3, <2>1
<1>5. CASE UNCHANGED sent
  BY <1>1, <1>2, <1>5
<1> QED BY <1>4, <1>5 DEF PaysFor

\* The file stays while the run at hand may be paid for.
LEMMA FileStays ==
  ASSUME WindowInv, NEW r, r \in 1..MaxRuns => r <= runs,
         UNCHANGED <<file, runs>>, Pending' \subseteq Pending,
         PaysFor(r) \/ UNCHANGED <<sent, clean>>
  PROVE  FileFacts'
<1>1. Below(file)'
  <2>1. PICK f : f = file
    OBVIOUS
  <2> QED BY <2>1, BelowStays DEF WindowInv, FileFacts, Below
<1>2. \A q \in 1..MaxRuns : q > runs => sent'[q] = 0
  <2>1. CASE r \in 1..MaxRuns /\ PaysFor(r)
    <3>1. \A q \in 1..MaxRuns : q # r => sent'[q] = sent[q]
      BY <2>1, PayCounts DEF WindowInv
    <3>2. runs \in Nat
      BY Limits DEF WindowInv, AutoInv, SideInv
    <3> QED BY <2>1, <3>1, <3>2 DEF WindowInv, FileFacts
  <2>2. CASE r \notin 1..MaxRuns /\ PaysFor(r)
    <3>1. sent \in [1..MaxRuns -> 0..MaxRequests + 1]
      BY DEF WindowInv, AutoInv, SideInv
    <3>2. \A q \in 1..MaxRuns : sent'[q] = sent[q]
      BY <2>2, <3>1 DEF PaysFor, Pay
    <3> QED BY <3>2 DEF WindowInv, FileFacts
  <2>3. CASE UNCHANGED <<sent, clean>>
    BY <2>3 DEF WindowInv, FileFacts
  <2> QED BY <2>1, <2>2, <2>3
<1> QED BY <1>1, <1>2 DEF WindowInv, FileFacts

\* The request goes on with the copy it has, or with the one it reads from the file.
LEMMA GoesOn ==
  ASSUME WindowInv, AutoInv', NEW c \in Client, NEW o, op' = [op EXCEPT ![c] = o],
         \/ ~Waiting(op[c]) /\ NotBefore(o.st, op[c].st) /\ Below(o.st)
         \/ op[c].pc = "idle" /\ o.st = file /\ file.run # 0,
         Good(o.st), ~Waiting(o), o.pc \notin {"publish", "pause"}, o.then # "pause",
         Paid(o.st, Owed(o))', PaysFor(o.st.run), UNCHANGED <<file, runs>>,
         Pending' \subseteq Pending
  PROVE  WindowInv'
<1>1. WindowFacts(op[c]) /\ FileFacts /\ AutoInv /\ Good(file) /\ Good(op[c].st)
  BY WindowOf
<1>2. NotBefore(o.st, file) /\ o.st.run <= runs
  <2>1. CASE ~Waiting(op[c]) /\ NotBefore(o.st, op[c].st)
    <3>1. NotBefore(op[c].st, file) /\ file.run # 0 /\ op[c].st.run <= runs
      BY <1>1, <2>1, WindowOf DEF WindowFacts
    <3>2. PICK y, z : y = op[c].st /\ z = file
      OBVIOUS
    <3>3. NotBefore(o.st, z)
      BY <1>1, <2>1, <3>1, <3>2, NotBeforeTransitive
    <3> QED BY <2>1, <3>1, <3>2, <3>3 DEF NotBefore
  <2>2. CASE op[c].pc = "idle" /\ o.st = file /\ file.run # 0
    <3>1. PICK z : z = file
      OBVIOUS
    <3>2. NotBefore(z, z)
      BY <1>1, <2>2, <3>1, NotBeforeItself DEF Alike
    <3> QED BY <1>1, <2>2, <3>1, <3>2 DEF FileFacts
  <2> QED BY <2>1, <2>2
<1>3. Below(o.st)
  BY <1>1 DEF FileFacts
<1>4. PICK x : x = o.st
  OBVIOUS
<1>5. Below(x)' /\ NotBefore(x, file)'
  BY <1>2, <1>3, <1>4, BelowStays DEF NotBefore, Rank
<1>6. FileFacts'
  BY <1>2, FileStays
<1>7. WindowFacts(o)'
  BY <1>2, <1>4, <1>5 DEF WindowFacts, Waiting, Below, NotBefore, Rank
<1> QED BY <1>6, <1>7, WindowTo

\* The request is to write x, made from its copy or from the file.
LEMMA WritesOn ==
  ASSUME WindowInv, AutoInv', NEW c \in Client, NEW x, NEW then \in Then \ {"started"},
         Write(c, x, then), NotBefore(x, file), Below(x) \/ Below(x)',
         then = "pause" => HasCap(x), file.run # 0,
         Paid(x, IF then = "pause" THEN 1 ELSE 0)', PaysFor(x.run), UNCHANGED <<file, runs>>,
         Pending' \subseteq Pending
  PROVE  WindowInv'
<1>1. FileFacts /\ AutoInv
  BY DEF WindowInv
<1>2. x.run <= runs
  BY <1>1 DEF NotBefore, FileFacts
<1>3. FileFacts'
  BY <1>2, FileStays
<1> DEFINE o == [Idle EXCEPT !.pc = "write", !.then = then, !.st = x]
<1>4. op' = [op EXCEPT ![c] = o]
  BY DEF Write
<1>5. o.pc = "write" /\ o.then = then /\ o.st = x
  BY DEF Idle
<1> HIDE DEF o
<1>6. Below(x)' /\ NotBefore(x, file)'
  BY BelowStays DEF NotBefore, Rank
<1>7. PICK y : y = o
  OBVIOUS
<1>8. WindowFacts(y)'
  <2>1. Owed(y) = IF then = "pause" THEN 1 ELSE 0
    BY <1>5, <1>7 DEF Owed
  <2>2. Paid(y.st, Owed(y))'
    BY <1>5, <1>7, <2>1 DEF Paid, Owed
  <2> QED BY <1>2, <1>5, <1>6, <1>7, <2>2 DEF WindowFacts, Waiting, HasCap, Cap
<1> QED BY <1>3, <1>4, <1>7, <1>8, WindowTo

LEMMA Responds ==
  ASSUME WindowInv, AutoInv', NEW c \in Client, NEW b, Respond(c, b),
         UNCHANGED <<file, contracts, tasks, history>>, Waiting(op[c])
  PROVE  WindowInv'
<1>1. op' = [op EXCEPT ![c] = Idle] /\ UNCHANGED <<runs, sent, clean>>
  BY DEF Respond, history
<1>2. Pending' = Pending
  BY SamePending
<1>3. WindowFacts(op[c]) /\ FileFacts
  BY DEF WindowInv
<1>4. FileFacts'
  BY <1>1, <1>2, <1>3 DEF FileFacts, Below
<1>5. PICK o : o = Idle
  OBVIOUS
<1>6. /\ o.pc = "idle" /\ o.then = "raised" /\ o.st.phase = "DONE" /\ o.st.run = 0
  BY <1>5 DEF Idle, NoRun
<1>7. WindowFacts(o)'
  BY <1>1, <1>3, <1>6, Limits
     DEF WindowFacts, Waiting, Below, ChapterPhases, Paid, WindowInv, AutoInv, SideInv
<1> QED BY <1>1, <1>4, <1>5, <1>7, WindowTo

\* A step that raises records a failure, or reopens the finalization; the charge stays st's.
LEMMA RaisesOn ==
  ASSUME WindowInv, AutoInv', NEW c \in Client, NEW st, NEW then \in {"raised", "pause"},
         Good(st), st.run # 0, Below(st), NotBefore(st, op[c].st), ~Waiting(op[c]),
         Editing(c) => st.phase = "EXPORT", Raise(c, st, then),
         then = "pause" => HasCap(st),
         Paid(st, IF then = "pause" THEN 1 ELSE 0)', PaysFor(st.run), UNCHANGED <<file, runs>>,
         Pending' \subseteq Pending
  PROVE  WindowInv'
<1>1. Good(file) /\ file.run # 0 /\ Good(op[c].st) /\ NotBefore(op[c].st, file)
  BY WindowOf DEF WindowFacts
<1>2. NotBefore(st, file)
  <2>1. PICK y, z : y = op[c].st /\ z = file
    OBVIOUS
  <2> QED BY <1>1, <2>1, NotBeforeTransitive
<1>3. ASSUME NEW x, Good(x), NotBefore(x, st), x.run = st.run, x.used = st.used,
             x.cost = st.cost, Below(x), Write(c, x, then)
      PROVE  WindowInv'
  <2>1. NotBefore(x, file)
    <3>1. PICK z : z = file
      OBVIOUS
    <3> QED BY <1>1, <1>2, <1>3, <3>1, NotBeforeTransitive
  <2>2. then = "pause" => HasCap(x)
    BY <1>3 DEF HasCap, Cap
  <2>3. Paid(x, IF then = "pause" THEN 1 ELSE 0)'
    BY <1>3 DEF Paid
  <2> QED BY <1>1, <1>3, <2>1, <2>2, <2>3, WritesOn DEF Then
<1>4. CASE Editing(c)
  <2> PICK y : y = NewAction(st)
    OBVIOUS
  <2> PICK x : x = Reopened(y)
    OBVIOUS
  <2>1. Write(c, x, then)
    BY <1>4 DEF Raise, FinalizationFails
  <2>2. Good(x)
    BY <1>4, ReopenedAnewIsGood
  <2>3. /\ x.run = st.run /\ x.phase = "EXPORT" /\ x.used = st.used /\ x.cost = st.cost
    BY GoodRow, NewActionAlike, ReopenedFields DEF Alike
  <2>4. st.used \in Nat /\ st.cost \in Nat
    BY GoodRow DEF RunState
  <2>5. NotBefore(x, st) /\ Below(x)
    BY <2>2, <2>3, <2>4, LastStation
  <2> QED BY <1>3, <2>1, <2>2, <2>3, <2>5
<1>5. CASE ~Editing(c)
  <2> PICK x : x = Failed(st)
    OBVIOUS
  <2>1. Write(c, x, then)
    BY <1>5 DEF Raise
  <2>2. Good(x) /\ Alike(x, st)
    BY FailedIsGood, GoodRow, FailedAlike
  <2>3. NotBefore(x, st) /\ Below(x)
    BY <2>2, NotBeforeItself, AlikeRank
  <2> QED BY <1>3, <2>1, <2>2, <2>3 DEF Alike
<1> QED BY <1>4, <1>5

LEMMA ItselfNotBefore ==
  ASSUME WindowInv, NEW c \in Client, op[c].pc \notin {"idle", "start"}
  PROVE  NotBefore(op[c].st, op[c].st)
<1>1. PICK st : st = op[c].st
  OBVIOUS
<1> QED BY <1>1, WindowOf, NotBeforeItself DEF Alike

\* At the start of a request, and of start itself.
LEMMA WindowStarts ==
  ASSUME WindowInv, AutoInv', NEW c \in Client,
         StartRead(c) \/ (\E litres \in BOOLEAN : StartWrite(c, litres)) \/ Stop(c) \/ Continue(c)
  PROVE  WindowInv'
<1>1. WindowFacts(op[c]) /\ FileFacts /\ AutoInv /\ Good(file) /\ RowFacts(op[c])
  BY WindowOf
<1>2. CASE StartRead(c)
  <2>1. /\ op[c].pc = "idle" /\ Goto(c, "start")
        /\ UNCHANGED <<file, temp, contracts, tasks, runs, sent, clean>>
    BY <1>2 DEF StartRead, project, history
  <2>2. PICK o : /\ op' = [op EXCEPT ![c] = o]
                 /\ o.pc = "start" /\ o.then = op[c].then /\ o.st = op[c].st
    BY <1>1, <2>1, GotoRow, OpRow, GoodRow
  <2>3. Pending' = Pending
    BY <2>1, SamePending
  <2>4. FileFacts'
    BY <1>1, <2>1, <2>3 DEF FileFacts, Below
  <2>5. WindowFacts(o)'
    BY <1>1, <2>1, <2>2, <2>3 DEF WindowFacts, Waiting, RowFacts, Paid, Below
  <2> QED BY <2>2, <2>4, <2>5, WindowTo
<1>3. ASSUME NEW litres \in BOOLEAN, StartWrite(c, litres)
      PROVE  WindowInv'
  <2> DEFINE k == IF architecture = "approved" THEN FirstPending ELSE 0
             x == [NoRun EXCEPT !.run = runs + 1, !.status = "RUNNING", !.phase = ResumePhase,
                                !.chapter = k, !.litres = litres]
             o == [Idle EXCEPT !.pc = "write", !.then = "started", !.st = x]
  <2>1. /\ op[c].pc = "start" /\ op' = [op EXCEPT ![c] = o] /\ runs < MaxRuns /\ runs' = runs + 1
        /\ UNCHANGED <<file, temp, contracts, tasks, sent, clean>>
    BY <1>3 DEF StartWrite, Write, project
  <2>2. /\ x.run = runs + 1 /\ x.phase = ResumePhase /\ x.chapter = k /\ x.used = 0
    BY DEF NoRun
  <2>3. runs \in 0..MaxRuns /\ file.run <= runs /\ sent[runs + 1] = 0 /\ file.run \in Nat
    BY <1>1, <2>1, GoodRow, Limits DEF AutoInv, SideInv, FileFacts
  <2>4. o.pc = "write" /\ o.then = "started" /\ o.st = x
    BY DEF Idle
  <2>5. Below(x)
    <3>1. ResumePhase \in ChapterPhases => k = FirstPending /\ k # 0
      <4>1. /\ contract \in Document /\ architecture \in Document
            /\ architecture # "none" => contract = "approved"
        BY <1>1 DEF AutoInv, BookInv
      <4>2. architecture = "approved" /\ FirstPending = 0 => ResumePhase = "EXPORT"
        BY <4>1 DEF ResumePhase, Document
      <4>3. architecture = "draft" => ResumePhase = "APPROVE_ARCHITECTURE"
        BY <4>1 DEF ResumePhase
      <4>4. architecture = "none" => ResumePhase \in {"ARCHITECTURE", "APPROVE_BOOK_CONTRACT",
                                                      "BOOK_CONTRACT"}
        BY <4>1 DEF ResumePhase, Document
      <4> QED BY <4>1, <4>2, <4>3, <4>4 DEF Document, ChapterPhases
    <3>2. k = FirstPending /\ k # 0 => \A j \in Chapter : j < k => j \notin Pending
      <4> HIDE DEF k
      <4> QED BY <1>1, NextChapter DEF AutoInv
    <3> HIDE DEF k, x
    <3> QED BY <2>2, <3>1, <3>2 DEF Below
  <2>6. Pending' = Pending
    BY <2>1, SamePending
  <2>7. FileFacts'
    BY <1>1, <2>1, <2>3, <2>6 DEF FileFacts, Below
  <2> HIDE DEF x, k, o
  <2>8. PICK y, z : y = o /\ z = x
    OBVIOUS
  <2>9. Below(z)'
    BY <2>5, <2>6, <2>8 DEF Below
  <2>10. WindowFacts(y)'
    <3>1. z.run # file.run /\ sent[z.run] = 0 /\ z.used = 0
      BY <2>2, <2>3, <2>8
    <3>2. Paid(file, 0)
      BY <1>1, <2>1 DEF WindowFacts, Waiting
    <3>3. Owed(y) = 0 /\ y.st = z /\ y.pc = "write" /\ y.then = "started" /\ z.run = runs + 1
      BY <2>2, <2>4, <2>8 DEF Owed
    <3> QED BY <2>1, <2>3, <2>9, <3>1, <3>2, <3>3 DEF WindowFacts, Waiting, Paid
  <2> QED BY <2>1, <2>7, <2>8, <2>10, WindowTo
<1>4. CASE Stop(c)
  <2> PICK f, y : f = file /\ y = NewAction(f)
    OBVIOUS
  <2> PICK x : x = [y EXCEPT !.status = "STOPPED"]
    OBVIOUS
  <2>1. /\ op[c].pc = "idle" /\ file.status = "RUNNING" /\ Write(c, x, "stopped")
        /\ UNCHANGED <<file, temp, contracts, tasks, runs, sent, clean>>
    BY <1>4 DEF Stop, project, history
  <2>2. f.run # 0 /\ f \in RunState /\ Good(f)
    BY <1>1, <2>1, FileRow, GoodRow
  <2>3. Alike(x, f)
    BY <2>2, NewActionAlike, StatusAlike DEF Alike, RunStatus
  <2>4. NotBefore(x, f) /\ Below(x)
    BY <1>1, <2>2, <2>3, NotBeforeItself, AlikeRank DEF FileFacts
  <2>5. Paid(f, 0) /\ Pending' = Pending
    BY <1>1, <2>1, SamePending DEF WindowFacts, Waiting
  <2>6. Paid(x, 0)' /\ PaysFor(x.run)
    BY <2>1, <2>3, <2>5 DEF Paid, Alike, PaysFor
  <2> QED BY <2>1, <2>2, <2>4, <2>5, <2>6, WritesOn DEF Then
<1>5. CASE Continue(c)
  <2>1. UNCHANGED <<file, temp, contracts, tasks, op, runs, sent, clean>>
    BY <1>5 DEF Continue, project, history
  <2>2. Pending' = Pending
    BY <2>1, SamePending
  <2>3. PICK o : o = op[c]
    OBVIOUS
  <2>4. WindowFacts(o)' /\ FileFacts'
    BY <1>1, <2>1, <2>2, <2>3 DEF WindowFacts, FileFacts, Waiting, Below, Paid
  <2>5. op' = [op EXCEPT ![c] = o]
    BY <1>1, <2>1, <2>3 DEF AutoInv, OpsInv
  <2> QED BY <2>4, <2>5, WindowTo
<1> QED BY <1>2, <1>3, <1>4, <1>5

\* The first reads of advance.
LEMMA WindowReads ==
  ASSUME WindowInv, AutoInv', NEW c \in Client,
         \/ AdvanceOver(c) \/ AdvanceRefused(c) \/ AdvanceApprove(c) \/ AdvanceExport(c)
         \/ AdvanceAsk(c)
  PROVE  WindowInv'
<1>1. WindowFacts(op[c]) /\ FileFacts /\ AutoInv /\ Good(file) /\ RowFacts(op[c])
  BY WindowOf
<1>2. CASE AdvanceOver(c) \/ AdvanceRefused(c)
  <2>1. /\ Respond(c, FALSE) /\ op[c].pc = "idle"
        /\ UNCHANGED <<file, temp, project, history>>
    BY <1>2 DEF AdvanceOver, AdvanceRefused, Advancing, Running
  <2> QED BY <2>1, Responds DEF Waiting, project
<1>3. ASSUME NEW pc \in {"ask", "approve", "export"}, op[c].pc = "idle",
             file.status = "RUNNING", GotoWith(c, pc, file), Pending' \subseteq Pending,
             UNCHANGED <<file, temp, history>>
      PROVE  WindowInv'
  <2>1. PICK o : /\ op' = [op EXCEPT ![c] = o]
                 /\ o.pc = pc /\ o.then = "raised" /\ o.st = file
    BY <1>1, <1>3, ReadRow
  <2>2. file.run # 0 /\ Paid(file, 0) /\ UNCHANGED <<runs, sent, clean>>
    BY <1>1, <1>3, FileRow DEF WindowFacts, Waiting, history
  <2>3. ~Waiting(o) /\ Owed(o) = 0
    BY <2>1 DEF Waiting, Owed
  <2>4. Paid(o.st, Owed(o))' /\ PaysFor(o.st.run)
    BY <1>3, <2>1, <2>2, <2>3 DEF Paid, PaysFor
  <2> QED BY <1>1, <1>3, <2>1, <2>2, <2>3, <2>4, GoesOn
<1>4. CASE AdvanceApprove(c)
  <2>1. Pending' = Pending
    BY <1>4, SamePending DEF AdvanceApprove, project
  <2> QED BY <1>3, <1>4, <2>1 DEF AdvanceApprove, Running, Advancing
<1>5. CASE AdvanceExport(c)
  <2>1. Pending' = Pending
    BY <1>5, SamePending DEF AdvanceExport, project
  <2> QED BY <1>3, <1>5, <2>1 DEF AdvanceExport, Running, Advancing
<1>6. CASE AdvanceAsk(c)
  <2>1. Pending' \subseteq Pending
    BY <1>6 DEF AdvanceAsk, Pending, Chapter
  <2> QED BY <1>3, <1>6, <2>1 DEF AdvanceAsk, Running, Advancing
<1> QED BY <1>2, <1>4, <1>5, <1>6

LEMMA WindowWrites ==
  ASSUME WindowInv, AutoInv', NEW c \in Client,
         AdvanceExhausted(c) \/ AdvanceContractReady(c) \/ AdvanceDone(c) \/ AdvanceFinalize(c)
  PROVE  WindowInv'
<1> PICK f : f = file
  OBVIOUS
<1>1. /\ op[c].pc = "idle" /\ f.status \in {"RUNNING", "DONE"}
      /\ UNCHANGED <<file, temp, project, drive, history>>
  BY DEF AdvanceExhausted, AdvanceContractReady, AdvanceDone, AdvanceFinalize, Running, Advancing
<1>2. WindowFacts(op[c]) /\ FileFacts /\ AutoInv
  BY WindowOf
<1>3. Good(f) /\ f.run # 0 /\ f \in RunState /\ Within(f)
  BY <1>1, <1>2, FileRow, GoodRow
<1>4. Below(f) /\ Paid(f, 0) /\ UNCHANGED <<sent, clean, runs>>
  BY <1>1, <1>2 DEF FileFacts, WindowFacts, Waiting, history
<1>5. Pending' = Pending
  BY <1>1, SamePending DEF project
<1>6. ASSUME NEW x, NEW then \in Then \ {"started", "pause"}, NotBefore(x, f), Below(x),
             x.used \in Nat, Write(c, x, then)
      PROVE  WindowInv'
  <2>1. f.used \in Nat /\ x.used >= f.used /\ x.run = f.run
    BY <1>3, <1>6 DEF RunState, NotBefore
  <2>2. Paid(x, 0)' /\ PaysFor(x.run)
    <3>1. f.run \in clean => sent[f.run] \in Nat
      <4>1. sent \in [1..MaxRuns -> 0..MaxRequests + 1] /\ clean \subseteq 1..MaxRuns
        BY <1>2 DEF AutoInv, SideInv
      <4>2. \A q \in 1..MaxRuns : sent[q] \in 0..MaxRequests + 1
        BY <4>1
      <4>3. 0..MaxRequests + 1 \subseteq Nat
        BY Limits
      <4> QED BY <4>1, <4>2, <4>3
    <3>2. x.run \in clean => sent[x.run] <= x.used + 0
      <4>1. f.run \in clean => sent[f.run] <= f.used + 0
        BY <1>4 DEF Paid
      <4> QED BY <1>6, <2>1, <3>1, <4>1
    <3> QED BY <1>4, <3>2 DEF Paid, PaysFor
  <2> QED BY <1>1, <1>3, <1>4, <1>5, <1>6, <2>2, WritesOn
<1>7. CASE AdvanceExhausted(c)
  <2> PICK x : x = Failed(f)
    OBVIOUS
  <2>1. Write(c, x, "raised")
    BY <1>7 DEF AdvanceExhausted
  <2>2. Alike(x, f) /\ x.used \in Nat
    BY <1>3, FailedAlike DEF Alike, RunState
  <2> QED BY <1>3, <1>4, <1>6, <2>1, <2>2, NotBeforeItself, AlikeRank DEF Then
<1>8. CASE AdvanceContractReady(c)
  <2> DEFINE x == [f EXCEPT !.phase = "CHAPTER_DRAFT"]
  <2>1. Write(c, x, "returned") /\ contracts[f.chapter] = "approved" /\ f.phase = "CHAPTER_CONTRACT"
    BY <1>8 DEF AdvanceContractReady, Running
  <2>2. /\ x.run = f.run /\ x.phase = "CHAPTER_DRAFT" /\ x.chapter = f.chapter
        /\ x.used = f.used /\ x.cost = f.cost
    BY <1>3 DEF RunState
  <2> HIDE DEF x
  <2>3. Rank(f) = 1 + 3 * f.chapter /\ Rank(x) = 3 + 3 * x.chapter
    BY <2>1, <2>2 DEF Rank
  <2>4. f.chapter \in Int /\ f.used \in Int /\ f.cost \in Int
    BY <1>3, Limits DEF RunState
  <2>5. NotBefore(x, f)
    BY <2>2, <2>3, <2>4 DEF NotBefore
  <2>6. Below(x)
    BY <1>4, <2>1, <2>2 DEF Below, ChapterPhases
  <2>7. x.used \in Nat
    BY <1>3, <2>2 DEF RunState
  <2> QED BY <1>6, <2>1, <2>5, <2>6, <2>7 DEF Then
<1>9. CASE AdvanceDone(c)
  <2> PICK x : x = [f EXCEPT !.status = "DONE"]
    OBVIOUS
  <2>1. Write(c, x, "returned")
    BY <1>9 DEF AdvanceDone
  <2>2. Alike(x, f) /\ x.used \in Nat
    BY <1>3, StatusAlike DEF RunStatus, Alike, RunState
  <2> QED BY <1>3, <1>4, <1>6, <2>1, <2>2, NotBeforeItself, AlikeRank DEF Then
<1>10. CASE AdvanceFinalize(c)
  <2> PICK x : x = Reopened(f)
    OBVIOUS
  <2>1. Write(c, x, "list") /\ f.phase = "DONE"
    BY <1>3, <1>10 DEF AdvanceFinalize, Good
  <2>2. x.run = f.run /\ x.phase = "EXPORT" /\ x.used = f.used /\ x.cost = f.cost
    BY <1>3, ReopenedFields
  <2>3. Good(x) /\ f.used \in Nat /\ f.cost \in Nat
    BY <1>3, <2>1, ReopenedIsGood DEF RunState
  <2>4. NotBefore(x, f) /\ Below(x)
    BY <1>3, <2>2, <2>3, LastStation
  <2> QED BY <1>6, <2>1, <2>2, <2>3, <2>4 DEF Then
<1> QED BY <1>7, <1>8, <1>9, <1>10

\* What is known of a request that works on its copy.
LEMMA WorkOf ==
  ASSUME WindowInv, NEW c \in Client,
         op[c].pc \in {"ask", "answered", "approve", "export", "pause", "list", "edit", "edit_ask",
                       "edit_answered", "review", "master"}
  PROVE  /\ AutoInv /\ FileFacts /\ WindowFacts(op[c]) /\ ~Waiting(op[c])
         /\ Good(op[c].st) /\ op[c].st.run # 0 /\ Below(op[c].st) /\ op[c].st.run \in 1..MaxRuns
         /\ NotBefore(op[c].st, op[c].st) /\ Paid(op[c].st, Owed(op[c]))
         /\ op[c].pc # "pause" => op[c].then # "pause"
         /\ op[c].pc \in {"answered", "edit_answered"} => Owed(op[c]) = 1
         /\ op[c].pc \notin {"answered", "edit_answered", "pause"} => Owed(op[c]) = 0
         /\ Editing(c) => op[c].st.phase = "EXPORT"
         /\ op[c].pc \in {"ask", "answered", "edit_ask", "edit_answered"} => HasCap(op[c].st)
         /\ op[c].st.used \in Nat
<1>1. /\ AutoInv /\ FileFacts /\ WindowFacts(op[c]) /\ RowFacts(op[c]) /\ Good(op[c].st)
      /\ op[c].st.run # 0
  BY WindowOf
<1>2. op[c].then # "started"
  BY <1>1 DEF RowFacts
<1>3. ~Waiting(op[c])
  BY <1>2 DEF Waiting
<1>4. NotBefore(op[c].st, op[c].st)
  BY ItselfNotBefore
<1>5. op[c].pc # "pause" => op[c].then # "pause"
  BY <1>1 DEF WindowFacts
<1>6. Editing(c) => op[c].st.phase = "EXPORT"
  BY <1>1 DEF RowFacts, Editing
<1>7. op[c].st \in RunState /\ op[c].st.run \in 0..MaxRuns
  BY <1>1, GoodRow
<1>8. op[c].st.used \in Nat /\ op[c].st.run \in 1..MaxRuns
  BY <1>1, <1>7, Limits DEF RunState
<1> QED BY <1>1, <1>3, <1>4, <1>5, <1>6, <1>8 DEF WindowFacts, RowFacts, Owed

LEMMA WindowAnswered ==
  ASSUME WindowInv, AutoInv', NEW c \in Client, Answer(c)
  PROVE  WindowInv'
<1> PICK st : st = op[c].st
  OBVIOUS
<1>1. /\ op[c].pc \in {"ask", "edit_ask"} /\ Pay(st.run)
      /\ UNCHANGED <<file, temp, project, runs, clean>>
  BY DEF Answer, Asking
<1>2. Goto(c, "answered") \/ Goto(c, "edit_answered")
  BY DEF Answer
<1>3. PICK pc \in {"answered", "edit_answered"} : Goto(c, pc)
  BY <1>2
<1>4. /\ AutoInv /\ ~Waiting(op[c]) /\ Good(st) /\ Below(st) /\ NotBefore(st, st) /\ st.used \in Nat
      /\ Paid(st, 0) /\ op[c].then # "pause" /\ st.run \in 1..MaxRuns
  BY <1>1, WorkOf
<1>5. PICK o : /\ op' = [op EXCEPT ![c] = o]
               /\ o.pc = pc /\ o.then = op[c].then /\ o.st = st
  BY <1>3, <1>4, GotoRow, GoodRow
<1>6. Owed(o) = 1 /\ ~Waiting(o)
  BY <1>1, <1>3, <1>4, <1>5 DEF Owed, Waiting
<1>7. PaysFor(st.run) /\ Pending' = Pending
  BY <1>1, SamePending DEF PaysFor, project
<1>8. Paid(st, 1)'
  <2>1. sent[st.run] \in Nat /\ sent'[st.run] \in Nat /\ sent'[st.run] <= sent[st.run] + 1
    BY <1>4, <1>7, PayCounts
  <2> QED BY <1>1, <1>4, <2>1 DEF Paid
<1>9. Paid(o.st, Owed(o))'
  BY <1>5, <1>6, <1>8 DEF Paid
<1> QED BY <1>1, <1>3, <1>4, <1>5, <1>6, <1>7, <1>9, GoesOn

\* A refused answer, a disconnect, any other failure.
LEMMA WindowFails ==
  ASSUME WindowInv, AutoInv', NEW c \in Client,
         AnswerRefused(c) \/ (\E taken \in BOOLEAN : Disconnect(c, taken)) \/ Fail(c)
  PROVE  WindowInv'
<1> PICK st : st = op[c].st
  OBVIOUS
<1>1. CASE AnswerRefused(c)
  <2>1. /\ op[c].pc \in {"ask", "edit_ask"} /\ Raise(c, st, "raised") /\ Pay(st.run)
        /\ clean' = clean \ {st.run} /\ UNCHANGED <<file, temp, project, runs>>
    BY <1>1 DEF AnswerRefused, Asking
  <2>2. /\ ~Waiting(op[c]) /\ Good(st) /\ st.run # 0 /\ Below(st) /\ NotBefore(st, st)
        /\ Editing(c) => st.phase = "EXPORT"
    BY <2>1, WorkOf
  <2>3. Paid(st, 0)' /\ PaysFor(st.run) /\ Pending' = Pending
    BY <2>1, SamePending DEF Paid, PaysFor, project
  <2> QED BY <2>1, <2>2, <2>3, RaisesOn
<1>2. ASSUME NEW taken \in BOOLEAN, Disconnect(c, taken)
      PROVE  WindowInv'
  <2>1. /\ op[c].pc \in {"ask", "edit_ask"} /\ Raise(c, st, "pause")
        /\ Pay(st.run) \/ UNCHANGED sent
        /\ UNCHANGED <<file, temp, project, runs, clean>>
    BY <1>2, Zenon DEF Disconnect, Asking
  <2>2. /\ AutoInv /\ ~Waiting(op[c]) /\ Good(st) /\ st.run # 0 /\ Below(st) /\ NotBefore(st, st)
        /\ (Editing(c) => st.phase = "EXPORT") /\ HasCap(st) /\ Paid(st, 0)
        /\ st.run \in 1..MaxRuns /\ st.used \in Nat
    BY <2>1, WorkOf
  <2>3. PaysFor(st.run) /\ Pending' = Pending
    BY <2>1, SamePending DEF PaysFor, project
  <2>4. Paid(st, 1)'
    <3>1. sent[st.run] \in Nat /\ sent'[st.run] \in Nat /\ sent'[st.run] <= sent[st.run] + 1
      BY <2>2, <2>3, PayCounts
    <3> QED BY <2>1, <2>2, <3>1 DEF Paid
  <2> QED BY <2>1, <2>2, <2>3, <2>4, RaisesOn
<1>3. CASE Fail(c)
  <2>1. /\ op[c].pc \in {"ask", "answered", "approve", "export", "edit_ask", "review", "master"}
        /\ Raise(c, st, "raised")
        /\ clean' = IF op[c].pc = "answered" THEN clean \ {st.run} ELSE clean
        /\ UNCHANGED <<file, temp, project, runs, sent>>
    BY <1>3 DEF Fail, Working
  <2>2. /\ ~Waiting(op[c]) /\ Good(st) /\ st.run # 0 /\ Below(st) /\ NotBefore(st, st)
        /\ (Editing(c) => st.phase = "EXPORT")
        /\ op[c].pc # "answered" => Paid(st, 0)
    BY <2>1, WorkOf
  <2>3. Paid(st, 0)' /\ PaysFor(st.run) /\ Pending' = Pending
    BY <2>1, <2>2, SamePending DEF Paid, PaysFor, project
  <2> QED BY <2>1, <2>2, <2>3, RaisesOn
<1> QED BY <1>1, <1>2, <1>3

\* The uncertain request is charged to the file, which is the copy that was asked with.
LEMMA WindowPauses ==
  ASSUME WindowInv, AutoInv', NEW c \in Client, Pause(c)
  PROVE  WindowInv'
<1> PICK f : f = file
  OBVIOUS
<1> PICK y : y = NewAction(f)
  OBVIOUS
<1> PICK z : z = Reserve(y)
  OBVIOUS
<1> PICK x : x = [z EXCEPT !.status = "RUNNING"]
  OBVIOUS
<1>1. /\ op[c].pc = "pause" /\ Write(c, x, "raised")
      /\ UNCHANGED <<file, temp, project, drive, history>>
  BY DEF Pause
<1>2. /\ AutoInv /\ FileFacts /\ WindowFacts(op[c]) /\ op[c].st = f /\ op[c].then = "pause"
      /\ Good(f) /\ f.run # 0 /\ f \in RunState /\ f.used \in Nat
  BY <1>1, WorkOf, GoodRow DEF WindowFacts
<1>3. HasCap(f) /\ Paid(f, 1) /\ Below(f)
  BY <1>1, <1>2 DEF WindowFacts, Owed
<1>4. y \in RunState /\ Alike(y, f) /\ HasCap(y)
  BY <1>2, <1>3, NewActionAlike, AlikeRank
<1>5. Good(y)
  BY <1>2, <1>4, NewActionRow, GoodRow, SameRun DEF Alike, Good
<1>6. z = Charge(y)
  BY <1>4 DEF Reserve
<1>7. /\ Good(z) /\ NotBefore(z, y) /\ z.used = y.used + 1 /\ (Below(y) => Below(z))
  BY <1>2, <1>4, <1>5, <1>6, ChargeNotBefore DEF Alike
<1>8. Alike(x, z)
  BY <1>7, GoodRow, StatusAlike DEF RunStatus
<1>9. NotBefore(x, f) /\ Below(x) /\ x.used = f.used + 1
  <2>1. Rank(x) = Rank(z) /\ Rank(y) = Rank(f) /\ (Below(z) => Below(x)) /\ (Below(f) => Below(y))
    BY <1>4, <1>8, AlikeRank
  <2> QED BY <1>3, <1>4, <1>7, <1>8, <2>1 DEF NotBefore, Alike
<1>10. UNCHANGED <<sent, clean, runs>> /\ Pending' = Pending
  BY <1>1, SamePending DEF history, project
<1>11. Paid(x, 0)' /\ PaysFor(x.run)
  <2>1. x.run \in clean => sent[x.run] \in Nat
    BY <1>2, Limits DEF AutoInv, SideInv
  <2>2. x.run \in clean => sent[x.run] <= x.used + 0
    BY <1>2, <1>3, <1>9, <2>1 DEF Paid, NotBefore
  <2> QED BY <1>10, <2>2 DEF Paid, PaysFor
<1> QED BY <1>1, <1>2, <1>9, <1>10, <1>11, WritesOn DEF Then

\* The request did what its phase asks for and is to write the next station of the run.
LEMMA MovesOn ==
  ASSUME WindowInv, AutoInv', NEW c \in Client,
         op[c].pc \in {"answered", "approve", "export", "master"},
         NEW x, NEW then \in {"returned", "finished"}, Write(c, x, then),
         NotBefore(x, op[c].st), Rank(x) \in Int, x.used \in Nat, x.cost \in Nat,
         x.used >= op[c].st.used + Owed(op[c]), Below(x) \/ Below(x)',
         UNCHANGED <<file, history>>, Pending' \subseteq Pending
  PROVE  WindowInv'
<1> PICK st, f : st = op[c].st /\ f = file
  OBVIOUS
<1>1. /\ AutoInv /\ WindowFacts(op[c]) /\ ~Waiting(op[c]) /\ Good(st) /\ st.run # 0
      /\ st.used \in Nat /\ st.run \in 1..MaxRuns /\ Paid(st, Owed(op[c])) /\ Good(f)
  BY WorkOf, WindowOf
<1>2. NotBefore(st, f) /\ f.run # 0
  BY <1>1, WindowOf DEF WindowFacts
<1>3. NotBefore(x, f)
  <2>1. /\ Rank(st) \in Int /\ Rank(f) \in Int /\ f.used \in Nat /\ f.cost \in Nat
        /\ st.cost \in Nat
    BY <1>1, <1>2, RankOf, GoodRow DEF RunState
  <2> QED BY <1>1, <1>2, <2>1 DEF NotBefore
<1>4. UNCHANGED <<runs, sent, clean>>
  BY DEF history
<1>5. Paid(x, 0)' /\ PaysFor(x.run)
  <2>1. sent[st.run] \in Nat
    <3>1. sent \in [1..MaxRuns -> 0..MaxRequests + 1]
      BY <1>1 DEF AutoInv, SideInv
    <3> QED BY <1>1, <3>1, Limits
  <2>2. x.run = st.run
    BY DEF NotBefore
  <2>3. Owed(op[c]) \in Nat
    BY DEF Owed
  <2>4. x.run \in clean => sent[x.run] <= x.used + 0
    BY <1>1, <2>1, <2>2, <2>3 DEF Paid
  <2> QED BY <1>4, <2>4 DEF Paid, PaysFor
<1> QED BY <1>2, <1>3, <1>4, <1>5, WritesOn DEF Then

\* The proposals: the station after the one that was asked for, with its charge.
LEMMA WindowProposes ==
  ASSUME WindowInv, AutoInv', NEW c \in Client,
         ProposeContract(c) \/ ProposeArchitecture(c) \/ ProposeChapter(c)
  PROVE  WindowInv'
<1> PICK st, y : st = op[c].st /\ y = Charge(st)
  OBVIOUS
<1>1. /\ op[c].pc = "answered" /\ UNCHANGED <<file, temp, tasks, units, masters, drive, history>>
  BY DEF ProposeContract, ProposeArchitecture, ProposeChapter, StoreContract, StoreArchitecture,
     StoreChapter, Onward
<1>2. /\ AutoInv /\ Good(st) /\ st.run # 0 /\ Below(st) /\ HasCap(st) /\ Owed(op[c]) = 1
      /\ st.chapter \in Int /\ st.used \in Nat
  BY <1>1, WorkOf, GoodRow, Limits
<1>3. /\ y.used = st.used + 1 /\ y.cost >= st.cost /\ y \in RunState /\ y.run = st.run
      /\ y.chapter = st.chapter
  BY <1>2, GoodRow, ChargeMore, ChargedIsGood
<1>4. ASSUME NEW p \in Phase, NEW x, x = [y EXCEPT !.phase = p], Write(c, x, "returned"),
             Rank(x) \in Int, Rank(x) >= Rank(st), Below(x) \/ Below(x)', Pending' \subseteq Pending
      PROVE  WindowInv'
  <2>1. x.run = y.run /\ x.used = y.used /\ x.cost = y.cost
    BY <1>3, <1>4 DEF RunState
  <2>2. y.used \in Nat /\ y.cost \in Nat
    BY <1>3 DEF RunState
  <2>3. NotBefore(x, st)
    BY <1>2, <1>3, <1>4, <2>1 DEF NotBefore
  <2>4. x.used >= st.used + Owed(op[c])
    BY <1>2, <1>3, <2>1
  <2> QED BY <1>1, <1>4, <2>1, <2>2, <2>3, <2>4, MovesOn
<1>5. CASE ProposeContract(c)
  <2> PICK x : x = [y EXCEPT !.phase = "APPROVE_BOOK_CONTRACT"]
    OBVIOUS
  <2>1. st.phase = "BOOK_CONTRACT" /\ Write(c, x, "returned") /\ UNCHANGED contracts
    BY <1>5 DEF ProposeContract, StoreContract, Onward
  <2>2. x.phase = "APPROVE_BOOK_CONTRACT"
    BY <1>3 DEF RunState
  <2>3. Rank(st) = 0 /\ Rank(x) = 1
    BY <1>2, <2>1, <2>2, RankOf DEF Rank
  <2>4. Below(x)
    BY <2>2 DEF Below, ChapterPhases
  <2>5. Pending' = Pending
    BY <1>1, <2>1, SamePending
  <2> QED BY <1>4, <2>1, <2>3, <2>4, <2>5 DEF Phase
<1>6. CASE ProposeArchitecture(c)
  <2> PICK x : x = [y EXCEPT !.phase = "APPROVE_ARCHITECTURE"]
    OBVIOUS
  <2>1. st.phase = "ARCHITECTURE" /\ Write(c, x, "returned") /\ UNCHANGED contracts
    BY <1>6 DEF ProposeArchitecture, StoreArchitecture, Onward
  <2>2. x.phase = "APPROVE_ARCHITECTURE"
    BY <1>3 DEF RunState
  <2>3. Rank(st) = 2 /\ Rank(x) = 3
    BY <1>2, <2>1, <2>2, RankOf DEF Rank
  <2>4. Below(x)
    BY <2>2 DEF Below, ChapterPhases
  <2>5. Pending' = Pending
    BY <1>1, <2>1, SamePending
  <2> QED BY <1>4, <2>1, <2>3, <2>4, <2>5 DEF Phase
<1>7. CASE ProposeChapter(c)
  <2> PICK x, k : x = [y EXCEPT !.phase = "APPROVE_CHAPTER"] /\ k = st.chapter
    OBVIOUS
  <2>1. /\ st.phase = "CHAPTER_CONTRACT" /\ contracts' = [contracts EXCEPT ![k] = Saved(contracts[k])]
        /\ Write(c, x, "returned")
    BY <1>7 DEF ProposeChapter, StoreChapter, Onward
  <2>2. x.phase = "APPROVE_CHAPTER" /\ x.chapter = k
    BY <1>3 DEF RunState
  <2>3. Rank(st) = 1 + 3 * k /\ Rank(x) = 2 + 3 * k
    BY <1>2, <2>1, <2>2, RankOf DEF Rank
  <2>4. Below(x)
    BY <1>2, <2>1, <2>2 DEF Below, ChapterPhases
  <2>5. Pending' \subseteq Pending
    <3>1. contracts \in [Chapter -> Document]
      BY <1>2 DEF AutoInv, BookInv
    <3>2. \A j \in Chapter : contracts[j] = "approved" => contracts'[j] = "approved"
      BY <2>1, <3>1 DEF Saved
    <3> QED BY <1>1, <3>2 DEF Pending, Chapter
  <2> QED BY <1>2, <1>4, <2>1, <2>3, <2>4, <2>5 DEF Phase
<1> QED BY <1>5, <1>6, <1>7

\* The approvals.
LEMMA WindowApproves ==
  ASSUME WindowInv, AutoInv', NEW c \in Client,
         ApproveContract(c) \/ ApproveArchitecture(c) \/ ApproveChapter(c)
  PROVE  WindowInv'
<1> PICK st : st = op[c].st
  OBVIOUS
<1>1. /\ op[c].pc = "approve" /\ UNCHANGED <<file, temp, tasks, units, masters, drive, history>>
  BY DEF ApproveContract, ApproveArchitecture, ApproveChapter, AcceptContract, AcceptArchitecture,
     AcceptChapter, Onward
<1>2. /\ AutoInv /\ Good(st) /\ st.run # 0 /\ Below(st) /\ Owed(op[c]) = 0
      /\ st.chapter \in Int /\ st \in RunState
  BY <1>1, WorkOf, GoodRow, Limits
<1>3. ASSUME NEW x, x.run = st.run, x.used = st.used, x.cost = st.cost, Write(c, x, "returned"),
             Rank(x) \in Int, Rank(x) >= Rank(st), Below(x) \/ Below(x)', Pending' \subseteq Pending
      PROVE  WindowInv'
  <2>1. st.used \in Nat /\ st.cost \in Nat
    BY <1>2 DEF RunState
  <2>2. NotBefore(x, st)
    BY <1>3, <2>1 DEF NotBefore
  <2> QED BY <1>1, <1>2, <1>3, <2>1, <2>2, MovesOn
<1>4. CASE ApproveContract(c)
  <2> PICK x : x = [st EXCEPT !.phase = "ARCHITECTURE"]
    OBVIOUS
  <2>1. st.phase = "APPROVE_BOOK_CONTRACT" /\ Write(c, x, "returned") /\ UNCHANGED contracts
    BY <1>4 DEF ApproveContract, AcceptContract, Onward
  <2>2. x.run = st.run /\ x.used = st.used /\ x.cost = st.cost /\ x.phase = "ARCHITECTURE"
    BY <1>2 DEF RunState
  <2>3. Rank(st) = 1 /\ Rank(x) = 2
    BY <1>2, <2>1, <2>2, RankOf DEF Rank
  <2>4. Below(x)
    BY <2>2 DEF Below, ChapterPhases
  <2>5. Pending' = Pending
    BY <1>1, <2>1, SamePending
  <2>6. Rank(x) \in Int /\ Rank(x) >= Rank(st) /\ Pending' \subseteq Pending
    BY <2>3, <2>5
  <2> QED BY <1>3, <2>1, <2>2, <2>4, <2>6, Zenon
<1>5. CASE ApproveArchitecture(c)
  <2> PICK x : x = [st EXCEPT !.phase = "CHAPTER_CONTRACT", !.chapter = 1]
    OBVIOUS
  <2>1. st.phase = "APPROVE_ARCHITECTURE" /\ Write(c, x, "returned") /\ UNCHANGED contracts
    BY <1>5 DEF ApproveArchitecture, AcceptArchitecture, Onward
  <2>2. /\ x.run = st.run /\ x.used = st.used /\ x.cost = st.cost /\ x.phase = "CHAPTER_CONTRACT"
        /\ x.chapter = 1
    BY <1>2 DEF RunState
  <2>3. Rank(st) = 3 /\ Rank(x) = 4
    BY <1>2, <2>1, <2>2, RankOf DEF Rank
  <2>4. Below(x)
    BY <2>2, Limits DEF Below, Chapter
  <2>5. Pending' = Pending
    BY <1>1, <2>1, SamePending
  <2>6. Rank(x) \in Int /\ Rank(x) >= Rank(st) /\ Pending' \subseteq Pending
    BY <2>3, <2>5
  <2> QED BY <1>3, <2>1, <2>2, <2>4, <2>6, Zenon
<1>6. CASE ApproveChapter(c)
  <2> PICK x, k : x = [st EXCEPT !.phase = "CHAPTER_DRAFT"] /\ k = st.chapter
    OBVIOUS
  <2>1. /\ st.phase = "APPROVE_CHAPTER" /\ contracts' = [contracts EXCEPT ![k] = "approved"]
        /\ Write(c, x, "returned")
    BY <1>6 DEF ApproveChapter, AcceptChapter, Onward
  <2>2. /\ x.run = st.run /\ x.used = st.used /\ x.cost = st.cost /\ x.phase = "CHAPTER_DRAFT"
        /\ x.chapter = k
    BY <1>2 DEF RunState
  <2>3. Rank(st) = 2 + 3 * k /\ Rank(x) = 3 + 3 * k
    BY <1>2, <2>1, <2>2, RankOf DEF Rank
  <2>4. Below(x)
    BY <1>2, <2>1, <2>2 DEF Below, ChapterPhases
  <2>5. Pending' \subseteq Pending
    <3>1. contracts \in [Chapter -> Document]
      BY <1>2 DEF AutoInv, BookInv
    <3>2. \A j \in Chapter : contracts[j] = "approved" => contracts'[j] = "approved"
      BY <2>1, <3>1
    <3> QED BY <1>1, <3>2 DEF Pending, Chapter
  <2>6. Rank(x) \in Int /\ Rank(x) >= Rank(st)
    BY <1>2, <2>3
  <2> QED BY <1>3, <2>1, <2>2, <2>4, <2>5, <2>6, Zenon
<1> QED BY <1>4, <1>5, <1>6

\* The chapter drafted is pending no more, and the chapters below it were not.
LEMMA WindowDrafts ==
  ASSUME WindowInv, AutoInv', NEW c \in Client, DraftChapter(c)
  PROVE  WindowInv'
<1> PICK st, y, k : st = op[c].st /\ y = Charge(st) /\ k = st.chapter
  OBVIOUS
<1> PICK n, p : n = FirstPending /\ p = IF n = 0 THEN "EXPORT" ELSE "CHAPTER_CONTRACT"
  OBVIOUS
<1> PICK x : x = [y EXCEPT !.chapter = n, !.phase = p]
  OBVIOUS
<1>1. /\ op[c].pc = "answered"
      /\ UNCHANGED <<file, temp, contract, architecture, contracts, tasks, masters, drive, history>>
  BY DEF DraftChapter, StoreDraft, Onward
<1>2. /\ AutoInv /\ Good(st) /\ st.run # 0 /\ Below(st) /\ HasCap(st) /\ Owed(op[c]) = 1
      /\ st.used \in Nat /\ RowFacts(op[c])
  BY <1>1, WorkOf, WindowOf
<1>3. /\ y.used = st.used + 1 /\ y.cost >= st.cost /\ y \in RunState /\ y.run = st.run
      /\ y.phase = st.phase
  BY <1>2, GoodRow, ChargeMore, ChargedIsGood
<1>4. st.phase = "CHAPTER_DRAFT" /\ Write(c, x, "returned")
  BY <1>3, Zenon DEF DraftChapter, StoreDraft, Onward
<1>5. /\ x.run = st.run /\ x.used = y.used /\ x.cost = y.cost /\ x.chapter = n /\ x.phase = p
      /\ y.used \in Nat /\ y.cost \in Nat
  BY <1>3 DEF RunState
<1>6. k \in Chapter /\ k \notin Pending
  <2>1. k # 0 /\ contracts[k] = "approved"
    BY <1>2, <1>4 DEF Good, Justified
  <2>2. k \in tasks /\ k \in 0..Chapters
    BY <1>1, <1>2, <1>4, GoodRow DEF RowFacts
  <2> QED BY <2>1, <2>2, Limits DEF Pending, Chapter
<1>7. Rank(st) = 3 + 3 * k
  BY <1>2, <1>4, RankOf
<1>8. n \in 0..Chapters /\ (n # 0 => n \in Pending /\ \A j \in Chapter : j < n => j \notin Pending)
  BY <1>2, NextChapter DEF AutoInv
<1>9. Rank(x) \in Int /\ Rank(x) >= Rank(st)
  <2>1. CASE n = 0
    <3>1. Rank(x) = 4 + 3 * Chapters
      BY <1>5, <2>1 DEF Rank
    <3> QED BY <1>6, <1>7, <3>1, Limits DEF Chapter
  <2>2. CASE n # 0
    <3>1. Rank(x) = 1 + 3 * n
      BY <1>5, <2>2 DEF Rank
    <3>2. n \in Chapter /\ n # k
      BY <1>6, <1>8, <2>2 DEF Pending
    <3>3. ~(n < k)
      BY <1>2, <1>4, <1>8, <2>2, <3>2 DEF Below, ChapterPhases
    <3> QED BY <1>6, <1>7, <3>1, <3>2, <3>3, Limits DEF Chapter
  <2> QED BY <2>1, <2>2
<1>10. Below(x)
  BY <1>5, <1>8 DEF Below, ChapterPhases
<1>11. NotBefore(x, st)
  <2>1. st.cost \in Nat
    BY <1>2, GoodRow DEF RunState
  <2> QED BY <1>2, <1>3, <1>5, <1>9 DEF NotBefore
<1>12. Pending' = Pending
  BY <1>1, SamePending
<1>13. x.used >= st.used + Owed(op[c])
  BY <1>2, <1>3, <1>5
<1> QED BY <1>1, <1>4, <1>5, <1>9, <1>10, <1>11, <1>12, <1>13, MovesOn

\* An error once the document or the text is stored.
LEMMA WindowFailsStored ==
  ASSUME WindowInv, AutoInv', NEW c \in Client, FailStored(c)
  PROVE  WindowInv'
<1> PICK st, y : st = op[c].st /\ y = Charge(st)
  OBVIOUS
<1>1. \/ /\ \/ StoreContract(c) \/ StoreArchitecture(c) \/ StoreChapter(c) \/ StoreDraft(c)
         /\ clean' = clean \ {st.run} /\ Raise(c, st, "raised")
      \/ /\ AcceptContract(c) \/ AcceptArchitecture(c) \/ AcceptChapter(c)
         /\ UNCHANGED clean /\ Raise(c, st, "raised")
      \/ StoreDraft(c) /\ UNCHANGED clean /\ Raise(c, y, "raised")
  BY DEF FailStored
<1>2. UNCHANGED <<file, temp, tasks, runs, sent>>
  BY DEF FailStored
<1>3. /\ op[c].pc \in {"answered", "approve"} /\ (StoreDraft(c) => op[c].pc = "answered")
      /\ (AcceptContract(c) \/ AcceptArchitecture(c) \/ AcceptChapter(c)) => op[c].pc = "approve"
  BY <1>1 DEF StoreContract, StoreArchitecture, StoreChapter, StoreDraft, AcceptContract,
     AcceptArchitecture, AcceptChapter
<1>4. /\ AutoInv /\ ~Waiting(op[c]) /\ Good(st) /\ st.run # 0 /\ Below(st) /\ NotBefore(st, st)
      /\ op[c].pc # "answered" => Paid(st, 0)
      /\ op[c].pc = "answered" => HasCap(st) /\ Paid(st, 1)
      /\ st.run \in 1..MaxRuns /\ st.used \in Nat
  BY <1>3, WorkOf
<1>5. ~Editing(c)
  BY <1>3 DEF Editing
<1>6. Pending' \subseteq Pending
  <2>1. contracts \in [Chapter -> Document]
    BY <1>4 DEF AutoInv, BookInv
  <2>2. \A j \in Chapter : contracts[j] = "approved" => contracts'[j] = "approved"
    <3>1. \/ UNCHANGED contracts
          \/ \E k : \/ contracts' = [contracts EXCEPT ![k] = Saved(contracts[k])]
                   \/ contracts' = [contracts EXCEPT ![k] = "approved"]
      BY <1>1 DEF StoreContract, StoreArchitecture, StoreChapter, StoreDraft, AcceptContract,
         AcceptArchitecture, AcceptChapter
    <3> QED BY <2>1, <3>1 DEF Saved
  <2> QED BY <1>2, <2>2 DEF Pending, Chapter
<1>7. ASSUME NEW x, Good(x), x.run = st.run, Below(x), NotBefore(x, st), Raise(c, x, "raised"),
             Paid(x, 0)', PaysFor(x.run)
      PROVE  WindowInv'
  BY <1>2, <1>4, <1>5, <1>6, <1>7, RaisesOn
<1>8. ASSUME Raise(c, st, "raised"), clean' = clean \ {st.run} \/ clean' = clean,
             clean' = clean => op[c].pc # "answered" \/ st.run \notin clean
      PROVE  WindowInv'
  <2>1. Paid(st, 0)' /\ PaysFor(st.run)
    BY <1>2, <1>4, <1>8 DEF Paid, PaysFor
  <2> QED BY <1>4, <1>7, <1>8, <2>1
<1>9. CASE StoreDraft(c) /\ UNCHANGED clean /\ Raise(c, y, "raised")
  <2>1. Good(y) /\ NotBefore(y, st) /\ Below(y) /\ y.run = st.run /\ y.used = st.used + 1
    BY <1>3, <1>4, <1>9, ChargeNotBefore DEF NotBefore
  <2>2. sent[st.run] \in Nat
    <3>1. sent \in [1..MaxRuns -> 0..MaxRequests + 1]
      BY <1>4 DEF AutoInv, SideInv
    <3> QED BY <1>4, <3>1, Limits
  <2>3. Paid(y, 0)' /\ PaysFor(y.run)
    BY <1>2, <1>3, <1>4, <1>9, <2>1, <2>2 DEF Paid, PaysFor
  <2> QED BY <1>7, <1>9, <2>1, <2>3
<1>10. CASE clean' = clean \ {st.run} /\ Raise(c, st, "raised")
  BY <1>8, <1>10
<1>11. CASE AcceptContract(c) \/ AcceptArchitecture(c) \/ AcceptChapter(c)
  BY <1>1, <1>3, <1>8, <1>9, <1>10, <1>11
<1> QED BY <1>1, <1>9, <1>10, <1>11

\* A finished copy, of the draft or of the book.
LEMMA WindowFinishes ==
  ASSUME WindowInv, AutoInv', NEW c \in Client, op[c].pc \in {"export", "master"},
         NEW f \in BOOLEAN, NEW then \in {"returned", "finished"},
         NEW x, x = [op[c].st EXCEPT !.status = "DONE", !.phase = "DONE", !.final = f],
         Write(c, x, then), UNCHANGED <<file, contracts, tasks, history>>
  PROVE  WindowInv'
<1> PICK st : st = op[c].st
  OBVIOUS
<1>1. Good(st) /\ st.run # 0 /\ Owed(op[c]) = 0 /\ st \in RunState
  BY WorkOf, GoodRow
<1>2. x.run = st.run /\ x.phase = "DONE" /\ x.used = st.used /\ x.cost = st.cost
  BY <1>1 DEF RunState
<1>3. st.used \in Nat /\ st.cost \in Nat
  BY <1>1 DEF RunState
<1>4. NotBefore(x, st) /\ Below(x) /\ Rank(x) \in Int
  <2>1. x.used >= st.used /\ x.cost >= st.cost /\ x.phase \in {"EXPORT", "DONE"}
    BY <1>2, <1>3
  <2> QED BY <1>1, <1>2, <2>1, LastStation, Zenon
<1>5. Pending' = Pending
  BY SamePending
<1>6. op[c].pc \in {"answered", "approve", "export", "master"} => x.used >= st.used + Owed(op[c])
  BY <1>1, <1>2, <1>3
<1>7. CASE op[c].pc = "master"
  BY <1>2, <1>3, <1>4, <1>5, <1>6, <1>7, MovesOn
<1>8. CASE op[c].pc = "export"
  BY <1>2, <1>3, <1>4, <1>5, <1>6, <1>8, MovesOn
<1> QED BY <1>7, <1>8

\* A request that only moves on with its copy.
LEMMA WindowMoves ==
  ASSUME WindowInv, AutoInv', NEW c \in Client,
         op[c].pc \in {"list", "edit", "edit_answered", "review"},
         NEW pc \in {"edit", "edit_ask", "review", "master"}, NEW x, Good(x),
         NotBefore(x, op[c].st), Below(x), Paid(x, 0),
         NEW o, op' = [op EXCEPT ![c] = o], o.pc = pc, o.then = op[c].then, o.st = x,
         UNCHANGED <<file, contracts, tasks, history>>
  PROVE  WindowInv'
<1>1. ~Waiting(op[c]) /\ op[c].then # "pause"
  BY WorkOf
<1>2. ~Waiting(o) /\ Owed(o) = 0
  BY <1>1 DEF Waiting, Owed
<1>3. Pending' = Pending /\ UNCHANGED <<runs, sent, clean>>
  BY SamePending DEF history
<1>4. Paid(o.st, Owed(o))' /\ PaysFor(o.st.run)
  BY <1>2, <1>3 DEF Paid, PaysFor, Owed
<1> QED BY <1>1, <1>2, <1>3, <1>4, GoesOn

\* A finalization that is blocked before anything is asked.
LEMMA WindowBlocked ==
  ASSUME WindowInv, AutoInv', NEW c \in Client, op[c].pc \in {"list", "edit", "master"},
         Raise(c, op[c].st, "raised"), UNCHANGED <<file, contracts, tasks, history>>
  PROVE  WindowInv'
<1> PICK st : st = op[c].st
  OBVIOUS
<1>1. /\ ~Waiting(op[c]) /\ Good(st) /\ st.run # 0 /\ Below(st) /\ NotBefore(st, st)
      /\ (Editing(c) => st.phase = "EXPORT") /\ Paid(st, 0)
  BY WorkOf
<1>2. Pending' = Pending /\ UNCHANGED <<runs, sent, clean>>
  BY SamePending DEF history
<1>3. Paid(st, 0)' /\ PaysFor(st.run)
  BY <1>1, <1>2 DEF Paid, PaysFor
<1> QED BY <1>1, <1>2, <1>3, RaisesOn

LEMMA WindowEdits ==
  ASSUME WindowInv, AutoInv', NEW c \in Client, ListUnits(c) \/ EditUnit(c) \/ ReviewPasses(c)
  PROVE  WindowInv'
<1> PICK st : st = op[c].st
  OBVIOUS
<1>1. op[c].pc \in {"list", "edit", "review"} /\ UNCHANGED <<file, temp, project, drive, history>>
  BY DEF ListUnits, EditUnit, ReviewPasses
<1>2. /\ Good(st) /\ NotBefore(st, st) /\ Below(st) /\ Paid(st, 0) /\ AutoInv
      /\ op[c] \in OpState /\ st \in RunState /\ op \in [Client -> OpState]
  BY <1>1, WorkOf, OpRow, GoodRow DEF AutoInv, OpsInv
<1>3. UNCHANGED <<file, contracts, tasks, history>>
  BY <1>1 DEF project
<1>4. ASSUME NEW pc \in {"review", "master"}, Goto(c, pc), op[c].pc \in {"edit", "review"}
      PROVE  WindowInv'
  <2>1. PICK o : /\ op' = [op EXCEPT ![c] = o]
                 /\ o.pc = pc /\ o.then = op[c].then /\ o.st = st
    BY <1>2, <1>4, GotoRow
  <2> QED BY <1>2, <1>3, <1>4, <2>1, WindowMoves
<1>5. ASSUME NEW pc \in {"edit", "edit_ask"}, NEW todo, op[c].pc \in {"list", "edit"},
             op' = [op EXCEPT ![c].pc = pc, ![c].todo = todo]
      PROVE  WindowInv'
  <2> DEFINE o == [op[c] EXCEPT !.pc = pc, !.todo = todo]
  <2>1. op' = [op EXCEPT ![c] = o] /\ o.pc = pc /\ o.then = op[c].then /\ o.st = st
    BY <1>2, <1>5 DEF OpState
  <2> HIDE DEF o
  <2>2. PICK z : z = o
    OBVIOUS
  <2>3. pc \in {"edit", "edit_ask", "review", "master"}
    BY <1>5
  <2>4. op[c].pc \in {"list", "edit", "edit_answered", "review"}
    BY <1>5
  <2> QED BY <1>2, <1>3, <2>1, <2>2, <2>3, <2>4, WindowMoves
<1>6. CASE ListUnits(c)
  <2>1. \/ op' = [op EXCEPT ![c].pc = "edit", ![c].todo = DraftUnits]
        \/ Raise(c, st, "raised")
    BY <1>6 DEF ListUnits
  <2>2. op[c].pc = "list"
    BY <1>6 DEF ListUnits
  <2> QED BY <1>3, <1>5, <2>1, <2>2, WindowBlocked
<1>7. CASE EditUnit(c)
  <2> DEFINE todo == op[c].todo \intersect DraftUnits
  <2>1. \/ Goto(c, "review")
        \/ op' = [op EXCEPT ![c].pc = "edit_ask", ![c].todo = todo]
        \/ Raise(c, st, "raised")
    BY <1>7 DEF EditUnit
  <2>2. op[c].pc = "edit"
    BY <1>7 DEF EditUnit
  <2> HIDE DEF todo
  <2> QED BY <1>3, <1>4, <1>5, <2>1, <2>2, WindowBlocked
<1>8. CASE ReviewPasses(c)
  BY <1>4, <1>8 DEF ReviewPasses
<1> QED BY <1>6, <1>7, <1>8

\* The answered edit is charged before anything can go wrong with it.
LEMMA WindowAccepts ==
  ASSUME WindowInv, AutoInv', NEW c \in Client, AcceptEdit(c)
  PROVE  WindowInv'
<1> PICK st, y : st = op[c].st /\ y = Charge(st)
  OBVIOUS
<1>1. /\ op[c].pc = "edit_answered" /\ UNCHANGED <<file, temp, contracts, tasks, history>>
      /\ GotoWith(c, "edit", y) \/ Raise(c, y, "raised")
  BY Zenon DEF AcceptEdit
<1>2. /\ AutoInv /\ ~Waiting(op[c]) /\ Good(st) /\ st.run # 0 /\ Below(st) /\ HasCap(st)
      /\ Paid(st, 1) /\ (Editing(c) => st.phase = "EXPORT") /\ st.run \in 1..MaxRuns
  BY <1>1, WorkOf
<1>3. /\ Good(y) /\ NotBefore(y, st) /\ y.used = st.used + 1 /\ y.phase = st.phase /\ Below(y)
      /\ y.run = st.run /\ y \in RunState
  BY <1>2, ChargeNotBefore, GoodRow DEF NotBefore
<1>4. Paid(y, 0)
  <2>1. sent[st.run] \in Nat
    <3>1. sent \in [1..MaxRuns -> 0..MaxRequests + 1]
      BY <1>2 DEF AutoInv, SideInv
    <3> QED BY <1>2, <3>1, Limits
  <2>2. st.used \in Nat
    BY <1>2, GoodRow DEF RunState
  <2> QED BY <1>2, <1>3, <2>1, <2>2 DEF Paid
<1>5. Pending' = Pending /\ UNCHANGED <<runs, sent, clean>>
  BY <1>1, SamePending DEF history
<1>6. CASE GotoWith(c, "edit", y)
  <2>1. PICK o : /\ op' = [op EXCEPT ![c] = o]
                 /\ o.pc = "edit" /\ o.then = op[c].then /\ o.st = y
    BY <1>2, <1>3, <1>6, GotoRow
  <2> QED BY <1>1, <1>3, <1>4, <2>1, WindowMoves
<1>7. CASE Raise(c, y, "raised")
  <2>1. Paid(y, 0)' /\ PaysFor(y.run)
    BY <1>4, <1>5 DEF Paid, PaysFor
  <2> QED BY <1>1, <1>2, <1>3, <1>5, <1>7, <2>1, RaisesOn
<1> QED BY <1>1, <1>6, <1>7

\* The last steps: the export of the draft and the lock of the Literary Master.
LEMMA WindowEnds ==
  ASSUME WindowInv, AutoInv', NEW c \in Client, Export(c) \/ LockMaster(c)
  PROVE  WindowInv'
<1>1. CASE Export(c)
  <2>1. op[c].pc = "export" /\ UNCHANGED <<file, contracts, tasks, history>>
    BY <1>1 DEF Export, project
  <2> PICK x : x = [op[c].st EXCEPT !.status = "DONE", !.phase = "DONE", !.final = FALSE]
    OBVIOUS
  <2>2. Write(c, x, "returned")
    BY <1>1 DEF Export
  <2> QED BY <2>1, <2>2, WindowFinishes
<1>2. CASE LockMaster(c)
  <2>1. op[c].pc = "master" /\ UNCHANGED <<file, contracts, tasks, history>>
    BY <1>2 DEF LockMaster
  <2> PICK x : x = [op[c].st EXCEPT !.status = "DONE", !.phase = "DONE", !.final = TRUE]
    OBVIOUS
  <2>2. Write(c, x, "finished") \/ Raise(c, op[c].st, "raised")
    BY <1>2, Zenon DEF LockMaster
  <2> QED BY <2>1, <2>2, WindowFinishes, WindowBlocked
<1> QED BY <1>1, <1>2

\* The copy goes to the temporary name and from there becomes the file.
LEMMA WindowWritesTemp ==
  ASSUME WindowInv, AutoInv', NEW c \in Client, WriteTemp(c)
  PROVE  WindowInv'
<1> PICK st : st = op[c].st
  OBVIOUS
<1>1. /\ op[c].pc = "write" /\ temp' = st /\ Goto(c, "publish")
      /\ UNCHANGED <<file, project, drive, history>>
  BY DEF WriteTemp
<1>2. WindowFacts(op[c]) /\ FileFacts /\ AutoInv /\ Good(st) /\ st \in RunState
  BY WindowOf, GoodRow
<1>3. PICK o : op' = [op EXCEPT ![c] = o] /\ o.pc = "publish" /\ o.then = op[c].then /\ o.st = st
  BY <1>1, <1>2, GotoRow
<1>4. Pending' = Pending /\ UNCHANGED <<runs, sent, clean>>
  BY <1>1, SamePending DEF history, project
<1>5. FileFacts'
  BY <1>1, <1>2, <1>4 DEF FileFacts, Below
<1>6. (Waiting(o) <=> Waiting(op[c])) /\ Owed(o) = Owed(op[c])
  BY <1>1, <1>3 DEF Waiting, Owed
<1>7. PICK z : z = st
  OBVIOUS
<1>8. Below(z)' /\ (NotBefore(z, file) => NotBefore(z, file)')
  BY <1>1, <1>2, <1>4, <1>7 DEF WindowFacts, Below, NotBefore, Rank
<1>9. Paid(z, Owed(o)) /\ (Waiting(o) => Paid(file, 0))
  BY <1>1, <1>2, <1>6, <1>7 DEF WindowFacts
<1>10. WindowFacts(o)'
  <2>1. Paid(z, Owed(o))' /\ (Waiting(o) => Paid(file, 0)')
    BY <1>1, <1>4, <1>9 DEF Paid, Owed
  <2> QED BY <1>1, <1>2, <1>3, <1>4, <1>6, <1>7, <1>8, <2>1
          DEF WindowFacts, Below, NotBefore, Rank, Paid, HasCap, Cap, Waiting, Owed
<1> QED BY <1>3, <1>5, <1>10, WindowTo

\* The published file is the copy of the one request there is; then the handler goes on with it.
LEMMA WindowPublishes ==
  ASSUME WindowInv, AutoInv', NEW c \in Client, Publish(c)
  PROVE  WindowInv' /\ file' = op[c].st
<1> PICK st : st = op[c].st
  OBVIOUS
<1>1. /\ op[c].pc = "publish" /\ file' = temp /\ Proceed(c) /\ UNCHANGED <<project, history>>
  BY DEF Publish
<1>2. /\ WindowFacts(op[c]) /\ FileFacts /\ AutoInv /\ Good(st) /\ st.run # 0 /\ Below(st)
      /\ st \in RunState /\ st.run <= runs
  BY <1>1, WindowOf, GoodRow DEF WindowFacts
<1>3. temp = st /\ Paid(st, Owed(op[c]))
  BY <1>1, <1>2 DEF WindowFacts
<1>4. Pending' = Pending /\ UNCHANGED <<runs, sent, clean>> /\ file' = st
  BY <1>1, <1>3, SamePending DEF history, project
<1> SUFFICES WindowInv'
  BY <1>4
<1>5. Below(st)' /\ FileFacts'
  BY <1>2, <1>4 DEF FileFacts, Below
<1>6. NotBefore(st, st)
  BY <1>2, NotBeforeItself DEF Alike
<1>7. ASSUME op' = [op EXCEPT ![c] = Idle], op[c].then # "pause"
      PROVE  WindowInv'
  <2>1. PICK o : o = Idle
    OBVIOUS
  <2>2. /\ o.pc = "idle" /\ o.then = "raised" /\ o.st.phase = "DONE" /\ o.st.run = 0
    BY <2>1 DEF Idle, NoRun
  <2>3. Paid(st, 0)
    BY <1>1, <1>3, <1>7 DEF Owed
  <2>4. Below(o.st)' /\ runs \in Nat
    BY <1>2, <2>2, Limits DEF Below, ChapterPhases, AutoInv, SideInv
  <2>5. WindowFacts(o)'
    BY <1>4, <2>2, <2>3, <2>4 DEF WindowFacts, Waiting, Paid
  <2> QED BY <1>5, <1>7, <2>1, <2>5, WindowTo
<1>8. CASE op[c].then = "returned" /\ st.status = "DONE" /\ ~st.final
  <2> PICK x : x = Reopened(st)
    OBVIOUS
  <2>1. Write(c, x, "list")
    BY <1>1, <1>8 DEF Proceed
  <2>2. x.run = st.run /\ x.phase = "EXPORT" /\ x.used = st.used /\ x.cost = st.cost
    BY <1>2, ReopenedFields
  <2>3. st.used \in Nat /\ st.cost \in Nat
    BY <1>2 DEF RunState
  <2>4. NotBefore(x, st) /\ Below(x)
    <3>1. x.used >= st.used /\ x.cost >= st.cost
      BY <2>2, <2>3
    <3> QED BY <1>2, <2>2, <3>1, LastStation
  <2> DEFINE o == [Idle EXCEPT !.pc = "write", !.then = "list", !.st = x]
  <2>5. op' = [op EXCEPT ![c] = o] /\ o.pc = "write" /\ o.then = "list" /\ o.st = x
    BY <2>1 DEF Write, Idle
  <2> HIDE DEF o
  <2> PICK z : z = o
    OBVIOUS
  <2>6. Paid(st, 0)
    BY <1>1, <1>3, <1>8 DEF Owed
  <2>7. Owed(z) = 0 /\ ~Waiting(z)
    BY <2>5 DEF Owed, Waiting
  <2>8. Paid(x, 0)' /\ Below(x)' /\ NotBefore(x, file)'
    BY <1>4, <2>2, <2>4, <2>6 DEF Paid, Below, NotBefore, Rank
  <2>9. WindowFacts(z)'
    BY <1>2, <1>4, <2>2, <2>5, <2>7, <2>8
       DEF WindowFacts, Waiting, Owed, Paid, Below, NotBefore, Rank
  <2> QED BY <1>5, <2>5, <2>9, WindowTo
<1>9. CASE op[c].then = "returned" /\ (st.status # "DONE" \/ st.final)
  <2>1. op' = [op EXCEPT ![c] = Idle]
    BY <1>1, <1>9 DEF Proceed, Respond
  <2> QED BY <2>1, <1>7, <1>9
<1>10. CASE op[c].then \in {"pause", "list"}
  <2>1. Goto(c, op[c].then)
    BY <1>1, <1>10 DEF Proceed
  <2>2. PICK o : /\ op' = [op EXCEPT ![c] = o]
                 /\ o.pc = op[c].then /\ o.then = op[c].then /\ o.st = st
    BY <2>1, <1>2, <1>10, GotoRow
  <2>3. (Owed(o) = Owed(op[c])) /\ ~Waiting(o)
    BY <1>1, <1>10, <2>2 DEF Owed, Waiting
  <2>4. Paid(o.st, Owed(o))' /\ NotBefore(st, file)'
    BY <1>3, <1>4, <1>6, <2>2, <2>3 DEF Paid, Owed, NotBefore, Rank
  <2>5. op[c].then = "pause" => HasCap(st)
    BY <1>2 DEF WindowFacts
  <2>6. WindowFacts(o)'
    BY <1>2, <1>4, <1>5, <1>10, <2>2, <2>3, <2>4, <2>5
       DEF WindowFacts, Waiting, Owed, Paid, Below, NotBefore, Rank, HasCap, Cap
  <2> QED BY <1>5, <2>2, <2>6, WindowTo
<1>11. CASE op[c].then \in {"started", "finished", "raised", "stopped"}
  <2>1. op' = [op EXCEPT ![c] = Idle]
    BY <1>1, <1>11 DEF Proceed, Respond
  <2> QED BY <2>1, <1>7, <1>11
<1>12. op[c].then \in Then
  BY <1>2, OpRow DEF OpState, Then
<1> QED BY <1>8, <1>9, <1>10, <1>11, <1>12 DEF Then

\* With one writer the temporary file is never renamed away under it.
LEMMA NothingIsLost ==
  ASSUME WindowInv, NEW c \in Client
  PROVE  ~PublishLost(c)
<1>1. ASSUME PublishLost(c)
      PROVE  FALSE
  <2>1. op[c].pc = "publish" /\ temp = NoRun
    BY <1>1 DEF PublishLost
  <2>2. temp = op[c].st /\ op[c].st.run # 0
    BY <2>1, WindowOf DEF WindowFacts
  <2> QED BY <2>1, <2>2 DEF NoRun
<1> QED BY <1>1

\* A crash takes the copy in hand and leaves the file; the run it cut short is clean no more.
LEMMA WindowCrashes ==
  ASSUME WindowInv, AutoInv', Crash
  PROVE  WindowInv'
<1>1. /\ op' = [c \in Client |-> Idle] /\ clean' = clean \ {op[c].st.run : c \in Client}
      /\ UNCHANGED <<file, temp, project, runs, sent>> /\ \E c \in Client : op[c].pc # "idle"
  BY DEF Crash
<1>2. PICK c \in Client : op[c].pc # "idle"
  BY <1>1
<1>3. WindowFacts(op[c]) /\ FileFacts
  BY WindowOf
<1>4. Pending' = Pending
  BY <1>1, SamePending DEF project
<1>5. FileFacts'
  BY <1>1, <1>3, <1>4 DEF FileFacts, Below
<1>6. Paid(file, 0)'
  <2>1. CASE Waiting(op[c])
    BY <1>1, <1>3, <2>1 DEF WindowFacts, Paid
  <2>2. CASE ~Waiting(op[c])
    <3>1. op[c].st.run = file.run
      BY <1>3, <2>2 DEF WindowFacts, NotBefore
    <3>2. file.run \notin clean'
      BY <1>1, <1>2, <3>1
    <3> QED BY <1>1, <3>2 DEF Paid
  <2> QED BY <2>1, <2>2
<1>7. PICK o : o = Idle
  OBVIOUS
<1>8. /\ o.pc = "idle" /\ o.then = "raised" /\ o.st.phase = "DONE" /\ o.st.run = 0
  BY <1>7 DEF Idle, NoRun
<1>9. Below(o.st)' /\ runs' \in Nat
  BY <1>1, <1>8, Limits DEF Below, ChapterPhases, WindowInv, AutoInv, SideInv
<1>10. WindowFacts(o)'
  BY <1>6, <1>8, <1>9 DEF WindowFacts, Waiting
<1>11. \A d \in Client : op'[d] = o
  BY <1>1, <1>7
<1>12. ASSUME NEW d \in Client
       PROVE  WindowFacts(op[d])'
  BY <1>10, <1>11 DEF WindowFacts
<1> QED BY <1>5, <1>12 DEF WindowInv

LEMMA WindowStart == Init /\ OneWindow => WindowInv
<1> SUFFICES ASSUME Init, OneWindow PROVE WindowInv
  OBVIOUS
<1>1. AutoInv
  BY AutoStart
<1>2. /\ file.run = 0 /\ file.phase = "DONE" /\ runs = 0 /\ clean = 1..MaxRuns
      /\ \A r \in 1..MaxRuns : sent[r] = 0
  BY DEF Init, NoRun
<1>3. FileFacts
  BY <1>2 DEF FileFacts, Below, ChapterPhases
<1>4. PICK o : o = Idle
  OBVIOUS
<1>5. /\ o.pc = "idle" /\ o.then = "raised" /\ o.st.phase = "DONE" /\ o.st.run = 0
  BY <1>4 DEF Idle, NoRun
<1>6. WindowFacts(o)
  BY <1>2, <1>5, Limits DEF WindowFacts, Waiting, Below, ChapterPhases, Paid
<1>7. \A c \in Client : op[c] = o
  BY <1>4 DEF Init
<1> QED BY <1>1, <1>3, <1>6, <1>7 DEF WindowInv

LEMMA WindowStutters ==
  ASSUME WindowInv, AutoInv', UNCHANGED vars
  PROVE  WindowInv'
<1>1. UNCHANGED <<file, temp, contracts, tasks, op, runs, sent, clean>>
  BY DEF vars, project, history
<1>2. Pending' = Pending
  BY <1>1, SamePending
<1>3. FileFacts'
  BY <1>1, <1>2 DEF WindowInv, FileFacts, Below
<1>4. ASSUME NEW c \in Client
      PROVE  WindowFacts(op[c])'
  <2>1. WindowFacts(op[c])
    BY DEF WindowInv
  <2> QED BY <1>1, <1>2, <2>1 DEF WindowFacts, Below, NotBefore, Rank, Waiting, Paid, Owed, HasCap, Cap
<1> QED BY <1>3, <1>4 DEF WindowInv

LEMMA WindowStep == WindowInv /\ [Next]_vars => WindowInv'
<1> SUFFICES ASSUME WindowInv, [Next]_vars PROVE WindowInv'
  OBVIOUS
<1>1. AutoInv'
  BY AutoStep DEF WindowInv
<1>2. ASSUME NEW c \in Client, Handle(c) PROVE WindowInv'
  BY <1>1, <1>2, WindowReads, WindowWrites, WindowAnswered, WindowFails, WindowPauses,
     WindowProposes, WindowDrafts, WindowApproves, WindowFailsStored, WindowEnds, WindowEdits,
     WindowAccepts, WindowWritesTemp, WindowPublishes, NothingIsLost DEF Handle
<1> QED BY <1>1, <1>2, WindowStarts, WindowCrashes, WindowStutters DEF Next

\* For any chapters and limits, a run driven by one window has charged every request the provider
\* took when no request is in flight, except where an answer was refused or a crash cut a request
\* short (auto_book.py charge_call, auto_book_api.py pause_after_provider_disconnect).
THEOREM PaymentsAreCharged == ASSUME OneWindow PROVE Spec => []PaidIsCharged
<1>1. ASSUME WindowInv PROVE PaidIsCharged
  <2> SUFFICES ASSUME \A c \in Client : op[c].pc = "idle", file.run \in clean
               PROVE  sent[file.run] <= file.used
    BY DEF PaidIsCharged
  <2>1. file.run \in 1..MaxRuns /\ sent \in [1..MaxRuns -> 0..MaxRequests + 1]
    BY <1>1 DEF WindowInv, AutoInv, SideInv
  <2>2. PICK c \in Client : TRUE
    BY DEF OneWindow
  <2>3. Paid(file, 0)
    BY <1>1, <2>2 DEF WindowInv, WindowFacts, Waiting
  <2>4. file.used \in Nat /\ sent[file.run] \in Nat
    BY <1>1, <2>1, FileRow, GoodRow, Limits DEF WindowInv, RunState
  <2> QED BY <2>3, <2>4 DEF Paid
<1> QED BY <1>1, WindowStart, WindowStep, PTL DEF Spec

\* For any chapters and limits, a run driven by one window never falls back to an earlier station
\* and never forgets a charge; only publishing a copy changes the file (auto_book.py save_state,
\* auto_book_finalizer.py).
THEOREM ProgressIsNeverLost == ASSUME OneWindow PROVE Spec => ProgressIsKept
<1> DEFINE Kept == file'.run = file.run => /\ Rank(file') >= Rank(file)
                                           /\ file'.used >= file.used
                                           /\ file'.cost >= file.cost
<1>1. ASSUME WindowInv, [Next]_vars, ~UNCHANGED file PROVE Kept
  <2>1. PICK c \in Client : Publish(c)
    <3>1. ASSUME NEW c \in Client, Handle(c), ~Publish(c) PROVE UNCHANGED file
      BY <3>1 DEF Handle, AdvanceOver, AdvanceRefused, AdvanceApprove, AdvanceAsk,
         AdvanceExhausted, AdvanceContractReady, AdvanceExport, AdvanceDone, AdvanceFinalize,
         Answer, AnswerRefused, Disconnect, Pause, Fail, FailStored, Onward, ProposeContract,
         ProposeArchitecture, ProposeChapter, DraftChapter, ApproveContract, ApproveArchitecture, ApproveChapter,
         Export, ListUnits, EditUnit, AcceptEdit, ReviewPasses, LockMaster, WriteTemp, PublishLost
    <3>2. ASSUME NEW c \in Client,
                 \/ StartRead(c) \/ \E litres \in BOOLEAN : StartWrite(c, litres)
                 \/ Stop(c) \/ Continue(c)
          PROVE  UNCHANGED file
      BY <3>2 DEF StartRead, StartWrite, Stop, Continue
    <3>3. Crash \/ UNCHANGED vars => UNCHANGED file
      BY DEF Crash, vars
    <3> QED BY <1>1, <3>1, <3>2, <3>3 DEF Next
  <2>2. AutoInv' /\ WindowFacts(op[c])
    BY <1>1, AutoStep DEF WindowInv
  <2>3. file' = op[c].st
    BY <1>1, <2>1, <2>2, WindowPublishes
  <2>4. op[c].pc = "publish"
    BY <2>1 DEF Publish
  <2>5. CASE op[c].then = "started"
    BY <2>2, <2>3, <2>5 DEF WindowFacts
  <2>6. CASE op[c].then # "started"
    <3>1. NotBefore(op[c].st, file)
      BY <2>2, <2>4, <2>6 DEF WindowFacts, Waiting
    <3> QED BY <2>3, <3>1 DEF NotBefore, Rank
  <2> QED BY <2>5, <2>6
<1>2. WindowInv /\ [Next]_vars => [Kept]_file
  BY <1>1
<1> QED BY <1>2, WindowStart, WindowStep, PTL DEF Spec, ProgressIsKept
=================================================================================
