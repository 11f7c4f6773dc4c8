---------------------------- MODULE ReleaseProofs ----------------------------
(***************************************************************************)
(* Proofs about Release: it runs Editorial unchanged, and whatever calls   *)
(* interleave, a master is what was evaluated and ignores no open finding; *)
(* what rows name exists; and when no call runs into another, a master is  *)
(* current in every respect.                                               *)
(***************************************************************************)
EXTENDS Release, EditorialProofs, FiniteSetTheorems

(***************************************************************************)
(* Release implements Editorial.                                           *)
(***************************************************************************)
LEMMA StepIsEditorial == [Next]_all => [EditorialNext]_vars
<1> SUFFICES ASSUME [Next]_all PROVE [EditorialNext]_vars
  OBVIOUS
<1>1. CASE UNCHANGED all
  BY <1>1 DEF all
<1>2. CASE EditorialAlongside
  BY <1>2 DEF EditorialAlongside, EditorialNext
<1>3. CASE ReleaseStep
  <2>1. UNCHANGED vars
    BY <1>3 DEF ReleaseStep, Replan, RecordReview, RunCheck, ClaimRead, ClaimWrite, SnapRows,
                SnapHead, SnapLookup, SnapInsert, LockChapters, LockHead, LockFindings,
                LockSnapshot, LockClaims, LockChecks, LockBlocking, LockInsert, AbortJob
  <2> QED
    BY <2>1
<1>4. CASE Exit
  BY <1>4 DEF Exit, Crash, EditorialNext
<1> QED
  BY <1>1, <1>2, <1>3, <1>4 DEF Next

\* Evaluating and locking change nothing an editorial call relies on: every behaviour of Release
\* is one of Editorial (bookbench.py and literary_master.py write tables of their own).
THEOREM ReleaseRunsEditorial == Spec => EditorialSpec
BY StepIsEditorial, PTL DEF Spec, EditorialSpec

LEMMA EditorialHolds == Spec => []EditInv
BY ReleaseRunsEditorial, EditorialInvariant, PTL

\* What an editorial step leaves in place: approvals, and that a closed finding is closed.
Kept ==
  /\ approvals \subseteq approvals'
  /\ \A f \in 1..Len(findings) : /\ f \in 1..Len(findings')
                                 /\ findings[f].status # "OPEN" => findings'[f].status # "OPEN"

LEMMA KeptByReads ==
  ASSUME UNCHANGED <<findings, approvals>>
  PROVE  Kept
BY DEF Kept

LEMMA KeptByEditorial ==
  ASSUME EditInv, [EditorialNext]_vars
  PROVE  Kept
<1>1. CASE UNCHANGED <<findings, approvals>>
  BY <1>1, KeptByReads
<1>2. ASSUME NEW p, NEW u, NEW base, Approve(p, u, base), UNCHANGED findings
      PROVE  Kept
  BY <1>2 DEF Approve, Kept
<1>3. ASSUME NEW c \in Client, FindingInsert(c)
      PROVE  Kept
  <2> DEFINE row == [unit |-> op[c].unit, base |-> op[c].base, status |-> "OPEN", closings |-> <<>>]
  <2>1. row \in FindingRow
    <3>1. op[c].unit \in Unit /\ op[c].base \in Rev
      BY <1>3, OpRow DEF FindingInsert, OpState, Facts
    <3> QED
      BY <3>1 DEF FindingRow, FindingStatus
  <2>2. findings' = Append(findings, row) /\ UNCHANGED approvals
    BY <1>3 DEF FindingInsert, text
  <2> HIDE DEF row
  <2>3. findings \in Seq(FindingRow) /\ Len(findings) \in Nat
    BY DEF EditInv, RowsInv
  <2> QED
    BY <2>1, <2>2, <2>3, AppendRow DEF Kept
<1>4. ASSUME NEW c \in Client, CloseWrite(c)
      PROVE  Kept
  <2> DEFINE f == op[c].finding
             v == op[c].verdict
             row == [findings[f] EXCEPT !.status = v,
                                        !.closings = Append(@, [prior |-> op[c].prior, new |-> v])]
  <2>1. op[c].pc = "close_write" /\ UNCHANGED approvals /\ findings' = [findings EXCEPT ![f] = row]
    BY <1>4 DEF CloseWrite, text
  <2>2. f \in 1..Len(findings) /\ v # "OPEN"
    BY <2>1, OpRow DEF Facts
  <2>3. findings \in Seq(FindingRow) /\ findings[f] \in FindingRow
    BY <2>2 DEF EditInv, RowsInv
  <2>4. row.status = v
    BY <2>3 DEF FindingRow
  <2> HIDE DEF row, v
  <2>5. /\ Len(findings') = Len(findings) /\ findings'[f] = row
        /\ \A g \in 1..Len(findings) : g # f => findings'[g] = findings[g]
    BY <2>1, <2>2, <2>3
  <2> QED
    BY <2>1, <2>2, <2>4, <2>5 DEF Kept
<1>5. CASE Serve
  <2>1. \/ UNCHANGED <<findings, approvals>>
        \/ \E c \in Client : FindingInsert(c) \/ CloseWrite(c) \/ AcceptWrite(c)
    BY <1>5 DEF Serve, FindingRead, ProposeRead, WaiveRead, AcceptRead, RejectRead, ReviseRead,
                ProposeTarget, ProposeInsert, ProposeLink, AcceptOpen, CloseRead, RejectWrite,
                ReviseWrite, WaiveList, WaiveWrite, text, corpus
  <2>2. ASSUME NEW c \in Client, AcceptWrite(c)
        PROVE  Kept
    BY <2>2, <1>2 DEF AcceptWrite
  <2> QED
    BY <1>1, <1>3, <1>4, <2>1, <2>2
<1>6. CASE \E u \in Unit : WriteUnit(u) \/ EditUnit(u)
  <2>1. ASSUME NEW u \in Unit, WriteUnit(u)
        PROVE  Kept
    BY <2>1, <1>1 DEF WriteUnit, corpus
  <2>2. ASSUME NEW u \in Unit, EditUnit(u)
        PROVE  Kept
    BY <2>2, <1>2 DEF EditUnit, corpus
  <2> QED
    BY <1>6, <2>1, <2>2
<1>7. CASE (\E c \in Client : Abort(c)) \/ Crash \/ UNCHANGED vars
  BY <1>7, <1>1 DEF Abort, Crash, vars, text, corpus
<1> QED
  BY <1>5, <1>6, <1>7 DEF EditorialNext, EditorialStep

(***************************************************************************)
(* The inductive invariant of evaluating and locking.                      *)
(***************************************************************************)
PartialMap == UNION {[D -> Nat] : D \in SUBSET Unit}
SnapRow    == [chapters : SUBSET Unit, read : PartialMap, claims : Nat, at : Nat]
RunRow     == [snapshot : Nat, check : Check, blocking : BOOLEAN]
MasterRow  == [units : PartialMap, snapshot : Nat, current : BOOLEAN,
               missed : [findings : SUBSET Nat, runs : SUBSET RunRow]]
JobRow     == [pc : JobPc, chapters : SUBSET Unit, units : SUBSET Unit, read : PartialMap,
               claims : Nat, at : Nat, snapshot : Nat, open : SUBSET Nat, blocking : SUBSET RunRow]

\* Among the snapshots one is the latest.
HasLatest ==
  snapshots # <<>> => \E s \in 1..Len(snapshots) :
                        \A t \in 1..Len(snapshots) : snapshots[t].at <= snapshots[s].at

ReleaseTypeInv ==
  /\ active \in SUBSET Unit
  /\ claims \in [version : Nat, at : Nat] /\ clock \in Nat
  /\ snapshots \in Seq(SnapRow) /\ HasLatest
  /\ runs \subseteq RunRow
  /\ masters \in Seq(MasterRow)
  /\ job \in [Officer -> JobRow]

AtLock        == {"lock_head", "lock_snapshot", "lock_claims", "lock_checks", "lock_blocking", "lock_insert"}
AfterFindings == AtLock \ {"lock_head"}
AfterSnapshot == AfterFindings \ {"lock_snapshot"}
AfterChecks   == {"lock_blocking", "lock_insert"}

\* What the gate of a lock has established so far, whatever happened since.
Established(o) ==
  LET j == job[o]
  IN /\ j.pc \in AtLock =>
          /\ j.open \subseteq 1..Len(findings)
          /\ j.blocking \subseteq BlockingRuns
          /\ \A u \in DOMAIN j.read : Approved(j.read[u])
     /\ j.pc \in AfterFindings => j.open \intersect OpenFindings = {}
     /\ j.pc \in AfterSnapshot => /\ j.snapshot \in 1..Len(snapshots)
                                  /\ snapshots[j.snapshot].read = j.read
     /\ j.pc \in AfterChecks => Check \subseteq {r.check : r \in RunsOn(j.snapshot)}
     /\ j.pc = "lock_insert" => \A r \in j.blocking : r.snapshot # j.snapshot

Evaluated(m) ==
  LET s == masters[m].snapshot
  IN /\ s \in 1..Len(snapshots)
     /\ masters[m].units = snapshots[s].read
     /\ \A u \in DOMAIN masters[m].units : Approved(masters[m].units[u])
     /\ Check \subseteq {r.check : r \in RunsOn(s)}
     /\ masters[m].missed.runs = {} /\ masters[m].missed.findings = {}

ReleaseInv ==
  /\ ReleaseTypeInv
  /\ \A o \in Officer : Established(o)
  /\ \A m \in 1..Len(masters) : Evaluated(m)

\* Snapshots and runs are only added.
Accrue ==
  /\ Len(snapshots) <= Len(snapshots') /\ Len(snapshots') \in Nat
  /\ \A s \in 1..Len(snapshots) : snapshots'[s] = snapshots[s]
  /\ runs \subseteq runs'

LEMMA SameAccrue ==
  ASSUME ReleaseTypeInv, UNCHANGED <<snapshots, runs>>
  PROVE  Accrue
BY DEF ReleaseTypeInv, Accrue

LEMMA SnapRange ==
  ASSUME ReleaseTypeInv, Accrue, NEW s \in 1..Len(snapshots)
  PROVE  s \in 1..Len(snapshots')
<1>1. Len(snapshots) \in Nat
  BY DEF ReleaseTypeInv
<1> QED
  BY <1>1 DEF Accrue

LEMMA ClosedStays ==
  ASSUME Kept, NEW S, S \subseteq 1..Len(findings), S \intersect OpenFindings = {}
  PROVE  S \intersect OpenFindings' = {}
BY DEF Kept, OpenFindings

LEMMA ApprovedStays ==
  ASSUME Kept, NEW r, Approved(r)
  PROVE  \E a \in approvals' : a.rev = r
BY DEF Kept, Approved

LEMMA ChecksStay ==
  ASSUME Accrue, NEW s, Check \subseteq {r.check : r \in RunsOn(s)}
  PROVE  Check \subseteq {r.check : r \in {q \in runs' : q.snapshot = s}}
BY DEF Accrue, RunsOn

\* What an untouched call has established stays established.
LEMMA KeepEstablished ==
  ASSUME ReleaseTypeInv, Kept, Accrue, NEW o \in Officer, Established(o), job'[o] = job[o]
  PROVE  Established(o)'
<1> DEFINE j == job[o]
<1>1. /\ j.pc \in AtLock => j.open \subseteq 1..Len(findings')
      /\ j.pc \in AtLock => j.blocking \subseteq BlockingRuns'
  BY DEF Established, Kept, Accrue, BlockingRuns
<1>2. j.pc \in AtLock => \A u \in DOMAIN j.read : \E a \in approvals' : a.rev = j.read[u]
  BY ApprovedStays DEF Established
<1>3. j.pc \in AfterFindings => j.open \intersect OpenFindings' = {}
  BY ClosedStays DEF Established, AfterFindings
<1>4. j.pc \in AfterSnapshot => /\ j.snapshot \in 1..Len(snapshots')
                               /\ snapshots'[j.snapshot].read = j.read
  BY SnapRange DEF Established, Accrue
<1>5. j.pc \in AfterChecks => Check \subseteq {r.check : r \in {q \in runs' : q.snapshot = j.snapshot}}
  BY ChecksStay DEF Established
<1>6. j.pc = "lock_insert" => \A r \in j.blocking : r.snapshot # j.snapshot
  BY DEF Established
<1> HIDE DEF j
<1>7. job'[o] = j
  BY DEF j
<1> QED
  BY <1>1, <1>2, <1>3, <1>4, <1>5, <1>6, <1>7 DEF Established, Approved, RunsOn

LEMMA FreeEstablished ==
  ASSUME NEW o \in Officer, job'[o].pc \notin AtLock
  PROVE  Established(o)'
BY DEF Established, AtLock, AfterFindings, AfterSnapshot, AfterChecks

LEMMA KeepEvaluated ==
  ASSUME ReleaseTypeInv, Kept, Accrue, NEW m, Evaluated(m), masters'[m] = masters[m], m' = m
  PROVE  Evaluated(m)'
<1> DEFINE row == masters[m]
<1>1. row.snapshot \in 1..Len(snapshots') /\ row.units = snapshots'[row.snapshot].read
  BY SnapRange DEF Evaluated, Accrue
<1>2. \A u \in DOMAIN row.units : \E a \in approvals' : a.rev = row.units[u]
  BY ApprovedStays DEF Evaluated
<1>3. Check \subseteq {r.check : r \in {q \in runs' : q.snapshot = row.snapshot}}
  BY ChecksStay DEF Evaluated
<1>4. row.missed.runs = {} /\ row.missed.findings = {}
  BY DEF Evaluated
<1> HIDE DEF row
<1>5. masters'[m] = row
  BY DEF row
<1> QED
  BY <1>1, <1>2, <1>3, <1>4, <1>5 DEF Evaluated, Approved, RunsOn

\* The masters there are stay what they were.
LEMMA SameMasters ==
  ASSUME ReleaseInv, Kept, Accrue, UNCHANGED masters
  PROVE  \A m \in 1..Len(masters') : Evaluated(m)'
<1> SUFFICES ASSUME NEW m \in 1..Len(masters)
             PROVE  Evaluated(m)'
  OBVIOUS
<1> QED
  BY KeepEvaluated DEF ReleaseInv

\* One call goes on, the others stay.
LEMMA PassJobs ==
  ASSUME ReleaseInv, Kept, Accrue, NEW o \in Officer, NEW j \in JobRow, Pass(o, j),
         job'[o] = j => Established(o)'
  PROVE  job' \in [Officer -> JobRow] /\ \A q \in Officer : Established(q)'
<1>1. job' \in [Officer -> JobRow] /\ job'[o] = j /\ \A q \in Officer \ {o} : job'[q] = job[q]
  BY DEF Pass, ReleaseInv, ReleaseTypeInv
<1>2. \A q \in Officer \ {o} : Established(q)'
  BY <1>1, KeepEstablished DEF ReleaseInv
<1> QED
  BY <1>1, <1>2

LEMMA FreeRow == Free \in JobRow /\ Free.pc = "idle"
<1>1. NoUnits \in PartialMap
  BY DEF NoUnits, PartialMap
<1> QED
  BY <1>1 DEF Free, JobRow, JobPc

LEMMA JobType ==
  ASSUME ReleaseInv, NEW o \in Officer
  PROVE  job[o] \in JobRow /\ Established(o)
BY DEF ReleaseInv, ReleaseTypeInv

\* A call that only goes on, with the evidence as it is.
LEMMA GateStep ==
  ASSUME ReleaseInv, NEW o \in Officer, NEW j \in JobRow, Pass(o, j), UNCHANGED <<vars, evidence>>,
         job'[o] = j => Established(o)'
  PROVE  ReleaseInv'
<1>1. /\ UNCHANGED <<findings, approvals>> /\ UNCHANGED <<active, claims, clock, masters>>
      /\ UNCHANGED <<snapshots, runs>>
  BY DEF vars, text, corpus, evidence
<1>2. Kept /\ Accrue
  BY <1>1, KeptByReads, SameAccrue DEF ReleaseInv
<1>3. job' \in [Officer -> JobRow] /\ \A q \in Officer : Established(q)'
  BY <1>2, PassJobs
<1>4. \A m \in 1..Len(masters') : Evaluated(m)'
  BY <1>1, <1>2, SameMasters
<1> QED
  BY <1>1, <1>3, <1>4 DEF ReleaseInv, ReleaseTypeInv, HasLatest

\* A step that changes no lock in flight.
LEMMA SameJobs ==
  ASSUME ReleaseInv, Kept, Accrue, UNCHANGED job
  PROVE  job' \in [Officer -> JobRow] /\ \A o \in Officer : Established(o)'
BY KeepEstablished DEF ReleaseInv, ReleaseTypeInv

(***************************************************************************)
(* One step per action.                                                    *)
(***************************************************************************)
LEMMA EditorialAlongsideStep ==
  ASSUME ReleaseInv, EditInv, EditorialAlongside
  PROVE  ReleaseInv'
<1>1. UNCHANGED <<active, claims, clock, snapshots, runs, masters, job>> /\ UNCHANGED <<snapshots, runs>>
  BY DEF EditorialAlongside, evidence
<1>2. Kept /\ Accrue
  BY <1>1, KeptByEditorial, SameAccrue DEF EditorialAlongside, EditorialNext, ReleaseInv
<1>3. job' \in [Officer -> JobRow] /\ \A o \in Officer : Established(o)'
  BY <1>1, <1>2, SameJobs
<1>4. \A m \in 1..Len(masters') : Evaluated(m)'
  BY <1>1, <1>2, SameMasters
<1> QED
  BY <1>1, <1>3, <1>4 DEF ReleaseInv, ReleaseTypeInv, HasLatest

\* A new architecture, a review.
LEMMA PlanStep ==
  ASSUME ReleaseInv, (\E chapters \in SUBSET Unit : Replan(chapters))
                     \/ (\E outcome : RecordReview(outcome))
  PROVE  ReleaseInv'
<1>1. /\ active' \in SUBSET Unit /\ UNCHANGED <<claims, clock, snapshots, runs, masters, job>>
      /\ UNCHANGED <<findings, approvals>> /\ UNCHANGED <<snapshots, runs>>
  BY DEF Replan, RecordReview, ReleaseInv, ReleaseTypeInv, vars, text, corpus
<1>2. Kept /\ Accrue
  BY <1>1, KeptByReads, SameAccrue DEF ReleaseInv
<1>3. job' \in [Officer -> JobRow] /\ \A o \in Officer : Established(o)'
  BY <1>1, <1>2, SameJobs
<1>4. \A m \in 1..Len(masters') : Evaluated(m)'
  BY <1>1, <1>2, SameMasters
<1> QED
  BY <1>1, <1>3, <1>4 DEF ReleaseInv, ReleaseTypeInv, HasLatest

LEMMA RunCheckStep ==
  ASSUME ReleaseInv, NEW s \in 1..Len(snapshots), NEW k \in Check, NEW b \in BOOLEAN, RunCheck(s, k, b)
  PROVE  ReleaseInv'
<1> DEFINE row == [snapshot |-> s, check |-> k, blocking |-> b]
<1>1. /\ runs' = runs \union {row} /\ UNCHANGED <<active, claims, clock, snapshots, masters, job>>
      /\ UNCHANGED <<findings, approvals>>
  BY DEF RunCheck, vars, text, corpus
<1>2. row \in RunRow
  <2>1. s \in Nat
    BY DEF ReleaseInv, ReleaseTypeInv
  <2> QED
    BY <2>1 DEF RunRow
<1> HIDE DEF row
<1>3. Kept /\ Accrue
  BY <1>1, KeptByReads DEF Accrue, ReleaseInv, ReleaseTypeInv
<1>4. job' \in [Officer -> JobRow] /\ \A o \in Officer : Established(o)'
  BY <1>1, <1>3, SameJobs
<1>5. \A m \in 1..Len(masters') : Evaluated(m)'
  BY <1>1, <1>3, SameMasters
<1> QED
  BY <1>1, <1>2, <1>4, <1>5 DEF ReleaseInv, ReleaseTypeInv, HasLatest

\* A step of a call that is not at the gate, which may read the clock or store a claim.
LEMMA OutsideStep ==
  ASSUME ReleaseInv, NEW o \in Officer, NEW j \in JobRow, j.pc \notin AtLock, Pass(o, j), UNCHANGED vars,
         UNCHANGED <<active, snapshots, runs, masters>>,
         claims' \in [version : Nat, at : Nat], clock' \in Nat
  PROVE  ReleaseInv'
<1>1. UNCHANGED <<findings, approvals>> /\ UNCHANGED <<snapshots, runs>>
  BY DEF vars, text, corpus
<1>2. Kept /\ Accrue
  BY <1>1, KeptByReads, SameAccrue DEF ReleaseInv
<1>3. job'[o] = j => Established(o)'
  BY FreeEstablished
<1>4. job' \in [Officer -> JobRow] /\ \A q \in Officer : Established(q)'
  BY <1>2, <1>3, PassJobs
<1>5. \A m \in 1..Len(masters') : Evaluated(m)'
  BY <1>2, SameMasters
<1> QED
  BY <1>4, <1>5 DEF ReleaseInv, ReleaseTypeInv, HasLatest

LEMMA ClockType ==
  ASSUME ReleaseInv
  PROVE  /\ clock \in Nat /\ (Tick => clock' \in Nat)
         /\ claims \in [version : Nat, at : Nat] /\ claims.version \in Nat /\ claims.version + 1 \in Nat
BY DEF ReleaseInv, ReleaseTypeInv, Tick

LEMMA ClaimReadStep ==
  ASSUME ReleaseInv, NEW o \in Officer, ClaimRead(o)
  PROVE  ReleaseInv'
<1> DEFINE j == [Free EXCEPT !.pc = "claim_write", !.at = clock']
<1>1. /\ Pass(o, j) /\ UNCHANGED vars /\ UNCHANGED <<active, snapshots, runs, masters>>
      /\ clock' \in Nat /\ claims' = claims
  BY ClockType DEF ClaimRead, Begin
<1>2. j \in JobRow /\ j.pc = "claim_write"
  BY <1>1, FreeRow DEF JobRow, JobPc
<1> HIDE DEF j
<1>3. j.pc \notin AtLock
  BY <1>2 DEF AtLock
<1> QED
  BY <1>1, <1>2, <1>3, ClockType, OutsideStep

LEMMA ClaimWriteStep ==
  ASSUME ReleaseInv, NEW o \in Officer, ClaimWrite(o)
  PROVE  ReleaseInv'
<1>1. /\ Pass(o, Free) /\ UNCHANGED vars /\ UNCHANGED <<active, snapshots, runs, masters>>
      /\ clock' = clock /\ claims' = [version |-> claims.version + 1, at |-> job[o].at]
  BY DEF ClaimWrite, Leave
<1>2. job[o].at \in Nat
  BY JobType DEF JobRow
<1>3. claims' \in [version : Nat, at : Nat] /\ clock' \in Nat
  BY <1>1, <1>2, ClockType
<1>4. Free.pc \notin AtLock
  BY FreeRow DEF AtLock
<1> QED
  BY <1>1, <1>3, <1>4, FreeRow, OutsideStep

LEMMA SnapRowsStep ==
  ASSUME ReleaseInv, NEW o \in Officer, SnapRows(o)
  PROVE  ReleaseInv'
<1> DEFINE j == [Free EXCEPT !.pc = "snap_head", !.chapters = active, !.units = Written,
                             !.claims = claims.version]
<1>1. Pass(o, j) /\ UNCHANGED vars /\ UNCHANGED <<active, claims, clock, snapshots, runs, masters>>
  BY DEF SnapRows, Begin, evidence
<1>2. active \in SUBSET Unit /\ Written \in SUBSET Unit
  BY DEF ReleaseInv, ReleaseTypeInv, Written
<1>3. j \in JobRow /\ j.pc = "snap_head"
  BY <1>2, FreeRow, ClockType DEF JobRow, JobPc
<1> HIDE DEF j
<1>4. j.pc \notin AtLock
  BY <1>3 DEF AtLock
<1> QED
  BY <1>1, <1>3, <1>4, ClockType, OutsideStep

LEMMA ReadType ==
  ASSUME ReleaseInv, EditInv, NEW o \in Officer, NEW u \in Unit
  PROVE  /\ Read(o, u) \in PartialMap
         /\ DOMAIN Read(o, u) = DOMAIN job[o].read \union {u}
         /\ \A v \in DOMAIN Read(o, u) : Read(o, u)[v] = IF v = u THEN head[u] ELSE job[o].read[v]
<1>1. head[u] \in Nat
  BY DEF EditInv, TextInv, Rev0
<1>2. job[o].read \in PartialMap
  BY JobType DEF JobRow
<1>3. DOMAIN job[o].read \subseteq Unit /\ \A v \in DOMAIN job[o].read : job[o].read[v] \in Nat
  BY <1>2 DEF PartialMap
<1> DEFINE D == DOMAIN job[o].read \union {u}
<1>4. D \in SUBSET Unit /\ Read(o, u) \in [D -> Nat]
  BY <1>1, <1>3 DEF Read
<1> QED
  BY <1>4 DEF Read, PartialMap

LEMMA SnapHeadStep ==
  ASSUME ReleaseInv, EditInv, NEW o \in Officer, NEW u \in Unit, SnapHead(o, u)
  PROVE  ReleaseInv'
<1> DEFINE j == [job[o] EXCEPT !.read = Read(o, u)]
<1>1. /\ job[o].pc = "snap_head" /\ Pass(o, j) /\ UNCHANGED vars
      /\ UNCHANGED <<active, claims, clock, snapshots, runs, masters>>
  BY DEF SnapHead, evidence
<1>2. j \in JobRow /\ j.pc = job[o].pc
  BY ReadType, JobType DEF JobRow
<1> HIDE DEF j
<1>3. j.pc \notin AtLock
  BY <1>1, <1>2 DEF AtLock
<1> QED
  BY <1>1, <1>2, <1>3, ClockType, OutsideStep

LEMMA SnapLookupStep ==
  ASSUME ReleaseInv, NEW o \in Officer, SnapLookup(o)
  PROVE  ReleaseInv'
<1> DEFINE j == [job[o] EXCEPT !.pc = "snap_insert", !.at = clock']
<1>1. /\ UNCHANGED vars /\ UNCHANGED <<active, snapshots, runs, masters>> /\ claims' = claims
      /\ \/ Pass(o, Free) /\ clock' = clock
         \/ Pass(o, j) /\ Tick
  BY DEF SnapLookup, Leave
<1>2. clock' \in Nat /\ claims' \in [version : Nat, at : Nat]
  BY <1>1, ClockType
<1>3. j \in JobRow /\ j.pc = "snap_insert"
  BY <1>2, JobType DEF JobRow, JobPc
<1> HIDE DEF j
<1>4. j.pc \notin AtLock /\ Free.pc \notin AtLock
  BY <1>3, FreeRow DEF AtLock
<1> QED
  BY <1>1, <1>2, <1>3, <1>4, FreeRow, OutsideStep

LEMMA SnapInsertStep ==
  ASSUME ReleaseInv, NEW o \in Officer, SnapInsert(o)
  PROVE  ReleaseInv'
<1> DEFINE n   == Len(snapshots)
           row == [chapters |-> job[o].chapters, read |-> job[o].read,
                   claims |-> job[o].claims, at |-> job[o].at]
<1>1. /\ snapshots' = Append(snapshots, row) /\ Pass(o, Free)
      /\ UNCHANGED <<active, claims, clock, runs, masters>> /\ UNCHANGED <<findings, approvals>>
  BY DEF SnapInsert, Leave, vars, text, corpus
<1>2. row \in SnapRow /\ row.at \in Nat
  BY JobType DEF JobRow, SnapRow
<1> HIDE DEF row
<1>3. snapshots \in Seq(SnapRow) /\ n \in Nat
  BY DEF ReleaseInv, ReleaseTypeInv
<1>4. /\ snapshots' \in Seq(SnapRow) /\ Len(snapshots') = n + 1
      /\ \A s \in 1..n : snapshots'[s] = snapshots[s]
      /\ snapshots'[n + 1] = row
  BY <1>1, <1>2, <1>3, AppendRow
<1>5. Kept /\ Accrue
  BY <1>1, <1>3, <1>4, KeptByReads DEF Accrue
<1>6. HasLatest'
  <2>1. \A s \in 1..n : snapshots[s].at \in Nat
    <3>1. \A s \in 1..n : snapshots[s] \in SnapRow
      BY <1>3
    <3> QED
      BY <3>1 DEF SnapRow
  <2>2. CASE n = 0
    BY <1>2, <1>4, <2>2 DEF HasLatest
  <2>3. CASE n # 0
    <3>1. snapshots # <<>>
      BY <2>3
    <3>2. PICK s \in 1..n : \A t \in 1..n : snapshots[t].at <= snapshots[s].at
      BY <3>1 DEF ReleaseInv, ReleaseTypeInv, HasLatest
    <3>3. \A t \in 1..Len(snapshots') : t \in 1..n \/ t = n + 1
      BY <1>3, <1>4
    <3>4. CASE row.at <= snapshots[s].at
      <4>1. s \in 1..Len(snapshots') /\ \A t \in 1..Len(snapshots') : snapshots'[t].at <= snapshots'[s].at
        BY <1>3, <1>4, <3>2, <3>3, <3>4
      <4> QED
        BY <4>1 DEF HasLatest
    <3>5. CASE snapshots[s].at < row.at
      <4>1. \A t \in 1..n : snapshots[t].at <= row.at
        BY <1>2, <2>1, <3>2, <3>5
      <4>2. /\ n + 1 \in 1..Len(snapshots')
            /\ \A t \in 1..Len(snapshots') : snapshots'[t].at <= snapshots'[n + 1].at
        BY <1>2, <1>3, <1>4, <3>3, <4>1
      <4> QED
        BY <4>2 DEF HasLatest
    <3> QED
      BY <1>2, <2>1, <3>2, <3>4, <3>5
  <2> QED
    BY <2>2, <2>3
<1>7. job' \in [Officer -> JobRow] /\ \A q \in Officer : Established(q)'
  <2>1. Free.pc \notin AtLock
    BY FreeRow DEF AtLock
  <2> QED
    BY <1>1, <1>5, <2>1, FreeRow, FreeEstablished, PassJobs
<1>8. \A m \in 1..Len(masters') : Evaluated(m)'
  BY <1>1, <1>5, SameMasters
<1> QED
  BY <1>1, <1>4, <1>6, <1>7, <1>8 DEF ReleaseInv, ReleaseTypeInv

LEMMA LockChaptersStep ==
  ASSUME ReleaseInv, EditInv, NEW o \in Officer, LockChapters(o)
  PROVE  ReleaseInv'
<1> DEFINE j == [Free EXCEPT !.pc = "lock_head", !.chapters = active,
                             !.open = OpenFindings, !.blocking = BlockingRuns]
<1>1. Pass(o, j) /\ UNCHANGED <<vars, evidence>> /\ UNCHANGED <<findings, runs>>
  BY DEF LockChapters, Begin, vars, corpus, evidence
<1>2. /\ active \in SUBSET Unit /\ OpenFindings \in SUBSET Nat /\ OpenFindings \subseteq 1..Len(findings)
      /\ BlockingRuns \in SUBSET RunRow
  BY DEF ReleaseInv, ReleaseTypeInv, OpenFindings, BlockingRuns, EditInv, RowsInv
<1>3. /\ j \in JobRow /\ j.pc = "lock_head" /\ j.open = OpenFindings
      /\ j.blocking = BlockingRuns /\ j.read = NoUnits
  BY <1>2, FreeRow DEF JobRow, JobPc, Free
<1> HIDE DEF j
<1>4. DOMAIN j.read = {}
  BY <1>3 DEF NoUnits
<1>5. BlockingRuns' = BlockingRuns
  BY <1>1 DEF BlockingRuns
<1>6. job'[o] = j => Established(o)'
  BY <1>1, <1>2, <1>3, <1>4, <1>5 DEF Established, AfterFindings, AfterSnapshot, AfterChecks
<1> QED
  BY <1>1, <1>3, <1>6, GateStep

\* The gate's reads go on; what they established before they keep.
LEMMA LockHeadStep ==
  ASSUME ReleaseInv, EditInv, NEW o \in Officer, NEW u \in Unit, LockHead(o, u)
  PROVE  ReleaseInv'
<1> DEFINE j == [job[o] EXCEPT !.read = Read(o, u)]
<1>1. /\ job[o].pc = "lock_head" /\ Approved(head[u]) /\ Pass(o, j)
      /\ UNCHANGED <<vars, evidence>> /\ UNCHANGED <<findings, runs, approvals>>
  BY DEF LockHead, vars, text, corpus, evidence
<1>2. /\ j \in JobRow /\ j.pc = "lock_head" /\ j.read = Read(o, u)
      /\ j.open = job[o].open /\ j.blocking = job[o].blocking
  BY <1>1, ReadType, JobType DEF JobRow
<1> HIDE DEF j
<1>3. /\ job[o].open \subseteq 1..Len(findings) /\ job[o].blocking \subseteq BlockingRuns
      /\ \A v \in DOMAIN job[o].read : Approved(job[o].read[v])
  BY <1>1, JobType DEF Established, AtLock
<1>4. \A v \in DOMAIN j.read : Approved(j.read[v])
  <2>1. /\ DOMAIN j.read = DOMAIN job[o].read \union {u}
        /\ \A v \in DOMAIN j.read : j.read[v] = IF v = u THEN head[u] ELSE job[o].read[v]
    BY <1>2, ReadType
  <2> QED
    BY <1>1, <1>3, <2>1 DEF Approved
<1>5. BlockingRuns' = BlockingRuns
  BY <1>1 DEF BlockingRuns
<1>6. job'[o] = j => Established(o)'
  BY <1>1, <1>2, <1>3, <1>4, <1>5
     DEF Established, Approved, AfterFindings, AfterSnapshot, AfterChecks
<1> QED
  BY <1>1, <1>2, <1>6, GateStep

\* A step of the gate after the heads: it changes where the call is and perhaps the snapshot,
\* and adds what it has checked.
LEMMA LaterGateStep ==
  ASSUME ReleaseInv, NEW o \in Officer, NEW j \in JobRow, Pass(o, j), UNCHANGED <<vars, evidence>>,
         job[o].pc \in AtLock, j.pc \in AfterFindings,
         j.open = job[o].open, j.blocking = job[o].blocking, j.read = job[o].read,
         j.open \intersect OpenFindings = {},
         j.pc \in AfterSnapshot => j.snapshot \in 1..Len(snapshots)
                                  /\ snapshots[j.snapshot].read = j.read,
         j.pc \in AfterChecks => Check \subseteq {r.check : r \in RunsOn(j.snapshot)},
         j.pc = "lock_insert" => \A r \in j.blocking : r.snapshot # j.snapshot
  PROVE  ReleaseInv'
<1>1. UNCHANGED <<findings, approvals, runs, snapshots>>
  BY DEF vars, text, corpus, evidence
<1>2. /\ job[o].open \subseteq 1..Len(findings) /\ job[o].blocking \subseteq BlockingRuns
      /\ \A v \in DOMAIN job[o].read : Approved(job[o].read[v])
  BY JobType DEF Established
<1>3. OpenFindings' = OpenFindings /\ BlockingRuns' = BlockingRuns
  BY <1>1 DEF OpenFindings, BlockingRuns
<1>4. {r.check : r \in {q \in runs' : q.snapshot = j.snapshot}} = {r.check : r \in RunsOn(j.snapshot)}
  BY <1>1 DEF RunsOn
<1>5. job'[o] = j => Established(o)'
  BY <1>1, <1>2, <1>3, <1>4 DEF Established, Approved, RunsOn, AtLock
<1> QED
  BY <1>5, GateStep

LEMMA LockFindingsStep ==
  ASSUME ReleaseInv, NEW o \in Officer, LockFindings(o)
  PROVE  ReleaseInv'
<1> DEFINE j == [job[o] EXCEPT !.pc = "lock_snapshot"]
<1>1. job[o].pc = "lock_head" /\ OpenFindings = {} /\ Pass(o, j) /\ UNCHANGED <<vars, evidence>>
  BY DEF LockFindings, NoFindings, To
<1>2. /\ j \in JobRow /\ j.pc = "lock_snapshot" /\ j.open = job[o].open
      /\ j.blocking = job[o].blocking /\ j.read = job[o].read
  BY JobType DEF JobRow, JobPc
<1> HIDE DEF j
<1> QED
  BY <1>1, <1>2, LaterGateStep DEF AtLock, AfterFindings, AfterSnapshot, AfterChecks

LEMMA LatestExists ==
  ASSUME ReleaseInv, snapshots # <<>>
  PROVE  Latest \in 1..Len(snapshots)
BY DEF ReleaseInv, ReleaseTypeInv, HasLatest, Latest

LEMMA LockSnapshotStep ==
  ASSUME ReleaseInv, NEW o \in Officer, LockSnapshot(o)
  PROVE  ReleaseInv'
<1> DEFINE j == [job[o] EXCEPT !.pc = "lock_claims", !.snapshot = Latest]
<1>1. /\ job[o].pc = "lock_snapshot" /\ snapshots # <<>> /\ snapshots[Latest].read = job[o].read
      /\ Pass(o, j) /\ UNCHANGED <<vars, evidence>>
  BY DEF LockSnapshot, FitsRelease
<1>2. Latest \in 1..Len(snapshots) /\ Latest \in Nat
  BY <1>1, LatestExists DEF ReleaseInv, ReleaseTypeInv
<1>3. /\ j \in JobRow /\ j.pc = "lock_claims" /\ j.open = job[o].open /\ j.snapshot = Latest
      /\ j.blocking = job[o].blocking /\ j.read = job[o].read
  BY <1>2, JobType DEF JobRow, JobPc
<1>4. job[o].open \intersect OpenFindings = {}
  BY <1>1, JobType DEF Established, AfterFindings, AtLock
<1> HIDE DEF j
<1> QED
  BY <1>1, <1>2, <1>3, <1>4, LaterGateStep DEF AtLock, AfterFindings, AfterSnapshot, AfterChecks

\* Where a call at the gate is after the snapshot, whatever check comes next.
LEMMA NextCheck ==
  ASSUME ReleaseInv, NEW o \in Officer, NEW pc \in JobPc, job[o].pc \in AfterSnapshot, To(o, pc)
  PROVE  \E j \in JobRow :
           /\ Pass(o, j) /\ j.pc = pc /\ j.open = job[o].open /\ j.blocking = job[o].blocking
           /\ j.read = job[o].read /\ j.snapshot = job[o].snapshot
           /\ j.open \intersect OpenFindings = {}
           /\ j.snapshot \in 1..Len(snapshots) /\ snapshots[j.snapshot].read = j.read
<1> DEFINE j == [job[o] EXCEPT !.pc = pc]
<1>1. /\ j \in JobRow /\ j.pc = pc /\ j.open = job[o].open /\ j.snapshot = job[o].snapshot
      /\ j.blocking = job[o].blocking /\ j.read = job[o].read
  BY JobType DEF JobRow
<1>2. Pass(o, j)
  BY DEF To
<1>3. /\ job[o].open \intersect OpenFindings = {} /\ job[o].snapshot \in 1..Len(snapshots)
      /\ snapshots[job[o].snapshot].read = job[o].read
  BY JobType DEF Established, AfterSnapshot
<1> HIDE DEF j
<1> QED
  BY <1>1, <1>2, <1>3

LEMMA LockClaimsStep ==
  ASSUME ReleaseInv, NEW o \in Officer, LockClaims(o)
  PROVE  ReleaseInv'
<1>1. /\ job[o].pc = "lock_claims" /\ To(o, "lock_checks") /\ UNCHANGED <<vars, evidence>>
      /\ "lock_checks" \in JobPc
  BY DEF LockClaims, JobPc
<1>2. job[o].pc \in AfterSnapshot /\ job[o].pc \in AtLock
  BY <1>1 DEF AfterSnapshot, AfterFindings, AtLock
<1>3. "lock_checks" \in AfterFindings /\ "lock_checks" \notin AfterChecks
  BY DEF AfterFindings, AtLock, AfterChecks
<1> QED
  BY <1>1, <1>2, <1>3, NextCheck, LaterGateStep

LEMMA LockChecksStep ==
  ASSUME ReleaseInv, NEW o \in Officer, LockChecks(o)
  PROVE  ReleaseInv'
<1>1. /\ job[o].pc = "lock_checks" /\ To(o, "lock_blocking") /\ UNCHANGED <<vars, evidence>>
      /\ Check \subseteq {r.check : r \in RunsOn(job[o].snapshot)} /\ "lock_blocking" \in JobPc
  BY DEF LockChecks, JobPc
<1>2. job[o].pc \in AfterSnapshot /\ job[o].pc \in AtLock
  BY <1>1 DEF AfterSnapshot, AfterFindings, AtLock
<1>3. "lock_blocking" \in AfterFindings
  BY DEF AfterFindings, AtLock
<1> QED
  BY <1>1, <1>2, <1>3, NextCheck, LaterGateStep

LEMMA LockBlockingStep ==
  ASSUME ReleaseInv, NEW o \in Officer, LockBlocking(o)
  PROVE  ReleaseInv'
<1>1. /\ job[o].pc = "lock_blocking" /\ To(o, "lock_insert") /\ UNCHANGED <<vars, evidence>>
      /\ \A r \in RunsOn(job[o].snapshot) : ~r.blocking /\ "lock_insert" \in JobPc
  BY DEF LockBlocking, JobPc
<1>2. job[o].pc \in AfterSnapshot /\ job[o].pc \in AtLock /\ job[o].pc \in AfterChecks
  BY <1>1 DEF AfterSnapshot, AfterFindings, AtLock, AfterChecks
<1>3. "lock_insert" \in AfterFindings
  BY DEF AfterFindings, AtLock
<1>4. /\ Check \subseteq {r.check : r \in RunsOn(job[o].snapshot)}
      /\ job[o].blocking \subseteq BlockingRuns
  BY <1>2, JobType DEF Established
<1>5. \A r \in job[o].blocking : r.snapshot # job[o].snapshot
  BY <1>1, <1>4 DEF BlockingRuns, RunsOn
<1>6. "lock_insert" \in JobPc
  BY DEF JobPc
<1> QED
  BY <1>1, <1>2, <1>3, <1>4, <1>5, <1>6, NextCheck, LaterGateStep

LEMMA LockInsertStep ==
  ASSUME ReleaseInv, NEW o \in Officer, LockInsert(o)
  PROVE  ReleaseInv'
<1> DEFINE j == job[o]
           missed == [findings |-> j.open \intersect OpenFindings,
                      runs     |-> j.blocking \intersect RunsOn(j.snapshot)]
           row == [units |-> j.read, snapshot |-> j.snapshot, current |-> Current(j), missed |-> missed]
           n == Len(masters)
<1>1. /\ j.pc = "lock_insert" /\ Pass(o, Free)
      /\ UNCHANGED <<active, claims, clock, snapshots, runs>> /\ UNCHANGED <<findings, approvals>>
      /\ UNCHANGED <<snapshots, runs>>
  BY DEF LockInsert, Leave, vars, text, corpus
<1>2. UNCHANGED masters \/ masters' = Append(masters, row)
  BY DEF LockInsert
<1>3. Kept /\ Accrue
  BY <1>1, KeptByReads, SameAccrue DEF ReleaseInv
<1>4. job' \in [Officer -> JobRow] /\ \A q \in Officer : Established(q)'
  <2>1. Free.pc \notin AtLock
    BY FreeRow DEF AtLock
  <2> QED
    BY <1>1, <1>3, <2>1, FreeRow, FreeEstablished, PassJobs
<1>5. CASE UNCHANGED masters
  BY <1>1, <1>3, <1>4, <1>5, SameMasters DEF ReleaseInv, ReleaseTypeInv, HasLatest
<1>6. CASE masters' = Append(masters, row)
  <2>1. /\ j \in JobRow
        /\ j.open \intersect OpenFindings = {} /\ \A r \in j.blocking : r.snapshot # j.snapshot
        /\ j.snapshot \in 1..Len(snapshots) /\ snapshots[j.snapshot].read = j.read
        /\ Check \subseteq {r.check : r \in RunsOn(j.snapshot)}
        /\ \A u \in DOMAIN j.read : Approved(j.read[u])
    BY <1>1, JobType DEF Established, AtLock, AfterFindings, AfterSnapshot, AfterChecks
  <2>2. missed.findings = {} /\ missed.runs = {}
    BY <2>1 DEF RunsOn
  <2>3. Current(j) \in BOOLEAN
    BY Zenon DEF Current
  <2>4. j.read \in PartialMap /\ j.snapshot \in Nat
    BY <2>1 DEF JobRow
  <2> DEFINE cur == Current(j)
  <2>5. missed \in [findings : SUBSET Nat, runs : SUBSET RunRow]
    BY <2>2
  <2> HIDE DEF missed, cur
  <2>6. row \in MasterRow
    BY <2>3, <2>4, <2>5 DEF MasterRow, cur
  <2>7. row.units = j.read /\ row.snapshot = j.snapshot /\ row.missed = missed
    OBVIOUS
  <2> HIDE DEF row
  <2>8. masters \in Seq(MasterRow) /\ n \in Nat
    BY DEF ReleaseInv, ReleaseTypeInv
  <2>9. /\ masters' \in Seq(MasterRow) /\ Len(masters') = n + 1
        /\ \A m \in 1..n : masters'[m] = masters[m]
        /\ masters'[n + 1] = row
    BY <1>6, <2>6, <2>8, AppendRow
  <2>10. \A m \in 1..n : Evaluated(m)'
    <3> SUFFICES ASSUME NEW m \in 1..n PROVE Evaluated(m)'
      OBVIOUS
    <3> QED
      BY <1>3, <2>9, KeepEvaluated DEF ReleaseInv
  <2>11. \A m \in 1..Len(masters') : m = n + 1 => Evaluated(m)'
    BY <1>1, <2>1, <2>2, <2>7, <2>9 DEF Evaluated, Approved, RunsOn
  <2>12. \A m \in 1..Len(masters') : m \in 1..n \/ m = n + 1
    BY <2>8, <2>9
  <2>13. \A m \in 1..Len(masters') : Evaluated(m)'
    BY <2>10, <2>11, <2>12
  <2> QED
    BY <1>1, <1>4, <2>9, <2>13 DEF ReleaseInv, ReleaseTypeInv, HasLatest
<1> QED
  BY <1>2, <1>5, <1>6

LEMMA AbortJobStep ==
  ASSUME ReleaseInv, NEW o \in Officer, AbortJob(o)
  PROVE  ReleaseInv'
<1>1. Pass(o, Free) /\ UNCHANGED <<vars, evidence>>
  BY DEF AbortJob, Leave
<1>2. Free.pc \notin AtLock
  BY FreeRow DEF AtLock
<1> QED
  BY <1>1, <1>2, FreeRow, FreeEstablished, GateStep

LEMMA ExitStep ==
  ASSUME ReleaseInv, Exit
  PROVE  ReleaseInv'
<1>1. /\ UNCHANGED <<active, claims, clock, snapshots, runs, masters>> /\ UNCHANGED <<findings, approvals>>
      /\ UNCHANGED <<snapshots, runs>> /\ job' = [o \in Officer |-> Free]
  BY DEF Exit, text, corpus, evidence
<1>2. Kept /\ Accrue
  BY <1>1, KeptByReads, SameAccrue DEF ReleaseInv
<1>3. job' \in [Officer -> JobRow] /\ \A o \in Officer : Established(o)'
  <2>1. \A o \in Officer : job'[o].pc \notin AtLock
    BY <1>1, FreeRow DEF AtLock
  <2> QED
    BY <1>1, <2>1, FreeRow, FreeEstablished
<1>4. \A m \in 1..Len(masters') : Evaluated(m)'
  BY <1>1, <1>2, SameMasters
<1> QED
  BY <1>1, <1>3, <1>4 DEF ReleaseInv, ReleaseTypeInv, HasLatest

LEMMA ReleaseStutter ==
  ASSUME ReleaseInv, UNCHANGED all
  PROVE  ReleaseInv'
<1>1. /\ UNCHANGED <<active, claims, clock, masters, job>> /\ UNCHANGED <<findings, approvals>>
      /\ UNCHANGED <<snapshots, runs>>
  BY DEF all, vars, release, text, corpus, evidence
<1>2. Kept /\ Accrue
  BY <1>1, KeptByReads, SameAccrue DEF ReleaseInv
<1>3. /\ job' \in [Officer -> JobRow] /\ \A o \in Officer : Established(o)'
      /\ \A m \in 1..Len(masters') : Evaluated(m)'
  BY <1>1, <1>2, SameJobs, SameMasters
<1> QED
  BY <1>1, <1>3 DEF ReleaseInv, ReleaseTypeInv, HasLatest

LEMMA ReleaseInit == Init /\ InitRelease => ReleaseInv
<1> SUFFICES ASSUME InitRelease PROVE ReleaseInv
  OBVIOUS
<1>1. /\ active = Unit /\ clock = 0 /\ snapshots = <<>> /\ runs = {} /\ masters = <<>>
      /\ claims = [version |-> 1, at |-> 0] /\ job = [o \in Officer |-> Free]
  BY DEF InitRelease
<1>2. \A o \in Officer : Established(o)
  BY <1>1, FreeRow DEF Established, AtLock, AfterFindings, AfterSnapshot, AfterChecks
<1> QED
  BY <1>1, <1>2, FreeRow DEF ReleaseInv, ReleaseTypeInv, HasLatest

LEMMA ReleaseNext == ReleaseInv /\ EditInv /\ [Next]_all => ReleaseInv'
<1> SUFFICES ASSUME ReleaseInv, EditInv, [Next]_all PROVE ReleaseInv'
  OBVIOUS
<1>1. CASE UNCHANGED all
  BY <1>1, ReleaseStutter
<1>2. CASE EditorialAlongside
  BY <1>2, EditorialAlongsideStep
<1>3. CASE Exit
  BY <1>3, ExitStep
<1>4. CASE ReleaseStep
  <2>1. CASE (\E chapters \in SUBSET Unit : Replan(chapters))
             \/ (\E outcome \in {"passed", "blocking"} : RecordReview(outcome))
    BY <2>1, PlanStep
  <2>2. CASE \E s \in 1..Len(snapshots), k \in Check, b \in BOOLEAN : RunCheck(s, k, b)
    BY <2>2, RunCheckStep
  <2>3. ASSUME NEW o \in Officer, ClaimRead(o) \/ ClaimWrite(o)
        PROVE  ReleaseInv'
    BY <2>3, ClaimReadStep, ClaimWriteStep
  <2>4. ASSUME NEW o \in Officer, SnapRows(o) \/ SnapLookup(o) \/ SnapInsert(o)
        PROVE  ReleaseInv'
    BY <2>4, SnapRowsStep, SnapLookupStep, SnapInsertStep
  <2>5. ASSUME NEW o \in Officer, NEW u \in Unit, SnapHead(o, u) \/ LockHead(o, u)
        PROVE  ReleaseInv'
    BY <2>5, SnapHeadStep, LockHeadStep
  <2>6. ASSUME NEW o \in Officer, LockChapters(o) \/ LockFindings(o) \/ LockSnapshot(o) \/ LockClaims(o)
        PROVE  ReleaseInv'
    BY <2>6, LockChaptersStep, LockFindingsStep, LockSnapshotStep, LockClaimsStep
  <2>7. ASSUME NEW o \in Officer, LockChecks(o) \/ LockBlocking(o) \/ LockInsert(o) \/ AbortJob(o)
        PROVE  ReleaseInv'
    BY <2>7, LockChecksStep, LockBlockingStep, LockInsertStep, AbortJobStep
  <2> QED
    BY <1>4, <2>1, <2>2, <2>3, <2>4, <2>5, <2>6, <2>7 DEF ReleaseStep
<1> QED
  BY <1>1, <1>2, <1>3, <1>4 DEF Next

LEMMA ReleaseInvariant == Spec => []ReleaseInv
BY EditorialHolds, ReleaseInit, ReleaseNext, PTL DEF Spec

(***************************************************************************)
(* What follows.                                                           *)
(***************************************************************************)
LEMMA InvEvaluated == ReleaseInv => MasterIsEvaluated /\ NoFindingIgnored
BY DEF ReleaseInv, Evaluated, MasterIsEvaluated, NoFindingIgnored

\* However calls interleave and wherever they are cut short, a locked master consists of approved
\* revisions, the very ones its snapshot evaluated, every required check has run on it, and no
\* BLOCKING result known when the call began was passed over (literary_master.py _collect_state).
THEOREM LockedIsEvaluated == Spec => []MasterIsEvaluated
BY ReleaseInvariant, InvEvaluated, PTL

\* A material finding open from before create_master until its insert keeps the book unlocked
\* (literary_master.py, EDITORIAL_BLOCKING_OPEN; editorial.py never reopens a finding).
THEOREM OpenFindingBlocks == Spec => []NoFindingIgnored
BY ReleaseInvariant, InvEvaluated, PTL

\* The same of what Editorial promises, while books are evaluated and locked beside it.
THEOREM CorrectionsHoldInRelease ==
  Spec => []AppliedAsDiagnosed /\ []ClosedForCause /\ []ClosedOnce /\ []NothingAcceptReady
BY ReleaseRunsEditorial, CorrectionsApplyAsDiagnosed, FindingsCloseForCause, FindingsCloseOnce,
   ClosedFindingsChangeNothing, PTL

\* And the text of a unit stays a line of revisions: a revision that a master holds or a finding
\* diagnoses, once replaced, is never current again.
THEOREM ReleaseKeepsTheLine == Spec => Line!Spec
BY ReleaseRunsEditorial, UnitsKeepTheLine, PTL

(***************************************************************************)
(* Ranges: what rows and calls refer to exists, and the bounds are kept.   *)
(***************************************************************************)
HeadsRead(read) == \A u \in DOMAIN read : read[u] \in 1..head[u]

Writers == {o \in Officer : job[o].pc = "claim_write"}

\* A claim's version counts its writes: each is a call that has begun, at most MaxJobs.
CountsInv ==
  /\ clock \in 0..MaxClock /\ jobs \in 0..MaxJobs
  /\ claims.version >= 1 /\ claims.at <= clock
  /\ IsFiniteSet(Writers) /\ claims.version + Cardinality(Writers) <= jobs + 1

RowsRead ==
  /\ \A s \in 1..Len(snapshots) : /\ snapshots[s].at <= clock
                                  /\ snapshots[s].claims \in 1..claims.version
                                  /\ HeadsRead(snapshots[s].read)
  /\ \A r \in runs : r.snapshot \in 1..Len(snapshots)

JobRead(j) ==
  /\ j.at <= clock /\ j.units \subseteq Written /\ HeadsRead(j.read)
  /\ j.pc \in {"snap_head", "snap_insert"} => j.claims \in 1..claims.version

FlagsInv == raced \in BOOLEAN /\ review \in {"none", "passed", "blocking"}

RangeInv == CountsInv /\ RowsRead /\ (\A o \in Officer : JobRead(job[o])) /\ FlagsInv

\* Heads, the clock and the claims only go up.
Later ==
  /\ \A u \in Unit : head[u] <= head'[u] /\ head'[u] \in Nat
  /\ clock <= clock' /\ clock' \in Nat
  /\ claims.version <= claims'.version /\ claims'.version \in Nat

LEMMA HeadType ==
  ASSUME EditInv, NEW u \in Unit
  PROVE  head[u] \in Nat /\ head[u] <= revisions /\ revisions \in Nat
BY BoundsAssumption DEF EditInv, TextInv, Rev0

LEMMA HeadsByEditorial ==
  ASSUME EditInv, [EditorialNext]_vars
  PROVE  \A v \in Unit : head[v] <= head'[v] /\ head'[v] \in Nat
<1>1. CASE UNCHANGED head
  BY <1>1, HeadType
<1>2. ASSUME NEW u, head' = [head EXCEPT ![u] = revisions + 1]
      PROVE  \A v \in Unit : head[v] <= head'[v] /\ head'[v] \in Nat
  <2>1. \A v \in Unit : head'[v] = head[v] \/ head'[v] = revisions + 1
    BY <1>2 DEF EditInv, TextInv
  <2> QED
    BY <2>1, HeadType
<1>3. CASE Serve
  <2>1. UNCHANGED head \/ \E c \in Client : AcceptWrite(c)
    BY <1>3 DEF Serve, FindingRead, ProposeRead, WaiveRead, AcceptRead, RejectRead, ReviseRead,
                FindingInsert, ProposeTarget, ProposeInsert, ProposeLink, AcceptOpen, CloseRead,
                CloseWrite, RejectWrite, ReviseWrite, WaiveList, WaiveWrite, text
  <2>2. ASSUME NEW c \in Client, AcceptWrite(c)
        PROVE  \E u : head' = [head EXCEPT ![u] = revisions + 1]
    BY <2>2 DEF AcceptWrite, Approve, NewRevision
  <2> QED
    BY <1>1, <1>2, <2>1, <2>2
<1>4. ASSUME NEW u \in Unit, WriteUnit(u) \/ EditUnit(u)
      PROVE  head' = [head EXCEPT ![u] = revisions + 1]
  BY <1>4 DEF WriteUnit, EditUnit, Approve, NewRevision
<1>5. CASE (\E c \in Client : Abort(c)) \/ Crash \/ UNCHANGED vars
  BY <1>5, <1>1 DEF Abort, Crash, vars, text
<1> QED
  BY <1>2, <1>3, <1>4, <1>5 DEF EditorialNext, EditorialStep

LEMMA HeadsReadStay ==
  ASSUME Later, EditInv, NEW read \in PartialMap, HeadsRead(read)
  PROVE  HeadsRead(read)'
<1>1. DOMAIN read \subseteq Unit /\ \A u \in DOMAIN read : read[u] \in Nat
  BY DEF PartialMap
<1>2. ASSUME NEW u \in DOMAIN read
      PROVE  read[u] \in 1..head'[u]
  BY <1>1, HeadType DEF HeadsRead, Later
<1> QED
  BY <1>2 DEF HeadsRead

LEMMA RangeTypes ==
  ASSUME ReleaseInv
  PROVE  /\ clock \in Nat /\ claims.version \in Nat /\ claims.at \in Nat
         /\ Len(snapshots) \in Nat
         /\ \A s \in 1..Len(snapshots) : /\ snapshots[s] \in SnapRow /\ snapshots[s].at \in Nat
                                         /\ snapshots[s].claims \in Nat
                                         /\ snapshots[s].read \in PartialMap
<1>1. /\ clock \in Nat /\ claims.version \in Nat /\ claims.at \in Nat /\ Len(snapshots) \in Nat
      /\ \A s \in 1..Len(snapshots) : snapshots[s] \in SnapRow
  BY DEF ReleaseInv, ReleaseTypeInv
<1> QED
  BY <1>1 DEF SnapRow

LEMMA JobFields ==
  ASSUME NEW j \in JobRow
  PROVE  /\ j.at \in Nat /\ j.claims \in Nat /\ j.read \in PartialMap /\ j.pc \in JobPc
         /\ j.units \subseteq Unit /\ j.chapters \subseteq Unit /\ DOMAIN j.read \subseteq Unit
BY DEF JobRow, PartialMap

\* What a call has read stays in range.
LEMMA JobReadStays ==
  ASSUME ReleaseInv, EditInv, Later, NEW j \in JobRow, JobRead(j)
  PROVE  JobRead(j)'
<1>1. HeadsRead(j.read)'
  BY JobFields, HeadsReadStay DEF JobRead
<1>2. j.units \subseteq Written'
  BY HeadType DEF JobRead, Written, Later
<1>3. j.at <= clock'
  BY JobFields, RangeTypes DEF JobRead, Later
<1>4. j.pc \in {"snap_head", "snap_insert"} => j.claims \in 1..claims'.version
  BY JobFields, RangeTypes DEF JobRead, Later
<1> QED
  BY <1>1, <1>2, <1>3, <1>4 DEF JobRead

LEMMA JobsTo ==
  ASSUME ReleaseInv, EditInv, RangeInv, Later, NEW o \in Officer, NEW j \in JobRow, Pass(o, j),
         JobRead(j)'
  PROVE  \A q \in Officer : JobRead(job[q])'
<1>1. job'[o] = j /\ \A q \in Officer \ {o} : job'[q] = job[q]
  BY DEF Pass, ReleaseInv, ReleaseTypeInv
<1>2. ASSUME NEW q \in Officer
      PROVE  JobRead(job[q])'
  <2>1. PICK k : k = job[q]
    OBVIOUS
  <2>2. JobRead(k)'
    BY <2>1, JobType, JobReadStays DEF RangeInv
  <2> QED
    BY <1>1, <2>1, <2>2 DEF JobRead
<1> QED
  BY <1>2

LEMMA SameJobsRead ==
  ASSUME ReleaseInv, EditInv, RangeInv, Later, UNCHANGED job
  PROVE  \A q \in Officer : JobRead(job[q])'
<1>1. ASSUME NEW q \in Officer
      PROVE  JobRead(job[q])'
  <2>1. PICK k : k = job[q]
    OBVIOUS
  <2>2. JobRead(k)'
    BY <2>1, JobType, JobReadStays DEF RangeInv
  <2> QED
    BY <2>1, <2>2 DEF JobRead
<1> QED
  BY <1>1

LEMMA RowsStay ==
  ASSUME ReleaseInv, EditInv, RangeInv, Later, UNCHANGED <<snapshots, runs>>
  PROVE  RowsRead'
<1>1. ASSUME NEW s \in 1..Len(snapshots)
      PROVE  /\ snapshots[s].at <= clock' /\ snapshots[s].claims \in 1..claims'.version
             /\ HeadsRead(snapshots[s].read)'
  <2>1. snapshots[s].at \in Nat /\ snapshots[s].claims \in Nat /\ snapshots[s].read \in PartialMap
    BY RangeTypes
  <2>2. /\ snapshots[s].at <= clock /\ snapshots[s].claims \in 1..claims.version
        /\ HeadsRead(snapshots[s].read)
    BY DEF RangeInv, RowsRead
  <2>3. HeadsRead(snapshots[s].read)'
    <3>1. PICK read : read = snapshots[s].read
      OBVIOUS
    <3>2. HeadsRead(read)'
      BY <2>1, <2>2, <3>1, HeadsReadStay
    <3> QED
      BY <3>1, <3>2 DEF HeadsRead
  <2> QED
    BY <2>1, <2>2, <2>3, RangeTypes DEF Later
<1> QED
  BY <1>1 DEF RangeInv, RowsRead, HeadsRead

\* Which calls are about to write a claim after one of them moved.
LEMMA WritersTo ==
  ASSUME ReleaseInv, NEW o \in Officer, NEW j \in JobRow, Pass(o, j)
  PROVE  Writers' = IF j.pc = "claim_write" THEN Writers \union {o} ELSE Writers \ {o}
<1>1. job'[o] = j /\ \A q \in Officer \ {o} : job'[q] = job[q]
  BY DEF Pass, ReleaseInv, ReleaseTypeInv
<1> QED
  BY <1>1 DEF Writers

LEMMA CountsTo ==
  ASSUME ReleaseInv, CountsInv, NEW o \in Officer, NEW j \in JobRow, Pass(o, j),
         j.pc # "claim_write", UNCHANGED claims, Tick \/ UNCHANGED clock,
         UNCHANGED jobs \/ (jobs < MaxJobs /\ jobs' = jobs + 1)
  PROVE  CountsInv'
<1>1. Writers' = Writers \ {o}
  BY WritersTo
<1>2. IsFiniteSet(Writers')
  BY <1>1, FS_RemoveElement DEF CountsInv
<1>3. Cardinality(Writers') <= Cardinality(Writers)
  BY <1>1, FS_Subset DEF CountsInv
<1>4. Cardinality(Writers') \in Nat /\ Cardinality(Writers) \in Nat
  BY <1>2, FS_CardinalityType DEF CountsInv
<1>5. clock' \in 0..MaxClock /\ clock <= clock'
  BY ReleaseBoundsAssumption, RangeTypes DEF CountsInv, Tick, MaxClock
<1>6. jobs' \in 0..MaxJobs /\ jobs <= jobs' /\ jobs \in Nat /\ jobs' \in Nat
  BY ReleaseBoundsAssumption DEF CountsInv
<1> QED
  BY <1>2, <1>3, <1>4, <1>5, <1>6, RangeTypes DEF CountsInv

LEMMA SameCounts ==
  ASSUME ReleaseInv, CountsInv, UNCHANGED <<job, claims, clock>>,
         UNCHANGED jobs \/ (jobs < MaxJobs /\ jobs' = jobs + 1)
  PROVE  CountsInv'
<1>1. Writers' = Writers
  BY DEF Writers
<1>2. jobs' \in 0..MaxJobs /\ jobs <= jobs' /\ jobs \in Nat /\ jobs' \in Nat
  BY ReleaseBoundsAssumption DEF CountsInv
<1>3. Cardinality(Writers) \in Nat
  BY FS_CardinalityType DEF CountsInv
<1> QED
  BY <1>1, <1>2, <1>3, RangeTypes DEF CountsInv

\* Whether calls raced is a truth value, whatever happens.
LEMMA RacedType ==
  ASSUME raced \in BOOLEAN, [Next]_all
  PROVE  raced' \in BOOLEAN
<1>1. CASE UNCHANGED raced
  BY <1>1
<1>2. ASSUME NEW b, raced' = (raced \/ b)
      PROVE  raced' \in BOOLEAN
  BY <1>2, Zenon
<1>3. CASE EditorialAlongside
  BY <1>3, <1>2 DEF EditorialAlongside
<1>4. CASE CountJob
  BY <1>4, <1>2 DEF CountJob
<1>5. CASE ReleaseStep
  <2>1. CountJob \/ UNCHANGED raced \/ raced' = (raced \/ Busy)
    BY <1>5 DEF ReleaseStep, Replan, RecordReview, RunCheck, ClaimRead, ClaimWrite, SnapRows, Begin,
                SnapHead, SnapLookup, SnapInsert, LockChapters, LockHead, LockFindings,
                LockSnapshot, LockClaims, LockChecks, LockBlocking, LockInsert, AbortJob
  <2> QED
    BY <1>1, <1>2, <1>4, <2>1
<1>6. CASE Exit \/ UNCHANGED all
  BY <1>1, <1>6 DEF Exit, all, release
<1> QED
  BY <1>3, <1>5, <1>6 DEF Next

\* A call goes on and writes nothing the others read.
LEMMA RangeMove ==
  ASSUME ReleaseInv, EditInv, RangeInv, raced' \in BOOLEAN, NEW o \in Officer, NEW j \in JobRow,
         Pass(o, j), UNCHANGED <<head, claims, snapshots, runs, review>>,
         Tick \/ UNCHANGED clock, UNCHANGED jobs \/ (jobs < MaxJobs /\ jobs' = jobs + 1),
         j.pc # "claim_write", JobRead(j)'
  PROVE  RangeInv'
<1>1. Later
  BY HeadType, RangeTypes DEF Later, Tick
<1>2. CountsInv'
  BY CountsTo DEF RangeInv
<1>3. RowsRead'
  BY <1>1, RowsStay
<1>4. \A q \in Officer : JobRead(job[q])'
  BY <1>1, JobsTo
<1>5. FlagsInv'
  BY DEF FlagsInv, RangeInv
<1> QED
  BY <1>2, <1>3, <1>4, <1>5 DEF RangeInv

LEMMA FreeRead ==
  ASSUME ReleaseInv
  PROVE  JobRead(Free)
BY RangeTypes DEF Free, JobRead, HeadsRead, NoUnits

\* A step that changes no call and no snapshot.
LEMMA RangeSame ==
  ASSUME ReleaseInv, EditInv, RangeInv, raced' \in BOOLEAN, UNCHANGED <<claims, clock, snapshots, job>>,
         \A u \in Unit : head[u] <= head'[u] /\ head'[u] \in Nat,
         UNCHANGED jobs \/ (jobs < MaxJobs /\ jobs' = jobs + 1),
         review' \in {"none", "passed", "blocking"},
         \A r \in runs' \ runs : r.snapshot \in 1..Len(snapshots)
  PROVE  RangeInv'
<1>1. Later
  BY RangeTypes DEF Later
<1>2. CountsInv'
  BY SameCounts DEF RangeInv
<1>3. RowsRead'
  <2>1. ASSUME NEW s \in 1..Len(snapshots)
        PROVE  HeadsRead(snapshots[s].read)'
    <3>1. PICK read : read = snapshots[s].read
      OBVIOUS
    <3>2. read \in PartialMap /\ HeadsRead(read)
      BY <3>1, RangeTypes DEF RangeInv, RowsRead
    <3>3. HeadsRead(read)'
      BY <1>1, <3>2, HeadsReadStay
    <3> QED
      BY <3>1, <3>3 DEF HeadsRead
  <2>2. \A r \in runs' : r.snapshot \in 1..Len(snapshots)
    BY DEF RangeInv, RowsRead
  <2> QED
    BY <2>1, <2>2 DEF RangeInv, RowsRead, HeadsRead
<1>4. \A q \in Officer : JobRead(job[q])'
  BY <1>1, SameJobsRead
<1>5. FlagsInv'
  BY DEF FlagsInv
<1> QED
  BY <1>2, <1>3, <1>4, <1>5 DEF RangeInv

LEMMA SameHeads ==
  ASSUME EditInv, UNCHANGED head
  PROVE  \A u \in Unit : head[u] <= head'[u] /\ head'[u] \in Nat
BY HeadType

LEMMA RangeOthers ==
  ASSUME ReleaseInv, EditInv, RangeInv, raced' \in BOOLEAN,
         \/ EditorialAlongside
         \/ \E chapters \in SUBSET Unit : Replan(chapters)
         \/ \E outcome \in {"passed", "blocking"} : RecordReview(outcome)
         \/ \E s \in 1..Len(snapshots), k \in Check, b \in BOOLEAN : RunCheck(s, k, b)
         \/ UNCHANGED all
  PROVE  RangeInv'
<1>0. review \in {"none", "passed", "blocking"}
  BY DEF RangeInv, FlagsInv
<1>1. CASE EditorialAlongside
  <2>1. UNCHANGED <<claims, clock, snapshots, job, jobs, review, runs>>
    BY <1>1 DEF EditorialAlongside, evidence
  <2>2. \A u \in Unit : head[u] <= head'[u] /\ head'[u] \in Nat
    BY <1>1, HeadsByEditorial DEF EditorialAlongside, EditorialNext
  <2> QED
    BY <1>0, <2>1, <2>2, RangeSame
<1>2. ASSUME NEW chapters \in SUBSET Unit, Replan(chapters)
      PROVE  RangeInv'
  <2>1. UNCHANGED <<head, claims, clock, snapshots, job, review, runs>> /\ CountJob
    BY <1>2 DEF Replan, vars, text
  <2> QED
    BY <1>0, <2>1, SameHeads, RangeSame DEF CountJob
<1>3. ASSUME NEW outcome \in {"passed", "blocking"}, RecordReview(outcome)
      PROVE  RangeInv'
  <2>1. UNCHANGED <<head, claims, clock, snapshots, job, runs>> /\ CountJob /\ review' = outcome
    BY <1>3 DEF RecordReview, vars, text
  <2> QED
    BY <2>1, SameHeads, RangeSame DEF CountJob
<1>4. ASSUME NEW s \in 1..Len(snapshots), NEW k \in Check, NEW b \in BOOLEAN, RunCheck(s, k, b)
      PROVE  RangeInv'
  <2>1. /\ UNCHANGED <<head, claims, clock, snapshots, job, jobs, review>>
        /\ runs' = runs \union {[snapshot |-> s, check |-> k, blocking |-> b]}
    BY <1>4 DEF RunCheck, vars, text
  <2>2. \A r \in runs' \ runs : r.snapshot \in 1..Len(snapshots)
    BY <2>1
  <2> QED
    BY <1>0, <2>1, <2>2, SameHeads, RangeSame
<1>5. CASE UNCHANGED all
  <2>1. UNCHANGED <<head, claims, clock, snapshots, job, jobs, review, runs>>
    BY <1>5 DEF all, release, evidence, vars, text
  <2> QED
    BY <1>0, <2>1, SameHeads, RangeSame
<1> QED
  BY <1>1, <1>2, <1>3, <1>4, <1>5

LEMMA RangeExit ==
  ASSUME ReleaseInv, EditInv, RangeInv, raced' \in BOOLEAN, Exit
  PROVE  RangeInv'
<1>1. /\ UNCHANGED <<head, claims, clock, snapshots, jobs, review, runs>>
      /\ job' = [o \in Officer |-> Free]
  BY DEF Exit, evidence, text
<1>2. Later
  BY <1>1, HeadType, RangeTypes DEF Later
<1>3. CountsInv'
  <2>1. Writers' = {}
    BY <1>1, FreeRow DEF Writers
  <2>2. IsFiniteSet(Writers') /\ Cardinality(Writers') = 0
    BY <2>1, FS_EmptySet
  <2>3. Cardinality(Writers) \in Nat
    BY FS_CardinalityType DEF RangeInv, CountsInv
  <2> QED
    BY <1>1, <2>2, <2>3, ReleaseBoundsAssumption, RangeTypes DEF RangeInv, CountsInv
<1>4. RowsRead'
  BY <1>1, <1>2, RowsStay
<1>5. ASSUME NEW q \in Officer
      PROVE  JobRead(job[q])'
  <2>1. JobRead(Free)'
    BY <1>2, FreeRow, FreeRead, JobReadStays
  <2> QED
    BY <1>1, <2>1 DEF JobRead
<1>6. FlagsInv'
  BY <1>1 DEF RangeInv, FlagsInv
<1> QED
  BY <1>3, <1>4, <1>5, <1>6 DEF RangeInv

\* A call that has ended.
LEMMA RangeLeave ==
  ASSUME ReleaseInv, EditInv, RangeInv, raced' \in BOOLEAN, NEW o \in Officer, Pass(o, Free),
         UNCHANGED <<head, claims, clock, snapshots, runs, review, jobs>>
  PROVE  RangeInv'
<1>1. Later
  BY HeadType, RangeTypes DEF Later
<1>2. JobRead(Free)'
  BY <1>1, FreeRow, FreeRead, JobReadStays
<1> QED
  BY <1>2, FreeRow, RangeMove

\* The gate's reads after the heads.
LEMMA RangeGate ==
  ASSUME ReleaseInv, EditInv, RangeInv, raced' \in BOOLEAN, NEW o \in Officer,
         LockFindings(o) \/ LockSnapshot(o) \/ LockClaims(o) \/ LockChecks(o) \/ LockBlocking(o)
  PROVE  RangeInv'
<1>1. /\ UNCHANGED <<head, claims, clock, snapshots, runs, review, jobs>>
      /\ \E pc \in AfterFindings :
           \/ Pass(o, [job[o] EXCEPT !.pc = pc])
           \/ Pass(o, [job[o] EXCEPT !.pc = pc, !.snapshot = Latest]) /\ snapshots # <<>>
  BY DEF LockFindings, LockSnapshot, LockClaims, LockChecks, LockBlocking, To, AfterFindings, AtLock,
         vars, text, evidence
<1>2. PICK pc \in AfterFindings :
           \/ Pass(o, [job[o] EXCEPT !.pc = pc])
           \/ Pass(o, [job[o] EXCEPT !.pc = pc, !.snapshot = Latest]) /\ snapshots # <<>>
  BY <1>1
<1>3. pc \in JobPc /\ pc \notin {"snap_head", "snap_insert", "claim_write"}
  BY DEF AfterFindings, AtLock, JobPc
<1>4. PICK j : /\ Pass(o, j)
               /\ \/ j = [job[o] EXCEPT !.pc = pc]
                  \/ j = [job[o] EXCEPT !.pc = pc, !.snapshot = Latest] /\ snapshots # <<>>
  BY <1>2
<1>5. snapshots # <<>> => Latest \in Nat
  BY LatestExists, RangeTypes
<1>6. j \in JobRow /\ j.pc = pc /\ j.at = job[o].at /\ j.units = job[o].units /\ j.read = job[o].read
  BY <1>3, <1>4, <1>5, JobType DEF JobRow
<1>7. JobRead(j)
  BY <1>3, <1>6 DEF RangeInv, JobRead
<1>8. Later
  BY <1>1, HeadType, RangeTypes DEF Later
<1>9. JobRead(j)'
  BY <1>6, <1>7, <1>8, JobReadStays
<1> QED
  BY <1>1, <1>3, <1>4, <1>6, <1>9, RangeMove

LEMMA RangeHead ==
  ASSUME ReleaseInv, EditInv, RangeInv, raced' \in BOOLEAN, NEW o \in Officer, NEW u \in Unit,
         SnapHead(o, u) \/ LockHead(o, u)
  PROVE  RangeInv'
<1>1. /\ UNCHANGED <<head, claims, clock, snapshots, runs, review, jobs>>
      /\ u \in job[o].units \/ Approved(head[u])
      /\ job[o].pc # "claim_write"
  BY DEF SnapHead, LockHead, vars, text, evidence
<1>2. PICK j : j = [job[o] EXCEPT !.read = Read(o, u)]
  OBVIOUS
<1>3. Pass(o, j)
  BY <1>2 DEF SnapHead, LockHead
<1>4. /\ j \in JobRow /\ j.pc = job[o].pc /\ j.at = job[o].at /\ j.units = job[o].units
      /\ j.claims = job[o].claims /\ j.read = Read(o, u)
  BY <1>2, ReadType, JobType DEF JobRow
<1>5. head[u] \in 1..head[u]
  <2>1. CASE u \in job[o].units
    BY <2>1, HeadType DEF RangeInv, JobRead, Written
  <2>2. CASE Approved(head[u])
    <3>1. PICK a \in approvals : a.rev = head[u]
      BY <2>2 DEF Approved
    <3>2. a.rev \in 1..revisions
      BY DEF EditInv, TextInv
    <3> QED
      BY <3>1, <3>2, HeadType
  <2> QED
    BY <1>1, <2>1, <2>2
<1>6. HeadsRead(j.read)
  <2>1. /\ DOMAIN j.read = DOMAIN job[o].read \union {u}
        /\ \A v \in DOMAIN j.read : j.read[v] = IF v = u THEN head[u] ELSE job[o].read[v]
    <3>1. PICK r : r = Read(o, u)
      OBVIOUS
    <3>2. /\ DOMAIN r = DOMAIN job[o].read \union {u}
          /\ \A v \in DOMAIN r : r[v] = IF v = u THEN head[u] ELSE job[o].read[v]
      BY <3>1, ReadType
    <3> QED
      BY <1>4, <3>1, <3>2
  <2>2. \A v \in DOMAIN job[o].read : job[o].read[v] \in 1..head[v]
    BY DEF RangeInv, JobRead, HeadsRead
  <2> QED
    BY <1>5, <2>1, <2>2 DEF HeadsRead
<1>7. JobRead(j)
  BY <1>4, <1>6 DEF RangeInv, JobRead
<1>8. Later
  BY <1>1, HeadType, RangeTypes DEF Later
<1>9. JobRead(j)'
  BY <1>4, <1>7, <1>8, JobReadStays
<1> QED
  BY <1>1, <1>3, <1>4, <1>9, RangeMove

\* A call of evaluation or release begins with its rows.
LEMMA RangeRows ==
  ASSUME ReleaseInv, EditInv, RangeInv, raced' \in BOOLEAN, NEW o \in Officer,
         SnapRows(o) \/ LockChapters(o)
  PROVE  RangeInv'
<1>1. /\ UNCHANGED <<head, claims, clock, snapshots, runs, review>>
      /\ jobs < MaxJobs /\ jobs' = jobs + 1
  BY DEF SnapRows, LockChapters, Begin, CountJob, vars, text, evidence
<1>2. /\ active \in SUBSET Unit /\ Written \in SUBSET Unit
      /\ OpenFindings \in SUBSET Nat /\ BlockingRuns \in SUBSET RunRow
  BY DEF ReleaseInv, ReleaseTypeInv, Written, OpenFindings, BlockingRuns, EditInv, RowsInv
<1>3. claims.version \in 1..claims.version
  BY RangeTypes DEF RangeInv, CountsInv
<1>4. \E j \in JobRow : Pass(o, j) /\ JobRead(j) /\ j.pc # "claim_write"
  <2>1. CASE SnapRows(o)
    <3> DEFINE j == [Free EXCEPT !.pc = "snap_head", !.chapters = active, !.units = Written,
                                 !.claims = claims.version]
    <3>1. /\ j \in JobRow /\ j.pc = "snap_head" /\ j.at = Free.at /\ j.read = Free.read
          /\ j.units = Written /\ j.claims = claims.version
      BY <1>2, FreeRow, RangeTypes DEF JobRow, JobPc
    <3>2. Pass(o, j)
      BY <2>1 DEF SnapRows, Begin
    <3> HIDE DEF j
    <3>3. JobRead(j)
      BY <1>3, <3>1, FreeRead DEF JobRead
    <3> QED
      BY <3>1, <3>2, <3>3
  <2>2. CASE LockChapters(o)
    <3> DEFINE j == [Free EXCEPT !.pc = "lock_head", !.chapters = active,
                                 !.open = OpenFindings, !.blocking = BlockingRuns]
    <3>1. /\ j \in JobRow /\ j.pc = "lock_head" /\ j.at = Free.at /\ j.read = Free.read
          /\ j.units = Free.units
      BY <1>2, FreeRow DEF JobRow, JobPc
    <3>2. Pass(o, j)
      BY <2>2 DEF LockChapters, Begin
    <3> HIDE DEF j
    <3>3. JobRead(j)
      BY <3>1, FreeRead DEF JobRead
    <3> QED
      BY <3>1, <3>2, <3>3
  <2> QED
    BY <2>1, <2>2
<1>5. PICK j \in JobRow : Pass(o, j) /\ JobRead(j) /\ j.pc # "claim_write"
  BY <1>4
<1>6. Later
  BY <1>1, HeadType, RangeTypes DEF Later
<1>7. JobRead(j)'
  BY <1>5, <1>6, JobReadStays
<1> QED
  BY <1>1, <1>5, <1>7, RangeMove

LEMMA RangeLookup ==
  ASSUME ReleaseInv, EditInv, RangeInv, raced' \in BOOLEAN, NEW o \in Officer, SnapLookup(o)
  PROVE  RangeInv'
<1>1. /\ UNCHANGED <<head, claims, snapshots, runs, review, jobs>> /\ job[o].pc = "snap_head"
  BY DEF SnapLookup, vars, text
<1>2. CASE Pass(o, Free) /\ UNCHANGED clock
  BY <1>1, <1>2, RangeLeave
<1>3. CASE Tick /\ Pass(o, [job[o] EXCEPT !.pc = "snap_insert", !.at = clock'])
  <2>1. PICK j : j = [job[o] EXCEPT !.pc = "snap_insert", !.at = clock']
    OBVIOUS
  <2>2. Later /\ clock' \in Nat
    BY <1>1, <1>3, HeadType, RangeTypes DEF Later, Tick
  <2>3. /\ j \in JobRow /\ j.pc = "snap_insert" /\ j.at = clock' /\ j.units = job[o].units
        /\ j.read = job[o].read /\ j.claims = job[o].claims
    BY <2>1, <2>2, JobType DEF JobRow, JobPc
  <2>4. JobRead(job[o])
    BY DEF RangeInv
  <2>5. JobRead(j)'
    <3>1. HeadsRead(j.read)'
      <4>1. HeadsRead(j.read) /\ j.read \in PartialMap
        BY <2>3, <2>4, JobFields DEF JobRead
      <4> QED
        BY <2>2, <4>1, HeadsReadStay
    <3>2. j.units \subseteq Written'
      BY <1>1, <2>3, <2>4 DEF JobRead, Written
    <3>3. j.claims \in 1..claims'.version
      BY <1>1, <2>3, <2>4 DEF JobRead
    <3>4. j.at <= clock'
      BY <2>2, <2>3
    <3> QED
      BY <3>1, <3>2, <3>3, <3>4 DEF JobRead
  <2>6. Pass(o, j)
    BY <1>3, <2>1
  <2> QED
    BY <1>1, <1>3, <2>3, <2>5, <2>6, RangeMove
<1> QED
  BY <1>2, <1>3 DEF SnapLookup, Leave

LEMMA RangeClaimRead ==
  ASSUME ReleaseInv, EditInv, RangeInv, raced' \in BOOLEAN, NEW o \in Officer, ClaimRead(o)
  PROVE  RangeInv'
<1>1. /\ UNCHANGED <<head, claims, snapshots, runs, review>> /\ Tick
      /\ jobs < MaxJobs /\ jobs' = jobs + 1 /\ job[o].pc = "idle"
  BY DEF ClaimRead, Begin, CountJob, vars, text
<1>2. PICK j : j = [Free EXCEPT !.pc = "claim_write", !.at = clock']
  OBVIOUS
<1>3. Later /\ clock' \in Nat
  BY <1>1, HeadType, RangeTypes DEF Later, Tick
<1>4. /\ j \in JobRow /\ j.pc = "claim_write" /\ j.at = clock' /\ j.units = {} /\ j.read = NoUnits
  BY <1>2, <1>3, FreeRow DEF JobRow, JobPc, Free
<1>5. Pass(o, j)
  BY <1>2 DEF ClaimRead, Begin
<1>6. JobRead(j)'
  BY <1>3, <1>4 DEF JobRead, HeadsRead, NoUnits
<1>7. CountsInv'
  <2>1. Writers' = Writers \union {o}
    BY <1>4, <1>5, WritersTo
  <2>2. o \notin Writers
    BY <1>1 DEF Writers
  <2>3. IsFiniteSet(Writers) /\ Cardinality(Writers) \in Nat
    BY FS_CardinalityType DEF RangeInv, CountsInv
  <2>4. IsFiniteSet(Writers') /\ Cardinality(Writers') = Cardinality(Writers) + 1
    BY <2>1, <2>2, <2>3, FS_AddElement
  <2>5. clock' \in 0..MaxClock /\ clock <= clock'
    BY <1>1, ReleaseBoundsAssumption, RangeTypes DEF RangeInv, CountsInv, Tick, MaxClock
  <2>6. jobs' \in 0..MaxJobs /\ jobs \in Nat
    BY <1>1, ReleaseBoundsAssumption DEF RangeInv, CountsInv
  <2> QED
    BY <1>1, <2>3, <2>4, <2>5, <2>6, RangeTypes DEF RangeInv, CountsInv
<1>8. RowsRead'
  BY <1>1, <1>3, RowsStay
<1>9. \A q \in Officer : JobRead(job[q])'
  BY <1>3, <1>4, <1>5, <1>6, JobsTo
<1>10. FlagsInv'
  BY <1>1 DEF FlagsInv, RangeInv
<1> QED
  BY <1>7, <1>8, <1>9, <1>10 DEF RangeInv

LEMMA RangeClaimWrite ==
  ASSUME ReleaseInv, EditInv, RangeInv, raced' \in BOOLEAN, NEW o \in Officer, ClaimWrite(o)
  PROVE  RangeInv'
<1>1. /\ UNCHANGED <<head, clock, snapshots, runs, review, jobs>> /\ Pass(o, Free)
      /\ job[o].pc = "claim_write" /\ claims' = [version |-> claims.version + 1, at |-> job[o].at]
  BY DEF ClaimWrite, Leave, vars, text
<1>2. claims'.version = claims.version + 1 /\ claims'.at = job[o].at
  BY <1>1
<1>3. job[o].at \in Nat /\ job[o].at <= clock
  BY JobType, JobFields DEF RangeInv, JobRead
<1>4. Later
  BY <1>1, <1>2, HeadType, RangeTypes DEF Later
<1>5. CountsInv'
  <2>1. Writers' = Writers \ {o}
    BY <1>1, FreeRow, WritersTo
  <2>2. o \in Writers
    BY <1>1 DEF Writers
  <2>3. IsFiniteSet(Writers) /\ Cardinality(Writers) \in Nat
    BY FS_CardinalityType DEF RangeInv, CountsInv
  <2>4. IsFiniteSet(Writers') /\ Cardinality(Writers') = Cardinality(Writers) - 1
    BY <2>1, <2>2, <2>3, FS_RemoveElement
  <2> QED
    BY <1>1, <1>2, <1>3, <2>3, <2>4, ReleaseBoundsAssumption, RangeTypes DEF RangeInv, CountsInv
<1>6. RowsRead'
  BY <1>1, <1>4, RowsStay
<1>7. JobRead(Free)'
  BY <1>4, FreeRow, FreeRead, JobReadStays
<1>8. \A q \in Officer : JobRead(job[q])'
  BY <1>1, <1>4, <1>7, FreeRow, JobsTo
<1>9. FlagsInv'
  BY <1>1 DEF FlagsInv, RangeInv
<1> QED
  BY <1>5, <1>6, <1>8, <1>9 DEF RangeInv

\* What is stored of a snapshot's insert.
LEMMA SnapshotRow ==
  ASSUME ReleaseInv, NEW o \in Officer, SnapInsert(o)
  PROVE  /\ Len(snapshots) \in Nat /\ Len(snapshots') = Len(snapshots) + 1
         /\ \A s \in 1..Len(snapshots) : snapshots'[s] = snapshots[s]
         /\ snapshots'[Len(snapshots) + 1].at = job[o].at
         /\ snapshots'[Len(snapshots) + 1].claims = job[o].claims
         /\ snapshots'[Len(snapshots) + 1].read = job[o].read
<1> DEFINE row == [chapters |-> job[o].chapters, read |-> job[o].read,
                   claims |-> job[o].claims, at |-> job[o].at]
<1>1. row \in SnapRow
  BY JobType DEF JobRow, SnapRow
<1>2. row.at = job[o].at /\ row.claims = job[o].claims /\ row.read = job[o].read
  OBVIOUS
<1>3. snapshots' = Append(snapshots, row) /\ snapshots \in Seq(SnapRow)
  BY DEF SnapInsert, ReleaseInv, ReleaseTypeInv
<1> HIDE DEF row
<1>4. Len(snapshots) \in Nat
  BY <1>3
<1> QED
  BY <1>1, <1>2, <1>3, <1>4, AppendRow

LEMMA RangeSnapInsert ==
  ASSUME ReleaseInv, EditInv, RangeInv, raced' \in BOOLEAN, NEW o \in Officer, SnapInsert(o)
  PROVE  RangeInv'
<1>1. /\ UNCHANGED <<head, claims, clock, runs, review, jobs>> /\ Pass(o, Free)
      /\ job[o].pc = "snap_insert"
  BY DEF SnapInsert, Leave, vars, text
<1>2. Later
  BY <1>1, HeadType, RangeTypes DEF Later
<1>3. CountsInv'
  BY <1>1, FreeRow, CountsTo DEF RangeInv
<1>4. /\ Len(snapshots) \in Nat /\ Len(snapshots') = Len(snapshots) + 1
      /\ \A s \in 1..Len(snapshots) : snapshots'[s] = snapshots[s]
      /\ snapshots'[Len(snapshots) + 1].at = job[o].at
      /\ snapshots'[Len(snapshots) + 1].claims = job[o].claims
      /\ snapshots'[Len(snapshots) + 1].read = job[o].read
  BY SnapshotRow
<1>5. JobRead(job[o])
  BY DEF RangeInv
<1>6. RowsRead'
  <2>1. ASSUME NEW s \in 1..Len(snapshots')
        PROVE  /\ snapshots'[s].at <= clock /\ snapshots'[s].claims \in 1..claims.version
               /\ HeadsRead(snapshots'[s].read)
    <3>1. CASE s \in 1..Len(snapshots)
      BY <1>4, <3>1 DEF RangeInv, RowsRead
    <3>2. CASE s = Len(snapshots) + 1
      BY <1>1, <1>4, <1>5, <3>2 DEF JobRead
    <3> QED
      BY <1>4, <3>1, <3>2
  <2>2. \A r \in runs : r.snapshot \in 1..Len(snapshots')
    BY <1>4 DEF RangeInv, RowsRead
  <2> QED
    BY <1>1, <2>1, <2>2 DEF RowsRead, HeadsRead
<1>7. JobRead(Free)'
  BY <1>2, FreeRow, FreeRead, JobReadStays
<1>8. \A q \in Officer : JobRead(job[q])'
  BY <1>1, <1>2, <1>7, FreeRow, JobsTo
<1>9. FlagsInv'
  BY <1>1 DEF FlagsInv, RangeInv
<1> QED
  BY <1>3, <1>6, <1>8, <1>9 DEF RangeInv

LEMMA RangeInit == Init /\ InitRelease /\ jobs = 0 => RangeInv
<1> SUFFICES ASSUME InitRelease, jobs = 0 PROVE RangeInv
  OBVIOUS
<1>1. /\ clock = 0 /\ snapshots = <<>> /\ runs = {} /\ raced = FALSE /\ review = "none"
      /\ claims = [version |-> 1, at |-> 0] /\ job = [o \in Officer |-> Free]
  BY DEF InitRelease
<1>2. Writers = {}
  BY <1>1, FreeRow DEF Writers
<1>3. CountsInv
  BY <1>1, <1>2, FS_EmptySet, ReleaseBoundsAssumption DEF CountsInv, MaxClock
<1>4. RowsRead
  BY <1>1 DEF RowsRead
<1>5. \A o \in Officer : JobRead(job[o])
  BY <1>1 DEF JobRead, Free, HeadsRead, NoUnits
<1>6. FlagsInv
  BY <1>1, Zenon DEF FlagsInv
<1> QED
  BY <1>3, <1>4, <1>5, <1>6 DEF RangeInv

LEMMA RangeNext == RangeInv /\ ReleaseInv /\ EditInv /\ [Next]_all => RangeInv'
<1> SUFFICES ASSUME RangeInv, ReleaseInv, EditInv, [Next]_all PROVE RangeInv'
  OBVIOUS
<1>0. raced' \in BOOLEAN
  <2>1. raced \in BOOLEAN
    BY Zenon DEF RangeInv, FlagsInv
  <2> QED
    BY <2>1, RacedType
<1>1. CASE UNCHANGED all \/ EditorialAlongside
  BY <1>0, <1>1, RangeOthers
<1>2. CASE Exit
  BY <1>0, <1>2, RangeExit
<1>3. CASE ReleaseStep
  <2>1. CASE \/ \E chapters \in SUBSET Unit : Replan(chapters)
             \/ \E outcome \in {"passed", "blocking"} : RecordReview(outcome)
             \/ \E s \in 1..Len(snapshots), k \in Check, b \in BOOLEAN : RunCheck(s, k, b)
    BY <1>0, <2>1, RangeOthers
  <2>2. ASSUME NEW o \in Officer, ClaimRead(o) \/ ClaimWrite(o) \/ SnapInsert(o) \/ SnapLookup(o)
        PROVE  RangeInv'
    BY <1>0, <2>2, RangeClaimRead, RangeClaimWrite, RangeSnapInsert, RangeLookup
  <2>3. ASSUME NEW o \in Officer, SnapRows(o) \/ LockChapters(o)
        PROVE  RangeInv'
    BY <1>0, <2>3, RangeRows
  <2>4. ASSUME NEW o \in Officer, NEW u \in Unit, SnapHead(o, u) \/ LockHead(o, u)
        PROVE  RangeInv'
    BY <1>0, <2>4, RangeHead
  <2>5. ASSUME NEW o \in Officer, LockFindings(o) \/ LockSnapshot(o) \/ LockClaims(o)
                                  \/ LockChecks(o) \/ LockBlocking(o)
        PROVE  RangeInv'
    BY <1>0, <2>5, RangeGate
  <2>6. ASSUME NEW o \in Officer, LockInsert(o) \/ AbortJob(o)
        PROVE  RangeInv'
    <3>1. Pass(o, Free) /\ UNCHANGED <<head, claims, clock, snapshots, runs, review, jobs>>
      BY <2>6 DEF LockInsert, AbortJob, Leave, evidence, vars, text
    <3> QED
      BY <1>0, <3>1, RangeLeave
  <2> QED
    BY <1>3, <2>1, <2>2, <2>3, <2>4, <2>5, <2>6 DEF ReleaseStep
<1> QED
  BY <1>1, <1>2, <1>3 DEF Next

LEMMA RangeInvariant == Spec => []RangeInv
<1>1. RangeInv /\ ReleaseInv /\ EditInv /\ [Next]_all => RangeInv'
  BY RangeNext
<1> QED
  BY <1>1, RangeInit, ReleaseInvariant, EditorialHolds, PTL DEF Spec

LEMMA InvReleaseType == EditInv /\ ReleaseInv /\ RangeInv => TypeOK
<1> SUFFICES ASSUME EditInv, ReleaseInv, RangeInv PROVE TypeOK
  OBVIOUS
<1>1. EditorialTypeOK
  BY InvType
<1>2. active \in SUBSET Unit
  BY DEF ReleaseInv, ReleaseTypeInv
<1>3. claims \in [version : 1..MaxJobs + 1, at : 0..clock] /\ clock \in 0..MaxClock
  <2>1. claims.version \in 1..MaxJobs + 1 /\ claims.at \in 0..clock
    <3>1. Cardinality(Writers) \in Nat
      BY FS_CardinalityType DEF RangeInv, CountsInv
    <3> QED
      BY <3>1, RangeTypes, ReleaseBoundsAssumption DEF RangeInv, CountsInv
  <2>2. claims \in [version : Nat, at : Nat]
    BY DEF ReleaseInv, ReleaseTypeInv
  <2> QED
    BY <2>1, <2>2 DEF RangeInv, CountsInv
<1>4. \A s \in 1..Len(snapshots) :
        /\ DOMAIN snapshots[s].read \subseteq Unit
        /\ \A u \in DOMAIN snapshots[s].read : snapshots[s].read[u] \in 1..head[u]
        /\ snapshots[s].at \in 0..clock /\ snapshots[s].claims \in 1..claims.version
  <2> SUFFICES ASSUME NEW s \in 1..Len(snapshots)
               PROVE  /\ DOMAIN snapshots[s].read \subseteq Unit
                      /\ \A u \in DOMAIN snapshots[s].read : snapshots[s].read[u] \in 1..head[u]
                      /\ snapshots[s].at \in 0..clock /\ snapshots[s].claims \in 1..claims.version
    OBVIOUS
  <2>1. snapshots[s].at \in Nat /\ snapshots[s].read \in PartialMap
    BY RangeTypes
  <2>2. DOMAIN snapshots[s].read \subseteq Unit
    BY <2>1 DEF PartialMap
  <2>3. /\ snapshots[s].at <= clock /\ snapshots[s].claims \in 1..claims.version
        /\ HeadsRead(snapshots[s].read)
    BY DEF RangeInv, RowsRead
  <2> QED
    BY <2>1, <2>2, <2>3, RangeTypes DEF HeadsRead
<1>5. runs \subseteq [snapshot : 1..Len(snapshots), check : Check, blocking : BOOLEAN]
  BY DEF ReleaseInv, ReleaseTypeInv, RunRow, RangeInv, RowsRead
<1>6. \A m \in 1..Len(masters) : masters[m].snapshot \in 1..Len(snapshots)
  BY DEF ReleaseInv, Evaluated
<1>7. \A o \in Officer : job[o].pc \in JobPc /\ DOMAIN job[o].read \subseteq Unit
  BY JobType, JobFields
<1>8. jobs \in 0..MaxJobs /\ review \in {"none", "passed", "blocking"}
  BY DEF RangeInv, CountsInv, FlagsInv
<1>9. raced \in BOOLEAN
  BY Zenon DEF RangeInv, FlagsInv
<1> QED
  BY <1>1, <1>2, <1>3, <1>4, <1>5, <1>6, <1>7, <1>8, <1>9, Zenon DEF TypeOK

\* Every row and every call in flight names what exists, a snapshot never holds a revision newer
\* than the head nor a claim state yet to come, and the bounds hold (bookbench.py create_snapshot,
\* research.py, literary_master.py).
THEOREM ReleaseTypeCorrect == Spec => []TypeOK
BY EditorialHolds, ReleaseInvariant, RangeInvariant, InvReleaseType, PTL

(***************************************************************************)
(* While no call runs into another.                                        *)
(***************************************************************************)
OneCall ==
  /\ \A o, q \in Officer : job[o].pc # "idle" /\ job[q].pc # "idle" => o = q
  /\ \A o \in Officer, c \in Client : job[o].pc = "idle" \/ op[c].pc = "idle"

\* A snapshot of claims that changed since is older than the change.
ClaimsDated == \A s \in 1..Len(snapshots) :
                 snapshots[s].claims = claims.version \/ snapshots[s].at < claims.at

\* What a call that is alone has read is still so.
QuietJob(j) ==
  /\ j.pc = "claim_write" => \A s \in 1..Len(snapshots) : snapshots[s].at < j.at
  /\ j.pc \in {"snap_head", "snap_insert"} => j.claims = claims.version
  /\ j.pc \in AtLock => /\ j.chapters = active /\ DOMAIN j.read \subseteq active
                        /\ \A u \in DOMAIN j.read : j.read[u] = head[u]
  /\ j.pc \in AfterFindings => DOMAIN j.read = active /\ OpenFindings = {}
  /\ j.pc \in {"lock_checks", "lock_blocking", "lock_insert"} =>
       snapshots[j.snapshot].claims = claims.version
  /\ j.pc = "lock_insert" => \A r \in RunsOn(j.snapshot) : ~r.blocking

QuietRelease ==
  /\ OneCall /\ ClaimsDated
  /\ \A o \in Officer : QuietJob(job[o])
  /\ \A m \in 1..Len(masters) : masters[m].current

QuietReleaseInv == ~raced => QuietRelease

LEMMA QuietFree == QuietJob(Free) /\ QuietJob(Free)'
BY FreeRow DEF QuietJob, AtLock, AfterFindings

LEMMA QuietIdle ==
  ASSUME NEW o \in Officer, job'[o].pc = "idle"
  PROVE  QuietJob(job[o])'
BY DEF QuietJob, AtLock, AfterFindings

\* A step of o that leaves the calls unraced found everybody else idle.
LEMMA OnlyThisCall ==
  ASSUME QuietReleaseInv, NEW o \in Officer, ~raced',
         CountJob \/ (job[o].pc # "idle" /\ UNCHANGED raced)
  PROVE  /\ QuietRelease
         /\ \A q \in Officer \ {o} : job[q].pc = "idle"
         /\ \A c \in Client : op[c].pc = "idle"
<1>1. CASE CountJob
  <2>1. raced' = (raced \/ Busy)
    BY <1>1 DEF CountJob
  <2>2. ~raced /\ ~Busy
    BY <2>1, Zenon
  <2>3. QuietRelease
    BY <2>2, Zenon DEF QuietReleaseInv
  <2> QED
    BY <2>2, <2>3 DEF Busy
<1>2. CASE job[o].pc # "idle" /\ UNCHANGED raced
  <2>1. ~raced
    BY <1>2, Zenon
  <2>2. QuietRelease
    BY <2>1, Zenon DEF QuietReleaseInv
  <2> QED
    BY <1>2, <2>2 DEF QuietRelease, OneCall
<1> QED
  BY <1>1, <1>2

\* A call of evaluation or release moves to j.
LEMMA QuietPass ==
  ASSUME ReleaseInv, QuietReleaseInv, NEW o \in Officer, NEW j \in JobRow, Pass(o, j), UNCHANGED op,
         CountJob \/ (job[o].pc # "idle" /\ UNCHANGED raced),
         QuietRelease => /\ ClaimsDated' /\ QuietJob(j)'
                         /\ \A m \in 1..Len(masters') : masters'[m].current
  PROVE  QuietReleaseInv'
<1>1. SUFFICES ASSUME ~raced' PROVE QuietRelease'
  BY Zenon DEF QuietReleaseInv
<1>2. /\ QuietRelease
      /\ \A q \in Officer \ {o} : job[q].pc = "idle"
      /\ \A c \in Client : op[c].pc = "idle"
  BY <1>1, OnlyThisCall
<1>3. job'[o] = j /\ \A q \in Officer \ {o} : job'[q] = job[q]
  BY DEF Pass, ReleaseInv, ReleaseTypeInv
<1>4. OneCall'
  BY <1>2, <1>3 DEF OneCall
<1>5. QuietJob(job[o])'
  BY <1>2, <1>3 DEF QuietJob
<1>6. \A q \in Officer \ {o} : QuietJob(job[q])'
  BY <1>2, <1>3, QuietIdle
<1> QED
  BY <1>2, <1>4, <1>5, <1>6 DEF QuietRelease

\* The same when nothing but the call changes.
LEMMA QuietGate ==
  ASSUME ReleaseInv, QuietReleaseInv, NEW o \in Officer, NEW j \in JobRow, Pass(o, j),
         UNCHANGED <<vars, active, claims, snapshots, runs, masters>>,
         CountJob \/ (job[o].pc # "idle" /\ UNCHANGED raced),
         QuietRelease => QuietJob(j)
  PROVE  QuietReleaseInv'
<1>1. UNCHANGED <<op, head, findings, active, claims, snapshots, runs, masters>>
  BY DEF vars, text, corpus
<1>2. QuietRelease => ClaimsDated' /\ \A m \in 1..Len(masters') : masters'[m].current
  BY <1>1 DEF QuietRelease, ClaimsDated
<1>3. QuietJob(j) => QuietJob(j)'
  BY <1>1 DEF QuietJob, OpenFindings, RunsOn
<1> QED
  BY <1>1, <1>2, <1>3, QuietPass

\* Every step of Editorial belongs to a call in flight or starts one.
LEMMA CallOrCount ==
  ASSUME EditInv, EditorialStep
  PROVE  (\E c \in Client : op[c].pc # "idle") \/ calls' # calls
<1>1. Count => calls' # calls
  BY DEF Count, EditInv, CountInv
<1>2. Count \/ \E c \in Client : op[c].pc # "idle"
  BY DEF EditorialStep, WriteUnit, EditUnit, Abort, Serve, FindingRead, ProposeRead, WaiveRead,
         AcceptRead, RejectRead, ReviseRead, Start, FindingInsert, ProposeTarget, ProposeInsert,
         ProposeLink, AcceptOpen, AcceptWrite, CloseRead, CloseWrite, RejectWrite, ReviseWrite,
         WaiveList, WaiveWrite
<1> QED
  BY <1>1, <1>2

\* A step of others, while no call of evaluation or release is in flight.
LEMMA QuietApart ==
  ASSUME QuietRelease, \A o \in Officer : job[o].pc = "idle",
         UNCHANGED <<claims, snapshots, masters, job>>
  PROVE  QuietRelease'
<1>1. OneCall' /\ ClaimsDated'
  BY DEF QuietRelease, OneCall, ClaimsDated
<1>2. \A o \in Officer : QuietJob(job[o])'
  BY QuietIdle
<1>3. \A m \in 1..Len(masters') : masters'[m].current
  BY DEF QuietRelease
<1> QED
  BY <1>1, <1>2, <1>3 DEF QuietRelease

LEMMA QuietEditorial ==
  ASSUME EditInv, ReleaseInv, QuietReleaseInv, EditorialAlongside
  PROVE  QuietReleaseInv'
<1>1. SUFFICES ASSUME ~raced' PROVE QuietRelease'
  BY Zenon DEF QuietReleaseInv
<1>2. raced' = (raced \/ (calls' # calls /\ Busy)) /\ EditorialStep /\ UNCHANGED <<evidence, job>>
  BY DEF EditorialAlongside
<1>3. ~raced /\ ~(calls' # calls /\ Busy)
  BY <1>1, <1>2, Zenon
<1>4. QuietRelease
  BY <1>3, Zenon DEF QuietReleaseInv
<1>5. \A o \in Officer : job[o].pc = "idle"
  <2>1. CASE \E c \in Client : op[c].pc # "idle"
    BY <1>4, <2>1 DEF QuietRelease, OneCall
  <2>2. CASE calls' # calls
    BY <1>3, <2>2 DEF Busy
  <2> QED
    BY <1>2, <2>1, <2>2, CallOrCount
<1> QED
  BY <1>2, <1>4, <1>5, QuietApart DEF evidence

\* An architecture, a review or a check of its own.
LEMMA QuietSingle ==
  ASSUME ReleaseInv, QuietReleaseInv,
         \/ \E chapters \in SUBSET Unit : Replan(chapters)
         \/ \E outcome \in {"passed", "blocking"} : RecordReview(outcome)
         \/ \E s \in 1..Len(snapshots), k \in Check, b \in BOOLEAN : RunCheck(s, k, b)
  PROVE  QuietReleaseInv'
<1>1. SUFFICES ASSUME ~raced' PROVE QuietRelease'
  BY Zenon DEF QuietReleaseInv
<1>2. raced' = (raced \/ Busy) /\ UNCHANGED <<claims, snapshots, masters, job>>
  BY DEF Replan, RecordReview, RunCheck, CountJob
<1>3. ~raced /\ ~Busy
  BY <1>1, <1>2, Zenon
<1>4. QuietRelease
  BY <1>3, Zenon DEF QuietReleaseInv
<1>5. \A o \in Officer : job[o].pc = "idle"
  BY <1>3 DEF Busy
<1> QED
  BY <1>2, <1>4, <1>5, QuietApart

LEMMA QuietExit ==
  ASSUME QuietReleaseInv, Exit
  PROVE  QuietReleaseInv'
<1>1. /\ UNCHANGED <<claims, snapshots, masters>> /\ raced' = raced
      /\ job' = [o \in Officer |-> Free]
  BY DEF Exit, evidence
<1>2. SUFFICES ASSUME ~raced' PROVE QuietRelease'
  BY Zenon DEF QuietReleaseInv
<1>3. QuietRelease
  BY <1>1, <1>2, Zenon DEF QuietReleaseInv
<1>4. \A o \in Officer : job'[o].pc = "idle"
  BY <1>1, FreeRow
<1>5. OneCall' /\ ClaimsDated'
  BY <1>1, <1>3, <1>4 DEF QuietRelease, OneCall, ClaimsDated
<1>6. \A o \in Officer : QuietJob(job[o])'
  BY <1>4, QuietIdle
<1>7. \A m \in 1..Len(masters') : masters'[m].current
  BY <1>1, <1>3 DEF QuietRelease
<1> QED
  BY <1>5, <1>6, <1>7 DEF QuietRelease

LEMMA QuietReleaseStutter ==
  ASSUME QuietReleaseInv, UNCHANGED all
  PROVE  QuietReleaseInv'
<1>1. /\ UNCHANGED <<op, head, findings, active, claims, snapshots, runs, masters, job>>
      /\ raced' = raced
  BY DEF all, vars, release, evidence, text, corpus
<1>2. SUFFICES ASSUME ~raced' PROVE QuietRelease'
  BY Zenon DEF QuietReleaseInv
<1>3. QuietRelease
  BY <1>1, <1>2, Zenon DEF QuietReleaseInv
<1> QED
  BY <1>1, <1>3 DEF QuietRelease, OneCall, ClaimsDated, QuietJob, OpenFindings, RunsOn

(***************************************************************************)
(* One step per action of the calls.                                       *)
(***************************************************************************)
LEMMA QuietClaimRead ==
  ASSUME ReleaseInv, RangeInv, QuietReleaseInv, NEW o \in Officer, ClaimRead(o)
  PROVE  QuietReleaseInv'
<1>1. /\ UNCHANGED <<vars, active, claims, snapshots, runs, masters>> /\ Tick /\ CountJob
  BY DEF ClaimRead, Begin
<1>2. PICK j : j = [Free EXCEPT !.pc = "claim_write", !.at = clock']
  OBVIOUS
<1>3. clock' = clock + 1 /\ clock' \in Nat /\ clock \in Nat
  BY <1>1, RangeTypes DEF Tick
<1>4. j \in JobRow /\ j.pc = "claim_write" /\ j.at = clock + 1
  BY <1>2, <1>3, FreeRow DEF JobRow, JobPc
<1>5. Pass(o, j)
  BY <1>2 DEF ClaimRead, Begin
<1>6. QuietJob(j)
  <2>1. \A s \in 1..Len(snapshots) : snapshots[s].at < j.at
    BY <1>3, <1>4, RangeTypes DEF RangeInv, RowsRead
  <2> QED
    BY <1>4, <2>1 DEF QuietJob, AtLock, AfterFindings
<1> QED
  BY <1>1, <1>4, <1>5, <1>6, QuietGate

\* The claim gets a date after every snapshot there is.
LEMMA QuietClaimWrite ==
  ASSUME ReleaseInv, QuietReleaseInv, NEW o \in Officer, ClaimWrite(o)
  PROVE  QuietReleaseInv'
<1>1. /\ UNCHANGED <<op, snapshots, masters>> /\ Pass(o, Free) /\ UNCHANGED raced
      /\ job[o].pc = "claim_write" /\ claims' = [version |-> claims.version + 1, at |-> job[o].at]
  BY DEF ClaimWrite, Leave, vars
<1>2. claims'.at = job[o].at
  BY <1>1
<1>3. ASSUME QuietRelease
      PROVE  ClaimsDated' /\ \A m \in 1..Len(masters') : masters'[m].current
  <2>1. \A s \in 1..Len(snapshots) : snapshots[s].at < job[o].at
    BY <1>1, <1>3 DEF QuietRelease, QuietJob
  <2> QED
    BY <1>1, <1>2, <1>3, <2>1 DEF QuietRelease, ClaimsDated
<1> QED
  BY <1>1, <1>3, FreeRow, QuietFree, QuietPass

LEMMA QuietSnapRows ==
  ASSUME ReleaseInv, QuietReleaseInv, NEW o \in Officer, SnapRows(o)
  PROVE  QuietReleaseInv'
<1>1. UNCHANGED <<vars, active, claims, snapshots, runs, masters>> /\ CountJob
  BY DEF SnapRows, Begin, evidence
<1>2. active \in SUBSET Unit /\ Written \in SUBSET Unit
  BY DEF ReleaseInv, ReleaseTypeInv, Written
<1>3. PICK j : j = [Free EXCEPT !.pc = "snap_head", !.chapters = active, !.units = Written,
                                !.claims = claims.version]
  OBVIOUS
<1>4. j \in JobRow /\ j.pc = "snap_head" /\ j.claims = claims.version
  BY <1>2, <1>3, FreeRow, RangeTypes DEF JobRow, JobPc
<1>5. Pass(o, j)
  BY <1>3 DEF SnapRows, Begin
<1>6. QuietJob(j)
  BY <1>4 DEF QuietJob, AtLock, AfterFindings
<1> QED
  BY <1>1, <1>4, <1>5, <1>6, QuietGate

LEMMA QuietSnapHead ==
  ASSUME ReleaseInv, EditInv, QuietReleaseInv, NEW o \in Officer, NEW u \in Unit, SnapHead(o, u)
  PROVE  QuietReleaseInv'
<1>1. /\ UNCHANGED <<vars, active, claims, snapshots, runs, masters>> /\ UNCHANGED raced
      /\ job[o].pc = "snap_head"
  BY DEF SnapHead, evidence
<1>2. PICK j : j = [job[o] EXCEPT !.read = Read(o, u)]
  OBVIOUS
<1>3. Pass(o, j)
  BY <1>2 DEF SnapHead
<1>4. j \in JobRow /\ j.pc = "snap_head" /\ j.claims = job[o].claims
  BY <1>1, <1>2, ReadType, JobType DEF JobRow
<1>5. QuietRelease => QuietJob(j)
  <2>1. QuietRelease => j.claims = claims.version
    BY <1>1, <1>4 DEF QuietRelease, QuietJob
  <2> QED
    BY <1>4, <2>1 DEF QuietJob, AtLock, AfterFindings
<1> QED
  BY <1>1, <1>3, <1>4, <1>5, QuietGate

LEMMA QuietLookup ==
  ASSUME ReleaseInv, QuietReleaseInv, NEW o \in Officer, SnapLookup(o)
  PROVE  QuietReleaseInv'
<1>1. /\ UNCHANGED <<vars, active, claims, snapshots, runs, masters>> /\ UNCHANGED raced
      /\ job[o].pc = "snap_head"
  BY DEF SnapLookup
<1>2. CASE Pass(o, Free)
  BY <1>1, <1>2, FreeRow, QuietFree, QuietGate
<1>3. CASE Tick /\ Pass(o, [job[o] EXCEPT !.pc = "snap_insert", !.at = clock'])
  <2>1. PICK j : j = [job[o] EXCEPT !.pc = "snap_insert", !.at = clock']
    OBVIOUS
  <2>2. clock' \in Nat
    BY <1>3, RangeTypes DEF Tick
  <2>3. j \in JobRow /\ j.pc = "snap_insert" /\ j.claims = job[o].claims
    BY <2>1, <2>2, JobType DEF JobRow, JobPc
  <2>4. QuietRelease => QuietJob(j)
    <3>1. QuietRelease => j.claims = claims.version
      BY <1>1, <2>3 DEF QuietRelease, QuietJob
    <3> QED
      BY <2>3, <3>1 DEF QuietJob, AtLock, AfterFindings
  <2>5. Pass(o, j)
    BY <1>3, <2>1
  <2> QED
    BY <1>1, <2>3, <2>4, <2>5, QuietGate
<1> QED
  BY <1>2, <1>3 DEF SnapLookup, Leave

\* A new snapshot holds the claims as they are.
LEMMA QuietSnapInsert ==
  ASSUME ReleaseInv, QuietReleaseInv, NEW o \in Officer, SnapInsert(o)
  PROVE  QuietReleaseInv'
<1>1. /\ UNCHANGED <<op, claims, masters>> /\ Pass(o, Free) /\ UNCHANGED raced
      /\ job[o].pc = "snap_insert"
  BY DEF SnapInsert, Leave, vars
<1>2. /\ Len(snapshots) \in Nat /\ Len(snapshots') = Len(snapshots) + 1
      /\ \A s \in 1..Len(snapshots) : snapshots'[s] = snapshots[s]
      /\ snapshots'[Len(snapshots) + 1].claims = job[o].claims
  BY SnapshotRow
<1>3. ASSUME QuietRelease
      PROVE  ClaimsDated' /\ \A m \in 1..Len(masters') : masters'[m].current
  <2>1. job[o].claims = claims.version
    BY <1>1, <1>3 DEF QuietRelease, QuietJob
  <2>2. \A s \in 1..Len(snapshots') : s \in 1..Len(snapshots) \/ s = Len(snapshots) + 1
    BY <1>2
  <2>3. ClaimsDated'
    BY <1>1, <1>2, <1>3, <2>1, <2>2 DEF QuietRelease, ClaimsDated
  <2> QED
    BY <1>1, <1>3, <2>3 DEF QuietRelease
<1> QED
  BY <1>1, <1>3, FreeRow, QuietFree, QuietPass

LEMMA QuietLockChapters ==
  ASSUME ReleaseInv, EditInv, QuietReleaseInv, NEW o \in Officer, LockChapters(o)
  PROVE  QuietReleaseInv'
<1>1. UNCHANGED <<vars, active, claims, snapshots, runs, masters>> /\ CountJob
  BY DEF LockChapters, Begin, evidence
<1>2. active \in SUBSET Unit /\ OpenFindings \in SUBSET Nat /\ BlockingRuns \in SUBSET RunRow
  BY DEF ReleaseInv, ReleaseTypeInv, OpenFindings, BlockingRuns, EditInv, RowsInv
<1>3. PICK j : j = [Free EXCEPT !.pc = "lock_head", !.chapters = active,
                                !.open = OpenFindings, !.blocking = BlockingRuns]
  OBVIOUS
<1>4. j \in JobRow /\ j.pc = "lock_head" /\ j.chapters = active /\ j.read = NoUnits
  BY <1>2, <1>3, FreeRow DEF JobRow, JobPc, Free
<1>5. Pass(o, j)
  BY <1>3 DEF LockChapters, Begin
<1>6. DOMAIN j.read = {}
  BY <1>4 DEF NoUnits
<1>7. QuietJob(j)
  BY <1>4, <1>6 DEF QuietJob, AtLock, AfterFindings
<1> QED
  BY <1>1, <1>4, <1>5, <1>7, QuietGate

LEMMA QuietLockHead ==
  ASSUME ReleaseInv, EditInv, QuietReleaseInv, NEW o \in Officer, NEW u \in Unit, LockHead(o, u)
  PROVE  QuietReleaseInv'
<1>1. /\ UNCHANGED <<vars, active, claims, snapshots, runs, masters>> /\ UNCHANGED raced
      /\ job[o].pc = "lock_head" /\ u \in job[o].chapters
  BY DEF LockHead, evidence
<1>2. PICK r : r = Read(o, u)
  OBVIOUS
<1>3. /\ r \in PartialMap /\ DOMAIN r = DOMAIN job[o].read \union {u}
      /\ \A v \in DOMAIN r : r[v] = IF v = u THEN head[u] ELSE job[o].read[v]
  BY <1>2, ReadType
<1>4. PICK j : j = [job[o] EXCEPT !.read = r]
  OBVIOUS
<1>5. Pass(o, j)
  BY <1>2, <1>4 DEF LockHead
<1>6. j \in JobRow /\ j.pc = "lock_head" /\ j.chapters = job[o].chapters /\ j.read = r
  BY <1>1, <1>3, <1>4, JobType DEF JobRow
<1>7. ASSUME QuietRelease
      PROVE  QuietJob(j)
  <2>1. /\ job[o].chapters = active /\ DOMAIN job[o].read \subseteq active
        /\ \A v \in DOMAIN job[o].read : job[o].read[v] = head[v]
    BY <1>1, <1>7 DEF QuietRelease, QuietJob, AtLock
  <2>2. j.chapters = active /\ DOMAIN j.read \subseteq active
    BY <1>1, <1>3, <1>6, <2>1
  <2>3. \A v \in DOMAIN j.read : j.read[v] = head[v]
    BY <1>3, <1>6, <2>1
  <2> QED
    BY <1>6, <2>2, <2>3 DEF QuietJob, AfterFindings
<1> QED
  BY <1>1, <1>5, <1>6, <1>7, QuietGate

\* The later reads of the gate: each adds what it has seen.
LEMMA QuietLaterGate ==
  ASSUME ReleaseInv, QuietReleaseInv, NEW o \in Officer, NEW j \in JobRow, Pass(o, j),
         UNCHANGED <<vars, evidence>>, UNCHANGED raced,
         job[o].pc \in AtLock, j.pc \in AfterFindings,
         j.chapters = job[o].chapters, j.read = job[o].read,
         QuietRelease => /\ DOMAIN j.read = active /\ OpenFindings = {}
                         /\ j.pc \in {"lock_checks", "lock_blocking", "lock_insert"} =>
                              snapshots[j.snapshot].claims = claims.version
                         /\ j.pc = "lock_insert" => \A r \in RunsOn(j.snapshot) : ~r.blocking
  PROVE  QuietReleaseInv'
<1>1. UNCHANGED <<vars, active, claims, snapshots, runs, masters>> /\ job[o].pc # "idle"
  BY DEF evidence, AtLock
<1>2. j.pc \notin {"claim_write", "snap_head", "snap_insert"}
  BY DEF AfterFindings, AtLock
<1>3. ASSUME QuietRelease
      PROVE  QuietJob(j)
  <2>1. /\ j.chapters = active
        /\ \A v \in DOMAIN j.read : j.read[v] = head[v]
    BY <1>3 DEF QuietRelease, QuietJob
  <2> QED
    BY <1>2, <1>3, <2>1 DEF QuietJob
<1> QED
  BY <1>1, <1>3, QuietGate

\* Where the call is, and what it keeps.
LEMMA GateMove ==
  ASSUME ReleaseInv, NEW o \in Officer, NEW pc \in JobPc, To(o, pc)
  PROVE  \E j \in JobRow : /\ Pass(o, j) /\ j.pc = pc /\ j.chapters = job[o].chapters
                           /\ j.read = job[o].read /\ j.snapshot = job[o].snapshot
<1> DEFINE j == [job[o] EXCEPT !.pc = pc]
<1>1. /\ j \in JobRow /\ j.pc = pc /\ j.chapters = job[o].chapters
      /\ j.read = job[o].read /\ j.snapshot = job[o].snapshot
  BY JobType DEF JobRow
<1>2. Pass(o, j)
  BY DEF To
<1> HIDE DEF j
<1> QED
  BY <1>1, <1>2

LEMMA QuietLockFindings ==
  ASSUME ReleaseInv, QuietReleaseInv, NEW o \in Officer, LockFindings(o)
  PROVE  QuietReleaseInv'
<1>1. /\ job[o].pc = "lock_head" /\ OpenFindings = {} /\ To(o, "lock_snapshot")
      /\ DOMAIN job[o].read = job[o].chapters /\ UNCHANGED <<vars, evidence>> /\ UNCHANGED raced
      /\ "lock_snapshot" \in JobPc
  BY DEF LockFindings, NoFindings, JobPc
<1>2. PICK j \in JobRow : /\ Pass(o, j) /\ j.pc = "lock_snapshot" /\ j.chapters = job[o].chapters
                          /\ j.read = job[o].read
  BY <1>1, GateMove
<1>3. QuietRelease => DOMAIN j.read = active /\ OpenFindings = {}
  BY <1>1, <1>2 DEF QuietRelease, QuietJob, AtLock
<1>4. job[o].pc \in AtLock /\ j.pc \in AfterFindings
  BY <1>1, <1>2 DEF AtLock, AfterFindings
<1> QED
  BY <1>1, <1>2, <1>3, <1>4, QuietLaterGate

LEMMA QuietLockSnapshot ==
  ASSUME ReleaseInv, QuietReleaseInv, NEW o \in Officer, LockSnapshot(o)
  PROVE  QuietReleaseInv'
<1>1. /\ job[o].pc = "lock_snapshot" /\ snapshots # <<>>
      /\ UNCHANGED <<vars, evidence>> /\ UNCHANGED raced
  BY DEF LockSnapshot
<1>2. PICK j : j = [job[o] EXCEPT !.pc = "lock_claims", !.snapshot = Latest]
  OBVIOUS
<1>3. Pass(o, j)
  BY <1>2 DEF LockSnapshot
<1>4. Latest \in Nat
  BY <1>1, LatestExists, RangeTypes
<1>5. j \in JobRow /\ j.pc = "lock_claims" /\ j.chapters = job[o].chapters /\ j.read = job[o].read
  BY <1>2, <1>4, JobType DEF JobRow, JobPc
<1>6. QuietRelease => DOMAIN j.read = active /\ OpenFindings = {}
  BY <1>1, <1>5 DEF QuietRelease, QuietJob, AtLock, AfterFindings
<1>7. job[o].pc \in AtLock /\ j.pc \in AfterFindings
  BY <1>1, <1>5 DEF AtLock, AfterFindings
<1> QED
  BY <1>1, <1>3, <1>5, <1>6, <1>7, QuietLaterGate

\* A snapshot at least as late as the last change of a claim holds the claims as they are.
LEMMA QuietLockClaims ==
  ASSUME ReleaseInv, QuietReleaseInv, NEW o \in Officer, LockClaims(o)
  PROVE  QuietReleaseInv'
<1>1. /\ job[o].pc = "lock_claims" /\ claims.at <= snapshots[job[o].snapshot].at
      /\ To(o, "lock_checks") /\ UNCHANGED <<vars, evidence>> /\ UNCHANGED raced
      /\ "lock_checks" \in JobPc
  BY DEF LockClaims, ClaimsAsEvaluated, JobPc
<1>2. PICK j \in JobRow : /\ Pass(o, j) /\ j.pc = "lock_checks" /\ j.chapters = job[o].chapters
                          /\ j.read = job[o].read /\ j.snapshot = job[o].snapshot
  BY <1>1, GateMove
<1>3. job[o].snapshot \in 1..Len(snapshots)
  BY <1>1, JobType DEF Established, AfterSnapshot, AfterFindings, AtLock
<1>4. ASSUME QuietRelease
      PROVE  /\ DOMAIN j.read = active /\ OpenFindings = {}
             /\ snapshots[j.snapshot].claims = claims.version
  <2>1. DOMAIN j.read = active /\ OpenFindings = {}
    BY <1>1, <1>2, <1>4 DEF QuietRelease, QuietJob, AtLock, AfterFindings
  <2>2. \/ snapshots[job[o].snapshot].claims = claims.version
        \/ snapshots[job[o].snapshot].at < claims.at
    BY <1>3, <1>4 DEF QuietRelease, ClaimsDated
  <2> QED
    BY <1>1, <1>2, <1>3, <2>1, <2>2, RangeTypes
<1>5. job[o].pc \in AtLock /\ j.pc \in AfterFindings /\ j.pc # "lock_insert"
  BY <1>1, <1>2 DEF AtLock, AfterFindings
<1> QED
  BY <1>1, <1>2, <1>4, <1>5, QuietLaterGate

LEMMA QuietLockChecks ==
  ASSUME ReleaseInv, QuietReleaseInv, NEW o \in Officer, LockChecks(o) \/ LockBlocking(o)
  PROVE  QuietReleaseInv'
<1>1. /\ job[o].pc \in {"lock_checks", "lock_blocking"} /\ UNCHANGED <<vars, evidence>>
      /\ UNCHANGED raced
      /\ \E pc \in {"lock_blocking", "lock_insert"} :
           /\ To(o, pc)
           /\ pc = "lock_insert" => \A r \in RunsOn(job[o].snapshot) : ~r.blocking
  BY DEF LockChecks, LockBlocking
<1>2. PICK pc \in {"lock_blocking", "lock_insert"} :
           /\ To(o, pc)
           /\ pc = "lock_insert" => \A r \in RunsOn(job[o].snapshot) : ~r.blocking
  BY <1>1
<1>3. pc \in JobPc
  BY DEF JobPc
<1>4. PICK j \in JobRow : /\ Pass(o, j) /\ j.pc = pc /\ j.chapters = job[o].chapters
                          /\ j.read = job[o].read /\ j.snapshot = job[o].snapshot
  BY <1>2, <1>3, GateMove
<1>5. ASSUME QuietRelease
      PROVE  /\ DOMAIN j.read = active /\ OpenFindings = {}
             /\ snapshots[j.snapshot].claims = claims.version
  BY <1>1, <1>4, <1>5 DEF QuietRelease, QuietJob, AtLock, AfterFindings
<1>6. j.pc = "lock_insert" => \A r \in RunsOn(j.snapshot) : ~r.blocking
  BY <1>2, <1>4
<1>7. job[o].pc \in AtLock /\ j.pc \in AfterFindings
  BY <1>1, <1>4 DEF AtLock, AfterFindings
<1> QED
  BY <1>1, <1>4, <1>5, <1>6, <1>7, QuietLaterGate

\* What is inserted is current.
LEMMA QuietLockInsert ==
  ASSUME ReleaseInv, QuietReleaseInv, NEW o \in Officer, LockInsert(o)
  PROVE  QuietReleaseInv'
<1> DEFINE j == job[o]
           row == [units |-> j.read, snapshot |-> j.snapshot, current |-> Current(j),
                   missed |-> [findings |-> j.open \intersect OpenFindings,
                               runs     |-> j.blocking \intersect RunsOn(j.snapshot)]]
<1>1. /\ j.pc = "lock_insert" /\ Pass(o, Free) /\ UNCHANGED raced
      /\ UNCHANGED <<op, claims, snapshots>>
      /\ UNCHANGED masters \/ masters' = Append(masters, row)
  BY DEF LockInsert, Leave, vars
<1>2. ASSUME QuietRelease
      PROVE  Current(j)
  <2>1. QuietJob(j)
    BY <1>2 DEF QuietRelease
  <2>2. /\ j.chapters = active /\ DOMAIN j.read = active /\ OpenFindings = {}
        /\ \A u \in DOMAIN j.read : j.read[u] = head[u]
        /\ snapshots[j.snapshot].claims = claims.version
        /\ \A r \in RunsOn(j.snapshot) : ~r.blocking
    BY <1>1, <2>1 DEF QuietJob, AtLock, AfterFindings
  <2> QED
    BY <2>2 DEF Current
<1>3. row.current = Current(j)
  BY Zenon
<1> HIDE DEF row
<1>4. ASSUME QuietRelease
      PROVE  ClaimsDated' /\ \A m \in 1..Len(masters') : masters'[m].current
  <2>1. ClaimsDated'
    BY <1>1, <1>4 DEF QuietRelease, ClaimsDated
  <2>2. \A m \in 1..Len(masters) : masters[m].current
    BY <1>4 DEF QuietRelease
  <2>3. row.current
    BY <1>2, <1>3, <1>4
  <2>4. CASE UNCHANGED masters
    BY <2>1, <2>2, <2>4
  <2>5. CASE masters' = Append(masters, row)
    <3>1. /\ Len(masters) \in Nat /\ Len(masters') = Len(masters) + 1
          /\ \A m \in 1..Len(masters) : masters'[m] = masters[m]
          /\ masters'[Len(masters) + 1] = row
      <4>1. masters \in Seq(MasterRow)
        BY DEF ReleaseInv, ReleaseTypeInv
      <4> QED
        BY <2>5, <4>1
    <3>2. \A m \in 1..Len(masters') : m \in 1..Len(masters) \/ m = Len(masters) + 1
      BY <3>1
    <3>3. \A m \in 1..Len(masters') : masters'[m].current
      BY <2>2, <2>3, <3>1, <3>2, Zenon
    <3> QED
      BY <2>1, <3>3
  <2> QED
    BY <1>1, <2>4, <2>5
<1>5. job[o].pc # "idle"
  BY <1>1
<1> QED
  BY <1>1, <1>4, <1>5, FreeRow, QuietFree, QuietPass

LEMMA QuietAbortJob ==
  ASSUME ReleaseInv, QuietReleaseInv, NEW o \in Officer, AbortJob(o)
  PROVE  QuietReleaseInv'
<1>1. /\ Pass(o, Free) /\ UNCHANGED <<vars, active, claims, snapshots, runs, masters>>
      /\ UNCHANGED raced /\ job[o].pc # "idle"
  BY DEF AbortJob, Leave, evidence
<1> QED
  BY <1>1, FreeRow, QuietFree, QuietGate

LEMMA QuietReleaseInit == Init /\ InitRelease => QuietReleaseInv
<1> SUFFICES ASSUME InitRelease PROVE QuietReleaseInv
  OBVIOUS
<1>1. snapshots = <<>> /\ masters = <<>> /\ job = [o \in Officer |-> Free]
  BY DEF InitRelease
<1>2. OneCall
  BY <1>1, FreeRow DEF OneCall
<1>3. ClaimsDated /\ \A m \in 1..Len(masters) : masters[m].current
  BY <1>1 DEF ClaimsDated
<1>4. \A o \in Officer : QuietJob(job[o])
  BY <1>1, QuietFree
<1> QED
  BY <1>2, <1>3, <1>4 DEF QuietReleaseInv, QuietRelease

LEMMA QuietReleaseNext ==
  QuietReleaseInv /\ RangeInv /\ ReleaseInv /\ EditInv /\ [Next]_all => QuietReleaseInv'
<1> SUFFICES ASSUME QuietReleaseInv, RangeInv, ReleaseInv, EditInv, [Next]_all
             PROVE  QuietReleaseInv'
  OBVIOUS
<1>1. CASE UNCHANGED all
  BY <1>1, QuietReleaseStutter
<1>2. CASE EditorialAlongside
  BY <1>2, QuietEditorial
<1>3. CASE Exit
  BY <1>3, QuietExit
<1>4. CASE ReleaseStep
  <2>1. CASE \/ \E chapters \in SUBSET Unit : Replan(chapters)
             \/ \E outcome \in {"passed", "blocking"} : RecordReview(outcome)
             \/ \E s \in 1..Len(snapshots), k \in Check, b \in BOOLEAN : RunCheck(s, k, b)
    BY <2>1, QuietSingle
  <2>2. ASSUME NEW o \in Officer, ClaimRead(o) \/ ClaimWrite(o) \/ SnapRows(o) \/ SnapInsert(o)
        PROVE  QuietReleaseInv'
    BY <2>2, QuietClaimRead, QuietClaimWrite, QuietSnapRows, QuietSnapInsert
  <2>3. ASSUME NEW o \in Officer, SnapLookup(o) \/ LockChapters(o) \/ LockInsert(o) \/ AbortJob(o)
        PROVE  QuietReleaseInv'
    BY <2>3, QuietLookup, QuietLockChapters, QuietLockInsert, QuietAbortJob
  <2>4. ASSUME NEW o \in Officer, NEW u \in Unit, SnapHead(o, u) \/ LockHead(o, u)
        PROVE  QuietReleaseInv'
    BY <2>4, QuietSnapHead, QuietLockHead
  <2>5. ASSUME NEW o \in Officer, LockFindings(o) \/ LockSnapshot(o) \/ LockClaims(o)
                                  \/ LockChecks(o) \/ LockBlocking(o)
        PROVE  QuietReleaseInv'
    BY <2>5, QuietLockFindings, QuietLockSnapshot, QuietLockClaims, QuietLockChecks
  <2> QED
    BY <1>4, <2>1, <2>2, <2>3, <2>4, <2>5 DEF ReleaseStep
<1> QED
  BY <1>1, <1>2, <1>3, <1>4 DEF Next

LEMMA QuietReleaseInvariant == Spec => []QuietReleaseInv
<1>1. QuietReleaseInv /\ RangeInv /\ ReleaseInv /\ EditInv /\ [Next]_all => QuietReleaseInv'
  BY QuietReleaseNext
<1>2. Init /\ InitRelease => QuietReleaseInv
  BY QuietReleaseInit
<1> QED
  BY <1>1, <1>2, RangeInvariant, ReleaseInvariant, EditorialHolds, PTL DEF Spec

LEMMA InvCurrent == QuietReleaseInv => QuietMasterIsCurrent
BY Zenon DEF QuietReleaseInv, QuietRelease, QuietMasterIsCurrent

\* When no call runs into another, a master is current in every respect when it is locked,
\* although the evidence was gathered by earlier calls that may have been cut short
\* (literary_master.py create_master over bookbench.py create_snapshot and research.py).
THEOREM QuietMastersAreCurrent == Spec => []QuietMasterIsCurrent
BY QuietReleaseInvariant, InvCurrent, PTL
==============================================================================
