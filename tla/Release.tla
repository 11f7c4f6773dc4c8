------------------------------- MODULE Release -------------------------------
(***************************************************************************)
(* Locking a Literary Master: LiteraryMasterService (literary_master.py)   *)
(* over the manuscript and findings of Editorial, the evaluation snapshots *)
(* and runs of BookBench (bookbench.py), the claims (research.py) and the  *)
(* adversarial review (series_production.py).                              *)
(*                                                                         *)
(* create_master reads everything the gate asks for, statement by          *)
(* statement, before its first write takes the lock; create_snapshot reads *)
(* rows, then heads, then looks its hash up, then inserts.  Calls of other *)
(* threads come in between.  A unit stands for a chapter, its contract and *)
(* its text; book contract and architecture are read in the same way.      *)
(***************************************************************************)
EXTENDS Editorial

CONSTANTS Officer,        \* threads serving evaluation and release
          Check,          \* the deterministic checks the gate requires
          MaxSnapshots, MaxMasters, MaxJobs   \* bounds of a finite instance

ASSUME ReleaseBoundsAssumption == {MaxSnapshots, MaxMasters, MaxJobs} \subseteq Nat

VARIABLES
  active,      \* units of the chapters not superseded by the architecture
  claims,      \* the state of the claims: a version, and the updated_at it carries
  clock,       \* utc_now()
  snapshots,   \* BOOK snapshots: chapters, revision of each unit, claims, created_at
  runs,        \* evaluation runs: snapshot, check, whether a finding is BLOCKING
  review,      \* the latest ADVERSARIAL_REVIEW checkpoint
  masters,     \* locked masters: revision of each unit, snapshot; what held when (history)
  job,         \* the calls of officers in flight
  jobs,        \* the number of them started so far (bound)
  raced        \* whether any call ever began while another was in flight (history)

evidence == <<active, claims, clock, snapshots, runs, review, masters>>
release  == <<evidence, job, jobs, raced>>
all      == <<vars, release>>

MaxClock == 2 * MaxJobs

NoUnits == [u \in {} |-> 0]

Free == [pc |-> "idle", chapters |-> {}, units |-> {}, read |-> NoUnits, claims |-> 0, at |-> 0,
         snapshot |-> 0, open |-> {}, blocking |-> {}]

JobPc == {"idle", "snap_head", "snap_insert", "claim_write", "lock_head", "lock_snapshot",
          "lock_claims", "lock_checks", "lock_blocking", "lock_insert"}

InitRelease ==
  /\ active    = Unit
  /\ claims    = [version |-> 1, at |-> 0]
  /\ clock     = 0
  /\ snapshots = <<>>
  /\ runs      = {}
  /\ review    = "none"
  /\ masters   = <<>>
  /\ job       = [o \in Officer |-> Free]
  /\ raced     = FALSE

Busy == \/ \E c \in Client : op[c].pc # "idle"
        \/ \E o \in Officer : job[o].pc # "idle"

Pass(o, j)  == job' = [job EXCEPT ![o] = j]
To(o, pc)   == Pass(o, [job[o] EXCEPT !.pc = pc])
Leave(o)    == Pass(o, Free)
CountJob    == jobs < MaxJobs /\ jobs' = jobs + 1 /\ raced' = (raced \/ Busy)
Begin(o, j) == job[o].pc = "idle" /\ CountJob /\ Pass(o, j)
Tick        == clock < MaxClock /\ clock' = clock + 1

Written == {u \in Unit : head[u] # 0}

(***************************************************************************)
(* Calls of one transaction: an approved architecture drops or takes back  *)
(* chapters, a review is recorded, a check is run on a stored snapshot.    *)
(***************************************************************************)
Replan(chapters) ==
  /\ chapters \notin {{}, active}
  /\ CountJob
  /\ active' = chapters
  /\ UNCHANGED <<vars, claims, clock, snapshots, runs, review, masters, job>>

RecordReview(outcome) ==
  /\ review # outcome
  /\ CountJob
  /\ review' = outcome
  /\ UNCHANGED <<vars, active, claims, clock, snapshots, runs, masters, job>>

RunCheck(s, k, blocking) ==
  /\ [snapshot |-> s, check |-> k, blocking |-> blocking] \notin runs
  /\ raced' = (raced \/ Busy)
  /\ runs' = runs \union {[snapshot |-> s, check |-> k, blocking |-> blocking]}
  /\ UNCHANGED <<vars, active, claims, clock, snapshots, review, masters, job, jobs>>

(***************************************************************************)
(* A claim's state changes: utc_now() is taken before the UPDATE.          *)
(***************************************************************************)
ClaimRead(o) ==
  /\ Tick
  /\ Begin(o, [Free EXCEPT !.pc = "claim_write", !.at = clock'])
  /\ UNCHANGED <<vars, active, claims, snapshots, runs, review, masters>>

ClaimWrite(o) ==
  /\ job[o].pc = "claim_write"
  /\ claims' = [version |-> claims.version + 1, at |-> job[o].at]
  /\ Leave(o)
  /\ UNCHANGED <<vars, active, clock, snapshots, runs, review, masters, jobs, raced>>

(***************************************************************************)
(* create_snapshot of the book.                                            *)
(***************************************************************************)
SnapRows(o) ==
  /\ Begin(o, [Free EXCEPT !.pc = "snap_head", !.chapters = active, !.units = Written,
                           !.claims = claims.version])
  /\ UNCHANGED <<vars, evidence>>

Read(o, u) == [v \in DOMAIN job[o].read \union {u} |->
                 IF v = u THEN head[u] ELSE job[o].read[v]]

SnapHead(o, u) ==
  /\ job[o].pc = "snap_head"
  /\ u \in job[o].units \ DOMAIN job[o].read
  /\ Pass(o, [job[o] EXCEPT !.read = Read(o, u)])
  /\ UNCHANGED <<vars, evidence, jobs, raced>>

\* The manifest hash covers chapters, revisions and claims.
SameManifest(s, j) ==
  <<s.chapters, s.read, s.claims>> = <<j.chapters, j.read, j.claims>>

Stored(j) == \E s \in 1..Len(snapshots) : SameManifest(snapshots[s], j)

\* A snapshot of the same hash is returned as it is; otherwise created_at is taken now.
SnapLookup(o) ==
  /\ job[o].pc = "snap_head" /\ DOMAIN job[o].read = job[o].units
  /\ IF Stored(job[o])
     THEN Leave(o) /\ UNCHANGED clock
     ELSE Tick /\ Pass(o, [job[o] EXCEPT !.pc = "snap_insert", !.at = clock'])
  /\ UNCHANGED <<vars, active, claims, snapshots, runs, review, masters, jobs, raced>>

SnapInsert(o) ==
  /\ job[o].pc = "snap_insert"
  /\ ~Stored(job[o])
  /\ Len(snapshots) < MaxSnapshots
  /\ snapshots' = Append(snapshots, [chapters |-> job[o].chapters, read |-> job[o].read,
                                     claims |-> job[o].claims, at |-> job[o].at])
  /\ Leave(o)
  /\ UNCHANGED <<vars, active, claims, clock, runs, review, masters, jobs, raced>>

(***************************************************************************)
(* create_master: the release gate, read by read, and the insert.          *)
(***************************************************************************)
OpenFindings == {f \in 1..Len(findings) : findings[f].status = "OPEN"}
BlockingRuns == {r \in runs : r.blocking}

LockChapters(o) ==
  /\ Begin(o, [Free EXCEPT !.pc = "lock_head", !.chapters = active,
                           !.open = OpenFindings, !.blocking = BlockingRuns])
  /\ UNCHANGED <<vars, evidence>>

\* A chapter without text, or with a head that is not approved, blocks the release.
LockHead(o, u) ==
  /\ job[o].pc = "lock_head"
  /\ u \in job[o].chapters \ DOMAIN job[o].read
  /\ Approved(head[u])
  /\ Pass(o, [job[o] EXCEPT !.read = Read(o, u)])
  /\ UNCHANGED <<vars, evidence, jobs, raced>>

\* Variant: a finding on a revision no longer current does not count.
NoCurrentFindings == \A f \in OpenFindings : findings[f].base # head[findings[f].unit]

NoFindings == OpenFindings = {}

LockFindings(o) ==
  /\ job[o].pc = "lock_head" /\ DOMAIN job[o].read = job[o].chapters
  /\ NoFindings
  /\ To(o, "lock_snapshot")
  /\ UNCHANGED <<vars, evidence, jobs, raced>>

\* ORDER BY created_at DESC LIMIT 1
Latest == CHOOSE s \in 1..Len(snapshots) :
            \A t \in 1..Len(snapshots) : snapshots[t].at <= snapshots[s].at

\* Variant: the targets are compared, the revisions they had are not.
SameTargets(s, j) == DOMAIN s.read = DOMAIN j.read /\ s.chapters = j.chapters

\* The targets the gate expects are those of the chapters and units it has read.
FitsRelease(s, j) == s.read = j.read /\ s.chapters = j.chapters

LockSnapshot(o) ==
  /\ job[o].pc = "lock_snapshot"
  /\ snapshots # <<>>
  /\ FitsRelease(snapshots[Latest], job[o])
  /\ Pass(o, [job[o] EXCEPT !.pc = "lock_claims", !.snapshot = Latest])
  /\ UNCHANGED <<vars, evidence, jobs, raced>>

\* Variant: a snapshot of all claims is one of their present state.
AnyClaims(s) == TRUE

\* No claim has an updated_at later than the snapshot's created_at.
ClaimsAsEvaluated(s) == claims.at <= snapshots[s].at

LockClaims(o) ==
  /\ job[o].pc = "lock_claims"
  /\ ClaimsAsEvaluated(job[o].snapshot)
  /\ To(o, "lock_checks")
  /\ UNCHANGED <<vars, evidence, jobs, raced>>

RunsOn(s) == {r \in runs : r.snapshot = s}

LockChecks(o) ==
  /\ job[o].pc = "lock_checks"
  /\ Check \subseteq {r.check : r \in RunsOn(job[o].snapshot)}
  /\ To(o, "lock_blocking")
  /\ UNCHANGED <<vars, evidence, jobs, raced>>

LockBlocking(o) ==
  /\ job[o].pc = "lock_blocking"
  /\ \A r \in RunsOn(job[o].snapshot) : ~r.blocking
  /\ To(o, "lock_insert")
  /\ UNCHANGED <<vars, evidence, jobs, raced>>

\* What a master would have to hold to be current at this instant.
Current(j) ==
  /\ j.chapters = active
  /\ \A u \in active : j.read[u] = head[u]
  /\ OpenFindings = {}
  /\ snapshots[j.snapshot].claims = claims.version
  /\ \A r \in RunsOn(j.snapshot) : ~r.blocking

Locked(j) == \E m \in 1..Len(masters) : masters[m].units = j.read /\ masters[m].snapshot = j.snapshot

\* The same manifest is the same master; the trigger on literary_masters asks for the review.
LockInsert(o) ==
  LET j == job[o]
  IN /\ j.pc = "lock_insert"
     /\ \/ Locked(j) /\ UNCHANGED masters
        \/ /\ ~Locked(j)
           /\ review = "passed"
           /\ Len(masters) < MaxMasters
           /\ masters' = Append(masters,
                [units |-> j.read, snapshot |-> j.snapshot, current |-> Current(j),
                 missed |-> [findings |-> j.open \intersect OpenFindings,
                             runs     |-> j.blocking \intersect RunsOn(j.snapshot)]])
     /\ Leave(o)
     /\ UNCHANGED <<vars, active, claims, clock, snapshots, runs, review, jobs, raced>>

AbortJob(o) == /\ job[o].pc # "idle"
               /\ Leave(o)
               /\ UNCHANGED <<vars, evidence, jobs, raced>>

\* An exit of the process ends every call.
Exit == /\ Busy
        /\ op'  = [c \in Client |-> Idle]
        /\ job' = [o \in Officer |-> Free]
        /\ UNCHANGED <<text, corpus, count, evidence, jobs, raced>>

ReleaseStep ==
  \/ \E chapters \in SUBSET Unit : Replan(chapters)
  \/ \E outcome \in {"passed", "blocking"} : RecordReview(outcome)
  \/ \E s \in 1..Len(snapshots), k \in Check, b \in BOOLEAN : RunCheck(s, k, b)
  \/ \E o \in Officer :
       \/ ClaimRead(o) \/ ClaimWrite(o)
       \/ SnapRows(o) \/ SnapLookup(o) \/ SnapInsert(o)
       \/ \E u \in Unit : SnapHead(o, u) \/ LockHead(o, u)
       \/ LockChapters(o) \/ LockFindings(o) \/ LockSnapshot(o) \/ LockClaims(o)
       \/ LockChecks(o) \/ LockBlocking(o) \/ LockInsert(o)
       \/ AbortJob(o)

\* A call of Editorial is a step of its own; starting it while another is in flight is a race.
EditorialAlongside ==
  /\ EditorialStep
  /\ raced' = (raced \/ (calls' # calls /\ Busy))
  /\ UNCHANGED <<evidence, job, jobs>>

Next == EditorialAlongside \/ ReleaseStep \/ Exit

Spec == Init /\ InitRelease /\ jobs = 0 /\ [][Next]_all

(***************************************************************************)
(* Properties.                                                             *)
(***************************************************************************)
\* Every row names rows that exist, beyond what EditorialTypeOK says.
TypeOK ==
  /\ EditorialTypeOK
  /\ active \in SUBSET Unit
  /\ claims \in [version : 1..MaxJobs + 1, at : 0..clock]
  /\ clock \in 0..MaxClock
  /\ \A s \in 1..Len(snapshots) :
       /\ DOMAIN snapshots[s].read \subseteq Unit
       /\ \A u \in DOMAIN snapshots[s].read : snapshots[s].read[u] \in 1..head[u]
       /\ snapshots[s].at \in 0..clock /\ snapshots[s].claims \in 1..claims.version
  /\ runs \subseteq [snapshot : 1..Len(snapshots), check : Check, blocking : BOOLEAN]
  /\ review \in {"none", "passed", "blocking"}
  /\ \A m \in 1..Len(masters) : masters[m].snapshot \in 1..Len(snapshots)
  /\ \A o \in Officer : job[o].pc \in JobPc /\ DOMAIN job[o].read \subseteq Unit
  /\ jobs \in 0..MaxJobs /\ raced \in BOOLEAN

\* What is locked is exactly what was evaluated: every master consists of approved revisions,
\* the very ones its snapshot recorded, every required check has run on that snapshot, and no
\* BLOCKING result known when the call began was passed over (_collect_state).
MasterIsEvaluated ==
  \A m \in 1..Len(masters) :
    LET s == masters[m].snapshot
    IN /\ masters[m].units = snapshots[s].read
       /\ \A u \in DOMAIN masters[m].units : Approved(masters[m].units[u])
       /\ Check \subseteq {r.check : r \in RunsOn(s)}
       /\ masters[m].missed.runs = {}

\* A material finding that is open from before create_master begins until it inserts keeps the
\* master from being locked, whatever is accepted, waived or edited meanwhile.
NoFindingIgnored == \A m \in 1..Len(masters) : masters[m].missed.findings = {}

\* When no call runs into another, a master is current in every respect when it is locked:
\* chapters, text, findings, claims and evaluation are those of that instant, although the
\* evidence was gathered by earlier calls that may have been cut short.
QuietMasterIsCurrent ==
  ~raced => \A m \in 1..Len(masters) : masters[m].current

(***************************************************************************)
(* What the documents promise and the code does not keep.                  *)
(***************************************************************************)
\* 2026-08-29-literary-master-release-profile.md wants the snapshot to match the revisions
\* selected for release.  A snapshot BookBench itself calls current does: it was taken of the
\* chapters and heads there are now.
CurrentSnapshotFits ==
  snapshots # <<>> =>
    LET s == snapshots[Latest]
    IN /\ s.chapters = active
       /\ s.read = [u \in Written |-> head[u]]
       /\ active \subseteq Written
       => FitsRelease(s, [chapters |-> active, read |-> [u \in active |-> head[u]]])
==============================================================================
