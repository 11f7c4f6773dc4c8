# BOOK OS in TLA+

BOOK OS is a local authoring application: a desktop window (Tauri and React), a Python core that
serves HTTP on the loopback interface, one SQLite file per book and a paid model provider behind it.
This directory models the core's own logic in TLA+, checks it with TLC on small instances and
proves part of it with TLAPS.

    tlc -workers 2 -config MCAuthority.cfg MCAuthority      # any run: config, module
    tlapm AuthorityProofs.tla                               # all proofs of the engine; so
                                                            # the other *Proofs modules

`PROJECT.json` lists the components, the runs, the mutation of the code each property must notice,
the source lines every definition stands for, the findings, the hazards and the theorems.

## 1. The system

### What runs at the same time

The API handlers are plain (`def`) FastAPI functions, so each request runs on a thread of the
server's pool. Every service opens its book's SQLite file with `engine.begin()`. The driver
starts the SQLite transaction only at the first INSERT, UPDATE or DELETE, so

* a SELECT before the first change reads the last committed state **by itself**; two SELECTs of one
  call may see different states;
* from the first change to COMMIT the call holds the only write lock: that part is one atomic step;
* a service that opens several `engine.begin()` blocks has several such parts, and a crash, a
  locked database or a raised exception can end the call between any two of them.

These three facts decide the granularity of every module here. Things kept in JSON files (the Auto
Book run, profiles, routing) have no lock at all: read, change, write a temporary file, rename.

One owner uses one window, but the window's requests are not cancelled when it is reloaded, so more
than one client may be in flight for one owner too.

### Inventory

| Component | State | Operations | What makes it hard | What makes it correct |
|---|---|---|---|---|
| Authority engine (`authority.py`, `authority_store.py`) | entities, revisions, status history, proposals, decisions, approvals, heads | register, create revision, propose, accept, reject, advance status, lock | checks read before the write lock; status by timestamp, not by commit order; one call writes seven rows | authority of a document is a line: no head lost, none reinstated, each acceptance exactly once |
| Project workspace (`projects.py`) | references to entities, working revisions, chapter rows, stage | save and approve book contract, architecture, chapter contracts | several transactions per call; gates read before; a DELETE keyed by entity | built in order; the author's last draft is what is shown and approved; chapters are those of an approved architecture |
| Auto Book (`auto_book*.py`, `LaunchPlanningPanel.tsx`) | run file, its temporary file, budget counters, drive loop of the window | start, advance, stop, continue, finalize, pause after a disconnect | a state read minutes before it is written back; paid requests whose fate is unknown; one temporary name | never charges beyond the authorization; never at a step whose prerequisite is missing; the loop ends |
| Literary Master (`literary_master.py`) | locked masters, exports | readiness, lock, export, audiobook hand-off | a dozen reads before the first write | what is locked is what was approved, evaluated and reviewed |
| Editorial (`editorial.py`) | findings and their events, linked proposals | create, propose, accept, reject, ask for revision, waive | finding and authority change in separate transactions | a finding is closed with its cause; a waiver stands |
| BookBench (`bookbench.py`) | snapshots, evaluation runs | snapshot, deterministic and semantic checks | snapshots reused by hash; many reads | results are about the text they name |
| Series gates (`series_production.py`, migrations 0016, 0019) | definition packs, production contracts, overlap evidence, admissions, checkpoints, canon assets, closures | approve, check, admit, record, transition, close | statuses read in other connections, updates that do not compare; SQL triggers | no section is written without an admission or an authorized run; what a closure recorded stays true |
| Research (`research.py`) | sources, claims, evidence, verification state | create, update, add evidence, review, import | insert and recomputation in separate transactions | the state of a claim is what its active evidence or its owner says |
| Book Memory (`memory.py`) | index rows, embeddings, status | synchronize, rebuild, search | rows read before a provider call and written after it | a search answers nothing outdated and, undisturbed, everything current |
| Drafting (`drafting.py`) | bounded tasks, manuscript units | draft a section | a request of minutes between two transactions | a section belongs to the contract revision its task was let in for; every task ends |
| Context and profiles (`book_context.py`, `series_studio.py`) | one JSON registry of all profiles, the binding of the book | create, edit, approve, bind | lost updates between requests, one temporary name | a book is bound to what its owner approved; the registry stays readable |
| Planning, Model gateway, routing | planning runs, keys, a pinned model | plan, generate, pin | a request between two transactions | a run ends; a price is checked before it is paid |
| Pilot (`pilot.py`) | event log, observations | start, record, decide | check before insert | one active pilot |
| Backup and library (`backup.py`, `project_lifecycle.py`) | directories of books | backup, restore, archive, delete | moves a directory others have open | nothing is lost half way |
| Desktop host (`main.rs`) | child process, port, error | start, probe, call, stop | probe and exit race | no call to a dead core |

Interactions. Projects, drafting, editorial and finalization change documents **only through the
authority engine**, so what the engine promises is used by every other component. Auto Book calls
projects, drafting, editorial diagnostics, BookBench, the series gates and the Literary Master in
one request. The Literary Master reads what all of them left in the database. A trigger asks the series
gates before any drafting task is stored. A closure needs the series the book is bound to, which the registry of
profiles resolves. Book Memory copies claims and documents, and asks them again before it answers. The
window calls Auto Book in a loop.

The hazards, each at its line with the properties that look for it, are in `PROJECT.json`.

## 2. Modules

    AuthorityLine      what the engine promises a reader
      ^ implements (refinement, checked and proved)
    Authority          the engine, statement by statement
      ^ used through what it promises
    Projects           the contract workspace of one book
      ^ its documents as three-valued states
    AutoBook           runs, budget, state file, finalization, window

    AuthorityLine
      ^ implements (proved)
    Editorial          findings, corrections and decisions on manuscript units
      ^ extended by
    Release            snapshots, runs, claims, review and the lock of a Literary Master

    Writing            the series gates, their trigger, and the drafting of a section

    Profiles           the registry file of profiles and what a book is bound to
      ^ extended by
    Canon              the asset ledger of a series and the closure of a book in it

    Research           claims, evidence, sources
      ^ extended by
    Memory             the search index over claims and documents, and its vectors

    AuthorityProofs    theorems about Authority
    ProjectsProofs     theorems about Projects
    AutoBookProofs     theorems about AutoBook
    EditorialProofs    theorems about Editorial
    ReleaseProofs      theorems about Release, on those of Editorial
    WritingProofs      theorems about Writing
    CanonProofs        theorems about Profiles and Canon together
    KnowledgeProofs    theorems about Research and Memory together
    MC*                instances for TLC

A module is composed with the one under it by its promise where the text would only multiply states:
Projects takes from the engine that a head moves by compare-and-set to a fresh revision (that is
`AuthorityLine`, proved for `Authority`), AutoBook takes from Projects that documents are saved, approved
and never unapproved (`ApprovalsStand`, `BuiltInOrder`), and Writing, Research and Memory take a document's head to
be the number of its acceptances. Editorial, where corrections meet the engine most closely, is proved to keep the line
of `AuthorityLine` itself. Where two components read each other's rows while both change, the modules are
joined: Release is Editorial with the evaluation and the lock running beside it, Memory is Research with the index beside
it, Canon is Profiles with the ledger beside it; a client of such a module has one call in flight, whichever it is.

### Authority and AuthorityLine

State: the tables of migration 0002, row for row. `revisions` and `proposals` are sequences (the
position is the identifier, triggers forbid changes and deletes), `history` the status events,
`decisions` and `approvals` sets, `head` a function. SHA-256 of a payload is the payload: two
payloads have the same hash if and only if they are equal. `op` is what each client's call has read.

Actions: `RegisterEntity`, `CreateRevision` and `CreateProposal` read only rows that cannot change,
so they are one step each. `accept_proposal` is `AcceptReadProposal`, `AcceptReadHead`,
`AcceptWrite`: it reads the proposal (line 266) and the head (278) before its first INSERT (315);
the UPDATE with the compare-and-set on the head (348) decides, and a failed one rolls everything
back (`Abort`). `reject_proposal` is `RejectReadProposal` and `RejectWrite`; `advance_revision_status`
and `lock_authority` read a status and append an event. The call's timestamp is captured at its start
(`at`), so events of different calls can be stored in another order than their times. `Crash` and
`Abort` end calls anywhere.

`AuthorityLine` has two variables: the current revision of each entity and the retired ones.
`Establish` and `Replace` are its only steps. `Authority` implements it with `current <- head` and
`retired <-` the baselines of the approvals.

### Projects

State: `revisions` (with the draft they were made from), `ref` (the entity column of `projects` or
`chapters`), `head`, `approved`, `working` (table `working_revisions`), `chapters` and `stage`; `saved`
and `overlapped` are history. A save is `SaveBegin` and then either `SaveRegister`, `SaveSetRef` or
`SaveCreate`, `SaveSetWorking`; an approval is `ApproveBegin` (the gates), `ApproveReadRef`,
`ApproveReadHead`, `ApproveReadWorking`, `Accept`, `ClearWorking`, for an architecture `ViewHead` and
`ViewWorking` (`_document_view` after the acceptance), and `Finish...`: one step per statement that
commits by itself or is a read of its own. The engine's `accept_proposal` is one step, `Accept`, with
the compare-and-set as its guard.

### AutoBook

State: `file` and `temp` (`auto-book-run.json` and `.tmp`), the documents of the book in three states,
`tasks` (rows of `bounded_tasks`), `units`, `masters`, the request of each client `op`, and `drive`, the
windows that send the next advance when one is answered RUNNING. `sent` (paid requests, counted at the
provider) and `clean` are history.

One `advance` reads the file (`Advance...`), may ask the model (`Answer`, `AnswerRefused`,
`Disconnect`), changes the book (`ProposeContract` to `LockMaster`; `Store...` and `Accept...` are what they change),
and writes the **copy it read**
back in two steps, `WriteTemp` and `Publish`, or `PublishLost` when another request has renamed the
temporary file away. `Write(c, st, then)` names what the handler does after the write: answer, raise,
finalize, or `Pause` (the transport failure's own read and write). `Proceed` is the part of
`auto_book_api.py` that reopens a DONE run to finalize it. A step can raise before it changes anything (`Fail`; `AdvanceExhausted`
where no request was made) or after the document or text is stored (`FailStored`: the rows that follow, the record of the
model's run, reading the project again). Costs are integers of the last place that `round(..., 6)` keeps. The series gate, the editorial diagnostics and
the review are steps that may refuse: their own logic is in Editorial and Release or left to later modules.

### Editorial

State: `head` and `approvals` (what each approval replaced), `findings`, `proposals`, `links` (table
`editorial_finding_proposals`), `waivers` (decisions of kind WAIVE) and the calls in flight `op`;
`closings` of a finding are the RESOLVED and WAIVED rows of its state history. Drafting and the final
edit of Auto Book appear as `WriteUnit` and `EditUnit`.

`create_finding` is `FindingRead`, `FindingInsert`. `create_manuscript_proposal` is `ProposeRead` (status),
`ProposeTarget` (head), `ProposeInsert` (the engine's transaction), `ProposeLink` (its own). `accept` is
`AcceptRead` (staleness), `AcceptOpen` (the engine's status check), `AcceptWrite` (its transaction, with the
compare-and-set as `BaselineIsHead`), then `CloseRead` and `CloseWrite`: `_transition_finding` reads the prior status
before its first change. `waive` is `WaiveRead`, `WaiveList`, `WaiveWrite` and the same closing; `reject` and
`request_revision` have a read and a write. `Abort` ends a call anywhere (a raised error, a locked
database), `Crash` ends all.

### Release

State: `active` (chapters not superseded), `claims` (a version and the `updated_at` it carries),
`snapshots`, `runs`, `review`, `masters` and the calls of evaluation and release `job`. A unit stands for a
chapter with its contract and its text. What a master leaves on record beside its manifest (`current`, `missed`) and
`raced` are history. `create_snapshot` is `SnapRows`, `SnapHead` per unit, `SnapLookup`, `SnapInsert`;
`create_master` is `LockChapters`, `LockHead` per unit, `LockFindings`, `LockSnapshot`, `LockClaims`,
`LockChecks`, `LockBlocking` and `LockInsert` (its transaction, with the trigger of migration 0016 that asks for the
review). The row reads of `_current_targets` are one step: what later matters of them is which units exist.
A claim is changed in two steps because its timestamp is taken before its write. `Replan` stands for an
approved architecture that drops chapters or takes them back.

### Writing

State: the heads of the architecture and of each chapter's contract, the revisions that an authorized Auto Book run
accepted (`byOwnerRun`), the chapters listed, whether the book is in a series; `packs`, `prods`, `ledger` and `admissions`,
the append-only tables of migration 0016 in the order of their rows; `audited`, the last MID_BOOK checkpoint; `tasks`
and `units` of drafting. `abandoned` is history: tasks whose call ended without recording it.

Each gate call reads the heads and then one row after another, and inserts its own at the end, with nothing locked
before: `CreateProdBegin`/`Write`, `ApproveProdBegin`/`Write`, `OverlapBegin`/`Write`, and `admit_chapter` as `AdmitBegin`,
`AdmitReadProd`, `AdmitReadOverlap`, `AdmitWrite`. `WritingAllowed` is `admission_status`, `GateOpen` the WHEN clause of
the trigger `require_current_writing_admission`, both read "latest row" as the code does (`LatestOf`). A draft is `DraftBegin` (Auto
Book asks `WritingAllowed` first), `DraftRead`, `DraftStart` (the INSERT that the trigger guards), `Answer`,
`DraftCheck` (the head read again), `DraftStore` or `DraftFail`. `Abort` ends a call where it raises: past its
INSERT a draft goes through `_persist_failure`, which may itself fail. `_heads` reads two heads in two statements; the
model reads them at once, since a torn pair names an old architecture and is bound to nothing.

### Profiles and Canon

State of Profiles: `file` and `temp`, the registry and its one temporary name (a readable text, `Truncated`, `Torn`, or
`Absent`), `bound`, the contents the book is bound to, and the call of each client `work`, with the copy it read and what its open
file descriptor refers to by now (`fd`). A change is a check, `Load` (the registry read again and changed), `Open`
(truncate), `Write`, `Replace` (rename): a rename takes away the name under the others' descriptors, and their text goes into
the registry itself. `create_with_ai` is `StudioBegin`, `StudioAnswer` and the same write. `save_context` is `BindBegin`,
`BindDerived`, `Bind`; it stores hashes, and `Resolved` finds a revision by them. The author of a series or style is part of
its content (`AuthorOf[content]`, an author, none, or an id that is no author's), so every edit may name another;
`ApproveBegin` and `ApproveAuthor` look at the author of the content read first, and `Load` approves the revision that is
current when the registry is read again. A text written over a longer one leaves the end of that one behind (`Put`). `Raise` is every refusal, `Crash` keeps what
the two files hold.

Canon adds `canon` (statuses of the assets), `closures` and the calls `deed`. `transition_canon_asset` is `TransitionRead`
(the table `Allowed`) and `TransitionWrite`, whose UPDATE compares nothing but passes the trigger on accepted assets
(`Changeable`). `InSeries` is what a closure asks of `get_context`: the book is bound and every hash it is bound to
resolves. `close_series_book` is `CloseBegin`, `CloseNext` with `TransitionWrite` per asset, and `CloseInsert`, each in a
transaction of its own; `CanonEnds` is a refusal or an exit anywhere. `overwrote` is history: assets written over a status
that the call had not read.

### Research and Memory

State of Research: `claims` (unit revision, number of changes, state), `logged` (the last event of a claim's history),
`access` of each source, the ACTIVE rows of `evidence`, the calls `op`. `add_evidence` is `AddEvidence` (its transaction),
`RecalcReadClaim`, `RecalcReadEvidence` and `RecalcWrite` (an UPDATE that compares nothing); `review_claim` and `update_claim`
have a read and a write; `mark_source_access` and the import are their own steps. `verdict`, `unsettled` and
`overlapped` are history: what the owner said last, and for which claims a state was written from reads no longer true.

Memory adds whether the unit is one of the documents (`listed`; `ListUnit` is an accepted architecture that drops its chapter or
lists it again), the rows of `memory_documents` (`index`, those CURRENT in `current`), `vectors`, `status` (EMPTY when there
is no document) and the calls `job`.
`synchronize` is `SyncBegin` (claims), `SyncReadHeads`, `SyncReadPrior`, `SyncWrite`; a search goes on with `SearchReady`
(semantic only), `SearchSelect`, `SearchRecheck` (`_row_is_current` of each row); a rebuild with `RebuildRead`, the provider,
`RebuildStore` or `RebuildFail` (the rows cannot be read, the provider or the INSERT refuses). What a document says is its revision or its change number; the query matches all.

## 3. Runs

| Run | Instance | States | Shows |
|---|---|---|---|
| `authority` | 1 entity, 2 payloads, 2 clients, 3 revisions, 2 proposals, 4 ticks | 502,558 | `TypeOK`, `LinearAuthority`, `AcceptedExactlyOnce`, `HeadIsLive`, `NoLostUpdate`, `ImplementsLine` |
| `projects` | 2 chapters, 2 clients, 10 revisions, 5 calls (3 from a planned or replanned book) | 776,878 | `TypeOK`, `BuiltInOrder`, `NoDraftReinstated`, `SavedDraftIsShown`, `CurrentChaptersApproved`, `ApprovalsStand` |
| `autobook` | 2 windows, 2 chapters, 2 requests, cost 3 of 2 each, 2 runs, 1 unit per chapter | 7,107,443 | `TypeOK`, `WithinAuthorization`, `PhaseJustified`, `CompletedIsMastered` |
| `autobook_owner` | 1 window, 2 chapters, 5 requests, cost 9 of 2 each, 2 runs, 2 units, 1 crash | 607,106 | `PaidIsCharged`, `ProgressIsKept`, `DriveEnds` |
| `autobook_paid` | 1 window, last chapter to write | violated | `PaidWithinLimit`: refused edits are paid and not charged |
| `autobook_export` | 1 window, 1 chapter, 2 runs | violated | `ExportIsReady`: a failed drafting task counts as a draft |
| `release` | 2 units, 2 editors, 2 officers, 5 revisions, 2 findings, 2 proposals, 6 calls, 2 snapshots, 1 master, 4 jobs | 2,333,370 | `TypeOK`, `AppliedAsDiagnosed`, `ClosedForCause`, `ClosedOnce`, `NothingAcceptReady`, `MasterIsEvaluated`, `NoFindingIgnored`, `QuietMasterIsCurrent` |
| `release_dropped` | the same, 1 editor, 1 officer | violated | `CurrentSnapshotFits`: text of a dropped chapter stays in every snapshot |
| `writing` | 1 chapter, 1 caller of the gates, 1 of drafting, 3 acceptances in all, 2 packs, 1 production contract, 2 overlap checks, 2 admissions, 1 task | 1,576,688 | `TypeOK`, `WrittenAsAdmitted`, `AdmittedOnEvidence`, `TasksEnd` |
| `series` | 2 clients, an author and a series, 2 contents (1 of that author, 1 naming an id that is no author's), 1 asset, 2 masters | 442,224 | `SeriesTypeOK`, `ReadableAfterExit`, `BoundWasApproved`, `ClosureStands`, `HistoryKept` |
| `profiles_ready` | 1 client, an author and a series | violated | `BoundIsReady`: a bound hash is resolved to an unapproved revision |
| `knowledge` | 2 clients, 1 claim, 1 source, 2 revisions of the unit, 2 changes of the claim (1 with memory) | 2,954,141 | `MemoryTypeOK`, `ClaimAsDecided`, `NothingOutdated`, `QuietSearchIsComplete` |

**Why the bounds are enough.** *authority*: the conflicts are between two calls on one head; two
clients and two open proposals give every pair (accept and accept of one or of two proposals, accept
and reject, accept and lock), and three revisions allow the second acceptance that a lost update needs.
Entities share no row, so one suffices. Two payloads let a revision equal an earlier one in content
and not in identity. *projects*: five calls from an empty project, or three after the four calls that `InitPlanned`
stands for (an architecture approved) or the seven of `InitReplanned` (approved, and replaced by one that drops a chapter with a
contract drafted): an architecture is approved, changed and approved again, a chapter dropped and listed again, and
each of these approvals interrupted. *autobook*: the
start from a book whose last chapter is unwritten puts two windows in the middle of drafting, finalization
and locking within two requests; cost 3 with 2 per request makes the last request smaller than the
others, which is where the cap matters. *autobook_owner*: five requests are exactly the ones one pass over
two chapters needs before finalization, so the budget can end at any phase; a
second run resumes from every place the first can be left at.

*release*: the initial states `InitEditing` (six editorial calls from nothing: two units written, a finding, two
proposals on one revision, two decisions racing) and `InitWritten` (units written and edited, perhaps one not, with
three editorial calls beside a snapshot and a lock, or one beside four calls of the release, so that a second
snapshot, a claim change or a new architecture falls between evaluation and lock). Two units let the gate's reads be torn
apart; one master suffices, as every property speaks of each master by itself. One check stands for the seven: the
gate only asks that each has run.

*writing*: gates are about one chapter each and read rows of that chapter, so one suffices; one caller of the gates races with
acceptances, approvals, the checkpoint and the drafting call, which need no second client, and two admissions, two
packs and two checks let the later row differ from the one an admission was made under. Three acceptances are the first
ones of both documents and one more, which makes an admission stale at any point. `HalfBook` is 1 so that the MID_BOOK
gate bites after the first section. *series*: the damage two calls do to a file needs two; the
initial states `InitClosed` (no profile yet, the ledger closed) and `InitBound` (profiles in their last revision, bound) keep the
product of the two halves small. A transition and a closure of one asset race in every order; closures of several assets do
each asset by itself. *knowledge*: `InitKnowledge` begins in one of
three ways: without memory, where the calls of Research race on one claim (evidence on other claims is not read); with it, where
two memory calls race with each other, one edit of the claim and one acceptance (a slower synchronization that puts a version
back needs exactly these); or with it while the unit is accepted, leaves the documents and comes back. An edit of the claim
and a unit that leaves are not combined in one behaviour here; the theorems of section 5 are about `KnowledgeSpec`, where they are.
The second content of *series* names an id that is no author's, so that an approval given after the author of the first content
was looked at can fall on it.

**Bounds in the guards.** `MaxRevisions`, `MaxProposals`, `MaxClock` (Authority); `MaxRevisions`,
`MaxCalls` (Projects); `MaxRevisions`, `MaxFindings`, `MaxProposals`, `MaxCalls` (Editorial);
`MaxSnapshots`, `MaxMasters`, `MaxJobs`, `MaxClock` (Release); `MaxRuns`, `MaxUnits`, `MaxCrashes` (AutoBook); `MaxAccepted`, `MaxPacks`, `MaxProds`,
`MaxChecks`, `MaxAdmissions`, `MaxTasks` (Writing); `MaxRevisions` of each profile (Profiles); `MaxHead`, `MaxChanges` (Research),
`MemoryChanges` (the instance of Memory). They limit how much happens and no property's precondition. `MaxRequests`, `MaxTotalCost` and `MaxRequestCost` are the program's own
limits. Deadlock checking is off in all runs: with its bounds used up and no call in flight a model rests, as
the program does when nobody sends a request.

**Fairness.** `FairSpec` of AutoBook has weak fairness of `Handle(c)` for each window. A request
the core has accepted is served by its thread, a request to the provider ends (answered, refused, or cut
off by the client's timeout), and a driving window sends the next advance as soon as the last is answered
(`LaunchPlanningPanel.tsx`, the loop at line 180; its cap of 250 steps is not in the model,
so `DriveEnds` shows that the loop ends without it). Nothing is assumed of the owner (`StartRead`,
`StartWrite`, `Stop`, `Continue` are unfair) or of the outcome of any request. `Spec` of Writing has weak fairness of
`Serve(c)` for the callers of drafting and no others: a drafting call begun is executed by its thread to its end,
whatever the provider answers, unless the core exits (`Crash`, unfair). Nobody is assumed to send a request or to approve
anything. No other module states fairness.

**Symmetry** is used for entities' clients, payloads and chapters where they are only compared for equality,
and in no run with a liveness property.

## 4. Findings

Shown by a run:

* *Auto Book can pay for more requests than authorized* (`autobook_paid`). A refused answer in the final
  edit is not charged, and the run stays RUNNING.
* *A chapter whose drafting failed counts as drafted* (`autobook_export`). The next run goes to EXPORT
  without its text.
* *A book that dropped a chapter with text can never be released* (`release_dropped`). The snapshot takes the units of
  all chapters, the gate expects those of active ones.
* *A bound profile can be resolved to a revision nobody approved* (`profiles_ready`). A hash names a content, and the
  first revision with it is taken.

Met while modelling, without a run of their own; `PROJECT.json` quotes the lines. The models contain these behaviours,
and the properties are stated so that they say what does hold:

* a proposal can be accepted and rejected (`authority.py:420`): neither call checks the row count of its UPDATE;
* a draft saved during an approval is dropped by it (`projects.py:729`): the DELETE is keyed by entity;
* after an architecture was accepted and its approval interrupted, the contract of a chapter that only this one lists can
  be approved beside the chapters of the architecture before (`projects.py:525`), so the current chapters are those of
  no approved architecture: `CurrentChaptersApproved` says what they are instead;
* a master can hold a revision superseded before it was locked (`literary_master.py:564`): hence `QuietMasterIsCurrent`;
* drafting by hand is not stopped by overlap evidence recorded BLOCKING after an admission, or by the MID_BOOK
  audit (`drafting.py:204`): the trigger looks at neither. `AdmittedOnEvidence` says what it does guarantee;
* a claim can be SUPPORTED with active contradicting evidence after two calls overlapped (`research.py:746`), and stays
  as it was when the access to its source is marked anew (`research.py:618`): hence `unsettled` in `ClaimAsDecided`;
* an index can be SEMANTIC_READY with vectors missing (`memory.py:598`), after a rebuild beside a change and also after a
  slower synchronization that saw no change: hence `patchy` in `QuietSearchIsComplete`;
* a series or style can be approved although nobody approved the author it names (`book_context.py:402`): `approve_profile`
  looks at the author of the content it reads first and approves the revision that is current later. "Approved only after its
  author" is therefore no property here; `BoundWasApproved` says what `save_context` does guarantee, that a book is bound to
  approved contents and to a series or style only together with the author its content names.

Properties that hold only while calls do not overlap say so in their own text (`~overlapped`, `~raced`, `fresh`,
`overwrote`, `unsettled`, `patchy`): with overlap a waiver can leave a proposal that is linked meanwhile, two decisions can close one finding
twice, a profile can be lost or the registry become unreadable, and a released asset can be taken back. What must hold under
any interleaving is stated without it: `AppliedAsDiagnosed`, `ClosedForCause`, `MasterIsEvaluated`, `NoFindingIgnored`,
`WrittenAsAdmitted`, `AdmittedOnEvidence`, `BoundWasApproved`, `NothingOutdated`, and of `ClosureStands` the half about used
assets.

What these conditions leave out, so that nobody reads more into a property than it says:

* `ClosedOnce`, `NothingAcceptReady`, `ApprovalsStand`, `HistoryKept` and `ReadableAfterExit` say nothing once two calls
  overlapped; they are about calls cut short and about long sequences of calls. `SavedDraftIsShown` and `CurrentChaptersApproved`
  likewise do not speak of the DELETE that meets a draft saved meanwhile.
* `ClaimAsDecided` excludes claims whose recalculation was cut short or overlapped; `QuietMasterIsCurrent` locks that raced.
* `PaidIsCharged` excludes a run after a refused or lost answer, which is the case that `autobook_paid` shows.
* The run `autobook` has two windows and no exits, and `autobook_owner` one window and exits; that
  `WithinAuthorization`, `PhaseJustified` and `CompletedIsMastered` survive exits with several windows is the theorems' part.
* `write_text` of the Auto Book state is one step: a torn text of `auto-book-run.json` is not modelled (one of the
  registry of profiles is).
* In Authority a proposal is OPEN, ACCEPTED or REJECTED and a decision ACCEPT or REJECT; proposals that a newer acceptance
  supersedes, WAIVE and requests for revision are Editorial's, where the code sets them.
* A document leaves the index only with its chapter; that a text edited to nothing leaves it too is not modelled.

## 5. Proofs

Every safety invariant and every action property that a passing run checks is a theorem too; the run shows it on a small
instance, the theorem for every value of the constants that satisfies the assumptions named below. TLC evaluates all of
these assumptions, except the hypothesis `OneWindow` of two theorems, which is in their statements. Each
inductive invariant was checked by TLC on the instance of its run before it was proved.

### Authority, Editorial, Release

`AuthorityProofs.tla`, for any entities, payloads and clients and any natural bounds (`BoundsAssumption`):

| Theorem | States |
|---|---|
| `TypeCorrect` | `Spec => []TypeOK` |
| `AuthorityIsLinear` | `Spec => []LinearAuthority` |
| `NoUpdateIsLost` | `Spec => NoLostUpdate` |
| `EngineImplementsLine` | `Spec => ImplementsLine`, the refinement of `AuthorityLine` |
| `ProposalsAreAcceptedOnce` | `Spec => []AcceptedExactlyOnce` |
| `HeadsAreLive` | `Spec => []HeadIsLive` |

The inductive invariant is `LineInv == TypeInv /\ RowsAgree /\ ApprovalsClimb /\ LinearAuthority`.
`LinearAuthority` alone is not inductive: from a state where a head is lower than a revision already
approved over it, an acceptance would fork the line. `RowsAgree` says that the head of an entity and the base of a
proposal are rows of that entity, and `ApprovalsClimb` that each approval moved one entity from its baseline up to
a newer revision that is not above the head. With these the compare-and-set of `AcceptWrite` is
enough: the baseline it replaces is the head, every approved baseline is below its head and so no approval has
superseded this one, and the revision it installs is fresh. `TypeInv` is `TypeOK` with `OpRefs`: a proposal or a
revision that a call read earlier still exists when the call writes about it. The action property and the refinement follow
from the invariant and one step.

`AcceptInv` adds what `AcceptedExactlyOnce` rests on: an approval carries the content, entity and base of its proposal and
has one ACCEPT decision (a decision set that is a singleton, which is where the cardinality comes from), and an ACCEPT
decision or status comes with an approval. A second acceptance of a proposal fails the compare-and-set, because the first one
has moved the head off its base. `HeadInv` adds that a SUPERSEDED event names the baseline of an approval, hence a revision
strictly below the head: whatever event is the latest by its time, it cannot be SUPERSEDED for the head. That there is a
latest event (lemma `LatestEvent`) needs the least element of a set of numbers, taken from the well-foundedness of `<`.

`EditorialProofs.tla` and `ReleaseProofs.tla`, for any units, clients, officers, checks and natural bounds
(`BoundsAssumption`, `ReleaseBoundsAssumption`) where there is a unit (`UnitAssumption`: an idle call names one):

| Theorem | States |
|---|---|
| `EditorialTypeCorrect` | `EditorialSpec => []EditorialTypeOK` |
| `CorrectionsApplyAsDiagnosed` | `EditorialSpec => []AppliedAsDiagnosed` |
| `FindingsCloseForCause` | `EditorialSpec => []ClosedForCause` |
| `FindingsCloseOnce` | `EditorialSpec => []ClosedOnce` |
| `ClosedFindingsChangeNothing` | `EditorialSpec => []NothingAcceptReady` |
| `UnitsKeepTheLine` | `EditorialSpec => Line!Spec`: Editorial implements `AuthorityLine` |
| `ReleaseRunsEditorial` | `Spec => EditorialSpec`: Release implements Editorial |
| `ReleaseTypeCorrect` | `Spec => []TypeOK` (Release) |
| `LockedIsEvaluated` | `Spec => []MasterIsEvaluated` |
| `OpenFindingBlocks` | `Spec => []NoFindingIgnored` |
| `QuietMastersAreCurrent` | `Spec => []QuietMasterIsCurrent` |
| `CorrectionsHoldInRelease` | `Spec =>` the four of Editorial; `ReleaseKeepsTheLine` the refinement |

For Editorial the inductive invariant `EditInv` adds to the types what ties rows together: no current head was ever
replaced, no two units share one, no revision is replaced twice (`TextInv`); a linked proposal has its finding's unit and base,
an approval replaced what its proposal was based on (`AgreeInv`); a closed finding has its cause (`CauseInv`); and
each call still knows what it wrote in an earlier transaction (`Facts`): when it closes a finding, the correction or
the waiver is on record. Tables only grow and rows keep unit and base (`Grows`), so a call nobody touched
stays right whatever the others do; that is the whole of the concurrency argument, and it covers calls cut short
because an idle call knows nothing.

`UnitsKeepTheLine` maps `retired` to what corrections and edits were **made for** (the base of an approval's proposal), not to
what the approval happened to replace: it holds because acceptance compares the two, and TLC refutes it when the comparison
is dropped. So Editorial uses the engine no other way than `AuthorityLine` allows.

`CallsInv` is for calls that come one at a time: while `~overlapped` at most one is in flight (`Alone`), a finding that is not
open was closed once, from OPEN, and has no proposal left to accept (`ClosedFacts`), and what the one call has read is
still so (`CallFacts`): before it closes its finding, its deciding transaction has left nothing to accept for it. After a
call cut short between the two the finding stays OPEN with an accepted correction; its other proposals are stale because
the head has moved, so closing it later leaves nothing to accept either.

For Release, every step is an editorial step, leaves the editorial tables alone, or ends all calls, which
gives the refinement; the invariant `ReleaseInv` then says of a call at the gate what its earlier reads established
and later steps cannot undo (`Established`): approvals are never withdrawn, a closed finding is not
reopened, snapshots and runs are only added. `RangeInv` has what `TypeOK` needs: versions of claims and the clock are bounded
by the calls begun, which takes counting the calls about to write one (`Cardinality(Writers)`). What other calls **can** undo,
the currency of what was read, is what `QuietMasterIsCurrent` restricts to calls that do not run into each other:
`QuietReleaseInv` says that then one call is in flight in the two modules together and what it has read is current
(`QuietJob`), and that claims carry times no later than the snapshots that hold them (`ClaimsDated`), so that the
comparison of times in the gate is one of versions.

### Projects and Auto Book

`ProjectsProofs.tla`, for any chapters, clients and natural bounds (`BoundsAssumption`; `ChapterAssumption`: a chapter is not one
of the two documents of the project):

| Theorem | States |
|---|---|
| `WorkspaceIsTyped` | `Spec => []TypeOK` (Projects) |
| `AuthorityIsBuiltInOrder` | `Spec => []BuiltInOrder` |
| `NoOlderDraftComesBack` | `Spec => []NoDraftReinstated` |
| `TheLastDraftIsShown` | `Spec => []SavedDraftIsShown` |
| `ChaptersComeFromAnArchitecture` | `Spec => []CurrentChaptersApproved` |
| `ApprovalsAreKept` | `Spec => []ApprovalsStand` |

The invariant has four layers, each proved on the ones before. `TypeInv`: an entity is named by its first revision, a draft is
its own source, and heads, references and calls name rows of their own document. `OrderInv`: what a call's gates read is
never taken back, since approvals are only added (`Gated`), so gates read before the acceptance are as good as gates
read in it. `DraftInv`: a draft waits in one place at a time; one that a save has stored and not yet pointed at
(`Pending`) is neither shown nor approved, and an approved one (`Spent`) is still pointed at only while it is the source of the head.
An approval that read an older draft then fails the compare-and-set or approves what is already there. `AloneInv`, while
requests come one at a time: a call finds the workspace as it left it (`Undisturbed`), every document shows its last saved
draft, every approved row belongs to the entity its reference names, and an approved architecture is carried out by
the chapter rows. `Carried` is where the proof failed first: the architecture carried out need not be the current one, and
beside its chapters there can be one approved through a later architecture that was accepted and interrupted (section 4).

`AutoBookProofs.tla`, for any windows, chapters, authorized limits and natural bounds (`LimitsAssumption`):

| Theorem | States |
|---|---|
| `AutoBookTypeCorrect` | `Spec => []TypeOK` (AutoBook) |
| `AuthorizationHolds` | `Spec => []WithinAuthorization` |
| `PhasesAreJustified` | `Spec => []PhaseJustified` |
| `CompletedRunsAreMastered` | `Spec => []CompletedIsMastered` |
| `PaymentsAreCharged` | `ASSUME OneWindow PROVE Spec => []PaidIsCharged` |
| `ProgressIsNeverLost` | `ASSUME OneWindow PROVE Spec => ProgressIsKept` |

A run exists in many copies: in the file, in the temporary file and in every request. Any request may publish the copy it
read, over whatever was written since, so a property of the file alone is not inductive. `AutoInv` says of **every** copy that
it is `Good`: within its limits, at a phase whose prerequisites the book has, mastered if it says final. Copies stay good while
other requests change the book because the book only goes forward (`Grows`: documents are not unapproved, tasks, units and
masters are only added). A request with an answer to charge had room for it in the copy it will write (`HasCap`): this is why
the limits hold although nothing is locked, and why nothing follows for requests that are paid and not charged
(`autobook_paid`).

The last two theorems are about one window, as their properties are: two windows do lose charges and progress. `OneWindow`
says that `Client` has one element, as in the run `autobook_owner`. Then the copy of the one request in flight is
never behind the file (`NotBefore`), it lacks at most the charge of the model request in hand (`Paid`, `Owed`), and the
chapters below the one it is at are all written (`Below`), so that the next pending chapter is never an earlier one;
`WindowInv` says so at every place of a request, the pause after a disconnect included.

### Series, writing, knowledge

`WritingProofs.tla`, `CanonProofs.tla` and `KnowledgeProofs.tla`, for any chapters, callers, profiles, contents, assets, masters,
claims, sources and bounds:

| Theorem | States |
|---|---|
| `WritingTypeCorrect` | `Spec => []TypeOK` (Writing) |
| `SectionsAreWrittenAsAdmitted` | `Spec => []WrittenAsAdmitted` |
| `GatesRestOnEvidence` | `Spec => []AdmittedOnEvidence` |
| `SeriesTypeCorrect` | `SeriesSpec => []SeriesTypeOK` |
| `BindingsWereApproved` | `SeriesSpec => []BoundWasApproved` |
| `RegistryIsReadable` | `SeriesSpec => []ReadableAfterExit` |
| `RevisionsAreKept` | `SeriesSpec => HistoryKept` |
| `ClosuresStand` | `SeriesSpec => []ClosureStands` |
| `KnowledgeTypeCorrect` | `KnowledgeSpec => []MemoryTypeOK` |
| `ClaimsStandAsDecided` | `KnowledgeSpec => []ClaimAsDecided` |
| `SearchesAnswerNothingOutdated` | `KnowledgeSpec => []NothingOutdated` |
| `QuietSearchesFindEverything` | `KnowledgeSpec => []QuietSearchIsComplete` |

They assume `WritingAssumption` (bounds), `ProfilesAssumption` (a content names an author, none, or another id; "none" is no content; a profile may have a revision),
`FileAssumption` (text that is no JSON, or no file, is not a registry), `ResearchAssumption` and `MemoryAssumption`
(bounds; a claim is not the unit).

*Writing*. Neither gate compares all it rests on, so the properties are not inductive: `WritingInv` adds that an admission
agrees with its production contract, which was approved, and with overlap evidence that passed, at the revisions it names
(`AdmissionsInv`); that heads are at least what rows name (`TablesInv`); and that a call knows
of each read it made what later steps cannot undo (`OpsInv`): rows are only added, an approved row stays approved, heads only
grow (`Grows`). When the heads equal the revisions of an admission, the production contract they were compared with at the
time is still bound to them, although nothing compares it again. The task's revision equals the trigger's because it is
compared after the request with a head that only grows.

*Profiles and Canon*. `RegistryInv` has three parts. `CallsInv`, with the types: what each call is at work on. `ApprovedInv`: in
**every** text of the registry, in the file, in the temporary file and in each call's copy, a revision that says APPROVED was
approved (`Vouched`), so a call that writes an old copy back, or renames another's file away, brings nothing into the file that was not;
and a call that will bind has read such contents, the second one naming the author of the first or none. It ends with
`BoundWasApproved` itself, because a binding lasts: what it says of the bound contents is the property, and no later
edit or approval changes a content. `AloneInv`, while `~overlapped`: the file is readable, one call at most is writing,
its copy keeps all the file has (`Keeps`), and the temporary file it renames is its own and complete. A profile being created is
at work in one call only (`CreatesAlone`), which is what keeps a creation from starting a profile's history anew.

`CanonInv` says of a closure in progress that every asset it is done with has its status unless `overwrote` names
it. USED_ACCEPTED needs no exception: the trigger protects it, and the table of transitions leads nowhere from it or from
RELEASED, so only a call that read before can write over RELEASED.

*Knowledge*. `KnowledgeInv` says that what a call began with is behind the documents current now (`Behind`): versions of claims and the
head only grow (`Moves`). The check at the end intersects with the current documents, so what is answered was current then;
an answer in flight stays not older than its beginning, which no later step changes. `DecidedInv` adds to `ClaimAsDecided` that
the owner's last word is the state of the claim, and of each call what its reads are worth (`Knows`): a call that is
`fresh` has read the state the claim still has, and a state about to be written is the one the evidence gives now.
`QuietInv` says of a call nothing changed under (`Knowing`) that its documents are the current ones at each of its places. Documents may leave and come
back, so a set of documents can be current twice and a slower synchronization can put an old row back into `current` without
changing any. `VectorsInv` is what survives this: while the status says SEMANTIC_READY and the index is not `patchy`, every
current row has a vector. A synchronization that changes a row takes the status away; one that changes none keeps
`current` as it is when nothing changed under it, and makes the index `patchy` otherwise.

**Only model-checked.** `DriveEnds` and `TasksEnd`: liveness under fairness is out of this prover's reach, as is ENABLED.
The properties of the runs that expect a violation are refuted, not proved. Nothing here needs a fact by induction over data.

## 6. Not modelled

* **Planning, model gateway, routing.** A planning run is the transactions of drafting without a gate (Writing), and what
  it saves goes through Projects. The gateway keeps no state but keys and a pinned model; its outcomes are those of
  `Answer` in AutoBook and Writing.
* **Pilot, lexicon, style preview, blind comparison.** Logs and small stores that nothing else reads before it decides.
* **Backup and library.** They move and delete directories; what happens then to connections that others hold open is the
  operating system's, and nothing in `src/` says what is expected.
* **Desktop host, HTTP API, storage.** What matters of them is in the granularity of every module: handlers run
  concurrently, a transaction takes the lock at its first change, the process may end between two statements.
* **Of the modelled components**: exports of a master; the diagnostics' rules; BookBench's metrics, fingerprints, judges and
  datasets; the adversarial review (a read); the contents of packs and contracts and their quality checks; reference texts
  and the calibration of styles; ranking, scores and searches of scope HISTORY; prompts, wording and layout.
* **Throughout**: canonical JSON and hashing are abstracted to equality; `create_project` and migrations give the
  initial states; reads that change nothing are left out; SQLite's own durability is assumed (a commit is
  atomic and lasts).

## 7. Plan

1. **Work**: planning runs and the gateway's cost guard as a module beside Writing. Property: nothing stays RUNNING without
   a request.
2. **Library**, **Host**, **Pilot**: moves of book directories, start and stop of the core, the pilot's log.
3. **Refinements**: an abstract specification of the release (a master is a consistent cut of approved text) and one of the
   index (a set that follows the current documents), which Release and Memory implement while calls do not overlap; Projects
   with the base of each approval on record, as an implementation of `AuthorityLine`.
