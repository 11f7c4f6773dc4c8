------------------------------- MODULE AutoBook -------------------------------
(***************************************************************************)
(* Auto Book: the run that writes a whole book under one authorization of  *)
(* the owner (auto_book.py, auto_book_api.py, auto_book_finalizer.py).     *)
(*                                                                         *)
(* The run is one JSON file.  Every request reads it, works on a copy,     *)
(* possibly through several paid model requests, and writes the copy back  *)
(* over whatever the file holds by then, through one temporary name shared *)
(* by all writers.  A window drives a run by sending advance while the     *)
(* answer says RUNNING; a reloaded window leaves its request running in    *)
(* the core, so two clients stand for one owner too.                       *)
(*                                                                         *)
(* The documents of the book are what module Projects lets them be: saved, *)
(* approved, and never unapproved.                                         *)
(***************************************************************************)
EXTENDS Integers, Sequences, FiniteSets, FiniteSetsExt

CONSTANTS Client,          \* windows, each with at most one request in flight
          Chapters,        \* how many chapters the proposed architecture has
          MaxRequests,     \* max_requests the owner authorizes for a run
          MaxTotalCost,    \* max_total_cost_usd
          MaxRequestCost,  \* max_cost_usd_per_request
          MaxRuns, MaxUnits, MaxCrashes   \* bounds of a finite instance

ASSUME LimitsAssumption ==
  /\ Chapters \in Nat \ {0}
  /\ {MaxRequests, MaxRequestCost, MaxTotalCost} \subseteq Nat \ {0}
  /\ MaxRequestCost <= MaxTotalCost            \* start refuses anything else
  /\ {MaxRuns, MaxUnits, MaxCrashes} \subseteq Nat

Chapter  == 1..Chapters
Document == {"none", "draft", "approved"}
RunStatus == {"RUNNING", "DONE", "FAILED", "STOPPED"}
Phase == {"BOOK_CONTRACT", "APPROVE_BOOK_CONTRACT", "ARCHITECTURE", "APPROVE_ARCHITECTURE",
          "CHAPTER_CONTRACT", "APPROVE_CHAPTER", "CHAPTER_DRAFT", "EXPORT", "DONE"}

VARIABLES
  file,      \* auto-book-run.json; run 0 if there is none
  temp,      \* auto-book-run.tmp; run 0 if there is none
  contract, architecture, contracts,   \* the documents of the book
  tasks,     \* the chapters with a row in bounded_tasks, whatever became of the task
  units,     \* the status of the manuscript units of each chapter
  masters,   \* literary_masters: how many units of each chapter were locked
  op,        \* the request each client has in flight
  drive,     \* the clients whose window is driving the run
  runs, crashes,   \* how many there have been (bounds)
  sent,      \* history: paid requests of each run, up to one past the limit
  clean      \* history: the runs no paid answer was refused or lost in

project == <<contract, architecture, contracts, tasks, units, masters>>
history == <<runs, crashes, sent, clean>>
vars    == <<file, temp, project, op, drive, history>>

\* "final" is what finalization_complete recognises a completed run by.
RunState == [run : 0..MaxRuns, status : RunStatus, phase : Phase, chapter : 0..Chapters,
             used : Nat, cost : Nat, litres : BOOLEAN, final : BOOLEAN]

NoRun == [run |-> 0, status |-> "STOPPED", phase |-> "DONE", chapter |-> 0,
          used |-> 0, cost |-> 0, litres |-> FALSE, final |-> FALSE]

Idle == [pc |-> "idle", then |-> "raised", st |-> NoRun, todo |-> {}]

Unit == Chapter \X (1..MaxUnits)

OpState == [pc   : {"idle", "start", "ask", "answered", "approve", "export", "write", "publish",
                    "pause", "list", "edit", "edit_ask", "edit_answered", "review", "master"},
            then : {"returned", "finished", "raised", "pause", "list", "started", "stopped"},
            st   : RunState, todo : SUBSET Unit]

\* A book project has just been created and its context is ready.
Init ==
  /\ file = NoRun /\ temp = NoRun
  /\ contract = "none" /\ architecture = "none"
  /\ contracts = [k \in Chapter |-> "none"]
  /\ tasks = {}
  /\ units = [k \in Chapter |-> <<>>]
  /\ masters = {}
  /\ op = [c \in Client |-> Idle]
  /\ drive = {}
  /\ runs = 0 /\ crashes = 0
  /\ sent = [r \in 1..MaxRuns |-> 0]
  /\ clean = 1..MaxRuns

(***************************************************************************)
(* The state file and the budget.                                          *)
(***************************************************************************)
Goto(c, pc)         == op' = [op EXCEPT ![c].pc = pc]
GotoWith(c, pc, st) == op' = [op EXCEPT ![c].pc = pc, ![c].st = st]
Write(c, st, then)  == op' = [op EXCEPT ![c] = [Idle EXCEPT !.pc = "write", !.then = then, !.st = st]]
Respond(c, driving) == /\ op' = [op EXCEPT ![c] = Idle]
                       /\ drive' = IF driving THEN drive \union {c} ELSE drive \ {c}

\* _remaining_call_cap raises unless both limits leave room.
Cap(st)    == Min({MaxRequestCost, MaxTotalCost - st.cost})
HasCap(st) == st.used < MaxRequests /\ Cap(st) > 0

\* Variant: the request is counted and its cost is not bounded by what remains.
ChargeInFull(st) == [st EXCEPT !.used = @ + 1, !.cost = @ + MaxRequestCost]

\* Money is counted in the last place that round(..., 6) keeps.
Charge(st) == [st EXCEPT !.used = @ + 1, !.cost = @ + Cap(st)]

\* Variant: an uncertain request is taken for one that was not made.
ReserveNothing(st) == st

\* pause_after_provider_disconnect charges the uncertain request if anything is left.
Reserve(st) == IF HasCap(st) THEN Charge(st) ELSE st

\* last_action no longer tells a completed run, its LitRes file still does.
NewAction(st) == [st EXCEPT !.final = st.final /\ st.litres]

Failed(st)   == [NewAction(st) EXCEPT !.status = "FAILED"]
Reopened(st) == [st EXCEPT !.status = "RUNNING", !.phase = "EXPORT", !.final = FALSE]

WriteTemp(c) ==
  /\ op[c].pc = "write"
  /\ temp' = op[c].st
  /\ Goto(c, "publish")
  /\ UNCHANGED <<file, project, drive, history>>

\* What the handler does once its write is published.
Proceed(c) ==
  LET st == op[c].st
  IN CASE op[c].then = "returned" /\ st.status = "DONE" /\ ~st.final
            -> Write(c, Reopened(st), "list") /\ UNCHANGED drive
       [] op[c].then = "returned" /\ (st.status # "DONE" \/ st.final)
            -> Respond(c, st.status = "RUNNING")
       [] op[c].then \in {"pause", "list"} -> Goto(c, op[c].then) /\ UNCHANGED drive
       [] op[c].then \in {"started", "finished", "raised", "stopped"}
            -> Respond(c, op[c].then = "started")

Publish(c) ==
  /\ op[c].pc = "publish"
  /\ temp # NoRun
  /\ file' = temp
  /\ temp' = NoRun
  /\ Proceed(c)
  /\ UNCHANGED <<project, history>>

\* Another writer has renamed the file away: replace raises.  Only the write that ends advance
\* stands inside its try block, which records the failure with one more write.
PublishLost(c) ==
  /\ op[c].pc = "publish"
  /\ temp = NoRun
  /\ IF op[c].then = "returned"
     THEN Write(c, Failed(op[c].st), "raised") /\ UNCHANGED drive
     ELSE Respond(c, FALSE)
  /\ UNCHANGED <<file, temp, project, history>>

(***************************************************************************)
(* start and stop.                                                         *)
(***************************************************************************)
\* _first_pending_chapter looks for any drafting task, also a failed one.
Pending == {k \in Chapter : contracts[k] # "approved" \/ k \notin tasks}

\* Variants: no chapter pending counts as the one after the last; chapters start over.
NextOrPending == IF Pending = {} THEN Chapters + 1 ELSE Min(Pending)
StartOver     == IF Pending = {} THEN 0 ELSE 1

FirstPending == IF Pending = {} THEN 0 ELSE Min(Pending)

ChapterPhase(k) == CASE contracts[k] = "approved" -> "CHAPTER_DRAFT"
                     [] contracts[k] = "draft"    -> "APPROVE_CHAPTER"
                     [] contracts[k] = "none"     -> "CHAPTER_CONTRACT"

\* Variant: only the existence of a document is looked at.
ResumeByExistence ==
  CASE architecture # "none" -> IF FirstPending = 0 THEN "EXPORT" ELSE ChapterPhase(FirstPending)
    [] architecture = "none" /\ contract # "none" -> "ARCHITECTURE"
    [] contract = "none"     -> "BOOK_CONTRACT"

\* Useful existing work is continued.
ResumePhase ==
  CASE architecture = "approved" ->
         IF FirstPending = 0 THEN "EXPORT" ELSE ChapterPhase(FirstPending)
    [] architecture = "draft" -> "APPROVE_ARCHITECTURE"
    [] architecture = "none" /\ contract = "approved" -> "ARCHITECTURE"
    [] contract = "draft" -> "APPROVE_BOOK_CONTRACT"
    [] contract = "none"  -> "BOOK_CONTRACT"

StartRead(c) ==
  /\ op[c].pc = "idle" /\ c \notin drive
  /\ file.status # "RUNNING"
  /\ Goto(c, "start")
  /\ UNCHANGED <<file, temp, project, drive, history>>

StartWrite(c, litres) ==
  /\ op[c].pc = "start"
  /\ runs < MaxRuns
  /\ runs' = runs + 1
  /\ Write(c, [NoRun EXCEPT !.run = runs + 1, !.status = "RUNNING", !.phase = ResumePhase,
                            !.chapter = IF architecture = "approved" THEN FirstPending ELSE 0,
                            !.litres = litres], "started")
  /\ UNCHANGED <<file, temp, project, drive, crashes, sent, clean>>

Stop(c) ==
  /\ op[c].pc = "idle" /\ c \notin drive
  /\ file.status = "RUNNING"
  /\ Write(c, [NewAction(file) EXCEPT !.status = "STOPPED"], "stopped")
  /\ UNCHANGED <<file, temp, project, drive, history>>

\* "Continue from the saved place" in a window that shows a RUNNING run.
Continue(c) ==
  /\ op[c].pc = "idle" /\ c \notin drive
  /\ file.status = "RUNNING"
  /\ drive' = drive \union {c}
  /\ UNCHANGED <<file, temp, project, op, history>>

(***************************************************************************)
(* advance: one phase per request.                                         *)
(***************************************************************************)
Advancing(c) == op[c].pc = "idle" /\ c \in drive
Running(c, phases) == Advancing(c) /\ file.status = "RUNNING" /\ file.phase \in phases

\* Nothing to do: the run is not RUNNING, or it is complete.
AdvanceOver(c) ==
  /\ Advancing(c)
  /\ file.status # "RUNNING"
  /\ file.status = "DONE" => file.final
  /\ Respond(c, FALSE)
  /\ UNCHANGED <<file, temp, project, history>>

\* require_series_writing_gate refuses before anything is read again or written.
AdvanceRefused(c) ==
  /\ Running(c, {"CHAPTER_DRAFT"})
  /\ Respond(c, FALSE)
  /\ UNCHANGED <<file, temp, project, history>>

AdvanceApprove(c) ==
  /\ Running(c, {"APPROVE_BOOK_CONTRACT", "APPROVE_ARCHITECTURE", "APPROVE_CHAPTER"})
  /\ GotoWith(c, "approve", file)
  /\ UNCHANGED <<file, temp, project, drive, history>>

\* A phase that needs the model; drafting records its task before the request goes out.
AdvanceAsk(c) ==
  /\ Running(c, {"BOOK_CONTRACT", "ARCHITECTURE", "CHAPTER_CONTRACT", "CHAPTER_DRAFT"})
  /\ file.phase = "CHAPTER_CONTRACT" => contracts[file.chapter] # "approved"
  /\ HasCap(file)
  /\ file.phase = "CHAPTER_DRAFT" => Len(units[file.chapter]) < MaxUnits
  /\ tasks' = IF file.phase = "CHAPTER_DRAFT" THEN tasks \union {file.chapter} ELSE tasks
  /\ GotoWith(c, "ask", file)
  /\ UNCHANGED <<file, temp, contract, architecture, contracts, units, masters, drive, history>>

\* No request is made: the limits leave no room, or drafting is refused before it records its task.
AdvanceExhausted(c) ==
  /\ Running(c, {"BOOK_CONTRACT", "ARCHITECTURE", "CHAPTER_CONTRACT", "CHAPTER_DRAFT"})
  /\ file.phase = "CHAPTER_CONTRACT" => contracts[file.chapter] # "approved"
  /\ ~HasCap(file) \/ file.phase = "CHAPTER_DRAFT"
  /\ Write(c, Failed(file), "raised")
  /\ UNCHANGED <<file, temp, project, drive, history>>

AdvanceContractReady(c) ==
  /\ Running(c, {"CHAPTER_CONTRACT"})
  /\ contracts[file.chapter] = "approved"
  /\ Write(c, [file EXCEPT !.phase = "CHAPTER_DRAFT"], "returned")
  /\ UNCHANGED <<file, temp, project, drive, history>>

AdvanceExport(c) ==
  /\ Running(c, {"EXPORT"})
  /\ GotoWith(c, "export", file)
  /\ UNCHANGED <<file, temp, project, drive, history>>

AdvanceDone(c) ==
  /\ Running(c, {"DONE"})
  /\ Write(c, [file EXCEPT !.status = "DONE"], "returned")
  /\ UNCHANGED <<file, temp, project, drive, history>>

\* DONE but not complete: a crash came between the draft export and the finalization.
AdvanceFinalize(c) ==
  /\ Advancing(c)
  /\ file.status = "DONE" /\ ~file.final
  /\ Write(c, Reopened(file), "list")
  /\ UNCHANGED <<file, temp, project, drive, history>>

(***************************************************************************)
(* The model request: answered, refused, cut off, or never sent.           *)
(***************************************************************************)
Asking(c)   == op[c].pc \in {"ask", "edit_ask"}
Editing(c)  == op[c].pc \in {"list", "edit", "edit_ask", "edit_answered", "review", "master"}
Working(c)  == op[c].pc \in {"ask", "answered", "approve", "export"}
Answered(c) == op[c].pc \in {"answered", "edit_answered"}

\* Variant: the API returns the reopened run instead of raising.
ReturnReopened(c, st, then) == Write(c, Reopened(NewAction(st)), "returned")

\* finalize_if_needed leaves a blocked run RUNNING in EXPORT and raises.
FinalizationFails(c, st, then) == Write(c, Reopened(NewAction(st)), then)

\* What the handler records when a step raises.
Raise(c, st, then) ==
  IF Editing(c) THEN FinalizationFails(c, st, then) ELSE Write(c, Failed(st), then)

Pay(r) == sent' = [sent EXCEPT ![r] = Min({@ + 1, MaxRequests + 1})]

Answer(c) ==
  /\ Asking(c)
  /\ Pay(op[c].st.run)
  /\ Goto(c, IF Editing(c) THEN "edit_answered" ELSE "answered")
  /\ UNCHANGED <<file, temp, project, drive, runs, crashes, clean>>

\* ModelOutputError: the answer was paid for and fails a schema or the prose rules.
AnswerRefused(c) ==
  /\ Asking(c)
  /\ Pay(op[c].st.run)
  /\ clean' = clean \ {op[c].st.run}
  /\ Raise(c, op[c].st, "raised")
  /\ UNCHANGED <<file, temp, project, drive, runs, crashes>>

\* httpx.TransportError: the provider may or may not have taken the request.
Disconnect(c, taken) ==
  /\ Asking(c)
  /\ IF taken THEN Pay(op[c].st.run) ELSE UNCHANGED sent
  /\ Raise(c, op[c].st, "pause")
  /\ UNCHANGED <<file, temp, project, drive, runs, crashes, clean>>

\* pause_after_provider_disconnect works on the file as it is by now.
Pause(c) ==
  /\ op[c].pc = "pause"
  /\ Write(c, [Reserve(NewAction(file)) EXCEPT !.status = "RUNNING"], "raised")
  /\ UNCHANGED <<file, temp, project, drive, history>>

\* Any other exception: a gate, a stale head, a locked database, an HTTP error.
Fail(c) ==
  /\ Working(c) \/ op[c].pc \in {"edit_ask", "review", "master"}
  /\ clean' = IF op[c].pc = "answered" THEN clean \ {op[c].st.run} ELSE clean
  /\ Raise(c, op[c].st, "raised")
  /\ UNCHANGED <<file, temp, project, drive, runs, crashes, sent>>

(***************************************************************************)
(* The effect of each phase on the book, and the state to write.           *)
(***************************************************************************)
Saved(d) == IF d = "none" THEN "draft" ELSE d

StoreContract(c) ==
  /\ op[c].pc = "answered" /\ op[c].st.phase = "BOOK_CONTRACT"
  /\ contract' = Saved(contract)
  /\ UNCHANGED <<architecture, contracts, units>>

StoreArchitecture(c) ==
  /\ op[c].pc = "answered" /\ op[c].st.phase = "ARCHITECTURE"
  /\ architecture' = Saved(architecture)
  /\ UNCHANGED <<contract, contracts, units>>

StoreChapter(c) ==
  /\ op[c].pc = "answered" /\ op[c].st.phase = "CHAPTER_CONTRACT"
  /\ contracts' = [contracts EXCEPT ![op[c].st.chapter] = Saved(@)]
  /\ UNCHANGED <<contract, architecture, units>>

StoreDraft(c) ==
  LET k == op[c].st.chapter
  IN /\ op[c].pc = "answered" /\ op[c].st.phase = "CHAPTER_DRAFT"
     /\ Len(units[k]) < MaxUnits
     /\ units' = [units EXCEPT ![k] = Append(@, "DRAFT")]
     /\ UNCHANGED <<contract, architecture, contracts>>

AcceptContract(c) ==
  /\ op[c].pc = "approve" /\ op[c].st.phase = "APPROVE_BOOK_CONTRACT"
  /\ contract # "none"
  /\ contract' = "approved"
  /\ UNCHANGED <<architecture, contracts, units>>

AcceptArchitecture(c) ==
  /\ op[c].pc = "approve" /\ op[c].st.phase = "APPROVE_ARCHITECTURE"
  /\ contract = "approved" /\ architecture # "none"
  /\ architecture' = "approved"
  /\ UNCHANGED <<contract, contracts, units>>

AcceptChapter(c) ==
  LET k == op[c].st.chapter
  IN /\ op[c].pc = "approve" /\ op[c].st.phase = "APPROVE_CHAPTER"
     /\ architecture = "approved" /\ contracts[k] # "none"
     /\ contracts' = [contracts EXCEPT ![k] = "approved"]
     /\ UNCHANGED <<contract, architecture, units>>

\* The request goes on to write the copy of the next phase.
Onward(c, st) == /\ Write(c, st, "returned")
                 /\ UNCHANGED <<file, temp, tasks, masters, drive, history>>

ProposeContract(c) ==
  StoreContract(c) /\ Onward(c, [Charge(op[c].st) EXCEPT !.phase = "APPROVE_BOOK_CONTRACT"])

ProposeArchitecture(c) ==
  StoreArchitecture(c) /\ Onward(c, [Charge(op[c].st) EXCEPT !.phase = "APPROVE_ARCHITECTURE"])

ProposeChapter(c) ==
  StoreChapter(c) /\ Onward(c, [Charge(op[c].st) EXCEPT !.phase = "APPROVE_CHAPTER"])

DraftChapter(c) ==
  /\ StoreDraft(c)
  /\ Onward(c, [Charge(op[c].st) EXCEPT
                  !.chapter = FirstPending,
                  !.phase = IF FirstPending = 0 THEN "EXPORT" ELSE "CHAPTER_CONTRACT"])

ApproveContract(c) == AcceptContract(c) /\ Onward(c, [op[c].st EXCEPT !.phase = "ARCHITECTURE"])

ApproveArchitecture(c) ==
  AcceptArchitecture(c) /\ Onward(c, [op[c].st EXCEPT !.phase = "CHAPTER_CONTRACT", !.chapter = 1])

ApproveChapter(c) == AcceptChapter(c) /\ Onward(c, [op[c].st EXCEPT !.phase = "CHAPTER_DRAFT"])

\* Something raises once the document or the text is stored: the rows that follow it, the record of
\* the model's run, the read of the project.  A draft may have been charged by then.
FailStored(c) ==
  LET st == op[c].st
  IN /\ \/ /\ \/ StoreContract(c) \/ StoreArchitecture(c) \/ StoreChapter(c) \/ StoreDraft(c)
           /\ clean' = clean \ {st.run}
           /\ Raise(c, st, "raised")
        \/ /\ AcceptContract(c) \/ AcceptArchitecture(c) \/ AcceptChapter(c)
           /\ UNCHANGED clean
           /\ Raise(c, st, "raised")
        \/ StoreDraft(c) /\ UNCHANGED clean /\ Raise(c, Charge(st), "raised")
     /\ UNCHANGED <<file, temp, tasks, masters, drive, runs, crashes, sent>>

\* Variant: a run that has its LitRes file counts as complete.
ExportCompletes(c) ==
  /\ op[c].pc = "export"
  /\ op[c].st.litres => \A k \in Chapter : units[k] # <<>>
  /\ Write(c, [op[c].st EXCEPT !.status = "DONE", !.phase = "DONE", !.final = op[c].st.litres], "returned")
  /\ UNCHANGED <<file, temp, project, drive, history>>

\* _export needs the text of every chapter, but runs only when a LitRes file is wanted.
Export(c) ==
  /\ op[c].pc = "export"
  /\ op[c].st.litres => \A k \in Chapter : units[k] # <<>>
  /\ Write(c, [op[c].st EXCEPT !.status = "DONE", !.phase = "DONE", !.final = FALSE], "returned")
  /\ UNCHANGED <<file, temp, project, drive, history>>

(***************************************************************************)
(* finalize: edit every unit, review, lock the Literary Master.            *)
(***************************************************************************)
DraftUnits == {u \in Unit : u[2] \in DOMAIN units[u[1]] /\ units[u[1]][u[2]] = "DRAFT"}

AnyUnit == \E k \in Chapter : units[k] # <<>>

ListUnits(c) ==
  /\ op[c].pc = "list"
  /\ IF AnyUnit
     THEN op' = [op EXCEPT ![c].pc = "edit", ![c].todo = DraftUnits]
     ELSE Raise(c, op[c].st, "raised")
  /\ UNCHANGED <<file, temp, project, drive, history>>

\* In the order of chapters and units; one approved in the meantime is skipped.
NextUnit(todo) == CHOOSE u \in todo : \A v \in todo : u[1] < v[1] \/ (u[1] = v[1] /\ u[2] <= v[2])

EditUnit(c) ==
  LET todo == op[c].todo \intersect DraftUnits
  IN /\ op[c].pc = "edit"
     /\ \/ todo = {} /\ Goto(c, "review")
        \/ /\ todo # {} /\ HasCap(op[c].st)
           /\ op' = [op EXCEPT ![c].pc = "edit_ask", ![c].todo = todo]
        \/ todo # {} /\ ~HasCap(op[c].st) /\ Raise(c, op[c].st, "raised")
     /\ UNCHANGED <<file, temp, project, drive, history>>

\* The charge comes first; then the text is accepted on the head the request was made for, or
\* something raises: the schema, a head that moved, the store.
AcceptEdit(c) ==
  LET u == NextUnit(op[c].todo)
  IN /\ op[c].pc = "edit_answered"
     /\ \/ /\ u \in DraftUnits
           /\ units' = [units EXCEPT ![u[1]][u[2]] = "APPROVED"]
           /\ GotoWith(c, "edit", Charge(op[c].st))
        \/ UNCHANGED units /\ Raise(c, Charge(op[c].st), "raised")
     /\ UNCHANGED <<file, temp, contract, architecture, contracts, tasks, masters, drive, history>>

\* Editorial diagnostics, BookBench and the adversarial review let the book pass.
ReviewPasses(c) ==
  /\ op[c].pc = "review"
  /\ Goto(c, "master")
  /\ UNCHANGED <<file, temp, project, drive, history>>

\* The release gate of create_master.
ReleaseReady ==
  /\ contract = "approved" /\ architecture = "approved"
  /\ \A k \in Chapter : contracts[k] = "approved" /\ units[k] # <<>>
  /\ DraftUnits = {}

\* The LitRes file is exported from the locked master, and that may fail.
LockMaster(c) ==
  /\ op[c].pc = "master"
  /\ ReleaseReady
  /\ masters' = masters \union {[k \in Chapter |-> Len(units[k])]}
  /\ \/ Write(c, [op[c].st EXCEPT !.status = "DONE", !.phase = "DONE", !.final = TRUE], "finished")
     \/ op[c].st.litres /\ Raise(c, op[c].st, "raised")
  /\ UNCHANGED <<file, temp, contract, architecture, contracts, tasks, units, drive, history>>

(***************************************************************************)
(* The core exits: requests in flight end, the state file stays.           *)
(***************************************************************************)
Crash ==
  /\ \E c \in Client : op[c].pc # "idle"
  /\ crashes < MaxCrashes
  /\ crashes' = crashes + 1
  /\ clean' = clean \ {op[c].st.run : c \in Client}
  /\ op' = [c \in Client |-> Idle]
  /\ drive' = {}
  /\ UNCHANGED <<file, temp, project, runs, sent>>

Handle(c) ==
  \/ AdvanceOver(c) \/ AdvanceRefused(c) \/ AdvanceApprove(c) \/ AdvanceAsk(c)
  \/ AdvanceExhausted(c) \/ AdvanceContractReady(c) \/ AdvanceExport(c) \/ AdvanceDone(c)
  \/ AdvanceFinalize(c)
  \/ Answer(c) \/ AnswerRefused(c) \/ \E taken \in BOOLEAN : Disconnect(c, taken)
  \/ Pause(c) \/ Fail(c) \/ FailStored(c)
  \/ ProposeContract(c) \/ ProposeArchitecture(c) \/ ProposeChapter(c) \/ DraftChapter(c)
  \/ ApproveContract(c) \/ ApproveArchitecture(c) \/ ApproveChapter(c) \/ Export(c)
  \/ ListUnits(c) \/ EditUnit(c) \/ AcceptEdit(c) \/ ReviewPasses(c) \/ LockMaster(c)
  \/ WriteTemp(c) \/ Publish(c) \/ PublishLost(c)

Next ==
  \/ \E c \in Client :
       \/ StartRead(c) \/ \E litres \in BOOLEAN : StartWrite(c, litres)
       \/ Stop(c) \/ Continue(c) \/ Handle(c)
  \/ Crash

Spec == Init /\ [][Next]_vars

\* A request in flight is served and a driving window sends the next one; the owner and the
\* provider owe nothing.
FairSpec == Spec /\ \A c \in Client : WF_vars(Handle(c))

(***************************************************************************)
(* Properties.                                                             *)
(***************************************************************************)
\* Every file holds a well-formed run within the declared ranges.
TypeOK ==
  /\ file \in RunState /\ temp \in RunState
  /\ contract \in Document /\ architecture \in Document
  /\ contracts \in [Chapter -> Document]
  /\ tasks \subseteq Chapter
  /\ \A k \in Chapter : /\ units[k] \in Seq({"DRAFT", "APPROVED"})
                        /\ Len(units[k]) <= MaxUnits
                        /\ units[k] # <<>> => k \in tasks
  /\ masters \subseteq [Chapter -> 0..MaxUnits]
  /\ op \in [Client -> OpState]
  /\ drive \subseteq Client
  /\ runs \in 0..MaxRuns /\ crashes \in 0..MaxCrashes
  /\ sent \in [1..MaxRuns -> 0..MaxRequests + 1]
  /\ clean \subseteq 1..MaxRuns

\* Whoever reads, charges and writes the run in whatever order, no copy of it ever charges more
\* requests or more cost than the owner authorized (_remaining_call_cap before every request, and
\* again when an uncertain one is charged).
WithinAuthorization ==
  \A st \in {file, temp} \union {op[c].st : c \in Client} :
    st.used <= MaxRequests /\ st.cost <= MaxTotalCost

\* The phase a run is in is justified by the book: whatever is stopped, restarted, interrupted or
\* run twice, Auto Book never stands at a step whose prerequisite is missing.
PhaseJustified ==
  file.status = "RUNNING" =>
    /\ file.phase = "APPROVE_BOOK_CONTRACT" => contract # "none"
    /\ file.phase \notin {"BOOK_CONTRACT", "APPROVE_BOOK_CONTRACT"} => contract = "approved"
    /\ file.phase = "APPROVE_ARCHITECTURE" => architecture # "none"
    /\ file.phase \in {"CHAPTER_CONTRACT", "APPROVE_CHAPTER", "CHAPTER_DRAFT", "EXPORT", "DONE"} =>
         architecture = "approved"
    /\ file.phase = "APPROVE_CHAPTER" => contracts[file.chapter] # "none"
    /\ file.phase = "CHAPTER_DRAFT" => contracts[file.chapter] = "approved"

\* A run that says its Literary Master is locked has one, with text in every chapter, however its
\* finalization was interrupted and whoever else wrote the file.
CompletedIsMastered ==
  file.status = "DONE" /\ file.final =>
    \E m \in masters : \A k \in Chapter : m[k] \in 1..Len(units[k])

\* Driven by one window, a run has charged every request the provider took, except where an
\* answer was refused, a step failed on it or the core exited: disconnects are charged too.
PaidIsCharged ==
  (\A c \in Client : op[c].pc = "idle") /\ file.run \in clean => sent[file.run] <= file.used

\* The stations of a run in their order; chapters follow one another.
Rank(st) ==
  CASE st.phase = "BOOK_CONTRACT" -> 0
    [] st.phase = "APPROVE_BOOK_CONTRACT" -> 1
    [] st.phase = "ARCHITECTURE" -> 2
    [] st.phase = "APPROVE_ARCHITECTURE" -> 3
    [] st.phase = "CHAPTER_CONTRACT" -> 1 + 3 * st.chapter
    [] st.phase = "APPROVE_CHAPTER"  -> 2 + 3 * st.chapter
    [] st.phase = "CHAPTER_DRAFT"    -> 3 + 3 * st.chapter
    [] st.phase \in {"EXPORT", "DONE"} -> 4 + 3 * Chapters

\* A run driven by one window never falls back to an earlier station and never forgets a charge,
\* through disconnects, failures, crashes and blocked finalizations.
ProgressIsKept ==
  [][file'.run = file.run => /\ Rank(file') >= Rank(file)
                             /\ file'.used >= file.used
                             /\ file'.cost >= file.cost]_file

\* The loop of a driving window ends: every advance moves the run on, ends it or raises.
DriveEnds == \A c \in Client : c \in drive ~> c \notin drive

(***************************************************************************)
(* What the window tells the owner and the core does not keep.             *)
(***************************************************************************)
\* "... use OpenAI only within the given limits": the provider takes no more requests in a run
\* than the owner authorized.
PaidWithinLimit == \A r \in 1..MaxRuns : sent[r] <= MaxRequests

\* "Existing planned chapters are ready for export": a run that goes to EXPORT has every chapter.
ExportIsReady ==
  file.status = "RUNNING" /\ file.phase = "EXPORT" => \A k \in Chapter : units[k] # <<>>
===============================================================================
