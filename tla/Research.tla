------------------------------- MODULE Research -------------------------------
(***************************************************************************)
(* Claims of a manuscript unit, the evidence for and against them and the  *)
(* sources it points to (ResearchService, research.py; the tables of       *)
(* migration 0005).                                                        *)
(*                                                                         *)
(* Evidence is stored in one transaction.  The claim's state is then       *)
(* computed from a later read of the claim and of all its evidence, and    *)
(* written by a third transaction that compares nothing.  The owner's      *)
(* review and an edit of the claim write the same column.                  *)
(***************************************************************************)
EXTENDS Integers, FiniteSets

CONSTANTS Claim, Source, Client,
          MaxHead, MaxChanges      \* revisions of the unit and changes of a claim in an instance

ASSUME ResearchAssumption == MaxHead \in Nat \ {0} /\ MaxChanges \in Nat

VARIABLES
  head,        \* the authority head of the unit
  claims,      \* table claims; rev = 0 for one that is not registered, ver counts its UPDATEs
  logged,      \* new_state of the last row of claim_state_history
  access,      \* table sources: access_status, "none" for one not imported
  evidence,    \* the ACTIVE rows of table evidence; limitations are given with PARTIALLY_SUPPORTS
  op,          \* the call each client has in flight
  verdict,     \* history: the state the owner set and nothing has replaced since, or "none"
  unsettled,   \* history: claims whose evidence changed without a recalculation, or under one
  overlapped   \* history: claims one call has written under another

rows    == <<claims, logged, access, evidence>>
history == <<verdict, unsettled, overlapped>>
vars    == <<head, rows, op, history>>

ClaimState   == {"UNREVIEWED", "SUPPORTED", "PARTIALLY_SUPPORTED", "DISPUTED", "UNSUPPORTED",
                 "REJECTED"}
Reviewed     == {"UNREVIEWED", "DISPUTED", "UNSUPPORTED", "REJECTED"}
Relationship == {"SUPPORTS", "PARTIALLY_SUPPORTS", "CONTRADICTS", "CONTEXT_ONLY"}
Access       == {"METADATA_ONLY", "FULL_SOURCE_INSPECTED"}   \* ABSTRACT_AVAILABLE counts as the first

ClaimRow == [rev : 0..MaxHead, ver : 0..MaxChanges, state : ClaimState]
Evidence == [claim : Claim, source : Source, relationship : Relationship]

\* fresh: nobody has changed the claim, or what it stands on, since the call first read it.
OpState == [pc : {"idle", "create", "edit", "claim", "evidence", "state", "review", "import"},
            claim : Claim \union {"none"}, source : Source \union {"none"}, rev : 0..MaxHead,
            prior : ClaimState, state : ClaimState, fresh : BOOLEAN]

NoOp == [pc |-> "idle", claim |-> "none", source |-> "none", rev |-> 0,
         prior |-> "UNREVIEWED", state |-> "UNREVIEWED", fresh |-> TRUE]

Init ==
  /\ head = 1
  /\ claims = [k \in Claim |-> [rev |-> 0, ver |-> 0, state |-> "UNREVIEWED"]]
  /\ logged = [k \in Claim |-> "UNREVIEWED"]
  /\ access = [s \in Source |-> "none"] /\ evidence = {}
  /\ op = [c \in Client |-> NoOp]
  /\ verdict = [k \in Claim |-> "none"] /\ unsettled = {} /\ overlapped = {}

Registered(k) == claims[k].rev # 0
Cited(s)      == {e.claim : e \in {x \in evidence : x.source = s}}

Goto(c, o) == op' = [op EXCEPT ![c] = o]

\* Client c's step to o changes what claims K stand on: other calls about them hold what they read.
GotoChanging(c, o, K) ==
  op' = [d \in Client |-> IF d = c THEN o
                          ELSE [op[d] EXCEPT !.fresh = @ /\ op[d].claim \notin K]]

\* A write by a call that read what it replaced settles the claim, any other unsettles it.
Settle(o) ==
  /\ unsettled' = IF o.fresh THEN unsettled \ {o.claim} ELSE unsettled \union {o.claim}
  /\ overlapped' = IF o.fresh THEN overlapped ELSE overlapped \union {o.claim}

(***************************************************************************)
(* The manuscript moves on (module Authority).                             *)
(***************************************************************************)
AcceptUnit ==
  /\ head < MaxHead /\ head' = head + 1
  /\ UNCHANGED <<rows, op, history>>

(***************************************************************************)
(* Claims.  Both calls read the head before their transaction and refuse   *)
(* a request that names another revision.                                  *)
(***************************************************************************)
ReadHead(c, pc, k) ==
  /\ op[c].pc = "idle"
  /\ Goto(c, [NoOp EXCEPT !.pc = pc, !.claim = k, !.rev = head, !.prior = claims[k].state])
  /\ UNCHANGED <<head, rows, history>>

CreateBegin(c, k) == ~Registered(k) /\ ReadHead(c, "create", k)

CreateWrite(c) ==
  LET o == op[c] IN
  /\ o.pc = "create" /\ ~Registered(o.claim)        \* a new ULID each time
  /\ claims' = [claims EXCEPT ![o.claim].rev = o.rev]
  /\ GotoChanging(c, NoOp, {})
  /\ UNCHANGED <<head, logged, access, evidence, history>>

EditBegin(c, k) == Registered(k) /\ ReadHead(c, "edit", k)

\* Variant: evidence for the earlier text stays ACTIVE.
Kept(k) == evidence

LeftActive(k) == {e \in evidence : e.claim # k}

EditWrite(c) ==
  LET o == op[c]  k == op[c].claim IN
  /\ o.pc = "edit" /\ claims[k].ver < MaxChanges
  /\ claims' = [claims EXCEPT ![k] = [rev |-> o.rev, ver |-> @.ver + 1, state |-> "UNREVIEWED"]]
  /\ evidence' = LeftActive(k)
  /\ logged' = IF o.prior # "UNREVIEWED" THEN [logged EXCEPT ![k] = "UNREVIEWED"] ELSE logged
  /\ verdict' = [verdict EXCEPT ![k] = "none"] /\ Settle(o)
  /\ GotoChanging(c, NoOp, {k})
  /\ UNCHANGED <<head, access>>

(***************************************************************************)
(* Sources.  A work imported twice at once is refused the second time by   *)
(* the unique canonical_key; one found is only completed.                  *)
(***************************************************************************)
ImportBegin(c, s) ==
  /\ op[c].pc = "idle" /\ access[s] = "none"
  /\ Goto(c, [NoOp EXCEPT !.pc = "import", !.source = s])
  /\ UNCHANGED <<head, rows, history>>

ImportWrite(c) ==
  /\ op[c].pc = "import" /\ access[op[c].source] = "none"
  /\ access' = [access EXCEPT ![op[c].source] = "METADATA_ONLY"]
  /\ Goto(c, NoOp)
  /\ UNCHANGED <<head, claims, logged, evidence, history>>

\* No claim that cites the source is recomputed.
MarkAccess(c, s, a) ==
  /\ op[c].pc = "idle" /\ access[s] \notin {"none", a}
  /\ access' = [access EXCEPT ![s] = a]
  /\ unsettled' = unsettled \union Cited(s)
  /\ GotoChanging(c, NoOp, Cited(s))
  /\ UNCHANGED <<head, claims, logged, evidence, verdict, overlapped>>

(***************************************************************************)
(* Evidence, and the recalculation that follows it.                        *)
(***************************************************************************)
\* Variant: evidence from a candidate that was never imported.
AnySource(k, s) == Registered(k)

Citable(k, s) == Registered(k) /\ access[s] # "none"

AddEvidence(c, k, s, r) ==
  /\ op[c].pc = "idle" /\ Citable(k, s)
  /\ evidence' = evidence \union {[claim |-> k, source |-> s, relationship |-> r]}
  /\ unsettled' = unsettled \union {k}
  /\ GotoChanging(c, [NoOp EXCEPT !.pc = "claim", !.claim = k], {k})
  /\ UNCHANGED <<head, claims, logged, access, verdict, overlapped>>

\* A REJECTED claim is left alone.
RecalcReadClaim(c) ==
  LET o == op[c]  k == op[c].claim IN
  /\ o.pc = "claim"
  /\ Goto(c, [o EXCEPT !.pc = "evidence", !.prior = claims[k].state, !.fresh = TRUE])
  /\ UNCHANGED <<head, rows, history>>

Some(k, r) == \E e \in evidence : e.claim = k /\ e.relationship = r

FullSupport(k) ==
  \E e \in evidence : /\ e.claim = k /\ e.relationship = "SUPPORTS"
                      /\ access[e.source] = "FULL_SOURCE_INSPECTED"

Derived(k) ==
  CASE Some(k, "CONTRADICTS")        -> "DISPUTED"
    [] FullSupport(k) /\ ~Some(k, "CONTRADICTS") -> "SUPPORTED"
    [] Some(k, "PARTIALLY_SUPPORTS") /\ ~FullSupport(k) /\ ~Some(k, "CONTRADICTS")
                                     -> "PARTIALLY_SUPPORTED"
    [] OTHER                         -> "UNREVIEWED"

RecalcReadEvidence(c) ==
  LET o == op[c]  k == op[c].claim IN
  /\ o.pc = "evidence"
  /\ IF o.prior \in {"REJECTED", Derived(k)}
       THEN /\ unsettled' = IF o.fresh THEN unsettled \ {k} ELSE unsettled
            /\ Goto(c, NoOp)
       ELSE /\ Goto(c, [o EXCEPT !.pc = "state", !.state = Derived(k)])
            /\ UNCHANGED unsettled
  /\ UNCHANGED <<head, rows, verdict, overlapped>>

WriteState(c, by) ==
  LET o == op[c]  k == op[c].claim IN
  /\ claims[k].ver < MaxChanges
  /\ claims' = [claims EXCEPT ![k] = [rev |-> @.rev, ver |-> @.ver + 1, state |-> o.state]]
  /\ logged' = IF o.prior # o.state THEN [logged EXCEPT ![k] = o.state] ELSE logged
  /\ verdict' = [verdict EXCEPT ![k] = by] /\ Settle(o)
  /\ GotoChanging(c, NoOp, {k})
  /\ UNCHANGED <<head, access, evidence>>

RecalcWrite(c) == op[c].pc = "state" /\ WriteState(c, "none")

(***************************************************************************)
(* The owner's review.                                                     *)
(***************************************************************************)
ReviewBegin(c, k, s) ==
  /\ op[c].pc = "idle" /\ Registered(k)
  /\ Goto(c, [NoOp EXCEPT !.pc = "review", !.claim = k, !.prior = claims[k].state, !.state = s])
  /\ UNCHANGED <<head, rows, history>>

ReviewWrite(c) == op[c].pc = "review" /\ WriteState(c, op[c].state)

\* A database error or an exit.  After AddEvidence the evidence stays.
Ends(c) ==
  /\ op[c].pc # "idle" /\ Goto(c, NoOp)
  /\ UNCHANGED <<head, rows, history>>

Next ==
  \/ AcceptUnit
  \/ \E c \in Client, k \in Claim :
       \/ CreateBegin(c, k) \/ EditBegin(c, k)
       \/ \E s \in Source, r \in Relationship : AddEvidence(c, k, s, r)
       \/ \E s \in Reviewed : ReviewBegin(c, k, s)
  \/ \E c \in Client, s \in Source : ImportBegin(c, s) \/ \E a \in Access : MarkAccess(c, s, a)
  \/ \E c \in Client : \/ CreateWrite(c) \/ EditWrite(c) \/ ImportWrite(c) \/ RecalcReadClaim(c)
                       \/ RecalcReadEvidence(c) \/ RecalcWrite(c) \/ ReviewWrite(c) \/ Ends(c)

Spec == Init /\ [][Next]_vars

(***************************************************************************)
(* Properties.                                                             *)
(***************************************************************************)
TypeOK ==
  /\ head \in 1..MaxHead
  /\ claims \in [Claim -> ClaimRow] /\ logged \in [Claim -> ClaimState]
  /\ access \in [Source -> Access \union {"none"}]
  /\ evidence \subseteq Evidence
  /\ \A e \in evidence : Registered(e.claim) /\ access[e.source] # "none"
  /\ op \in [Client -> OpState]
  /\ verdict \in [Claim -> Reviewed \union {"none"}] /\ unsettled \union overlapped \subseteq Claim

\* A claim has the state its active evidence gives it, or the one the owner gave it last, and the
\* last event of its history says so: after an edit nothing of the evidence for the earlier text
\* counts, and a rejection outlives new evidence.  Not so for a claim whose evidence changed
\* without a recalculation (an access mark, a call cut short) or whose calls overlapped, until an
\* undisturbed call settles it (add_evidence, review_claim, update_claim); its history may
\* then miss an event for good.
ClaimAsDecided ==
  \A k \in Claim :
    /\ k \notin unsettled =>
         claims[k].state = IF verdict[k] # "none" THEN verdict[k] ELSE Derived(k)
    /\ k \notin overlapped => logged[k] = claims[k].state
===============================================================================
