-------------------------------- MODULE Canon --------------------------------
(***************************************************************************)
(* The ledger of what the books of a series have used, and the closure of  *)
(* a book (SeriesProductionService, series_production.py; the triggers of  *)
(* migration 0016), on top of the profiles the book is bound to.           *)
(*                                                                         *)
(* A transition of an asset is checked against a status read in one        *)
(* connection and written in another without comparing.  A closure is a    *)
(* series of such transitions, each in a transaction of its own, and the   *)
(* row that records them last.                                             *)
(***************************************************************************)
EXTENDS Profiles

CONSTANTS Asset,
          Master      \* LOCKED Literary Masters of the book, each with the manifest hash given

VARIABLES
  canon,      \* status of each series_canon_asset
  closures,   \* series_closures
  deed,       \* the canon call each client has in flight
  overwrote   \* history: assets whose status was written over one other than the one read

canonVars == <<canon, closures, deed, overwrote>>

Status == {"PLANNED", "RESERVED", "USED_DRAFT", "USED_ACCEPTED", "CROSS_REFERENCE_ONLY",
           "LEGACY_PROTECTED", "RELEASED"}

Closure == [master : Master, used : SUBSET Asset, released : SUBSET Asset]

Deed ==
  [pc : {"idle", "next", "write"}, master : Master \union {"none"},
   used : SUBSET Asset, released : SUBSET Asset, todo : SUBSET Asset,
   asset : Asset \union {"none"}, from : Status \union {"none"}, to : Status \union {"none"}]

NoDeed == [pc |-> "idle", master |-> "none", used |-> {}, released |-> {}, todo |-> {},
           asset |-> "none", from |-> "none", to |-> "none"]

Allowed(s) ==
  CASE s = "PLANNED"              -> {"RESERVED", "USED_DRAFT", "CROSS_REFERENCE_ONLY", "RELEASED"}
    [] s = "RESERVED"             -> {"USED_DRAFT", "CROSS_REFERENCE_ONLY", "RELEASED"}
    [] s = "USED_DRAFT"           -> {"RESERVED", "USED_ACCEPTED", "CROSS_REFERENCE_ONLY", "RELEASED"}
    [] s = "CROSS_REFERENCE_ONLY" -> {"RESERVED", "USED_DRAFT", "USED_ACCEPTED", "RELEASED"}
    [] s = "LEGACY_PROTECTED"     -> {"RESERVED", "CROSS_REFERENCE_ONLY"}
    [] OTHER                      -> {}

\* create_canon_asset takes no other status.
InitCanon ==
  /\ canon \in [Asset -> {"PLANNED", "LEGACY_PROTECTED"}]
  /\ closures = {} /\ overwrote = {}
  /\ deed = [c \in Client |-> NoDeed]

Free(c)   == Idle(c) /\ deed[c].pc = "idle"
Do(c, d)  == deed' = [deed EXCEPT ![c] = d]
Done(c)   == Do(c, NoDeed)

\* transition_canon_asset: the status is read and the transition checked.
TransitionRead(c, a, s) ==
  /\ Free(c) /\ s \in Allowed(canon[a])
  /\ Do(c, [NoDeed EXCEPT !.pc = "write", !.asset = a, !.from = canon[a], !.to = s])
  /\ UNCHANGED <<canon, closures, overwrote, vars>>

\* Variant: nothing protects an accepted asset.
Unprotected(a) == TRUE

\* The trigger protect_used_accepted_asset_status lets the UPDATE pass.
Changeable(a) == canon[a] # "USED_ACCEPTED"

TransitionWrite(c) ==
  LET d == deed[c] IN
  /\ d.pc = "write" /\ (Changeable(d.asset) \/ canon[d.asset] = d.to)
  /\ canon' = [canon EXCEPT ![d.asset] = d.to]
  /\ overwrote' = IF canon[d.asset] = d.from THEN overwrote ELSE overwrote \union {d.asset}
  /\ IF d.master = "none" THEN Done(c)
     ELSE Do(c, [d EXCEPT !.pc = "next", !.todo = @ \ {d.asset}, !.asset = "none",
                          !.from = "none", !.to = "none"])
  /\ UNCHANGED <<closures, vars>>

\* get_context finds every profile the book is bound to, the series among them.
InSeries(p) ==
  /\ bound[p] # "none"
  /\ \A q \in Profile : bound[q] # "none" =>
       Has(q) /\ \E i \in DOMAIN file[q] : file[q][i].content = bound[q]

CloseBegin(c, p, m, U, R) ==
  /\ Free(c) /\ InSeries(p) /\ U \intersect R = {}
  /\ Do(c, [NoDeed EXCEPT !.pc = "next", !.master = m, !.used = U, !.released = R,
                          !.todo = U \union R])
  /\ UNCHANGED <<canon, closures, overwrote, vars>>

\* The next asset of the request, the used ones first; one that has the status already is left.
CloseNext(c, a) ==
  LET d == deed[c]
      s == IF a \in d.used THEN "USED_ACCEPTED" ELSE "RELEASED" IN
  /\ d.pc = "next" /\ a \in d.todo
  /\ a \in d.used \/ d.todo \intersect d.used = {}
  /\ \/ canon[a] = s /\ Do(c, [d EXCEPT !.todo = @ \ {a}])
     \/ s \in Allowed(canon[a])
          /\ Do(c, [d EXCEPT !.pc = "write", !.asset = a, !.from = canon[a], !.to = s])
  /\ UNCHANGED <<canon, closures, overwrote, vars>>

CloseInsert(c) ==
  LET d == deed[c] IN
  /\ d.pc = "next" /\ d.todo = {}
  /\ \A x \in closures : x.master # d.master
  /\ closures' = closures \union {[master |-> d.master, used |-> d.used, released |-> d.released]}
  /\ Done(c)
  /\ UNCHANGED <<canon, overwrote, vars>>

\* A transition not allowed, an UPDATE or INSERT the database refuses, an exit: what was written
\* stays.
CanonEnds(c) ==
  /\ deed[c].pc # "idle"
  /\ Done(c)
  /\ UNCHANGED <<canon, closures, overwrote, vars>>

CanonNext ==
  \/ \E c \in Client, a \in Asset, s \in Status : TransitionRead(c, a, s)
  \/ \E c \in Client, p \in Derived, m \in Master, U, R \in SUBSET Asset : CloseBegin(c, p, m, U, R)
  \/ \E c \in Client, a \in Asset : CloseNext(c, a)
  \/ \E c \in Client : TransitionWrite(c) \/ CloseInsert(c) \/ CanonEnds(c)

\* A client has one call in flight.
ProfileNext == Next /\ UNCHANGED canonVars /\ \A c \in Client : deed[c].pc = "idle" \/ work'[c].pc = "idle"

SeriesSpec == Init /\ InitCanon /\ [][ProfileNext \/ CanonNext]_<<vars, canonVars>>

(***************************************************************************)
(* Properties.                                                             *)
(***************************************************************************)
SeriesTypeOK ==
  /\ TypeOK
  /\ canon \in [Asset -> Status] /\ closures \subseteq Closure
  /\ deed \in [Client -> Deed] /\ overwrote \subseteq Asset

\* What a closure recorded stays true: its used assets are USED_ACCEPTED whatever transitions raced
\* with it (each checked against an earlier status), and its released ones RELEASED unless one did.
ClosureStands ==
  \A x \in closures :
    /\ \A a \in x.used : canon[a] = "USED_ACCEPTED"
    /\ \A a \in x.released \ overwrote : canon[a] = "RELEASED"
===============================================================================
