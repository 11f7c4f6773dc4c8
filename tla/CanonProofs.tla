------------------------------ MODULE CanonProofs ------------------------------
(***************************************************************************)
(* Proofs about Canon and the Profiles it stands on: what a closure        *)
(* recorded of the series ledger stays true; a book is bound only to what  *)
(* was approved; and what the one registry file, its one temporary name    *)
(* and calls that do not lock it leave of the revisions.                   *)
(***************************************************************************)
EXTENDS Canon, TLAPS

(***************************************************************************)
(* Calls of the profile registry, and what each is about.                  *)
(***************************************************************************)
CallFacts(w) ==
  /\ w.pc \in {"ask", "author", "load", "open", "write", "replace"} => w.profile \in Profile
  /\ w.pc = "ask" => w.kind = "create" /\ w.profile \in Derived
  /\ w.pc = "author" => w.kind = "approve" /\ w.profile \in Derived
  /\ w.pc \in {"load", "open", "write", "replace"} => w.kind # "none"
  /\ w.pc = "load" /\ w.kind # "approve" => w.content \in Content
  /\ w.pc \in {"bind_derived", "bind"} =>
       w.author \in Author /\ w.profile \in Derived /\ w.authored \in Content /\ w.kind = "none"
  /\ w.pc = "bind" => w.content \in Content
  /\ w.pc = "write" => w.fd # "none"

CallsInv == TypeOK /\ \A c \in Client : CallFacts(work[c])

(***************************************************************************)
(* Nothing is approved in a file, or bound, without an approval.           *)
(***************************************************************************)
\* Each approval the text f shows was given.
Vouched(f, A) ==
  \A p \in Profile : \A i \in DOMAIN f[p] : f[p][i].status = "APPROVED" => <<p, f[p][i].content>> \in A

ApprovedFacts(w, A) ==
  /\ Vouched(w.payload, A)
  /\ w.pc \in {"bind_derived", "bind"} => <<w.author, w.authored>> \in A
  /\ w.pc = "bind" => <<w.profile, w.content>> \in A /\ AuthorOf[w.content] \in {w.author, "none"}

ApprovedInv ==
  /\ file \notin Unreadable => Vouched(file, approved)
  /\ temp \notin Unreadable \union {Absent} => Vouched(temp, approved)
  /\ \A c \in Client : ApprovedFacts(work[c], approved)
  /\ BoundWasApproved

(***************************************************************************)
(* Calls that do not overlap.                                              *)
(***************************************************************************)
Keeps(s, t) ==
  /\ Len(s) <= Len(t)
  /\ \A i \in DOMAIN s : t[i] = s[i] \/ t[i] = [s[i] EXCEPT !.status = "APPROVED"]

\* What a call alone with the registry has written, and what it would change.
WritesAlone(c) ==
  LET w == work[c] IN
  /\ w.pc = "write" => temp = Truncated /\ w.fd = "temp"
  /\ w.pc = "replace" => temp = w.payload
  /\ Writing(c) => /\ Keeps(file[w.profile], w.payload[w.profile])
                   /\ \A p \in Profile \ {w.profile} : w.payload[p] = file[p]
                   /\ \A d \in Client \ {c} : ~Writing(d)

\* A profile being created is not there yet, and no other call is at work on it.
CreatesAlone(c) ==
  LET w == work[c] IN
  w.kind = "create" =>
    /\ w.profile \in Profile /\ file[w.profile] = <<>>
    /\ \A d \in Client \ {c} : work[d].kind # "none" => work[d].profile # w.profile

AloneInv == ~overlapped => file \notin Unreadable /\ \A c \in Client : WritesAlone(c) /\ CreatesAlone(c)

RegistryInv == CallsInv /\ ApprovedInv /\ AloneInv

(***************************************************************************)
(* Texts of the registry.                                                  *)
(***************************************************************************)
LEMMA RegistryText ==
  ASSUME NEW f \in Registry, NEW p \in Profile
  PROVE  /\ f[p] \in Seq(Revision) /\ Len(f[p]) \in Nat /\ DOMAIN f[p] = 1..Len(f[p])
         /\ Len(f[p]) <= MaxRevisions[p] /\ MaxRevisions[p] \in Nat \ {0}
         /\ \A i \in 1..Len(f[p]) : f[p][i] \in Revision
BY ProfilesAssumption DEF Registry, Profile

LEMMA OneProfileChanges ==
  ASSUME NEW f \in Registry, NEW p \in Profile, NEW s \in Seq(Revision), Len(s) <= MaxRevisions[p]
  PROVE  LET g == [f EXCEPT ![p] = s] IN
         g \in Registry /\ g[p] = s /\ \A q \in Profile \ {p} : g[q] = f[q]
BY DEF Registry

LEMMA EmptyRegistry == Empty \in Registry /\ \A A : Vouched(Empty, A)
BY ProfilesAssumption DEF Empty, Registry, Vouched, Profile

LEMMA DraftIsRevision ==
  ASSUME NEW x \in Content
  PROVE  Draft(x) \in Revision /\ Draft(x).status # "APPROVED"
BY DEF Draft, Revision

LEMMA VouchedMore ==
  ASSUME NEW f, NEW A, NEW B, A \subseteq B, Vouched(f, A)
  PROVE  Vouched(f, B)
BY DEF Vouched

\* What an edit does to a text: it changes one profile, and keeps its revisions.
EditOf(f, p, g) ==
  /\ g \in Registry /\ Keeps(f[p], g[p])
  /\ \A q \in Profile \ {p} : g[q] = f[q]

LEMMA ApprovalEdits ==
  ASSUME NEW f \in Registry, NEW p \in Profile, f[p] # <<>>, NEW A, Vouched(f, A)
  PROVE  LET g == [f EXCEPT ![p][Len(f[p])].status = "APPROVED"] IN
         EditOf(f, p, g) /\ Vouched(g, A \union {<<p, Last(f[p]).content>>})
<1> DEFINE n == Len(f[p])
           r == [f[p][n] EXCEPT !.status = "APPROVED"]
           s == [f[p] EXCEPT ![n] = r]
           g == [f EXCEPT ![p] = s]
<1>1. f[p] \in Seq(Revision) /\ n \in Nat /\ n # 0 /\ n <= MaxRevisions[p] /\ f[p][n] \in Revision
      /\ DOMAIN f[p] = 1..n
  BY RegistryText
<1>2. r \in Revision /\ r.content = f[p][n].content /\ Last(f[p]) = f[p][n]
  BY <1>1 DEF Revision, Last
<1>3. [f EXCEPT ![p][Len(f[p])].status = "APPROVED"] = g
  OBVIOUS
<1>4. s \in Seq(Revision) /\ Len(s) = n /\ DOMAIN s = 1..n /\ s[n] = r
      /\ \A i \in 1..n : i # n => s[i] = f[p][i]
  <2> HIDE DEF r
  <2> QED BY <1>1, <1>2
<1> HIDE DEF s
<1>5. g \in Registry /\ g[p] = s /\ \A q \in Profile \ {p} : g[q] = f[q]
  BY <1>1, <1>4, OneProfileChanges
<1>6. Keeps(f[p], s)
  BY <1>1, <1>4 DEF Keeps
<1> HIDE DEF g
<1>7. Vouched(g, A \union {<<p, f[p][n].content>>})
  <2> HIDE DEF n, r
  <2> QED BY <1>1, <1>2, <1>4, <1>5 DEF Vouched
<1> QED BY <1>2, <1>3, <1>5, <1>6, <1>7 DEF EditOf

LEMMA UpdateEdits ==
  ASSUME NEW f \in Registry, NEW p \in Profile, NEW x \in Content, Len(f[p]) < MaxRevisions[p],
         NEW A, Vouched(f, A)
  PROVE  LET g == [f EXCEPT ![p] = Append(f[p], Draft(x))] IN EditOf(f, p, g) /\ Vouched(g, A)
<1> DEFINE s == Append(f[p], Draft(x))
           g == [f EXCEPT ![p] = s]
<1>1. f[p] \in Seq(Revision) /\ Len(f[p]) \in Nat /\ MaxRevisions[p] \in Nat
      /\ DOMAIN f[p] = 1..Len(f[p])
  BY RegistryText
<1>2. s \in Seq(Revision) /\ Len(s) = Len(f[p]) + 1 /\ DOMAIN s = 1..(Len(f[p]) + 1)
      /\ s[Len(f[p]) + 1] = Draft(x) /\ \A i \in 1..Len(f[p]) : s[i] = f[p][i]
  BY <1>1, DraftIsRevision
<1> HIDE DEF s
<1>3. g \in Registry /\ g[p] = s /\ \A q \in Profile \ {p} : g[q] = f[q]
  BY <1>1, <1>2, OneProfileChanges
<1>4. Keeps(f[p], s)
  BY <1>1, <1>2 DEF Keeps
<1> HIDE DEF g
<1>5. ASSUME NEW i \in DOMAIN s, s[i].status = "APPROVED" PROVE <<p, s[i].content>> \in A
  <2>1. i # Len(f[p]) + 1
    BY <1>2, <1>5, DraftIsRevision
  <2>2. i \in DOMAIN f[p] /\ s[i] = f[p][i]
    BY <1>1, <1>2, <2>1
  <2> QED BY <1>5, <2>2 DEF Vouched
<1>6. Vouched(g, A)
  BY <1>3, <1>5 DEF Vouched
<1> QED BY <1>3, <1>4, <1>6 DEF EditOf, g, s

LEMMA CreationEdits ==
  ASSUME NEW f \in Registry, NEW p \in Profile, NEW x \in Content, NEW A, Vouched(f, A)
  PROVE  LET g == [f EXCEPT ![p] = <<Draft(x)>>] IN
         g \in Registry /\ Vouched(g, A) /\ (f[p] = <<>> => EditOf(f, p, g))
<1> DEFINE s == <<Draft(x)>>
           g == [f EXCEPT ![p] = s]
<1>1. MaxRevisions[p] \in Nat \ {0}
  BY RegistryText
<1>2. s \in Seq(Revision) /\ Len(s) = 1 /\ DOMAIN s = 1..1 /\ s[1] = Draft(x)
  BY DraftIsRevision
<1> HIDE DEF s
<1>3. g \in Registry /\ g[p] = s /\ \A q \in Profile \ {p} : g[q] = f[q]
  <2>1. s \in Seq(Revision) /\ Len(s) <= MaxRevisions[p]
    BY <1>1, <1>2
  <2> QED BY <2>1, OneProfileChanges
<1> HIDE DEF g
<1>4. f[p] = <<>> => Keeps(f[p], s)
  BY <1>2 DEF Keeps
<1>5. Vouched(g, A)
  BY <1>2, <1>3, DraftIsRevision DEF Vouched
<1> QED BY <1>3, <1>4, <1>5 DEF EditOf, g, s

(***************************************************************************)
(* Steps of the registry.                                                  *)
(***************************************************************************)
LEMMA CallRow ==
  ASSUME RegistryInv, NEW c \in Client
  PROVE  work[c] \in Calls /\ CallFacts(work[c]) /\ ApprovedFacts(work[c], approved)
         /\ (~overlapped => WritesAlone(c) /\ CreatesAlone(c))
BY DEF RegistryInv, CallsInv, TypeOK, ApprovedInv, AloneInv

LEMMA NoCallOK ==
  /\ NoCall \in Calls /\ NoCall.pc = "idle" /\ NoCall.kind = "none" /\ NoCall.payload = Empty
  /\ CallFacts(NoCall) /\ \A A : ApprovedFacts(NoCall, A)
BY EmptyRegistry DEF NoCall, Calls, Named, CallFacts, ApprovedFacts

LEMMA StepMoves ==
  ASSUME RegistryInv, NEW c \in Client, NEW w \in Calls, Step(c, w)
  PROVE  work' \in [Client -> Calls] /\ work'[c] = w /\ \A d \in Client \ {c} : work'[d] = work[d]
BY DEF Step, RegistryInv, CallsInv, TypeOK

\* A call goes on and touches neither file.
LEMMA ReadsKeepRegistry ==
  ASSUME RegistryInv, NEW c \in Client, NEW w \in Calls, Step(c, w),
         UNCHANGED <<file, temp, bound, approved, overlapped>>,
         w.pc \notin {"open", "write", "replace"}, CallFacts(w), ApprovedFacts(w, approved),
         ~overlapped /\ w.kind = "create" =>
           /\ w.profile \in Profile /\ file[w.profile] = <<>>
           /\ \A d \in Client \ {c} : work[d].kind # "none" => work[d].profile # w.profile,
         ~overlapped /\ w.kind # "none" =>
           \A d \in Client \ {c} : work[d].kind = "create" => work[d].profile # w.profile
  PROVE  RegistryInv'
<1>1. work' \in [Client -> Calls] /\ work'[c] = w /\ \A d \in Client \ {c} : work'[d] = work[d]
  BY StepMoves
<1>2. CallsInv'
  BY <1>1 DEF RegistryInv, CallsInv, TypeOK
<1>3. ApprovedInv'
  BY <1>1 DEF RegistryInv, ApprovedInv, BoundWasApproved
<1>4. ASSUME ~overlapped, NEW d \in Client PROVE WritesAlone(d)' /\ CreatesAlone(d)'
  <2>1. CASE d = c
    BY <1>1, <1>4, <2>1 DEF WritesAlone, CreatesAlone, Writing
  <2>2. CASE d # c
    <3>1. WritesAlone(d) /\ CreatesAlone(d) /\ work'[d] = work[d]
      BY <1>1, <1>4, <2>2, CallRow
    <3>2. \A e \in Client : Writing(e)' => Writing(e)
      BY <1>1 DEF Writing
    <3>3. WritesAlone(d)'
      BY <1>1, <3>1, <3>2 DEF WritesAlone, Writing
    <3>4. CreatesAlone(d)'
      BY <1>1, <1>4, <2>2, <3>1 DEF CreatesAlone
    <3> QED BY <3>3, <3>4
  <2> QED BY <2>1, <2>2
<1>5. AloneInv'
  BY <1>4 DEF RegistryInv, AloneInv
<1> QED BY <1>2, <1>3, <1>5 DEF RegistryInv

LEMMA EndKeepsRegistry ==
  ASSUME RegistryInv, NEW c \in Client, End(c), UNCHANGED <<file, temp, bound, approved, overlapped>>
  PROVE  RegistryInv'
BY NoCallOK, ReadsKeepRegistry DEF End

LEMMA CurrentHere ==
  ASSUME RegistryInv, NEW p \in Profile, Has(p)
  PROVE  /\ Current(p) \in Revision /\ Current(p).content \in Content
         /\ AuthorOf[Current(p).content] \in Named
         /\ Current(p).status = "APPROVED" => <<p, Current(p).content>> \in approved
<1>1. file \in Registry /\ file \notin Unreadable /\ file[p] # <<>>
  BY DEF RegistryInv, CallsInv, TypeOK, Has
<1>2. file[p] \in Seq(Revision) /\ Len(file[p]) \in Nat /\ DOMAIN file[p] = 1..Len(file[p])
      /\ Len(file[p]) # 0
  BY <1>1, RegistryText
<1>3. Current(p) = file[p][Len(file[p])] /\ Len(file[p]) \in DOMAIN file[p]
  BY <1>2 DEF Current, Last
<1>4. Current(p) \in Revision /\ Vouched(file, approved)
  BY <1>1, <1>2, <1>3 DEF RegistryInv, ApprovedInv
<1>5. Current(p).content \in Content
  BY <1>4 DEF Revision
<1>6. AuthorOf[Current(p).content] \in Named
  BY <1>5, ProfilesAssumption DEF Named
<1> QED BY <1>3, <1>4, <1>5, <1>6 DEF Vouched

\* What is approved in the registry has an approval, and a text of it.
LEMMA ApprovedHere ==
  ASSUME RegistryInv, NEW p \in Profile, IsApproved(p)
  PROVE  <<p, Current(p).content>> \in approved /\ Current(p).content \in Content
BY CurrentHere DEF IsApproved

LEMMA CreateBeginKeeps ==
  ASSUME RegistryInv, NEW c \in Client, NEW p \in Profile, NEW x \in Content, CreateBegin(c, p, x)
  PROVE  RegistryInv'
<1> DEFINE w == [NoCall EXCEPT !.pc = "load", !.kind = "create", !.profile = p, !.content = x]
<1>1. /\ Step(c, w) /\ UNCHANGED <<file, temp, bound, approved, overlapped>>
      /\ file[p] = <<>> /\ \A d \in Client : work[d].profile # p
  BY DEF CreateBegin, registry, history
<1>2. w \in Calls /\ w.pc = "load" /\ w.kind = "create" /\ w.profile = p /\ w.content = x
      /\ w.payload = Empty
  BY NoCallOK DEF Calls
<1> HIDE DEF w
<1>3. CallFacts(w) /\ ApprovedFacts(w, approved)
  BY <1>2, EmptyRegistry DEF CallFacts, ApprovedFacts
<1> QED BY <1>1, <1>2, <1>3, ReadsKeepRegistry

LEMMA StudioBeginKeeps ==
  ASSUME RegistryInv, NEW c \in Client, NEW a \in Author, NEW p \in Derived, StudioBegin(c, a, p)
  PROVE  RegistryInv'
<1> DEFINE w == [NoCall EXCEPT !.pc = "ask", !.kind = "create", !.profile = p, !.author = a]
<1>1. /\ Step(c, w) /\ UNCHANGED <<file, temp, bound, approved, overlapped>>
      /\ file[p] = <<>> /\ \A d \in Client : work[d].profile # p
  BY DEF StudioBegin, registry, history
<1>2. w \in Calls /\ w.pc = "ask" /\ w.kind = "create" /\ w.profile = p /\ w.payload = Empty
  BY NoCallOK DEF Calls, Profile, Named
<1> HIDE DEF w
<1>3. CallFacts(w) /\ ApprovedFacts(w, approved) /\ p \in Profile
  BY <1>2, EmptyRegistry DEF CallFacts, ApprovedFacts, Profile
<1> QED BY <1>1, <1>2, <1>3, ReadsKeepRegistry

\* A call about a profile that is there is about none that is being created.
LEMMA ThereIsNotCreated ==
  ASSUME RegistryInv, NEW p \in Profile, Has(p), ~overlapped, NEW d \in Client,
         work[d].kind = "create"
  PROVE  work[d].profile # p
BY CallRow DEF CreatesAlone, Has

LEMMA ChangeBeginKeeps ==
  ASSUME RegistryInv, NEW c \in Client, NEW p \in Profile,
         ApproveBegin(c, p) \/ \E x \in Content : UpdateBegin(c, p, x)
  PROVE  RegistryInv'
<1>1. CASE ApproveBegin(c, p)
  <2>1. PICK pc \in {"author", "load"}, a \in Named :
          /\ Step(c, [NoCall EXCEPT !.pc = pc, !.kind = "approve", !.profile = p, !.author = a])
          /\ p \in Derived <=> pc = "author"
    <3>1. (IF p \in Derived THEN AuthorOf[Current(p).content] ELSE "none") \in Named
      BY <1>1, CurrentHere DEF ApproveBegin, Named
    <3> QED BY <1>1, <3>1 DEF ApproveBegin
  <2> DEFINE w == [NoCall EXCEPT !.pc = pc, !.kind = "approve", !.profile = p, !.author = a]
  <2>2. Step(c, w) /\ UNCHANGED <<file, temp, bound, approved, overlapped>> /\ Has(p)
    BY <1>1, <2>1 DEF ApproveBegin, registry, history
  <2>3. w \in Calls /\ w.pc = pc /\ w.kind = "approve" /\ w.profile = p /\ w.payload = Empty
    BY NoCallOK DEF Calls
  <2> HIDE DEF w
  <2>4. CallFacts(w) /\ ApprovedFacts(w, approved)
    BY <2>1, <2>3, EmptyRegistry DEF CallFacts, ApprovedFacts
  <2> QED BY <2>2, <2>3, <2>4, ReadsKeepRegistry, ThereIsNotCreated
<1>2. ASSUME NEW x \in Content, UpdateBegin(c, p, x) PROVE RegistryInv'
  <2> DEFINE w == [NoCall EXCEPT !.pc = "load", !.kind = "update", !.profile = p, !.content = x]
  <2>1. Step(c, w) /\ UNCHANGED <<file, temp, bound, approved, overlapped>> /\ Has(p)
    BY <1>2 DEF UpdateBegin, registry, history
  <2>2. w \in Calls /\ w.pc = "load" /\ w.kind = "update" /\ w.profile = p /\ w.content = x
        /\ w.payload = Empty
    BY NoCallOK DEF Calls
  <2> HIDE DEF w
  <2>3. CallFacts(w) /\ ApprovedFacts(w, approved)
    BY <2>2, EmptyRegistry DEF CallFacts, ApprovedFacts
  <2> QED BY <2>1, <2>2, <2>3, ReadsKeepRegistry, ThereIsNotCreated
<1> QED BY <1>1, <1>2

\* What a call knows of the profile it creates does not depend on where it is.
LEMMA GoesOn ==
  ASSUME RegistryInv, NEW c \in Client, NEW w \in Calls, Step(c, w),
         UNCHANGED <<file, temp, bound, approved, overlapped>>,
         w.pc \notin {"open", "write", "replace"}, CallFacts(w), ApprovedFacts(w, approved),
         w.kind = work[c].kind, w.profile = work[c].profile
  PROVE  RegistryInv'
<1>1. ~overlapped => CreatesAlone(c) /\ \A d \in Client : CreatesAlone(d)
  BY CallRow
<1> QED BY <1>1, ReadsKeepRegistry DEF CreatesAlone

LEMMA ApproveAuthorKeeps ==
  ASSUME RegistryInv, NEW c \in Client, ApproveAuthor(c)
  PROVE  RegistryInv'
<1> DEFINE w == [work[c] EXCEPT !.pc = "load"]
<1>1. /\ work[c].pc = "author" /\ Step(c, w) /\ UNCHANGED <<file, temp, bound, approved, overlapped>>
  BY DEF ApproveAuthor, registry, history
<1>2. work[c] \in Calls /\ CallFacts(work[c]) /\ ApprovedFacts(work[c], approved)
  BY CallRow
<1>3. w \in Calls /\ w.pc = "load" /\ w.kind = work[c].kind /\ w.profile = work[c].profile
      /\ w.payload = work[c].payload
  BY <1>2 DEF Calls
<1> HIDE DEF w
<1>4. CallFacts(w) /\ ApprovedFacts(w, approved)
  BY <1>1, <1>2, <1>3 DEF CallFacts, ApprovedFacts
<1> QED BY <1>1, <1>3, <1>4, GoesOn

LEMMA StudioAnswerKeeps ==
  ASSUME RegistryInv, NEW c \in Client, StudioAnswer(c)
  PROVE  RegistryInv'
<1>1. work[c].pc = "ask" /\ UNCHANGED <<file, temp, bound, approved, overlapped>>
  BY DEF StudioAnswer, registry, history
<1>2. work[c] \in Calls /\ CallFacts(work[c]) /\ ApprovedFacts(work[c], approved)
  BY CallRow
<1>3. ASSUME NEW x \in Content, Step(c, [work[c] EXCEPT !.pc = "load", !.content = x])
      PROVE  RegistryInv'
  <2> DEFINE w == [work[c] EXCEPT !.pc = "load", !.content = x]
  <2>1. w \in Calls /\ w.pc = "load" /\ w.kind = work[c].kind /\ w.profile = work[c].profile
        /\ w.payload = work[c].payload /\ w.content = x
    BY <1>2 DEF Calls
  <2>2. Step(c, w)
    BY <1>3
  <2> HIDE DEF w
  <2>3. CallFacts(w) /\ ApprovedFacts(w, approved)
    BY <1>1, <1>2, <2>1 DEF CallFacts, ApprovedFacts
  <2> QED BY <1>1, <2>1, <2>2, <2>3, GoesOn
<1>4. CASE End(c)
  BY <1>1, <1>4, EndKeepsRegistry
<1> QED BY <1>3, <1>4 DEF StudioAnswer

LEMMA BindKeeps ==
  ASSUME RegistryInv, NEW c \in Client,
         BindDerived(c) \/ \E a \in Author, p \in Derived : BindBegin(c, a, p)
  PROVE  RegistryInv'
<1>1. ASSUME NEW a \in Author, NEW p \in Derived, BindBegin(c, a, p) PROVE RegistryInv'
  <2> DEFINE x == Current(a).content
             w == [NoCall EXCEPT !.pc = "bind_derived", !.profile = p, !.author = a, !.authored = x]
  <2>1. Step(c, w) /\ IsApproved(a) /\ UNCHANGED <<file, temp, bound, approved, overlapped>>
    BY <1>1 DEF BindBegin, registry, history
  <2>2. <<a, x>> \in approved /\ x \in Content
    BY <2>1, ApprovedHere DEF Profile
  <2> HIDE DEF x
  <2>3. w \in Calls /\ w.pc = "bind_derived" /\ w.profile = p /\ w.author = a /\ w.authored = x
        /\ w.kind = "none" /\ w.payload = Empty
    BY <2>2, NoCallOK DEF Calls, Profile, Named
  <2> HIDE DEF w
  <2>4. CallFacts(w) /\ ApprovedFacts(w, approved)
    BY <2>2, <2>3, EmptyRegistry DEF CallFacts, ApprovedFacts
  <2> QED BY <2>1, <2>3, <2>4, ReadsKeepRegistry
<1>2. CASE BindDerived(c)
  <2> DEFINE x == Current(work[c].profile).content
             w == [work[c] EXCEPT !.pc = "bind", !.content = x]
  <2>1. /\ Step(c, w) /\ IsApproved(work[c].profile) /\ AuthorOf[x] \in {work[c].author, "none"}
        /\ work[c].pc = "bind_derived" /\ UNCHANGED <<file, temp, bound, approved, overlapped>>
    BY <1>2 DEF BindDerived, Bindable, registry, history
  <2>2. work[c] \in Calls /\ CallFacts(work[c]) /\ ApprovedFacts(work[c], approved)
    BY CallRow
  <2>3. <<work[c].profile, x>> \in approved /\ x \in Content
    BY <2>1, <2>2, ApprovedHere DEF Profile, CallFacts
  <2> HIDE DEF x
  <2>4. w \in Calls /\ w.pc = "bind" /\ w.profile = work[c].profile /\ w.author = work[c].author
        /\ w.authored = work[c].authored /\ w.content = x
        /\ w.kind = work[c].kind /\ w.payload = work[c].payload
    BY <2>2, <2>3 DEF Calls
  <2> HIDE DEF w
  <2>5. CallFacts(w) /\ ApprovedFacts(w, approved)
    BY <2>1, <2>2, <2>3, <2>4 DEF CallFacts, ApprovedFacts
  <2> QED BY <2>1, <2>4, <2>5, GoesOn
<1> QED BY <1>1, <1>2

LEMMA ApprovedMore ==
  ASSUME NEW w, NEW A, NEW B, A \subseteq B, ApprovedFacts(w, A)
  PROVE  ApprovedFacts(w, B)
BY VouchedMore DEF ApprovedFacts

LEMMA EditedText ==
  ASSUME NEW f, NEW w
  PROVE  LET p == w.profile IN
         /\ w.kind = "approve" =>
              Edited(f, w) = [f EXCEPT ![p][Len(f[p])].status = "APPROVED"]
         /\ w.kind = "update" => Edited(f, w) = [f EXCEPT ![p] = Append(f[p], Draft(w.content))]
         /\ w.kind = "create" => Edited(f, w) = [f EXCEPT ![p] = <<Draft(w.content)>>]
BY Zenon DEF Edited

\* What Load makes of the copy it read.
LEMMA LoadEdits ==
  ASSUME RegistryInv, NEW c \in Client, NEW w, w = work[c], NEW p, p = w.profile, Load(c)
  PROVE  /\ p \in Profile /\ Edited(file, w) \in Registry
         /\ approved \subseteq approved' /\ approved' \subseteq Profile \X Content
         /\ Vouched(Edited(file, w), approved')
         /\ ~overlapped => EditOf(file, p, Edited(file, w))
<1>g. PICK g : g = Edited(file, w)
  OBVIOUS
<1>1. w \in Calls /\ CallFacts(w) /\ ApprovedFacts(w, approved) /\ w.pc = "load"
  BY CallRow DEF Load
<1>2. /\ w.kind \in {"create", "update", "approve"} /\ p \in Profile
      /\ w.kind # "approve" => w.content \in Content
  BY <1>1 DEF CallFacts, Calls
<1>3. /\ file \in Registry /\ Vouched(file, approved)
      /\ w.kind # "create" => file[p] # <<>>
      /\ w.kind = "update" => Len(file[p]) < MaxRevisions[p]
  BY DEF Load, RegistryInv, CallsInv, TypeOK, ApprovedInv, Has
<1>4. ~overlapped /\ w.kind = "create" => file[p] = <<>>
  BY CallRow DEF CreatesAlone
<1>5. PICK x : x = Last(file[p]).content
  OBVIOUS
<1>6. approved' = IF w.kind = "approve" THEN approved \union {<<p, x>>} ELSE approved
  BY <1>5 DEF Load, Current
<1>7. approved \subseteq Profile \X Content
  BY DEF RegistryInv, CallsInv, TypeOK
<1>8. CASE w.kind = "approve"
  <2>a. g = [file EXCEPT ![p][Len(file[p])].status = "APPROVED"]
    BY <1>8, <1>g, EditedText
  <2>b. EditOf(file, p, g) /\ Vouched(g, approved \union {<<p, Last(file[p]).content>>})
    BY <1>2, <1>3, <1>8, <2>a, ApprovalEdits
  <2>1. EditOf(file, p, g) /\ Vouched(g, approved')
    BY <1>5, <1>6, <1>8, <2>b
  <2>2. x \in Content
    <3>1. file[p] \in Seq(Revision) /\ Len(file[p]) \in Nat /\ Len(file[p]) # 0
      BY <1>2, <1>3, <1>8, RegistryText
    <3>2. Last(file[p]) \in Revision
      BY <3>1 DEF Last
    <3> QED BY <1>5, <3>2 DEF Revision
  <2>3. approved \subseteq approved' /\ approved' \subseteq Profile \X Content
    BY <1>2, <1>6, <1>7, <2>2
  <2> QED BY <1>2, <1>g, <2>1, <2>3 DEF EditOf
<1>9. CASE w.kind = "update"
  <2>a. g = [file EXCEPT ![p] = Append(file[p], Draft(w.content))]
    BY <1>9, <1>g, EditedText
  <2>1. EditOf(file, p, g) /\ Vouched(g, approved)
    BY <1>2, <1>3, <1>9, <2>a, UpdateEdits
  <2> QED BY <1>2, <1>6, <1>7, <1>9, <1>g, <2>1 DEF EditOf
<1>10. CASE w.kind = "create"
  <2>a. g = [file EXCEPT ![p] = <<Draft(w.content)>>]
    BY <1>10, <1>g, EditedText
  <2>1. g \in Registry /\ Vouched(g, approved) /\ (file[p] = <<>> => EditOf(file, p, g))
    BY <1>2, <1>3, <1>10, <2>a, CreationEdits
  <2> QED BY <1>2, <1>4, <1>6, <1>7, <1>10, <1>g, <2>1
<1> QED BY <1>2, <1>8, <1>9, <1>10

LEMMA LoadKeeps ==
  ASSUME RegistryInv, NEW c \in Client, Load(c)
  PROVE  RegistryInv'
<1>1. PICK w, p, g, o : /\ w = work[c] /\ p = w.profile /\ g = Edited(file, w)
                        /\ o = [w EXCEPT !.pc = "open", !.payload = g]
  OBVIOUS
<1>2. /\ p \in Profile /\ g \in Registry /\ approved \subseteq approved'
      /\ approved' \subseteq Profile \X Content /\ Vouched(g, approved')
      /\ ~overlapped => EditOf(file, p, g)
  BY <1>1, LoadEdits
<1>3. Step(c, o) /\ UNCHANGED <<file, temp, bound>> /\ work[c].pc = "load"
      /\ overlapped' = (overlapped \/ \E d \in Client \ {c} : Writing(d))
  BY <1>1 DEF Load, registry
<1>4. work[c] \in Calls /\ CallFacts(work[c])
  BY CallRow
<1>5. o \in Calls /\ o.pc = "open" /\ o.payload = g /\ o.profile = p /\ o.kind = work[c].kind
  BY <1>1, <1>2, <1>4 DEF Calls
<1>6. work' \in [Client -> Calls] /\ work'[c] = o /\ \A d \in Client \ {c} : work'[d] = work[d]
  BY <1>3, <1>5, StepMoves
<1>7. CallFacts(o) /\ ApprovedFacts(o, approved')
  BY <1>2, <1>3, <1>4, <1>5 DEF CallFacts, ApprovedFacts
<1>8. overlapped' \in BOOLEAN
  <2>1. (\E d \in Client \ {c} : Writing(d)) \in BOOLEAN
    BY Zenon
  <2> QED BY <1>3, <2>1 DEF RegistryInv, CallsInv, TypeOK
<1>9. CallsInv'
  BY <1>2, <1>3, <1>6, <1>7, <1>8 DEF RegistryInv, CallsInv, TypeOK
<1>10. ApprovedInv'
  <2>1. /\ file \notin Unreadable => Vouched(file, approved')
        /\ temp \notin Unreadable \union {Absent} => Vouched(temp, approved')
    BY <1>2, VouchedMore DEF RegistryInv, ApprovedInv
  <2>2. \A d \in Client : ApprovedFacts(work'[d], approved')
    BY <1>2, <1>6, <1>7, ApprovedMore DEF RegistryInv, ApprovedInv
  <2>3. BoundWasApproved'
    BY <1>2, <1>3 DEF RegistryInv, ApprovedInv, BoundWasApproved
  <2> QED BY <1>2, <1>3, <2>1, <2>2, <2>3 DEF ApprovedInv
<1>11. ASSUME ~overlapped' PROVE ~overlapped /\ \A d \in Client \ {c} : ~Writing(d)
  BY <1>3, <1>11
<1>12. ASSUME ~overlapped', NEW d \in Client PROVE WritesAlone(d)' /\ CreatesAlone(d)'
  <2>1. \A e \in Client \ {c} : ~Writing(e)'
    BY <1>6, <1>11, <1>12 DEF Writing
  <2>2. WritesAlone(d)'
    <3>1. CASE d = c
      BY <1>2, <1>3, <1>5, <1>6, <1>11, <1>12, <2>1, <3>1 DEF WritesAlone, EditOf
    <3>2. CASE d # c
      BY <2>1, <3>2 DEF WritesAlone, Writing
    <3> QED BY <3>1, <3>2
  <2>3. \A e \in Client : work'[e].kind = work[e].kind /\ work'[e].profile = work[e].profile
    BY <1>1, <1>5, <1>6
  <2>4. CreatesAlone(d)
    BY <1>11, <1>12, CallRow
  <2>5. CreatesAlone(d)'
    BY <1>3, <2>3, <2>4 DEF CreatesAlone
  <2> QED BY <2>2, <2>5
<1>13. AloneInv'
  BY <1>3, <1>11, <1>12 DEF RegistryInv, AloneInv
<1> QED BY <1>9, <1>10, <1>13 DEF RegistryInv

\* A call that writes goes on over the temporary file; alone, it is the only one.
LEMMA OpenKeeps ==
  ASSUME RegistryInv, NEW c \in Client, Open(c)
  PROVE  RegistryInv'
<1> DEFINE w == [work[c] EXCEPT !.pc = "write", !.fd = "temp"]
<1>1. /\ work[c].pc = "open" /\ temp' = Truncated /\ Step(c, w)
      /\ UNCHANGED <<file, bound, approved, overlapped>>
  BY DEF Open, history
<1>2. work[c] \in Calls /\ CallFacts(work[c]) /\ ApprovedFacts(work[c], approved)
  BY CallRow
<1>3. w \in Calls /\ w.pc = "write" /\ w.fd = "temp" /\ w.payload = work[c].payload
      /\ w.profile = work[c].profile /\ w.kind = work[c].kind
  BY <1>2 DEF Calls
<1> HIDE DEF w
<1>4. work' \in [Client -> Calls] /\ work'[c] = w /\ \A d \in Client \ {c} : work'[d] = work[d]
  BY <1>1, <1>3, StepMoves
<1>5. CallFacts(w) /\ ApprovedFacts(w, approved)
  BY <1>1, <1>2, <1>3 DEF CallFacts, ApprovedFacts
<1>6. CallsInv'
  BY <1>1, <1>4, <1>5 DEF RegistryInv, CallsInv, TypeOK, Unreadable
<1>7. ApprovedInv'
  BY <1>1, <1>4, <1>5 DEF RegistryInv, ApprovedInv, BoundWasApproved, Unreadable
<1>8. ASSUME ~overlapped, NEW d \in Client PROVE WritesAlone(d)' /\ CreatesAlone(d)'
  <2>1. WritesAlone(c) /\ Writing(c) /\ CreatesAlone(d)
    BY <1>1, <1>8, CallRow DEF Writing
  <2>2. \A e \in Client \ {c} : ~Writing(e) /\ ~Writing(e)'
    BY <1>4, <2>1 DEF WritesAlone, Writing
  <2>3. WritesAlone(d)'
    BY <1>1, <1>3, <1>4, <2>1, <2>2 DEF WritesAlone, Writing
  <2>4. \A e \in Client : work'[e].kind = work[e].kind /\ work'[e].profile = work[e].profile
    BY <1>3, <1>4
  <2>5. CreatesAlone(d)'
    BY <1>1, <2>1, <2>4 DEF CreatesAlone
  <2> QED BY <2>3, <2>5
<1>9. AloneInv'
  BY <1>1, <1>8 DEF RegistryInv, AloneInv
<1> QED BY <1>6, <1>7, <1>9 DEF RegistryInv

LEMMA WriteKeeps ==
  ASSUME RegistryInv, NEW c \in Client, Write(c)
  PROVE  RegistryInv'
<1> DEFINE w == [work[c] EXCEPT !.pc = "replace"]
           t == work[c].payload
<1>1. work[c] \in Calls /\ CallFacts(work[c]) /\ ApprovedFacts(work[c], approved)
  BY CallRow
<1>2. /\ work[c].pc = "write" /\ work[c].fd \in {"temp", "file", "gone"} /\ Step(c, w)
      /\ UNCHANGED <<bound, approved, overlapped>> /\ t \in Registry
  BY <1>1 DEF Write, history, CallFacts, Calls
<1>3. w \in Calls /\ w.pc = "replace" /\ w.payload = t
      /\ w.profile = work[c].profile /\ w.kind = work[c].kind
  BY <1>1 DEF Calls
<1>4. /\ work[c].fd = "temp" => temp' \in {t, Torn} /\ file' = file /\ (temp = Truncated => temp' = t)
      /\ work[c].fd = "file" => file' \in {t, Torn} /\ temp' = temp
      /\ work[c].fd = "gone" => file' = file /\ temp' = temp
  BY DEF Write, Put, registry
<1> HIDE DEF w, t
<1>5. work' \in [Client -> Calls] /\ work'[c] = w /\ \A d \in Client \ {c} : work'[d] = work[d]
  BY <1>2, <1>3, StepMoves
<1>6. CallFacts(w) /\ ApprovedFacts(w, approved) /\ Vouched(t, approved)
  BY <1>1, <1>2, <1>3 DEF CallFacts, ApprovedFacts, t
<1>7. file' \in Registry \union Unreadable /\ temp' \in Registry \union Unreadable \union {Absent}
  BY <1>2, <1>4 DEF RegistryInv, CallsInv, TypeOK, Unreadable
<1>8. CallsInv'
  BY <1>2, <1>5, <1>6, <1>7 DEF RegistryInv, CallsInv, TypeOK
<1>9. ApprovedInv'
  <2>1. (file' = file \/ file' \in {t, Torn}) /\ (temp' = temp \/ temp' \in {t, Torn})
    BY <1>2, <1>4
  <2> QED BY <1>2, <1>5, <1>6, <2>1 DEF RegistryInv, ApprovedInv, BoundWasApproved, Unreadable
<1>10. ASSUME ~overlapped PROVE file' = file /\ temp' = t
  <2>1. temp = Truncated /\ work[c].fd = "temp"
    BY <1>2, <1>10, CallRow DEF WritesAlone
  <2> QED BY <1>4, <2>1
<1>11. ASSUME ~overlapped, NEW d \in Client PROVE WritesAlone(d)' /\ CreatesAlone(d)'
  <2>1. WritesAlone(c) /\ Writing(c) /\ CreatesAlone(d)
    BY <1>2, <1>11, CallRow DEF Writing
  <2>2. \A e \in Client \ {c} : ~Writing(e) /\ ~Writing(e)'
    BY <1>5, <2>1 DEF WritesAlone, Writing
  <2>3. WritesAlone(d)'
    BY <1>3, <1>5, <1>10, <1>11, <2>1, <2>2 DEF WritesAlone, Writing, t
  <2>4. \A e \in Client : work'[e].kind = work[e].kind /\ work'[e].profile = work[e].profile
    BY <1>3, <1>5
  <2>5. CreatesAlone(d)'
    BY <1>10, <1>11, <2>1, <2>4 DEF CreatesAlone
  <2> QED BY <2>3, <2>5
<1>12. AloneInv'
  BY <1>2, <1>10, <1>11 DEF RegistryInv, AloneInv
<1> QED BY <1>8, <1>9, <1>12 DEF RegistryInv

LEMMA RenamedRow ==
  ASSUME NEW w \in Calls
  PROVE  LET x == [w EXCEPT !.fd = Renamed(w.fd)] IN
         /\ x \in Calls /\ x.pc = w.pc /\ x.kind = w.kind /\ x.profile = w.profile
         /\ x.content = w.content /\ x.author = w.author /\ x.authored = w.authored
         /\ x.payload = w.payload /\ (w.fd # "none" => x.fd # "none")
<1>1. Renamed(w.fd) \in {"none", "temp", "file", "gone"} /\ (w.fd # "none" => Renamed(w.fd) # "none")
  BY DEF Renamed, Calls
<1> QED BY <1>1 DEF Calls

LEMMA ReplaceKeeps ==
  ASSUME RegistryInv, NEW c \in Client, Replace(c)
  PROVE  RegistryInv'
<1>1. /\ work[c].pc = "replace" /\ temp # Absent /\ file' = temp /\ temp' = Absent
      /\ work' = [d \in Client |-> IF d = c THEN NoCall
                                   ELSE [work[d] EXCEPT !.fd = Renamed(work[d].fd)]]
      /\ UNCHANGED <<bound, approved, overlapped>>
  BY DEF Replace, history
<1>2. ASSUME NEW d \in Client, d # c
      PROVE  /\ work'[d] \in Calls /\ work'[d].pc = work[d].pc /\ work'[d].kind = work[d].kind
             /\ work'[d].profile = work[d].profile /\ work'[d].content = work[d].content
             /\ work'[d].author = work[d].author /\ work'[d].authored = work[d].authored
             /\ work'[d].payload = work[d].payload
             /\ (work[d].fd # "none" => work'[d].fd # "none")
  BY <1>1, <1>2, CallRow, RenamedRow
<1>3. work' \in [Client -> Calls] /\ work'[c] = NoCall
  BY <1>1, <1>2, NoCallOK
<1>4. ASSUME NEW d \in Client PROVE CallFacts(work'[d]) /\ ApprovedFacts(work'[d], approved)
  <2>1. CASE d = c
    BY <1>3, <2>1, NoCallOK
  <2>2. CASE d # c
    <3>1. CallFacts(work[d]) /\ ApprovedFacts(work[d], approved)
      BY CallRow
    <3>2. CallFacts(work'[d])
      BY <1>2, <2>2, <3>1 DEF CallFacts
    <3>3. ApprovedFacts(work'[d], approved)
      BY <1>2, <2>2, <3>1 DEF ApprovedFacts
    <3> QED BY <3>2, <3>3
  <2> QED BY <2>1, <2>2
<1>5. CallsInv'
  BY <1>1, <1>3, <1>4 DEF RegistryInv, CallsInv, TypeOK
<1>6. ApprovedInv'
  BY <1>1, <1>4 DEF RegistryInv, ApprovedInv, BoundWasApproved
<1>7. ASSUME ~overlapped
      PROVE  /\ file' \notin Unreadable /\ file' = work[c].payload
             /\ \A d \in Client \ {c} : ~Writing(d)
             /\ \A p \in Profile \ {work[c].profile} : file'[p] = file[p]
  <2>1. WritesAlone(c) /\ Writing(c) /\ work[c] \in Calls
    BY <1>1, <1>7, CallRow DEF Writing
  <2>2. file' = work[c].payload /\ work[c].payload \in Registry
    BY <1>1, <2>1 DEF WritesAlone, Calls
  <2> QED BY <2>1, <2>2, FileAssumption DEF WritesAlone
<1>8. ASSUME ~overlapped, NEW d \in Client PROVE WritesAlone(d)' /\ CreatesAlone(d)'
  <2>1. CASE d = c
    BY <1>3, <2>1, NoCallOK DEF WritesAlone, CreatesAlone, Writing
  <2>2. CASE d # c
    <3>1. ~Writing(d) /\ CreatesAlone(d) /\ work[c].kind # "none"
      BY <1>1, <1>7, <1>8, <2>2, CallRow DEF CallFacts
    <3>2. WritesAlone(d)'
      BY <1>2, <2>2, <3>1 DEF WritesAlone, Writing
    <3>3. \A e \in Client : work'[e].kind # "none" =>
            work'[e].kind = work[e].kind /\ work'[e].profile = work[e].profile
      BY <1>2, <1>3, NoCallOK
    <3>4. CreatesAlone(d)'
      BY <1>2, <1>7, <1>8, <2>2, <3>1, <3>3 DEF CreatesAlone
    <3> QED BY <3>2, <3>4
  <2> QED BY <2>1, <2>2
<1>9. AloneInv'
  BY <1>1, <1>7, <1>8 DEF RegistryInv, AloneInv
<1> QED BY <1>5, <1>6, <1>9 DEF RegistryInv

LEMMA BoundKeeps ==
  ASSUME RegistryInv, NEW c \in Client, Bind(c)
  PROVE  RegistryInv'
<1>1. /\ work[c].pc = "bind" /\ Step(c, NoCall) /\ UNCHANGED <<file, temp, approved, overlapped>>
      /\ bound' = [p \in Profile |-> CASE p = work[c].author  -> work[c].authored
                                       [] p = work[c].profile -> work[c].content
                                       [] OTHER               -> "none"]
  BY DEF Bind, End, registry, history
<1>2. CallFacts(work[c]) /\ ApprovedFacts(work[c], approved)
  BY CallRow
<1>3. work' \in [Client -> Calls] /\ work'[c] = NoCall /\ \A d \in Client \ {c} : work'[d] = work[d]
  BY <1>1, NoCallOK, StepMoves
<1>4. work[c].author # work[c].profile
  BY <1>1, <1>2, ProfilesAssumption DEF CallFacts
<1>5. ASSUME NEW p \in Profile
      PROVE  bound'[p] \in Content \union {"none"} /\ (bound'[p] # "none" => <<p, bound'[p]>> \in approved)
  <2>1. CASE p = work[c].author
    BY <1>1, <1>2, <1>4, <2>1 DEF CallFacts, ApprovedFacts
  <2>2. CASE p = work[c].profile
    BY <1>1, <1>2, <1>4, <2>2 DEF CallFacts, ApprovedFacts
  <2>3. CASE p \notin {work[c].author, work[c].profile}
    BY <1>1, <2>3
  <2> QED BY <2>1, <2>2, <2>3
<1>6. bound' \in [Profile -> Content \union {"none"}]
  BY <1>1, <1>5
<1>7. CallsInv'
  BY <1>1, <1>3, <1>6, NoCallOK DEF RegistryInv, CallsInv, TypeOK
<1>8. BoundWasApproved'
  <2>1. ASSUME NEW p \in Derived, bound'[p] # "none"
        PROVE  AuthorOf[bound'[p]] \in {"none"} \union {a \in Author : bound'[a] # "none"}
    <3>1. p = work[c].profile /\ p \in Profile /\ work[c].author \in Author \ {p}
      BY <1>1, <1>2, <2>1, ProfilesAssumption DEF CallFacts, Profile
    <3>2. bound'[p] = work[c].content
      BY <1>1, <3>1
    <3>3. bound'[work[c].author] = work[c].authored /\ work[c].authored # "none"
      BY <1>1, <1>2, <3>1, ProfilesAssumption DEF CallFacts, Profile
    <3> QED BY <1>1, <1>2, <3>1, <3>2, <3>3 DEF ApprovedFacts
  <2> QED BY <1>1, <1>5, <2>1 DEF BoundWasApproved
<1>9. ApprovedInv'
  BY <1>1, <1>3, <1>8, NoCallOK DEF RegistryInv, ApprovedInv
<1>10. ASSUME ~overlapped, NEW d \in Client PROVE WritesAlone(d)' /\ CreatesAlone(d)'
  <2>1. \A e \in Client : (Writing(e)' => Writing(e)) /\
          (work'[e].kind # "none" => work'[e] = work[e]) /\ (work'[e].pc # "idle" => work'[e] = work[e])
    BY <1>3, NoCallOK DEF Writing
  <2>2. WritesAlone(d) /\ CreatesAlone(d)
    BY <1>10, CallRow
  <2>3. WritesAlone(d)'
    BY <1>1, <2>1, <2>2 DEF WritesAlone, Writing
  <2>4. CreatesAlone(d)'
    BY <1>1, <2>1, <2>2 DEF CreatesAlone
  <2> QED BY <2>3, <2>4
<1>11. AloneInv'
  BY <1>1, <1>10 DEF RegistryInv, AloneInv
<1> QED BY <1>7, <1>9, <1>11 DEF RegistryInv

LEMMA CrashKeeps ==
  ASSUME RegistryInv, Crash
  PROVE  RegistryInv'
<1>1. work' = [c \in Client |-> NoCall] /\ UNCHANGED <<file, temp, bound, approved, overlapped>>
  BY DEF Crash, registry, history
<1>2. CallsInv'
  BY <1>1, NoCallOK DEF RegistryInv, CallsInv, TypeOK
<1>3. ApprovedInv'
  BY <1>1, NoCallOK DEF RegistryInv, ApprovedInv, BoundWasApproved
<1>4. AloneInv'
  BY <1>1, NoCallOK DEF RegistryInv, AloneInv, WritesAlone, CreatesAlone, Writing
<1> QED BY <1>2, <1>3, <1>4 DEF RegistryInv

LEMMA RegistryStutter ==
  ASSUME RegistryInv, UNCHANGED vars
  PROVE  RegistryInv'
<1>1. UNCHANGED <<file, temp, bound, work, approved, overlapped>>
  BY DEF vars, registry, history
<1>2. CallsInv' /\ ApprovedInv'
  BY <1>1 DEF RegistryInv, CallsInv, TypeOK, ApprovedInv, BoundWasApproved
<1>3. AloneInv'
  BY <1>1 DEF RegistryInv, AloneInv, WritesAlone, CreatesAlone, Writing
<1> QED BY <1>2, <1>3 DEF RegistryInv

LEMMA RaiseKeeps ==
  ASSUME RegistryInv, NEW c \in Client, Raise(c)
  PROVE  RegistryInv'
<1>1. End(c) /\ UNCHANGED <<file, temp, bound, approved, overlapped>>
  BY DEF Raise, registry, history
<1> QED BY <1>1, EndKeepsRegistry

LEMMA RegistryStep == RegistryInv /\ [Next]_vars => RegistryInv'
<1> SUFFICES ASSUME RegistryInv, Next \/ UNCHANGED vars PROVE RegistryInv'
  OBVIOUS
<1>1. ASSUME NEW c \in Client,
             \/ \E p \in Profile, x \in Content : CreateBegin(c, p, x) \/ UpdateBegin(c, p, x)
             \/ \E p \in Profile : ApproveBegin(c, p)
             \/ \E a \in Author, p \in Derived : StudioBegin(c, a, p) \/ BindBegin(c, a, p)
             \/ ApproveAuthor(c) \/ StudioAnswer(c)
             \/ Load(c) \/ Open(c) \/ Write(c) \/ Replace(c)
             \/ BindDerived(c) \/ Bind(c)
             \/ Raise(c)
      PROVE  RegistryInv'
  BY <1>1, CreateBeginKeeps, ChangeBeginKeeps, StudioBeginKeeps, BindKeeps, ApproveAuthorKeeps,
     StudioAnswerKeeps, LoadKeeps, OpenKeeps, WriteKeeps, ReplaceKeeps, BoundKeeps, RaiseKeeps
<1> QED BY <1>1, CrashKeeps, RegistryStutter DEF Next

LEMMA RegistryStart == Init => RegistryInv
<1> SUFFICES ASSUME Init PROVE RegistryInv
  OBVIOUS
<1>1. file = Empty /\ temp = Absent /\ work = [c \in Client |-> NoCall] /\ approved = {}
      /\ overlapped = FALSE /\ bound = [p \in Profile |-> "none"]
  BY DEF Init
<1>2. CallsInv
  BY <1>1, EmptyRegistry, NoCallOK DEF CallsInv, TypeOK
<1>3. ApprovedInv
  BY <1>1, EmptyRegistry, NoCallOK, ProfilesAssumption DEF ApprovedInv, BoundWasApproved, Profile
<1>4. AloneInv
  BY <1>1, EmptyRegistry, NoCallOK, FileAssumption DEF AloneInv, WritesAlone, CreatesAlone, Writing
<1> QED BY <1>2, <1>3, <1>4 DEF RegistryInv

(***************************************************************************)
(* The ledger: its inductive invariant.                                    *)
(***************************************************************************)
\* An accepted asset stays accepted; a released one stays released unless a status was written over
\* one that its call had not read.
Settled(a, used) ==
  IF used THEN canon[a] = "USED_ACCEPTED" ELSE a \in overwrote \/ canon[a] = "RELEASED"

\* What a closure has done with the assets it is through with.
DoneWith(d) ==
  /\ d.used \intersect d.released = {}
  /\ \A a \in d.used \ d.todo : Settled(a, TRUE)
  /\ \A a \in d.released \ d.todo : Settled(a, FALSE)

DeedFacts(d) ==
  /\ d.pc = "write" =>
       /\ d.asset \in Asset /\ d.from \in Status /\ d.to \in Allowed(d.from)
       /\ d.master # "none" =>
            /\ DoneWith(d)
            /\ d.asset \in d.todo
            /\ d.to = IF d.asset \in d.used THEN "USED_ACCEPTED" ELSE "RELEASED"
  /\ d.pc = "next" => d.master \in Master /\ DoneWith(d)

LedgerInv ==
  /\ canon \in [Asset -> Status] /\ overwrote \subseteq Asset
  /\ closures \subseteq Closure
  /\ deed \in [Client -> Deed]

DeedsInv == \A c \in Client : DeedFacts(deed[c])

CanonInv == LedgerInv /\ DeedsInv /\ ClosureStands

(***************************************************************************)
(* The table of transitions.                                               *)
(***************************************************************************)
LEMMA TransitionTable ==
  ASSUME NEW s \in Status
  PROVE  Allowed(s) \subseteq Status /\ (s = "RELEASED" => Allowed(s) = {})
BY DEF Allowed, Status

LEMMA NoDeedOK == NoDeed \in Deed /\ DeedFacts(NoDeed)
BY DEF NoDeed, Deed, DeedFacts

(***************************************************************************)
(* Steps of the ledger.                                                    *)
(***************************************************************************)
\* A call goes on to d; the ledger is left alone.
LEMMA ReadStep ==
  ASSUME CanonInv, NEW c \in Client, NEW d \in Deed, Do(c, d), DeedFacts(d),
         UNCHANGED <<canon, overwrote>>,
         closures' \subseteq Closure,
         \A x \in closures' \ closures :
           x.used \intersect x.released = {}
             /\ (\A a \in x.used : Settled(a, TRUE)) /\ (\A a \in x.released : Settled(a, FALSE))
  PROVE  CanonInv'
<1>1. deed' \in [Client -> Deed] /\ deed'[c] = d /\ \A b \in Client \ {c} : deed'[b] = deed[b]
  BY DEF Do, CanonInv, LedgerInv
<1>2. \A x : DeedFacts(x)' <=> DeedFacts(x)
  BY DEF DeedFacts, DoneWith, Settled
<1>3. DeedsInv'
  <2> SUFFICES ASSUME NEW b \in Client PROVE DeedFacts(deed[b])'
    BY DEF DeedsInv
  <2>1. DeedFacts(deed'[b])
    BY <1>1 DEF CanonInv, DeedsInv
  <2> QED BY <2>1 DEF DeedFacts, DoneWith, Settled
<1>4. ClosureStands'
  BY DEF CanonInv, ClosureStands, Settled
<1> QED BY <1>1, <1>3, <1>4 DEF CanonInv, LedgerInv

LEMMA TransitionReadStep ==
  ASSUME CanonInv, NEW c \in Client, NEW a \in Asset, NEW s \in Status, TransitionRead(c, a, s)
  PROVE  CanonInv'
<1> DEFINE d == [NoDeed EXCEPT !.pc = "write", !.asset = a, !.from = canon[a], !.to = s]
<1>1. Do(c, d) /\ s \in Allowed(canon[a]) /\ UNCHANGED <<canon, closures, overwrote>>
  BY DEF TransitionRead
<1>2. canon[a] \in Status
  BY DEF CanonInv, LedgerInv
<1>3. d \in Deed /\ d.pc = "write" /\ d.master = "none" /\ d.asset = a /\ d.from = canon[a] /\ d.to = s
  BY <1>2, NoDeedOK DEF Deed, NoDeed
<1> HIDE DEF d
<1>4. DeedFacts(d)
  BY <1>1, <1>2, <1>3 DEF DeedFacts
<1> QED BY <1>1, <1>3, <1>4, ReadStep DEF CanonInv, LedgerInv

LEMMA CloseBeginStep ==
  ASSUME CanonInv, NEW c \in Client, NEW p, NEW m \in Master, NEW U \in SUBSET Asset,
         NEW R \in SUBSET Asset, CloseBegin(c, p, m, U, R)
  PROVE  CanonInv'
<1> DEFINE d == [NoDeed EXCEPT !.pc = "next", !.master = m, !.used = U, !.released = R,
                               !.todo = U \union R]
<1>1. Do(c, d) /\ U \intersect R = {} /\ UNCHANGED <<canon, closures, overwrote>>
  BY DEF CloseBegin
<1>2. d \in Deed /\ d.pc = "next" /\ d.master = m /\ d.used = U /\ d.released = R /\ d.todo = U \union R
  BY NoDeedOK DEF Deed, NoDeed
<1> HIDE DEF d
<1>3. DeedFacts(d)
  BY <1>1, <1>2 DEF DeedFacts, DoneWith
<1> QED BY <1>1, <1>2, <1>3, ReadStep DEF CanonInv, LedgerInv

LEMMA CloseNextStep ==
  ASSUME CanonInv, NEW c \in Client, NEW a \in Asset, CloseNext(c, a)
  PROVE  CanonInv'
<1> DEFINE s == IF a \in deed[c].used THEN "USED_ACCEPTED" ELSE "RELEASED"
           done == [deed[c] EXCEPT !.todo = deed[c].todo \ {a}]
           next == [deed[c] EXCEPT !.pc = "write", !.asset = a, !.from = canon[a], !.to = s]
<1>1. /\ deed[c] \in Deed /\ DoneWith(deed[c]) /\ deed[c].pc = "next" /\ a \in deed[c].todo
      /\ deed[c].master \in Master
  BY DEF CanonInv, LedgerInv, DeedsInv, DeedFacts, CloseNext
<1>2. canon[a] \in Status /\ s \in Status
  BY DEF CanonInv, LedgerInv, Status
<1>3. UNCHANGED <<canon, closures, overwrote>>
      /\ \/ canon[a] = s /\ Do(c, done)
         \/ s \in Allowed(canon[a]) /\ Do(c, next)
  BY DEF CloseNext
<1>4. CASE canon[a] = s /\ Do(c, done)
  <2>1. done \in Deed /\ done.pc = "next" /\ done.used = deed[c].used
        /\ done.released = deed[c].released /\ done.todo = deed[c].todo \ {a}
        /\ done.master = deed[c].master
    BY <1>1 DEF Deed
  <2> HIDE DEF done
  <2>2. done.master \in Master /\ DoneWith(done)
    BY <1>1, <1>4, <2>1 DEF DoneWith, Settled
  <2> QED BY <1>3, <1>4, <2>1, <2>2, ReadStep DEF DeedFacts, CanonInv, LedgerInv
<1>5. CASE s \in Allowed(canon[a]) /\ Do(c, next)
  <2>1. next \in Deed /\ next.pc = "write" /\ next.asset = a /\ next.from = canon[a] /\ next.to = s
        /\ next.used = deed[c].used /\ next.released = deed[c].released
        /\ next.todo = deed[c].todo
    BY <1>1, <1>2 DEF Deed
  <2> HIDE DEF next
  <2>2. DoneWith(next)
    BY <1>1, <2>1 DEF DoneWith
  <2>3. DeedFacts(next)
    BY <1>1, <1>2, <1>5, <2>1, <2>2 DEF DeedFacts
  <2> QED BY <1>3, <1>5, <2>1, <2>3, ReadStep DEF CanonInv, LedgerInv
<1> QED BY <1>3, <1>4, <1>5

LEMMA CloseInsertStep ==
  ASSUME CanonInv, NEW c \in Client, CloseInsert(c)
  PROVE  CanonInv'
<1> DEFINE x == [master |-> deed[c].master, used |-> deed[c].used, released |-> deed[c].released]
<1>1. /\ deed[c] \in Deed /\ deed[c].master \in Master /\ DoneWith(deed[c]) /\ deed[c].todo = {}
      /\ closures' = closures \union {x} /\ Do(c, NoDeed) /\ UNCHANGED <<canon, overwrote>>
  BY DEF CanonInv, LedgerInv, DeedsInv, DeedFacts, CloseInsert, Done
<1>2. x \in Closure /\ x.used = deed[c].used /\ x.released = deed[c].released
  BY <1>1 DEF Closure, Deed
<1> HIDE DEF x
<1>3. closures' \subseteq Closure
  BY <1>1, <1>2 DEF CanonInv, LedgerInv
<1>4. \A y \in closures' \ closures :
        y.used \intersect y.released = {}
          /\ (\A a \in y.used : Settled(a, TRUE)) /\ (\A a \in y.released : Settled(a, FALSE))
  BY <1>1, <1>2 DEF DoneWith
<1> QED BY <1>1, <1>3, <1>4, NoDeedOK, ReadStep

LEMMA CanonEndsStep ==
  ASSUME CanonInv, NEW c \in Client, CanonEnds(c)
  PROVE  CanonInv'
BY NoDeedOK, ReadStep DEF CanonEnds, Done, CanonInv, LedgerInv

\* An UPDATE keeps what other calls and the closures have settled.
LEMMA UpdateKeeps ==
  ASSUME CanonInv, NEW c \in Client, TransitionWrite(c), NEW a \in Asset, NEW used \in BOOLEAN,
         Settled(a, used)
  PROVE  Settled(a, used)'
<1> DEFINE d == deed[c]
<1>1. /\ canon' = [canon EXCEPT ![d.asset] = d.to] /\ canon \in [Asset -> Status]
      /\ canon[d.asset] # "USED_ACCEPTED" \/ canon[d.asset] = d.to
      /\ overwrote' = IF canon[d.asset] = d.from THEN overwrote ELSE overwrote \union {d.asset}
      /\ d.asset \in Asset /\ d.from \in Status /\ d.to \in Allowed(d.from)
  BY DEF CanonInv, LedgerInv, DeedsInv, DeedFacts, TransitionWrite, Changeable
<1>2. canon[d.asset] = "RELEASED" => d.asset \in overwrote'
  BY <1>1, TransitionTable
<1> HIDE DEF d
<1> QED BY <1>1, <1>2 DEF Settled

LEMMA TransitionWriteStep ==
  ASSUME CanonInv, NEW c \in Client, TransitionWrite(c)
  PROVE  CanonInv'
<1>1. PICK d \in Deed : d = deed[c]
  BY DEF CanonInv, LedgerInv
<1>2. PICK next \in Deed :
        /\ next = [d EXCEPT !.pc = "next", !.todo = d.todo \ {d.asset}, !.asset = "none",
                            !.from = "none", !.to = "none"]
        /\ next.pc = "next" /\ next.master = d.master /\ next.used = d.used
        /\ next.released = d.released /\ next.todo = d.todo \ {d.asset}
  <2> DEFINE x == [d EXCEPT !.pc = "next", !.todo = d.todo \ {d.asset}, !.asset = "none",
                            !.from = "none", !.to = "none"]
  <2>1. /\ x \in Deed /\ x.pc = "next" /\ x.master = d.master /\ x.used = d.used
        /\ x.released = d.released /\ x.todo = d.todo \ {d.asset}
    BY DEF Deed
  <2> HIDE DEF x
  <2> QED BY <2>1 DEF x
<1>3. /\ d \in Deed /\ d.pc = "write" /\ DeedFacts(d)
      /\ canon' = [canon EXCEPT ![d.asset] = d.to]
      /\ overwrote' = IF canon[d.asset] = d.from THEN overwrote ELSE overwrote \union {d.asset}
      /\ closures' = closures
      /\ IF d.master = "none" THEN Do(c, NoDeed) ELSE Do(c, next)
  BY <1>1, <1>2 DEF CanonInv, LedgerInv, DeedsInv, TransitionWrite, Done
<1>4. d.asset \in Asset /\ d.to \in Status
  BY <1>3, TransitionTable DEF DeedFacts
<1>5. canon' \in [Asset -> Status] /\ overwrote' \subseteq Asset /\ canon'[d.asset] = d.to
  BY <1>3, <1>4 DEF CanonInv, LedgerInv
<1>6. ASSUME NEW e \in Deed, DoneWith(e) PROVE DoneWith(e)'
  <2>1. e.used \subseteq Asset /\ e.released \subseteq Asset
    BY DEF Deed
  <2> QED BY <1>6, <2>1, UpdateKeeps DEF DoneWith
<1>7. ASSUME NEW e \in Deed, DeedFacts(e) PROVE DeedFacts(e)'
  BY <1>6, <1>7 DEF DeedFacts
<1>8. ClosureStands'
  <2>1. ASSUME NEW x \in closures, NEW a \in x.used PROVE canon'[a] = "USED_ACCEPTED"
    BY <2>1, UpdateKeeps DEF CanonInv, ClosureStands, LedgerInv, Closure, Settled
  <2>2. ASSUME NEW x \in closures, NEW a \in x.released, a \notin overwrote'
        PROVE  canon'[a] = "RELEASED"
    <3>1. a \in Asset /\ Settled(a, FALSE)
      BY DEF CanonInv, ClosureStands, LedgerInv, Closure, Settled
    <3> QED BY <2>2, <3>1, UpdateKeeps DEF Settled
  <2> QED BY <1>3, <2>1, <2>2 DEF ClosureStands
<1>9. d.master # "none" => DeedFacts(next)'
  <2> SUFFICES ASSUME d.master # "none" PROVE DoneWith(next)'
    BY <1>3, <1>2 DEF DeedFacts, Deed
  <2>1. DoneWith(d)' /\ d.to = IF d.asset \in d.used THEN "USED_ACCEPTED" ELSE "RELEASED"
    BY <1>3, <1>6 DEF DeedFacts
  <2> QED BY <1>5, <1>2, <2>1 DEF DoneWith, Settled
<1>10. deed' \in [Client -> Deed]
  BY <1>3, NoDeedOK DEF Do, CanonInv, LedgerInv
<1>11. DeedsInv'
  <2> SUFFICES ASSUME NEW b \in Client PROVE DeedFacts(deed[b])'
    BY DEF DeedsInv
  <2>1. CASE b # c
    <3>1. deed'[b] = deed[b] /\ deed[b] \in Deed /\ DeedFacts(deed[b])
      BY <1>3, <2>1 DEF Do, CanonInv, LedgerInv, DeedsInv
    <3> QED BY <1>7, <3>1
  <2>2. CASE b = c
    <3>1. deed'[c] = IF d.master = "none" THEN NoDeed ELSE next
      BY <1>3 DEF Do, CanonInv, LedgerInv
    <3> QED BY <1>7, <1>9, <2>2, <3>1, NoDeedOK
  <2> QED BY <2>1, <2>2
<1> QED BY <1>3, <1>5, <1>8, <1>10, <1>11 DEF CanonInv, LedgerInv

LEMMA ProfilesKeep ==
  ASSUME CanonInv, UNCHANGED canonVars
  PROVE  CanonInv'
<1>1. UNCHANGED <<canon, closures, deed, overwrote>>
  BY DEF canonVars
<1> QED BY <1>1 DEF CanonInv, LedgerInv, DeedsInv, DeedFacts, DoneWith, Settled, ClosureStands

LEMMA CanonStep == CanonInv /\ [ProfileNext \/ CanonNext]_<<vars, canonVars>> => CanonInv'
<1> SUFFICES ASSUME CanonInv, ProfileNext \/ CanonNext \/ UNCHANGED canonVars PROVE CanonInv'
  OBVIOUS
<1>1. CASE ProfileNext \/ UNCHANGED canonVars
  BY <1>1, ProfilesKeep DEF ProfileNext
<1>2. CASE CanonNext
  BY <1>2, TransitionReadStep, CloseBeginStep, CloseNextStep, TransitionWriteStep, CloseInsertStep,
     CanonEndsStep DEF CanonNext
<1> QED BY <1>1, <1>2

LEMMA CanonStart == InitCanon => CanonInv
BY NoDeedOK DEF InitCanon, CanonInv, LedgerInv, DeedsInv, ClosureStands, Status

LEMMA SeriesRegistryStep ==
  RegistryInv /\ [ProfileNext \/ CanonNext]_<<vars, canonVars>> => RegistryInv'
<1>1. CanonNext => UNCHANGED vars
  BY DEF CanonNext, TransitionRead, CloseBegin, CloseNext, TransitionWrite, CloseInsert, CanonEnds
<1> QED BY <1>1, RegistryStep, RegistryStutter DEF ProfileNext

LEMMA SeriesRegistry == SeriesSpec => []RegistryInv
BY RegistryStart, SeriesRegistryStep, PTL DEF SeriesSpec

\* What a step does to the registry, when no calls have overlapped.
LEMMA KeptByStep ==
  ASSUME RegistryInv, Next, ~overlapped', NEW p \in Profile
  PROVE  Keeps(file[p], file'[p])
<1>1. ~overlapped /\ file \in Registry
  BY DEF Next, CreateBegin, UpdateBegin, ApproveBegin, StudioBegin, BindBegin, ApproveAuthor,
         StudioAnswer, Load, Open, Write, Replace, BindDerived, Bind, Raise, Crash, history,
         RegistryInv, CallsInv, TypeOK, AloneInv
<1>2. ASSUME file' = file PROVE Keeps(file[p], file'[p])
  BY <1>1, <1>2, RegistryText DEF Keeps
<1>3. ASSUME NEW c \in Client, Replace(c) PROVE Keeps(file[p], file'[p])
  <2>1. WritesAlone(c) /\ Writing(c) /\ work[c].pc = "replace"
    BY <1>1, <1>3, CallRow DEF Replace, Writing
  <2>2. file' = work[c].payload
    BY <1>3, <2>1 DEF Replace, WritesAlone
  <2>3. Keeps(file[work[c].profile], file'[work[c].profile])
        /\ \A q \in Profile \ {work[c].profile} : file'[q] = file[q]
    BY <2>1, <2>2 DEF WritesAlone
  <2>4. CASE p = work[c].profile
    BY <2>3, <2>4
  <2>5. CASE p # work[c].profile
    BY <1>1, <2>3, <2>5, RegistryText DEF Keeps
  <2> QED BY <2>4, <2>5
<1>4. ASSUME NEW c \in Client, Write(c) PROVE file' = file
  <2>1. work[c].fd = "temp"
    BY <1>1, <1>4, CallRow DEF Write, WritesAlone
  <2> QED BY <1>4, <2>1 DEF Write
<1>5. (\E c \in Client : Replace(c) \/ Write(c)) \/ file' = file
  BY DEF Next, CreateBegin, UpdateBegin, ApproveBegin, StudioBegin, BindBegin, ApproveAuthor,
         StudioAnswer, Load, Open, BindDerived, Bind, Raise, Crash, registry
<1> QED BY <1>2, <1>3, <1>4, <1>5

(***************************************************************************)
(* The theorems.                                                           *)
(***************************************************************************)
\* For any assets, masters and callers, the assets a closure used stay USED_ACCEPTED and those it
\* released stay RELEASED unless a call wrote over a status it had not read, however transitions and
\* closures race and wherever they are cut short (transition_canon_asset, close_series_book, the trigger
\* protect_used_accepted_asset_status).
THEOREM ClosuresStand == SeriesSpec => []ClosureStands
<1>1. CanonInv => ClosureStands
  BY DEF CanonInv
<1> QED BY <1>1, CanonStart, CanonStep, PTL DEF SeriesSpec

\* The profiles, the calls on them, the canon ledger and its calls stay what the code stores, for any
\* profiles, callers and revisions: in particular, a call that renames another's half-written file
\* leaves a text of the registry or no JSON at all, nothing else (book_context.py,
\* series_production.py).
THEOREM SeriesTypeCorrect == SeriesSpec => []SeriesTypeOK
<1>1. RegistryInv /\ CanonInv => SeriesTypeOK
  BY DEF RegistryInv, CallsInv, CanonInv, LedgerInv, SeriesTypeOK
<1>2. SeriesSpec => []CanonInv
  BY CanonStart, CanonStep, PTL DEF SeriesSpec
<1> QED BY <1>1, <1>2, SeriesRegistry, PTL

\* However calls overlap, lose each other's changes or are cut short, and whatever authors the edits
\* name meanwhile, a book is bound only to contents that were approved, and to a series or style only
\* together with an approved content of the author it names (approve_profile, save_context).
THEOREM BindingsWereApproved == SeriesSpec => []BoundWasApproved
<1>1. RegistryInv => BoundWasApproved
  BY DEF RegistryInv, ApprovedInv
<1> QED BY <1>1, SeriesRegistry, PTL

\* Wherever the core exits, the registry can be parsed afterwards if no call had read it while another
\* was about to replace it: the text is complete before the rename (_write).
THEOREM RegistryIsReadable == SeriesSpec => []ReadableAfterExit
<1>1. RegistryInv => ReadableAfterExit
  BY DEF RegistryInv, AloneInv, ReadableAfterExit
<1> QED BY <1>1, SeriesRegistry, PTL

\* Calls that do not overlap never drop or rewrite a revision of any profile: a step adds one or
\* marks one approved (create, update, approve).
THEOREM RevisionsAreKept == SeriesSpec => HistoryKept
<1> DEFINE Kept(p) == /\ Len(file[p]) <= Len(file'[p])
                      /\ \A i \in DOMAIN file[p] :
                           \/ file'[p][i] = file[p][i]
                           \/ file'[p][i] = [file[p][i] EXCEPT !.status = "APPROVED"]
           AllKept == ~overlapped' => \A p \in Profile : Kept(p)
<1>1. RegistryInv /\ [ProfileNext \/ CanonNext]_<<vars, canonVars>> => [AllKept]_vars
  <2> SUFFICES ASSUME RegistryInv, Next, ~overlapped', NEW p \in Profile PROVE Kept(p)
    BY DEF ProfileNext, CanonNext, TransitionRead, CloseBegin, CloseNext, TransitionWrite,
           CloseInsert, CanonEnds
  <2> QED BY KeptByStep DEF Keeps
<1> QED BY <1>1, SeriesRegistry, PTL DEF SeriesSpec, HistoryKept

================================================================================
