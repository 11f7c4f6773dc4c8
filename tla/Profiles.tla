------------------------------- MODULE Profiles -------------------------------
(***************************************************************************)
(* Author, Series and Style profiles (ProfileRegistry and                  *)
(* BookContextService, book_context.py; SeriesStudioService,               *)
(* series_studio.py).                                                      *)
(*                                                                         *)
(* The profiles of all books are one JSON file.  Every call reads the      *)
(* file, changes the copy and writes it back through one temporary name    *)
(* that all calls share: open and truncate, write, rename over the file.   *)
(* Nothing locks the file, so two calls can lose each other's change, and  *)
(* a call whose temporary file was renamed by another writes into the      *)
(* registry itself.                                                        *)
(*                                                                         *)
(* A book is bound to contents of profiles, by hash, not to revisions.     *)
(* The author of a series or style is part of the content, so each edit    *)
(* may name another.                                                       *)
(***************************************************************************)
EXTENDS Integers, Sequences, SequencesExt

CONSTANTS Author, Derived,   \* profiles: of authors; of series and styles
          Content, Client,
          AuthorOf,          \* author_profile_id in a content of a Derived profile
          Truncated, Torn,   \* an empty file; one with parts of two texts: no JSON in either
          Absent,            \* no such file
          MaxRevisions       \* revisions each profile gets in an instance

ASSUME ProfilesAssumption ==
  /\ Author \intersect Derived = {} /\ "none" \notin Content
  /\ AuthorOf \in [Content -> Author \union {"none", "other"}]
  /\ MaxRevisions \in [Author \union Derived -> Nat \ {0}]

VARIABLES
  file,        \* context-profiles.json
  temp,        \* context-profiles.tmp
  bound,       \* the content of each profile the book is bound to, or "none"
  work,        \* the call each client has in flight
  approved,    \* history: <<profile, content>> some call has approved
  overlapped   \* history: one call read the file while another was about to replace it

registry == <<file, temp>>
history  == <<approved, overlapped>>
vars     == <<registry, bound, work, history>>

Profile  == Author \union Derived
Revision == [content : Content, status : {"DRAFT", "APPROVED"}]

Registry == {f \in [Profile -> Seq(Revision)] : \A p \in Profile : Len(f[p]) <= MaxRevisions[p]}
Empty    == [p \in Profile |-> <<>>]

\* _read raises.
Unreadable == {Truncated, Torn}

ASSUME FileAssumption == Unreadable \intersect Registry = {} /\ Absent \notin Registry \union Unreadable

\* A free style names no author ("none"); nothing checks that an id is an author's ("other").
Named == Author \union {"none", "other"}

\* fd: what the temporary file a call opened is by now.
Calls ==
  [pc : {"idle", "ask", "author", "load", "open", "write", "replace", "bind_derived", "bind"},
   kind : {"none", "create", "update", "approve"},
   profile : Profile \union {"none"}, content : Content \union {"none"},
   author : Named, authored : Content \union {"none"},
   payload : Registry, fd : {"none", "temp", "file", "gone"}]

NoCall == [pc |-> "idle", kind |-> "none", profile |-> "none", content |-> "none",
           author |-> "none", authored |-> "none", payload |-> Empty, fd |-> "none"]

Init ==
  /\ file = Empty /\ temp = Absent
  /\ bound = [p \in Profile |-> "none"]
  /\ work = [c \in Client |-> NoCall]
  /\ approved = {} /\ overlapped = FALSE

Idle(c)    == work[c].pc = "idle"
Step(c, w) == work' = [work EXCEPT ![c] = w]
End(c)     == Step(c, NoCall)

\* _read and _view: the file can be parsed and has the profile; its last revision is current.
Has(p)        == file \notin Unreadable /\ file[p] # <<>>
Current(p)    == Last(file[p])
IsApproved(p) == Has(p) /\ Current(p).status = "APPROVED"

AuthorApproved(a) == a = "none" \/ (a \in Author /\ IsApproved(a))

(***************************************************************************)
(* The first reads of each call.                                           *)
(***************************************************************************)
CreateBegin(c, p, x) ==
  /\ Idle(c) /\ file \notin Unreadable /\ file[p] = <<>> /\ \A d \in Client : work[d].profile # p
  /\ Step(c, [NoCall EXCEPT !.pc = "load", !.kind = "create", !.profile = p, !.content = x])
  /\ UNCHANGED <<registry, bound, history>>

UpdateBegin(c, p, x) ==
  /\ Idle(c) /\ Has(p) /\ Len(file[p]) < MaxRevisions[p]
  /\ Step(c, [NoCall EXCEPT !.pc = "load", !.kind = "update", !.profile = p, !.content = x])
  /\ UNCHANGED <<registry, bound, history>>

\* The author to look up is the one named by the content read here.
ApproveBegin(c, p) ==
  /\ Idle(c) /\ Has(p) /\ Current(p).status = "DRAFT"
  /\ Step(c, [NoCall EXCEPT
               !.pc = IF p \in Derived THEN "author" ELSE "load",
               !.kind = "approve", !.profile = p,
               !.author = IF p \in Derived THEN AuthorOf[Current(p).content] ELSE "none"])
  /\ UNCHANGED <<registry, bound, history>>

ApproveAuthor(c) ==
  /\ work[c].pc = "author" /\ AuthorApproved(work[c].author)
  /\ Step(c, [work[c] EXCEPT !.pc = "load"])
  /\ UNCHANGED <<registry, bound, history>>

\* create_with_ai: a model request between the author's approval and the new profile.
StudioBegin(c, a, p) ==
  /\ Idle(c) /\ IsApproved(a) /\ file[p] = <<>>
  /\ \A d \in Client : work[d].profile # p
  /\ Step(c, [NoCall EXCEPT !.pc = "ask", !.kind = "create", !.profile = p, !.author = a])
  /\ UNCHANGED <<registry, bound, history>>

\* The answer is made to name the author asked for.
StudioAnswer(c) ==
  /\ work[c].pc = "ask"
  /\ \/ \E x \in {y \in Content : AuthorOf[y] = work[c].author} :
          Step(c, [work[c] EXCEPT !.pc = "load", !.content = x])
     \/ End(c)
  /\ UNCHANGED <<registry, bound, history>>

(***************************************************************************)
(* Read the registry again, change the copy, write it.                     *)
(***************************************************************************)
Draft(x) == [content |-> x, status |-> "DRAFT"]

\* Variant: an edit replaces the current revision.
EditInPlace(f, w) ==
  CASE w.kind = "approve" -> [f EXCEPT ![w.profile][Len(f[w.profile])].status = "APPROVED"]
    [] w.kind = "update"  -> [f EXCEPT ![w.profile][Len(f[w.profile])] = Draft(w.content)]
    [] w.kind = "create"  -> [f EXCEPT ![w.profile] = <<Draft(w.content)>>]

\* An approval marks whatever revision is current in the copy.
Edited(f, w) ==
  CASE w.kind = "approve" -> [f EXCEPT ![w.profile][Len(f[w.profile])].status = "APPROVED"]
    [] w.kind = "update"  -> [f EXCEPT ![w.profile] = Append(@, Draft(w.content))]
    [] w.kind = "create"  -> [f EXCEPT ![w.profile] = <<Draft(w.content)>>]

Writing(c) == work[c].pc \in {"open", "write", "replace"}

Load(c) ==
  LET w == work[c] IN
  /\ w.pc = "load" /\ file \notin Unreadable
  /\ w.kind = "create" \/ Has(w.profile)
  /\ w.kind = "update" => Len(file[w.profile]) < MaxRevisions[w.profile]
  /\ Step(c, [w EXCEPT !.pc = "open", !.payload = Edited(file, w)])
  /\ approved' = IF w.kind = "approve"
                 THEN approved \union {<<w.profile, Current(w.profile).content>>} ELSE approved
  /\ overlapped' = (overlapped \/ \E d \in Client \ {c} : Writing(d))
  /\ UNCHANGED <<registry, bound>>

\* Variant: no temporary file.
OpenInPlace(c) ==
  /\ work[c].pc = "open"
  /\ file' = Truncated
  /\ Step(c, [work[c] EXCEPT !.pc = "write", !.fd = "file"])
  /\ UNCHANGED <<temp, bound, history>>

Open(c) ==
  /\ work[c].pc = "open"
  /\ temp' = Truncated
  /\ Step(c, [work[c] EXCEPT !.pc = "write", !.fd = "temp"])
  /\ UNCHANGED <<file, bound, history>>

\* The text goes to the start of the file: the end of what is there, if longer, remains.
Put(f, text) == IF f = Truncated THEN {text} ELSE {text, Torn}

Write(c) ==
  LET w == work[c] IN
  /\ w.pc = "write"
  /\ Step(c, [w EXCEPT !.pc = "replace"])
  /\ CASE w.fd = "temp" -> temp' \in Put(temp, w.payload) /\ UNCHANGED file
       [] w.fd = "file" -> file' \in Put(file, w.payload) /\ UNCHANGED temp
       [] w.fd = "gone" -> UNCHANGED registry
  /\ UNCHANGED <<bound, history>>

\* What another call has open under the temporary name becomes the registry.
Renamed(fd) == CASE fd = "temp" -> "file" [] fd = "file" -> "gone" [] OTHER -> fd

\* Variant: a missing temporary file is not noticed.
ReplaceAnyway(c) ==
  /\ work[c].pc = "replace"
  /\ file' = temp /\ temp' = Absent
  /\ work' = [d \in Client |-> IF d = c THEN NoCall ELSE [work[d] EXCEPT !.fd = Renamed(@)]]
  /\ UNCHANGED <<bound, history>>

Replace(c) ==
  /\ work[c].pc = "replace" /\ temp # Absent
  /\ file' = temp /\ temp' = Absent
  /\ work' = [d \in Client |-> IF d = c THEN NoCall ELSE [work[d] EXCEPT !.fd = Renamed(@)]]
  /\ UNCHANGED <<bound, history>>

(***************************************************************************)
(* save_context: the profiles one read each, then the row.  A request      *)
(* names an author, a style and perhaps a series; the model binds one      *)
(* derived profile, read and checked in the same way.                      *)
(***************************************************************************)
BindBegin(c, a, p) ==
  /\ Idle(c) /\ IsApproved(a)
  /\ Step(c, [NoCall EXCEPT !.pc = "bind_derived", !.profile = p, !.author = a,
                            !.authored = Current(a).content])
  /\ UNCHANGED <<registry, bound, history>>

\* Approved, and of the author selected, by the content just read.
Bindable(p, a) == IsApproved(p) /\ AuthorOf[Current(p).content] \in {a, "none"}

BindDerived(c) ==
  LET w == work[c] IN
  /\ w.pc = "bind_derived" /\ Bindable(w.profile, w.author)
  /\ Step(c, [w EXCEPT !.pc = "bind", !.content = Current(w.profile).content])
  /\ UNCHANGED <<registry, bound, history>>

\* Variant: the row takes what the profile is by then.
BindCurrent(c) ==
  LET w == work[c] IN
  /\ w.pc = "bind" /\ Has(w.profile)
  /\ bound' = [p \in Profile |-> CASE p = w.author  -> w.authored
                                   [] p = w.profile -> Current(p).content
                                   [] OTHER         -> "none"]
  /\ End(c)
  /\ UNCHANGED <<registry, history>>

Bind(c) ==
  LET w == work[c] IN
  /\ w.pc = "bind"
  /\ bound' = [p \in Profile |-> CASE p = w.author  -> w.authored
                                   [] p = w.profile -> w.content
                                   [] OTHER         -> "none"]
  /\ End(c)
  /\ UNCHANGED <<registry, history>>

\* get_profile_by_hash: the first revision with the content.
Resolved(p) == file[p][SelectInSeq(file[p], LAMBDA r : r.content = bound[p])]

\* get_context and ready_for_planning.
Ready == \A p \in Profile : bound[p] # "none" => Resolved(p).status = "APPROVED"

(***************************************************************************)
(* Failures.                                                               *)
(***************************************************************************)
\* A read finds no JSON, no profile or no approval, or the rename finds no file.
Raise(c) ==
  LET w == work[c] IN
  /\ \/ w.pc = "author" /\ ~AuthorApproved(w.author)
     \/ w.pc = "load" /\ (file \in Unreadable \/ (w.kind # "create" /\ ~Has(w.profile)))
     \/ w.pc = "load" /\ w.kind = "update" /\ Has(w.profile) /\ Len(file[w.profile]) = MaxRevisions[w.profile]
     \/ w.pc = "bind_derived" /\ ~Bindable(w.profile, w.author)
     \/ w.pc = "replace" /\ temp = Absent
  /\ End(c)
  /\ UNCHANGED <<registry, bound, history>>

\* The core exits; what is in the two files stays.
Crash ==
  /\ \E c \in Client : ~Idle(c)
  /\ work' = [c \in Client |-> NoCall]
  /\ UNCHANGED <<registry, bound, history>>

Next ==
  \/ \E c \in Client :
       \/ \E p \in Profile, x \in Content : CreateBegin(c, p, x) \/ UpdateBegin(c, p, x)
       \/ \E p \in Profile : ApproveBegin(c, p)
       \/ \E a \in Author, p \in Derived : StudioBegin(c, a, p) \/ BindBegin(c, a, p)
       \/ ApproveAuthor(c) \/ StudioAnswer(c)
       \/ Load(c) \/ Open(c) \/ Write(c) \/ Replace(c)
       \/ BindDerived(c) \/ Bind(c)
       \/ Raise(c)
  \/ Crash

Spec == Init /\ [][Next]_vars

(***************************************************************************)
(* Properties.                                                             *)
(***************************************************************************)
TypeOK ==
  /\ file \in Registry \union Unreadable /\ temp \in Registry \union Unreadable \union {Absent}
  /\ bound \in [Profile -> Content \union {"none"}]
  /\ work \in [Client -> Calls]
  /\ approved \subseteq Profile \X Content /\ overlapped \in BOOLEAN

\* Whatever call the core exits in, the registry can be parsed afterwards, as long as no call had
\* read it while another was about to replace it (the temporary file and the rename in _write).
ReadableAfterExit == file \in Unreadable => overlapped

\* Calls that do not overlap lose nothing: revisions are only added, and only a draft's status
\* changes (the copy is read again after the checks and written as a whole).
HistoryKept ==
  [][~overlapped' =>
       \A p \in Profile :
         /\ Len(file[p]) <= Len(file'[p])
         /\ \A i \in DOMAIN file[p] :
              \/ file'[p][i] = file[p][i]
              \/ file'[p][i] = [file[p][i] EXCEPT !.status = "APPROVED"]]_vars

\* However calls overlap and lose each other's changes, a book is only ever bound to contents that
\* an approval was given for, and to a series or style only together with the author that content
\* names.  The second part is save_context's: an approval may have been given to a content whose
\* author nobody approved, since approve_profile reads the profile again after looking at its author.
BoundWasApproved ==
  \A p \in Profile : bound[p] # "none" =>
    /\ <<p, bound[p]>> \in approved
    /\ p \in Derived => AuthorOf[bound[p]] \in {"none"} \union {a \in Author : bound[a] # "none"}

\* get_profile_by_hash: "Resolve the exact immutable profile revision bound to a book."  What
\* save_context bound was approved, so the book is ready for planning.
BoundIsReady == overlapped \/ Ready
===============================================================================
