----------------------------- MODULE ProjectsProofs -----------------------------
(***************************************************************************)
(* Proofs about Projects.                                                  *)
(*                                                                         *)
(* The invariant is built in four layers, each proved on the ones before:  *)
(* every row names rows of its own document (TypeInv), what a call's gates *)
(* read is never taken back (OrderInv), a draft waits in one place at a    *)
(* time (DraftInv), and a call that runs alone finds the workspace as it   *)
(* left it (AloneInv).                                                     *)
(***************************************************************************)
EXTENDS Projects, SequenceTheorems, TLAPS

Row == [slot : Slot, entity : Rev, chapters : SUBSET Chapter, source : Rev]
Ent(r) == revisions[r].entity
Src(r) == revisions[r].source

\* An entity is named by its first revision; a draft is its own source.
RowsInv ==
  /\ revisions \in Seq(Row) /\ Len(revisions) <= MaxRevisions
  /\ \A r \in 1..Len(revisions) :
       /\ Ent(r) \in 1..r /\ Ent(Ent(r)) = Ent(r) /\ revisions[Ent(r)].slot = revisions[r].slot
       /\ Src(r) \in 1..r /\ Ent(Src(r)) = Ent(r) /\ Src(Src(r)) = Src(r)
       /\ Src(Ent(r)) = Ent(r)

IsEntity(e) == e \in 1..Len(revisions) /\ Ent(e) = e
Version(r, e) == r \in 1..Len(revisions) /\ Ent(r) = e

TablesInv ==
  /\ ref \in [Slot -> 0..Len(revisions)]
  /\ \A s \in Slot : ref[s] # 0 => IsEntity(ref[s]) /\ revisions[ref[s]].slot = s
  /\ head \in [Rev -> 0..Len(revisions)]
  /\ working \in [Rev -> 0..Len(revisions)]
  /\ \A e \in Rev : /\ head[e] # 0 => Version(head[e], e)
                    /\ working[e] # 0 => Version(working[e], e) /\ Src(working[e]) = working[e]
  /\ \A r \in 1..Len(revisions) : head[Ent(r)] # 0
  /\ approved \subseteq 1..Len(revisions)
  /\ \A r \in approved : r <= head[Ent(r)] /\ head[Ent(r)] \in approved
  /\ chapters \in [Chapter -> ChapterState]
  /\ \A r \in 1..Len(revisions) : revisions[r].slot \in Chapter => chapters[revisions[r].slot] # "absent"
  /\ stage \in Stage
  /\ saved \in [Slot -> 0..Len(revisions)]
  /\ calls \in 0..MaxCalls /\ overlapped \in BOOLEAN

Facts(o) ==
  /\ o.pc = "register" /\ o.slot \in Chapter => chapters[o.slot] # "absent"
  /\ o.pc \notin {"idle", "register", "read_ref"} =>
       IsEntity(o.entity) /\ revisions[o.entity].slot = o.slot
  /\ o.pc = "set_working" => Version(o.source, o.entity) /\ Src(o.source) = o.source
  /\ o.pc \in {"read_working", "accept", "view_working"} =>
       Version(o.base, o.entity) /\ o.base <= head[o.entity]
  /\ o.pc = "accept" \/ (o.pc = "finish" /\ o.slot = "architecture") => Version(o.source, o.entity)

OpsInv == op \in [Client -> OpState] /\ \A c \in Client : Facts(op[c])

TypeInv == RowsInv /\ TablesInv /\ OpsInv

Approving == {"read_ref", "read_head", "read_working", "accept", "clear_working", "view_head",
              "view_working", "finish"}
Accepted == {"clear_working", "view_head", "view_working", "finish"}

Gated(o) ==
  /\ o.pc \in Approving /\ o.slot = "architecture" => ApprovalsOf("contract") # {}
  /\ o.pc \in Approving /\ o.slot \in Chapter =>
       \E a \in ApprovalsOf("architecture") : o.slot \in revisions[a].chapters
  /\ o.pc \in Accepted => ApprovalsOf(o.slot) # {}

OrderInv ==
  /\ BuiltInOrder
  /\ stage # "BOOK DEFINITION" => ApprovalsOf("contract") # {}
  /\ \A c \in Client : Gated(op[c])

Pending(d) == \E c \in Client : op[c].pc = "set_working" /\ op[c].source = d
Spent(d) == \E r \in approved : Src(r) = d

ReadOnce(o) ==
  /\ o.pc \in {"read_working", "accept"} => ~Pending(Src(o.base))
  /\ o.pc = "accept" => ~Pending(Src(o.source))
  /\ o.pc = "accept" /\ o.base = head[o.entity] =>
       /\ Spent(Src(o.source)) => Src(o.source) = Src(head[o.entity])
       /\ working[o.entity] # 0 /\ Spent(working[o.entity]) => Src(o.source) = working[o.entity]

DraftInv ==
  /\ NoDraftReinstated
  /\ \A c, d \in Client : /\ op[c].pc = "set_working" /\ op[d].pc = "set_working"
                          /\ op[c].source = op[d].source
                          => c = d
  /\ \A r \in approved : ~Pending(Src(r))
  /\ \A e \in Rev : /\ head[e] # 0 => ~Pending(Src(head[e]))
                    /\ working[e] # 0 => ~Pending(working[e])
                    /\ working[e] # 0 /\ Spent(working[e]) => Src(head[e]) = working[e]
  /\ \A c \in Client : ReadOnce(op[c])

Undisturbed(o) ==
  /\ o.pc \in {"register", "set_ref"} => ref[o.slot] = 0
  /\ o.pc = "set_ref" => head[o.entity] = o.entity /\ working[o.entity] = 0
  /\ o.pc \notin {"idle", "register", "set_ref", "read_ref"} => o.entity = ref[o.slot]
  /\ o.pc \in {"read_working", "accept", "view_working"} => o.base = head[o.entity]
  /\ o.pc = "accept" => o.source = View(o.slot)
  /\ o.pc \in Accepted => head[o.entity] \in approved
  /\ o.pc = "clear_working" /\ saved[o.slot] # 0 => Src(head[o.entity]) = saved[o.slot]
  /\ o.pc \in {"view_head", "view_working", "finish"} => working[o.entity] = 0
  /\ o.pc = "finish" /\ o.slot = "architecture" => o.source = head[o.entity]
  /\ o.pc \in Approving /\ o.slot \in Chapter =>
       Approved("architecture") /\ o.slot \in revisions[head[ref["architecture"]]].chapters

\* a is the architecture whose chapters are carried out.
CarriedOut(a) ==
  /\ revisions[a].chapters \subseteq CurrentChapters
  /\ \A k \in CurrentChapters \ revisions[a].chapters :
       /\ chapters[k] = "CONTRACT_APPROVED"
       /\ \E b \in ApprovalsOf("architecture") : b > a /\ k \in revisions[b].chapters

Shown == \A s \in Slot : saved[s] # 0 => ref[s] # 0 /\ Src(View(s)) = saved[s]
Owned == \A r \in approved : ref[revisions[r].slot] = Ent(r)
Carried == (\E k \in Chapter : chapters[k] # "absent") => \E a \in ApprovalsOf("architecture") : CarriedOut(a)

AloneInv ==
  ~overlapped =>
    /\ \A c, d \in Client : op[c].pc # "idle" /\ op[d].pc # "idle" => c = d
    /\ Shown /\ Owned /\ Carried
    /\ \A c \in Client : Undisturbed(op[c])

(***************************************************************************)
(* Rows and calls.                                                         *)
(***************************************************************************)
LEMMA Bounds == MaxRevisions \in Nat /\ MaxCalls \in Nat /\ Rev \subseteq Nat
BY BoundsAssumption DEF Rev

LEMMA IdleRow == Idle \in OpState /\ Idle.pc = "idle" /\ Facts(Idle)
BY Bounds DEF Idle, OpState, Slot, Rev0, Facts

\* What the tables and the calls rely on is never taken back.
Grows ==
  /\ Len(revisions) <= Len(revisions')
  /\ \A r \in 1..Len(revisions) : revisions'[r] = revisions[r]
  /\ \A e \in Rev : head[e] <= head'[e]
  /\ \A k \in Chapter : chapters[k] # "absent" => chapters'[k] # "absent"

LEMMA InsertRow ==
  ASSUME RowsInv, NEW s \in Slot, NEW e, NEW x \in SUBSET Chapter, NEW d, Insert(s, e, x, d),
         \/ e = NewRevision /\ d = NewRevision
         \/ /\ IsEntity(e) /\ revisions[e].slot = s
            /\ d = NewRevision \/ \E v \in Rev : Version(v, e) /\ d = Src(v)
  PROVE  /\ RowsInv' /\ NewRevision \in Rev /\ Len(revisions') = NewRevision
         /\ revisions'[NewRevision] = [slot |-> s, entity |-> e, chapters |-> x, source |-> d]
         /\ \A r \in 1..Len(revisions) : revisions'[r] = revisions[r]
<1> DEFINE n == NewRevision
           row == [slot |-> s, entity |-> e, chapters |-> x, source |-> d]
<1>1. Len(revisions) \in Nat /\ n = Len(revisions) + 1 /\ n \in Rev /\ Len(revisions) < MaxRevisions
  BY Bounds DEF RowsInv, Insert, NewRevision, Rev
<1>2. e \in 1..n /\ d \in 1..n
  BY <1>1 DEF IsEntity, Version, RowsInv, NewRevision
<1>3. row \in Row
  BY <1>1, <1>2, Bounds DEF Row, Rev
<1>4. /\ revisions' \in Seq(Row) /\ Len(revisions') = n /\ revisions'[n] = row
      /\ \A r \in 1..Len(revisions) : revisions'[r] = revisions[r]
  <2>1. revisions \in Seq(Row) /\ revisions' = Append(revisions, row)
    BY DEF RowsInv, Insert
  <2> HIDE DEF row
  <2> QED BY <1>1, <1>3, <2>1
<1>5. ASSUME NEW r \in 1..Len(revisions')
      PROVE  /\ Ent(r)' \in 1..r /\ Ent(Ent(r))' = Ent(r)' /\ (revisions[Ent(r)].slot = revisions[r].slot)'
             /\ Src(r)' \in 1..r /\ Ent(Src(r))' = Ent(r)' /\ Src(Src(r))' = Src(r)'
             /\ Src(Ent(r))' = Ent(r)'
  <2>1. CASE r \in 1..Len(revisions)
    BY <1>1, <1>4, <2>1 DEF RowsInv, Ent, Src
  <2>2. CASE r = n
    <3>1. CASE e = n /\ d = n
      BY <1>1, <1>4, <2>2, <3>1 DEF Ent, Src
    <3>2. CASE IsEntity(e) /\ revisions[e].slot = s /\ d = n
      BY <1>1, <1>4, <2>2, <3>2 DEF RowsInv, Ent, Src, IsEntity
    <3>3. CASE IsEntity(e) /\ revisions[e].slot = s /\ \E v \in Rev : Version(v, e) /\ d = Src(v)
      <4>1. PICK v \in 1..Len(revisions) : Ent(v) = e /\ d = Src(v)
        BY <3>3 DEF Version
      <4>2. d \in 1..Len(revisions) /\ Ent(d) = e /\ Src(d) = d
        BY <1>1, <4>1 DEF RowsInv
      <4> QED BY <1>1, <1>4, <2>2, <3>3, <4>2 DEF RowsInv, Ent, Src, IsEntity
    <3> QED BY <3>1, <3>2, <3>3
  <2> QED BY <1>1, <1>4, <2>1, <2>2
<1>6. Len(revisions') <= MaxRevisions
  BY <1>1, <1>4 DEF Rev
<1>7. RowsInv'
  BY <1>4, <1>5, <1>6 DEF RowsInv
<1> QED BY <1>1, <1>4, <1>7

LEMMA FactsStay ==
  ASSUME TypeInv, Grows, head' \in [Rev -> 0..Len(revisions')], NEW o \in OpState, Facts(o)
  PROVE  Facts(o)'
<1>1. /\ Len(revisions) \in Nat /\ Len(revisions') >= Len(revisions)
      /\ o.entity \in Nat /\ o.base \in Nat /\ o.source \in Nat
  BY Bounds DEF TypeInv, RowsInv, Grows, OpState, Rev0
<1>2. ASSUME NEW e, IsEntity(e), NEW s, revisions[e].slot = s PROVE IsEntity(e)' /\ revisions'[e].slot = s
  BY <1>1, <1>2 DEF IsEntity, Ent, Grows
<1>3. ASSUME NEW r, NEW e, Version(r, e) PROVE Version(r, e)' /\ Src(r)' = Src(r)
  BY <1>1, <1>3 DEF Version, Ent, Src, Grows
<1>4. o.base <= head[o.entity] /\ o.entity \in Rev => o.base <= head'[o.entity]
  BY <1>1 DEF Grows, TypeInv, TablesInv
<1>5. IsEntity(o.entity) => o.entity \in Rev
  BY <1>1, Bounds DEF IsEntity, TypeInv, RowsInv, Rev
<1>6. o.pc = "register" /\ o.slot \in Chapter => chapters'[o.slot] # "absent"
  BY DEF Facts, Grows
<1> QED BY <1>2, <1>3, <1>4, <1>5, <1>6 DEF Facts

LEMMA OpsGrow ==
  ASSUME TypeInv, Grows, TablesInv', NEW c \in Client, NEW o \in OpState, op' = [op EXCEPT ![c] = o],
         Facts(o)'
  PROVE  OpsInv'
<1>1. op' \in [Client -> OpState] /\ op'[c] = o /\ \A d \in Client \ {c} : op'[d] = op[d]
  BY DEF TypeInv, OpsInv
<1>2. head' \in [Rev -> 0..Len(revisions')]
  BY DEF TablesInv
<1>3. ASSUME NEW d \in Client PROVE \E x : op'[d] = x /\ Facts(x)'
  BY <1>1, <1>2, FactsStay DEF TypeInv, OpsInv
<1>4. \A d \in Client : Facts(op[d])'
  <2> TAKE d \in Client
  <2>1. PICK x : op'[d] = x /\ Facts(x)'
    BY <1>3
  <2> QED BY <2>1 DEF Facts
<1> QED BY <1>1, <1>4 DEF OpsInv

LEMMA OpRow ==
  ASSUME TypeInv, NEW c \in Client
  PROVE  /\ op \in [Client -> OpState] /\ op[c] \in OpState /\ Facts(op[c]) /\ op[c].slot \in Slot
         /\ op[c].content \in SUBSET Chapter /\ op[c].entity \in Rev0 /\ op[c].base \in Rev0
         /\ op[c].source \in Rev0
BY DEF TypeInv, OpsInv, OpState

\* A step that changes one call only.
LEMMA OpStep ==
  ASSUME TypeInv, UNCHANGED store, calls' \in 0..MaxCalls, overlapped' \in BOOLEAN,
         NEW c \in Client, NEW o \in OpState, op' = [op EXCEPT ![c] = o], Facts(o)
  PROVE  TypeInv'
<1>1. UNCHANGED <<revisions, ref, head, approved, working, chapters, stage, saved>>
  BY DEF store
<1>2. RowsInv' /\ TablesInv'
  BY <1>1 DEF TypeInv, RowsInv, TablesInv, Ent, Src, IsEntity, Version
<1>3. Grows
  <2>1. Len(revisions) \in Nat /\ \A e \in Rev : head[e] \in Nat
    BY DEF TypeInv, RowsInv, TablesInv
  <2> QED BY <1>1, <2>1 DEF Grows
<1>4. Facts(o)'
  BY <1>2, <1>3, FactsStay DEF TablesInv
<1> QED BY <1>2, <1>3, <1>4, OpsGrow DEF TypeInv

LEMMA StartTypes ==
  ASSUME TypeInv, NEW c \in Client, NEW s \in Slot,
         ApproveBegin(c, s) \/ \E x \in ContentOf(s) : SaveBegin(c, s, x)
  PROVE  TypeInv'
<1>1. CASE ApproveBegin(c, s)
  <2> DEFINE o == [Idle EXCEPT !.pc = "read_ref", !.slot = s]
  <2>1. o \in OpState /\ Facts(o)
    BY IdleRow DEF OpState, Facts, Idle
  <2>2. UNCHANGED store /\ op' = [op EXCEPT ![c] = o] /\ calls < MaxCalls /\ calls' = calls + 1
        /\ overlapped' \in BOOLEAN
    BY <1>1 DEF ApproveBegin, Start, Goto, TypeInv, TablesInv
  <2>3. calls' \in 0..MaxCalls
    BY <2>2, Bounds DEF TypeInv, TablesInv
  <2> HIDE DEF o
  <2> QED BY <2>1, <2>2, <2>3, OpStep
<1>2. ASSUME NEW x \in ContentOf(s), SaveBegin(c, s, x)
      PROVE  TypeInv'
  <2> DEFINE o == [Idle EXCEPT !.pc = IF ref[s] = 0 THEN "register" ELSE "create",
                               !.slot = s, !.content = x, !.entity = ref[s]]
  <2>1. x \in SUBSET Chapter /\ ref[s] \in Rev0
    BY Bounds DEF ContentOf, TypeInv, TablesInv, RowsInv, Rev0
  <2>2. o \in OpState /\ o.pc \in {"register", "create"} /\ o.slot = s /\ o.entity = ref[s]
        /\ (o.pc = "create" => ref[s] # 0)
    BY <2>1, IdleRow DEF OpState, Idle
  <2>3. /\ UNCHANGED store /\ op' = [op EXCEPT ![c] = o] /\ calls < MaxCalls /\ calls' = calls + 1
        /\ overlapped' \in BOOLEAN
        /\ s \in Chapter => chapters[s] # "absent"
    BY <1>2 DEF SaveBegin, Start, Goto, TypeInv, TablesInv
  <2>4. calls' \in 0..MaxCalls
    BY <2>3, Bounds DEF TypeInv, TablesInv
  <2> HIDE DEF o
  <2>5. Facts(o)
    BY <2>2, <2>3 DEF Facts, TypeInv, TablesInv
  <2> QED BY <2>2, <2>3, <2>4, <2>5, OpStep
<1> QED BY <1>1, <1>2

\* The head of a document has a revision, and so has its draft or head.
LEMMA HeadRow ==
  ASSUME TypeInv, NEW e, IsEntity(e)
  PROVE  /\ e \in Rev /\ head[e] \in 1..Len(revisions) /\ Version(head[e], e) /\ head[e] # 0
         /\ \A b : Version(b, e) => Version(DraftOrHead(e, b), e)
<1>1. e \in 1..Len(revisions) /\ Ent(e) = e /\ e \in Rev
  BY Bounds DEF IsEntity, TypeInv, RowsInv, Rev
<1>2. head[e] # 0 /\ head[e] \in 0..Len(revisions) /\ working[e] \in 0..Len(revisions)
  BY <1>1 DEF TypeInv, TablesInv
<1> QED BY <1>1, <1>2 DEF TypeInv, TablesInv, DraftOrHead, Version

LEMMA ReadTypes ==
  ASSUME TypeInv, NEW c \in Client,
         ApproveReadRef(c) \/ ApproveReadHead(c) \/ ApproveReadWorking(c) \/ ViewHead(c) \/ ViewWorking(c)
  PROVE  TypeInv'
<1>1. PICK o : o = op[c] /\ o \in OpState /\ Facts(o) /\ o.slot \in Slot /\ o.entity \in Rev0
               /\ o.content \in SUBSET Chapter /\ o.base \in Rev0 /\ o.source \in Rev0
  BY OpRow
<1>2. UNCHANGED store /\ UNCHANGED <<calls, overlapped>>
  BY DEF ApproveReadRef, ApproveReadHead, ApproveReadWorking, ViewHead, ViewWorking, count
<1>3. calls' \in 0..MaxCalls /\ overlapped' \in BOOLEAN
  BY <1>2 DEF TypeInv, TablesInv
<1>4. Len(revisions) \in Nat /\ Len(revisions) <= MaxRevisions
  BY DEF TypeInv, RowsInv
<1>5. SUFFICES \E x \in OpState : op' = [op EXCEPT ![c] = x] /\ Facts(x)
  BY <1>2, <1>3, OpStep
<1>6. CASE ApproveReadRef(c)
  <2> DEFINE x == [o EXCEPT !.pc = "read_head", !.entity = ref[o.slot]]
  <2>1. ref[o.slot] # 0 /\ op' = [op EXCEPT ![c] = x]
    BY <1>1, <1>6 DEF ApproveReadRef, Goto
  <2>2. ref[o.slot] \in Rev0 /\ IsEntity(ref[o.slot]) /\ revisions[ref[o.slot]].slot = o.slot
    BY <1>1, <1>4, <2>1, Bounds DEF TypeInv, TablesInv, Rev0
  <2>3. x \in OpState /\ x.pc = "read_head" /\ x.entity = ref[o.slot] /\ x.slot = o.slot
    BY <1>1, <2>2 DEF OpState
  <2> HIDE DEF x
  <2>4. Facts(x)
    BY <2>2, <2>3 DEF Facts
  <2> QED BY <2>1, <2>3, <2>4
<1>7. ASSUME ApproveReadHead(c) \/ ViewHead(c)
      PROVE  \E x \in OpState : op' = [op EXCEPT ![c] = x] /\ Facts(x)
  <2>1. PICK pc \in {"read_working", "view_working"} :
              op' = [op EXCEPT ![c] = [o EXCEPT !.pc = pc, !.base = head[o.entity]]]
    BY <1>1, <1>7 DEF ApproveReadHead, ViewHead, Goto
  <2> DEFINE x == [o EXCEPT !.pc = pc, !.base = head[o.entity]]
  <2>2. IsEntity(o.entity) /\ revisions[o.entity].slot = o.slot
    BY <1>1, <1>7 DEF ApproveReadHead, ViewHead, Facts
  <2>3. head[o.entity] \in 1..Len(revisions) /\ Version(head[o.entity], o.entity)
    BY <2>2, HeadRow
  <2>4. head[o.entity] \in Rev0
    BY <1>4, <2>3, Bounds DEF Rev0
  <2>5. x \in OpState /\ x.pc = pc /\ x.entity = o.entity /\ x.slot = o.slot /\ x.base = head[o.entity]
    BY <1>1, <2>4 DEF OpState
  <2> HIDE DEF x
  <2>6. Facts(x)
    BY <2>2, <2>3, <2>5 DEF Facts
  <2> QED BY <2>1, <2>5, <2>6 DEF x
<1>8. ASSUME ApproveReadWorking(c) \/ ViewWorking(c)
      PROVE  \E x \in OpState : op' = [op EXCEPT ![c] = x] /\ Facts(x)
  <2>1. PICK pc \in {"accept", "finish"} :
              op' = [op EXCEPT ![c] = [o EXCEPT !.pc = pc, !.source = DraftOrHead(o.entity, o.base)]]
    BY <1>1, <1>8 DEF ApproveReadWorking, ViewWorking, Goto
  <2> DEFINE x == [o EXCEPT !.pc = pc, !.source = DraftOrHead(o.entity, o.base)]
  <2>2. /\ IsEntity(o.entity) /\ revisions[o.entity].slot = o.slot
        /\ Version(o.base, o.entity) /\ o.base <= head[o.entity]
    BY <1>1, <1>8 DEF ApproveReadWorking, ViewWorking, Facts
  <2>3. Version(DraftOrHead(o.entity, o.base), o.entity)
    BY <2>2, HeadRow
  <2>4. DraftOrHead(o.entity, o.base) \in Rev0
    BY <1>4, <2>3, Bounds DEF Version, Rev0
  <2>5. /\ x \in OpState /\ x.pc = pc /\ x.entity = o.entity /\ x.slot = o.slot /\ x.base = o.base
        /\ x.source = DraftOrHead(o.entity, o.base)
    BY <1>1, <2>4 DEF OpState
  <2> HIDE DEF x
  <2>6. Facts(x)
    BY <2>2, <2>3, <2>5 DEF Facts
  <2> QED BY <2>1, <2>5, <2>6 DEF x
<1> QED BY <1>6, <1>7, <1>8

LEMMA RowRange ==
  ASSUME RowsInv
  PROVE  /\ Len(revisions) \in Nat /\ Len(revisions) <= MaxRevisions
         /\ \A r \in 1..Len(revisions) :
              /\ r \in Rev /\ r \in Nat /\ Ent(r) \in Rev /\ Ent(r) \in 1..Len(revisions) /\ Ent(r) <= r
              /\ Src(r) \in 1..Len(revisions) /\ revisions[r] \in Row
              /\ revisions[r].slot \in Slot /\ revisions[r].chapters \in SUBSET Chapter
<1>1. Len(revisions) \in Nat /\ Len(revisions) <= MaxRevisions
  BY DEF RowsInv
<1>2. ASSUME NEW r \in 1..Len(revisions)
      PROVE  /\ r \in Rev /\ r \in Nat /\ Ent(r) \in Rev /\ Ent(r) \in 1..Len(revisions) /\ Ent(r) <= r
             /\ Src(r) \in 1..Len(revisions)
  BY <1>1, Bounds DEF RowsInv, Rev
<1>3. ASSUME NEW r \in 1..Len(revisions) PROVE revisions[r] \in Row
  BY <1>1 DEF RowsInv
<1> QED BY <1>1, <1>2, <1>3 DEF Row

\* The tables are right about rows that are still there.
LEMMA RowsStay ==
  ASSUME TypeInv, RowsInv', Len(revisions') = NewRevision,
         \A r \in 1..Len(revisions) : revisions'[r] = revisions[r]
  PROVE  /\ \A e : IsEntity(e) => IsEntity(e)' /\ revisions'[e] = revisions[e]
         /\ \A r, e : Version(r, e) => Version(r, e)' /\ Src(r)' = Src(r)
         /\ \A r \in 1..Len(revisions) : Ent(r)' = Ent(r) /\ Src(r)' = Src(r)
<1>1. Len(revisions) \in Nat /\ Len(revisions') = Len(revisions) + 1
  BY DEF TypeInv, RowsInv, NewRevision
<1> QED BY <1>1 DEF IsEntity, Version, Ent, Src

LEMMA RegisterTypes ==
  ASSUME TypeInv, NEW c \in Client, SaveRegister(c)
  PROVE  TypeInv'
<1>0. PICK n : n = NewRevision
  OBVIOUS
<1>1. PICK o : o = op[c] /\ o \in OpState /\ Facts(o) /\ o.slot \in Slot /\ o.content \in SUBSET Chapter
  BY OpRow
<1>2. /\ o.pc = "register" /\ Insert(o.slot, n, o.content, n) /\ head' = [head EXCEPT ![n] = n]
      /\ op' = [op EXCEPT ![c] = [o EXCEPT !.pc = "set_ref", !.entity = n]]
      /\ UNCHANGED <<ref, approved, working, chapters, stage, saved, calls, overlapped>>
  BY <1>0, <1>1 DEF SaveRegister, Goto, count
<1>3. /\ RowsInv' /\ n \in Rev /\ Len(revisions') = n /\ revisions'[n].slot = o.slot
      /\ revisions'[n].entity = n /\ \A r \in 1..Len(revisions) : revisions'[r] = revisions[r]
  <2>1. /\ RowsInv /\ o.slot \in Slot /\ o.content \in SUBSET Chapter
        /\ Insert(o.slot, n, o.content, n)
    BY <1>1, <1>2 DEF TypeInv
  <2>2. RowsInv' /\ n \in Rev /\ Len(revisions') = n
    BY <1>0, <2>1, InsertRow
  <2>3. revisions'[n] = [slot |-> o.slot, entity |-> n, chapters |-> o.content, source |-> n]
    BY <1>0, <2>1, InsertRow
  <2>4. \A r \in 1..Len(revisions) : revisions'[r] = revisions[r]
    BY <1>0, <2>1, InsertRow
  <2> QED BY <2>2, <2>3, <2>4
<1>4. Len(revisions) \in Nat /\ n = Len(revisions) + 1 /\ n \in Nat
  BY <1>0 DEF TypeInv, RowsInv, NewRevision
<1>5. IsEntity(n)' /\ Version(n, n)'
  BY <1>3, <1>4 DEF IsEntity, Version, Ent
<1>6. /\ \A e : IsEntity(e) => IsEntity(e)' /\ revisions'[e] = revisions[e]
      /\ \A r, e : Version(r, e) => Version(r, e)' /\ Src(r)' = Src(r)
      /\ \A r \in 1..Len(revisions) : Ent(r)' = Ent(r) /\ Src(r)' = Src(r)
  BY <1>0, <1>3, RowsStay
<1>7. head' \in [Rev -> 0..n] /\ head'[n] = n /\ \A e \in Rev \ {n} : head'[e] = head[e]
  BY <1>2, <1>3, <1>4 DEF TypeInv, TablesInv
<1>8. \A r \in 1..Len(revisions) : Ent(r) \in Rev /\ Ent(r) # n
  BY <1>4, RowRange DEF TypeInv
<1>9. TablesInv'
  <2>1. ref' \in [Slot -> 0..n] /\ working' \in [Rev -> 0..n] /\ saved' \in [Slot -> 0..n]
        /\ approved' \subseteq 1..n
    BY <1>2, <1>4 DEF TypeInv, TablesInv
  <2>2. (\A s \in Slot : ref[s] # 0 => IsEntity(ref[s]) /\ revisions[ref[s]].slot = s)'
    BY <1>2, <1>6 DEF TypeInv, TablesInv
  <2>3. (\A e \in Rev : head[e] # 0 => Version(head[e], e))'
    BY <1>5, <1>6, <1>7 DEF TypeInv, TablesInv
  <2>4. (\A e \in Rev : working[e] # 0 => Version(working[e], e) /\ Src(working[e]) = working[e])'
    BY <1>2, <1>6 DEF TypeInv, TablesInv
  <2>5. \A r \in 1..n : head'[Ent(r)'] # 0
    <3>1. ASSUME NEW r \in 1..Len(revisions) PROVE head'[Ent(r)'] # 0
      <4>1. Ent(r)' = Ent(r) /\ head'[Ent(r)] = head[Ent(r)]
        BY <1>6, <1>7, <1>8
      <4> QED BY <4>1 DEF TypeInv, TablesInv
    <3>2. Ent(n)' = n /\ head'[n] # 0
      BY <1>4, <1>5, <1>7 DEF Version
    <3> QED BY <1>4, <3>1, <3>2
  <2>6. \A r \in approved' : r <= head'[Ent(r)'] /\ head'[Ent(r)'] \in approved'
    BY <1>2, <1>6, <1>7, <1>8 DEF TypeInv, TablesInv
  <2>7. \A r \in 1..n : revisions'[r].slot \in Chapter => chapters'[revisions'[r].slot] # "absent"
    BY <1>1, <1>2, <1>3, <1>4 DEF TypeInv, TablesInv, Facts
  <2> QED BY <1>2, <1>3, <2>1, <2>2, <2>3, <2>4, <2>5, <2>6, <2>7, <1>7 DEF TypeInv, TablesInv, Src
<1>10. Grows
  <2>1. \A e \in Rev : head[e] <= head'[e]
    <3>1. head \in [Rev -> 0..Len(revisions)]
      BY DEF TypeInv, TablesInv
    <3> QED BY <1>3, <1>4, <1>7, <3>1
  <2> QED BY <1>2, <1>3, <1>4, <2>1 DEF Grows
<1>11. PICK x \in OpState : /\ op' = [op EXCEPT ![c] = x]
                            /\ x.pc = "set_ref" /\ x.entity = n /\ x.slot = o.slot
  <2> DEFINE x == [o EXCEPT !.pc = "set_ref", !.entity = n]
  <2>1. n \in Rev0
    BY <1>3, Bounds DEF Rev, Rev0
  <2>2. x \in OpState /\ x.pc = "set_ref" /\ x.entity = n /\ x.slot = o.slot
    BY <1>1, <2>1 DEF OpState
  <2> QED BY <1>2, <2>2
<1>12. Facts(x)'
  BY <1>3, <1>5, <1>11 DEF Facts
<1> QED BY <1>3, <1>9, <1>10, <1>11, <1>12, OpsGrow DEF TypeInv

\* A new revision of an entity that is there, which an acceptance makes its approved head.
LEMMA InsertedTables ==
  ASSUME TypeInv, RowsInv', NEW e, IsEntity(e), NewRevision \in Rev, Len(revisions') = NewRevision,
         revisions'[NewRevision].slot = revisions[e].slot, revisions'[NewRevision].entity = e,
         \A r \in 1..Len(revisions) : revisions'[r] = revisions[r],
         \/ UNCHANGED <<head, approved>>
         \/ head' = [head EXCEPT ![e] = NewRevision] /\ approved' = approved \union {NewRevision},
         UNCHANGED <<ref, working, chapters, stage, saved, calls, overlapped>>
  PROVE  TablesInv' /\ Grows
<1>0. PICK n : n = NewRevision
  OBVIOUS
<1>1. Len(revisions) \in Nat /\ n = Len(revisions) + 1 /\ n \in Nat /\ e \in 1..Len(revisions) /\ e \in Rev
  BY <1>0, Bounds DEF TypeInv, RowsInv, NewRevision, IsEntity, Rev
<1>2. n \in Rev /\ Len(revisions') = n /\ Ent(n)' = e /\ revisions'[n].slot = revisions[e].slot
  BY <1>0 DEF Ent
<1>3. /\ \A x : IsEntity(x) => IsEntity(x)' /\ revisions'[x] = revisions[x]
      /\ \A r, x : Version(r, x) => Version(r, x)' /\ Src(r)' = Src(r)
      /\ \A r \in 1..Len(revisions) : Ent(r)' = Ent(r) /\ Src(r)' = Src(r)
  BY RowsStay
<1>4. \/ UNCHANGED <<head, approved>>
      \/ head' = [head EXCEPT ![e] = n] /\ approved' = approved \union {n}
  BY <1>0
<1>5. \A r \in 1..Len(revisions) : revisions'[r] = revisions[r]
  OBVIOUS
<1>6. Version(n, e)' /\ e \in 1..n
  BY <1>1, <1>2 DEF Version
<1>7. /\ head' \in [Rev -> 0..n] /\ head'[e] \in {head[e], n}
      /\ \A x \in Rev \ {e} : head'[x] = head[x]
      /\ \A x \in Rev : head[x] <= head'[x]
  <2>1. head \in [Rev -> 0..Len(revisions)]
    BY DEF TypeInv, TablesInv
  <2> QED BY <1>1, <1>4, <2>1
<1>8. head[e] # 0 /\ \A r \in 1..Len(revisions) : Ent(r) \in Rev
  BY HeadRow, RowRange DEF TypeInv
<1>9. TablesInv'
  <2>1. ref' \in [Slot -> 0..n] /\ working' \in [Rev -> 0..n] /\ saved' \in [Slot -> 0..n]
        /\ approved' \subseteq 1..n
    <3>1. /\ ref \in [Slot -> 0..Len(revisions)] /\ working \in [Rev -> 0..Len(revisions)]
          /\ saved \in [Slot -> 0..Len(revisions)] /\ approved \subseteq 1..Len(revisions)
      BY DEF TypeInv, TablesInv
    <3> QED BY <1>1, <1>4, <3>1
  <2>2. (\A s \in Slot : ref[s] # 0 => IsEntity(ref[s]) /\ revisions[ref[s]].slot = s)'
    BY <1>3 DEF TypeInv, TablesInv
  <2>3. (\A x \in Rev : head[x] # 0 => Version(head[x], x))'
    BY <1>3, <1>6, <1>7 DEF TypeInv, TablesInv
  <2>4. (\A x \in Rev : working[x] # 0 => Version(working[x], x) /\ Src(working[x]) = working[x])'
    BY <1>3 DEF TypeInv, TablesInv
  <2>5. \A r \in 1..n : head'[Ent(r)'] # 0
    <3>1. ASSUME NEW r \in 1..Len(revisions) PROVE head'[Ent(r)'] # 0
      <4>1. Ent(r)' = Ent(r) /\ head'[Ent(r)] \in {head[Ent(r)], n}
        BY <1>3, <1>7, <1>8
      <4> QED BY <1>1, <4>1 DEF TypeInv, TablesInv
    <3>2. Ent(n)' = e /\ head'[e] # 0
      BY <1>1, <1>2, <1>7, <1>8
    <3> QED BY <1>1, <3>1, <3>2
  <2>6. \A r \in approved' : r <= head'[Ent(r)'] /\ head'[Ent(r)'] \in approved'
    <3>1. CASE UNCHANGED <<head, approved>>
      BY <1>3, <3>1 DEF TypeInv, TablesInv
    <3>2. CASE head' = [head EXCEPT ![e] = n] /\ approved' = approved \union {n}
      <4>1. head'[e] = n
        BY <1>1, <3>2 DEF TypeInv, TablesInv
      <4>2. ASSUME NEW r \in approved PROVE r \in 1..Len(revisions) /\ Ent(r)' = Ent(r) /\ r <= n
        BY <1>1, <1>3 DEF TypeInv, TablesInv
      <4> QED BY <1>1, <1>2, <1>7, <1>8, <3>2, <4>1, <4>2 DEF TypeInv, TablesInv
    <3> QED BY <1>4, <3>1, <3>2
  <2>7. \A r \in 1..n : revisions'[r].slot \in Chapter => chapters'[revisions'[r].slot] # "absent"
    BY <1>1, <1>2, <1>5 DEF TypeInv, TablesInv
  <2> QED BY <1>2, <1>7, <2>1, <2>2, <2>3, <2>4, <2>5, <2>6, <2>7 DEF TypeInv, TablesInv
<1> QED BY <1>1, <1>2, <1>5, <1>7, <1>9 DEF Grows

LEMMA CreateTypes ==
  ASSUME TypeInv, NEW c \in Client, SaveCreate(c)
  PROVE  TypeInv'
<1>0. PICK n : n = NewRevision
  OBVIOUS
<1>1. PICK o : o = op[c] /\ o \in OpState /\ Facts(o) /\ o.slot \in Slot /\ o.content \in SUBSET Chapter
  BY OpRow
<1>2. /\ o.pc = "create" /\ Insert(o.slot, o.entity, o.content, n)
      /\ op' = [op EXCEPT ![c] = [o EXCEPT !.pc = "set_working", !.source = n]]
      /\ UNCHANGED <<ref, head, approved, working, chapters, stage, saved, calls, overlapped>>
  BY <1>0, <1>1 DEF SaveCreate, Goto, count
<1>3. IsEntity(o.entity) /\ revisions[o.entity].slot = o.slot
  BY <1>1, <1>2 DEF Facts
<1>4. /\ RowsInv' /\ n \in Rev /\ Len(revisions') = n
      /\ revisions'[n] = [slot |-> o.slot, entity |-> o.entity, chapters |-> o.content, source |-> n]
      /\ \A r \in 1..Len(revisions) : revisions'[r] = revisions[r]
  <2>1. /\ RowsInv /\ o.slot \in Slot /\ o.content \in SUBSET Chapter
        /\ Insert(o.slot, o.entity, o.content, n)
    BY <1>1, <1>2 DEF TypeInv
  <2>2. RowsInv' /\ n \in Rev /\ Len(revisions') = n
    <3>1. RowsInv' /\ n \in Rev
      BY <1>0, <1>3, <2>1, InsertRow
    <3>2. Len(revisions') = n
      BY <1>0, <1>3, <2>1, InsertRow
    <3> QED BY <3>1, <3>2
  <2>3. revisions'[n] = [slot |-> o.slot, entity |-> o.entity, chapters |-> o.content, source |-> n]
    <3>1. /\ revisions' = Append(revisions, [slot |-> o.slot, entity |-> o.entity,
                                            chapters |-> o.content, source |-> n])
          /\ revisions \in Seq(Row) /\ n = Len(revisions) + 1
      BY <1>0, <2>1 DEF Insert, RowsInv, NewRevision
    <3> QED BY <3>1
  <2>4. \A r \in 1..Len(revisions) : revisions'[r] = revisions[r]
    BY <1>0, <1>3, <2>1, InsertRow
  <2> QED BY <2>2, <2>3, <2>4
<1>5. Len(revisions) \in Nat /\ n = Len(revisions) + 1 /\ n \in Nat
  BY <1>0 DEF TypeInv, RowsInv, NewRevision
<1>6. Version(n, o.entity)' /\ Src(n)' = n
  BY <1>4, <1>5 DEF Version, Ent, Src
<1>7. TablesInv' /\ Grows
  BY <1>0, <1>2, <1>3, <1>4, <1>5, InsertedTables
<1>8. PICK x \in OpState : /\ op' = [op EXCEPT ![c] = x] /\ x.pc = "set_working" /\ x.entity = o.entity
                           /\ x.slot = o.slot /\ x.source = n
  <2> DEFINE x == [o EXCEPT !.pc = "set_working", !.source = n]
  <2>1. n \in Rev0
    BY <1>4, Bounds DEF Rev, Rev0
  <2>2. x \in OpState /\ x.pc = "set_working" /\ x.entity = o.entity /\ x.slot = o.slot /\ x.source = n
    BY <1>1, <2>1 DEF OpState
  <2> QED BY <1>2, <2>2
<1>9. IsEntity(o.entity)' /\ revisions'[o.entity].slot = o.slot
  BY <1>0, <1>3, <1>4, RowsStay
<1>10. Facts(x)'
  BY <1>6, <1>8, <1>9 DEF Facts
<1> QED BY <1>4, <1>7, <1>8, <1>10, OpsGrow DEF TypeInv

LEMMA AcceptTypes ==
  ASSUME TypeInv, NEW c \in Client, Accept(c)
  PROVE  TypeInv'
<1>0. PICK n : n = NewRevision
  OBVIOUS
<1>1. PICK o : o = op[c] /\ o \in OpState /\ Facts(o) /\ o.slot \in Slot
  BY OpRow
<1>2. /\ o.pc = "accept" /\ Insert(o.slot, o.entity, revisions[o.source].chapters, revisions[o.source].source)
      /\ head' = [head EXCEPT ![o.entity] = n] /\ approved' = approved \union {n}
      /\ op' = [op EXCEPT ![c] = [o EXCEPT !.pc = "clear_working"]]
      /\ UNCHANGED <<ref, working, chapters, stage, saved, calls, overlapped>>
  BY <1>0, <1>1 DEF Accept, Step, Goto, count
<1>3. /\ IsEntity(o.entity) /\ revisions[o.entity].slot = o.slot
      /\ Version(o.source, o.entity) /\ o.source \in Rev /\ revisions[o.source].chapters \in SUBSET Chapter
  BY <1>1, <1>2, RowRange DEF Facts, Version, TypeInv
<1>4. /\ RowsInv' /\ n \in Rev /\ Len(revisions') = n
      /\ revisions'[n].slot = o.slot /\ revisions'[n].entity = o.entity
      /\ \A r \in 1..Len(revisions) : revisions'[r] = revisions[r]
  <2>1. /\ RowsInv /\ o.slot \in Slot /\ revisions[o.source].chapters \in SUBSET Chapter
        /\ Insert(o.slot, o.entity, revisions[o.source].chapters, Src(o.source))
    BY <1>1, <1>2, <1>3 DEF TypeInv, Src
  <2>2. RowsInv' /\ n \in Rev /\ Len(revisions') = n
    BY <1>0, <1>3, <2>1, InsertRow
  <2>3. revisions'[n] = [slot |-> o.slot, entity |-> o.entity, chapters |-> revisions[o.source].chapters, source |-> Src(o.source)]
    BY <1>0, <1>3, <2>1, InsertRow
  <2>4. \A r \in 1..Len(revisions) : revisions'[r] = revisions[r]
    BY <1>0, <1>3, <2>1, InsertRow
  <2> QED BY <2>2, <2>3, <2>4
<1>5. Len(revisions) \in Nat /\ n = Len(revisions) + 1 /\ n \in Nat
  BY <1>0 DEF TypeInv, RowsInv, NewRevision
<1>6. Version(n, o.entity)'
  BY <1>4, <1>5 DEF Version, Ent
<1>7. TablesInv' /\ Grows
  BY <1>0, <1>2, <1>3, <1>4, <1>5, InsertedTables
<1>8. PICK x \in OpState : /\ op' = [op EXCEPT ![c] = x] /\ x.pc = "clear_working" /\ x.entity = o.entity
                           /\ x.slot = o.slot
  <2> DEFINE x == [o EXCEPT !.pc = "clear_working"]
  <2>1. x \in OpState /\ x.pc = "clear_working" /\ x.entity = o.entity /\ x.slot = o.slot
    BY <1>1 DEF OpState
  <2> QED BY <1>2, <2>1
<1>9. IsEntity(o.entity)' /\ revisions'[o.entity].slot = o.slot
  BY <1>0, <1>3, <1>4, RowsStay
<1>10. Facts(x)'
  BY <1>8, <1>9 DEF Facts
<1> QED BY <1>4, <1>7, <1>8, <1>10, OpsGrow DEF TypeInv

\* A step that writes a row of the workspace, inserts nothing and moves no head.
LEMMA WriteStep ==
  ASSUME TypeInv, UNCHANGED <<revisions, head, approved, calls, overlapped>>,
         ref' \in [Slot -> 0..Len(revisions)], working' \in [Rev -> 0..Len(revisions)],
         saved' \in [Slot -> 0..Len(revisions)], chapters' \in [Chapter -> ChapterState], stage' \in Stage,
         \A s \in Slot : ref'[s] # 0 => IsEntity(ref'[s]) /\ revisions[ref'[s]].slot = s,
         \A e \in Rev : working'[e] # 0 => Version(working'[e], e) /\ Src(working'[e]) = working'[e],
         \A k \in Chapter : chapters[k] # "absent" => chapters'[k] # "absent",
         NEW c \in Client, NEW o \in OpState, op' = [op EXCEPT ![c] = o], Facts(o)
  PROVE  TypeInv'
<1>1. RowsInv'
  BY DEF TypeInv, RowsInv, Ent, Src
<1>2. TablesInv'
  BY DEF TypeInv, TablesInv, IsEntity, Version, Ent, Src
<1>3. Grows
  <2>1. Len(revisions) \in Nat /\ \A e \in Rev : head[e] \in Nat
    BY DEF TypeInv, RowsInv, TablesInv
  <2> QED BY <2>1 DEF Grows
<1>4. Facts(o)'
  BY <1>2, <1>3, FactsStay DEF TablesInv
<1> QED BY <1>1, <1>2, <1>3, <1>4, OpsGrow DEF TypeInv

LEMMA SaveTypes ==
  ASSUME TypeInv, NEW c \in Client, SaveSetRef(c) \/ SaveSetWorking(c)
  PROVE  TypeInv'
<1>1. PICK o : o = op[c] /\ o \in OpState /\ Facts(o) /\ o.slot \in Slot /\ o.source \in Rev0
  BY OpRow
<1>2. op' = [op EXCEPT ![c] = Idle]
  BY DEF SaveSetRef, SaveSetWorking, Finish, Goto
<1>3. Len(revisions) \in Nat /\ Len(revisions) <= MaxRevisions
  BY DEF TypeInv, RowsInv
<1>4. CASE SaveSetRef(c)
  <2>1. /\ o.pc = "set_ref" /\ ref' = [ref EXCEPT ![o.slot] = o.entity]
        /\ saved' = [saved EXCEPT ![o.slot] = o.entity]
        /\ UNCHANGED <<revisions, head, approved, working, chapters, stage, calls, overlapped>>
    BY <1>1, <1>4 DEF SaveSetRef, count
  <2>2. IsEntity(o.entity) /\ revisions[o.entity].slot = o.slot
    BY <1>1, <2>1 DEF Facts
  <2>3. o.entity \in 0..Len(revisions)
    BY <1>3, <2>2 DEF IsEntity
  <2>4. ref' \in [Slot -> 0..Len(revisions)] /\ saved' \in [Slot -> 0..Len(revisions)]
    BY <2>1, <2>3 DEF TypeInv, TablesInv
  <2>5. \A s \in Slot : ref'[s] # 0 => IsEntity(ref'[s]) /\ revisions[ref'[s]].slot = s
    BY <1>1, <2>1, <2>2 DEF TypeInv, TablesInv
  <2>6. /\ working' \in [Rev -> 0..Len(revisions)] /\ chapters' \in [Chapter -> ChapterState] /\ stage' \in Stage
        /\ \A e \in Rev : working'[e] # 0 => Version(working'[e], e) /\ Src(working'[e]) = working'[e]
    BY <2>1 DEF TypeInv, TablesInv
  <2> QED BY <1>2, <2>1, <2>4, <2>5, <2>6, IdleRow, WriteStep
<1>5. CASE SaveSetWorking(c)
  <2>1. /\ o.pc = "set_working" /\ working' = [working EXCEPT ![o.entity] = o.source]
        /\ saved' = [saved EXCEPT ![o.slot] = o.source]
        /\ UNCHANGED <<revisions, ref, head, approved, chapters, stage, calls, overlapped>>
    BY <1>1, <1>5 DEF SaveSetWorking, count
  <2>2. IsEntity(o.entity) /\ Version(o.source, o.entity) /\ Src(o.source) = o.source
    BY <1>1, <2>1 DEF Facts
  <2>3. o.source \in 0..Len(revisions)
    BY <1>3, <2>2 DEF Version
  <2>4. working' \in [Rev -> 0..Len(revisions)] /\ saved' \in [Slot -> 0..Len(revisions)]
    BY <2>1, <2>3 DEF TypeInv, TablesInv
  <2>5. \A e \in Rev : working'[e] # 0 => Version(working'[e], e) /\ Src(working'[e]) = working'[e]
    BY <1>1, <2>1, <2>2 DEF TypeInv, TablesInv
  <2>6. /\ ref' \in [Slot -> 0..Len(revisions)] /\ chapters' \in [Chapter -> ChapterState] /\ stage' \in Stage
        /\ \A s \in Slot : ref'[s] # 0 => IsEntity(ref'[s]) /\ revisions[ref'[s]].slot = s
    BY <2>1 DEF TypeInv, TablesInv
  <2> QED BY <1>2, <2>1, <2>4, <2>5, <2>6, IdleRow, WriteStep
<1> QED BY <1>4, <1>5

LEMMA ClearTypes ==
  ASSUME TypeInv, NEW c \in Client, ClearWorking(c)
  PROVE  TypeInv'
<1>1. PICK o : o = op[c] /\ o \in OpState /\ Facts(o) /\ o.slot \in Slot
  BY OpRow
<1>2. PICK pc \in {"view_head", "finish"} :
        /\ o.pc = "clear_working" /\ working' = [working EXCEPT ![o.entity] = 0]
        /\ op' = [op EXCEPT ![c] = [o EXCEPT !.pc = pc]] /\ (pc = "finish" => o.slot # "architecture")
        /\ UNCHANGED <<revisions, ref, head, approved, chapters, stage, saved, calls, overlapped>>
  BY <1>1 DEF ClearWorking, Step, Goto, count
<1>3. working' \in [Rev -> 0..Len(revisions)]
  <2>1. working \in [Rev -> 0..Len(revisions)] /\ Len(revisions) \in Nat
    BY DEF TypeInv, TablesInv, RowsInv
  <2>2. 0 \in 0..Len(revisions) /\ working' = [working EXCEPT ![o.entity] = 0]
    BY <1>2, <2>1
  <2> QED BY <2>1, <2>2
<1>4. \A e \in Rev : working'[e] # 0 => Version(working'[e], e) /\ Src(working'[e]) = working'[e]
  BY <1>2 DEF TypeInv, TablesInv
<1>5. /\ ref' \in [Slot -> 0..Len(revisions)] /\ chapters' \in [Chapter -> ChapterState] /\ stage' \in Stage
      /\ saved' \in [Slot -> 0..Len(revisions)]
      /\ \A s \in Slot : ref'[s] # 0 => IsEntity(ref'[s]) /\ revisions[ref'[s]].slot = s
  BY <1>2 DEF TypeInv, TablesInv
<1>6. PICK x \in OpState : op' = [op EXCEPT ![c] = x] /\ x.pc = pc /\ x.entity = o.entity /\ x.slot = o.slot
  <2> DEFINE x == [o EXCEPT !.pc = pc]
  <2>1. x \in OpState /\ x.pc = pc /\ x.entity = o.entity /\ x.slot = o.slot
    BY <1>1 DEF OpState
  <2> QED BY <1>2, <2>1
<1>7. Facts(x)
  BY <1>1, <1>2, <1>6 DEF Facts
<1> QED BY <1>2, <1>3, <1>4, <1>5, <1>6, <1>7, WriteStep

LEMMA FinishTypes ==
  ASSUME TypeInv, NEW c \in Client, FinishArchitecture(c) \/ FinishContract(c) \/ FinishChapter(c)
  PROVE  TypeInv'
<1>1. op' = [op EXCEPT ![c] = Idle] /\ UNCHANGED <<revisions, ref, head, approved, working, saved, calls, overlapped>>
  BY DEF FinishArchitecture, FinishContract, FinishChapter, Finish, Goto, count
<1>2. chapters \in [Chapter -> ChapterState]
  BY DEF TypeInv, TablesInv
<1>3. /\ chapters' \in [Chapter -> ChapterState] /\ stage' \in Stage
      /\ \A k \in Chapter : chapters[k] # "absent" => chapters'[k] # "absent"
  <2>1. CASE FinishArchitecture(c)
    BY <1>2, <2>1 DEF FinishArchitecture, NextState, ChapterState, Stage
  <2>2. CASE FinishContract(c)
    BY <1>2, <2>2 DEF FinishContract, Stage
  <2>3. CASE FinishChapter(c)
    BY <1>2, <2>3 DEF FinishChapter, ChapterState, Stage
  <2> QED BY <2>1, <2>2, <2>3
<1>4. /\ ref' \in [Slot -> 0..Len(revisions)] /\ working' \in [Rev -> 0..Len(revisions)]
      /\ saved' \in [Slot -> 0..Len(revisions)]
      /\ \A s \in Slot : ref'[s] # 0 => IsEntity(ref'[s]) /\ revisions[ref'[s]].slot = s
      /\ \A e \in Rev : working'[e] # 0 => Version(working'[e], e) /\ Src(working'[e]) = working'[e]
  BY <1>1 DEF TypeInv, TablesInv
<1> QED BY <1>1, <1>3, <1>4, IdleRow, WriteStep

LEMMA EndTypes ==
  ASSUME TypeInv, (\E c \in Client : Abort(c)) \/ Crash \/ UNCHANGED vars
  PROVE  TypeInv'
<1>1. UNCHANGED <<revisions, ref, head, approved, working, chapters, stage, saved, calls, overlapped>>
  BY DEF Abort, Crash, vars, store, count
<1>2. op' \in [Client -> OpState] /\ \A c \in Client : op'[c] \in {op[c], Idle}
  BY IdleRow DEF Abort, Crash, Finish, Goto, vars, TypeInv, OpsInv
<1>3. RowsInv' /\ TablesInv'
  BY <1>1 DEF TypeInv, RowsInv, TablesInv, Ent, Src, IsEntity, Version
<1>4. \A c \in Client : Facts(op[c])'
  <2> TAKE c \in Client
  <2>1. PICK x : op'[c] = x /\ Facts(x)
    BY <1>2, IdleRow DEF TypeInv, OpsInv
  <2> QED BY <1>1, <2>1 DEF Facts, IsEntity, Version, Ent, Src
<1> QED BY <1>2, <1>3, <1>4 DEF TypeInv, OpsInv

LEMMA TypeStart == Init => TypeInv
<1> SUFFICES ASSUME Init PROVE TypeInv
  OBVIOUS
<1>1. Len(revisions) = 0 /\ revisions \in Seq(Row) /\ 1..Len(revisions) = {}
  <2>1. revisions = <<>>
    BY DEF Init
  <2>2. revisions \in Seq(Row)
    BY <2>1
  <2> QED BY <2>1, <2>2
<1>2. RowsInv
  BY <1>1, Bounds DEF RowsInv
<1>3. TablesInv
  <2>1. ref = [s \in Slot |-> 0] /\ saved = [s \in Slot |-> 0]
    BY DEF Init
  <2>2. head = [e \in Rev |-> 0] /\ working = [e \in Rev |-> 0]
    BY DEF Init
  <2>3. 0 \in 0..Len(revisions)
    BY <1>1
  <2>4. ref \in [Slot -> 0..Len(revisions)] /\ saved \in [Slot -> 0..Len(revisions)]
    BY <2>1, <2>3
  <2>5. head \in [Rev -> 0..Len(revisions)] /\ working \in [Rev -> 0..Len(revisions)]
    BY <2>2, <2>3
  <2>6. (\A s \in Slot : ref[s] = 0) /\ \A e \in Rev : head[e] = 0 /\ working[e] = 0
    BY <2>1, <2>2
  <2>7. chapters \in [Chapter -> ChapterState]
    <3>1. chapters = [k \in Chapter |-> "absent"]
      BY DEF Init
    <3> QED BY <3>1 DEF ChapterState
  <2>8. stage \in Stage /\ approved = {} /\ overlapped \in BOOLEAN
    BY DEF Init, Stage
  <2>9. calls \in 0..MaxCalls
    <3>1. calls = 0
      BY DEF Init
    <3> QED BY <3>1, Bounds
  <2> QED BY <1>1, <2>4, <2>5, <2>6, <2>7, <2>8, <2>9 DEF TablesInv
<1>4. OpsInv
  BY IdleRow DEF OpsInv, Init
<1> QED BY <1>2, <1>3, <1>4 DEF TypeInv

LEMMA TypeStep == TypeInv /\ [Next]_vars => TypeInv'
<1> SUFFICES ASSUME TypeInv, [Next]_vars PROVE TypeInv'
  OBVIOUS
<1>1. ASSUME NEW c \in Client, NEW s \in Slot,
             ApproveBegin(c, s) \/ \E x \in ContentOf(s) : SaveBegin(c, s, x)
      PROVE  TypeInv'
  BY <1>1, StartTypes
<1>2. ASSUME NEW c \in Client,
             ApproveReadRef(c) \/ ApproveReadHead(c) \/ ApproveReadWorking(c) \/ ViewHead(c) \/ ViewWorking(c)
      PROVE  TypeInv'
  BY <1>2, ReadTypes
<1>3. ASSUME NEW c \in Client, SaveRegister(c) \/ SaveCreate(c) \/ Accept(c) PROVE TypeInv'
  BY <1>3, RegisterTypes, CreateTypes, AcceptTypes
<1>4. ASSUME NEW c \in Client, SaveSetRef(c) \/ SaveSetWorking(c) PROVE TypeInv'
  BY <1>4, SaveTypes
<1>5. ASSUME NEW c \in Client, ClearWorking(c) PROVE TypeInv'
  BY <1>5, ClearTypes
<1>6. ASSUME NEW c \in Client, FinishArchitecture(c) \/ FinishContract(c) \/ FinishChapter(c) PROVE TypeInv'
  BY <1>6, FinishTypes
<1>7. ASSUME (\E c \in Client : Abort(c)) \/ Crash \/ UNCHANGED vars PROVE TypeInv'
  BY <1>7, EndTypes
<1> QED BY <1>1, <1>2, <1>3, <1>4, <1>5, <1>6, <1>7 DEF Next

LEMMA TypeInvariant == Spec => []TypeInv
BY TypeStart, TypeStep, PTL DEF Spec

\* Every reference, head and draft names a row of its own document, whatever requests race.
THEOREM WorkspaceIsTyped == Spec => []TypeOK
<1>1. ASSUME TypeInv PROVE TypeOK
  <2>1. /\ revisions \in Seq(Row) /\ Len(revisions) <= MaxRevisions
        /\ op \in [Client -> OpState] /\ ref \in [Slot -> 0..Len(revisions)]
        /\ head \in [Rev -> 0..Len(revisions)] /\ working \in [Rev -> 0..Len(revisions)]
        /\ approved \subseteq 1..Len(revisions) /\ chapters \in [Chapter -> ChapterState]
        /\ stage \in Stage /\ saved \in [Slot -> 0..Len(revisions)]
        /\ calls \in 0..MaxCalls /\ overlapped \in BOOLEAN
    BY <1>1 DEF TypeInv, RowsInv, TablesInv, OpsInv
  <2>2. \A s \in Slot : ref[s] # 0 => revisions[ref[s]].slot = s
    BY <1>1 DEF TypeInv, TablesInv
  <2>3. \A e \in Rev : /\ head[e] # 0 => revisions[head[e]].entity = e
                       /\ working[e] # 0 => revisions[working[e]].entity = e
    BY <1>1 DEF TypeInv, TablesInv, Version, Ent
  <2> QED BY <2>1, <2>2, <2>3 DEF TypeOK, Row
<1> QED BY <1>1, TypeInvariant, PTL

(***************************************************************************)
(* What a gate read stays true.                                            *)
(***************************************************************************)
Kept == /\ approved \subseteq approved' /\ Len(revisions) <= Len(revisions')
        /\ \A r \in 1..Len(revisions) : revisions'[r] = revisions[r]

LEMMA InsertKeeps ==
  ASSUME TypeInv, approved \subseteq approved', NEW s, NEW e, NEW x, NEW d, Insert(s, e, x, d)
  PROVE  Kept /\ Len(revisions') = NewRevision
<1>1. revisions \in Seq(Row) /\ Len(revisions) \in Nat
  BY DEF TypeInv, RowsInv
<1>2. PICK row : revisions' = Append(revisions, row)
  BY DEF Insert
<1> QED BY <1>1, <1>2 DEF Kept, NewRevision

LEMMA AlwaysKept == TypeInv /\ [Next]_vars => Kept
<1> SUFFICES ASSUME TypeInv, [Next]_vars PROVE Kept
  OBVIOUS
<1>1. Len(revisions) \in Nat
  BY DEF TypeInv, RowsInv
<1>2. ASSUME UNCHANGED <<revisions, approved>> PROVE Kept
  BY <1>1, <1>2 DEF Kept
<1>3. ASSUME NEW c \in Client, SaveRegister(c) \/ SaveCreate(c) \/ Accept(c) PROVE Kept
  <2>1. approved \subseteq approved' /\ \E s, e, x, d : Insert(s, e, x, d)
    BY <1>3 DEF SaveRegister, SaveCreate, Accept
  <2> QED BY <2>1, InsertKeeps
<1>4. ASSUME NEW c \in Client, NEW s \in Slot,
             ApproveBegin(c, s) \/ \E x \in ContentOf(s) : SaveBegin(c, s, x)
      PROVE  UNCHANGED <<revisions, approved>>
  BY <1>4 DEF ApproveBegin, SaveBegin, store
<1>5. ASSUME NEW c \in Client,
             \/ SaveSetRef(c) \/ SaveSetWorking(c) \/ ApproveReadRef(c) \/ ApproveReadHead(c)
             \/ ApproveReadWorking(c) \/ ClearWorking(c) \/ ViewHead(c) \/ ViewWorking(c)
             \/ FinishArchitecture(c) \/ FinishContract(c) \/ FinishChapter(c) \/ Abort(c)
      PROVE  UNCHANGED <<revisions, approved>>
  BY <1>5 DEF SaveSetRef, SaveSetWorking, ApproveReadRef, ApproveReadHead, ApproveReadWorking,
     ClearWorking, ViewHead, ViewWorking, FinishArchitecture, FinishContract, FinishChapter, Abort, store
<1>6. ASSUME Crash \/ UNCHANGED vars PROVE UNCHANGED <<revisions, approved>>
  BY <1>6 DEF Crash, vars, store
<1> QED BY <1>2, <1>3, <1>4, <1>5, <1>6 DEF Next

LEMMA ApprovalsGrow ==
  ASSUME TypeInv, Kept
  PROVE  /\ \A a \in approved : a \in 1..Len(revisions) /\ revisions'[a] = revisions[a]
         /\ \A s : ApprovalsOf(s) \subseteq ApprovalsOf(s)'
<1>1. \A a \in approved : a \in 1..Len(revisions) /\ revisions'[a] = revisions[a]
  BY DEF TypeInv, TablesInv, Kept
<1> QED BY <1>1 DEF ApprovalsOf, Kept

LEMMA GatedStays ==
  ASSUME TypeInv, Kept, NEW o, Gated(o)
  PROVE  Gated(o)'
<1>1. /\ \A a \in approved : revisions'[a] = revisions[a]
      /\ \A s : ApprovalsOf(s) \subseteq ApprovalsOf(s)'
  BY ApprovalsGrow
<1>2. \A s : \A a \in ApprovalsOf(s) : revisions'[a] = revisions[a] /\ a \in ApprovalsOf(s)'
  BY <1>1 DEF ApprovalsOf
<1> QED BY <1>1, <1>2 DEF Gated

\* A head that is approved is an approval of its document.
LEMMA HeadApproves ==
  ASSUME TypeInv, NEW s \in Slot, Approved(s)
  PROVE  head[ref[s]] \in ApprovalsOf(s)
<1>1. IsEntity(ref[s]) /\ revisions[ref[s]].slot = s
  BY DEF Approved, TypeInv, TablesInv
<1>2. Version(head[ref[s]], ref[s])
  BY <1>1, HeadRow
<1> QED BY <1>1, <1>2 DEF Approved, ApprovalsOf, Version, TypeInv, RowsInv

\* What a step does to its call.
LEMMA Moves ==
  ASSUME TypeInv, NEW c \in Client, NEW o, o = op[c]
  PROVE
    /\ ApproveReadRef(c) => /\ o.pc = "read_ref"
                            /\ \E x \in OpState :
                                 /\ op' = [op EXCEPT ![c] = x]
                                 /\ x.pc = "read_head" /\ x.entity = ref[o.slot] /\ x.slot = o.slot
                                 /\ x.base = o.base
    /\ ApproveReadHead(c) => /\ o.pc = "read_head"
                             /\ \E x \in OpState :
                                  /\ op' = [op EXCEPT ![c] = x]
                                  /\ x.pc = "read_working" /\ x.base = head[o.entity]
                                  /\ x.slot = o.slot /\ x.entity = o.entity
    /\ ApproveReadWorking(c) => /\ o.pc = "read_working"
                                /\ \E x \in OpState :
                                     /\ op' = [op EXCEPT ![c] = x]
                                     /\ x.pc = "accept" /\ x.source = DraftOrHead(o.entity, o.base)
                                     /\ x.slot = o.slot /\ x.entity = o.entity /\ x.base = o.base
    /\ Accept(c) => /\ o.pc = "accept"
                    /\ \E x \in OpState :
                         /\ op' = [op EXCEPT ![c] = x]
                         /\ x.pc = "clear_working" /\ x.slot = o.slot /\ x.entity = o.entity
    /\ ViewHead(c) => /\ o.pc = "view_head"
                      /\ \E x \in OpState :
                           /\ op' = [op EXCEPT ![c] = x]
                           /\ x.pc = "view_working" /\ x.base = head[o.entity] /\ x.slot = o.slot
                           /\ x.entity = o.entity
    /\ ViewWorking(c) => /\ o.pc = "view_working"
                         /\ \E x \in OpState :
                              /\ op' = [op EXCEPT ![c] = x]
                              /\ x.pc = "finish" /\ x.source = DraftOrHead(o.entity, o.base)
                              /\ x.slot = o.slot /\ x.entity = o.entity
    /\ SaveRegister(c) => /\ o.pc = "register"
                          /\ \E x \in OpState :
                               /\ op' = [op EXCEPT ![c] = x]
                               /\ x.pc = "set_ref" /\ x.entity = NewRevision /\ x.slot = o.slot
    /\ SaveCreate(c) => /\ o.pc = "create"
                        /\ \E x \in OpState :
                             /\ op' = [op EXCEPT ![c] = x]
                             /\ x.pc = "set_working" /\ x.source = NewRevision /\ x.slot = o.slot
                             /\ x.entity = o.entity
    /\ ClearWorking(c) => /\ o.pc = "clear_working"
                          /\ \E x \in OpState :
                               /\ op' = [op EXCEPT ![c] = x]
                               /\ x.pc = (IF o.slot = "architecture" THEN "view_head" ELSE "finish")
                               /\ x.slot = o.slot /\ x.entity = o.entity
<1>1. o \in OpState /\ Facts(o) /\ o.slot \in Slot
  BY OpRow
<1>2. \A r \in 0..Len(revisions) : r \in Rev0
  BY Bounds DEF TypeInv, RowsInv, Rev0
<1>3. o.slot \in Slot /\ ref[o.slot] \in Rev0
  BY <1>1, <1>2 DEF TypeInv, TablesInv
<1>4. ASSUME IsEntity(o.entity)
      PROVE  head[o.entity] \in Rev0 /\ (Version(o.base, o.entity) => DraftOrHead(o.entity, o.base) \in Rev0)
  <2>1. head[o.entity] \in 1..Len(revisions) /\ \A b : Version(b, o.entity) => Version(DraftOrHead(o.entity, b), o.entity)
    BY <1>4, HeadRow
  <2> QED BY <1>2, <2>1 DEF Version
<1>5. ASSUME NewRevision \in Rev PROVE NewRevision \in Rev0
  BY <1>5, Bounds DEF Rev, Rev0
<1>6. ASSUME NEW s, NEW e, NEW y, NEW d, Insert(s, e, y, d) PROVE NewRevision \in Rev0
  BY <1>6, Bounds DEF Insert, NewRevision, Rev0, TypeInv, RowsInv
<1>7. ASSUME ApproveReadRef(c)
      PROVE  /\ o.pc = "read_ref"
             /\ \E x \in OpState :
                  /\ op' = [op EXCEPT ![c] = x]
                  /\ x.pc = "read_head" /\ x.entity = ref[o.slot] /\ x.slot = o.slot
                  /\ x.base = o.base
  <2> DEFINE x == [o EXCEPT !.pc = "read_head", !.entity = ref[o.slot]]
  <2>1. o.pc = "read_ref" /\ op' = [op EXCEPT ![c] = x]
    BY <1>7 DEF ApproveReadRef, Goto
  <2>2. ref[o.slot] \in Rev0
    BY <1>3
  <2>3. x \in OpState
    BY <1>1, <2>2 DEF OpState
  <2>4. x.pc = "read_head" /\ x.entity = ref[o.slot] /\ x.slot = o.slot /\ x.base = o.base
    BY <1>1 DEF OpState
  <2> QED BY <2>1, <2>3, <2>4
<1>8. ASSUME ApproveReadHead(c)
      PROVE  /\ o.pc = "read_head"
             /\ \E x \in OpState :
                  /\ op' = [op EXCEPT ![c] = x]
                  /\ x.pc = "read_working" /\ x.base = head[o.entity] /\ x.slot = o.slot
                  /\ x.entity = o.entity
  <2> DEFINE x == [o EXCEPT !.pc = "read_working", !.base = head[o.entity]]
  <2>1. o.pc = "read_head" /\ op' = [op EXCEPT ![c] = x]
    BY <1>8 DEF ApproveReadHead, Goto
  <2>2. head[o.entity] \in Rev0
    BY <1>1, <1>4, <2>1 DEF Facts
  <2>3. x \in OpState
    BY <1>1, <2>2 DEF OpState
  <2>4. x.pc = "read_working" /\ x.base = head[o.entity] /\ x.slot = o.slot /\ x.entity = o.entity
    BY <1>1 DEF OpState
  <2> QED BY <2>1, <2>3, <2>4
<1>9. ASSUME ApproveReadWorking(c)
      PROVE  /\ o.pc = "read_working"
             /\ \E x \in OpState :
                  /\ op' = [op EXCEPT ![c] = x]
                  /\ x.pc = "accept" /\ x.source = DraftOrHead(o.entity, o.base) /\ x.slot = o.slot
                  /\ x.entity = o.entity /\ x.base = o.base
  <2> DEFINE x == [o EXCEPT !.pc = "accept", !.source = DraftOrHead(o.entity, o.base)]
  <2>1. o.pc = "read_working" /\ op' = [op EXCEPT ![c] = x]
    BY <1>9 DEF ApproveReadWorking, Goto
  <2>2. DraftOrHead(o.entity, o.base) \in Rev0
    BY <1>1, <1>4, <2>1 DEF Facts
  <2>3. x \in OpState
    BY <1>1, <2>2 DEF OpState
  <2>4. /\ x.pc = "accept" /\ x.source = DraftOrHead(o.entity, o.base) /\ x.slot = o.slot
        /\ x.entity = o.entity /\ x.base = o.base
    BY <1>1 DEF OpState
  <2> QED BY <2>1, <2>3, <2>4
<1>10. ASSUME Accept(c)
      PROVE  /\ o.pc = "accept"
             /\ \E x \in OpState :
                  /\ op' = [op EXCEPT ![c] = x]
                  /\ x.pc = "clear_working" /\ x.slot = o.slot /\ x.entity = o.entity
  <2> DEFINE x == [o EXCEPT !.pc = "clear_working"]
  <2>1. o.pc = "accept" /\ op' = [op EXCEPT ![c] = x]
    BY <1>10 DEF Accept, Step, Goto
  <2>2. o.slot \in Slot
    BY <1>1
  <2>3. x \in OpState
    BY <1>1, <2>2 DEF OpState
  <2>4. x.pc = "clear_working" /\ x.slot = o.slot /\ x.entity = o.entity
    BY <1>1 DEF OpState
  <2> QED BY <2>1, <2>3, <2>4
<1>11. ASSUME ViewHead(c)
      PROVE  /\ o.pc = "view_head"
             /\ \E x \in OpState :
                  /\ op' = [op EXCEPT ![c] = x]
                  /\ x.pc = "view_working" /\ x.base = head[o.entity] /\ x.slot = o.slot
                  /\ x.entity = o.entity
  <2> DEFINE x == [o EXCEPT !.pc = "view_working", !.base = head[o.entity]]
  <2>1. o.pc = "view_head" /\ op' = [op EXCEPT ![c] = x]
    BY <1>11 DEF ViewHead, Goto
  <2>2. head[o.entity] \in Rev0
    BY <1>1, <1>4, <2>1 DEF Facts
  <2>3. x \in OpState
    BY <1>1, <2>2 DEF OpState
  <2>4. x.pc = "view_working" /\ x.base = head[o.entity] /\ x.slot = o.slot /\ x.entity = o.entity
    BY <1>1 DEF OpState
  <2> QED BY <2>1, <2>3, <2>4
<1>12. ASSUME ViewWorking(c)
      PROVE  /\ o.pc = "view_working"
             /\ \E x \in OpState :
                  /\ op' = [op EXCEPT ![c] = x]
                  /\ x.pc = "finish" /\ x.source = DraftOrHead(o.entity, o.base) /\ x.slot = o.slot
                  /\ x.entity = o.entity
  <2> DEFINE x == [o EXCEPT !.pc = "finish", !.source = DraftOrHead(o.entity, o.base)]
  <2>1. o.pc = "view_working" /\ op' = [op EXCEPT ![c] = x]
    BY <1>12 DEF ViewWorking, Goto
  <2>2. DraftOrHead(o.entity, o.base) \in Rev0
    BY <1>1, <1>4, <2>1 DEF Facts
  <2>3. x \in OpState
    BY <1>1, <2>2 DEF OpState
  <2>4. /\ x.pc = "finish" /\ x.source = DraftOrHead(o.entity, o.base) /\ x.slot = o.slot
        /\ x.entity = o.entity
    BY <1>1 DEF OpState
  <2> QED BY <2>1, <2>3, <2>4
<1>13. ASSUME SaveRegister(c)
      PROVE  /\ o.pc = "register"
             /\ \E x \in OpState :
                  /\ op' = [op EXCEPT ![c] = x]
                  /\ x.pc = "set_ref" /\ x.entity = NewRevision /\ x.slot = o.slot
  <2> DEFINE x == [o EXCEPT !.pc = "set_ref", !.entity = NewRevision]
  <2>1. o.pc = "register" /\ op' = [op EXCEPT ![c] = x]
    BY <1>13 DEF SaveRegister, Goto
  <2>2. NewRevision \in Rev0
    BY <1>6, <1>13 DEF SaveRegister
  <2>3. x \in OpState
    BY <1>1, <2>2 DEF OpState
  <2>4. x.pc = "set_ref" /\ x.entity = NewRevision /\ x.slot = o.slot
    BY <1>1 DEF OpState
  <2> QED BY <2>1, <2>3, <2>4
<1>14. ASSUME SaveCreate(c)
      PROVE  /\ o.pc = "create"
             /\ \E x \in OpState :
                  /\ op' = [op EXCEPT ![c] = x]
                  /\ x.pc = "set_working" /\ x.source = NewRevision /\ x.slot = o.slot
                  /\ x.entity = o.entity
  <2> DEFINE x == [o EXCEPT !.pc = "set_working", !.source = NewRevision]
  <2>1. o.pc = "create" /\ op' = [op EXCEPT ![c] = x]
    BY <1>14 DEF SaveCreate, Goto
  <2>2. NewRevision \in Rev0
    BY <1>6, <1>14 DEF SaveCreate
  <2>3. x \in OpState
    BY <1>1, <2>2 DEF OpState
  <2>4. x.pc = "set_working" /\ x.source = NewRevision /\ x.slot = o.slot /\ x.entity = o.entity
    BY <1>1 DEF OpState
  <2> QED BY <2>1, <2>3, <2>4
<1>15. ASSUME ClearWorking(c)
      PROVE  /\ o.pc = "clear_working"
             /\ \E x \in OpState :
                  /\ op' = [op EXCEPT ![c] = x]
                  /\ x.pc = (IF o.slot = "architecture" THEN "view_head" ELSE "finish")
                  /\ x.slot = o.slot /\ x.entity = o.entity
  <2> DEFINE x == [o EXCEPT !.pc = (IF o.slot = "architecture" THEN "view_head" ELSE "finish")]
  <2>1. o.pc = "clear_working" /\ op' = [op EXCEPT ![c] = x]
    BY <1>15 DEF ClearWorking, Step, Goto
  <2>2. o.slot \in Slot
    BY <1>1
  <2>3. x \in OpState
    BY <1>1, <2>2 DEF OpState
  <2>4. /\ x.pc = (IF o.slot = "architecture" THEN "view_head" ELSE "finish") /\ x.slot = o.slot
        /\ x.entity = o.entity
    BY <1>1 DEF OpState
  <2> QED BY <2>1, <2>3, <2>4
<1> QED BY <1>7, <1>8, <1>9, <1>10, <1>11, <1>12, <1>13, <1>14, <1>15

\* What a step has to show when it approves nothing.
LEMMA OrderKept ==
  ASSUME TypeInv, OrderInv, Kept, approved' = approved,
         \A k \in Chapter : chapters'[k] = "CONTRACT_APPROVED" => ApprovalsOf(k) # {},
         stage' # "BOOK DEFINITION" => ApprovalsOf("contract") # {},
         stage' = "WRITING" => \E k \in Chapter : ApprovalsOf(k) # {},
         \A d \in Client : \E x : op'[d] = x /\ Gated(x)
  PROVE  OrderInv'
<1>1. \A a \in approved : a \in 1..Len(revisions) /\ revisions'[a] = revisions[a]
  BY ApprovalsGrow
<1>2. \A s : ApprovalsOf(s)' = ApprovalsOf(s)
  BY <1>1 DEF ApprovalsOf
<1>3. \A s : \A a \in ApprovalsOf(s) : revisions'[a] = revisions[a]
  BY <1>1 DEF ApprovalsOf
<1>4. BuiltInOrder'
  <2>1. (\A a \in ApprovalsOf("architecture") : \E b \in ApprovalsOf("contract") : b < a)'
    BY <1>2 DEF OrderInv, BuiltInOrder
  <2>2. (\A k \in Chapter : \A r \in ApprovalsOf(k) :
           \E a \in ApprovalsOf("architecture") : a < r /\ k \in revisions[a].chapters)'
    BY <1>2, <1>3 DEF OrderInv, BuiltInOrder
  <2>3. (\A k \in Chapter : chapters[k] = "CONTRACT_APPROVED" => ApprovalsOf(k) # {})'
    BY <1>2
  <2>4. (stage = "WRITING" => \E k \in Chapter : ApprovalsOf(k) # {})'
    BY <1>2
  <2> QED BY <2>1, <2>2, <2>3, <2>4 DEF BuiltInOrder
<1>5. \A d \in Client : Gated(op[d])'
  <2> TAKE d \in Client
  <2>1. PICK x : op'[d] = x /\ Gated(x)
    BY <1>1
  <2>2. Gated(x)'
    BY <2>1, GatedStays
  <2> QED BY <2>1, <2>2 DEF Gated
<1> QED BY <1>2, <1>4, <1>5 DEF OrderInv

\* A step that leaves the store alone and puts one call into a gated state.
LEMMA OrderOp ==
  ASSUME TypeInv, OrderInv, UNCHANGED <<revisions, approved, chapters, stage>>,
         \A d \in Client : \E x : op'[d] = x /\ Gated(x)
  PROVE  OrderInv'
<1>1. Kept /\ approved' = approved
  BY DEF TypeInv, RowsInv, Kept
<1>2. /\ \A k \in Chapter : chapters'[k] = "CONTRACT_APPROVED" => ApprovalsOf(k) # {}
      /\ stage' # "BOOK DEFINITION" => ApprovalsOf("contract") # {}
      /\ stage' = "WRITING" => \E k \in Chapter : ApprovalsOf(k) # {}
  BY DEF OrderInv, BuiltInOrder
<1> QED BY <1>1, <1>2, OrderKept

LEMMA GatedIdle == Gated(Idle)
BY DEF Gated, Idle, Approving, Accepted

LEMMA OpChange ==
  ASSUME TypeInv, OrderInv, NEW c \in Client, NEW o, op' = [op EXCEPT ![c] = o], Gated(o)
  PROVE  \A d \in Client : \E x : op'[d] = x /\ Gated(x)
BY DEF TypeInv, OpsInv, OrderInv

LEMMA StartMoves ==
  ASSUME TypeInv, NEW c \in Client, NEW s \in Slot
  PROVE  /\ ApproveBegin(c, s) =>
              /\ op[c].pc = "idle" /\ overlapped' = (overlapped \/ \E d \in Client : op[d].pc # "idle")
              /\ \E x : op' = [op EXCEPT ![c] = x] /\ x.pc = "read_ref" /\ x.slot = s
         /\ \A y \in ContentOf(s) : SaveBegin(c, s, y) =>
              /\ op[c].pc = "idle" /\ overlapped' = (overlapped \/ \E d \in Client : op[d].pc # "idle")
              /\ \E x : /\ op' = [op EXCEPT ![c] = x] /\ x.slot = s /\ x.entity = ref[s]
                       /\ x.pc = (IF ref[s] = 0 THEN "register" ELSE "create")
<1>1. ASSUME ApproveBegin(c, s)
      PROVE  /\ op[c].pc = "idle" /\ overlapped' = (overlapped \/ \E d \in Client : op[d].pc # "idle")
             /\ \E x : op' = [op EXCEPT ![c] = x] /\ x.pc = "read_ref" /\ x.slot = s
  <2> DEFINE x == [Idle EXCEPT !.pc = "read_ref", !.slot = s]
  <2>1. /\ op[c].pc = "idle" /\ overlapped' = (overlapped \/ \E d \in Client : op[d].pc # "idle")
        /\ op' = [op EXCEPT ![c] = x]
    BY <1>1 DEF ApproveBegin, Start, Goto
  <2>2. x.pc = "read_ref" /\ x.slot = s
    BY DEF Idle
  <2> QED BY <2>1, <2>2
<1>2. ASSUME NEW y \in ContentOf(s), SaveBegin(c, s, y)
      PROVE  /\ op[c].pc = "idle" /\ overlapped' = (overlapped \/ \E d \in Client : op[d].pc # "idle")
             /\ \E x : /\ op' = [op EXCEPT ![c] = x] /\ x.slot = s /\ x.entity = ref[s]
                      /\ x.pc = (IF ref[s] = 0 THEN "register" ELSE "create")
  <2> DEFINE x == [Idle EXCEPT !.pc = IF ref[s] = 0 THEN "register" ELSE "create",
                               !.slot = s, !.content = y, !.entity = ref[s]]
  <2>1. /\ op[c].pc = "idle" /\ overlapped' = (overlapped \/ \E d \in Client : op[d].pc # "idle")
        /\ op' = [op EXCEPT ![c] = x]
    BY <1>2 DEF SaveBegin, Start, Goto
  <2>2. x.slot = s /\ x.entity = ref[s] /\ x.pc = (IF ref[s] = 0 THEN "register" ELSE "create")
    BY DEF Idle
  <2> QED BY <2>1, <2>2
<1> QED BY <1>1, <1>2

LEMMA OrderStarts ==
  ASSUME TypeInv, OrderInv, NEW c \in Client, NEW s \in Slot,
         ApproveBegin(c, s) \/ \E x \in ContentOf(s) : SaveBegin(c, s, x)
  PROVE  OrderInv'
<1>1. UNCHANGED <<revisions, approved, chapters, stage>>
  BY DEF ApproveBegin, SaveBegin, store
<1>2. CASE ApproveBegin(c, s)
  <2>1. PICK o : op' = [op EXCEPT ![c] = o] /\ o.pc = "read_ref" /\ o.slot = s
    BY <1>2, StartMoves
  <2>2. s = "architecture" => ApprovalsOf("contract") # {}
    BY <1>2, HeadApproves DEF ApproveBegin, Gate, Slot
  <2>3. s \in Chapter => \E a \in ApprovalsOf("architecture") : s \in revisions[a].chapters
    BY <1>2, HeadApproves DEF ApproveBegin, Gate, Slot
  <2>4. Gated(o)
    BY <2>1, <2>2, <2>3 DEF Gated, Approving, Accepted
  <2> QED BY <1>1, <2>1, <2>4, OpChange, OrderOp
<1>3. ASSUME NEW x \in ContentOf(s), SaveBegin(c, s, x) PROVE OrderInv'
  <2>1. PICK o : op' = [op EXCEPT ![c] = o] /\ o.pc \in {"register", "create"}
    BY <1>3, StartMoves
  <2>2. Gated(o)
    BY <2>1 DEF Gated, Approving, Accepted
  <2> QED BY <1>1, <2>1, <2>2, OpChange, OrderOp
<1> QED BY <1>2, <1>3

LEMMA OrderMoves ==
  ASSUME TypeInv, OrderInv, NEW c \in Client,
         \/ ApproveReadRef(c) \/ ApproveReadHead(c) \/ ApproveReadWorking(c)
         \/ ClearWorking(c) \/ ViewHead(c) \/ ViewWorking(c)
  PROVE  OrderInv'
<1>1. UNCHANGED <<revisions, approved, chapters, stage>>
  BY DEF ApproveReadRef, ApproveReadHead, ApproveReadWorking, ClearWorking, ViewHead, ViewWorking, store
<1>2. PICK o : o = op[c] /\ o \in OpState /\ Gated(o)
  BY OpRow DEF OrderInv
<1>3. PICK x : /\ op' = [op EXCEPT ![c] = x] /\ x.slot = o.slot
               /\ o.pc \in Approving /\ x.pc \in Approving
               /\ x.pc \in Accepted => o.pc \in Accepted
  <2>1. CASE ApproveReadRef(c)
    BY <1>2, <2>1, Moves DEF Approving, Accepted
  <2>2. CASE ApproveReadHead(c)
    BY <1>2, <2>2, Moves DEF Approving, Accepted
  <2>3. CASE ApproveReadWorking(c)
    BY <1>2, <2>3, Moves DEF Approving, Accepted
  <2>4. CASE ClearWorking(c)
    BY <1>2, <2>4, Moves DEF Approving, Accepted
  <2>5. CASE ViewHead(c)
    BY <1>2, <2>5, Moves DEF Approving, Accepted
  <2>6. CASE ViewWorking(c)
    BY <1>2, <2>6, Moves DEF Approving, Accepted
  <2> QED BY <2>1, <2>2, <2>3, <2>4, <2>5, <2>6
<1>4. Gated(x)
  BY <1>2, <1>3 DEF Gated
<1> QED BY <1>1, <1>3, <1>4, OpChange, OrderOp

LEMMA OrderSaves ==
  ASSUME TypeInv, OrderInv, NEW c \in Client,
         SaveRegister(c) \/ SaveSetRef(c) \/ SaveCreate(c) \/ SaveSetWorking(c)
  PROVE  OrderInv'
<1>1. Kept
  BY AlwaysKept DEF Next
<1>2. UNCHANGED <<approved, chapters, stage>>
  BY DEF SaveRegister, SaveSetRef, SaveCreate, SaveSetWorking
<1>3. PICK o : o = op[c] /\ o \in OpState
  BY OpRow
<1>4. PICK x : op' = [op EXCEPT ![c] = x] /\ x.pc \in {"set_ref", "set_working", "idle"}
  <2>1. CASE SaveRegister(c)
    BY <1>3, <2>1, Moves
  <2>2. CASE SaveCreate(c)
    BY <1>3, <2>2, Moves
  <2>3. CASE SaveSetRef(c) \/ SaveSetWorking(c)
    BY <2>3 DEF SaveSetRef, SaveSetWorking, Finish, Goto, Idle
  <2> QED BY <2>1, <2>2, <2>3
<1>5. Gated(x)
  BY <1>4 DEF Gated, Approving, Accepted
<1>6. /\ \A k \in Chapter : chapters'[k] = "CONTRACT_APPROVED" => ApprovalsOf(k) # {}
      /\ stage' # "BOOK DEFINITION" => ApprovalsOf("contract") # {}
      /\ stage' = "WRITING" => \E k \in Chapter : ApprovalsOf(k) # {}
  BY <1>2 DEF OrderInv, BuiltInOrder
<1> QED BY <1>1, <1>2, <1>4, <1>5, <1>6, OpChange, OrderKept

LEMMA OrderFinish ==
  ASSUME TypeInv, OrderInv, NEW c \in Client, FinishArchitecture(c) \/ FinishContract(c) \/ FinishChapter(c)
  PROVE  OrderInv'
<1>1. Kept
  BY AlwaysKept DEF Next
<1>2. PICK o : o = op[c] /\ o \in OpState /\ Gated(o)
  BY OpRow DEF OrderInv
<1>3. /\ op' = [op EXCEPT ![c] = Idle] /\ UNCHANGED approved /\ o.pc = "finish"
  BY <1>2 DEF FinishArchitecture, FinishContract, FinishChapter, Finish, Goto
<1>4. \A d \in Client : \E x : op'[d] = x /\ Gated(x)
  BY <1>3, GatedIdle, OpChange
<1>5. ApprovalsOf(o.slot) # {}
  BY <1>2, <1>3 DEF Gated, Accepted
<1>6. o.slot = "architecture" \/ o.slot \in Chapter => ApprovalsOf("contract") # {}
  BY <1>2, <1>5 DEF OrderInv, BuiltInOrder
<1>7. \A k \in Chapter : chapters'[k] = "CONTRACT_APPROVED" => ApprovalsOf(k) # {}
  <2>1. ASSUME NEW k \in Chapter, chapters'[k] = "CONTRACT_APPROVED", FinishArchitecture(c)
        PROVE  chapters[k] = "CONTRACT_APPROVED"
    BY <2>1 DEF FinishArchitecture, NextState
  <2>2. ASSUME NEW k \in Chapter, chapters'[k] = "CONTRACT_APPROVED", FinishChapter(c)
        PROVE  chapters[k] = "CONTRACT_APPROVED" \/ k = o.slot
    BY <1>2, <2>2 DEF FinishChapter, TypeInv, TablesInv
  <2>3. ASSUME FinishContract(c) PROVE chapters' = chapters
    BY <2>3 DEF FinishContract
  <2> QED BY <1>5, <2>1, <2>2, <2>3 DEF OrderInv, BuiltInOrder
<1>8. ApprovalsOf("contract") # {}
  BY <1>2, <1>5, <1>6 DEF FinishArchitecture, FinishContract, FinishChapter
<1>9. stage' = "WRITING" => \E k \in Chapter : ApprovalsOf(k) # {}
  BY <1>2, <1>5 DEF FinishArchitecture, FinishContract, FinishChapter
<1> QED BY <1>1, <1>3, <1>4, <1>7, <1>8, <1>9, OrderKept

LEMMA OrderAccept ==
  ASSUME TypeInv, OrderInv, NEW c \in Client, Accept(c)
  PROVE  OrderInv'
<1>0. PICK n : n = NewRevision
  OBVIOUS
<1>1. PICK o : o = op[c] /\ o \in OpState /\ Facts(o) /\ Gated(o) /\ o.slot \in Slot
  BY OpRow DEF OrderInv
<1>2. PICK x : o.pc = "accept" /\ op' = [op EXCEPT ![c] = x] /\ x.pc = "clear_working" /\ x.slot = o.slot
  BY <1>1, Moves
<1>3. /\ Insert(o.slot, o.entity, revisions[o.source].chapters, revisions[o.source].source)
      /\ approved' = approved \union {n} /\ UNCHANGED <<chapters, stage>>
  BY <1>0, <1>1 DEF Accept
<1>4. Kept /\ Len(revisions') = n /\ n = Len(revisions) + 1 /\ Len(revisions) \in Nat
  BY <1>0, <1>3, InsertKeeps DEF TypeInv, RowsInv, NewRevision
<1>5. revisions'[n].slot = o.slot
  <2>1. PICK row : revisions' = Append(revisions, row) /\ row.slot = o.slot /\ revisions \in Seq(Row)
    BY <1>3 DEF Insert, TypeInv, RowsInv
  <2> QED BY <1>4, <2>1
<1>6. /\ \A a \in approved : a \in 1..Len(revisions) /\ a < n /\ revisions'[a] = revisions[a]
      /\ \A s : ApprovalsOf(s) \subseteq ApprovalsOf(s)'
  <2>1. \A a \in approved : a \in 1..Len(revisions) /\ revisions'[a] = revisions[a]
    BY <1>4, ApprovalsGrow
  <2>2. \A s : ApprovalsOf(s) \subseteq ApprovalsOf(s)'
    BY <1>4, ApprovalsGrow
  <2> QED BY <1>4, <2>1, <2>2
<1>7. \A s : \A a : a \in ApprovalsOf(s)' <=> a \in ApprovalsOf(s) \/ (a = n /\ s = o.slot)
  <2> SUFFICES ASSUME NEW s, NEW a PROVE a \in ApprovalsOf(s)' <=> a \in ApprovalsOf(s) \/ (a = n /\ s = o.slot)
    OBVIOUS
  <2>1. a \in approved' <=> a \in approved \/ a = n
    BY <1>3
  <2> QED BY <1>5, <1>6, <2>1 DEF ApprovalsOf
<1>8. \A s : \A a \in ApprovalsOf(s) : a < n /\ revisions'[a] = revisions[a]
  BY <1>6 DEF ApprovalsOf
<1>9. BuiltInOrder'
  <2>1. (\A a \in ApprovalsOf("architecture") : \E b \in ApprovalsOf("contract") : b < a)'
    <3> SUFFICES ASSUME NEW a \in ApprovalsOf("architecture")'
                 PROVE  \E b \in ApprovalsOf("contract")' : b < a
      OBVIOUS
    <3>1. CASE a \in ApprovalsOf("architecture")
      BY <1>6, <3>1 DEF OrderInv, BuiltInOrder
    <3>2. CASE a = n /\ o.slot = "architecture"
      BY <1>1, <1>2, <1>6, <1>8, <3>2 DEF Gated, Approving
    <3> QED BY <1>7, <3>1, <3>2
  <2>2. (\A k \in Chapter : \A r \in ApprovalsOf(k) :
           \E a \in ApprovalsOf("architecture") : a < r /\ k \in revisions[a].chapters)'
    <3> SUFFICES ASSUME NEW k \in Chapter, NEW r \in ApprovalsOf(k)'
                 PROVE  \E a \in ApprovalsOf("architecture")' : a < r /\ k \in revisions'[a].chapters
      OBVIOUS
    <3>1. CASE r \in ApprovalsOf(k)
      BY <1>6, <1>8, <3>1 DEF OrderInv, BuiltInOrder
    <3>2. CASE r = n /\ k = o.slot
      BY <1>1, <1>2, <1>6, <1>8, <3>2 DEF Gated, Approving
    <3> QED BY <1>7, <3>1, <3>2
  <2>3. (\A k \in Chapter : chapters[k] = "CONTRACT_APPROVED" => ApprovalsOf(k) # {})'
    BY <1>3, <1>7 DEF OrderInv, BuiltInOrder
  <2>4. (stage = "WRITING" => \E k \in Chapter : ApprovalsOf(k) # {})'
    BY <1>3, <1>7 DEF OrderInv, BuiltInOrder
  <2> QED BY <2>1, <2>2, <2>3, <2>4 DEF BuiltInOrder
<1>10. \A d \in Client : Gated(op[d])'
  <2> SUFFICES ASSUME NEW d \in Client PROVE Gated(op[d])'
    OBVIOUS
  <2>1. CASE d = c
    <3>1. op'[d] = x
      BY <1>2, <2>1 DEF TypeInv, OpsInv
    <3>2. (x.slot = "architecture" => ApprovalsOf("contract") # {})'
      BY <1>1, <1>2, <1>7 DEF Gated, Approving
    <3>3. (x.slot \in Chapter => \E a \in ApprovalsOf("architecture") : x.slot \in revisions[a].chapters)'
      BY <1>1, <1>2, <1>6, <1>8 DEF Gated, Approving
    <3>4. ApprovalsOf(x.slot)' # {}
      BY <1>2, <1>7
    <3> QED BY <3>1, <3>2, <3>3, <3>4 DEF Gated
  <2>2. CASE d # c
    <3>1. PICK y : op'[d] = y /\ Gated(y)
      BY <1>2, <2>2 DEF TypeInv, OpsInv, OrderInv
    <3>2. Gated(y)'
      BY <1>4, <3>1, GatedStays
    <3> QED BY <3>1, <3>2 DEF Gated
  <2> QED BY <2>1, <2>2
<1>11. (stage # "BOOK DEFINITION" => ApprovalsOf("contract") # {})'
  BY <1>3, <1>7 DEF OrderInv
<1> QED BY <1>9, <1>10, <1>11 DEF OrderInv

LEMMA OrderEnds ==
  ASSUME TypeInv, OrderInv, (\E c \in Client : Abort(c)) \/ Crash \/ UNCHANGED vars
  PROVE  OrderInv'
<1>1. UNCHANGED <<revisions, approved, chapters, stage>>
  BY DEF Abort, Crash, vars, store
<1>2. \A d \in Client : op'[d] \in {op[d], Idle}
  BY DEF Abort, Crash, Finish, Goto, vars, TypeInv, OpsInv
<1>3. \A d \in Client : \E x : op'[d] = x /\ Gated(x)
  BY <1>2, GatedIdle DEF OrderInv
<1> QED BY <1>1, <1>3, OrderOp

LEMMA OrderStep == TypeInv /\ OrderInv /\ [Next]_vars => OrderInv'
<1> SUFFICES ASSUME TypeInv, OrderInv, [Next]_vars PROVE OrderInv'
  OBVIOUS
<1>1. ASSUME NEW c \in Client, NEW s \in Slot,
             ApproveBegin(c, s) \/ \E x \in ContentOf(s) : SaveBegin(c, s, x)
      PROVE  OrderInv'
  BY <1>1, OrderStarts
<1>2. ASSUME NEW c \in Client,
             \/ ApproveReadRef(c) \/ ApproveReadHead(c) \/ ApproveReadWorking(c)
             \/ ClearWorking(c) \/ ViewHead(c) \/ ViewWorking(c)
      PROVE  OrderInv'
  BY <1>2, OrderMoves
<1>3. ASSUME NEW c \in Client, SaveRegister(c) \/ SaveSetRef(c) \/ SaveCreate(c) \/ SaveSetWorking(c)
      PROVE  OrderInv'
  BY <1>3, OrderSaves
<1>4. ASSUME NEW c \in Client, FinishArchitecture(c) \/ FinishContract(c) \/ FinishChapter(c) PROVE OrderInv'
  BY <1>4, OrderFinish
<1>5. ASSUME NEW c \in Client, Accept(c) PROVE OrderInv'
  BY <1>5, OrderAccept
<1>6. ASSUME (\E c \in Client : Abort(c)) \/ Crash \/ UNCHANGED vars PROVE OrderInv'
  BY <1>6, OrderEnds
<1> QED BY <1>1, <1>2, <1>3, <1>4, <1>5, <1>6 DEF Next

LEMMA OrderInvariant == Spec => []OrderInv
<1>1. Init => OrderInv
  <2> SUFFICES ASSUME Init PROVE OrderInv
    OBVIOUS
  <2>1. /\ approved = {} /\ stage = "BOOK DEFINITION" /\ chapters = [k \in Chapter |-> "absent"]
        /\ op = [c \in Client |-> Idle]
    BY DEF Init
  <2> QED BY <2>1, GatedIdle DEF OrderInv, BuiltInOrder, ApprovalsOf
<1> QED BY <1>1, OrderStep, TypeInvariant, PTL DEF Spec

\* Authority is built in order whatever requests race: contract, architecture, chapter contracts.
THEOREM AuthorityIsBuiltInOrder == Spec => []BuiltInOrder
BY OrderInvariant, PTL DEF OrderInv

(***************************************************************************)
(* A draft waits in one place at a time.                                   *)
(***************************************************************************)
\* A draft no save has stored yet is one of the rows, and its own source.
LEMMA PendingRow ==
  ASSUME TypeInv, NEW d, Pending(d)
  PROVE  d \in 1..Len(revisions) /\ Src(d) = d
<1>1. PICK c \in Client : op[c].pc = "set_working" /\ op[c].source = d
  BY DEF Pending
<1>2. PICK o : o = op[c] /\ Facts(o)
  BY OpRow
<1> QED BY <1>1, <1>2 DEF Facts, Version

LEMMA ReadOnceIdle == \A o : o.pc \notin {"read_working", "accept"} => ReadOnce(o)
BY DEF ReadOnce

\* A step that adds no revision, moves no head, stores no draft.
LEMMA DraftQuiet ==
  ASSUME TypeInv, DraftInv, UNCHANGED <<revisions, head, approved>>,
         \A e \in Rev : working'[e] \in {working[e], 0},
         \A d \in Client : \E x : op'[d] = x /\ ReadOnce(x) /\ Facts(x) /\ (x.pc = "set_working" => x = op[d])
  PROVE  DraftInv'
<1>1. \A d : Pending(d)' => Pending(d)
  <2> SUFFICES ASSUME NEW d, NEW b \in Client, op'[b].pc = "set_working", op'[b].source = d PROVE Pending(d)
    BY DEF Pending
  <2> QED BY DEF Pending
<1>2. (\A d : Spent(d)' = Spent(d)) /\ \A r : Src(r)' = Src(r)
  BY DEF Spent, Src
<1>3. NoDraftReinstated'
  BY DEF DraftInv, NoDraftReinstated
<1>4. (\A b, d \in Client : /\ op[b].pc = "set_working" /\ op[d].pc = "set_working"
                            /\ op[b].source = op[d].source
                            => b = d)'
  BY DEF DraftInv
<1>5. (\A r \in approved : ~Pending(Src(r)))'
  BY <1>1, <1>2 DEF DraftInv
<1>6. (\A e \in Rev : /\ head[e] # 0 => ~Pending(Src(head[e]))
                      /\ working[e] # 0 => ~Pending(working[e])
                      /\ working[e] # 0 /\ Spent(working[e]) => Src(head[e]) = working[e])'
  BY <1>1, <1>2 DEF DraftInv
<1>7. \A d \in Client : ReadOnce(op[d])'
  <2> SUFFICES ASSUME NEW d \in Client PROVE ReadOnce(op[d])'
    OBVIOUS
  <2>1. PICK x : op'[d] = x /\ ReadOnce(x) /\ Facts(x)
    OBVIOUS
  <2>2. x.pc = "accept" => x.entity \in Rev
    BY <2>1, HeadRow DEF Facts
  <2>3. ReadOnce(x)'
    BY <1>1, <1>2, <2>1, <2>2 DEF ReadOnce
  <2> QED BY <2>1, <2>3 DEF ReadOnce
<1> QED BY <1>3, <1>4, <1>5, <1>6, <1>7 DEF DraftInv

LEMMA DraftOp ==
  ASSUME TypeInv, DraftInv, NEW c \in Client, NEW o, op' = [op EXCEPT ![c] = o], ReadOnce(o), Facts(o),
         o.pc # "set_working"
  PROVE  \A d \in Client : \E x : op'[d] = x /\ ReadOnce(x) /\ Facts(x) /\ (x.pc = "set_working" => x = op[d])
BY DEF TypeInv, OpsInv, DraftInv

LEMMA DraftStarts ==
  ASSUME TypeInv, DraftInv, NEW c \in Client, NEW s \in Slot, TypeInv',
         ApproveBegin(c, s) \/ \E x \in ContentOf(s) : SaveBegin(c, s, x)
  PROVE  DraftInv'
<1>1. UNCHANGED <<revisions, head, approved, working>> /\ \A e \in Rev : working'[e] \in {working[e], 0}
  BY DEF ApproveBegin, SaveBegin, store
<1>2. PICK x : op' = [op EXCEPT ![c] = x] /\ x.pc \in {"read_ref", "register", "create"}
  BY StartMoves
<1>3. ReadOnce(x) /\ x.pc # "set_working"
  BY <1>2, ReadOnceIdle
<1>4. UNCHANGED <<revisions, ref, head, approved, working, chapters, stage, saved>>
  BY DEF ApproveBegin, SaveBegin, store
<1>5. Facts(x)
  <2>1. op'[c] = x
    BY <1>2 DEF TypeInv, OpsInv
  <2>2. Facts(op[c])'
    BY DEF TypeInv, OpsInv
  <2> QED BY <1>4, <2>1, <2>2 DEF Facts, IsEntity, Version, Ent, Src
<1> QED BY <1>1, <1>2, <1>3, <1>5, DraftOp, DraftQuiet

LEMMA DraftMoves ==
  ASSUME TypeInv, DraftInv, TypeInv', NEW c \in Client,
         \/ ApproveReadRef(c) \/ ApproveReadHead(c) \/ ApproveReadWorking(c)
         \/ ClearWorking(c) \/ ViewHead(c) \/ ViewWorking(c)
  PROVE  DraftInv'
<1>1. UNCHANGED <<revisions, ref, head, approved, chapters, stage, saved>>
  BY DEF ApproveReadRef, ApproveReadHead, ApproveReadWorking, ClearWorking, ViewHead, ViewWorking, store
<1>2. \A e \in Rev : working'[e] \in {working[e], 0}
  BY DEF ApproveReadRef, ApproveReadHead, ApproveReadWorking, ClearWorking, ViewHead, ViewWorking, store,
     TypeInv, TablesInv
<1>3. PICK o : o = op[c] /\ o \in OpState /\ Facts(o) /\ ReadOnce(o)
  BY OpRow DEF DraftInv
<1>4. PICK x : op' = [op EXCEPT ![c] = x] /\ ReadOnce(x) /\ x.pc # "set_working"
  <2>1. CASE ApproveReadRef(c)
    BY <1>3, <2>1, Moves, ReadOnceIdle
  <2>2. CASE ApproveReadHead(c)
    <3>1. PICK x : op' = [op EXCEPT ![c] = x] /\ o.pc = "read_head" /\ x.pc = "read_working" /\ x.base = head[o.entity]
      BY <1>3, <2>2, Moves
    <3>2. o.entity \in Rev /\ head[o.entity] # 0
      BY <1>3, <3>1, HeadRow DEF Facts
    <3> QED BY <3>1, <3>2 DEF ReadOnce, DraftInv
  <2>3. CASE ApproveReadWorking(c)
    <3>1. PICK x : /\ op' = [op EXCEPT ![c] = x] /\ o.pc = "read_working" /\ x.pc = "accept"
                   /\ x.source = DraftOrHead(o.entity, o.base) /\ x.entity = o.entity /\ x.base = o.base
      BY <1>3, <2>3, Moves
    <3>2. o.entity \in Rev /\ head[o.entity] # 0
      BY <1>3, <3>1, HeadRow DEF Facts
    <3>3. ~Pending(Src(o.base))
      BY <1>3, <3>1 DEF ReadOnce
    <3>4. CASE working[o.entity] = 0
      <4>1. x.source = o.base
        BY <3>1, <3>4 DEF DraftOrHead
      <4> QED BY <3>1, <3>3, <3>4, <4>1 DEF ReadOnce
    <3>5. CASE working[o.entity] # 0
      <4>1. x.source = working[o.entity] /\ Src(x.source) = x.source
        BY <3>1, <3>2, <3>5 DEF DraftOrHead, TypeInv, TablesInv
      <4>2. ~Pending(x.source) /\ (Spent(x.source) => Src(head[o.entity]) = x.source)
        BY <3>2, <3>5, <4>1 DEF DraftInv
      <4> QED BY <3>1, <3>3, <4>1, <4>2 DEF ReadOnce
    <3> QED BY <3>4, <3>5
  <2>4. CASE ClearWorking(c)
    BY <1>3, <2>4, Moves, ReadOnceIdle
  <2>5. CASE ViewHead(c)
    BY <1>3, <2>5, Moves, ReadOnceIdle
  <2>6. CASE ViewWorking(c)
    BY <1>3, <2>6, Moves, ReadOnceIdle
  <2> QED BY <2>1, <2>2, <2>3, <2>4, <2>5, <2>6
<1>5. Facts(x)
  <2>1. op'[c] = x
    BY <1>4 DEF TypeInv, OpsInv
  <2>2. Facts(op[c])'
    BY DEF TypeInv, OpsInv
  <2> QED BY <1>1, <2>1, <2>2 DEF Facts, IsEntity, Version, Ent, Src
<1> QED BY <1>1, <1>2, <1>4, <1>5, DraftOp, DraftQuiet

LEMMA DraftEnds ==
  ASSUME TypeInv, DraftInv,
         \/ \E c \in Client : \/ SaveSetRef(c) \/ Abort(c)
                              \/ FinishArchitecture(c) \/ FinishContract(c) \/ FinishChapter(c)
         \/ Crash \/ UNCHANGED vars
  PROVE  DraftInv'
<1>1. UNCHANGED <<revisions, head, approved, working>> /\ \A e \in Rev : working'[e] \in {working[e], 0}
  BY DEF SaveSetRef, Abort, FinishArchitecture, FinishContract, FinishChapter, Crash, vars, store
<1>2. \A d \in Client : op'[d] \in {op[d], Idle}
  BY DEF SaveSetRef, Abort, FinishArchitecture, FinishContract, FinishChapter, Crash, Finish, Goto, vars,
     TypeInv, OpsInv
<1>3. ReadOnce(Idle) /\ Facts(Idle) /\ Idle.pc = "idle"
  BY IdleRow, ReadOnceIdle
<1>4. \A d \in Client : \E x : op'[d] = x /\ ReadOnce(x) /\ Facts(x) /\ (x.pc = "set_working" => x = op[d])
  BY <1>2, <1>3 DEF DraftInv, TypeInv, OpsInv
<1> QED BY <1>1, <1>4, DraftQuiet

LEMMA DraftStored ==
  ASSUME TypeInv, DraftInv, NEW c \in Client, SaveSetWorking(c)
  PROVE  DraftInv'
<1>1. PICK o : o = op[c] /\ o \in OpState /\ Facts(o)
  BY OpRow
<1>2. /\ o.pc = "set_working" /\ working' = [working EXCEPT ![o.entity] = o.source]
      /\ op' = [op EXCEPT ![c] = Idle] /\ UNCHANGED <<revisions, head, approved>>
  BY <1>1 DEF SaveSetWorking, Finish, Goto
<1>3. /\ working' \in [Rev -> Nat] /\ \A e \in Rev : working'[e] = IF e = o.entity THEN o.source ELSE working[e]
  <2>1. working \in [Rev -> 0..Len(revisions)] /\ o.source \in Nat /\ Len(revisions) \in Nat
    BY <1>1, Bounds DEF TypeInv, TablesInv, RowsInv, OpState, Rev0
  <2>2. working \in [Rev -> Nat]
    BY <2>1
  <2> QED BY <1>2, <2>1, <2>2
<1>4. \A d \in Client : op'[d] = IF d = c THEN Idle ELSE op[d]
  BY <1>2 DEF TypeInv, OpsInv
<1>5. \A d : Pending(d)' => Pending(d) /\ d # o.source
  <2> SUFFICES ASSUME NEW d, NEW b \in Client, op'[b].pc = "set_working", op'[b].source = d
               PROVE  Pending(d) /\ d # o.source
    BY DEF Pending
  <2>1. b # c /\ op'[b] = op[b]
    BY <1>4, IdleRow
  <2>2. d # o.source
    BY <1>1, <1>2, <2>1 DEF DraftInv
  <2> QED BY <2>1, <2>2 DEF Pending
<1>6. (\A d : Spent(d)' = Spent(d)) /\ \A r : Src(r)' = Src(r)
  BY <1>2 DEF Spent, Src
<1>7. ~Spent(o.source)
  <2>1. Pending(o.source)
    BY <1>1, <1>2 DEF Pending
  <2> QED BY <2>1 DEF Spent, DraftInv
<1>8. NoDraftReinstated'
  BY <1>2 DEF DraftInv, NoDraftReinstated
<1>9. (\A b, d \in Client : /\ op[b].pc = "set_working" /\ op[d].pc = "set_working"
                            /\ op[b].source = op[d].source
                            => b = d)'
  BY <1>4, IdleRow DEF DraftInv
<1>10. (\A r \in approved : ~Pending(Src(r)))'
  BY <1>2, <1>5, <1>6 DEF DraftInv
<1>11. (\A e \in Rev : /\ head[e] # 0 => ~Pending(Src(head[e]))
                       /\ working[e] # 0 => ~Pending(working[e])
                       /\ working[e] # 0 /\ Spent(working[e]) => Src(head[e]) = working[e])'
  BY <1>2, <1>3, <1>5, <1>6, <1>7 DEF DraftInv
<1>12. \A d \in Client : ReadOnce(op[d])'
  <2> SUFFICES ASSUME NEW d \in Client PROVE ReadOnce(op[d])'
    OBVIOUS
  <2>1. PICK x : op'[d] = x /\ ReadOnce(x) /\ Facts(x)
    BY <1>4, IdleRow, ReadOnceIdle DEF DraftInv, TypeInv, OpsInv
  <2>2. x.pc = "accept" => x.entity \in Rev
    BY <2>1, HeadRow DEF Facts
  <2>3. ReadOnce(x)'
    BY <1>2, <1>3, <1>5, <1>6, <1>7, <2>1, <2>2 DEF ReadOnce
  <2> QED BY <2>1, <2>3 DEF ReadOnce
<1> QED BY <1>8, <1>9, <1>10, <1>11, <1>12 DEF DraftInv

\* A new revision, its own source, of a new entity or of one whose head stays.
LEMMA DraftInserted ==
  ASSUME TypeInv, TypeInv', DraftInv, NEW c \in Client, SaveRegister(c) \/ SaveCreate(c)
  PROVE  DraftInv'
<1>0. PICK n : n = NewRevision
  OBVIOUS
<1>1. PICK o : o = op[c] /\ o \in OpState /\ Facts(o)
  BY OpRow
<1>2. PICK e : Insert(o.slot, e, o.content, n) /\ UNCHANGED <<approved, working>>
  BY <1>0, <1>1 DEF SaveRegister, SaveCreate
<1>3. Kept /\ Len(revisions') = n /\ n = Len(revisions) + 1 /\ Len(revisions) \in Nat
  BY <1>0, <1>2, InsertKeeps DEF TypeInv, RowsInv, NewRevision
<1>4. Src(n)' = n
  <2>1. PICK row : revisions' = Append(revisions, row) /\ row.source = n /\ revisions \in Seq(Row)
    BY <1>2 DEF Insert, TypeInv, RowsInv
  <2> QED BY <1>3, <2>1 DEF Src
<1>5. \A r \in 1..Len(revisions) : Src(r)' = Src(r) /\ Ent(r)' = Ent(r) /\ Src(r) # n /\ Ent(r) # n /\ r # n /\ r \in Nat
  <2>1. \A r \in 1..Len(revisions) : Src(r) \in 1..Len(revisions) /\ Ent(r) \in 1..Len(revisions)
    BY RowRange DEF TypeInv
  <2> QED BY <1>3, <2>1 DEF Kept, Src, Ent
<1>6. PICK x : /\ op' = [op EXCEPT ![c] = x]
               /\ \/ x.pc = "set_working" /\ x.source = n /\ UNCHANGED head
                  \/ x.pc = "set_ref" /\ head' = [head EXCEPT ![n] = n]
  BY <1>0, <1>1, Moves DEF SaveRegister, SaveCreate
<1>7. \A d \in Client : op'[d] = IF d = c THEN x ELSE op[d]
  BY <1>6 DEF TypeInv, OpsInv
<1>8. \A d : Pending(d)' => Pending(d) \/ (d = n /\ UNCHANGED head)
  <2> SUFFICES ASSUME NEW d, NEW b \in Client, op'[b].pc = "set_working", op'[b].source = d
               PROVE  Pending(d) \/ (d = n /\ UNCHANGED head)
    BY DEF Pending
  <2> QED BY <1>6, <1>7 DEF Pending
<1>9. /\ \A a \in approved : a \in 1..Len(revisions)
      /\ \A y \in Rev : head[y] \in 0..Len(revisions) /\ working[y] \in 0..Len(revisions)
      /\ head \in [Rev -> 0..Len(revisions)]
  BY DEF TypeInv, TablesInv
<1>10. \A d : Spent(d)' <=> Spent(d)
  BY <1>2, <1>5, <1>9 DEF Spent
<1>11. \A y \in Rev : head'[y] = head[y] \/ (y = n /\ head'[y] = n /\ head' # head)
  BY <1>6, <1>9
<1>12. NoDraftReinstated'
  <2>1. \A a \in approved : revisions'[a] = revisions[a]
    BY <1>3, <1>9 DEF Kept
  <2> QED BY <1>2, <2>1 DEF DraftInv, NoDraftReinstated
<1>13. (\A b, d \in Client : /\ op[b].pc = "set_working" /\ op[d].pc = "set_working"
                             /\ op[b].source = op[d].source
                             => b = d)'
  <2>1. \A b \in Client : op[b].pc = "set_working" => op[b].source # n
    <3> TAKE b \in Client
    <3>1. op[b].pc = "set_working" => Pending(op[b].source)
      BY DEF Pending
    <3>2. ASSUME NEW d, Pending(d) PROVE d # n
      BY <1>3, <3>2, PendingRow
    <3> QED BY <3>1, <3>2
  <2> QED BY <1>6, <1>7, <2>1 DEF DraftInv
<1>14. (\A r \in approved : ~Pending(Src(r)))'
  BY <1>2, <1>5, <1>8, <1>9 DEF DraftInv
<1>15. ASSUME NEW y \in Rev, working[y] # 0 PROVE y # n /\ head'[y] = head[y] /\ head[y] # 0
  <2>1. Version(working[y], y) /\ head[Ent(working[y])] # 0
    BY <1>15, <1>9 DEF TypeInv, TablesInv, Version
  <2>2. y # n /\ head[y] # 0
    BY <1>5, <2>1 DEF Version
  <2> QED BY <1>11, <2>2
<1>16. \A y \in Rev : (head[y] # 0 => ~Pending(Src(head[y])))'
  <2> SUFFICES ASSUME NEW y \in Rev, head'[y] # 0 PROVE ~Pending(Src(head[y]))'
    OBVIOUS
  <2>1. CASE head'[y] = head[y]
    <3>1. head[y] \in 1..Len(revisions) /\ Src(head[y])' = Src(head[y]) /\ Src(head[y]) # n /\ ~Pending(Src(head[y]))
      <4>1. head[y] \in 1..Len(revisions)
        BY <1>9, <2>1, <1>3
      <4>2. PICK h : h = head[y]
        OBVIOUS
      <4>3. Src(h)' = Src(h) /\ Src(h) # n
        BY <1>5, <4>1, <4>2
      <4>4. Src(head[y])' = Src(h)'
        BY <2>1, <4>2 DEF Src
      <4> QED BY <1>3, <4>1, <4>2, <4>3, <4>4 DEF DraftInv
    <3> QED BY <1>8, <3>1
  <2>2. CASE y = n /\ head'[y] = n /\ head' # head
    <3>1. Src(head[y])' = n
      BY <1>4, <2>2 DEF Src
    <3>2. ~Pending(n)
      BY <1>3, PendingRow
    <3> QED BY <1>8, <2>2, <3>1, <3>2
  <2> QED BY <1>11, <2>1, <2>2
<1>17. (\A y \in Rev : working[y] # 0 => ~Pending(working[y]) /\ (Spent(working[y]) => Src(head[y]) = working[y]))'
  <2> SUFFICES ASSUME NEW y \in Rev, working'[y] # 0
               PROVE  ~Pending(working[y])' /\ (Spent(working[y]) => Src(head[y]) = working[y])'
    OBVIOUS
  <2>1. PICK w, h : w = working[y] /\ h = head[y] /\ w \in 1..Len(revisions) /\ h \in 1..Len(revisions)
    BY <1>2, <1>3, <1>9, <1>15
  <2>2. working'[y] = w /\ head'[y] = h
    BY <1>2, <1>15, <2>1
  <2>3. ~Pending(w)' /\ (Spent(w)' => Src(h)' = w)
    BY <1>2, <1>5, <1>8, <1>10, <2>1 DEF DraftInv
  <2> QED BY <2>2, <2>3 DEF Pending, Spent, Src
<1>18. \A d \in Client : ReadOnce(op[d])'
  <2> SUFFICES ASSUME NEW d \in Client PROVE ReadOnce(op[d])'
    OBVIOUS
  <2>1. PICK z : op'[d] = z /\ (z = op[d] \/ z.pc \in {"set_working", "set_ref"})
    BY <1>6, <1>7
  <2>2. CASE z.pc \in {"read_working", "accept"}
    <3>1. z = op[d] /\ Facts(z) /\ ReadOnce(z)
      BY <2>1, <2>2 DEF DraftInv, TypeInv, OpsInv
    <3>2. Version(z.base, z.entity) /\ IsEntity(z.entity) /\ z.entity \in Rev
      BY <2>2, <3>1, HeadRow DEF Facts
    <3>3. PICK y : y = z.entity /\ y \in Rev /\ y \in 1..Len(revisions) /\ y # n /\ head'[y] = head[y]
                   /\ head[y] \in 1..Len(revisions)
      BY <1>3, <1>11, <3>2, HeadRow DEF IsEntity
    <3>4. ~Pending(Src(z.base))'
      BY <1>5, <1>8, <2>2, <3>1, <3>2 DEF ReadOnce, Version
    <3>5. z.pc = "accept" => z.source \in 1..Len(revisions) /\ ~Pending(Src(z.source))' /\ Src(z.source)' = Src(z.source)
      BY <1>5, <1>8, <3>1 DEF ReadOnce, Facts, Version
    <3>6. PICK w, h : w = working[y] /\ h = head[y] /\ working'[y] = w /\ head'[y] = h /\ Src(h)' = Src(h)
      BY <1>2, <1>5, <3>3
    <3>7. z.pc = "accept" /\ z.base = h =>
            /\ Spent(Src(z.source))' => Src(z.source)' = Src(h)'
            /\ w # 0 /\ Spent(w)' => Src(z.source)' = w
      BY <1>10, <3>1, <3>3, <3>5, <3>6 DEF ReadOnce
    <3> QED BY <2>1, <3>3, <3>4, <3>5, <3>6, <3>7 DEF ReadOnce, Pending, Spent, Src
  <2>3. CASE z.pc \notin {"read_working", "accept"}
    BY <2>1, <2>3 DEF ReadOnce
  <2> QED BY <2>2, <2>3
<1> QED BY <1>12, <1>13, <1>14, <1>16, <1>17, <1>18 DEF DraftInv

LEMMA DraftAccept ==
  ASSUME TypeInv, TypeInv', DraftInv, NEW c \in Client, Accept(c)
  PROVE  DraftInv'
<1>0. PICK n : n = NewRevision
  OBVIOUS
<1>1. PICK o : o = op[c] /\ o \in OpState /\ Facts(o) /\ ReadOnce(o)
  BY OpRow DEF DraftInv
<1>2. PICK e, v : e = o.entity /\ v = Src(o.source)
  OBVIOUS
<1>3. /\ Insert(o.slot, e, revisions[o.source].chapters, v) /\ approved' = approved \union {n}
      /\ head[e] = o.base /\ head' = [head EXCEPT ![e] = n] /\ UNCHANGED working
  BY <1>0, <1>1, <1>2 DEF Accept, BaselineIsHead, Src
<1>4. PICK x : op' = [op EXCEPT ![c] = x] /\ o.pc = "accept" /\ x.pc = "clear_working"
  BY <1>1, Moves
<1>5. /\ IsEntity(e) /\ e \in Rev /\ head[e] \in 1..Len(revisions) /\ Ent(head[e]) = e
      /\ Version(o.source, e) /\ v \in 1..Len(revisions) /\ Ent(v) = e /\ Src(v) = v
  <2>1. IsEntity(e) /\ Version(o.source, e)
    BY <1>1, <1>2, <1>4 DEF Facts
  <2>2. e \in Rev /\ head[e] \in 1..Len(revisions) /\ Version(head[e], e)
    BY <2>1, HeadRow
  <2>3. v \in 1..Len(revisions)
    BY <1>2, <2>1, RowRange DEF Version, TypeInv
  <2> QED BY <1>2, <2>1, <2>2, <2>3 DEF Version, TypeInv, RowsInv
<1>6. Kept /\ Len(revisions') = n /\ n = Len(revisions) + 1 /\ Len(revisions) \in Nat
  BY <1>0, <1>3, InsertKeeps DEF TypeInv, RowsInv, NewRevision
<1>7. Src(n)' = v /\ Ent(n)' = e
  <2>1. PICK row : revisions' = Append(revisions, row) /\ row.source = v /\ row.entity = e /\ revisions \in Seq(Row)
    BY <1>3 DEF Insert, TypeInv, RowsInv
  <2> QED BY <1>6, <2>1 DEF Src, Ent
<1>8. \A r \in 1..Len(revisions) : Src(r)' = Src(r) /\ Ent(r)' = Ent(r) /\ r < n /\ r \in Nat
  BY <1>6 DEF Kept, Src, Ent
<1>9. /\ \A a \in approved : a \in 1..Len(revisions) /\ a <= head[Ent(a)] /\ head[Ent(a)] \in approved
      /\ head \in [Rev -> 0..Len(revisions)] /\ \A y \in Rev : working[y] \in 0..Len(revisions)
  BY DEF TypeInv, TablesInv
<1>10. \A d \in Client : op'[d] = IF d = c THEN x ELSE op[d]
  BY <1>4 DEF TypeInv, OpsInv
<1>11. \A d : Pending(d)' => Pending(d)
  <2> SUFFICES ASSUME NEW d, NEW b \in Client, op'[b].pc = "set_working", op'[b].source = d PROVE Pending(d)
    BY DEF Pending
  <2> QED BY <1>4, <1>10 DEF Pending
<1>12. \A d : Spent(d)' <=> Spent(d) \/ d = v
  <2> SUFFICES ASSUME NEW d PROVE Spent(d)' <=> Spent(d) \/ d = v
    OBVIOUS
  <2>1. (\E r \in approved' : Src(r)' = d) <=> (\E r \in approved : Src(r) = d) \/ d = v
    BY <1>3, <1>7, <1>8, <1>9
  <2> QED BY <2>1 DEF Spent
<1>13. /\ ~Pending(v)
       /\ Spent(v) => v = Src(head[e])
       /\ working[e] # 0 /\ Spent(working[e]) => v = working[e]
  BY <1>1, <1>2, <1>3, <1>4 DEF ReadOnce
<1>14. \A y \in Rev : head'[y] = IF y = e THEN n ELSE head[y]
  BY <1>3, <1>9
<1>15. NoDraftReinstated'
  <2> SUFFICES ASSUME NEW r \in approved', NEW s \in approved', NEW t \in approved',
                      Ent(r)' = Ent(s)', Ent(s)' = Ent(t)', r < s, s < t, Src(r)' = Src(t)'
               PROVE  Src(s)' = Src(r)'
    BY DEF NoDraftReinstated, Src, Ent
  <2>1. r \in approved /\ s \in approved
    <3>1. \A a \in approved' : a \in Nat /\ a <= n /\ (a # n => a \in approved)
      BY <1>3, <1>6, <1>9
    <3>2. r \in Nat /\ s \in Nat /\ t \in Nat /\ t <= n /\ n \in Nat
      BY <1>6, <3>1
    <3>3. r # n /\ s # n
      BY <3>2
    <3> QED BY <3>1, <3>3
  <2>2. CASE t \in approved
    BY <1>8, <1>9, <2>1, <2>2 DEF DraftInv, NoDraftReinstated, Src, Ent
  <2>3. CASE t = n
    <3>1. Ent(r) = e /\ Ent(s) = e /\ Src(r) = v
      BY <1>7, <1>8, <1>9, <2>1, <2>3
    <3>2. v = Src(head[e])
      BY <1>13, <2>1, <3>1 DEF Spent
    <3>3. s <= head[e] /\ head[e] \in approved /\ s \in Nat /\ head[e] \in Nat
      BY <1>5, <1>8, <1>9, <2>1, <3>1
    <3>4. Src(s) = Src(r)
      <4>1. CASE s = head[e]
        BY <3>1, <3>2, <4>1
      <4>2. CASE s < head[e]
        BY <1>5, <2>1, <3>1, <3>2, <3>3, <4>2 DEF DraftInv, NoDraftReinstated, Src, Ent
      <4> QED BY <3>3, <4>1, <4>2
    <3> QED BY <1>8, <1>9, <2>1, <3>4
  <2> QED BY <1>3, <2>2, <2>3
<1>16. (\A b, d \in Client : /\ op[b].pc = "set_working" /\ op[d].pc = "set_working"
                             /\ op[b].source = op[d].source
                             => b = d)'
  BY <1>4, <1>10 DEF DraftInv
<1>17. (\A r \in approved : ~Pending(Src(r)))'
  <2> SUFFICES ASSUME NEW r \in approved' PROVE ~Pending(Src(r))'
    OBVIOUS
  <2>1. PICK d : d = Src(r)' /\ ~Pending(d)
    BY <1>3, <1>7, <1>8, <1>9, <1>13 DEF DraftInv
  <2>2. ~Pending(d)'
    BY <1>11, <2>1
  <2> QED BY <2>1, <2>2 DEF Pending
<1>18. \A y \in Rev : (head[y] # 0 => ~Pending(Src(head[y])))'
  <2> SUFFICES ASSUME NEW y \in Rev, head'[y] # 0 PROVE ~Pending(Src(head[y]))'
    OBVIOUS
  <2>1. CASE y = e
    <3>1. Src(head[y])' = v
      BY <1>7, <1>14, <2>1 DEF Src
    <3> QED BY <1>11, <1>13, <3>1
  <2>2. CASE y # e
    <3>1. PICK h : h = head[y] /\ head'[y] = h /\ h \in 1..Len(revisions)
      BY <1>6, <1>9, <1>14, <2>2
    <3>2. Src(head[y])' = Src(h) /\ ~Pending(Src(h))
      BY <1>8, <2>2, <3>1 DEF DraftInv, Src
    <3> QED BY <1>11, <3>2
  <2> QED BY <2>1, <2>2
<1>19. \A y \in Rev : (working[y] # 0 => ~Pending(working[y]) /\ (Spent(working[y]) => Src(head[y]) = working[y]))'
  <2> SUFFICES ASSUME NEW y \in Rev, working'[y] # 0
               PROVE  ~Pending(working[y])' /\ (Spent(working[y]) => Src(head[y]) = working[y])'
    OBVIOUS
  <2>1. PICK w : w = working[y] /\ working'[y] = w /\ w \in 1..Len(revisions) /\ Ent(w) = y
    BY <1>3 DEF TypeInv, TablesInv, Version
  <2>2. ~Pending(w)'
    BY <1>3, <1>11, <2>1 DEF DraftInv
  <2>3. Spent(w)' => Src(head[y])' = w
    <3>1. CASE y = e
      <4>1. Src(head[y])' = v
        BY <1>7, <1>14, <3>1 DEF Src
      <4> QED BY <1>3, <1>12, <1>13, <2>1, <3>1, <4>1
    <3>2. CASE y # e
      <4>1. PICK h : h = head[y] /\ head'[y] = h
        BY <1>14, <3>2
      <4>2. h \in 1..Len(revisions)
        <5>1. head[Ent(w)] # 0
          BY <2>1 DEF TypeInv, TablesInv
        <5> QED BY <1>6, <1>9, <2>1, <4>1, <5>1
      <4>3. Src(head[y])' = Src(h)
        BY <1>8, <4>1, <4>2 DEF Src
      <4>4. w # v
        BY <1>5, <2>1, <3>2
      <4> QED BY <1>3, <1>12, <2>1, <4>1, <4>3, <4>4 DEF DraftInv
    <3> QED BY <3>1, <3>2
  <2> QED BY <2>1, <2>2, <2>3 DEF Pending, Spent, Src
<1>20. \A d \in Client : ReadOnce(op[d])'
  <2> SUFFICES ASSUME NEW d \in Client PROVE ReadOnce(op[d])'
    OBVIOUS
  <2>1. PICK z : op'[d] = z /\ (z = op[d] \/ z.pc = "clear_working")
    BY <1>4, <1>10
  <2>2. CASE z.pc \in {"read_working", "accept"}
    <3>1. z = op[d] /\ Facts(z) /\ ReadOnce(z)
      BY <2>1, <2>2 DEF DraftInv, TypeInv, OpsInv
    <3>2. PICK y : y = z.entity /\ IsEntity(y) /\ Version(z.base, y) /\ z.base <= head[y] /\ y \in Rev
                   /\ head[y] \in 1..Len(revisions)
      BY <2>2, <3>1, HeadRow DEF Facts
    <3>3. ~Pending(Src(z.base))'
      BY <1>8, <1>11, <2>2, <3>1, <3>2 DEF ReadOnce, Version
    <3>4. z.pc = "accept" =>
            /\ z.source \in 1..Len(revisions) /\ ~Pending(Src(z.source))' /\ Src(z.source)' = Src(z.source)
            /\ Ent(z.source) = y
      BY <1>8, <1>11, <3>1, <3>2 DEF ReadOnce, Facts, Version
    <3>5. CASE y = e
      <4>1. z.base # head'[y]
        BY <1>6, <1>8, <1>14, <3>2, <3>5 DEF Version
      <4> QED BY <2>1, <3>2, <3>3, <3>4, <4>1 DEF ReadOnce, Pending, Src
    <3>6. CASE y # e
      <4>1. PICK w, h : w = working[y] /\ h = head[y] /\ working'[y] = w /\ head'[y] = h
        BY <1>3, <1>14, <3>6
      <4>2. Src(h)' = Src(h) /\ (w # 0 => w # v)
        BY <1>5, <1>8, <3>2, <3>6, <4>1 DEF TypeInv, TablesInv, Version
      <4>3. z.pc = "accept" => Src(z.source) # v
        <5>1. z.pc = "accept" => Ent(Src(z.source)) = y
          BY <3>4 DEF TypeInv, RowsInv
        <5> QED BY <1>5, <3>6, <5>1
      <4>4. z.pc = "accept" /\ z.base = h =>
              /\ Spent(Src(z.source))' => Src(z.source)' = Src(h)'
              /\ w # 0 /\ Spent(w)' => Src(z.source)' = w
        BY <1>12, <3>1, <3>2, <3>4, <4>1, <4>2, <4>3 DEF ReadOnce
      <4> QED BY <2>1, <3>2, <3>3, <3>4, <4>1, <4>4 DEF ReadOnce, Pending, Spent, Src
    <3> QED BY <3>5, <3>6
  <2>3. CASE z.pc \notin {"read_working", "accept"}
    BY <2>1, <2>3 DEF ReadOnce
  <2> QED BY <2>2, <2>3
<1> QED BY <1>15, <1>16, <1>17, <1>18, <1>19, <1>20 DEF DraftInv

LEMMA DraftStep == TypeInv /\ TypeInv' /\ DraftInv /\ [Next]_vars => DraftInv'
<1> SUFFICES ASSUME TypeInv, TypeInv', DraftInv, [Next]_vars PROVE DraftInv'
  OBVIOUS
<1>1. ASSUME NEW c \in Client, NEW s \in Slot,
             ApproveBegin(c, s) \/ \E x \in ContentOf(s) : SaveBegin(c, s, x)
      PROVE  DraftInv'
  BY <1>1, DraftStarts
<1>2. ASSUME NEW c \in Client,
             \/ ApproveReadRef(c) \/ ApproveReadHead(c) \/ ApproveReadWorking(c)
             \/ ClearWorking(c) \/ ViewHead(c) \/ ViewWorking(c)
      PROVE  DraftInv'
  BY <1>2, DraftMoves
<1>3. ASSUME NEW c \in Client, SaveRegister(c) \/ SaveCreate(c) PROVE DraftInv'
  BY <1>3, DraftInserted
<1>4. ASSUME NEW c \in Client, SaveSetWorking(c) PROVE DraftInv'
  BY <1>4, DraftStored
<1>5. ASSUME NEW c \in Client, Accept(c) PROVE DraftInv'
  BY <1>5, DraftAccept
<1>6. ASSUME \/ \E c \in Client : \/ SaveSetRef(c) \/ Abort(c)
                                  \/ FinishArchitecture(c) \/ FinishContract(c) \/ FinishChapter(c)
             \/ Crash \/ UNCHANGED vars
      PROVE  DraftInv'
  BY <1>6, DraftEnds
<1> QED BY <1>1, <1>2, <1>3, <1>4, <1>5, <1>6 DEF Next

LEMMA DraftInvariant == Spec => []DraftInv
<1>1. Init => DraftInv
  <2> SUFFICES ASSUME Init PROVE DraftInv
    OBVIOUS
  <2>1. /\ approved = {} /\ head = [e \in Rev |-> 0] /\ working = [e \in Rev |-> 0]
        /\ op = [c \in Client |-> Idle] /\ Idle.pc = "idle"
    BY DEF Init, Idle
  <2> QED BY <2>1, ReadOnceIdle DEF DraftInv, NoDraftReinstated
<1> QED BY <1>1, DraftStep, TypeInvariant, PTL DEF Spec

\* Two approvals that read the workspace at different times cannot undo each other.
THEOREM NoOlderDraftComesBack == Spec => []NoDraftReinstated
BY DraftInvariant, PTL DEF DraftInv

(***************************************************************************)
(* A call that runs alone.                                                 *)
(***************************************************************************)
LEMMA UndisturbedIdle == \A o : o.pc = "idle" => Undisturbed(o)
BY DEF Undisturbed, Approving, Accepted

\* What a step of the only call in flight has to show.
LEMMA AloneStep ==
  ASSUME TypeInv, NEW c \in Client, \A d \in Client \ {c} : op[d].pc = "idle", NEW x, op' = [op EXCEPT ![c] = x],
         Shown', Owned', Carried', Undisturbed(x)'
  PROVE  AloneInv'
<1>1. op'[c] = x /\ \A d \in Client \ {c} : op'[d].pc = "idle"
  BY DEF TypeInv, OpsInv
<1>2. \A d \in Client : Undisturbed(op[d])'
  <2> SUFFICES ASSUME NEW d \in Client PROVE Undisturbed(op[d])'
    OBVIOUS
  <2>1. CASE d = c
    BY <1>1, <2>1 DEF Undisturbed
  <2>2. CASE d # c
    BY <1>1, <2>2 DEF Undisturbed, Approving, Accepted
  <2> QED BY <2>1, <2>2
<1> QED BY <1>1, <1>2 DEF AloneInv

\* The only call in flight.
LEMMA AloneCall ==
  ASSUME TypeInv, AloneInv, ~overlapped, NEW c \in Client, op[c].pc # "idle"
  PROVE  /\ \A d \in Client \ {c} : op[d].pc = "idle"
         /\ Shown /\ Owned /\ Carried /\ Undisturbed(op[c])
BY DEF AloneInv

LEMMA StoreStays ==
  ASSUME UNCHANGED <<revisions, ref, head, approved, working, chapters, saved>>, Shown, Owned, Carried
  PROVE  Shown' /\ Owned' /\ Carried' /\ \A o : Undisturbed(o)' = Undisturbed(o)
<1>1. Shown'
  BY DEF Shown, View, Src
<1>2. Owned'
  BY DEF Owned, Ent
<1>3. Carried'
  BY DEF Carried, CarriedOut, ApprovalsOf, CurrentChapters
<1>4. \A o : Undisturbed(o)' = Undisturbed(o)
  BY DEF Undisturbed, View, Src, Approved
<1> QED BY <1>1, <1>2, <1>3, <1>4

LEMMA AloneStarts ==
  ASSUME TypeInv, AloneInv, NEW c \in Client, NEW s \in Slot,
         ApproveBegin(c, s) \/ \E y \in ContentOf(s) : SaveBegin(c, s, y)
  PROVE  AloneInv'
<1>1. UNCHANGED <<revisions, ref, head, approved, working, chapters, saved>>
  BY DEF ApproveBegin, SaveBegin, store
<1>2. SUFFICES ASSUME ~overlapped' PROVE AloneInv'
  BY DEF AloneInv
<1>3. ~overlapped /\ \A d \in Client : op[d].pc = "idle"
  BY <1>2, StartMoves
<1>4. Shown /\ Owned /\ Carried
  BY <1>3 DEF AloneInv
<1>5. PICK x : op' = [op EXCEPT ![c] = x] /\ Undisturbed(x)
  <2>1. ASSUME ApproveBegin(c, s) PROVE \E x : op' = [op EXCEPT ![c] = x] /\ Undisturbed(x)
    <3>1. PICK x : op' = [op EXCEPT ![c] = x] /\ x.pc = "read_ref" /\ x.slot = s
      BY <2>1, StartMoves
    <3>2. Gate(s)
      BY <2>1 DEF ApproveBegin
    <3>3. Undisturbed(x)
      BY <3>1, <3>2 DEF Undisturbed, Approving, Accepted, Gate
    <3> QED BY <3>1, <3>3
  <2>2. ASSUME NEW y \in ContentOf(s), SaveBegin(c, s, y) PROVE \E x : op' = [op EXCEPT ![c] = x] /\ Undisturbed(x)
    <3>1. PICK x : /\ op' = [op EXCEPT ![c] = x] /\ x.slot = s /\ x.entity = ref[s]
                   /\ x.pc = (IF ref[s] = 0 THEN "register" ELSE "create")
      BY <2>2, StartMoves
    <3>2. Undisturbed(x)
      BY <3>1 DEF Undisturbed, Approving, Accepted
    <3> QED BY <3>1, <3>2
  <2> QED BY <2>1, <2>2
<1>6. Shown' /\ Owned' /\ Carried' /\ Undisturbed(x)'
  BY <1>1, <1>4, <1>5, StoreStays
<1> QED BY <1>3, <1>5, <1>6, AloneStep

LEMMA AloneReads ==
  ASSUME TypeInv, AloneInv, NEW c \in Client, ~overlapped,
         ApproveReadRef(c) \/ ApproveReadHead(c) \/ ApproveReadWorking(c) \/ ViewHead(c) \/ ViewWorking(c)
  PROVE  AloneInv'
<1>1. UNCHANGED <<revisions, ref, head, approved, working, chapters, saved>>
  BY DEF ApproveReadRef, ApproveReadHead, ApproveReadWorking, ViewHead, ViewWorking, store
<1>2. op[c].pc # "idle"
  BY DEF ApproveReadRef, ApproveReadHead, ApproveReadWorking, ViewHead, ViewWorking
<1>3. PICK o : o = op[c] /\ o \in OpState /\ Facts(o) /\ Undisturbed(o) /\ o.slot \in Slot
  BY <1>2, OpRow DEF AloneInv
<1>4. PICK x : op' = [op EXCEPT ![c] = x] /\ Undisturbed(x)
  <2>1. ASSUME ApproveReadRef(c) PROVE \E x : op' = [op EXCEPT ![c] = x] /\ Undisturbed(x)
    <3>1. PICK x : /\ op' = [op EXCEPT ![c] = x] /\ o.pc = "read_ref"
                   /\ x.pc = "read_head" /\ x.entity = ref[o.slot] /\ x.slot = o.slot
      BY <1>3, <2>1, Moves
    <3>2. Undisturbed(x)
      BY <1>3, <3>1 DEF Undisturbed, Approving, Accepted
    <3> QED BY <3>1, <3>2
  <2>2. ASSUME ApproveReadHead(c) PROVE \E x : op' = [op EXCEPT ![c] = x] /\ Undisturbed(x)
    <3>1. PICK x : /\ op' = [op EXCEPT ![c] = x] /\ o.pc = "read_head" /\ x.pc = "read_working"
                   /\ x.base = head[o.entity] /\ x.slot = o.slot /\ x.entity = o.entity
      BY <1>3, <2>2, Moves
    <3>2. Undisturbed(x)
      BY <1>3, <3>1 DEF Undisturbed, Approving, Accepted
    <3> QED BY <3>1, <3>2
  <2>3. ASSUME ApproveReadWorking(c) PROVE \E x : op' = [op EXCEPT ![c] = x] /\ Undisturbed(x)
    <3>1. PICK x : /\ op' = [op EXCEPT ![c] = x] /\ o.pc = "read_working" /\ x.pc = "accept"
                   /\ x.source = DraftOrHead(o.entity, o.base) /\ x.slot = o.slot /\ x.entity = o.entity
                   /\ x.base = o.base
      BY <1>3, <2>3, Moves
    <3>2. o.entity = ref[o.slot] /\ o.base = head[o.entity]
      BY <1>3, <3>1 DEF Undisturbed
    <3>3. x.source = View(x.slot)
      BY <3>1, <3>2 DEF View, DraftOrHead
    <3>4. Undisturbed(x)
      BY <1>3, <3>1, <3>2, <3>3 DEF Undisturbed, Approving, Accepted
    <3> QED BY <3>1, <3>4
  <2>4. ASSUME ViewHead(c) PROVE \E x : op' = [op EXCEPT ![c] = x] /\ Undisturbed(x)
    <3>1. PICK x : /\ op' = [op EXCEPT ![c] = x] /\ o.pc = "view_head" /\ x.pc = "view_working"
                   /\ x.base = head[o.entity] /\ x.slot = o.slot /\ x.entity = o.entity
      BY <1>3, <2>4, Moves
    <3>2. Undisturbed(x)
      BY <1>3, <3>1 DEF Undisturbed, Approving, Accepted
    <3> QED BY <3>1, <3>2
  <2>5. ASSUME ViewWorking(c) PROVE \E x : op' = [op EXCEPT ![c] = x] /\ Undisturbed(x)
    <3>1. PICK x : /\ op' = [op EXCEPT ![c] = x] /\ o.pc = "view_working" /\ x.pc = "finish"
                   /\ x.source = DraftOrHead(o.entity, o.base) /\ x.slot = o.slot /\ x.entity = o.entity
      BY <1>3, <2>5, Moves
    <3>2. o.base = head[o.entity] /\ working[o.entity] = 0
      BY <1>3, <3>1 DEF Undisturbed
    <3>3. Undisturbed(x)
      BY <1>3, <3>1, <3>2 DEF Undisturbed, Approving, Accepted, DraftOrHead
    <3> QED BY <3>1, <3>3
  <2> QED BY <2>1, <2>2, <2>3, <2>4, <2>5
<1>5. /\ \A d \in Client \ {c} : op[d].pc = "idle"
      /\ Shown /\ Owned /\ Carried
  BY <1>2, AloneCall
<1>6. Shown' /\ Owned' /\ Carried' /\ Undisturbed(x)'
  BY <1>1, <1>4, <1>5, StoreStays
<1> QED BY <1>4, <1>5, <1>6, AloneStep

\* The references of two documents are different.
LEMMA RefsApart ==
  ASSUME TypeInv, NEW s \in Slot, NEW t \in Slot, s # t, ref[s] # 0
  PROVE  ref[s] # ref[t] /\ IsEntity(ref[s]) /\ ref[s] \in Rev
<1>1. IsEntity(ref[s]) /\ revisions[ref[s]].slot = s
  BY DEF TypeInv, TablesInv
<1>2. ref[t] # 0 => revisions[ref[t]].slot = t
  BY DEF TypeInv, TablesInv
<1> QED BY <1>1, <1>2, HeadRow

LEMMA AloneClears ==
  ASSUME TypeInv, AloneInv, NEW c \in Client, ~overlapped, ClearWorking(c)
  PROVE  AloneInv'
<1>1. PICK o, x : /\ o = op[c] /\ o.slot \in Slot /\ Facts(o) /\ o.pc = "clear_working"
                  /\ op' = [op EXCEPT ![c] = x] /\ x.slot = o.slot /\ x.entity = o.entity
                  /\ x.pc = (IF o.slot = "architecture" THEN "view_head" ELSE "finish")
  <2>1. PICK o : o = op[c] /\ o.slot \in Slot /\ Facts(o)
    BY OpRow
  <2> QED BY <2>1, Moves
<1>2. /\ working' = [working EXCEPT ![o.entity] = 0]
      /\ UNCHANGED <<revisions, ref, head, approved, chapters, saved>>
  BY <1>1 DEF ClearWorking
<1>3. /\ \A d \in Client \ {c} : op[d].pc = "idle"
      /\ Shown /\ Owned /\ Carried /\ Undisturbed(o)
  BY <1>1, AloneCall
<1>4. o.entity = ref[o.slot] /\ IsEntity(o.entity) /\ o.entity \in Rev /\ ref[o.slot] # 0
  <2>1. IsEntity(o.entity)
    BY <1>1 DEF Facts
  <2>2. o.entity = ref[o.slot]
    BY <1>1, <1>3 DEF Undisturbed
  <2>3. o.entity \in Rev
    BY <2>1, HeadRow
  <2> QED BY <2>1, <2>2, <2>3, Bounds DEF Rev
<1>5. /\ working'[o.entity] = 0
      /\ \A e \in Rev \ {o.entity} : working'[e] = working[e]
  BY <1>2, <1>4 DEF TypeInv, TablesInv
<1>6. Shown'
  <2> SUFFICES ASSUME NEW s \in Slot, saved'[s] # 0 PROVE ref'[s] # 0 /\ Src(View(s))' = saved'[s]
    BY DEF Shown
  <2>1. ref[s] # 0 /\ Src(View(s)) = saved[s] /\ saved[s] # 0
    BY <1>2, <1>3 DEF Shown
  <2>2. CASE s = o.slot
    <3>1. Src(head[o.entity]) = saved[s]
      BY <1>1, <1>3, <2>1, <2>2 DEF Undisturbed
    <3> QED BY <1>2, <1>4, <1>5, <2>1, <2>2, <3>1 DEF View, Src
  <2>3. CASE s # o.slot
    <3>1. ref[s] # o.entity /\ ref[s] \in Rev
      BY <1>1, <1>4, <2>1, <2>3, RefsApart
    <3> QED BY <1>2, <1>5, <2>1, <3>1 DEF View, Src
  <2> QED BY <2>2, <2>3
<1>7. Owned' /\ Carried'
  BY <1>2, <1>3 DEF Owned, Carried, CarriedOut, ApprovalsOf, CurrentChapters, Ent
<1>8. Undisturbed(x)'
  <2>1. x.entity = ref'[x.slot] /\ working'[x.entity] = 0 /\ head'[x.entity] \in approved'
    BY <1>1, <1>2, <1>3, <1>4, <1>5 DEF Undisturbed, Accepted
  <2>2. x.pc \in {"view_head", "finish"} /\ ~(x.pc = "finish" /\ x.slot = "architecture")
    BY <1>1
  <2>3. x.slot \in Chapter =>
          Approved("architecture")' /\ x.slot \in revisions'[head'[ref'["architecture"]]].chapters
    BY <1>1, <1>2, <1>3 DEF Undisturbed, Approving, Approved
  <2> QED BY <2>1, <2>2, <2>3 DEF Undisturbed
<1> QED BY <1>1, <1>3, <1>6, <1>7, <1>8, AloneStep

\* Views, owners and carried chapters when a row is inserted.
LEMMA InsertedStays ==
  ASSUME TypeInv, Kept, UNCHANGED <<ref, working, chapters, saved>>, Shown, Owned, Carried
  PROVE  /\ \A s \in Slot : ref[s] # 0 /\ head'[ref[s]] = head[ref[s]] => View(s)' = View(s) /\ Src(View(s))' = Src(View(s))
         /\ \A r \in approved : ref'[revisions'[r].slot] = Ent(r)'
         /\ Carried'
<1>1. \A r \in 1..Len(revisions) : revisions'[r] = revisions[r]
  BY DEF Kept
<1>2. ASSUME NEW s \in Slot, ref[s] # 0, head'[ref[s]] = head[ref[s]]
      PROVE  View(s)' = View(s) /\ Src(View(s))' = Src(View(s))
  <2>1. IsEntity(ref[s])
    BY <1>2 DEF TypeInv, TablesInv
  <2>2. head[ref[s]] \in 1..Len(revisions) /\ ref[s] \in Rev
    BY <2>1, HeadRow
  <2>3. working[ref[s]] # 0 => working[ref[s]] \in 1..Len(revisions)
    BY <2>2 DEF TypeInv, TablesInv, Version
  <2>4. View(s) \in 1..Len(revisions)
    BY <2>2, <2>3 DEF View
  <2>5. View(s)' = View(s)
    BY <1>2 DEF View
  <2>6. revisions'[View(s)] = revisions[View(s)]
    BY <1>1, <2>4
  <2> QED BY <2>5, <2>6 DEF Src
<1>3. \A r \in approved : ref'[revisions'[r].slot] = Ent(r)'
  BY ApprovalsGrow DEF Owned, Ent
<1>4. Carried'
  <2>1. /\ \A s : ApprovalsOf(s) \subseteq ApprovalsOf(s)'
        /\ \A s : \A a \in ApprovalsOf(s) : revisions'[a] = revisions[a]
    BY ApprovalsGrow DEF ApprovalsOf
  <2>2. CurrentChapters' = CurrentChapters
    BY DEF CurrentChapters
  <2>3. \A a \in ApprovalsOf("architecture") : CarriedOut(a) => CarriedOut(a)'
    BY <2>1, <2>2 DEF CarriedOut
  <2> QED BY <2>1, <2>3 DEF Carried
<1> QED BY <1>2, <1>3, <1>4

LEMMA AloneAccepts ==
  ASSUME TypeInv, AloneInv, NEW c \in Client, ~overlapped, Accept(c)
  PROVE  AloneInv'
<1>0. PICK n : n = NewRevision
  OBVIOUS
<1>1. PICK o : o = op[c] /\ o.slot \in Slot /\ Facts(o) /\ o.pc = "accept"
  BY OpRow DEF Accept
<1>2. PICK e, x : /\ e = o.entity /\ op' = [op EXCEPT ![c] = x] /\ x.pc = "clear_working"
                  /\ x.slot = o.slot /\ x.entity = e
  BY <1>1, Moves
<1>3. /\ Insert(o.slot, e, revisions[o.source].chapters, Src(o.source))
      /\ approved' = approved \union {n} /\ head' = [head EXCEPT ![e] = n]
      /\ UNCHANGED <<ref, working, chapters, saved>>
  BY <1>0, <1>1, <1>2 DEF Accept, Src
<1>4. /\ \A d \in Client \ {c} : op[d].pc = "idle"
      /\ Shown /\ Owned /\ Carried /\ Undisturbed(o)
  BY <1>1, AloneCall
<1>5. Kept /\ Len(revisions') = n /\ n = Len(revisions) + 1 /\ Len(revisions) \in Nat
  BY <1>0, <1>3, InsertKeeps DEF TypeInv, RowsInv, NewRevision
<1>6. Src(n)' = Src(o.source) /\ Ent(n)' = e /\ revisions'[n].slot = o.slot
  <2>1. PICK row : /\ revisions' = Append(revisions, row) /\ row.source = Src(o.source) /\ row.entity = e
                   /\ row.slot = o.slot /\ revisions \in Seq(Row)
    BY <1>3 DEF Insert, TypeInv, RowsInv
  <2> QED BY <1>5, <2>1 DEF Src, Ent
<1>7. e = ref[o.slot] /\ IsEntity(e) /\ e \in Rev /\ e # 0
  <2>1. IsEntity(e)
    BY <1>1, <1>2 DEF Facts
  <2>2. e = ref[o.slot]
    BY <1>1, <1>2, <1>4 DEF Undisturbed
  <2>3. e \in Rev
    BY <2>1, HeadRow
  <2> QED BY <2>1, <2>2, <2>3, Bounds DEF Rev
<1>8. head'[e] = n /\ \A y \in Rev \ {e} : head'[y] = head[y]
  BY <1>3, <1>7 DEF TypeInv, TablesInv
<1>9. /\ \A s \in Slot : ref[s] # 0 /\ head'[ref[s]] = head[ref[s]] => View(s)' = View(s) /\ Src(View(s))' = Src(View(s))
      /\ \A r \in approved : ref'[revisions'[r].slot] = Ent(r)'
      /\ Carried'
  BY <1>3, <1>4, <1>5, InsertedStays
<1>10. saved[o.slot] # 0 => Src(o.source) = saved[o.slot]
  BY <1>1, <1>4 DEF Undisturbed, Shown
<1>11. Shown'
  <2> SUFFICES ASSUME NEW s \in Slot, saved'[s] # 0 PROVE ref'[s] # 0 /\ Src(View(s))' = saved'[s]
    BY DEF Shown
  <2>1. ref[s] # 0 /\ Src(View(s)) = saved[s] /\ saved[s] # 0
    BY <1>3, <1>4 DEF Shown
  <2>2. CASE s = o.slot
    <3>1. CASE working[e] = 0
      <4>1. View(s)' = n
        BY <1>3, <1>7, <1>8, <2>2, <3>1 DEF View
      <4> QED BY <1>3, <1>6, <1>10, <2>1, <2>2, <4>1 DEF Src
    <3>2. CASE working[e] # 0
      <4>1. View(s)' = working[e] /\ View(s) = working[e] /\ working[e] \in 1..Len(revisions)
        BY <1>3, <1>7, <2>2, <3>2 DEF View, TypeInv, TablesInv, Version
      <4>2. Src(View(s))' = Src(View(s))
        BY <1>5, <4>1 DEF Kept, Src
      <4> QED BY <1>3, <2>1, <4>2
    <3> QED BY <3>1, <3>2
  <2>3. CASE s # o.slot
    <3>1. ref[s] # e /\ ref[s] \in Rev
      BY <1>1, <1>7, <2>1, <2>3, RefsApart
    <3> QED BY <1>3, <1>8, <1>9, <2>1, <3>1
  <2> QED BY <2>2, <2>3
<1>12. Owned'
  BY <1>3, <1>6, <1>7, <1>9 DEF Owned
<1>13. Undisturbed(x)'
  <2>1. x.entity = ref'[x.slot] /\ head'[x.entity] \in approved'
    BY <1>2, <1>3, <1>7, <1>8
  <2>2. saved'[x.slot] # 0 => Src(head[x.entity])' = saved'[x.slot]
    BY <1>2, <1>3, <1>6, <1>8, <1>10 DEF Src
  <2>3. x.slot \in Chapter =>
          Approved("architecture")' /\ x.slot \in revisions'[head'[ref'["architecture"]]].chapters
    <3> SUFFICES ASSUME x.slot \in Chapter
                 PROVE  Approved("architecture")' /\ x.slot \in revisions'[head'[ref'["architecture"]]].chapters
      OBVIOUS
    <3>1. Approved("architecture") /\ x.slot \in revisions[head[ref["architecture"]]].chapters
      BY <1>1, <1>2, <1>4 DEF Undisturbed, Approving
    <3>2. x.slot # "architecture" /\ "architecture" \in Slot
      BY ChapterAssumption DEF Slot
    <3>3. ref["architecture"] # e /\ ref["architecture"] \in Rev /\ IsEntity(ref["architecture"])
      BY <1>1, <1>2, <1>7, <3>1, <3>2, RefsApart DEF Approved
    <3>4. head'[ref["architecture"]] = head[ref["architecture"]] /\ head[ref["architecture"]] \in 1..Len(revisions)
      BY <1>8, <3>3, HeadRow
    <3>5. revisions'[head[ref["architecture"]]] = revisions[head[ref["architecture"]]]
      BY <1>5, <3>4 DEF Kept
    <3> QED BY <1>3, <3>1, <3>4, <3>5 DEF Approved
  <2> QED BY <1>2, <2>1, <2>2, <2>3 DEF Undisturbed
<1> QED BY <1>2, <1>4, <1>9, <1>11, <1>12, <1>13, AloneStep

LEMMA AloneInserts ==
  ASSUME TypeInv, AloneInv, NEW c \in Client, ~overlapped, SaveRegister(c) \/ SaveCreate(c)
  PROVE  AloneInv'
<1>0. PICK n : n = NewRevision
  OBVIOUS
<1>1. PICK o : o = op[c] /\ o.slot \in Slot /\ Facts(o)
  BY OpRow
<1>2. PICK e, x : /\ Insert(o.slot, e, o.content, n) /\ op' = [op EXCEPT ![c] = x] /\ x.slot = o.slot
                  /\ \/ /\ o.pc = "register" /\ x.pc = "set_ref" /\ x.entity = n
                        /\ head' = [head EXCEPT ![n] = n]
                     \/ /\ o.pc = "create" /\ x.pc = "set_working" /\ x.entity = o.entity /\ head' = head
  <2>1. CASE SaveRegister(c)
    <3>1. Insert(o.slot, n, o.content, n) /\ head' = [head EXCEPT ![n] = n] /\ o.pc = "register"
      BY <1>0, <1>1, <2>1 DEF SaveRegister
    <3>2. PICK x : op' = [op EXCEPT ![c] = x] /\ x.pc = "set_ref" /\ x.entity = n /\ x.slot = o.slot
      BY <1>0, <1>1, <2>1, Moves
    <3> QED BY <3>1, <3>2
  <2>2. CASE SaveCreate(c)
    <3>1. Insert(o.slot, o.entity, o.content, n) /\ head' = head /\ o.pc = "create"
      BY <1>0, <1>1, <2>2 DEF SaveCreate
    <3>2. PICK x : op' = [op EXCEPT ![c] = x] /\ x.pc = "set_working" /\ x.slot = o.slot /\ x.entity = o.entity
      BY <1>1, <2>2, Moves
    <3> QED BY <3>1, <3>2
  <2> QED BY <2>1, <2>2
<1>3. UNCHANGED <<ref, approved, working, chapters, saved>>
  BY DEF SaveRegister, SaveCreate
<1>4. /\ \A d \in Client \ {c} : op[d].pc = "idle"
      /\ Shown /\ Owned /\ Carried /\ Undisturbed(o)
  BY <1>1, <1>2, AloneCall
<1>5. Kept /\ Len(revisions') = n /\ n = Len(revisions) + 1 /\ Len(revisions) \in Nat /\ n \in Rev
  <2>1. Kept /\ Len(revisions') = n
    BY <1>0, <1>2, <1>3, InsertKeeps
  <2>2. n = Len(revisions) + 1 /\ Len(revisions) \in Nat /\ Len(revisions) < MaxRevisions
    BY <1>0, <1>2 DEF TypeInv, RowsInv, NewRevision, Insert
  <2> QED BY <2>1, <2>2, Bounds DEF Rev
<1>6. /\ ref \in [Slot -> 0..Len(revisions)] /\ head \in [Rev -> 0..Len(revisions)]
      /\ \A r \in 1..Len(revisions) : Ent(r) # n
  BY <1>5, RowRange DEF TypeInv, TablesInv
<1>7. \A s \in Slot : ref[s] # 0 => head'[ref[s]] = head[ref[s]]
  <2> SUFFICES ASSUME NEW s \in Slot, ref[s] # 0 PROVE head'[ref[s]] = head[ref[s]]
    OBVIOUS
  <2>1. ref[s] # n /\ ref[s] \in Rev
    BY <1>5, <1>6, HeadRow DEF TypeInv, TablesInv
  <2> QED BY <1>2, <1>6, <2>1
<1>8. /\ \A s \in Slot : ref[s] # 0 /\ head'[ref[s]] = head[ref[s]] => View(s)' = View(s) /\ Src(View(s))' = Src(View(s))
      /\ \A r \in approved : ref'[revisions'[r].slot] = Ent(r)'
      /\ Carried'
  BY <1>3, <1>4, <1>5, InsertedStays
<1>9. Shown' /\ Owned'
  BY <1>3, <1>4, <1>7, <1>8 DEF Shown, Owned
<1>10. Undisturbed(x)'
  <2>1. CASE o.pc = "register" /\ x.pc = "set_ref" /\ x.entity = n /\ head' = [head EXCEPT ![n] = n]
    <3>1. ref'[x.slot] = 0
      BY <1>2, <1>3, <1>4, <2>1 DEF Undisturbed
    <3>2. head'[n] = n
      BY <1>5, <1>6, <2>1
    <3>3. working[n] = 0
      BY <1>5, <1>6 DEF TypeInv, TablesInv, Version
    <3> QED BY <1>3, <2>1, <3>1, <3>2, <3>3 DEF Undisturbed, Approving, Accepted
  <2>2. CASE o.pc = "create" /\ x.pc = "set_working" /\ x.entity = o.entity
    BY <1>2, <1>3, <1>4, <2>2 DEF Undisturbed, Approving, Accepted
  <2> QED BY <1>2, <2>1, <2>2
<1> QED BY <1>2, <1>4, <1>8, <1>9, <1>10, AloneStep

LEMMA AloneSaves ==
  ASSUME TypeInv, AloneInv, NEW c \in Client, ~overlapped, SaveSetRef(c) \/ SaveSetWorking(c)
  PROVE  AloneInv'
<1>1. PICK o : o = op[c] /\ o.slot \in Slot /\ Facts(o) /\ o.pc \in {"set_ref", "set_working"}
  BY OpRow DEF SaveSetRef, SaveSetWorking
<1>2. op' = [op EXCEPT ![c] = Idle] /\ Idle.pc = "idle" /\ UNCHANGED <<revisions, head, approved, chapters>>
  BY IdleRow DEF SaveSetRef, SaveSetWorking, Finish, Goto
<1>3. /\ \A d \in Client \ {c} : op[d].pc = "idle"
      /\ Shown /\ Owned /\ Carried /\ Undisturbed(o)
  BY <1>1, AloneCall
<1>4. PICK e : e = o.entity /\ IsEntity(e) /\ revisions[e].slot = o.slot /\ e \in Rev /\ e # 0 /\ head[e] # 0
  <2>1. IsEntity(o.entity) /\ revisions[o.entity].slot = o.slot
    BY <1>1 DEF Facts
  <2> QED BY <2>1, HeadRow, Bounds DEF Rev
<1>5. /\ ref \in [Slot -> 0..Len(revisions)] /\ saved \in [Slot -> 0..Len(revisions)]
      /\ working \in [Rev -> 0..Len(revisions)]
  BY DEF TypeInv, TablesInv
<1>6. Carried' /\ Undisturbed(Idle)'
  BY <1>2, <1>3, UndisturbedIdle DEF Carried, CarriedOut, ApprovalsOf, CurrentChapters, Undisturbed,
     Approving, Accepted
<1>7. CASE SaveSetRef(c)
  <2>1. /\ o.pc = "set_ref" /\ ref' = [ref EXCEPT ![o.slot] = e] /\ saved' = [saved EXCEPT ![o.slot] = e]
        /\ working' = working
    BY <1>1, <1>4, <1>7 DEF SaveSetRef
  <2>2. ref[o.slot] = 0 /\ head[e] = e /\ working[e] = 0
    BY <1>3, <1>4, <2>1 DEF Undisturbed
  <2>3. Src(e) = e
    BY <1>4 DEF IsEntity, TypeInv, RowsInv
  <2>4. Shown'
    <3> SUFFICES ASSUME NEW s \in Slot, saved'[s] # 0 PROVE ref'[s] # 0 /\ Src(View(s))' = saved'[s]
      BY DEF Shown
    <3>1. CASE s = o.slot
      <4>1. ref'[s] = e /\ saved'[s] = e
        BY <1>5, <2>1, <3>1
      <4>2. View(s)' = e
        BY <1>2, <2>1, <2>2, <4>1 DEF View
      <4> QED BY <1>2, <1>4, <2>3, <4>1, <4>2 DEF Src
    <3>2. CASE s # o.slot
      <4>1. ref'[s] = ref[s] /\ saved'[s] = saved[s]
        BY <1>5, <2>1, <3>2
      <4> QED BY <1>2, <1>3, <2>1, <4>1 DEF Shown, View, Src
    <3> QED BY <3>1, <3>2
  <2>5. Owned'
    <3> SUFFICES ASSUME NEW r \in approved PROVE ref'[revisions[r].slot] = Ent(r)
      BY <1>2 DEF Owned, Ent
    <3>1. ref[revisions[r].slot] = Ent(r)
      BY <1>3 DEF Owned
    <3>2. r \in 1..Len(revisions)
      BY DEF TypeInv, TablesInv
    <3>3. Ent(r) \in 1..Len(revisions) /\ revisions[r].slot \in Slot /\ Len(revisions) \in Nat
      BY <3>2, RowRange DEF TypeInv
    <3>4. Ent(r) # 0
      BY <3>3
    <3> QED BY <1>5, <2>1, <2>2, <3>1, <3>3, <3>4
  <2> QED BY <1>2, <1>3, <1>6, <2>4, <2>5, AloneStep
<1>8. CASE SaveSetWorking(c)
  <2>1. /\ o.pc = "set_working" /\ working' = [working EXCEPT ![e] = o.source]
        /\ saved' = [saved EXCEPT ![o.slot] = o.source] /\ ref' = ref
    BY <1>1, <1>4, <1>8 DEF SaveSetWorking
  <2>2. e = ref[o.slot] /\ Src(o.source) = o.source /\ o.source # 0
    BY <1>1, <1>3, <1>4, <2>1 DEF Undisturbed, Facts, Version
  <2>3. Shown'
    <3> SUFFICES ASSUME NEW s \in Slot, saved'[s] # 0 PROVE ref'[s] # 0 /\ Src(View(s))' = saved'[s]
      BY DEF Shown
    <3>1. CASE s = o.slot
      <4>1. working'[e] = o.source /\ saved'[s] = o.source
        BY <1>4, <1>5, <2>1, <3>1
      <4>2. View(s)' = o.source
        BY <2>1, <2>2, <3>1, <4>1 DEF View
      <4> QED BY <1>2, <1>4, <2>1, <2>2, <3>1, <4>1, <4>2 DEF Src
    <3>2. CASE s # o.slot
      <4>1. saved'[s] = saved[s] /\ ref[s] # 0
        BY <1>3, <1>5, <2>1, <3>2 DEF Shown
      <4>2. ref[s] # e /\ ref[s] \in Rev
        BY <1>1, <1>4, <2>2, <3>2, <4>1, RefsApart
      <4>3. working'[ref[s]] = working[ref[s]]
        BY <1>5, <2>1, <4>2
      <4> QED BY <1>2, <1>3, <2>1, <4>1, <4>3 DEF Shown, View, Src
    <3> QED BY <3>1, <3>2
  <2>4. Owned'
    BY <1>2, <1>3, <2>1 DEF Owned, Ent
  <2> QED BY <1>2, <1>3, <1>6, <2>3, <2>4, AloneStep
<1> QED BY <1>7, <1>8

LEMMA AloneFinishes ==
  ASSUME TypeInv, AloneInv, NEW c \in Client, ~overlapped,
         FinishArchitecture(c) \/ FinishContract(c) \/ FinishChapter(c)
  PROVE  AloneInv'
<1>1. PICK o : o = op[c] /\ o.slot \in Slot /\ Facts(o) /\ o.pc = "finish"
  BY OpRow DEF FinishArchitecture, FinishContract, FinishChapter
<1>2. /\ op' = [op EXCEPT ![c] = Idle] /\ Idle.pc = "idle"
      /\ UNCHANGED <<revisions, ref, head, approved, working, saved>>
  BY IdleRow DEF FinishArchitecture, FinishContract, FinishChapter, Finish, Goto
<1>3. /\ \A d \in Client \ {c} : op[d].pc = "idle"
      /\ Shown /\ Owned /\ Carried /\ Undisturbed(o)
  BY <1>1, AloneCall
<1>4. Shown' /\ Owned' /\ Undisturbed(Idle)'
  BY <1>2, <1>3, UndisturbedIdle DEF Shown, View, Src, Owned, Ent, Undisturbed, Approving, Accepted
<1>5. ApprovalsOf("architecture")' = ApprovalsOf("architecture")
  BY <1>2 DEF ApprovalsOf
<1>6. chapters \in [Chapter -> ChapterState]
  BY DEF TypeInv, TablesInv
<1>7. CASE FinishArchitecture(c)
  <2>1. /\ o.slot = "architecture"
        /\ chapters' = [k \in Chapter |-> NextState(k, revisions[o.source].chapters)]
    BY <1>1, <1>7 DEF FinishArchitecture
  <2>2. /\ o.source = head[o.entity] /\ head[o.entity] \in approved
        /\ IsEntity(o.entity) /\ revisions[o.entity].slot = "architecture"
    BY <1>1, <1>3, <2>1 DEF Undisturbed, Accepted, Facts
  <2>3. Version(o.source, o.entity)
    BY <2>2, HeadRow
  <2>4. revisions[o.source].slot = "architecture" /\ revisions[o.source].chapters \in SUBSET Chapter
    BY <2>2, <2>3, RowRange DEF Version, TypeInv, RowsInv
  <2>5. o.source \in ApprovalsOf("architecture")
    BY <2>2, <2>4 DEF ApprovalsOf
  <2>6. \A k \in Chapter : chapters'[k] \in {"PLANNED", "CONTRACT_APPROVED"} <=> k \in revisions[o.source].chapters
    BY <2>1 DEF NextState
  <2>7. CarriedOut(o.source)'
    <3>1. CurrentChapters' = revisions[o.source].chapters
      BY <2>4, <2>6 DEF CurrentChapters
    <3> QED BY <1>2, <3>1 DEF CarriedOut
  <2>8. Carried'
    BY <1>5, <2>5, <2>7 DEF Carried
  <2> QED BY <1>2, <1>3, <1>4, <2>8, AloneStep
<1>8. CASE FinishContract(c)
  <2>1. chapters' = chapters
    BY <1>8 DEF FinishContract
  <2>2. Carried'
    BY <1>2, <1>3, <2>1 DEF Carried, CarriedOut, ApprovalsOf, CurrentChapters
  <2> QED BY <1>2, <1>3, <1>4, <2>2, AloneStep
<1>9. CASE FinishChapter(c)
  <2>1. o.slot \in Chapter /\ chapters' = [chapters EXCEPT ![o.slot] = "CONTRACT_APPROVED"]
    BY <1>1, <1>9 DEF FinishChapter
  <2>2. IsEntity(o.entity) /\ revisions[o.entity].slot = o.slot
    BY <1>1 DEF Facts
  <2>3. chapters[o.slot] # "absent"
    BY <2>1, <2>2 DEF IsEntity, TypeInv, TablesInv
  <2>4. PICK a \in ApprovalsOf("architecture") : CarriedOut(a)
    BY <1>3, <2>1, <2>3 DEF Carried
  <2>5. Approved("architecture") /\ o.slot \in revisions[head[ref["architecture"]]].chapters
    BY <1>1, <1>3, <2>1 DEF Undisturbed, Approving
  <2>6. PICK h \in ApprovalsOf("architecture") : h = head[ref["architecture"]] /\ o.slot \in revisions[h].chapters
    BY <2>5, HeadApproves DEF Slot
  <2>7. h >= a
    <3>1. a \in approved /\ revisions[a].slot = "architecture"
      BY DEF ApprovalsOf
    <3>2. ref["architecture"] = Ent(a)
      BY <1>3, <3>1 DEF Owned
    <3> QED BY <2>6, <3>1, <3>2 DEF TypeInv, TablesInv
  <2>8. a \in Nat /\ h \in Nat
    <3>1. a \in 1..Len(revisions) /\ h \in 1..Len(revisions)
      BY DEF ApprovalsOf, TypeInv, TablesInv
    <3> QED BY <3>1
  <2>9. CurrentChapters' = CurrentChapters \union {o.slot}
    BY <1>6, <2>1 DEF CurrentChapters
  <2>10. ASSUME NEW k \in CurrentChapters', k \notin revisions[a].chapters
         PROVE  chapters'[k] = "CONTRACT_APPROVED" /\ \E b \in ApprovalsOf("architecture") : b > a /\ k \in revisions[b].chapters
    <3>1. CASE k = o.slot
      <4>1. h # a
        BY <2>6, <2>10, <3>1
      <4>2. h > a
        BY <2>7, <2>8, <4>1
      <4> QED BY <1>6, <2>1, <2>6, <3>1, <4>2
    <3>2. CASE k # o.slot
      <4>1. k \in CurrentChapters /\ k \in Chapter /\ chapters'[k] = chapters[k]
        BY <1>6, <2>1, <2>9, <2>10, <3>2 DEF CurrentChapters
      <4> QED BY <2>4, <2>10, <4>1 DEF CarriedOut
    <3> QED BY <3>1, <3>2
  <2>11. CarriedOut(a)'
    BY <1>2, <1>5, <2>4, <2>9, <2>10 DEF CarriedOut
  <2>12. Carried'
    BY <1>5, <2>11 DEF Carried
  <2> QED BY <1>2, <1>3, <1>4, <2>12, AloneStep
<1> QED BY <1>7, <1>8, <1>9

LEMMA AloneEnds ==
  ASSUME TypeInv, AloneInv, (\E c \in Client : Abort(c)) \/ Crash \/ UNCHANGED vars
  PROVE  AloneInv'
<1>1. UNCHANGED <<revisions, ref, head, approved, working, chapters, saved, overlapped>>
  BY DEF Abort, Crash, vars, store, count
<1>2. \A d \in Client : op'[d] \in {op[d], Idle}
  BY DEF Abort, Crash, Finish, Goto, vars, TypeInv, OpsInv
<1>3. SUFFICES ASSUME ~overlapped PROVE AloneInv'
  BY <1>1 DEF AloneInv
<1>4. /\ Shown /\ Owned /\ Carried
      /\ \A d \in Client : Undisturbed(op[d])
      /\ \A b, d \in Client : op[b].pc # "idle" /\ op[d].pc # "idle" => b = d
  BY <1>3 DEF AloneInv
<1>5. Shown' /\ Owned' /\ Carried' /\ \A o : Undisturbed(o)' = Undisturbed(o)
  BY <1>1, <1>4, StoreStays
<1>6. \A d \in Client : Undisturbed(op[d])'
  <2> SUFFICES ASSUME NEW d \in Client PROVE Undisturbed(op[d])'
    OBVIOUS
  <2>1. PICK x : op'[d] = x /\ Undisturbed(x)
    BY <1>2, <1>4, IdleRow, UndisturbedIdle
  <2>2. Undisturbed(x)'
    BY <1>5, <2>1
  <2> QED BY <2>1, <2>2 DEF Undisturbed
<1>7. \A b, d \in Client : op'[b].pc # "idle" /\ op'[d].pc # "idle" => b = d
  BY <1>2, <1>4, IdleRow
<1> QED BY <1>5, <1>6, <1>7 DEF AloneInv

LEMMA AloneNext == TypeInv /\ AloneInv /\ [Next]_vars => AloneInv'
<1> SUFFICES ASSUME TypeInv, AloneInv, [Next]_vars PROVE AloneInv'
  OBVIOUS
<1>1. ASSUME NEW c \in Client, NEW s \in Slot,
             ApproveBegin(c, s) \/ \E x \in ContentOf(s) : SaveBegin(c, s, x)
      PROVE  AloneInv'
  BY <1>1, AloneStarts
<1>2. ASSUME NEW c \in Client,
             \/ ApproveReadRef(c) \/ ApproveReadHead(c) \/ ApproveReadWorking(c)
             \/ ViewHead(c) \/ ViewWorking(c) \/ ClearWorking(c) \/ Accept(c)
             \/ SaveRegister(c) \/ SaveCreate(c) \/ SaveSetRef(c) \/ SaveSetWorking(c)
             \/ FinishArchitecture(c) \/ FinishContract(c) \/ FinishChapter(c)
      PROVE  AloneInv'
  <2>1. overlapped' = overlapped
    BY <1>2 DEF ApproveReadRef, ApproveReadHead, ApproveReadWorking, ViewHead, ViewWorking, ClearWorking,
       Accept, SaveRegister, SaveCreate, SaveSetRef, SaveSetWorking, FinishArchitecture, FinishContract,
       FinishChapter, count
  <2>2. CASE overlapped
    BY <2>1, <2>2 DEF AloneInv
  <2>3. CASE ~overlapped
    BY <1>2, <2>3, AloneReads, AloneClears, AloneAccepts, AloneInserts, AloneSaves, AloneFinishes
  <2> QED BY <2>2, <2>3
<1>3. ASSUME (\E c \in Client : Abort(c)) \/ Crash \/ UNCHANGED vars PROVE AloneInv'
  BY <1>3, AloneEnds
<1> QED BY <1>1, <1>2, <1>3 DEF Next

LEMMA AloneInvariant == Spec => []AloneInv
<1>1. Init => AloneInv
  <2> SUFFICES ASSUME Init PROVE AloneInv
    OBVIOUS
  <2>1. /\ approved = {} /\ saved = [s \in Slot |-> 0] /\ chapters = [k \in Chapter |-> "absent"]
        /\ op = [c \in Client |-> Idle]
    BY DEF Init
  <2> QED BY <2>1, IdleRow, UndisturbedIdle DEF AloneInv, Shown, Owned, Carried
<1> QED BY <1>1, AloneNext, TypeInvariant, PTL DEF Spec

\* What the workspace shows of a document is the last draft saved, whatever was approved since.
THEOREM TheLastDraftIsShown == Spec => []SavedDraftIsShown
<1>1. AloneInv => SavedDraftIsShown
  BY DEF AloneInv, Shown, SavedDraftIsShown, Src
<1> QED BY <1>1, AloneInvariant, PTL

\* The current chapters are those of an approved architecture; beside them only approved contracts.
THEOREM ChaptersComeFromAnArchitecture == Spec => []CurrentChaptersApproved
<1>1. AloneInv => CurrentChaptersApproved
  BY DEF AloneInv, Carried, CarriedOut, CurrentChapters, CurrentChaptersApproved
<1> QED BY <1>1, AloneInvariant, PTL

\* No later draft takes an approval back.
THEOREM ApprovalsAreKept == Spec => []ApprovalsStand
<1>1. ASSUME TypeInv, OrderInv, AloneInv PROVE ApprovalsStand
  <2> SUFFICES ASSUME ~overlapped,
                      NEW s \in Slot, ApprovalsOf(s) # {}
               PROVE  Approved(s)
    BY <1>1 DEF ApprovalsStand, OrderInv, BuiltInOrder, Slot
  <2>1. PICK r \in approved : revisions[r].slot = s
    BY DEF ApprovalsOf
  <2>2. ref[s] = Ent(r) /\ head[Ent(r)] \in approved /\ r \in 1..Len(revisions)
    BY <1>1, <2>1 DEF AloneInv, Owned, TypeInv, TablesInv
  <2>3. Ent(r) # 0
    BY <1>1, <2>2, RowRange, Bounds DEF TypeInv, Rev
  <2> QED BY <2>2, <2>3 DEF Approved
<1> QED BY <1>1, TypeInvariant, OrderInvariant, AloneInvariant, PTL
=================================================================================
