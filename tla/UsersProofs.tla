----------------------------- MODULE UsersProofs -----------------------------
(***************************************************************************)
(* What holds of Users for every set of users, requests and permissions:   *)
(* its types; that a request which missed no write gives no revoked user   *)
(* anything back, leaves what people changed alone when it is an edit by   *)
(* another system, and changes no more than its actor may.                 *)
(*                                                                         *)
(* The argument is the same for all: a request checks what it has read     *)
(* (Ready), and what it has read is what there is, unless a write of       *)
(* another request is among those it missed (Fresh).  So what a write      *)
(* computes need only be compared with the document it was computed from.  *)
(* From it also follow that a user is created once (CreatedOnce), and that *)
(* the schemas of a document are those its tuples give (SchemasMirrored).  *)
(***************************************************************************)
EXTENDS Users, TLAPS

(* Documents that are computed. *)

LEMMA DocFields ==
    ASSUME NEW D \in Docs
    PROVE  /\ D.attrs \in Attributes /\ D.lake \in Lakes \cup {Absent}
           /\ D.cats \in SUBSET Catalogs /\ D.groups \in SUBSET Groups
           /\ D.domains \in [Domains -> DomainEntries \cup {Absent}]
           /\ D.tables \in [Tables -> TableEntries \cup {Absent}]
           /\ D # NoDoc
  BY UsersAssumption DEF Docs

LEMMA JobFields ==
    ASSUME NEW j \in Jobs
    PROVE  /\ j.op \in Ops /\ j.by \in Actors /\ j.u \in Users /\ j.body \in Bodies
           /\ j.d \in Domains /\ j.s \in Schemas /\ j.names \in SUBSET Catalogs
           /\ j.rename \in [Catalogs -> Catalogs] /\ j.to \in SUBSET Users
  BY UsersAssumption DEF JobType

LEMMA BodyFields ==
    ASSUME NEW b \in Bodies
    PROVE  /\ b.mask \in BOOLEAN /\ b.pop \in SUBSET Values
           /\ b.domains \in [Domains -> {Absent} \cup SUBSET Classes]
           /\ b.tables \in [Tables -> Contents \cup {Absent}]
           /\ b.groups \in {Keep} \cup SUBSET Groups /\ b.all \in {"keep", "on", "off"}
  BY DEF Bodies

LEMMA StampDomainType ==
    ASSUME NEW a \in Actors, NEW old \in DomainEntries \cup {Absent},
           NEW cls \in {Absent} \cup SUBSET Classes
    PROVE  StampDomain(a, old, cls) \in DomainEntries \cup {Absent}
  BY UsersAssumption DEF StampDomain, Held, DomainEntries

LEMMA StampTableType ==
    ASSUME NEW a \in Actors, NEW old \in TableEntries \cup {Absent},
           NEW rows \in Contents \cup {Absent}
    PROVE  StampTable(a, old, rows) \in TableEntries \cup {Absent}
  BY UsersAssumption DEF StampTable, Rows, TableEntries

LEMMA FinalTypes ==
    ASSUME NEW a \in Actors
    PROVE  /\ \A old \in DomainEntries \cup {Absent}, new \in {Absent} \cup SUBSET Classes :
                 FinalDomain(a, old, new) \in {Absent} \cup SUBSET Classes
           /\ \A old \in TableEntries \cup {Absent}, new \in Contents \cup {Absent} :
                 FinalTable(a, old, new) \in Contents \cup {Absent}
  BY DEF FinalDomain, FinalTable, DomainEntries, TableEntries

LEMMA LakeTypes ==
    /\ \A all \in BOOLEAN : DefaultLake(all) \in Lakes
    /\ \A lake \in Lakes, s \in Schemas, v \in {"none", "read", "write"} : SetSchema(lake, s, v) \in Lakes
  BY DEF DefaultLake, NoSchemas, SetSchema, Lakes

LEMMA NewPopType ==
    ASSUME NEW j \in Jobs, NEW old \in SUBSET Values
    PROVE  NewPop(j, old) \in SUBSET Values
  BY JobFields, BodyFields DEF NewPop

LEMMA CreatedType ==
    ASSUME NEW j \in Jobs, MayCreate(j), NEW cats \in SUBSET Catalogs
    PROVE  Created(j, cats) \in Docs
  <1> DEFINE E == Created(j, cats)
  <1>1. j.by \in Actors /\ j.body \in Bodies
    BY JobFields
  <1>2. E.attrs \in Attributes
    BY <1>1, BodyFields, NewPopType DEF Created, Attributes
  <1>3. E.lake \in Lakes /\ E.cats \in SUBSET Catalogs
    BY LakeTypes DEF Created
  <1>4. E.domains \in [Domains -> DomainEntries \cup {Absent}]
    BY <1>1, BodyFields, StampDomainType DEF Created
  <1>5. E.tables \in [Tables -> TableEntries \cup {Absent}]
    BY <1>1, BodyFields, StampTableType DEF Created
  <1>6. E.groups \in SUBSET Groups
    BY <1>1, UsersAssumption DEF Created, MayCreate
  <1> QED
    BY <1>2, <1>3, <1>4, <1>5, <1>6 DEF Created, Docs

LEMMA EditedType ==
    ASSUME NEW j \in Jobs, NEW old \in Docs, NEW now \in Docs, Present(old)
    PROVE  Edited(j, old, now) \in Docs
  <1> DEFINE E == Edited(j, old, now)
  <1>1. j.by \in Actors /\ j.body \in Bodies
    BY JobFields
  <1>2. E.attrs \in Attributes
    <2>1. old.attrs \in Attributes /\ NewPop(j, old.attrs.pop) \in SUBSET Values
      BY DocFields, NewPopType DEF Attributes
    <2> QED
      BY <1>1, <2>1, BodyFields DEF Edited, EditedAttributes, Attributes
  <1>3. E.lake \in Lakes \cup {Absent} /\ E.cats \in SUBSET Catalogs
    <2>1. old.lake \in Lakes /\ now.lake \in Lakes \cup {Absent}
      BY DocFields DEF Present
    <2>2. old.lake.schemas \in [Schemas -> {"none", "read", "write"}] /\ (j.body.all = "on") \in BOOLEAN
      BY <2>1 DEF Lakes
    <2>3. [all |-> j.body.all = "on", schemas |-> old.lake.schemas] \in Lakes
      BY <2>2, Zenon DEF Lakes
    <2>4. CASE j.body.all = "keep"
      BY <2>1, <2>4, DocFields DEF Edited
    <2>5. CASE j.body.all # "keep"
      <3> DEFINE lake == [all |-> j.body.all = "on", schemas |-> old.lake.schemas]
      <3>1. E.lake = lake /\ E.cats = old.cats
        BY <2>5, Zenon DEF Edited
      <3>2. lake \in Lakes
        BY <2>3
      <3> HIDE DEF lake, E
      <3> QED
        BY <3>1, <3>2, DocFields
    <2> QED
      BY <2>4, <2>5
  <1>4. E.domains \in [Domains -> DomainEntries \cup {Absent}]
    <2>1. EditedDomains(j, old) \in [Domains -> DomainEntries \cup {Absent}]
      BY <1>1, BodyFields, DocFields, StampDomainType, FinalTypes DEF EditedDomains
    <2> QED
      BY <2>1, Zenon DEF Edited
  <1>5. E.tables \in [Tables -> TableEntries \cup {Absent}]
    <2>1. EditedTables(j, old) \in [Tables -> TableEntries \cup {Absent}]
      BY <1>1, BodyFields, DocFields, StampTableType, FinalTypes DEF EditedTables
    <2> QED
      BY <2>1, Zenon DEF Edited
  <1>6. E.groups \in SUBSET Groups
    BY <1>1, BodyFields, DocFields DEF Edited, EditedGroups
  <1> QED
    BY <1>2, <1>3, <1>4, <1>5, <1>6 DEF Edited, Docs

LEMMA ReducedType ==
    ASSUME NEW j \in Jobs, NEW old \in Docs, NEW now \in Docs
    PROVE  Reduced(j, old, now) \in Docs
  <1>1. Without(old.domains, j.d) \in [Domains -> DomainEntries \cup {Absent}]
    BY DocFields DEF Without
  <1>2. [t \in Tables |-> IF old.tables[t] # Absent /\ Supported(t, Without(old.domains, j.d), old.groups)
                          THEN old.tables[t] ELSE Absent] \in [Tables -> TableEntries \cup {Absent}]
    BY DocFields
  <1> QED
    BY <1>1, <1>2 DEF Reduced, Docs

LEMMA ClonedType ==
    ASSUME NEW j \in Jobs, NEW old \in Docs, NEW now \in Docs \cup {NoDoc}
    PROVE  Cloned(j, old, now) \in Docs
  <1> DEFINE E == Cloned(j, old, now)
  <1>1. j.by \in Actors
    BY JobFields
  <1>2. E.attrs \in Attributes /\ E.lake \in Lakes /\ E.cats \in SUBSET Catalogs
    BY LakeTypes, DocFields DEF Cloned, DefaultAttributes, Attributes
  <1>3. E.domains \in [Domains -> DomainEntries \cup {Absent}]
    <2>1. \A d \in Domains : MayCopy(j.by, old, d) => old.domains[d].cls \in SUBSET Classes
      BY DocFields DEF MayCopy, DomainEntries
    <2> QED
      BY <1>1, <2>1, StampDomainType DEF Cloned
  <1>4. E.tables \in [Tables -> TableEntries \cup {Absent}]
    <2>1. \A t \in Tables : Rows(old.tables[t]) \in Contents \cup {Absent}
      BY DocFields DEF Rows, TableEntries
    <2> QED
      BY <1>1, <2>1, StampTableType DEF Cloned
  <1> QED
    BY <1>2, <1>3, <1>4 DEF Cloned, Docs
-----------------------------------------------------------------------------
(* What a request holds. *)

\* The copy D that a request j works on is one that it checked.
Checked(j, D) ==
    /\ j.op # "create" => D # NoDoc
    /\ j.op = "create" => MayCreate(j) /\ ~Present(D)
    /\ j.op = "edit" => MayEdit(j, D)
    /\ j.op = "dropDomain" => j.d \in MayManage[j.by]
    /\ j.op \in {"edit", "clone", "give", "revoke"} \cup CatalogOps => Present(D)

ReadyOf(r) ==
    /\ todo[r] \subseteq job[r].to
    /\ pc[r] = "write" => job[r].op \notin {"clone", "delete"}
    /\ pc[r] = "copy" => job[r].op = "clone"
    /\ pc[r] \in {"tuple", "undo"} => job[r].op \in {"give", "revoke"}
    /\ Busy(r) => Checked(job[r], copy[r]) /\ (copy[r] # NoDoc => doc[job[r].u] # NoDoc)

\* What it has read is what there is, unless it missed a write.
FreshOf(r) ==
    missed[r] = {} =>
        /\ pc[r] = "write" => copy[r] = doc[job[r].u]
        /\ pc[r] = "copy" => \A v \in todo[r] : ~Live(v)
        /\ pc[r] \in {"tuple", "undo"} =>
              Live(job[r].u) /\ doc[job[r].u].lake.all = copy[r].lake.all

Ready == \A r \in Reqs : ReadyOf(r)
Fresh == \A r \in Reqs : FreshOf(r)

Inv == TypeOK /\ Ready /\ Fresh

LEMMA JobTyped ==
    ASSUME TypeOK, NEW r \in Reqs
    PROVE  job[r] \in Jobs /\ job[r].u \in Users /\ job[r].to \in SUBSET Users /\ Concerns(r) \in SUBSET Users
  BY JobFields DEF TypeOK, Concerns

LEMMA MissedType ==
    ASSUME TypeOK, NEW r \in Reqs, NEW u \in Users
    PROVE  Missed(r, u) \in [Reqs -> SUBSET Reqs]
  BY DEF TypeOK, Missed

\* A step of r leaves what the others hold as it is, or they miss it.
LEMMA Frame ==
    ASSUME Inv, NEW r \in Reqs, TypeOK', UNCHANGED job,
           \A q \in Reqs \ {r} : pc'[q] \in {pc[q], "gone"} /\ copy'[q] = copy[q] /\ todo'[q] = todo[q],
           \/ UNCHANGED <<doc, missed>>
           \/ \E u \in Users, D \in Docs : doc' = [doc EXCEPT ![u] = D] /\ missed' = Missed(r, u),
           ReadyOf(r)', FreshOf(r)'
    PROVE  Inv'
  <1>1. \A u \in Users : doc[u] # NoDoc => doc'[u] # NoDoc
    BY UsersAssumption DEF Inv, TypeOK
  <1>2. ASSUME NEW q \in Reqs \ {r}
        PROVE  ReadyOf(q)'
    <2>1. job'[q] = job[q] /\ copy'[q] = copy[q] /\ todo'[q] = todo[q] /\ pc'[q] \in {pc[q], "gone"}
      BY <1>2
    <2>2. ReadyOf(q) /\ job[q].u \in Users
      BY <1>2, JobTyped DEF Inv, Ready
    <2>3. Busy(q)' => Busy(q)
      BY <2>1 DEF Busy
    <2>4. Checked(job[q], copy[q]) => Checked(job[q], copy[q])'
      BY <2>1 DEF Checked, MayCreate, MayEdit, Present, MaySetMask, MayChangeDomains, MayGrant, Touched,
             Held, EditedGroups, CatalogOps
    <2> QED
      BY <1>1, <2>1, <2>2, <2>3, <2>4 DEF ReadyOf
  <1>3. ASSUME NEW q \in Reqs \ {r}
        PROVE  FreshOf(q)'
    <2>1. job'[q] = job[q] /\ copy'[q] = copy[q] /\ todo'[q] = todo[q] /\ pc'[q] \in {pc[q], "gone"}
      BY <1>3
    <2>2. FreshOf(q) /\ ReadyOf(q) /\ job[q].u \in Users /\ job[q].to \in SUBSET Users
      BY <1>3, JobTyped DEF Inv, Ready, Fresh
    <2>3. CASE UNCHANGED <<doc, missed>>
      BY <2>1, <2>2, <2>3 DEF FreshOf, Live, Present
    <2>4. ASSUME NEW u \in Users, NEW D \in Docs, doc' = [doc EXCEPT ![u] = D], missed' = Missed(r, u)
          PROVE  FreshOf(q)'
      <3>1. CASE Busy(q) /\ u \in Concerns(q)
        BY <2>4, <3>1 DEF Missed, FreshOf
      <3>2. CASE ~Busy(q)
        BY <2>1, <3>2 DEF Busy, FreshOf
      <3>3. CASE Busy(q) /\ u \notin Concerns(q)
        <4>1. missed'[q] = missed[q] /\ \A v \in Concerns(q) : doc'[v] = doc[v]
          BY <2>2, <2>4, <3>3 DEF Missed, Inv, TypeOK
        <4> QED
          BY <2>1, <2>2, <4>1 DEF FreshOf, ReadyOf, Live, Present, Concerns
      <3> QED
        BY <3>1, <3>2, <3>3
    <2> QED
      BY <2>3, <2>4
  <1> QED
    BY <1>2, <1>3 DEF Inv, Ready, Fresh
-----------------------------------------------------------------------------
(* The steps. *)

LEMMA FaultType ==
    ASSUME TypeOK, Fault("refused") \/ UNCHANGED faults
    PROVE  faults' \in 0 .. MaxFaults
  BY UsersAssumption DEF TypeOK, Fault

LEMMA RefuseInv ==
    ASSUME Inv, NEW r \in Reqs, Refuse(r)
    PROVE  Inv'
  <1>1. TypeOK' /\ pc'[r] = "failed"
    BY DEF Inv, TypeOK, Refuse, Goto, NoPut, Steps
  <1>2. ReadyOf(r)' /\ FreshOf(r)'
    BY <1>1 DEF Inv, Ready, ReadyOf, FreshOf, Refuse, Busy
  <1> QED
    BY <1>1, <1>2, Frame DEF Inv, TypeOK, Refuse, Goto, NoPut

LEMMA EndedType ==
    ASSUME TypeOK, NEW r \in Reqs, NEW step \in Steps, pc' = Ended(r, step)
    PROVE  /\ pc' \in [Reqs -> Steps] /\ pc'[r] = step
           /\ \A q \in Reqs \ {r} : pc'[q] \in {pc[q], "gone"}
  BY DEF TypeOK, Ended, Steps

LEMMA EndProcessInv ==
    ASSUME Inv, NEW r \in Reqs, NEW step \in {"gone", "failed", "done"}, EndProcess(r, step),
           faults' \in 0 .. MaxFaults
    PROVE  Inv'
  <1>1. step \in Steps /\ pc' = Ended(r, step) /\ UNCHANGED <<doc, missed, writers, job, copy, todo>>
    BY DEF EndProcess, NoPut, Steps
  <1>2. TypeOK' /\ pc'[r] = step /\ \A q \in Reqs \ {r} : pc'[q] \in {pc[q], "gone"}
    BY <1>1, EndedType DEF Inv, TypeOK
  <1>3. ReadyOf(r)' /\ FreshOf(r)'
    BY <1>1, <1>2 DEF Inv, Ready, ReadyOf, FreshOf, Busy
  <1> QED
    BY <1>1, <1>2, <1>3, Frame

LEMMA TakeInv ==
    ASSUME Inv, NEW r \in Reqs, NEW step \in {"write", "copy"}, Take(r, step),
           Checked(job[r], doc[job[r].u]),
           step = "write" => job[r].op \notin {"clone", "delete"},
           step = "copy" => job[r].op = "clone" /\ \A v \in job[r].to : ~Live(v)
    PROVE  Inv'
  <1>1. job[r].u \in Users /\ job[r].to \in SUBSET Users
    BY JobTyped DEF Inv
  <1>2. /\ pc' = [pc EXCEPT ![r] = step] /\ copy' = [copy EXCEPT ![r] = doc[job[r].u]]
        /\ todo' = [todo EXCEPT ![r] = job[r].to] /\ UNCHANGED <<doc, missed, writers, job, faults>>
    BY DEF Take, Goto, NoPut
  <1>3. TypeOK'
    BY <1>1, <1>2 DEF Inv, TypeOK, Steps
  <1>4. pc'[r] = step /\ copy'[r] = doc[job[r].u] /\ todo'[r] = job[r].to
    BY <1>2 DEF Inv, TypeOK
  <1>5. Checked(job[r], copy[r])'
    BY <1>2, <1>4 DEF Checked, MayCreate, MayEdit, Present, MaySetMask, MayChangeDomains, MayGrant,
           Touched, Held, EditedGroups, CatalogOps
  <1>6. ReadyOf(r)' /\ FreshOf(r)'
    BY <1>2, <1>4, <1>5 DEF ReadyOf, FreshOf, Live, Present
  <1>7. \A q \in Reqs \ {r} : pc'[q] = pc[q] /\ copy'[q] = copy[q] /\ todo'[q] = todo[q]
    BY <1>2 DEF Inv, TypeOK
  <1> QED
    BY <1>2, <1>3, <1>6, <1>7, Frame

LEMMA FinishInv ==
    ASSUME Inv, NEW r \in Reqs, NEW D \in Docs, Finish(r, D)
    PROVE  Inv'
  <1>1. job[r].u \in Users
    BY JobTyped DEF Inv
  <1>2. /\ doc' = [doc EXCEPT ![job[r].u] = D] /\ missed' = Missed(r, job[r].u)
        /\ pc' = [pc EXCEPT ![r] = "done"] /\ UNCHANGED <<writers, job, copy, todo, faults>>
    BY DEF Finish, Put, Goto
  <1>3. TypeOK'
    BY <1>1, <1>2, MissedType DEF Inv, TypeOK, Steps
  <1>4. pc'[r] = "done" /\ \A q \in Reqs \ {r} : pc'[q] = pc[q]
    BY <1>2 DEF Inv, TypeOK
  <1>5. ReadyOf(r)' /\ FreshOf(r)'
    BY <1>2, <1>4 DEF Inv, Ready, ReadyOf, FreshOf, Busy
  <1> QED
    BY <1>1, <1>2, <1>3, <1>4, <1>5, Frame

\* The document and the copy of a request that is about to write.
LEMMA WriterTyped ==
    ASSUME Inv, NEW r \in Reqs, Busy(r)
    PROVE  /\ job[r] \in Jobs /\ job[r].u \in Users
           /\ copy[r] \in Docs \cup {NoDoc} /\ doc[job[r].u] \in Docs \cup {NoDoc}
           /\ Checked(job[r], copy[r])
           /\ copy[r] # NoDoc => copy[r] \in Docs /\ doc[job[r].u] \in Docs
  BY JobTyped DEF Inv, TypeOK, Ready, ReadyOf

LEMMA CreateInv ==
    ASSUME Inv, NEW r \in Reqs, ReadCreate(r) \/ WriteCreate(r)
    PROVE  Inv'
  <1>1. CASE ReadCreate(r)
    <2>1. CASE MayCreate(job[r]) /\ ~Live(job[r].u)
      <3>1. Take(r, "write") /\ job[r].op = "create"
        BY <1>1, <2>1 DEF ReadCreate, Asked
      <3>2. Checked(job[r], doc[job[r].u])
        BY <2>1, <3>1 DEF Checked, Live, CatalogOps
      <3> QED
        BY <3>1, <3>2, TakeInv
    <2>2. CASE Refuse(r)
      BY <2>2, RefuseInv
    <2> QED
      BY <1>1, <2>1, <2>2 DEF ReadCreate
  <1>2. CASE WriteCreate(r)
    <2>1. Busy(r) /\ job[r].op = "create"
      BY <1>2 DEF WriteCreate, Busy
    <2>2. job[r] \in Jobs /\ MayCreate(job[r]) /\ (copy[r] # NoDoc => copy[r].cats \in SUBSET Catalogs)
      BY <2>1, WriterTyped, DocFields DEF Checked
    <2>3. Created(job[r], {}) \in Docs /\ (copy[r] # NoDoc => Created(job[r], copy[r].cats) \in Docs)
      BY <2>2, CreatedType
    <2> QED
      BY <1>2, <2>3, FinishInv, RefuseInv DEF WriteCreate
  <1> QED
    BY <1>1, <1>2

LEMMA EditInv ==
    ASSUME Inv, NEW r \in Reqs, ReadEdit(r) \/ WriteEdit(r)
    PROVE  Inv'
  <1>1. CASE ReadEdit(r)
    <2>1. CASE Live(job[r].u) /\ MayEdit(job[r], doc[job[r].u])
      <3>1. Take(r, "write") /\ job[r].op = "edit"
        BY <1>1, <2>1 DEF ReadEdit, Asked
      <3>2. Checked(job[r], doc[job[r].u])
        BY <2>1, <3>1 DEF Checked, Live, Present
      <3> QED
        BY <3>1, <3>2, TakeInv
    <2>2. CASE Refuse(r)
      BY <2>2, RefuseInv
    <2> QED
      BY <1>1, <2>1, <2>2 DEF ReadEdit
  <1>2. CASE WriteEdit(r)
    <2>1. Busy(r) /\ job[r].op = "edit" /\ Finish(r, Edited(job[r], copy[r], doc[job[r].u]))
      BY <1>2 DEF WriteEdit, Busy
    <2>2. job[r] \in Jobs /\ copy[r] \in Docs /\ doc[job[r].u] \in Docs /\ Present(copy[r])
      BY <2>1, WriterTyped DEF Checked
    <2> QED
      BY <2>1, <2>2, EditedType, FinishInv
  <1> QED
    BY <1>1, <1>2

LEMMA BlockInv ==
    ASSUME Inv, NEW r \in Reqs, ReadBlock(r) \/ WriteBlock(r) \/ Delete(r)
    PROVE  Inv'
  <1>1. CASE ReadBlock(r)
    <2>1. CASE doc[job[r].u] # NoDoc
      <3>1. Take(r, "write") /\ job[r].op = "block" /\ Checked(job[r], doc[job[r].u])
        BY <1>1, <2>1 DEF ReadBlock, Asked, Checked, CatalogOps
      <3> QED
        BY <3>1, TakeInv
    <2> QED
      BY <1>1, <2>1, RefuseInv DEF ReadBlock
  <1>2. CASE WriteBlock(r)
    <2>1. Busy(r) /\ job[r].op = "block"
      BY <1>2 DEF WriteBlock, Busy
    <2>2. copy[r] \in Docs /\ doc[job[r].u] \in Docs
      BY <2>1, WriterTyped DEF Checked
    <2>3. [doc[job[r].u] EXCEPT !.attrs = [copy[r].attrs EXCEPT !.blocked = TRUE]] \in Docs
      BY <2>2 DEF Docs, Attributes
    <2> QED
      BY <1>2, <2>3, FinishInv DEF WriteBlock
  <1>3. CASE Delete(r)
    <2>1. CASE job[r].by \in Admins /\ doc[job[r].u] # NoDoc
      <3>1. doc[job[r].u] \in Docs
        BY <2>1, JobTyped DEF Inv, TypeOK
      <3>2. [doc[job[r].u] EXCEPT !.lake = Absent] \in Docs
        BY <3>1 DEF Docs
      <3> QED
        BY <1>3, <2>1, <3>2, FinishInv DEF Delete
    <2> QED
      BY <1>3, <2>1, RefuseInv DEF Delete
  <1> QED
    BY <1>1, <1>2, <1>3

LEMMA DropDomainInv ==
    ASSUME Inv, NEW r \in Reqs, ReadDropDomain(r) \/ WriteDropDomain(r)
    PROVE  Inv'
  <1>1. CASE ReadDropDomain(r)
    <2>1. CASE job[r].d \in MayManage[job[r].by] /\ doc[job[r].u] # NoDoc
      <3>1. Take(r, "write") /\ job[r].op = "dropDomain" /\ Checked(job[r], doc[job[r].u])
        BY <1>1, <2>1 DEF ReadDropDomain, Asked, Checked, CatalogOps
      <3> QED
        BY <3>1, TakeInv
    <2> QED
      BY <1>1, <2>1, RefuseInv DEF ReadDropDomain
  <1>2. CASE WriteDropDomain(r)
    <2>1. Busy(r) /\ job[r].op = "dropDomain" /\ Finish(r, Reduced(job[r], copy[r], doc[job[r].u]))
      BY <1>2 DEF WriteDropDomain, Busy
    <2>2. job[r] \in Jobs /\ copy[r] \in Docs /\ doc[job[r].u] \in Docs
      BY <2>1, WriterTyped DEF Checked
    <2> QED
      BY <2>1, <2>2, ReducedType, FinishInv
  <1> QED
    BY <1>1, <1>2

LEMMA CatalogsWritten ==
    ASSUME Inv, NEW r \in Reqs, WriteCatalogs(r)
    PROVE  [doc[job[r].u] EXCEPT !.lake = copy[r].lake,
                                 !.cats = NewCatalogs(job[r], copy[r].cats)] \in Docs
  <1>1. Busy(r) /\ job[r].op \in CatalogOps
    BY DEF WriteCatalogs, Busy
  <1>2. job[r] \in Jobs /\ copy[r] \in Docs /\ doc[job[r].u] \in Docs
    BY <1>1, WriterTyped DEF Checked, CatalogOps
  <1>3. NewCatalogs(job[r], copy[r].cats) \in SUBSET Catalogs
    BY <1>1, <1>2, JobFields, DocFields DEF NewCatalogs, CatalogOps
  <1> QED
    BY <1>2, <1>3 DEF Docs

LEMMA CatalogsInv ==
    ASSUME Inv, NEW r \in Reqs, ReadCatalogs(r) \/ WriteCatalogs(r)
    PROVE  Inv'
  <1>1. CASE ReadCatalogs(r)
    <2>1. CASE Live(job[r].u)
      <3>1. Take(r, "write") /\ job[r].op \in CatalogOps /\ Checked(job[r], doc[job[r].u])
        BY <1>1, <2>1 DEF ReadCatalogs, Asked, Checked, CatalogOps, Live, Present
      <3> QED
        BY <3>1, TakeInv DEF CatalogOps
    <2> QED
      BY <1>1, <2>1, RefuseInv DEF ReadCatalogs
  <1>2. CASE WriteCatalogs(r)
    BY <1>2, CatalogsWritten, FinishInv DEF WriteCatalogs
  <1> QED
    BY <1>1, <1>2
LEMMA ReadCloneInv ==
    ASSUME Inv, NEW r \in Reqs, ReadClone(r)
    PROVE  Inv'
  <1>1. job[r].op = "clone"
    BY DEF ReadClone, Asked
  <1>2. CASE Refuse(r)
    BY <1>2, RefuseInv
  <1>3. CASE EndProcess(r, "gone") /\ UNCHANGED faults
    BY <1>3, EndProcessInv DEF Inv, TypeOK
  <1>4. CASE Live(job[r].u) /\ (\A v \in job[r].to : ~Live(v)) /\ Take(r, "copy")
    <2>1. Checked(job[r], doc[job[r].u])
      BY <1>1, <1>4 DEF Checked, Live, Present
    <2> QED
      BY <1>1, <1>4, <2>1, TakeInv
  <1> QED
    BY <1>2, <1>3, <1>4 DEF ReadClone

LEMMA CopyToInv ==
    ASSUME Inv, NEW r \in Reqs, NEW v \in Users, CopyTo(r, v)
    PROVE  Inv'
  <1> DEFINE E    == Cloned(job[r], copy[r], doc[v])
             step == IF todo[r] = {v} THEN "audit" ELSE "copy"
  <1>1. /\ pc[r] = "copy" /\ v \in todo[r] /\ doc' = [doc EXCEPT ![v] = E] /\ missed' = Missed(r, v)
        /\ todo' = [todo EXCEPT ![r] = @ \ {v}] /\ pc' = [pc EXCEPT ![r] = step]
        /\ UNCHANGED <<writers, job, copy, faults>>
    BY DEF CopyTo, Put, Goto
  <1>2. ReadyOf(r) /\ FreshOf(r) /\ Busy(r)
    BY <1>1 DEF Inv, Ready, Fresh, Busy
  <1>3. job[r] \in Jobs /\ copy[r] \in Docs /\ job[r].op = "clone"
    BY <1>1, <1>2, WriterTyped DEF ReadyOf, Checked
  <1>4. E \in Docs
    BY <1>3, ClonedType DEF Inv, TypeOK
  <1> HIDE DEF E
  <1>5. TypeOK'
    BY <1>1, <1>4, MissedType DEF Inv, TypeOK, Steps
  <1>6. /\ pc'[r] = step /\ todo'[r] = todo[r] \ {v} /\ missed'[r] = missed[r]
        /\ \A u \in Users \ {v} : doc'[u] = doc[u]
        /\ \A q \in Reqs \ {r} : pc'[q] = pc[q] /\ todo'[q] = todo[q]
    BY <1>1 DEF Inv, TypeOK, Missed
  <1>7. doc'[job[r].u] # NoDoc
    <2>1. doc[job[r].u] # NoDoc /\ job[r].u \in Users
      BY <1>2, <1>3, JobTyped, UsersAssumption DEF Inv, ReadyOf
    <2> QED
      BY <1>1, <1>4, <2>1, UsersAssumption DEF Inv, TypeOK
  <1>8. Checked(job[r], copy[r])'
    BY <1>1, <1>2, <1>3 DEF ReadyOf, Checked, Present, CatalogOps
  <1>9. ReadyOf(r)'
    BY <1>1, <1>2, <1>3, <1>6, <1>7, <1>8 DEF ReadyOf
  <1>10. FreshOf(r)'
    BY <1>1, <1>2, <1>6 DEF FreshOf, Live, Present, Inv, TypeOK
  <1> QED
    BY <1>1, <1>4, <1>5, <1>6, <1>9, <1>10, Frame

LEMMA CopyEndsInv ==
    ASSUME Inv, NEW r \in Reqs, CopyFails(r) \/ Audit(r)
    PROVE  Inv'
  <1>1. CASE Fault("refused") /\ EndProcess(r, "done")
    BY <1>1, EndProcessInv, FaultType DEF Inv
  <1>2. ASSUME NEW step \in {"failed", "done"}, Goto(r, step), NoPut,
               UNCHANGED <<writers, job, copy, todo>>, Fault("refused") \/ UNCHANGED faults
        PROVE  Inv'
    <2>1. faults' \in 0 .. MaxFaults
      BY <1>2, FaultType DEF Inv
    <2>2. TypeOK' /\ pc'[r] = step /\ \A q \in Reqs \ {r} : pc'[q] = pc[q]
      BY <1>2, <2>1 DEF Inv, TypeOK, Goto, NoPut, Steps
    <2>3. ReadyOf(r)' /\ FreshOf(r)'
      BY <1>2, <2>2 DEF Inv, Ready, ReadyOf, FreshOf, Busy
    <2> QED
      BY <1>2, <2>2, <2>3, Frame DEF NoPut
  <1> QED
    BY <1>1, <1>2 DEF CopyFails, Audit

\* What giving and revoking write is a document of a user that is there.
LEMMA SchemaWritten ==
    ASSUME NEW D \in Docs, NEW lake \in Lakes, NEW s \in Schemas, NEW v \in {"none", "read", "write"}
    PROVE  /\ [D EXCEPT !.lake = SetSchema(lake, s, v)] \in Docs
           /\ Present([D EXCEPT !.lake = SetSchema(lake, s, v)])
           /\ [D EXCEPT !.lake = lake] \in Docs
  <1>1. SetSchema(lake, s, v) \in Lakes
    BY LakeTypes
  <1> DEFINE new == SetSchema(lake, s, v)
  <1> HIDE DEF new
  <1>2. [D EXCEPT !.lake = new] \in Docs /\ [D EXCEPT !.lake = lake] \in Docs
    BY <1>1 DEF Docs, new
  <1>3. [D EXCEPT !.lake = new].lake = new
    BY DEF Docs
  <1> QED
    BY <1>1, <1>2, <1>3, UsersAssumption DEF Present, new

LEMMA ReadSchemasInv ==
    ASSUME Inv, NEW r \in Reqs, ReadSchemas(r)
    PROVE  Inv'
  <1>1. job[r].op \in {"give", "revoke"}
    BY DEF ReadSchemas, Asked
  <1>2. CASE Refuse(r)
    BY <1>2, RefuseInv
  <1>3. CASE EndProcess(r, "failed") /\ UNCHANGED faults
    BY <1>3, EndProcessInv DEF Inv, TypeOK
  <1>4. CASE Live(job[r].u) /\ Take(r, "write")
    <2>1. Checked(job[r], doc[job[r].u])
      BY <1>1, <1>4 DEF Checked, Live, Present
    <2> QED
      BY <1>1, <1>4, <2>1, TakeInv
  <1> QED
    BY <1>2, <1>3, <1>4 DEF ReadSchemas

LEMMA WriteSchemasInv ==
    ASSUME Inv, NEW r \in Reqs, WriteSchemas(r)
    PROVE  Inv'
  <1> DEFINE u == job[r].u
             v == IF job[r].op = "give" THEN "write" ELSE "read"
             E == [doc[u] EXCEPT !.lake = SetSchema(copy[r].lake, job[r].s, v)]
  <1>1. /\ pc[r] = "write" /\ job[r].op \in {"give", "revoke"} /\ doc' = [doc EXCEPT ![u] = E]
        /\ missed' = Missed(r, u) /\ pc' = [pc EXCEPT ![r] = "tuple"]
        /\ UNCHANGED <<writers, job, copy, todo, faults>>
    BY DEF WriteSchemas, Put, Goto
  <1>2. /\ job[r] \in Jobs /\ u \in Users /\ copy[r] \in Docs /\ doc[u] \in Docs
        /\ Checked(job[r], copy[r]) /\ ReadyOf(r)
    BY <1>1, WriterTyped DEF Busy, Checked, Inv, Ready
  <1>3. E \in Docs /\ Present(E) /\ E.lake.all = copy[r].lake.all
    <2>1. copy[r].lake \in Lakes /\ job[r].s \in Schemas /\ v \in {"none", "read", "write"}
      BY <1>1, <1>2, JobFields, DocFields DEF Checked, Present
    <2>2. E \in Docs /\ Present(E)
      BY <1>2, <2>1, SchemaWritten
    <2>3. E.lake = SetSchema(copy[r].lake, job[r].s, v)
      BY <1>2 DEF Docs
    <2>4. SetSchema(copy[r].lake, job[r].s, v).all = copy[r].lake.all
      BY <2>1 DEF SetSchema, Lakes
    <2> QED
      BY <2>2, <2>3, <2>4
  <1> HIDE DEF E
  <1>4. TypeOK'
    BY <1>1, <1>2, <1>3, MissedType DEF Inv, TypeOK, Steps
  <1>5. pc'[r] = "tuple" /\ doc'[u] = E /\ \A q \in Reqs \ {r} : pc'[q] = pc[q]
    BY <1>1, <1>2 DEF Inv, TypeOK
  <1>6. Checked(job[r], copy[r])'
    BY <1>1, <1>2 DEF Checked, Present, CatalogOps
  <1>7. ReadyOf(r)' /\ FreshOf(r)'
    BY <1>1, <1>2, <1>3, <1>5, <1>6, UsersAssumption DEF ReadyOf, FreshOf, Live
  <1> QED
    BY <1>1, <1>2, <1>3, <1>4, <1>5, <1>7, Frame

LEMMA TupleInv ==
    ASSUME Inv, NEW r \in Reqs, WriteTuple(r) \/ TupleFails(r)
    PROVE  Inv'
  <1>1. /\ pc[r] = "tuple" /\ UNCHANGED <<doc, missed, job, copy, todo>>
        /\ pc' \in {[pc EXCEPT ![r] = "done"], [pc EXCEPT ![r] = "undo"]}
    BY DEF WriteTuple, TupleFails, NoPut, Goto
  <1>2. /\ job[r] \in Jobs /\ ReadyOf(r) /\ FreshOf(r)
        /\ job[r].u \in Users /\ job[r].s \in Schemas
    BY JobTyped, JobFields DEF Inv, Ready, Fresh
  <1>3. writers' \subseteq Users \X Schemas /\ faults' \in 0 .. MaxFaults
    BY <1>2, FaultType DEF Inv, TypeOK, WriteTuple, TupleFails
  <1>4. TypeOK' /\ pc'[r] \in {"done", "undo"} /\ \A q \in Reqs \ {r} : pc'[q] = pc[q]
    BY <1>1, <1>3 DEF Inv, TypeOK, Steps
  <1>5. Checked(job[r], copy[r])'
    BY <1>1, <1>2 DEF ReadyOf, Busy, Checked, Present, CatalogOps
  <1>6. ReadyOf(r)' /\ FreshOf(r)'
    BY <1>1, <1>2, <1>4, <1>5 DEF ReadyOf, FreshOf, Live, Present, Busy
  <1> QED
    BY <1>1, <1>4, <1>6, Frame

\* What the catch of giving and revoking writes back.
LEMMA UndoWrites ==
    ASSUME Inv, NEW r \in Reqs, Undo(r)
    PROVE  /\ job[r].u \in Users /\ doc[job[r].u] \in Docs /\ copy[r] \in Docs /\ Present(copy[r])
           /\ [doc[job[r].u] EXCEPT !.lake = copy[r].lake] \in Docs
           /\ doc' = [doc EXCEPT ![job[r].u] = [doc[job[r].u] EXCEPT !.lake = copy[r].lake]]
  <1>1. pc[r] = "undo" /\ ReadyOf(r)
    BY DEF Undo, Inv, Ready
  <1>2. job[r].u \in Users /\ doc[job[r].u] \in Docs /\ copy[r] \in Docs /\ Present(copy[r])
    BY <1>1, WriterTyped DEF ReadyOf, Busy, Checked
  <1>3. [doc[job[r].u] EXCEPT !.lake = copy[r].lake] \in Docs
    BY <1>2, DocFields DEF Docs, Present
  <1>4. doc' = [doc EXCEPT ![job[r].u] = [doc[job[r].u] EXCEPT !.lake = copy[r].lake]]
    BY DEF Undo
  <1> QED
    BY <1>2, <1>3, <1>4

LEMMA UndoInv ==
    ASSUME Inv, NEW r \in Reqs, Undo(r)
    PROVE  Inv'
  <1> DEFINE E == [doc[job[r].u] EXCEPT !.lake = copy[r].lake]
  <1>1. /\ pc' = Ended(r, "failed") /\ missed' = Missed(r, job[r].u)
        /\ UNCHANGED <<writers, job, copy, todo, faults>>
    BY DEF Undo
  <1>2. job[r].u \in Users /\ E \in Docs /\ doc' = [doc EXCEPT ![job[r].u] = E]
    BY UndoWrites
  <1> HIDE DEF E
  <1>3. pc' \in [Reqs -> Steps] /\ pc'[r] = "failed" /\ \A q \in Reqs \ {r} : pc'[q] \in {pc[q], "gone"}
    BY <1>1, EndedType DEF Inv, Steps
  <1>4. TypeOK'
    BY <1>1, <1>2, <1>3, MissedType DEF Inv, TypeOK
  <1>5. ReadyOf(r)' /\ FreshOf(r)'
    BY <1>1, <1>3 DEF Inv, Ready, ReadyOf, FreshOf, Busy
  <1> QED
    BY <1>1, <1>2, <1>3, <1>4, <1>5, Frame

LEMMA InvInit ==
    ASSUME Init
    PROVE  Inv
  <1>1. TypeOK
    BY UsersAssumption DEF Init, TypeOK, Steps
  <1>2. Ready /\ Fresh
    BY DEF Init, Ready, ReadyOf, Fresh, FreshOf, Busy
  <1> QED
    BY <1>1, <1>2 DEF Inv

LEMMA InvStutter ==
    ASSUME Inv, UNCHANGED vars
    PROVE  Inv'
  <1>1. TypeOK'
    BY DEF Inv, TypeOK, vars
  <1>2. \A r \in Reqs : Checked(job[r], copy[r]) => Checked(job[r], copy[r])'
    BY DEF vars, Checked, MayCreate, MayEdit, Present, MaySetMask, MayChangeDomains, MayGrant, Touched,
           Held, EditedGroups, CatalogOps
  <1>3. Ready' /\ Fresh'
    BY <1>2 DEF Inv, vars, Ready, Fresh, ReadyOf, FreshOf, Busy, Live, Present
  <1> QED
    BY <1>1, <1>3 DEF Inv

LEMMA InvNext ==
    ASSUME Inv, [Next]_vars
    PROVE  Inv'
  <1>1. ASSUME NEW r \in Reqs, Step(r)
        PROVE  Inv'
    BY <1>1, CreateInv, EditInv, BlockInv, DropDomainInv, ReadCloneInv, CopyToInv, CopyEndsInv, CatalogsInv,
       ReadSchemasInv, WriteSchemasInv, TupleInv, UndoInv DEF Step
  <1> QED
    BY <1>1, InvStutter DEF Next, Done

LEMMA Invariance == Spec => []Inv
  BY InvInit, InvNext, PTL DEF Spec

\* Every document, tuple, step and copy has its type: what creates, edits, clones
\* and undone schema changes compute are documents again, whatever was read.
THEOREM TypeCorrect == Spec => []TypeOK
  <1>1. Inv => TypeOK
    BY DEF Inv
  <1> QED
    BY <1>1, Invariance, PTL
-----------------------------------------------------------------------------
(* What a write changes. *)

LEMMA PutChanges ==
    ASSUME Inv, NEW r \in Reqs, NEW u \in Users, NEW D, Put(r, u, D)
    PROVE  doc'[u] = D /\ \A v \in Users \ {u} : doc'[v] = doc[v]
  BY DEF Inv, TypeOK, Put

LEMMA FinishWrites ==
    ASSUME Inv, NEW r \in Reqs, NEW D, Finish(r, D), pc[r] # "done"
    PROVE  /\ doc'[job[r].u] = D /\ \A v \in Users \ {job[r].u} : doc'[v] = doc[v]
           /\ Wrote(r)
  <1>1. Put(r, job[r].u, D) /\ pc'[r] = "done" /\ job[r].u \in Users
    BY JobTyped DEF Inv, TypeOK, Finish, Goto
  <1> QED
    BY <1>1, PutChanges DEF Wrote

\* A write that gives a user what was taken away.
GivesBack(D, E) ==
    \/ Blocked(D) /\ ~Blocked(E)
    \/ D # NoDoc /\ ~Present(D) /\ Present(E)

\* Who may do that.
Excused(r, u) ==
    /\ Wrote(r) \/ pc[r] = "undo"
    /\ missed[r] # {} \/ (job[r].op \in {"create", "clone"} /\ ~Live(u))

Returns(r) == \A u \in Users : GivesBack(doc[u], doc'[u]) => Excused(r, u)

LEMMA SameReturns ==
    ASSUME UNCHANGED doc
    PROVE  \A r \in Reqs : Returns(r)
  BY DEF Returns, GivesBack, Blocked, Present

LEMMA WriteReturns ==
    ASSUME Inv, NEW r \in Reqs, NEW E, Finish(r, E), pc[r] # "done",
           GivesBack(doc[job[r].u], E) =>
               missed[r] # {} \/ (job[r].op \in {"create", "clone"} /\ ~Live(job[r].u))
    PROVE  Returns(r)
  <1>1. \A v \in Users \ {job[r].u} : ~GivesBack(doc[v], doc'[v])
    BY FinishWrites DEF GivesBack, Blocked, Present
  <1> QED
    BY <1>1, FinishWrites DEF Returns, Excused

LEMMA KeptReturns ==
    ASSUME NEW D \in Docs, NEW E \in Docs, E.attrs.blocked = D.attrs.blocked \/ E.attrs.blocked = TRUE,
           Present(E) => Present(D)
    PROVE  ~GivesBack(D, E)
  BY UsersAssumption, Zenon DEF GivesBack, Blocked

LEMMA CreateReturns ==
    ASSUME Inv, NEW r \in Reqs, WriteCreate(r)
    PROVE  Returns(r)
  <1>1. pc[r] = "write" /\ job[r].op = "create" /\ FreshOf(r) /\ Checked(job[r], copy[r])
    BY WriterTyped DEF WriteCreate, Busy, Inv, Fresh
  <1>2. missed[r] = {} => ~Live(job[r].u)
    BY <1>1 DEF FreshOf, Checked, Live
  <1>3. ASSUME NEW E, Finish(r, E)
        PROVE  Returns(r)
    BY <1>1, <1>2, <1>3, WriteReturns
  <1>4. CASE Refuse(r)
    BY <1>4, SameReturns DEF Refuse, NoPut
  <1> QED
    BY <1>3, <1>4 DEF WriteCreate

LEMMA EditReturns ==
    ASSUME Inv, NEW r \in Reqs, WriteEdit(r)
    PROVE  Returns(r)
  <1> DEFINE D == doc[job[r].u]
             E == Edited(job[r], copy[r], D)
  <1>1. pc[r] = "write" /\ job[r].op = "edit" /\ Finish(r, E)
    BY DEF WriteEdit
  <1>2. job[r] \in Jobs /\ copy[r] \in Docs /\ D \in Docs /\ Present(copy[r]) /\ FreshOf(r)
    BY <1>1, WriterTyped DEF Busy, Checked, Inv, Fresh
  <1>3. E \in Docs /\ E.attrs = EditedAttributes(job[r], copy[r].attrs)
    BY <1>2, EditedType DEF Edited
  <1>4. E.attrs.blocked = copy[r].attrs.blocked
    BY <1>2, <1>3, DocFields DEF EditedAttributes, Attributes
  <1>5. missed[r] = {} => ~GivesBack(D, E)
    BY <1>1, <1>2, <1>3, <1>4, KeptReturns DEF FreshOf
  <1> QED
    BY <1>1, <1>5, WriteReturns

LEMMA BlockReturns ==
    ASSUME Inv, NEW r \in Reqs, WriteBlock(r)
    PROVE  Returns(r)
  <1> DEFINE D == doc[job[r].u]
             E == [D EXCEPT !.attrs = [copy[r].attrs EXCEPT !.blocked = TRUE]]
  <1>1. pc[r] = "write" /\ Finish(r, E) /\ copy[r] \in Docs /\ D \in Docs
    BY WriterTyped DEF WriteBlock, Busy, Checked
  <1>2. E \in Docs /\ E.attrs.blocked = TRUE /\ E.lake = D.lake
    BY <1>1 DEF Docs, Attributes
  <1>3. ~GivesBack(D, E)
    BY <1>1, <1>2, KeptReturns, UsersAssumption DEF Present
  <1> QED
    BY <1>1, <1>3, WriteReturns

LEMMA DeleteReturns ==
    ASSUME Inv, NEW r \in Reqs, Delete(r)
    PROVE  Returns(r)
  <1> DEFINE D == doc[job[r].u]
             E == [D EXCEPT !.lake = Absent]
  <1>1. CASE Refuse(r)
    BY <1>1, SameReturns DEF Refuse, NoPut
  <1>2. CASE D # NoDoc /\ Finish(r, E)
    <2>1. pc[r] = "new" /\ D \in Docs
      BY <1>2, JobTyped DEF Delete, Asked, Inv, TypeOK
    <2>2. E \in Docs /\ E.attrs = D.attrs /\ ~Present(E)
      BY <2>1 DEF Docs, Present
    <2>3. ~GivesBack(D, E)
      BY <2>1, <2>2, KeptReturns
    <2> QED
      BY <1>2, <2>1, <2>3, WriteReturns
  <1> QED
    BY <1>1, <1>2 DEF Delete

LEMMA DropDomainReturns ==
    ASSUME Inv, NEW r \in Reqs, WriteDropDomain(r)
    PROVE  Returns(r)
  <1> DEFINE D == doc[job[r].u]
             E == Reduced(job[r], copy[r], D)
  <1>1. /\ pc[r] = "write" /\ Finish(r, E)
        /\ job[r] \in Jobs /\ copy[r] \in Docs /\ D \in Docs
    BY WriterTyped DEF WriteDropDomain, Busy, Checked
  <1>2. E \in Docs /\ E.attrs = D.attrs /\ E.lake = D.lake
    BY <1>1, ReducedType DEF Reduced, Docs
  <1>3. ~GivesBack(D, E)
    BY <1>1, <1>2, KeptReturns, UsersAssumption DEF Present
  <1> QED
    BY <1>1, <1>3, WriteReturns

LEMMA CatalogsReturns ==
    ASSUME Inv, NEW r \in Reqs, WriteCatalogs(r)
    PROVE  Returns(r)
  <1> DEFINE D == doc[job[r].u]
             E == [D EXCEPT !.lake = copy[r].lake, !.cats = NewCatalogs(job[r], copy[r].cats)]
  <1>1. pc[r] = "write" /\ Finish(r, E) /\ copy[r] \in Docs /\ D \in Docs /\ FreshOf(r)
    BY WriterTyped DEF WriteCatalogs, Busy, Checked, Inv, Fresh
  <1>2. E \in Docs /\ E.attrs = D.attrs /\ E.lake = copy[r].lake
    BY <1>1, CatalogsWritten DEF Docs
  <1>3. missed[r] = {} => ~GivesBack(D, E)
    BY <1>1, <1>2, KeptReturns, UsersAssumption DEF FreshOf, Present
  <1> QED
    BY <1>1, <1>3, WriteReturns

LEMMA SchemasReturns ==
    ASSUME Inv, NEW r \in Reqs, WriteSchemas(r) \/ Undo(r)
    PROVE  Returns(r)
  <1> DEFINE u == job[r].u
  <1>1. PICK lake :
            /\ doc'[u] = [doc[u] EXCEPT !.lake = lake] /\ \A v \in Users \ {u} : doc'[v] = doc[v]
            /\ Wrote(r) \/ pc[r] = "undo"
    <2>1. CASE WriteSchemas(r)
      <3>1. u \in Users /\ pc'[r] = "tuple" /\ pc[r] = "write"
        BY <2>1, JobTyped DEF WriteSchemas, Goto, Inv, TypeOK
      <3>2. PICK lake : doc' = [doc EXCEPT ![u] = [doc[u] EXCEPT !.lake = lake]]
        BY <2>1 DEF WriteSchemas, Put
      <3> QED
        BY <3>1, <3>2 DEF Wrote, Inv, TypeOK
    <2>2. CASE Undo(r)
      BY <2>2, UndoWrites DEF Undo, Inv, TypeOK
    <2> QED
      BY <2>1, <2>2
  <1>2. /\ doc[u] \in Docs /\ FreshOf(r) /\ Checked(job[r], copy[r])
        /\ pc[r] = "undo" \/ (pc[r] = "write" /\ job[r].op \in {"give", "revoke"})
    BY WriterTyped DEF WriteSchemas, Undo, Busy, Checked, Inv, Fresh, Ready, ReadyOf
  <1>3. missed[r] = {} => Live(u)
    BY <1>2 DEF FreshOf, Checked, Live
  <1>4. doc'[u].attrs = doc[u].attrs /\ doc'[u] # NoDoc
    <2>1. doc'[u].attrs = doc[u].attrs
      BY <1>1, <1>2 DEF Docs
    <2>2. Inv' /\ u \in Users /\ job'[r] = job[r]
      BY WriteSchemasInv, UndoInv, JobTyped DEF WriteSchemas, Undo, Inv
    <2>3. doc'[u] # NoDoc
      <3>1. CASE Undo(r)
        <4>1. PICK E \in Docs : doc' = [doc EXCEPT ![u] = E]
          BY <3>1, UndoWrites
        <4> QED
          BY <2>2, <4>1, UsersAssumption DEF Inv, TypeOK
      <3>2. CASE WriteSchemas(r)
        BY <3>2, <2>2, UsersAssumption, <1>2 DEF WriteSchemas, Goto, Inv, Ready, ReadyOf, Busy, TypeOK, Checked
      <3> QED
        BY <3>1, <3>2
    <2> QED
      BY <2>1, <2>3
  <1>5. missed[r] = {} => ~GivesBack(doc[u], doc'[u])
    BY <1>3, <1>4 DEF GivesBack, Blocked, Live
  <1> QED
    BY <1>1, <1>5 DEF Returns, Excused, GivesBack, Blocked, Present

LEMMA CopyReturns ==
    ASSUME Inv, NEW r \in Reqs, NEW v \in Users, CopyTo(r, v)
    PROVE  Returns(r)
  <1>1. /\ pc[r] = "copy" /\ v \in todo[r] /\ job[r].op = "clone" /\ FreshOf(r)
        /\ \A u \in Users \ {v} : doc'[u] = doc[u]
    BY PutChanges DEF CopyTo, Inv, Ready, ReadyOf, Fresh
  <1>2. todo'[r] # todo[r]
    BY <1>1 DEF CopyTo, Inv, TypeOK
  <1>3. missed[r] = {} => ~Live(v)
    BY <1>1 DEF FreshOf
  <1> QED
    BY <1>1, <1>2, <1>3 DEF Returns, Excused, Wrote, GivesBack, Blocked, Present

LEMMA StepReturns ==
    ASSUME Inv, NEW r \in Reqs, Step(r)
    PROVE  Returns(r)
  <1>1. CASE UNCHANGED doc
    BY <1>1, SameReturns
  <1>2. ASSUME doc' # doc
        PROVE  \/ WriteCreate(r) \/ WriteEdit(r) \/ WriteBlock(r) \/ Delete(r) \/ WriteDropDomain(r)
               \/ WriteCatalogs(r) \/ WriteSchemas(r) \/ Undo(r) \/ \E v \in Users : CopyTo(r, v)
    BY <1>2, Zenon DEF Step, ReadCreate, ReadEdit, ReadBlock, ReadDropDomain, ReadClone, CopyFails,
       Audit, ReadCatalogs, ReadSchemas, WriteTuple, TupleFails, Refuse, Take, EndProcess, NoPut
  <1> QED
    BY <1>1, <1>2, CreateReturns, EditReturns, BlockReturns, DeleteReturns, DropDomainReturns,
       CatalogsReturns, SchemasReturns, CopyReturns

\* A blocked user is unblocked and a deleted one gets the data lake back only by a
\* create or a clone that found no live user, or by a request that had missed a
\* write: every other write keeps blocked as it is and the lake away, because what
\* the request read is what there is.
THEOREM RevokedStayRevoked == Spec => RevocationHolds
  <1> DEFINE A == \A u \in Users :
                     \/ Blocked(doc[u]) /\ ~Blocked(doc'[u])
                     \/ doc[u] # NoDoc /\ ~Live(u) /\ Present(doc'[u])
                     => \E r \in Reqs :
                           /\ Wrote(r) \/ pc[r] = "undo"
                           /\ \/ job[r].op \in {"create", "clone"} /\ ~Live(u)
                              \/ missed[r] # {}
  <1>1. ASSUME Inv, [Next]_vars
        PROVE  A
    <2>1. ASSUME NEW r \in Reqs, Step(r)
          PROVE  A
      BY <1>1, <2>1, StepReturns DEF Returns, GivesBack, Excused, Live
    <2>2. CASE UNCHANGED doc
      BY <2>2 DEF Blocked, Live, Present
    <2> QED
      BY <1>1, <2>1, <2>2 DEF Next, Done, vars
  <1>2. Inv /\ [Next]_vars => [A]_vars
    BY <1>1
  <1> QED
    BY <1>2, Invariance, PTL DEF Spec, RevocationHolds

\* A step moves the request that takes it; another one it can only end.
LEMMA OnlyOwnMoves ==
    ASSUME TypeOK, NEW q \in Reqs, Step(q), NEW r \in Reqs \ {q}
    PROVE  ~Wrote(r)
  <1>1. ASSUME NEW step, Goto(q, step) \/ pc' = Ended(q, step)
        PROVE  pc'[r] \in {pc[r], "gone"}
    BY <1>1 DEF TypeOK, Goto, Ended
  <1>2. /\ (\E step : Goto(q, step) \/ pc' = Ended(q, step))
        /\ todo' = todo \/ (\E s : todo' = [todo EXCEPT ![q] = s])
    BY Zenon DEF Step, ReadCreate, WriteCreate, ReadEdit, WriteEdit, ReadBlock, WriteBlock, Delete,
       ReadDropDomain, WriteDropDomain, ReadClone, CopyTo, CopyFails, Audit, ReadCatalogs, WriteCatalogs, ReadSchemas,
       WriteSchemas, WriteTuple, TupleFails, Undo, Refuse, Take, EndProcess, Finish
  <1>3. todo'[r] = todo[r]
    BY <1>2 DEF TypeOK
  <1> QED
    BY <1>1, <1>2, <1>3 DEF Wrote

\* What an API user's edit writes of an entry that a person changed last.
LEMMA LockedStays ==
    ASSUME NEW a \in Actors
    PROVE  /\ \A old \in DomainEntries, new \in {Absent} \cup SUBSET Classes :
                 Locked(a, old) => StampDomain(a, old, FinalDomain(a, old, new)) = old
           /\ \A old \in TableEntries, new \in Contents :
                 Locked(a, old) => StampTable(a, old, FinalTable(a, old, new)) = old
           /\ \A old \in TableEntries : StampTable(a, old, FinalTable(a, old, Absent)) = Absent
  <1>1. ASSUME NEW old \in DomainEntries, NEW new \in {Absent} \cup SUBSET Classes, Locked(a, old)
        PROVE  StampDomain(a, old, FinalDomain(a, old, new)) = old
    <2>1. old # Absent /\ old.cls # Absent /\ old = [cls |-> old.cls, by |-> old.by]
      BY UsersAssumption DEF DomainEntries
    <2>2. FinalDomain(a, old, new) = old.cls /\ Held(old) = old.cls
      BY <1>1, <2>1 DEF FinalDomain, Held
    <2> QED
      BY <2>1, <2>2 DEF StampDomain
  <1>2. ASSUME NEW old \in TableEntries, NEW new \in Contents, Locked(a, old)
        PROVE  StampTable(a, old, FinalTable(a, old, new)) = old
    <2>1. /\ old # Absent /\ new # Absent /\ old.rows # Absent
          /\ old = [rows |-> old.rows, by |-> old.by]
      BY UsersAssumption DEF TableEntries
    <2>2. FinalTable(a, old, new) = old.rows /\ Rows(old) = old.rows
      BY <1>2, <2>1 DEF FinalTable, Rows
    <2> QED
      BY <2>1, <2>2 DEF StampTable
  <1>3. \A old \in TableEntries : StampTable(a, old, FinalTable(a, old, Absent)) = Absent
    BY DEF FinalTable, StampTable
  <1> QED
    BY <1>1, <1>2, <1>3

LEMMA EditYields ==
    ASSUME Inv, NEW r \in Reqs, WriteEdit(r), missed[r] = {}, job[r].by \in ApiActors
    PROVE  LET D == doc[job[r].u]
               E == doc'[job[r].u]
           IN /\ \A d \in Domains : HasDomain(D, d) /\ Locked(job[r].by, D.domains[d])
                                        => E.domains[d] = D.domains[d]
              /\ \A t \in Tables :
                    D.tables[t] # Absent /\ E.tables[t] # Absent /\ Locked(job[r].by, D.tables[t])
                        => E.tables[t] = D.tables[t]
  <1> DEFINE j == job[r]
             D == doc[job[r].u]
             E == doc'[job[r].u]
  <1>1. /\ pc[r] = "write" /\ j \in Jobs /\ D \in Docs /\ copy[r] = D
        /\ E = Edited(j, D, D)
    <2>1. pc[r] = "write" /\ Finish(r, Edited(j, copy[r], D)) /\ FreshOf(r) /\ j.op = "edit"
      BY DEF WriteEdit, Inv, Fresh
    <2> QED
      BY <2>1, WriterTyped, FinishWrites DEF Busy, Checked, FreshOf
  <1>2. E.domains = EditedDomains(j, D) /\ E.tables = EditedTables(j, D)
    BY <1>1 DEF Edited
  <1>3. /\ j.by \in Actors /\ j.body.domains \in [Domains -> {Absent} \cup SUBSET Classes]
        /\ j.body.tables \in [Tables -> Contents \cup {Absent}]
        /\ D.domains \in [Domains -> DomainEntries \cup {Absent}]
        /\ D.tables \in [Tables -> TableEntries \cup {Absent}]
    BY <1>1, JobFields, BodyFields, DocFields
  <1>4. ASSUME NEW d \in Domains, HasDomain(D, d), Locked(j.by, D.domains[d])
        PROVE  E.domains[d] = D.domains[d]
    <2>1. E.domains[d] = StampDomain(j.by, D.domains[d], FinalDomain(j.by, D.domains[d], j.body.domains[d]))
      BY <1>2 DEF EditedDomains
    <2>2. D.domains[d] \in DomainEntries /\ j.body.domains[d] \in {Absent} \cup SUBSET Classes
      BY <1>3, <1>4 DEF HasDomain
    <2> QED
      BY <1>3, <1>4, <2>1, <2>2, LockedStays
  <1>5. ASSUME NEW t \in Tables, D.tables[t] # Absent, E.tables[t] # Absent, Locked(j.by, D.tables[t])
        PROVE  E.tables[t] = D.tables[t]
    <2>1. E.tables[t] = StampTable(j.by, D.tables[t], FinalTable(j.by, D.tables[t], j.body.tables[t]))
      BY <1>2 DEF EditedTables
    <2>2. D.tables[t] \in TableEntries /\ j.body.tables[t] \in Contents \cup {Absent}
      BY <1>3, <1>5
    <2>3. j.body.tables[t] # Absent
      BY <1>3, <1>5, <2>1, <2>2, LockedStays
    <2> QED
      BY <1>3, <1>5, <2>1, <2>2, <2>3, LockedStays
  <1> QED
    BY <1>4, <1>5

\* An API user's edit that missed no write leaves what a person changed last as it
\* is: the entries it is split by are those it writes over.
THEOREM ApiEditsYield == Spec => ApiUsersYield
  <1> DEFINE A(r) ==
          Wrote(r) /\ missed[r] = {} /\ job[r].op = "edit" /\ job[r].by \in ApiActors /\ pc[r] = "write" =>
          LET D == doc[job[r].u]
              E == doc'[job[r].u]
          IN /\ \A d \in Domains : HasDomain(D, d) /\ Locked(job[r].by, D.domains[d])
                                       => E.domains[d] = D.domains[d]
             /\ \A t \in Tables :
                   D.tables[t] # Absent /\ E.tables[t] # Absent /\ Locked(job[r].by, D.tables[t])
                       => E.tables[t] = D.tables[t]
  <1>1. ASSUME Inv, NEW q \in Reqs, Step(q), NEW r \in Reqs
        PROVE  A(r)
    <2>1. CASE r # q
      BY <1>1, <2>1, OnlyOwnMoves DEF Inv
    <2>2. CASE r = q
      <3>1. pc[r] = "write" /\ job[r].op = "edit" => WriteEdit(r)
        BY <1>1, <2>2 DEF Step, ReadCreate, WriteCreate, ReadEdit, ReadBlock, WriteBlock, Delete,
           ReadDropDomain, WriteDropDomain, ReadClone, CopyTo, CopyFails, Audit, ReadCatalogs, WriteCatalogs,
           ReadSchemas, WriteSchemas, WriteTuple, TupleFails, Undo, Asked, CatalogOps
      <3> QED
        BY <1>1, <3>1, EditYields
    <2> QED
      BY <2>1, <2>2
  <1>2. ASSUME UNCHANGED vars, NEW r \in Reqs
        PROVE  A(r)
    BY <1>2 DEF vars, Wrote
  <1>3. Inv /\ [Next]_vars => [\A r \in Reqs : A(r)]_vars
    BY <1>1, <1>2 DEF Next, Done
  <1> QED
    BY <1>3, Invariance, PTL DEF Spec, ApiUsersYield
-----------------------------------------------------------------------------
(* What a write may change. *)

DomainWithin(a, D, E, d) ==
    /\ MayGrant(a, d, ClassesOf(E, d) \ ClassesOf(D, d)) \/ ClassesOf(E, d) \subseteq ClassesOf(D, d)
    /\ HasDomain(E, d) /\ ~HasDomain(D, d) => d \in MayManage[a]
    /\ Present(D) /\ HasDomain(D, d) /\ ~HasDomain(E, d) => d \in MayManage[a]
    /\ Present(D) /\ HasDomain(E, d)
          => \/ ClassesOf(D, d) \subseteq ClassesOf(E, d)
             \/ MayGrant(a, d, ClassesOf(D, d) \ ClassesOf(E, d))

\* The domain has the same classifications before and after, or none.
LEMMA SameDomainWithin ==
    ASSUME NEW a, NEW D, NEW E, NEW d,
           ClassesOf(E, d) = ClassesOf(D, d), HasDomain(E, d) <=> HasDomain(D, d)
    PROVE  DomainWithin(a, D, E, d)
  BY DEF DomainWithin

LEMMA LostDomainWithin ==
    ASSUME NEW a, NEW D, NEW E, NEW d, ~HasDomain(E, d), Present(D) => d \in MayManage[a]
    PROVE  DomainWithin(a, D, E, d)
  BY DEF DomainWithin, HasDomain, ClassesOf

LEMMA NewDomainWithin ==
    ASSUME NEW a, NEW D, NEW E, NEW d, HasDomain(E, d), ~Present(D), MayGrant(a, d, ClassesOf(E, d))
    PROVE  DomainWithin(a, D, E, d)
  BY DEF DomainWithin, MayGrant

LEMMA WithinParts ==
    ASSUME NEW a, NEW D, NEW E,
           \A d \in Domains : DomainWithin(a, D, E, d),
           GroupsOf(E) \ GroupsOf(D) \subseteq MayEnrol[a],
           Present(D) => GroupsOf(D) \ GroupsOf(E) \subseteq MayEnrol[a],
           PopOf(E) \subseteq PopOf(D) \/ a \in MayPop,
           Present(D) /\ PopOf(E) # PopOf(D) => a \in MayPop,
           ReadsAll(E) /\ ~ReadsAll(D) => a \in Admins,
           Present(D) /\ E.attrs.mask # D.attrs.mask /\ a \notin ApiActors => MaySetMask(a, E.domains)
    PROVE  Within(a, D, E)
  BY Zenon DEF Within, DomainWithin

\* Blocking, deleting, and all that is about the catalogs.
LEMMA SameWithin ==
    ASSUME NEW a, NEW D \in Docs, NEW E \in Docs, E.domains = D.domains, E.groups = D.groups,
           E.attrs.pop = D.attrs.pop, E.attrs.mask = D.attrs.mask, ReadsAll(E) => ReadsAll(D)
    PROVE  Within(a, D, E)
  <1>1. D # NoDoc /\ E # NoDoc
    BY UsersAssumption
  <1>2. \A d \in Domains : DomainWithin(a, D, E, d)
    BY <1>1, SameDomainWithin DEF ClassesOf, HasDomain
  <1>3. GroupsOf(E) = GroupsOf(D) /\ PopOf(E) = PopOf(D)
    BY <1>1 DEF GroupsOf, PopOf
  <1> QED
    BY <1>2, <1>3, WithinParts

LEMMA CreatedWithin ==
    ASSUME NEW j \in Jobs, MayCreate(j), NEW cats \in SUBSET Catalogs, NEW D, ~Present(D)
    PROVE  Within(j.by, D, Created(j, cats))
  <1> DEFINE E == Created(j, cats)
             new == j.body.domains
  <1>1. E # NoDoc /\ j.by \in Actors /\ new \in [Domains -> {Absent} \cup SUBSET Classes]
    BY CreatedType, DocFields, JobFields, BodyFields
  <1>2. ASSUME NEW d \in Domains
        PROVE  DomainWithin(j.by, D, E, d)
    <2>1. E.domains[d] = StampDomain(j.by, Absent, new[d])
      BY DEF Created
    <2>2. CASE new[d] = Absent
      <3>1. ~HasDomain(E, d)
        BY <2>1, <2>2 DEF HasDomain, StampDomain
      <3> QED
        BY <3>1, LostDomainWithin
    <2>3. CASE new[d] # Absent
      <3>1. MayGrant(j.by, d, new[d])
        BY <2>3 DEF MayCreate, MayChangeDomains, Touched
      <3>2. E.domains[d].cls = new[d] /\ E.domains[d] # Absent
        <4>1. E.domains[d] \in DomainEntries \cup {Absent}
          BY CreatedType, DocFields
        <4>2. E.domains[d] = [cls |-> new[d], by |-> IF Held(Absent) = new[d] THEN Absent.by ELSE j.by]
          BY <2>1, <2>3 DEF StampDomain
        <4>3. Held(Absent) # new[d]
          BY <2>3 DEF Held
        <4>4. E.domains[d] = [cls |-> new[d], by |-> j.by]
          BY <4>2, <4>3
        <4>5. E.domains[d] \in DomainEntries
          BY <1>1, <2>3, <4>4 DEF DomainEntries
        <4> QED
          BY <4>4, <4>5, UsersAssumption
      <3> QED
        BY <1>1, <3>1, <3>2, NewDomainWithin DEF HasDomain, ClassesOf
    <2> QED
      BY <2>2, <2>3
  <1>3. /\ E.groups = j.body.groups /\ E.attrs.pop = NewPop(j, {})
        /\ E.lake.all = (j.body.all = "on")
    BY Zenon DEF Created, DefaultLake
  <1>4. GroupsOf(E) \subseteq MayEnrol[j.by]
    BY <1>1, <1>3 DEF GroupsOf, MayCreate
  <1>5. PopOf(E) = {} \/ j.by \in MayPop
    BY <1>1, <1>3 DEF PopOf, NewPop
  <1>6. ReadsAll(E) => j.by \in Admins
    BY <1>3 DEF ReadsAll, MayCreate
  <1> QED
    BY <1>2, <1>4, <1>5, <1>6, WithinParts

LEMMA ClonedWithin ==
    ASSUME NEW j \in Jobs, NEW old \in Docs, NEW D \in Docs \cup {NoDoc}, ~Present(D)
    PROVE  Within(j.by, D, Cloned(j, old, D))
  <1> DEFINE E == Cloned(j, old, D)
  <1>1. E \in Docs /\ E # NoDoc /\ j.by \in Actors
    BY ClonedType, DocFields, JobFields
  <1>2. ASSUME NEW d \in Domains
        PROVE  DomainWithin(j.by, D, E, d)
    <2>1. CASE ~MayCopy(j.by, old, d)
      <3>1. ~HasDomain(E, d)
        BY <2>1 DEF HasDomain, Cloned
      <3> QED
        BY <3>1, LostDomainWithin
    <2>2. CASE MayCopy(j.by, old, d)
      <3>1. old.domains[d].cls \in SUBSET Classes /\ MayGrant(j.by, d, old.domains[d].cls)
        BY <2>2, DocFields DEF MayCopy, DomainEntries
      <3>2. E.domains[d] = [cls |-> old.domains[d].cls, by |-> j.by]
        BY <2>2, <3>1, UsersAssumption DEF Cloned, StampDomain, Held
      <3>3. E.domains[d] \in DomainEntries
        BY <1>1, <3>1, <3>2 DEF DomainEntries
      <3>4. HasDomain(E, d) /\ ClassesOf(E, d) = old.domains[d].cls
        BY <1>1, <3>2, <3>3, UsersAssumption DEF HasDomain, ClassesOf
      <3> QED
        BY <3>1, <3>4, NewDomainWithin
    <2> QED
      BY <2>1, <2>2
  <1>3. E.groups = {} /\ E.attrs.pop = {} /\ E.lake.all = FALSE
    BY DEF Cloned, DefaultAttributes, DefaultLake
  <1>4. GroupsOf(E) = {} /\ PopOf(E) = {} /\ ~ReadsAll(E)
    BY <1>3 DEF GroupsOf, PopOf, ReadsAll
  <1> QED
    BY <1>2, <1>4, WithinParts

LEMMA ReducedWithin ==
    ASSUME NEW j \in Jobs, NEW D \in Docs, j.d \in MayManage[j.by]
    PROVE  Within(j.by, D, Reduced(j, D, D))
  <1> DEFINE E == Reduced(j, D, D)
  <1>1. E \in Docs /\ E # NoDoc /\ D # NoDoc
    BY ReducedType, UsersAssumption
  <1>2. E.attrs = D.attrs /\ E.lake = D.lake /\ E.groups = D.groups /\ E.domains = Without(D.domains, j.d)
    BY DEF Reduced, Docs
  <1>3. ASSUME NEW d \in Domains
        PROVE  DomainWithin(j.by, D, E, d)
    <2>1. CASE d = j.d
      <3>1. ~HasDomain(E, d)
        BY <1>2, <2>1, DocFields DEF HasDomain, Without
      <3> QED
        BY <2>1, <3>1, LostDomainWithin
    <2>2. CASE d # j.d
      <3>1. E.domains[d] = D.domains[d]
        BY <1>2, <2>2, DocFields DEF Without
      <3> QED
        BY <1>1, <3>1, SameDomainWithin DEF ClassesOf, HasDomain
    <2> QED
      BY <2>1, <2>2
  <1>4. GroupsOf(E) = GroupsOf(D) /\ PopOf(E) = PopOf(D) /\ ReadsAll(E) = ReadsAll(D)
    BY <1>1, <1>2 DEF GroupsOf, PopOf, ReadsAll, Present
  <1> QED
    BY <1>2, <1>3, <1>4, WithinParts

LEMMA EditedDomainWithin ==
    ASSUME NEW j \in Jobs, NEW D \in Docs, Present(D), MayEdit(j, D), NEW d \in Domains
    PROVE  /\ DomainWithin(j.by, D, Edited(j, D, D), d)
           /\ j.by \notin ApiActors /\ Edited(j, D, D).domains[d] # Absent => j.body.domains[d] # Absent
  <1> DEFINE a   == j.by
             E   == Edited(j, D, D)
             old == D.domains[d]
             new == j.body.domains[d]
             fin == FinalDomain(a, old, new)
  <1>1. /\ a \in Actors /\ old \in DomainEntries \cup {Absent} /\ new \in {Absent} \cup SUBSET Classes
        /\ E \in Docs /\ E # NoDoc /\ D # NoDoc
    BY JobFields, BodyFields, DocFields, EditedType
  <1>2. E.domains = EditedDomains(j, D)
    BY Zenon DEF Edited
  <1>3. E.domains[d] = StampDomain(a, old, fin)
    BY <1>2 DEF EditedDomains
  <1>4. fin \in {Absent} \cup SUBSET Classes
    BY <1>1, FinalTypes
  <1>5. old # Absent => Held(old) = old.cls /\ old.cls \in SUBSET Classes
    BY <1>1 DEF Held, DomainEntries
  <1>6. /\ fin = Absent => ~HasDomain(E, d) /\ ClassesOf(E, d) = {}
        /\ fin # Absent => HasDomain(E, d) /\ ClassesOf(E, d) = fin
    <2>1. CASE fin = Absent
      BY <1>3, <2>1 DEF StampDomain, HasDomain, ClassesOf
    <2>2. CASE fin # Absent
      <3> DEFINE who == IF Held(old) = fin THEN old.by ELSE a
      <3>1. E.domains[d] = [cls |-> fin, by |-> who]
        BY <1>3, <2>2 DEF StampDomain
      <3>2. who \in Actors \cup {Nobody}
        BY <1>1, <2>2 DEF Held, DomainEntries
      <3>3. E.domains[d] \in DomainEntries
        BY <1>4, <2>2, <3>1, <3>2 DEF DomainEntries
      <3> QED
        BY <1>1, <2>2, <3>1, <3>3, UsersAssumption DEF HasDomain, ClassesOf
    <2> QED
      BY <2>1, <2>2
  <1>7. /\ old = Absent => ~HasDomain(D, d) /\ ClassesOf(D, d) = {}
        /\ old # Absent => HasDomain(D, d) /\ ClassesOf(D, d) = old.cls
    BY <1>1 DEF HasDomain, ClassesOf
  <1>8. fin = new \/ (old # Absent /\ fin = old.cls /\ Locked(a, old))
    BY DEF FinalDomain
  <1>9. Held(old) # new => MayGrant(a, d, Touched(Held(old), new))
    BY DEF MayEdit, MayChangeDomains
  <1>10. DomainWithin(a, D, E, d)
    <2>1. CASE Held(old) = fin
      <3>1. ClassesOf(E, d) = ClassesOf(D, d) /\ (HasDomain(E, d) <=> HasDomain(D, d))
        <4>1. CASE old = Absent
          BY <2>1, <4>1, <1>6, <1>7 DEF Held
        <4>2. CASE old # Absent
          BY <2>1, <4>2, <1>5, <1>6, <1>7, UsersAssumption
        <4> QED
          BY <4>1, <4>2
      <3> QED
        BY <3>1, SameDomainWithin
    <2>2. CASE Held(old) # fin
      <3>1. fin = new /\ MayGrant(a, d, Touched(Held(old), new))
        BY <2>2, <1>5, <1>8, <1>9
      <3>2. CASE new = Absent
        BY <3>1, <3>2, <1>6, LostDomainWithin DEF MayGrant
      <3>3. CASE new # Absent /\ old = Absent
        <4>1. Touched(Held(old), new) = new
          BY <3>3 DEF Touched, Held
        <4> QED
          BY <3>1, <3>3, <4>1, <1>6, <1>7 DEF DomainWithin, MayGrant
      <3>4. CASE new # Absent /\ old # Absent
        <4>1. Touched(Held(old), new) = (old.cls \ new) \cup (new \ old.cls)
          BY <3>4, <1>5, UsersAssumption DEF Touched
        <4> QED
          BY <3>1, <3>4, <4>1, <1>6, <1>7 DEF DomainWithin, MayGrant
      <3> QED
        BY <3>2, <3>3, <3>4
    <2> QED
      BY <2>1, <2>2
  <1>11. a \notin ApiActors /\ E.domains[d] # Absent => new # Absent
    BY <1>3, <1>8 DEF Locked, StampDomain
  <1> QED
    BY <1>10, <1>11

LEMMA EditedWithin ==
    ASSUME NEW j \in Jobs, NEW D \in Docs, Present(D), MayEdit(j, D)
    PROVE  Within(j.by, D, Edited(j, D, D))
  <1> DEFINE E == Edited(j, D, D)
  <1>1. E \in Docs /\ E # NoDoc /\ D # NoDoc /\ j.body \in Bodies
    BY EditedType, UsersAssumption, JobFields
  <1>2. \A d \in Domains : DomainWithin(j.by, D, E, d)
    BY EditedDomainWithin
  <1>3. E.groups = EditedGroups(j, D) /\ E.attrs = EditedAttributes(j, D.attrs)
    BY Zenon DEF Edited
  <1>4. E.attrs.mask = j.body.mask /\ E.attrs.pop = NewPop(j, D.attrs.pop)
    BY <1>3, DocFields DEF EditedAttributes, Attributes
  <1>5. GroupsOf(E) \ GroupsOf(D) \subseteq MayEnrol[j.by] /\ GroupsOf(D) \ GroupsOf(E) \subseteq MayEnrol[j.by]
    BY <1>1, <1>3 DEF GroupsOf, MayEdit
  <1>6. PopOf(E) = PopOf(D) \/ j.by \in MayPop
    BY <1>1, <1>4 DEF PopOf, NewPop
  <1>7. ReadsAll(E) /\ ~ReadsAll(D) => j.by \in Admins
    <2>1. CASE j.body.all = "keep"
      <3>1. E.lake = D.lake
        BY <2>1, Zenon DEF Edited
      <3> QED
        BY <1>1, <3>1 DEF ReadsAll, Present
    <2>2. CASE j.body.all # "keep"
      <3>1. E.lake = [all |-> j.body.all = "on", schemas |-> D.lake.schemas]
        BY <2>2, Zenon DEF Edited
      <3>2. E.lake.all = (j.body.all = "on")
        <4> DEFINE lake == [all |-> j.body.all = "on", schemas |-> D.lake.schemas]
        <4>1. lake.all = (j.body.all = "on")
          BY Zenon
        <4>2. E.lake = lake
          BY <3>1
        <4> HIDE DEF lake, E
        <4> QED
          BY <4>1, <4>2, Zenon
      <3>3. D.lake.all \in BOOLEAN
        BY DocFields DEF Present, Lakes
      <3>4. ReadsAll(E) => (j.body.all = "on")
        BY <3>2, Zenon DEF ReadsAll
      <3>5. ~ReadsAll(D) => ~D.lake.all
        BY Zenon DEF ReadsAll
      <3>6. ((j.body.all = "on") # D.lake.all) => j.by \in Admins
        BY <2>2, Zenon DEF MayEdit
      <3> QED
        BY <3>3, <3>4, <3>5, <3>6
    <2> QED
      BY <2>1, <2>2
  <1>8. E.attrs.mask # D.attrs.mask /\ j.by \notin ApiActors => MaySetMask(j.by, E.domains)
    <2>1. E.attrs.mask # D.attrs.mask => MaySetMask(j.by, j.body.domains)
      BY <1>4 DEF MayEdit
    <2> QED
      BY <2>1, EditedDomainWithin DEF MaySetMask
  <1> QED
    BY <1>2, <1>5, <1>6, <1>7, <1>8, WithinParts
-----------------------------------------------------------------------------
Permits(r) ==
    missed[r] = {} => \A u \in Users : doc'[u] # doc[u] => Within(job[r].by, doc[u], doc'[u])

LEMMA WritePermits ==
    ASSUME Inv, NEW r \in Reqs, NEW E, Finish(r, E), pc[r] # "done",
           missed[r] = {} => Within(job[r].by, doc[job[r].u], E)
    PROVE  Permits(r)
  BY FinishWrites DEF Permits

LEMMA CreatePermits ==
    ASSUME Inv, NEW r \in Reqs, WriteCreate(r)
    PROVE  Permits(r)
  <1>1. /\ pc[r] = "write" /\ FreshOf(r) /\ job[r] \in Jobs /\ MayCreate(job[r]) /\ ~Present(copy[r])
        /\ copy[r] \in Docs \cup {NoDoc}
    BY WriterTyped DEF WriteCreate, Busy, Checked, Inv, Fresh
  <1>2. missed[r] = {} => ~Present(doc[job[r].u])
    BY <1>1 DEF FreshOf
  <1>3. CASE doc' = doc
    BY <1>3 DEF Permits
  <1>4. ASSUME NEW cats \in SUBSET Catalogs, Finish(r, Created(job[r], cats))
        PROVE  Permits(r)
    BY <1>1, <1>2, <1>4, CreatedWithin, WritePermits
  <1> QED
    BY <1>1, <1>3, <1>4, DocFields DEF WriteCreate, Refuse, NoPut

LEMMA EditPermits ==
    ASSUME Inv, NEW r \in Reqs, WriteEdit(r)
    PROVE  Permits(r)
  <1> DEFINE D == doc[job[r].u]
             E == Edited(job[r], copy[r], D)
  <1>1. pc[r] = "write" /\ job[r].op = "edit" /\ Finish(r, E) /\ FreshOf(r)
    BY DEF WriteEdit, Inv, Fresh
  <1>2. job[r] \in Jobs /\ D \in Docs /\ Present(copy[r]) /\ MayEdit(job[r], copy[r])
    BY <1>1, WriterTyped DEF Busy, Checked
  <1>3. missed[r] = {} => Within(job[r].by, D, E)
    BY <1>1, <1>2, EditedWithin DEF FreshOf
  <1> QED
    BY <1>1, <1>3, WritePermits

LEMMA BlockPermits ==
    ASSUME Inv, NEW r \in Reqs, WriteBlock(r)
    PROVE  Permits(r)
  <1> DEFINE D == doc[job[r].u]
             E == [D EXCEPT !.attrs = [copy[r].attrs EXCEPT !.blocked = TRUE]]
  <1>1. pc[r] = "write" /\ Finish(r, E) /\ copy[r] \in Docs /\ D \in Docs /\ FreshOf(r)
    BY WriterTyped DEF WriteBlock, Busy, Checked, Inv, Fresh
  <1>2. /\ E \in Docs /\ E.domains = D.domains /\ E.groups = D.groups /\ E.lake = D.lake
        /\ E.attrs.pop = copy[r].attrs.pop /\ E.attrs.mask = copy[r].attrs.mask
    BY <1>1 DEF Docs, Attributes
  <1>3. missed[r] = {} => Within(job[r].by, D, E)
    BY <1>1, <1>2, SameWithin, UsersAssumption DEF FreshOf, ReadsAll, Present
  <1> QED
    BY <1>1, <1>3, WritePermits

LEMMA DeletePermits ==
    ASSUME Inv, NEW r \in Reqs, Delete(r)
    PROVE  Permits(r)
  <1> DEFINE D == doc[job[r].u]
             E == [D EXCEPT !.lake = Absent]
  <1>1. CASE Refuse(r)
    BY <1>1 DEF Refuse, NoPut, Permits
  <1>2. CASE D # NoDoc /\ Finish(r, E)
    <2>1. pc[r] = "new" /\ D \in Docs
      BY <1>2, JobTyped DEF Delete, Asked, Inv, TypeOK
    <2>2. /\ E \in Docs /\ E.domains = D.domains /\ E.groups = D.groups /\ E.attrs = D.attrs
          /\ E.lake = Absent
      BY <2>1 DEF Docs
    <2>3. Within(job[r].by, D, E)
      BY <2>1, <2>2, SameWithin DEF ReadsAll, Present
    <2> QED
      BY <1>2, <2>1, <2>3, WritePermits
  <1> QED
    BY <1>1, <1>2 DEF Delete

LEMMA DropDomainPermits ==
    ASSUME Inv, NEW r \in Reqs, WriteDropDomain(r)
    PROVE  Permits(r)
  <1> DEFINE D == doc[job[r].u]
             E == Reduced(job[r], copy[r], D)
  <1>1. /\ pc[r] = "write" /\ Finish(r, E) /\ FreshOf(r)
        /\ job[r] \in Jobs /\ D \in Docs /\ job[r].d \in MayManage[job[r].by]
    BY WriterTyped DEF WriteDropDomain, Busy, Checked, Inv, Fresh
  <1>2. missed[r] = {} => Within(job[r].by, D, E)
    BY <1>1, ReducedWithin DEF FreshOf
  <1> QED
    BY <1>1, <1>2, WritePermits

LEMMA CatalogsPermits ==
    ASSUME Inv, NEW r \in Reqs, WriteCatalogs(r)
    PROVE  Permits(r)
  <1> DEFINE D == doc[job[r].u]
             E == [D EXCEPT !.lake = copy[r].lake, !.cats = NewCatalogs(job[r], copy[r].cats)]
  <1>1. pc[r] = "write" /\ Finish(r, E) /\ copy[r] \in Docs /\ D \in Docs /\ FreshOf(r)
    BY WriterTyped DEF WriteCatalogs, Busy, Checked, Inv, Fresh
  <1>2. /\ E \in Docs /\ E.domains = D.domains /\ E.groups = D.groups /\ E.attrs = D.attrs
        /\ E.lake = copy[r].lake
    BY <1>1, CatalogsWritten DEF Docs
  <1>3. missed[r] = {} => Within(job[r].by, D, E)
    BY <1>1, <1>2, SameWithin, UsersAssumption DEF FreshOf, ReadsAll, Present
  <1> QED
    BY <1>1, <1>3, WritePermits

LEMMA SchemasPermits ==
    ASSUME Inv, NEW r \in Reqs, WriteSchemas(r) \/ Undo(r)
    PROVE  Permits(r)
  <1> DEFINE u == job[r].u
  <1>1. /\ u \in Users /\ doc[u] \in Docs /\ copy[r] \in Docs /\ FreshOf(r)
        /\ job[r] \in Jobs /\ Present(copy[r])
        /\ pc[r] = "undo" \/ (pc[r] = "write" /\ job[r].op \in {"give", "revoke"})
    BY WriterTyped DEF WriteSchemas, Undo, Busy, Checked, Inv, Fresh, Ready, ReadyOf
  <1>2. copy[r].lake \in Lakes /\ job[r].s \in Schemas
    BY <1>1, DocFields, JobFields DEF Present
  <1>3. PICK lake \in Lakes :
            /\ lake.all = copy[r].lake.all
            /\ doc' = [doc EXCEPT ![u] = [doc[u] EXCEPT !.lake = lake]]
    <2>1. CASE WriteSchemas(r)
      <3> DEFINE v    == IF job[r].op = "give" THEN "write" ELSE "read"
                 lake == SetSchema(copy[r].lake, job[r].s, v)
      <3>1. lake \in Lakes /\ lake.all = copy[r].lake.all
        BY <1>2, LakeTypes DEF SetSchema, Lakes
      <3>2. doc' = [doc EXCEPT ![u] = [doc[u] EXCEPT !.lake = lake]]
        BY <2>1 DEF WriteSchemas, Put
      <3> QED
        BY <3>1, <3>2
    <2>2. CASE Undo(r)
      BY <1>2, <2>2, UndoWrites
    <2> QED
      BY <2>1, <2>2
  <1> DEFINE E == [doc[u] EXCEPT !.lake = lake]
  <1>4. /\ E \in Docs /\ E.domains = doc[u].domains /\ E.groups = doc[u].groups
        /\ E.attrs = doc[u].attrs /\ E.lake = lake
    BY <1>1 DEF Docs
  <1>5. missed[r] = {} => Present(doc[u]) /\ doc[u].lake.all = copy[r].lake.all
    BY <1>1 DEF FreshOf, Live
  <1>6. missed[r] = {} /\ ReadsAll(E) => ReadsAll(doc[u])
    BY <1>3, <1>4, <1>5, Zenon DEF ReadsAll
  <1>7. missed[r] = {} => Within(job[r].by, doc[u], E)
    BY <1>1, <1>4, <1>6, SameWithin
  <1>8. doc'[u] = E /\ \A w \in Users \ {u} : doc'[w] = doc[w]
    BY <1>1, <1>3 DEF Inv, TypeOK
  <1> QED
    BY <1>7, <1>8 DEF Permits

LEMMA CopyPermits ==
    ASSUME Inv, NEW r \in Reqs, NEW v \in Users, CopyTo(r, v)
    PROVE  Permits(r)
  <1>1. /\ pc[r] = "copy" /\ v \in todo[r] /\ job[r].op = "clone" /\ FreshOf(r)
        /\ doc'[v] = Cloned(job[r], copy[r], doc[v]) /\ \A u \in Users \ {v} : doc'[u] = doc[u]
    BY PutChanges DEF CopyTo, Inv, Ready, ReadyOf, Fresh
  <1>2. job[r] \in Jobs /\ copy[r] \in Docs /\ doc[v] \in Docs \cup {NoDoc}
    BY <1>1, WriterTyped DEF Busy, Checked, Inv, TypeOK
  <1>3. missed[r] = {} => ~Present(doc[v])
    BY <1>1 DEF FreshOf, Live
  <1> QED
    BY <1>1, <1>2, <1>3, ClonedWithin DEF Permits

LEMMA StepPermits ==
    ASSUME Inv, NEW r \in Reqs, Step(r)
    PROVE  Permits(r)
  <1>1. CASE UNCHANGED doc
    BY <1>1 DEF Permits
  <1>2. ASSUME doc' # doc
        PROVE  \/ WriteCreate(r) \/ WriteEdit(r) \/ WriteBlock(r) \/ Delete(r) \/ WriteDropDomain(r)
               \/ WriteCatalogs(r) \/ WriteSchemas(r) \/ Undo(r) \/ \E v \in Users : CopyTo(r, v)
    BY <1>2, Zenon DEF Step, ReadCreate, ReadEdit, ReadBlock, ReadDropDomain, ReadClone, CopyFails,
       Audit, ReadCatalogs, ReadSchemas, WriteTuple, TupleFails, Refuse, Take, EndProcess, NoPut
  <1> QED
    BY <1>1, <1>2, CreatePermits, EditPermits, BlockPermits, DeletePermits, DropDomainPermits,
       CatalogsPermits, SchemasPermits, CopyPermits

\* A request that missed no write changes of a user's permissions only what its
\* actor may change, in the document as it is when it is written: what was checked
\* is what the request read, and that is what there is.
THEOREM ChangesPermitted == Spec => OnlyPermitted
  <1> DEFINE A(r) == Wrote(r) /\ missed[r] = {} =>
                     \A u \in Users : doc'[u] # doc[u] => Within(job[r].by, doc[u], doc'[u])
  <1>1. ASSUME Inv, NEW q \in Reqs, Step(q), NEW r \in Reqs
        PROVE  A(r)
    <2>1. CASE r # q
      BY <1>1, <2>1, OnlyOwnMoves DEF Inv
    <2>2. CASE r = q
      BY <1>1, <2>2, StepPermits DEF Permits
    <2> QED
      BY <2>1, <2>2
  <1>2. ASSUME UNCHANGED vars, NEW r \in Reqs
        PROVE  A(r)
    BY <1>2 DEF vars, Wrote
  <1>3. Inv /\ [Next]_vars => [\A r \in Reqs : A(r)]_vars
    BY <1>1, <1>2 DEF Next, Done
  <1> QED
    BY <1>3, Invariance, PTL DEF Spec, OnlyPermitted
-----------------------------------------------------------------------------
(* Creates of one user. *)

\* The document of u has been taken out of the data lake.
DeletedBy(u) == \E p \in Reqs : job[p].op = "delete" /\ job[p].u = u /\ pc[p] = "done"

Creates(r, u) == job[r].op = "create" /\ job[r].u = u

\* A user that a create has made is there until it is deleted.
CreatedStay == \A r \in Reqs, u \in Users :
    Creates(r, u) /\ pc[r] = "done" => Live(u) \/ DeletedBy(u)

\* Of a create that is done and one that is done or about to write, one has missed
\* the other.
OneMissed == \A r, q \in Reqs, u \in Users :
    /\ r # q /\ Creates(r, u) /\ Creates(q, u)
    /\ pc[r] = "done" /\ pc[q] \in {"write", "done"}
    => q \in missed[r] \/ r \in missed[q] \/ DeletedBy(u)

\* Only clones are audited without being awaited.
AuditsClones == \A r \in Reqs : pc[r] = "audit" => job[r].op = "clone"

CreatesInv == Inv /\ AuditsClones /\ CreatedStay /\ OneMissed

\* A document that is written over one in the data lake is in it too.
LEMMA WriteKeepsLive ==
    ASSUME Inv, NEW r \in Reqs, NEW E, Finish(r, E), pc[r] # "done",
           Live(job[r].u) => Present(E), NEW u \in Users, Live(u)
    PROVE  Live(u)'
  BY FinishWrites DEF Live, Present

LEMMA CreateKeepsLive ==
    ASSUME Inv, NEW r \in Reqs, WriteCreate(r), NEW u \in Users
    PROVE  /\ Live(u) => Live(u)'
           /\ job[r].u = u /\ pc'[r] = "done" => Live(u)'
  <1>1. /\ job[r] \in Jobs /\ MayCreate(job[r]) /\ pc[r] = "write"
        /\ copy[r] \in Docs \cup {NoDoc}
    BY WriterTyped DEF WriteCreate, Busy, Checked
  <1>2. ASSUME NEW cats \in SUBSET Catalogs
        PROVE  Present(Created(job[r], cats))
    <2>1. Created(job[r], cats) # NoDoc
      BY <1>1, CreatedType, DocFields
    <2>2. Created(job[r], cats).lake = DefaultLake(job[r].body.all = "on")
      BY DEF Created
    <2> QED
      BY <2>1, <2>2, LakeTypes, UsersAssumption DEF Present
  <1>3. CASE Refuse(r)
    BY <1>1, <1>3 DEF Refuse, NoPut, Goto, Live, Present, Inv, TypeOK
  <1>4. ASSUME NEW cats \in SUBSET Catalogs, Finish(r, Created(job[r], cats))
        PROVE  (Live(u) => Live(u)') /\ (job[r].u = u => Live(u)')
    BY <1>1, <1>2, <1>4, WriteKeepsLive, FinishWrites DEF Live, Present
  <1>5. Refuse(r) \/ \E cats \in SUBSET Catalogs : Finish(r, Created(job[r], cats))
    <2>1. copy[r] # NoDoc => copy[r].cats \in SUBSET Catalogs
      BY <1>1, DocFields
    <2> QED
      BY <2>1 DEF WriteCreate
  <1> QED
    BY <1>3, <1>4, <1>5

LEMMA EditKeepsLive ==
    ASSUME Inv, NEW r \in Reqs, WriteEdit(r), NEW u \in Users, Live(u)
    PROVE  Live(u)'
  <1> DEFINE D == doc[job[r].u]
             E == Edited(job[r], copy[r], D)
  <1>1. /\ pc[r] = "write" /\ Finish(r, E)
        /\ job[r] \in Jobs /\ copy[r] \in Docs /\ D \in Docs /\ Present(copy[r])
    BY WriterTyped DEF WriteEdit, Busy, Checked
  <1>2. E \in Docs
    BY <1>1, EditedType
  <1>3. CASE job[r].body.all = "keep"
    BY <1>1, <1>2, <1>3, WriteKeepsLive, DocFields DEF Edited, Live, Present
  <1>4. CASE job[r].body.all # "keep"
    <2> DEFINE lake == [all |-> job[r].body.all = "on", schemas |-> copy[r].lake.schemas]
    <2>1. E.lake = lake
      BY <1>4, Zenon DEF Edited
    <2>2. copy[r].lake.schemas \in [Schemas -> {"none", "read", "write"}]
      BY <1>1, DocFields DEF Present, Lakes
    <2>3. (job[r].body.all = "on") \in BOOLEAN
      OBVIOUS
    <2>4. lake \in Lakes
      BY <2>2, <2>3, Zenon DEF Lakes
    <2> HIDE DEF E, lake
    <2>5. Present(E)
      BY <1>2, <2>1, <2>4, DocFields, UsersAssumption DEF Present
    <2> QED
      BY <1>1, <2>5, WriteKeepsLive DEF E
  <1> QED
    BY <1>3, <1>4

LEMMA OthersKeepLive ==
    ASSUME Inv, NEW r \in Reqs, WriteBlock(r) \/ WriteDropDomain(r) \/ WriteCatalogs(r),
           NEW u \in Users, Live(u)
    PROVE  Live(u)'
  <1> DEFINE D == doc[job[r].u]
  <1>1. pc[r] = "write" /\ job[r] \in Jobs /\ copy[r] \in Docs /\ D \in Docs
    BY WriterTyped DEF WriteBlock, WriteDropDomain, WriteCatalogs, Busy, Checked, CatalogOps
  <1>2. CASE WriteBlock(r)
    <2> DEFINE E == [D EXCEPT !.attrs = [copy[r].attrs EXCEPT !.blocked = TRUE]]
    <2>1. Finish(r, E) /\ E \in Docs /\ E.lake = D.lake
      BY <1>1, <1>2 DEF WriteBlock, Docs, Attributes
    <2> QED
      BY <1>1, <2>1, WriteKeepsLive, DocFields DEF Live, Present
  <1>3. CASE WriteDropDomain(r)
    <2> DEFINE E == Reduced(job[r], copy[r], D)
    <2>1. Finish(r, E) /\ E \in Docs /\ E.lake = D.lake
      BY <1>1, <1>3, ReducedType DEF WriteDropDomain, Reduced, Docs
    <2> QED
      BY <1>1, <2>1, WriteKeepsLive, DocFields DEF Live, Present
  <1>4. CASE WriteCatalogs(r)
    <2> DEFINE E == [D EXCEPT !.lake = copy[r].lake, !.cats = NewCatalogs(job[r], copy[r].cats)]
    <2>1. Finish(r, E) /\ E \in Docs /\ Present(copy[r])
      BY <1>4, CatalogsWritten, WriterTyped DEF WriteCatalogs, Busy, Checked
    <2>2. E.lake = copy[r].lake
      BY <1>1 DEF Docs
    <2> HIDE DEF E
    <2> QED
      BY <1>1, <2>1, <2>2, WriteKeepsLive, DocFields DEF Present
  <1> QED
    BY <1>2, <1>3, <1>4

LEMMA SchemasKeepLive ==
    ASSUME Inv, NEW r \in Reqs, WriteSchemas(r) \/ Undo(r), NEW u \in Users, Live(u)
    PROVE  Live(u)'
  <1>1. \E E \in Docs : doc' = [doc EXCEPT ![job[r].u] = E] /\ Present(E)
    <2>1. CASE WriteSchemas(r)
      <3> DEFINE v == IF job[r].op = "give" THEN "write" ELSE "read"
                 E == [doc[job[r].u] EXCEPT !.lake = SetSchema(copy[r].lake, job[r].s, v)]
      <3>1. doc' = [doc EXCEPT ![job[r].u] = E]
        BY <2>1 DEF WriteSchemas, Put
      <3>2. /\ job[r] \in Jobs /\ doc[job[r].u] \in Docs /\ copy[r] \in Docs
            /\ Present(copy[r])
        BY <2>1, WriterTyped DEF WriteSchemas, Busy, Checked
      <3>3. copy[r].lake \in Lakes /\ job[r].s \in Schemas /\ v \in {"none", "read", "write"}
        BY <3>2, DocFields, JobFields DEF Present
      <3> QED
        BY <3>1, <3>2, <3>3, SchemaWritten
    <2>2. CASE Undo(r)
      <3> DEFINE E == [doc[job[r].u] EXCEPT !.lake = copy[r].lake]
      <3>1. /\ doc' = [doc EXCEPT ![job[r].u] = E] /\ E \in Docs
            /\ doc[job[r].u] \in Docs /\ Present(copy[r])
        BY <2>2, UndoWrites
      <3>2. E.lake = copy[r].lake
        BY <3>1 DEF Docs
      <3> HIDE DEF E
      <3> QED
        BY <3>1, <3>2, DocFields DEF Present
    <2> QED
      BY <2>1, <2>2
  <1> QED
    BY <1>1 DEF Live, Present, Inv, TypeOK

LEMMA CopyKeepsLive ==
    ASSUME Inv, NEW r \in Reqs, NEW v \in Users, CopyTo(r, v), NEW u \in Users, Live(u)
    PROVE  Live(u)'
  <1> DEFINE E == Cloned(job[r], copy[r], doc[v])
  <1>1. doc'[v] = E /\ \A w \in Users \ {v} : doc'[w] = doc[w]
    BY PutChanges DEF CopyTo
  <1>2. job[r] \in Jobs /\ copy[r] \in Docs /\ doc[v] \in Docs \cup {NoDoc}
    BY WriterTyped DEF CopyTo, Busy, Checked, Inv, Ready, ReadyOf, TypeOK
  <1>3. E.lake \in Lakes /\ E \in Docs
    BY <1>2, ClonedType, LakeTypes DEF Cloned
  <1> HIDE DEF E
  <1>4. Present(E)
    BY <1>3, UsersAssumption DEF Present
  <1> QED
    BY <1>1, <1>4 DEF Live, Present

\* Nobody but a delete takes a user out of the data lake.
LEMMA LiveStays ==
    ASSUME Inv, NEW r \in Reqs, Step(r), NEW u \in Users, Live(u)
    PROVE  Live(u)' \/ (job[r].op = "delete" /\ job[r].u = u /\ pc'[r] = "done")
  <1>1. CASE UNCHANGED doc
    BY <1>1 DEF Live, Present
  <1>2. CASE Delete(r) /\ doc' # doc
    <2>1. Finish(r, [doc[job[r].u] EXCEPT !.lake = Absent]) /\ pc[r] = "new" /\ job[r].op = "delete"
      BY <1>2 DEF Delete, Asked, Refuse, NoPut
    <2>2. pc'[r] = "done" /\ \A v \in Users \ {job[r].u} : doc'[v] = doc[v]
      BY <2>1, FinishWrites DEF Finish, Goto, Inv, TypeOK
    <2> QED
      BY <2>1, <2>2 DEF Live, Present
  <1>3. ASSUME doc' # doc
        PROVE  \/ WriteCreate(r) \/ WriteEdit(r) \/ WriteBlock(r) \/ Delete(r) \/ WriteDropDomain(r)
               \/ WriteCatalogs(r) \/ WriteSchemas(r) \/ Undo(r) \/ \E v \in Users : CopyTo(r, v)
    BY <1>3, Zenon DEF Step, ReadCreate, ReadEdit, ReadBlock, ReadDropDomain, ReadClone, CopyFails,
       Audit, ReadCatalogs, ReadSchemas, WriteTuple, TupleFails, Refuse, Take, EndProcess, NoPut
  <1> QED
    BY <1>1, <1>2, <1>3, CreateKeepsLive, EditKeepsLive, OthersKeepLive, SchemasKeepLive, CopyKeepsLive

\* A step of r: the others stay where they are or are gone, and nobody forgets a
\* write that was missed.
LEMMA StepFrame ==
    ASSUME Inv, NEW r \in Reqs, Step(r)
    PROVE  /\ UNCHANGED job
           /\ \A q \in Reqs : missed[q] \subseteq missed'[q]
           /\ \A q \in Reqs \ {r} : pc'[q] \in {pc[q], "gone"} /\ (pc[q] = "done" => pc'[q] = "done")
           /\ pc[r] # "done"
  <1>1. UNCHANGED job /\ pc[r] # "done"
    BY Zenon DEF Step, ReadCreate, WriteCreate, ReadEdit, WriteEdit, ReadBlock, WriteBlock, Delete,
       ReadDropDomain, WriteDropDomain, ReadClone, CopyTo, CopyFails, Audit, ReadCatalogs, WriteCatalogs, ReadSchemas,
       WriteSchemas, WriteTuple, TupleFails, Undo, Refuse, Take, EndProcess, Finish, Asked
  <1>2. (\E step : Goto(r, step)) \/ (\E step : pc' = Ended(r, step))
    BY Zenon DEF Step, ReadCreate, WriteCreate, ReadEdit, WriteEdit, ReadBlock, WriteBlock, Delete,
       ReadDropDomain, WriteDropDomain, ReadClone, CopyTo, CopyFails, Audit, ReadCatalogs, WriteCatalogs, ReadSchemas,
       WriteSchemas, WriteTuple, TupleFails, Undo, Refuse, Take, EndProcess, Finish
  <1>3. UNCHANGED missed \/ \E u : missed' = Missed(r, u)
    BY Zenon DEF Step, ReadCreate, WriteCreate, ReadEdit, WriteEdit, ReadBlock, WriteBlock, Delete,
       ReadDropDomain, WriteDropDomain, ReadClone, CopyTo, CopyFails, Audit, ReadCatalogs, WriteCatalogs, ReadSchemas,
       WriteSchemas, WriteTuple, TupleFails, Undo, Refuse, Take, EndProcess, Finish, Put, NoPut
  <1>4. \A q \in Reqs : missed[q] \subseteq missed'[q]
    BY <1>3 DEF Missed
  <1>5. \A q \in Reqs \ {r} : pc'[q] \in {pc[q], "gone"} /\ (pc[q] = "done" => pc'[q] = "done")
    BY <1>2 DEF Goto, Ended, Inv, TypeOK, Busy
  <1> QED
    BY <1>1, <1>4, <1>5

LEMMA AuditsNext ==
    ASSUME Inv, AuditsClones, NEW r \in Reqs, Step(r)
    PROVE  AuditsClones'
  <1> SUFFICES ASSUME NEW q \in Reqs, pc'[q] = "audit"
               PROVE  job'[q].op = "clone"
    BY DEF AuditsClones
  <1>1. CASE q # r
    BY <1>1, StepFrame DEF AuditsClones
  <1>2. CASE q = r
    <2>1. \E v \in Users : CopyTo(r, v)
      BY <1>2 DEF Step, ReadCreate, WriteCreate, ReadEdit, WriteEdit, ReadBlock, WriteBlock, Delete,
         ReadDropDomain, WriteDropDomain, ReadClone, CopyFails, Audit, ReadCatalogs, WriteCatalogs, ReadSchemas,
         WriteSchemas, WriteTuple, TupleFails, Undo, Refuse, Take, EndProcess, Finish, Goto, Ended, Inv, TypeOK
    <2> QED
      BY <1>2, <2>1 DEF CopyTo, Inv, Ready, ReadyOf
  <1> QED
    BY <1>1, <1>2

\* A create that comes to be done has written, and whoever was about to write has
\* missed that; one that comes to write has found no user in the data lake.
LEMMA CreateMoves ==
    ASSUME Inv, AuditsClones, NEW r \in Reqs, Step(r), NEW u \in Users, Creates(r, u)
    PROVE  /\ pc'[r] = "done" => /\ pc[r] = "write" /\ Live(u)'
                                 /\ \A q \in Reqs \ {r} : pc[q] = "write" /\ job[q].u = u => r \in missed'[q]
           /\ pc'[r] = "write" => ~Live(u)
  <1>1. ReadCreate(r) \/ WriteCreate(r)
    <2>1. job[r].op = "create" /\ pc[r] \notin {"copy", "tuple", "undo", "audit"}
      BY DEF Creates, Inv, Ready, ReadyOf, AuditsClones
    <2> QED
      BY <2>1 DEF Step, ReadEdit, WriteEdit, ReadBlock, WriteBlock, Delete,
         ReadDropDomain, WriteDropDomain, ReadClone, CopyTo, CopyFails, Audit, ReadCatalogs, WriteCatalogs,
         ReadSchemas, WriteSchemas, WriteTuple, TupleFails, Undo, Asked, CatalogOps
  <1>2. CASE ReadCreate(r)
    BY <1>2 DEF ReadCreate, Refuse, Take, Goto, Creates, Inv, TypeOK
  <1>3. CASE WriteCreate(r)
    <2>1. pc'[r] # "write" /\ (pc'[r] = "done" => Live(u)')
      BY <1>3, CreateKeepsLive DEF WriteCreate, Refuse, Finish, Goto, Creates, Inv, TypeOK
    <2>2. pc'[r] = "done" => missed' = Missed(r, u)
      BY <1>3 DEF WriteCreate, Refuse, Finish, Put, Goto, Creates, Inv, TypeOK
    <2> QED
      BY <1>3, <2>1, <2>2 DEF WriteCreate, Missed, Busy, Concerns
  <1> QED
    BY <1>1, <1>2, <1>3

LEMMA CreatesNext ==
    ASSUME CreatesInv, NEW s \in Reqs, Step(s)
    PROVE  CreatesInv'
  <1>1. /\ Inv /\ AuditsClones /\ UNCHANGED job
        /\ \A q \in Reqs : missed[q] \subseteq missed'[q]
        /\ \A q \in Reqs \ {s} : pc'[q] \in {pc[q], "gone"} /\ (pc[q] = "done" => pc'[q] = "done")
        /\ pc[s] # "done"
    BY StepFrame DEF CreatesInv
  <1>2. Inv' /\ AuditsClones'
    BY <1>1, InvNext, AuditsNext DEF Next
  <1>3. \A u \in Users : DeletedBy(u) => DeletedBy(u)'
    BY <1>1 DEF DeletedBy
  <1>4. \A u \in Users : Live(u) => Live(u)' \/ DeletedBy(u)'
    BY <1>1, LiveStays DEF DeletedBy
  <1>5. CreatedStay'
    <2> SUFFICES ASSUME NEW r \in Reqs, NEW u \in Users, Creates(r, u)', pc'[r] = "done"
                 PROVE  Live(u)' \/ DeletedBy(u)'
      BY DEF CreatedStay
    <2>1. Creates(r, u)
      BY <1>1 DEF Creates
    <2>2. CASE r = s
      BY <1>1, <2>1, <2>2, CreateMoves
    <2>3. CASE r # s
      BY <1>1, <1>3, <1>4, <2>1, <2>3 DEF CreatesInv, CreatedStay
    <2> QED
      BY <2>2, <2>3
  <1>6. OneMissed'
    <2> SUFFICES ASSUME NEW r \in Reqs, NEW q \in Reqs, NEW u \in Users, r # q,
                        Creates(r, u)', Creates(q, u)', pc'[r] = "done", pc'[q] \in {"write", "done"}
                 PROVE  q \in missed'[r] \/ r \in missed'[q] \/ DeletedBy(u)'
      BY DEF OneMissed
    <2>1. Creates(r, u) /\ Creates(q, u)
      BY <1>1 DEF Creates
    <2>2. CASE r = s
      <3>1. pc[r] = "write" /\ (pc[q] = "write" => r \in missed'[q])
        BY <1>1, <2>1, <2>2, CreateMoves DEF Creates
      <3>2. pc[q] \in {"write", "done"}
        BY <1>1, <2>2
      <3> QED
        BY <1>1, <1>3, <2>1, <3>1, <3>2 DEF CreatesInv, OneMissed
    <2>3. CASE q = s
      <3>1. pc[r] = "done"
        BY <1>1, <2>1, <2>3
      <3>2. CASE pc[q] = "write"
        BY <1>1, <1>3, <2>1, <3>1, <3>2 DEF CreatesInv, OneMissed
      <3>3. CASE pc'[q] = "write"
        BY <1>1, <1>3, <2>1, <2>3, <3>1, <3>3, CreateMoves DEF CreatesInv, CreatedStay
      <3> QED
        BY <1>1, <2>1, <2>3, <3>2, <3>3, CreateMoves
    <2>4. CASE r # s /\ q # s
      <3>1. pc[r] = "done" /\ pc[q] \in {"write", "done"}
        BY <1>1, <2>4
      <3> QED
        BY <1>1, <1>3, <2>1, <3>1 DEF CreatesInv, OneMissed
    <2> QED
      BY <2>2, <2>3, <2>4
  <1> QED
    BY <1>2, <1>5, <1>6 DEF CreatesInv

\* Of two creates of one user that succeed, one has missed the other or the user
\* was deleted: a create that reads after another has written finds the user in the
\* data lake and refuses, and nothing but a delete takes it out again.
THEOREM CreatedOnce == Spec => []CreateOnce
  <1>1. Init => CreatesInv
    BY InvInit DEF Init, CreatesInv, AuditsClones, CreatedStay, OneMissed
  <1>2. CreatesInv /\ [Next]_vars => CreatesInv'
    <2>1. ASSUME CreatesInv, UNCHANGED vars
          PROVE  CreatesInv'
      BY <2>1, InvStutter DEF vars, CreatesInv, AuditsClones, CreatedStay, OneMissed, Creates,
         DeletedBy, Live, Present
    <2> QED
      BY <2>1, CreatesNext DEF Next, Done
  <1>3. CreatesInv => CreateOnce
    <2> SUFFICES ASSUME CreatesInv, NEW r \in Reqs, NEW q \in Reqs, r # q,
                        job[r].op = "create", job[q].op = "create", job[r].u = job[q].u,
                        pc[r] = "done", pc[q] = "done"
                 PROVE  q \in missed[r] \/ r \in missed[q] \/ DeletedBy(job[r].u)
      BY DEF CreateOnce, DeletedBy
    <2>1. job[r].u \in Users
      BY JobTyped DEF CreatesInv, Inv
    <2> QED
      BY <2>1 DEF CreatesInv, OneMissed, Creates
  <1> QED
    BY <1>1, <1>2, <1>3, PTL DEF Spec
-----------------------------------------------------------------------------
(* Schemas in the document and in OpenFGA. *)

\* r has written that u may write s, or may not, and not the tuple yet.
Half(r, u, s) == pc[r] \in {"tuple", "undo"} /\ job[r].u = u /\ job[r].s = s

Matches(u, s) == (<<u, s>> \in writers) = Writes(doc[u], s)

Given(r) == IF job[r].op = "give" THEN "write" ELSE "read"

\* The tuple of s is the one from before r, and only s differs from what r has read.
HalfWay(r, u, s) ==
    /\ (<<u, s>> \in writers) = Writes(copy[r], s)
    /\ doc[u].lake.schemas = [copy[r].lake.schemas EXCEPT ![s] = Given(r)]

SettledAt(u) ==
    /\ \A s \in Schemas : (\A r \in Reqs : ~Half(r, u, s)) => Matches(u, s)
    /\ \A r \in Reqs, s \in Schemas : Half(r, u, s) => HalfWay(r, u, s)

SettledUsers == \A u \in Users : Live(u) /\ ~Torn(u) => SettledAt(u)

\* Of two requests half way at one user, one has missed the other.
OneHalf == \A r, q \in Reqs :
    /\ r # q /\ job[r].u = job[q].u
    /\ pc[r] \in {"tuple", "undo"} /\ pc[q] \in {"tuple", "undo"}
    => missed[r] # {} \/ missed[q] # {}

MirrorInv == Inv /\ OneHalf /\ SettledUsers

LEMMA StepMoves ==
    ASSUME Inv, NEW r \in Reqs, Step(r)
    PROVE  pc[r] \notin {"done", "failed", "gone"} /\ pc'[r] # "new"
  <1>1. pc[r] \notin {"done", "failed", "gone"}
    BY Zenon DEF Step, ReadCreate, WriteCreate, ReadEdit, WriteEdit, ReadBlock, WriteBlock, Delete,
       ReadDropDomain, WriteDropDomain, ReadClone, CopyTo, CopyFails, Audit, ReadCatalogs, WriteCatalogs, ReadSchemas,
       WriteSchemas, WriteTuple, TupleFails, Undo, Asked
  <1>2. pc'[r] # "new"
    BY DEF Step, ReadCreate, WriteCreate, ReadEdit, WriteEdit, ReadBlock, WriteBlock, Delete,
       ReadDropDomain, WriteDropDomain, ReadClone, CopyTo, CopyFails, Audit, ReadCatalogs, WriteCatalogs, ReadSchemas,
       WriteSchemas, WriteTuple, TupleFails, Undo, Refuse, Take, EndProcess, Finish, Goto, Ended, Inv, TypeOK
  <1> QED
    BY <1>1, <1>2

\* What has set a user's schemas apart stays.
LEMMA TornStays ==
    ASSUME Inv, NEW r \in Reqs, Step(r), NEW u \in Users, Torn(u)
    PROVE  Torn(u)'
  <1>1. PICK q \in Reqs : /\ u \in Concerns(q)
                          /\ \/ job[q].op \in {"create", "clone"} /\ pc[q] # "new"
                             \/ missed[q] # {}
                             \/ pc[q] = "gone"
    BY DEF Torn
  <1>2. job' = job /\ missed[q] \subseteq missed'[q]
    BY StepFrame
  <1>3. u \in Concerns(q)'
    BY <1>1, <1>2 DEF Concerns
  <1>4. (pc[q] # "new" => pc'[q] # "new") /\ (pc[q] = "gone" => pc'[q] = "gone")
    BY StepFrame, StepMoves
  <1> QED
    BY <1>1, <1>2, <1>3, <1>4 DEF Torn

\* A step that leaves a user's schemas alone, and what is half way.
LEMMA SettledStays ==
    ASSUME MirrorInv, NEW r \in Reqs, Step(r), NEW u \in Users,
           Live(u)' /\ ~Torn(u)' => Live(u) /\ doc'[u].lake.schemas = doc[u].lake.schemas,
           UNCHANGED <<writers, job>>,
           \A q \in Reqs : pc[q] \in {"tuple", "undo"} => copy'[q] = copy[q],
           pc[r] \in {"tuple", "undo"} <=> pc'[r] \in {"tuple", "undo"}
    PROVE  Live(u)' /\ ~Torn(u)' => SettledAt(u)'
  <1> SUFFICES ASSUME Live(u)', ~Torn(u)'
               PROVE  SettledAt(u)'
    OBVIOUS
  <1>1. Live(u) /\ SettledAt(u) /\ doc'[u].lake.schemas = doc[u].lake.schemas
    BY TornStays DEF MirrorInv, SettledUsers
  <1>2. ASSUME NEW q \in Reqs, NEW s \in Schemas
        PROVE  Half(q, u, s)' <=> Half(q, u, s)
    <2>1. CASE q = r
      BY <2>1 DEF Half
    <2>2. CASE q # r
      <3>1. pc'[q] \in {pc[q], "gone"}
        BY <2>2, StepFrame DEF MirrorInv
      <3>2. job[q].u = u => pc'[q] # "gone"
        BY DEF Torn, Concerns
      <3> QED
        BY <3>1, <3>2 DEF Half
    <2> QED
      BY <2>1, <2>2
  <1>3. \A s \in Schemas : Matches(u, s)' <=> Matches(u, s)
    BY <1>1 DEF Matches, Writes
  <1>4. ASSUME NEW q \in Reqs, NEW s \in Schemas, Half(q, u, s), HalfWay(q, u, s)
        PROVE  HalfWay(q, u, s)'
    BY <1>1, <1>4 DEF HalfWay, Writes, Half, Given
  <1> QED
    BY <1>1, <1>2, <1>3, <1>4 DEF SettledAt

\* A single write of a request keeps the schemas of a user, unless it starts the
\* document afresh.
LEMMA LakeKept ==
    ASSUME Inv, NEW r \in Reqs, NEW u \in Users, Live(u)', ~Torn(u)',
           \/ WriteCreate(r) \/ WriteEdit(r) \/ WriteBlock(r) \/ Delete(r) \/ WriteDropDomain(r)
           \/ WriteCatalogs(r)
    PROVE  Live(u) /\ doc'[u].lake.schemas = doc[u].lake.schemas
  <1> DEFINE D == doc[job[r].u]
  <1>1. CASE UNCHANGED doc
    BY <1>1 DEF Live, Present
  <1>2. CASE doc' # doc
    <2>1. PICK F : Finish(r, F) /\ pc[r] # "done" /\ Step(r)
      BY <1>2, Zenon DEF WriteCreate, WriteEdit, WriteBlock, Delete, WriteDropDomain, WriteCatalogs,
         Refuse, NoPut, Asked, Step
    <2>2. CASE job[r].u # u
      BY <2>1, <2>2, FinishWrites DEF Live, Present
    <2>3. CASE job[r].u = u
      <3>1. pc'[r] # "new" /\ missed'[r] = missed[r] /\ UNCHANGED job
        BY <2>1 DEF Finish, Put, Missed, Goto, Inv, TypeOK
      <3>2. job[r].op # "create" /\ missed[r] = {}
        BY <2>3, <3>1 DEF Torn, Concerns
      <3>3. CASE WriteEdit(r) \/ WriteCatalogs(r)
        <4>1. /\ pc[r] = "write" /\ copy[r] \in Docs /\ D = copy[r] /\ Present(copy[r])
          BY <3>2, <3>3, WriterTyped DEF WriteEdit, WriteCatalogs, Busy, Checked, CatalogOps,
             Inv, Fresh, FreshOf
        <4>2. CASE WriteEdit(r)
          <5>1. doc'[u] = Edited(job[r], D, D)
            BY <2>3, <4>1, <4>2, FinishWrites DEF WriteEdit
          <5>2. doc'[u].lake.schemas = D.lake.schemas
            <6> DEFINE E == Edited(job[r], D, D)
                       lake == [all |-> job[r].body.all = "on", schemas |-> D.lake.schemas]
            <6>1. CASE job[r].body.all = "keep"
              <7>1. E.lake = D.lake
                BY <6>1, Zenon DEF Edited
              <7> QED
                BY <5>1, <7>1
            <6>2. CASE job[r].body.all # "keep"
              <7>1. E.lake = lake
                BY <6>2, Zenon DEF Edited
              <7>2. lake.schemas = D.lake.schemas
                BY Zenon
              <7> HIDE DEF E, lake
              <7>3. doc'[u] = E
                BY <5>1 DEF E
              <7> QED
                BY <7>1, <7>2, <7>3
            <6> QED
              BY <6>1, <6>2
          <5> QED
            BY <2>3, <4>1, <5>2 DEF Live
        <4>3. CASE WriteCatalogs(r)
          <5>1. doc'[u] = [D EXCEPT !.lake = D.lake, !.cats = NewCatalogs(job[r], D.cats)]
            BY <2>3, <4>1, <4>3, FinishWrites DEF WriteCatalogs
          <5>2. doc'[u].lake = D.lake
            BY <4>1, <5>1 DEF Docs
          <5> QED
            BY <2>3, <4>1, <5>2 DEF Live
        <4> QED
          BY <3>3, <4>2, <4>3
      <3>4. CASE WriteBlock(r) \/ WriteDropDomain(r)
        <4>1. pc[r] = "write" /\ D \in Docs /\ copy[r] \in Docs
          BY <3>4, WriterTyped DEF WriteBlock, WriteDropDomain, Busy, Checked, CatalogOps
        <4>2. doc'[u].lake = D.lake
          <5>1. CASE WriteBlock(r)
            BY <2>3, <4>1, <5>1, FinishWrites DEF WriteBlock, Docs
          <5>2. CASE WriteDropDomain(r)
            <6> DEFINE E == Reduced(job[r], copy[r], D)
            <6>1. doc'[u] = E
              BY <2>3, <4>1, <5>2, FinishWrites DEF WriteDropDomain
            <6>2. E.lake = D.lake
              BY <4>1 DEF Reduced, Docs
            <6> QED
              BY <6>1, <6>2
          <5> QED
            BY <3>4, <5>1, <5>2
        <4> QED
          BY <2>3, <4>1, <4>2, DocFields DEF Live, Present
      <3>5. CASE Delete(r)
        <4>1. Finish(r, [D EXCEPT !.lake = Absent]) /\ D \in Docs /\ pc[r] = "new"
          BY <1>2, <3>5, JobTyped DEF Delete, Refuse, NoPut, Asked, Inv, TypeOK
        <4>2. doc'[u].lake = Absent
          BY <2>3, <4>1, FinishWrites DEF Docs
        <4> QED
          BY <4>2 DEF Live, Present
      <3> QED
        BY <3>2, <3>3, <3>4, <3>5 DEF WriteCreate
    <2> QED
      BY <2>2, <2>3
  <1> QED
    BY <1>1, <1>2

LEMMA CopyTears ==
    ASSUME Inv, NEW r \in Reqs, NEW v \in Users, CopyTo(r, v), NEW u \in Users, ~Torn(u)'
    PROVE  doc'[u] = doc[u]
  <1>1. v \in todo[r] /\ todo[r] \subseteq job[r].to /\ job[r].op = "clone" /\ pc[r] = "copy"
    BY DEF CopyTo, Inv, Ready, ReadyOf
  <1>2. pc'[r] # "new" /\ UNCHANGED job
    BY DEF CopyTo, Goto, Inv, TypeOK
  <1>3. u # v
    BY <1>1, <1>2 DEF Torn, Concerns
  <1> QED
    BY <1>3, PutChanges DEF CopyTo

\* Two are not half way at a user without one having missed the other.
LEMMA HalfAlone ==
    ASSUME MirrorInv, NEW r \in Reqs, NEW q \in Reqs, NEW u \in Users, ~Torn(u),
           job[r].u = u, job[q].u = u, pc[r] \in {"tuple", "undo"}, pc[q] \in {"tuple", "undo"}
    PROVE  q = r
  BY DEF MirrorInv, OneHalf, Torn, Concerns

LEMMA WriteSchemasSettles ==
    ASSUME MirrorInv, NEW r \in Reqs, WriteSchemas(r), NEW u \in Users, Live(u)', ~Torn(u)'
    PROVE  SettledAt(u)'
  <1> DEFINE t == job[r].s
             E == [doc[u] EXCEPT !.lake = SetSchema(copy[r].lake, t, Given(r))]
  <1>0. Inv /\ Step(r) /\ ~Torn(u) /\ UNCHANGED <<writers, job, copy>> /\ pc[r] = "write" /\ pc'[r] = "tuple"
    BY TornStays DEF Step, MirrorInv, WriteSchemas, Inv, TypeOK, Goto
  <1>1. CASE job[r].u # u
    <2>1. doc'[u] = doc[u]
      BY <1>0, <1>1, PutChanges DEF WriteSchemas, Inv, TypeOK, Put
    <2>2. SettledAt(u)
      BY <1>0, <2>1 DEF MirrorInv, SettledUsers, Live, Present
    <2>3. \A q \in Reqs, s \in Schemas : Half(q, u, s)' <=> Half(q, u, s)
      BY <1>0, <1>1 DEF WriteSchemas, Goto, Inv, TypeOK, Half
    <2> QED
      BY <1>0, <2>1, <2>2, <2>3 DEF SettledAt, Matches, HalfWay, Writes, Given
  <1>2. CASE job[r].u = u
    <2>1. missed[r] = {} /\ \A q \in Reqs \ {r} : job[q].u = u => ~Busy(q)
      BY <1>0, <1>2 DEF WriteSchemas, Put, Missed, Torn, Concerns, Inv, TypeOK
    <2>2. copy[r] = doc[u] /\ doc[u] \in Docs /\ Present(doc[u]) /\ t \in Schemas
      BY <1>0, <1>2, <2>1, WriterTyped, JobFields DEF WriteSchemas, Inv, Fresh, FreshOf, Checked, Busy
    <2>3. SettledAt(u) /\ doc' = [doc EXCEPT ![u] = E] /\ doc'[u] = E
      BY <1>0, <1>2, <2>2 DEF MirrorInv, SettledUsers, WriteSchemas, Put, Live, Given, Inv, TypeOK
    <2>4. \A s \in Schemas : Matches(u, s)
      BY <1>0, <2>1, <2>3 DEF SettledAt, Half, Busy
    <2>5. doc[u].lake \in Lakes
      BY <2>2, DocFields DEF Present
    <2>6. doc'[u].lake.schemas = [doc[u].lake.schemas EXCEPT ![t] = Given(r)]
      <3>1. E.lake = SetSchema(doc[u].lake, t, Given(r))
        BY <2>2 DEF Docs
      <3>2. SetSchema(doc[u].lake, t, Given(r)).schemas = [doc[u].lake.schemas EXCEPT ![t] = Given(r)]
        BY <2>5 DEF SetSchema, Lakes
      <3> QED
        BY <2>3, <3>1, <3>2
    <2>7. \A q \in Reqs, s \in Schemas : Half(q, u, s)' => q = r /\ s = t
      BY <1>0, <2>1 DEF WriteSchemas, Goto, Inv, TypeOK, Half, Busy
    <2>8. HalfWay(r, u, t)'
      BY <1>0, <2>2, <2>4, <2>6 DEF HalfWay, Matches, Writes, Given
    <2>9. \A s \in Schemas \ {t} : Matches(u, s)'
      BY <1>0, <2>2, <2>4, <2>5, <2>6 DEF Matches, Writes, Lakes
    <2>10. Half(r, u, t)'
      BY <1>0, <1>2 DEF Half
    <2> QED
      BY <1>0, <2>7, <2>8, <2>9, <2>10 DEF SettledAt
  <1> QED
    BY <1>1, <1>2
LEMMA WriteTupleSettles ==
    ASSUME MirrorInv, NEW r \in Reqs, WriteTuple(r), NEW u \in Users, Live(u)', ~Torn(u)'
    PROVE  SettledAt(u)'
  <1> DEFINE t == job[r].s
  <1>0. /\ Inv /\ Step(r) /\ ~Torn(u) /\ Live(u) /\ UNCHANGED <<doc, job, copy>>
        /\ pc[r] = "tuple" /\ pc' = [pc EXCEPT ![r] = "done"]
    BY TornStays DEF Step, MirrorInv, WriteTuple, Goto, NoPut, Live, Present
  <1>1. SettledAt(u) /\ job[r].op \in {"give", "revoke"} /\ t \in Schemas
    BY <1>0, JobTyped, JobFields DEF MirrorInv, SettledUsers, Inv, Ready, ReadyOf
  <1>2. CASE job[r].u # u
    <2>1. \A s \in Schemas : <<u, s>> \in writers' <=> <<u, s>> \in writers
      BY <1>2 DEF WriteTuple
    <2>2. \A q \in Reqs, s \in Schemas : Half(q, u, s)' <=> Half(q, u, s)
      BY <1>0, <1>2 DEF Inv, TypeOK, Half
    <2> QED
      BY <1>0, <1>1, <2>1, <2>2 DEF SettledAt, Matches, HalfWay, Writes, Given
  <1>3. CASE job[r].u = u
    <2>1. HalfWay(r, u, t) /\ \A q \in Reqs, s \in Schemas : Half(q, u, s) => q = r /\ s = t
      BY <1>0, <1>1, <1>3, HalfAlone DEF SettledAt, Half
    <2>2. \A q \in Reqs, s \in Schemas : ~Half(q, u, s)'
      BY <1>0, <2>1 DEF Half, Inv, TypeOK
    <2>3. Matches(u, t)'
      <3>1. copy[r] \in Docs /\ Present(copy[r])
        BY <1>0, <1>1, WriterTyped DEF Busy, Checked
      <3>2. copy[r].lake.schemas \in [Schemas -> {"none", "read", "write"}]
        BY <3>1, DocFields DEF Present, Lakes
      <3>3. doc[u].lake.schemas[t] = Given(r)
        BY <1>1, <2>1, <3>2 DEF HalfWay
      <3>4. <<u, t>> \in writers' <=> job[r].op = "give"
        BY <1>1, <1>3 DEF WriteTuple
      <3> QED
        BY <1>0, <1>1, <3>3, <3>4 DEF Matches, Writes, Given
    <2>4. ASSUME NEW s \in Schemas, s # t
          PROVE  Matches(u, s)'
      <3>1. Matches(u, s)
        BY <1>1, <2>1, <2>4 DEF SettledAt
      <3>2. <<u, s>> \in writers' <=> <<u, s>> \in writers
        BY <1>3, <2>4 DEF WriteTuple
      <3> QED
        BY <1>0, <3>1, <3>2 DEF Matches, Writes
    <2> QED
      BY <1>0, <2>2, <2>3, <2>4 DEF SettledAt
  <1> QED
    BY <1>2, <1>3

LEMMA UndoSettles ==
    ASSUME MirrorInv, NEW r \in Reqs, Undo(r), NEW u \in Users, Live(u)', ~Torn(u)'
    PROVE  SettledAt(u)'
  <1> DEFINE t == job[r].s
             E == [doc[u] EXCEPT !.lake = copy[r].lake]
  <1>0. /\ Inv /\ Step(r) /\ ~Torn(u) /\ UNCHANGED <<writers, job, copy>>
        /\ pc[r] = "undo" /\ pc' = Ended(r, "failed")
    BY TornStays DEF Step, MirrorInv, Undo
  <1>1. ASSUME NEW q \in Reqs, NEW s \in Schemas
        PROVE  Half(q, u, s)' <=> q # r /\ Half(q, u, s)
    BY <1>0 DEF Half, Inv, TypeOK, Ended, Torn, Concerns
  <1>2. CASE job[r].u # u
    <2>1. doc'[u] = doc[u]
      BY <1>0, <1>2, UndoWrites DEF Inv, TypeOK
    <2>2. SettledAt(u)
      BY <1>0, <2>1 DEF MirrorInv, SettledUsers, Live, Present
    <2>3. \A q \in Reqs, s \in Schemas : Half(q, u, s)' <=> Half(q, u, s)
      BY <1>1, <1>2 DEF Half
    <2> QED
      BY <1>0, <2>1, <2>2, <2>3 DEF SettledAt, Matches, HalfWay, Writes, Given
  <1>3. CASE job[r].u = u
    <2>1. missed[r] = {} /\ Live(u)
      BY <1>0, <1>3 DEF Torn, Concerns, Inv, Fresh, FreshOf
    <2>2. SettledAt(u) /\ t \in Schemas
      <3>1. SettledAt(u)
        BY <1>0, <2>1 DEF MirrorInv, SettledUsers
      <3>2. job[r] \in Jobs
        BY <1>0, JobTyped DEF Inv
      <3> QED
        BY <3>1, <3>2, JobFields
    <2>3. HalfWay(r, u, t) /\ \A q \in Reqs, s \in Schemas : Half(q, u, s) => q = r /\ s = t
      BY <1>0, <1>3, <2>2, HalfAlone DEF SettledAt, Half
    <2>4. \A q \in Reqs, s \in Schemas : ~Half(q, u, s)'
      BY <1>1, <2>3
    <2>5. doc'[u].lake = copy[r].lake
      <3>1. doc'[u] = E /\ doc[u] \in Docs
        BY <1>3, <1>0, UndoWrites DEF Inv, TypeOK
      <3> QED
        BY <3>1 DEF Docs
    <2>6. Matches(u, t)'
      BY <1>0, <2>3, <2>5 DEF HalfWay, Matches, Writes
    <2>7. ASSUME NEW s \in Schemas, s # t
          PROVE  Matches(u, s)'
      <3>1. Matches(u, s)
        BY <2>2, <2>3, <2>7 DEF SettledAt
      <3>2. copy[r] \in Docs /\ Present(copy[r])
        BY UndoWrites, <1>0
      <3>3. copy[r].lake.schemas \in [Schemas -> {"none", "read", "write"}]
        BY <3>2, DocFields DEF Present, Lakes
      <3>4. copy[r].lake.schemas[s] = doc[u].lake.schemas[s]
        BY <2>3, <2>7, <3>3 DEF HalfWay
      <3> QED
        BY <1>0, <2>5, <3>1, <3>4 DEF Matches, Writes
    <2> QED
      BY <1>0, <2>4, <2>6, <2>7 DEF SettledAt
  <1> QED
    BY <1>2, <1>3

LEMMA StepSettles ==
    ASSUME MirrorInv, NEW r \in Reqs, Step(r), NEW u \in Users, Live(u)', ~Torn(u)'
    PROVE  SettledAt(u)'
  <1>1. CASE WriteSchemas(r) \/ WriteTuple(r) \/ Undo(r)
    BY <1>1, WriteSchemasSettles, WriteTupleSettles, UndoSettles
  <1>2. CASE ~(WriteSchemas(r) \/ WriteTuple(r) \/ Undo(r))
    <2>1. UNCHANGED <<writers, job>>
      BY <1>2, Zenon DEF Step, ReadCreate, WriteCreate, ReadEdit, WriteEdit, ReadBlock, WriteBlock, Delete,
         ReadDropDomain, WriteDropDomain, ReadClone, CopyTo, CopyFails, Audit, ReadCatalogs, WriteCatalogs,
         ReadSchemas, TupleFails, Refuse, Take, EndProcess, Finish
    <2>2. /\ \A q \in Reqs : pc[q] \in {"tuple", "undo"} => copy'[q] = copy[q]
          /\ pc[r] \in {"tuple", "undo"} <=> pc'[r] \in {"tuple", "undo"}
      BY <1>2 DEF Step, ReadCreate, WriteCreate, ReadEdit, WriteEdit, ReadBlock, WriteBlock, Delete,
         ReadDropDomain, WriteDropDomain, ReadClone, CopyTo, CopyFails, Audit, ReadCatalogs, WriteCatalogs,
         ReadSchemas, TupleFails, Refuse, Take, EndProcess, Finish, Goto, Ended, Asked, MirrorInv, Inv, TypeOK
    <2>3. Live(u) /\ doc'[u].lake.schemas = doc[u].lake.schemas
      <3>1. CASE UNCHANGED doc
        BY <3>1 DEF Live, Present
      <3>2. ASSUME doc' # doc
            PROVE  \/ WriteCreate(r) \/ WriteEdit(r) \/ WriteBlock(r) \/ Delete(r) \/ WriteDropDomain(r)
                   \/ WriteCatalogs(r) \/ \E v \in Users : CopyTo(r, v)
        BY <1>2, <3>2, Zenon DEF Step, ReadCreate, ReadEdit, ReadBlock, ReadDropDomain, ReadClone, CopyFails,
           Audit, ReadCatalogs, ReadSchemas, TupleFails, Refuse, Take, EndProcess, NoPut
      <3>3. ASSUME NEW v \in Users, CopyTo(r, v)
            PROVE  doc'[u] = doc[u]
        BY <3>3, CopyTears DEF MirrorInv
      <3> QED
        BY <3>1, <3>2, <3>3, LakeKept DEF MirrorInv, Live, Present
    <2> QED
      BY <2>1, <2>2, <2>3, SettledStays
  <1> QED
    BY <1>1, <1>2

\* Who comes half way while another is there is missed by that one.
LEMMA OneHalfNext ==
    ASSUME MirrorInv, NEW s \in Reqs, Step(s)
    PROVE  OneHalf'
  <1> SUFFICES ASSUME NEW r \in Reqs, NEW q \in Reqs, r # q, job'[r].u = job'[q].u,
                      pc'[r] \in {"tuple", "undo"}, pc'[q] \in {"tuple", "undo"}
               PROVE  missed'[r] # {} \/ missed'[q] # {}
    BY DEF OneHalf
  <1>1. /\ Inv /\ UNCHANGED job
        /\ \A p \in Reqs : missed[p] \subseteq missed'[p]
        /\ \A p \in Reqs \ {s} : pc'[p] \in {pc[p], "gone"}
    BY StepFrame DEF MirrorInv
  <1>2. ASSUME NEW p \in Reqs \ {s}, pc[p] \in {"tuple", "undo"}, job[p].u = job[s].u,
               pc'[s] \in {"tuple", "undo"}, pc[s] \notin {"tuple", "undo"}
        PROVE  s \in missed'[p]
    <2>1. WriteSchemas(s)
      BY <1>1, <1>2 DEF Step, ReadCreate, WriteCreate, ReadEdit, WriteEdit, ReadBlock, WriteBlock, Delete,
         ReadDropDomain, WriteDropDomain, ReadClone, CopyTo, CopyFails, Audit, ReadCatalogs, WriteCatalogs,
         ReadSchemas, WriteTuple, TupleFails, Undo, Refuse, Take, EndProcess, Finish, Goto, Ended, Inv, TypeOK
    <2> QED
      BY <1>2, <2>1 DEF WriteSchemas, Put, Missed, Busy, Concerns
  <1> QED
    BY <1>1, <1>2 DEF MirrorInv, OneHalf

LEMMA MirrorInvInit ==
    ASSUME Init
    PROVE  MirrorInv
  <1>1. \A r \in Reqs : pc[r] = "new"
    BY DEF Init
  <1> QED
    BY <1>1, InvInit DEF MirrorInv, OneHalf, SettledUsers, SettledAt, Half, Matches, Init

LEMMA MirrorInvNext ==
    ASSUME MirrorInv, [Next]_vars
    PROVE  MirrorInv'
  <1>1. ASSUME NEW r \in Reqs, Step(r)
        PROVE  MirrorInv'
    <2>1. Inv'
      BY <1>1, InvNext DEF Next, MirrorInv
    <2>2. SettledUsers'
      BY <1>1, StepSettles DEF SettledUsers
    <2> QED
      BY <1>1, <2>1, <2>2, OneHalfNext DEF MirrorInv
  <1>2. CASE UNCHANGED vars
    <2>1. Inv' /\ UNCHANGED <<doc, writers, pc, job, copy, missed>>
      BY <1>2, InvStutter DEF vars, MirrorInv
    <2>2. OneHalf'
      BY <2>1 DEF OneHalf, MirrorInv
    <2>3. SettledUsers'
      <3> SUFFICES ASSUME NEW u \in Users, Live(u)', ~Torn(u)'
                   PROVE  SettledAt(u)'
        BY DEF SettledUsers
      <3>1. SettledAt(u)
        BY <2>1 DEF MirrorInv, SettledUsers, Live, Present, Torn, Concerns
      <3>2. \A r \in Reqs, s \in Schemas : Half(r, u, s)' <=> Half(r, u, s)
        BY <2>1 DEF Half
      <3>3. \A s \in Schemas : Matches(u, s)' <=> Matches(u, s)
        BY <2>1 DEF Matches, Writes
      <3>4. \A r \in Reqs, s \in Schemas : HalfWay(r, u, s) => HalfWay(r, u, s)'
        BY <2>1 DEF HalfWay, Writes, Given
      <3> QED
        BY <3>1, <3>2, <3>3, <3>4 DEF SettledAt
    <2> QED
      BY <2>1, <2>2, <2>3 DEF MirrorInv
  <1> QED
    BY <1>1, <1>2 DEF Next, Done

\* At rest a user may write a schema in OpenFGA exactly if the document says so,
\* whichever call was refused, unless a create or a clone has started the document
\* afresh, a request has missed a write or the process has ended: between the two
\* writes the tuple is the one from before, and the catch of giving and revoking
\* restores the copy that goes with it.
THEOREM SchemasMirrored == Spec => []SchemasSound
  <1>1. MirrorInv => SchemasSound
    <2>1. ASSUME MirrorInv
          PROVE  WriteMirror
      BY <2>1 DEF MirrorInv, SettledUsers, SettledAt, WriteMirror, AtRest, Half, Matches
    <2> QED
      BY <2>1 DEF SchemasSound, MirrorInv, Inv
  <1> QED
    BY <1>1, MirrorInvInit, MirrorInvNext, PTL DEF Spec
=============================================================================
