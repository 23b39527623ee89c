----------------------------- MODULE TablesProofs -----------------------------
(***************************************************************************)
(* Tables, tasks, domains and classifications keep their types, for any    *)
(* collections to start from, requests and bound on failing calls.         *)
(*                                                                         *)
(* A request that saves tables takes them from its copies, so the types    *)
(* need more than themselves: the steps of a request belong to what it was *)
(* asked (StepsOf), and a document it has read is still there under the    *)
(* same name (CopiesThere), since no step renames or removes one.          *)
(* On the types rest that classifications are only added to a domain, that *)
(* edits stay within what is permitted, and that the tuples of OpenFGA     *)
(* mirror domains and their classifications (TuplesMirrorDomains).  The    *)
(* last part proves that tasks follow tables (TasksSound).                 *)
(***************************************************************************)
EXTENDS Tables, TLAPS

-----------------------------------------------------------------------------
(* What requests carry. *)

LEMMA UpsertJob ==
    ASSUME NEW j \in Jobs, j.op = "upsert"
    PROVE  j.want \in [Names -> Wants \cup {NoTable}]
  BY TablesAssumption DEF TableJobs, DomainJobs

LEMMA EditJob ==
    ASSUME NEW j \in Jobs, j.op = "edit"
    PROVE  j.id \in Ids /\ j.cols \in [Columns -> Marks \cup {NoColumn}]
  BY TablesAssumption DEF TableJobs, DomainJobs

LEMMA ApproveJob ==
    ASSUME NEW j \in Jobs, j.op = "approve"
    PROVE  j.id \in Ids
  BY TablesAssumption DEF TableJobs, DomainJobs

LEMMA DeprecateJob ==
    ASSUME NEW j \in Jobs, j.op = "deprecate"
    PROVE  j.names \subseteq Names
  BY TablesAssumption DEF TableJobs, DomainJobs

LEMMA DomainJob ==
    ASSUME NEW j \in Jobs, j.op \in {"createDomain", "editDomain"}
    PROVE  j.d \in Domains /\ j.cs \subseteq Classes
  BY TablesAssumption DEF TableJobs, DomainJobs

LEMMA ClassJob ==
    ASSUME NEW j \in Jobs, j.op = "createClass"
    PROVE  j.title \in Titles /\ j.ds \subseteq Domains
  BY TablesAssumption DEF TableJobs, DomainJobs

LEMMA RenameJob ==
    ASSUME NEW j \in Jobs, j.op = "renameClass"
    PROVE  j.c \in Classes /\ j.title \in Titles
  BY TablesAssumption DEF TableJobs, DomainJobs

\* The tables a request names.
LEMMA ConcernsNames ==
    ASSUME TypeOK, NEW r \in Reqs
    PROVE  Concerns(r) \subseteq Names
  <1>1. job[r] \in Jobs
    BY DEF TypeOK
  <1>2. CASE job[r].op = "upsert"
    BY <1>2 DEF Concerns
  <1>3. CASE job[r].op = "deprecate"
    BY <1>1, <1>3, DeprecateJob DEF Concerns
  <1>4. CASE job[r].op \in DomainOps
    BY <1>4 DEF Concerns, DomainOps
  <1>5. CASE job[r].op \notin DomainOps \cup {"upsert", "deprecate"}
    <2>1. Concerns(r) = {table[i].name : i \in {job[r].id} \cap {i \in Ids : There(i)}}
      BY <1>5 DEF Concerns
    <2>2. \A i \in Ids : There(i) => table[i] \in Docs
      BY DEF TypeOK, There
    <2> QED
      BY <2>1, <2>2 DEF Docs
  <1> QED
    BY <1>2, <1>3, <1>4, <1>5

\* The steps of a request are those of what it was asked.
StepsOf ==
    \A r \in Reqs :
        /\ pc[r] \in {"tasks", "save", "work"} => job[r].op = "upsert"
        /\ pc[r] \in {"mark", "drop"} => job[r].op = "deprecate"
        /\ pc[r] = "close" => job[r].op = "edit"
        /\ pc[r] \in {"insert", "find", "push"} => job[r].op = "createClass"
        /\ pc[r] = "link" => job[r].op \in {"createDomain", "editDomain", "createClass"}

\* What a request has read is there, under the name it was read with.
CopiesThere ==
    \A r \in Reqs, i \in Ids :
        copy[r][i] # NoTable => There(i) /\ copy[r][i].name = table[i].name

\* The tables of a deprecation are among the names it was asked for, and the table
\* of an edit exists when it is written.
CopiesAsked ==
    \A r \in Reqs :
        /\ pc[r] \in {"mark", "drop"} =>
              \A i \in Ids : copy[r][i] # NoTable => copy[r][i].name \in job[r].names
        /\ pc[r] \in {"write", "close"} /\ job[r].op = "edit" => copy[r][job[r].id] # NoTable
        /\ pc[r] = "write" /\ job[r].op = "approve" => There(job[r].id)

TypeInv == TypeOK /\ StepsOf /\ CopiesThere /\ CopiesAsked
-----------------------------------------------------------------------------
(* What a step writes. *)

LEMMA NextColsType ==
    ASSUME NEW old \in Docs \cup {NoTable}, NEW w \in Wants
    PROVE  NextCols(old, w) \in [Columns -> Marks \cup {NoColumn}]
  <1>1. \A mark \in Marks : Uniform(w.schema, mark) \in [Columns -> Marks \cup {NoColumn}]
    BY DEF Uniform
  <1>2. Internal \in Marks /\ None \in Marks
    BY DEF Marks
  <1>3. CASE w.internal \/ old = NoTable \/ FreshStart(old, w)
    BY <1>1, <1>2, <1>3 DEF NextCols
  <1>4. CASE ~(w.internal \/ old = NoTable \/ FreshStart(old, w))
    BY <1>2, <1>4 DEF NextCols, Docs
  <1> QED
    BY <1>3, <1>4

LEMMA SavedType ==
    ASSUME TypeOK, NEW r \in Reqs, NEW n \in Names, NEW i \in Ids,
           job[r].want \in [Names -> Wants \cup {NoTable}], job[r].want[n] # NoTable,
           copy[r][i] # NoTable => table[i] \in Docs
    PROVE  Saved(r, n, i) \subseteq {d \in Docs : d.name = n}
  <1> DEFINE w == job[r].want[n]
             old == copy[r][i]
  <1>1. w \in Wants /\ old \in Docs \cup {NoTable}
    BY DEF TypeOK
  <1>2. NextCols(old, w) \in [Columns -> Marks \cup {NoColumn}]
    BY <1>1, NextColsType
  <1>3. w.domain \in Domains
    BY <1>1 DEF Wants
  <1>4. CASE old = NoTable
    BY <1>2, <1>3, <1>4 DEF Saved, Docs
  <1>5. CASE old # NoTable
    <2>1. table[i] \in Docs
      BY <1>5
    <2> DEFINE ds == Sent(w.domain, old.domain, table[i].domain)
               cs == Sent(NextCols(old, w), old.cols, table[i].cols)
               fs == Sent(FALSE, old.dead, table[i].dead)
    <2>2. ds \subseteq Domains /\ cs \subseteq [Columns -> Marks \cup {NoColumn}] /\ fs \subseteq BOOLEAN
      BY <1>2, <1>3, <2>1 DEF Sent, Docs
    <2>3. Saved(r, n, i) = [name : {n}, domain : ds, cols : cs, dead : fs]
      BY <1>5 DEF Saved
    <2> HIDE DEF ds, cs, fs
    <2>4. [name : {n}, domain : ds, cols : cs, dead : fs] \subseteq {d \in Docs : d.name = n}
      BY <2>2 DEF Docs
    <2> QED
      BY <2>3, <2>4
  <1> QED
    BY <1>4, <1>5

LEMMA TaskWorkType ==
    ASSUME NEW old, NEW w, NEW found
    PROVE  TaskWork(old, w, found) \in Work \cup {"none"}
  BY DEF TaskWork, Work

LEMMA WorkedType ==
    ASSUME NEW work, NEW t \in TaskCounts
    PROVE  Worked(work, t) \subseteq TaskCounts
  <1>1. t.open \in Nat /\ t.done \in Nat
    BY DEF TaskCounts
  <1>2. CASE work = "create"
    BY <1>1, <1>2 DEF Worked, TaskCounts
  <1>3. CASE work = "update"
    BY <1>1, <1>3 DEF Worked, TaskCounts
  <1>4. CASE work = "delete"
    BY <1>1, <1>4 DEF Worked, TaskCounts
  <1>5. CASE work \notin {"create", "update", "delete"}
    BY <1>5 DEF Worked
  <1> QED
    BY <1>2, <1>3, <1>4, <1>5
-----------------------------------------------------------------------------
(* The steps of a request about domains and classifications. *)

\* Such a step leaves tables, and what other requests know of them, alone.
LEMMA DomainFrame ==
    ASSUME TypeInv, NEW r \in Reqs, NEW step \in DomainSteps,
           UNCHANGED <<tableVars, job>>, Goto(r, step), faults' \in 0 .. MaxFaults,
           DomainTypeOK', job[r].op \in DomainOps,
           step \in {"insert", "find", "push"} => job[r].op = "createClass",
           step = "link" => job[r].op # "renameClass"
    PROVE  TypeInv'
  <1>1. TypeOK'
    BY DEF TypeInv, TypeOK, Goto, Steps, tableVars
  <1>2. StepsOf'
    <2> SUFFICES ASSUME NEW q \in Reqs
                 PROVE  StepsOf!(q)'
      BY DEF StepsOf
    <2>1. CASE q = r
      BY <2>1 DEF TypeInv, TypeOK, StepsOf, Goto, DomainSteps, DomainOps
    <2>2. CASE q # r
      BY <2>2 DEF TypeInv, TypeOK, StepsOf, Goto
    <2> QED
      BY <2>1, <2>2
  <1>3. CopiesThere'
    BY DEF TypeInv, CopiesThere, There, tableVars
  <1>4. CopiesAsked'
    <2> SUFFICES ASSUME NEW q \in Reqs
                 PROVE  CopiesAsked!(q)'
      BY DEF CopiesAsked
    <2>1. CASE q = r
      BY <2>1 DEF TypeInv, TypeOK, Goto, DomainSteps, DomainOps
    <2>2. CASE q # r
      BY <2>2 DEF TypeInv, TypeOK, CopiesAsked, Goto, There, tableVars
    <2> QED
      BY <2>1, <2>2
  <1> QED
    BY <1>1, <1>2, <1>3, <1>4 DEF TypeInv

LEMMA SeenType ==
    ASSUME TypeOK, NEW r \in Reqs
    PROVE  /\ seen[r] \in Seen
           /\ seen[r].was \subseteq Classes /\ seen[r].made \subseteq Classes
           /\ seen[r].found \subseteq Domains
           /\ NotSeen \in Seen
  BY DEF TypeOK, DomainTypeOK, Seen, NotSeen

LEMMA CreateDomainType ==
    ASSUME TypeInv, NEW r \in Reqs, UNCHANGED tableVars,
           ReadCreateDomain(r) \/ WriteCreateDomain(r)
    PROVE  TypeInv'
  <1> DEFINE d == job[r].d
             cs == job[r].cs
  <1>1. job[r] \in Jobs /\ job[r].op = "createDomain" /\ faults \in 0 .. MaxFaults
    BY DEF TypeInv, TypeOK, ReadCreateDomain, WriteCreateDomain
  <1>2. d \in Domains /\ cs \subseteq Classes
    BY <1>1, DomainJob
  <1>3. PICK step \in {"write", "failed", "link"} : Goto(r, step)
    BY DEF ReadCreateDomain, WriteCreateDomain
  <1>4. DomainTypeOK'
    <2>1. CASE ReadCreateDomain(r) \/ UNCHANGED <<listed, seen>>
      BY <2>1 DEF TypeInv, TypeOK, DomainTypeOK, ReadCreateDomain, WriteCreateDomain
    <2>2. CASE ~(ReadCreateDomain(r) \/ UNCHANGED <<listed, seen>>)
      <3>1. /\ listed' = [listed EXCEPT ![d] = cs]
            /\ seen' = [seen EXCEPT ![r] = [NotSeen EXCEPT !.made = cs, !.found = {d}]]
            /\ UNCHANGED <<titles, links, rooted, hurt>>
        BY <2>2 DEF WriteCreateDomain, See
      <3>2. [NotSeen EXCEPT !.made = cs, !.found = {d}] \in Seen
        BY <1>2 DEF NotSeen, Seen
      <3> QED
        BY <1>2, <3>1, <3>2 DEF TypeInv, TypeOK, DomainTypeOK, Listings
    <2> QED
      BY <2>1, <2>2
  <1>5. UNCHANGED <<tableVars, job>> /\ faults' \in 0 .. MaxFaults
    BY <1>1 DEF ReadCreateDomain, WriteCreateDomain
  <1> QED
    BY <1>1, <1>3, <1>4, <1>5, DomainFrame DEF DomainSteps, DomainOps

LEMMA EditDomainType ==
    ASSUME TypeInv, NEW r \in Reqs, UNCHANGED tableVars,
           ReadEditDomain(r) \/ WriteEditDomain(r)
    PROVE  TypeInv'
  <1> DEFINE d == job[r].d
             cs == job[r].cs
  <1>1. job[r] \in Jobs /\ job[r].op = "editDomain" /\ faults \in 0 .. MaxFaults
    BY DEF TypeInv, TypeOK, ReadEditDomain, WriteEditDomain
  <1>2. d \in Domains /\ cs \subseteq Classes
    BY <1>1, DomainJob
  <1>3. PICK step \in {"write", "failed", "link"} : Goto(r, step)
    BY DEF ReadEditDomain, WriteEditDomain
  <1>4. DomainTypeOK'
    <2>1. CASE ReadEditDomain(r)
      <3>1. seen' \in [Reqs -> Seen]
        <4>1. CASE Exists(d) /\ listed[d] \subseteq cs
          <5>1. [NotSeen EXCEPT !.was = listed[d]] \in Seen
            BY <1>2, <4>1 DEF NotSeen, Seen
          <5> QED
            BY <2>1, <5>1 DEF ReadEditDomain, See, TypeInv, TypeOK, DomainTypeOK
        <4>2. CASE ~(Exists(d) /\ listed[d] \subseteq cs)
          BY <2>1, <4>2 DEF ReadEditDomain, TypeInv, TypeOK, DomainTypeOK
        <4> QED
          BY <4>1, <4>2
      <3> QED
        BY <2>1, <3>1 DEF ReadEditDomain, TypeInv, TypeOK, DomainTypeOK
    <2>2. CASE WriteEditDomain(r)
      <3> DEFINE made == cs \ seen[r].was
      <3>1. /\ listed' = [listed EXCEPT ![d] = cs]
            /\ seen' = [seen EXCEPT ![r] = [seen[r] EXCEPT !.made = made, !.found = {d}]]
            /\ hurt' \subseteq hurt \cup {d}
            /\ UNCHANGED <<titles, links, rooted>>
        BY <2>2 DEF WriteEditDomain, See
      <3>2. [seen[r] EXCEPT !.made = made, !.found = {d}] \in Seen
        BY <1>2, SeenType DEF Seen, TypeInv
      <3> QED
        BY <1>2, <3>1, <3>2 DEF TypeInv, TypeOK, DomainTypeOK, Listings
    <2> QED
      BY <2>1, <2>2
  <1>5. UNCHANGED <<tableVars, job>> /\ faults' \in 0 .. MaxFaults
    BY <1>1 DEF ReadEditDomain, WriteEditDomain
  <1> QED
    BY <1>1, <1>3, <1>4, <1>5, DomainFrame DEF DomainSteps, DomainOps

LEMMA CreateClassType ==
    ASSUME TypeInv, NEW r \in Reqs, UNCHANGED tableVars,
           ReadCreateClass(r) \/ InsertClass(r) \/ FindDomains(r) \/ PushClass(r)
    PROVE  TypeInv'
  <1>1. job[r] \in Jobs /\ job[r].op = "createClass" /\ faults \in 0 .. MaxFaults
    BY DEF TypeInv, TypeOK, StepsOf, ReadCreateClass, InsertClass, FindDomains, PushClass
  <1>2. job[r].title \in Titles /\ job[r].ds \subseteq Domains
    BY <1>1, ClassJob
  <1>3. PICK step \in {"failed", "insert", "find", "push", "link"} : Goto(r, step)
    BY DEF ReadCreateClass, InsertClass, FindDomains, PushClass
  <1>4. DomainTypeOK'
    <2>1. CASE ReadCreateClass(r)
      BY <2>1 DEF ReadCreateClass, domainVars, TypeInv, TypeOK, DomainTypeOK
    <2>2. CASE InsertClass(r)
      <3>1. CASE UNCHANGED <<titles, seen>>
        BY <2>2, <3>1 DEF InsertClass, TypeInv, TypeOK, DomainTypeOK
      <3>2. CASE ~UNCHANGED <<titles, seen>>
        <4>1. PICK c \in Classes :
                 /\ titles' = [titles EXCEPT ![c] = job[r].title]
                 /\ seen' = [seen EXCEPT ![r] = [NotSeen EXCEPT !.made = {c}]]
          BY <2>2, <3>2 DEF InsertClass, See
        <4>2. [NotSeen EXCEPT !.made = {c}] \in Seen
          BY DEF NotSeen, Seen
        <4> QED
          BY <1>2, <2>2, <4>1, <4>2 DEF InsertClass, TypeInv, TypeOK, DomainTypeOK
      <3> QED
        BY <3>1, <3>2
    <2>3. CASE FindDomains(r)
      <3>1. [seen[r] EXCEPT !.found = Lacking(r)] \in Seen
        BY <1>2, SeenType DEF Lacking, Seen, TypeInv
      <3> QED
        BY <2>3, <3>1 DEF FindDomains, See, TypeInv, TypeOK, DomainTypeOK
    <2>4. CASE PushClass(r)
      <3>1. ASSUME NEW d \in Domains
            PROVE  (IF d \in Lacking(r) THEN listed[d] \cup seen[r].made ELSE listed[d])
                       \in {NoDomain} \cup SUBSET Classes
        BY <3>1, SeenType DEF Lacking, Exists, TypeInv, TypeOK, DomainTypeOK, Listings
      <3>2. listed' \in Listings
        BY <2>4, <3>1 DEF PushClass, Listings
      <3> QED
        BY <2>4, <3>2 DEF PushClass, TypeInv, TypeOK, DomainTypeOK
    <2> QED
      BY <2>1, <2>2, <2>3, <2>4
  <1>5. UNCHANGED <<tableVars, job>> /\ faults' \in 0 .. MaxFaults
    BY <1>1 DEF ReadCreateClass, InsertClass, FindDomains, PushClass
  <1> QED
    BY <1>1, <1>3, <1>4, <1>5, DomainFrame DEF DomainSteps, DomainOps

LEMMA RenameClassType ==
    ASSUME TypeInv, NEW r \in Reqs, UNCHANGED tableVars, RenameClass(r)
    PROVE  TypeInv'
  <1>1. job[r] \in Jobs /\ job[r].op = "renameClass" /\ faults \in 0 .. MaxFaults
    BY DEF TypeInv, TypeOK, RenameClass
  <1>2. PICK step \in {"done", "failed"} : Goto(r, step)
    BY DEF RenameClass
  <1>3. DomainTypeOK'
    BY <1>1, RenameJob DEF RenameClass, TypeInv, TypeOK, DomainTypeOK
  <1>4. UNCHANGED <<tableVars, job>> /\ faults' \in 0 .. MaxFaults
    BY <1>1 DEF RenameClass
  <1> QED
    BY <1>1, <1>2, <1>3, <1>4, DomainFrame DEF DomainSteps, DomainOps

LEMMA LinkType ==
    ASSUME TypeInv, NEW r \in Reqs, UNCHANGED tableVars, WriteLinks(r) \/ LinksFail(r)
    PROVE  TypeInv'
  <1>1. /\ job[r] \in Jobs /\ faults \in 0 .. MaxFaults
        /\ job[r].op \in {"createDomain", "editDomain", "createClass"}
    BY DEF TypeInv, TypeOK, StepsOf, WriteLinks, LinksFail
  <1>2. PICK step \in {"done", "failed"} : Goto(r, step)
    BY DEF WriteLinks, LinksFail
  <1>3. NewLinks(r) \subseteq Domains \X Classes /\ NewRoots(r) \subseteq Domains
    BY SeenType DEF NewLinks, NewRoots, TypeInv
  <1>4. DomainTypeOK'
    BY <1>3, SeenType DEF WriteLinks, LinksFail, TypeInv, TypeOK, DomainTypeOK
  <1>5. UNCHANGED <<tableVars, job>>
    BY DEF WriteLinks, LinksFail
  <1>6. faults' \in 0 .. MaxFaults
    BY <1>1, TablesAssumption DEF WriteLinks, LinksFail, Fault
  <1> QED
    BY <1>1, <1>2, <1>4, <1>5, <1>6, DomainFrame DEF DomainSteps, DomainOps

LEMMA DomainStepType ==
    ASSUME TypeInv, NEW r \in Reqs, DomainStep(r), UNCHANGED tableVars
    PROVE  TypeInv'
  BY CreateDomainType, EditDomainType, CreateClassType, RenameClassType, LinkType DEF DomainStep
-----------------------------------------------------------------------------
(* The steps of a request about tables. *)

\* No document is removed or renamed.
DocsKept ==
    \A i \in Ids : There(i) => table'[i] # NoTable /\ table'[i].name = table[i].name

\* What a request may go on with at a step.
AskedAt(r, step) ==
    /\ step \in {"tasks", "save", "work"} => job[r].op = "upsert"
    /\ step \in {"mark", "drop"} =>
          /\ job[r].op = "deprecate"
          /\ \A i \in Ids : copy'[r][i] # NoTable => copy'[r][i].name \in job[r].names
    /\ step = "close" => job[r].op = "edit"
    /\ step \in {"write", "close"} /\ job[r].op = "edit" => copy'[r][job[r].id] # NoTable
    /\ step = "write" /\ job[r].op = "approve" => table'[job[r].id] # NoTable

\* A step that keeps the documents and the types of what it writes keeps the rest.
LEMMA TableFrame ==
    ASSUME TypeInv, NEW r \in Reqs,
           NEW step \in Steps \ {"insert", "find", "push", "link"},
           UNCHANGED <<domainVars, job>>, Goto(r, step), faults' \in 0 .. MaxFaults,
           table' \in [Ids -> Docs \cup {NoTable}], tasks' \in [Ids -> TaskCounts],
           copy' \in [Reqs -> [Ids -> Docs \cup {NoTable}]], had' \in [Reqs -> SUBSET Ids],
           todo' \in [Reqs -> [Ids -> Work \cup {"none"}]],
           mixed' \subseteq Names, settled' \subseteq Ids,
           DocsKept, AskedAt(r, step),
           \A q \in Reqs \ {r} : copy'[q] = copy[q],
           copy' = copy \/ \A i \in Ids : copy'[r][i] # NoTable => table'[i] = copy'[r][i]
    PROVE  TypeInv'
  <1>1. TypeOK'
    <2>1. DomainTypeOK'
      BY DEF TypeInv, TypeOK, DomainTypeOK, domainVars
    <2> QED
      BY <2>1 DEF TypeInv, TypeOK, Goto
  <1>2. StepsOf'
    <2> SUFFICES ASSUME NEW q \in Reqs
                 PROVE  StepsOf!(q)'
      BY DEF StepsOf
    <2>1. CASE q = r
      BY <2>1 DEF TypeInv, TypeOK, Goto, AskedAt
    <2>2. CASE q # r
      BY <2>2 DEF TypeInv, TypeOK, StepsOf, Goto
    <2> QED
      BY <2>1, <2>2
  <1>3. CopiesThere'
    <2> SUFFICES ASSUME NEW q \in Reqs, NEW i \in Ids, copy'[q][i] # NoTable
                 PROVE  table'[i] # NoTable /\ copy'[q][i].name = table'[i].name
      BY DEF CopiesThere, There
    <2>1. CASE copy'[q] = copy[q]
      BY <2>1 DEF TypeInv, CopiesThere, DocsKept, There
    <2>2. CASE copy'[q] # copy[q]
      BY <2>2
    <2> QED
      BY <2>1, <2>2
  <1>4. CopiesAsked'
    <2> SUFFICES ASSUME NEW q \in Reqs
                 PROVE  CopiesAsked!(q)'
      BY DEF CopiesAsked
    <2>1. CASE q = r
      BY <2>1 DEF TypeInv, TypeOK, Goto, AskedAt, There
    <2>2. CASE q # r
      <3>1. pc'[q] = pc[q] /\ job'[q] = job[q] /\ copy'[q] = copy[q] /\ job[q] \in Jobs
        BY <2>2 DEF TypeInv, TypeOK, Goto
      <3>2. job[q].op = "approve" /\ There(job[q].id) => There(job[q].id)'
        BY <3>1, ApproveJob DEF DocsKept, There
      <3> QED
        BY <3>1, <3>2 DEF TypeInv, CopiesAsked
    <2> QED
      BY <2>1, <2>2
  <1> QED
    BY <1>1, <1>2, <1>3, <1>4 DEF TypeInv

\* Documents as they were, and as an update leaves them.
LEMMA TableSame ==
    ASSUME UNCHANGED table
    PROVE  DocsKept
  BY DEF DocsKept, There

LEMMA DocThere ==
    ASSUME TypeOK, NEW i \in Ids, There(i)
    PROVE  table[i] \in Docs /\ table[i].name \in Names /\ table[i].domain \in Domains
  BY DEF TypeOK, There, Docs

LEMMA TouchType ==
    ASSUME TypeOK, NEW r \in Reqs, NEW ns \in SUBSET Names, Touch(r, ns)
    PROVE  mixed' \subseteq Names
  BY DEF TypeOK, Touch

\* A request that is turned down or fails.
LEMMA FailType ==
    ASSUME TypeInv, NEW r \in Reqs, Fail(r)
    PROVE  TypeInv'
  <1>1. UNCHANGED <<domainVars, job>> /\ Goto(r, "failed")
    BY DEF Fail
  <1>2. UNCHANGED <<table, tasks, copy, had, todo, mixed, settled, faults>>
    BY DEF Fail, tableVars
  <1>3. DocsKept /\ AskedAt(r, "failed")
    BY <1>2, TableSame DEF AskedAt
  <1>4. "failed" \in Steps \ {"insert", "find", "push", "link"}
    BY DEF Steps, DomainSteps
  <1> QED
    BY <1>1, <1>2, <1>3, <1>4, TableFrame DEF TypeInv, TypeOK

LEMMA ReadUpsertType ==
    ASSUME TypeInv, NEW r \in Reqs, ReadUpsert(r)
    PROVE  TypeInv'
  <1>1. CASE Fail(r)
    BY <1>1, FailType
  <1>2. CASE ~Fail(r)
    <2>1. /\ copy' = [copy EXCEPT ![r] = [i \in Ids |->
                 IF There(i) /\ table[i].name \in Concerns(r) THEN table[i] ELSE NoTable]]
          /\ Goto(r, "tasks")
          /\ UNCHANGED <<domainVars, table, tasks, had, todo, mixed, settled, job, faults>>
          /\ job[r].op = "upsert"
      BY <1>2 DEF ReadUpsert
    <2>2. [i \in Ids |-> IF There(i) /\ table[i].name \in Concerns(r) THEN table[i] ELSE NoTable]
             \in [Ids -> Docs \cup {NoTable}]
      BY DocThere DEF TypeInv
    <2>3. /\ copy' \in [Reqs -> [Ids -> Docs \cup {NoTable}]]
          /\ \A q \in Reqs \ {r} : copy'[q] = copy[q]
          /\ \A i \in Ids : copy'[r][i] # NoTable => table'[i] = copy'[r][i]
      BY <2>1, <2>2 DEF TypeInv, TypeOK
    <2>4. DocsKept /\ AskedAt(r, "tasks")
      BY <2>1, TableSame DEF AskedAt
    <2>5. "tasks" \in Steps \ {"insert", "find", "push", "link"}
      BY DEF Steps
    <2> QED
      BY <2>1, <2>3, <2>4, <2>5, TableFrame DEF TypeInv, TypeOK
  <1> QED
    BY <1>1, <1>2

LEMMA ReadTasksType ==
    ASSUME TypeInv, NEW r \in Reqs, ReadTasks(r)
    PROVE  TypeInv'
  <1>1. /\ had' \in [Reqs -> SUBSET Ids]
        /\ Goto(r, "save")
        /\ UNCHANGED <<domainVars, table, tasks, copy, todo, mixed, settled, job, faults>>
    BY DEF ReadTasks, TypeInv, TypeOK
  <1>2. job[r].op = "upsert"
    BY DEF ReadTasks, TypeInv, StepsOf
  <1>3. DocsKept /\ AskedAt(r, "save")
    BY <1>1, <1>2, TableSame DEF AskedAt
  <1>4. "save" \in Steps \ {"insert", "find", "push", "link"}
    BY DEF Steps
  <1> QED
    BY <1>1, <1>3, <1>4, TableFrame DEF TypeInv, TypeOK

\* Where an upsert may write: a copied document of the name, or a free identity.
LEMMA TargetsSound ==
    ASSUME TypeInv, NEW r \in Reqs, NEW ns \in SUBSET Names, NEW at \in Targets(r, ns), NEW n \in ns
    PROVE  /\ at[n] \in Ids
           /\ copy[r][at[n]] # NoTable \/ There(at[n]) =>
                 copy[r][at[n]] # NoTable /\ There(at[n]) /\ copy[r][at[n]].name = n /\ table[at[n]].name = n
  BY DEF Targets, TypeInv, CopiesThere

\* Saving keeps the documents, and writes their types.
LEMMA SaveType ==
    ASSUME TypeInv, NEW r \in Reqs, pc[r] = "save",
           NEW at \in Targets(r, Accepted(r)), NEW ok \in SUBSET Accepted(r), Save(r, ok, at)
    PROVE  /\ table' \in [Ids -> Docs \cup {NoTable}]
           /\ todo' \in [Reqs -> [Ids -> Work \cup {"none"}]]
           /\ mixed' \subseteq Names
           /\ DocsKept
           /\ \A n \in ok : at[n] \in Ids
           /\ \A i \in Ids : table'[i] = table[i] \/ (\E n \in ok : i = at[n] /\ table'[i].name = n)
  <1>1. /\ job[r] \in Jobs /\ job[r].op = "upsert"
        /\ job[r].want \in [Names -> Wants \cup {NoTable}]
    BY UpsertJob DEF TypeInv, TypeOK, StepsOf
  <1>2. \A n \in Accepted(r) : n \in Names /\ job[r].want[n] # NoTable
    BY <1>1 DEF Accepted, Concerns
  <1>3. PICK new :
           /\ \A n \in ok : new[n] \in Saved(r, n, at[n])
           /\ table' = [i \in Ids |-> IF \E n \in ok : at[n] = i
                                      THEN new[CHOOSE n \in ok : at[n] = i] ELSE table[i]]
    BY DEF Save
  <1>4. ASSUME NEW n \in ok
        PROVE  /\ at[n] \in Ids
               /\ new[n] \in Docs /\ new[n].name = n
               /\ There(at[n]) => table[at[n]].name = n
    <2>1. Accepted(r) \in SUBSET Names
      BY <1>2
    <2>2. /\ at[n] \in Ids
          /\ copy[r][at[n]] # NoTable => There(at[n])
          /\ There(at[n]) => table[at[n]].name = n
      BY <2>1, TargetsSound
    <2>3. copy[r][at[n]] # NoTable => table[at[n]] \in Docs
      BY <2>2, DocThere DEF TypeInv
    <2>4. Saved(r, n, at[n]) \subseteq {d \in Docs : d.name = n}
      BY <1>1, <1>2, <2>2, <2>3, SavedType DEF TypeInv
    <2> QED
      BY <1>3, <2>2, <2>4
  <1>5. ASSUME NEW i \in Ids, \E n \in ok : at[n] = i
        PROVE  \E n \in ok : i = at[n] /\ table'[i] = new[n]
    <2>1. (CHOOSE n \in ok : at[n] = i) \in ok /\ at[CHOOSE n \in ok : at[n] = i] = i
      BY <1>5
    <2> QED
      BY <1>3, <1>5, <2>1
  <1>6. \A i \in Ids : (\A n \in ok : at[n] # i) => table'[i] = table[i]
    BY <1>3
  <1>7. table' \in [Ids -> Docs \cup {NoTable}]
    <2>1. \A i \in Ids : table'[i] \in Docs \cup {NoTable}
      BY <1>4, <1>5, <1>6 DEF TypeInv, TypeOK
    <2> QED
      BY <1>3, <2>1
  <1>8. DocsKept
    BY <1>4, <1>5, <1>6, TablesAssumption DEF DocsKept, There
  <1>9. todo' \in [Reqs -> [Ids -> Work \cup {"none"}]]
    <2>1. \A i \in Ids : \A n \in ok :
             TaskWork(copy[r][i], job[r].want[n], i \in had[r]) \in Work \cup {"none"}
      BY TaskWorkType
    <2>2. [i \in Ids |-> IF \E n \in ok : at[n] = i
                         THEN LET n == CHOOSE n \in ok : at[n] = i
                              IN TaskWork(copy[r][i], job[r].want[n], i \in had[r])
                         ELSE "none"] \in [Ids -> Work \cup {"none"}]
      BY <2>1
    <2> QED
      BY <2>2 DEF Save, TypeInv, TypeOK
  <1>10. mixed' \subseteq Names
    BY <1>2, TouchType DEF Save, TypeInv
  <1> QED
    BY <1>4, <1>5, <1>6, <1>7, <1>8, <1>9, <1>10

LEMMA SaveTablesType ==
    ASSUME TypeInv, NEW r \in Reqs, SaveTables(r) \/ SaveThrows(r)
    PROVE  TypeInv'
  <1>1. PICK at \in Targets(r, Accepted(r)), ok \in SUBSET Accepted(r) :
           /\ Save(r, ok, at)
           /\ settled' \in {settled, settled \cup {at[n] : n \in ok}}
    BY DEF SaveTables, SaveThrows
  <1>2. /\ UNCHANGED <<domainVars, tasks, copy, had, job>>
        /\ pc[r] = "save"
    BY DEF SaveTables, SaveThrows
  <1>3. PICK step \in {"work", "failed"} : Goto(r, step)
    BY DEF SaveTables, SaveThrows
  <1>4. job[r].op = "upsert"
    BY <1>2 DEF TypeInv, StepsOf
  <1>5. faults' \in 0 .. MaxFaults
    BY TablesAssumption DEF SaveTables, SaveThrows, Fault, TypeInv, TypeOK
  <1>6. /\ table' \in [Ids -> Docs \cup {NoTable}]
        /\ todo' \in [Reqs -> [Ids -> Work \cup {"none"}]]
        /\ mixed' \subseteq Names
        /\ DocsKept
        /\ settled' \subseteq Ids
    BY <1>1, <1>2, SaveType DEF TypeInv, TypeOK
  <1>7. AskedAt(r, step)
    BY <1>3, <1>4 DEF AskedAt
  <1>8. step \in Steps \ {"insert", "find", "push", "link"}
    BY <1>3 DEF Steps, DomainSteps
  <1> QED
    BY <1>2, <1>3, <1>5, <1>6, <1>7, <1>8, TableFrame DEF TypeInv, TypeOK

LEMMA TaskStepsType ==
    ASSUME TypeInv, NEW r \in Reqs, WriteTasks(r) \/ TasksFail(r)
    PROVE  TypeInv'
  <1>1. UNCHANGED <<domainVars, table, copy, had, todo, job>>
    BY DEF WriteTasks, TasksFail
  <1>2. PICK step \in {"done", "failed"} : Goto(r, step)
    BY DEF WriteTasks, TasksFail
  <1>3. faults' \in 0 .. MaxFaults
    BY TablesAssumption DEF WriteTasks, TasksFail, Fault, TypeInv, TypeOK
  <1>4. tasks' \in [Ids -> TaskCounts]
    <2>1. CASE WriteTasks(r)
      <3>1. \A i \in Ids : Worked(todo[r][i], tasks[i]) \subseteq TaskCounts
        BY WorkedType DEF TypeInv, TypeOK
      <3>2. tasks' \in [Ids -> UNION {Worked(todo[r][i], tasks[i]) : i \in Ids}]
        BY <2>1 DEF WriteTasks
      <3> QED
        BY <3>1, <3>2
    <2>2. CASE TasksFail(r)
      BY <2>2 DEF TasksFail, TypeInv, TypeOK
    <2> QED
      BY <2>1, <2>2
  <1>5. settled' \subseteq Ids
    BY DEF WriteTasks, TasksFail, TypeInv, TypeOK
  <1>6. mixed' \subseteq Names
    <2>1. {table[i].name : i \in {i \in Ids : There(i) /\ todo[r][i] # "none"}} \in SUBSET Names
      BY DocThere DEF TypeInv
    <2>2. CASE WriteTasks(r)
      BY <2>1, <2>2, TouchType DEF WriteTasks, TypeInv
    <2>3. CASE TasksFail(r)
      BY <2>3 DEF TasksFail, TypeInv, TypeOK
    <2> QED
      BY <2>2, <2>3
  <1>7. DocsKept /\ AskedAt(r, step)
    BY <1>1, <1>2, TableSame DEF AskedAt
  <1>8. step \in Steps \ {"insert", "find", "push", "link"}
    BY <1>2 DEF Steps, DomainSteps
  <1> QED
    BY <1>1, <1>2, <1>3, <1>4, <1>5, <1>6, <1>7, <1>8, TableFrame DEF TypeInv, TypeOK

LEMMA ReadEditType ==
    ASSUME TypeInv, NEW r \in Reqs, ReadEdit(r)
    PROVE  TypeInv'
  <1>1. CASE Fail(r)
    BY <1>1, FailType
  <1>2. CASE ~Fail(r)
    <2>1. /\ copy' = [copy EXCEPT ![r][job[r].id] = table[job[r].id]]
          /\ Goto(r, "write")
          /\ UNCHANGED <<domainVars, table, tasks, had, todo, mixed, settled, job, faults>>
          /\ job[r].op = "edit" /\ There(job[r].id)
      BY <1>2 DEF ReadEdit
    <2>2. job[r].id \in Ids
      BY <2>1, EditJob DEF TypeInv, TypeOK
    <2>3. copy' \in [Reqs -> [Ids -> Docs \cup {NoTable}]]
      BY <2>1, <2>2 DEF TypeInv, TypeOK
    <2>4. copy'[r] = [copy[r] EXCEPT ![job[r].id] = table[job[r].id]] /\ copy[r] \in [Ids -> Docs \cup {NoTable}]
      BY <2>1 DEF TypeInv, TypeOK
    <2>5. copy'[r][job[r].id] # NoTable
      BY <2>1, <2>2, <2>4 DEF There
    <2>6. TypeOK'
      <3>1. DomainTypeOK'
        BY <2>1 DEF TypeInv, TypeOK, DomainTypeOK, domainVars
      <3> QED
        BY <2>1, <2>3, <3>1 DEF TypeInv, TypeOK, Goto, Steps, DomainSteps
    <2>7. StepsOf'
      BY <2>1 DEF TypeInv, TypeOK, StepsOf, Goto
    <2>8. CopiesThere'
      <3> SUFFICES ASSUME NEW q \in Reqs, NEW i \in Ids, copy'[q][i] # NoTable
                   PROVE  table'[i] # NoTable /\ copy'[q][i].name = table'[i].name
        BY DEF CopiesThere, There
      <3>1. CASE q = r /\ i = job[r].id
        BY <2>1, <2>2, <2>4, <3>1 DEF There
      <3>2. CASE ~(q = r /\ i = job[r].id)
        <4>1. copy'[q][i] = copy[q][i]
          BY <2>1, <2>2, <3>2 DEF TypeInv, TypeOK
        <4> QED
          BY <2>1, <4>1 DEF TypeInv, CopiesThere, There
      <3> QED
        BY <3>1, <3>2
    <2>9. CopiesAsked'
      <3> SUFFICES ASSUME NEW q \in Reqs
                   PROVE  CopiesAsked!(q)'
        BY DEF CopiesAsked
      <3>1. CASE q = r
        BY <2>1, <2>5, <3>1 DEF TypeInv, TypeOK, Goto
      <3>2. CASE q # r
        BY <2>1, <3>2 DEF TypeInv, TypeOK, CopiesAsked, Goto, There
      <3> QED
        BY <3>1, <3>2
    <2> QED
      BY <2>6, <2>7, <2>8, <2>9 DEF TypeInv
  <1> QED
    BY <1>1, <1>2

LEMMA MergedType ==
    ASSUME NEW j \in Jobs, j.op = "edit", NEW D \in Docs
    PROVE  Merged(j, D) \in [Columns -> Marks \cup {NoColumn}]
  BY EditJob DEF Merged, Docs

LEMMA WriteEditType ==
    ASSUME TypeInv, NEW r \in Reqs, WriteEdit(r)
    PROVE  TypeInv'
  <1> DEFINE i == job[r].id
             next == Merged(job[r], copy[r][i])
  <1>1. /\ job[r].op = "edit" /\ job[r] \in Jobs /\ i \in Ids
        /\ copy[r][i] \in Docs /\ There(i)
    BY EditJob DEF WriteEdit, TypeInv, TypeOK, CopiesAsked, CopiesThere
  <1>2. next \in [Columns -> Marks \cup {NoColumn}]
    BY <1>1, MergedType
  <1>3. table[i] \in Docs /\ table[i].name \in Names
    BY <1>1, DocThere DEF TypeInv
  <1>4. /\ table' = [table EXCEPT ![i].cols = next]
        /\ settled' \in {settled, settled \cup {i}}
        /\ Touch(r, {table[i].name})
        /\ UNCHANGED <<domainVars, tasks, copy, had, todo, job, faults>>
    BY DEF WriteEdit
  <1>5. [table[i] EXCEPT !.cols = next] \in Docs /\ [table[i] EXCEPT !.cols = next].name = table[i].name
    BY <1>2, <1>3 DEF Docs
  <1> HIDE DEF next
  <1>6. table' = [table EXCEPT ![i] = [table[i] EXCEPT !.cols = next]]
    BY <1>4
  <1>7. table' \in [Ids -> Docs \cup {NoTable}]
    BY <1>1, <1>5, <1>6 DEF TypeInv, TypeOK
  <1>8. DocsKept
    BY <1>1, <1>5, <1>6, TablesAssumption DEF DocsKept, There, TypeInv, TypeOK
  <1>9. mixed' \subseteq Names /\ settled' \subseteq Ids
    BY <1>1, <1>3, <1>4, TouchType DEF TypeInv, TypeOK
  <1>10. PICK step \in {"close", "done"} : Goto(r, step)
    BY DEF WriteEdit
  <1>11. AskedAt(r, step)
    BY <1>1, <1>4, <1>10, TablesAssumption DEF AskedAt
  <1>12. step \in Steps \ {"insert", "find", "push", "link"}
    BY <1>10 DEF Steps, DomainSteps
  <1> QED
    BY <1>4, <1>7, <1>8, <1>9, <1>10, <1>11, <1>12, TableFrame DEF TypeInv, TypeOK

\* One task of a table is closed.
LEMMA ClosedType ==
    ASSUME TypeOK, NEW i \in Ids, tasks[i].open # 0
    PROVE  [tasks EXCEPT ![i] = [open |-> tasks[i].open - 1, done |-> tasks[i].done + 1]]
               \in [Ids -> TaskCounts]
  <1>1. tasks[i].open \in Nat /\ tasks[i].done \in Nat
    BY DEF TypeOK, TaskCounts
  <1>2. [open |-> tasks[i].open - 1, done |-> tasks[i].done + 1] \in TaskCounts
    BY <1>1 DEF TaskCounts
  <1> QED
    BY <1>2 DEF TypeOK

LEMMA CloseType ==
    ASSUME TypeInv, NEW r \in Reqs, CloseTask(r) \/ CloseFails(r)
    PROVE  TypeInv'
  <1> DEFINE i == job[r].id
  <1>1. /\ job[r].op = "edit" /\ i \in Ids /\ There(i)
    BY EditJob DEF CloseTask, CloseFails, TypeInv, TypeOK, StepsOf, CopiesAsked, CopiesThere
  <1>2. UNCHANGED <<domainVars, table, copy, had, todo, job>>
    BY DEF CloseTask, CloseFails
  <1>3. tasks' \in [Ids -> TaskCounts]
    BY <1>1, ClosedType DEF CloseTask, CloseFails, TypeInv, TypeOK
  <1>4. mixed' \subseteq Names
    BY <1>1, DocThere, TouchType DEF CloseTask, CloseFails, TypeInv, TypeOK
  <1>5. settled' \subseteq Ids
    BY <1>1 DEF CloseTask, CloseFails, TypeInv, TypeOK
  <1>6. faults' \in 0 .. MaxFaults
    BY TablesAssumption DEF CloseTask, CloseFails, Fault, TypeInv, TypeOK
  <1>7. PICK step \in {"done", "failed"} : Goto(r, step)
    BY DEF CloseTask, CloseFails
  <1>8. DocsKept /\ AskedAt(r, step)
    BY <1>2, <1>7, TableSame DEF AskedAt
  <1>9. step \in Steps \ {"insert", "find", "push", "link"}
    BY <1>7 DEF Steps, DomainSteps
  <1> QED
    BY <1>2, <1>3, <1>4, <1>5, <1>6, <1>7, <1>8, <1>9, TableFrame DEF TypeInv, TypeOK

\* The end of the process.
LEMMA EndType ==
    ASSUME TypeInv, NEW qs \in SUBSET Reqs, End(qs), faults' \in 0 .. MaxFaults
    PROVE  TypeInv'
  <1>1. /\ pc' = [q \in Reqs |-> IF q \in qs THEN "gone" ELSE pc[q]]
        /\ UNCHANGED <<listed, titles, links, rooted, seen, table, tasks, copy, had, todo, mixed, job>>
    BY DEF End
  <1>2. TypeOK'
    <2>1. DomainTypeOK'
      BY <1>1 DEF End, TypeInv, TypeOK, DomainTypeOK
    <2>2. pc' \in [Reqs -> Steps]
      BY <1>1 DEF TypeInv, TypeOK, Steps, DomainSteps
    <2>3. settled' \subseteq Ids
      BY DEF End, Unfinished, TypeInv, TypeOK
    <2> QED
      BY <1>1, <2>1, <2>2, <2>3 DEF TypeInv, TypeOK
  <1>3. \A q \in Reqs : pc'[q] \in {"gone", pc[q]}
    BY <1>1
  <1>4. StepsOf'
    BY <1>1, <1>3 DEF TypeInv, StepsOf
  <1>5. CopiesThere' /\ CopiesAsked'
    BY <1>1, <1>3 DEF TypeInv, CopiesThere, CopiesAsked, There
  <1> QED
    BY <1>2, <1>4, <1>5 DEF TypeInv

LEMMA CrashType ==
    ASSUME TypeInv, Crash
    PROVE  TypeInv'
  <1>1. faults' \in 0 .. MaxFaults
    BY TablesAssumption DEF Crash, Fault, TypeInv, TypeOK
  <1> QED
    BY <1>1, EndType DEF Crash, Running

LEMMA ReadApproveType ==
    ASSUME TypeInv, NEW r \in Reqs, ReadApprove(r)
    PROVE  TypeInv'
  <1>1. CASE End(Running \cup {r})
    BY <1>1, EndType DEF ReadApprove, Running, TypeInv, TypeOK
  <1>2. CASE ~End(Running \cup {r})
    <2>1. /\ Goto(r, "write") /\ UNCHANGED <<domainVars, tableVars, job, faults>>
          /\ job[r].op = "approve" /\ There(job[r].id)
      BY <1>2 DEF ReadApprove
    <2>2. UNCHANGED <<table, tasks, copy, had, todo, mixed, settled>>
      BY <2>1 DEF tableVars
    <2>3. DocsKept /\ AskedAt(r, "write")
      BY <2>1, <2>2, TableSame DEF AskedAt, There
    <2>4. "write" \in Steps \ {"insert", "find", "push", "link"}
      BY DEF Steps, DomainSteps
    <2> QED
      BY <2>1, <2>2, <2>3, <2>4, TableFrame DEF TypeInv, TypeOK
  <1> QED
    BY <1>1, <1>2

LEMMA WriteApproveType ==
    ASSUME TypeInv, NEW r \in Reqs, WriteApprove(r)
    PROVE  TypeInv'
  <1> DEFINE i == job[r].id
  <1>1. i \in Ids /\ There(i)
    BY ApproveJob DEF WriteApprove, TypeInv, TypeOK, CopiesAsked
  <1>2. UNCHANGED <<domainVars, table, copy, had, todo, job, faults>> /\ Goto(r, "done")
    BY DEF WriteApprove
  <1>3. tasks' \in [Ids -> TaskCounts]
    BY <1>1, ClosedType DEF WriteApprove, TypeInv, TypeOK
  <1>4. mixed' \subseteq Names /\ settled' \subseteq Ids
    BY <1>1, DocThere, TouchType DEF WriteApprove, TypeInv, TypeOK
  <1>5. DocsKept /\ AskedAt(r, "done")
    BY <1>2, TableSame DEF AskedAt
  <1>6. "done" \in Steps \ {"insert", "find", "push", "link"}
    BY DEF Steps, DomainSteps
  <1> QED
    BY <1>2, <1>3, <1>4, <1>5, <1>6, TableFrame DEF TypeInv, TypeOK

LEMMA ReadDeprecateType ==
    ASSUME TypeInv, NEW r \in Reqs, ReadDeprecate(r)
    PROVE  TypeInv'
  <1> DEFINE ids == {i \in Ids : There(i) /\ table[i].name \in job[r].names}
  <1>1. CASE Fail(r)
    BY <1>1, FailType
  <1>2. CASE ~Fail(r)
    <2>1. /\ copy' = [copy EXCEPT ![r] = [i \in Ids |-> IF i \in ids THEN table[i] ELSE NoTable]]
          /\ Goto(r, "mark")
          /\ UNCHANGED <<domainVars, table, tasks, had, todo, mixed, settled, job, faults>>
          /\ job[r].op = "deprecate"
      BY <1>2 DEF ReadDeprecate
    <2>2. [i \in Ids |-> IF i \in ids THEN table[i] ELSE NoTable] \in [Ids -> Docs \cup {NoTable}]
      BY DocThere DEF TypeInv
    <2>3. /\ copy' \in [Reqs -> [Ids -> Docs \cup {NoTable}]]
          /\ \A q \in Reqs \ {r} : copy'[q] = copy[q]
          /\ \A i \in Ids : copy'[r][i] # NoTable => table'[i] = copy'[r][i] /\ table[i].name \in job[r].names
      BY <2>1, <2>2 DEF TypeInv, TypeOK
    <2>4. DocsKept /\ AskedAt(r, "mark")
      BY <2>1, <2>3, TableSame DEF AskedAt
    <2>5. "mark" \in Steps \ {"insert", "find", "push", "link"}
      BY DEF Steps
    <2> QED
      BY <2>1, <2>3, <2>4, <2>5, TableFrame DEF TypeInv, TypeOK
  <1> QED
    BY <1>1, <1>2

LEMMA DeprecateStepsType ==
    ASSUME TypeInv, NEW r \in Reqs, MarkDead(r) \/ DropTasks(r) \/ DropFails(r)
    PROVE  TypeInv'
  <1>1. UNCHANGED <<domainVars, copy, had, todo, job>>
    BY DEF MarkDead, DropTasks, DropFails
  <1>2. job[r].op = "deprecate" /\ job[r].names \in SUBSET Names
    BY DeprecateJob DEF MarkDead, DropTasks, DropFails, TypeInv, TypeOK, StepsOf
  <1>3. \A i \in Ids : copy[r][i] # NoTable =>
           /\ copy[r][i].name \in job[r].names
           /\ table[i] \in Docs
           /\ [table[i] EXCEPT !.dead = TRUE] \in Docs
           /\ [table[i] EXCEPT !.dead = TRUE].name = table[i].name
    BY DocThere DEF MarkDead, DropTasks, DropFails, TypeInv, CopiesThere, CopiesAsked, Docs
  <1>4. table' \in [Ids -> Docs \cup {NoTable}] /\ DocsKept
    <2>1. CASE MarkDead(r)
      <3>1. table' = [i \in Ids |-> IF copy[r][i] = NoTable THEN table[i]
                                    ELSE [table[i] EXCEPT !.dead = TRUE]]
        BY <2>1 DEF MarkDead
      <3> QED
        BY <1>3, <3>1, TablesAssumption DEF TypeInv, TypeOK, DocsKept, There
    <2>2. CASE UNCHANGED table
      BY <2>2, TableSame DEF TypeInv, TypeOK
    <2> QED
      BY <2>1, <2>2 DEF DropTasks, DropFails
  <1>5. tasks' \in [Ids -> TaskCounts]
    BY DEF MarkDead, DropTasks, DropFails, TypeInv, TypeOK, NoTasks, TaskCounts
  <1>6. mixed' \subseteq Names
    BY <1>2, TouchType DEF MarkDead, DropTasks, DropFails, TypeInv, TypeOK
  <1>7. settled' \subseteq Ids
    BY DEF MarkDead, DropTasks, DropFails, TypeInv, TypeOK
  <1>8. faults' \in 0 .. MaxFaults
    BY TablesAssumption DEF MarkDead, DropTasks, DropFails, Fault, TypeInv, TypeOK
  <1>9. PICK step \in {"drop", "done", "failed"} : Goto(r, step)
    BY DEF MarkDead, DropTasks, DropFails
  <1>10. AskedAt(r, step)
    BY <1>1, <1>2, <1>3, <1>9 DEF AskedAt
  <1>11. step \in Steps \ {"insert", "find", "push", "link"}
    BY <1>9 DEF Steps, DomainSteps
  <1> QED
    BY <1>1, <1>4, <1>5, <1>6, <1>7, <1>8, <1>9, <1>10, <1>11, TableFrame DEF TypeInv, TypeOK
-----------------------------------------------------------------------------
LEMMA TypeInit == Init => TypeInv
  <1> SUFFICES ASSUME Init PROVE TypeInv
    OBVIOUS
  <1>1. DomainTypeOK
    <2>1. PICK f \in FirstDomains : listed = f.listed /\ titles = f.titles
      BY DEF Init, DomainInit
    <2>2. listed \in Listings /\ titles \in [Classes -> Titles \cup {NoTitle}]
      BY <2>1, TablesAssumption
    <2>3. NotSeen \in Seen
      BY DEF NotSeen, Seen
    <2> QED
      BY <2>2, <2>3 DEF Init, DomainInit, DomainTypeOK
  <1>2. PICK f \in FirstTables : table = f.table /\ tasks = f.tasks
    BY DEF Init
  <1>3. table \in [Ids -> Docs \cup {NoTable}] /\ tasks \in [Ids -> TaskCounts]
    BY <1>2, TablesAssumption
  <1>4. Nothing \in [Ids -> Docs \cup {NoTable}] /\ NoWork \in [Ids -> Work \cup {"none"}]
    BY DEF Nothing, NoWork
  <1>5. TypeOK
    BY <1>1, <1>3, <1>4, TablesAssumption DEF Init, TypeOK, Steps, DomainSteps
  <1>6. StepsOf /\ CopiesThere /\ CopiesAsked
    BY DEF Init, StepsOf, CopiesThere, CopiesAsked, Nothing
  <1> QED
    BY <1>5, <1>6 DEF TypeInv

LEMMA TableStepType ==
    ASSUME TypeInv, NEW r \in Reqs, TableStep(r)
    PROVE  TypeInv'
  BY ReadUpsertType, ReadTasksType, SaveTablesType, TaskStepsType, ReadEditType, WriteEditType,
     CloseType, ReadApproveType, WriteApproveType, ReadDeprecateType, DeprecateStepsType
     DEF TableStep

LEMMA TypeNext == TypeInv /\ [Next]_vars => TypeInv'
  <1> SUFFICES ASSUME TypeInv, [Next]_vars PROVE TypeInv'
    OBVIOUS
  <1>1. CASE UNCHANGED vars
    <2>1. UNCHANGED <<listed, titles, links, rooted, seen, hurt, table, tasks, copy, had, todo, mixed,
                      settled, pc, job, faults>>
      BY <1>1 DEF vars, domainVars, tableVars
    <2>2. TypeOK'
      BY <2>1 DEF TypeInv, TypeOK, DomainTypeOK
    <2>3. StepsOf'
      BY <2>1 DEF TypeInv, StepsOf
    <2>4. CopiesThere' /\ CopiesAsked'
      BY <2>1 DEF TypeInv, CopiesThere, CopiesAsked, There
    <2> QED
      BY <2>2, <2>3, <2>4 DEF TypeInv
  <1>2. CASE Next
    BY <1>2, CrashType, TableStepType, DomainStepType DEF Next
  <1> QED
    BY <1>1, <1>2

\* Every variable keeps its type (Tables.tla, over Domains.tla), and what a request
\* has read of a table is still there under its name.
THEOREM TypeCorrect == Spec => []TypeInv
  <1>1. Init => TypeInv
    BY TypeInit
  <1>2. TypeInv /\ [Next]_vars => TypeInv'
    BY TypeNext
  <1> QED
    BY <1>1, <1>2, PTL DEF Spec
-----------------------------------------------------------------------------
(* Classifications of domains. *)

\* What editDomain writes has all that it read.
EditsAdd ==
    \A r \in Reqs :
        pc[r] = "write" /\ job[r].op = "editDomain" => seen[r].was \subseteq job[r].cs

AddInv == TypeInv /\ EditsAdd

\* A step of a request gives another one nothing to write.
LEMMA OthersAdd ==
    ASSUME AddInv, NEW r \in Reqs, UNCHANGED job,
           \A q \in Reqs \ {r} : pc'[q] \in {pc[q], "gone"} /\ seen'[q] = seen[q],
           pc'[r] = "write" /\ job[r].op = "editDomain" => seen'[r].was \subseteq job[r].cs
    PROVE  EditsAdd'
  BY DEF AddInv, EditsAdd

LEMMA AddNext == AddInv /\ [Next]_vars => AddInv'
  <1> SUFFICES ASSUME AddInv, [Next]_vars PROVE EditsAdd'
    BY TypeNext DEF AddInv
  <1> USE DEF AddInv
  <1>1. CASE UNCHANGED vars
    BY <1>1 DEF vars, domainVars, EditsAdd
  <1>2. CASE Crash
    BY <1>2 DEF Crash, End, EditsAdd
  <1>3. ASSUME NEW r \in Reqs, DomainStep(r)
        PROVE  EditsAdd'
    <2>1. UNCHANGED job /\ \E step : Goto(r, step)
      BY <1>3 DEF DomainStep, ReadCreateDomain, WriteCreateDomain, ReadEditDomain, WriteEditDomain,
             ReadCreateClass, InsertClass, FindDomains, PushClass, RenameClass, WriteLinks, LinksFail
    <2>2. UNCHANGED seen \/ \E s : See(r, s)
      BY <1>3 DEF DomainStep, ReadCreateDomain, WriteCreateDomain, ReadEditDomain, WriteEditDomain,
             ReadCreateClass, InsertClass, FindDomains, PushClass, RenameClass, WriteLinks, LinksFail,
             domainVars
    <2>3. \A q \in Reqs \ {r} : pc'[q] = pc[q] /\ seen'[q] = seen[q]
      BY <2>1, <2>2 DEF Goto, See, TypeInv, TypeOK, DomainTypeOK
    <2>4. ASSUME pc'[r] = "write", job[r].op = "editDomain"
          PROVE  seen'[r].was \subseteq job[r].cs
      <3>1. ReadEditDomain(r)
        BY <1>3, <2>4 DEF DomainStep, ReadCreateDomain, WriteCreateDomain, WriteEditDomain,
               ReadCreateClass, InsertClass, FindDomains, PushClass, RenameClass, WriteLinks, LinksFail,
               Goto, TypeInv, TypeOK, StepsOf
      <3>2. /\ listed[job[r].d] \subseteq job[r].cs
            /\ seen' = [seen EXCEPT ![r] = [NotSeen EXCEPT !.was = listed[job[r].d]]]
        BY <2>4, <3>1 DEF ReadEditDomain, Goto, See, TypeInv, TypeOK
      <3>3. seen'[r].was = listed[job[r].d]
        BY <3>2 DEF TypeInv, TypeOK, DomainTypeOK, NotSeen
      <3> QED
        BY <3>2, <3>3
    <2> QED
      BY <2>1, <2>3, <2>4, OthersAdd
  <1>4. ASSUME NEW r \in Reqs, TableStep(r)
        PROVE  EditsAdd'
    <2>1. UNCHANGED <<job, seen>>
      BY <1>4 DEF TableStep, ReadUpsert, ReadTasks, SaveTables, SaveThrows, WriteTasks, TasksFail,
             ReadEdit, WriteEdit, CloseTask, CloseFails, ReadApprove, WriteApprove, ReadDeprecate,
             MarkDead, DropTasks, DropFails, Fail, End, domainVars
    <2>2. \A q \in Reqs \ {r} : pc'[q] \in {pc[q], "gone"}
      BY <1>4 DEF TableStep, ReadUpsert, ReadTasks, SaveTables, SaveThrows, WriteTasks, TasksFail,
             ReadEdit, WriteEdit, CloseTask, CloseFails, ReadApprove, WriteApprove, ReadDeprecate,
             MarkDead, DropTasks, DropFails, Fail, End, Goto, TypeInv, TypeOK
    <2>3. pc'[r] = "write" => job[r].op # "editDomain"
      BY <1>4 DEF TableStep, ReadUpsert, ReadTasks, SaveTables, SaveThrows, WriteTasks, TasksFail,
             ReadEdit, WriteEdit, CloseTask, CloseFails, ReadApprove, WriteApprove, ReadDeprecate,
             MarkDead, DropTasks, DropFails, Fail, End, Goto, TypeInv, TypeOK, Running
    <2> QED
      BY <2>1, <2>2, <2>3, OthersAdd
  <1> QED
    BY <1>1, <1>2, <1>3, <1>4 DEF Next

LEMMA AddStep ==
    ASSUME AddInv, [Next]_vars, NEW d \in Domains, Exists(d)
    PROVE  listed[d] \subseteq listed'[d] \/ d \in hurt'
  <1>1. CASE UNCHANGED listed
    BY <1>1
  <1>2. ASSUME NEW r \in Reqs, WriteCreateDomain(r)
        PROVE  listed[d] \subseteq listed'[d]
    <2>1. CASE Exists(job[r].d)
      BY <1>2, <2>1 DEF WriteCreateDomain
    <2>2. CASE ~Exists(job[r].d)
      <3>1. listed' = [listed EXCEPT ![job[r].d] = job[r].cs] /\ d # job[r].d
        BY <1>2, <2>2 DEF WriteCreateDomain
      <3> QED
        BY <3>1 DEF AddInv, TypeInv, TypeOK, DomainTypeOK, Listings
    <2> QED
      BY <2>1, <2>2
  <1>3. ASSUME NEW r \in Reqs, WriteEditDomain(r)
        PROVE  listed[d] \subseteq listed'[d] \/ d \in hurt'
    <2>1. seen[r].was \subseteq job[r].cs
      BY <1>3 DEF WriteEditDomain, AddInv, EditsAdd
    <2>2. /\ listed' = [listed EXCEPT ![job[r].d] = job[r].cs]
          /\ hurt' = IF listed[job[r].d] = seen[r].was THEN hurt ELSE hurt \cup {job[r].d}
      BY <1>3 DEF WriteEditDomain
    <2>3. listed \in Listings
      BY DEF AddInv, TypeInv, TypeOK, DomainTypeOK
    <2> QED
      BY <2>1, <2>2, <2>3 DEF Listings
  <1>4. ASSUME NEW r \in Reqs, PushClass(r)
        PROVE  listed[d] \subseteq listed'[d]
    BY <1>4 DEF PushClass
  <1>5. ASSUME NEW r \in Reqs, TableStep(r)
        PROVE  UNCHANGED listed
    BY <1>5 DEF TableStep, ReadUpsert, ReadTasks, SaveTables, SaveThrows, WriteTasks, TasksFail,
           ReadEdit, WriteEdit, CloseTask, CloseFails, ReadApprove, WriteApprove, ReadDeprecate,
           MarkDead, DropTasks, DropFails, Fail, End, domainVars
  <1>6. ASSUME NEW r \in Reqs, DomainStep(r), ~(WriteCreateDomain(r) \/ WriteEditDomain(r) \/ PushClass(r))
        PROVE  UNCHANGED listed
    BY <1>6 DEF DomainStep, ReadCreateDomain, ReadEditDomain, ReadCreateClass, InsertClass, FindDomains,
           RenameClass, WriteLinks, LinksFail, domainVars
  <1>7. Crash \/ UNCHANGED vars => UNCHANGED listed
    BY DEF Crash, End, vars, domainVars
  <1> QED
    BY <1>1, <1>2, <1>3, <1>4, <1>5, <1>6, <1>7 DEF Next

\* editDomainById says that classifications can only be added to a domain
\* (domains.service.ts): no step takes one away, but for the write of a list that
\* was computed before another request wrote.
THEOREM ClassificationsOnlyAdded == Spec => OnlyAdded
  <1>1. Init => AddInv
    BY TypeInit DEF AddInv, EditsAdd, Init
  <1>2. AddInv /\ [Next]_vars => AddInv'
    BY AddNext
  <1>3. AddInv /\ [Next]_vars =>
           [\A d \in Domains : Exists(d) => listed[d] \subseteq listed'[d] \/ d \in hurt']_<<listed, hurt>>
    BY AddStep
  <1> QED
    BY <1>1, <1>2, <1>3, PTL DEF Spec, OnlyAdded
-----------------------------------------------------------------------------
(* Tuples of domains and classifications. *)

\* What a request still has to write: the tuple of a classification in a domain it
\* has listed it for, and that of a domain it has created.
OwesLink(r, d, c) == pc[r] = "link" /\ d \in seen[r].found /\ c \in seen[r].made

OwesRoot(r, d) == pc[r] = "link" /\ job[r].op = "createDomain" /\ d \in seen[r].found

\* Tuples and what is owed of them are what the documents list, but for the domains
\* that were hurt.
Mirrored ==
    \A d \in Domains \ hurt :
        /\ \A c \in Classes : (<<d, c>> \in links \/ \E r \in Reqs : OwesLink(r, d, c))
                                  <=> (Exists(d) /\ c \in listed[d])
        /\ (d \in rooted \/ \E r \in Reqs : OwesRoot(r, d)) <=> Exists(d)

\* A request that creates a classification knows domains that exist, and those it
\* has not found are without need of it.
Creating ==
    \A r \in Reqs :
        /\ pc[r] \in {"insert", "find", "push"} => \A d \in job[r].ds : Exists(d)
        /\ pc[r] \in {"find", "push"} => \E c \in Classes : seen[r].made = {c}
        /\ pc[r] = "push" =>
              /\ seen[r].found \subseteq job[r].ds
              /\ \A d \in job[r].ds \ (seen[r].found \cup hurt) : seen[r].made \subseteq listed[d]

\* The domains a request has found or written exist.
FoundThere == \A r \in Reqs : pc[r] \in {"push", "link"} => \A d \in seen[r].found : Exists(d)

LinkInv == AddInv /\ Mirrored /\ Creating /\ FoundThere

\* No domain is deleted.
DomainsStay == \A d \in Domains : Exists(d) => listed'[d] # NoDomain

\* What a step of r leaves of the others.
OthersLink(r) ==
    \A q \in Reqs \ {r} : pc'[q] = pc[q] /\ seen'[q] = seen[q]

LEMMA OthersOwe ==
    ASSUME NEW r \in Reqs, UNCHANGED job, OthersLink(r)
    PROVE  \A q \in Reqs \ {r} :
              /\ \A d, c : OwesLink(q, d, c)' <=> OwesLink(q, d, c)
              /\ \A d : OwesRoot(q, d)' <=> OwesRoot(q, d)
  BY DEF OthersLink, OwesLink, OwesRoot

\* Lists that only grow, but for domains that are hurt, keep what other requests
\* know of domains.
LEMMA OthersKnow ==
    ASSUME LinkInv, NEW r \in Reqs, UNCHANGED job, OthersLink(r), DomainsStay,
           hurt \subseteq hurt',
           \A d \in Domains \ hurt' : Exists(d) => listed[d] \subseteq listed'[d],
           Creating!(r)', FoundThere!(r)'
    PROVE  Creating' /\ FoundThere'
  <1>1. ASSUME NEW q \in Reqs \ {r} PROVE Creating!(q)' /\ FoundThere!(q)'
    <2>1. /\ pc'[q] = pc[q] /\ seen'[q] = seen[q] /\ job'[q] = job[q]
          /\ seen[q].found \subseteq Domains /\ seen[q].made \subseteq Classes
      BY SeenType DEF OthersLink, LinkInv, AddInv, TypeInv
    <2>2. pc[q] \in {"insert", "find", "push"} => job[q].ds \subseteq Domains
      <3>1. pc[q] \in {"insert", "find", "push"} => job[q] \in Jobs /\ job[q].op = "createClass"
        BY DEF LinkInv, AddInv, TypeInv, TypeOK, StepsOf
      <3> QED
        BY <3>1, ClassJob
    <2>3. FoundThere!(q)'
      BY <2>1 DEF LinkInv, FoundThere, DomainsStay, Exists
    <2>4. pc'[q] \in {"insert", "find", "push"} => \A d \in job'[q].ds : Exists(d)'
      BY <2>1, <2>2 DEF LinkInv, Creating, DomainsStay, Exists
    <2>5. pc'[q] = "push" =>
              /\ seen'[q].found \subseteq job'[q].ds
              /\ \A d \in job'[q].ds \ (seen'[q].found \cup hurt') : seen'[q].made \subseteq listed'[d]
      BY <2>1, <2>2 DEF LinkInv, Creating
    <2> QED
      BY <2>1, <2>3, <2>4, <2>5 DEF LinkInv, Creating
  <1> QED
    BY <1>1 DEF Creating, FoundThere

\* A step that leaves domains alone, and is no step of a request that owes tuples or
\* creates a classification.
LEMMA LinkFrame ==
    ASSUME LinkInv, UNCHANGED <<listed, links, rooted, hurt, job>>,
           \A q \in Reqs : \/ pc'[q] = pc[q] /\ seen'[q] = seen[q]
                           \/ {pc[q], pc'[q]} \cap {"insert", "find", "push", "link"} = {}
    PROVE  Mirrored' /\ Creating' /\ FoundThere'
  <1>1. \A q \in Reqs : /\ \A d, c : OwesLink(q, d, c)' <=> OwesLink(q, d, c)
                        /\ \A d : OwesRoot(q, d)' <=> OwesRoot(q, d)
    BY DEF OwesLink, OwesRoot
  <1>2. Mirrored'
    BY <1>1 DEF LinkInv, Mirrored, Exists
  <1>3. Creating' /\ FoundThere'
    BY DEF LinkInv, Creating, FoundThere, Exists
  <1> QED
    BY <1>2, <1>3

LEMMA LinkCreateDomain ==
    ASSUME LinkInv, NEW r \in Reqs, WriteCreateDomain(r)
    PROVE  Mirrored' /\ Creating' /\ FoundThere'
  <1> DEFINE d == job[r].d
             cs == job[r].cs
  <1>1. /\ pc[r] = "write" /\ job[r].op = "createDomain" /\ d \in Domains /\ cs \subseteq Classes
        /\ UNCHANGED <<links, rooted, hurt, job>>
    BY DomainJob DEF WriteCreateDomain, LinkInv, AddInv, TypeInv, TypeOK
  <1>2. CASE Exists(d)
    BY <1>1, <1>2, LinkFrame DEF WriteCreateDomain, Goto, LinkInv, AddInv, TypeInv, TypeOK
  <1>3. CASE ~Exists(d)
    <2>1. /\ listed' = [listed EXCEPT ![d] = cs]
          /\ See(r, [NotSeen EXCEPT !.made = cs, !.found = {d}])
          /\ Goto(r, "link")
      BY <1>3 DEF WriteCreateDomain
    <2>2. /\ listed'[d] = cs /\ \A e \in Domains \ {d} : listed'[e] = listed[e]
          /\ cs # NoDomain
      BY <1>1, <2>1, TablesAssumption DEF LinkInv, AddInv, TypeInv, TypeOK, DomainTypeOK, Listings
    <2>3. /\ OthersLink(r) /\ pc'[r] = "link" /\ seen'[r].made = cs /\ seen'[r].found = {d}
      BY <2>1 DEF OthersLink, See, Goto, NotSeen, LinkInv, AddInv, TypeInv, TypeOK, DomainTypeOK
    <2>4. DomainsStay /\ listed'[d] # NoDomain
      BY <1>3, <2>2 DEF DomainsStay, Exists
    <2>5. Creating' /\ FoundThere'
      BY <1>1, <1>3, <2>2, <2>3, <2>4, OthersKnow DEF Exists
    <2>6. \A q \in Reqs : pc[q] = "link" => d \notin seen[q].found
      BY <1>3 DEF LinkInv, FoundThere
    <2>7. Mirrored'
      <3> SUFFICES ASSUME NEW e \in Domains \ hurt
                   PROVE  /\ \A c \in Classes : (<<e, c>> \in links \/ \E q \in Reqs : OwesLink(q, e, c)')
                                                   <=> (Exists(e)' /\ c \in listed'[e])
                          /\ (e \in rooted \/ \E q \in Reqs : OwesRoot(q, e)') <=> Exists(e)'
        BY <1>1 DEF Mirrored
      <3>1. /\ \A q \in Reqs \ {r} : /\ \A c : OwesLink(q, e, c)' <=> OwesLink(q, e, c)
                                     /\ OwesRoot(q, e)' <=> OwesRoot(q, e)
            /\ \A c : OwesLink(r, e, c)' <=> e = d /\ c \in cs
            /\ \A c : ~OwesLink(r, e, c)
            /\ OwesRoot(r, e)' <=> e = d
            /\ ~OwesRoot(r, e)
        BY <1>1, <2>3, OthersOwe DEF OwesLink, OwesRoot
      <3>2. CASE e = d
        <4>1. /\ \A c \in Classes : <<e, c>> \notin links
              /\ e \notin rooted
          BY <1>3, <3>2 DEF LinkInv, Mirrored
        <4>2. \A q \in Reqs : \A c : ~OwesLink(q, e, c)
          BY <2>6, <3>2 DEF OwesLink
        <4> QED
          BY <2>2, <2>4, <3>1, <3>2, <4>1, <4>2 DEF Exists
      <3>3. CASE e # d
        <4>1. listed'[e] = listed[e] /\ (Exists(e)' <=> Exists(e))
          BY <2>2, <3>3 DEF Exists
        <4>2. /\ \A c : (\E q \in Reqs : OwesLink(q, e, c)') <=> \E q \in Reqs : OwesLink(q, e, c)
              /\ (\E q \in Reqs : OwesRoot(q, e)') <=> \E q \in Reqs : OwesRoot(q, e)
          BY <3>1, <3>3
        <4> QED
          BY <4>1, <4>2 DEF LinkInv, Mirrored
      <3> QED
        BY <3>2, <3>3
    <2> QED
      BY <2>5, <2>7
  <1> QED
    BY <1>2, <1>3

LEMMA LinkEditDomain ==
    ASSUME LinkInv, NEW r \in Reqs, WriteEditDomain(r)
    PROVE  Mirrored' /\ Creating' /\ FoundThere'
  <1> DEFINE d == job[r].d
             cs == job[r].cs
             made == cs \ seen[r].was
  <1>1. /\ pc[r] = "write" /\ job[r].op = "editDomain" /\ d \in Domains /\ cs \subseteq Classes
        /\ seen[r].was \subseteq cs /\ seen[r].was \in SUBSET Classes
        /\ UNCHANGED <<links, rooted, job>>
    BY DomainJob, SeenType DEF WriteEditDomain, LinkInv, AddInv, EditsAdd, TypeInv, TypeOK
  <1>2. /\ listed' = [listed EXCEPT ![d] = cs]
        /\ See(r, [seen[r] EXCEPT !.made = made, !.found = {d}])
        /\ Goto(r, "link")
        /\ hurt' = IF listed[d] = seen[r].was THEN hurt ELSE hurt \cup {d}
    BY DEF WriteEditDomain
  <1>3. /\ listed'[d] = cs /\ \A e \in Domains \ {d} : listed'[e] = listed[e]
        /\ cs # NoDomain /\ seen[r].was # NoDomain
    BY <1>1, <1>2, TablesAssumption DEF LinkInv, AddInv, TypeInv, TypeOK, DomainTypeOK, Listings
  <1>4. seen[r] \in Seen
    BY SeenType DEF LinkInv, AddInv, TypeInv
  <1>5. /\ OthersLink(r) /\ pc'[r] = "link" /\ seen'[r].made = made /\ seen'[r].found = {d}
    BY <1>2, <1>4 DEF OthersLink, See, Goto, Seen, LinkInv, AddInv, TypeInv, TypeOK, DomainTypeOK
  <1>6. DomainsStay /\ listed'[d] # NoDomain /\ hurt \subseteq hurt'
    BY <1>2, <1>3 DEF DomainsStay, Exists
  <1>7. \A e \in Domains \ hurt' : Exists(e) => listed[e] \subseteq listed'[e]
    BY <1>1, <1>2, <1>3
  <1>8. Creating' /\ FoundThere'
    BY <1>1, <1>5, <1>6, <1>7, OthersKnow DEF Exists
  <1>9. Mirrored'
    <2> SUFFICES ASSUME NEW e \in Domains \ hurt'
                 PROVE  /\ \A c \in Classes : (<<e, c>> \in links \/ \E q \in Reqs : OwesLink(q, e, c)')
                                                 <=> (Exists(e)' /\ c \in listed'[e])
                        /\ (e \in rooted \/ \E q \in Reqs : OwesRoot(q, e)') <=> Exists(e)'
      BY <1>1 DEF Mirrored
    <2>1. /\ \A q \in Reqs \ {r} : /\ \A c : OwesLink(q, e, c)' <=> OwesLink(q, e, c)
                                   /\ OwesRoot(q, e)' <=> OwesRoot(q, e)
          /\ \A c : OwesLink(r, e, c)' <=> e = d /\ c \in made
          /\ \A c : ~OwesLink(r, e, c)
          /\ ~OwesRoot(r, e)' /\ ~OwesRoot(r, e)
      BY <1>1, <1>5, OthersOwe DEF OwesLink, OwesRoot
    <2>2. /\ \A c : (\E q \in Reqs : OwesLink(q, e, c)') <=>
                        (\E q \in Reqs : OwesLink(q, e, c)) \/ (e = d /\ c \in made)
          /\ (\E q \in Reqs : OwesRoot(q, e)') <=> \E q \in Reqs : OwesRoot(q, e)
      BY <2>1
    <2>3. /\ \A c \in Classes : (<<e, c>> \in links \/ \E q \in Reqs : OwesLink(q, e, c))
                                    <=> (Exists(e) /\ c \in listed[e])
          /\ (e \in rooted \/ \E q \in Reqs : OwesRoot(q, e)) <=> Exists(e)
      BY <1>6 DEF LinkInv, Mirrored
    <2>4. CASE e = d
      <3>1. listed[d] = seen[r].was /\ Exists(d)
        BY <1>2, <1>3, <2>4 DEF Exists
      <3> HIDE DEF made
      <3>2. \A c \in Classes : c \in cs <=> c \in listed[d] \/ c \in made
        BY <1>1, <3>1 DEF made
      <3> QED
        BY <1>3, <1>6, <2>2, <2>3, <2>4, <3>1, <3>2 DEF Exists
    <2>5. CASE e # d
      <3>1. listed'[e] = listed[e] /\ (Exists(e)' <=> Exists(e))
        BY <1>3, <2>5 DEF Exists
      <3> QED
        BY <2>2, <2>3, <2>5, <3>1
    <2> QED
      BY <2>4, <2>5
  <1> QED
    BY <1>8, <1>9

LEMMA LinkCreateClass ==
    ASSUME LinkInv, NEW r \in Reqs, ReadCreateClass(r) \/ InsertClass(r) \/ FindDomains(r)
    PROVE  Mirrored' /\ Creating' /\ FoundThere'
  <1>1. /\ job[r].op = "createClass" /\ job[r].ds \subseteq Domains
        /\ UNCHANGED <<listed, links, rooted, hurt, job>>
        /\ pc[r] \in {"new", "insert", "find"}
    <2>1. job[r].op = "createClass" /\ job[r] \in Jobs
      BY DEF ReadCreateClass, InsertClass, FindDomains, LinkInv, AddInv, TypeInv, TypeOK, StepsOf
    <2> QED
      BY <2>1, ClassJob DEF ReadCreateClass, InsertClass, FindDomains, domainVars
  <1>2. PICK step \in {"failed", "insert", "find", "push"} : Goto(r, step)
    BY DEF ReadCreateClass, InsertClass, FindDomains
  <1>3. UNCHANGED seen \/ \E s : See(r, s)
    BY DEF ReadCreateClass, InsertClass, FindDomains, domainVars
  <1>4. OthersLink(r) /\ pc'[r] = step
    BY <1>2, <1>3 DEF OthersLink, See, Goto, LinkInv, AddInv, TypeInv, TypeOK, DomainTypeOK
  <1>5. DomainsStay /\ hurt \subseteq hurt' /\ \A d \in Domains \ hurt' : Exists(d) => listed[d] \subseteq listed'[d]
    BY <1>1 DEF DomainsStay, Exists
  <1>6. Creating!(r)' /\ FoundThere!(r)'
    <2>1. CASE ReadCreateClass(r)
      <3>1. pc'[r] \in {"failed", "insert"} /\ \A d \in job[r].ds : Exists(d)
        BY <2>1 DEF ReadCreateClass, Goto, LinkInv, AddInv, TypeInv, TypeOK
      <3> QED
        BY <1>1, <3>1 DEF Exists
    <2>2. CASE InsertClass(r)
      <3>1. CASE pc'[r] = "failed"
        BY <3>1
      <3>2. CASE pc'[r] # "failed"
        <4>1. PICK c \in Classes : See(r, [NotSeen EXCEPT !.made = {c}]) /\ Goto(r, "find")
          BY <2>2, <3>2 DEF InsertClass, Goto, LinkInv, AddInv, TypeInv, TypeOK
        <4>2. seen'[r].made = {c} /\ pc'[r] = "find"
          BY <4>1 DEF See, Goto, NotSeen, LinkInv, AddInv, TypeInv, TypeOK, DomainTypeOK
        <4>3. \A d \in job[r].ds : Exists(d)
          BY <2>2 DEF InsertClass, LinkInv, Creating
        <4> QED
          BY <1>1, <4>2, <4>3 DEF Exists
      <3> QED
        BY <3>1, <3>2
    <2>3. CASE FindDomains(r)
      <3>1. PICK c \in Classes : seen[r].made = {c}
        BY <2>3 DEF FindDomains, LinkInv, Creating
      <3>2. \A d \in job[r].ds : Exists(d)
        BY <2>3 DEF FindDomains, LinkInv, Creating
      <3>3. seen[r] \in Seen
        BY SeenType DEF LinkInv, AddInv, TypeInv
      <3>4. seen'[r].made = {c} /\ seen'[r].found = Lacking(r) /\ pc'[r] = "push"
        BY <2>3, <3>1, <3>3 DEF FindDomains, See, Goto, Seen, LinkInv, AddInv, TypeInv, TypeOK, DomainTypeOK
      <3>5. \A d \in job[r].ds \ Lacking(r) : c \in listed[d]
        BY <3>1, <3>2 DEF Lacking
      <3>6. \A d \in Lacking(r) : Exists(d) /\ d \in job[r].ds
        BY DEF Lacking
      <3> QED
        BY <1>1, <3>2, <3>4, <3>5, <3>6 DEF Exists
    <2> QED
      BY <2>1, <2>2, <2>3
  <1>7. Creating' /\ FoundThere'
    BY <1>1, <1>4, <1>5, <1>6, OthersKnow
  <1>8. Mirrored'
    <2>1. \A q \in Reqs : /\ \A d, c : OwesLink(q, d, c)' <=> OwesLink(q, d, c)
                          /\ \A d : OwesRoot(q, d)' <=> OwesRoot(q, d)
      BY <1>1, <1>2, <1>4 DEF OthersLink, OwesLink, OwesRoot
    <2> QED
      BY <1>1, <2>1 DEF LinkInv, Mirrored, Exists
  <1> QED
    BY <1>7, <1>8

\* The domains that updateMany finds were found before, or have the classification.
LEMMA LinkPush ==
    ASSUME LinkInv, NEW r \in Reqs, PushClass(r)
    PROVE  Mirrored' /\ Creating' /\ FoundThere'
  <1>1. /\ pc[r] = "push" /\ UNCHANGED <<links, rooted, seen, hurt, job>>
        /\ listed' = [d \in Domains |-> IF d \in Lacking(r) THEN listed[d] \cup seen[r].made ELSE listed[d]]
    BY DEF PushClass
  <1>2. job[r].op = "createClass" /\ job[r].ds \subseteq Domains
    <2>1. job[r].op = "createClass" /\ job[r] \in Jobs
      BY <1>1 DEF LinkInv, AddInv, TypeInv, TypeOK, StepsOf
    <2> QED
      BY <2>1, ClassJob
  <1>3. OthersLink(r) /\ pc'[r] = "link"
    BY DEF PushClass, OthersLink, Goto, LinkInv, AddInv, TypeInv, TypeOK
  <1>4. PICK k \in Classes : seen[r].made = {k}
    BY <1>1 DEF LinkInv, Creating
  <1>5. \A d \in Domains : listed[d] \in {NoDomain} \cup SUBSET Classes
    BY DEF LinkInv, AddInv, TypeInv, TypeOK, DomainTypeOK, Listings
  <1>6. ASSUME NEW d \in Domains
        PROVE  /\ listed'[d] # NoDomain <=> listed[d] # NoDomain
               /\ d \notin Lacking(r) => listed'[d] = listed[d]
               /\ d \in Lacking(r) => Exists(d) /\ listed'[d] = listed[d] \cup {k}
    <2>1. CASE d \in Lacking(r)
      <3>1. Exists(d) /\ listed'[d] = listed[d] \cup {k}
        BY <1>1, <1>4, <2>1 DEF Lacking
      <3>2. listed'[d] \in SUBSET Classes
        BY <1>5, <3>1 DEF Exists
      <3> QED
        BY <2>1, <3>1, <3>2, TablesAssumption DEF Exists
    <2>2. CASE d \notin Lacking(r)
      BY <1>1, <2>2
    <2> QED
      BY <2>1, <2>2
  <1>7. /\ DomainsStay /\ hurt \subseteq hurt'
        /\ \A d \in Domains \ hurt' : Exists(d) => listed[d] \subseteq listed'[d]
    BY <1>1, <1>6 DEF DomainsStay, Exists
  <1>8. seen[r].found \subseteq Domains /\ \A d \in seen[r].found : Exists(d)
    BY <1>1, SeenType DEF LinkInv, AddInv, TypeInv, FoundThere
  <1>9. Creating' /\ FoundThere'
    <2>1. Creating!(r)' /\ FoundThere!(r)'
      BY <1>1, <1>3, <1>6, <1>8 DEF Exists
    <2> QED
      BY <1>1, <1>3, <1>7, <2>1, OthersKnow
  <1>10. Mirrored'
    <2> SUFFICES ASSUME NEW e \in Domains \ hurt
                 PROVE  /\ \A c \in Classes : (<<e, c>> \in links \/ \E q \in Reqs : OwesLink(q, e, c)')
                                                 <=> (Exists(e)' /\ c \in listed'[e])
                        /\ (e \in rooted \/ \E q \in Reqs : OwesRoot(q, e)') <=> Exists(e)'
      BY <1>1 DEF Mirrored
    <2>1. /\ \A q \in Reqs \ {r} : /\ \A c : OwesLink(q, e, c)' <=> OwesLink(q, e, c)
                                   /\ OwesRoot(q, e)' <=> OwesRoot(q, e)
          /\ \A c : OwesLink(r, e, c)' <=> e \in seen[r].found /\ c = k
          /\ \A c : ~OwesLink(r, e, c)
          /\ ~OwesRoot(r, e)' /\ ~OwesRoot(r, e)
      BY <1>1, <1>2, <1>3, <1>4, OthersOwe DEF OwesLink, OwesRoot
    <2>2. /\ \A c : (\E q \in Reqs : OwesLink(q, e, c)') <=>
                        (\E q \in Reqs : OwesLink(q, e, c)) \/ (e \in seen[r].found /\ c = k)
          /\ (\E q \in Reqs : OwesRoot(q, e)') <=> \E q \in Reqs : OwesRoot(q, e)
      BY <2>1
    <2>3. /\ \A c \in Classes : (<<e, c>> \in links \/ \E q \in Reqs : OwesLink(q, e, c))
                                    <=> (Exists(e) /\ c \in listed[e])
          /\ (e \in rooted \/ \E q \in Reqs : OwesRoot(q, e)) <=> Exists(e)
      BY DEF LinkInv, Mirrored
    <2>4. e \in Lacking(r) => e \in seen[r].found
      <3>1. ASSUME e \in Lacking(r), e \notin seen[r].found PROVE FALSE
        <4>1. e \in job[r].ds /\ k \notin listed[e]
          BY <1>4, <3>1 DEF Lacking
        <4>2. seen[r].made \subseteq listed[e]
          BY <1>1, <3>1, <4>1 DEF LinkInv, Creating
        <4> QED
          BY <1>4, <4>1, <4>2
      <3> QED
        BY <3>1
    <2>5. e \in seen[r].found \ Lacking(r) => k \in listed[e]
      <3>1. e \in seen[r].found => e \in job[r].ds /\ Exists(e)
        BY <1>1, <1>8 DEF LinkInv, Creating
      <3> QED
        BY <1>4, <3>1 DEF Lacking
    <2>6. CASE e \in Lacking(r)
      BY <1>6, <2>2, <2>3, <2>4, <2>6 DEF Exists
    <2>7. CASE e \notin Lacking(r)
      <3>1. listed'[e] = listed[e] /\ (Exists(e)' <=> Exists(e))
        BY <1>6, <2>7 DEF Exists
      <3> QED
        BY <1>8, <2>2, <2>3, <2>5, <2>7, <3>1
    <2> QED
      BY <2>6, <2>7
  <1> QED
    BY <1>9, <1>10

LEMMA LinkWrite ==
    ASSUME LinkInv, NEW r \in Reqs, WriteLinks(r)
    PROVE  Mirrored' /\ Creating' /\ FoundThere'
  <1>1. /\ pc[r] = "link" /\ UNCHANGED <<listed, seen, hurt, job>>
        /\ links' = links \cup (seen[r].found \X seen[r].made)
        /\ rooted' = rooted \cup NewRoots(r)
    BY DEF WriteLinks, NewLinks
  <1>2. OthersLink(r) /\ pc'[r] = "done"
    BY DEF WriteLinks, OthersLink, Goto, LinkInv, AddInv, TypeInv, TypeOK
  <1>3. Creating' /\ FoundThere'
    <2>1. Creating!(r)' /\ FoundThere!(r)'
      BY <1>2
    <2>2. /\ DomainsStay /\ hurt \subseteq hurt'
          /\ \A d \in Domains \ hurt' : Exists(d) => listed[d] \subseteq listed'[d]
      BY <1>1 DEF DomainsStay, Exists
    <2> QED
      BY <1>1, <1>2, <2>1, <2>2, OthersKnow
  <1>4. Mirrored'
    <2> SUFFICES ASSUME NEW e \in Domains \ hurt
                 PROVE  /\ \A c \in Classes : (<<e, c>> \in links' \/ \E q \in Reqs : OwesLink(q, e, c)')
                                                 <=> (Exists(e) /\ c \in listed[e])
                        /\ (e \in rooted' \/ \E q \in Reqs : OwesRoot(q, e)') <=> Exists(e)
      BY <1>1 DEF Mirrored, Exists
    <2>1. /\ \A q \in Reqs \ {r} : /\ \A c : OwesLink(q, e, c)' <=> OwesLink(q, e, c)
                                   /\ OwesRoot(q, e)' <=> OwesRoot(q, e)
          /\ \A c : ~OwesLink(r, e, c)'
          /\ ~OwesRoot(r, e)'
      BY <1>1, <1>2, OthersOwe DEF OwesLink, OwesRoot
    <2>2. /\ \A c : <<e, c>> \in links' <=> <<e, c>> \in links \/ OwesLink(r, e, c)
          /\ e \in rooted' <=> e \in rooted \/ OwesRoot(r, e)
      BY <1>1 DEF OwesLink, OwesRoot, NewRoots
    <2>3. /\ \A c : (<<e, c>> \in links' \/ \E q \in Reqs : OwesLink(q, e, c)') <=>
                        (<<e, c>> \in links \/ \E q \in Reqs : OwesLink(q, e, c))
          /\ (e \in rooted' \/ \E q \in Reqs : OwesRoot(q, e)') <=>
                        (e \in rooted \/ \E q \in Reqs : OwesRoot(q, e))
      BY <2>1, <2>2
    <2> QED
      BY <2>3 DEF LinkInv, Mirrored
  <1> QED
    BY <1>3, <1>4

LEMMA LinkFails ==
    ASSUME LinkInv, NEW r \in Reqs, LinksFail(r)
    PROVE  Mirrored' /\ Creating' /\ FoundThere'
  <1>1. /\ pc[r] = "link" /\ UNCHANGED <<listed, links, rooted, seen, job>>
        /\ hurt' = hurt \cup seen[r].found
    BY DEF LinksFail
  <1>2. OthersLink(r) /\ pc'[r] \in {"done", "failed"}
    BY <1>1 DEF LinksFail, OthersLink, Goto, LinkInv, AddInv, TypeInv, TypeOK
  <1>3. Creating' /\ FoundThere'
    <2>1. Creating!(r)' /\ FoundThere!(r)'
      BY <1>2
    <2>2. /\ DomainsStay /\ hurt \subseteq hurt'
          /\ \A d \in Domains \ hurt' : Exists(d) => listed[d] \subseteq listed'[d]
      BY <1>1 DEF DomainsStay, Exists
    <2> QED
      BY <1>1, <1>2, <2>1, <2>2, OthersKnow
  <1>4. Mirrored'
    <2> SUFFICES ASSUME NEW e \in Domains \ hurt'
                 PROVE  /\ \A c \in Classes : (<<e, c>> \in links \/ \E q \in Reqs : OwesLink(q, e, c)')
                                                 <=> (Exists(e) /\ c \in listed[e])
                        /\ (e \in rooted \/ \E q \in Reqs : OwesRoot(q, e)') <=> Exists(e)
      BY <1>1 DEF Mirrored, Exists
    <2>1. \A q \in Reqs : /\ \A c : OwesLink(q, e, c)' <=> OwesLink(q, e, c)
                          /\ OwesRoot(q, e)' <=> OwesRoot(q, e)
      BY <1>1, <1>2, OthersOwe DEF OwesLink, OwesRoot
    <2> QED
      BY <1>1, <2>1 DEF LinkInv, Mirrored
  <1> QED
    BY <1>3, <1>4

\* The process ends: what requests owed is lost, and their domains are hurt.
LEMMA LinkEnd ==
    ASSUME LinkInv, NEW qs \in SUBSET Reqs, Running \subseteq qs, End(qs)
    PROVE  Mirrored' /\ Creating' /\ FoundThere'
  <1>1. /\ UNCHANGED <<listed, links, rooted, seen, job>>
        /\ hurt' = hurt \cup {d \in Domains : Linking(d)}
    BY DEF End
  <1>2. \A q \in Reqs : pc'[q] \notin {"insert", "find", "push", "link"}
    BY DEF End, Running
  <1>3. ASSUME NEW e \in Domains \ hurt', NEW q \in Reqs
        PROVE  /\ \A c : ~OwesLink(q, e, c) /\ ~OwesLink(q, e, c)'
               /\ ~OwesRoot(q, e) /\ ~OwesRoot(q, e)'
    BY <1>1, <1>2, <1>3 DEF OwesLink, OwesRoot, Linking
  <1>4. Mirrored'
    BY <1>1, <1>3 DEF LinkInv, Mirrored, Exists
  <1> QED
    BY <1>2, <1>4 DEF Creating, FoundThere

LEMMA LinkNext == LinkInv /\ [Next]_vars => LinkInv'
  <1> SUFFICES ASSUME LinkInv, [Next]_vars PROVE Mirrored' /\ Creating' /\ FoundThere'
    BY AddNext DEF LinkInv
  <1>1. CASE UNCHANGED vars
    BY <1>1, LinkFrame DEF vars, domainVars
  <1>2. CASE Crash
    BY <1>2, LinkEnd DEF Crash, Running
  <1>3. ASSUME NEW r \in Reqs, ReadCreateDomain(r) \/ ReadEditDomain(r) \/ RenameClass(r)
        PROVE  Mirrored' /\ Creating' /\ FoundThere'
    <2>1. /\ UNCHANGED <<listed, links, rooted, hurt, job>> /\ pc[r] = "new"
          /\ \E step \in {"write", "failed", "done"} : Goto(r, step)
      BY <1>3 DEF ReadCreateDomain, ReadEditDomain, RenameClass
    <2>2. UNCHANGED seen \/ \E s : See(r, s)
      BY <1>3 DEF ReadCreateDomain, ReadEditDomain, RenameClass
    <2>3. \A q \in Reqs \ {r} : pc'[q] = pc[q] /\ seen'[q] = seen[q]
      BY <2>1, <2>2 DEF Goto, See, LinkInv, AddInv, TypeInv, TypeOK, DomainTypeOK
    <2>4. {pc[r], pc'[r]} \cap {"insert", "find", "push", "link"} = {}
      BY <2>1 DEF Goto, LinkInv, AddInv, TypeInv, TypeOK
    <2> QED
      BY <2>1, <2>3, <2>4, LinkFrame
  <1>4. ASSUME NEW r \in Reqs, DomainStep(r)
        PROVE  Mirrored' /\ Creating' /\ FoundThere'
    BY <1>3, <1>4, LinkCreateDomain, LinkEditDomain, LinkCreateClass, LinkPush, LinkWrite, LinkFails
       DEF DomainStep
  <1>5. ASSUME NEW r \in Reqs, TableStep(r)
        PROVE  Mirrored' /\ Creating' /\ FoundThere'
    <2>1. CASE ReadApprove(r) /\ End(Running \cup {r})
      BY <2>1, LinkEnd DEF Running
    <2>2. CASE ~(ReadApprove(r) /\ End(Running \cup {r}))
      <3>1. /\ UNCHANGED <<domainVars, job>>
            /\ \E step \in Steps \ {"insert", "find", "push", "link"} : Goto(r, step)
            /\ pc[r] \notin {"insert", "find", "push", "link"}
        BY <1>5, <2>2, Zenon DEF TableStep, ReadUpsert, ReadTasks, SaveTables, SaveThrows, WriteTasks, TasksFail,
               ReadEdit, WriteEdit, CloseTask, CloseFails, ReadApprove, WriteApprove, ReadDeprecate,
               MarkDead, DropTasks, DropFails, Fail, Steps, DomainSteps
      <3>2. UNCHANGED <<listed, links, rooted, hurt, seen, job>>
        BY <3>1 DEF domainVars
      <3>3. /\ \A q \in Reqs \ {r} : pc'[q] = pc[q]
            /\ pc'[r] \notin {"insert", "find", "push", "link"}
        BY <3>1 DEF Goto, LinkInv, AddInv, TypeInv, TypeOK
      <3> QED
        BY <3>1, <3>2, <3>3, LinkFrame
    <2> QED
      BY <2>1, <2>2
  <1> QED
    BY <1>1, <1>2, <1>4, <1>5 DEF Next

LEMMA LinkInit == Init => LinkInv
  <1> SUFFICES ASSUME Init PROVE LinkInv
    OBVIOUS
  <1>1. TypeInv /\ \A r \in Reqs : pc[r] = "new"
    BY TypeInit DEF Init
  <1>2. AddInv /\ Creating /\ FoundThere
    BY <1>1 DEF AddInv, EditsAdd, Creating, FoundThere
  <1>3. \A r \in Reqs, d \in Domains : ~OwesRoot(r, d) /\ \A c \in Classes : ~OwesLink(r, d, c)
    BY <1>1 DEF OwesRoot, OwesLink
  <1>4. /\ links = {p \in Domains \X Classes : Exists(p[1]) /\ p[2] \in listed[p[1]]}
        /\ rooted = {d \in Domains : Exists(d)}
    BY DEF Init, DomainInit
  <1>5. Mirrored
    BY <1>3, <1>4 DEF Mirrored
  <1> QED
    BY <1>2, <1>5 DEF LinkInv

\* A classification can be assigned in a domain exactly if the domain lists it
\* (domains.service.ts, createDomain and editDomainById; classifications.service.ts,
\* addClassificationToDomains): document and tuples agree whenever nobody is writing
\* the domain, unless a write of it was lost or has failed.
THEOREM TuplesMirrorDomains == Spec => []LinksMirror
  <1>1. Init => LinkInv
    BY LinkInit
  <1>2. LinkInv /\ [Next]_vars => LinkInv'
    BY LinkNext
  <1>3. LinkInv => LinksMirror
    <2> SUFFICES ASSUME LinkInv, NEW d \in Domains \ hurt, ~Linking(d)
                 PROVE  /\ {c \in Classes : <<d, c>> \in links} = IF Exists(d) THEN listed[d] ELSE {}
                        /\ d \in rooted <=> Exists(d)
      BY DEF LinksMirror
    <2>1. \A r \in Reqs : ~OwesRoot(r, d) /\ \A c : ~OwesLink(r, d, c)
      BY DEF OwesRoot, OwesLink, Linking
    <2>2. /\ \A c \in Classes : <<d, c>> \in links <=> (Exists(d) /\ c \in listed[d])
          /\ d \in rooted <=> Exists(d)
      BY <2>1 DEF LinkInv, Mirrored
    <2>3. Exists(d) => listed[d] \subseteq Classes
      BY DEF Exists, LinkInv, AddInv, TypeInv, TypeOK, DomainTypeOK, Listings
    <2> QED
      BY <2>2, <2>3
  <1> QED
    BY <1>1, <1>2, <1>3, PTL DEF Spec
-----------------------------------------------------------------------------
(* Edits of tables. *)

\* What an edit is about to write was permitted when it was read, and is computed
\* from the table as it is unless another request has worked on it.
EditsChecked ==
    \A r \in Reqs : pc[r] = "write" /\ job[r].op = "edit" =>
        LET i == job[r].id IN
        /\ MayEdit(job[r], copy[r][i])
        /\ table[i].name \notin mixed => table[i] = copy[r][i]

EditInv == TypeInv /\ EditsChecked

\* No tuple is deleted, so what one may do is not taken away.
LEMMA TuplesGrow ==
    ASSUME TypeInv, [Next]_vars
    PROVE  links \subseteq links' /\ rooted \subseteq rooted'
  <1>1. \A r \in Reqs : DomainStep(r) => links \subseteq links' /\ rooted \subseteq rooted'
    BY DEF DomainStep, ReadCreateDomain, WriteCreateDomain, ReadEditDomain, WriteEditDomain,
           ReadCreateClass, InsertClass, FindDomains, PushClass, RenameClass, WriteLinks, LinksFail,
           domainVars
  <1>2. \A r \in Reqs : TableStep(r) => UNCHANGED <<links, rooted>>
    BY DEF TableStep, ReadUpsert, ReadTasks, SaveTables, SaveThrows, WriteTasks, TasksFail,
           ReadEdit, WriteEdit, CloseTask, CloseFails, ReadApprove, WriteApprove, ReadDeprecate,
           MarkDead, DropTasks, DropFails, Fail, End, domainVars
  <1>3. Crash \/ UNCHANGED vars => UNCHANGED <<links, rooted>>
    BY DEF Crash, End, vars, domainVars
  <1> QED
    BY <1>1, <1>2, <1>3 DEF Next

LEMMA PermissionStays ==
    ASSUME links \subseteq links', rooted \subseteq rooted', NEW j, NEW D, MayEdit(j, D)
    PROVE  MayEdit(j, D)'
  <1>1. \A a, d : CanClassify(a, d) => CanClassify(a, d)'
    BY DEF CanClassify
  <1>2. \A a, d, c : CanAssign(a, d, c) => CanAssign(a, d, c)'
    BY <1>1 DEF CanAssign
  <1> QED
    BY <1>1, <1>2 DEF MayEdit

\* A step marks the names it writes for all others that work on them, and no name
\* is unmarked.
LEMMA WritesMark ==
    ASSUME TypeInv, NEW r \in Reqs, TableStep(r)
    PROVE  /\ mixed \subseteq mixed'
           /\ \A i \in Ids : There(i) /\ table'[i] # table[i] =>
                 /\ table'[i].name = table[i].name
                 /\ \A q \in Reqs \ {r} : Busy(q) /\ table[i].name \in Concerns(q)
                                              => table[i].name \in mixed'
  <1>1. ASSUME NEW ns, ns \subseteq Names, Touch(r, ns)
        PROVE  /\ mixed \subseteq mixed'
               /\ \A n \in ns, q \in Reqs \ {r} : Busy(q) /\ n \in Concerns(q) => n \in mixed'
    BY <1>1 DEF Touch
  <1>2. CASE SaveTables(r) \/ SaveThrows(r)
    <2>1. PICK at \in Targets(r, Accepted(r)), ok \in SUBSET Accepted(r) : Save(r, ok, at)
      BY <1>2 DEF SaveTables, SaveThrows
    <2>2. pc[r] = "save"
      BY <1>2 DEF SaveTables, SaveThrows
    <2>3. ok \subseteq Names
      <3>1. job[r].op = "upsert" /\ job[r] \in Jobs
        BY <2>2 DEF TypeInv, TypeOK, StepsOf
      <3> QED
        BY <3>1 DEF Accepted, Concerns
    <2>4. /\ DocsKept
          /\ \A i \in Ids : table'[i] = table[i] \/ (\E n \in ok : i = at[n] /\ table'[i].name = n)
      BY <2>1, <2>2, SaveType
    <2>5. Touch(r, ok)
      BY <2>1 DEF Save
    <2> QED
      BY <1>1, <2>3, <2>4, <2>5 DEF DocsKept
  <1>3. CASE WriteEdit(r)
    <2> DEFINE i == job[r].id
    <2>1. i \in Ids /\ There(i) /\ table[i].name \in Names /\ table[i] \in Docs
      BY <1>3, EditJob, DocThere DEF WriteEdit, TypeInv, TypeOK, CopiesAsked, CopiesThere
    <2>2. /\ table' = [table EXCEPT ![i].cols = Merged(job[r], copy[r][i])]
          /\ Touch(r, {table[i].name})
      BY <1>3 DEF WriteEdit
    <2>3. table'[i].name = table[i].name /\ \A k \in Ids \ {i} : table'[k] = table[k]
      BY <2>1, <2>2 DEF TypeInv, TypeOK, Docs
    <2> QED
      BY <1>1, <2>1, <2>2, <2>3
  <1>4. CASE MarkDead(r)
    <2>1. job[r].names \subseteq Names
      BY <1>4, DeprecateJob DEF MarkDead, TypeInv, TypeOK, StepsOf
    <2>2. \A i \in Ids : copy[r][i] # NoTable =>
             There(i) /\ table[i].name \in job[r].names /\ table[i] \in Docs
      BY <1>4, DocThere DEF MarkDead, TypeInv, CopiesThere, CopiesAsked
    <2>3. /\ table' = [i \in Ids |-> IF copy[r][i] = NoTable THEN table[i]
                                     ELSE [table[i] EXCEPT !.dead = TRUE]]
          /\ Touch(r, job[r].names)
      BY <1>4 DEF MarkDead
    <2>4. \A i \in Ids : table'[i] # table[i] =>
             table[i].name \in job[r].names /\ table'[i].name = table[i].name
      BY <2>2, <2>3 DEF Docs
    <2> QED
      BY <1>1, <2>1, <2>3, <2>4
  <1>5. CASE UNCHANGED table /\ (UNCHANGED mixed \/ \E ns : Touch(r, ns))
    BY <1>5 DEF Touch
  <1> QED
    BY <1>2, <1>3, <1>4, <1>5 DEF TableStep, ReadUpsert, ReadTasks, WriteTasks, TasksFail, ReadEdit,
       CloseTask, CloseFails, ReadApprove, WriteApprove, ReadDeprecate, DropTasks, DropFails,
       Fail, End, tableVars

\* The copies of others, and of a request that has read, stay; to come to write an
\* edit is to have read it.
LEMMA EditsRead ==
    ASSUME TypeInv, NEW r \in Reqs, TableStep(r), NEW q \in Reqs,
           pc'[q] = "write", job[q].op = "edit"
    PROVE  /\ job' = job
           /\ \/ q # r /\ pc[q] = "write" /\ copy'[q] = copy[q]
              \/ q = r /\ ReadEdit(r) /\ ~Fail(r)
  <1>1. job' = job
    BY DEF TableStep, ReadUpsert, ReadTasks, SaveTables, SaveThrows, WriteTasks, TasksFail,
           ReadEdit, WriteEdit, CloseTask, CloseFails, ReadApprove, WriteApprove, ReadDeprecate,
           MarkDead, DropTasks, DropFails, Fail, End
  <1>2. CASE q # r
    <2>1. pc'[q] \in {pc[q], "gone"}
      BY <1>2 DEF TableStep, ReadUpsert, ReadTasks, SaveTables, SaveThrows, WriteTasks, TasksFail,
             ReadEdit, WriteEdit, CloseTask, CloseFails, ReadApprove, WriteApprove, ReadDeprecate,
             MarkDead, DropTasks, DropFails, Fail, End, Goto, TypeInv, TypeOK
    <2>2. copy'[q] = copy[q]
      <3>1. UNCHANGED copy \/ ReadUpsert(r) \/ ReadEdit(r) \/ ReadDeprecate(r)
        BY DEF TableStep, ReadTasks, SaveTables, SaveThrows, WriteTasks, TasksFail, WriteEdit,
               CloseTask, CloseFails, ReadApprove, WriteApprove, MarkDead, DropTasks, DropFails, End,
               tableVars
      <3> QED
        BY <1>2, <3>1 DEF ReadUpsert, ReadEdit, ReadDeprecate, Fail, tableVars, TypeInv, TypeOK
    <2> QED
      BY <1>1, <1>2, <2>1, <2>2
  <1>3. CASE q = r
    <2>1. pc'[r] = "write" => ReadEdit(r) \/ ReadApprove(r)
      BY DEF TableStep, ReadUpsert, ReadTasks, SaveTables, SaveThrows, WriteTasks, TasksFail,
             WriteEdit, CloseTask, CloseFails, WriteApprove, ReadDeprecate, MarkDead, DropTasks,
             DropFails, Fail, Goto, TypeInv, TypeOK
    <2> QED
      BY <1>1, <1>3, <2>1 DEF ReadApprove, Fail, Goto, TypeInv, TypeOK
  <1> QED
    BY <1>2, <1>3

\* A request that writes an edit is working on the table.
LEMMA EditorBusy ==
    ASSUME TypeInv, NEW q \in Reqs, pc[q] = "write", job[q].op = "edit"
    PROVE  /\ job[q].id \in Ids /\ There(job[q].id)
           /\ copy[q][job[q].id] \in Docs
           /\ Busy(q) /\ table[job[q].id].name \in Concerns(q)
  <1>1. job[q].id \in Ids /\ There(job[q].id) /\ copy[q][job[q].id] \in Docs
    BY EditJob DEF TypeInv, TypeOK, CopiesAsked, CopiesThere
  <1>2. Concerns(q) = {table[i].name : i \in {job[q].id} \cap {i \in Ids : There(i)}}
    BY DEF Concerns, DomainOps
  <1> QED
    BY <1>1, <1>2 DEF Busy, TableOps

\* An edit that is still to be written, over a step that leaves its copy and its
\* table alone, or marks the table.
LEMMA EditStays ==
    ASSUME EditInv, links \subseteq links', rooted \subseteq rooted',
           NEW q \in Reqs, pc[q] = "write", job[q].op = "edit",
           job'[q] = job[q], copy'[q] = copy[q], mixed \subseteq mixed',
           \/ table'[job[q].id] = table[job[q].id]
           \/ table'[job[q].id].name \in mixed'
    PROVE  LET i == job'[q].id IN
           /\ MayEdit(job[q], copy[q][job[q].id])'
           /\ table'[i].name \notin mixed' => table'[i] = copy'[q][i]
  <1> DEFINE i == job[q].id
  <1>1. /\ MayEdit(job[q], copy[q][i])
        /\ table[i].name \notin mixed => table[i] = copy[q][i]
    BY DEF EditInv, EditsChecked
  <1>2. MayEdit(job[q], copy[q][i])'
    BY <1>1 DEF MayEdit, Changed, CanClassify, CanAssign
  <1>3. table'[i].name \notin mixed' => table'[i] = copy'[q][i]
    BY <1>1
  <1> QED
    BY <1>2, <1>3

LEMMA EditNext == EditInv /\ [Next]_vars => EditInv'
  <1> SUFFICES ASSUME EditInv, [Next]_vars PROVE EditsChecked'
    BY TypeNext DEF EditInv
  <1> SUFFICES ASSUME NEW q \in Reqs, pc'[q] = "write", job'[q].op = "edit"
               PROVE  LET i == job'[q].id IN
                      /\ MayEdit(job[q], copy[q][job[q].id])'
                      /\ table'[i].name \notin mixed' => table'[i] = copy'[q][i]
    BY DEF EditsChecked
  <1>1. TypeInv /\ EditsChecked /\ links \subseteq links' /\ rooted \subseteq rooted'
    BY TuplesGrow DEF EditInv
  <1>2. CASE UNCHANGED vars
    <2>1. UNCHANGED <<pc, job, table, mixed, copy>>
      BY <1>2 DEF vars, tableVars
    <2> QED
      BY <1>1, <2>1, EditStays
  <1>3. CASE Crash
    <2>1. UNCHANGED <<job, table, mixed, copy>> /\ pc[q] = "write"
      BY <1>3 DEF Crash, End
    <2> QED
      BY <1>1, <2>1, EditStays
  <1>4. ASSUME NEW r \in Reqs, DomainStep(r), UNCHANGED tableVars
        PROVE  pc[q] = "write" /\ UNCHANGED <<job, table, mixed, copy>>
    BY <1>1, <1>4 DEF DomainStep, ReadCreateDomain, WriteCreateDomain, ReadEditDomain, WriteEditDomain,
       ReadCreateClass, InsertClass, FindDomains, PushClass, RenameClass, WriteLinks, LinksFail,
       Goto, tableVars, TypeInv, TypeOK
  <1>5. ASSUME NEW r \in Reqs, TableStep(r)
        PROVE  LET i == job'[q].id IN
               /\ MayEdit(job[q], copy[q][job[q].id])'
               /\ table'[i].name \notin mixed' => table'[i] = copy'[q][i]
    <2>1. job' = job
      BY <1>5 DEF TableStep, ReadUpsert, ReadTasks, SaveTables, SaveThrows, WriteTasks, TasksFail,
             ReadEdit, WriteEdit, CloseTask, CloseFails, ReadApprove, WriteApprove, ReadDeprecate,
             MarkDead, DropTasks, DropFails, Fail, End
    <2>2. \/ q # r /\ pc[q] = "write" /\ copy'[q] = copy[q]
          \/ q = r /\ ReadEdit(r) /\ ~Fail(r)
      BY <1>1, <1>5, <2>1, EditsRead
    <2>3. CASE q # r /\ pc[q] = "write" /\ copy'[q] = copy[q]
      <3> DEFINE i == job[q].id
      <3>1. i \in Ids /\ There(i) /\ Busy(q) /\ table[i].name \in Concerns(q)
        BY <1>1, <2>1, <2>3, EditorBusy
      <3>2. /\ mixed \subseteq mixed'
            /\ table'[i] # table[i] => table'[i].name \in mixed'
        BY <1>1, <1>5, <2>3, <3>1, WritesMark
      <3> QED
        BY <1>1, <2>1, <2>3, <3>2, EditStays
    <2>4. CASE q = r /\ ReadEdit(r) /\ ~Fail(r)
      <3> DEFINE i == job[q].id
      <3>1. /\ There(i) /\ MayEdit(job[q], table[i])
            /\ copy' = [copy EXCEPT ![q][i] = table[i]]
            /\ UNCHANGED <<domainVars, table>>
        BY <2>4 DEF ReadEdit
      <3>2. i \in Ids
        BY <1>1, <2>1, EditJob DEF TypeInv, TypeOK
      <3>3. copy'[q][i] = table[i]
        BY <1>1, <3>1, <3>2 DEF TypeInv, TypeOK
      <3>4. UNCHANGED <<links, rooted>>
        BY <3>1 DEF domainVars
      <3>5. MayEdit(job[q], copy[q][i])'
        <4>1. PICK j, D : j = job[q] /\ D = table[i] /\ MayEdit(j, D)
          BY <3>1
        <4>2. MayEdit(j, D)'
          BY <3>4, <4>1, PermissionStays
        <4>3. job'[q] = j /\ copy'[q][job'[q].id] = D
          BY <2>1, <3>3, <4>1
        <4> QED
          BY <4>2, <4>3 DEF MayEdit, Changed
      <3> QED
        BY <2>1, <3>1, <3>3, <3>5
    <2> QED
      BY <2>2, <2>3, <2>4
  <1>6. ASSUME NEW r \in Reqs, DomainStep(r), UNCHANGED tableVars
        PROVE  LET i == job'[q].id IN
               /\ MayEdit(job[q], copy[q][job[q].id])'
               /\ table'[i].name \notin mixed' => table'[i] = copy'[q][i]
    BY <1>1, <1>4, <1>6, EditStays
  <1> QED
    BY <1>2, <1>3, <1>5, <1>6 DEF Next
\* A step that ends the write of an edit and changes a table is that write.
LEMMA EditsWrite ==
    ASSUME TypeInv, [Next]_vars, NEW r \in Reqs,
           pc[r] = "write", pc'[r] # pc[r], job[r].op = "edit"
    PROVE  WriteEdit(r) \/ UNCHANGED table
  <1>1. CASE UNCHANGED vars \/ Crash
    BY <1>1 DEF vars, tableVars, Crash, End
  <1>2. ASSUME NEW q \in Reqs, DomainStep(q), UNCHANGED tableVars
        PROVE  UNCHANGED table
    BY <1>2 DEF tableVars
  <1>3. ASSUME NEW q \in Reqs \ {r}, TableStep(q)
        PROVE  UNCHANGED table
    BY <1>3 DEF TableStep, ReadUpsert, ReadTasks, SaveTables, SaveThrows, WriteTasks, TasksFail,
       ReadEdit, WriteEdit, CloseTask, CloseFails, ReadApprove, WriteApprove, ReadDeprecate,
       MarkDead, DropTasks, DropFails, Fail, End, Goto, TypeInv, TypeOK, tableVars
  <1>4. ASSUME TableStep(r)
        PROVE  WriteEdit(r)
    BY <1>4 DEF TableStep, ReadUpsert, ReadTasks, SaveTables, SaveThrows, WriteTasks, TasksFail,
       ReadEdit, CloseTask, CloseFails, ReadApprove, WriteApprove, ReadDeprecate,
       MarkDead, DropTasks, DropFails
  <1> QED
    BY <1>1, <1>2, <1>3, <1>4 DEF Next

LEMMA EditStep ==
    ASSUME EditInv, [Next]_vars, NEW r \in Reqs,
           pc[r] = "write", pc'[r] # pc[r], job[r].op = "edit",
           table[job[r].id].name \notin mixed,
           NEW c \in Columns, table'[job[r].id].cols[c] # table[job[r].id].cols[c],
           NEW k \in (Classes \cup {Internal})
                     \cap {table[job[r].id].cols[c], table'[job[r].id].cols[c]}
    PROVE  CanAssign(job[r].by, table[job[r].id].domain, k)
  <1> DEFINE i == job[r].id
             D == table[i]
  <1>1. TypeInv
    BY DEF EditInv
  <1>2. i \in Ids /\ D \in Docs
    BY <1>1, EditorBusy, DocThere DEF TypeInv, There, TypeOK
  <1>3. MayEdit(job[r], D) /\ D = copy[r][i]
    BY DEF EditInv, EditsChecked
  <1>4. table' = [table EXCEPT ![i].cols = Merged(job[r], D)]
    BY <1>1, <1>3, EditsWrite DEF WriteEdit
  <1>5. table'[i].cols[c] = Merged(job[r], D)[c]
    BY <1>1, <1>2, <1>4 DEF TypeInv, TypeOK, Docs
  <1>6. c \in Changed(job[r], D) /\ k \in {D.cols[c], job[r].cols[c]}
    BY <1>5 DEF Merged, Changed
  <1>7. k \in Marks \ {None}
    BY TablesAssumption DEF Marks
  <1> QED
    BY <1>3, <1>6, <1>7 DEF MayEdit

\* A person changes the classification of a column only if he may assign both what
\* it had and what it gets (table.service.ts, editTableById), in the domain the
\* table is in when that is written, unless another request has worked on the table
\* meanwhile.
THEOREM EditsPermitted == Spec => OnlyPermittedEdits
  <1>1. Init => EditInv
    BY TypeInit DEF EditInv, EditsChecked, Init
  <1>2. EditInv /\ [Next]_vars => EditInv'
    BY EditNext
  <1>3. EditInv /\ [Next]_vars =>
           [\A r \in Reqs : pc[r] = "write" /\ pc'[r] # pc[r] /\ job[r].op = "edit" =>
              LET i == job[r].id IN
              table[i].name \notin mixed =>
                 \A c \in {c \in Columns : table'[i].cols[c] # table[i].cols[c]} :
                     \A k \in (Classes \cup {Internal}) \cap {table[i].cols[c], table'[i].cols[c]} :
                         CanAssign(job[r].by, table[i].domain, k)]_vars
    BY EditStep
  <1> QED
    BY <1>1, <1>2, <1>3, PTL DEF Spec, OnlyPermittedEdits
-----------------------------------------------------------------------------
(***************************************************************************)
(* Tables and their tasks, for any collections to start from, requests and *)
(* bound on failing calls: the tasks of a table match what there is to     *)
(* classify, a name has one document, and a column has a classification of *)
(* its table's domain.                                                     *)
(*                                                                         *)
(* All three follow one argument.  As long as a name is not mixed, only    *)
(* one request at a time has written its tables and tasks, so what a       *)
(* request has read of it is what there is (CopiesFresh).  What is         *)
(* computed from the copies may then be compared with the collections: the *)
(* documents a save writes are those of Saved, and the work it leaves on   *)
(* their tasks makes them fit (PendingFits).  A table that no request has  *)
(* work left for has tasks that fit (AllFit).                              *)
(***************************************************************************)

\* The table of i is among those r is about, and no two requests have worked on it
\* at a time.
Clear(r, i) == There(i) /\ table[i].name \in Concerns(r) /\ table[i].name \notin mixed

\* What a request has read of such a table is what there is.
Fresh(r, i) ==
    Clear(r, i) =>
        /\ pc[r] \in {"tasks", "save", "mark"} => copy[r][i] = table[i]
        /\ pc[r] = "save" => (i \in had[r] <=> tasks[i] # NoTasks)
        /\ pc[r] = "drop" => table[i].dead
        /\ pc[r] = "close" /\ i = job[r].id => StateOf(table[i].cols) = "classified"

CopiesFresh == \A r \in Reqs, i \in Ids : Fresh(r, i)

\* The work that a save has left is on tables of its names, and makes the tasks fit
\* whichever task it takes.
Pends(r, i) ==
    pc[r] = "work" /\ todo[r][i] # "none" =>
        /\ There(i) /\ table[i].name \in Concerns(r)
        /\ table[i].name \notin mixed =>
              /\ todo[r][i] \in {"create", "update"} =>
                    ~table[i].dead /\ StateOf(table[i].cols) # "internal"
              /\ i \notin settled => \A t \in Worked(todo[r][i], tasks[i]) : Fit(table[i], t)

PendingFits == \A r \in Reqs, i \in Ids : Pends(r, i)

\* r has work left for the tasks of i.
Owes(r, i) == \/ pc[r] = "work" /\ todo[r][i] # "none"
              \/ pc[r] = "drop" /\ copy[r][i] # NoTable

\* The tasks of a table that no work is left for.
AllFit ==
    \A i \in Ids \ settled :
        There(i) /\ table[i].name \notin mixed /\ (\A r \in Reqs : ~Owes(r, i)) => Fit(table[i], tasks[i])

\* A name has one document.
NamesUnique ==
    \A i, j \in Ids : There(i) /\ There(j) /\ table[i].name = table[j].name
                        /\ table[i].name \notin mixed => i = j

\* A column has a classification of its table's domain.
ClassesListed ==
    \A i \in Ids : There(i) /\ table[i].name \notin mixed /\ table[i].domain \notin hurt =>
        \A c \in Columns : table[i].cols[c] \in Classes =>
            Exists(table[i].domain) /\ table[i].cols[c] \in listed[table[i].domain]

TasksInv ==
    LinkInv /\ EditsChecked /\ CopiesFresh /\ PendingFits /\ AllFit /\ NamesUnique /\ ClassesListed
-----------------------------------------------------------------------------
(* What a step of one request leaves to the others. *)

\* The step writes what is r's own, and the collections.
OthersTable(r) ==
    /\ UNCHANGED <<domainVars, job>>
    /\ \A q \in Reqs \ {r} : /\ pc'[q] = pc[q] /\ copy'[q] = copy[q]
                            /\ had'[q] = had[q] /\ todo'[q] = todo[q]

\* What the step writes of a table.
Writes(i) == table'[i] # table[i] \/ tasks'[i] # tasks[i] \/ i \in settled \ settled'

\* The names it writes are mixed when another request works on them.
Marking(r) ==
    /\ mixed \subseteq mixed'
    /\ \A i \in Ids : There(i)' /\ Writes(i) =>
          \A q \in Reqs \ {r} : Busy(q) /\ table'[i].name \in Concerns(q) => table'[i].name \in mixed'

\* The names of a request that works on tables stay.
LEMMA ConcernsStay ==
    ASSUME TypeInv, DocsKept, UNCHANGED job, NEW q \in Reqs,
           pc[q] \in {"tasks", "save", "work", "mark", "drop", "close"}
    PROVE  Busy(q) /\ Concerns(q)' = Concerns(q)
  <1>1. CASE job[q].op \in {"upsert", "deprecate"}
    BY <1>1 DEF Busy, TableOps, Concerns
  <1>2. CASE job[q].op \notin {"upsert", "deprecate"}
    <2>1. job[q].op = "edit" /\ pc[q] = "close"
      BY <1>2 DEF TypeInv, StepsOf
    <2>2. job[q].id \in Ids /\ There(job[q].id)
      BY <2>1, EditJob DEF TypeInv, TypeOK, CopiesAsked, CopiesThere
    <2>3. /\ Concerns(q) = {table[i].name : i \in {job[q].id} \cap {i \in Ids : There(i)}}
          /\ Concerns(q)' = {table'[i].name : i \in {job[q].id} \cap {i \in Ids : There(i)'}}
      BY <2>1 DEF Concerns, DomainOps
    <2>4. There(job[q].id)' /\ table'[job[q].id].name = table[job[q].id].name
      BY <2>2 DEF DocsKept, There
    <2> QED
      BY <2>1, <2>2, <2>3, <2>4 DEF Busy, TableOps
  <1> QED
    BY <1>1, <1>2

LEMMA FreshStays ==
    ASSUME TypeInv, CopiesFresh, NEW r \in Reqs, OthersTable(r), DocsKept, Marking(r),
           NEW q \in Reqs \ {r}, NEW i \in Ids
    PROVE  Fresh(q, i)'
  <1> SUFFICES ASSUME Clear(q, i)', pc[q] \in {"tasks", "save", "work", "mark", "drop", "close"}
               PROVE  Fresh(q, i)'
    BY DEF Fresh, OthersTable
  <1>1. Busy(q) /\ Concerns(q)' = Concerns(q)
    BY ConcernsStay DEF OthersTable
  <1>2. table'[i].name \in Concerns(q) /\ table'[i].name \notin mixed' /\ There(i)'
    BY <1>1 DEF Clear
  <1>3. table'[i] = table[i] /\ tasks'[i] = tasks[i]
    BY <1>1, <1>2 DEF Marking, Writes
  <1>4. Clear(q, i)
    BY <1>2, <1>3 DEF Clear, Marking, There
  <1>5. Fresh(q, i)
    BY DEF CopiesFresh
  <1> QED
    BY <1>3, <1>4, <1>5 DEF Fresh, OthersTable

LEMMA PendsStays ==
    ASSUME TypeInv, PendingFits, NEW r \in Reqs, OthersTable(r), DocsKept, Marking(r),
           NEW q \in Reqs \ {r}, NEW i \in Ids
    PROVE  Pends(q, i)'
  <1> SUFFICES ASSUME pc[q] = "work", todo[q][i] # "none"
               PROVE  Pends(q, i)'
    BY DEF Pends, OthersTable
  <1>1. Busy(q) /\ Concerns(q)' = Concerns(q)
    BY ConcernsStay DEF OthersTable
  <1>2. Pends(q, i)
    BY DEF PendingFits
  <1>3. There(i) /\ table[i].name \in Concerns(q)
    BY <1>2 DEF Pends
  <1>4. There(i)' /\ table'[i].name = table[i].name
    BY <1>3 DEF DocsKept, There
  <1>5. CASE table'[i].name \in mixed'
    BY <1>1, <1>3, <1>4, <1>5 DEF Pends
  <1>6. CASE table'[i].name \notin mixed'
    <2>1. table'[i] = table[i] /\ tasks'[i] = tasks[i] /\ (i \in settled => i \in settled')
      BY <1>1, <1>3, <1>4, <1>6 DEF Marking, Writes
    <2>2. table[i].name \notin mixed
      BY <1>4, <1>6 DEF Marking
    <2>3. /\ todo'[q][i] \in {"create", "update"} =>
                 ~table'[i].dead /\ StateOf(table'[i].cols) # "internal"
          /\ i \notin settled' => \A t \in Worked(todo'[q][i], tasks'[i]) : Fit(table'[i], t)
      BY <1>2, <2>1, <2>2 DEF Pends, OthersTable
    <2> QED
      BY <1>1, <1>3, <1>4, <2>3 DEF Pends, Worked, Fit, StateOf
  <1> QED
    BY <1>5, <1>6

\* What the step of r makes of the tables it writes or had work left for.
OwnFits(r) ==
    \A i \in Ids \ settled' :
        /\ There(i)' /\ table'[i].name \notin mixed'
        /\ Writes(i) \/ Owes(r, i)
        /\ \A q \in Reqs : ~Owes(q, i)'
        => Fit(table'[i], tasks'[i])

LEMMA FitsStay ==
    ASSUME TypeInv, AllFit, NEW r \in Reqs, OthersTable(r), DocsKept, Marking(r), OwnFits(r)
    PROVE  AllFit'
  <1> SUFFICES ASSUME NEW i \in Ids \ settled', There(i)', table'[i].name \notin mixed',
                      \A q \in Reqs : ~Owes(q, i)'
               PROVE  Fit(table'[i], tasks'[i])
    BY DEF AllFit, Fit, StateOf
  <1>1. CASE Writes(i) \/ Owes(r, i)
    BY <1>1 DEF OwnFits
  <1>2. CASE ~(Writes(i) \/ Owes(r, i))
    <2>1. table'[i] = table[i] /\ tasks'[i] = tasks[i] /\ i \notin settled
      BY <1>2 DEF Writes
    <2>2. \A q \in Reqs : ~Owes(q, i)
      BY <1>2 DEF Owes, OthersTable
    <2> QED
      BY <2>1, <2>2 DEF AllFit, There, Marking
  <1> QED
    BY <1>1, <1>2

\* The part of the invariant that is about tasks.
TasksFit == CopiesFresh /\ PendingFits /\ AllFit

LEMMA TasksFrame ==
    ASSUME TypeInv, TasksFit, NEW r \in Reqs, OthersTable(r), DocsKept, Marking(r), OwnFits(r),
           \A i \in Ids : Fresh(r, i)' /\ Pends(r, i)'
    PROVE  TasksFit'
  <1>1. CopiesFresh' /\ PendingFits'
    BY FreshStays, PendsStays DEF TasksFit, CopiesFresh, PendingFits
  <1>2. AllFit'
    BY FitsStay DEF TasksFit
  <1> QED
    BY <1>1, <1>2 DEF TasksFit
-----------------------------------------------------------------------------
(* What an upsert makes of a table and its tasks. *)

HasInternal(cols) == \E c \in Columns : cols[c] = Internal

HasNone(cols) == \E c \in Columns : cols[c] = None

LEMMA StateFacts ==
    ASSUME NEW cols \in [Columns -> Marks \cup {NoColumn}]
    PROVE  /\ StateOf(cols) = "internal" <=> HasInternal(cols)
           /\ StateOf(cols) \in {"unclassified", "partial"} <=> ~HasInternal(cols) /\ HasNone(cols)
           /\ StateOf(cols) = "classified" <=> ~HasInternal(cols) /\ ~HasNone(cols)
  <1> DEFINE has == {cols[c] : c \in Columns} \ {NoColumn}
  <1>1. /\ Internal \in has <=> HasInternal(cols)
        /\ None \in has <=> HasNone(cols)
    BY TablesAssumption DEF HasInternal, HasNone, Marks
  <1>2. StateOf(cols) = IF Internal \in has THEN "internal"
                        ELSE IF None \notin has THEN "classified"
                        ELSE IF has \cap Classes # {} THEN "partial" ELSE "unclassified"
    BY DEF StateOf
  <1> HIDE DEF has
  <1> QED
    BY <1>1, <1>2
\* What it is for tasks to fit.
LEMMA FitFacts ==
    ASSUME NEW D, D.cols \in [Columns -> Marks \cup {NoColumn}], NEW t
    PROVE  Fit(D, t) <=> /\ t.open + t.done <= 1
                         /\ ~D.dead /\ ~HasInternal(D.cols) /\ HasNone(D.cols) => t.open = 1
                         /\ D.dead \/ HasInternal(D.cols) => t = NoTasks
  BY StateFacts DEF Fit

\* A table with one task at most.
LEMMA OneTask ==
    ASSUME NEW t \in TaskCounts, t.open + t.done <= 1
    PROVE  t \in {NoTasks, [open |-> 1, done |-> 0], [open |-> 0, done |-> 1]}
  <1>1. t = [open |-> t.open, done |-> t.done] /\ t.open \in Nat /\ t.done \in Nat
    BY DEF TaskCounts
  <1>2. t.open \in 0 .. 1 /\ t.done \in 0 .. 1 /\ ~(t.open = 1 /\ t.done = 1)
    BY <1>1
  <1> QED
    BY <1>1, <1>2 DEF NoTasks

LEMMA WorkedOne ==
    ASSUME NEW t \in TaskCounts, t.open + t.done <= 1
    PROVE  /\ t = NoTasks => Worked("create", t) = {[open |-> 1, done |-> 0]}
           /\ t # NoTasks => Worked("update", t) = {[open |-> 1, done |-> 0]}
           /\ t = NoTasks => Worked("update", t) = {NoTasks}
           /\ Worked("delete", t) = {NoTasks}
           /\ Worked("none", t) = {t}
  <1>1. t \in {NoTasks, [open |-> 1, done |-> 0], [open |-> 0, done |-> 1]}
    BY OneTask
  <1>2. CASE t = NoTasks
    BY <1>2 DEF Worked, NoTasks
  <1>3. CASE t = [open |-> 1, done |-> 0]
    BY <1>3 DEF Worked, NoTasks
  <1>4. CASE t = [open |-> 0, done |-> 1]
    BY <1>4 DEF Worked, NoTasks
  <1> QED
    BY <1>1, <1>2, <1>3, <1>4

\* The columns of a table after an upsert.
LEMMA NextColsFacts ==
    ASSUME NEW D \in Docs \cup {NoTable}, NEW w \in Wants
    PROVE  /\ NextCols(D, w) \in [Columns -> Marks \cup {NoColumn}]
           /\ ~w.internal => ~HasInternal(NextCols(D, w))
           /\ ~w.internal /\ D # NoTable /\ ~FreshStart(D, w) =>
                 /\ ~HasInternal(D.cols)
                 /\ HasNone(NextCols(D, w)) =>
                       \/ \E c \in w.schema : D.cols[c] = NoColumn
                       \/ HasNone(D.cols)
                 /\ (\E c \in w.schema : D.cols[c] = NoColumn) => HasNone(NextCols(D, w))
  <1>1. NextCols(D, w) \in [Columns -> Marks \cup {NoColumn}] /\ w.schema \subseteq Columns
    BY NextColsType DEF Wants
  <1>2. None # Internal /\ NoColumn \notin {None, Internal}
    BY TablesAssumption DEF Marks
  <1>3. CASE ~w.internal /\ (D = NoTable \/ FreshStart(D, w))
    <2>1. NextCols(D, w) = Uniform(w.schema, None)
      BY <1>3 DEF NextCols
    <2> QED
      BY <1>1, <1>2, <1>3, <2>1 DEF Uniform, HasInternal
  <1>4. CASE ~w.internal /\ D # NoTable /\ ~FreshStart(D, w)
    <2>1. NextCols(D, w) = [c \in Columns |-> IF c \notin w.schema THEN NoColumn
                              ELSE IF D.cols[c] = NoColumn THEN None ELSE D.cols[c]]
      BY <1>4 DEF NextCols
    <2>2. ~HasInternal(D.cols)
      BY <1>4 DEF FreshStart, HasInternal
    <2> QED
      BY <1>1, <1>2, <2>1, <2>2 DEF HasInternal, HasNone
  <1> QED
    BY <1>1, <1>3, <1>4

\* Whatever task the work of an upsert takes, the tasks fit the table it has saved, if
\* they did before and are what it found.
LEMMA UpsertFits ==
    ASSUME NEW D \in Docs \cup {NoTable}, NEW w \in Wants, NEW t \in TaskCounts,
           NEW found \in BOOLEAN, D # NoTable => (found <=> t # NoTasks),
           D = NoTable => t = NoTasks, D # NoTable => Fit(D, t),
           NEW E, E.cols = NextCols(D, w), E.dead = FALSE
    PROVE  \A u \in Worked(TaskWork(D, w, found), t) : Fit(E, u)
  <1> DEFINE next == NextCols(D, w)
             work == TaskWork(D, w, found)
  <1>1. next \in [Columns -> Marks \cup {NoColumn}]
    BY NextColsFacts
  <1>2. t.open + t.done <= 1
    BY DEF Fit, NoTasks
  <1>3. \A u : Fit(E, u) <=> /\ u.open + u.done <= 1
                             /\ ~HasInternal(next) /\ HasNone(next) => u.open = 1
                             /\ HasInternal(next) => u = NoTasks
    BY <1>1, FitFacts
  <1>4. Fit(E, NoTasks) <=> ~(~HasInternal(next) /\ HasNone(next))
    BY <1>3 DEF NoTasks
  <1>5. Fit(E, [open |-> 1, done |-> 0]) <=> ~HasInternal(next)
    BY <1>3 DEF NoTasks
  <1>6. CASE w.internal
    <2>1. D = NoTable => work = "none" /\ t = NoTasks
      BY <1>6 DEF TaskWork
    <2>2. D # NoTable => work = "delete"
      BY <1>6 DEF TaskWork
    <2>3. ~(~HasInternal(next) /\ HasNone(next))
      <3>1. next = Uniform(w.schema, Internal) /\ NoColumn # None /\ None # Internal
        BY <1>6, TablesAssumption DEF NextCols, Marks
      <3> QED
        BY <3>1 DEF Uniform, HasNone
    <2> QED
      BY <1>2, <1>4, <2>1, <2>2, <2>3, WorkedOne
  <1>7. CASE ~w.internal /\ D = NoTable
    <2>1. work = "create" /\ t = NoTasks /\ ~HasInternal(next)
      BY <1>7, NextColsFacts DEF TaskWork
    <2> QED
      BY <1>2, <1>5, <2>1, WorkedOne
  <1>8. CASE ~w.internal /\ D # NoTable
    <2>1. ~HasInternal(next) /\ (found <=> t # NoTasks) /\ D \in Docs
      BY <1>8, NextColsFacts
    <2>2. StateOf(next) # "classified" <=> HasNone(next)
      BY <1>1, <2>1, StateFacts
    <2>3. /\ ~D.dead /\ ~HasInternal(D.cols) /\ HasNone(D.cols) => t.open = 1
          /\ D.dead \/ HasInternal(D.cols) => t = NoTasks
      BY <1>8, <2>1, FitFacts DEF Docs
    <2>4. work = IF HasInternal(D.cols) \/ (~found /\ HasNone(next)) THEN "create"
                 ELSE IF \/ D.domain # w.domain
                         \/ ~FreshStart(D, w) /\ \E c \in w.schema : D.cols[c] = NoColumn THEN "update"
                 ELSE "none"
      BY <1>8, <2>2 DEF TaskWork, HasInternal
    <2> HIDE DEF work, next
    <2>5. CASE work = "create"
      <3>1. t = NoTasks
        BY <2>1, <2>3, <2>4, <2>5
      <3> QED
        BY <1>2, <1>5, <2>1, <2>5, <3>1, WorkedOne DEF work
    <2>6. CASE work = "update"
      <3>1. ~found => ~HasNone(next)
        BY <2>4, <2>6
      <3>2. CASE found
        BY <1>2, <1>5, <2>1, <2>6, <3>2, WorkedOne DEF work
      <3>3. CASE ~found
        BY <1>2, <1>4, <2>1, <2>6, <3>1, <3>3, WorkedOne DEF work
      <3> QED
        BY <3>2, <3>3
    <2>7. CASE work = "none"
      <3>1. /\ ~HasInternal(D.cols) /\ (~found => ~HasNone(next)) /\ D.domain = w.domain
            /\ ~(~FreshStart(D, w) /\ \E c \in w.schema : D.cols[c] = NoColumn)
        BY <2>4, <2>7
      <3>2. ~FreshStart(D, w)
        BY <3>1 DEF FreshStart, HasInternal
      <3>3. HasNone(next) => HasNone(D.cols)
        BY <1>8, <3>1, <3>2, NextColsFacts DEF next
      <3>4. HasNone(next) => t.open = 1
        BY <2>1, <2>3, <3>1, <3>3
      <3>5. Fit(E, t)
        BY <1>2, <1>3, <2>1, <3>4
      <3> QED
        BY <1>2, <2>7, <3>5, WorkedOne DEF work
    <2> QED
      BY <2>4, <2>5, <2>6, <2>7
  <1> QED
    BY <1>6, <1>7, <1>8
-----------------------------------------------------------------------------
(* The steps of a request that only reads. *)

LEMMA ReadFits ==
    ASSUME TypeInv, TasksFit, NEW r \in Reqs,
           ReadUpsert(r) \/ ReadTasks(r) \/ ReadEdit(r) \/ ReadDeprecate(r)
             \/ (ReadApprove(r) /\ ~End(Running \cup {r}))
    PROVE  TasksFit'
  <1>1. UNCHANGED <<domainVars, job, table, tasks, todo, mixed, settled>> /\ pc[r] \in {"new", "tasks"}
    BY Zenon DEF ReadUpsert, ReadTasks, ReadEdit, ReadDeprecate, ReadApprove, Fail, tableVars
  <1>2. PICK step \in {"tasks", "save", "write", "mark", "failed"} : Goto(r, step)
    BY DEF ReadUpsert, ReadTasks, ReadEdit, ReadDeprecate, ReadApprove, Fail
  <1>3. \A q \in Reqs \ {r} : copy'[q] = copy[q] /\ had'[q] = had[q]
    <2>1. ReadUpsert(r) \/ ReadDeprecate(r) => UNCHANGED had /\ (UNCHANGED copy \/ \E c : copy' = [copy EXCEPT ![r] = c])
      BY DEF ReadUpsert, ReadDeprecate, Fail, tableVars
    <2>2. ReadEdit(r) => UNCHANGED had /\ (UNCHANGED copy \/ copy' = [copy EXCEPT ![r][job[r].id] = table[job[r].id]])
      BY DEF ReadEdit, Fail, tableVars
    <2>3. ReadTasks(r) => UNCHANGED copy /\ \E h : had' = [had EXCEPT ![r] = h]
      BY DEF ReadTasks
    <2>4. ReadApprove(r) => UNCHANGED <<copy, had>>
      BY DEF ReadApprove, End, tableVars
    <2> QED
      BY <2>1, <2>2, <2>3, <2>4 DEF TypeInv, TypeOK
  <1>4. OthersTable(r) /\ pc'[r] = step
    BY <1>1, <1>2, <1>3 DEF OthersTable, Goto, TypeInv, TypeOK
  <1>5. DocsKept /\ Marking(r) /\ OwnFits(r)
    BY <1>1, TableSame DEF Marking, Writes, OwnFits, Owes
  <1>6. ASSUME NEW i \in Ids
        PROVE  Fresh(r, i)' /\ Pends(r, i)'
    <2>1. Pends(r, i)'
      BY <1>2, <1>4 DEF Pends
    <2>2. Clear(r, i)' => Clear(r, i)
      BY <1>1 DEF Clear, There, Concerns
    <2>3. Fresh(r, i)'
      <3> SUFFICES ASSUME Clear(r, i)', step \in {"tasks", "save", "mark"} PROVE Fresh(r, i)'
        BY <1>2, <1>4 DEF Fresh
      <3>1. There(i) /\ table[i].name \in Concerns(r)
        BY <2>2 DEF Clear
      <3>2. CASE step = "tasks"
        <4>1. copy' = [copy EXCEPT ![r] = [k \in Ids |->
                 IF There(k) /\ table[k].name \in Concerns(r) THEN table[k] ELSE NoTable]]
          BY <1>2, <3>2, <1>4 DEF ReadUpsert, ReadTasks, ReadEdit, ReadDeprecate, ReadApprove, Fail,
             Goto, TypeInv, TypeOK
        <4>2. copy'[r][i] = table[i]
          BY <3>1, <4>1 DEF TypeInv, TypeOK
        <4> QED
          BY <1>1, <1>4, <3>2, <4>2 DEF Fresh
      <3>3. CASE step = "save"
        <4>1. ReadTasks(r)
          BY <3>3, <1>4 DEF ReadUpsert, ReadEdit, ReadDeprecate, ReadApprove, Fail, Goto, TypeInv, TypeOK
        <4>2. /\ had'[r] = {k \in Ids : copy[r][k] # NoTable /\ tasks[k] # NoTasks}
              /\ UNCHANGED copy /\ pc[r] = "tasks"
          BY <4>1 DEF ReadTasks, TypeInv, TypeOK
        <4>3. copy[r][i] = table[i]
          BY <2>2, <4>2 DEF TasksFit, CopiesFresh, Fresh
        <4>4. i \in had'[r] <=> tasks[i] # NoTasks
          BY <3>1, <4>2, <4>3 DEF There
        <4> QED
          BY <1>1, <1>4, <3>3, <4>2, <4>3, <4>4 DEF Fresh
      <3>4. CASE step = "mark"
        <4>1. ReadDeprecate(r) /\ ~Fail(r)
          BY <3>4, <1>4 DEF ReadUpsert, ReadTasks, ReadEdit, ReadDeprecate, ReadApprove, Fail, Goto,
             TypeInv, TypeOK
        <4>2. /\ job[r].op = "deprecate"
              /\ copy' = [copy EXCEPT ![r] = [k \in Ids |->
                     IF k \in {n \in Ids : There(n) /\ table[n].name \in job[r].names}
                     THEN table[k] ELSE NoTable]]
          BY <4>1 DEF ReadDeprecate
        <4>3. Concerns(r) = job[r].names
          BY <4>2 DEF Concerns, DomainOps
        <4>4. copy'[r][i] = table[i]
          BY <3>1, <4>2, <4>3 DEF TypeInv, TypeOK
        <4> QED
          BY <1>1, <1>4, <3>4, <4>4 DEF Fresh
      <3> QED
        BY <3>2, <3>3, <3>4
    <2> QED
      BY <2>1, <2>3
  <1> QED
    BY <1>4, <1>5, <1>6, TasksFrame

\* The end of the process leaves the tables with work settled.
LEMMA EndFits ==
    ASSUME TypeInv, TasksFit, NEW qs \in SUBSET Reqs, Running \subseteq qs, End(qs)
    PROVE  TasksFit'
  <1>1. /\ UNCHANGED <<table, tasks, copy, had, todo, mixed, job>>
        /\ settled' = settled \cup Unfinished
        /\ \A q \in Reqs : pc'[q] \notin {"tasks", "save", "work", "close", "mark", "drop"}
    BY DEF End, Running
  <1>2. CopiesFresh' /\ PendingFits'
    BY <1>1 DEF CopiesFresh, Fresh, PendingFits, Pends
  <1>3. \A i \in Ids \ settled' : \A q \in Reqs : ~Owes(q, i)
    BY <1>1 DEF Owes, Unfinished
  <1>4. AllFit'
    BY <1>1, <1>3 DEF TasksFit, AllFit, There, Fit, StateOf
  <1> QED
    BY <1>2, <1>4 DEF TasksFit
-----------------------------------------------------------------------------
(* The save of an upsert. *)

\* What mongoose writes over a document that is as it was read.
LEMMA SentSame ==
    ASSUME NEW new, NEW old
    PROVE  Sent(new, old, old) = {new}
  BY DEF Sent

LEMMA OneDoc ==
    ASSUME NEW n, NEW d, NEW c, NEW b, NEW x \in [name : {n}, domain : {d}, cols : {c}, dead : {b}]
    PROVE  x = [name |-> n, domain |-> d, cols |-> c, dead |-> b]
  OBVIOUS

\* At a name that is not mixed a save writes what it has computed, from what there is.
LEMMA SaveFresh ==
    ASSUME TypeInv, TasksFit, NEW r \in Reqs, pc[r] = "save",
           NEW at \in Targets(r, Accepted(r)), NEW ok \in SUBSET Accepted(r), Save(r, ok, at),
           NEW n \in ok
    PROVE  LET i == at[n]
               w == job[r].want[n]
           IN /\ i \in Ids /\ n \in Names /\ w \in Wants /\ Exists(w.domain) /\ n \in Concerns(r)
              /\ There(i) => table[i].name = n
              /\ todo'[r][i] = TaskWork(copy[r][i], w, i \in had[r])
              /\ n \notin mixed' =>
                    /\ copy[r][i] = table[i]
                    /\ table'[i] = [name |-> n, domain |-> w.domain,
                                    cols |-> NextCols(copy[r][i], w), dead |-> FALSE]
                    /\ There(i) => (i \in had[r] <=> tasks[i] # NoTasks)
                    /\ ~There(i) => tasks[i] = NoTasks
  <1> DEFINE i == at[n]
             w == job[r].want[n]
  <1>1. /\ job[r] \in Jobs /\ job[r].op = "upsert"
        /\ job[r].want \in [Names -> Wants \cup {NoTable}]
    BY UpsertJob DEF TypeInv, TypeOK, StepsOf
  <1>2. /\ n \in Names /\ n \in Concerns(r) /\ job[r].want[n] # NoTable /\ Exists(w.domain)
        /\ Accepted(r) \in SUBSET Names
    BY <1>1 DEF Accepted, Concerns
  <1>3. /\ i \in Ids /\ w \in Wants
        /\ There(i) => table[i].name = n
    BY <1>1, <1>2, TargetsSound
  <1>4. \A m \in ok : at[m] = i => m = n
    BY DEF Targets
  <1>5. (CHOOSE m \in ok : at[m] = i) = n
    BY <1>4
  <1>6. todo'[r][i] = TaskWork(copy[r][i], w, i \in had[r])
    <2>1. todo' = [todo EXCEPT ![r] = [k \in Ids |->
                    IF \E m \in ok : at[m] = k
                    THEN LET m == CHOOSE m \in ok : at[m] = k
                         IN TaskWork(copy[r][k], job[r].want[m], k \in had[r])
                    ELSE "none"]]
      BY DEF Save
    <2>2. todo'[r][i] = IF \E m \in ok : at[m] = i
                        THEN LET m == CHOOSE m \in ok : at[m] = i
                             IN TaskWork(copy[r][i], job[r].want[m], i \in had[r])
                        ELSE "none"
      BY <1>3, <2>1 DEF TypeInv, TypeOK
    <2> QED
      BY <1>5, <2>2
  <1>7. ASSUME n \notin mixed'
        PROVE  /\ copy[r][i] = table[i]
               /\ table'[i] = [name |-> n, domain |-> w.domain,
                               cols |-> NextCols(copy[r][i], w), dead |-> FALSE]
               /\ There(i) => (i \in had[r] <=> tasks[i] # NoTasks)
               /\ ~There(i) => tasks[i] = NoTasks
    <2>1. n \notin mixed
      BY <1>7 DEF Save, Touch
    <2>2. \A k \in Ids : There(k) /\ table[k].name = n =>
             copy[r][k] = table[k] /\ (k \in had[r] <=> tasks[k] # NoTasks)
      BY <1>2, <2>1 DEF Clear, TasksFit, CopiesFresh, Fresh
    <2>3. ~There(i) => copy[r][i] = NoTable /\ copy[r][i] = table[i] /\ tasks[i] = NoTasks
      BY <1>3 DEF TypeInv, CopiesThere, There, Targets
    <2>5. copy[r][i] = table[i]
      BY <1>3, <2>2, <2>3
    <2>6. table'[i] \in Saved(r, n, i)
      <3>1. PICK new :
               /\ \A m \in ok : new[m] \in Saved(r, m, at[m])
               /\ table' = [k \in Ids |-> IF \E m \in ok : at[m] = k
                                          THEN new[CHOOSE m \in ok : at[m] = k] ELSE table[k]]
        BY DEF Save
      <3>2. table'[i] = new[n]
        BY <1>3, <1>5, <3>1
      <3> QED
        BY <3>1, <3>2
    <2>7. \A x \in Saved(r, n, i) : x = [name |-> n, domain |-> w.domain,
                                       cols |-> NextCols(copy[r][i], w), dead |-> FALSE]
      <3>1. CASE copy[r][i] = NoTable
        BY <3>1 DEF Saved
      <3>2. CASE copy[r][i] # NoTable
        <4>1. Saved(r, n, i) = [name : {n}, domain : {w.domain},
                                cols : {NextCols(copy[r][i], w)}, dead : {FALSE}]
          BY <2>5, <3>2, SentSame DEF Saved
        <4> QED
          BY <4>1, OneDoc
      <3> QED
        BY <3>1, <3>2
    <2> QED
      BY <1>3, <2>2, <2>3, <2>5, <2>6, <2>7
  <1> QED
    BY <1>2, <1>3, <1>6, <1>7
\* A request that has work left for a table's tasks works on the table.
LEMMA OwesBusy ==
    ASSUME TypeInv, TasksFit, NEW q \in Reqs, NEW i \in Ids, Owes(q, i)
    PROVE  There(i) /\ Busy(q) /\ table[i].name \in Concerns(q)
  <1>1. CASE pc[q] = "work" /\ todo[q][i] # "none"
    BY <1>1 DEF TasksFit, PendingFits, Pends, Busy, TableOps, TypeInv, StepsOf
  <1>2. CASE pc[q] = "drop" /\ copy[q][i] # NoTable
    BY <1>2 DEF Busy, TableOps, Concerns, DomainOps, TypeInv, StepsOf, CopiesThere, CopiesAsked
  <1> QED
    BY <1>1, <1>2 DEF Owes

\* A table that r writes, and that nobody else works on, was left with tasks that fit.
LEMMA FitBefore ==
    ASSUME TypeInv, TasksFit, NEW r \in Reqs, Marking(r), DocsKept, NEW i \in Ids \ settled,
           There(i), Writes(i), table'[i].name \notin mixed', ~Owes(r, i)
    PROVE  Fit(table[i], tasks[i])
  <1>1. There(i)' /\ table'[i].name = table[i].name /\ table[i].name \notin mixed
    BY DEF DocsKept, Marking, There
  <1>2. \A q \in Reqs : ~Owes(q, i)
    BY <1>1, OwesBusy DEF Marking
  <1> QED
    BY <1>1, <1>2 DEF TasksFit, AllFit

LEMMA SaveMarks ==
    ASSUME TypeInv, NEW r \in Reqs, SaveTables(r) \/ SaveThrows(r)
    PROVE  OthersTable(r) /\ DocsKept /\ Marking(r)
  <1>1. PICK at \in Targets(r, Accepted(r)), ok \in SUBSET Accepted(r) : Save(r, ok, at)
    BY DEF SaveTables, SaveThrows
  <1>2. /\ pc[r] = "save" /\ UNCHANGED <<domainVars, tasks, copy, had, job>>
        /\ settled \subseteq settled' /\ \E step : Goto(r, step)
    BY DEF SaveTables, SaveThrows
  <1>3. /\ DocsKept
        /\ \A i \in Ids : table'[i] = table[i] \/ (\E n \in ok : i = at[n] /\ table'[i].name = n)
    BY <1>1, <1>2, SaveType
  <1>4. /\ Touch(r, ok)
        /\ \E f : todo' = [todo EXCEPT ![r] = f]
    BY <1>1 DEF Save
  <1>5. Marking(r)
    BY <1>2, <1>3, <1>4 DEF Marking, Writes, Touch
  <1>6. OthersTable(r)
    BY <1>2, <1>4 DEF OthersTable, Goto, TypeInv, TypeOK
  <1> QED
    BY <1>3, <1>5, <1>6

\* The work a save leaves on a table makes its tasks fit the document it has written.
LEMMA SaveOne ==
    ASSUME TypeInv, TasksFit, NEW r \in Reqs, pc[r] = "save", DocsKept, Marking(r),
           UNCHANGED tasks, NEW at \in Targets(r, Accepted(r)), NEW ok \in SUBSET Accepted(r),
           Save(r, ok, at), NEW n \in ok, n \notin mixed'
    PROVE  LET i == at[n] IN
           /\ There(i)' /\ table'[i].name = n
           /\ todo'[r][i] \in {"create", "update"} =>
                 ~table'[i].dead /\ StateOf(table'[i].cols) # "internal"
           /\ i \notin settled => \A t \in Worked(todo'[r][i], tasks[i]) : Fit(table'[i], t)
  <1> DEFINE i == at[n]
             w == job[r].want[n]
             D == copy[r][i]
             E == [name |-> n, domain |-> w.domain, cols |-> NextCols(D, w), dead |-> FALSE]
  <1>1. /\ i \in Ids /\ n \in Names /\ w \in Wants
        /\ There(i) => table[i].name = n
        /\ todo'[r][i] = TaskWork(D, w, i \in had[r])
        /\ D = table[i] /\ table'[i] = E
        /\ There(i) => (i \in had[r] <=> tasks[i] # NoTasks)
        /\ ~There(i) => tasks[i] = NoTasks
    BY SaveFresh
  <1>2. D \in Docs \cup {NoTable} /\ tasks[i] \in TaskCounts
    BY <1>1 DEF TypeInv, TypeOK
  <1>3. E \in Docs
    BY <1>1, <1>2, NextColsType DEF Docs, Wants
  <1>4. E.name = n /\ E.cols = NextCols(D, w) /\ E.dead = FALSE
    OBVIOUS
  <1>5. There(i)' /\ table'[i].name = n
    BY <1>1, <1>3, <1>4, TablesAssumption DEF There
  <1>6. todo'[r][i] \in {"create", "update"} => ~table'[i].dead /\ StateOf(table'[i].cols) # "internal"
    <2>1. TaskWork(D, w, i \in had[r]) \in {"create", "update"} => ~w.internal
      BY DEF TaskWork
    <2>2. ~w.internal => StateOf(NextCols(D, w)) # "internal"
      BY <1>1, <1>2, NextColsFacts, StateFacts
    <2> QED
      BY <1>1, <1>4, <2>1, <2>2
  <1>7. ASSUME i \notin settled
        PROVE  \A t \in Worked(todo'[r][i], tasks[i]) : Fit(table'[i], t)
    <2>1. D # NoTable => Fit(D, tasks[i])
      <3> SUFFICES ASSUME D # NoTable PROVE Fit(table[i], tasks[i])
        BY <1>1
      <3>1. There(i) /\ table[i].name \notin mixed /\ \A q \in Reqs \ {r} : Busy(q) => n \notin Concerns(q)
        <4>1. There(i) /\ table[i].name = n
          BY <1>1 DEF There
        <4>2. Touch(r, ok)
          BY DEF Save
        <4> QED
          BY <4>1, <4>2 DEF Touch
      <3>2. \A q \in Reqs : ~Owes(q, i)
        BY <1>1, <3>1, OwesBusy DEF Owes
      <3> QED
        BY <1>1, <1>7, <3>1, <3>2 DEF TasksFit, AllFit
    <2>2. /\ D # NoTable => ((i \in had[r]) <=> tasks[i] # NoTasks)
          /\ D = NoTable => tasks[i] = NoTasks
      BY <1>1 DEF There
    <2> HIDE DEF D, w, E, i
    <2>3. ASSUME NEW found \in BOOLEAN, D # NoTable => (found <=> tasks[i] # NoTasks)
          PROVE  \A t \in Worked(TaskWork(D, w, found), tasks[i]) : Fit(E, t)
      BY <1>1, <1>2, <1>4, <2>1, <2>2, <2>3, UpsertFits
    <2>4. (i \in had[r]) \in BOOLEAN
      OBVIOUS
    <2> QED
      BY <1>1, <2>2, <2>3, <2>4
  <1> QED
    BY <1>5, <1>6, <1>7
\* Each document that a save writes is there, under its name.
LEMMA SaveWrites ==
    ASSUME TypeInv, NEW r \in Reqs, pc[r] = "save",
           NEW at \in Targets(r, Accepted(r)), NEW ok \in SUBSET Accepted(r), Save(r, ok, at),
           NEW n \in ok
    PROVE  at[n] \in Ids /\ table'[at[n]] \in Docs /\ table'[at[n]].name = n
  <1>1. /\ job[r] \in Jobs /\ job[r].op = "upsert"
        /\ job[r].want \in [Names -> Wants \cup {NoTable}]
    BY UpsertJob DEF TypeInv, TypeOK, StepsOf
  <1>2. /\ n \in Names /\ job[r].want[n] # NoTable
        /\ Accepted(r) \in SUBSET Names
    BY <1>1 DEF Accepted, Concerns
  <1>3. at[n] \in Ids /\ (copy[r][at[n]] # NoTable => There(at[n]))
    BY <1>2, TargetsSound
  <1>4. Saved(r, n, at[n]) \subseteq {d \in Docs : d.name = n}
    BY <1>1, <1>2, <1>3, DocThere, SavedType DEF TypeInv
  <1>5. (CHOOSE m \in ok : at[m] = at[n]) = n
    BY DEF Targets
  <1>6. table'[at[n]] \in Saved(r, n, at[n])
    <2>1. PICK new :
             /\ \A m \in ok : new[m] \in Saved(r, m, at[m])
             /\ table' = [k \in Ids |-> IF \E m \in ok : at[m] = k
                                        THEN new[CHOOSE m \in ok : at[m] = k] ELSE table[k]]
      BY DEF Save
    <2> QED
      BY <1>3, <1>5, <2>1
  <1> QED
    BY <1>3, <1>4, <1>6

LEMMA SaveFits ==
    ASSUME TypeInv, TasksFit, NEW r \in Reqs, SaveTables(r) \/ SaveThrows(r)
    PROVE  TasksFit'
  <1>1. OthersTable(r) /\ DocsKept /\ Marking(r)
    BY SaveMarks
  <1>2. PICK at \in Targets(r, Accepted(r)), ok \in SUBSET Accepted(r) :
           /\ Save(r, ok, at)
           /\ \/ SaveTables(r) /\ Goto(r, "work") /\ UNCHANGED settled
              \/ SaveThrows(r) /\ Goto(r, "failed") /\ settled' = settled \cup {at[n] : n \in ok}
    BY DEF SaveTables, SaveThrows
  <1>3. /\ pc[r] = "save" /\ UNCHANGED <<tasks, copy, job>> /\ settled \subseteq settled'
        /\ pc'[r] \in {"work", "failed"}
    BY <1>2 DEF SaveTables, SaveThrows, Goto, TypeInv, TypeOK
  <1>4. /\ \A n \in ok : at[n] \in Ids
        /\ \A i \in Ids : table'[i] = table[i] \/ \E n \in ok : i = at[n] /\ table'[i].name = n
    BY <1>2, <1>3, SaveType
  <1>5. ASSUME NEW i \in Ids, pc'[r] = "work", todo'[r][i] # "none"
        PROVE  \E n \in ok : i = at[n]
    BY <1>2, <1>5 DEF Save, TypeInv, TypeOK
  <1>6. \A i \in Ids : ~Owes(r, i)
    BY <1>3 DEF Owes
  <1>7. OwnFits(r)
    <2> SUFFICES ASSUME NEW i \in Ids \ settled', table'[i].name \notin mixed', Writes(i), ~Owes(r, i)'
                 PROVE  Fit(table'[i], tasks'[i])
      BY <1>6 DEF OwnFits
    <2>1. table'[i] # table[i]
      BY <1>3 DEF Writes
    <2>2. PICK n \in ok : i = at[n] /\ table'[i].name = n
      BY <1>4, <2>1
    <2>3. pc'[r] = "work"
      BY <1>2, <1>3, <2>2 DEF Goto, TypeInv, TypeOK
    <2>4. todo'[r][i] = "none"
      BY <2>3 DEF Owes
    <2>5. \A t \in Worked(todo'[r][i], tasks[i]) : Fit(table'[i], t)
      <3>1. at[n] \notin settled /\ n \notin mixed'
        BY <1>3, <2>2
      <3>2. \A t \in Worked(todo'[r][at[n]], tasks[at[n]]) : Fit(table'[at[n]], t)
        BY <1>1, <1>2, <1>3, <3>1, SaveOne
      <3> QED
        BY <2>2, <3>2
    <2>6. tasks[i] \in Worked("none", tasks[i])
      BY DEF Worked
    <2> QED
      BY <1>3, <2>4, <2>5, <2>6
  <1>8. ASSUME NEW i \in Ids
        PROVE  Fresh(r, i)' /\ Pends(r, i)'
    <2>1. Fresh(r, i)'
      BY <1>3 DEF Fresh
    <2>2. Pends(r, i)'
      <3> SUFFICES ASSUME pc'[r] = "work", todo'[r][i] # "none" PROVE Pends(r, i)'
        BY DEF Pends
      <3>1. PICK n \in ok : i = at[n]
        BY <1>5
      <3>2. n \in Concerns(r) /\ Concerns(r)' = Concerns(r)
        BY <1>1, <1>2, <1>3, <3>1, SaveFresh, ConcernsStay
      <3>3. There(i)' /\ table'[i].name = n
        BY <1>2, <1>3, <3>1, SaveWrites, TablesAssumption DEF There
      <3>4. table'[i].name \notin mixed' =>
              /\ todo'[r][i] \in {"create", "update"} =>
                    ~table'[i].dead /\ StateOf(table'[i].cols) # "internal"
              /\ i \notin settled => \A t \in Worked(todo'[r][i], tasks[i]) : Fit(table'[i], t)
        BY <1>1, <1>2, <1>3, <3>1, <3>3, SaveOne
      <3> QED
        BY <1>3, <3>2, <3>3, <3>4 DEF Pends, Worked, Fit, StateOf
    <2> QED
      BY <2>1, <2>2
  <1> QED
    BY <1>1, <1>7, <1>8, TasksFrame
-----------------------------------------------------------------------------
(* The work on the tasks that an upsert has left. *)

LEMMA WorkFits ==
    ASSUME TypeInv, TasksFit, NEW r \in Reqs, WriteTasks(r)
    PROVE  TasksFit'
  <1>1. /\ pc[r] = "work" /\ Goto(r, "done")
        /\ UNCHANGED <<domainVars, table, copy, had, todo, job>>
        /\ \A i \in Ids : tasks'[i] \in Worked(todo[r][i], tasks[i])
        /\ settled' = {i \in settled : todo[r][i] \in {"none", "delete"}
                                         \/ tasks'[i] # [open |-> 1, done |-> 0]}
        /\ Touch(r, {table[i].name : i \in {i \in Ids : There(i) /\ todo[r][i] # "none"}})
    BY DEF WriteTasks
  <1>2. OthersTable(r) /\ pc'[r] = "done"
    BY <1>1 DEF OthersTable, Goto, TypeInv, TypeOK
  <1>3. \A i \in Ids : Writes(i) \/ Owes(r, i) => todo[r][i] # "none"
    BY <1>1 DEF Writes, Owes, Worked
  <1>4. DocsKept /\ Marking(r)
    BY <1>1, <1>3, TableSame DEF Marking, Touch, There
  <1>5. OwnFits(r)
    <2> SUFFICES ASSUME NEW i \in Ids \ settled', There(i), table[i].name \notin mixed',
                        todo[r][i] # "none"
                 PROVE  Fit(table[i], tasks'[i])
      BY <1>1, <1>3 DEF OwnFits, There
    <2>1. /\ todo[r][i] \in {"create", "update"} => ~table[i].dead /\ StateOf(table[i].cols) # "internal"
          /\ i \notin settled => \A t \in Worked(todo[r][i], tasks[i]) : Fit(table[i], t)
      BY <1>1, <1>4 DEF Marking, TasksFit, PendingFits, Pends
    <2>2. CASE i \notin settled
      BY <1>1, <2>1, <2>2
    <2>3. CASE i \in settled
      <3>1. todo[r][i] \in {"create", "update"} /\ tasks'[i] = [open |-> 1, done |-> 0]
        BY <1>1, <2>3 DEF TypeInv, TypeOK, Work
      <3> QED
        BY <2>1, <3>1 DEF Fit
    <2> QED
      BY <2>2, <2>3
  <1>6. \A i \in Ids : Fresh(r, i)' /\ Pends(r, i)'
    BY <1>2 DEF Fresh, Pends
  <1> QED
    BY <1>2, <1>4, <1>5, <1>6, TasksFrame

\* A request that fails to write tasks settles those it had work left for.
LEMMA FailFits ==
    ASSUME TypeInv, TasksFit, NEW r \in Reqs, TasksFail(r) \/ CloseFails(r) \/ DropFails(r)
    PROVE  TasksFit'
  <1>1. /\ UNCHANGED <<domainVars, table, tasks, copy, had, todo, mixed, job>>
        /\ settled \subseteq settled' /\ Goto(r, "failed")
        /\ \A i \in Ids : Owes(r, i) => i \in settled'
    BY DEF TasksFail, CloseFails, DropFails, Owes
  <1>2. OthersTable(r) /\ pc'[r] = "failed"
    BY <1>1 DEF OthersTable, Goto, TypeInv, TypeOK
  <1>3. DocsKept /\ Marking(r) /\ OwnFits(r)
    BY <1>1, TableSame DEF Marking, Writes, OwnFits
  <1>4. \A i \in Ids : Fresh(r, i)' /\ Pends(r, i)'
    BY <1>2 DEF Fresh, Pends
  <1> QED
    BY <1>2, <1>3, <1>4, TasksFrame
-----------------------------------------------------------------------------
(* Edits. *)

\* Whether a table is internal cannot be edited: the classification of internal
\* tables is none of a domain.
LEMMA EditKeepsInternal ==
    ASSUME TypeInv, NEW j \in Jobs, j.op = "edit", NEW D \in Docs, MayEdit(j, D)
    PROVE  HasInternal(Merged(j, D)) <=> HasInternal(D.cols)
  <1>1. \A a, d : ~CanAssign(a, d, Internal)
    BY TablesAssumption DEF CanAssign, TypeInv, TypeOK, DomainTypeOK
  <1>2. Internal \in Marks \ {None} /\ Internal # NoColumn
    BY TablesAssumption DEF Marks
  <1>3. \A c \in Columns : c \in Changed(j, D) => Internal \notin {D.cols[c], j.cols[c]}
    BY <1>1, <1>2 DEF MayEdit
  <1> QED
    BY <1>2, <1>3 DEF HasInternal, Merged, Changed

LEMMA WriteEditFits ==
    ASSUME TypeInv, EditsChecked, TasksFit, NEW r \in Reqs, WriteEdit(r)
    PROVE  TasksFit'
  <1> DEFINE i == job[r].id
             next == Merged(job[r], copy[r][i])
             D == table[i]
  <1>1. /\ pc[r] = "write" /\ job[r].op = "edit" /\ job[r] \in Jobs
        /\ UNCHANGED <<domainVars, tasks, copy, had, todo, job>>
        /\ table' = [table EXCEPT ![i].cols = next]
        /\ settled' = IF StateOf(next) # "classified" /\ tasks[i].open = 0
                      THEN settled \cup {i} ELSE settled
        /\ Touch(r, {D.name})
        /\ Goto(r, IF StateOf(next) = "classified" THEN "close" ELSE "done")
    BY DEF WriteEdit, TypeInv, TypeOK
  <1>2. i \in Ids /\ There(i) /\ copy[r][i] \in Docs /\ D \in Docs
    BY <1>1, EditorBusy, DocThere DEF TypeInv
  <1>3. next \in [Columns -> Marks \cup {NoColumn}]
    BY <1>1, <1>2, MergedType
  <1> HIDE DEF next
  <1>4. /\ table'[i] = [D EXCEPT !.cols = next]
        /\ \A k \in Ids \ {i} : table'[k] = table[k]
    BY <1>1, <1>2 DEF TypeInv, TypeOK
  <1>5. table'[i].name = D.name /\ table'[i].cols = next /\ table'[i].dead = D.dead /\ table'[i] \in Docs
    BY <1>2, <1>3, <1>4 DEF Docs
  <1>6. /\ OthersTable(r)
        /\ pc'[r] = IF StateOf(next) = "classified" THEN "close" ELSE "done"
    BY <1>1 DEF OthersTable, Goto, TypeInv, TypeOK
  <1>7. DocsKept
    BY <1>4, <1>5, TablesAssumption DEF DocsKept, There
  <1>8. \A k \in Ids : Writes(k) => k = i
    BY <1>1, <1>4 DEF Writes
  <1>9. Marking(r)
    BY <1>1, <1>5, <1>8 DEF Marking, Touch
  <1>10. OwnFits(r)
    <2> SUFFICES ASSUME i \notin settled', D.name \notin mixed', Writes(i)
                 PROVE  Fit(table'[i], tasks[i])
      BY <1>1, <1>5, <1>8 DEF OwnFits, Owes
    <2>1. Fit(D, tasks[i]) /\ i \notin settled /\ D.name \notin mixed
      BY <1>1, <1>2, <1>5, <1>7, <1>9, FitBefore DEF Owes, Marking
    <2>2. D = copy[r][i] /\ MayEdit(job[r], D)
      BY <1>1, <2>1 DEF EditsChecked
    <2>3. HasInternal(next) <=> HasInternal(D.cols)
      BY <1>1, <1>2, <2>2, EditKeepsInternal DEF next
    <2>4. /\ tasks[i].open + tasks[i].done <= 1
          /\ D.dead \/ HasInternal(D.cols) => tasks[i] = NoTasks
      BY <1>2, <2>1, FitFacts DEF Docs
    <2>5. HasNone(next) => tasks[i].open # 0
      BY <1>1, <1>3, StateFacts
    <2>6. tasks[i].open \in Nat /\ tasks[i].done \in Nat
      BY <1>2 DEF TypeInv, TypeOK, TaskCounts
    <2>7. HasNone(next) => tasks[i].open = 1
      BY <2>4, <2>5, <2>6
    <2> QED
      BY <1>3, <1>5, <2>3, <2>4, <2>7, FitFacts
  <1>11. ASSUME NEW k \in Ids
         PROVE  Fresh(r, k)' /\ Pends(r, k)'
    BY <1>1, <1>5, <1>6 DEF Fresh, Pends
  <1> QED
    BY <1>6, <1>7, <1>9, <1>10, <1>11, TasksFrame

LEMMA CloseTaskFits ==
    ASSUME TypeInv, TasksFit, NEW r \in Reqs, CloseTask(r)
    PROVE  TasksFit'
  <1> DEFINE i == job[r].id
             D == table[i]
             t == tasks[i]
  <1>1. /\ pc[r] = "close" /\ Goto(r, "done")
        /\ UNCHANGED <<domainVars, table, copy, had, todo, settled, job>>
        /\ tasks' = IF t.open = 0 THEN tasks
                    ELSE [tasks EXCEPT ![i] = [open |-> t.open - 1, done |-> t.done + 1]]
        /\ Touch(r, {D.name})
    BY DEF CloseTask
  <1>2. /\ job[r].op = "edit" /\ i \in Ids /\ There(i) /\ D \in Docs
        /\ t.open \in Nat /\ t.done \in Nat
    BY <1>1, EditJob, DocThere DEF TypeInv, TypeOK, StepsOf, CopiesAsked, CopiesThere, TaskCounts
  <1>3. OthersTable(r) /\ pc'[r] = "done"
    BY <1>1 DEF OthersTable, Goto, TypeInv, TypeOK
  <1>4. \A k \in Ids : Writes(k) => k = i
    BY <1>1 DEF Writes, TypeInv, TypeOK
  <1>5. DocsKept /\ Marking(r)
    BY <1>1, <1>4, TableSame DEF Marking, Touch
  <1>6. OwnFits(r)
    <2> SUFFICES ASSUME i \notin settled, D.name \notin mixed', Writes(i)
                 PROVE  Fit(D, tasks'[i])
      BY <1>1, <1>4 DEF OwnFits, Owes
    <2>1. Fit(D, t) /\ D.name \notin mixed
      BY <1>1, <1>2, <1>5, FitBefore DEF Owes, Marking
    <2>2. D.name \in Concerns(r)
      BY <1>2 DEF Concerns, DomainOps
    <2>3. StateOf(D.cols) = "classified"
      BY <1>1, <1>2, <2>1, <2>2 DEF TasksFit, CopiesFresh, Fresh, Clear
    <2>4. CASE t.open = 0
      BY <1>1, <2>1, <2>4
    <2>5. CASE t.open # 0
      <3>1. tasks'[i] = [open |-> t.open - 1, done |-> t.done + 1]
        BY <1>1, <1>2, <2>5 DEF TypeInv, TypeOK
      <3>2. t.open + t.done <= 1 /\ ~D.dead
        BY <2>1, <2>5 DEF Fit, NoTasks
      <3> QED
        BY <1>2, <2>3, <3>1, <3>2 DEF Fit
    <2> QED
      BY <2>4, <2>5
  <1>7. \A k \in Ids : Fresh(r, k)' /\ Pends(r, k)'
    BY <1>3 DEF Fresh, Pends
  <1> QED
    BY <1>3, <1>5, <1>6, <1>7, TasksFrame

\* A task that a person closes is settled.
LEMMA ApproveFits ==
    ASSUME TypeInv, TasksFit, NEW r \in Reqs, WriteApprove(r)
    PROVE  TasksFit'
  <1> DEFINE i == job[r].id
  <1>1. /\ pc[r] = "write" /\ Goto(r, "done")
        /\ UNCHANGED <<domainVars, table, copy, had, todo, job>>
        /\ settled' = settled \cup {i}
        /\ \A k \in Ids \ {i} : tasks'[k] = tasks[k]
        /\ Touch(r, {table[i].name})
    BY DEF WriteApprove, TypeInv, TypeOK
  <1>2. OthersTable(r) /\ pc'[r] = "done"
    BY <1>1 DEF OthersTable, Goto, TypeInv, TypeOK
  <1>3. \A k \in Ids : Writes(k) => k = i
    BY <1>1 DEF Writes
  <1>4. DocsKept /\ Marking(r)
    BY <1>1, <1>3, TableSame DEF Marking, Touch
  <1>5. OwnFits(r)
    BY <1>1, <1>3 DEF OwnFits, Owes
  <1>6. \A k \in Ids : Fresh(r, k)' /\ Pends(r, k)'
    BY <1>2 DEF Fresh, Pends
  <1> QED
    BY <1>2, <1>4, <1>5, <1>6, TasksFrame
-----------------------------------------------------------------------------
(* Deprecations, and the steps on domains. *)

LEMMA MarkDeadFits ==
    ASSUME TypeInv, TasksFit, NEW r \in Reqs, MarkDead(r)
    PROVE  TasksFit'
  <1>1. /\ pc[r] = "mark" /\ Goto(r, "drop")
        /\ UNCHANGED <<domainVars, tasks, copy, had, todo, settled, job>>
        /\ table' = [i \in Ids |-> IF copy[r][i] = NoTable THEN table[i]
                                   ELSE [table[i] EXCEPT !.dead = TRUE]]
        /\ Touch(r, job[r].names)
    BY DEF MarkDead
  <1>2. OthersTable(r) /\ pc'[r] = "drop"
    BY <1>1 DEF OthersTable, Goto, TypeInv, TypeOK
  <1>3. \A i \in Ids : copy[r][i] # NoTable =>
           /\ There(i) /\ table[i].name \in job[r].names
           /\ table'[i] \in Docs /\ table'[i].name = table[i].name /\ table'[i].dead
    <2> SUFFICES ASSUME NEW i \in Ids, copy[r][i] # NoTable
                 PROVE  /\ There(i) /\ table[i].name \in job[r].names
                        /\ table'[i] \in Docs /\ table'[i].name = table[i].name /\ table'[i].dead
      OBVIOUS
    <2>1. There(i) /\ table[i].name \in job[r].names /\ table[i] \in Docs
      BY <1>1, DocThere DEF TypeInv, CopiesThere, CopiesAsked
    <2>2. table'[i] = [table[i] EXCEPT !.dead = TRUE]
      BY <1>1
    <2> QED
      BY <2>1, <2>2 DEF Docs
  <1>4. DocsKept
    BY <1>1, <1>3, TablesAssumption DEF DocsKept, There
  <1>5. \A i \in Ids : Writes(i) => copy[r][i] # NoTable
    BY <1>1 DEF Writes
  <1>6. Marking(r)
    BY <1>1, <1>3, <1>5 DEF Marking, Touch
  <1>7. OwnFits(r)
    BY <1>1, <1>2, <1>5 DEF OwnFits, Owes
  <1>8. ASSUME NEW i \in Ids
        PROVE  Fresh(r, i)' /\ Pends(r, i)'
    <2>1. Pends(r, i)'
      BY <1>2 DEF Pends
    <2>2. Clear(r, i)' => table'[i].dead
      <3> SUFFICES ASSUME Clear(r, i)', copy[r][i] = NoTable PROVE FALSE
        BY <1>3
      <3>1. table'[i] = table[i] /\ mixed \subseteq mixed'
        BY <1>1, <1>6 DEF Marking
      <3>2. Concerns(r)' = Concerns(r)
        BY <1>1, <1>4, ConcernsStay
      <3>3. Clear(r, i)
        BY <3>1, <3>2 DEF Clear, There
      <3> QED
        BY <1>1, <3>3 DEF TasksFit, CopiesFresh, Fresh, Clear, There
    <2> QED
      BY <1>2, <2>1, <2>2 DEF Fresh
  <1> QED
    BY <1>2, <1>4, <1>6, <1>7, <1>8, TasksFrame

LEMMA DropTasksFits ==
    ASSUME TypeInv, TasksFit, NEW r \in Reqs, DropTasks(r)
    PROVE  TasksFit'
  <1>1. /\ pc[r] = "drop" /\ Goto(r, "done")
        /\ UNCHANGED <<domainVars, table, copy, had, todo, settled, job>>
        /\ tasks' = [i \in Ids |-> IF copy[r][i] = NoTable THEN tasks[i] ELSE NoTasks]
        /\ Touch(r, job[r].names)
    BY DEF DropTasks
  <1>2. OthersTable(r) /\ pc'[r] = "done"
    BY <1>1 DEF OthersTable, Goto, TypeInv, TypeOK
  <1>3. \A i \in Ids : Writes(i) \/ Owes(r, i) => copy[r][i] # NoTable
    BY <1>1 DEF Writes, Owes
  <1>4. \A i \in Ids : copy[r][i] # NoTable => There(i) /\ table[i].name \in job[r].names
    BY <1>1 DEF TypeInv, CopiesThere, CopiesAsked
  <1>5. DocsKept /\ Marking(r)
    BY <1>1, <1>3, <1>4, TableSame DEF Marking, Touch
  <1>6. OwnFits(r)
    <2> SUFFICES ASSUME NEW i \in Ids, copy[r][i] # NoTable, table[i].name \notin mixed'
                 PROVE  Fit(table[i], NoTasks)
      BY <1>1, <1>3 DEF OwnFits
    <2>1. Clear(r, i)
      <3>1. job[r].op = "deprecate"
        BY <1>1 DEF TypeInv, StepsOf
      <3> QED
        BY <1>4, <1>5, <3>1 DEF Clear, Concerns, DomainOps, Marking
    <2>2. table[i].dead
      BY <1>1, <2>1 DEF TasksFit, CopiesFresh, Fresh
    <2> QED
      BY <2>2 DEF Fit, NoTasks
  <1>7. \A i \in Ids : Fresh(r, i)' /\ Pends(r, i)'
    BY <1>2 DEF Fresh, Pends
  <1> QED
    BY <1>2, <1>5, <1>6, <1>7, TasksFrame

\* The steps at which a request works on tables.
TableWork == {"tasks", "save", "work", "close", "mark", "drop"}

LEMMA SameFits ==
    ASSUME TasksFit, UNCHANGED <<tableVars, job>>,
           \A q \in Reqs : pc'[q] = pc[q] \/ (pc'[q] \notin TableWork /\ pc[q] \notin TableWork)
    PROVE  TasksFit'
  <1>1. UNCHANGED <<table, tasks, copy, had, todo, mixed, settled>>
    BY DEF tableVars
  <1>2. \A q \in Reqs : pc'[q] \in TableWork \/ pc[q] \in TableWork => pc'[q] = pc[q]
    OBVIOUS
  <1>3. \A q \in Reqs, i \in Ids : (Clear(q, i)' <=> Clear(q, i)) /\ (Owes(q, i)' <=> Owes(q, i))
    BY <1>1, <1>2 DEF Clear, There, Concerns, Owes, TableWork
  <1>4. CopiesFresh'
    BY <1>1, <1>2, <1>3 DEF TasksFit, CopiesFresh, Fresh, TableWork
  <1>5. PendingFits'
    <2> SUFFICES ASSUME NEW q \in Reqs, NEW i \in Ids PROVE Pends(q, i)'
      BY DEF PendingFits
    <2>1. Pends(q, i)
      BY DEF TasksFit, PendingFits
    <2>2. Concerns(q)' = Concerns(q)
      BY <1>1 DEF Concerns, There
    <2> QED
      BY <1>1, <1>2, <2>1, <2>2 DEF Pends, TableWork, There, Worked, Fit, StateOf
  <1>6. AllFit'
    BY <1>1, <1>3 DEF TasksFit, AllFit, There
  <1> QED
    BY <1>4, <1>5, <1>6 DEF TasksFit

LEMMA FitsNext ==
    ASSUME TypeInv, EditsChecked, TasksFit, [Next]_vars
    PROVE  TasksFit'
  <1>1. CASE UNCHANGED vars
    BY <1>1, SameFits DEF vars
  <1>2. CASE Crash
    BY <1>2, EndFits DEF Crash, Running
  <1>3. ASSUME NEW r \in Reqs, DomainStep(r), UNCHANGED tableVars
        PROVE  TasksFit'
    <2>1. UNCHANGED job
      BY <1>3 DEF DomainStep, ReadCreateDomain, WriteCreateDomain, ReadEditDomain, WriteEditDomain,
             ReadCreateClass, InsertClass, FindDomains, PushClass, RenameClass, WriteLinks, LinksFail
    <2>2. /\ pc[r] \notin TableWork
          /\ \E step \in {"write", "insert", "find", "push", "link", "done", "failed"} : Goto(r, step)
      BY <1>3, Zenon DEF DomainStep, ReadCreateDomain, WriteCreateDomain, ReadEditDomain, WriteEditDomain,
             ReadCreateClass, InsertClass, FindDomains, PushClass, RenameClass, WriteLinks, LinksFail,
             TableWork
    <2>3. \A q \in Reqs : pc'[q] = pc[q] \/ (pc'[q] \notin TableWork /\ pc[q] \notin TableWork)
      BY <2>2 DEF Goto, TableWork, TypeInv, TypeOK
    <2> QED
      BY <1>3, <2>1, <2>3, SameFits
  <1>4. ASSUME NEW r \in Reqs, TableStep(r)
        PROVE  TasksFit'
    <2>1. CASE ReadApprove(r) /\ End(Running \cup {r})
      BY <2>1, EndFits DEF Running
    <2> QED
      BY <1>4, <2>1, ReadFits, SaveFits, WorkFits, FailFits, WriteEditFits, CloseTaskFits, ApproveFits,
         MarkDeadFits, DropTasksFits DEF TableStep
  <1> QED
    BY <1>1, <1>2, <1>3, <1>4 DEF Next
-----------------------------------------------------------------------------
(* One document for a name, and classifications of the table's domain. *)

\* Only a save inserts a table.
LEMMA Inserts ==
    ASSUME TypeInv, [Next]_vars, ~(\E r \in Reqs : SaveTables(r) \/ SaveThrows(r))
    PROVE  /\ mixed \subseteq mixed'
           /\ \A i \in Ids : There(i)' => There(i) /\ table'[i].name = table[i].name
  <1>1. ASSUME NEW r \in Reqs, TableStep(r)
        PROVE  mixed \subseteq mixed' /\ \A i \in Ids : There(i)' => There(i) /\ table'[i].name = table[i].name
    <2>1. mixed \subseteq mixed'
      BY <1>1, WritesMark
    <2>2. \A i \in Ids : There(i) => table'[i] = table[i] \/ table'[i].name = table[i].name
      BY <1>1, WritesMark
    <2>3. \A i \in Ids : There(i)' => There(i)
      <3>1. CASE MarkDead(r)
        BY <3>1 DEF MarkDead, There, TypeInv, CopiesThere
      <3>2. CASE WriteEdit(r)
        <4>1. job[r].id \in Ids /\ There(job[r].id)
          BY <3>2, EditorBusy DEF WriteEdit
        <4> QED
          BY <3>2, <4>1 DEF WriteEdit, There, TypeInv, TypeOK
      <3>3. CASE UNCHANGED table
        BY <3>3 DEF There
      <3> QED
        BY <1>1, <3>1, <3>2, <3>3 DEF TableStep, ReadUpsert, ReadTasks, WriteTasks, TasksFail, ReadEdit,
           CloseTask, CloseFails, ReadApprove, WriteApprove, ReadDeprecate, DropTasks, DropFails,
           Fail, End, tableVars
    <2> QED
      BY <2>1, <2>2, <2>3
  <1>2. CASE UNCHANGED vars \/ Crash \/ \E r \in Reqs : DomainStep(r) /\ UNCHANGED tableVars
    BY <1>2 DEF vars, tableVars, Crash, End, There
  <1> QED
    BY <1>1, <1>2 DEF Next

\* A save inserts a document of a name that has none.
LEMMA SaveInserts ==
    ASSUME TypeInv, TasksFit, NEW r \in Reqs, pc[r] = "save",
           NEW at \in Targets(r, Accepted(r)), NEW ok \in SUBSET Accepted(r), Save(r, ok, at),
           NEW n \in ok, n \notin mixed', ~There(at[n])
    PROVE  \A k \in Ids : There(k) => table[k].name # n
  <1> SUFFICES ASSUME NEW k \in Ids, There(k), table[k].name = n PROVE FALSE
    OBVIOUS
  <1>1. n \in Concerns(r) /\ n \notin mixed
    BY DEF Accepted, Save, Touch
  <1>2. copy[r][k] = table[k]
    BY <1>1 DEF TasksFit, CopiesFresh, Fresh, Clear
  <1>3. copy[r][k] # NoTable /\ copy[r][k].name = n
    BY <1>2 DEF There
  <1>4. copy[r][at[n]] # NoTable /\ at[n] \in Ids
    BY <1>3 DEF Targets
  <1> QED
    BY <1>4 DEF TypeInv, CopiesThere

LEMMA NamesNext ==
    ASSUME TypeInv, TasksFit, NamesUnique, [Next]_vars
    PROVE  NamesUnique'
  <1> SUFFICES ASSUME NEW i \in Ids, NEW j \in Ids, There(i)', There(j)',
                      table'[i].name = table'[j].name, table'[i].name \notin mixed'
               PROVE  i = j
    BY DEF NamesUnique
  <1>1. CASE ~(\E r \in Reqs : SaveTables(r) \/ SaveThrows(r))
    BY <1>1, Inserts DEF NamesUnique
  <1>2. ASSUME NEW r \in Reqs, SaveTables(r) \/ SaveThrows(r)
        PROVE  i = j
    <2>1. PICK at \in Targets(r, Accepted(r)), ok \in SUBSET Accepted(r) : Save(r, ok, at)
      BY <1>2 DEF SaveTables, SaveThrows
    <2>2. pc[r] = "save" /\ DocsKept /\ mixed \subseteq mixed'
      BY <1>2, SaveMarks DEF SaveTables, SaveThrows, Marking
    <2>3. \A k \in Ids : There(k)' => \/ There(k) /\ table'[k].name = table[k].name
                                      \/ ~There(k) /\ \E n \in ok : k = at[n] /\ table'[k].name = n
      BY <2>1, <2>2, SaveType DEF There, DocsKept
    <2>4. \A n \in ok : n \notin mixed' /\ ~There(at[n]) => \A k \in Ids : There(k) => table[k].name # n
      BY <2>1, <2>2, SaveInserts
    <2>5. CASE There(i) /\ There(j)
      BY <2>2, <2>3, <2>5 DEF NamesUnique
    <2>6. CASE ~There(i) \/ ~There(j)
      <3>1. ~There(i) /\ ~There(j)
        BY <2>3, <2>4, <2>6
      <3> QED
        BY <2>3, <3>1
    <2> QED
      BY <2>5, <2>6
  <1> QED
    BY <1>1, <1>2

\* No domain is deleted, and a domain that is hurt stays so.
LEMMA DomainsGrow ==
    ASSUME TypeInv, [Next]_vars
    PROVE  hurt \subseteq hurt' /\ DomainsStay
  <1>1. CASE UNCHANGED vars
    BY <1>1 DEF vars, domainVars, DomainsStay, Exists
  <1>2. CASE Crash
    BY <1>2 DEF Crash, End, DomainsStay, Exists
  <1>3. ASSUME NEW r \in Reqs, TableStep(r)
        PROVE  hurt \subseteq hurt' /\ UNCHANGED listed
    BY <1>3 DEF TableStep, ReadUpsert, ReadTasks, SaveTables, SaveThrows, WriteTasks, TasksFail,
           ReadEdit, WriteEdit, CloseTask, CloseFails, ReadApprove, WriteApprove, ReadDeprecate,
           MarkDead, DropTasks, DropFails, Fail, End, domainVars
  <1>4. ASSUME NEW r \in Reqs, DomainStep(r)
        PROVE  hurt \subseteq hurt' /\ DomainsStay
    <2>1. hurt \subseteq hurt'
      BY <1>4 DEF DomainStep, ReadCreateDomain, WriteCreateDomain, ReadEditDomain, WriteEditDomain,
             ReadCreateClass, InsertClass, FindDomains, PushClass, RenameClass, WriteLinks, LinksFail,
             domainVars
    <2>2. CASE WriteCreateDomain(r) \/ WriteEditDomain(r)
      <3>1. /\ UNCHANGED listed \/ listed' = [listed EXCEPT ![job[r].d] = job[r].cs]
            /\ job[r].op \in {"createDomain", "editDomain"}
        BY <2>2 DEF WriteCreateDomain, WriteEditDomain
      <3>2. job[r].cs \subseteq Classes
        BY <3>1, DomainJob DEF TypeInv, TypeOK
      <3> QED
        BY <2>1, <3>1, <3>2, TablesAssumption DEF DomainsStay, Exists, TypeInv, TypeOK, DomainTypeOK, Listings
    <2>3. CASE PushClass(r)
      <3>1. \A d \in Domains : listed'[d] \in {listed[d], listed[d] \cup seen[r].made}
        BY <2>3 DEF PushClass
      <3>2. seen[r].made \subseteq Classes /\ \A d \in Domains : Exists(d) => listed[d] \subseteq Classes
        BY DEF TypeInv, TypeOK, DomainTypeOK, Listings, Seen, Exists
      <3> QED
        BY <2>1, <3>1, <3>2, TablesAssumption DEF DomainsStay, Exists
    <2>4. CASE UNCHANGED listed
      BY <2>1, <2>4 DEF DomainsStay, Exists
    <2> QED
      BY <1>4, <2>2, <2>3, <2>4 DEF DomainStep, ReadCreateDomain, ReadEditDomain, ReadCreateClass,
         InsertClass, FindDomains, RenameClass, WriteLinks, LinksFail, domainVars
  <1> QED
    BY <1>1, <1>2, <1>3, <1>4 DEF Next, DomainsStay, Exists
\* A table keeps its classifications through an upsert only in its domain.
LEMMA UpsertClasses ==
    ASSUME NEW D \in Docs \cup {NoTable}, NEW w \in Wants, NEW c \in Columns,
           NextCols(D, w)[c] \in Classes
    PROVE  D # NoTable /\ D.domain = w.domain /\ D.cols[c] = NextCols(D, w)[c]
  <1>1. None \notin Classes /\ Internal \notin Classes /\ NoColumn \notin Classes
    BY TablesAssumption DEF Marks
  <1>2. ~(w.internal \/ D = NoTable \/ FreshStart(D, w))
    BY <1>1 DEF NextCols, Uniform
  <1>3. NextCols(D, w)[c] = IF c \notin w.schema THEN NoColumn
                            ELSE IF D.cols[c] = NoColumn THEN None ELSE D.cols[c]
    BY <1>2 DEF NextCols
  <1> QED
    BY <1>1, <1>2, <1>3 DEF FreshStart

\* The classifications that a step on tables writes are those of a table's domain.
LEMMA StepClasses ==
    ASSUME LinkInv, EditsChecked, TasksFit, ClassesListed, NEW r \in Reqs, TableStep(r),
           NEW i \in Ids, There(i)', table'[i] # table[i], table'[i].name \notin mixed',
           NEW c \in Columns, table'[i].cols[c] \in Classes, table'[i].domain \notin hurt
    PROVE  Exists(table'[i].domain) /\ table'[i].cols[c] \in listed[table'[i].domain]
  <1>1. TypeInv /\ mixed \subseteq mixed'
    BY WritesMark DEF LinkInv, AddInv
  <1>2. ASSUME There(i), table'[i].name = table[i].name, table'[i].domain = table[i].domain,
               table'[i].cols[c] = table[i].cols[c]
        PROVE  Exists(table'[i].domain) /\ table'[i].cols[c] \in listed[table'[i].domain]
    BY <1>1, <1>2 DEF ClassesListed
  <1>3. CASE SaveTables(r) \/ SaveThrows(r)
    <2>1. PICK at \in Targets(r, Accepted(r)), ok \in SUBSET Accepted(r) : Save(r, ok, at)
      BY <1>3 DEF SaveTables, SaveThrows
    <2>2. pc[r] = "save"
      BY <1>3 DEF SaveTables, SaveThrows
    <2>3. PICK n \in ok : i = at[n] /\ table'[i].name = n
      BY <1>1, <2>1, <2>2, SaveType
    <2> DEFINE w == job[r].want[n]
    <2>4. /\ n \in Names /\ w \in Wants /\ copy[r][i] = table[i]
          /\ table'[i] = [name |-> n, domain |-> w.domain, cols |-> NextCols(copy[r][i], w), dead |-> FALSE]
      <3>1. at[n] = i /\ n \notin mixed'
        BY <2>3
      <3>2. LET k == at[n] IN
            /\ n \in Names /\ job[r].want[n] \in Wants /\ copy[r][k] = table[k]
            /\ table'[k] = [name |-> n, domain |-> job[r].want[n].domain,
                            cols |-> NextCols(copy[r][k], job[r].want[n]), dead |-> FALSE]
        BY <1>1, <2>1, <2>2, <3>1, SaveFresh
      <3> QED
        BY <3>1, <3>2
    <2>5. table[i] \in Docs \cup {NoTable}
      BY <1>1 DEF TypeInv, TypeOK
    <2>6. table[i] # NoTable /\ table[i].domain = w.domain /\ table[i].cols[c] = NextCols(table[i], w)[c]
      BY <2>4, <2>5, UpsertClasses
    <2>7. table'[i].domain = w.domain /\ table'[i].cols = NextCols(table[i], w)
      BY <2>4
    <2>8. table'[i].name = table[i].name
      BY <1>1, <2>6, WritesMark DEF There
    <2> QED
      BY <1>2, <2>6, <2>7, <2>8 DEF There
  <1>4. CASE WriteEdit(r)
    <2> DEFINE D == table[i]
               j == job[r]
    <2>1. /\ pc[r] = "write" /\ j.op = "edit"
          /\ table' = [table EXCEPT ![j.id].cols = Merged(j, copy[r][j.id])]
      BY <1>4 DEF WriteEdit
    <2>2. i = j.id /\ There(i) /\ D \in Docs
      BY <1>1, <2>1, EditorBusy, DocThere DEF TypeInv, TypeOK
    <2>3. /\ table'[i].name = D.name /\ table'[i].domain = D.domain
          /\ table'[i].cols = Merged(j, copy[r][i])
      BY <1>1, <2>1, <2>2 DEF TypeInv, TypeOK, Docs
    <2>4. MayEdit(j, D) /\ copy[r][i] = D
      BY <1>1, <2>1, <2>2, <2>3 DEF EditsChecked
    <2>5. CASE table'[i].cols[c] = D.cols[c]
      BY <1>2, <2>2, <2>3, <2>5
    <2>6. CASE table'[i].cols[c] # D.cols[c]
      <3>1. c \in Changed(j, D) /\ j.cols[c] = table'[i].cols[c]
        BY <2>3, <2>4, <2>6 DEF Merged, Changed
      <3>2. j.cols[c] \in Marks \ {None}
        BY <3>1, TablesAssumption DEF Marks
      <3>3. CanAssign(j.by, D.domain, j.cols[c])
        BY <2>4, <3>1, <3>2 DEF MayEdit
      <3>4. <<D.domain, j.cols[c]>> \in links /\ D.domain \in Domains \ hurt /\ j.cols[c] \in Classes
        BY <2>2, <2>3, <3>1, <3>3 DEF CanAssign, Docs
      <3> QED
        BY <2>3, <3>1, <3>4 DEF LinkInv, Mirrored
    <2> QED
      BY <2>5, <2>6
  <1>5. CASE MarkDead(r)
    <2>1. copy[r][i] # NoTable /\ table'[i] = [table[i] EXCEPT !.dead = TRUE]
      BY <1>5 DEF MarkDead
    <2>2. There(i) /\ table[i] \in Docs
      BY <1>1, <2>1, DocThere DEF TypeInv, CopiesThere
    <2> QED
      BY <1>2, <2>1, <2>2 DEF Docs
  <1>6. CASE UNCHANGED table
    BY <1>6
  <1> QED
    BY <1>3, <1>4, <1>5, <1>6 DEF TableStep, ReadUpsert, ReadTasks, WriteTasks, TasksFail, ReadEdit,
       CloseTask, CloseFails, ReadApprove, WriteApprove, ReadDeprecate, DropTasks, DropFails,
       Fail, End, tableVars

LEMMA ClassesNext ==
    ASSUME LinkInv, EditsChecked, TasksFit, ClassesListed, [Next]_vars
    PROVE  ClassesListed'
  <1> SUFFICES ASSUME NEW i \in Ids, There(i)', table'[i].name \notin mixed', table'[i].domain \notin hurt',
                      NEW c \in Columns, table'[i].cols[c] \in Classes
               PROVE  listed'[table'[i].domain] # NoDomain /\ table'[i].cols[c] \in listed'[table'[i].domain]
    BY DEF ClassesListed, Exists
  <1> DEFINE d == table'[i].domain
  <1>1. TypeInv /\ AddInv /\ hurt \subseteq hurt' /\ DomainsStay /\ d \in Domains
    <2>1. TypeInv /\ TypeInv'
      BY TypeNext DEF LinkInv, AddInv
    <2>2. table'[i] \in Docs
      BY <2>1 DEF TypeInv, TypeOK, There
    <2> QED
      BY <2>1, <2>2, DomainsGrow DEF LinkInv, Docs
  <1>2. Exists(d) /\ table'[i].cols[c] \in listed[d] => listed'[d] # NoDomain /\ table'[i].cols[c] \in listed'[d]
    BY <1>1, AddStep DEF DomainsStay
  <1>3. ASSUME UNCHANGED <<table, mixed>>
        PROVE  Exists(d) /\ table'[i].cols[c] \in listed[d]
    BY <1>1, <1>3 DEF ClassesListed, There
  <1>4. ASSUME NEW r \in Reqs, TableStep(r)
        PROVE  Exists(d) /\ table'[i].cols[c] \in listed[d]
    <2>1. CASE table'[i] = table[i]
      BY <1>1, <1>4, <2>1, WritesMark DEF ClassesListed, There
    <2>2. CASE table'[i] # table[i]
      BY <1>1, <1>4, <2>2, StepClasses
    <2> QED
      BY <2>1, <2>2
  <1> QED
    BY <1>2, <1>3, <1>4 DEF Next, Crash, End, vars, tableVars
-----------------------------------------------------------------------------
LEMMA TasksInit == Init => TasksInv
  <1> SUFFICES ASSUME Init PROVE TasksInv
    OBVIOUS
  <1>1. LinkInv /\ \A r \in Reqs : pc[r] = "new"
    BY LinkInit DEF Init
  <1>2. EditsChecked /\ CopiesFresh /\ PendingFits
    BY <1>1 DEF EditsChecked, CopiesFresh, Fresh, PendingFits, Pends
  <1>3. PICK f \in FirstTables : table = f.table /\ tasks = f.tasks
    BY DEF Init
  <1>4. PICK g \in FirstDomains : listed = g.listed
    BY DEF Init, DomainInit
  <1>5. ASSUME NEW i \in Ids, There(i)
        PROVE  /\ \A j \in Ids : There(j) /\ table[j].name = table[i].name => i = j
               /\ Fit(table[i], tasks[i])
               /\ \A c \in Columns : table[i].cols[c] \in Classes =>
                     Exists(table[i].domain) /\ table[i].cols[c] \in listed[table[i].domain]
    BY <1>3, <1>4, <1>5, FirstAssumption DEF There, Exists
  <1>6. AllFit /\ NamesUnique /\ ClassesListed
    BY <1>5 DEF AllFit, NamesUnique, ClassesListed
  <1> QED
    BY <1>1, <1>2, <1>6 DEF TasksInv

LEMMA TasksNext == TasksInv /\ [Next]_vars => TasksInv'
  <1> SUFFICES ASSUME TasksInv, [Next]_vars PROVE TasksInv'
    OBVIOUS
  <1>1. TypeInv /\ TasksFit /\ EditInv
    BY DEF TasksInv, LinkInv, AddInv, TasksFit, EditInv
  <1>2. LinkInv' /\ EditsChecked'
    BY <1>1, LinkNext, EditNext DEF TasksInv, EditInv
  <1>3. TasksFit'
    BY <1>1, FitsNext DEF TasksInv
  <1>4. NamesUnique' /\ ClassesListed'
    BY <1>1, NamesNext, ClassesNext DEF TasksInv
  <1> QED
    BY <1>2, <1>3, <1>4 DEF TasksInv, TasksFit

\* The inductive invariant: as long as a name is not mixed, what requests have read
\* of it is what there is, what they have left to write makes its tasks fit, and where
\* nothing is left they fit; names are unique, and columns have listed classifications.
THEOREM TasksSound == Spec => []TasksInv
  BY TasksInit, TasksNext, PTL DEF Spec

\* What has to be classified is asked for as exactly one open task, and nothing else
\* is (table.service.ts, upsertTables, deprecateTables and editTableById; getTaskOperation),
\* for every table that one request at a time has worked on, unless a person closed
\* its task or a call failed.
THEOREM TasksFollow == Spec => []TasksMatch
  <1>1. TasksInv => TasksMatch
    <2> SUFFICES ASSUME TasksInv, NEW i \in Ids \ settled, Calm(i)
                 PROVE  /\ ~table[i].dead /\ StateOf(table[i].cols) \in {"unclassified", "partial"}
                              => tasks[i].open = 1
                        /\ table[i].dead \/ StateOf(table[i].cols) = "internal" => tasks[i].open = 0
      BY DEF TasksMatch, OpenTask, NoIdleTask
    <2>1. TypeInv /\ TasksFit
      BY DEF TasksInv, LinkInv, AddInv, TasksFit
    <2>2. \A q \in Reqs : ~Owes(q, i)
      BY <2>1, OwesBusy DEF Calm
    <2>3. Fit(table[i], tasks[i])
      BY <2>2 DEF TasksInv, AllFit, Calm
    <2> QED
      BY <2>3 DEF Fit, NoTasks
  <1> QED
    BY <1>1, TasksSound, PTL

\* A column carries a classification that its table's domain lists (upsertTables and
\* editTableById), whoever adds classifications to domains meanwhile.
THEOREM ColumnsOfDomain == Spec => []ClassesOfDomain
  <1>1. TasksInv => ClassesOfDomain
    BY DEF TasksInv, ClassesListed, ClassesOfDomain, Calm
  <1> QED
    BY <1>1, TasksSound, PTL

\* A table has one document, though no index guards its name (upsertTables), as long
\* as requests do not overlap on it; and every variable keeps its type.
THEOREM OneDocumentEach == Spec => []TablesSound
  <1>1. TasksInv => TablesSound
    BY DEF TasksInv, LinkInv, AddInv, TypeInv, NamesUnique, TablesSound, OneDocument, Calm
  <1> QED
    BY <1>1, TasksSound, PTL
=============================================================================
