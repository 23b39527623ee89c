------------------------------- MODULE Tables -------------------------------
(***************************************************************************)
(* Tables of the data lake and the tasks to classify their columns         *)
(* (shield-api, table.service.ts and tasks.service.ts), over the domains   *)
(* and classifications of Domains.  Other systems upsert and deprecate     *)
(* tables in batches; people classify columns and may close a task by      *)
(* hand.                                                                   *)
(*                                                                         *)
(* Tables and tasks are two collections without a transaction over them: a *)
(* request writes the tables first and the tasks after that.  What it      *)
(* writes is computed from what it read.  mixed remembers the tables two   *)
(* requests have worked on at a time.  Masks travel with classifications   *)
(* and are left out, and so are the messages to Kafka, which is a stub.    *)
(***************************************************************************)
EXTENDS Domains

CONSTANTS
    Names,        \* full names of tables; no unique index guards them
    Ids,          \* identities of documents of the tables collection
    Columns,      \* names of columns
    Internal,     \* the classification of internal tables
    None,         \* a column without a classification
    NoColumn,     \* a column that a table does not have
    NoTable,      \* no document
    Actors,
    System,       \* the caller of the external API: not checked
    Admins,       \* platform admins
    MayClassify,  \* [Actors -> SUBSET Domains]               roles with can_classify_tables
    Assigners,    \* SUBSET (Actors \X Domains \X Classes)    assigners of a classification
    MayUpdate,    \* [Actors -> SUBSET Domains]               can_update_datalake
    MayWrite,     \* SUBSET Actors                            can_write on the schema
    FirstTables   \* the collections to start from: [table, tasks]

TableOps == {"upsert", "edit", "approve", "deprecate"}

Marks == Classes \cup {Internal, None}

Docs == [name : Names, domain : Domains, cols : [Columns -> Marks \cup {NoColumn}],
         dead : BOOLEAN]

\* What a table is to be after an upsert.
Wants == [domain : Domains, internal : BOOLEAN, schema : SUBSET Columns]

TableJobs ==
    [op : {"upsert"}, by : Actors \cup {System}, want : [Names -> Wants \cup {NoTable}]]
    \cup [op : {"edit"}, by : Actors, id : Ids, cols : [Columns -> Marks \cup {NoColumn}]]
    \cup [op : {"approve"}, by : Actors, id : Ids]
    \cup [op : {"deprecate"}, by : Actors \cup {System}, names : SUBSET Names]

\* How many tasks of a table are open and how many are done.
TaskCounts == [open : Nat, done : Nat]

NoTasks == [open |-> 0, done |-> 0]

Work == {"create", "update", "delete"}

ASSUME TablesAssumption ==
    /\ None \notin Classes \cup {Internal} /\ Internal \notin Classes
    /\ NoColumn \notin Marks /\ NoTable \notin Docs /\ NoTable \notin Wants
    /\ \A cs \in SUBSET Classes : cs # NoDomain
    /\ Jobs \subseteq DomainJobs \cup TableJobs
    /\ FirstDomains \subseteq [listed : Listings, titles : [Classes -> Titles \cup {NoTitle}]]
    /\ FirstTables \subseteq [table : [Ids -> Docs \cup {NoTable}], tasks : [Ids -> TaskCounts]]
    /\ MaxFaults \in Nat

VARIABLES
    table,    \* [Ids -> Docs \cup {NoTable}]: the tables collection
    tasks,    \* [Ids -> TaskCounts]: the tasks collection, by table
    copy,     \* [Reqs -> [Ids -> Docs \cup {NoTable}]]: tables as a request read them
    had,      \* [Reqs -> SUBSET Ids]: the tables a request found tasks of
    todo,     \* [Reqs -> [Ids -> Work \cup {"none"}]]: the tasks it has still to write
    mixed,    \* names of tables that requests have worked on at a time
    settled   \* tables whose tasks a person has closed, or a call has failed to write

tableVars == <<table, tasks, copy, had, todo, mixed, settled>>
vars == <<domainVars, tableVars, pc, job, faults>>

Nothing == [i \in Ids |-> NoTable]
NoWork  == [i \in Ids |-> "none"]

There(i) == table[i] # NoTable
Named(i, n) == There(i) /\ table[i].name = n

\* The steps at which a request on tables has read and may still write.
Busy(r) == job[r].op \in TableOps /\ pc[r] \in {"tasks", "save", "work", "write", "close", "mark", "drop"}

\* The tables a request is about.
Concerns(r) ==
    CASE job[r].op = "upsert"    -> {n \in Names : job[r].want[n] # NoTable}
      [] job[r].op = "deprecate" -> job[r].names
      [] job[r].op \in DomainOps -> {}
      [] OTHER                   -> {table[i].name : i \in {job[r].id} \cap {i \in Ids : There(i)}}

Init ==
    /\ DomainInit
    /\ \E f \in FirstTables : table = f.table /\ tasks = f.tasks
    /\ copy = [r \in Reqs |-> Nothing]
    /\ had = [r \in Reqs |-> {}]
    /\ todo = [r \in Reqs |-> NoWork]
    /\ mixed = {} /\ settled = {}
    /\ pc = [r \in Reqs |-> "new"]
    /\ job \in [Reqs -> Jobs]
    /\ faults = 0

\* r writes tables or tasks of the names ns.
Touch(r, ns) ==
    mixed' = mixed \cup {n \in ns : \E q \in Reqs \ {r} : Busy(q) /\ n \in Concerns(q)}
-----------------------------------------------------------------------------
\* calcColumnsDictClassificationState.
StateOf(cols) ==
    LET has == {cols[c] : c \in Columns} \ {NoColumn}
    IN IF Internal \in has THEN "internal"
       ELSE IF None \notin has THEN "classified"
       ELSE IF has \cap Classes # {} THEN "partial" ELSE "unclassified"

\* The tasks t say of a table that is like D whether it has to be classified: one
\* open task if it does, and none of a table that is deprecated or internal.
Fit(D, t) ==
    /\ t.open + t.done <= 1
    /\ ~D.dead /\ StateOf(D.cols) \in {"unclassified", "partial"} => t.open = 1
    /\ D.dead \/ StateOf(D.cols) = "internal" => t = NoTasks

\* The collections to start from are those that requests leave when none overlaps
\* another and no call fails.
ASSUME FirstAssumption ==
    \A f \in FirstTables : \A i \in Ids : f.table[i] # NoTable =>
        /\ \A j \in Ids : f.table[j] # NoTable /\ f.table[j].name = f.table[i].name => i = j
        /\ Fit(f.table[i], f.tasks[i])
        /\ \A g \in FirstDomains, c \in Columns : f.table[i].cols[c] \in Classes =>
              /\ g.listed[f.table[i].domain] # NoDomain
              /\ f.table[i].cols[c] \in g.listed[f.table[i].domain]

\* can_classify_tables, and can_assign_to_table, which needs the domain's tuple.
CanClassify(a, d) == d \in MayClassify[a] \/ (a \in Admins /\ d \in rooted)

CanAssign(a, d, c) ==
    /\ <<d, c>> \in links
    /\ \/ a \in Admins /\ d \in rooted
       \/ <<a, d, c>> \in Assigners /\ CanClassify(a, d)

\* createInternalColumnDict and createDefaultColumnDict.
Uniform(schema, mark) == [c \in Columns |-> IF c \in schema THEN mark ELSE NoColumn]

\* Mutant: a table that changes its domain keeps its classifications.
FreshStartInternal(old, w) == \E c \in Columns : old.cols[c] = Internal

\* An upsert drops all classifications of a table that was internal or comes to
\* another domain.
FreshStart(old, w) == old.domain # w.domain \/ \E c \in Columns : old.cols[c] = Internal

NextCols(old, w) ==
    IF w.internal THEN Uniform(w.schema, Internal)
    ELSE IF old = NoTable \/ FreshStart(old, w) THEN Uniform(w.schema, None)
    ELSE [c \in Columns |-> IF c \notin w.schema THEN NoColumn
                            ELSE IF old.cols[c] = NoColumn THEN None ELSE old.cols[c]]

\* Mutant: a column that is new leaves a task that is done as it is.
TaskWorkBlind(old, w, found) ==
    IF w.internal THEN IF old = NoTable THEN "none" ELSE "delete"
    ELSE IF old = NoTable THEN "create"
    ELSE IF \/ \E c \in Columns : old.cols[c] = Internal
            \/ ~found /\ StateOf(NextCols(old, w)) # "classified" THEN "create"
    ELSE IF old.domain # w.domain THEN "update" ELSE "none"

\* Mutant: a table that becomes internal keeps its task.
TaskWorkKept(old, w, found) ==
    IF w.internal THEN "none" ELSE TaskWorkBlind(old, w, found)

\* getTaskOperation and the cases around it.
TaskWork(old, w, found) ==
    IF w.internal THEN IF old = NoTable THEN "none" ELSE "delete"
    ELSE IF old = NoTable THEN "create"
    ELSE IF \/ \E c \in Columns : old.cols[c] = Internal
            \/ ~found /\ StateOf(NextCols(old, w)) # "classified" THEN "create"
    ELSE IF \/ old.domain # w.domain
            \/ ~FreshStart(old, w) /\ \E c \in w.schema : old.cols[c] = NoColumn THEN "update"
    ELSE "none"

\* What mongoose writes of a path: one that is set to the value it was read with
\* may be left out of the update.
Sent(new, old, now) == IF new = old THEN {new, now} ELSE {new}
-----------------------------------------------------------------------------
Fail(r) == Goto(r, "failed") /\ UNCHANGED <<domainVars, tableVars, job, faults>>

\* upsertTablesCustomers checks the domain a table is to have, and the schema.
MayUpsert(j) ==
    \/ j.by = System
    \/ /\ j.by \in MayWrite
       /\ \A n \in Names : j.want[n] # NoTable => j.want[n].domain \in MayUpdate[j.by]

ReadUpsert(r) ==
    /\ pc[r] = "new" /\ job[r].op = "upsert"
    /\ IF MayUpsert(job[r])
       THEN /\ copy' = [copy EXCEPT ![r] = [i \in Ids |->
                            IF There(i) /\ table[i].name \in Concerns(r) THEN table[i] ELSE NoTable]]
            /\ Goto(r, "tasks")
            /\ UNCHANGED <<domainVars, table, tasks, had, todo, mixed, settled, job, faults>>
       ELSE Fail(r)

\* The tasks of the tables that were found, done or not.
ReadTasks(r) ==
    /\ pc[r] = "tasks"
    /\ had' = [had EXCEPT ![r] = {i \in Ids : copy[r][i] # NoTable /\ tasks[i] # NoTasks}]
    /\ Goto(r, "save")
    /\ UNCHANGED <<domainVars, table, tasks, copy, todo, mixed, settled, job, faults>>

\* The tables of a batch whose domain exists; the others are answered with an error.
Accepted(r) == {n \in Concerns(r) : Exists(job[r].want[n].domain)}

\* Mutant: a document that is deprecated does not count as found.
TargetsAlive(r, ns) ==
    {at \in [ns -> Ids] :
        \A n \in ns : IF \E i \in Ids : copy[r][i] # NoTable /\ ~copy[r][i].dead
                       THEN copy[r][at[n]] # NoTable ELSE ~There(at[n])}

\* Where the upserts of the names ns go: to a document found under the name, or
\* to a new one.
Targets(r, ns) ==
    {at \in [ns -> Ids] :
        /\ \A n, m \in ns : n # m => at[n] # at[m]
        /\ \A n \in ns : IF \E i \in Ids : copy[r][i] # NoTable /\ copy[r][i].name = n
                         THEN copy[r][at[n]] # NoTable /\ copy[r][at[n]].name = n
                         ELSE ~There(at[n]) /\ tasks[at[n]] = NoTasks}

\* What the document at i may be after it is saved for name n.
Saved(r, n, i) ==
    LET w == job[r].want[n]
        old == copy[r][i]
        next == NextCols(old, w)
    IN IF old = NoTable
       THEN {[name |-> n, domain |-> w.domain, cols |-> next, dead |-> FALSE]}
       ELSE [name   : {n},
             domain : Sent(w.domain, old.domain, table[i].domain),
             cols   : Sent(next, old.cols, table[i].cols),
             dead   : Sent(FALSE, old.dead, table[i].dead)]

\* bulkSave writes the tables of ok, and the work on their tasks is what is left
\* to do; a table that is not saved is answered with an error.
Save(r, ok, at) ==
    /\ \E new \in [ok -> UNION {Saved(r, n, at[n]) : n \in ok}] :
          /\ \A n \in ok : new[n] \in Saved(r, n, at[n])
          /\ table' = [i \in Ids |-> IF \E n \in ok : at[n] = i
                                     THEN new[CHOOSE n \in ok : at[n] = i] ELSE table[i]]
    /\ todo' = [todo EXCEPT ![r] = [i \in Ids |->
                    IF \E n \in ok : at[n] = i
                    THEN LET n == CHOOSE n \in ok : at[n] = i
                         IN TaskWork(copy[r][i], job[r].want[n], i \in had[r])
                    ELSE "none"]]
    /\ Touch(r, ok)

SaveTables(r) ==
    /\ pc[r] = "save"
    /\ \E at \in Targets(r, Accepted(r)), ok \in SUBSET Accepted(r) :
          /\ IF ok = Accepted(r) THEN UNCHANGED faults ELSE Fault
          /\ Save(r, ok, at)
    /\ Goto(r, "work")
    /\ UNCHANGED <<domainVars, tasks, copy, had, settled, job>>

\* bulkSave throws with some of the tables saved: the tasks stay as they are.
SaveThrows(r) ==
    /\ pc[r] = "save" /\ Fault
    /\ \E at \in Targets(r, Accepted(r)), ok \in SUBSET Accepted(r) :
          /\ Save(r, ok, at)
          /\ settled' = settled \cup {at[n] : n \in ok}
    /\ Goto(r, "failed")
    /\ UNCHANGED <<domainVars, tasks, copy, had, job>>

\* What one operation may make of the tasks of a table.  Update and delete take
\* one task of the table, whichever it is.
Worked(work, t) ==
    CASE work = "create" -> {[t EXCEPT !.open = @ + 1]}
      [] work = "update" -> (IF t.done > 0 THEN {[open |-> t.open + 1, done |-> t.done - 1]} ELSE {})
                            \cup (IF t.open > 0 \/ t.done = 0 THEN {t} ELSE {})
      [] work = "delete" -> (IF t.done > 0 THEN {[t EXCEPT !.done = @ - 1]} ELSE {})
                            \cup (IF t.open > 0 THEN {[t EXCEPT !.open = @ - 1]} ELSE {})
                            \cup (IF t = NoTasks THEN {t} ELSE {})
      [] OTHER           -> {t}

\* The bulk of task operations.
WriteTasks(r) ==
    /\ pc[r] = "work"
    /\ tasks' \in {f \in [Ids -> UNION {Worked(todo[r][i], tasks[i]) : i \in Ids}] :
                      \A i \in Ids : f[i] \in Worked(todo[r][i], tasks[i])}
    /\ settled' = {i \in settled : todo[r][i] \in {"none", "delete"} \/ tasks'[i] # [open |-> 1, done |-> 0]}
    /\ Touch(r, {table[i].name : i \in {i \in Ids : There(i) /\ todo[r][i] # "none"}})
    /\ Goto(r, "done")
    /\ UNCHANGED <<domainVars, table, copy, had, todo, job, faults>>

\* It fails: the tables stay as they are saved.
TasksFail(r) ==
    /\ pc[r] = "work" /\ todo[r] # NoWork /\ Fault
    /\ settled' = settled \cup {i \in Ids : todo[r][i] # "none"}
    /\ Goto(r, "failed")
    /\ UNCHANGED <<domainVars, table, tasks, copy, had, todo, mixed, job>>
-----------------------------------------------------------------------------
\* The columns of D whose classification a request changes.
Changed(j, D) == {c \in Columns : j.cols[c] # NoColumn /\ j.cols[c] # D.cols[c]}

\* Mutant: only what a column gets is checked, not what it had.
MayEditNew(j, D) ==
    /\ CanClassify(j.by, D.domain)
    /\ \A c \in Changed(j, D) : j.cols[c] \notin {None, NoColumn} => CanAssign(j.by, D.domain, j.cols[c])

\* editTableById: the domain, and both the old and the new classification of every
\* column that changes.
MayEdit(j, D) ==
    /\ CanClassify(j.by, D.domain)
    /\ \A c \in Changed(j, D), k \in Marks \ {None} :
          k \in {D.cols[c], j.cols[c]} => CanAssign(j.by, D.domain, k)

ReadEdit(r) ==
    /\ pc[r] = "new" /\ job[r].op = "edit"
    /\ IF There(job[r].id) /\ MayEdit(job[r], table[job[r].id])
       THEN /\ copy' = [copy EXCEPT ![r][job[r].id] = table[job[r].id]]
            /\ Goto(r, "write")
            /\ UNCHANGED <<domainVars, table, tasks, had, todo, mixed, settled, job, faults>>
       ELSE Fail(r)

\* updateTable merges the columns of the request into those of the copy.
Merged(j, D) == [c \in Columns |-> IF D.cols[c] = NoColumn \/ j.cols[c] = NoColumn
                                   THEN D.cols[c] ELSE j.cols[c]]

\* An edit that takes a classification away leaves the task as it is.
WriteEdit(r) ==
    /\ pc[r] = "write" /\ job[r].op = "edit"
    /\ LET i == job[r].id
           next == Merged(job[r], copy[r][i])
       IN /\ table' = [table EXCEPT ![i].cols = next]
          /\ settled' = IF StateOf(next) # "classified" /\ tasks[i].open = 0
                        THEN settled \cup {i} ELSE settled
          /\ Touch(r, {table[i].name})
          /\ Goto(r, IF StateOf(next) = "classified" THEN "close" ELSE "done")
    /\ UNCHANGED <<domainVars, tasks, copy, had, todo, job, faults>>

\* Mutant: the task is taken for open.
CloseTaskBlind(r) ==
    /\ pc[r] = "close"
    /\ LET i == job[r].id IN
       /\ tasks' = [tasks EXCEPT ![i] = [open |-> @.open - 1, done |-> @.done + 1]]
       /\ Touch(r, {table[i].name})
    /\ Goto(r, "done")
    /\ UNCHANGED <<domainVars, table, copy, had, todo, settled, job, faults>>

\* One open task of a table that is fully classified is done.
CloseTask(r) ==
    /\ pc[r] = "close"
    /\ LET i == job[r].id IN
       /\ tasks' = IF tasks[i].open = 0 THEN tasks
                   ELSE [tasks EXCEPT ![i] = [open |-> @.open - 1, done |-> @.done + 1]]
       /\ Touch(r, {table[i].name})
    /\ Goto(r, "done")
    /\ UNCHANGED <<domainVars, table, copy, had, todo, settled, job, faults>>

CloseFails(r) ==
    /\ pc[r] = "close" /\ Fault
    /\ settled' = settled \cup {job[r].id}
    /\ Goto(r, "failed")
    /\ UNCHANGED <<domainVars, table, tasks, copy, had, todo, mixed, job>>
-----------------------------------------------------------------------------
\* Tables whose tasks do not follow if the process ends now.
Unfinished ==
    {i \in Ids : \E q \in Reqs : \/ pc[q] = "work" /\ todo[q][i] # "none"
                                 \/ pc[q] = "close" /\ job[q].id = i
                                 \/ pc[q] = "drop" /\ copy[q][i] # NoTable}

\* The process ends: what it was serving for qs is gone.
End(qs) ==
    /\ pc' = [q \in Reqs |-> IF q \in qs THEN "gone" ELSE pc[q]]
    /\ settled' = settled \cup Unfinished
    /\ hurt' = hurt \cup {d \in Domains : Linking(d)}
    /\ UNCHANGED <<listed, titles, links, rooted, seen, table, tasks, copy, had, todo, mixed, job>>

Running == {q \in Reqs : pc[q] \notin {"new", "done", "failed", "gone"}}

Crash == Running # {} /\ Fault /\ End(Running)

\* markTaskAsDone: answered before it starts, as its promise is not awaited.  When
\* the task is gone or the check turns it down, nobody handles that, and Node ends
\* the process.
ReadApprove(r) ==
    /\ pc[r] = "new" /\ job[r].op = "approve"
    /\ There(job[r].id)
    /\ IF tasks[job[r].id] # NoTasks /\ CanClassify(job[r].by, table[job[r].id].domain)
       THEN Goto(r, "write") /\ UNCHANGED <<domainVars, tableVars, job>>
       ELSE End(Running \cup {r})
    /\ UNCHANGED faults

\* The task is done, unless it is gone or done by now.
WriteApprove(r) ==
    /\ pc[r] = "write" /\ job[r].op = "approve"
    /\ LET i == job[r].id
           t == tasks[i]
       IN /\ tasks' \in {tasks} \cup (IF t.open = 0 THEN {}
                         ELSE {[tasks EXCEPT ![i] = [open |-> t.open - 1, done |-> t.done + 1]]})
          /\ settled' = settled \cup {i}
          /\ Touch(r, {table[i].name})
    /\ Goto(r, "done")
    /\ UNCHANGED <<domainVars, table, copy, had, todo, job, faults>>
-----------------------------------------------------------------------------
\* deprecateTables checks the domains the tables are in, and the schema.
MayDeprecate(j, D) ==
    j.by = System \/ (j.by \in MayWrite /\ \A d \in D : d \in MayUpdate[j.by])

ReadDeprecate(r) ==
    /\ pc[r] = "new" /\ job[r].op = "deprecate"
    /\ LET ids == {i \in Ids : There(i) /\ table[i].name \in job[r].names} IN
       IF ids # {} /\ MayDeprecate(job[r], {table[i].domain : i \in ids})
       THEN /\ copy' = [copy EXCEPT ![r] = [i \in Ids |-> IF i \in ids THEN table[i] ELSE NoTable]]
            /\ Goto(r, "mark")
            /\ UNCHANGED <<domainVars, table, tasks, had, todo, mixed, settled, job, faults>>
       ELSE Fail(r)

MarkDead(r) ==
    /\ pc[r] = "mark"
    /\ table' = [i \in Ids |-> IF copy[r][i] = NoTable THEN table[i]
                               ELSE [table[i] EXCEPT !.dead = TRUE]]
    /\ Touch(r, job[r].names)
    /\ Goto(r, "drop")
    /\ UNCHANGED <<domainVars, tasks, copy, had, todo, settled, job, faults>>

DropTasks(r) ==
    /\ pc[r] = "drop"
    /\ tasks' = [i \in Ids |-> IF copy[r][i] = NoTable THEN tasks[i] ELSE NoTasks]
    /\ Touch(r, job[r].names)
    /\ Goto(r, "done")
    /\ UNCHANGED <<domainVars, table, copy, had, todo, settled, job, faults>>

\* The update that would take the mark back is built but not awaited, and a query
\* of mongoose is sent when it is: the tables stay deprecated.
DropFails(r) ==
    /\ pc[r] = "drop" /\ Fault
    /\ settled' = settled \cup {i \in Ids : copy[r][i] # NoTable}
    /\ Goto(r, "failed")
    /\ UNCHANGED <<domainVars, table, tasks, copy, had, todo, mixed, job>>
-----------------------------------------------------------------------------
TableStep(r) ==
    \/ ReadUpsert(r) \/ ReadTasks(r) \/ SaveTables(r) \/ SaveThrows(r)
    \/ WriteTasks(r) \/ TasksFail(r)
    \/ ReadEdit(r) \/ WriteEdit(r) \/ CloseTask(r) \/ CloseFails(r)
    \/ ReadApprove(r) \/ WriteApprove(r)
    \/ ReadDeprecate(r) \/ MarkDead(r) \/ DropTasks(r) \/ DropFails(r)

Next == Crash \/ \E r \in Reqs : TableStep(r) \/ (DomainStep(r) /\ UNCHANGED tableVars)

Spec == Init /\ [][Next]_vars
-----------------------------------------------------------------------------
Steps == DomainSteps \cup {"tasks", "save", "work", "close", "mark", "drop"}

TypeOK ==
    /\ DomainTypeOK
    /\ table \in [Ids -> Docs \cup {NoTable}]
    /\ tasks \in [Ids -> TaskCounts]
    /\ copy \in [Reqs -> [Ids -> Docs \cup {NoTable}]]
    /\ had \in [Reqs -> SUBSET Ids]
    /\ todo \in [Reqs -> [Ids -> Work \cup {"none"}]]
    /\ mixed \subseteq Names /\ settled \subseteq Ids
    /\ pc \in [Reqs -> Steps] /\ job \in [Reqs -> Jobs] /\ faults \in 0..MaxFaults

\* Nobody is working on the table of i, and no two requests have at a time.
Calm(i) ==
    /\ There(i) /\ table[i].name \notin mixed
    /\ \A r \in Reqs : Busy(r) => table[i].name \notin Concerns(r)

\* A table that still has columns to classify, and is in use, waits as exactly one
\* open task (upsertTables and getTaskOperation), or a person has closed its task
\* or taken a classification back, or a call has failed since.
OpenTask ==
    \A i \in Ids \ settled : Calm(i) =>
        (~table[i].dead /\ StateOf(table[i].cols) \in {"unclassified", "partial"}
            => tasks[i].open = 1)

\* Nobody is asked to classify a table that is deprecated or internal
\* (deprecateTables, and delete-by-table in upsertTables).
NoIdleTask ==
    \A i \in Ids \ settled : Calm(i) =>
        (table[i].dead \/ StateOf(table[i].cols) = "internal" => tasks[i].open = 0)

\* What has to be classified is asked for once, and nothing else is.
TasksMatch == OpenTask /\ NoIdleTask

\* A column carries a classification that its table's domain lists: an upsert that
\* moves the table drops the old ones, an edit is checked against the domain, and
\* no list of a domain grows shorter.
ClassesOfDomain ==
    \A i \in Ids : Calm(i) /\ table[i].domain \notin hurt =>
        \A c \in Columns : table[i].cols[c] \in Classes =>
            table[i].cols[c] \in listed[table[i].domain]

\* A table has one document: upserts look it up by name, as no index would refuse
\* a second one.
OneDocument ==
    \A i, j \in Ids : Calm(i) /\ There(j) /\ table[i].name = table[j].name => i = j

\* Every variable keeps its type, and the tables of a name are one document.
TablesSound == TypeOK /\ OneDocument

\* A person changes the classification of a column only if he may classify tables
\* of the domain and assign both what the column had and what it gets, in the
\* domain as it is when that is written (editTableById).
OnlyPermittedEdits ==
    [][\A r \in Reqs : pc[r] = "write" /\ pc'[r] # pc[r] /\ job[r].op = "edit" =>
         LET i == job[r].id IN
         table[i].name \notin mixed =>
            \A c \in {c \in Columns : table'[i].cols[c] # table[i].cols[c]} :
                \A k \in (Classes \cup {Internal}) \cap {table[i].cols[c], table'[i].cols[c]} :
                    CanAssign(job[r].by, table[i].domain, k)]_vars

=============================================================================
