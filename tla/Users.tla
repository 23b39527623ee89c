------------------------------- MODULE Users -------------------------------
(***************************************************************************)
(* The data permissions of users (shield-api, user/user.service.ts): the   *)
(* documents of the users collection and the requests that create, edit,   *)
(* clone, block and delete them, take a domain away, and change their      *)
(* catalogs, with the write permissions on schemas that admin.service.ts   *)
(* keeps in the document and in OpenFGA.                                   *)
(*                                                                         *)
(* MongoDB is used without transactions: a request reads a document,       *)
(* computes the whole of what it writes from that copy, and writes it      *)
(* without looking again.  What other requests wrote in between is lost;   *)
(* missed[r] remembers who they were.  The answers of OpenFGA about actors *)
(* do not change here, so checking them and reading the document is one    *)
(* step.  The reading of the result for the answer is left out: it looks   *)
(* at a document this request has written and changes nothing.             *)
(***************************************************************************)
EXTENDS Naturals, FiniteSets

CONSTANTS
    Users,          \* the values of user_id
    Actors,         \* the logged in users
    Admins,         \* the actors that are platform admins
    ApiActors,      \* the actors that are other systems
    Nobody,         \* an entry without last_changed_by
    Domains,
    Classes,        \* classifications
    Tables,         \* permission tables
    Contents,       \* what the row filters of a permission table may hold
    Values,         \* unique populations
    Groups,         \* permission groups
    Catalogs,       \* names of catalogs other than datalake
    Schemas,        \* schemas of the data lake
    MayManage,      \* [Actors -> SUBSET Domains]             can_manage_data_permissions
    MayAssign,      \* [Actors -> SUBSET (Domains \X Classes)]  can_assign_to_user
    MayMask,        \* [Actors -> SUBSET Domains]             can_manage_user_mask_indications
    MayPop,         \* SUBSET Actors        can_manage_unique_population_indications
    MayEnrol,       \* [Actors -> SUBSET Groups]              may change the group's users
    GroupGrants,    \* [Groups -> [Domains -> {Absent} \cup SUBSET Classes]]
    GroupRank,      \* [Groups -> Nat]: the order in which $lookup lists groups
    Columns,        \* [Tables -> SUBSET (Domains \X Classes)]
    NoDoc, Absent, Keep,
    First,          \* the collections to start from
    Reqs,           \* requests; each is served once
    Jobs,           \* what requests may ask for, a subset of JobType
    FaultKinds,     \* a subset of {"refused"}
    MaxFaults       \* bound on the number of faults

Ops == {"create", "edit", "block", "delete", "dropDomain", "clone",
        "addCatalogs", "renameCatalogs", "deleteCatalogs", "give", "revoke"}

Attributes == [blocked : BOOLEAN, mask : BOOLEAN, pop : SUBSET Values]

\* The catalog datalake: read_all, and for every schema its entry, with write or not.
Lakes == [all : BOOLEAN, schemas : [Schemas -> {"none", "read", "write"}]]

DomainEntries == [cls : SUBSET Classes, by : Actors \cup {Nobody}]
TableEntries  == [rows : Contents, by : Actors \cup {Nobody}]

Docs == [attrs   : Attributes,
         lake    : Lakes \cup {Absent},
         cats    : SUBSET Catalogs,
         domains : [Domains -> DomainEntries \cup {Absent}],
         tables  : [Tables -> TableEntries \cup {Absent}],
         groups  : SUBSET Groups]

\* The body of a create or an edit.  all is is_read_all: "keep" when left out.
Bodies == [mask    : BOOLEAN,
           pop     : SUBSET Values,
           domains : [Domains -> {Absent} \cup SUBSET Classes],
           tables  : [Tables -> Contents \cup {Absent}],
           groups  : {Keep} \cup SUBSET Groups,
           all     : {"keep", "on", "off"}]

\* d is the domain to drop, s the schema, names the catalogs to add or delete,
\* rename the new name of every catalog, to the destinations of a clone of u.
JobType == [op : Ops, by : Actors, u : Users, body : Bodies, d : Domains,
            s : Schemas, names : SUBSET Catalogs, rename : [Catalogs -> Catalogs],
            to : SUBSET Users]

ASSUME UsersAssumption ==
    /\ Admins \subseteq Actors /\ ApiActors \subseteq Actors /\ MayPop \subseteq Actors
    /\ Nobody \notin Actors
    /\ MayManage \in [Actors -> SUBSET Domains]
    /\ MayAssign \in [Actors -> SUBSET (Domains \X Classes)]
    /\ MayMask \in [Actors -> SUBSET Domains]
    /\ MayEnrol \in [Actors -> SUBSET Groups]
    /\ NoDoc \notin Docs
    /\ Absent \notin Lakes /\ Absent \notin DomainEntries /\ Absent \notin TableEntries
    /\ Absent \notin Contents /\ \A cs \in SUBSET Classes : cs # Absent
    /\ First \subseteq [Users -> Docs \cup {NoDoc}]
    /\ Jobs \subseteq JobType
    /\ MaxFaults \in Nat

VARIABLES
    doc,      \* [Users -> Docs \cup {NoDoc}]: the users collection
    writers,  \* the can_write tuples in OpenFGA, a subset of Users \X Schemas
    pc,       \* [Reqs -> step]: where a request stands
    job,      \* [Reqs -> Jobs]: what it was asked
    copy,     \* [Reqs -> Docs \cup {NoDoc}]: the document as the request read it
    todo,     \* [Reqs -> SUBSET Users]: the destinations a clone has still to write
    missed,   \* [Reqs -> SUBSET Reqs]: who wrote a document since the request read it
    faults    \* how many calls have failed

vars == <<doc, writers, pc, job, copy, todo, missed, faults>>

Steps == {"new", "write", "copy", "audit", "tuple", "undo", "done", "failed", "gone"}

\* The steps at which a request has read and may still write.
Busy(r) == pc[r] \in {"write", "copy", "tuple", "undo"}

Concerns(r) == {job[r].u} \cup job[r].to

Present(D) == D # NoDoc /\ D.lake # Absent

Live(u) == Present(doc[u])

Writes(D, s) == D.lake.schemas[s] = "write"
-----------------------------------------------------------------------------
\* What a create and an edit compute.

NoSchemas == [s \in Schemas |-> "none"]

DefaultLake(all) == [all |-> all, schemas |-> NoSchemas]

DefaultAttributes == [blocked |-> FALSE, mask |-> TRUE, pop |-> {}]

\* The classifications of an entry that is there or not.
Held(entry) == IF entry = Absent THEN Absent ELSE entry.cls
Rows(entry) == IF entry = Absent THEN Absent ELSE entry.rows

\* getDomainsDiff without the deleted classifications: what the actor must be
\* allowed to assign in a domain whose entry differs.
Touched(old, new) ==
    IF old = Absent THEN new
    ELSE IF new = Absent THEN {}
    ELSE (old \ new) \cup (new \ old)

MayGrant(a, d, cs) == d \in MayManage[a] /\ \A c \in cs : <<d, c>> \in MayAssign[a]

\* Mutant: only the classifications that are added are checked.
MayChangeDomainsAdded(a, old, new) ==
    \A d \in Domains : old[d] # new[d] /\ new[d] # Absent =>
        MayGrant(a, d, IF old[d] = Absent THEN new[d] ELSE new[d] \ old[d])

MayChangeDomains(a, old, new) ==
    \A d \in Domains : old[d] # new[d] => MayGrant(a, d, Touched(old[d], new[d]))

MaySetMask(a, domains) == \A d \in Domains : domains[d] # Absent => d \in MayMask[a]

MayCreate(j) ==
    LET b == j.body IN
    /\ ~b.mask => MaySetMask(j.by, b.domains)
    /\ MayChangeDomains(j.by, [d \in Domains |-> Absent], b.domains)
    /\ b.groups \in SUBSET MayEnrol[j.by]
    /\ b.all = "on" => j.by \in Admins

\* The groups an edit leaves: without the field they stay.
EditedGroups(j, old) == IF j.body.groups = Keep THEN old.groups ELSE j.body.groups

MayEdit(j, old) ==
    LET b == j.body
        g == EditedGroups(j, old)
    IN /\ b.mask # old.attrs.mask => MaySetMask(j.by, b.domains)
       /\ MayChangeDomains(j.by, [d \in Domains |-> Held(old.domains[d])], b.domains)
       /\ (old.groups \ g) \cup (g \ old.groups) \subseteq MayEnrol[j.by]
       /\ b.all # "keep" /\ (b.all = "on") # old.lake.all => j.by \in Admins

\* An API user does not change what a person changed last.
Locked(a, entry) == a \in ApiActors /\ entry.by # Nobody /\ entry.by \notin ApiActors

\* Mutant: a domain that the request leaves out is removed whoever changed it.
FinalDomainKept(a, old, new) ==
    IF old # Absent /\ new # Absent /\ Locked(a, old) THEN old.cls ELSE new

\* splitDomainsByUpdatability: a locked entry that would be changed or deleted
\* stays as it is.
FinalDomain(a, old, new) == IF old # Absent /\ Locked(a, old) THEN old.cls ELSE new

\* splitPermissionTablesByUpdatability: the same for changed permission tables;
\* those the request leaves out are removed even if they are locked.
FinalTable(a, old, new) ==
    IF old # Absent /\ new # Absent /\ Locked(a, old) THEN old.rows ELSE new

\* Mutant: the entry without what addAuditMetaDataUserDomains adds.
StampDomainBare(a, old, cls) == IF cls = Absent THEN Absent ELSE [cls |-> cls]

\* addAuditMetaDataUserDomains: last_changed_by moves with a change only.
StampDomain(a, old, cls) ==
    IF cls = Absent THEN Absent
    ELSE [cls |-> cls, by |-> IF Held(old) = cls THEN old.by ELSE a]

StampTable(a, old, rows) ==
    IF rows = Absent THEN Absent
    ELSE [rows |-> rows, by |-> IF Rows(old) = rows THEN old.by ELSE a]

\* Who may not manage unique populations leaves them as they were.
NewPop(j, old) == IF j.by \in MayPop THEN j.body.pop ELSE old

Created(j, cats) ==
    [attrs   |-> [blocked |-> FALSE, mask |-> j.body.mask, pop |-> NewPop(j, {})],
     lake    |-> DefaultLake(j.body.all = "on"),
     cats    |-> cats,
     domains |-> [d \in Domains |-> StampDomain(j.by, Absent, j.body.domains[d])],
     tables  |-> [t \in Tables |-> StampTable(j.by, Absent, j.body.tables[t])],
     groups  |-> j.body.groups]

EditedDomains(j, old) ==
    [d \in Domains |-> StampDomain(j.by, old.domains[d],
                            FinalDomain(j.by, old.domains[d], j.body.domains[d]))]

EditedTables(j, old) ==
    [t \in Tables |-> StampTable(j.by, old.tables[t],
                           FinalTable(j.by, old.tables[t], j.body.tables[t]))]

\* Mutant: the attributes of the request instead of the merged ones.
EditedAttributesAsSent(j, old) ==
    [blocked |-> FALSE, mask |-> j.body.mask, pop |-> NewPop(j, old.pop)]

EditedAttributes(j, old) == [old EXCEPT !.mask = j.body.mask, !.pop = NewPop(j, old.pop)]

\* The catalogs are written, all of them, only with is_read_all.
Edited(j, old, now) ==
    [attrs   |-> EditedAttributes(j, old.attrs),
     lake    |-> IF j.body.all = "keep" THEN now.lake
                 ELSE [all |-> j.body.all = "on", schemas |-> old.lake.schemas],
     cats    |-> IF j.body.all = "keep" THEN now.cats ELSE old.cats,
     domains |-> EditedDomains(j, old),
     tables  |-> EditedTables(j, old),
     groups  |-> EditedGroups(j, old)]
-----------------------------------------------------------------------------
\* What the removal of a domain computes.

\* The classifications that getPermissionTablesOptions takes for a domain: those
\* of its first listing, the user's own before those of groups.
Listing(domains, groups, d) ==
    LET gs == {g \in groups : GroupGrants[g][d] # Absent}
    IN IF domains[d] # Absent THEN domains[d].cls
       ELSE IF gs = {} THEN {}
       ELSE GroupGrants[CHOOSE g \in gs : \A h \in gs : GroupRank[g] <= GroupRank[h]][d]

Supported(t, domains, groups) ==
    \E d \in Domains, c \in Classes :
        c \in Listing(domains, groups, d) /\ <<d, c>> \in Columns[t]

Without(domains, d) == [domains EXCEPT ![d] = Absent]

Reduced(j, old, now) ==
    LET left == Without(old.domains, j.d)
    IN [now EXCEPT !.domains = left,
                   !.tables = [t \in Tables |->
                       IF old.tables[t] # Absent /\ Supported(t, left, old.groups)
                       THEN old.tables[t] ELSE Absent]]
-----------------------------------------------------------------------------
\* What a clone computes.

MayCopy(a, old, d) == old.domains[d] # Absent /\ MayGrant(a, d, old.domains[d].cls)

\* The destination gets the domains the actor may grant, all permission tables,
\* and of an earlier document only the other catalogs stay.
Cloned(j, old, now) ==
    [attrs   |-> DefaultAttributes,
     lake    |-> DefaultLake(FALSE),
     cats    |-> IF now = NoDoc THEN {} ELSE now.cats,
     domains |-> [d \in Domains |-> IF MayCopy(j.by, old, d)
                                    THEN StampDomain(j.by, Absent, old.domains[d].cls)
                                    ELSE Absent],
     tables  |-> [t \in Tables |-> StampTable(j.by, Absent, Rows(old.tables[t]))],
     groups  |-> {}]
-----------------------------------------------------------------------------
\* What requests about catalogs compute.

\* The names of the other catalogs after an add, an edit or a delete of names.
NewCatalogs(j, cats) ==
    CASE j.op = "addCatalogs"    -> cats \cup j.names
      [] j.op = "renameCatalogs" -> {j.rename[c] : c \in cats}
      [] OTHER                   -> cats \ j.names

SetSchema(lake, s, v) == [lake EXCEPT !.schemas[s] = v]
-----------------------------------------------------------------------------
Init ==
    /\ doc \in First
    /\ writers \in SUBSET (Users \X Schemas)
    /\ \A u \in Users, s \in Schemas : Live(u) => (<<u, s>> \in writers) = Writes(doc[u], s)
    /\ pc = [r \in Reqs |-> "new"]
    /\ job \in [Reqs -> Jobs]
    /\ copy = [r \in Reqs |-> NoDoc]
    /\ todo = [r \in Reqs |-> {}]
    /\ missed = [r \in Reqs |-> {}]
    /\ faults = 0

Goto(r, step) == pc' = [pc EXCEPT ![r] = step]

Fault(kind) == kind \in FaultKinds /\ faults < MaxFaults /\ faults' = faults + 1

\* Whoever read the document of u before r writes it has missed r.
Missed(r, u) == [q \in Reqs |-> IF q # r /\ Busy(q) /\ u \in Concerns(q)
                                THEN missed[q] \cup {r} ELSE missed[q]]

Put(r, u, d) == doc' = [doc EXCEPT ![u] = d] /\ missed' = Missed(r, u)

NoPut == UNCHANGED <<doc, missed>>

\* A request is turned down: nothing was written.
Refuse(r) ==
    /\ Goto(r, "failed")
    /\ NoPut /\ UNCHANGED <<writers, job, copy, todo, faults>>

\* A promise of r that nobody awaits is rejected: Node ends the process, and with
\* it everything that is being served.
Ended(r, step) ==
    [q \in Reqs |-> IF q = r THEN step
                    ELSE IF Busy(q) \/ pc[q] = "audit" THEN "gone" ELSE pc[q]]

EndProcess(r, step) ==
    /\ pc' = Ended(r, step)
    /\ NoPut /\ UNCHANGED <<writers, job, copy, todo>>

\* The document is read, and the request goes on to write.
Take(r, step) ==
    /\ Goto(r, step)
    /\ copy' = [copy EXCEPT ![r] = doc[job[r].u]]
    /\ todo' = [todo EXCEPT ![r] = job[r].to]
    /\ NoPut /\ UNCHANGED <<writers, job, faults>>

\* The single write of a request, which is answered then.
Finish(r, d) ==
    /\ Put(r, job[r].u, d)
    /\ Goto(r, "done")
    /\ UNCHANGED <<writers, job, copy, todo, faults>>
-----------------------------------------------------------------------------
Asked(r, ops) == pc[r] = "new" /\ job[r].op \in ops

\* Mutant: nobody looks whether the user exists.
ReadCreateUnchecked(r) ==
    /\ Asked(r, {"create"})
    /\ IF MayCreate(job[r]) THEN Take(r, "write") ELSE Refuse(r)

ReadCreate(r) ==
    /\ Asked(r, {"create"})
    /\ IF MayCreate(job[r]) /\ ~Live(job[r].u) THEN Take(r, "write") ELSE Refuse(r)

\* An insert, which the unique index on user_id may refuse, or an update of the
\* document of a deleted user.
WriteCreate(r) ==
    /\ pc[r] = "write" /\ job[r].op = "create"
    /\ IF copy[r] = NoDoc
       THEN IF doc[job[r].u] = NoDoc
            THEN Finish(r, Created(job[r], {}))
            ELSE Refuse(r)
       ELSE Finish(r, Created(job[r], copy[r].cats))

ReadEdit(r) ==
    /\ Asked(r, {"edit"})
    /\ IF Live(job[r].u) /\ MayEdit(job[r], doc[job[r].u])
       THEN Take(r, "write") ELSE Refuse(r)

WriteEdit(r) ==
    /\ pc[r] = "write" /\ job[r].op = "edit"
    /\ Finish(r, Edited(job[r], copy[r], doc[job[r].u]))

ReadBlock(r) ==
    /\ Asked(r, {"block"})
    /\ IF doc[job[r].u] # NoDoc THEN Take(r, "write") ELSE Refuse(r)

\* The attributes are written as they were read, with blocked.
WriteBlock(r) ==
    /\ pc[r] = "write" /\ job[r].op = "block"
    /\ Finish(r, [doc[job[r].u] EXCEPT !.attrs = [copy[r].attrs EXCEPT !.blocked = TRUE]])

\* An atomic update: datalake is taken out of the catalogs, all else stays, and
\* so do the tuples.
Delete(r) ==
    /\ Asked(r, {"delete"})
    /\ IF job[r].by \in Admins /\ doc[job[r].u] # NoDoc
       THEN Finish(r, [doc[job[r].u] EXCEPT !.lake = Absent])
       ELSE Refuse(r)

ReadDropDomain(r) ==
    /\ Asked(r, {"dropDomain"})
    /\ IF job[r].d \in MayManage[job[r].by] /\ doc[job[r].u] # NoDoc
       THEN Take(r, "write") ELSE Refuse(r)

WriteDropDomain(r) ==
    /\ pc[r] = "write" /\ job[r].op = "dropDomain"
    /\ Finish(r, Reduced(job[r], copy[r], doc[job[r].u]))
-----------------------------------------------------------------------------
\* The ConflictException is thrown in an async callback of forEach: it reaches
\* nobody.
ReadClone(r) ==
    /\ Asked(r, {"clone"})
    /\ IF Live(job[r].u)
       THEN IF \E v \in job[r].to : Live(v)
            THEN EndProcess(r, "gone") /\ UNCHANGED faults
            ELSE Take(r, "copy")
       ELSE Refuse(r)

\* bulkWrite: the destinations one after the other, by user_id alone.
CopyTo(r, v) ==
    /\ pc[r] = "copy" /\ v \in todo[r]
    /\ Put(r, v, Cloned(job[r], copy[r], doc[v]))
    /\ todo' = [todo EXCEPT ![r] = @ \ {v}]
    /\ Goto(r, IF todo[r] = {v} THEN "audit" ELSE "copy")
    /\ UNCHANGED <<writers, job, copy, faults>>

\* A write of the bulk that is refused ends it: the rest is not written.
CopyFails(r) ==
    /\ pc[r] = "copy"
    /\ Fault("refused")
    /\ Goto(r, "failed")
    /\ NoPut /\ UNCHANGED <<writers, job, copy, todo>>

\* The audit of a clone is not awaited, and looks up the users that were there.
Audit(r) ==
    /\ pc[r] = "audit"
    /\ \/ Goto(r, "done") /\ NoPut /\ UNCHANGED <<writers, job, copy, todo, faults>>
       \/ Fault("refused") /\ EndProcess(r, "done")
-----------------------------------------------------------------------------
CatalogOps == {"addCatalogs", "renameCatalogs", "deleteCatalogs"}

ReadCatalogs(r) ==
    /\ Asked(r, CatalogOps)
    /\ IF Live(job[r].u) THEN Take(r, "write") ELSE Refuse(r)

\* All catalogs are written, datalake as it was read.
WriteCatalogs(r) ==
    /\ pc[r] = "write" /\ job[r].op \in CatalogOps
    /\ Finish(r, [doc[job[r].u] EXCEPT !.lake = copy[r].lake,
                                       !.cats = NewCatalogs(job[r], copy[r].cats)])

\* giveWritePermissionsOnSchemaToUser and revokeWritePermissionsOnSchemaFromUser.
\* The controller awaits neither: every error ends the process.
ReadSchemas(r) ==
    LET u == job[r].u
        s == job[r].s
    IN /\ Asked(r, {"give", "revoke"})
       /\ IF job[r].by \notin Admins THEN Refuse(r)
          ELSE IF Live(u) /\ doc[u].lake.schemas[s]
                               # (IF job[r].op = "give" THEN "write" ELSE "none")
          THEN Take(r, "write")
          ELSE EndProcess(r, "failed") /\ UNCHANGED faults

WriteSchemas(r) ==
    /\ pc[r] = "write" /\ job[r].op \in {"give", "revoke"}
    /\ Put(r, job[r].u, [doc[job[r].u] EXCEPT
              !.lake = SetSchema(copy[r].lake, job[r].s,
                                 IF job[r].op = "give" THEN "write" ELSE "read")])
    /\ Goto(r, "tuple")
    /\ UNCHANGED <<writers, job, copy, todo, faults>>

\* OpenFGA refuses to write a tuple that is there and to delete one that is not.
Applies(r) == (<<job[r].u, job[r].s>> \in writers) = (job[r].op = "revoke")

WriteTuple(r) ==
    /\ pc[r] = "tuple"
    /\ Applies(r)
    /\ writers' = IF job[r].op = "give" THEN writers \cup {<<job[r].u, job[r].s>>}
                                        ELSE writers \ {<<job[r].u, job[r].s>>}
    /\ Goto(r, "done")
    /\ NoPut /\ UNCHANGED <<job, copy, todo, faults>>

TupleFails(r) ==
    /\ pc[r] = "tuple"
    /\ IF Applies(r) THEN Fault("refused") ELSE UNCHANGED faults
    /\ Goto(r, "undo")
    /\ NoPut /\ UNCHANGED <<writers, job, copy, todo>>

\* Mutant: the error is thrown on without the document being restored.
UndoNothing(r) ==
    /\ pc[r] = "undo"
    /\ EndProcess(r, "failed") /\ UNCHANGED faults

\* The schemas are saved as they were read, and the error is thrown on.
Undo(r) ==
    /\ pc[r] = "undo"
    /\ doc' = [doc EXCEPT ![job[r].u].lake = copy[r].lake]
    /\ missed' = Missed(r, job[r].u)
    /\ pc' = Ended(r, "failed")
    /\ UNCHANGED <<writers, job, copy, todo, faults>>
-----------------------------------------------------------------------------
Step(r) ==
    \/ ReadCreate(r) \/ WriteCreate(r) \/ ReadEdit(r) \/ WriteEdit(r)
    \/ ReadBlock(r) \/ WriteBlock(r) \/ Delete(r)
    \/ ReadDropDomain(r) \/ WriteDropDomain(r)
    \/ ReadClone(r) \/ (\E v \in Users : CopyTo(r, v)) \/ CopyFails(r) \/ Audit(r)
    \/ ReadCatalogs(r) \/ WriteCatalogs(r)
    \/ ReadSchemas(r) \/ WriteSchemas(r) \/ WriteTuple(r) \/ TupleFails(r) \/ Undo(r)

Done == (\A r \in Reqs : pc[r] \in {"done", "failed", "gone"}) /\ UNCHANGED vars

Next == (\E r \in Reqs : Step(r)) \/ Done

Spec == Init /\ [][Next]_vars
-----------------------------------------------------------------------------
(***************************************************************************)
(* Properties.                                                             *)
(***************************************************************************)

TypeOK ==
    /\ doc \in [Users -> Docs \cup {NoDoc}]
    /\ writers \subseteq Users \X Schemas
    /\ pc \in [Reqs -> Steps]
    /\ job \in [Reqs -> Jobs]
    /\ copy \in [Reqs -> Docs \cup {NoDoc}]
    /\ todo \in [Reqs -> SUBSET Users]
    /\ missed \in [Reqs -> SUBSET Reqs]
    /\ faults \in 0 .. MaxFaults

\* r has written in this step: it has gone on, and was not ended by another.
Wrote(r) ==
    \/ pc'[r] # pc[r] /\ pc'[r] # "gone"
    \/ todo'[r] # todo[r]

ClassesOf(D, d) == IF D = NoDoc \/ D.domains[d] = Absent THEN {} ELSE D.domains[d].cls

HasDomain(D, d) == D # NoDoc /\ D.domains[d] # Absent

GroupsOf(D) == IF D = NoDoc THEN {} ELSE D.groups

PopOf(D) == IF D = NoDoc THEN {} ELSE D.attrs.pop

ReadsAll(D) == Present(D) /\ D.lake.all

Blocked(D) == D # NoDoc /\ D.attrs.blocked

\* What a may do when the document D of a user becomes E: give classifications
\* it may assign and domains it manages; take domains, groups, unique
\* populations and the mask only from where it may; read_all as an admin.
Within(a, D, E) ==
    /\ \A d \in Domains :
          /\ MayGrant(a, d, ClassesOf(E, d) \ ClassesOf(D, d)) \/ ClassesOf(E, d) \subseteq ClassesOf(D, d)
          /\ HasDomain(E, d) /\ ~HasDomain(D, d) => d \in MayManage[a]
          /\ Present(D) /\ HasDomain(D, d) /\ ~HasDomain(E, d) => d \in MayManage[a]
          /\ Present(D) /\ HasDomain(E, d)
                => ClassesOf(D, d) \subseteq ClassesOf(E, d)
                   \/ MayGrant(a, d, ClassesOf(D, d) \ ClassesOf(E, d))
    /\ GroupsOf(E) \ GroupsOf(D) \subseteq MayEnrol[a]
    /\ Present(D) => GroupsOf(D) \ GroupsOf(E) \subseteq MayEnrol[a]
    /\ PopOf(E) \subseteq PopOf(D) \/ a \in MayPop
    /\ Present(D) /\ PopOf(E) # PopOf(D) => a \in MayPop
    /\ ReadsAll(E) /\ ~ReadsAll(D) => a \in Admins
    /\ Present(D) /\ E.attrs.mask # D.attrs.mask /\ a \notin ApiActors
          => MaySetMask(a, E.domains)

\* A request that missed no write of another changes of a user's permissions only
\* what its actor may change, compared with the document as it is when it is
\* written, not as it was read.  Whoever missed a write may put back what others
\* with more permissions had taken away.
OnlyPermitted ==
    [][\A r \in Reqs : Wrote(r) /\ missed[r] = {} =>
           \A u \in Users : doc'[u] # doc[u] => Within(job[r].by, doc[u], doc'[u])]_vars

\* An edit by an API user that missed no write leaves every domain that a person
\* changed last as it was, and every such permission table, unless it takes the
\* table away altogether.
ApiUsersYield ==
    [][\A r \in Reqs :
           Wrote(r) /\ missed[r] = {} /\ job[r].op = "edit" /\ job[r].by \in ApiActors
               /\ pc[r] = "write" =>
           LET D == doc[job[r].u]
               E == doc'[job[r].u]
           IN /\ \A d \in Domains : HasDomain(D, d) /\ Locked(job[r].by, D.domains[d])
                                        => E.domains[d] = D.domains[d]
              /\ \A t \in Tables :
                    D.tables[t] # Absent /\ E.tables[t] # Absent /\ Locked(job[r].by, D.tables[t])
                        => E.tables[t] = D.tables[t]]_vars

\* A blocked user is unblocked, and a deleted one gets the data lake back, only by
\* being created or cloned anew, or by a request that had read the document
\* before some other write.
RevocationHolds ==
    [][\A u \in Users :
           \/ Blocked(doc[u]) /\ ~Blocked(doc'[u])
           \/ doc[u] # NoDoc /\ ~Live(u) /\ Present(doc'[u])
           => \E r \in Reqs :
                 /\ Wrote(r) \/ pc[r] = "undo"
                 /\ \/ job[r].op \in {"create", "clone"} /\ ~Live(u)
                    \/ missed[r] # {}]_vars

\* Of two creates of one user that both succeed, one has missed the other, or the
\* user was deleted in between: the unique index keeps two documents away, but of
\* two creates over the document of a deleted user the second replaces what the
\* first has given.
CreateOnce ==
    \A r, q \in Reqs :
        /\ r # q
        /\ job[r].op = "create" /\ job[q].op = "create" /\ job[r].u = job[q].u
        /\ pc[r] = "done" /\ pc[q] = "done"
        => \/ q \in missed[r] \/ r \in missed[q]
           \/ \E p \in Reqs : job[p].op = "delete" /\ job[p].u = job[r].u /\ pc[p] = "done"

AtRest == \A r \in Reqs : pc[r] \in {"new", "done", "failed", "gone"}

\* What may have set a user's schemas in the document and in OpenFGA apart: a
\* create or a clone, which starts the document afresh and leaves the tuples; a
\* write from an old copy; the end of the process between the two writes.
Torn(u) ==
    \E r \in Reqs :
        /\ u \in Concerns(r)
        /\ \/ job[r].op \in {"create", "clone"} /\ pc[r] # "new"
           \/ missed[r] # {}
           \/ pc[r] = "gone"

\* At rest the schemas of a user say write where OpenFGA has the tuple, whichever
\* call was refused: the catch of giving and revoking restores the document.
WriteMirror ==
    AtRest => \A u \in Users, s \in Schemas :
                 Live(u) /\ ~Torn(u) => (<<u, s>> \in writers) = Writes(doc[u], s)

\* Every variable keeps its type, and at rest the schemas of a user and the tuples agree.
SchemasSound == TypeOK /\ WriteMirror

\* A clone onto a user that exists is answered, with the ConflictException that
\* its comment promises.
ConflictAnswered == \A r \in Reqs : ~(job[r].op = "clone" /\ pc[r] = "gone")
=============================================================================
