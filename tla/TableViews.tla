------------------------------ MODULE TableViews ------------------------------
(***************************************************************************)
(* What shield-api answers about tables, domains, classifications and      *)
(* tasks (table.service.ts, domains.service.ts, classifications.service.ts *)
(* and tasks.service.ts): who is shown which of them, and what the dialog  *)
(* of a table offers, against what an edit of the table lets through.      *)
(*                                                                         *)
(* A world w is a record of the collections: tables, a sequence of [id,    *)
(* name, domain, cols, keys] where name is <<schema, table>>; domains, a   *)
(* set of [id, cls, used]; classes, the classifications that exist; tasks, *)
(* a set of [id, table, done]; users, a sequence of [domains, all]; sap,   *)
(* the names of the SAP tables; and of the tuples of OpenFGA: links, from  *)
(* domain to classification, and rooted, the domains under the platform.   *)
(* A viewer v is [admin, classifies, manages, assigns]: its roles and the  *)
(* pairs <<domain, classification>> it is an assigner of.                  *)
(***************************************************************************)
EXTENDS UserPermissions, ResourceDiffs

CONSTANTS
    InternalClass,   \* the classification of internal columns, INTERNAL_RESOURCE_ID
    InternalDomain   \* the domain with the same identity

\* An answer that may be refused is a set: empty, or of the one answer.
Refusal == {}

TableOf(w, id) == CHOOSE t \in ToSet(w.tables) : t.id = id
DomainOf(w, id) == {d \in w.domains : d.id = id}

\* The relations of OpenFGA that a viewer has with a domain and a classification.
AdminFrom(w, v, d)   == v.admin /\ d \in w.rooted
CanClassify(w, v, d) == AdminFrom(w, v, d) \/ d \in v.classifies
CanManageData(w, v, d) == CanClassify(w, v, d) \/ d \in v.manages

\* An assigner needs a role besides.
CanAssign(w, v, d, c, role) ==
    <<d, c>> \in w.links /\ (AdminFrom(w, v, d) \/ (<<d, c>> \in v.assigns /\ role))

CanAssignToTable(w, v, d, c) == CanAssign(w, v, d, c, CanClassify(w, v, d))
CanAssignToUser(w, v, d, c)  == CanAssign(w, v, d, c, CanManageData(w, v, d))

\* listObjects of the domains, and of the classifications as they fall to domains
\* (getUserDomainIdsByRelation, getClassificationsByDomainID).
ListedDomains(w, v, relation) ==
    {d \in Domains : CASE relation = "can_classify_tables"         -> CanClassify(w, v, d)
                       [] relation = "can_manage_data_permissions" -> CanManageData(w, v, d)}

ListedClasses(w, v, d, relation) ==
    {c \in {p[2] : p \in {p \in w.links : p[1] = d}} :
        CASE relation = "can_assign_to_table" -> CanAssignToTable(w, v, d, c)
          [] relation = "can_assign_to_user"  -> CanAssignToUser(w, v, d, c)}
-----------------------------------------------------------------------------
\* calcColumnsDictClassificationState; getClassificationState of the client is the same.
ClassState(cols) ==
    LET held == {cols[c].cls : c \in DOMAIN cols}
    IN CASE InternalClass \in held -> "internally_classified"
         [] Unset \notin held      -> "classified"
         [] held \ {Unset} # {}    -> "partially_classified"
         [] OTHER                  -> "unclassified"

\* TABLES_WITH_DOMAIN_NAME_PIPELINE and TABLES_IS_SAP_PIPELINE.
NamedDomain(w, t) == {d.id : d \in DomainOf(w, t.domain)}
InSap(w, t) == t.name \in w.sap

\* getTables: the tables of the domains that one classifies, deprecated ones too.
TablesOf(w, v) ==
    {[id |-> t.id, domain |-> NamedDomain(w, t), sap |-> InSap(w, t),
      state |-> ClassState(t.cols)] :
        t \in {t \in ToSet(w.tables) : t.domain \in ListedDomains(w, v, "can_classify_tables")}}

\* getTablesExcel: one row for each, and a column for SAP if there is a reason.
TablesExcel(w, v) ==
    LET rows == TablesOf(w, v)
    IN {[row |-> r, sap |-> (\E o \in rows : o.sap) /\ r.sap] : r \in rows}

\* getTableDtoById: all classifications of the domain, and those the viewer may assign.
TableDto(w, v, t) ==
    LET docs     == DomainOf(w, t.domain)
        internal == {InternalClass} \cap {t.cols[c].cls : c \in DOMAIN t.cols}
        offered  == (UNION {d.cls : d \in docs} \cup internal) \cap w.classes
    IN IF ~CanClassify(w, v, t.domain) \/ docs = {} THEN Refusal
       ELSE {[cols |-> t.cols, all |-> offered,
              user |-> offered \cap ListedClasses(w, v, t.domain, "can_assign_to_table")]}

\* Mutant: what the viewer may not assign is suggested.
SuggestableAll(w, v, d, c) == TRUE

Suggestable(w, v, d, c) == CanAssignToTable(w, v, d, c)

\* getColumnClassificationSuggestions: the classification of the only column that a
\* column comes from.  lineage.fine is a sequence of [ups, down], ups a sequence of
\* [name, column]; lineage.ups the names of the tables upstream.
Suggested(w, t, lineage, acc, fine) ==
    IF Len(fine.ups) # 1 THEN acc
    ELSE LET up    == fine.ups[1]
             found == {u \in ToSet(w.tables) : u.name = up.name /\ u.name \in lineage.ups}
             cls   == IF found = {} THEN Unset
                      ELSE ColumnOf((CHOOSE u \in found : TRUE).cols, up.column).cls
         IN IF \E d \in DomainOf(w, t.domain) : cls \in d.cls THEN With(acc, fine.down, cls) ELSE acc

Suggestions(w, v, t, lineage) ==
    LET all == FoldLeft(LAMBDA acc, f : Suggested(w, t, lineage, acc, f), [c \in {} |-> Unset], lineage.fine)
        mine == {c \in DOMAIN all : Suggestable(w, v, t.domain, all[c])}
    IN IF ~CanClassify(w, v, t.domain) \/ DomainOf(w, t.domain) = {} THEN Refusal
       ELSE {[c \in mine |-> all[c]]}

\* editTableById: what is taken away must be the viewer's to assign as well.
EditPasses(w, v, t, edit) ==
    LET diff == {e \in ColumnsDiff(t.cols, edit) : e.kind = "classification"}
    IN /\ CanClassify(w, v, t.domain)
       /\ \A e \in diff : \A c \in {e.old, e.new} \ {Unset} : CanAssignToTable(w, v, t.domain, c)

\* GET_TASKS_DATA_PIPLINE: a task whose table is gone is not there.
TableUnder(w, k) == {t \in ToSet(w.tables) : t.id = k.table}

\* getActiveTasks.
ActiveTasks(w, v) ==
    {k \in w.tasks : ~k.done /\ \E t \in TableUnder(w, k) : t.domain \in ListedDomains(w, v, "can_classify_tables")}

\* markTaskAsDone.
ApprovePasses(w, v, k) ==
    \E t \in TableUnder(w, k) : CanClassify(w, v, t.domain)
-----------------------------------------------------------------------------
\* getTablesDictionary and getSchemasDictionary, which the engines read: of two tables
\* of one name the dictionary has the last.
TablesDict(w) ==
    FoldLeft(LAMBDA acc, t : With(acc, t.name, [id |-> t.id, cols |-> t.cols]), [n \in {} |-> {}], w.tables)

SchemasDict(w) ==
    [s \in {t.name[1] : t \in ToSet(w.tables)} |-> {t.name : t \in {t \in ToSet(w.tables) : t.name[1] = s}}]

\* getTablesByTableFullNames and getTablesPermissionKeysStatus.
ByNames(w, names) == SelectSeq(w.tables, LAMBDA t : t.name \in names)

KeysStatus(w, names) ==
    IF names = {} THEN Refusal
    ELSE {FoldLeft(LAMBDA acc, t : With(acc, t.name, t.keys # <<>>), [n \in {} |-> TRUE], ByNames(w, names))}

\* refreshSapTables: what Trino does not have is removed, what it has is added.
SapRemoved(mongo, trino) == mongo \ trino
SapAdded(mongo, trino)   == trino \ mongo
SapRefreshed(mongo, trino) == (mongo \ SapRemoved(mongo, trino)) \cup SapAdded(mongo, trino)
-----------------------------------------------------------------------------
\* The documents of domains with the classifications they list (getDomainsDictionary,
\* getAllDomains, getDomainsWithClassifications, getDomainWithClassifications).
DomainDict(w) == {[id |-> d.id, cls |-> d.cls \cap w.classes] : d \in {d \in w.domains : d.id # InternalDomain}}
UsedDomains(w) == {[id |-> d.id, cls |-> d.cls \cap w.classes] : d \in {d \in w.domains : d.used}}

\* getDomainsByDomainRelation: the classifications are those of OpenFGA.
DomainsBy(w, v, relation, ofClasses) ==
    {[id |-> d.id, cls |-> ListedClasses(w, v, d.id, ofClasses)] :
        d \in {d \in w.domains : d.id \in ListedDomains(w, v, relation)}}

\* getDomainClassifications, of one domain.
ClassesFor(w, v, d) == ListedClasses(w, v, d, "can_assign_to_user") \cap w.classes

\* getDomainsExcel: those with any data permission, but for admins.
DomainsExcel(w, staff) ==
    {[id |-> d.id, people |-> {p \in DOMAIN staff : ~staff[p].admin /\ CanManageData(w, staff[p], d.id)}] :
        d \in UsedDomains(w)}

\* getClassificationsWithRelatedDomains.
RelatedDomains(w) ==
    [c \in w.classes \ {InternalClass} |-> {d.id : d \in {d \in w.domains : c \in d.cls}}]

\* countUsersWithDomainPermission and getClassificationsExposureById: users are matched
\* by their documents alone, and once for each entry of a list.
DomainExposure(w, d) ==
    Cardinality({i \in DOMAIN w.users : ~w.users[i].all /\ \E e \in ToSet(w.users[i].domains) : e.id = d})

ClassExposure(w, d, c) ==
    Cardinality({<<i, j>> \in UNION {{<<i, j>> : j \in DOMAIN w.users[i].domains} : i \in DOMAIN w.users} :
                    /\ ~w.users[i].all
                    /\ w.users[i].domains[j].id = d /\ c \in w.users[i].domains[j].cls})
-----------------------------------------------------------------------------
(***************************************************************************)
(* Properties.                                                             *)
(***************************************************************************)

\* The dialog of a table and its save agree, though the one joins documents with
\* listObjects and the other asks batchCheck: a column that is free, or that holds
\* what the viewer may assign, can be given any classification that is offered or
\* suggested, and where the links are those of the documents nothing else passes.
OffersPass(w, v, lineage) ==
    \A t \in ToSet(w.tables) :
       LET dtos   == TableDto(w, v, t)
           give(c, k) == c :> [t.cols[c] EXCEPT !.cls = k]
           mirror == \A k \in Classes : <<t.domain, k>> \in w.links <=>
                        \E d \in DomainOf(w, t.domain) : k \in d.cls \cap w.classes
       IN /\ (dtos = Refusal) = (Suggestions(w, v, t, lineage) = Refusal)
          /\ \A dto \in dtos, sugg \in Suggestions(w, v, t, lineage), c \in DOMAIN t.cols :
                LET open == t.cols[c].cls \in {Unset} \cup dto.user
                IN /\ open =>
                         /\ \A k \in dto.user : EditPasses(w, v, t, give(c, k))
                         /\ c \in DOMAIN sugg => EditPasses(w, v, t, give(c, sugg[c]))
                   /\ \A k \in Classes \ {t.cols[c].cls} :
                         mirror /\ EditPasses(w, v, t, give(c, k)) => open /\ k \in dto.user

\* What is listed is what can be acted on: a table of the list has its dialog, a task
\* of the list can be approved, the classifications of a domain are the same whether
\* one domain or all of them are asked for, and each of them names the domain as
\* related to it.
ListsOpen(w, v) ==
    /\ \A t \in ToSet(w.tables) :
          (\E r \in TablesOf(w, v) : r.id = t.id /\ r.domain # {}) <=> TableDto(w, v, t) # Refusal
    /\ \A k \in w.tasks : k \in ActiveTasks(w, v) <=> ~k.done /\ ApprovePasses(w, v, k)
    /\ \A d \in DomainsBy(w, v, "can_manage_data_permissions", "can_assign_to_user") :
          d.cls \cap w.classes = ClassesFor(w, v, d.id)
    /\ \A d \in DomainDict(w) : \A c \in d.cls \ {InternalClass} : d.id \in RelatedDomains(w)[c]

\* The numbers of users that the dialog shows: no classification is open to more users
\* than its domain, and each number counts users once, when no user has two entries of
\* one domain.
ExposureCounts(w) ==
    LET single == \A u \in ToSet(w.users) : \A i, j \in DOMAIN u.domains :
                     u.domains[i].id = u.domains[j].id => i = j
    IN single => \A d \in Domains, c \in Classes :
          /\ ClassExposure(w, d, c) <= DomainExposure(w, d)
          /\ ClassExposure(w, d, c) = Cardinality({i \in DOMAIN w.users :
                ~w.users[i].all /\ c \in UNION {e.cls : e \in {e \in ToSet(w.users[i].domains) : e.id = d}}})

\* Every table is in the dictionaries of the engines under its name, and nothing else
\* is; a refresh of the SAP tables leads to those of Trino.
DictionariesWhole(w, trino) ==
    /\ DOMAIN TablesDict(w) = UNION {SchemasDict(w)[s] : s \in DOMAIN SchemasDict(w)}
    /\ \A t \in ToSet(w.tables) : \E u \in ToSet(w.tables) :
          u.name = t.name /\ TablesDict(w)[t.name] = [id |-> u.id, cols |-> u.cols]
    /\ SapRefreshed(w.sap, trino) = trino
=============================================================================
