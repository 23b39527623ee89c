------------------------------- MODULE BayTables -------------------------------
(***************************************************************************)
(* The tables that shield-bay exports (data.service.ts): what each listing *)
(* makes of the collections.  Paging is left to Export.                    *)
(*                                                                         *)
(* A store is a record of the collections.  A document is a record with an *)
(* id; the shapes are those of UserDiffs and ResourceDiffs.  An entry of   *)
(* the audit log is [id, resource, on, by, diff], diff the set of what     *)
(* changed.                                                                *)
(***************************************************************************)
EXTENDS ResourceDiffs

CONSTANT Indications     \* indicationTypes

AppFlags == {"is_admin", "can_create_connections", "can_manage_unique_population_indications"}

Fields(doc, names) == [f \in names |-> doc[f]]

\* Documents as they are, without some of their fields.
UsersRows(s) == {[id |-> u.id, type |-> u.attrs.type, sap |-> u.id \in s.sap] : u \in s.users}
TablesRows(s) == {[id |-> t.id, domain |-> t.domain, ptable |-> t.ptable, keys |-> t.keys] : t \in s.tables}
TableTasksRows(s) == {[id |-> t.id, table |-> t.table, done |-> t.done] :
                           t \in {t \in s.tasks : t.type = "TableClassification"}}
ClassificationsRows(s) == s.classes
DomainsRows(s) == {Fields(d, {"id", "name"}) : d \in s.domains}
RolesRows(s) == {Fields(r, {"id", "name"}) : r \in s.roles}
PermissionTablesRows(s) == {Fields(t, {"id", "name"}) : t \in s.ptables}
AuditingLegacyRows(s) == s.legacy
AuditLogsRows(s) == {[id |-> e.id, user |-> e.by] : e \in s.log}
AppUsersRows(s) == {[id |-> u.id, flags |-> u.flags] : u \in s.appUsers}

\* getColumns: the key of a column is the one that has the column's own name,
\* though the keys of a table are a map from key to column.
KeyOf(t, c) ==
    LET found == {i \in DOMAIN t.keys : t.keys[i].kod = c}
    IN IF found = {} THEN Unset ELSE t.keys[Min(found)].column

ColumnsRows(s) ==
    UNION {{[table |-> t.id, column |-> c, key |-> KeyOf(t, c),
             cls |-> t.cols[c].cls, mask |-> t.cols[c].mask] : c \in DOMAIN t.cols} : t \in s.tables}

\* Documents unwound: one row for every element of a list in them.
RowFiltersRows(s) ==
    UNION {{[table |-> t.id, kod |-> t.filters[i].kod] : i \in DOMAIN t.filters} : t \in s.ptables}

UserUniqueIndicationsRows(s) == UNION {{[user |-> u.id, value |-> p] : p \in u.attrs.pop} : u \in s.users}

UserIndicationsRows(s) ==
    UNION {{[user |-> u.id, kind |-> k, value |-> IF u.attrs[k] \in BOOLEAN THEN u.attrs[k] ELSE FALSE] :
               k \in Indications \cap DOMAIN u.attrs} : u \in s.users}

\* $unwind of the domains and then of a list in each.
OfDomains(docs) == UNION {{<<u.id, u.domains[i]>> : i \in DOMAIN u.domains} : u \in docs}

ClassesIn(u, d) == {[user |-> u, domain |-> d.id, cls |-> c] : c \in d.cls}
RolesIn(u, d)  == {[user |-> u, domain |-> d.id, role |-> r] : r \in d.roles}

UserClassificationsRows(s) == UNION {ClassesIn(p[1], p[2]) : p \in OfDomains(s.users)}
AppUserClassificationsRows(s) == UNION {ClassesIn(p[1], p[2]) : p \in OfDomains(s.appUsers)}
AppUserRolesRows(s) == UNION {RolesIn(p[1], p[2]) : p \in OfDomains(s.appUsers)}

DomainClassificationsRows(s) == UNION {{[domain |-> d.id, cls |-> c] : c \in d.cls} : d \in s.domains}

ValuesIn(u, t, f) == {[user |-> u, table |-> t.id, kod |-> f.kod, value |-> v] : v \in f.values}

UserRowFiltersRows(s) ==
    UNION {UNION {UNION {ValuesIn(u.id, t, f) : f \in ToSet(t.filters)} : t \in ToSet(u.tables)} : u \in s.users}
-----------------------------------------------------------------------------
\* Mutant: the resource of an entry does not matter.
ActionsOfAny(s, resource, kinds) ==
    UNION {{[action |-> e.id, on |-> e.on, did |-> d] : d \in {d \in e.diff : d.kind \in kinds}} : e \in s.log}

\* The audit log unwound: what was done to resources of one type, of some kinds.
ActionsOf(s, resource, kinds) ==
    UNION {{[action |-> e.id, on |-> e.on, did |-> d] : d \in {d \in e.diff : d.kind \in kinds}} :
              e \in {e \in s.log : e.resource = resource}}

UserIndicationActions(s)        == ActionsOf(s, "user", Indications)
UserUniqueIndicationActions(s)  == ActionsOf(s, "user", {"pop"})
UserRowFilterValuesActions(s)   == ActionsOf(s, "user", {"value"})
UserClassificationActions(s)    == ActionsOf(s, "user", {"classification"})
TableClassificationActions(s)   == ActionsOf(s, "table", {"classification"})
TableMaskActions(s)             == ActionsOf(s, "table", {"mask"})
AppUserClassificationActions(s) == ActionsOf(s, "app", {"classification"})
AppUserRoleActions(s)           == ActionsOf(s, "app", {"role"})
AppUserFlagActions(s)           == ActionsOf(s, "app", AppFlags)

\* What is served under the name of a table, and sampled.
Catalog(s) ==
    [users |-> UsersRows(s), tables |-> TablesRows(s), columns |-> ColumnsRows(s), domains |-> DomainsRows(s),
     classifications |-> ClassificationsRows(s), roles |-> RolesRows(s), table_tasks |-> TableTasksRows(s),
     permission_tables |-> PermissionTablesRows(s), row_filters |-> RowFiltersRows(s),
     auditing_legacy |-> AuditingLegacyRows(s), audit_logs |-> AuditLogsRows(s),
     user_unique_indications |-> UserUniqueIndicationsRows(s), user_indications |-> UserIndicationsRows(s),
     user_classifications |-> UserClassificationsRows(s), user_row_filters |-> UserRowFiltersRows(s),
     domain_classifications |-> DomainClassificationsRows(s),
     user_indication_actions |-> UserIndicationActions(s),
     user_unique_indication_actions |-> UserUniqueIndicationActions(s),
     user_row_filter_value_actions |-> UserRowFilterValuesActions(s),
     user_classification_actions |-> UserClassificationActions(s),
     table_classification_actions |-> TableClassificationActions(s),
     table_mask_actions |-> TableMaskActions(s), application_users |-> AppUsersRows(s),
     application_user_classifications |-> AppUserClassificationsRows(s),
     application_user_roles |-> AppUserRolesRows(s),
     application_user_classification_actions |-> AppUserClassificationActions(s),
     application_user_role_actions |-> AppUserRoleActions(s),
     application_user_boolean_attribute_actions |-> AppUserFlagActions(s)]
-----------------------------------------------------------------------------
(***************************************************************************)
(* Properties.                                                             *)
(***************************************************************************)

\* What was done according to one table of actions, after a first export.
Did(was, is, table, type) == {a \in Catalog(is)[table] \ Catalog(was)[table] : a.did.type = type}

\* The rows of one table after the actions of another; Row makes a row of an action.
Replays(was, is, rows, actions, Row(_)) ==
    Catalog(is)[rows] = (Catalog(was)[rows] \cup {Row(a) : a \in Did(was, is, actions, "new")})
                            \ {Row(a) : a \in Did(was, is, actions, "deleted")}

\* Rows with a value that actions switch on and off.
Switched(was, is, actions, on, kind, value) ==
    LET set == {a \in Catalog(is)[actions] \ Catalog(was)[actions] : a.on = on /\ a.did.kind = kind}
    IN IF set = {} THEN value ELSE \E a \in set : a.did.type = "ON"

\* A column with the last of what was done to it; a new one starts plain.
ColumnReplays(was, is, r) ==
    LET Same(q)    == q.table = r.table /\ q.column = r.column
        old        == {q \in ColumnsRows(was) : Same(q)}
        start      == IF old = {} THEN [cls |-> Unset, mask |-> PlainMask] ELSE CHOOSE q \in old : TRUE
        Since(t)   == {a \in Catalog(is)[t] \ Catalog(was)[t] : a.on = r.table /\ a.did.column = r.column}
        Latest(t, v) == IF Since(t) = {} THEN v ELSE (CHOOSE a \in Since(t) : TRUE).did.new
    IN r.cls = Latest("table_classification_actions", start.cls)
       /\ r.mask = Latest("table_mask_actions", start.mask)

\* A second export is the first one after the exported actions that came since, which
\* are about users, tables and application users alone: the same kinds of entries are
\* logged of permission groups and of the other resources.  Only the values of a row
\* filter that an edit left out, and columns that an upsert took away, go untold.
ActionsReplay(was, is) ==
    LET cls(a)    == [user |-> a.on, domain |-> a.did.id, cls |-> a.did.cls]
        role(a)   == [user |-> a.on, domain |-> a.did.id, role |-> a.did.role]
        value(a)  == [user |-> a.on, table |-> a.did.id, kod |-> a.did.kod, value |-> a.did.value]
        unique(a) == [user |-> a.on, value |-> a.did.value]
    IN /\ Replays(was, is, "user_classifications", "user_classification_actions", cls)
       /\ Replays(was, is, "application_user_classifications", "application_user_classification_actions", cls)
       /\ Replays(was, is, "application_user_roles", "application_user_role_actions", role)
       /\ Replays(was, is, "user_unique_indications", "user_unique_indication_actions", unique)
       /\ Replays(was, is, "user_row_filters", "user_row_filter_value_actions", value)
       /\ \A r \in UserIndicationsRows(was), q \in UserIndicationsRows(is) :
             r.user = q.user /\ r.kind = q.kind =>
                 q.value = Switched(was, is, "user_indication_actions", r.user, r.kind, r.value)
       /\ \A u \in AppUsersRows(was), v \in AppUsersRows(is) : u.id = v.id =>
             \A f \in AppFlags :
                 v.flags[f] = Switched(was, is, "application_user_boolean_attribute_actions", u.id, f, u.flags[f])
       /\ \A r \in ColumnsRows(is) : ColumnReplays(was, is, r)
=============================================================================
