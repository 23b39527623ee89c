--------------------------- MODULE UserPermissions ---------------------------
(***************************************************************************)
(* What a user may see, computed from its merged permissions: the rows of  *)
(* the excel, the where clauses of the row filters (user.service.ts), and  *)
(* the preview of tables and columns that OPA computes from the same       *)
(* domains.                                                                *)
(***************************************************************************)
EXTENDS MergedPermissions

CONSTANTS
    AndKods,     \* the row filters whose conditions must all hold, a subset of Kods
    Tables,      \* tables of the data lake
    Cols,        \* their columns
    TableDomain, \* [Tables -> Domains]
    ColClass,    \* [Tables -> [Cols -> Classes]]
    Internal,    \* the columns that only SAP tables show, a subset of Cols
    SapTables    \* a subset of Tables

\* The rows of the excel of users: one for every merged domain.
ExcelRows(users) ==
    UNION {{[user |-> u, domain |-> d, cls |-> DOMAIN MergeDomains(users[u])[d].cls] :
                d \in DOMAIN MergeDomains(users[u])} : u \in DOMAIN users}
-----------------------------------------------------------------------------
\* The where clause of a permission table, and the rows that satisfy it.  A row
\* gives every filter a value, a boolean one 0 or 1.

\* A boolean that is on does not restrict; one that is off asks for the opposite
\* (the value is negated).
Condition(k, values) == IF k \in BoolKods THEN {1 - v : v \in values \ {1}} ELSE values

\* The row filters that restrict.
Restricted(filters) == {k \in Kods : Condition(k, filters[k]) # {}}

\* Mutant: the conditions that must all hold are joined with the others.
SatisfiesJoined(row, filters) ==
    Restricted(filters) # {} => \E k \in Restricted(filters) : row[k] \in Condition(k, filters[k])

\* generateWhereClauseRegularRowFilters: the conditions of AndKods and one of the
\* others.
Satisfies(row, filters) ==
    LET one == Restricted(filters) \ AndKods
    IN /\ \A k \in Restricted(filters) \cap AndKods : row[k] \in Condition(k, filters[k])
       /\ one # {} => \E k \in one : row[k] \in Condition(k, filters[k])
-----------------------------------------------------------------------------
\* OPA, from what the code sends it: the columns of every table of which at least
\* one is visible.
Visible(payload, t) ==
    IF payload.all THEN Cols
    ELSE {c \in Cols : ColClass[t][c] \in At(payload.domains, TableDomain[t], {})}

LivePermissions(payload) ==
    [t \in {s \in Tables : Visible(payload, s) # {}} |-> Visible(payload, t)]

\* Of a SAP table the internal column is not counted.
Counted(t, cols) == IF t \in SapTables THEN cols \ Internal ELSE cols

\* The payload of the current permissions, and that of permissions being edited.
Payload(user) == [domains |-> DomainsDict(user), all |-> user.all]

\* getLiveTablesByUser: current, new and edit.
CurrentTables(user) ==
    LET live == LivePermissions(Payload(user))
    IN [t \in DOMAIN live |-> [count |-> Cardinality(Counted(t, live[t]))]]

NewTables(user) ==
    LET live == LivePermissions(Payload(user))
    IN [t \in DOMAIN live |-> [count |-> Cardinality(Counted(t, live[t])),
                               new |-> TRUE, deleted |-> FALSE]]

\* Mutant: a table is compared as a whole, not by its columns.
EditedTablesWhole(old, user) ==
    LET new  == LivePermissions(Payload(user))
        curr == LivePermissions(Payload(old))
    IN [t \in DOMAIN new \cup DOMAIN curr |->
           [count   |-> Cardinality(Counted(t, At(new, t, {}))),
            new     |-> t \notin DOMAIN curr,
            deleted |-> t \notin DOMAIN new]]

EditedTables(old, user) ==
    LET new  == LivePermissions(Payload(user))
        curr == LivePermissions(Payload(old))
    IN [t \in DOMAIN new \cup DOMAIN curr |->
           [count   |-> Cardinality(Counted(t, At(new, t, {}))),
            new     |-> t \notin DOMAIN curr
                        \/ \E c \in At(new, t, {}) : c \notin curr[t],
            deleted |-> t \notin DOMAIN new
                        \/ \E c \in At(curr, t, {}) : c \notin new[t]]]

\* getLiveColumnsByTable for an edit: the columns of the table in either, marked.
EditedColumns(old, user, t) ==
    LET new  == Visible(Payload(user), t)
        curr == Visible(Payload(old), t)
    IN [c \in new \cup curr |-> IF c \notin new THEN "deleted" ELSE IF c \in curr THEN "kept" ELSE "new"]
-----------------------------------------------------------------------------
(***************************************************************************)
(* Properties, for every user and every row; the MC module gives them.     *)
(***************************************************************************)

\* What managers see in the merged view is what the engines enforce: the same
\* domains with the same classifications, and every source shown for one of them
\* is a source that grants it, all of them shown.  So are the rows of the excel, and
\* an attribute that differs from the default in one source differs.
ViewIsEnforced(user) ==
    LET view == MergeDomains(user)
        dict == DomainsDict(user)
        Grants(src, d, c) ==
            \E e \in Range(SourcedDomains(user)) : e.src = src /\ e.id = d /\ c \in e.cls
    IN /\ DOMAIN view = DOMAIN dict
       /\ \A d \in DOMAIN view :
             /\ DOMAIN view[d].cls = dict[d]
             /\ \A c \in dict[d], src \in view[d].sources :
                   src \in view[d].cls[c] <=> Grants(src, d, c)
       /\ ExcelRows(<<user>>) = {[user |-> 1, domain |-> d, cls |-> dict[d]] : d \in DOMAIN dict}
       /\ MergeAttributes(user).mask = \A i \in DOMAIN Attributed(user) : Attributed(user)[i].mask
       /\ MergeAttributes(user).deceased
             = \E i \in DOMAIN Attributed(user) : Attributed(user)[i].deceased

\* Groups take no row of a permission table away from a user, if they restrict no
\* row filter that the user's own entry leaves open, and switch no boolean among
\* the alternatives on unless no alternative remains.  Without that they may: a
\* filter without values does not restrict, one with values does, and a boolean
\* that is switched on is an alternative less.
GroupsAddRows(user, row) ==
    LET own == MergeTables([user EXCEPT !.groups = <<>>])
        all == MergeTables(user)
    IN \A t \in DOMAIN own :
          LET before == Restricted(own[t])
              after  == Restricted(all[t])
          IN /\ after \subseteq before
             /\ after \ AndKods = before \ AndKods \/ after \subseteq AndKods
             /\ Satisfies(row, own[t])
             => Satisfies(row, all[t])

Nobody == [domains |-> <<>>, groups |-> <<>>, all |-> FALSE]

\* The list of tables and the list of columns of an edit's preview agree: a table
\* is marked as having new (deleted) columns exactly when one of its columns is
\* marked new (deleted), and the count is that of the columns after the edit, which
\* the current permissions show then.  A new user's preview is that of an edit of
\* somebody without permissions.
PreviewsAgree(old, user) ==
    LET tables == EditedTables(old, user)
    IN \A t \in DOMAIN tables :
          LET cols == EditedColumns(old, user, t)
              Marked(m) == \E c \in DOMAIN cols : cols[c] = m
          IN /\ tables[t].new = Marked("new")
             /\ tables[t].deleted = Marked("deleted")
             /\ tables[t].count
                   = Cardinality(Counted(t, {c \in DOMAIN cols : cols[c] # "deleted"}))
             /\ t \in DOMAIN CurrentTables(user) => CurrentTables(user)[t].count = tables[t].count
             /\ NewTables(user) = EditedTables(Nobody, user)
=============================================================================
