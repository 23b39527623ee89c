------------------------------ MODULE UserDiffs ------------------------------
(***************************************************************************)
(* The checks and display names of the row filters of a create or an edit  *)
(* (shield-api, user.service.ts and permission_tables.service.ts), and     *)
(* what the differences of PermissionDiffs are to be.                      *)
(***************************************************************************)
EXTENDS PermissionDiffs

\* The row filters of a create or an edit.  Table is a permission table: a sequence
\* of [kod, bool, dim]; dims gives every dimensions table its values.

\* populatePermissionTables and assertUserPermissionTablesValid.
Definition(table, kod) == {i \in DOMAIN table : table[i].kod = kod}

ValidFilters(table, filters) ==
    \A i \in DOMAIN filters :
        LET d == Definition(table, filters[i].kod)
        IN d # {} /\ (table[Min(d)].bool => Cardinality(filters[i].values) = 1)

HeldValues(held, kod) == UNION {held[i].values : i \in {j \in DOMAIN held : held[j].kod = kod}}

\* mergePermissionTables: a value is new if the user did not hold it before.
NewValues(held, filter) == filter.values \ HeldValues(held, filter.kod)

\* getRowFilterValuesByDimensionsTable asks for the tables of which some value is
\* new; a create asks for all of them.
Asked(filters, held, create) ==
    create \/ \E i \in DOMAIN filters : NewValues(held, filters[i]) # {}

Known(table, filters, held, create, dims, kod) ==
    IF Asked(filters, held, create) THEN dims[table[Min(Definition(table, kod))].dim] ELSE {}

\* Mutant: a value is looked for by whether the user held it, whatever the options.
AcceptedHeld(table, filters, held, create, dims) == ValidFilters(table, filters)

\* mergeRowFilterValuesWithTrinoValues refuses a new value that the dimensions
\* table does not have.
Accepted(table, filters, held, create, dims) ==
    /\ ValidFilters(table, filters)
    /\ \A i \in DOMAIN filters :
          (IF create THEN filters[i].values ELSE NewValues(held, filters[i]))
             \subseteq Known(table, filters, held, create, dims, filters[i].kod)

\* isUserPermissionTableChanged, for a table with all of its row filters.
TableChanged(old, new) ==
    \E i \in DOMAIN old :
        \E j \in DOMAIN new : old[i].kod = new[j].kod /\ old[i].values # new[j].values
-----------------------------------------------------------------------------
(***************************************************************************)
(* Properties, for every pair of lists; the MC module gives them.          *)
(***************************************************************************)

Entry(list, id) == {i \in DOMAIN list : list[i].id = id}

Has(list, id) == Entry(list, id) # {}

ClsOf(list, id) == UNION {list[i].cls : i \in Entry(list, id)}

ValuesOf(list, id, kod) == UNION {HeldValues(list[i].filters, kod) : i \in Entry(list, id)}

Ids(list) == {list[i].id : i \in DOMAIN list}

AllKods(list) == UNION {{list[i].filters[j].kod : j \in DOMAIN list[i].filters} : i \in DOMAIN list}

\* What the entries of one kind of the log say came and went.
Came(log, kind, id) == {e \in log : e.kind = kind /\ e.id = id /\ e.type = "new"}
Went(log, kind, id) == {e \in log : e.kind = kind /\ e.id = id /\ e.type = "deleted"}

\* A flag after the entries of its kind.
Replayed(flag, log, kind) ==
    IF \E e \in log : e.kind = kind THEN \E e \in log : e.kind = kind /\ e.type = "ON" ELSE flag

\* Replaying the audit log of a change over the old permissions gives the new ones:
\* domains, classifications, permission tables, values, indications and groups.  A
\* row filter that the new table leaves out is the exception: its values go
\* unlogged.  And what locks a table against API users, a change of one of its row
\* filters, is what the log calls an update.
AuditReplays(old, new) ==
    LET log == {e \in UserAudit(old, new) : e.kind \notin {"mask", "deceased", "type", "pop"}} IN
    /\ \A id \in Ids(old.domains) \cup Ids(new.domains) :
          /\ Has(new.domains, id) <=>
                (Has(old.domains, id) \/ Came(log, "domain", id) # {}) /\ Went(log, "domain", id) = {}
          /\ ClsOf(new.domains, id) =
                (ClsOf(old.domains, id) \cup {e.cls : e \in Came(log, "classification", id)})
                    \ {e.cls : e \in Went(log, "classification", id)}
    /\ \A id \in Ids(old.tables) \cup Ids(new.tables) :
          /\ Has(new.tables, id) <=>
                (Has(old.tables, id) \/ Came(log, "table", id) # {}) /\ Went(log, "table", id) = {}
          /\ \A kod \in AllKods(old.tables) \cup AllKods(new.tables) :
                \/ Has(new.tables, id) /\ Has(old.tables, id)
                   /\ \A i \in Entry(new.tables, id) : kod \notin AllKods(<<new.tables[i]>>)
                \/ ValuesOf(new.tables, id, kod) =
                      (ValuesOf(old.tables, id, kod)
                          \cup {e.value : e \in {x \in Came(log, "value", id) : x.kod = kod}})
                        \ {e.value : e \in {x \in Went(log, "value", id) : x.kod = kod}}
    /\ \A i \in DOMAIN old.tables, j \in DOMAIN new.tables :
          old.tables[i].id = new.tables[j].id
             /\ AllKods(<<old.tables[i]>>) = AllKods(<<new.tables[j]>>) =>
          TableChanged(old.tables[i].filters, new.tables[j].filters)
             = (UpdatedTable(old.tables[i], new.tables[j]) # Nothing)
    /\ Replayed(old.attrs.mask, UserAudit(old, new), "mask") = new.attrs.mask
    /\ Replayed(old.attrs.deceased, UserAudit(old, new), "deceased") = new.attrs.deceased
    /\ new.groups = (old.groups \cup {e.id : e \in {x \in log : x.kind = "group" /\ x.type = "new"}})
                        \ {e.id : e \in {x \in log : x.kind = "group" /\ x.type = "deleted"}}

\* A value gets into a user's row filters only from its dimensions table, and stays
\* though it is gone from there; a table whose values did not change is accepted
\* whatever the dimensions tables hold by then.
ValuesKnown(table, filters, held, dims) ==
    /\ Accepted(table, filters, held, FALSE, dims) =>
          \A i \in DOMAIN filters :
              filters[i].values \subseteq
                  HeldValues(held, filters[i].kod) \cup dims[table[Min(Definition(table, filters[i].kod))].dim]
    /\ ValidFilters(table, filters)
       /\ (\A i \in DOMAIN filters : filters[i].values \subseteq HeldValues(held, filters[i].kod))
          => Accepted(table, filters, held, FALSE, dims)
=============================================================================
