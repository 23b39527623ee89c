----------------------------- MODULE UserListing -----------------------------
(***************************************************************************)
(* The aggregation pipelines that list users (shield-api,                  *)
(* user/users.aggregations.ts and user.service.ts): what GET_USERS_WITH_   *)
(* FULL_DATA and the pipeline of the users dictionary make of a document,  *)
(* and the filters and pages of getUnblockedUsers.                         *)
(*                                                                         *)
(* $unwind and $group take lists apart and put them together again; flags  *)
(* set before tell an empty list from one that was unwound.  Missing       *)
(* stands for a field that is not there.  A document has domains, tables   *)
(* and groups, sequences of [id, cls, by], [id, filters] and ids; the      *)
(* collections are functions from ids.  $group gives no order to what it   *)
(* returns, so the groups of a user come out as a set.                     *)
(***************************************************************************)
EXTENDS Naturals, SequencesExt

CONSTANTS
    Missing,
    KnownDomains,    \* the ids in the domains collection
    KnownClasses,    \* the ids in the classifications collection
    KnownTables,     \* [ids in permission_tables -> set of row filters]
    GroupsStore,     \* [ids in permission_groups -> [domains, tables, attrs]]
    Roles,           \* [user ids in application_users -> set of sets of roles, by domain]
    PageSize         \* USERS_PER_PAGE

\* $unwind with preserveNullAndEmptyArrays.
Unwind(s) == IF s = <<>> THEN <<Missing>> ELSE s

\* Mutant: what was pushed, whether or not the list was empty before.
RegroupPushed(empty, pushed) == pushed

\* The flag hasNo... puts an empty list back in the place of what was pushed.
Regroup(empty, pushed) == IF empty THEN <<>> ELSE pushed

\* permissionModifierDataAggregation: who changed an entry, with all of its roles.
Modifier(by) ==
    IF by = Missing THEN Missing
    ELSE [user |-> by, roles |-> IF by \in DOMAIN Roles THEN UNION Roles[by] ELSE {}]

\* GET_DATA_PERMISSIONS_FULL_DOMAINS of one unwound entry.
FullDomain(e) ==
    IF e = Missing THEN [id |-> Missing, named |-> FALSE, cls |-> {}, by |-> Missing]
    ELSE [id |-> e.id, named |-> e.id \in KnownDomains, cls |-> e.cls \cap KnownClasses,
          by |-> Modifier(e.by)]

\* GET_DATA_PERMISSIONS_FULL_PERMISSION_TABLES of one unwound entry: all row
\* filters of the permission table, with the values of the entry or none.
FullTable(e) ==
    IF e = Missing \/ e.id \notin DOMAIN KnownTables
    THEN [id |-> IF e = Missing THEN Missing ELSE e.id, filters |-> Missing]
    ELSE [id |-> e.id, filters |-> [k \in KnownTables[e.id] |->
              IF k \in DOMAIN e.filters THEN e.filters[k] ELSE {}]]

\* An unwound and regrouped list.
RebuiltDomains(s) == Regroup(s = <<>>, [i \in DOMAIN Unwind(s) |-> FullDomain(Unwind(s)[i])])
RebuiltTables(s)  == Regroup(s = <<>>, [i \in DOMAIN Unwind(s) |-> FullTable(Unwind(s)[i])])

\* The rows of a document after its groups are looked up: a group that is not in
\* the collection leaves a row without _id.
GroupRows(doc) ==
    LET ids == Unwind(doc.groups)
    IN [i \in DOMAIN ids |->
           IF ids[i] \in DOMAIN GroupsStore
           THEN [key |-> ids[i], domains |-> GroupsStore[ids[i]].domains,
                 tables |-> GroupsStore[ids[i]].tables]
           ELSE [key |-> Missing, domains |-> Missing, tables |-> Missing]]

Keys(rows) == {rows[i].key : i \in DOMAIN rows}

OfKey(rows, key) == SelectSeq(rows, LAMBDA r : r.key = key)

\* $first of a group.
First(rows, key) == OfKey(rows, key)[1]

\* $eq with the empty list, which a missing field is not.
IsEmpty(field) == field = <<>>

\* $push of the unwound domains of all rows of one group: twice listed groups and
\* all missing ones fall together.
PushedDomains(rows, key) ==
    FlattenSeq([i \in DOMAIN OfKey(rows, key) |->
        LET ds == OfKey(rows, key)[i].domains
            es == IF ds = Missing THEN <<Missing>> ELSE Unwind(ds)
        IN [j \in DOMAIN es |-> FullDomain(es[j])]])

\* Mutant: the tables of all rows of a group.
PushedTablesAll(rows, key) ==
    FlattenSeq([i \in DOMAIN OfKey(rows, key) |->
        LET ts == OfKey(rows, key)[i].tables
            es == IF ts = Missing THEN <<Missing>> ELSE Unwind(ts)
        IN [j \in DOMAIN es |-> FullTable(es[j])]])

\* The tables are unwound after that, from the first row.
PushedTables(rows, key) ==
    LET ts == First(rows, key).tables
        es == IF ts = Missing THEN <<Missing>> ELSE Unwind(ts)
    IN [j \in DOMAIN es |-> FullTable(es[j])]

FullGroup(rows, key) ==
    [id |-> key,
     domains |-> Regroup(IsEmpty(First(rows, key).domains), PushedDomains(rows, key)),
     tables  |-> Regroup(IsEmpty(First(rows, key).tables), PushedTables(rows, key))]

\* hasNoPermissionGroups.
FullGroups(doc) ==
    IF doc.groups = <<>> THEN {} ELSE {FullGroup(GroupRows(doc), k) : k \in Keys(GroupRows(doc))}

\* GET_USERS_WITH_FULL_DATA.
FullData(doc) ==
    [domains |-> RebuiltDomains(doc.domains),
     tables  |-> RebuiltTables(doc.tables),
     groups  |-> FullGroups(doc)]

\* The pipeline of getUsersDictionary: one $lookup for all groups, after which a
\* group is there once or not at all, and its domains are not looked up.
DictData(doc) ==
    LET found == {g \in Range(doc.groups) : g \in DOMAIN GroupsStore}
    IN [domains |-> doc.domains,
        tables  |-> RebuiltTables(doc.tables),
        groups  |-> {[id |-> g, domains |-> GroupsStore[g].domains,
                      tables |-> RebuiltTables(GroupsStore[g].tables)] : g \in found}]
-----------------------------------------------------------------------------
\* The filters of getUnblockedUsers.  A filter is a record; "any" or an empty set
\* means that it was not asked for.

\* The user's own listings and those of its groups, not merged.
Listings(doc) ==
    Range(doc.domains)
    \cup UNION {Range(GroupsStore[g].domains) : g \in Range(doc.groups) \cap DOMAIN GroupsStore}

\* Every domain asked for is in a listing that has all of the classifications
\* asked for with it.
MatchDomains(doc, wanted) ==
    \A w \in wanted : \E e \in Listings(doc) : e.id = w.id /\ w.cls \subseteq e.cls

MatchGroups(doc, ids) == ids # {} => Range(doc.groups) \cap ids # {}

MatchTypes(doc, types) == types # {} => doc.type \in types

MatchSource(doc, source) ==
    CASE source = "sap" -> doc.sap
      [] source = "shield" -> ~doc.sap
      [] OTHER -> TRUE

\* The properties of a user's groups count, but not for unique populations.
AttributesOf(doc) ==
    {doc.attrs} \cup {GroupsStore[g].attrs : g \in Range(doc.groups) \cap DOMAIN GroupsStore}

MatchSpecial(doc, props) ==
    props # {} =>
        \/ "mask" \in props /\ \E a \in AttributesOf(doc) : ~a.mask
        \/ "deceased" \in props /\ \E a \in AttributesOf(doc) : a.deceased
        \/ "unique" \in props /\ doc.pop # {}

Matches(doc, filter) ==
    /\ ~doc.blocked
    /\ MatchDomains(doc, filter.domains)
    /\ MatchGroups(doc, filter.groups)
    /\ MatchTypes(doc, filter.types)
    /\ MatchSource(doc, filter.source)
    /\ MatchSpecial(doc, filter.special)

\* The latest of the times of a user's domains, tables and registrations.
LastChanged(doc) == IF doc.times = {} THEN 0 ELSE Max(doc.times)

\* $sort by it, latest first.  Users of equal times come in any order, another one
\* for every page: here the times are taken to differ.
Sorted(docs) == SortSeq(docs, LAMBDA a, b : LastChanged(a) > LastChanged(b))

Skipped(docs, n) == SubSeq(docs, n + 1, Len(docs))

Limited(docs, n) == SubSeq(docs, 1, IF n < Len(docs) THEN n ELSE Len(docs))

Found(docs, filter) == Sorted(SelectSeq(docs, LAMBDA d : Matches(d, filter)))

\* Mutant: a page starts where its number says, not the one before.
PageSkipped(docs, filter, page) ==
    SelectSeq(Limited(Skipped(Found(docs, filter), PageSize * page), PageSize), LAMBDA d : d.live)

\* getUnblockedUsers: a page is cut before the deleted users are left out.  With
\* page 0, or without, all users are listed.
Page(docs, filter, page) ==
    LET all == Found(docs, filter)
        cut == IF page = 0 THEN all ELSE Limited(Skipped(all, PageSize * (page - 1)), PageSize)
    IN SelectSeq(cut, LAMBDA d : d.live)

\* The count that the client computes the number of pages from: deleted users are
\* counted.
TotalCount(docs, filter) == Len(Found(docs, filter))

\* Who may not manage unique populations may not search for them and is shown none.
Refused(filter, mayPop) == "unique" \in filter.special /\ ~mayPop

Shown(doc, mayPop) == [doc EXCEPT !.pop = IF mayPop THEN doc.pop ELSE {}]
-----------------------------------------------------------------------------
(***************************************************************************)
(* Properties, for every document; the MC module gives them.               *)
(***************************************************************************)

Dangles(doc) == \E g \in Range(doc.groups) : g \notin DOMAIN GroupsStore

Doubled(doc) == Cardinality(Range(doc.groups)) # Len(doc.groups)

\* The document joined with the collections, without a pipeline.
Joined(doc) ==
    [domains |-> [i \in DOMAIN doc.domains |-> FullDomain(doc.domains[i])],
     tables  |-> [i \in DOMAIN doc.tables |-> FullTable(doc.tables[i])],
     groups  |-> {[id |-> g,
                   domains |-> [i \in DOMAIN GroupsStore[g].domains |->
                                   FullDomain(GroupsStore[g].domains[i])],
                   tables  |-> [i \in DOMAIN GroupsStore[g].tables |->
                                   FullTable(GroupsStore[g].tables[i])]] :
                     g \in Range(doc.groups)}]

\* Taking a document apart and putting it together again loses nothing and adds
\* nothing, as long as its groups exist and none is listed twice, which is what
\* NoDanglingGroup and NoDoubleEntry say of PermissionGroups.  With either, the
\* listing has a group without id, or one with every domain twice, and the
\* schema its result is parsed with refuses it.
ListingJoins(doc) ==
    /\ ~Dangles(doc) /\ ~Doubled(doc) => FullData(doc) = Joined(doc)
    /\ Dangles(doc) => \E g \in FullData(doc).groups : g.id = Missing

\* The dictionary, which enforcement uses, reads the tables and groups that the
\* listing shows, even of a document whose groups dangle or are doubled.
DictionaryReads(doc) ==
    LET dict == DictData(doc) IN
    /\ dict.tables = FullData(doc).tables
    /\ {g.id : g \in dict.groups} = {g.id : g \in FullData(doc).groups} \ {Missing}
    /\ \A g \in dict.groups, h \in FullData(doc).groups :
          g.id = h.id => g.tables = h.tables

\* What the user holds, from all of its sources.
HeldClasses(doc, d) == UNION {e.cls : e \in {x \in Listings(doc) : x.id = d}}

\* A search by domains finds only users that hold what is asked for, and all of
\* them if no domain is asked for with two classifications, which the filter wants
\* from one source.
FindsHolders(doc, wanted) ==
    LET holds == \A w \in wanted : /\ \E e \in Listings(doc) : e.id = w.id
                                   /\ w.cls \subseteq HeldClasses(doc, w.id)
    IN /\ MatchDomains(doc, wanted) => holds
       /\ holds /\ (\A w \in wanted : Cardinality(w.cls) <= 1) => MatchDomains(doc, wanted)

\* The pages of a search hold together every live user that matches, once, in the
\* order of their last change, and those it finds hold what was asked for, however many deleted users it meets; no page is
\* longer than PageSize, and no page follows the last that the count gives.  Who may
\* not see unique populations finds what there would be if nobody had any.
PagesCover(docs, filter) ==
    LET pages == (TotalCount(docs, filter) + PageSize - 1) \div PageSize
    IN /\ \A i \in DOMAIN docs : FindsHolders(docs[i], filter.domains)
       /\ FlattenSeq([p \in 1 .. pages |-> Page(docs, filter, p)]) = Page(docs, filter, 0)
       /\ \A p \in 1 .. pages : Len(Page(docs, filter, p)) <= PageSize
       /\ Page(docs, filter, pages + 1) = <<>>
       /\ ~Refused(filter, FALSE) =>
             LET bare == [i \in DOMAIN docs |-> [docs[i] EXCEPT !.pop = {}]]
                 seen == Page(docs, filter, 0)
             IN [i \in DOMAIN seen |-> Shown(seen[i], FALSE)] = Page(bare, filter, 0)
=============================================================================
