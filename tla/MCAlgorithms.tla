---------------------------- MODULE MCAlgorithms ----------------------------
(***************************************************************************)
(* The pure modules over bounded inputs, and the one algorithm of shield   *)
(* that others overtake: the export of a listing, page by page.            *)
(*                                                                         *)
(* A state is one input, of the kind that its first field names; nothing   *)
(* happens to it, and what each module states of every input is an         *)
(* invariant.  Only with the input "pages" an export (module Export) runs. *)
(***************************************************************************)
EXTENDS UserViews, UserListing, BayTables, GrantViews, AppUserViews, RowFilterTree, Export

CONSTANTS d1, d2, dx, di, c1, c2, cx, ci, t1, t2, k1, k2, k3, g1, g2, gx, a1, a2, x1, x2, p1

None == {<<>>}
Lists(S) == None \cup {<<e>> : e \in S}
Pairs(S, T) == {<<e, f>> : e \in S, f \in T}

DomainEntries(ids, cls) == [id : ids, cls : SUBSET cls]

DomainLists == Lists(DomainEntries({d1, d2}, {c1, c2}))
               \cup Pairs(DomainEntries({d1}, {c1, c2}), DomainEntries({d2}, {c1, c2}))

Plain == [mask |-> TRUE, deceased |-> FALSE]

User(domains, tables, groups, all) ==
    [domains |-> domains, tables |-> tables, groups |-> groups, attrs |-> Plain, all |-> all]

Group(id, domains, tables) == [id |-> id, domains |-> domains, tables |-> tables, attrs |-> Plain]

Views ==
    {[kind |-> "view",
      user |-> User(ds, <<>>, <<[Group(g1, e, <<>>) EXCEPT !.attrs.mask = e # <<>>],
                                [Group(g2, f, <<>>) EXCEPT !.attrs.deceased = f = <<>>]>>, FALSE)] :
        ds \in DomainLists, e \in DomainLists, f \in Lists(DomainEntries({d1}, {c1, c2}))}

Filters == {f \in [{k1, k2, k3} -> SUBSET {0, 1}] : f[k3] # {0, 1}}

RowInputs ==
    {[kind |-> "rows", user |-> User(<<>>, <<[id |-> t1, filters |-> f]>>,
                                     <<Group(g1, <<>>, <<[id |-> t1, filters |-> h]>>)>>, FALSE)] :
        f \in Filters, h \in Filters}

Previews ==
    {[kind |-> "preview", old |-> User(ds, <<>>, <<>>, all), user |-> User(es, <<>>, <<>>, every)] :
        ds \in DomainLists, es \in DomainLists, all \in BOOLEAN, every \in BOOLEAN}

MCTableDomain == [t \in Tables |-> IF t = t1 THEN d1 ELSE d2]
MCColClass == [t \in Tables |-> [c \in Cols |-> IF c = x1 THEN c1 ELSE c2]]

\* Documents of the listing.
Entries == {[id |-> d, cls |-> s, by |-> b] : d \in {d1, dx}, s \in {{}, {c1, cx}}, b \in {Missing, a1, a2}}
OneFilter(v) == k1 :> v
TableEntries == {[id |-> t1, filters |-> OneFilter({0})], [id |-> t1, filters |-> k2 :> {1}], [id |-> t2, filters |-> OneFilter({})]}

MCKnownTables == t1 :> {k1, k2} @@ t2 :> {k1}
MCRoles == a1 :> {{"reader"}, {"owner", "reader"}}
MCGroupsStore ==
    g1 :> [domains |-> <<[id |-> d1, cls |-> {c1}, by |-> a1], [id |-> d2, cls |-> {c2}, by |-> Missing]>>,
           tables |-> <<[id |-> t1, filters |-> OneFilter({1})], [id |-> t2, filters |-> OneFilter({0, 1})]>>,
           attrs |-> [mask |-> FALSE, deceased |-> FALSE]]
    @@ g2 :> [domains |-> <<>>, tables |-> <<>>, attrs |-> [mask |-> TRUE, deceased |-> TRUE]]

GroupLists == UNION {[1 .. n -> {g1, g2, gx}] : n \in 0 .. 3}

Listed ==
    {[kind |-> "listing", doc |-> [domains |-> ds, tables |-> ts, groups |-> gs]] :
        ds \in Lists(Entries) \cup Pairs({e \in Entries : e.id = d1}, {e \in Entries : e.id = dx}),
        ts \in Lists(TableEntries) \cup {<<[id |-> t1, filters |-> OneFilter({0})], [id |-> t2, filters |-> OneFilter({1})]>>},
        gs \in GroupLists}

\* Documents of a search: the place in the collection is not the order of times.
Doc(i, kind) ==
    [times   |-> IF i = 1 THEN {} ELSE {10 - i, 1},
     live    |-> kind # "deleted",
     blocked |-> kind = "blocked",
     domains |-> IF kind = "direct" THEN <<[id |-> d1, cls |-> {c1, c2}, by |-> a1]>>
                 ELSE IF kind = "both" THEN <<[id |-> d1, cls |-> {c2}, by |-> a1]>> ELSE <<>>,
     groups  |-> IF kind \in {"both", "group", "deleted"} THEN <<g1>> ELSE <<>>,
     attrs   |-> [mask |-> TRUE, deceased |-> kind = "bare"],
     type    |-> IF kind = "bare" THEN "system" ELSE "person",
     sap     |-> kind = "direct",
     pop     |-> IF kind = "both" THEN {p1} ELSE {}]

NoFilter == [domains |-> {}, groups |-> {}, types |-> {}, source |-> "all", special |-> {}]

SearchFilters ==
    {NoFilter,
     [NoFilter EXCEPT !.domains = {[id |-> d1, cls |-> {}]}],
     [NoFilter EXCEPT !.domains = {[id |-> d1, cls |-> {c1}], [id |-> d2, cls |-> {c2}]}],
     [NoFilter EXCEPT !.domains = {[id |-> d1, cls |-> {c1, c2}]}, !.groups = {g1, g2}],
     [NoFilter EXCEPT !.types = {"person"}, !.source = "sap"],
     [NoFilter EXCEPT !.source = "shield", !.special = {"mask", "unique"}],
     [NoFilter EXCEPT !.special = {"deceased", "unique"}]}

Searches ==
    {[kind |-> "search", docs |-> [i \in 1 .. 4 |-> Doc(i, ks[i])], filter |-> f] :
        ks \in [1 .. 4 -> {"direct", "both", "group", "bare", "deleted", "blocked"}], f \in SearchFilters}

\* Pairs of permissions for the audit log.
FilterLists == {<<>>, <<[kod |-> k1, values |-> {}]>>, <<[kod |-> k1, values |-> {0}]>>,
                <<[kod |-> k1, values |-> {1, 2}], [kod |-> k2, values |-> {0}]>>,
                <<[kod |-> k2, values |-> {1}], [kod |-> k1, values |-> {0, 2}]>>}
TableLists == Lists([id : {t1}, filters : FilterLists])
              \cup Pairs([id : {t2}, filters : {<<[kod |-> k1, values |-> {1}]>>}], [id : {t1}, filters : FilterLists])

Attrs(mask, pop) == [mask |-> mask, deceased |-> FALSE, type |-> "person", pop |-> pop]

Held(domains, tables, mask, groups) ==
    [domains |-> domains, tables |-> tables, attrs |-> Attrs(mask, {}), groups |-> groups]

Changes ==
    {[kind |-> "change", old |-> Held(ds, <<>>, TRUE, {g1}), new |-> Held(es, <<>>, mask, gs)] :
        ds \in DomainLists, es \in DomainLists \cup Pairs({[id |-> d2, cls |-> {c1}]}, DomainEntries({d1}, {c1})),
        mask \in BOOLEAN, gs \in {{}, {g1, g2}}}
    \cup {[kind |-> "change", old |-> Held(<<>>, ts, TRUE, {}), new |-> Held(<<>>, us, TRUE, {})] :
        ts \in TableLists, us \in TableLists}

\* A permission table with a boolean filter and one of a dimensions table.
MCTable == <<[kod |-> k1, bool |-> FALSE, dim |-> t1], [kod |-> k2, bool |-> TRUE, dim |-> t2]>>

Kept(S) == {<<[kod |-> k1, values |-> v], [kod |-> k2, values |-> b]>> : v \in SUBSET S, b \in SUBSET {0, 1}}

Edits ==
    {[kind |-> "edit", filters |-> f, held |-> h, dims |-> t1 :> dim @@ t2 :> {0, 1}] :
        f \in Kept({0, 1, 2}), h \in Kept({0, 1}) \cup {<<>>}, dim \in SUBSET {0, 1, 2}}

\* Tables of the data lake.
Column(cls, masks) == [cls : cls, mask : masks]
Dicts(masks) ==
    {<<>>} \cup [{x1} -> Column({Unset, c1, c2}, masks)]
    \cup [{x1, x2} -> Column({Unset, c1}, {"none", "hash"})] \cup [{x2} -> Column({c2}, {"null"})]
MCStages == {"technical", "business"}
StageLists == UNION {[1 .. n -> MCStages] : n \in 0 .. 3}

TableEdits ==
    {[kind |-> "table edit", cols |-> c, edit |-> e, old |-> <<>>, list |-> <<>>, checked |-> {}] :
        c \in Dicts({"none", "hash"}), e \in Dicts({Unset, "none", "null"})}
    \cup {[kind |-> "table edit", cols |-> <<>>, edit |-> <<>>, old |-> o, list |-> l, checked |-> S] :
        o \in {<<>>} \cup [MCStages -> BOOLEAN], l \in StageLists, S \in SUBSET MCStages}

Upserted(cols, d, p, keys) == [cols |-> cols, domain |-> d, ptable |-> p, keys |-> keys]

KeyLists == Lists([kod : {k1, k2}, column : {x1, x2}])

Upserts ==
    {[kind |-> "upsert", old |-> o, new |-> Upserted(c, d1, Unset, <<>>)] :
        o \in {BlankTable, Upserted(x1 :> [cls |-> c1, mask |-> "hash"], d2, t1, <<>>)}, c \in Dicts({"none", "null"})}
    \cup {[kind |-> "upsert", old |-> Upserted(<<>>, d1, p, k), new |-> Upserted(<<>>, d1, q, l)] :
        p \in {Unset, t1, t2}, q \in {Unset, t1, t2}, k \in KeyLists, l \in KeyLists}

\* Two exports and a change between them, which the audit log has.  The users of
\* shield and its own have ids that differ.
Store(user, app, table, log) ==
    [users |-> {[id |-> 1] @@ user}, appUsers |-> {[id |-> 2] @@ app}, tables |-> {[id |-> 3] @@ table},
     domains |-> {[id |-> d1, name |-> "d", cls |-> {c1}]}, classes |-> {}, roles |-> {}, ptables |-> {},
     tasks |-> {}, legacy |-> {}, sap |-> {}, log |-> log]

Logged(resource, on, diff) == [id |-> 10, resource |-> resource, on |-> on, by |-> 2, diff |-> diff]

AnyUser  == Held(<<[id |-> d1, cls |-> {c1}]>>, <<>>, TRUE, {})
AnyApp   == [domains |-> <<>>, flags |-> [f \in AppFlags |-> FALSE]]
AnyTable == Upserted(x1 :> [cls |-> c1, mask |-> "none"], d1, Unset, <<>>)

Whole(old, new) == \A i \in DOMAIN old, j \in DOMAIN new :
    old[i].id = new[j].id => AllKods(<<old[i]>>) \subseteq AllKods(<<new[j]>>)

UserChanges ==
    {<<Held(ds, <<>>, TRUE, {g1}), [Held(es, <<>>, mask, {}) EXCEPT !.attrs.pop = {p1}]>> :
        ds \in DomainLists, es \in DomainLists, mask \in BOOLEAN}
    \cup {<<Held(<<>>, ts, TRUE, {}), Held(<<>>, us, TRUE, {})>> : ts \in TableLists, us \in TableLists}

AppDomains == Lists([id : {d1}, cls : SUBSET {c1, c2}, roles : SUBSET {a1, a2}])
              \cup {<<[id |-> d2, cls |-> {c2}, roles |-> {a1}], [id |-> d1, cls |-> {}, roles |-> {a2}]>>}

AppChanges ==
    {<<[domains |-> ds, flags |-> [f \in AppFlags |-> f = "is_admin"]],
       [domains |-> es, flags |-> [f \in AppFlags |-> f \in on]]>> :
        ds \in AppDomains, es \in AppDomains, on \in {{}, {"can_create_connections"}}}

Change(was, user, app, table, entry) ==
    [kind |-> "export", was |-> was, is |-> Store(user, app, table, was.log \cup {entry})]

Before(user, app, table) == Store(user, app, table, {[Logged("user", 1, UserAudit(AnyUser, user)) EXCEPT !.id = 9]})

Exports ==
    {Change(Before(c[1], AnyApp, AnyTable), c[2], AnyApp, AnyTable, Logged("user", 1, UserAudit(c[1], c[2]))) :
        c \in {c \in UserChanges : Whole(c[1].tables, c[2].tables)}}
    \cup {Change(Before(AnyUser, AnyApp, AnyTable), AnyUser, AnyApp, AnyTable, Logged("group", 4, UserAudit(c[1], c[2]))) :
        c \in {c \in UserChanges : c[1].domains = <<>>}}
    \cup {Change(Before(AnyUser, c[1], AnyTable), AnyUser, c[2], AnyTable, Logged("app", 2, AppUserAudit(c[1], c[2]))) :
        c \in AppChanges}
    \cup {LET new == [AnyTable EXCEPT !.cols = c] IN
           Change(Before(AnyUser, AnyApp, AnyTable), AnyUser, AnyApp, new, Logged("table", 3, TableDiff(AnyTable, new))) :
        c \in Dicts({"none", "hash"})}

\* Tables and domains as viewers see them.
TableColumns == {x1 :> [cls |-> c, mask |-> "none"] @@ x2 :> [cls |-> e, mask |-> "hash"] :
                    c \in {Unset, c1}, e \in {Unset, c2, ci}}
NameA == <<"s", "a">>
NameB == <<"s", "b">>

TableWorlds ==
    {[tables |-> <<[id |-> t1, name |-> NameA, domain |-> d1, cols |-> c, keys |-> <<>>],
                   [id |-> t2, name |-> n, domain |-> d, cols |-> x1 :> [cls |-> c1, mask |-> "null"], keys |-> <<k1>>]>>,
      domains |-> {[id |-> d1, cls |-> {c1, c2}, used |-> TRUE]} \cup ds \cup {[id |-> di, cls |-> {ci}, used |-> FALSE]},
      classes |-> {c1, ci} \cup cs, links |-> ls, rooted |-> {d1},
      tasks |-> {[id |-> 1, table |-> t1, done |-> FALSE], [id |-> 2, table |-> t2, done |-> d = d1]},
      users |-> <<>>, sap |-> {NameB}] :
        c \in TableColumns, n \in {NameA, NameB}, d \in {d1, d2},
        ds \in {{}, {[id |-> d2, cls |-> {c1}, used |-> TRUE]}}, cs \in {{}, {c2}},
        ls \in SUBSET {<<d1, c1>>, <<d1, c2>>, <<d2, c1>>}}

Viewers == [admin : BOOLEAN, classifies : {{}, {d1}}, manages : {{}, {d1, d2}},
            assigns : {{}, {<<d1, c1>>, <<d2, c1>>}, {<<d1, c1>>, <<d1, c2>>}}]

MCLineage == [ups |-> {NameB}, fine |-> <<[ups |-> <<[name |-> NameB, column |-> x1]>>, down |-> x1],
                                          [ups |-> <<[name |-> NameB, column |-> x1]>>, down |-> x2],
                                          [ups |-> <<[name |-> NameB, column |-> x1], [name |-> NameA, column |-> x2]>>, down |-> x2]>>]

ViewInputs == {[kind |-> "tables", world |-> w, viewer |-> v] : w \in TableWorlds, v \in Viewers}

Exposures ==
    {[kind |-> "exposure", world |-> [users |-> <<[domains |-> ds, all |-> FALSE], [domains |-> es, all |-> a]>>]] :
        ds \in DomainLists, es \in DomainLists, a \in BOOLEAN}

\* A manager who copies a user and puts others in groups; d2 may be gone, and c2.
Givers == {[admin |-> a, classifies |-> r \cup k, manages |-> m, assigns |-> as, ravs |-> r, groups |-> gs] :
              a \in BOOLEAN, r \in {{}, {d1}}, k \in {{}, {d1}}, m \in {{}, {d1, d2}},
              as \in {{}, {<<d1, c1>>, <<d2, c1>>}, {<<d1, c1>>, <<d1, c2>>}}, gs \in {{g1}, {g1, g2}}}

GrantInputs ==
    {[kind |-> "grants", viewer |-> v,
      world |-> [domains |-> {[id |-> d1, cls |-> {c1, c2}, used |-> TRUE]} \cup ds, classes |-> cs,
                 links |-> ls, rooted |-> rt]] :
        v \in Givers, ds \in {{}, {[id |-> d2, cls |-> {c1}, used |-> TRUE]}}, cs \in {{c1}, {c1, c2}},
        ls \in SUBSET {<<d1, c1>>, <<d1, c2>>, <<d2, c1>>}, rt \in {{d1}, {d1, d2}}}

GroupPairs ==
    {{[Group(g1, ds, <<>>) EXCEPT !.attrs.mask = k], [Group(g2, es, <<>>) EXCEPT !.attrs.deceased = ~k]} :
        ds \in None \cup {<<e>> : e \in DomainEntries({d1}, {c1, c2})},
        es \in {<<e>> : e \in DomainEntries({d1, d2}, {c1})} \cup Pairs({[id |-> d2, cls |-> {c1}]}, DomainEntries({d1}, {c2})),
        k \in BOOLEAN}

\* Application users: a manager and a user that it edits, and a list of three.
AppUser(domains, admin, conn) ==
    [domains |-> domains, flags |-> [f \in UserFlags |-> CASE f = "is_admin" -> admin
                                                          [] f = "can_create_connections" -> conn
                                                          [] OTHER -> FALSE]]

GrantLists == Lists([id : {d1}, cls : SUBSET {c1}, roles : SUBSET {"amlach", "implementor"}])

ManagerWorlds ==
    {[roles |-> {<<a1, d1, r>> : r \in rs}, assigners |-> as, links |-> ls, rooted |-> rt,
      flags |-> fs, docs |-> <<>>, stored |-> {d1, d2}] :
        rs \in {{}, {"amlach"}, {"rav_amlach"}, {"kapat", "analyst"}, {"support_center", "kapat"}},
        as \in {{}, {<<a1, d1, c1>>}}, ls \in {{}, {<<d1, c1>>}}, rt \in {{}, {d1}},
        fs \in {{}, {<<a1, "is_admin">>}}}

Managed ==
    {[kind |-> "manager", world |-> w, old |-> AppUser(o, oa, FALSE), new |-> AppUser(n, na, conn)] :
        w \in ManagerWorlds, o \in GrantLists, n \in {<<>>} \cup {l \in GrantLists : l # <<>>},
        oa \in BOOLEAN, na \in BOOLEAN, conn \in {FALSE}}
    \cup {[kind |-> "manager", world |-> w, old |-> AppUser(<<>>, oa, FALSE), new |-> AppUser(<<>>, oa, TRUE)] :
        w \in ManagerWorlds, oa \in BOOLEAN}

StaffLists == Lists([id : {d1}, cls : {{}}, roles : {{}, {"amlach"}, {"kapat", "support_center"}}])
              \cup {<<[id |-> d2, cls |-> {}, roles |-> {"amlach"}], [id |-> d1, cls |-> {}, roles |-> {"amlach", "analyst"}]>>}

StaffWorld(lists, admin, stored) ==
    LET docs == [i \in 1 .. 3 |-> [user |-> <<a1, a2, g1>>[i], domains |-> lists[i],
                                   flags |-> AppUser(<<>>, admin[i], FALSE).flags]]
    IN [docs |-> docs, stored |-> stored, assigners |-> {}, links |-> {}, rooted |-> stored,
        roles |-> UNION {UNION {{<<docs[i].user, docs[i].domains[j].id, r>> : r \in docs[i].domains[j].roles} :
                                   j \in DOMAIN docs[i].domains} : i \in 1 .. 3},
        flags |-> {<<docs[i].user, "is_admin">> : i \in {i \in 1 .. 3 : admin[i]}}]

Staffs ==
    {[kind |-> "staff", world |-> StaffWorld(ls, <<FALSE, ad, TRUE>>, st), search |-> s, old |-> o, size |-> n] :
        ls \in [1 .. 3 -> StaffLists], ad \in BOOLEAN, st \in {{d1}, {d1, d2}},
        s \in {Nothing, a2, d1, "amlach"}, o \in {<<>>}, n \in {2}}
    \cup {[kind |-> "staff", world |-> StaffWorld(<<l, k, <<>>>>, <<FALSE, FALSE, FALSE>>, {d1, d2}), search |-> Nothing,
           old |-> o, size |-> 1] : l \in StaffLists, k \in StaffLists, o \in StaffLists}

StaffRank == a1 :> 2 @@ a2 :> 3 @@ g1 :> 1

\* Row filters whose values are a tree, or several; 5 is a parent that is not listed.
TreeInputs ==
    {[kind |-> "tree", options |-> [i \in 1 .. n |-> [value |-> i, parent |-> up[i]]], search |-> s] :
        n \in {3, 4}, up \in [1 .. 4 -> {Null, 1, 2, 3, 4, 5}], s \in SUBSET {1, 2, 3, 4}}

MoreOptions == <<[value |-> 1, parent |-> Null], [value |-> 2, parent |-> 1]>>

HeldSources == {1 :> {"direct"}, 1 :> {g1} @@ 2 :> {"direct", g1} @@ 9 :> {"direct"}, 3 :> {"direct"} @@ 4 :> {g1}}

DimRows == {<<>>, MoreOptions, <<[value |-> 2, parent |-> Null]>>}

DimInputs ==
    {[kind |-> "dimensions", trino |-> t, filters |-> fs] :
        t \in [{"p", "q"} -> DimRows],
        fs \in {S \in SUBSET [kod : {k1, k2}, dim : {"p", "q"}, type : {"string"}, tree : BOOLEAN] : Cardinality(S) <= 3}}

Pages == [kind |-> "pages"]

\* No export runs.
NoExport ==
    /\ rows = [k \in DocKeys |-> 0] /\ next = 1 /\ changes = 0
    /\ legacy = FALSE /\ size = (CHOOSE n \in Sizes : TRUE)
    /\ page = 1 /\ pc = "ask"
    /\ items = [k \in DocKeys |-> {}] /\ counted = 0
    /\ got = [k \in DocKeys |-> [i \in Parts |-> 0]]
    /\ first = 1 /\ touched = {} /\ grown = FALSE /\ shrunk = FALSE /\ split = {}

InputInit ==
    \/ input \in ViewInputs \cup Exposures \cup Managed \cup Staffs
    \/ input \in Views \cup RowInputs \cup Previews \cup Listed \cup Searches \cup Changes \cup Edits
    \/ input \in TableEdits \cup Upserts \cup Exports
    \/ input \in TreeInputs
    \/ input \in DimInputs
    \/ input \in GrantInputs

Init == \/ InputInit /\ NoExport
        \/ input = Pages /\ ExportInit

Next == \/ input = Pages /\ ExportNext /\ UNCHANGED input
        \/ UNCHANGED <<input, exportVars>>

Spec == Init /\ [][Next]_<<input, exportVars>>
-----------------------------------------------------------------------------
\* Every document: the pipeline that lists users is a join.
PipelineJoins == input.kind = "listing" => ListingJoins(input.doc)

\* Every document: the pipeline of the dictionary agrees with it.
DictionaryAgrees == input.kind = "listing" => DictionaryReads(input.doc)

\* Every search: its pages hold what it finds.
SearchPaged == input.kind = "search" => PagesCover(input.docs, input.filter)

\* Every change of a user, a group or a table: its audit log leads from what was to
\* what is.
AuditComplete ==
    /\ input.kind = "change" => AuditReplays(input.old, input.new)
    /\ input.kind = "table edit" => EditTold(input.cols, input.edit, input.old, input.list, input.checked)
    /\ input.kind = "upsert" => UpsertTold(input.old, input.new)

\* Every change: an export after it is the one before it and the exported actions.
ExportReplays == input.kind = "export" => ActionsReplay(input.was, input.is)

\* Every viewer of tables and domains: what is offered can be done.
TablesOffered ==
    /\ input.kind = "tables" =>
          /\ OffersPass(input.world, input.viewer, MCLineage)
          /\ ListsOpen(input.world, input.viewer)
          /\ DictionariesWhole(input.world, {NameA})
    /\ input.kind = "exposure" => ExposureCounts(input.world)

\* Every manager and every list of application users: what is offered can be done, and
\* what is shown is what is held.
AppUsersShown ==
    /\ input.kind = "manager" => OffersManaged(input.world, a1, input.old, input.new)
    /\ input.kind = "staff" =>
          /\ RolesShown(input.world)
          /\ \A actor \in {a1, g1} : UsersPaged(input.world, actor, input.search, StaffRank, input.size)
          /\ \A new \in StaffLists : OwnersTold(input.world, dx, input.old, new)

\* Every edit of row filters: it brings in known values only.
FilterValuesKnown ==
    input.kind = "edit" => ValuesKnown(MCTable, input.filters, input.held, input.dims)

\* Every tree of row filter values, searched, unfolded and read anew.
TreesShown ==
    /\ input.kind = "tree" =>
          /\ TreesAgree(input.options)
          /\ SearchShows(input.options, input.search)
          /\ SearchForgotten(input.options, MoreOptions, input.search)
          /\ \A held \in HeldSources : PicksKept(input.options, input.search, held)
    /\ input.kind = "dimensions" => ReadsAgree(input.trino, input.filters)

\* Every manager: what it is told a copy gives and the groups it is offered to give.
GrantsTold ==
    input.kind = "grants" =>
        /\ \A ds \in DomainLists : CopyTold(input.world, input.viewer, ds)
        /\ \A groups \in GroupPairs : GroupsOffered(input.world, input.viewer, groups)
-----------------------------------------------------------------------------
\* The lists of users, the search and the dictionary are what a join of the documents
\* gives, and an edit of row filters brings known values only.
UsersListed == PipelineJoins /\ DictionaryAgrees /\ SearchPaged /\ FilterValuesKnown

\* The audit log of every change, and what is exported of it, leads from the state
\* before to the state after.
ChangesTold == AuditComplete /\ ExportReplays

\* What the screens offer can be done, and what they show is so.
ScreensTrue == TablesOffered /\ AppUsersShown /\ TreesShown /\ GrantsTold
=============================================================================
