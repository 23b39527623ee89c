------------------------------ MODULE RowFilterTree ------------------------------
(***************************************************************************)
(* The values of a row filter: read from Trino through the cache           *)
(* (permission_tables.service.ts), nested by the server or by the client   *)
(* (RowFilterTree.tsx), and shown as a tree that one searches, unfolds and *)
(* checks (useTreeState.ts, treeUtils.ts, AddRowFiltersPopup.tsx).         *)
(*                                                                         *)
(* An option is a value and its parent, which may be listed later or not   *)
(* at all.  A search is the set of the values whose names it matches.      *)
(***************************************************************************)
EXTENDS SequencesExt, FiniteSets, Functions, Naturals, TLC

CONSTANTS
    Root,   \* ROOT_ID
    Null    \* no parent, and no search

OptionValues(options) == {options[i].value : i \in DOMAIN options}
-----------------------------------------------------------------------------
(* The server nests (createTreeData).  What hangs from a parent that is not  *)
(* listed is left out.                                                       *)

Children(options, parent) ==
    LET of == SelectSeq(options, LAMBDA o : o.parent = parent)
    IN [i \in DOMAIN of |-> of[i].value]

RECURSIVE Nested(_, _, _)
Nested(options, value, level) ==
    LET below == Children(options, value)
    IN <<[id |-> value, level |-> level]>>
          \o FlattenSeq([i \in DOMAIN below |-> Nested(options, below[i], level + 1)])

TreeData(options) ==
    LET top == Children(options, Null)
    IN FlattenSeq([i \in DOMAIN top |-> Nested(options, top[i], 0)])
-----------------------------------------------------------------------------
(* The client links: a graph is the children of each node.                   *)

\* Mutant: a node that is there already as a parent starts afresh.
LinkedAnew(graph, option) ==
    LET parent == IF option.parent = Null THEN Root ELSE option.parent
        up == IF parent \in DOMAIN graph THEN [graph EXCEPT ![parent] = Append(@, option.value)]
              ELSE graph @@ parent :> <<option.value>>
    IN option.value :> <<>> @@ up

Linked(graph, option) ==
    LET parent == IF option.parent = Null THEN Root ELSE option.parent
        up == IF parent \in DOMAIN graph THEN [graph EXCEPT ![parent] = Append(@, option.value)]
              ELSE graph @@ parent :> <<option.value>>
    IN up @@ option.value :> <<>>

Graph(options) == FoldLeft(Linked, <<>>, options)

TopOf(graph) == IF Root \in DOMAIN graph THEN graph[Root] ELSE <<>>

\* A parent that is not listed has no name to match.
Names(options, search) == search \cap OptionValues(options)

NothingFound == [matching |-> {}, visible |-> {}, expanded |-> {}]

Together(S) == [matching |-> UNION {s.matching : s \in S}, visible |-> UNION {s.visible : s \in S},
                expanded |-> UNION {s.expanded : s \in S}]

\* filterTreeNodesRecursive: a node matches by itself or by what is below it; it is
\* visible if it matches or is below one that does by itself, and unfolded if
\* something below it matches.
RECURSIVE Filtered(_, _, _, _)
Filtered(graph, id, names, under) ==
    LET current == id \in names
        kids == ToSet(graph[id])
        below == {Filtered(graph, k, names, current \/ under) : k \in kids}
        within == Together(below \cup {NothingFound})
        kidsMatch == kids \cap within.matching # {}
        matches == current \/ kidsMatch
    IN [matching |-> within.matching \cup {x \in {id} : matches},
        visible  |-> within.visible \cup {x \in {id} : matches \/ under},
        expanded |-> within.expanded \cup {x \in {id} : kidsMatch}]

\* flattenTree
RECURSIVE Flattened(_, _, _, _)
Flattened(graph, view, id, level) ==
    IF id \notin view.visible THEN <<>> ELSE
    LET kids == SelectSeq(graph[id], LAMBDA k : k \in view.visible)
    IN <<[id |-> id, level |-> level]>>
          \o (IF id \in view.expanded
              THEN FlattenSeq([i \in DOMAIN kids |-> Flattened(graph, view, kids[i], level + 1)])
              ELSE <<>>)

\* flatNodes
FlatNodes(graph, view) ==
    LET top == TopOf(graph)
    IN FlattenSeq([i \in DOMAIN top |-> Flattened(graph, view, top[i], 0)])
-----------------------------------------------------------------------------
(* The state of a tree, and what one does to it.                             *)

\* A tree of one root begins unfolded.
DefaultExpanded(graph) == IF Len(TopOf(graph)) = 1 THEN ToSet(TopOf(graph)) ELSE {}

Opened(graph) ==
    [matching |-> DOMAIN graph, visible |-> DOMAIN graph, expanded |-> DefaultExpanded(graph)]

\* Mutant: an emptied search leaves what was unfolded.
SetSearchKept(graph, view, options, search) ==
    IF search = Null THEN [view EXCEPT !.matching = {}, !.visible = DOMAIN graph]
    ELSE Together({Filtered(graph, k, Names(options, search), FALSE) : k \in ToSet(TopOf(graph))}
                  \cup {NothingFound})

\* handleSetSearchValue
SetSearch(graph, view, options, search) ==
    IF search = Null
    THEN [matching |-> {}, visible |-> DOMAIN graph, expanded |-> DefaultExpanded(graph)]
    ELSE Together({Filtered(graph, k, Names(options, search), FALSE) : k \in ToSet(TopOf(graph))}
                  \cup {NothingFound})

ToggleExpanded(view, id) == [view EXCEPT !.expanded = IF id \in @ THEN @ \ {id} ELSE @ \cup {id}]

ExpandAll(graph, view) == [view EXCEPT !.expanded = DOMAIN graph]

\* held is the sources of the values that the user has: those of groups cannot be
\* unchecked.
Disabled(held, id) == id \in DOMAIN held /\ held[id] # {"direct"}

CheckboxChange(checked, id, on) == IF on THEN checked \cup {id} ELSE checked \ {id}

\* handleSubmit: of what is checked, the options that are new or the user's own.
Submitted(options, held, checked) ==
    {v \in OptionValues(options) \cap checked : v \in DOMAIN held => "direct" \in held[v]}
-----------------------------------------------------------------------------
(* The values come out of Trino through a cache, which both reads share.     *)

Bare(rows) == [i \in DOMAIN rows |-> [rows[i] EXCEPT !.parent = Null]]

Fresh(trino, filter) == IF filter.tree THEN trino[filter.dim] ELSE Bare(trino[filter.dim])

\* getRowFilterValueOptions: one row filter.
ReadOne(cache, trino, filter) ==
    IF filter.dim \in DOMAIN cache THEN [cache |-> cache, values |-> cache[filter.dim]]
    ELSE [cache |-> cache @@ filter.dim :> Fresh(trino, filter), values |-> Fresh(trino, filter)]

\* getRowFilterValuesByDimensionsTable: all dimensions tables of some row filters, each
\* asked for once by type and shape unless it is cached.
Shapes(filters, dim) == {[type |-> f.type, tree |-> f.tree, dim |-> f.dim] : f \in {f \in filters : f.dim = dim}}

ReadAll(cache, trino, filters) ==
    LET dims == {f.dim : f \in filters}
        missing == dims \ DOMAIN cache
        rows(dim) == LET shapes == SetToSeq(Shapes(filters, dim))
                     IN FlattenSeq([i \in DOMAIN shapes |-> Fresh(trino, shapes[i])])
        fresh == [d \in missing |-> rows(d)]
    IN [cache |-> cache @@ fresh, values |-> Restrict(cache, dims \cap DOMAIN cache) @@ fresh]
-----------------------------------------------------------------------------
(* What the functions are to each other.                                     *)

NodeIds(nodes) == {nodes[i].id : i \in DOMAIN nodes}

\* The client's tree, all unfolded, is the one that the server would nest: in the same
\* order, and without what hangs from a parent that is not listed, or from itself.
TreesAgree(options) ==
    LET graph == Graph(options)
    IN FlatNodes(graph, ExpandAll(graph, Opened(graph))) = TreeData(options)

\* The nodes above one, itself included, as far as the root.
Above(options, id) ==
    LET up(S) == S \cup {o.parent : o \in {o \in ToSet(options) : o.value \in S}}
        RECURSIVE climb(_)
        climb(S) == IF up(S) = S THEN S ELSE climb(up(S))
    IN climb({id})

\* A search shows every value of the tree that it matches with all that is above it; of
\* the rest it shows what is below a match, where the tree is unfolded for another.
\* Unfolding one reaches what is below a match.
SearchShows(options, search) ==
    LET graph == Graph(options)
        view == SetSearch(graph, Opened(graph), options, search)
        shown == NodeIds(FlatNodes(graph, view))
        reach == NodeIds(TreeData(options))
        found == search \cap reach
        trail == UNION {Above(options, v) : v \in found} \ {Null}
    IN /\ trail \subseteq shown
       /\ \A v \in shown \ trail : Above(options, v) \cap found # {}
       /\ NodeIds(FlatNodes(graph, ExpandAll(graph, view))) = {v \in reach : v \in trail \/ Above(options, v) \cap found # {}}

\* Whatever was searched and unfolded, emptying the search shows the tree as it was
\* opened; also after the options were read anew.
SearchForgotten(options, more, search) ==
    LET graph == Graph(options)
        later == Graph(more)
        searched == SetSearch(graph, Opened(graph), options, search)
    IN \A id \in DOMAIN graph :
          LET toggled == ToggleExpanded(searched, id)
          IN FlatNodes(later, SetSearch(later, toggled, more, Null)) = FlatNodes(later, Opened(later))

\* However a search hides them, what was checked stays: a click on a box that is shown
\* adds or takes that one value, never a value that only a group gives.
PicksKept(options, search, held) ==
    LET graph == Graph(options)
        view == SetSearch(graph, Opened(graph), options, search)
        own == {v \in DOMAIN held : "direct" \in held[v]}
    IN \A id \in {v \in NodeIds(FlatNodes(graph, view)) : ~Disabled(held, v)}, on \in BOOLEAN :
          LET saved == Submitted(options, held, CheckboxChange(DOMAIN held, id, on))
          IN saved = ((own \cap OptionValues(options)) \ {id}) \cup {v \in {id} : on}

\* Both reads give what Trino has, whichever came first, as long as the row filters of a
\* dimensions table agree on its type and on whether it is a tree.
ReadsAgree(trino, filters) ==
    (\A f, g \in filters : f.dim = g.dim => f.type = g.type /\ f.tree = g.tree) =>
        \A f \in filters, some \in SUBSET filters :
            LET one == ReadOne(<<>>, trino, f)
                all == ReadAll(one.cache, trino, some)
                again == ReadOne(all.cache, trino, f)
            IN /\ again.values = one.values
               /\ \A g \in some : all.values[g.dim] = Fresh(trino, g)
               /\ \A g \in filters : ReadOne(all.cache, trino, g).values = Fresh(trino, g)
=============================================================================
