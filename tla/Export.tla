--------------------------------- MODULE Export ---------------------------------
(***************************************************************************)
(* A consumer of shield-bay reads a listing page by page (data.service.ts) *)
(* while documents come, change and go.                                    *)
(*                                                                         *)
(* A document is known by its key, what the listing is sorted by; keys     *)
(* grow with time.  It has some rows in the listing, none when it is gone  *)
(* or has nothing to unwind.  Rows of one key have no order of their own:  *)
(* each query may give them in another one.  A listing reads rows and      *)
(* count in one aggregate; the legacy audit reads them side by side.       *)
(***************************************************************************)
EXTENDS Naturals, FiniteSets

CONSTANTS
    MaxDocs,      \* bound: documents there ever are
    MaxRows,      \* bound: rows of a document
    MaxChanges,   \* bound: changes of documents while a consumer reads
    Sizes         \* the sizes of a page

ASSUME ExportAssumption ==
    MaxDocs \in Nat /\ MaxRows \in Nat /\ MaxChanges \in Nat /\ Sizes \subseteq Nat \ {0}

DocKeys == 1 .. MaxDocs

Parts == 1 .. MaxRows

Endless == MaxDocs + 1

VARIABLES
    rows,      \* [DocKeys -> 0 .. MaxRows]: how many rows a document has
    next,      \* the key of the next document
    changes,   \* how many documents have changed during the export
    legacy,    \* whether rows and count are two reads
    size,      \* the size of a page
    page,      \* the page to ask for
    pc,        \* "ask", "count" (rows are read, the count is not), "items" or "done"
    items,     \* the rows of the page that is being read
    counted,   \* the count that was read before the rows
    got,       \* [DocKeys -> [Parts -> Nat]]: how often a row was exported
    first,     \* the key of the first document that came during the export
    touched,   \* keys of the documents that changed during the export
    grown,     \* whether some document got more rows
    shrunk,    \* whether some document lost rows
    split      \* keys that had rows on both sides of the edge of a page

exportVars == <<rows, next, changes, legacy, size, page, pc, items, counted, got, first, touched, grown, shrunk, split>>

readerVars == <<legacy, size, page, pc, items, counted, got, split>>

ExportTypeOK ==
    /\ rows \in [DocKeys -> 0 .. MaxRows] /\ next \in 1 .. Endless /\ changes \in 0 .. MaxChanges
    /\ legacy \in BOOLEAN /\ size \in Sizes /\ page \in Nat /\ pc \in {"ask", "count", "items", "done"}
    /\ items \in [DocKeys -> SUBSET Parts] /\ got \in [DocKeys -> [Parts -> Nat]] /\ counted \in Nat
    /\ first \in 1 .. Endless /\ touched \in SUBSET DocKeys
    /\ grown \in BOOLEAN /\ shrunk \in BOOLEAN /\ split \in SUBSET DocKeys

ExportInit ==
    /\ next \in 1 .. Endless
    /\ rows \in {f \in [DocKeys -> 0 .. MaxRows] : \A k \in DocKeys : k >= next => f[k] = 0}
    /\ changes = 0
    /\ legacy \in BOOLEAN /\ size \in Sizes
    /\ page = 1 /\ pc = "ask"
    /\ items = [k \in DocKeys |-> {}] /\ counted = 0
    /\ got = [k \in DocKeys |-> [i \in Parts |-> 0]]
    /\ first = next /\ touched = {}
    /\ grown = FALSE /\ shrunk = FALSE /\ split = {}
-----------------------------------------------------------------------------
\* How many rows come before those of a key, and how many there are.
Sums(f) == LET at[k \in 1 .. Endless] == IF k = 1 THEN 0 ELSE at[k - 1] + f[k - 1] IN at

RowsBefore == Sums(rows)

Count == RowsBefore[Endless]

\* Mutant: pages are counted from nought.
SkipNone == page * size

\* Mutant: a page begins with the last row of the one before.
SkipBack == IF page = 1 THEN 0 ELSE (page - 1) * size - 1

\* What comes before a page.
Skip == (page - 1) * size

Least(a, b) == IF a < b THEN a ELSE b
Most(a, b)  == IF a > b THEN a ELSE b

\* $sort, $skip and $limit: how many rows of a key a page has, those at its places of
\* the sorted listing.
OnPage ==
    LET at == RowsBefore IN
    [k \in DocKeys |->
        LET from == Most(at[k], Skip) IN Most(Least(at[k + 1], Skip + size), from) - from]

\* Which rows of a key that does not fit the page has is open.
PageItems ==
    LET n == OnPage
        shown == {k \in DocKeys : n[k] > 0}
    IN {[k \in DocKeys |-> IF k \in shown THEN f[k] ELSE {}] :
           f \in {f \in [shown -> SUBSET Parts] :
                      \A k \in shown : f[k] \subseteq 1 .. rows[k] /\ Cardinality(f[k]) = n[k]}}

TotalPages(n) == (n + size - 1) \div size

Take(f) == got' = [k \in DocKeys |-> [i \in Parts |-> got[k][i] + IF i \in f[k] THEN 1 ELSE 0]]

\* An answer with the rows f and the count n.  The consumer goes on while there is
\* more by the count, and stops at the error for a page that is out of range.
Answer(f, n) ==
    IF TotalPages(n) < page
    THEN pc' = "done" /\ UNCHANGED <<page, got>>
    ELSE /\ Take(f)
         /\ IF page * size < n THEN pc' = "ask" /\ page' = page + 1
            ELSE pc' = "done" /\ UNCHANGED page

Splits(f) == split' = split \cup {k \in DocKeys : f[k] # {} /\ f[k] # 1 .. rows[k]}

StoredVars == <<rows, next, changes, first, touched, grown, shrunk>>

\* A listing: one aggregate with the rows and the count.
ReadPage ==
    /\ pc = "ask" /\ ~legacy
    /\ \E f \in PageItems : Answer(f, Count) /\ Splits(f)
    /\ UNCHANGED <<StoredVars, legacy, size, items, counted>>

\* getAuditingLegacy: the rows and the count are read side by side, so that the count
\* may be of another moment, before the rows or after them.
ReadItemsFirst ==
    /\ pc = "ask" /\ legacy
    /\ \E f \in PageItems : items' = f /\ Splits(f)
    /\ pc' = "count"
    /\ UNCHANGED <<StoredVars, legacy, size, page, counted, got>>

ReadCountLast ==
    /\ pc = "count"
    /\ Answer(items, Count)
    /\ UNCHANGED <<StoredVars, legacy, size, items, counted, split>>

ReadCountFirst ==
    /\ pc = "ask" /\ legacy
    /\ counted' = Count
    /\ pc' = "items"
    /\ UNCHANGED <<StoredVars, legacy, size, page, items, got, split>>

ReadItemsLast ==
    /\ pc = "items"
    /\ \E f \in PageItems : Answer(f, counted) /\ Splits(f)
    /\ UNCHANGED <<StoredVars, legacy, size, items, counted>>
-----------------------------------------------------------------------------
\* shield-api adds a document.
Insert ==
    /\ pc # "done" /\ next \in DocKeys
    /\ \E n \in 0 .. MaxRows : rows' = [rows EXCEPT ![next] = n]
    /\ next' = next + 1
    /\ UNCHANGED <<changes, first, touched, grown, shrunk, readerVars>>

\* It edits or deletes one, which gives it other rows; entries of an audit stay.
ChangeRows ==
    /\ pc # "done" /\ ~legacy /\ changes < MaxChanges
    /\ \E k \in 1 .. next - 1, n \in 0 .. MaxRows :
          /\ n # rows[k]
          /\ rows' = [rows EXCEPT ![k] = n]
          /\ touched' = touched \cup {k}
          /\ grown' = (grown \/ n > rows[k])
          /\ shrunk' = (shrunk \/ n < rows[k])
    /\ changes' = changes + 1
    /\ UNCHANGED <<next, first, readerVars>>

ExportNext ==
    \/ ReadPage \/ ReadItemsFirst \/ ReadCountLast \/ ReadCountFirst \/ ReadItemsLast
    \/ Insert \/ ChangeRows

ExportSpec == ExportInit /\ [][ExportNext]_exportVars
-----------------------------------------------------------------------------
(***************************************************************************)
(* Properties.                                                             *)
(***************************************************************************)

\* The documents that were there before, and fit the pages they were on.
Old == {k \in DocKeys : k < first /\ k \notin split}

\* When an export is over, every row of a document that was there before is in it
\* once, if neither it nor a document before it changed and no edge of a page went
\* through it.
ExactlyOnce ==
    pc = "done" =>
        \A k \in Old, i \in Parts :
            (\A j \in touched : k < j) => got[k][i] = IF i <= rows[k] THEN 1 ELSE 0

\* Documents that lose rows or go make the consumer miss rows of others, never read
\* them twice; documents that get rows make it read rows twice, never miss them.
OneWayOnly ==
    /\ ~grown => \A k \in DocKeys \ split, i \in Parts : got[k][i] <= 1
    /\ pc = "done" /\ ~shrunk => \A k \in Old \ touched, i \in Parts : i <= rows[k] => got[k][i] >= 1

\* An export that others overtake has each row it ought to have once, and errs in one
\* direction only.
PagesExported == ExportTypeOK /\ ExactlyOnce /\ OneWayOnly
=============================================================================
