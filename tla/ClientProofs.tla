---------------------------- MODULE ClientProofs ----------------------------
(***************************************************************************)
(* The screens of the client, each for every value of its constants: the   *)
(* popup of a table, the permission groups, and the form of a user's or of *)
(* a group's permissions.                                                  *)
(***************************************************************************)
EXTENDS ClassificationPopup, GroupScreen, UserPopup, MergedPermissionsProofs

(***************************************************************************)
(* The popup of a table, for any people, columns, classifications and      *)
(* stages, and any number of writes, edits and faults: a save of a current *)
(* popup passes, internal tables stay as they are, what was announced is   *)
(* what the stages say, and a list that waits for nothing is not older     *)
(* than the last save of its browser, unless it was let in late.           *)
(*                                                                         *)
(* The first two rest on what a row may hold (Picked): the column as it    *)
(* was loaded, or else both it and the row are empty, the suggestion, or   *)
(* among the options.  The last rests on dates: every write of the table   *)
(* counts, so what is dated with the last one shows the table (Dated).     *)
(***************************************************************************)

Phases  == {"closed", "loading", "open", "saving", "saved", "failed"}
NoTable == [cols |-> <<>>, stages |-> NoStages]
Popups  == [phase : Phases, from : {"tables", "tasks"}, seen : Tables \cup {NoTable},
            opts : SUBSET ColumnClasses, rows : {<<>>} \cup [Columns -> Row], stages : Marks,
            sent : SUBSET Lists]
HintSets == [Columns -> ColumnClasses \cup {Empty}]
Fetches  == [asked : BOOLEAN, got : SUBSET Lists, late : BOOLEAN]
Screens  == {"tables", "tasks"}

ListsTyped ==
    /\ screen \in [Users -> Screens]
    /\ list \in [Users -> SUBSET Lists] /\ fetch \in [Users -> Fetches] /\ mine \in [Users -> Nat]
    /\ stale \in [Users -> BOOLEAN] /\ overtaken \in [Users -> BOOLEAN]

TroublesCounted == turns \in Nat /\ faults \in Nat /\ turns + faults <= MaxTroubles

TypeInv ==
    /\ table \in Tables
    /\ told \in BOOLEAN /\ blanked \in BOOLEAN /\ done \in BOOLEAN
    /\ written \in 0 .. MaxWrites /\ TroublesCounted
    /\ rights \in [Users -> SUBSET ColumnClasses]
    /\ popup \in [Users -> Popups]
    /\ hints \in [Users -> {NoHints} \cup HintSets]
    /\ ListsTyped
    /\ tasks \in [Users -> BOOLEAN] /\ mark \in [Users -> BOOLEAN]

InternalMasked(t) == \A c \in Columns : t.cols[c].cls = Internal => t.cols[c].mask = DefaultMask

\* In place of what was loaded, a row of column c may hold the classification is.
Picked(p, h, c, is) ==
    LET was == p.seen.cols[c].cls
    IN was # is => {was, is} \ {Empty} \subseteq p.opts \cup {h[c]}

\* Rows a popup may come to, internal columns as they were.
MayHold(p, h, rows) ==
    /\ rows \in [Columns -> Row]
    /\ \A c \in Columns :
          /\ Picked(p, h, c, rows[c].cls)
          /\ rows[c].cls = Internal => rows[c].mask = DefaultMask

\* The table is in the popup, with suggestions.
Loaded(u) ==
    /\ hints[u] \in HintSets /\ popup[u].seen \in Tables /\ InternalMasked(popup[u].seen)
    /\ MayHold(popup[u], hints[u], popup[u].rows)

LoadedFirst ==
    \A u \in Users :
        /\ popup[u].phase = "loading" => popup[u].rows = <<>>
        /\ popup[u].phase = "open" => Loaded(u)
        /\ popup[u].phase = "saving" => popup[u].rows = <<>> \/ Loaded(u)

\* A list that is dated with the last write, and was not made up, shows the table.
Dated(l) == l.at <= written /\ (l.at = written /\ l.sure => l = Shown(table, written))

ListsDated ==
    \A u \in Users :
        /\ mine[u] <= written
        /\ \A l \in list[u] : (~overtaken[u] => mine[u] <= l.at) /\ Dated(l)
        /\ \A l \in fetch[u].got : (~fetch[u].late => mine[u] <= l.at) /\ Dated(l)
        /\ \A l \in popup[u].sent : ~l.sure /\ l.at <= written

-----------------------------------------------------------------------------
(* Types. *)

LEMMA PopupFields ==
    ASSUME TypeInv, NEW u \in Users
    PROVE  /\ popup[u] \in Popups
           /\ popup[u].phase \in Phases /\ popup[u].from \in {"tables", "tasks"}
           /\ popup[u].seen \in Tables \cup {NoTable} /\ popup[u].opts \in SUBSET ColumnClasses
           /\ popup[u].rows \in {<<>>} \cup [Columns -> Row] /\ popup[u].stages \in Marks
           /\ popup[u].sent \in SUBSET Lists
  <1>1. popup[u] \in Popups
    BY DEF TypeInv
  <1> QED
    BY <1>1 DEF Popups

LEMMA ClosedTyped ==
    /\ Closed \in Popups /\ Failed \in Popups
    /\ \A p \in {"tables", "tasks"} : [Closed EXCEPT !.phase = "loading", !.from = p] \in Popups
    /\ \A p \in {"tables", "tasks"}, S \in SUBSET Lists :
          [Closed EXCEPT !.phase = "saved", !.from = p, !.sent = S] \in Popups
  BY DEF Closed, Failed, Popups, Phases, NoTable, Marks

LEMMA ShownTyped ==
    ASSUME NEW t \in Tables, NEW n \in 0 .. MaxWrites
    PROVE  Shown(t, n) \in Lists
  <1>1. StateOf(t.cols) \in States
    BY DEF StateOf, States
  <1> QED
    BY <1>1 DEF Shown, Lists, Tables

LEMMA ServedTyped ==
    ASSUME NEW u \in Users
    PROVE  Served(u) \in HintSets
  BY PopupAssumption DEF Served, HintSets

\* The rows a popup starts with: columns that were empty have what is suggested.
LEMMA FilledRows ==
    ASSUME NEW cols \in [Columns -> Column], NEW h \in HintSets
    PROVE  /\ Filled(cols, h) \in [Columns -> Row]
           /\ \A c \in Columns :
                 /\ cols[c].cls # Empty => Filled(cols, h)[c] = cols[c]
                 /\ cols[c].cls = Empty => Filled(cols, h)[c].cls = h[c]
                                           /\ Filled(cols, h)[c].mask = cols[c].mask
  <1>1. DOMAIN cols = Columns
    OBVIOUS
  <1>2. ASSUME NEW c \in Columns, cols[c].cls = Empty
        PROVE  [cols[c] EXCEPT !.cls = h[c]] \in Row
    BY DEF Row, Column, HintSets
  <1>3. ASSUME NEW c \in Columns
        PROVE  cols[c] \in Row
    BY DEF Row
  <1>4. Filled(cols, h) = [c \in Columns |-> IF cols[c].cls = Empty THEN [cols[c] EXCEPT !.cls = h[c]] ELSE cols[c]]
    BY <1>1 DEF Filled
  <1>5. Filled(cols, h) \in [Columns -> Row]
    BY <1>2, <1>3, <1>4
  <1>6. ASSUME NEW c \in Columns, cols[c].cls = Empty
        PROVE  /\ Filled(cols, h)[c] = [cols[c] EXCEPT !.cls = h[c]]
               /\ cols[c] \in Column
    BY <1>4, <1>6
  <1> QED
    BY <1>4, <1>5, <1>6 DEF Column

LEMMA TypeInit == PopupInit => TypeInv
  <1> SUFFICES ASSUME PopupInit PROVE TypeInv
    OBVIOUS
  <1>1. PICK t \in FirstTables : table = t /\ told = Verified(t.stages)
    BY DEF PopupInit
  <1>2. t \in Tables /\ 0 \in 0 .. MaxWrites /\ TroublesCounted
    BY FirstAssumption, PopupAssumption DEF PopupInit, TroublesCounted
  <1>3. ListsTyped
    BY DEF PopupInit, ListsTyped, Idle, Fetches, Screens
  <1>4. told \in BOOLEAN
    BY <1>1 DEF Verified
  <1>5. popup \in [Users -> Popups]
    BY ClosedTyped DEF PopupInit
  <1>6. hints \in [Users -> {NoHints} \cup HintSets]
    BY PopupAssumption DEF PopupInit, HintSets
  <1> QED
    BY <1>1, <1>2, <1>3, <1>4, <1>5, <1>6, PopupAssumption DEF PopupInit, TypeInv
-----------------------------------------------------------------------------
(* What edits leave in the rows. *)

LEMMA CellAllowed ==
    ASSUME NEW p, NEW h, NEW c \in Columns, NEW x \in ColumnClasses \cup {Empty, Internal}, NEW m \in Masks,
           MayHold(p, h, p.rows),
           \/ CellEditable(p, c) /\ x \in p.opts \cup {Empty} /\ p.opts \subseteq ColumnClasses
              /\ m = p.rows[c].mask
           \/ RowSelectable(p, c) /\ x = p.rows[c].cls
    PROVE  MayHold(p, h, [p.rows EXCEPT ![c] = [cls |-> x, mask |-> m]])
  <1> DEFINE rows == [p.rows EXCEPT ![c] = [cls |-> x, mask |-> m]]
  <1>0. p.rows \in [Columns -> Row]
    BY DEF MayHold
  <1>1. rows \in [Columns -> Row]
    BY <1>0 DEF Row, Column
  <1>2. rows[c] = [cls |-> x, mask |-> m] /\ \A d \in Columns \ {c} : rows[d] = p.rows[d]
    BY <1>0
  <1>3. Picked(p, h, c, x)
    BY DEF Picked, MayHold, CellEditable
  <1>4. x # Internal
    BY PopupAssumption DEF RowSelectable
  <1> HIDE DEF rows
  <1>5. ASSUME NEW d \in Columns
        PROVE  Picked(p, h, d, rows[d].cls) /\ (rows[d].cls = Internal => rows[d].mask = DefaultMask)
    BY <1>2, <1>3, <1>4 DEF MayHold
  <1>6. MayHold(p, h, rows)
    BY <1>1, <1>5 DEF MayHold
  <1> QED
    BY <1>6 DEF rows

LEMMA AppliedAllowed ==
    ASSUME NEW p, NEW h, NEW S \in Selections(p), NEW x, NEW m,
           MayHold(p, h, p.rows), p.opts \subseteq ColumnClasses,
           x = <<>> \/ x \in {<<e>> : e \in p.opts \cup {Empty}},
           m = <<>> \/ m \in {<<k>> : k \in Masks}
    PROVE  MayHold(p, h, Applied(p, S, x, m))
  <1> DEFINE rows == Applied(p, S, x, m)
  <1>0. p.rows \in [Columns -> Row] /\ DOMAIN p.rows = Columns
    BY DEF MayHold
  <1>1. x # <<>> => x[1] \in p.opts \cup {Empty}
    OBVIOUS
  <1>2. m # <<>> => m[1] \in Masks
    OBVIOUS
  <1>3. rows = [c \in Columns |->
                  IF c \notin S THEN p.rows[c]
                  ELSE [cls  |-> IF x # <<>> /\ CellEditable(p, c) THEN x[1] ELSE p.rows[c].cls,
                        mask |-> IF m # <<>> THEN m[1] ELSE p.rows[c].mask]]
    BY <1>0 DEF Applied
  <1> HIDE DEF rows
  <1>4. ASSUME NEW c \in Columns
        PROVE  /\ rows[c] \in Row /\ Picked(p, h, c, rows[c].cls)
               /\ rows[c].cls = Internal => rows[c].mask = DefaultMask
    <2>1. p.rows[c] \in Row /\ Picked(p, h, c, p.rows[c].cls)
          /\ (p.rows[c].cls = Internal => p.rows[c].mask = DefaultMask)
      BY DEF MayHold
    <2>2. CASE c \notin S
      BY <1>3, <2>1, <2>2
    <2>3. CASE c \in S
      <3>1. p.rows[c].cls # Internal
        BY <2>3 DEF Selections, RowSelectable
      <3>2. /\ rows[c].cls = IF x # <<>> /\ CellEditable(p, c) THEN x[1] ELSE p.rows[c].cls
            /\ rows[c].mask = IF m # <<>> THEN m[1] ELSE p.rows[c].mask
            /\ rows[c] = [cls |-> rows[c].cls, mask |-> rows[c].mask]
        BY <1>3, <2>3
      <3>3. rows[c].cls \in ColumnClasses \cup {Internal, Empty} /\ rows[c].mask \in Masks
        BY <1>1, <1>2, <2>1, <3>2 DEF Row, Column
      <3>4. rows[c].cls # Internal
        BY <1>1, <3>1, <3>2, PopupAssumption
      <3>5. Picked(p, h, c, rows[c].cls)
        BY <1>1, <2>1, <3>2 DEF Picked, CellEditable
      <3> QED
        BY <3>2, <3>3, <3>4, <3>5 DEF Row, Column
    <2> QED
      BY <2>2, <2>3
  <1>5. rows \in [Columns -> Row]
    BY <1>3, <1>4
  <1>6. MayHold(p, h, rows)
    BY <1>4, <1>5 DEF MayHold
  <1> QED
    BY <1>6 DEF rows

\* What was loaded is allowed, with the suggestions in place of what is empty.
LEMMA FilledAllowed ==
    ASSUME NEW p, NEW h \in HintSets, p.seen \in Tables, InternalMasked(p.seen)
    PROVE  MayHold(p, h, Filled(p.seen.cols, h))
  <1> DEFINE was == p.seen.cols
             rows == Filled(was, h)
  <1>1. was \in [Columns -> Column]
    BY DEF Tables
  <1>2. rows \in [Columns -> Row]
    BY <1>1, FilledRows
  <1>3. ASSUME NEW c \in Columns
        PROVE  Picked(p, h, c, rows[c].cls) /\ (rows[c].cls = Internal => rows[c].mask = DefaultMask)
    <2>1. /\ was[c].cls # Empty => rows[c] = was[c]
          /\ was[c].cls = Empty => rows[c].cls = h[c]
      BY <1>1, FilledRows
    <2>2. h[c] # Internal
      BY PopupAssumption DEF HintSets
    <2> QED
      BY <2>1, <2>2 DEF Picked, InternalMasked
  <1> QED
    BY <1>2, <1>3 DEF MayHold
\* Undo of the selected rows, their classifications or their masks.
Reverted(p, was, S, field) ==
    [c \in DOMAIN p.rows |->
        IF c \notin S THEN p.rows[c]
        ELSE IF field = "classification" THEN [p.rows[c] EXCEPT !.cls = was[c].cls]
        ELSE [p.rows[c] EXCEPT !.mask = was[c].mask]]

LEMMA RevertedAllowed ==
    ASSUME NEW p, NEW h \in HintSets, NEW S \in Selections(p), NEW field,
           MayHold(p, h, p.rows), p.opts \subseteq ColumnClasses, p.seen \in Tables, InternalMasked(p.seen)
    PROVE  MayHold(p, h, Reverted(p, Filled(p.seen.cols, h), S, field))
  <1> DEFINE was  == Filled(p.seen.cols, h)
             rows == Reverted(p, was, S, field)
  <1>0. p.rows \in [Columns -> Row] /\ DOMAIN p.rows = Columns
    BY DEF MayHold
  <1>1. MayHold(p, h, was)
    BY FilledAllowed
  <1>2. ASSUME NEW c \in Columns
        PROVE  was[c].cls = Internal => p.seen.cols[c].cls = Internal
    BY FilledRows, PopupAssumption DEF HintSets, Tables
  <1> HIDE DEF was
  <1>3. rows = [c \in Columns |->
                  IF c \notin S THEN p.rows[c]
                  ELSE IF field = "classification" THEN [p.rows[c] EXCEPT !.cls = was[c].cls]
                  ELSE [p.rows[c] EXCEPT !.mask = was[c].mask]]
    BY <1>0 DEF Reverted
  <1> HIDE DEF rows
  <1>4. ASSUME NEW c \in Columns
        PROVE  /\ rows[c] \in Row /\ Picked(p, h, c, rows[c].cls)
               /\ rows[c].cls = Internal => rows[c].mask = DefaultMask
    <2>1. /\ p.rows[c] \in Row /\ was[c] \in Row
          /\ Picked(p, h, c, p.rows[c].cls) /\ Picked(p, h, c, was[c].cls)
          /\ p.rows[c].cls = Internal => p.rows[c].mask = DefaultMask
      BY <1>1 DEF MayHold
    <2>2. CASE c \notin S
      BY <1>3, <2>1, <2>2
    <2>3. CASE c \in S
      <3>1. p.rows[c].cls # Internal
        BY <2>3 DEF Selections, RowSelectable
      <3>2. h[c] # Internal
        BY PopupAssumption DEF HintSets
      <3>3. p.seen.cols[c].cls # Internal
        BY <2>1, <3>1, <3>2, PopupAssumption DEF Picked
      <3>4. was[c].cls # Internal
        BY <1>2, <3>3
      <3>5. CASE field = "classification"
        <4>1. rows[c] = [p.rows[c] EXCEPT !.cls = was[c].cls]
          BY <1>3, <2>3, <3>5
        <4> QED
          BY <2>1, <3>4, <4>1 DEF Row, Column
      <3>6. CASE field # "classification"
        <4>1. rows[c] = [p.rows[c] EXCEPT !.mask = was[c].mask]
          BY <1>3, <2>3, <3>6
        <4> QED
          BY <2>1, <3>1, <4>1 DEF Row, Column
      <3> QED
        BY <3>5, <3>6
    <2> QED
      BY <2>2, <2>3
  <1>5. rows \in [Columns -> Row]
    BY <1>3, <1>4
  <1>6. MayHold(p, h, rows)
    BY <1>4, <1>5 DEF MayHold
  <1> QED
    BY <1>6 DEF rows, was

\* Every edit of rows leaves rows that are allowed.
LEMMA EditsAllowed ==
    ASSUME TypeInv, LoadedFirst, NEW u \in Users,
           \/ \E c \in Columns, x \in ColumnClasses \cup {Empty, Internal}, m \in Masks : EditCell(u, c, x, m)
           \/ \E x \in {<<>>} \cup {<<e>> : e \in ColumnClasses \cup {Empty}},
                 m \in {<<>>} \cup {<<k>> : k \in Masks} : Apply(u, x, m)
           \/ \E field \in {"classification", "mask"} : Revert(u, field)
    PROVE  \E rows : Edited(u, rows) /\ MayHold(popup[u], hints[u], rows)
  <1> DEFINE p == popup[u]
             h == hints[u]
  <1>1. p.opts \subseteq ColumnClasses
    BY PopupFields
  <1>2. p.phase = "open" => /\ MayHold(p, h, p.rows) /\ h \in HintSets
                            /\ p.seen \in Tables /\ InternalMasked(p.seen)
    BY DEF LoadedFirst, Loaded
  <1>3. CASE \E c \in Columns, x \in ColumnClasses \cup {Empty, Internal}, m \in Masks : EditCell(u, c, x, m)
    <2>1. PICK c \in Columns, x \in ColumnClasses \cup {Empty, Internal}, m \in Masks : EditCell(u, c, x, m)
      BY <1>3
    <2>2. MayHold(p, h, [p.rows EXCEPT ![c] = [cls |-> x, mask |-> m]])
      BY <1>1, <1>2, <2>1, CellAllowed DEF EditCell
    <2> QED
      BY <2>1, <2>2 DEF EditCell
  <1>4. CASE \E x \in {<<>>} \cup {<<e>> : e \in ColumnClasses \cup {Empty}},
                m \in {<<>>} \cup {<<k>> : k \in Masks} : Apply(u, x, m)
    <2>1. PICK x \in {<<>>} \cup {<<e>> : e \in ColumnClasses \cup {Empty}},
               m \in {<<>>} \cup {<<k>> : k \in Masks} : Apply(u, x, m)
      BY <1>4
    <2>2. PICK S \in Selections(p) : Edited(u, Applied(p, S, x, m))
      BY <2>1 DEF Apply
    <2>3. x = <<>> \/ x \in {<<e>> : e \in p.opts \cup {Empty}}
      BY <2>1 DEF Apply
    <2>4. MayHold(p, h, Applied(p, S, x, m))
      <3>1. MayHold(p, h, p.rows)
        BY <1>2, <2>2 DEF Edited
      <3>2. m = <<>> \/ m \in {<<k>> : k \in Masks}
        BY <2>1
      <3> QED
        BY <1>1, <2>2, <2>3, <3>1, <3>2, AppliedAllowed
    <2> QED
      BY <2>2, <2>4
  <1>5. CASE \E field \in {"classification", "mask"} : Revert(u, field)
    <2>1. PICK field \in {"classification", "mask"} : Revert(u, field)
      BY <1>5
    <2>2. PICK S \in Selections(p) : Edited(u, Reverted(p, Filled(p.seen.cols, h), S, field))
      BY <2>1 DEF Revert, Reverted
    <2>3. MayHold(p, h, Reverted(p, Filled(p.seen.cols, h), S, field))
      BY <1>1, <1>2, <2>2, RevertedAllowed DEF Edited
    <2> QED
      BY <2>2, <2>3
  <1> QED
    BY <1>3, <1>4, <1>5
-----------------------------------------------------------------------------
(* What a step does to the popup of one browser. *)

\* The popup p with suggestions h may be in a browser.
Fine(p, h) ==
    /\ p \in Popups /\ h \in {NoHints} \cup HintSets
    /\ p.phase = "loading" => p.rows = <<>>
    /\ p.phase = "open" \/ (p.phase = "saving" /\ p.rows # <<>>) =>
          h \in HintSets /\ p.seen \in Tables /\ InternalMasked(p.seen) /\ MayHold(p, h, p.rows)

LEMMA FinePopups ==
    ASSUME TypeInv, LoadedFirst, NEW u \in Users
    PROVE  Fine(popup[u], hints[u])
  <1>1. popup[u] \in Popups /\ hints[u] \in {NoHints} \cup HintSets
    BY DEF TypeInv
  <1> QED
    BY <1>1 DEF LoadedFirst, Loaded, Fine

LEMMA ChangedPopup ==
    ASSUME TypeInv, LoadedFirst, NEW u \in Users, NEW p, NEW h, Fine(p, h),
           popup' = [popup EXCEPT ![u] = p], hints' = [hints EXCEPT ![u] = h]
    PROVE  /\ popup' \in [Users -> Popups] /\ hints' \in [Users -> {NoHints} \cup HintSets]
           /\ popup'[u] = p /\ \A v \in Users \ {u} : popup'[v] = popup[v]
           /\ LoadedFirst'
  <1>1. popup \in [Users -> Popups] /\ hints \in [Users -> {NoHints} \cup HintSets]
    BY DEF TypeInv
  <1>2. popup' \in [Users -> Popups] /\ hints' \in [Users -> {NoHints} \cup HintSets]
    BY <1>1 DEF Fine
  <1>3. /\ popup'[u] = p /\ hints'[u] = h
        /\ \A v \in Users \ {u} : popup'[v] = popup[v] /\ hints'[v] = hints[v]
    BY <1>1
  <1>4. ASSUME NEW v \in Users
        PROVE  Fine(popup'[v], hints'[v])
    BY <1>3, FinePopups
  <1>5. LoadedFirst'
    BY <1>4 DEF LoadedFirst, Loaded, Fine
  <1> QED
    BY <1>2, <1>3, <1>5

\* The table is loaded into the popup.
LEMMA FillFine ==
    ASSUME TypeInv, InternalMasked(table), NEW u \in Users, Fill(u, table)
    PROVE  \E p, h : /\ Fine(p, h) /\ p.sent = popup[u].sent
                     /\ popup' = [popup EXCEPT ![u] = p] /\ hints' = [hints EXCEPT ![u] = h]
  <1> DEFINE h == IF hints[u] = NoHints THEN Served(u) ELSE hints[u]
             p == [popup[u] EXCEPT !.phase = "open", !.seen = table, !.opts = rights[u],
                                   !.rows = Filled(table.cols, h), !.stages = table.stages]
  <1>1. h \in HintSets
    BY ServedTyped DEF TypeInv
  <1>2. table \in Tables /\ table.cols \in [Columns -> Column] /\ table.stages \in Marks
    BY DEF TypeInv, Tables
  <1>3. rights[u] \in SUBSET ColumnClasses
    BY DEF TypeInv
  <1>4. popup' = [popup EXCEPT ![u] = p] /\ hints' = [hints EXCEPT ![u] = h]
    BY DEF Fill
  <1> HIDE DEF h
  <1>5. Filled(table.cols, h) \in [Columns -> Row]
    BY <1>1, <1>2, FilledRows
  <1>6. /\ p \in Popups /\ p.phase = "open" /\ p.seen = table /\ p.rows = Filled(table.cols, h)
        /\ p.sent = popup[u].sent
    BY <1>2, <1>3, <1>5, PopupFields DEF Popups, Phases
  <1> HIDE DEF p
  <1>7. MayHold(p, h, p.rows)
    BY <1>1, <1>2, <1>6, FilledAllowed
  <1>8. Fine(p, h)
    BY <1>1, <1>2, <1>6, <1>7 DEF Fine
  <1> QED
    BY <1>4, <1>6, <1>8

LEMMA EditFine ==
    ASSUME TypeInv, LoadedFirst, NEW u \in Users, NEW rows, Edited(u, rows),
           MayHold(popup[u], hints[u], rows)
    PROVE  \E p : Fine(p, hints[u]) /\ p.sent = popup[u].sent /\ popup' = [popup EXCEPT ![u] = p]
  <1> DEFINE p == [popup[u] EXCEPT !.rows = rows]
  <1>1. popup' = [popup EXCEPT ![u] = p] /\ popup[u].phase = "open"
    BY DEF Edited
  <1>2. /\ p \in Popups /\ p.phase = "open" /\ p.seen = popup[u].seen /\ p.opts = popup[u].opts
        /\ p.rows = rows /\ p.sent = popup[u].sent
    BY <1>1, PopupFields DEF Popups, MayHold
  <1> HIDE DEF p
  <1>3. Fine(popup[u], hints[u])
    BY FinePopups
  <1>4. MayHold(p, hints[u], rows)
    BY <1>2 DEF MayHold, Picked
  <1>5. Fine(p, hints[u])
    BY <1>1, <1>2, <1>3, <1>4 DEF Fine
  <1> QED
    BY <1>1, <1>2, <1>5

\* What people do in a popup.
LEMMA PopupStepFine ==
    ASSUME TypeInv, LoadedFirst, InternalMasked(table), NEW u \in Users, PopupStep(u)
    PROVE  /\ UNCHANGED <<tableVars, listVars, taskVars, faults>>
           /\ \E p, h : /\ Fine(p, h) /\ p.sent \subseteq popup[u].sent
                        /\ popup' = [popup EXCEPT ![u] = p] /\ hints' = [hints EXCEPT ![u] = h]
  <1>0. /\ Fine(popup[u], hints[u]) /\ popup[u] \in Popups
        /\ hints \in [Users -> {NoHints} \cup HintSets] /\ hints = [hints EXCEPT ![u] = hints[u]]
    BY FinePopups DEF TypeInv, Fine
  <1>1. ASSUME Open(u)
        PROVE  /\ UNCHANGED <<tableVars, listVars, taskVars, faults>>
               /\ \E p : /\ Fine(p, hints[u]) /\ p.sent \subseteq popup[u].sent
                         /\ popup' = [popup EXCEPT ![u] = p] /\ hints' = hints
    <2> DEFINE p == [Closed EXCEPT !.phase = "loading", !.from = screen[u]]
    <2>1. p \in Popups /\ p.phase = "loading" /\ p.rows = <<>> /\ p.sent = {}
      BY ClosedTyped DEF Closed, TypeInv, ListsTyped, Screens
    <2> QED
      BY <1>0, <1>1, <2>1 DEF Open, Fine
  <1>2. CASE Load(u) \/ Reload(u)
    BY <1>2, FillFine, Zenon DEF Load, Reload
  <1>3. ASSUME NEW rows, Edited(u, rows), MayHold(popup[u], hints[u], rows)
        PROVE  /\ UNCHANGED <<tableVars, listVars, taskVars, faults>> /\ hints' = hints
               /\ \E p : Fine(p, hints[u]) /\ p.sent \subseteq popup[u].sent /\ popup' = [popup EXCEPT ![u] = p]
    BY <1>3, EditFine DEF Edited
  <1>4. ASSUME NEW s \in Stages, Check(u, s)
        PROVE  /\ UNCHANGED <<tableVars, listVars, taskVars, faults>> /\ hints' = hints
               /\ \E p : Fine(p, hints[u]) /\ p.sent \subseteq popup[u].sent /\ popup' = [popup EXCEPT ![u] = p]
    <2> DEFINE st == Toggled(popup[u].stages, s)
               p  == [popup[u] EXCEPT !.stages = st]
    <2>1. popup' = [popup EXCEPT ![u] = p] /\ popup[u].phase = "open"
      BY <1>4 DEF Check
    <2>2. st \in Marks
      BY PopupFields DEF Toggled, Marks, NoStages
    <2>3. /\ p \in Popups /\ p.phase = "open" /\ p.seen = popup[u].seen /\ p.opts = popup[u].opts
          /\ p.rows = popup[u].rows /\ p.sent = popup[u].sent
      BY <2>1, <2>2, PopupFields DEF Popups
    <2> HIDE DEF p
    <2>4. Fine(p, hints[u])
      BY <1>0, <2>1, <2>3 DEF Fine, MayHold, Picked
    <2> QED
      BY <1>4, <2>1, <2>3, <2>4 DEF Check
  <1>5. CASE Save(u)
    <2> DEFINE p == [popup[u] EXCEPT !.phase = "saving"]
    <2>1. popup' = [popup EXCEPT ![u] = p] /\ popup[u].phase \in {"loading", "open"}
      BY <1>5 DEF Save
    <2>2. /\ p \in Popups /\ p.phase = "saving" /\ p.seen = popup[u].seen /\ p.opts = popup[u].opts
          /\ p.rows = popup[u].rows /\ p.sent = popup[u].sent
      BY PopupFields DEF Popups, Phases
    <2> HIDE DEF p
    <2>3. Fine(p, hints[u])
      BY <1>0, <2>1, <2>2 DEF Fine, MayHold, Picked
    <2> QED
      BY <1>0, <1>5, <2>1, <2>2, <2>3 DEF Save
  <1>6. CASE Cancel(u)
    <2>1. Fine(Closed, hints[u]) /\ Closed.sent = {}
      BY <1>0, ClosedTyped DEF Fine, Closed
    <2> QED
      BY <1>0, <1>6, <2>1 DEF Cancel
  <1>7. CASE \/ \E c \in Columns, x \in ColumnClasses \cup {Empty, Internal}, m \in Masks : EditCell(u, c, x, m)
             \/ \E x \in {<<>>} \cup {<<e>> : e \in ColumnClasses \cup {Empty}},
                   m \in {<<>>} \cup {<<k>> : k \in Masks} : Apply(u, x, m)
             \/ \E field \in {"classification", "mask"} : Revert(u, field)
    BY <1>0, <1>3, <1>7, EditsAllowed
  <1> QED
    BY <1>0, <1>1, <1>2, <1>4, <1>5, <1>6, <1>7 DEF PopupStep
-----------------------------------------------------------------------------
(* What the server and the network do. *)

LEMMA StoredTyped ==
    ASSUME TypeInv, LoadedFirst, InternalMasked(table), NEW u \in Users, popup[u].phase = "saving"
    PROVE  Stored(u) \in Tables /\ InternalMasked(Stored(u))
  <1>1. /\ table.cols \in [Columns -> Column] /\ table.stages \in Marks /\ popup[u].stages \in Marks
        /\ Fine(popup[u], hints[u])
    BY PopupFields, FinePopups DEF TypeInv, Tables
  <1>2. ASSUME NEW c \in Columns
        PROVE  LET s == IF c \in DOMAIN popup[u].rows THEN popup[u].rows[c] ELSE table.cols[c]
               IN s \in Column /\ (s.cls = Internal => s.mask = DefaultMask)
    <2>1. CASE popup[u].rows = <<>>
      <3>1. c \notin DOMAIN popup[u].rows
        BY <2>1
      <3> QED
        BY <1>1, <3>1 DEF InternalMasked
    <2>2. CASE popup[u].rows # <<>>
      <3>1. popup[u].rows \in [Columns -> Row]
            /\ (popup[u].rows[c].cls = Internal => popup[u].rows[c].mask = DefaultMask)
        BY <1>1, <2>2 DEF Fine, MayHold
      <3> QED
        BY <3>1 DEF Row
    <2> QED
      BY <2>1, <2>2
  <1> QED
    BY <1>1, <1>2 DEF Stored, Tables, InternalMasked

\* What a save writes, and what it leaves in its popup.
LEMMA DeliverTyped ==
    ASSUME TypeInv, LoadedFirst, InternalMasked(table), NEW u \in Users, Deliver(u)
    PROVE  /\ \E p : Fine(p, hints[u]) /\ popup' = [popup EXCEPT ![u] = p]
                     /\ \A l \in p.sent : ~l.sure /\ l.at = written' /\ written' = written + 1
           /\ hints' = hints
           /\ table' \in Tables /\ InternalMasked(table)' /\ told' \in BOOLEAN /\ blanked' \in BOOLEAN
           /\ written' \in 0 .. MaxWrites /\ written' \in {written, written + 1}
           /\ written' = written => table' = table
  <1>0. written \in 0 .. MaxWrites /\ MaxWrites \in Nat /\ told \in BOOLEAN /\ blanked \in BOOLEAN
        /\ hints[u] \in {NoHints} \cup HintSets
    BY PopupAssumption DEF TypeInv
  <1>1. CASE Passes(u)
    <2> DEFINE l == [state |-> StateOf(popup[u].rows), stages |-> popup[u].stages,
                     at |-> written + 1, sure |-> FALSE]
               p == [Closed EXCEPT !.phase = "saved", !.from = popup[u].from, !.sent = {l}]
    <2>1. /\ popup[u].phase = "saving" /\ written < MaxWrites /\ written' = written + 1
          /\ table' = Stored(u) /\ popup' = [popup EXCEPT ![u] = p] /\ hints' = hints
          /\ told' = Announced(popup[u].stages)
          /\ blanked' = (blanked \/ (popup[u].stages = NoStages /\ Verified(table.stages)))
      BY <1>1 DEF Deliver
    <2>2. table' \in Tables /\ InternalMasked(table')
      BY <2>1, StoredTyped
    <2>3. told' \in BOOLEAN /\ blanked' \in BOOLEAN
      BY <1>0, <2>1 DEF Announced, Verified
    <2>4. l \in Lists
      <3>1. StateOf(popup[u].rows) \in States
        BY DEF StateOf, States
      <3> QED
        BY <1>0, <2>1, <3>1, PopupFields DEF Lists
    <2>5. ~l.sure /\ l.at = written + 1
      OBVIOUS
    <2>6. p \in Popups /\ p.phase = "saved" /\ p.sent = {l}
      BY <2>4, PopupFields, ClosedTyped DEF Closed
    <2> HIDE DEF l, p
    <2>7. Fine(p, hints[u])
      BY <1>0, <2>6 DEF Fine
    <2>8. \A k \in p.sent : ~k.sure /\ k.at = written' /\ written' = written + 1
      BY <2>1, <2>5, <2>6
    <2>9. /\ written' \in 0 .. MaxWrites /\ written' \in {written, written + 1} /\ written' # written
      BY <1>0, <2>1
    <2>10. InternalMasked(table)'
      BY <2>2 DEF InternalMasked
    <2> QED
      BY <2>1, <2>2, <2>3, <2>7, <2>8, <2>9, <2>10
  <1>2. CASE ~Passes(u)
    <2>1. Fine(Failed, hints[u]) /\ Failed.sent = {}
      BY <1>0, ClosedTyped DEF Fine, Failed, Closed
    <2>2. UNCHANGED <<table, told, written, blanked, hints>> /\ popup' = [popup EXCEPT ![u] = Failed]
      BY <1>2 DEF Deliver
    <2> QED
      BY <1>0, <2>1, <2>2 DEF TypeInv, InternalMasked
  <1> QED
    BY <1>1, <1>2

LEMMA NetFine ==
    ASSUME TypeInv, LoadedFirst, NEW u \in Users, NetStep(u), ~Deliver(u)
    PROVE  /\ UNCHANGED tableVars
           /\ \E p, h : /\ Fine(p, h) /\ p.sent \subseteq popup[u].sent
                        /\ popup' = [popup EXCEPT ![u] = p] /\ hints' = [hints EXCEPT ![u] = h]
  <1>0. /\ Fine(popup[u], hints[u]) /\ popup = [popup EXCEPT ![u] = popup[u]]
        /\ hints = [hints EXCEPT ![u] = hints[u]]
    BY FinePopups DEF TypeInv
  <1>1. ASSUME NEW h \in {NoHints} \cup HintSets
        PROVE  /\ Fine(Closed, h) /\ Closed.sent = {}
               /\ Fine(Failed, h) /\ Failed.sent = {}
    BY ClosedTyped DEF Fine, Failed, Closed
  <1>2. CASE LoseSave(u) \/ Fail(u)
    BY <1>0, <1>1, <1>2 DEF LoseSave, Fail, Fine
  <1>3. CASE Answer(u)
    BY <1>1, <1>3 DEF Answer
  <1>4. CASE Visit(u)
    <2>1. Fine(popup[u], NoHints)
      BY <1>0, <1>4 DEF Visit, Fine
    <2> QED
      BY <1>0, <1>4, <2>1 DEF Visit
  <1>5. CASE ServeList(u) \/ ShowList(u) \/ LoseList(u) \/ Mark(u) \/ LoseMark(u)
    BY <1>0, <1>5 DEF ServeList, ShowList, LoseList, Mark, LoseMark, popupVars
  <1>6. CASE Focus(u) \/ Forget(u) \/ \E s \in Screens : Go(u, s)
    BY <1>0, <1>6 DEF Focus, Forget, Go, popupVars
  <1>7. UNCHANGED tableVars
    BY DEF NetStep, LoseSave, Fail, Answer, Visit, ServeList, ShowList, LoseList, Mark, LoseMark, Focus, Forget, Go
  <1> QED
    BY <1>2, <1>3, <1>4, <1>5, <1>6, <1>7 DEF NetStep, Screens
\* What is shown, asked for and done keeps its types.
LEMMA NetTyped ==
    ASSUME TypeInv, NEW u \in Users, NetStep(u)
    PROVE  /\ ListsTyped' /\ TroublesCounted' /\ UNCHANGED <<rights, turns>>
           /\ tasks' \in [Users -> BOOLEAN] /\ mark' \in [Users -> BOOLEAN] /\ done' \in BOOLEAN
  <1>0. /\ ListsTyped /\ TroublesCounted /\ MaxTroubles \in Nat
        /\ tasks \in [Users -> BOOLEAN] /\ mark \in [Users -> BOOLEAN] /\ done \in BOOLEAN
    BY PopupAssumption DEF TypeInv
  <1>1. Idle \in Fetches /\ Asked \in Fetches
    BY DEF Idle, Asked, Fetches
  <1>2. ASSUME MayTrouble, turns' = turns, faults' = faults + 1
        PROVE  TroublesCounted'
    BY <1>0, <1>2 DEF MayTrouble, TroublesCounted
  <1>3. ASSUME UNCHANGED <<turns, faults>>
        PROVE  TroublesCounted'
    BY <1>0, <1>3 DEF TroublesCounted
  <1>4. ASSUME UNCHANGED listVars
        PROVE  ListsTyped'
    BY <1>0, <1>4 DEF ListsTyped, listVars
  <1>5. CASE Deliver(u) \/ Fail(u)
    BY <1>0, <1>3, <1>4, <1>5 DEF Deliver, Fail, taskVars, tableVars
  <1>6. CASE LoseSave(u)
    BY <1>0, <1>2, <1>4, <1>6 DEF LoseSave, taskVars, tableVars
  <1>7. CASE Answer(u)
    <2>1. PICK sent \in popup[u].sent : /\ list' = [list EXCEPT ![u] = IF @ = {} THEN {} ELSE {sent}]
                                        /\ mine' = [mine EXCEPT ![u] = sent.at]
      BY <1>7 DEF Answer
    <2>2. sent \in Lists
      BY PopupFields
    <2>3. sent.at \in Nat
      BY <2>2, PopupAssumption DEF Lists
    <2>4. Refetch(u) \in Fetches
      BY <1>0, <1>1 DEF Refetch, ListsTyped, Fetches
    <2>5. ListsTyped'
      BY <1>0, <1>7, <2>1, <2>2, <2>3, <2>4 DEF Answer, ListsTyped
    <2>6. mark' \in [Users -> BOOLEAN]
      <3>1. mark' = [mark EXCEPT ![u] = mark[u] \/ popup[u].from = "tasks"]
        BY <1>7 DEF Answer
      <3>2. (mark[u] \/ popup[u].from = "tasks") \in BOOLEAN
        BY <1>0
      <3> HIDE <1>7
      <3> QED
        BY <1>0, <3>1, <3>2
    <2> QED
      BY <1>0, <1>3, <1>7, <2>5, <2>6 DEF Answer, tableVars
  <1>8. CASE ServeList(u)
    <2>1. Shown(table, written) \in Lists
      BY ShownTyped DEF TypeInv
    <2>2. [Idle EXCEPT !.got = {Shown(table, written)}] \in Fetches
      BY <2>1 DEF Idle, Fetches
    <2>3. ListsTyped'
      BY <1>0, <1>8, <2>2 DEF ServeList, ListsTyped
    <2> QED
      BY <1>0, <1>3, <1>8, <2>3 DEF ServeList, tableVars, taskVars
  <1>9. CASE ShowList(u)
    <2>1. PICK l \in fetch[u].got : list' = [list EXCEPT ![u] = {l}]
      BY <1>9 DEF ShowList
    <2>2. l \in Lists /\ fetch[u].late \in BOOLEAN
      BY <1>0 DEF ListsTyped, Fetches
    <2>3. ListsTyped'
      BY <1>0, <1>1, <1>9, <2>1, <2>2 DEF ShowList, ListsTyped
    <2> QED
      BY <1>0, <1>3, <1>9, <2>3 DEF ShowList, tableVars, taskVars
  <1>10. CASE Visit(u)
    <2>1. ListsTyped'
      BY <1>0, <1>1, <1>10 DEF Visit, ListsTyped
    <2>2. tasks' \in [Users -> BOOLEAN]
      BY <1>0, <1>10 DEF Visit
    <2> QED
      BY <1>0, <1>3, <1>10, <2>1, <2>2 DEF Visit, tableVars
  <1>11. CASE LoseList(u)
    <2>1. ListsTyped'
      BY <1>0, <1>1, <1>11 DEF LoseList, ListsTyped
    <2> QED
      BY <1>0, <1>2, <1>11, <2>1 DEF LoseList, tableVars, taskVars
  <1>12. CASE Mark(u)
    BY <1>0, <1>3, <1>4, <1>12 DEF Mark, tableVars
  <1>13. CASE LoseMark(u)
    <2>1. tasks' = tasks
      BY <1>0, <1>13 DEF LoseMark, LeftAfter
    <2>2. /\ mark' = [mark EXCEPT ![u] = FALSE] /\ done' \in {done, TRUE}
          /\ MayTrouble /\ faults' = faults + 1 /\ UNCHANGED <<tableVars, listVars>>
      BY <1>13 DEF LoseMark
    <2>3. mark' \in [Users -> BOOLEAN] /\ done' \in BOOLEAN
      BY <1>0, <2>2
    <2> QED
      BY <1>0, <1>2, <1>4, <2>1, <2>2, <2>3 DEF tableVars
  <1>14. CASE Focus(u) \/ Forget(u) \/ \E s \in Screens : Go(u, s)
    <2>1. ListsTyped'
      <3>1. CASE Focus(u) \/ Forget(u)
        BY <1>0, <1>1, <3>1 DEF Focus, Forget, ListsTyped
      <3>2. ASSUME NEW s \in Screens, Go(u, s)
            PROVE  ListsTyped'
        BY <1>0, <1>1, <3>2 DEF Go, ListsTyped
      <3> QED
        BY <1>14, <3>1, <3>2
    <2> QED
      BY <1>0, <1>3, <1>14, <2>1 DEF Focus, Forget, Go, tableVars, taskVars
  <1> QED
    BY <1>5, <1>6, <1>7, <1>8, <1>9, <1>10, <1>11, <1>12, <1>13, <1>14 DEF NetStep, Screens

World ==
    \/ \E m \in {Internal, Empty} : Upsert(m)
    \/ \E c \in Columns, x \in ColumnClasses \cup {Empty} : Reclassified(c, x)
    \/ \E stages \in [Stages -> BOOLEAN] : Rechecked(stages)
    \/ \E u \in Users, c \in ColumnClasses : Turn(u, c)

\* What others do to the table.
LEMMA WorldTyped ==
    ASSUME TypeInv, InternalMasked(table), World
    PROVE  /\ UNCHANGED <<popupVars, listVars, tasks, mark, faults>>
           /\ table' \in Tables /\ InternalMasked(table)' /\ told' \in BOOLEAN /\ blanked' = blanked
           /\ done' \in {done, TRUE}
           /\ written' \in 0 .. MaxWrites /\ written' \in {written, written + 1}
           /\ written' = written => table' = table
           /\ rights' \in [Users -> SUBSET ColumnClasses] /\ TroublesCounted'
  <1>0. /\ written \in 0 .. MaxWrites /\ MaxWrites \in Nat /\ told \in BOOLEAN /\ done \in BOOLEAN
        /\ table \in Tables /\ table.cols \in [Columns -> Column] /\ table.stages \in Marks
        /\ rights \in [Users -> SUBSET ColumnClasses] /\ TroublesCounted /\ MaxTroubles \in Nat
        /\ (UNCHANGED <<turns, faults>> => TroublesCounted')
    BY PopupAssumption DEF TypeInv, Tables, TroublesCounted
  <1>1. ASSUME NEW m \in {Internal, Empty}, Upsert(m)
        PROVE  table' \in Tables /\ InternalMasked(table')
    <2>1. [cls |-> m, mask |-> DefaultMask] \in Column
      BY PopupAssumption DEF Column
    <2>2. table' = [table EXCEPT !.cols = [c \in Columns |-> [cls |-> m, mask |-> DefaultMask]]]
      BY <1>1 DEF Upsert
    <2> QED
      BY <1>0, <2>1, <2>2 DEF Tables, InternalMasked
  <1>2. ASSUME NEW c \in Columns, NEW x \in ColumnClasses \cup {Empty}, Reclassified(c, x)
        PROVE  table' \in Tables /\ InternalMasked(table')
    <2>1. table' = [table EXCEPT !.cols = [table.cols EXCEPT ![c] = [table.cols[c] EXCEPT !.cls = x]]]
      BY <1>0, <1>2 DEF Reclassified, Elsewhere, Tables
    <2>2. [table.cols[c] EXCEPT !.cls = x] \in Column /\ x # Internal
      BY <1>0, PopupAssumption DEF Column
    <2>3. [table.cols[c] EXCEPT !.cls = x].cls = x
      BY <1>0 DEF Column
    <2> QED
      BY <1>0, <2>1, <2>2, <2>3 DEF Tables, InternalMasked
  <1>3. ASSUME NEW stages \in [Stages -> BOOLEAN], Rechecked(stages)
        PROVE  table' \in Tables /\ InternalMasked(table')
    BY <1>0, <1>3 DEF Rechecked, Elsewhere, Tables, InternalMasked, Marks
  <1>4. CASE \E m \in {Internal, Empty} : Upsert(m)
    BY <1>0, <1>1, <1>4 DEF Upsert, InternalMasked, popupVars, listVars, taskVars
  <1>5. ASSUME NEW t, Elsewhere(t), table' \in Tables, InternalMasked(table'), done' \in {done, TRUE}
        PROVE  /\ UNCHANGED <<popupVars, listVars, tasks, mark, faults, rights, turns, blanked>>
               /\ told' \in BOOLEAN /\ written' \in 0 .. MaxWrites /\ written' = written + 1
    <2>1. /\ UNCHANGED <<popupVars, listVars, tasks, mark, faults, rights, turns, blanked>>
          /\ written < MaxWrites /\ written' = written + 1
      BY <1>5 DEF Elsewhere
    <2>2. told' = told \/ told' = Verified(t.stages)
      BY <1>5, Zenon DEF Elsewhere
    <2>3. Verified(t.stages) \in BOOLEAN
      BY DEF Verified
    <2>4. told' \in BOOLEAN
      BY <1>0, <2>2, <2>3, Zenon
    <2>5. written' \in 0 .. MaxWrites
      BY <1>0, <2>1
    <2> QED
      BY <2>1, <2>4, <2>5
  <1>6. CASE \/ \E c \in Columns, x \in ColumnClasses \cup {Empty} : Reclassified(c, x)
             \/ \E stages \in [Stages -> BOOLEAN] : Rechecked(stages)
    <2>1. /\ table' \in Tables /\ InternalMasked(table') /\ done' \in {done, TRUE}
          /\ \E t : Elsewhere(t)
      BY <1>2, <1>3, <1>6, Zenon DEF Reclassified, Rechecked
    <2>2. /\ UNCHANGED <<popupVars, listVars, tasks, mark, faults, rights, turns, blanked>>
          /\ told' \in BOOLEAN /\ written' \in 0 .. MaxWrites /\ written' = written + 1
      BY <1>5, <2>1
    <2>3. UNCHANGED <<popupVars, listVars, tasks, mark, faults>> /\ UNCHANGED <<rights, turns, blanked>>
      BY <2>2
    <2>4. written' # written
      BY <1>0, <2>2
    <2> QED
      BY <1>0, <2>1, <2>2, <2>3, <2>4, Zenon DEF InternalMasked
  <1>7. CASE \E u \in Users, c \in ColumnClasses : Turn(u, c)
    <2>1. PICK u \in Users, c \in ColumnClasses : Turn(u, c)
      BY <1>7
    <2>2. rights' \in [Users -> SUBSET ColumnClasses]
      BY <1>0, <2>1 DEF Turn
    <2>3. UNCHANGED <<table, told, written, blanked, popupVars, listVars, taskVars, faults>>
          /\ turns' = turns + 1 /\ MayTrouble
      BY <2>1 DEF Turn
    <2>4. TroublesCounted'
      BY <1>0, <2>3 DEF TroublesCounted, MayTrouble
    <2> QED
      BY <1>0, <2>2, <2>3, <2>4 DEF InternalMasked, taskVars
  <1> QED
    BY <1>4, <1>6, <1>7 DEF World
\* The parts that say what a popup may hold.
HeldInv == TypeInv /\ LoadedFirst /\ InternalMasked(table)

LEMMA HeldNext ==
    ASSUME HeldInv, [PopupNext]_vars
    PROVE  HeldInv'
  <1>1. ASSUME NEW u \in Users, PopupStep(u)
        PROVE  HeldInv'
    <2>1. /\ UNCHANGED <<tableVars, listVars, taskVars, faults>>
          /\ \E p, h : /\ Fine(p, h) /\ popup' = [popup EXCEPT ![u] = p] /\ hints' = [hints EXCEPT ![u] = h]
      BY <1>1, PopupStepFine DEF HeldInv
    <2>2. popup' \in [Users -> Popups] /\ hints' \in [Users -> {NoHints} \cup HintSets] /\ LoadedFirst'
      BY <2>1, ChangedPopup DEF HeldInv
    <2> QED
      BY <2>1, <2>2 DEF HeldInv, TypeInv, ListsTyped, TroublesCounted, InternalMasked, tableVars, listVars, taskVars
  <1>2. ASSUME NEW u \in Users, Deliver(u)
        PROVE  HeldInv'
    <2>1. /\ \E p : Fine(p, hints[u]) /\ popup' = [popup EXCEPT ![u] = p]
          /\ hints' = [hints EXCEPT ![u] = hints[u]]
          /\ table' \in Tables /\ InternalMasked(table)' /\ told' \in BOOLEAN /\ blanked' \in BOOLEAN
          /\ written' \in 0 .. MaxWrites
      BY <1>2, DeliverTyped DEF HeldInv, TypeInv
    <2>2. popup' \in [Users -> Popups] /\ hints' \in [Users -> {NoHints} \cup HintSets] /\ LoadedFirst'
      BY <2>1, ChangedPopup DEF HeldInv
    <2>3. UNCHANGED <<rights, turns, listVars, taskVars, faults>>
      BY <1>2 DEF Deliver
    <2> QED
      BY <2>1, <2>2, <2>3 DEF HeldInv, TypeInv, ListsTyped, TroublesCounted, listVars, taskVars
  <1>3. ASSUME NEW u \in Users, NetStep(u), ~Deliver(u)
        PROVE  HeldInv'
    <2>1. /\ UNCHANGED tableVars
          /\ \E p, h : /\ Fine(p, h) /\ popup' = [popup EXCEPT ![u] = p] /\ hints' = [hints EXCEPT ![u] = h]
      BY <1>3, NetFine DEF HeldInv
    <2>2. popup' \in [Users -> Popups] /\ hints' \in [Users -> {NoHints} \cup HintSets] /\ LoadedFirst'
      BY <2>1, ChangedPopup DEF HeldInv
    <2>3. /\ ListsTyped' /\ TroublesCounted'
          /\ tasks' \in [Users -> BOOLEAN] /\ mark' \in [Users -> BOOLEAN] /\ done' \in BOOLEAN
      BY <1>3, NetTyped DEF HeldInv
    <2> QED
      BY <2>1, <2>2, <2>3 DEF HeldInv, TypeInv, InternalMasked, tableVars
  <1>4. ASSUME World
        PROVE  HeldInv'
    <2>1. /\ UNCHANGED <<popupVars, listVars, tasks, mark, faults>>
          /\ table' \in Tables /\ InternalMasked(table)' /\ told' \in BOOLEAN /\ blanked' = blanked
          /\ done' \in {done, TRUE} /\ written' \in 0 .. MaxWrites
          /\ rights' \in [Users -> SUBSET ColumnClasses] /\ TroublesCounted'
      BY <1>4, WorldTyped DEF HeldInv
    <2>2. done' \in BOOLEAN
      BY <2>1 DEF HeldInv, TypeInv
    <2>3. LoadedFirst'
      BY <2>1 DEF HeldInv, LoadedFirst, Loaded, popupVars
    <2> QED
      BY <2>1, <2>2, <2>3 DEF HeldInv, TypeInv, ListsTyped, popupVars, listVars
  <1>5. CASE UNCHANGED vars
    BY <1>5 DEF HeldInv, TypeInv, ListsTyped, TroublesCounted, LoadedFirst, Loaded, InternalMasked,
                vars, tableVars, popupVars, listVars, taskVars
  <1> QED
    BY <1>1, <1>2, <1>3, <1>4, <1>5 DEF PopupNext, World

LEMMA HeldInit == PopupInit => HeldInv
  <1> SUFFICES ASSUME PopupInit PROVE HeldInv
    OBVIOUS
  <1>1. TypeInv
    BY TypeInit
  <1>2. \A u \in Users : popup[u].phase = "closed"
    BY DEF PopupInit, Closed
  <1>3. InternalMasked(table)
    BY FirstAssumption DEF PopupInit, InternalMasked
  <1> QED
    BY <1>1, <1>2, <1>3 DEF HeldInv, LoadedFirst

LEMMA HeldInvariant == PopupSpec => []HeldInv
  BY HeldInit, HeldNext, PTL DEF PopupSpec

\* The popup of a table (ClassificationPopup.tsx) and what the browser caches keep
\* their types, whatever is loaded again, lost or changed elsewhere.
THEOREM TypeCorrect == PopupSpec => []PopupTypeOK
  <1>1. HeldInv => PopupTypeOK
    <2> SUFFICES ASSUME HeldInv PROVE PopupTypeOK
      OBVIOUS
    <2>1. ASSUME NEW u \in Users
          PROVE  /\ popup[u].phase \in Phases /\ popup[u].rows \in {<<>>} \cup [Columns -> Row]
                 /\ hints[u] \in {NoHints} \cup HintSets
                 /\ screen[u] \in Screens
                 /\ list[u] \subseteq Lists /\ stale[u] \in BOOLEAN /\ overtaken[u] \in BOOLEAN
                 /\ fetch[u].asked \in BOOLEAN /\ fetch[u].got \subseteq Lists /\ fetch[u].late \in BOOLEAN
                 /\ tasks[u] \in BOOLEAN /\ mark[u] \in BOOLEAN
      <3>1. fetch[u] \in Fetches /\ list[u] \in SUBSET Lists /\ screen[u] \in Screens
            /\ stale[u] \in BOOLEAN /\ overtaken[u] \in BOOLEAN
        BY DEF HeldInv, TypeInv, ListsTyped
      <3> QED
        BY <3>1, PopupFields DEF HeldInv, TypeInv, Fetches
    <2>2. turns + faults \in 0 .. MaxTroubles
      BY PopupAssumption DEF HeldInv, TypeInv, TroublesCounted
    <2> QED
      BY <2>1, <2>2 DEF HeldInv, TypeInv, PopupTypeOK, Phases, HintSets, Screens
  <1> QED
    BY <1>1, HeldInvariant, PTL

\* However suggestions, bulk edits, reverts and reloads are combined, the server does
\* not refuse a save of a popup that still shows the table, whose options are the rights
\* of the user and whose cached suggestions are among them (ClassificationPopup.tsx
\* against editTableById).
THEOREM CurrentSavesPass == PopupSpec => []CurrentSavePasses
  <1>1. HeldInv => CurrentSavePasses
    <2> SUFFICES ASSUME HeldInv, NEW u \in Users, popup[u].phase = "saving", Current(u),
                        NEW c \in DOMAIN popup[u].rows,
                        table.cols[c].cls # popup[u].rows[c].cls
                 PROVE  {table.cols[c].cls, popup[u].rows[c].cls} \ {Empty} \subseteq rights[u]
      BY DEF CurrentSavePasses, Passes
    <2>1. popup[u].rows # <<>>
      OBVIOUS
    <2>2. /\ hints[u] \in HintSets /\ popup[u].seen = table /\ popup[u].opts \subseteq rights[u]
          /\ MayHold(popup[u], hints[u], popup[u].rows)
      BY <2>1 DEF HeldInv, LoadedFirst, Loaded, Current
    <2>3. c \in Columns
      BY <2>2 DEF MayHold
    <2>4. hints[u] # NoHints
      BY <2>2, <2>3 DEF HintSets, NoHints
    <2>5. hints[u][c] \in rights[u] \cup {Empty}
      BY <2>3, <2>4 DEF Current
    <2> QED
      BY <2>2, <2>3, <2>5 DEF MayHold, Picked
  <1> QED
    BY <1>1, HeldInvariant, PTL

\* No save of a popup changes a column of an internal table, its mask included: neither
\* cells nor bulk edits reach its rows, and the server refuses its classification.
THEOREM InternalStays == PopupSpec => InternalUntouched
  <1>1. ASSUME HeldInv, NEW u \in Users, Deliver(u), NEW c \in Columns, table.cols[c].cls = Internal
        PROVE  table'.cols[c] = table.cols[c]
    <2>0. /\ table \in Tables /\ table.cols \in [Columns -> Column] /\ rights[u] \subseteq ColumnClasses
          /\ InternalMasked(table) /\ Fine(popup[u], hints[u]) /\ popup[u].phase = "saving"
      BY <1>1, FinePopups DEF HeldInv, TypeInv, Tables, Deliver
    <2>1. CASE ~Passes(u)
      BY <1>1, <2>1 DEF Deliver
    <2>2. CASE Passes(u) /\ c \notin DOMAIN popup[u].rows
      BY <1>1, <2>2 DEF Deliver, Stored
    <2>3. CASE Passes(u) /\ c \in DOMAIN popup[u].rows
      <3>1. table'.cols[c] = popup[u].rows[c]
        BY <1>1, <2>3 DEF Deliver, Stored
      <3>2. popup[u].rows[c].cls = Internal
        BY <1>1, <2>0, <2>3, PopupAssumption DEF Passes
      <3>3. popup[u].rows # <<>>
        BY <2>3
      <3>4. popup[u].rows[c] \in Column /\ popup[u].rows[c].mask = DefaultMask
        BY <2>0, <3>2, <3>3 DEF Fine, MayHold, Row
      <3>5. table.cols[c] \in Column /\ table.cols[c].mask = DefaultMask
        BY <1>1, <2>0 DEF InternalMasked
      <3> QED
        BY <1>1, <3>1, <3>2, <3>4, <3>5 DEF Column
    <2> QED
      BY <2>1, <2>2, <2>3
  <1>2. HeldInv /\ [PopupNext]_vars =>
            [\A u \in Users : Deliver(u) =>
                \A c \in Columns : table.cols[c].cls = Internal => table'.cols[c] = table.cols[c]]_vars
    BY <1>1
  <1> QED
    BY <1>2, HeldInvariant, PTL DEF PopupSpec, InternalUntouched
-----------------------------------------------------------------------------
(* What was announced, and what lists show. *)

\* A step that leaves the lists alone and dates what it writes.
LEMMA DatesKept ==
    ASSUME TypeInv, ListsDated, UNCHANGED listVars,
           written' \in {written, written + 1}, written' = written => table' = table,
           \A v \in Users : \A l \in popup'[v].sent : ~l.sure /\ l.at <= written'
    PROVE  ListsDated'
  <1>0. written \in Nat /\ UNCHANGED <<list, fetch, overtaken, mine>>
    BY PopupAssumption DEF TypeInv, listVars
  <1>1. ASSUME NEW l, l.at \in Nat, Dated(l)
        PROVE  l.at <= written' /\ (l.at = written' /\ l.sure => l = Shown(table', written'))
    <2>1. CASE written' = written
      BY <1>1, <2>1 DEF Dated, Shown
    <2>2. CASE written' = written + 1
      BY <1>0, <1>1, <2>2 DEF Dated
    <2> QED
      BY <2>1, <2>2
  <1>2. ASSUME NEW v \in Users
        PROVE  /\ mine[v] <= written'
               /\ \A l \in list[v] : (~overtaken[v] => mine[v] <= l.at) /\ Dated(l)'
               /\ \A l \in fetch[v].got : (~fetch[v].late => mine[v] <= l.at) /\ Dated(l)'
    <2>1. list[v] \subseteq Lists /\ fetch[v].got \subseteq Lists /\ mine[v] \in Nat
      BY DEF TypeInv, ListsTyped, Fetches
    <2>2. \A l \in Lists : l.at \in Nat
      BY PopupAssumption DEF Lists
    <2>3. mine[v] <= written'
      BY <1>0, <2>1 DEF ListsDated
    <2>4. \A l \in list[v] : (~overtaken[v] => mine[v] <= l.at) /\ Dated(l)'
      BY <1>1, <2>1, <2>2 DEF ListsDated, Dated, Shown
    <2>5. \A l \in fetch[v].got : (~fetch[v].late => mine[v] <= l.at) /\ Dated(l)'
      BY <1>1, <2>1, <2>2 DEF ListsDated, Dated, Shown
    <2> QED
      BY <2>3, <2>4, <2>5
  <1> QED
    BY <1>0, <1>2 DEF ListsDated

\* Lists that are cached or on their way are as before, or newly let in, or gone.
LEMMA DatesServed ==
    ASSUME HeldInv, ListsDated, NEW u \in Users, UNCHANGED <<tableVars, popup, mine>>,
           \A v \in Users \ {u} : UNCHANGED <<list[v], fetch[v], overtaken[v]>>,
           \A l \in list'[u] : (~overtaken'[u] => mine[u] <= l.at) /\ Dated(l),
           \A l \in fetch'[u].got : (~fetch'[u].late => mine[u] <= l.at) /\ Dated(l)
    PROVE  ListsDated'
  <1>1. \A l : Dated(l)' <=> Dated(l)
    BY DEF Dated, Shown, tableVars
  <1>2. ASSUME NEW v \in Users
        PROVE  /\ \A l \in list'[v] : (~overtaken'[v] => mine[v] <= l.at) /\ Dated(l)
               /\ \A l \in fetch'[v].got : (~fetch'[v].late => mine[v] <= l.at) /\ Dated(l)
    BY DEF ListsDated
  <1> QED
    BY <1>1, <1>2 DEF ListsDated, tableVars, Dated, Shown

\* The answers of the server, and what the browser makes of them.
LEMMA DatesAnswered ==
    ASSUME HeldInv, ListsDated, NEW u \in Users, UNCHANGED tableVars,
           \/ Answer(u) \/ ServeList(u) \/ ShowList(u) \/ Visit(u) \/ LoseList(u) \/ Focus(u) \/ Forget(u)
           \/ \E s \in Screens : Go(u, s)
    PROVE  ListsDated'
  <1>0. /\ UNCHANGED <<table, written>> /\ written \in Nat
        /\ popup \in [Users -> Popups] /\ list \in [Users -> SUBSET Lists] /\ fetch \in [Users -> Fetches]
        /\ mine \in [Users -> Nat] /\ overtaken \in [Users -> BOOLEAN]
    BY PopupAssumption DEF HeldInv, TypeInv, ListsTyped, tableVars
  <1>1. \A l : Dated(l)' <=> Dated(l)
    BY <1>0 DEF Dated, Shown
  <1>2. CASE Answer(u)
    <2>1. PICK sent \in popup[u].sent : /\ list' = [list EXCEPT ![u] = IF @ = {} THEN {} ELSE {sent}]
                                        /\ mine' = [mine EXCEPT ![u] = sent.at]
      BY <1>2 DEF Answer
    <2>2. sent.at \in Nat /\ sent \in Lists
      BY PopupFields, PopupAssumption DEF HeldInv, Lists
    <2>3. ~sent.sure /\ sent.at <= written
      BY <2>1 DEF ListsDated
    <2>4. /\ fetch' = [fetch EXCEPT ![u] = Refetch(u)] /\ popup' = [popup EXCEPT ![u] = Closed]
          /\ overtaken' = [overtaken EXCEPT ![u] = FALSE]
      BY <1>2 DEF Answer
    <2>5. popup'[u].sent = {}
      BY <1>0, <2>4 DEF Closed
    <2>6. /\ list'[u] \subseteq {sent} /\ mine'[u] = sent.at /\ fetch'[u] = Refetch(u)
          /\ \A v \in Users \ {u} : /\ list'[v] = list[v] /\ fetch'[v] = fetch[v] /\ mine'[v] = mine[v]
                                    /\ popup'[v] = popup[v] /\ overtaken'[v] = overtaken[v]
      BY <1>0, <2>1, <2>4
    <2>7. Dated(sent)
      BY <2>3 DEF Dated
    <2>8. \A l \in Refetch(u).got : Refetch(u).late /\ Dated(l)
      <3>1. CASE Refetch(u) = Asked
        BY <3>1 DEF Asked
      <3>2. CASE Refetch(u) = [fetch[u] EXCEPT !.late = fetch[u].late \/ fetch[u].got # {}]
        <4>1. fetch[u] \in Fetches
          BY <1>0
        <4>2. Refetch(u).got = fetch[u].got /\ (Refetch(u).late <=> fetch[u].late \/ fetch[u].got # {})
          BY <3>2, <4>1 DEF Fetches
        <4> QED
          BY <4>2 DEF ListsDated
      <3> QED
        BY <3>1, <3>2 DEF Refetch
    <2>9. ASSUME NEW v \in Users
          PROVE  /\ mine'[v] <= written
                 /\ \A l \in list'[v] : (~overtaken'[v] => mine'[v] <= l.at) /\ Dated(l)
                 /\ \A l \in fetch'[v].got : (~fetch'[v].late => mine'[v] <= l.at) /\ Dated(l)
                 /\ \A l \in popup'[v].sent : ~l.sure /\ l.at <= written
      <3>1. CASE v = u
        BY <2>2, <2>3, <2>5, <2>6, <2>7, <2>8, <3>1
      <3>2. CASE v # u
        BY <2>6, <3>2 DEF ListsDated
      <3> QED
        BY <3>1, <3>2
    <2> QED
      BY <1>0, <1>1, <2>9 DEF ListsDated, Dated, Shown
  <1>3. CASE ServeList(u)
    <2>1. /\ fetch' = [fetch EXCEPT ![u] = [Idle EXCEPT !.got = {Shown(table, written)}]]
          /\ UNCHANGED <<popup, list, overtaken, mine>>
      BY <1>3 DEF ServeList, popupVars
    <2>2. Dated(Shown(table, written)) /\ Shown(table, written).at = written
      BY <1>0 DEF Dated, Shown
    <2>3. fetch'[u].got = {Shown(table, written)} /\ \A v \in Users \ {u} : fetch'[v] = fetch[v]
      BY <1>0, <2>1 DEF Idle
    <2>4. \A l \in fetch'[u].got : mine[u] <= l.at /\ Dated(l)
      BY <2>2, <2>3 DEF ListsDated
    <2>5. \A l \in list'[u] : (~overtaken'[u] => mine[u] <= l.at) /\ Dated(l)
      BY <2>1 DEF ListsDated
    <2> QED
      BY <2>1, <2>3, <2>4, <2>5, DatesServed
  <1>4. CASE ShowList(u)
    <2>1. PICK l \in fetch[u].got : list' = [list EXCEPT ![u] = {l}]
      BY <1>4 DEF ShowList
    <2>2. /\ fetch' = [fetch EXCEPT ![u] = Idle] /\ overtaken' = [overtaken EXCEPT ![u] = fetch[u].late]
          /\ UNCHANGED <<popup, mine>>
      BY <1>4 DEF ShowList, popupVars
    <2>3. /\ list'[u] = {l} /\ fetch'[u].got = {} /\ overtaken'[u] = fetch[u].late
          /\ \A v \in Users \ {u} : UNCHANGED <<list[v], fetch[v], overtaken[v]>>
      BY <1>0, <2>1, <2>2 DEF Idle
    <2>4. \A k \in list'[u] : (~overtaken'[u] => mine[u] <= k.at) /\ Dated(k)
      BY <2>3 DEF ListsDated
    <2> QED
      BY <2>2, <2>3, <2>4, DatesServed
  <1>5. CASE Visit(u) \/ LoseList(u) \/ Focus(u) \/ Forget(u) \/ \E s \in Screens : Go(u, s)
    <2>1. /\ UNCHANGED <<popup, mine>>
          /\ \/ fetch' = [fetch EXCEPT ![u] = Asked]
             \/ fetch' = [fetch EXCEPT ![u] = Idle]
             \/ fetch' = fetch
          /\ \/ UNCHANGED <<list, overtaken>>
             \/ list' = [list EXCEPT ![u] = {}] /\ overtaken' = [overtaken EXCEPT ![u] = FALSE]
      BY <1>0, <1>5 DEF Visit, LoseList, Focus, Forget, Go, popupVars
    <2>2. \A v \in Users \ {u} : UNCHANGED <<list[v], fetch[v], overtaken[v]>>
      BY <1>0, <2>1
    <2>3. list'[u] = {} \/ UNCHANGED <<list[u], overtaken[u]>>
      BY <1>0, <2>1
    <2>4. fetch'[u].got = {} \/ fetch'[u] = fetch[u]
      BY <1>0, <2>1 DEF Asked, Idle
    <2>5. \A l \in list'[u] : (~overtaken'[u] => mine[u] <= l.at) /\ Dated(l)
      BY <2>3 DEF ListsDated
    <2>6. \A l \in fetch'[u].got : (~fetch'[u].late => mine[u] <= l.at) /\ Dated(l)
      BY <2>4 DEF ListsDated
    <2> QED
      BY <2>1, <2>2, <2>5, <2>6, DatesServed
  <1> QED
    BY <1>2, <1>3, <1>4, <1>5
LEMMA DatesNext ==
    ASSUME HeldInv, ListsDated, [PopupNext]_vars
    PROVE  ListsDated'
  <1>0. TypeInv /\ LoadedFirst /\ InternalMasked(table) /\ popup \in [Users -> Popups] /\ written \in Nat
    BY PopupAssumption DEF HeldInv, TypeInv
  <1>1. ASSUME NEW u \in Users, UNCHANGED <<table, written, listVars>>,
               NEW p, popup' = [popup EXCEPT ![u] = p], p.sent \subseteq popup[u].sent
        PROVE  ListsDated'
    <2>1. \A v \in Users : popup'[v].sent \subseteq popup[v].sent
      BY <1>0, <1>1
    <2>2. \A v \in Users : \A l \in popup'[v].sent : ~l.sure /\ l.at <= written'
      BY <1>1, <2>1 DEF ListsDated
    <2> QED
      BY <1>0, <1>1, <2>2, DatesKept
  <1>2. ASSUME NEW u \in Users, PopupStep(u)
        PROVE  ListsDated'
    <2>1. UNCHANGED <<table, written, listVars>>
          /\ \E p : popup' = [popup EXCEPT ![u] = p] /\ p.sent \subseteq popup[u].sent
      BY <1>0, <1>2, PopupStepFine DEF tableVars
    <2> QED
      BY <1>1, <1>2, <2>1
  <1>3. ASSUME NEW u \in Users, Deliver(u)
        PROVE  ListsDated'
    <2>1. PICK p : /\ popup' = [popup EXCEPT ![u] = p]
                   /\ \A l \in p.sent : ~l.sure /\ l.at = written' /\ written' = written + 1
      BY <1>0, <1>3, DeliverTyped
    <2>2. written' \in {written, written + 1} /\ (written' = written => table' = table)
      BY <1>0, <1>3, DeliverTyped
    <2>3. UNCHANGED listVars
      BY <1>3 DEF Deliver
    <2>4. ASSUME NEW v \in Users, NEW l \in popup'[v].sent
          PROVE  ~l.sure /\ l.at <= written'
      <3>1. CASE v = u
        BY <1>0, <2>1, <3>1
      <3>2. CASE v # u
        <4>1. l \in popup[v].sent /\ l \in Lists
          BY <1>0, <2>1, <3>2, PopupFields
        <4>2. l.at \in Nat
          BY <4>1, PopupAssumption DEF Lists
        <4> QED
          BY <1>0, <2>2, <4>1, <4>2 DEF ListsDated
      <3> QED
        BY <3>1, <3>2
    <2> QED
      BY <1>0, <2>2, <2>3, <2>4, DatesKept
  <1>4. ASSUME NEW u \in Users, LoseSave(u) \/ Fail(u) \/ Mark(u) \/ LoseMark(u)
        PROVE  ListsDated'
    <2>1. UNCHANGED <<table, written, listVars>>
          /\ \/ popup' = [popup EXCEPT ![u] = Closed]
             \/ popup' = [popup EXCEPT ![u] = Failed]
             \/ popup' = [popup EXCEPT ![u] = popup[u]]
      BY <1>0, <1>4 DEF LoseSave, Fail, Mark, LoseMark, tableVars, popupVars
    <2>2. Closed.sent = {} /\ Failed.sent = {}
      BY DEF Closed, Failed
    <2> QED
      BY <1>1, <2>1, <2>2
  <1>5. ASSUME NEW u \in Users,
               \/ Answer(u) \/ ServeList(u) \/ ShowList(u) \/ Visit(u) \/ LoseList(u) \/ Focus(u) \/ Forget(u)
               \/ \E s \in Screens : Go(u, s)
        PROVE  ListsDated'
    <2>1. UNCHANGED tableVars
      BY <1>5 DEF Answer, ServeList, ShowList, Visit, LoseList, Focus, Forget, Go
    <2> QED
      BY <1>5, <2>1, DatesAnswered
  <1>6. ASSUME World
        PROVE  ListsDated'
    <2>1. /\ UNCHANGED <<popup, listVars>>
          /\ written' \in {written, written + 1} /\ (written' = written => table' = table)
      BY <1>0, <1>6, WorldTyped DEF popupVars
    <2>2. ASSUME NEW v \in Users, NEW l \in popup'[v].sent
          PROVE  ~l.sure /\ l.at <= written'
      <3>1. l \in Lists
        BY <1>0, <2>1, PopupFields
      <3>2. l.at \in Nat
        BY <3>1, PopupAssumption DEF Lists
      <3> QED
        BY <1>0, <2>1, <3>2 DEF ListsDated
    <2> QED
      BY <1>0, <2>1, <2>2, DatesKept
  <1>7. CASE UNCHANGED vars
    BY <1>7 DEF ListsDated, Dated, Shown, vars, tableVars, popupVars, listVars
  <1> QED
    BY <1>2, <1>3, <1>4, <1>5, <1>6, <1>7 DEF PopupNext, World, NetStep, Screens

LEMMA DatesInit == PopupInit => ListsDated
  <1> SUFFICES ASSUME PopupInit PROVE ListsDated
    OBVIOUS
  <1>1. /\ written = 0 /\ popup = [u \in Users |-> Closed] /\ fetch = [u \in Users |-> Idle]
        /\ mine = [u \in Users |-> 0] /\ list = [u \in Users |-> {}]
    BY DEF PopupInit
  <1>2. Closed.sent = {} /\ Idle.got = {}
    BY DEF Closed, Idle
  <1>3. ASSUME NEW u \in Users
        PROVE  mine[u] = 0 /\ list[u] = {} /\ fetch[u].got = {} /\ popup[u].sent = {}
    BY <1>1, <1>2
  <1>4. 0 =< 0
    OBVIOUS
  <1> QED
    BY <1>1, <1>3, <1>4 DEF ListsDated

\* A browser that waits for nothing shows a list no older than its own last save: the
\* list it has made up after a save (ClassificationPopup.tsx, setQueryData) is replaced
\* only by one that was served later, or by one that was on its way when the save was
\* answered and that invalidateQueries left alone, because the list's screen was closed
\* or had none yet.
THEOREM OwnSavesShown == PopupSpec => []OwnSaveShown
  <1>1. HeldInv /\ ListsDated /\ [PopupNext]_vars => ListsDated'
    BY DatesNext
  <1>2. HeldInv /\ ListsDated => OwnSaveShown
    <2> SUFFICES ASSUME HeldInv, ListsDated, NEW u \in Users, NEW l \in list[u]
                 PROVE  /\ ~overtaken[u] => l.at >= mine[u]
                        /\ l.at = written /\ l.sure => l = Shown(table, written)
      BY DEF OwnSaveShown
    <2>1. l \in Lists /\ mine[u] \in Nat
      BY DEF HeldInv, TypeInv, ListsTyped
    <2>2. l.at \in Nat
      BY <2>1, PopupAssumption DEF Lists
    <2> QED
      BY <2>1, <2>2 DEF ListsDated, Dated
  <1> QED
    BY <1>1, <1>2, HeldInvariant, DatesInit, PTL DEF PopupSpec

\* What was announced about the verification of a table is what its stages say
\* (getFullVerificationDiff, updateTable), unless a popup without stages was saved over
\* a table that somebody had verified.
THEOREM VerificationsTold == PopupSpec => []VerificationTold
  <1>1. ASSUME HeldInv, VerificationTold, [PopupNext]_vars
        PROVE  VerificationTold'
    <2>1. ASSUME NEW u \in Users, Deliver(u), ~blanked'
          PROVE  told' = Verified(table.stages)'
      <3>1. CASE ~Passes(u)
        BY <1>1, <2>1, <3>1 DEF Deliver, VerificationTold, Verified
      <3>2. CASE Passes(u)
        <4>1. /\ table'.stages = Stored(u).stages /\ told' = Announced(popup[u].stages)
              /\ ~blanked /\ ~(popup[u].stages = NoStages /\ Verified(table.stages))
          BY <2>1, <3>2 DEF Deliver
        <4>2. told = Verified(table.stages)
          BY <1>1, <4>1 DEF VerificationTold
        <4>3. CASE popup[u].stages = NoStages
          <5>1. ~Verified(NoStages) /\ ~Verified(table.stages)
            BY <4>1, <4>3, PopupAssumption DEF Verified, NoStages
          <5> QED
            BY <4>1, <4>2, <4>3, <5>1, Zenon DEF Stored, Announced, Verified
        <4>4. CASE popup[u].stages # NoStages
          <5>1. table'.stages = popup[u].stages
            BY <4>1, <4>4 DEF Stored
          <5> QED
            BY <4>1, <4>2, <5>1 DEF Announced, Verified
        <4> QED
          BY <4>3, <4>4
      <3> QED
        BY <3>1, <3>2
    <2>2. ASSUME NEW t, Elsewhere(t), ~blanked'
          PROVE  told' = Verified(table.stages)'
      <3>1. /\ told' = IF Verified(t.stages) = Verified(table.stages) THEN told ELSE Verified(t.stages)
            /\ table' = t /\ ~blanked
        BY <2>2 DEF Elsewhere
      <3>2. told = Verified(table.stages)
        BY <1>1, <3>1 DEF VerificationTold
      <3>3. told' = Verified(t.stages)
        BY <3>1, <3>2, Zenon
      <3> QED
        BY <3>1, <3>3 DEF Verified
    <2>3. ASSUME NEW m \in {Internal, Empty}, Upsert(m)
          PROVE  UNCHANGED <<told, blanked>> /\ table'.stages = table.stages
      BY <1>1, <2>3 DEF Upsert, HeldInv, TypeInv, Tables
    <2>4. ASSUME UNCHANGED <<told, blanked, table>> \/ (UNCHANGED <<told, blanked>> /\ table'.stages = table.stages)
          PROVE  VerificationTold'
      BY <1>1, <2>4 DEF VerificationTold, Verified
    <2>5. ASSUME NEW u \in Users, PopupStep(u)
          PROVE  UNCHANGED <<told, blanked, table>>
      BY <1>1, <2>5, PopupStepFine DEF HeldInv, tableVars
    <2>6. ASSUME NEW u \in Users, NetStep(u), ~Deliver(u)
          PROVE  UNCHANGED <<told, blanked, table>>
      BY <1>1, <2>6, NetFine DEF HeldInv, tableVars
    <2>7. ASSUME NEW u \in Users, NEW c \in ColumnClasses, Turn(u, c)
          PROVE  UNCHANGED <<told, blanked, table>>
      BY <2>7 DEF Turn
    <2>8. CASE UNCHANGED vars
      BY <2>4, <2>8 DEF vars, tableVars
    <2> QED
      BY <1>1, <2>1, <2>2, <2>3, <2>4, <2>5, <2>6, <2>7, <2>8
         DEF PopupNext, Reclassified, Rechecked, VerificationTold
  <1>2. PopupInit => VerificationTold
    BY DEF PopupInit, VerificationTold, Verified
  <1> QED
    BY <1>1, <1>2, HeldInvariant, PTL DEF PopupSpec

\* A task that is not done stays on every screen that has not been told of its end, a
\* mutation that fails included (markTaskAsDoneMutation).
THEOREM TasksNotLost == PopupSpec => []TaskNotLost
  <1>1. ASSUME HeldInv, TaskNotLost, [PopupNext]_vars
        PROVE  TaskNotLost'
    <2>1. ASSUME NEW u \in Users, Visit(u) \/ Mark(u) \/ LoseMark(u)
          PROVE  TaskNotLost'
      <3>1. tasks \in [Users -> BOOLEAN]
        BY <1>1 DEF HeldInv, TypeInv
      <3>2. CASE Visit(u)
        BY <1>1, <3>1, <3>2 DEF Visit, TaskNotLost
      <3>3. CASE Mark(u)
        BY <3>3 DEF Mark, TaskNotLost
      <3>4. CASE LoseMark(u)
        <4>1. tasks' = tasks /\ done' \in {done, TRUE}
          BY <3>1, <3>4 DEF LoseMark, LeftAfter
        <4> QED
          BY <1>1, <4>1 DEF TaskNotLost
      <3> QED
        BY <2>1, <3>2, <3>3, <3>4
    <2>2. ASSUME done' \in {done, TRUE}, UNCHANGED tasks
          PROVE  TaskNotLost'
      BY <1>1, <2>2 DEF TaskNotLost
    <2>3. ASSUME NEW u \in Users, PopupStep(u)
          PROVE  UNCHANGED <<done, tasks>>
      BY <1>1, <2>3, PopupStepFine DEF HeldInv, taskVars
    <2>4. ASSUME NEW u \in Users,
                 \/ Deliver(u) \/ LoseSave(u) \/ Answer(u) \/ Fail(u) \/ ServeList(u) \/ ShowList(u) \/ LoseList(u)
                 \/ Focus(u) \/ Forget(u) \/ \E s \in Screens : Go(u, s)
          PROVE  UNCHANGED <<done, tasks>>
      BY <2>4 DEF Deliver, LoseSave, Answer, Fail, ServeList, ShowList, LoseList, Focus, Forget, Go, taskVars
    <2>5. ASSUME World
          PROVE  done' \in {done, TRUE} /\ UNCHANGED tasks
      BY <1>1, <2>5, WorldTyped DEF HeldInv
    <2>6. CASE UNCHANGED vars
      BY <2>2, <2>6 DEF vars, taskVars
    <2> QED
      BY <1>1, <2>1, <2>2, <2>3, <2>4, <2>5, <2>6 DEF PopupNext, NetStep, World, Screens
  <1>2. PopupInit => TaskNotLost
    BY DEF PopupInit, TaskNotLost
  <1> QED
    BY <1>1, <1>2, HeldInvariant, PTL DEF PopupSpec
\* What a browser shows of the table and its task settles on what the server has,
\* whatever is saved, fetched and lost meanwhile (ClassificationPopup.tsx, markTaskAsDoneMutation).
THEOREM ScreensSettled == PopupSpec => []ScreensSettle
  BY OwnSavesShown, TasksNotLost, PTL DEF ScreensSettle
-----------------------------------------------------------------------------
(***************************************************************************)
(* The screen of the permission groups, for every set of people, ids and   *)
(* names, any number of steps and requests, and whatever other people do.  *)
(*                                                                         *)
(* The list: each list that is shown or on its way is dated.  One that is  *)
(* dated with the last change shows the groups as they are, and one that   *)
(* is a change older shows them once the row of the group whose deletion   *)
(* was that change is taken out, which is why the answer to a deletion     *)
(* need not ask for the list again (Exact).  The form: what it is started  *)
(* from is the row of the list until it is noted as moved, so the entries  *)
(* that its fields protect are those that it was started with (Kept).      *)
(***************************************************************************)

\* The rows of R are those of the groups; that of g is taken out.
Matches(R) ==
    /\ DOMAIN R = DOMAIN groups
    /\ \A g \in DOMAIN groups :
          R[g].name = groups[g].name /\ R[g].owner = groups[g].owner /\ R[g].co = groups[g].co

Without(R, g) == [h \in DOMAIN R \ {g} |-> R[h]]

Deleted(c) == c.kind = "delete" /\ c.state = "done"

ExactAt(R, at) ==
    /\ at = changes => Matches(R)
    /\ \A c \in calls : Deleted(c) /\ c.at = changes /\ at + 1 = changes => Matches(Without(R, c.g))

Exact ==
    /\ groupList.sure => ExactAt(groupList.rows, groupList.at)
    /\ \A l \in groupFetch.got : ExactAt(l.rows, l.at)

GroupsDated ==
    /\ groupList.at <= changes /\ acknowledged <= changes
    /\ \A c \in calls : c.at <= changes
    /\ \A l \in groupFetch.got : acknowledged <= l.at /\ l.at <= changes
    /\ groupFetch = NotAsked => acknowledged <= groupList.at

\* An id is given once.
Gone == \A c \in calls : Deleted(c) => c.g \in used \ DOMAIN groups

\* What a form keeps of owners and co-owners.
Kept(f) ==
    /\ f.passed => Me \in f.co
    /\ ~f.asOwner /\ ~f.moved => f.seen.owner = f.owner /\ f.seen.co \subseteq f.co

\* A form that is open is that of a row.
OfRow(f, R) == f.open => f.g \in DOMAIN R /\ (~f.moved => R[f.g] = f.seen)

FormKept == Kept(details) /\ OfRow(details, groupList.rows)

CallsKept ==
    \A c \in calls :
        /\ Kept(c.form)
        /\ c.kind # "add" \/ c.state = "done" => c.g \in GroupIds
        /\ c.state = "sent" /\ c.kind = "add" => c.form.name \in Names
        /\ c.state = "sent" /\ c.kind = "edit" =>
              c.form.name \in Names /\ c.form.owner \in People /\ c.form.co \subseteq People

GroupInv == GroupTypeOK /\ GroupsDated /\ Exact /\ Gone /\ FormKept /\ CallsKept
-----------------------------------------------------------------------------
(* Rows, forms and calls.                                                    *)

LEMMA ListingsAre ==
    ASSUME NEW R
    PROVE  R \in Listings <=> DOMAIN R \subseteq GroupIds /\ R \in [DOMAIN R -> GroupRow]
  BY DEF Listings

LEMMA PutRow ==
    ASSUME NEW R \in Listings, NEW g \in GroupIds, NEW x \in GroupRow
    PROVE  Put(R, g, x) \in Listings /\ DOMAIN Put(R, g, x) = DOMAIN R \cup {g}
  BY ListingsAre DEF Put

LEMMA WithoutRow ==
    ASSUME NEW R \in Listings, NEW g
    PROVE  Without(R, g) \in Listings
  BY ListingsAre DEF Without

LEMMA ListingFacts ==
    ASSUME GroupTypeOK
    PROVE  Listing \in Listings /\ Matches(Listing)
<1>1. \A g \in DOMAIN groups : groups[g] \in Group
  BY DEF GroupTypeOK
<1>2. \A g \in DOMAIN groups : Listing[g] \in GroupRow
  BY <1>1 DEF Listing, GroupRow, Group
<1>3. DOMAIN Listing \subseteq GroupIds /\ DOMAIN Listing = DOMAIN groups
  BY DEF Listing, GroupTypeOK
<1>4. Listing \in [DOMAIN Listing -> GroupRow]
  BY <1>2, <1>3 DEF Listing
<1>5. QED
  BY <1>3, <1>4, ListingsAre DEF Matches, Listing

LEMMA NoFormType == NoForm \in DetailsForm /\ Kept(NoForm) /\ ~NoForm.open
  BY DEF NoForm, DetailsForm, Stub, GroupRow, Kept

LEMMA SeenFacts ==
    ASSUME NEW f \in DetailsForm, Kept(f), NEW R \in Listings
    PROVE  Seen(R, f) \in DetailsForm /\ Kept(Seen(R, f)) /\ OfRow(Seen(R, f), R)
<1>1. CASE f.open /\ f.g \notin DOMAIN R
  <2>1. Seen(R, f) = NoForm
    BY <1>1 DEF Seen
  <2>2. QED
    BY <2>1, NoFormType DEF OfRow
<1>2. CASE ~(f.open /\ f.g \notin DOMAIN R)
  <2>1. Seen(R, f) = [f EXCEPT !.moved = @ \/ (f.open /\ R[f.g] # f.seen)]
    BY <1>2 DEF Seen
  <2>2. QED
    BY <1>2, <2>1 DEF OfRow, Kept, DetailsForm
<1>3. QED
  BY <1>1, <1>2

LEMMA RoleType == ASSUME NEW g PROVE Role(g) \in {"none", "co_owner", "owner"}
  BY DEF Role
-----------------------------------------------------------------------------
(* Steps that leave the groups and the list alone.                           *)

LEMMA ListsStay ==
    ASSUME GroupInv, UNCHANGED <<groups, used, groupList, groupFetch, changes, acknowledged>>,
           \A c \in calls' : c \in calls \/ (c.at <= changes /\ c.state # "done")
    PROVE  GroupsDated' /\ Exact' /\ Gone'
<1>1. GroupsDated'
  BY DEF GroupInv, GroupsDated
<1>2. \A c \in calls' : Deleted(c) => c \in calls
  BY DEF Deleted
<1>3. \A R, at : ExactAt(R, at) => ExactAt(R, at)'
  BY <1>2 DEF ExactAt, Matches
<1>4. Exact'
  BY <1>3 DEF GroupInv, Exact
<1>5. Gone'
  BY <1>2 DEF GroupInv, Gone
<1>6. QED
  BY <1>1, <1>4, <1>5

LEMMA OpensForm == ASSUME GroupInv, NEW g \in GroupIds, OpenForm(g) PROVE GroupInv'
<1> DEFINE R == groupList.rows
<1>1. R \in Listings /\ g \in DOMAIN R /\ R[g] \in GroupRow
  BY ListingsAre DEF GroupInv, GroupTypeOK, OpenForm
<1>2. details' = [open |-> TRUE, g |-> g, seen |-> R[g], name |-> R[g].name, owner |-> R[g].owner,
                  co |-> R[g].co, twice |-> NoOne, passed |-> FALSE, asOwner |-> FALSE, moved |-> FALSE]
  BY DEF OpenForm, NoForm, RowOf
<1>3. details' \in DetailsForm /\ Kept(details')
  BY <1>1, <1>2 DEF DetailsForm, GroupRow, Kept
<1>4. OfRow(details, groupList.rows)'
  <2>1. details'.g = g /\ details'.seen = R[g]
    BY <1>2
  <2>2. groupList'.rows = R
    BY DEF OpenForm
  <2>3. QED
    BY <1>1, <2>1, <2>2 DEF OfRow
<1>5. groupRights' \in [GroupIds -> {"unknown", "none", "co_owner", "owner"}]
  BY RoleType DEF OpenForm, GroupInv, GroupTypeOK
<1>6. GroupTypeOK'
  BY <1>3, <1>5 DEF OpenForm, GroupInv, GroupTypeOK
<1>7. GroupsDated' /\ Exact' /\ Gone'
  BY ListsStay DEF OpenForm
<1>8. CallsKept'
  BY DEF OpenForm, GroupInv, CallsKept
<1>9. QED
  BY <1>3, <1>4, <1>6, <1>7, <1>8 DEF GroupInv, FormKept

\* What an edit has to respect: it keeps the group and what the form was started with,
\* and whoever lacks the rights of an owner keeps the owners.
LEMMA EditsForm ==
    ASSUME GroupInv, NEW f \in DetailsForm, EditedDetails(f),
           f.open = details.open, f.g = details.g, f.seen = details.seen,
           f.moved = details.moved, f.asOwner = details.asOwner,
           f.passed => Me \in f.co,
           ~OwnerRights(details.g) /\ ~details.asOwner /\ ~details.moved =>
               f.seen.owner = f.owner /\ f.seen.co \subseteq f.co
    PROVE  GroupInv'
<1>1. details' = [f EXCEPT !.asOwner = @ \/ OwnerRights(details.g)]
  BY DEF EditedDetails
<1>2. details' \in DetailsForm /\ Kept(details')
  BY <1>1 DEF DetailsForm, Kept
<1>3. OfRow(details, groupList.rows)'
  BY <1>1 DEF EditedDetails, OfRow, GroupInv, FormKept, DetailsForm
<1>4. GroupTypeOK'
  BY <1>2 DEF EditedDetails, GroupInv, GroupTypeOK
<1>5. GroupsDated' /\ Exact' /\ Gone'
  BY ListsStay DEF EditedDetails
<1>6. CallsKept'
  BY DEF EditedDetails, GroupInv, CallsKept
<1>7. QED
  BY <1>2, <1>3, <1>4, <1>5, <1>6 DEF GroupInv, FormKept

LEMMA Renames == ASSUME GroupInv, NEW n \in Names, Rename(n) PROVE GroupInv'
<1> DEFINE f == [details EXCEPT !.name = n]
<1>1. f \in DetailsForm
  BY DEF GroupInv, GroupTypeOK, DetailsForm
<1>2. EditedDetails(f)
  BY DEF Rename
<1>3. /\ f.open = details.open /\ f.g = details.g /\ f.seen = details.seen
      /\ f.moved = details.moved /\ f.asOwner = details.asOwner
      /\ f.passed = details.passed /\ f.co = details.co /\ f.owner = details.owner
  BY DEF GroupInv, GroupTypeOK, DetailsForm
<1>4. Kept(details)
  BY DEF GroupInv, FormKept
<1> HIDE DEF f
<1>5. QED
  BY <1>1, <1>2, <1>3, <1>4, EditsForm DEF Kept

LEMMA ChoosesOwner ==
    ASSUME GroupInv, NEW u \in People \cup {NoOne}, ChooseOwner(u) PROVE GroupInv'
<1> DEFINE f == WithOwner(details, u)
           passes == details.owner = Me /\ u # Me
<1>1. details \in DetailsForm /\ Kept(details) /\ Me \in People
  BY GroupScreenAssumption DEF GroupInv, GroupTypeOK, FormKept
<1>2. /\ f.open = details.open /\ f.g = details.g /\ f.seen = details.seen
      /\ f.moved = details.moved /\ f.asOwner = details.asOwner
      /\ f.passed = IF passes THEN u \notin details.co ELSE details.passed /\ u # Me
      /\ f.co = IF u \in details.co THEN details.co \ {u}
                ELSE IF passes THEN details.co \cup {Me} ELSE details.co
  BY <1>1 DEF WithOwner, DetailsForm
<1>3. f \in DetailsForm
  <2> DEFINE co == IF u \in details.co THEN details.co \ {u}
                   ELSE IF passes THEN details.co \cup {Me} ELSE details.co
             twice == IF details.twice = u THEN NoOne ELSE details.twice
             passed == IF passes THEN u \notin details.co ELSE details.passed /\ u # Me
  <2>1. co \in SUBSET (People \cup {Blank}) /\ twice \in People \cup {Blank, NoOne} /\ passed \in BOOLEAN
    BY <1>1 DEF DetailsForm
  <2>2. f = [details EXCEPT !.owner = u, !.co = co, !.twice = twice, !.passed = passed]
    BY DEF WithOwner
  <2> HIDE DEF f, co, twice, passed
  <2>3. QED
    BY <1>1, <2>1, <2>2 DEF DetailsForm
<1>4. EditedDetails(f) /\ OwnerRights(details.g)
  BY DEF ChooseOwner
<1>5. f.passed => Me \in f.co
  BY <1>1, <1>2 DEF Kept
<1> HIDE DEF f
<1>6. QED
  BY <1>2, <1>3, <1>4, <1>5, EditsForm

\* The co-owners of the row stay for whom may not dismiss any.
LEMMA ChangesCoOwners ==
    ASSUME GroupInv, details.open, NEW co \in SUBSET (People \cup {Blank}),
           NEW twice \in People \cup {Blank, NoOne}, NEW by, WithCoOwners(co, twice, by),
           details.co \ {by} \subseteq co,
           ~OwnerRights(details.g) => RowOf(details.g).co \subseteq co
    PROVE  GroupInv'
<1> DEFINE f == [details EXCEPT !.co = co, !.twice = twice, !.passed = @ /\ by # Me]
<1>1. details \in DetailsForm /\ Kept(details) /\ OfRow(details, groupList.rows)
  BY DEF GroupInv, GroupTypeOK, FormKept
<1>2. /\ f.open = details.open /\ f.g = details.g /\ f.seen = details.seen
      /\ f.moved = details.moved /\ f.asOwner = details.asOwner
      /\ f.owner = details.owner /\ f.co = co
      /\ f.passed = (details.passed /\ by # Me)
  BY <1>1 DEF DetailsForm
<1>3. f \in DetailsForm
  BY <1>1 DEF DetailsForm
<1>4. EditedDetails(f)
  BY DEF WithCoOwners
<1>5. f.passed => Me \in f.co
  BY <1>1, <1>2 DEF Kept
<1>6. ~OwnerRights(details.g) /\ ~details.asOwner /\ ~details.moved =>
         f.seen.owner = f.owner /\ f.seen.co \subseteq f.co
  BY <1>1, <1>2 DEF Kept, OfRow, RowOf
<1> HIDE DEF f
<1>7. QED
  BY <1>2, <1>3, <1>4, <1>5, <1>6, EditsForm

LEMMA ShownFacts ==
    ASSUME GroupInv, details.open
    PROVE  /\ ShownCoOwners \in SUBSET (People \cup {Blank}) /\ details.co \subseteq ShownCoOwners
           /\ ~OwnerRights(details.g) =>
                 RowOf(details.g).co \subseteq ShownCoOwners /\ Protected = RowOf(details.g).co
<1>1. details.g \in DOMAIN groupList.rows /\ groupList.rows \in Listings
  BY DEF GroupInv, GroupTypeOK, FormKept, OfRow
<1>2. RowOf(details.g).co \subseteq People
  BY <1>1, ListingsAre DEF RowOf, GroupRow
<1>3. details.co \subseteq People \cup {Blank}
  BY DEF GroupInv, GroupTypeOK, DetailsForm
<1>4. QED
  BY <1>2, <1>3 DEF ShownCoOwners, Protected

LEMMA EditsAny == ASSUME GroupInv, details.open, EditForm PROVE GroupInv'
<1>1. ASSUME NEW n \in Names, Rename(n) PROVE GroupInv'
  BY <1>1, Renames
<1>2. ASSUME NEW u \in People \cup {NoOne}, ChooseOwner(u) PROVE GroupInv'
  BY <1>2, ChoosesOwner
<1>3. ASSUME AddEntry PROVE GroupInv'
  <2>1. WithCoOwners(ShownCoOwners \cup {Blank}, NoOne, NoOne)
    BY <1>3 DEF AddEntry
  <2>2. QED
    BY <2>1, ShownFacts, ChangesCoOwners
<1>4. ASSUME NEW old \in ShownCoOwners, NEW u \in People \cup {Blank}, SelectCoOwner(old, u)
      PROVE  GroupInv'
  <2>1. old \in ShownCoOwners \ Protected
    BY <1>4 DEF SelectCoOwner, Selectable
  <2>2. WithCoOwners((ShownCoOwners \ {old}) \cup {u}, IF u \in ShownCoOwners THEN u ELSE NoOne, old)
    BY <1>4 DEF SelectCoOwner
  <2>3. (ShownCoOwners \ {old}) \cup {u} \in SUBSET (People \cup {Blank})
    BY <1>4, ShownFacts
  <2>4. QED
    BY <2>1, <2>2, <2>3, ShownFacts, ChangesCoOwners
<1>5. ASSUME NEW old \in ShownCoOwners, RemoveEntry(old) PROVE GroupInv'
  <2>1. old \in ShownCoOwners \ Protected /\ WithCoOwners(ShownCoOwners \ {old}, NoOne, old)
    BY <1>5 DEF RemoveEntry
  <2>2. QED
    BY <2>1, ShownFacts, ChangesCoOwners
<1>6. QED
  BY <1>1, <1>2, <1>3, <1>4, <1>5 DEF EditForm

LEMMA ClosesForm == ASSUME GroupInv, CloseForm PROVE GroupInv'
<1>1. details' = NoForm
  BY DEF CloseForm
<1>2. GroupTypeOK'
  BY <1>1, NoFormType DEF CloseForm, GroupInv, GroupTypeOK
<1>3. GroupsDated' /\ Exact' /\ Gone'
  BY ListsStay DEF CloseForm
<1>4. FormKept'
  BY <1>1, NoFormType DEF FormKept, OfRow
<1>5. CallsKept'
  BY DEF CloseForm, GroupInv, CallsKept
<1>6. QED
  BY <1>2, <1>3, <1>4, <1>5 DEF GroupInv

\* A request is sent.
LEMMA Sends ==
    ASSUME GroupInv, NEW c \in GroupCall, ~Calling(c.kind), c.state = "sent", c.at = 0,
           calls' = calls \cup {c},
           UNCHANGED <<groups, used, groupList, groupFetch, groupRights, changes, acknowledged, typed, lost>>,
           selected' \in GroupIds \cup {NoOne}, details' \in {details, NoForm},
           Kept(c.form), c.kind # "add" => c.g \in GroupIds,
           c.kind = "add" => c.form.name \in Names,
           c.kind = "edit" => c.form.name \in Names /\ c.form.owner \in People /\ c.form.co \subseteq People
    PROVE  GroupInv'
<1>1. \A d \in calls : d.kind # c.kind
  BY DEF Calling
<1>2. GroupTypeOK'
  <2>1. details' \in DetailsForm
    BY NoFormType DEF GroupInv, GroupTypeOK
  <2>2. \A b, d \in calls' : b.kind = d.kind => b = d
    BY <1>1 DEF GroupInv, GroupTypeOK
  <2>3. calls' \subseteq GroupCall
    BY DEF GroupInv, GroupTypeOK
  <2>4. QED
    BY <2>1, <2>2, <2>3 DEF GroupInv, GroupTypeOK
<1>3. GroupsDated' /\ Exact' /\ Gone'
  <2>1. c.at <= changes
    BY DEF GroupInv, GroupTypeOK
  <2>2. QED
    BY <2>1, ListsStay
<1>4. FormKept'
  BY NoFormType DEF GroupInv, FormKept, OfRow
<1>5. CallsKept'
  BY DEF GroupInv, CallsKept
<1>6. QED
  BY <1>2, <1>3, <1>4, <1>5 DEF GroupInv

LEMMA SubmitsForm == ASSUME GroupInv, SubmitForm PROVE GroupInv'
<1> DEFINE c == [kind |-> "edit", state |-> "sent", g |-> details.g, at |-> 0, row |-> RowOf(details.g),
                 form |-> details]
<1>1. details \in DetailsForm /\ Kept(details) /\ details.g \in DOMAIN groupList.rows
  BY DEF GroupInv, GroupTypeOK, FormKept, OfRow, SubmitForm
<1>2. RowOf(details.g) \in GroupRow
  BY <1>1, ListingsAre DEF GroupInv, GroupTypeOK, RowOf
<1>3. c \in GroupCall
  BY <1>1, <1>2 DEF GroupCall, DetailsForm
<1>4. details.name \in Names /\ details.owner \in People /\ details.co \subseteq People
  BY <1>1 DEF SubmitForm, Submittable, DetailsForm
<1>5. details.g \in GroupIds
  BY <1>1, ListingsAre DEF GroupInv, GroupTypeOK
<1>6. QED
  BY <1>1, <1>3, <1>4, <1>5, Sends DEF SubmitForm, GroupInv, GroupTypeOK

LEMMA Adds == ASSUME GroupInv, NEW n \in Names, Add(n) PROVE GroupInv'
<1> DEFINE row == IF selected \in DOMAIN groupList.rows THEN RowOf(selected) ELSE Stub
           added == [NoForm EXCEPT !.name = n]
           c == [kind |-> "add", state |-> "sent", g |-> NoOne, at |-> 0, row |-> row, form |-> added]
<1>1. row \in GroupRow
  BY ListingsAre DEF GroupInv, GroupTypeOK, RowOf, Stub, GroupRow
<1>2. added \in DetailsForm /\ Kept(added) /\ added.name = n
  BY DEF NoForm, DetailsForm, Stub, GroupRow, Kept
<1>3. calls' = calls \cup {c}
  BY DEF Add
<1> HIDE DEF row, added
<1>4. c \in GroupCall
  BY <1>1, <1>2 DEF GroupCall
<1>5. QED
  BY <1>2, <1>3, <1>4, Sends DEF Add, GroupInv, GroupTypeOK

LEMMA Deletes == ASSUME GroupInv, NEW g \in GroupIds, Delete(g) PROVE GroupInv'
<1> DEFINE c == [kind |-> "delete", state |-> "sent", g |-> g, at |-> 0, row |-> Stub, form |-> NoForm]
<1>1. c \in GroupCall
  BY NoFormType DEF GroupCall, Stub, GroupRow
<1>2. calls' = calls \cup {c}
  BY DEF Delete
<1>3. QED
  BY <1>1, <1>2, NoFormType, Sends DEF Delete
-----------------------------------------------------------------------------
(* Steps of the server, and what is lost.                                    *)

LEMMA GroupsChange ==
    ASSUME GroupInv, changes' = changes + 1, UNCHANGED <<groupList, groupFetch, acknowledged>>,
           \A c \in calls' : c.at <= changes',
           \A c \in calls' : Deleted(c) =>
               c \in calls \/ (c.at = changes' /\ groups' = Without(groups, c.g))
    PROVE  GroupsDated' /\ Exact'
<1>1. changes \in Nat /\ acknowledged \in Nat /\ groupList.at \in Nat /\ \A l \in groupFetch.got : l.at \in Nat
  BY DEF GroupInv, GroupTypeOK
<1>2. GroupsDated'
  BY <1>1 DEF GroupInv, GroupsDated
<1>3. ASSUME NEW R, NEW at \in Nat, at <= changes, at = changes => Matches(R)
      PROVE  ExactAt(R, at)'
  <2>1. at # changes'
    BY <1>1, <1>3
  <2>2. ASSUME NEW c \in calls', Deleted(c), c.at = changes', at + 1 = changes'
        PROVE  Matches(Without(R, c.g))'
    <3>1. c \notin calls
      BY <1>1, <2>2 DEF GroupInv, GroupsDated
    <3>2. groups' = Without(groups, c.g) /\ Matches(R)
      BY <1>1, <1>3, <2>2, <3>1
    <3>3. QED
      BY <3>2 DEF Matches, Without
  <2>3. QED
    BY <2>1, <2>2 DEF ExactAt, Deleted
<1>4. groupList.sure' => ExactAt(groupList.rows, groupList.at)'
  BY <1>1, <1>3 DEF GroupInv, Exact, ExactAt, GroupsDated
<1>5. \A l \in groupFetch'.got : ExactAt(l.rows, l.at)'
  <2> SUFFICES ASSUME NEW l \in groupFetch.got PROVE ExactAt(l.rows, l.at)'
    OBVIOUS
  <2>1. l.at \in Nat /\ l.at <= changes /\ (l.at = changes => Matches(l.rows))
    BY <1>1 DEF GroupInv, Exact, ExactAt, GroupsDated
  <2>2. QED
    BY <1>3, <2>1
<1>6. QED
  BY <1>2, <1>4, <1>5 DEF Exact

\* The call that was served, and the others.
LEMMA CallsServed ==
    ASSUME GroupInv, NEW c \in calls, NEW g \in GroupIds \cup {NoOne}, NEW state \in {"done", "failed"},
           changes' \in Nat, changes <= changes', Answered(c, g, state),
           c.kind # "add" \/ state = "done" => g \in GroupIds
    PROVE  /\ calls' \subseteq GroupCall
           /\ \A b, d \in calls' : b.kind = d.kind => b = d
           /\ \A d \in calls' : d \in calls \/ (d.kind = c.kind /\ d.state = state /\ d.g = g /\ d.at = changes')
           /\ \A d \in calls' : d.at <= changes'
           /\ CallsKept'
<1> DEFINE d == [c EXCEPT !.state = state, !.g = g, !.at = changes', !.form = NoForm]
<1>1. /\ d \in GroupCall /\ d.kind = c.kind /\ d.state = state /\ d.g = g
      /\ d.at = changes' /\ d.form = NoForm
  <2>1. c \in GroupCall
    BY DEF GroupInv, GroupTypeOK
  <2>2. QED
    BY <2>1, NoFormType DEF GroupCall
<1>2. calls' = (calls \ {c}) \cup {d}
  BY DEF Answered
<1> HIDE DEF d
<1>3. calls' \subseteq GroupCall
  BY <1>1, <1>2 DEF GroupInv, GroupTypeOK
<1>4. \A b, e \in calls' : b.kind = e.kind => b = e
  BY <1>1, <1>2 DEF GroupInv, GroupTypeOK
<1>5. \A e \in calls' : e.at <= changes'
  <2>1. \A e \in calls : e.at \in Nat /\ e.at <= changes
    BY DEF GroupInv, GroupTypeOK, GroupCall, GroupsDated
  <2>2. changes \in Nat
    BY DEF GroupInv, GroupTypeOK
  <2>3. QED
    BY <1>1, <1>2, <2>1, <2>2
<1>6. CallsKept'
  BY <1>1, <1>2, NoFormType DEF GroupInv, CallsKept
<1>7. QED
  BY <1>1, <1>2, <1>3, <1>4, <1>5, <1>6

LEMMA GroupAt ==
    ASSUME GroupTypeOK
    PROVE  /\ \A g \in DOMAIN groups : groups[g] \in Group
           /\ DOMAIN groups \subseteq GroupIds
  BY DEF GroupTypeOK

\* Groups that are put and taken.
LEMMA PutGroup ==
    ASSUME GroupTypeOK, NEW g \in GroupIds, NEW x \in Group
    PROVE  /\ DOMAIN Put(groups, g, x) = DOMAIN groups \cup {g}
           /\ Put(groups, g, x) \in [DOMAIN groups \cup {g} -> Group]
  BY GroupAt DEF Put

LEMMA TakeGroup ==
    ASSUME GroupTypeOK, NEW g
    PROVE  /\ DOMAIN Without(groups, g) = DOMAIN groups \ {g}
           /\ Without(groups, g) \in [DOMAIN groups \ {g} -> Group]
  BY GroupAt DEF Without

LEMMA Serves == ASSUME GroupInv, NEW c \in calls, Serve(c) PROVE GroupInv'
<1>0. c \in GroupCall /\ c.state = "sent" /\ GroupTypeOK
  BY DEF Serve, GroupInv, GroupTypeOK
<1>1. FormKept'
  BY DEF Serve, GroupInv, FormKept
<1>2. CASE ~Accepted(c)
  <2>1. UNCHANGED <<groups, used, changes>> /\ Answered(c, c.g, "failed")
    BY <1>2 DEF Serve
  <2>2. /\ calls' \subseteq GroupCall
        /\ \A b, d \in calls' : b.kind = d.kind => b = d
        /\ \A d \in calls' : d \in calls \/ (d.state = "failed" /\ d.at = changes')
        /\ CallsKept'
    <3>1. /\ c.g \in GroupIds \cup {NoOne} /\ changes' \in Nat /\ changes <= changes'
          /\ c.kind # "add" => c.g \in GroupIds
      BY <1>0, <2>1 DEF GroupCall, GroupTypeOK, GroupInv, CallsKept
    <3>2. QED
      BY <2>1, <3>1, CallsServed
  <2>3. GroupTypeOK'
    BY <1>0, <2>1, <2>2 DEF Serve, GroupTypeOK
  <2>4. GroupsDated' /\ Exact' /\ Gone'
    <3>1. changes \in Nat
      BY <1>0 DEF GroupTypeOK
    <3>2. \A d \in calls' : d \in calls \/ (d.at <= changes /\ d.state # "done")
      BY <2>1, <2>2, <3>1
    <3>3. QED
      BY <2>1, <3>2, ListsStay DEF Serve
  <2>5. QED
    BY <1>1, <2>2, <2>3, <2>4 DEF GroupInv
<1>3. CASE Accepted(c)
  <2>1. PICK g \in IF c.kind = "add" THEN GroupIds \ used ELSE {c.g} :
           /\ used' = used \cup {g}
           /\ groups' =
                 CASE c.kind = "add"    -> Put(groups, g, [name |-> c.form.name, owner |-> Me, co |-> {}])
                   [] c.kind = "edit"   -> Put(groups, g, [name |-> c.form.name, owner |-> c.form.owner, co |-> c.form.co])
                   [] c.kind = "delete" -> [h \in DOMAIN groups \ {g} |-> groups[h]]
           /\ Answered(c, g, "done")
    BY <1>3 DEF Serve
  <2>2. changes' = changes + 1
    BY <1>3 DEF Serve
  <2>3. g \in GroupIds /\ (c.kind = "add" => g \notin used) /\ (c.kind # "add" => g \in DOMAIN groups)
    <3>1. CASE c.kind = "add"
      BY <2>1, <3>1
    <3>2. CASE c.kind = "edit"
      BY <1>0, <1>3, <2>1, <3>2 DEF Accepted, Role, GroupTypeOK
    <3>3. CASE c.kind = "delete"
      BY <1>0, <1>3, <2>1, <3>3 DEF Accepted, Role, GroupTypeOK
    <3>4. QED
      BY <1>0, <3>1, <3>2, <3>3 DEF GroupCall
  <2>4. /\ calls' \subseteq GroupCall
        /\ \A b, d \in calls' : b.kind = d.kind => b = d
        /\ \A d \in calls' : d \in calls \/ (d.kind = c.kind /\ d.state = "done" /\ d.g = g /\ d.at = changes')
        /\ \A d \in calls' : d.at <= changes'
        /\ CallsKept'
    <3>1. changes' \in Nat /\ changes <= changes'
      BY <1>0, <2>2 DEF GroupTypeOK
    <3>2. QED
      BY <2>1, <2>3, <3>1, CallsServed
  <2>5. /\ DOMAIN groups' \subseteq DOMAIN groups \cup {g}
        /\ groups' \in [DOMAIN groups' -> Group]
        /\ c.kind = "delete" => groups' = Without(groups, g) /\ DOMAIN groups' = DOMAIN groups \ {g}
        /\ c.kind # "add" => DOMAIN groups' \subseteq DOMAIN groups
    <3>1. CASE c.kind = "add"
      <4>1. [name |-> c.form.name, owner |-> Me, co |-> {}] \in Group
        BY <1>0, <3>1, GroupScreenAssumption DEF GroupInv, CallsKept, Group
      <4>2. groups' = Put(groups, g, [name |-> c.form.name, owner |-> Me, co |-> {}])
        BY <2>1, <3>1
      <4>3. QED
        BY <1>0, <2>3, <3>1, <4>1, <4>2, PutGroup
    <3>2. CASE c.kind = "edit"
      <4>1. [name |-> c.form.name, owner |-> c.form.owner, co |-> c.form.co] \in Group
        BY <1>0, <3>2 DEF GroupInv, CallsKept, Group
      <4>2. groups' = Put(groups, g, [name |-> c.form.name, owner |-> c.form.owner, co |-> c.form.co])
        BY <2>1, <3>2
      <4>3. QED
        BY <1>0, <2>3, <3>2, <4>1, <4>2, PutGroup
    <3>3. CASE c.kind = "delete"
      <4>1. groups' = Without(groups, g)
        BY <2>1, <3>3 DEF Without
      <4>2. QED
        BY <1>0, <2>3, <3>3, <4>1, TakeGroup
    <3>4. QED
      BY <1>0, <3>1, <3>2, <3>3 DEF GroupCall
  <2>6. GroupTypeOK'
    <3>1. used' \subseteq GroupIds /\ DOMAIN groups' \subseteq used'
      BY <1>0, <2>1, <2>3, <2>5 DEF GroupTypeOK
    <3>2. changes' \in Nat
      BY <1>0, <2>2 DEF GroupTypeOK
    <3>3. QED
      BY <1>0, <2>4, <2>5, <3>1, <3>2 DEF Serve, GroupTypeOK
  <2>7. GroupsDated' /\ Exact'
    <3>1. \A d \in calls' : Deleted(d) => d \in calls \/ (d.at = changes' /\ groups' = Without(groups, d.g))
      BY <2>4, <2>5 DEF Deleted
    <3>2. UNCHANGED <<groupList, groupFetch, acknowledged>>
      BY DEF Serve
    <3>3. QED
      BY <2>2, <2>4, <3>1, <3>2, GroupsChange
  <2>8. Gone'
    <3> SUFFICES ASSUME NEW d \in calls', Deleted(d) PROVE d.g \in used' \ DOMAIN groups'
      BY DEF Gone, Deleted
    <3>1. CASE d \in calls
      BY <2>1, <2>3, <2>5, <3>1 DEF GroupInv, Gone
    <3>2. CASE d \notin calls
      <4>1. d.g = g /\ c.kind = "delete"
        BY <2>4, <3>2 DEF Deleted
      <4>2. QED
        BY <2>1, <2>5, <4>1
    <3>3. QED
      BY <3>1, <3>2
  <2>9. QED
    BY <1>1, <2>4, <2>6, <2>7, <2>8 DEF GroupInv
<1>4. QED
  BY <1>2, <1>3

LEMMA LosesCall == ASSUME GroupInv, NEW c \in calls, LoseCall(c) PROVE GroupInv'
<1> DEFINE d == [c EXCEPT !.state = "failed", !.form = NoForm]
<1>1. c \in GroupCall /\ changes \in Nat
  BY DEF GroupInv, GroupTypeOK
<1>2. d \in GroupCall /\ d.kind = c.kind /\ d.state = "failed" /\ d.at = c.at /\ d.g = c.g /\ d.form = NoForm
  BY <1>1, NoFormType DEF GroupCall
<1>3. calls' = (calls \ {c}) \cup {d}
  BY DEF LoseCall
<1> HIDE DEF d
<1>4. GroupTypeOK'
  <2>1. calls' \subseteq GroupCall
    BY <1>2, <1>3 DEF GroupInv, GroupTypeOK
  <2>2. \A b, e \in calls' : b.kind = e.kind => b = e
    BY <1>2, <1>3 DEF GroupInv, GroupTypeOK
  <2>3. lost' \in Nat
    BY DEF LoseCall, GroupInv, GroupTypeOK
  <2>4. QED
    BY <2>1, <2>2, <2>3 DEF LoseCall, GroupInv, GroupTypeOK
<1>5. GroupsDated' /\ Exact' /\ Gone'
  <2>1. d.at <= changes
    BY <1>2 DEF GroupInv, GroupsDated
  <2>2. \A e \in calls' : e \in calls \/ (e.at <= changes /\ e.state # "done")
    BY <1>2, <1>3, <2>1
  <2>3. QED
    BY <2>2, ListsStay DEF LoseCall
<1>6. CallsKept'
  BY <1>2, <1>3, NoFormType DEF GroupInv, CallsKept
<1>7. FormKept'
  BY DEF LoseCall, GroupInv, FormKept
<1>8. QED
  BY <1>4, <1>5, <1>6, <1>7 DEF GroupInv

\* Somebody else changes a group.
LEMMA OthersChange ==
    ASSUME GroupInv, changes' = changes + 1,
           UNCHANGED <<used, groupList, groupFetch, selected, details, groupRights, calls, acknowledged, lost, typed>>,
           DOMAIN groups' \subseteq DOMAIN groups, groups' \in [DOMAIN groups' -> Group]
    PROVE  GroupInv'
<1>1. changes \in Nat /\ \A c \in calls : c.at \in Nat /\ c.at <= changes
  BY DEF GroupInv, GroupTypeOK, GroupCall, GroupsDated
<1>2. GroupTypeOK'
  BY <1>1 DEF GroupInv, GroupTypeOK
<1>3. GroupsDated' /\ Exact'
  BY <1>1, GroupsChange
<1>4. Gone'
  BY DEF GroupInv, Gone, Deleted
<1>5. FormKept' /\ CallsKept'
  BY DEF GroupInv, FormKept, CallsKept
<1>6. QED
  BY <1>2, <1>3, <1>4, <1>5 DEF GroupInv

LEMMA OthersEdit == ASSUME GroupInv, NEW g \in GroupIds, NEW x \in Others, OtherEdits(g, x) PROVE GroupInv'
<1>1. x \in Group /\ g \in DOMAIN groups
  BY GroupScreenAssumption DEF OtherEdits
<1>2. DOMAIN groups \cup {g} = DOMAIN groups
  BY <1>1
<1>3. DOMAIN Put(groups, g, x) = DOMAIN groups /\ Put(groups, g, x) \in [DOMAIN groups -> Group]
  BY <1>1, <1>2, PutGroup DEF GroupInv
<1>4. DOMAIN groups' = DOMAIN groups /\ groups' \in [DOMAIN groups -> Group]
  BY <1>3 DEF OtherEdits
<1>5. DOMAIN groups' \subseteq DOMAIN groups /\ groups' \in [DOMAIN groups' -> Group]
  BY <1>4
<1>6. QED
  BY <1>5, OthersChange DEF OtherEdits

LEMMA OthersDelete == ASSUME GroupInv, NEW g \in GroupIds, OtherDeletes(g) PROVE GroupInv'
<1>1. groups' = Without(groups, g)
  BY DEF OtherDeletes, Without
<1>2. DOMAIN groups' \subseteq DOMAIN groups /\ groups' \in [DOMAIN groups' -> Group]
  BY <1>1, TakeGroup DEF GroupInv
<1>3. QED
  BY <1>2, OthersChange DEF OtherDeletes
-----------------------------------------------------------------------------
(* Answers.                                                                  *)

\* A call of add or edit is answered: the list waits for another one.
LEMMA AnswersWrite == ASSUME GroupInv, NEW c \in calls, AnswerWrite(c) PROVE GroupInv'
<1>0. /\ c \in GroupCall /\ groupList.rows \in Listings /\ groupList.at \in Nat
      /\ changes \in Nat /\ acknowledged \in Nat
  BY DEF GroupInv, GroupTypeOK
<1>1. calls' = calls \ {c}
  BY DEF AnswerWrite
<1>2. Optimistic(c) \in Listings
  <2>1. CASE c.state = "failed" \/ (c.kind = "edit" /\ c.g \notin DOMAIN groupList.rows)
    BY <1>0, <2>1 DEF Optimistic
  <2>2. CASE ~(c.state = "failed" \/ (c.kind = "edit" /\ c.g \notin DOMAIN groupList.rows))
    <3>1. c.g \in GroupIds
      BY <1>0, <2>2 DEF AnswerWrite, GroupInv, CallsKept
    <3>2. QED
      BY <1>0, <2>2, <3>1, PutRow DEF Optimistic, GroupCall
  <2>3. QED
    BY <2>1, <2>2
<1>3. groupList' = [rows |-> Optimistic(c), at |-> groupList.at, sure |-> FALSE]
  BY DEF AnswerWrite
<1>4. groupFetch' = ListAsked /\ groupRights' = [g \in GroupIds |-> "unknown"]
  BY DEF AnswerWrite, Invalidated
<1>5. acknowledged' \in Nat /\ acknowledged' <= changes
  BY <1>0 DEF AnswerWrite, GroupInv, GroupsDated, GroupCall
<1>6. Seen(Optimistic(c), details) \in DetailsForm /\ Kept(Seen(Optimistic(c), details))
      /\ OfRow(Seen(Optimistic(c), details), Optimistic(c))
  BY <1>2, SeenFacts DEF GroupInv, GroupTypeOK, FormKept
<1>7. details' = NoForm \/ details' = Seen(Optimistic(c), details)
  BY DEF AnswerWrite
<1>8. GroupTypeOK'
  <2>1. groupList' \in [rows : Listings, at : Nat, sure : BOOLEAN]
    BY <1>0, <1>2, <1>3
  <2>2. groupFetch' \in [asked : BOOLEAN, got : SUBSET [rows : Listings, at : Nat]]
    BY <1>4 DEF ListAsked
  <2>3. details' \in DetailsForm
    BY <1>6, <1>7, NoFormType
  <2>4. selected' \in GroupIds \cup {NoOne}
    BY DEF AnswerWrite, GroupInv, GroupTypeOK
  <2>5. QED
    BY <1>1, <1>4, <1>5, <2>1, <2>2, <2>3, <2>4 DEF AnswerWrite, GroupInv, GroupTypeOK
<1>9. GroupsDated'
  BY <1>0, <1>1, <1>3, <1>4, <1>5 DEF AnswerWrite, GroupInv, GroupsDated, ListAsked, NotAsked
<1>10. Exact'
  BY <1>3, <1>4 DEF Exact, ListAsked
<1>11. Gone' /\ CallsKept'
  BY <1>1 DEF AnswerWrite, GroupInv, Gone, CallsKept, Deleted
<1>12. FormKept'
  <2>1. groupList'.rows = Optimistic(c)
    BY <1>3
  <2>2. QED
    BY <1>6, <1>7, <2>1, NoFormType DEF FormKept, OfRow
<1>13. QED
  BY <1>8, <1>9, <1>10, <1>11, <1>12 DEF GroupInv
\* A deletion is answered: its row is taken out.
LEMMA AnswersDelete == ASSUME GroupInv, NEW c \in calls, AnswerDelete(c) PROVE GroupInv'
<1> DEFINE R == groupList.rows
           at == IF groupList.at = c.at - 1 THEN c.at ELSE groupList.at
<1>0. /\ c \in GroupCall /\ R \in Listings /\ groupList.at \in Nat /\ groupList.sure \in BOOLEAN
      /\ changes \in Nat /\ acknowledged \in Nat /\ c.at \in Nat
      /\ c.at <= changes /\ groupList.at <= changes
  BY DEF GroupInv, GroupTypeOK, GroupCall, GroupsDated
<1>1. /\ calls' = calls \ {c} /\ c.kind = "delete"
      /\ UNCHANGED <<groups, used, groupFetch, selected, groupRights, changes, acknowledged, lost, typed>>
  BY DEF AnswerDelete
<1>2. \A d \in calls' : ~Deleted(d)
  BY <1>1 DEF GroupInv, GroupTypeOK, Deleted
<1>3. Gone' /\ CallsKept'
  BY <1>1 DEF GroupInv, Gone, CallsKept, Deleted
<1>4. CASE c.state = "failed"
  <2>1. UNCHANGED <<groupList, details>>
    BY <1>4 DEF AnswerDelete
  <2>2. GroupTypeOK' /\ FormKept'
    BY <1>1, <2>1 DEF GroupInv, GroupTypeOK, FormKept
  <2>3. GroupsDated' /\ Exact'
    BY <1>1, <2>1, ListsStay
  <2>4. QED
    BY <1>3, <2>2, <2>3 DEF GroupInv
<1>5. CASE c.state = "done"
  <2>1. /\ groupList' = [rows |-> Without(R, c.g), at |-> at, sure |-> groupList.sure]
        /\ details' = Seen(Without(R, c.g), details)
    BY <1>5 DEF AnswerDelete, Show, Without, RowOf
  <2>2. at \in Nat /\ at <= changes /\ groupList.at <= at
    BY <1>0
  <2>3. Without(R, c.g) \in Listings
    BY <1>0, WithoutRow
  <2>4. details' \in DetailsForm /\ Kept(details') /\ OfRow(details', Without(R, c.g))
    BY <2>1, <2>3, SeenFacts DEF GroupInv, GroupTypeOK, FormKept
  <2>5. GroupTypeOK'
    <3>1. groupList' \in [rows : Listings, at : Nat, sure : BOOLEAN]
      BY <1>0, <2>1, <2>2, <2>3
    <3>2. QED
      BY <1>1, <2>4, <3>1 DEF GroupInv, GroupTypeOK
  <2>6. FormKept'
    BY <2>1, <2>4 DEF FormKept
  <2>7. GroupsDated'
    <3>1. groupList'.at = at
      BY <2>1
    <3> HIDE DEF at
    <3>2. QED
      BY <1>0, <1>1, <2>2, <3>1 DEF GroupInv, GroupsDated
  <2>8. groupList.sure /\ at = changes => Matches(Without(R, c.g))
    <3> SUFFICES ASSUME groupList.sure, at = changes PROVE Matches(Without(R, c.g))
      OBVIOUS
    <3>1. ExactAt(R, groupList.at) /\ Deleted(c)
      BY <1>1, <1>5 DEF GroupInv, Exact, Deleted
    <3>2. CASE groupList.at = c.at - 1
      <4>1. c.at = changes /\ groupList.at + 1 = changes
        BY <1>0, <3>2
      <4>2. QED
        BY <3>1, <4>1 DEF ExactAt
    <3>3. CASE groupList.at # c.at - 1
      <4>1. Matches(R) /\ c.g \notin DOMAIN groups
        BY <3>1, <3>3 DEF ExactAt, GroupInv, Gone
      <4>2. QED
        BY <4>1 DEF Matches, Without
    <3>4. QED
      BY <3>2, <3>3
  <2>9. Exact'
    <3>1. \A l \in groupFetch.got : ExactAt(l.rows, l.at)'
      BY <1>1, <1>2 DEF GroupInv, Exact, ExactAt, Matches, Deleted
    <3>2. groupList'.rows = Without(R, c.g) /\ groupList'.at = at /\ groupList'.sure = groupList.sure
      BY <2>1
    <3>3. groupList'.sure => ExactAt(groupList.rows, groupList.at)'
      BY <1>1, <1>2, <2>8, <3>2 DEF ExactAt, Matches, Deleted
    <3>4. QED
      BY <1>1, <3>1, <3>3 DEF Exact
  <2>10. QED
    BY <1>3, <2>5, <2>6, <2>7, <2>9 DEF GroupInv
<1>6. QED
  BY <1>4, <1>5 DEF AnswerDelete

\* A list dated now is exact.
LEMMA ListingExact == ASSUME GroupInv PROVE ExactAt(Listing, changes)
<1>1. changes \in Nat
  BY DEF GroupInv, GroupTypeOK
<1>2. QED
  BY <1>1, ListingFacts DEF ExactAt, GroupInv

LEMMA ServesList == ASSUME GroupInv, ServeGroups PROVE GroupInv'
<1> DEFINE l == [rows |-> Listing, at |-> changes]
<1>1. /\ groupFetch' = [asked |-> FALSE, got |-> {l}] /\ groupFetch' # NotAsked
      /\ UNCHANGED <<groups, used, groupList, selected, details, groupRights, calls, changes, acknowledged, lost, typed>>
  BY DEF ServeGroups, NotAsked
<1>2. l.rows = Listing /\ l.at = changes /\ changes \in Nat
  BY DEF GroupInv, GroupTypeOK
<1>3. l \in [rows : Listings, at : Nat]
  BY <1>2, ListingFacts DEF GroupInv
<1> HIDE DEF l
<1>4. GroupTypeOK'
  <2>1. groupFetch' \in [asked : BOOLEAN, got : SUBSET [rows : Listings, at : Nat]]
    BY <1>1, <1>3
  <2>2. QED
    BY <1>1, <2>1 DEF GroupInv, GroupTypeOK
<1>5. groupFetch'.got = {l}
  BY <1>1
<1>6. GroupsDated'
  BY <1>1, <1>2, <1>5 DEF GroupInv, GroupsDated
<1>7. \A R, at : ExactAt(R, at) => ExactAt(R, at)'
  BY <1>1 DEF ExactAt, Matches
<1>8. Exact'
  <2>1. groupList'.sure => ExactAt(groupList.rows, groupList.at)'
    BY <1>1, <1>7 DEF GroupInv, Exact, ExactAt, Matches
  <2>2. \A m \in groupFetch'.got : m.rows = Listing /\ m.at = changes
    BY <1>2, <1>5
  <2>3. \A m \in groupFetch'.got : ExactAt(m.rows, m.at)
    BY <2>2, ListingExact
  <2>4. \A m \in groupFetch'.got : ExactAt(m.rows, m.at)'
    BY <1>1, <2>3 DEF ExactAt, Matches, Deleted
  <2>5. QED
    BY <2>1, <2>4 DEF Exact
<1>9. Gone' /\ CallsKept' /\ FormKept'
  BY <1>1 DEF GroupInv, Gone, CallsKept, FormKept, Deleted
<1>10. QED
  BY <1>4, <1>6, <1>8, <1>9 DEF GroupInv

LEMMA ShowsList == ASSUME GroupInv, ShowGroups PROVE GroupInv'
<1>1. PICK l \in groupFetch.got : Show(l.rows, l.at, TRUE)
  BY DEF ShowGroups
<1>2. /\ groupFetch' = NotAsked
      /\ UNCHANGED <<groups, used, selected, groupRights, calls, changes, acknowledged, lost, typed>>
  BY DEF ShowGroups
<1>3. l.rows \in Listings /\ l.at \in Nat
  BY DEF GroupInv, GroupTypeOK
<1>4. groupList' = [rows |-> l.rows, at |-> l.at, sure |-> TRUE] /\ details' = Seen(l.rows, details)
  BY <1>1 DEF Show
<1>5. groupList'.rows = l.rows /\ groupList'.at = l.at /\ groupFetch'.got = {}
  BY <1>2, <1>4 DEF NotAsked
<1>6. details' \in DetailsForm /\ Kept(details') /\ OfRow(details', l.rows)
  BY <1>3, <1>4, SeenFacts DEF GroupInv, GroupTypeOK, FormKept
<1>7. GroupTypeOK'
  <2>1. groupList' \in [rows : Listings, at : Nat, sure : BOOLEAN]
    BY <1>3, <1>4
  <2>2. groupFetch' \in [asked : BOOLEAN, got : SUBSET [rows : Listings, at : Nat]]
    BY <1>2 DEF NotAsked
  <2>3. QED
    BY <1>2, <1>6, <2>1, <2>2 DEF GroupInv, GroupTypeOK
<1>8. GroupsDated'
  BY <1>2, <1>5 DEF GroupInv, GroupsDated
<1>9. Exact'
  <2>1. ExactAt(l.rows, l.at)
    BY DEF GroupInv, Exact
  <2>2. ExactAt(l.rows, l.at)'
    BY <1>2, <2>1 DEF ExactAt, Matches
  <2>3. ExactAt(groupList.rows, groupList.at)'
    BY <1>5, <2>2 DEF ExactAt, Matches
  <2>4. QED
    BY <1>5, <2>3 DEF Exact
<1>10. Gone' /\ CallsKept'
  BY <1>2 DEF GroupInv, Gone, CallsKept, Deleted
<1>11. FormKept'
  BY <1>5, <1>6 DEF FormKept
<1>12. QED
  BY <1>7, <1>8, <1>9, <1>10, <1>11 DEF GroupInv

LEMMA LosesList == ASSUME GroupInv, LoseGroups PROVE GroupInv'
<1>1. /\ groupFetch' = NotAsked /\ acknowledged' = 0 /\ lost' = lost + 1
      /\ UNCHANGED <<groups, used, groupList, selected, details, groupRights, calls, changes, typed>>
  BY DEF LoseGroups
<1>2. changes \in Nat /\ groupList.at \in Nat /\ lost \in Nat
  BY DEF GroupInv, GroupTypeOK
<1>3. groupFetch'.got = {} /\ groupFetch' \in [asked : BOOLEAN, got : SUBSET [rows : Listings, at : Nat]]
  BY <1>1 DEF NotAsked
<1>4. GroupTypeOK'
  BY <1>1, <1>2, <1>3 DEF GroupInv, GroupTypeOK
<1>5. GroupsDated'
  BY <1>1, <1>2, <1>3 DEF GroupInv, GroupsDated
<1>6. Exact'
  BY <1>1, <1>3 DEF GroupInv, Exact, ExactAt, Matches, Deleted
<1>7. Gone' /\ CallsKept' /\ FormKept'
  BY <1>1 DEF GroupInv, Gone, CallsKept, FormKept, Deleted
<1>8. QED
  BY <1>4, <1>5, <1>6, <1>7 DEF GroupInv
-----------------------------------------------------------------------------
(* The theorem.                                                              *)

LEMMA GroupStarts == ASSUME GroupInit PROVE GroupInv
<1>1. groups \in FirstGroups /\ DOMAIN groups \subseteq GroupIds /\ groups \in [DOMAIN groups -> Group]
  BY GroupScreenAssumption DEF GroupInit
<1>2. \A g \in DOMAIN groups : Listing[g] \in GroupRow
  BY <1>1 DEF Listing, GroupRow, Group
<1>3. DOMAIN Listing = DOMAIN groups /\ Listing \in [DOMAIN Listing -> GroupRow]
  BY <1>2 DEF Listing
<1>4. Listing \in Listings
  BY <1>1, <1>3, ListingsAre
<1>5. groupList = [rows |-> Listing, at |-> 0, sure |-> TRUE]
  BY DEF GroupInit
<1>6. groupList.rows = Listing /\ groupList.at = 0
  BY <1>5
<1>7. groupFetch.got = {} /\ groupFetch \in [asked : BOOLEAN, got : SUBSET [rows : Listings, at : Nat]]
  BY DEF GroupInit, NotAsked
<1>8. groupRights \in [GroupIds -> {"unknown", "none", "co_owner", "owner"}]
  BY DEF GroupInit
<1>9. GroupTypeOK
  <2>1. groupList \in [rows : Listings, at : Nat, sure : BOOLEAN]
    BY <1>4, <1>5
  <2>2. QED
    BY <1>1, <1>7, <1>8, <2>1, NoFormType DEF GroupInit, GroupTypeOK
<1>10. GroupsDated /\ Gone /\ CallsKept
  BY <1>6, <1>7 DEF GroupInit, GroupsDated, Gone, CallsKept
<1>11. Exact
  <2>1. Matches(Listing)
    BY <1>9, ListingFacts
  <2>2. QED
    BY <1>6, <1>7, <2>1 DEF GroupInit, Exact, ExactAt
<1>12. FormKept
  BY NoFormType DEF GroupInit, FormKept, OfRow
<1>13. QED
  BY <1>9, <1>10, <1>11, <1>12 DEF GroupInv

LEMMA GroupSteps == GroupInv /\ [GroupNext]_groupVars => GroupInv'
<1> SUFFICES ASSUME GroupInv, [GroupNext]_groupVars PROVE GroupInv'
  OBVIOUS
<1>1. ASSUME NEW g \in GroupIds, OpenForm(g) \/ Delete(g) \/ OtherDeletes(g) PROVE GroupInv'
  BY <1>1, OpensForm, Deletes, OthersDelete
<1>2. ASSUME details.open, EditForm PROVE GroupInv'
  BY <1>2, EditsAny
<1>3. ASSUME CloseForm \/ SubmitForm PROVE GroupInv'
  BY <1>3, ClosesForm, SubmitsForm
<1>4. ASSUME NEW n \in Names, Add(n) PROVE GroupInv'
  BY <1>4, Adds
<1>5. ASSUME NEW c \in calls, Serve(c) \/ LoseCall(c) \/ AnswerWrite(c) \/ AnswerDelete(c) PROVE GroupInv'
  BY <1>5, Serves, LosesCall, AnswersWrite, AnswersDelete
<1>6. ASSUME ServeGroups \/ ShowGroups \/ LoseGroups PROVE GroupInv'
  BY <1>6, ServesList, ShowsList, LosesList
<1>7. ASSUME NEW g \in GroupIds, NEW x \in Others, OtherEdits(g, x) PROVE GroupInv'
  BY <1>7, OthersEdit
<1>8. ASSUME UNCHANGED groupVars PROVE GroupInv'
  <2>1. UNCHANGED <<groups, used, groupList, groupFetch, selected, details, groupRights, calls,
                    changes, acknowledged, typed, lost>>
    BY <1>8 DEF groupVars
  <2>2. GroupTypeOK' /\ FormKept' /\ CallsKept'
    BY <2>1 DEF GroupInv, GroupTypeOK, FormKept, CallsKept
  <2>3. GroupsDated' /\ Exact' /\ Gone'
    BY <2>1, ListsStay
  <2>4. QED
    BY <2>2, <2>3 DEF GroupInv
<1>9. QED
  BY <1>1, <1>2, <1>3, <1>4, <1>5, <1>6, <1>7, <1>8 DEF GroupNext

\* On the screen of the groups, whatever other people do and whichever request or answer
\* is lost: when no list is on its way the one shown is not older than the last change of
\* Me that was acknowledged, and a list that shows the last change shows all groups as
\* they are; an owner who passes a group on stays its co-owner; and a co-owner who sees
\* the group as it is sends no change of its owner and dismisses no co-owner.
THEOREM GroupsKeptAlways == GroupSpec => []GroupsKept
<1>1. GroupInv => GroupsKept
  <2> SUFFICES ASSUME GroupInv PROVE GroupsKept
    OBVIOUS
  <2>1. ListSettles
    <3> SUFFICES ASSUME groupFetch = NotAsked PROVE
           /\ groupList.at >= acknowledged
           /\ groupList.at = changes /\ groupList.sure =>
                 [g \in DOMAIN groupList.rows |-> [RowOf(g) EXCEPT !.deletable = TRUE]]
                    = [g \in DOMAIN groups |-> [Listing[g] EXCEPT !.deletable = TRUE]]
      BY DEF ListSettles
    <3>1. groupList.at >= acknowledged
      BY DEF GroupInv, GroupTypeOK, GroupsDated
    <3>2. ASSUME groupList.at = changes, groupList.sure
          PROVE  [g \in DOMAIN groupList.rows |-> [RowOf(g) EXCEPT !.deletable = TRUE]]
                    = [g \in DOMAIN groups |-> [Listing[g] EXCEPT !.deletable = TRUE]]
      <4>1. Matches(groupList.rows) /\ Matches(Listing)
        BY <3>2, ListingFacts DEF GroupInv, Exact, ExactAt
      <4>2. groupList.rows \in Listings /\ Listing \in Listings
        BY ListingFacts DEF GroupInv, GroupTypeOK
      <4>3. ASSUME NEW g \in DOMAIN groups
            PROVE  [RowOf(g) EXCEPT !.deletable = TRUE] = [Listing[g] EXCEPT !.deletable = TRUE]
        <5> DEFINE x == RowOf(g)
                   y == Listing[g]
        <5>1. x \in GroupRow /\ y \in GroupRow
          BY <4>1, <4>2, ListingsAre DEF Matches, RowOf
        <5>2. x.name = y.name /\ x.owner = y.owner /\ x.co = y.co
          BY <4>1 DEF Matches, RowOf
        <5> HIDE DEF x, y
        <5>3. [x EXCEPT !.deletable = TRUE] = [y EXCEPT !.deletable = TRUE]
          BY <5>1, <5>2 DEF GroupRow
        <5>4. QED
          BY <5>3 DEF x, y
      <4>4. DOMAIN groupList.rows = DOMAIN groups
        BY <4>1 DEF Matches
      <4>5. QED
        BY <4>3, <4>4
    <3>3. QED
      BY <3>1, <3>2
  <2>2. PassedOnStays
    BY DEF GroupInv, CallsKept, Kept, PassedOnStays
  <2>3. CoOwnerKeeps
    BY DEF GroupInv, CallsKept, Kept, CoOwnerKeeps
  <2>4. QED
    BY <2>1, <2>2, <2>3 DEF GroupInv, GroupsKept
<1>2. QED
  BY <1>1, GroupStarts, GroupSteps, PTL DEF GroupSpec

(***************************************************************************)
(* The form of a user's or a group's permissions, for any users, groups,   *)
(* domains, tables, row filters and values, and any number of edits,       *)
(* writes and failures: what a save adds somebody chose, what it takes     *)
(* away somebody chose or the form lost in one of the ways it names, it    *)
(* goes to the user that the form names, and whatever changes the merged   *)
(* permissions and leaves a user a domain can be saved.                    *)
(*                                                                         *)
(* The inductive invariant (FormInv) has three parts.  What is stored and  *)
(* in the form has its type; in a group's form nothing comes from groups   *)
(* (FormTypes).  A lookup that found its user unknown, when no user was    *)
(* written since, is of one that is not stored (FormLookups).  A form that *)
(* was not crossed has at most one lookup under way, none once it is open, *)
(* and moved from what it is compared with only by what was picked or      *)
(* lost: dropped, or taken along by a dialog saved before its options came *)
(* (Uncrossed).                                                            *)
(***************************************************************************)

(* Own permissions, and the lists that the merged view takes. *)

LEMMA DomainMapIs ==
    ASSUME NEW f
    PROVE  f \in DomainMaps <=> DOMAIN f \subseteq Domains /\ f \in [DOMAIN f -> SUBSET Classes]
BY DEF DomainMaps

LEMMA TableMapIs ==
    ASSUME NEW f
    PROVE  f \in TableMaps <=> DOMAIN f \subseteq PermissionTables /\ f \in [DOMAIN f -> FilterMaps]
BY DEF TableMaps

LEMMA OwnIs ==
    ASSUME NEW own \in Owns
    PROVE  /\ own = [domains |-> own.domains, tables |-> own.tables, attrs |-> own.attrs, all |-> own.all,
                     groups |-> own.groups]
           /\ own.domains \in DomainMaps /\ own.tables \in TableMaps
           /\ own.attrs \in Attributes /\ own.all \in BOOLEAN /\ own.groups \in SUBSET UserGroups
           /\ \A d \in DOMAIN own.domains : own.domains[d] \subseteq Catalog[d]
BY DEF Owns

LEMMA ListedIs ==
    ASSUME NEW order, NEW S, InOrder(order, S), NEW I \in SUBSET S, NEW s, s = Listed(order, I)
    PROVE  s \in Seq(S) /\ IsInjective(s) /\ Range(s) = I /\ DOMAIN s = 1 .. Len(s) /\ Len(s) \in Nat
<1>1. order \in Seq(S) /\ IsInjective(order) /\ Range(order) = S
  BY DEF InOrder
<1>2. PICK J : J = {i \in DOMAIN order : order[i] \in I}
  OBVIOUS
<1>3. s = KeptAt(order, J)
  BY <1>2 DEF Listed
<1>4. s \in Seq(S) /\ Range(s) = KeptOf(order, J, Len(order)) /\ IsInjective(s)
  BY <1>1, <1>3, KeptIs
<1>5. DOMAIN order = 1 .. Len(order)
  BY <1>1
<1>6. KeptOf(order, J, Len(order)) = {order[i] : i \in J}
  BY <1>2, <1>5 DEF KeptOf
<1>7. {order[i] : i \in J} = I
  <2>1. \A x \in S : \E i \in DOMAIN order : x = order[i]
    BY <1>1 DEF Range
  <2>2. QED
    BY <1>2, <2>1
<1>8. QED
  BY <1>4, <1>6, <1>7

LEMMA DomainListIs ==
    ASSUME NEW f \in DomainMaps, NEW l, l = DomainList(f)
    PROVE  /\ l \in Seq(DomainEntry) /\ KeysDiffer(l, "id")
           /\ Range(l) = {[id |-> d, cls |-> f[d]] : d \in DOMAIN f}
<1>1. PICK s : s = Listed(DomainOrder, DOMAIN f)
  OBVIOUS
<1>2. DOMAIN f \subseteq Domains /\ \A d \in DOMAIN f : f[d] \in SUBSET Classes
  BY DomainMapIs
<1>3. s \in Seq(Domains) /\ IsInjective(s) /\ Range(s) = DOMAIN f /\ DOMAIN s = 1 .. Len(s) /\ Len(s) \in Nat
  <2>1. PICK I : I = DOMAIN f
    OBVIOUS
  <2>2. I \in SUBSET Domains /\ s = Listed(DomainOrder, I) /\ InOrder(DomainOrder, Domains)
    BY <1>1, <1>2, <2>1, UserPopupAssumption
  <2>3. QED
    BY <2>1, <2>2, ListedIs
<1>4. l = [i \in 1 .. Len(s) |-> [id |-> s[i], cls |-> f[s[i]]]]
  BY <1>1, <1>3 DEF DomainList
<1>5. \A i \in 1 .. Len(s) : s[i] \in DOMAIN f
  BY <1>3 DEF Range
<1>6. \A i \in 1 .. Len(s) : [id |-> s[i], cls |-> f[s[i]]] \in DomainEntry
  BY <1>2, <1>5 DEF DomainEntry
<1>7. l \in Seq(DomainEntry)
  BY <1>3, <1>4, <1>6
<1>8. KeysDiffer(l, "id")
  <2>1. \A i \in 1 .. Len(s) : l[i]["id"] = s[i]
    BY <1>4
  <2>2. DOMAIN l = 1 .. Len(s)
    BY <1>4
  <2>3. QED
    BY <1>3, <2>1, <2>2 DEF KeysDiffer, IsInjective
<1>9. Range(l) = {[id |-> s[i], cls |-> f[s[i]]] : i \in 1 .. Len(s)}
  BY <1>4 DEF Range
<1>10. \A d \in DOMAIN f : \E i \in 1 .. Len(s) : d = s[i]
  BY <1>3 DEF Range
<1>11. QED
  BY <1>5, <1>7, <1>8, <1>9, <1>10

\* The row filters of a table as its entry in a list, in any form.
LEMMA TableListIs ==
    ASSUME NEW Fs, NEW f, DOMAIN f \subseteq PermissionTables, \A t \in DOMAIN f : f[t] \in Fs,
           NEW l, l = TableList(f)
    PROVE  /\ l \in Seq(TableItem(PermissionTables, Fs)) /\ KeysDiffer(l, "id")
           /\ Range(l) = {[id |-> t, filters |-> f[t]] : t \in DOMAIN f}
<1>1. PICK s : s = Listed(TableOrder, DOMAIN f)
  OBVIOUS
<1>3. s \in Seq(PermissionTables) /\ IsInjective(s) /\ Range(s) = DOMAIN f /\ DOMAIN s = 1 .. Len(s) /\ Len(s) \in Nat
  <2>1. PICK I : I = DOMAIN f
    OBVIOUS
  <2>2. I \in SUBSET PermissionTables /\ s = Listed(TableOrder, I) /\ InOrder(TableOrder, PermissionTables)
    BY <1>1, <2>1, UserPopupAssumption
  <2>3. QED
    BY <2>1, <2>2, ListedIs
<1>4. l = [i \in 1 .. Len(s) |-> [id |-> s[i], filters |-> f[s[i]]]]
  BY <1>1, <1>3 DEF TableList
<1>5. \A i \in 1 .. Len(s) : s[i] \in DOMAIN f
  BY <1>3 DEF Range
<1>6. \A i \in 1 .. Len(s) : [id |-> s[i], filters |-> f[s[i]]] \in TableItem(PermissionTables, Fs)
  BY <1>5 DEF TableItem
<1>7. l \in Seq(TableItem(PermissionTables, Fs))
  BY <1>3, <1>4, <1>6
<1>8. KeysDiffer(l, "id")
  <2>1. \A i \in 1 .. Len(s) : l[i]["id"] = s[i]
    BY <1>4
  <2>2. DOMAIN l = 1 .. Len(s)
    BY <1>4
  <2>3. QED
    BY <1>3, <2>1, <2>2 DEF KeysDiffer, IsInjective
<1>9. Range(l) = {[id |-> s[i], filters |-> f[s[i]]] : i \in 1 .. Len(s)}
  BY <1>4 DEF Range
<1>10. \A t \in DOMAIN f : \E i \in 1 .. Len(s) : t = s[i]
  BY <1>3 DEF Range
<1>11. QED
  BY <1>5, <1>7, <1>8, <1>9, <1>10

FilterSets == [Kods -> SUBSET FilterValues]
FormTable  == TableItem(PermissionTables, FilterSets)
FormUsers  == Holders(DomainEntry, FormTable, UserGroups)

LEMMA OwnTables ==
    ASSUME NEW f \in TableMaps
    PROVE  DOMAIN f \subseteq PermissionTables /\ \A t \in DOMAIN f : f[t] \in FilterSets
<1>1. FilterMaps \subseteq FilterSets
  BY DEF FilterMaps, FilterSets
<1>2. QED
  BY <1>1, TableMapIs

LEMMA GroupsListed ==
    ASSUME NEW S \in SUBSET UserGroups
    PROVE  AsGroups(S) \in Seq([id : UserGroups, domains : Seq(DomainEntry), tables : Seq(FormTable), attrs : Attributes])
<1> DEFINE R == [id : UserGroups, domains : Seq(DomainEntry), tables : Seq(FormTable), attrs : Attributes]
<1>1. PICK s : s = Listed(GroupOrder, S)
  OBVIOUS
<1>2. s \in Seq(UserGroups) /\ DOMAIN s = 1 .. Len(s) /\ Len(s) \in Nat
  BY <1>1, ListedIs, UserPopupAssumption
<1>3. \A i \in 1 .. Len(s) : s[i] \in UserGroups
  BY <1>2
<1>4. ASSUME NEW g \in UserGroups
      PROVE  DomainList(GroupData[g].domains) \in Seq(DomainEntry) /\ TableList(GroupData[g].tables) \in Seq(FormTable)
             /\ GroupData[g].attrs \in Attributes
  <2>1. PICK own : own = GroupData[g]
    OBVIOUS
  <2>2. own \in Owns
    BY <2>1, UserPopupAssumption
  <2>3. own.domains \in DomainMaps /\ own.tables \in TableMaps /\ own.attrs \in Attributes
    BY <2>2, OwnIs
  <2>4. PICK ds, ts, f, h : f = own.domains /\ h = own.tables /\ ds = DomainList(f) /\ ts = TableList(h)
    OBVIOUS
  <2>5. ds \in Seq(DomainEntry)
    BY <2>3, <2>4, DomainListIs
  <2>6. DOMAIN h \subseteq PermissionTables /\ \A t \in DOMAIN h : h[t] \in FilterSets
    BY <2>3, <2>4, OwnTables
  <2>7. ts \in Seq(FormTable)
    BY <2>4, <2>6, TableListIs DEF FormTable
  <2>8. QED
    BY <2>1, <2>3, <2>4, <2>5, <2>7
<1>5. AsGroups(S) = [i \in 1 .. Len(s) |->
          [id |-> s[i], domains |-> DomainList(GroupData[s[i]].domains),
           tables |-> TableList(GroupData[s[i]].tables), attrs |-> GroupData[s[i]].attrs]]
  BY <1>1, <1>2 DEF AsGroups
<1>6. ASSUME NEW g \in UserGroups
      PROVE  [id |-> g, domains |-> DomainList(GroupData[g].domains),
              tables |-> TableList(GroupData[g].tables), attrs |-> GroupData[g].attrs] \in R
  BY <1>4
<1> HIDE DEF R
<1>7. AsGroups(S) \in Seq(R)
  BY <1>2, <1>3, <1>5, <1>6
<1>8. QED
  BY <1>7 DEF R

LEMMA AsUserIs ==
    ASSUME NEW own \in Owns, NEW user, user = AsUser(own)
    PROVE  /\ user \in FormUsers
           /\ Range(user.domains) = {[id |-> d, cls |-> own.domains[d]] : d \in DOMAIN own.domains}
           /\ Range(user.tables) = {[id |-> t, filters |-> own.tables[t]] : t \in DOMAIN own.tables}
<1>1. own.domains \in DomainMaps /\ own.tables \in TableMaps /\ own.attrs \in Attributes /\ own.all \in BOOLEAN
      /\ own.groups \in SUBSET UserGroups
  BY OwnIs
<1>2. PICK ds, ts, f, h : f = own.domains /\ h = own.tables /\ ds = DomainList(f) /\ ts = TableList(h)
  OBVIOUS
<1>3. ds \in Seq(DomainEntry) /\ Range(ds) = {[id |-> d, cls |-> f[d]] : d \in DOMAIN f}
  BY <1>1, <1>2, DomainListIs
<1>4. ts \in Seq(FormTable) /\ Range(ts) = {[id |-> t, filters |-> h[t]] : t \in DOMAIN h}
  <2>1. DOMAIN h \subseteq PermissionTables /\ \A t \in DOMAIN h : h[t] \in FilterSets
    BY <1>1, <1>2, OwnTables
  <2>2. ts \in Seq(TableItem(PermissionTables, FilterSets)) /\ Range(ts) = {[id |-> t, filters |-> h[t]] : t \in DOMAIN h}
    <3>1. ts = TableList(h)
      BY <1>2
    <3>2. QED
      BY ONLY <3>1, <2>1, TableListIs
  <2>3. QED
    BY <2>2 DEF FormTable
<1>5. AsGroups(own.groups)
         \in Seq([id : UserGroups, domains : Seq(DomainEntry), tables : Seq(FormTable), attrs : Attributes])
  BY <1>1, GroupsListed
<1>6. user = [domains |-> ds, tables |-> ts, attrs |-> own.attrs, all |-> own.all, groups |-> AsGroups(own.groups)]
  BY <1>2 DEF AsUser
<1>7. user \in FormUsers
  BY <1>1, <1>3, <1>4, <1>5, <1>6 DEF FormUsers, Holders
<1>8. QED
  BY <1>2, <1>3, <1>4, <1>6, <1>7
(* What somebody chose and what changed, part by part. *)

DomainAtoms(D) ==
    {<<"domain", d>> : d \in DOMAIN D} \cup (UNION {{<<"class", d, c>> : c \in D[d]} : d \in DOMAIN D})
ValueAtoms(T) ==
    UNION {UNION {{<<"value", t, k, v>> : v \in T[t][k] \ {0}} : k \in Kods} : t \in DOMAIN T}
GroupAtoms(G) == {<<"group", g>> : g \in G}
AttrAtoms(a)  == (IF a.mask THEN {} ELSE {<<"mask">>}) \cup (IF a.deceased THEN {<<"deceased">>} ELSE {})
AllAtoms(all) == IF all THEN {<<"all">>} ELSE {}

LEMMA AtomParts ==
    ASSUME NEW own
    PROVE  Atoms(own) = DomainAtoms(own.domains) \cup ValueAtoms(own.tables) \cup GroupAtoms(own.groups)
                           \cup AttrAtoms(own.attrs) \cup AllAtoms(own.all)
BY DEF Atoms, DomainAtoms, ValueAtoms, GroupAtoms, AttrAtoms, AllAtoms

LEMMA AtomTags ==
    /\ \A D : \A x \in DomainAtoms(D) : x[1] \in {"domain", "class"}
    /\ \A T : \A x \in ValueAtoms(T) : x[1] = "value"
    /\ \A G : \A x \in GroupAtoms(G) : x[1] = "group"
    /\ \A a : \A x \in AttrAtoms(a) : x[1] \in {"mask", "deceased"}
    /\ \A b : \A x \in AllAtoms(b) : x[1] = "all"
<1>1. ASSUME NEW D, NEW x \in DomainAtoms(D) PROVE x[1] \in {"domain", "class"}
  BY <1>1 DEF DomainAtoms
<1>2. ASSUME NEW T, NEW x \in ValueAtoms(T) PROVE x[1] = "value"
  BY <1>2 DEF ValueAtoms
<1>3. ASSUME NEW G, NEW x \in GroupAtoms(G) PROVE x[1] = "group"
  BY <1>3 DEF GroupAtoms
<1>4. ASSUME NEW a, NEW x \in AttrAtoms(a) PROVE x[1] \in {"mask", "deceased"}
  BY <1>4 DEF AttrAtoms
<1>5. ASSUME NEW b, NEW x \in AllAtoms(b) PROVE x[1] = "all"
  BY <1>5 DEF AllAtoms
<1>6. QED
  BY <1>1, <1>2, <1>3, <1>4, <1>5

\* From P to Q, the atoms that come are in picked and those that go in unpicked.
Moves(P, Q, picked, unpicked) ==
    /\ Q \ P \subseteq picked /\ picked \subseteq Q
    /\ P \ Q \subseteq unpicked /\ unpicked \cap Q = {}

LEMMA MovesPart ==
    ASSUME NEW P, NEW Q, NEW R, NEW picked, NEW unpicked, Moves(P, Q, picked, unpicked), unpicked \cap R = {},
           NEW A, A = P \cup R, NEW B, B = Q \cup R
    PROVE  Moves(A, B, picked, unpicked)
BY DEF Moves

LEMMA OwnDomains ==
    ASSUME NEW own \in Owns, NEW D \in DomainMaps, \A d \in DOMAIN D : D[d] \subseteq Catalog[d],
           NEW new, new = [own EXCEPT !.domains = D]
    PROVE  /\ new \in Owns /\ new.groups = own.groups
           /\ \A picked, unpicked :
                 Moves(DomainAtoms(own.domains), DomainAtoms(D), picked, unpicked)
                 /\ (\A x \in unpicked : x[1] \in {"domain", "class"})
                 => Moves(Atoms(own), Atoms(new), picked, unpicked)
<1>1. /\ new.domains = D /\ new.tables = own.tables /\ new.attrs = own.attrs /\ new.all = own.all
      /\ new.groups = own.groups
      /\ new = [domains |-> new.domains, tables |-> new.tables, attrs |-> new.attrs, all |-> new.all,
                groups |-> new.groups]
  BY OwnIs
<1>2. new \in Owns
  BY <1>1, OwnIs DEF Owns
<1>3. ASSUME NEW picked, NEW unpicked, Moves(DomainAtoms(own.domains), DomainAtoms(D), picked, unpicked),
             \A x \in unpicked : x[1] \in {"domain", "class"}
      PROVE  Moves(Atoms(own), Atoms(new), picked, unpicked)
  <2>1. PICK R : R = ValueAtoms(own.tables) \cup GroupAtoms(own.groups) \cup AttrAtoms(own.attrs) \cup AllAtoms(own.all)
    OBVIOUS
  <2>2. \A x \in R : x[1] \notin {"domain", "class"}
    BY <2>1, AtomTags
  <2>3. Atoms(own) = DomainAtoms(own.domains) \cup R
    BY <2>1, AtomParts
  <2>4. Atoms(new) = DomainAtoms(D) \cup R
    BY <1>1, <2>1, AtomParts
  <2>5. unpicked \cap R = {}
    BY <1>3, <2>2
  <2>6. QED
    BY <1>3, <2>3, <2>4, <2>5, MovesPart
<1>4. QED
  BY <1>1, <1>2, <1>3

LEMMA OwnTablesSet ==
    ASSUME NEW own \in Owns, NEW T \in TableMaps, NEW new, new = [own EXCEPT !.tables = T]
    PROVE  /\ new \in Owns /\ new.groups = own.groups
           /\ Atoms(new) \ Atoms(own) \subseteq ValueAtoms(T) \ ValueAtoms(own.tables)
           /\ Atoms(own) \ Atoms(new) \subseteq ValueAtoms(own.tables) \ ValueAtoms(T)
           /\ ValueAtoms(T) \subseteq Atoms(new)
           /\ \A picked, unpicked :
                 Moves(ValueAtoms(own.tables), ValueAtoms(T), picked, unpicked)
                 /\ (\A x \in unpicked : x[1] = "value")
                 => Moves(Atoms(own), Atoms(new), picked, unpicked)
<1>1. /\ new.tables = T /\ new.domains = own.domains /\ new.attrs = own.attrs /\ new.all = own.all
      /\ new.groups = own.groups
      /\ new = [domains |-> new.domains, tables |-> new.tables, attrs |-> new.attrs, all |-> new.all,
                groups |-> new.groups]
  BY OwnIs
<1>2. new \in Owns
  BY <1>1, OwnIs DEF Owns
<1>3. PICK R : R = DomainAtoms(own.domains) \cup GroupAtoms(own.groups) \cup AttrAtoms(own.attrs) \cup AllAtoms(own.all)
  OBVIOUS
<1>4. \A x \in R : x[1] # "value"
  BY <1>3, AtomTags
<1>5. Atoms(own) = ValueAtoms(own.tables) \cup R
  BY <1>3, AtomParts
<1>6. Atoms(new) = ValueAtoms(T) \cup R
  BY <1>1, <1>3, AtomParts
<1>7. ASSUME NEW picked, NEW unpicked, Moves(ValueAtoms(own.tables), ValueAtoms(T), picked, unpicked),
             \A x \in unpicked : x[1] = "value"
      PROVE  Moves(Atoms(own), Atoms(new), picked, unpicked)
  <2>5. unpicked \cap R = {}
    BY <1>7, <1>4
  <2>6. QED
    BY <1>7, <1>5, <1>6, <2>5, MovesPart
<1>8. /\ Atoms(new) \ Atoms(own) \subseteq ValueAtoms(T) \ ValueAtoms(own.tables)
      /\ Atoms(own) \ Atoms(new) \subseteq ValueAtoms(own.tables) \ ValueAtoms(T)
      /\ ValueAtoms(T) \subseteq Atoms(new)
  BY <1>5, <1>6
<1>9. QED
  BY <1>1, <1>2, <1>7, <1>8
LEMMA OwnAttrsSet ==
    ASSUME NEW own \in Owns, NEW a \in {"mask", "deceased"}, NEW v \in BOOLEAN,
           NEW new, new = [own EXCEPT !.attrs = [@ EXCEPT ![a] = v]],
           NEW default, default = IF a = "mask" THEN TRUE ELSE FALSE
    PROVE  /\ new \in Owns /\ new.groups = own.groups
           /\ own.attrs[a] # v =>
                 Moves(Atoms(own), Atoms(new), IF v # default THEN {<<a>>} ELSE {}, IF v = default THEN {<<a>>} ELSE {})
<1>1. own.attrs \in Attributes
  BY OwnIs
<1>2. PICK b : b = [own.attrs EXCEPT ![a] = v]
  OBVIOUS
<1>3. b \in Attributes /\ b[a] = v
      /\ (a = "mask" => b.mask = v /\ b.deceased = own.attrs.deceased)
      /\ (a = "deceased" => b.deceased = v /\ b.mask = own.attrs.mask)
  BY <1>1, <1>2 DEF Attributes
<1>4. /\ new.attrs = b /\ new.domains = own.domains /\ new.tables = own.tables /\ new.all = own.all
      /\ new.groups = own.groups
      /\ new = [domains |-> new.domains, tables |-> new.tables, attrs |-> new.attrs, all |-> new.all,
                groups |-> new.groups]
  BY <1>2, OwnIs
<1>5. new \in Owns
  BY <1>3, <1>4, OwnIs DEF Owns
<1>6. PICK R : R = DomainAtoms(own.domains) \cup ValueAtoms(own.tables) \cup GroupAtoms(own.groups) \cup AllAtoms(own.all)
  OBVIOUS
<1>7. \A x \in R : x[1] \notin {"mask", "deceased"}
  BY <1>6, AtomTags
<1>8. Atoms(own) = AttrAtoms(own.attrs) \cup R
  BY <1>6, AtomParts
<1>9. Atoms(new) = AttrAtoms(b) \cup R
  BY <1>4, <1>6, AtomParts
<1>10. ASSUME own.attrs[a] # v, NEW picked, picked = IF v # default THEN {<<a>>} ELSE {},
              NEW unpicked, unpicked = IF v = default THEN {<<a>>} ELSE {}
       PROVE  Moves(Atoms(own), Atoms(new), picked, unpicked)
  <2>0. own.attrs.mask \in BOOLEAN /\ own.attrs.deceased \in BOOLEAN /\ b.mask \in BOOLEAN /\ b.deceased \in BOOLEAN
    BY <1>1, <1>3 DEF Attributes
  <2>1. Moves(AttrAtoms(own.attrs), AttrAtoms(b), picked, unpicked)
    <3>1. CASE a = "mask"
      <4>1. CASE v = TRUE
        <5>1. picked = {} /\ unpicked = {<<"mask">>}
          BY <1>10, <3>1, <4>1
        <5>2. own.attrs.mask = FALSE /\ b.mask = TRUE /\ b.deceased = own.attrs.deceased
          BY <1>10, <1>3, <2>0, <3>1, <4>1
        <5>3. QED
          BY <5>1, <5>2 DEF Moves, AttrAtoms
      <4>2. CASE v = FALSE
        <5>1. picked = {<<"mask">>} /\ unpicked = {}
          BY <1>10, <3>1, <4>2
        <5>2. own.attrs.mask = TRUE /\ b.mask = FALSE /\ b.deceased = own.attrs.deceased
          BY <1>10, <1>3, <2>0, <3>1, <4>2
        <5>3. QED
          BY <5>1, <5>2 DEF Moves, AttrAtoms
      <4>3. QED
        BY <4>1, <4>2
    <3>2. CASE a = "deceased"
      <4>1. CASE v = TRUE
        <5>1. picked = {<<"deceased">>} /\ unpicked = {}
          BY <1>10, <3>2, <4>1
        <5>2. own.attrs.deceased = FALSE /\ b.deceased = TRUE /\ b.mask = own.attrs.mask
          BY <1>10, <1>3, <2>0, <3>2, <4>1
        <5>3. QED
          BY <5>1, <5>2 DEF Moves, AttrAtoms
      <4>2. CASE v = FALSE
        <5>1. picked = {} /\ unpicked = {<<"deceased">>}
          BY <1>10, <3>2, <4>2
        <5>2. own.attrs.deceased = TRUE /\ b.deceased = FALSE /\ b.mask = own.attrs.mask
          BY <1>10, <1>3, <2>0, <3>2, <4>2
        <5>3. QED
          BY <5>1, <5>2 DEF Moves, AttrAtoms
      <4>3. QED
        BY <4>1, <4>2
    <3>3. QED
      BY <3>1, <3>2
  <2>2. unpicked \cap R = {}
    <3>0. \A x \in unpicked : x = <<a>>
      BY <1>10
    <3>1. \A x \in unpicked : x[1] \in {"mask", "deceased"}
      BY <3>0
    <3>2. QED
      BY <3>1, <1>7
  <2>3. QED
    BY <1>8, <1>9, <2>1, <2>2, MovesPart
<1>11. QED
  BY <1>4, <1>5, <1>10

LEMMA OwnAllSet ==
    ASSUME NEW own \in Owns, NEW v \in BOOLEAN, NEW new, new = [own EXCEPT !.all = v], own # new
    PROVE  /\ new \in Owns /\ new.groups = own.groups
           /\ Moves(Atoms(own), Atoms(new), IF v THEN {<<"all">>} ELSE {}, IF v THEN {} ELSE {<<"all">>})
<1>1. /\ new.all = v /\ new.domains = own.domains /\ new.tables = own.tables /\ new.attrs = own.attrs
      /\ new.groups = own.groups
      /\ new = [domains |-> new.domains, tables |-> new.tables, attrs |-> new.attrs, all |-> new.all,
                groups |-> new.groups]
      /\ own.all \in BOOLEAN
  BY OwnIs
<1>2. new \in Owns
  BY <1>1, OwnIs DEF Owns
<1>3. own.all = ~v
  BY <1>1, OwnIs
<1>4. PICK R : R = DomainAtoms(own.domains) \cup ValueAtoms(own.tables) \cup GroupAtoms(own.groups) \cup AttrAtoms(own.attrs)
  OBVIOUS
<1>5. \A x \in R : x[1] # "all"
  BY <1>4, AtomTags
<1>6. Atoms(own) = AllAtoms(own.all) \cup R
  BY <1>4, AtomParts
<1>7. Atoms(new) = AllAtoms(v) \cup R
  BY <1>1, <1>4, AtomParts
<1>8. ASSUME NEW picked, picked = IF v THEN {<<"all">>} ELSE {}, NEW unpicked, unpicked = IF v THEN {} ELSE {<<"all">>}
      PROVE  Moves(Atoms(own), Atoms(new), picked, unpicked)
  <2>1. Moves(AllAtoms(own.all), AllAtoms(v), picked, unpicked)
    BY <1>3, <1>8 DEF Moves, AllAtoms
  <2>2. unpicked \cap R = {}
    <3>1. \A x \in unpicked : x[1] = "all"
      BY <1>8
    <3>2. QED
      BY <3>1, <1>5
  <2>3. QED
    BY <1>6, <1>7, <2>1, <2>2, MovesPart
<1>9. QED
  BY <1>1, <1>2, <1>8

LEMMA OwnGroupsSet ==
    ASSUME NEW own \in Owns, NEW S \in SUBSET UserGroups, NEW new, new = [own EXCEPT !.groups = S],
           NEW picked, picked = {<<"group", g>> : g \in S \ own.groups},
           NEW unpicked, unpicked = {<<"group", g>> : g \in own.groups \ S}
    PROVE  new \in Owns /\ Moves(Atoms(own), Atoms(new), picked, unpicked)
<1>1. /\ new.groups = S /\ new.domains = own.domains /\ new.tables = own.tables /\ new.attrs = own.attrs
      /\ new.all = own.all
      /\ new = [domains |-> new.domains, tables |-> new.tables, attrs |-> new.attrs, all |-> new.all,
                groups |-> new.groups]
  BY OwnIs
<1>2. new \in Owns
  BY <1>1, OwnIs DEF Owns
<1>3. PICK R : R = DomainAtoms(own.domains) \cup ValueAtoms(own.tables) \cup AllAtoms(own.all) \cup AttrAtoms(own.attrs)
  OBVIOUS
<1>4. \A x \in R : x[1] # "group"
  BY <1>3, AtomTags
<1>5. Atoms(own) = GroupAtoms(own.groups) \cup R
  BY <1>3, AtomParts
<1>6. Atoms(new) = GroupAtoms(S) \cup R
  BY <1>1, <1>3, AtomParts
<1>7. Moves(GroupAtoms(own.groups), GroupAtoms(S), picked, unpicked)
  BY DEF Moves, GroupAtoms
<1>8. unpicked \cap R = {}
  <2>1. \A x \in unpicked : x[1] = "group"
    OBVIOUS
  <2>2. QED
    BY <1>4, <2>1
<1>9. QED
  BY <1>2, <1>5, <1>6, <1>7, <1>8, MovesPart
LEMMA InDomainAtoms ==
    ASSUME NEW D
    PROVE  /\ \A x \in DomainAtoms(D) :
                 \/ \E d \in DOMAIN D : x = <<"domain", d>>
                 \/ \E d \in DOMAIN D : \E c \in D[d] : x = <<"class", d, c>>
           /\ \A d : <<"domain", d>> \in DomainAtoms(D) <=> d \in DOMAIN D
           /\ \A d, c : <<"class", d, c>> \in DomainAtoms(D) <=> d \in DOMAIN D /\ c \in D[d]
<1>1. \A x : x \in DomainAtoms(D) <=>
                 \/ \E d \in DOMAIN D : x = <<"domain", d>>
                 \/ \E d \in DOMAIN D : \E c \in D[d] : x = <<"class", d, c>>
  BY DEF DomainAtoms
<1>2. \A d, e, c : <<"domain", d>> # <<"class", e, c>>
  <2>1. \A d, e, c : <<"domain", d>>[1] # <<"class", e, c>>[1]
    OBVIOUS
  <2>2. QED
    BY <2>1
<1>3. \A d : <<"domain", d>> \in DomainAtoms(D) <=> d \in DOMAIN D
  BY <1>1, <1>2
<1>4. \A d, c : <<"class", d, c>> \in DomainAtoms(D) <=> d \in DOMAIN D /\ c \in D[d]
  BY <1>1, <1>2
<1>5. QED
  BY <1>1, <1>3, <1>4

\* An edit of domains, and of the classifications of d.
DomainPicks(d, S, C) == {<<"domain", e>> : e \in S} \cup {<<"class", d, c>> : c \in C}

DomainEdit(D, E, d, PD, PC, UD, UC) ==
    /\ DOMAIN E \ DOMAIN D \subseteq PD /\ PD \subseteq DOMAIN E
    /\ DOMAIN D \ DOMAIN E \subseteq UD /\ UD \cap DOMAIN E = {}
    /\ \A e \in DOMAIN E : e # d => (e \in DOMAIN D /\ E[e] = D[e]) \/ E[e] = {}
    /\ \A e \in DOMAIN D : e # d /\ e \in DOMAIN E => E[e] = D[e]
    /\ \A e \in DOMAIN D : e # d /\ e \notin DOMAIN E => D[e] = {}
    /\ \A c : d \in DOMAIN E /\ c \in E[d] /\ ~(d \in DOMAIN D /\ c \in D[d]) => c \in PC
    /\ \A c \in PC : d \in DOMAIN E /\ c \in E[d]
    /\ \A c : d \in DOMAIN D /\ c \in D[d] /\ ~(d \in DOMAIN E /\ c \in E[d]) => c \in UC
    /\ \A c \in UC : ~(d \in DOMAIN E /\ c \in E[d])

LEMMA DomainMoves ==
    ASSUME NEW D, NEW E, NEW d, NEW PD, NEW UD, NEW PC, NEW UC, DomainEdit(D, E, d, PD, PC, UD, UC),
           NEW picked, picked = DomainPicks(d, PD, PC), NEW unpicked, unpicked = DomainPicks(d, UD, UC)
    PROVE  /\ Moves(DomainAtoms(D), DomainAtoms(E), picked, unpicked)
           /\ \A x \in unpicked : x[1] \in {"domain", "class"}
<1> USE DEF DomainEdit, DomainPicks
<1>1. ASSUME NEW x \in DomainAtoms(E), x \notin DomainAtoms(D) PROVE x \in picked
  <2>1. CASE \E e \in DOMAIN E : x = <<"domain", e>>
    BY <1>1, <2>1, InDomainAtoms
  <2>2. CASE \E e \in DOMAIN E : \E c \in E[e] : x = <<"class", e, c>>
    <3>1. PICK e \in DOMAIN E : \E c \in E[e] : x = <<"class", e, c>>
      BY <2>2
    <3>6. PICK c \in E[e] : x = <<"class", e, c>>
      BY <3>1
    <3>2. ~(e \in DOMAIN D /\ c \in D[e])
      BY <1>1, <3>6, InDomainAtoms
    <3>3. e = d
      BY <3>2, <3>6
    <3>4. c \in PC
      BY <3>2, <3>3, <3>6
    <3>5. QED
      BY <3>6, <3>3, <3>4
  <2>3. QED
    BY <2>1, <2>2, InDomainAtoms
<1>2. ASSUME NEW x \in DomainAtoms(D), x \notin DomainAtoms(E) PROVE x \in unpicked
  <2>1. CASE \E e \in DOMAIN D : x = <<"domain", e>>
    BY <1>2, <2>1, InDomainAtoms
  <2>2. CASE \E e \in DOMAIN D : \E c \in D[e] : x = <<"class", e, c>>
    <3>1. PICK e \in DOMAIN D : \E c \in D[e] : x = <<"class", e, c>>
      BY <2>2
    <3>6. PICK c \in D[e] : x = <<"class", e, c>>
      BY <3>1
    <3>2. ~(e \in DOMAIN E /\ c \in E[e])
      BY <1>2, <3>6, InDomainAtoms
    <3>3. e = d
      BY <3>2, <3>6
    <3>4. c \in UC
      BY <3>2, <3>3, <3>6
    <3>5. QED
      BY <3>6, <3>3, <3>4
  <2>3. QED
    BY <2>1, <2>2, InDomainAtoms
<1>3. picked \subseteq DomainAtoms(E)
  <2>1. \A e \in PD : <<"domain", e>> \in DomainAtoms(E)
    BY InDomainAtoms
  <2>2. \A c \in PC : <<"class", d, c>> \in DomainAtoms(E)
    BY InDomainAtoms
  <2>3. QED
    BY <2>1, <2>2
<1>4. unpicked \cap DomainAtoms(E) = {}
  <2>1. \A e \in UD : <<"domain", e>> \notin DomainAtoms(E)
    BY InDomainAtoms
  <2>2. \A c \in UC : <<"class", d, c>> \notin DomainAtoms(E)
    BY InDomainAtoms
  <2>3. QED
    BY <2>1, <2>2
<1>5. \A x \in unpicked : x[1] \in {"domain", "class"}
  OBVIOUS
<1>6. QED
  BY <1>1, <1>2, <1>3, <1>4, <1>5 DEF Moves
LEMMA FormView ==
    ASSUME NEW own \in Owns, NEW m, m = Merged(own)
    PROVE  /\ DOMAIN m \subseteq Domains
           /\ \A d \in DOMAIN own.domains : d \in DOMAIN m
           /\ \A d \in DOMAIN own.domains : \A c \in own.domains[d] : c \in DOMAIN m[d].cls /\ Direct \in m[d].cls[c]
           /\ \A d \in DOMAIN m : \A c \in DOMAIN m[d].cls :
                 Direct \in m[d].cls[c] => d \in DOMAIN own.domains /\ c \in own.domains[d]
<1>1. PICK user : user = AsUser(own)
  OBVIOUS
<1>2. user \in FormUsers /\ Range(user.domains) = {[id |-> d, cls |-> own.domains[d]] : d \in DOMAIN own.domains}
  BY <1>1, AsUserIs
<1>3. m = MergeDomains(user)
  BY <1>1 DEF Merged
<1>4. user \in Holders(DomainEntry, FormTable, UserGroups)
  BY <1>2 DEF FormUsers
<1>5. /\ \A e \in Range(user.domains) :
           /\ e.id \in DOMAIN m
           /\ \A c \in e.cls : c \in DOMAIN m[e.id].cls /\ Direct \in m[e.id].cls[c]
      /\ Direct \notin UserGroups =>
           \A d \in DOMAIN m : \A c \in DOMAIN m[d].cls :
              Direct \in m[d].cls[c] => \E e \in Range(user.domains) : e.id = d /\ c \in e.cls
  BY <1>3, <1>4, OwnInView
<1>6. PICK dict : dict = DomainsDict(user)
  OBVIOUS
<1>7. DOMAIN m = DOMAIN dict
  BY <1>3, <1>4, <1>6, ViewParts
<1>8. DOMAIN dict \subseteq Domains
  BY <1>4, <1>6, DictTyped
<1>9. \A d \in DOMAIN own.domains :
         d \in DOMAIN m /\ \A c \in own.domains[d] : c \in DOMAIN m[d].cls /\ Direct \in m[d].cls[c]
  <2>1. TAKE d \in DOMAIN own.domains
  <2>2. PICK e : e = [id |-> d, cls |-> own.domains[d]]
    OBVIOUS
  <2>3. e \in Range(user.domains) /\ e.id = d /\ e.cls = own.domains[d]
    BY <1>2, <2>2
  <2>4. QED
    BY <1>5, <2>3
<1>10. \A d \in DOMAIN m : \A c \in DOMAIN m[d].cls :
          Direct \in m[d].cls[c] => d \in DOMAIN own.domains /\ c \in own.domains[d]
  <2>1. \A e \in Range(user.domains) : e.id \in DOMAIN own.domains /\ e.cls = own.domains[e.id]
    BY <1>2
  <2>2. Direct \notin UserGroups
    BY UserPopupAssumption
  <2>3. QED
    BY <1>5, <2>1, <2>2
<1>11. QED
  BY <1>7, <1>8, <1>9, <1>10

LEMMA OwnDomainParts ==
    ASSUME NEW own \in Owns
    PROVE  /\ DOMAIN own.domains \subseteq Domains
           /\ \A d \in DOMAIN own.domains : own.domains[d] \subseteq Classes /\ own.domains[d] \subseteq Catalog[d]
BY OwnIs, DomainMapIs

LEMMA DeleteDomainMoves ==
    ASSUME NEW own \in Owns, NEW d, NEW D, D = own.domains,
           NEW new, new = [own EXCEPT !.domains = [e \in DOMAIN @ \ {d} |-> @[e]]],
           NEW unpicked, unpicked = {<<"domain", d>>} \cup {<<"class", d, c>> : c \in Classes}
    PROVE  new \in Owns /\ new.groups = own.groups /\ Moves(Atoms(own), Atoms(new), {}, unpicked)
<1>1. PICK E : E = [e \in DOMAIN D \ {d} |-> D[e]]
  OBVIOUS
<1>2. E \in DomainMaps /\ \A e \in DOMAIN E : E[e] \subseteq Catalog[e]
  BY <1>1, OwnDomainParts, DomainMapIs
<1>3. new = [own EXCEPT !.domains = E]
  BY <1>1
<1>4. PICK picked, none0, only : picked = {} /\ none0 = {} /\ only = {d}
  OBVIOUS
<1>5. picked = DomainPicks(d, none0, none0) /\ unpicked = DomainPicks(d, only, Classes)
  BY <1>4 DEF DomainPicks
<1>6. DomainEdit(D, E, d, none0, none0, only, Classes)
  <2>1. DOMAIN E = DOMAIN D \ {d} /\ \A e \in DOMAIN E : E[e] = D[e]
    BY <1>1
  <2>2. \A c : d \in DOMAIN D /\ c \in D[d] => c \in Classes
    BY OwnDomainParts
  <2>3. QED
    BY <1>4, <2>1, <2>2 DEF DomainEdit
<1>7. Moves(DomainAtoms(D), DomainAtoms(E), picked, unpicked) /\ \A x \in unpicked : x[1] \in {"domain", "class"}
  BY <1>5, <1>6, DomainMoves
<1>8. QED
  BY <1>2, <1>3, <1>4, <1>7, OwnDomains

DomainsAdded(own, S) == [own EXCEPT !.domains = [d \in DOMAIN @ \cup S |-> IF d \in S THEN {} ELSE @[d]]]
DomainNames(S)       == {<<"domain", d>> : d \in S}

LEMMA AddDomainsMoves ==
    ASSUME NEW own \in Owns, NEW S \in SUBSET Domains, S \cap DOMAIN own.domains = {}, NEW D, D = own.domains,
           NEW new, new = DomainsAdded(own, S), NEW picked, picked = DomainNames(S)
    PROVE  new \in Owns /\ new.groups = own.groups /\ Moves(Atoms(own), Atoms(new), picked, {})
<1>1. PICK E : E = [d \in DOMAIN D \cup S |-> IF d \in S THEN {} ELSE D[d]]
  OBVIOUS
<1>2. E \in DomainMaps /\ \A e \in DOMAIN E : E[e] \subseteq Catalog[e]
  <2>1. DOMAIN E \subseteq Domains /\ E \in [DOMAIN E -> SUBSET Classes]
    BY <1>1, OwnDomainParts
  <2>2. \A e \in DOMAIN E : E[e] \subseteq Catalog[e]
    BY <1>1, OwnDomainParts
  <2>3. QED
    BY <2>1, <2>2, DomainMapIs
<1>3. new = [own EXCEPT !.domains = E]
  BY <1>1 DEF DomainsAdded
<1>4. PICK unpicked : unpicked = {}
  OBVIOUS
<1>5. PICK d, none0 : d = S /\ none0 = {}
  OBVIOUS
<1>6. unpicked = DomainPicks(d, none0, none0) /\ picked = DomainPicks(d, S, none0)
  BY <1>4, <1>5 DEF DomainPicks, DomainNames
<1>7. DomainEdit(D, E, d, S, none0, none0, none0)
  <2>1. DOMAIN E = DOMAIN D \cup S /\ (\A e \in DOMAIN E : E[e] = IF e \in S THEN {} ELSE D[e]) /\ S \cap DOMAIN D = {}
    BY <1>1
  <2>2. QED
    BY <1>5, <2>1 DEF DomainEdit
<1>8. Moves(DomainAtoms(D), DomainAtoms(E), picked, unpicked) /\ \A x \in unpicked : x[1] \in {"domain", "class"}
  BY <1>6, <1>7, DomainMoves
<1>9. QED
  BY <1>2, <1>3, <1>4, <1>8, OwnDomains

LEMMA DeleteClassMoves ==
    ASSUME NEW own \in Owns, NEW d, NEW c, NEW D, D = own.domains,
           NEW new, new = [own EXCEPT !.domains = [e \in DOMAIN @ |-> IF e = d THEN @[e] \ {c} ELSE @[e]]],
           NEW unpicked, unpicked = {<<"class", d, c>>}
    PROVE  new \in Owns /\ new.groups = own.groups /\ Moves(Atoms(own), Atoms(new), {}, unpicked)
<1>1. PICK E : E = [e \in DOMAIN D |-> IF e = d THEN D[e] \ {c} ELSE D[e]]
  OBVIOUS
<1>2. E \in DomainMaps /\ \A e \in DOMAIN E : E[e] \subseteq Catalog[e]
  <2>1. DOMAIN E \subseteq Domains /\ E \in [DOMAIN E -> SUBSET Classes]
    BY <1>1, OwnDomainParts
  <2>2. \A e \in DOMAIN E : E[e] \subseteq Catalog[e]
    BY <1>1, OwnDomainParts
  <2>3. QED
    BY <2>1, <2>2, DomainMapIs
<1>3. new = [own EXCEPT !.domains = E]
  BY <1>1
<1>4. PICK picked, none0, only : picked = {} /\ none0 = {} /\ only = {c}
  OBVIOUS
<1>5. picked = DomainPicks(d, none0, none0) /\ unpicked = DomainPicks(d, none0, only)
  BY <1>4 DEF DomainPicks
<1>6. DomainEdit(D, E, d, none0, none0, none0, only)
  <2>1. DOMAIN E = DOMAIN D /\ \A e \in DOMAIN E : E[e] = IF e = d THEN D[e] \ {c} ELSE D[e]
    BY <1>1
  <2>2. QED
    BY <1>4, <2>1 DEF DomainEdit
<1>7. Moves(DomainAtoms(D), DomainAtoms(E), picked, unpicked) /\ \A x \in unpicked : x[1] \in {"domain", "class"}
  BY <1>5, <1>6, DomainMoves
<1>8. QED
  BY <1>2, <1>3, <1>4, <1>7, OwnDomains
DomainKept(own, d, kept) == [own EXCEPT !.domains = [e \in DOMAIN @ \cup {d} |-> IF e = d THEN kept ELSE @[e]]]
Flipped(initial, flipped) == (initial \ flipped) \cup (flipped \ initial)
ClassPicks(d, C)          == {<<"class", d, c>> : c \in C}
KeptPicks(d, C)           == {<<"domain", d>>} \cup ClassPicks(d, C)

\* The dialog of the domain d is saved, when of its classifications only options had come.
ClassesSaved(own, m, d, options, flipped, new, picked, away) ==
    /\ options \subseteq Catalog[d] /\ flipped \subseteq options
    /\ new = DomainKept(own, d, Submitted(options, m[d].cls, Flipped(DOMAIN m[d].cls, flipped)))
    /\ picked = KeptPicks(d, flipped \ DOMAIN m[d].cls)
    /\ away = ClassPicks(d, (flipped \cap DOMAIN m[d].cls) \cup (DOMAIN m[d].cls \ options))

LEMMA EditClassesMoves ==
    ASSUME NEW own \in Owns, NEW m, m = Merged(own), NEW d \in DOMAIN m, NEW options, NEW flipped,
           NEW new, NEW picked, NEW unpicked, ClassesSaved(own, m, d, options, flipped, new, picked, unpicked)
    PROVE  new \in Owns /\ new.groups = own.groups /\ Moves(Atoms(own), Atoms(new), picked, unpicked)
<1>1. PICK D, initial, checked, kept, come, go :
         /\ D = own.domains /\ initial = DOMAIN m[d].cls /\ checked = Flipped(initial, flipped)
         /\ kept = Submitted(options, m[d].cls, checked)
         /\ come = flipped \ initial /\ go = (flipped \cap initial) \cup (initial \ options)
  OBVIOUS
<1>2. PICK E : E = [e \in DOMAIN D \cup {d} |-> IF e = d THEN kept ELSE D[e]]
  OBVIOUS
<1>3. /\ d \in Domains
      /\ \A c \in kept : c \in options /\ c \in checked /\ (c \in initial => Direct \in m[d].cls[c])
      /\ \A c \in options \cap checked : (c \in initial => Direct \in m[d].cls[c]) => c \in kept
  BY <1>1, FormView DEF Submitted, HasDirect
<1>4. /\ options \subseteq Catalog[d] /\ flipped \subseteq options
       /\ new = DomainKept(own, d, kept) /\ picked = KeptPicks(d, come) /\ unpicked = ClassPicks(d, go)
  BY <1>1 DEF ClassesSaved
<1>5. Catalog[d] \subseteq Classes
  BY <1>3, UserPopupAssumption
<1>6. \A c : d \in DOMAIN D /\ c \in D[d] => c \in initial /\ Direct \in m[d].cls[c] /\ c \in Catalog[d]
  BY <1>1, FormView, OwnDomainParts
<1>7. \A c \in initial : Direct \in m[d].cls[c] => d \in DOMAIN D /\ c \in D[d]
  BY <1>1, FormView
<1>8. E \in DomainMaps /\ \A e \in DOMAIN E : E[e] \subseteq Catalog[e]
  <2>1. DOMAIN E \subseteq Domains /\ E \in [DOMAIN E -> SUBSET Classes]
    BY <1>1, <1>4, <1>2, <1>3, <1>5, OwnDomainParts
  <2>2. \A e \in DOMAIN E : E[e] \subseteq Catalog[e]
    BY <1>1, <1>4, <1>2, <1>3, OwnDomainParts
  <2>3. QED
    BY <2>1, <2>2, DomainMapIs
<1>9. new = [own EXCEPT !.domains = E]
  BY <1>1, <1>2, <1>4 DEF DomainKept
<1>10. PICK none0, only : none0 = {} /\ only = {d}
  OBVIOUS
<1>11. picked = DomainPicks(d, only, come) /\ unpicked = DomainPicks(d, none0, go)
  BY <1>10, <1>4 DEF DomainPicks, ClassPicks, KeptPicks
<1>12. DomainEdit(D, E, d, only, come, none0, go)
  <2>1. DOMAIN E = DOMAIN D \cup {d} /\ E[d] = kept /\ \A e \in DOMAIN D : e # d => E[e] = D[e]
    BY <1>2
  <2>2. \A c \in kept : ~(d \in DOMAIN D /\ c \in D[d]) => c \in come
    BY <1>1, <1>3, <1>7, <1>10 DEF Flipped
  <2>3. \A c \in come : c \in kept
    BY <1>1, <1>4, <1>3, <1>10 DEF Flipped
  <2>4. \A c : d \in DOMAIN D /\ c \in D[d] /\ c \notin kept => c \in go
    BY <1>1, <1>4, <1>3, <1>6, <1>10 DEF Flipped
  <2>5. \A c \in go : c \notin kept
    BY <1>1, <1>3, <1>10 DEF Flipped
  <2>6. QED
    BY <1>10, <2>1, <2>2, <2>3, <2>4, <2>5 DEF DomainEdit
<1>13. Moves(DomainAtoms(D), DomainAtoms(E), picked, unpicked) /\ \A x \in unpicked : x[1] \in {"domain", "class"}
  BY ONLY <1>11, <1>12, DomainMoves
<1>14. /\ new \in Owns /\ new.groups = own.groups
       /\ \A p, q : Moves(DomainAtoms(own.domains), DomainAtoms(E), p, q) /\ (\A x \in q : x[1] \in {"domain", "class"})
                   => Moves(Atoms(own), Atoms(new), p, q)
  BY ONLY own \in Owns, <1>8, <1>9, OwnDomains
<1>15. Moves(Atoms(own), Atoms(new), picked, unpicked)
  BY ONLY <1>1, <1>13, <1>14
<1>16. QED
  BY <1>14, <1>15

LEMMA InValueAtoms ==
    ASSUME NEW T
    PROVE  /\ \A x : x \in ValueAtoms(T)
                 <=> \E t \in DOMAIN T : \E k \in Kods : \E v \in T[t][k] \ {0} : x = <<"value", t, k, v>>
           /\ \A t, k, v : <<"value", t, k, v>> \in ValueAtoms(T)
                 <=> t \in DOMAIN T /\ k \in Kods /\ v \in T[t][k] /\ v # 0
<1>1. \A x : x \in ValueAtoms(T)
         <=> \E t \in DOMAIN T : \E k \in Kods : \E v \in T[t][k] \ {0} : x = <<"value", t, k, v>>
  BY DEF ValueAtoms
<1>2. QED
  BY <1>1

\* What the values of the row filter k of the table t may be.
FilterFits(k, values) == IF k \in BoolKods THEN values \in {{0}, {1}} ELSE values \subseteq Values

\* One row filter of the tables T gets other values.
OneFilter(T, F, t, k, values) ==
    /\ DOMAIN F = DOMAIN T
    /\ \A s \in DOMAIN F : \A j \in Kods : F[s][j] = IF s = t /\ j = k THEN values ELSE T[s][j]

LEMMA WithValuesIs ==
    ASSUME NEW own \in Owns, NEW t, NEW k \in Kods, NEW values, FilterFits(k, values),
           NEW new, new = WithValues(own, t, k, values)
    PROVE  /\ new \in Owns /\ new.groups = own.groups
           /\ t \notin DOMAIN own.tables => new = own
           /\ \E F \in TableMaps :
                 new = [own EXCEPT !.tables = F] /\ OneFilter(own.tables, F, t, k, values)
<1>1. PICK T : T = own.tables
  OBVIOUS
<1>2. T \in TableMaps /\ DOMAIN T \subseteq PermissionTables /\ T \in [DOMAIN T -> FilterMaps]
  BY <1>1, OwnIs, TableMapIs
<1>3. PICK F : F = [s \in DOMAIN T |-> IF s = t THEN [T[s] EXCEPT ![k] = values] ELSE T[s]]
  OBVIOUS
<1>4. new = [own EXCEPT !.tables = F]
  BY <1>1, <1>3 DEF WithValues
<1>5. \A s \in DOMAIN T : T[s] \in [Kods -> SUBSET FilterValues]
         /\ \A j \in Kods : FilterFits(j, T[s][j])
  BY <1>2 DEF FilterMaps, FilterFits
<1>6. \A s \in DOMAIN F, j \in Kods : F[s][j] = IF s = t /\ j = k THEN values ELSE T[s][j]
  BY <1>3, <1>5
<1>7. ASSUME NEW s \in DOMAIN F PROVE F[s] \in FilterMaps
  <2>1. F[s] \in [Kods -> SUBSET FilterValues]
    <3>1. values \in SUBSET FilterValues
      BY DEF FilterFits, FilterValues
    <3>2. QED
      BY <1>3, <1>5, <3>1
  <2>2. \A j \in Kods : FilterFits(j, F[s][j])
    BY <1>3, <1>5, <1>6
  <2>3. QED
    BY <2>1, <2>2 DEF FilterMaps, FilterFits
<1>8. F \in TableMaps
  <2>1. DOMAIN F \subseteq PermissionTables
    BY <1>2, <1>3
  <2>2. F \in [DOMAIN F -> FilterMaps]
    BY <1>3, <1>7
  <2>3. QED
    BY <2>1, <2>2, TableMapIs
<1>9. new \in Owns /\ new.groups = own.groups
  BY <1>4, <1>8, OwnTablesSet
<1>10. t \notin DOMAIN own.tables => new = own
  <2>1. t \notin DOMAIN T => F = T
    BY <1>2, <1>3
  <2>2. own = [own EXCEPT !.tables = T]
    BY <1>1, OwnIs
  <2>3. QED
    BY <1>1, <1>4, <2>1, <2>2
<1>11. OneFilter(T, F, t, k, values)
  BY <1>1, <1>3, <1>6 DEF OneFilter
<1>12. QED
  BY <1>1, <1>4, <1>8, <1>9, <1>10, <1>11

ValuePicks(t, k, V) == {<<"value", t, k, v>> : v \in V}

LEMMA InValuePicks ==
    ASSUME NEW t, NEW k, NEW V
    PROVE  /\ \A v : <<"value", t, k, v>> \in ValuePicks(t, k, V) <=> v \in V
           /\ \A x \in ValuePicks(t, k, V) : x[1] = "value"
BY DEF ValuePicks

LEMMA ValuesDiffer ==
    ASSUME NEW T, NEW F, NEW t, NEW k, NEW values, OneFilter(T, F, t, k, values)
    PROVE  /\ \A x \in ValueAtoms(F) : x \notin ValueAtoms(T) =>
                 t \in DOMAIN T /\ \E v \in values \ {0} : v \notin T[t][k] /\ x = <<"value", t, k, v>>
           /\ \A x \in ValueAtoms(T) : x \notin ValueAtoms(F) =>
                 t \in DOMAIN T /\ \E v \in T[t][k] \ {0} : v \notin values /\ x = <<"value", t, k, v>>
<1>1. ASSUME NEW x \in ValueAtoms(F), x \notin ValueAtoms(T)
      PROVE  t \in DOMAIN T /\ \E v \in values \ {0} : v \notin T[t][k] /\ x = <<"value", t, k, v>>
  <2>1. PICK s \in DOMAIN F : \E j \in Kods : \E v \in F[s][j] \ {0} : x = <<"value", s, j, v>>
    BY <1>1, InValueAtoms
  <2>2. PICK j \in Kods : \E v \in F[s][j] \ {0} : x = <<"value", s, j, v>>
    BY <2>1
  <2>3. PICK v \in F[s][j] \ {0} : x = <<"value", s, j, v>>
    BY <2>2
  <2>4. v \notin T[s][j]
    BY <1>1, <2>3, InValueAtoms DEF OneFilter
  <2>5. s = t /\ j = k /\ F[s][j] = values
    BY <2>3, <2>4 DEF OneFilter
  <2>6. QED
    BY <2>3, <2>4, <2>5 DEF OneFilter
<1>2. ASSUME NEW x \in ValueAtoms(T), x \notin ValueAtoms(F)
      PROVE  t \in DOMAIN T /\ \E v \in T[t][k] \ {0} : v \notin values /\ x = <<"value", t, k, v>>
  <2>1. PICK s \in DOMAIN T : \E j \in Kods : \E v \in T[s][j] \ {0} : x = <<"value", s, j, v>>
    BY <1>2, InValueAtoms
  <2>2. PICK j \in Kods : \E v \in T[s][j] \ {0} : x = <<"value", s, j, v>>
    BY <2>1
  <2>3. PICK v \in T[s][j] \ {0} : x = <<"value", s, j, v>>
    BY <2>2
  <2>4. v \notin F[s][j]
    BY <1>2, <2>3, InValueAtoms DEF OneFilter
  <2>5. s = t /\ j = k /\ F[s][j] = values
    BY <2>3, <2>4 DEF OneFilter
  <2>6. QED
    BY <2>3, <2>4, <2>5 DEF OneFilter
<1>3. QED
  BY <1>1, <1>2

\* The values PV come and UV go, apart from a boolean that is off.
ValueEdit(old, values, PV, UV) ==
    /\ PV \subseteq values /\ 0 \notin PV /\ UV \cap values = {}
    /\ \A v \in values : v \in old \/ v = 0 \/ v \in PV
    /\ \A v \in old : v \in values \/ v = 0 \/ v \in UV

LEMMA ValueMoves ==
    ASSUME NEW own \in Owns, NEW t \in DOMAIN own.tables, NEW k \in Kods, NEW values, FilterFits(k, values),
           NEW new, new = WithValues(own, t, k, values),
           NEW PV, NEW UV, ValueEdit(own.tables[t][k], values, PV, UV),
           NEW picked, picked = ValuePicks(t, k, PV), NEW unpicked, unpicked = ValuePicks(t, k, UV)
    PROVE  new \in Owns /\ new.groups = own.groups /\ Moves(Atoms(own), Atoms(new), picked, unpicked)
<1>1. PICK T : T = own.tables
  OBVIOUS
<1>2. PICK F \in TableMaps :
         new = [own EXCEPT !.tables = F] /\ OneFilter(T, F, t, k, values)
  BY <1>1, WithValuesIs
<1>12. /\ \A x \in ValueAtoms(F) : x \notin ValueAtoms(T) =>
             t \in DOMAIN T /\ \E v \in values \ {0} : v \notin T[t][k] /\ x = <<"value", t, k, v>>
       /\ \A x \in ValueAtoms(T) : x \notin ValueAtoms(F) =>
             t \in DOMAIN T /\ \E v \in T[t][k] \ {0} : v \notin values /\ x = <<"value", t, k, v>>
  BY ONLY <1>2, ValuesDiffer
<1>3. ValueAtoms(F) \ ValueAtoms(T) \subseteq picked
  <2>1. ASSUME NEW x \in ValueAtoms(F), x \notin ValueAtoms(T) PROVE x \in picked
    <3>1. PICK v \in values \ {0} : v \notin T[t][k] /\ x = <<"value", t, k, v>>
      BY <2>1, <1>12
    <3>2. v \in PV
      BY <1>1, <3>1 DEF ValueEdit
    <3>3. QED
      BY <3>1, <3>2, InValuePicks
  <2>2. QED
    BY <2>1
<1>4. ValueAtoms(T) \ ValueAtoms(F) \subseteq unpicked
  <2>1. ASSUME NEW x \in ValueAtoms(T), x \notin ValueAtoms(F) PROVE x \in unpicked
    <3>1. PICK v \in T[t][k] \ {0} : v \notin values /\ x = <<"value", t, k, v>>
      BY <2>1, <1>12
    <3>2. v \in UV
      BY <1>1, <3>1 DEF ValueEdit
    <3>3. QED
      BY <3>1, <3>2, InValuePicks
  <2>2. QED
    BY <2>1
<1>5. t \in DOMAIN F /\ F[t][k] = values
  BY <1>1, <1>2 DEF OneFilter
<1>6. picked \subseteq ValueAtoms(F)
  <2>1. \A v \in PV : <<"value", t, k, v>> \in ValueAtoms(F)
    BY <1>5, InValueAtoms DEF ValueEdit
  <2>2. QED
    BY <2>1 DEF ValuePicks
<1>7. unpicked \cap ValueAtoms(F) = {}
  <2>1. \A v \in UV : <<"value", t, k, v>> \notin ValueAtoms(F)
    BY <1>5, InValueAtoms DEF ValueEdit
  <2>2. QED
    BY <2>1 DEF ValuePicks
<1>8. Moves(ValueAtoms(T), ValueAtoms(F), picked, unpicked)
  BY <1>3, <1>4, <1>6, <1>7 DEF Moves
<1>9. \A x \in unpicked : x[1] = "value"
  BY InValuePicks
<1>10. QED
  BY <1>1, <1>2, <1>8, <1>9, OwnTablesSet

\* The effect of UserPermissionTables takes away tables that are not offered any more.
LEMMA OptionsMoves ==
    ASSUME NEW own \in Owns, NEW offered \in SUBSET PermissionTables, NEW old, old = own.tables,
           NEW new, new = [own EXCEPT !.tables = OfferedTables(old, offered)], NEW gone, gone = GoneValues(old, offered)
    PROVE  new \in Owns /\ new.groups = own.groups /\ Atoms(new) \subseteq Atoms(own) /\ Atoms(own) \ Atoms(new) \subseteq gone
<1>1. PICK F : F = OfferedTables(old, offered)
  OBVIOUS
<1>2. old \in [DOMAIN old -> FilterMaps]
  BY OwnIs, TableMapIs
<1>3. DefaultFilters \in FilterMaps
  <2>1. DefaultFilters \in [Kods -> SUBSET FilterValues]
    BY DEF DefaultFilters, FilterValues
  <2>2. QED
    BY <2>1 DEF DefaultFilters, FilterMaps
<1>4. F \in TableMaps
  <2>1. F \in [DOMAIN F -> FilterMaps] /\ DOMAIN F \subseteq PermissionTables
    BY <1>1, <1>2, <1>3 DEF OfferedTables
  <2>2. QED
    BY <2>1, TableMapIs
<1>5. ValueAtoms(F) \subseteq ValueAtoms(old)
  <2>1. ASSUME NEW x \in ValueAtoms(F) PROVE x \in ValueAtoms(old)
    <3>1. PICK t \in DOMAIN F : \E j \in Kods : \E v \in F[t][j] \ {0} : x = <<"value", t, j, v>>
      BY <2>1, InValueAtoms
    <3>2. PICK j \in Kods : \E v \in F[t][j] \ {0} : x = <<"value", t, j, v>>
      BY <3>1
    <3>3. PICK v \in F[t][j] \ {0} : x = <<"value", t, j, v>>
      BY <3>2
    <3>4. t \in DOMAIN old /\ F[t] = old[t]
      <4>1. DefaultFilters[j] \in {{0}, {}}
        BY DEF DefaultFilters
      <4>2. QED
        BY <1>1, <3>3, <4>1 DEF OfferedTables
    <3>5. QED
      BY <3>3, <3>4, InValueAtoms
  <2>2. QED
    BY <2>1
<1>6. ValueAtoms(old) \ ValueAtoms(F) \subseteq gone
  <2>1. ASSUME NEW x \in ValueAtoms(old), x \notin ValueAtoms(F) PROVE x \in gone
    <3>1. PICK t \in DOMAIN old : \E j \in Kods : \E v \in old[t][j] \ {0} : x = <<"value", t, j, v>>
      BY <2>1, InValueAtoms
    <3>2. PICK j \in Kods : \E v \in old[t][j] \ {0} : x = <<"value", t, j, v>>
      BY <3>1
    <3>3. PICK v \in old[t][j] \ {0} : x = <<"value", t, j, v>>
      BY <3>2
    <3>4. t \notin offered
      BY <1>1, <2>1, <3>3, InValueAtoms DEF OfferedTables
    <3>5. v \in UNION {old[t][i] : i \in Kods}
      BY <3>3
    <3>6. x \in {<<"value", t, k, w>> : k \in Kods, w \in UNION {old[t][i] : i \in Kods}}
      BY <3>3, <3>5
    <3>7. QED
      BY <3>4, <3>6 DEF GoneValues
  <2>2. QED
    BY <2>1
<1>7. new = [own EXCEPT !.tables = F]
  BY <1>1
<1>8. /\ new \in Owns /\ new.groups = own.groups
      /\ Atoms(new) \ Atoms(own) \subseteq ValueAtoms(F) \ ValueAtoms(old)
      /\ Atoms(own) \ Atoms(new) \subseteq ValueAtoms(old) \ ValueAtoms(F)
  BY <1>4, <1>7, OwnTablesSet
<1>9. QED
  BY <1>5, <1>6, <1>8
(* The inductive invariant of the form. *)

IsForm(f) ==
    f = [phase |-> f.phase, kind |-> f.kind, name |-> f.name, doc |-> f.doc, base |-> f.base, own |-> f.own,
         at |-> f.at, options |-> f.options, picked |-> f.picked, unpicked |-> f.unpicked,
         dropped |-> f.dropped, hasty |-> f.hasty, edits |-> f.edits, crossed |-> f.crossed]

\* A form, its permissions and those that it is compared with are of their types; those of a
\* group have no groups.
FormTyped(f) ==
    /\ IsForm(f)
    /\ f.phase \in {"closed", "search", "open", "saving"} /\ f.crossed \in BOOLEAN
    /\ f.base \in Owns /\ f.own \in Owns
    /\ f.kind \in {"user", "group"}
    /\ f.kind = "user" => f.name \in UserIds \cup {EmptyUser} /\ f.doc \in UserIds \cup {EmptyUser}
    /\ f.kind = "group" => f.doc \in Forms /\ f.name = f.doc /\ f.base.groups = {} /\ f.own.groups = {}
    /\ f.kind = "user" /\ f.phase \in {"open", "saving"} => f.name # EmptyUser
    /\ f.phase = "search" => f.kind = "user"

\* What goes although nobody removed it.
LostBy(f) == f.dropped \cup f.hasty

PickedOnly(f) ==
    /\ Atoms(f.own) \ Atoms(f.base) \subseteq f.picked
    /\ Atoms(f.base) \ Atoms(f.own) \subseteq f.unpicked \cup LostBy(f)

FormTypes == Stores(stored) /\ Stores(shown) /\ FormTyped(form)

\* The lookups under way: a user that turned out to be unknown is unknown still when nobody
\* wrote users since.
FormLookups ==
    /\ writes \in 0 .. MaxUserWrites
    /\ waiting \subseteq [id : UserIds, sap : BOOLEAN, at : 0 .. writes]
    /\ waiting # {} => form.phase # "closed" /\ form.kind = "user"
    /\ \A w \in waiting : w.sap /\ w.at = writes => w.id \notin DOMAIN stored
    /\ form.at \in (0 .. writes) \cup {MaxUserWrites + 1}

\* Before a second lookup crosses the first, the form is empty until its answer came, and no
\* lookup is under way afterwards.
Uncrossed ==
    /\ PickedOnly(form)
    /\ \A v, w \in waiting : v = w
    /\ form.phase = "search" => form.doc = EmptyUser
    /\ form.phase \in {"open", "saving"} =>
          /\ waiting = {}
          /\ form.doc \in {EmptyUser, form.name} /\ form.name # EmptyUser
          /\ form.at = writes => (form.doc = EmptyUser) = (form.name \notin DOMAIN stored)

FormInv == FormTypes /\ FormLookups /\ (~form.crossed => Uncrossed)

(* Steps that change what is in the form. *)

\* g is the form f with other permissions or picks.
SameForm(f, g) ==
    /\ IsForm(g)
    /\ g.phase = f.phase /\ g.kind = f.kind /\ g.name = f.name /\ g.doc = f.doc /\ g.base = f.base
    /\ g.at = f.at /\ g.crossed = f.crossed

LEMMA FormChanges ==
    ASSUME FormInv, form.phase = "open", SameForm(form, form'), form'.own \in Owns,
           form.kind = "group" => form'.own.groups = {},
           ~form.crossed => PickedOnly(form'),
           UNCHANGED <<stored, shown, waiting, writes, failures>>
    PROVE  FormInv'
<1>1. FormTyped(form)
  BY DEF FormInv, FormTypes
<1>2. FormTyped(form')
  BY <1>1 DEF FormTyped, SameForm
<1>3. FormTypes'
  BY <1>2 DEF FormInv, FormTypes
<1>4. FormLookups'
  BY DEF FormInv, FormLookups, SameForm
<1>5. ~form'.crossed => Uncrossed'
  BY DEF FormInv, Uncrossed, SameForm
<1>6. QED
  BY <1>3, <1>4, <1>5 DEF FormInv

LEMMA SubmitKeeps ==
    ASSUME FormInv, form.phase = "open", NEW own \in Owns, form.kind = "group" => own.groups = {},
           NEW picked, NEW unpicked, NEW hasty, Moves(Atoms(form.own), Atoms(own), picked, unpicked \cup hasty),
           FormSubmitted(own, picked, unpicked, hasty)
    PROVE  FormInv'
<1>1. FormTyped(form) /\ IsForm(form)
  BY DEF FormInv, FormTypes, FormTyped
<1>2. /\ SameForm(form, form') /\ form'.own = own /\ form'.dropped = form.dropped
      /\ form'.picked = (form.picked \ unpicked) \cup picked
      /\ form'.unpicked = (form.unpicked \ picked) \cup unpicked
      /\ form'.hasty = form.hasty \cup hasty
  BY <1>1 DEF FormSubmitted, SameForm, IsForm
<1>3. UNCHANGED <<stored, shown, waiting, writes, failures>>
  BY DEF FormSubmitted
<1>4. ~form.crossed => PickedOnly(form')
  <2>1. ASSUME ~form.crossed PROVE PickedOnly(form')
    <3>1. PickedOnly(form)
      BY <2>1 DEF FormInv, Uncrossed
    <3>2. form'.base = form.base
      BY <1>2 DEF SameForm
    <3>3. PICK A, B, C, chosen, removed, missing :
            /\ A = Atoms(form.own) /\ B = Atoms(form.base) /\ C = Atoms(own)
            /\ chosen = form.picked /\ removed = form.unpicked /\ missing = LostBy(form)
      OBVIOUS
    <3>4. A \ B \subseteq chosen /\ B \ A \subseteq removed \cup missing /\ Moves(A, C, picked, unpicked \cup hasty)
      BY <3>1, <3>3 DEF PickedOnly
    <3>5. /\ C \ B \subseteq (chosen \ unpicked) \cup picked
          /\ B \ C \subseteq ((removed \ picked) \cup unpicked) \cup (missing \cup hasty)
      BY ONLY <3>4 DEF Moves
    <3>6. LostBy(form') = missing \cup hasty
      BY <1>2, <3>3 DEF LostBy
    <3>7. QED
      BY <1>2, <3>2, <3>3, <3>5, <3>6 DEF PickedOnly
  <2>2. QED
    BY <2>1
<1>5. QED
  BY <1>2, <1>3, <1>4, FormChanges

LEMMA EditKeeps ==
    ASSUME FormInv, form.phase = "open", NEW own \in Owns, form.kind = "group" => own.groups = {},
           NEW picked, NEW unpicked, Moves(Atoms(form.own), Atoms(own), picked, unpicked),
           FormEdited(own, picked, unpicked)
    PROVE  FormInv'
<1>1. PICK hasty : hasty = {}
  OBVIOUS
<1>2. unpicked \cup hasty = unpicked /\ FormSubmitted(own, picked, unpicked, hasty)
  BY <1>1 DEF FormEdited
<1>3. QED
  BY <1>2, SubmitKeeps
LEMMA OpenFormTyped ==
    ASSUME FormInv
    PROVE  form.own \in Owns /\ form.base \in Owns /\ IsForm(form)
           /\ (form.kind = "group" => form.own.groups = {})
BY DEF FormInv, FormTypes, FormTyped

LEMMA EditDomainsKeeps ==
    ASSUME FormInv, form.phase = "open", EditDomains
    PROVE  FormInv'
<1>1. PICK own, m : own = form.own /\ m = Merged(own)
  OBVIOUS
<1>2. own \in Owns /\ (form.kind = "group" => own.groups = {})
  BY <1>1, OpenFormTyped
<1>3. ASSUME NEW d \in Domains, DeleteDomain(m, d)
      PROVE  FormInv'
  <2>1. PICK new, picked, unpicked :
           /\ new = [own EXCEPT !.domains = [e \in DOMAIN @ \ {d} |-> @[e]]]
           /\ picked = {} /\ unpicked = {<<"domain", d>>} \cup {<<"class", d, c>> : c \in Classes}
    OBVIOUS
  <2>2. FormEdited(new, picked, unpicked)
    BY <1>1, <1>3, <2>1 DEF DeleteDomain
  <2>3. new \in Owns /\ new.groups = own.groups /\ Moves(Atoms(own), Atoms(new), picked, unpicked)
    BY <1>2, <2>1, DeleteDomainMoves
  <2>4. QED
    BY <1>1, <1>2, <2>2, <2>3, EditKeeps
<1>4. ASSUME NEW S \in SUBSET Domains, AddDomains(m, S)
      PROVE  FormInv'
  <2>1. PICK new, picked, unpicked :
           new = DomainsAdded(own, S) /\ picked = DomainNames(S) /\ unpicked = {}
    OBVIOUS
  <2>2. FormEdited(new, picked, unpicked) /\ \A d \in S : d \notin DOMAIN m
    BY <1>1, <1>4, <2>1 DEF AddDomains, DomainsAdded, DomainNames
  <2>3. S \cap DOMAIN own.domains = {}
    BY <1>1, <1>2, <2>2, FormView
  <2>4. new \in Owns /\ new.groups = own.groups /\ Moves(Atoms(own), Atoms(new), picked, unpicked)
    BY <1>2, <2>1, <2>3, AddDomainsMoves
  <2>5. QED
    BY <1>1, <1>2, <2>2, <2>4, EditKeeps
<1>5. ASSUME NEW d \in Domains, NEW c \in Classes, DeleteClass(m, d, c)
      PROVE  FormInv'
  <2>1. PICK new, picked, unpicked :
           /\ new = [own EXCEPT !.domains = [e \in DOMAIN @ |-> IF e = d THEN @[e] \ {c} ELSE @[e]]]
           /\ picked = {} /\ unpicked = {<<"class", d, c>>}
    OBVIOUS
  <2>2. FormEdited(new, picked, unpicked)
    BY <1>1, <1>5, <2>1 DEF DeleteClass
  <2>3. new \in Owns /\ new.groups = own.groups /\ Moves(Atoms(own), Atoms(new), picked, unpicked)
    BY <1>2, <2>1, DeleteClassMoves
  <2>4. QED
    BY <1>1, <1>2, <2>2, <2>3, EditKeeps
<1>6. ASSUME NEW d \in DOMAIN m, NEW options \in {{}, Catalog[d]}, NEW flipped \in SUBSET options,
             EditClasses(m, d, options, flipped)
      PROVE  FormInv'
  <2>1. PICK initial, kept, new, picked, unpicked, hasty, away :
           /\ initial = DOMAIN m[d].cls
           /\ kept = Submitted(options, m[d].cls, Flipped(initial, flipped))
           /\ new = DomainKept(own, d, kept)
           /\ picked = KeptPicks(d, flipped \ initial) /\ unpicked = ClassPicks(d, flipped \cap initial)
           /\ hasty = ClassPicks(d, initial \ options) /\ away = unpicked \cup hasty
    OBVIOUS
  <2>2. FormSubmitted(new, picked, unpicked, hasty)
    <3>1. /\ picked = {<<"domain", d>>} \cup {<<"class", d, c>> : c \in flipped \ initial}
          /\ unpicked = {<<"class", d, c>> : c \in flipped \cap initial}
          /\ hasty = {<<"class", d, c>> : c \in initial \ options}
      BY <2>1 DEF KeptPicks, ClassPicks
    <3>2. new = [form.own EXCEPT !.domains = [e \in DOMAIN @ \cup {d} |-> IF e = d THEN kept ELSE @[e]]]
      BY <1>1, <2>1 DEF DomainKept
    <3>3. kept = Submitted(options, m[d].cls, (initial \ flipped) \cup (flipped \ initial))
      BY <2>1 DEF Flipped
    <3>4. QED
      BY <1>6, <2>1, <3>1, <3>2, <3>3 DEF EditClasses
  <2>3. ClassesSaved(own, m, d, options, flipped, new, picked, away)
    <3>1. away = ClassPicks(d, (flipped \cap initial) \cup (initial \ options))
      BY <2>1 DEF ClassPicks
    <3>2. options \subseteq Catalog[d] /\ flipped \subseteq options
      OBVIOUS
    <3>3. QED
      BY <2>1, <3>1, <3>2 DEF ClassesSaved
  <2>4. new \in Owns /\ new.groups = own.groups /\ Moves(Atoms(own), Atoms(new), picked, away)
    <3>1. own \in Owns /\ m = Merged(own) /\ d \in DOMAIN m
      BY <1>1, <1>2
    <3>2. QED
      BY ONLY <2>3, <3>1, EditClassesMoves
  <2>5. QED
    BY <1>1, <1>2, <2>1, <2>2, <2>4, SubmitKeeps
<1>7. QED
  BY <1>1, <1>3, <1>4, <1>5, <1>6 DEF EditDomains

LEMMA EditIndicationsKeeps ==
    ASSUME FormInv, form.phase = "open", EditIndications
    PROVE  FormInv'
<1>1. PICK own : own = form.own
  OBVIOUS
<1>2. own \in Owns /\ (form.kind = "group" => own.groups = {})
  BY <1>1, OpenFormTyped
<1>3. PICK a \in {"mask", "deceased"}, v \in BOOLEAN : EditAttribute(a, v)
  BY DEF EditIndications
<1>4. PICK default : default = IF a = "mask" THEN TRUE ELSE FALSE
  OBVIOUS
<1>5. PICK new, picked, unpicked :
         /\ new = [own EXCEPT !.attrs = [@ EXCEPT ![a] = v]]
         /\ picked = (IF v # default THEN {<<a>>} ELSE {}) /\ unpicked = (IF v = default THEN {<<a>>} ELSE {})
  OBVIOUS
<1>6. FormEdited(new, picked, unpicked)
  BY <1>1, <1>3, <1>4, <1>5 DEF EditAttribute
<1>7. own.attrs[a] # v
  <2>1. new # own
    BY <1>1, <1>6 DEF FormEdited, FormSubmitted
  <2>2. ASSUME own.attrs[a] = v PROVE new = own
    <3>1. own.attrs \in Attributes
      BY <1>2, OwnIs
    <3>2. [own.attrs EXCEPT ![a] = v] = own.attrs
      BY <2>2, <3>1 DEF Attributes
    <3>3. own = [own EXCEPT !.attrs = own.attrs]
      BY <1>2, OwnIs
    <3>4. QED
      BY <1>5, <3>2, <3>3
  <2>3. QED
    BY <2>1, <2>2
<1>8. new \in Owns /\ new.groups = own.groups /\ Moves(Atoms(own), Atoms(new), picked, unpicked)
  BY <1>2, <1>4, <1>5, <1>7, OwnAttrsSet
<1>9. QED
  BY <1>1, <1>2, <1>6, <1>8, EditKeeps

LEMMA EditUserKeeps ==
    ASSUME FormInv, form.phase = "open", EditUser, form.kind = "user"
    PROVE  FormInv'
<1>1. PICK own : own = form.own
  OBVIOUS
<1>2. own \in Owns
  BY <1>1, OpenFormTyped
<1>4. ASSUME NEW v \in BOOLEAN, EditReadAll(v)
      PROVE  FormInv'
  <2>1. PICK new, picked, unpicked :
           /\ new = [own EXCEPT !.all = v]
           /\ picked = (IF v THEN {<<"all">>} ELSE {}) /\ unpicked = (IF v THEN {} ELSE {<<"all">>})
    OBVIOUS
  <2>2. FormEdited(new, picked, unpicked)
    BY <1>1, <1>4, <2>1 DEF EditReadAll
  <2>3. new # own
    BY <1>1, <2>2 DEF FormEdited, FormSubmitted
  <2>4. new \in Owns /\ new.groups = own.groups /\ Moves(Atoms(own), Atoms(new), picked, unpicked)
    BY <1>2, <2>1, <2>3, OwnAllSet
  <2>5. QED
    BY <1>1, <2>2, <2>4, EditKeeps
<1>5. ASSUME NEW S \in SUBSET UserGroups, EditGroups(S)
      PROVE  FormInv'
  <2>1. PICK new, picked, unpicked :
           /\ new = [own EXCEPT !.groups = S]
           /\ picked = {<<"group", g>> : g \in S \ own.groups} /\ unpicked = {<<"group", g>> : g \in own.groups \ S}
    OBVIOUS
  <2>2. FormEdited(new, picked, unpicked)
    BY <1>1, <1>5, <2>1 DEF EditGroups
  <2>3. new \in Owns /\ Moves(Atoms(own), Atoms(new), picked, unpicked)
    BY <1>2, <2>1, OwnGroupsSet
  <2>4. QED
    BY <1>1, <2>2, <2>3, EditKeeps
<1>6. ASSUME EditIndications
      PROVE  FormInv'
  BY <1>6, EditIndicationsKeeps
<1>7. QED
  BY <1>4, <1>5, <1>6 DEF EditUser
LEMMA FormTables ==
    ASSUME NEW own \in Owns, NEW mt, mt = MergedTables(own)
    PROVE  /\ DOMAIN mt \subseteq PermissionTables
           /\ mt \in [DOMAIN mt -> FilterSets]
           /\ \A t \in DOMAIN own.tables : t \in DOMAIN mt /\ \A k \in Kods \ BoolKods : own.tables[t][k] \subseteq mt[t][k]
<1>1. PICK user : user = AsUser(own)
  OBVIOUS
<1>2. user \in FormUsers /\ Range(user.tables) = {[id |-> t, filters |-> own.tables[t]] : t \in DOMAIN own.tables}
  BY <1>1, AsUserIs
<1>3. mt = MergeTables(user)
  BY <1>1 DEF MergedTables
<1>4. PICK I, V : I = PermissionTables /\ V = FilterValues
  OBVIOUS
<1>5. user \in Holders(DomainEntry, TableItem(I, [Kods -> SUBSET V]), UserGroups) /\ {0, 1} \subseteq V
  BY <1>2, <1>4 DEF FormUsers, FormTable, FilterSets, FilterValues
<1>6. /\ DOMAIN mt \subseteq I
      /\ mt \in [DOMAIN mt -> [Kods -> SUBSET V]]
      /\ \A e \in Range(user.tables) : e.id \in DOMAIN mt /\ \A k \in Kods \ BoolKods : e.filters[k] \subseteq mt[e.id][k]
  BY ONLY <1>3, <1>5, OwnInTables
<1>7. ASSUME NEW t \in DOMAIN own.tables
      PROVE  t \in DOMAIN mt /\ \A k \in Kods \ BoolKods : own.tables[t][k] \subseteq mt[t][k]
  <2>1. PICK e : e = [id |-> t, filters |-> own.tables[t]]
    OBVIOUS
  <2>2. e \in Range(user.tables) /\ e.id = t /\ e.filters = own.tables[t]
    BY <1>2, <2>1
  <2>3. QED
    BY <1>6, <2>2
<1>8. QED
  BY <1>4, <1>6, <1>7 DEF FilterSets

LEMMA OwnFits ==
    ASSUME NEW own \in Owns, NEW t \in DOMAIN own.tables, NEW k \in Kods
    PROVE  FilterFits(k, own.tables[t][k])
<1>1. own.tables \in [DOMAIN own.tables -> FilterMaps]
  BY OwnIs, TableMapIs
<1>2. QED
  BY <1>1 DEF FilterMaps, FilterFits

LEMMA DeleteValueKeeps ==
    ASSUME FormInv, form.phase = "open", NEW t, NEW k \in Kods, NEW v, DeleteValue(t, k, v)
    PROVE  FormInv'
<1>1. PICK own, values, come, go :
         own = form.own /\ values = own.tables[t][k] \ {v} /\ come = {} /\ go = {v}
  OBVIOUS
<1>2. own \in Owns /\ (form.kind = "group" => own.groups = {})
  BY <1>1, OpenFormTyped
<1>3. t \in DOMAIN own.tables /\ k \notin BoolKods
  BY <1>1 DEF DeleteValue
<1>4. FilterFits(k, values)
  <2>1. FilterFits(k, own.tables[t][k])
    BY <1>2, <1>3, OwnFits
  <2>2. QED
    BY <1>1, <1>3, <2>1 DEF FilterFits
<1>5. PICK new, picked, unpicked :
         new = WithValues(own, t, k, values) /\ picked = ValuePicks(t, k, come) /\ unpicked = ValuePicks(t, k, go)
  OBVIOUS
<1>6. FormEdited(new, picked, unpicked)
  <2>1. picked = {} /\ unpicked = {<<"value", t, k, v>>}
    BY <1>1, <1>5 DEF ValuePicks
  <2>2. QED
    BY <1>1, <1>5, <2>1 DEF DeleteValue
<1>7. ValueEdit(own.tables[t][k], values, come, go)
  BY <1>1 DEF ValueEdit
<1>8. new \in Owns /\ new.groups = own.groups /\ Moves(Atoms(own), Atoms(new), picked, unpicked)
  <2>1. own \in Owns /\ t \in DOMAIN own.tables /\ k \in Kods
    BY <1>2, <1>3
  <2>2. new = WithValues(own, t, k, values) /\ picked = ValuePicks(t, k, come) /\ unpicked = ValuePicks(t, k, go)
    BY <1>5
  <2>3. QED
    BY <2>1, <1>4, <2>2, <1>7, ValueMoves
<1>9. QED
  BY <1>1, <1>2, <1>6, <1>8, EditKeeps

LEMMA EditBooleanKeeps ==
    ASSUME FormInv, form.phase = "open", NEW t, NEW k \in Kods, NEW v \in {0, 1}, EditBoolean(t, k, v)
    PROVE  FormInv'
<1>1. PICK own, values, come, go :
         own = form.own /\ values = {v} /\ come = {v} \ {0} /\ go = {1 - v} \ {0}
  OBVIOUS
<1>2. own \in Owns /\ (form.kind = "group" => own.groups = {})
  BY <1>1, OpenFormTyped
<1>3. k \in BoolKods
  BY DEF EditBoolean
<1>4. FilterFits(k, values)
  BY <1>1, <1>3 DEF FilterFits
<1>5. PICK new, picked, unpicked :
         new = WithValues(own, t, k, values) /\ picked = ValuePicks(t, k, come) /\ unpicked = ValuePicks(t, k, go)
  OBVIOUS
<1>6. FormEdited(new, picked, unpicked)
  BY <1>1, <1>5 DEF EditBoolean, ValuePicks
<1>7. t \in DOMAIN own.tables
  <2>1. new # own
    BY <1>1, <1>6 DEF FormEdited, FormSubmitted
  <2>2. QED
    BY <1>2, <1>4, <1>5, <2>1, WithValuesIs
<1>8. own.tables[t][k] \in {{0}, {1}}
  BY <1>2, <1>3, <1>7, OwnFits DEF FilterFits
<1>9. ValueEdit(own.tables[t][k], values, come, go)
  BY <1>1, <1>8 DEF ValueEdit
<1>10. new \in Owns /\ new.groups = own.groups /\ Moves(Atoms(own), Atoms(new), picked, unpicked)
  <2>1. /\ own \in Owns /\ t \in DOMAIN own.tables /\ FilterFits(k, values)
        /\ ValueEdit(own.tables[t][k], values, come, go) /\ new = WithValues(own, t, k, values)
        /\ picked = ValuePicks(t, k, come) /\ unpicked = ValuePicks(t, k, go) /\ k \in Kods
    BY <1>2, <1>4, <1>5, <1>7, <1>9
  <2>2. QED
    BY ONLY <2>1, ValueMoves
<1>11. QED
  BY <1>1, <1>2, <1>6, <1>10, EditKeeps
LEMMA EditValuesKeeps ==
    ASSUME FormInv, form.phase = "open", NEW mt, mt = MergedTables(form.own),
           NEW t \in DOMAIN mt, NEW k \in Kods, NEW options \in {{}, Dimension}, NEW flipped \in SUBSET options,
           EditValues(mt, t, k, options, flipped)
    PROVE  FormInv'
<1>1. PICK own, base, initial, checked, values :
         /\ own = form.own /\ base = form.base /\ initial = mt[t][k] /\ checked = Flipped(initial, flipped)
         /\ values = {v \in options \cap checked : v \in initial => OwnValue(own, t, k, v)}
  OBVIOUS
<1>2. own \in Owns /\ base \in Owns /\ IsForm(form) /\ (form.kind = "group" => own.groups = {})
  BY <1>1, OpenFormTyped
<1>3. PICK new, toggled, come, go, gone, hasty :
         /\ new = WithValues(own, t, k, values)
         /\ toggled = ValuePicks(t, k, flipped) /\ come = ValuePicks(t, k, flipped \ initial)
         /\ go = ValuePicks(t, k, flipped \cap initial) /\ gone = ValuePicks(t, k, initial \ Dimension)
         /\ hasty = ValuePicks(t, k, initial \ options)
  OBVIOUS
<1>4. /\ k \notin BoolKods
      /\ form' = [form EXCEPT !.own = new, !.edits = @ + 1, !.picked = (@ \ toggled) \cup come,
                              !.unpicked = @ \cup go, !.dropped = @ \cup gone, !.hasty = @ \cup hasty]
      /\ UNCHANGED <<stored, shown, waiting, writes, failures>>
  BY <1>1, <1>3 DEF EditValues, ValuePicks, Flipped
<1>5. /\ SameForm(form, form') /\ form'.own = new /\ form'.base = base
      /\ form'.picked = (form.picked \ toggled) \cup come
      /\ form'.unpicked = form.unpicked \cup go /\ LostBy(form') = LostBy(form) \cup (gone \cup hasty)
  <2>1. form'.dropped = form.dropped \cup gone /\ form'.hasty = form.hasty \cup hasty
    BY <1>1, <1>2, <1>4 DEF IsForm
  <2>2. LostBy(form') = LostBy(form) \cup (gone \cup hasty)
    BY <2>1 DEF LostBy
  <2>3. QED
    BY <1>1, <1>2, <1>4, <2>2 DEF SameForm, IsForm
<1>6. FilterFits(k, values)
  BY <1>1, <1>4, UserPopupAssumption DEF FilterFits
<1>7. /\ new \in Owns /\ new.groups = own.groups
      /\ t \notin DOMAIN own.tables => new = own
  BY <1>2, <1>3, <1>6, WithValuesIs
<1>8. ASSUME ~form.crossed PROVE PickedOnly(form')
  <2>1. Atoms(own) \ Atoms(base) \subseteq form.picked /\ Atoms(base) \ Atoms(own) \subseteq form.unpicked \cup LostBy(form)
    BY <1>1, <1>8 DEF FormInv, Uncrossed, PickedOnly, LostBy
  <2>2. CASE t \notin DOMAIN own.tables
    <3>1. Atoms(new) = Atoms(own)
      BY <1>7, <2>2
    <3>2. \A x \in toggled : x \notin Atoms(own)
      <4>1. TAKE x \in toggled
      <4>2. PICK v \in flipped : x = <<"value", t, k, v>>
        BY <1>3 DEF ValuePicks
      <4>3. x \notin ValueAtoms(own.tables)
        BY <2>2, <4>2, InValueAtoms
      <4>4. x[1] = "value"
        BY <4>2
      <4>5. QED
        BY <4>3, <4>4, AtomParts, AtomTags
    <3>3. QED
      BY <1>5, <2>1, <3>1, <3>2 DEF PickedOnly
  <2>3. CASE t \in DOMAIN own.tables
    <3>1. PICK F \in TableMaps : new = [own EXCEPT !.tables = F] /\ OneFilter(own.tables, F, t, k, values)
      BY <1>2, <1>3, <1>6, WithValuesIs
    <3>2. /\ Atoms(new) \ Atoms(own) \subseteq ValueAtoms(F) \ ValueAtoms(own.tables)
          /\ Atoms(own) \ Atoms(new) \subseteq ValueAtoms(own.tables) \ ValueAtoms(F)
      BY <1>2, <3>1, OwnTablesSet
    <3>3. /\ \A x \in ValueAtoms(F) : x \notin ValueAtoms(own.tables) =>
                \E v \in values \ {0} : v \notin own.tables[t][k] /\ x = <<"value", t, k, v>>
          /\ \A x \in ValueAtoms(own.tables) : x \notin ValueAtoms(F) =>
                \E v \in own.tables[t][k] \ {0} : v \notin values /\ x = <<"value", t, k, v>>
      BY ONLY <3>1, ValuesDiffer
    <3>4. own.tables[t][k] \subseteq initial
      BY <1>1, <1>2, <1>4, <2>3, FormTables
    <3>5. \A v : OwnValue(own, t, k, v) <=> v \in own.tables[t][k]
      BY <2>3 DEF OwnValue
    <3>6. Atoms(new) \ Atoms(own) \subseteq come
      <4>1. ASSUME NEW v \in values, v \notin own.tables[t][k] PROVE v \in flipped \ initial
        BY <1>1, <3>5, <4>1 DEF Flipped
      <4>2. \A v \in values : v \notin own.tables[t][k] => <<"value", t, k, v>> \in come
        BY <1>3, <4>1 DEF ValuePicks
      <4>3. QED
        BY <3>2, <3>3, <4>2
    <3>7. Atoms(own) \ Atoms(new) \subseteq go \cup hasty
      <4>1. ASSUME NEW v \in own.tables[t][k], v \notin values PROVE v \in (flipped \cap initial) \cup (initial \ options)
        BY <1>1, <3>4, <3>5, <4>1 DEF Flipped
      <4>2. \A v \in own.tables[t][k] : v \notin values => <<"value", t, k, v>> \in go \cup hasty
        BY <1>3, <4>1 DEF ValuePicks
      <4>3. QED
        BY <3>2, <3>3, <4>2
    <3>8. \A x \in toggled : x \in come \/ x \notin Atoms(new)
      <4>1. TAKE x \in toggled
      <4>2. PICK v \in flipped : x = <<"value", t, k, v>>
        BY <1>3 DEF ValuePicks
      <4>3. CASE v \notin initial
        BY <1>3, <4>2, <4>3 DEF ValuePicks
      <4>4. CASE v \in initial
        <5>1. v \notin values
          BY <1>1, <4>4 DEF Flipped
        <5>2. F[t][k] = values
          BY <2>3, <3>1 DEF OneFilter
        <5>3. x \notin ValueAtoms(F)
          BY <4>2, <5>1, <5>2, InValueAtoms
        <5>4. x[1] = "value"
          BY <4>2
        <5>5. new.tables = F
          BY <1>2, <3>1, OwnIs
        <5>6. QED
          BY <5>3, <5>4, <5>5, AtomParts, AtomTags
      <4>5. QED
        BY <4>3, <4>4
    <3>9. /\ Atoms(new) \ Atoms(base) \subseteq (form.picked \ toggled) \cup come
          /\ Atoms(base) \ Atoms(new) \subseteq (form.unpicked \cup go) \cup (LostBy(form) \cup (gone \cup hasty))
      BY <2>1, <3>6, <3>7, <3>8
    <3>10. QED
      BY <1>5, <3>9 DEF PickedOnly
  <2>4. QED
    BY <2>2, <2>3
<1>9. QED
  BY <1>1, <1>2, <1>4, <1>5, <1>7, <1>8, FormChanges

LEMMA EditTablesKeeps ==
    ASSUME FormInv, form.phase = "open", EditTables
    PROVE  FormInv'
<1>1. PICK mt : mt = MergedTables(form.own)
  OBVIOUS
<1>2. ASSUME NEW t \in DOMAIN mt, NEW k \in Kods, NEW options \in {{}, Dimension}, NEW flipped \in SUBSET options,
             EditValues(mt, t, k, options, flipped)
      PROVE  FormInv'
  BY <1>1, <1>2, EditValuesKeeps
<1>3. QED
  BY <1>1, <1>2, DeleteValueKeeps, EditBooleanKeeps DEF EditTables

LEMMA OptionsArriveKeeps ==
    ASSUME FormInv, OptionsArrive
    PROVE  FormInv'
<1>1. PICK own, base, m : own = form.own /\ base = form.base /\ m = Merged(own)
  OBVIOUS
<1>2. own \in Owns /\ IsForm(form) /\ (form.kind = "group" => own.groups = {}) /\ form.phase = "open"
  BY <1>1, OpenFormTyped DEF OptionsArrive
<1>3. PICK offered, old : offered = Offered(m) /\ old = own.tables
  OBVIOUS
<1>4. PICK new, gone, options :
         new = [own EXCEPT !.tables = OfferedTables(old, offered)] /\ gone = GoneValues(old, offered)
         /\ options = {OptionsKey(m)}
  OBVIOUS
<1>5. /\ form' = [form EXCEPT !.options = options, !.own = new, !.dropped = @ \cup gone]
      /\ UNCHANGED <<stored, shown, waiting, writes, failures>>
  BY <1>1, <1>3, <1>4 DEF OptionsArrive
<1>6. /\ SameForm(form, form') /\ form'.own = new /\ form'.base = base /\ form'.picked = form.picked
      /\ form'.unpicked = form.unpicked /\ LostBy(form') = LostBy(form) \cup gone
  <2>1. form'.dropped = form.dropped \cup gone /\ form'.hasty = form.hasty
    BY <1>2, <1>5 DEF IsForm
  <2>2. LostBy(form') = LostBy(form) \cup gone
    BY <2>1 DEF LostBy
  <2>3. QED
    BY <1>1, <1>2, <1>5, <2>2 DEF SameForm, IsForm
<1>7. offered \in SUBSET PermissionTables
  BY <1>3 DEF Offered
<1>8. new \in Owns /\ new.groups = own.groups /\ Atoms(new) \subseteq Atoms(own) /\ Atoms(own) \ Atoms(new) \subseteq gone
  BY ONLY <1>2, <1>3, <1>4, <1>7, OptionsMoves
<1>9. ASSUME ~form.crossed PROVE PickedOnly(form')
  <2>1. Atoms(own) \ Atoms(base) \subseteq form.picked /\ Atoms(base) \ Atoms(own) \subseteq form.unpicked \cup LostBy(form)
    BY <1>1, <1>9 DEF FormInv, Uncrossed, PickedOnly, LostBy
  <2>2. QED
    BY <1>6, <1>8, <2>1 DEF PickedOnly
<1>10. QED
  BY <1>1, <1>2, <1>5, <1>6, <1>8, <1>9, FormChanges
(* The other steps. *)

LEMMA NobodyTyped == NobodyYet \in Owns
<1>1. None \in DomainMaps /\ None \in TableMaps /\ DOMAIN None = {}
  <2>1. DOMAIN None = {}
    BY DEF None
  <2>2. None \in [DOMAIN None -> SUBSET Classes] /\ None \in [DOMAIN None -> FilterMaps]
    BY DEF None
  <2>3. QED
    BY <2>1, <2>2, DomainMapIs, TableMapIs
<1>2. QED
  BY <1>1 DEF NobodyYet, Owns, Attributes

LEMMA ClosedFormTyped ==
    /\ FormTyped(ClosedForm) /\ IsForm(ClosedForm)
    /\ ClosedForm.phase = "closed" /\ ClosedForm.kind = "user" /\ ClosedForm.at = 0 /\ ~ClosedForm.crossed
    /\ ClosedForm.doc = EmptyUser /\ ClosedForm.base = ClosedForm.own
BY NobodyTyped DEF ClosedForm, FormTyped, IsForm

LEMMA SamePicked ==
    ASSUME NEW f, f.base = f.own
    PROVE  PickedOnly(f)
BY DEF PickedOnly

LEMMA FormBounds == MaxUserWrites \in Nat
BY UserPopupAssumption

LEMMA PutStored ==
    ASSUME NEW s, Stores(s), NEW u \in UserIds \cup Forms, NEW own \in Owns, u \in Forms => own.groups = {}
    PROVE  Stores(PutUser(s, u, own)) /\ DOMAIN PutUser(s, u, own) = DOMAIN s \cup {u}
BY DEF Stores, PutUser

LEMMA LessStored ==
    ASSUME NEW s, Stores(s), NEW u
    PROVE  Stores([v \in DOMAIN s \ {u} |-> s[v]])
BY DEF Stores

LEMMA FormInitInv == FormInit => FormInv
<1>1. SUFFICES ASSUME FormInit PROVE FormInv
  OBVIOUS
<1>2. Stores(stored) /\ Stores(shown)
  BY <1>1, UserPopupAssumption DEF FormInit
<1>3. form = ClosedForm /\ waiting = {} /\ writes = 0
  BY <1>1 DEF FormInit
<1>4. FormTypes
  BY <1>2, <1>3, ClosedFormTyped DEF FormTypes
<1>5. FormLookups
  BY <1>3, ClosedFormTyped, FormBounds DEF FormLookups
<1>6. Uncrossed
  BY <1>3, ClosedFormTyped, SamePicked DEF Uncrossed
<1>7. QED
  BY <1>4, <1>5, <1>6 DEF FormInv

\* A form of a user or a group that is stored, as the list shows it.
LEMMA OpenKeeps ==
    ASSUME FormInv, waiting = {}, NEW u \in DOMAIN shown,
           NEW g, FormTyped(g), g.phase = "open", g.name = u, g.doc = u, g.base = g.own,
           g.at = IF shown = stored THEN writes ELSE MaxUserWrites + 1,
           form' = g, UNCHANGED <<stored, shown, waiting, writes, failures>>
    PROVE  FormInv'
<1>1. u \in UserIds \cup Forms /\ u # EmptyUser
  BY UserPopupAssumption DEF FormInv, FormTypes, Stores
<1>2. FormTypes'
  BY DEF FormInv, FormTypes
<1>3. FormLookups'
  BY FormBounds DEF FormInv, FormLookups
<1>4. Uncrossed'
  <2>1. PickedOnly(g)
    BY SamePicked
  <2>2. g.at = writes => u \in DOMAIN stored
    BY FormBounds DEF FormInv, FormLookups
  <2>3. QED
    BY <1>1, <2>1, <2>2 DEF Uncrossed
<1>5. QED
  BY <1>2, <1>3, <1>4 DEF FormInv

LEMMA OpenEditKeeps ==
    ASSUME FormInv, NEW u \in UserIds, OpenEdit(u)
    PROVE  FormInv'
<1>1. PICK g : g = [ClosedForm EXCEPT !.phase = "open", !.name = u, !.doc = u, !.base = shown[u], !.own = shown[u],
                                      !.at = IF shown = stored THEN writes ELSE MaxUserWrites + 1]
  OBVIOUS
<1>2. form' = g /\ u \in DOMAIN shown /\ waiting = {} /\ UNCHANGED <<stored, shown, waiting, writes, failures>>
  BY <1>1 DEF OpenEdit
<1>3. shown[u] \in Owns /\ u # EmptyUser
  BY <1>2, UserPopupAssumption DEF FormInv, FormTypes, Stores
<1>4. /\ IsForm(g) /\ g.phase = "open" /\ g.kind = "user" /\ g.name = u /\ g.doc = u /\ g.base = shown[u] /\ g.own = shown[u]
      /\ g.at = (IF shown = stored THEN writes ELSE MaxUserWrites + 1) /\ g.crossed = FALSE
  BY <1>1 DEF ClosedForm, IsForm
<1>5. FormTyped(g)
  BY <1>3, <1>4 DEF FormTyped
<1>6. QED
  BY <1>2, <1>4, <1>5, OpenKeeps

LEMMA OpenGroupKeeps ==
    ASSUME FormInv, NEW u \in Forms, OpenGroup(u)
    PROVE  FormInv'
<1>1. PICK g : g = [ClosedForm EXCEPT !.phase = "open", !.kind = "group", !.name = u, !.doc = u,
                                      !.base = shown[u], !.own = shown[u],
                                      !.at = IF shown = stored THEN writes ELSE MaxUserWrites + 1]
  OBVIOUS
<1>2. form' = g /\ u \in DOMAIN shown /\ waiting = {} /\ UNCHANGED <<stored, shown, waiting, writes, failures>>
  BY <1>1 DEF OpenGroup
<1>3. shown[u] \in Owns /\ shown[u].groups = {}
  BY <1>2 DEF FormInv, FormTypes, Stores
<1>4. /\ IsForm(g) /\ g.phase = "open" /\ g.kind = "group" /\ g.name = u /\ g.doc = u /\ g.base = shown[u] /\ g.own = shown[u]
      /\ g.at = (IF shown = stored THEN writes ELSE MaxUserWrites + 1) /\ g.crossed = FALSE
  BY <1>1 DEF ClosedForm, IsForm
<1>5. FormTyped(g)
  BY <1>3, <1>4 DEF FormTyped
<1>6. QED
  BY <1>2, <1>4, <1>5, OpenKeeps

LEMMA OpenNewKeeps ==
    ASSUME FormInv, OpenNew
    PROVE  FormInv'
<1>1. PICK g : g = [ClosedForm EXCEPT !.phase = "search"]
  OBVIOUS
<1>2. form' = g /\ waiting = {} /\ UNCHANGED <<stored, shown, waiting, writes, failures>>
  BY <1>1 DEF OpenNew
<1>3. /\ IsForm(g) /\ g.phase = "search" /\ g.kind = "user" /\ g.name = EmptyUser /\ g.doc = EmptyUser
      /\ g.base = NobodyYet /\ g.own = NobodyYet /\ g.at = 0 /\ g.crossed = FALSE
  BY <1>1 DEF ClosedForm, IsForm
<1>4. FormTyped(g)
  BY <1>3, NobodyTyped DEF FormTyped
<1>5. FormTypes'
  BY <1>2, <1>4 DEF FormInv, FormTypes
<1>6. FormLookups'
  BY <1>2, <1>3, FormBounds DEF FormInv, FormLookups
<1>7. Uncrossed'
  BY <1>2, <1>3, SamePicked DEF Uncrossed
<1>8. QED
  BY <1>5, <1>6, <1>7 DEF FormInv

LEMMA SelectUserKeeps ==
    ASSUME FormInv, NEW u \in UserIds, SelectUser(u)
    PROVE  FormInv'
<1>1. PICK w, crossed : w = [id |-> u, sap |-> FALSE, at |-> 0] /\ crossed = (form.crossed \/ waiting # {})
  OBVIOUS
<1>2. /\ form.phase = "search" /\ waiting' = waiting \cup {w} /\ form' = [form EXCEPT !.crossed = crossed]
      /\ UNCHANGED <<stored, shown, writes, failures>>
  BY <1>1 DEF SelectUser
<1>3. FormTyped(form) /\ IsForm(form)
  BY DEF FormInv, FormTypes, FormTyped
<1>4. /\ IsForm(form') /\ form'.phase = form.phase /\ form'.kind = form.kind /\ form'.name = form.name
      /\ form'.doc = form.doc /\ form'.base = form.base /\ form'.own = form.own /\ form'.at = form.at
      /\ form'.picked = form.picked /\ form'.unpicked = form.unpicked /\ form'.dropped = form.dropped
      /\ form'.hasty = form.hasty
      /\ form'.crossed = crossed
  BY <1>2, <1>3 DEF IsForm
<1>5. FormTypes'
  <2>1. crossed \in BOOLEAN
    BY <1>1, <1>3 DEF FormTyped
  <2>2. FormTyped(form')
    BY <1>3, <1>4, <2>1 DEF FormTyped
  <2>3. QED
    BY <1>2, <2>2 DEF FormInv, FormTypes
<1>6. form.kind = "user"
  BY <1>2 DEF FormInv, FormTypes, FormTyped, Uncrossed
<1>7. FormLookups'
  <2>1. FormLookups
    BY DEF FormInv
  <2>2. w \in [id : UserIds, sap : BOOLEAN, at : 0 .. writes]
    BY <1>1, <2>1, FormBounds DEF FormLookups
  <2>3. waiting' \subseteq [id : UserIds, sap : BOOLEAN, at : 0 .. writes']
    BY <1>2, <2>1, <2>2 DEF FormLookups
  <2>4. \A v \in waiting' : v.sap /\ v.at = writes' => v.id \notin DOMAIN stored'
    BY <1>1, <1>2, <2>1 DEF FormLookups
  <2>5. QED
    BY <1>2, <1>4, <1>6, <2>1, <2>3, <2>4 DEF FormLookups
<1>8. ~form'.crossed => Uncrossed'
  BY <1>1, <1>2, <1>4 DEF FormInv, Uncrossed, PickedOnly, LostBy
<1>9. QED
  BY <1>5, <1>7, <1>8 DEF FormInv
LEMMA AnswerLookupKeeps ==
    ASSUME FormInv, NEW w \in waiting, AnswerLookup(w)
    PROVE  FormInv'
<1>0. FormTyped(form) /\ IsForm(form) /\ FormLookups /\ FormTypes
  BY DEF FormInv, FormTypes, FormTyped
<1>1. w \in [id : UserIds, sap : BOOLEAN, at : 0 .. writes] /\ w.id \in UserIds /\ form.kind = "user"
  BY <1>0 DEF FormLookups
<1>2. /\ form.phase \in {"search", "open"} /\ UNCHANGED <<stored, shown, writes, failures>>
      /\ w.id \in DOMAIN stored => waiting' = waiting \ {w} /\ form' = Found(form, w.id)
      /\ w.id \notin DOMAIN stored =>
            waiting' = (waiting \ {w}) \cup {[w EXCEPT !.sap = TRUE, !.at = writes]} /\ UNCHANGED form
  BY DEF AnswerLookup
<1>3. CASE w.id \in DOMAIN stored
  <2>1. PICK own : own = stored[w.id]
    OBVIOUS
  <2>2. own \in Owns
    BY <1>0, <1>3, <2>1 DEF FormTypes, Stores
  <2>3. /\ IsForm(form') /\ form'.phase = "open" /\ form'.kind = form.kind /\ form'.name = w.id /\ form'.doc = w.id
        /\ form'.at = writes /\ form'.base = own /\ form'.own = own /\ form'.crossed = form.crossed
    BY <1>0, <1>2, <1>3, <2>1 DEF Found, IsForm
  <2>4. FormTypes'
    <3>1. FormTyped(form')
      BY <1>0, <1>1, <2>2, <2>3, UserPopupAssumption DEF FormTyped
    <3>2. QED
      BY <1>0, <1>2, <3>1 DEF FormTypes
  <2>5. FormLookups'
    BY <1>0, <1>1, <1>2, <1>3, <2>3 DEF FormLookups
  <2>6. ~form'.crossed => Uncrossed'
    <3>1. w.id # EmptyUser
      BY <1>1, UserPopupAssumption
    <3>2. PickedOnly(form')
      BY <2>3, SamePicked
    <3>3. ~form.crossed => waiting' = {}
      BY <1>2, <1>3 DEF FormInv, Uncrossed
    <3>4. QED
      BY <1>2, <1>3, <2>3, <3>1, <3>2, <3>3 DEF Uncrossed
  <2>7. QED
    BY <2>4, <2>5, <2>6 DEF FormInv
<1>4. CASE w.id \notin DOMAIN stored
  <2>1. PICK v : v = [w EXCEPT !.sap = TRUE, !.at = writes]
    OBVIOUS
  <2>0. writes \in 0 .. writes
    BY <1>0, FormBounds DEF FormLookups
  <2>2. v \in [id : UserIds, sap : BOOLEAN, at : 0 .. writes] /\ v.id = w.id
    BY ONLY <1>1, <2>0, <2>1
  <2>3. waiting' = (waiting \ {w}) \cup {v} /\ form' = form
    BY <1>2, <1>4, <2>1
  <2>4. FormTypes'
    BY <1>0, <1>2, <2>3 DEF FormTypes
  <2>5. FormLookups'
    <3>1. waiting' \subseteq [id : UserIds, sap : BOOLEAN, at : 0 .. writes']
      BY <1>0, <1>2, <2>2, <2>3 DEF FormLookups
    <3>2. \A x \in waiting' : x.sap /\ x.at = writes' => x.id \notin DOMAIN stored'
      BY <1>0, <1>2, <1>4, <2>2, <2>3 DEF FormLookups
    <3>3. QED
      BY <1>0, <1>2, <2>3, <3>1, <3>2 DEF FormLookups
  <2>6. ~form'.crossed => Uncrossed'
    BY <1>2, <2>3 DEF FormInv, Uncrossed
  <2>7. QED
    BY <2>4, <2>5, <2>6 DEF FormInv
<1>5. QED
  BY <1>3, <1>4

LEMMA AnswerSapKeeps ==
    ASSUME FormInv, NEW w \in waiting, AnswerSap(w)
    PROVE  FormInv'
<1>0. FormTyped(form) /\ IsForm(form) /\ FormLookups /\ FormTypes
  BY DEF FormInv, FormTypes, FormTyped
<1>1. w.id \in UserIds /\ w.at \in 0 .. writes /\ form.kind = "user"
  BY <1>0 DEF FormLookups
<1>2. /\ w.sap /\ form.phase \in {"search", "open"} /\ waiting' = waiting \ {w}
      /\ form' = [form EXCEPT !.phase = "open", !.name = w.id, !.at = w.at]
      /\ UNCHANGED <<stored, shown, writes, failures>>
  BY DEF AnswerSap
<1>3. /\ IsForm(form') /\ form'.phase = "open" /\ form'.kind = form.kind /\ form'.name = w.id /\ form'.doc = form.doc
      /\ form'.at = w.at /\ form'.base = form.base /\ form'.own = form.own /\ form'.crossed = form.crossed
      /\ form'.picked = form.picked /\ form'.unpicked = form.unpicked /\ form'.dropped = form.dropped
      /\ form'.hasty = form.hasty
  BY <1>0, <1>2 DEF IsForm
<1>4. FormTypes'
  <2>1. FormTyped(form')
    BY <1>0, <1>1, <1>3, UserPopupAssumption DEF FormTyped
  <2>2. QED
    BY <1>0, <1>2, <2>1 DEF FormTypes
<1>5. FormLookups'
  BY <1>0, <1>1, <1>2, <1>3 DEF FormLookups
<1>6. ~form'.crossed => Uncrossed'
  <2>1. ASSUME ~form.crossed PROVE Uncrossed'
    <3>1. Uncrossed
      BY <2>1 DEF FormInv
    <3>2. waiting' = {} /\ form.doc = EmptyUser
      BY <1>2, <3>1 DEF Uncrossed
    <3>3. w.id # EmptyUser
      BY <1>1, UserPopupAssumption
    <3>4. w.at = writes => w.id \notin DOMAIN stored
      BY <1>0, <1>2 DEF FormLookups
    <3>5. PickedOnly(form')
      BY <1>3, <3>1 DEF Uncrossed, PickedOnly, LostBy
    <3>6. QED
      BY <1>2, <1>3, <3>2, <3>3, <3>4, <3>5 DEF Uncrossed
  <2>2. QED
    BY <1>3, <2>1
<1>7. QED
  BY <1>4, <1>5, <1>6 DEF FormInv

LEMMA SaveKeeps ==
    ASSUME FormInv, SaveUser \/ SaveGroup
    PROVE  FormInv'
<1>0. FormTyped(form) /\ IsForm(form) /\ FormLookups /\ FormTypes
  BY DEF FormInv, FormTypes, FormTyped
<1>1. /\ form.phase = "open" /\ form' = [form EXCEPT !.phase = "saving"] /\ (form.kind = "user" => form.name # EmptyUser)
      /\ UNCHANGED <<stored, shown, waiting, writes, failures>>
  BY DEF SaveUser, SaveGroup, CanSaveUser
<1>2. /\ IsForm(form') /\ form'.phase = "saving" /\ form'.kind = form.kind /\ form'.name = form.name /\ form'.doc = form.doc
      /\ form'.at = form.at /\ form'.base = form.base /\ form'.own = form.own /\ form'.crossed = form.crossed
      /\ form'.picked = form.picked /\ form'.unpicked = form.unpicked /\ form'.dropped = form.dropped
      /\ form'.hasty = form.hasty
  BY <1>0, <1>1 DEF IsForm
<1>3. FormTyped(form')
  BY <1>0, <1>1, <1>2 DEF FormTyped
<1>4. FormTypes'
  BY <1>0, <1>1, <1>3 DEF FormTypes
<1>5. FormLookups'
  BY <1>0, <1>1, <1>2 DEF FormLookups
<1>6. ~form'.crossed => Uncrossed'
  BY <1>1, <1>2 DEF FormInv, Uncrossed, PickedOnly, LostBy
<1>7. QED
  BY <1>4, <1>5, <1>6 DEF FormInv

\* A popup that closes, whatever was written.
LEMMA CloseKeeps ==
    ASSUME FormInv, Stores(stored'), Stores(shown'), writes' \in {writes, writes + 1}, writes' =< MaxUserWrites,
           form' = ClosedForm, waiting' = {}
    PROVE  FormInv'
<1>1. FormTypes'
  BY ClosedFormTyped DEF FormTypes
<1>2. FormLookups'
  BY ClosedFormTyped, FormBounds DEF FormInv, FormLookups
<1>3. Uncrossed'
  BY ClosedFormTyped, SamePicked DEF Uncrossed
<1>4. QED
  BY <1>1, <1>2, <1>3 DEF FormInv

LEMMA CancelKeeps ==
    ASSUME FormInv, CancelForm
    PROVE  FormInv'
<1>1. writes =< MaxUserWrites /\ Stores(stored) /\ Stores(shown)
  BY FormBounds DEF FormInv, FormLookups, FormTypes
<1>2. form' = ClosedForm /\ waiting' = {} /\ UNCHANGED <<stored, shown, writes, failures>>
  BY DEF CancelForm
<1>3. QED
  BY <1>1, <1>2, CloseKeeps

LEMMA DeliverUserKeeps ==
    ASSUME FormInv, DeliverUser
    PROVE  FormInv'
<1>0. FormTyped(form) /\ IsForm(form) /\ FormLookups /\ FormTypes
  BY DEF FormInv, FormTypes, FormTyped
<1>1. PICK u : u = Saved(form)
  OBVIOUS
<1>2. form.phase = "saving" /\ form.kind = "user" /\ MayWrite /\ form' = ClosedForm /\ waiting' = {}
  BY DEF DeliverUser
<1>3. u \in UserIds /\ u \notin Forms
  <2>1. u \in UserIds
    BY <1>0, <1>1, <1>2 DEF Saved, FormTyped
  <2>2. QED
    BY <2>1, UserPopupAssumption
<1>4. writes \in Nat /\ writes < MaxUserWrites
  BY <1>0, <1>2, FormBounds DEF MayWrite, FormLookups
<1>5. Stores(PutUser(stored, u, form.own)) /\ Stores(PutUser(shown, u, form.own))
  BY <1>0, <1>3, PutStored DEF FormTypes, FormTyped
<1>6. CASE (form.doc = EmptyUser) = (u \notin DOMAIN stored)
  <2>1. /\ stored' = PutUser(stored, u, form.own) /\ writes' = writes + 1
        /\ shown' \in {PutUser(shown, u, form.own), shown}
    BY <1>1, <1>6 DEF DeliverUser
  <2>2. Stores(stored') /\ Stores(shown')
    BY <1>0, <1>5, <2>1 DEF FormTypes
  <2>3. writes' \in {writes, writes + 1} /\ writes' =< MaxUserWrites
    BY <1>4, <2>1, FormBounds
  <2>4. QED
    BY <1>2, <2>2, <2>3, CloseKeeps
<1>7. CASE (form.doc = EmptyUser) # (u \notin DOMAIN stored)
  <2>1. UNCHANGED <<stored, shown, writes>>
    BY <1>1, <1>7 DEF DeliverUser
  <2>2. Stores(stored') /\ Stores(shown')
    BY <1>0, <2>1 DEF FormTypes
  <2>3. writes' \in {writes, writes + 1} /\ writes' =< MaxUserWrites
    BY <1>4, <2>1, FormBounds
  <2>4. QED
    BY <1>2, <2>2, <2>3, CloseKeeps
<1>8. QED
  BY <1>6, <1>7
LEMMA DeliverGroupKeeps ==
    ASSUME FormInv, DeliverGroup
    PROVE  FormInv'
<1>0. FormTyped(form) /\ IsForm(form) /\ FormLookups /\ FormTypes
  BY DEF FormInv, FormTypes, FormTyped
<1>1. PICK g, own : g = form.doc /\ own = form.own
  OBVIOUS
<1>2. /\ form.phase = "saving" /\ form.kind = "group" /\ MayWrite
      /\ stored' = PutUser(stored, g, own) /\ shown' = PutUser(shown, g, own) /\ writes' = writes + 1
      /\ form' = [form EXCEPT !.phase = "open", !.base = own, !.at = writes + 1,
                              !.picked = {}, !.unpicked = {}, !.dropped = {}, !.hasty = {}]
      /\ UNCHANGED <<waiting, failures>>
  BY <1>1 DEF DeliverGroup
<1>3. own \in Owns /\ own.groups = {} /\ g \in Forms /\ form.name = g
  BY <1>0, <1>1, <1>2 DEF FormTyped
<1>4. writes \in Nat /\ writes < MaxUserWrites /\ waiting = {}
  BY <1>0, <1>2, FormBounds DEF MayWrite, FormLookups
<1>5. /\ IsForm(form') /\ form'.phase = "open" /\ form'.kind = "group" /\ form'.name = g /\ form'.doc = g
      /\ form'.at = writes + 1 /\ form'.base = own /\ form'.own = own /\ form'.crossed = form.crossed
  BY <1>0, <1>1, <1>2, <1>3 DEF IsForm
<1>6. Stores(stored') /\ Stores(shown') /\ g \in DOMAIN stored'
  <2>1. Stores(stored') /\ Stores(shown')
    BY <1>0, <1>2, <1>3, PutStored DEF FormTypes
  <2>2. g \in DOMAIN stored'
    BY <1>2 DEF PutUser
  <2>3. QED
    BY <2>1, <2>2
<1>7. FormTyped(form')
  BY <1>0, <1>3, <1>5 DEF FormTyped
<1>8. FormTypes'
  BY <1>6, <1>7 DEF FormTypes
<1>9. FormLookups'
  BY <1>2, <1>4, <1>5, FormBounds DEF FormLookups
<1>10. Uncrossed'
  <2>1. g # EmptyUser
    BY <1>3, UserPopupAssumption
  <2>2. PickedOnly(form')
    BY <1>5, SamePicked
  <2>3. QED
    BY <1>2, <1>4, <1>5, <1>6, <2>1, <2>2 DEF Uncrossed
<1>11. QED
  BY <1>8, <1>9, <1>10 DEF FormInv

LEMMA RefreshGroupKeeps ==
    ASSUME FormInv, RefreshGroup
    PROVE  FormInv'
<1>0. FormTyped(form) /\ IsForm(form) /\ FormLookups /\ FormTypes
  BY DEF FormInv, FormTypes, FormTyped
<1>1. PICK g, own : g = form.doc /\ own = stored[g]
  OBVIOUS
<1>2. /\ form.phase = "open" /\ form.kind = "group" /\ g \in DOMAIN stored
      /\ shown' = PutUser(shown, g, own)
      /\ form' = [form EXCEPT !.base = own, !.at = writes, !.crossed = TRUE]
      /\ UNCHANGED <<stored, waiting, writes, failures>>
  BY <1>1 DEF RefreshGroup
<1>3. g \in Forms /\ form.name = g
  BY <1>0, <1>1, <1>2 DEF FormTyped
<1>4. own \in Owns /\ own.groups = {}
  BY <1>0, <1>1, <1>2, <1>3 DEF FormTypes, Stores
<1>5. /\ IsForm(form') /\ form'.phase = "open" /\ form'.kind = "group" /\ form'.name = g /\ form'.doc = g
      /\ form'.at = writes /\ form'.base = own /\ form'.own = form.own /\ form'.crossed = TRUE
  BY <1>0, <1>1, <1>2, <1>3 DEF IsForm
<1>6. Stores(stored') /\ Stores(shown')
  BY <1>0, <1>2, <1>3, <1>4, PutStored DEF FormTypes
<1>7. FormTyped(form')
  BY <1>0, <1>2, <1>3, <1>4, <1>5 DEF FormTyped
<1>8. FormTypes'
  BY <1>6, <1>7 DEF FormTypes
<1>9. FormLookups'
  BY <1>0, <1>2, <1>5, FormBounds DEF FormLookups
<1>10. QED
  BY <1>5, <1>8, <1>9 DEF FormInv

LEMMA LoseAnswerKeeps ==
    ASSUME FormInv, LoseAnswer
    PROVE  FormInv'
<1>0. FormTyped(form) /\ IsForm(form) /\ FormLookups /\ FormTypes
  BY DEF FormInv, FormTypes, FormTyped
<1>1. form.phase \in {"search", "saving"} /\ waiting' = {} /\ UNCHANGED <<stored, shown, writes>>
  BY DEF LoseAnswer
<1>2. CASE form.phase = "search"
  <2>1. form' = form
    BY <1>0, <1>2 DEF LoseAnswer, FormTyped
  <2>2. FormTypes'
    BY <1>0, <1>1, <2>1 DEF FormTypes
  <2>3. FormLookups'
    BY <1>0, <1>1, <2>1 DEF FormLookups
  <2>4. ~form'.crossed => Uncrossed'
    BY <1>1, <1>2, <2>1 DEF FormInv, Uncrossed
  <2>5. QED
    BY <2>2, <2>3, <2>4 DEF FormInv
<1>3. CASE form.phase = "saving" /\ form.kind = "group"
  <2>1. form' = [form EXCEPT !.phase = "open"]
    BY <1>3 DEF LoseAnswer
  <2>2. /\ IsForm(form') /\ form'.phase = "open" /\ form'.kind = form.kind /\ form'.name = form.name
        /\ form'.doc = form.doc /\ form'.at = form.at /\ form'.base = form.base /\ form'.own = form.own
        /\ form'.crossed = form.crossed /\ form'.picked = form.picked /\ form'.unpicked = form.unpicked
        /\ form'.dropped = form.dropped /\ form'.hasty = form.hasty
    BY <1>0, <2>1 DEF IsForm
  <2>3. FormTyped(form')
    BY <1>0, <1>3, <2>2 DEF FormTyped
  <2>4. FormTypes'
    BY <1>0, <1>1, <2>3 DEF FormTypes
  <2>5. FormLookups'
    BY <1>0, <1>1, <2>2 DEF FormLookups
  <2>6. ~form'.crossed => Uncrossed'
    BY <1>1, <1>3, <2>2 DEF FormInv, Uncrossed, PickedOnly, LostBy
  <2>7. QED
    BY <2>4, <2>5, <2>6 DEF FormInv
<1>4. CASE form.phase = "saving" /\ form.kind = "user"
  <2>1. form' = ClosedForm
    BY <1>4 DEF LoseAnswer
  <2>2. Stores(stored') /\ Stores(shown') /\ writes' \in {writes, writes + 1} /\ writes' =< MaxUserWrites
    BY <1>0, <1>1, FormBounds DEF FormTypes, FormLookups
  <2>3. QED
    BY <1>1, <2>1, <2>2, CloseKeeps
<1>5. QED
  BY <1>0, <1>1, <1>2, <1>3, <1>4 DEF FormTyped

LEMMA RefetchUsersKeeps ==
    ASSUME FormInv, RefetchUsers
    PROVE  FormInv'
<1>1. shown' = stored /\ UNCHANGED <<stored, waiting, form, writes, failures>>
  BY DEF RefetchUsers
<1>2. FormTypes'
  BY <1>1 DEF FormInv, FormTypes
<1>3. FormLookups'
  BY <1>1 DEF FormInv, FormLookups
<1>4. ~form'.crossed => Uncrossed'
  BY <1>1 DEF FormInv, Uncrossed
<1>5. QED
  BY <1>2, <1>3, <1>4 DEF FormInv

LEMMA DeleteUserKeeps ==
    ASSUME FormInv, NEW u \in UserIds, DeleteUser(u)
    PROVE  FormInv'
<1>0. FormTyped(form) /\ FormLookups /\ FormTypes
  BY DEF FormInv, FormTypes
<1>1. /\ form.phase = "closed" /\ MayWrite
      /\ stored' = [v \in DOMAIN stored \ {u} |-> stored[v]]
      /\ shown' = [v \in DOMAIN shown \ {u} |-> shown[v]]
      /\ writes' = writes + 1 /\ UNCHANGED <<waiting, form, failures>>
  BY DEF DeleteUser
<1>2. Stores(stored') /\ Stores(shown')
  BY <1>0, <1>1, LessStored DEF FormTypes
<1>3. writes \in Nat /\ writes < MaxUserWrites /\ waiting = {}
  BY <1>0, <1>1, FormBounds DEF MayWrite, FormLookups
<1>4. FormTypes'
  BY <1>0, <1>1, <1>2 DEF FormTypes
<1>5. FormLookups'
  BY <1>0, <1>1, <1>3, FormBounds DEF FormLookups
<1>6. ~form'.crossed => Uncrossed'
  BY <1>1, <1>3 DEF FormInv, Uncrossed
<1>7. QED
  BY <1>4, <1>5, <1>6 DEF FormInv

LEMMA UserElsewhereKeeps ==
    ASSUME FormInv, NEW u \in UserIds \cup Forms, NEW other \in FirstUsers, UserElsewhere(u, other)
    PROVE  FormInv'
<1>0. FormTyped(form) /\ FormLookups /\ FormTypes
  BY DEF FormInv, FormTypes
<1>1. /\ MayWrite /\ writes' = writes + 1 /\ UNCHANGED <<shown, waiting, form, failures>>
  BY DEF UserElsewhere
<1>2. Stores(stored')
  <2>1. Stores(other)
    BY UserPopupAssumption
  <2>2. CASE u \in DOMAIN other
    <3>1. stored' = PutUser(stored, u, other[u])
      BY <2>2 DEF UserElsewhere
    <3>2. other[u] \in Owns /\ (u \in Forms => other[u].groups = {})
      BY <2>1, <2>2 DEF Stores
    <3>3. QED
      BY <1>0, <3>1, <3>2, PutStored DEF FormTypes
  <2>3. CASE u \notin DOMAIN other
    <3>1. stored' = [v \in DOMAIN stored \ {u} |-> stored[v]]
      BY <2>3 DEF UserElsewhere
    <3>2. QED
      BY <1>0, <3>1, LessStored DEF FormTypes
  <2>4. QED
    BY <2>2, <2>3
<1>3. writes \in Nat /\ writes < MaxUserWrites
  BY <1>0, <1>1, FormBounds DEF MayWrite, FormLookups
<1>4. FormTypes'
  BY <1>0, <1>1, <1>2 DEF FormTypes
<1>5. form.at # writes' /\ form.at \in (0 .. writes') \cup {MaxUserWrites + 1}
  BY <1>0, <1>1, <1>3, FormBounds DEF FormLookups
<1>6. waiting' \subseteq [id : UserIds, sap : BOOLEAN, at : 0 .. writes'] /\ \A w \in waiting' : w.at # writes'
  <2>1. ASSUME NEW w \in waiting PROVE w \in [id : UserIds, sap : BOOLEAN, at : 0 .. writes'] /\ w.at # writes'
    <3>1. w \in [id : UserIds, sap : BOOLEAN, at : 0 .. writes]
      BY <1>0, <2>1 DEF FormLookups
    <3>2. w.at \in 0 .. writes
      BY <3>1
    <3>3. w.at \in 0 .. writes' /\ w.at # writes'
      BY <1>1, <1>3, <3>2
    <3>4. QED
      BY <3>1, <3>3
  <2>2. QED
    BY <1>1, <2>1
<1>7. FormLookups'
  BY <1>0, <1>1, <1>3, <1>5, <1>6, FormBounds DEF FormLookups
<1>8. ~form'.crossed => Uncrossed'
  BY <1>1, <1>5 DEF FormInv, Uncrossed
<1>9. QED
  BY <1>4, <1>7, <1>8 DEF FormInv
\* Every step of the form, its dialogs and other managers keeps the invariant.
LEMMA FormNextInv ==
    ASSUME FormInv, [FormNext]_formVars
    PROVE  FormInv'
<1>1. CASE UNCHANGED formVars
  <2>1. UNCHANGED <<stored, shown, waiting, form, writes, failures>>
    BY <1>1 DEF formVars
  <2>2. FormTypes'
    BY <2>1 DEF FormInv, FormTypes
  <2>3. FormLookups'
    BY <2>1 DEF FormInv, FormLookups
  <2>4. ~form'.crossed => Uncrossed'
    BY <2>1 DEF FormInv, Uncrossed
  <2>5. QED
    BY <2>2, <2>3, <2>4 DEF FormInv
<1>2. ASSUME NEW u \in UserIds, OpenEdit(u) PROVE FormInv'
  BY <1>2, OpenEditKeeps
<1>3. ASSUME NEW u \in UserIds, SelectUser(u) PROVE FormInv'
  BY <1>3, SelectUserKeeps
<1>4. ASSUME NEW u \in UserIds, DeleteUser(u) PROVE FormInv'
  BY <1>4, DeleteUserKeeps
<1>5. ASSUME NEW g \in Forms, OpenGroup(g) PROVE FormInv'
  BY <1>5, OpenGroupKeeps
<1>6. CASE OpenNew
  BY <1>6, OpenNewKeeps
<1>7. ASSUME NEW w \in waiting, AnswerLookup(w) PROVE FormInv'
  BY <1>7, AnswerLookupKeeps
<1>8. ASSUME NEW w \in waiting, AnswerSap(w) PROVE FormInv'
  BY <1>8, AnswerSapKeeps
<1>9. CASE EditUserForm
  <2>1. form.phase = "open" /\ form.kind = "user" /\ MayEditForm
    BY <1>9 DEF EditUserForm
  <2>2. CASE EditDomains
    BY <2>1, <2>2, EditDomainsKeeps
  <2>3. CASE EditTables
    BY <2>1, <2>3, EditTablesKeeps
  <2>4. CASE EditUser
    BY <2>1, <2>4, EditUserKeeps
  <2>5. QED
    BY <1>9, <2>2, <2>3, <2>4 DEF EditUserForm
<1>10. CASE EditGroupForm
  <2>1. form.phase = "open" /\ form.kind = "group" /\ MayEditForm
    BY <1>10 DEF EditGroupForm
  <2>2. CASE EditDomains
    BY <2>1, <2>2, EditDomainsKeeps
  <2>3. CASE EditTables
    BY <2>1, <2>3, EditTablesKeeps
  <2>4. CASE EditIndications
    BY <2>1, <2>4, EditIndicationsKeeps
  <2>5. QED
    BY <1>10, <2>2, <2>3, <2>4 DEF EditGroupForm
<1>11. CASE OptionsArrive
  BY <1>11, OptionsArriveKeeps
<1>12. CASE SaveUser
  BY <1>12, SaveKeeps
<1>13. CASE SaveGroup
  BY <1>13, SaveKeeps
<1>14. CASE CancelForm
  BY <1>14, CancelKeeps
<1>15. CASE DeliverUser
  BY <1>15, DeliverUserKeeps
<1>16. CASE DeliverGroup
  BY <1>16, DeliverGroupKeeps
<1>17. CASE RefreshGroup
  BY <1>17, RefreshGroupKeeps
<1>18. CASE LoseAnswer
  BY <1>18, LoseAnswerKeeps
<1>19. CASE RefetchUsers
  BY <1>19, RefetchUsersKeeps
<1>20. ASSUME NEW u \in UserIds \cup Forms, NEW other \in FirstUsers, UserElsewhere(u, other) PROVE FormInv'
  BY <1>20, UserElsewhereKeeps
<1>21. QED
  BY <1>1, <1>2, <1>3, <1>4, <1>5, <1>6, <1>7, <1>8, <1>9, <1>10, <1>11, <1>12, <1>13, <1>14, <1>15, <1>16,
     <1>17, <1>18, <1>19, <1>20 DEF FormNext

\* Every state of the form is typed, with the lookups under way and what was picked.
THEOREM FormAlwaysTyped == FormSpec => []FormInv
<1>1. FormInit => FormInv
  BY FormInitInv
<1>2. FormInv /\ [FormNext]_formVars => FormInv'
  BY FormNextInv
<1>3. QED
  BY <1>1, <1>2, PTL DEF FormSpec

\* What a save adds somebody chose and what it takes away somebody removed, or is no longer
\* offered, or was taken by a dialog saved before its options came (AddClassificationsPopup.tsx
\* and AddRowFiltersPopup.tsx save what they hold while the options load).
THEOREM OnlyPicksAlways == FormSpec => []OnlyPicks
<1>1. FormInv => OnlyPicks
  BY DEF FormInv, Uncrossed, PickedOnly, LostBy, OnlyPicks
<1>2. QED
  BY <1>1, FormAlwaysTyped, PTL

\* A save goes to the user that the form names.
LEMMA NamedSaved == FormInv => SavesTheNamed
  BY DEF FormInv, Uncrossed, SavesTheNamed
(* What differs in the merged view can be saved. *)

\* The classifications of the merged view, as a list.
LEMMA ViewListed ==
    ASSUME NEW own \in Owns, NEW f, f = DomainsDict(AsUser(own))
    PROVE  f \in DomainMaps /\ MergedDomainList(own) = DomainList(f)
<1>1. PICK user, m : user = AsUser(own) /\ m = Merged(own)
  OBVIOUS
<1>2. user \in Holders(DomainEntry, FormTable, UserGroups)
  BY <1>1, AsUserIs DEF FormUsers
<1>3. m = MergeDomains(user) /\ f = DomainsDict(user)
  BY <1>1 DEF Merged
<1>4. DOMAIN f \subseteq Domains /\ f \in [DOMAIN f -> SUBSET Classes]
  BY ONLY <1>2, <1>3, DictTyped
<1>5. DOMAIN m = DOMAIN f /\ \A d \in DOMAIN m : DOMAIN m[d].cls = f[d]
  BY ONLY <1>2, <1>3, ViewParts
<1>6. PICK h : h = [d \in DOMAIN m |-> DOMAIN m[d].cls]
  OBVIOUS
<1>7. h = f
  BY <1>4, <1>5, <1>6
<1>8. MergedDomainList(own) = DomainList(h)
  BY <1>1, <1>6 DEF MergedDomainList
<1>9. QED
  BY <1>4, <1>7, <1>8, DomainMapIs

LEMMA SameDomainLists ==
    ASSUME NEW f \in DomainMaps, NEW h \in DomainMaps,
           NEW l, l = DomainList(f), NEW r, r = DomainList(h), DomainsDiff(l, r, TRUE) = <<>>
    PROVE  f = h
<1>1. /\ l \in Seq(DomainEntry) /\ KeysDiffer(l, "id")
      /\ Range(l) = {[id |-> d, cls |-> f[d]] : d \in DOMAIN f}
  BY DomainListIs
<1>2. /\ r \in Seq(DomainEntry) /\ KeysDiffer(r, "id")
      /\ Range(r) = {[id |-> d, cls |-> h[d]] : d \in DOMAIN h}
  BY DomainListIs
<1>3. Nothing \notin [id : Domains, new : SUBSET Classes, deleted : SUBSET Classes]
  BY UserPopupAssumption
<1>4. Range(l) = Range(r)
  BY <1>1, <1>2, <1>3, SameDomains
<1>5. \A d \in DOMAIN f : d \in DOMAIN h /\ f[d] = h[d]
  <2>1. TAKE d \in DOMAIN f
  <2>2. [id |-> d, cls |-> f[d]] \in Range(r)
    BY <1>1, <1>4
  <2>3. PICK e \in DOMAIN h : [id |-> d, cls |-> f[d]] = [id |-> e, cls |-> h[e]]
    BY <1>2, <2>2
  <2>4. QED
    BY <2>3
<1>6. \A d \in DOMAIN h : d \in DOMAIN f
  <2>1. TAKE d \in DOMAIN h
  <2>2. [id |-> d, cls |-> h[d]] \in Range(l)
    BY <1>2, <1>4
  <2>3. PICK e \in DOMAIN f : [id |-> d, cls |-> h[d]] = [id |-> e, cls |-> f[e]]
    BY <1>1, <2>2
  <2>4. QED
    BY <2>3
<1>7. f = [d \in DOMAIN f |-> f[d]] /\ h = [d \in DOMAIN h |-> h[d]]
  BY DomainMapIs
<1>8. QED
  BY <1>5, <1>6, <1>7

\* The row filters of a table, in the order of the list.
FilterListsOf == {FilterList(f) : f \in FilterSets}

LEMMA FilterListIs ==
    ASSUME NEW f \in FilterSets, NEW l, l = FilterList(f)
    PROVE  /\ l \in Seq(FilterEntry(FilterValues)) /\ KeysDiffer(l, "kod")
           /\ Range(l) = {[kod |-> k, values |-> f[k]] : k \in Kods}
<1>1. KodOrder \in Seq(Kods) /\ IsInjective(KodOrder) /\ Range(KodOrder) = Kods
  BY UserPopupAssumption DEF InOrder
<1>2. DOMAIN KodOrder = 1 .. Len(KodOrder) /\ Len(KodOrder) \in Nat
  BY <1>1
<1>3. PICK s : s = KodOrder
  OBVIOUS
<1>4. l = [i \in 1 .. Len(s) |-> [kod |-> s[i], values |-> f[s[i]]]]
  BY <1>2, <1>3 DEF FilterList
<1>5. \A i \in 1 .. Len(s) : s[i] \in Kods
  BY <1>1, <1>3
<1>6. \A k \in Kods : f[k] \in SUBSET FilterValues
  BY DEF FilterSets
<1>7. \A i \in 1 .. Len(s) : [kod |-> s[i], values |-> f[s[i]]] \in FilterEntry(FilterValues)
  BY <1>5, <1>6 DEF FilterEntry
<1>8. l \in Seq(FilterEntry(FilterValues))
  BY <1>2, <1>3, <1>4, <1>7
<1>9. KeysDiffer(l, "kod")
  <2>1. \A i \in 1 .. Len(s) : l[i]["kod"] = s[i]
    BY <1>4
  <2>2. DOMAIN l = 1 .. Len(s)
    BY <1>4
  <2>3. QED
    BY <1>1, <1>2, <1>3, <2>1, <2>2 DEF KeysDiffer, IsInjective
<1>10. Range(l) = {[kod |-> s[i], values |-> f[s[i]]] : i \in 1 .. Len(s)}
  BY <1>4 DEF Range
<1>11. \A k \in Kods : \E i \in 1 .. Len(s) : k = s[i]
  BY <1>1, <1>2, <1>3 DEF Range
<1>12. QED
  BY <1>5, <1>8, <1>9, <1>10, <1>11

LEMMA SameFilters ==
    ASSUME NEW f \in FilterSets, NEW h \in FilterSets, Range(FilterList(f)) = Range(FilterList(h))
    PROVE  f = h
<1>1. Range(FilterList(f)) = {[kod |-> k, values |-> f[k]] : k \in Kods}
  BY FilterListIs
<1>2. Range(FilterList(h)) = {[kod |-> k, values |-> h[k]] : k \in Kods}
  BY FilterListIs
<1>3. ASSUME NEW k \in Kods PROVE f[k] = h[k]
  <2>1. PICK j \in Kods : [kod |-> k, values |-> f[k]] = [kod |-> j, values |-> h[j]]
    BY <1>1, <1>2
  <2>2. QED
    BY <2>1
<1>4. QED
  BY <1>3 DEF FilterSets

LEMMA FullFilterLists == FullLists(FilterValues, FilterListsOf)
<1>1. ASSUME NEW fs \in FilterListsOf
      PROVE  /\ fs \in Seq(FilterEntry(FilterValues)) /\ KeysDiffer(fs, "kod")
             /\ \E f \in FilterSets : Range(fs) = {[kod |-> k, values |-> f[k]] : k \in Kods}
  BY FilterListIs DEF FilterListsOf
<1>2. ASSUME NEW fs \in FilterListsOf, NEW hs \in FilterListsOf PROVE SameKods(fs, hs)
  <2>1. PICK f \in FilterSets : Range(fs) = {[kod |-> k, values |-> f[k]] : k \in Kods}
    BY <1>1
  <2>2. PICK h \in FilterSets : Range(hs) = {[kod |-> k, values |-> h[k]] : k \in Kods}
    BY <1>1
  <2>3. ASSUME NEW x \in Range(fs) PROVE \E y \in Range(hs) : x.kod = y.kod
    <3>1. PICK k \in Kods : x = [kod |-> k, values |-> f[k]]
      BY <2>1, <2>3
    <3>2. [kod |-> k, values |-> h[k]] \in Range(hs)
      BY <2>2
    <3>3. QED
      BY <3>1, <3>2
  <2>4. ASSUME NEW y \in Range(hs) PROVE \E x \in Range(fs) : x.kod = y.kod
    <3>1. PICK k \in Kods : y = [kod |-> k, values |-> h[k]]
      BY <2>2, <2>4
    <3>2. [kod |-> k, values |-> f[k]] \in Range(fs)
      BY <2>1
    <3>3. QED
      BY <3>1, <3>2
  <2>5. QED
    BY <2>3, <2>4 DEF SameKods
<1>3. QED
  BY <1>1, <1>2 DEF FullLists

\* The permission tables of the merged view, as a list.
LEMMA TablesListed ==
    ASSUME NEW own \in Owns, NEW mt, mt = MergedTables(own), NEW l, l = MergedTableList(own)
    PROVE  /\ l \in Seq(TableItem(PermissionTables, FilterListsOf)) /\ KeysDiffer(l, "id")
           /\ Range(l) = {[id |-> t, filters |-> FilterList(mt[t])] : t \in DOMAIN mt}
<1>1. DOMAIN mt \subseteq PermissionTables /\ mt \in [DOMAIN mt -> FilterSets]
  BY FormTables
<1>2. PICK h : h = [t \in DOMAIN mt |-> FilterList(mt[t])]
  OBVIOUS
<1>3. DOMAIN h = DOMAIN mt /\ \A t \in DOMAIN h : h[t] \in FilterListsOf
  BY <1>1, <1>2 DEF FilterListsOf
<1>4. PICK s : s = Listed(TableOrder, DOMAIN mt)
  OBVIOUS
<1>5. DOMAIN s = 1 .. Len(s) /\ Len(s) \in Nat /\ Range(s) = DOMAIN mt
  BY <1>1, <1>4, ListedIs, UserPopupAssumption
<1>6. \A i \in DOMAIN s : s[i] \in DOMAIN mt
  BY <1>5 DEF Range
<1>7. TableList(mt) = [i \in DOMAIN s |-> [id |-> s[i], filters |-> mt[s[i]]]]
  BY <1>4 DEF TableList
<1>8. l = [i \in DOMAIN s |-> [id |-> s[i], filters |-> FilterList(mt[s[i]])]]
  BY <1>7 DEF MergedTableList
<1>9. l = TableList(h)
  <2>1. TableList(h) = [i \in DOMAIN s |-> [id |-> s[i], filters |-> h[s[i]]]]
    BY <1>3, <1>4 DEF TableList
  <2>2. QED
    BY <1>2, <1>6, <1>8, <2>1
<1>10. /\ l \in Seq(TableItem(PermissionTables, FilterListsOf)) /\ KeysDiffer(l, "id")
       /\ Range(l) = {[id |-> t, filters |-> h[t]] : t \in DOMAIN h}
  BY ONLY <1>1, <1>3, <1>9, TableListIs
<1>11. QED
  BY <1>2, <1>10

LEMMA SameTableLists ==
    ASSUME NEW own \in Owns, NEW other \in Owns, TablesDiff(MergedTableList(own), MergedTableList(other)) = <<>>
    PROVE  MergedTables(own) = MergedTables(other)
<1>1. PICK f, h, l, r : /\ f = MergedTables(own) /\ l = MergedTableList(own)
                        /\ h = MergedTables(other) /\ r = MergedTableList(other)
  OBVIOUS
<1>2. /\ l \in Seq(TableItem(PermissionTables, FilterListsOf)) /\ KeysDiffer(l, "id")
      /\ Range(l) = {[id |-> t, filters |-> FilterList(f[t])] : t \in DOMAIN f}
  BY <1>1, TablesListed
<1>3. /\ r \in Seq(TableItem(PermissionTables, FilterListsOf)) /\ KeysDiffer(r, "id")
      /\ Range(r) = {[id |-> t, filters |-> FilterList(h[t])] : t \in DOMAIN h}
  BY <1>1, TablesListed
<1>4. f \in [DOMAIN f -> FilterSets] /\ h \in [DOMAIN h -> FilterSets]
  BY <1>1, FormTables
<1>5. Nothing \notin FilterReport(FilterValues) /\ Nothing \notin TableReport(PermissionTables, FilterValues)
  BY UserPopupAssumption DEF FilterReport, TableReport
<1>6. SameLists(l, r)
  <2>1. TablesDiff(l, r) = <<>>
    BY <1>1
  <2>2. QED
    BY ONLY <1>2, <1>3, <1>5, <2>1, FullFilterLists, SameTables
<1>7. ASSUME NEW t \in DOMAIN f PROVE t \in DOMAIN h /\ f[t] = h[t]
  <2>1. PICK x : x = [id |-> t, filters |-> FilterList(f[t])]
    OBVIOUS
  <2>2. x \in Range(l) /\ x.id = t /\ x.filters = FilterList(f[t])
    BY <1>2, <2>1
  <2>3. PICK y \in Range(r) : x.id = y.id /\ Range(x.filters) = Range(y.filters)
    BY <1>6, <2>2 DEF SameLists
  <2>4. PICK u \in DOMAIN h : y = [id |-> u, filters |-> FilterList(h[u])]
    BY <1>3, <2>3
  <2>5. t = u /\ Range(FilterList(f[t])) = Range(FilterList(h[t]))
    BY <2>2, <2>3, <2>4
  <2>6. f[t] \in FilterSets /\ h[t] \in FilterSets
    BY <1>4, <2>5
  <2>7. QED
    BY <2>5, <2>6, SameFilters
<1>8. ASSUME NEW t \in DOMAIN h PROVE t \in DOMAIN f
  <2>1. PICK y : y = [id |-> t, filters |-> FilterList(h[t])]
    OBVIOUS
  <2>2. y \in Range(r) /\ y.id = t
    BY <1>3, <2>1
  <2>3. PICK x \in Range(l) : x.id = y.id
    BY <1>6, <2>2 DEF SameLists
  <2>4. QED
    BY <1>2, <2>2, <2>3
<1>9. f = h
  BY <1>4, <1>7, <1>8
<1>10. QED
  BY <1>1, <1>9

LEMMA SameGroupSets ==
    ASSUME NEW S, NEW T, FlatGroups(S, T) = {}
    PROVE  S = T
<1>1. \A g \in T \ S : [kind |-> "group", type |-> "new", id |-> g] \in FlatGroups(S, T)
  BY DEF FlatGroups
<1>2. \A g \in S \ T : [kind |-> "group", type |-> "deleted", id |-> g] \in FlatGroups(S, T)
  BY DEF FlatGroups
<1>3. QED
  BY <1>1, <1>2

\* A form that its diffs do not tell changed shows the same merged permissions.
LEMMA UnchangedSame ==
    ASSUME NEW f, f.base \in Owns, f.own \in Owns, ~IsUserChanged(f)
    PROVE  Effective(f.own) = Effective(f.base)
<1>1. PICK base, own : base = f.base /\ own = f.own
  OBVIOUS
<1>2. base \in Owns /\ own \in Owns
  BY <1>1
<1>3. /\ MergedAttrs(base) = MergedAttrs(own)
      /\ DomainsDiff(MergedDomainList(base), MergedDomainList(own), TRUE) = <<>>
      /\ TablesDiff(MergedTableList(base), MergedTableList(own)) = <<>>
      /\ FlatGroups(base.groups, own.groups) = {}
      /\ base.all = own.all
  BY <1>1 DEF IsUserChanged
<1>4. PICK g, h : g = DomainsDict(AsUser(base)) /\ h = DomainsDict(AsUser(own))
  OBVIOUS
<1>5. g \in DomainMaps /\ MergedDomainList(base) = DomainList(g)
  BY <1>2, <1>4, ViewListed
<1>6. h \in DomainMaps /\ MergedDomainList(own) = DomainList(h)
  BY <1>2, <1>4, ViewListed
<1>7. g = h
  BY <1>3, <1>5, <1>6, SameDomainLists
<1>8. MergedTables(base) = MergedTables(own)
  BY <1>2, <1>3, SameTableLists
<1>9. base.groups = own.groups
  BY <1>3, SameGroupSets
<1>10. Effective(own) = Effective(base)
  BY <1>3, <1>4, <1>7, <1>8, <1>9 DEF Effective
<1>11. QED
  BY <1>1, <1>10

LEMMA UngroupedIs ==
    ASSUME NEW own \in Owns, own.groups = {}
    PROVE  Ungrouped(own) = own
BY OwnIs DEF Ungrouped

LEMMA ChangesSaved == FormInv => ChangeSavable
<1> SUFFICES ASSUME FormInv PROVE ChangeSavable
  OBVIOUS
<1>1. FormTyped(form) /\ IsForm(form) /\ form.base \in Owns /\ form.own \in Owns
  BY DEF FormInv, FormTypes, FormTyped
<1>2. Effective(form.own) # Effective(form.base) => IsUserChanged(form)
  BY <1>1, UnchangedSame
<1>3. ASSUME form.kind # "user" PROVE IsDataPermissionsChanged(form) <=> IsUserChanged(form)
  <2>1. form.base.groups = {} /\ form.own.groups = {}
    BY <1>1, <1>3 DEF FormTyped
  <2>2. Ungrouped(form.base) = form.base /\ Ungrouped(form.own) = form.own
    BY <1>1, <2>1, UngroupedIs
  <2>3. [form EXCEPT !.base = form.base, !.own = form.own] = form
    BY <1>1 DEF IsForm
  <2>4. QED
    BY <2>2, <2>3 DEF IsDataPermissionsChanged
<1>4. form.phase = "open" /\ form.kind # "group" => form.name # EmptyUser
  BY <1>1 DEF FormTyped
<1>5. form.kind = "group" => form.kind # "user"
  OBVIOUS
<1>6. QED
  BY <1>2, <1>3, <1>4, <1>5 DEF ChangeSavable, CanSaveUser

\* The form can save what changes somebody's rights, unless it leaves a user without any
\* domain, and saves it to the one it names.
THEOREM NamedChangeAlwaysSaved == FormSpec => []NamedChangeSaved
<1>1. FormInv => NamedChangeSaved
  BY NamedSaved, ChangesSaved DEF NamedChangeSaved
<1>2. QED
  BY <1>1, FormAlwaysTyped, PTL
=============================================================================
