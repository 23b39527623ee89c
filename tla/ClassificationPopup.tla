-------------------------- MODULE ClassificationPopup --------------------------
(***************************************************************************)
(* The popup in which people classify the columns of a table               *)
(* (shield-client, ClassificationPopup.tsx), opened from the list of       *)
(* tables or from the list of tasks.  Popups of several people meet in the *)
(* table only, so that the saves of people who are not among the Users are *)
(* steps that change it under their popups.                                *)
(*                                                                         *)
(* A popup loads the table, fills empty columns with suggestions that may  *)
(* be in the browser's cache since long, and sends every column when it is *)
(* saved, whether it was edited or not.  After a save the browser writes   *)
(* what it sent into its cached list and has the list asked for again, if  *)
(* its screen is open; a request or its answer may fail.  An edit is one   *)
(* step of the server here: Tables has its interleavings.  written counts  *)
(* the writes of the table, so that what a browser shows can be dated.     *)
(***************************************************************************)
EXTENDS Naturals

CONSTANTS
    Users,
    Columns,
    ColumnClasses,
    Masks,
    DefaultMask,  \* DEFAULT_MASK
    Internal,     \* the classification of internal tables
    Empty,        \* no classification
    Stages,       \* VERIFICATION_STAGE_NAMES
    Hints,        \* [Columns -> ColumnClasses]: what other tables suggest for a column
    Rights,       \* [Users -> SUBSET ColumnClasses]: what a user may assign at first
    FirstTables,  \* tables to start from: [cols, stages]
    MaxWrites,    \* bound: upserts and saves
    MaxOpens,     \* bound: popups opened
    MaxEdits,     \* bound: edits in all popups
    MaxTroubles   \* bound: changes of rights, and requests and answers that fail

NoStages == <<>>
NoHints  == <<>>

Column == [cls : ColumnClasses \cup {Internal, Empty}, mask : Masks]
Row    == Column
Marks  == {NoStages} \cup [Stages -> BOOLEAN]
Tables == [cols : [Columns -> Column], stages : Marks]

ASSUME PopupAssumption ==
    /\ Internal \notin ColumnClasses /\ Empty \notin ColumnClasses /\ Internal # Empty
    /\ DefaultMask \in Masks /\ Stages # {}
    /\ Hints \in [Columns -> ColumnClasses] /\ Rights \in [Users -> SUBSET ColumnClasses]
    /\ {MaxWrites, MaxOpens, MaxEdits, MaxTroubles} \subseteq Nat

\* The columns of an internal table have the default mask (upsertTables).
ASSUME FirstAssumption ==
    /\ FirstTables \subseteq Tables
    /\ \A t \in FirstTables, c \in Columns :
          t.cols[c].cls = Internal => t.cols[c].mask = DefaultMask

States == {"internal", "classified", "partial", "unclassified"}

VARIABLES
    table,    \* the document: [cols, stages]
    told,     \* whether the table was last announced as verified
    written,  \* writes of the table so far
    rights,   \* [Users -> SUBSET ColumnClasses]
    turns,    \* changes of rights so far
    done,     \* the task of the table is done
    popup,    \* [Users -> the popup]
    opened,   \* popups opened so far
    edits,    \* edits in popups so far
    hints,    \* [Users -> the cached suggestions, NoHints without]
    screen,   \* [Users -> the list that is open, of tables or of tasks]
    list,     \* [Users -> the cached list of tables: a set with one [state, stages, at, sure], or none]
    stale,    \* [Users -> the cached list is invalidated]
    fetch,    \* [Users -> [asked, got, late]]: the list is asked for; got holds one on its way,
              \* late if a save of the user was answered meanwhile
    overtaken,\* [Users -> the cached list came late]
    mine,     \* [Users -> the write that the last acknowledged save of the user was]
    tasks,    \* [Users -> the cached list of tasks has the task]
    mark,     \* [Users -> the task is being marked as done]
    blanked,  \* a save without stages has met a table that was verified
    faults

tableVars == <<table, told, written, rights, turns, blanked>>
popupVars == <<popup, opened, edits, hints>>
listVars  == <<screen, list, stale, fetch, overtaken, mine>>
taskVars  == <<done, tasks, mark>>
vars      == <<tableVars, popupVars, listVars, taskVars, faults>>

MayTrouble == turns + faults < MaxTroubles

Closed == [phase |-> "closed", from |-> "tables", seen |-> [cols |-> <<>>, stages |-> NoStages], opts |-> {},
           rows |-> <<>>, stages |-> NoStages, sent |-> {}]
Failed == [Closed EXCEPT !.phase = "failed"]
-----------------------------------------------------------------------------
\* isDataVerified.
Verified(stages) == DOMAIN stages = Stages /\ \A s \in Stages : stages[s]

\* getClassificationState.  Without a column the table is "classified".
StateOf(cols) ==
    LET has == {cols[c].cls : c \in DOMAIN cols}
    IN CASE Internal \in has      -> "internal"
         [] Empty \notin has      -> "classified"
         [] has \cap ColumnClasses # {} -> "partial"
         [] OTHER                 -> "unclassified"

Idle  == [asked |-> FALSE, got |-> {}, late |-> FALSE]
Asked == [asked |-> TRUE, got |-> {}, late |-> FALSE]

Shown(t, at) == [state |-> StateOf(t.cols), stages |-> t.stages, at |-> at, sure |-> TRUE]

\* getColumnClassificationSuggestions: what u may assign.
Served(u) == [c \in Columns |-> IF Hints[c] \in rights[u] THEN Hints[c] ELSE Empty]

\* formattedColumnDict.
Filled(cols, hint) ==
    [c \in DOMAIN cols |-> IF cols[c].cls = Empty THEN [cols[c] EXCEPT !.cls = hint[c]] ELSE cols[c]]

\* isCellEditable of a classification, and of a mask and of the row's checkbox.
CellEditable(p, c) == p.rows[c].cls \in p.opts \cup {Empty}

\* Mutant: rows of internal tables can be selected.
RowSelectableAll(p, c) == TRUE

RowSelectable(p, c) == p.rows[c].cls # Internal
-----------------------------------------------------------------------------
PopupInit ==
    /\ \E t \in FirstTables : table = t /\ told = Verified(t.stages)
    /\ written = 0 /\ rights = Rights /\ turns = 0 /\ done = FALSE /\ blanked = FALSE /\ faults = 0
    /\ popup = [u \in Users |-> Closed]
    /\ hints \in [Users -> {NoHints, Hints}] /\ opened = 0 /\ edits = 0
    /\ screen = [u \in Users |-> "tasks"]
    /\ list = [u \in Users |-> {}] /\ stale = [u \in Users |-> FALSE]
    /\ fetch = [u \in Users |-> Idle] /\ overtaken = [u \in Users |-> FALSE]
    /\ mine = [u \in Users |-> 0]
    /\ tasks = [u \in Users |-> TRUE]
    /\ mark = [u \in Users |-> FALSE]

\* setEditedTable of the list of tables, setSelectedTask of the list of tasks.
Open(u) ==
    /\ popup[u].phase = "closed" /\ opened < MaxOpens
    /\ opened' = opened + 1 /\ UNCHANGED edits
    /\ IF screen[u] = "tables" THEN list[u] # {} ELSE tasks[u] /\ ~mark[u]
    /\ popup' = [popup EXCEPT ![u] = [Closed EXCEPT !.phase = "loading", !.from = screen[u]]]
    /\ UNCHANGED <<tableVars, hints, listVars, taskVars, faults>>

\* useEffect: data that is new replaces the rows and the stages, edits included.
Fill(u, t) ==
    LET h == IF hints[u] = NoHints THEN Served(u) ELSE hints[u] IN
    /\ hints' = [hints EXCEPT ![u] = h] /\ UNCHANGED <<opened, edits>>
    /\ popup' = [popup EXCEPT ![u] = [@ EXCEPT !.phase = "open", !.seen = t, !.opts = rights[u],
                                               !.rows = Filled(t.cols, h), !.stages = t.stages]]

\* The table is asked for anew, the suggestions only when the browser has none.
Load(u) ==
    /\ popup[u].phase = "loading"
    /\ Fill(u, table)
    /\ UNCHANGED <<tableVars, listVars, taskVars, faults>>

\* The browser is online again: a table that is as it was leaves the edits alone.
Reload(u) ==
    /\ popup[u].phase = "open"
    /\ popup[u].seen # table \/ popup[u].opts # rights[u]
    /\ Fill(u, table)
    /\ UNCHANGED <<tableVars, listVars, taskVars, faults>>

Edited(u, rows) ==
    /\ popup[u].phase = "open" /\ edits < MaxEdits
    /\ rows # popup[u].rows
    /\ popup' = [popup EXCEPT ![u].rows = rows]
    /\ edits' = edits + 1
    /\ UNCHANGED <<tableVars, opened, hints, listVars, taskVars, faults>>

\* renderEditCell and processRowUpdate: one cell.
EditCell(u, c, x, m) ==
    /\ popup[u].phase = "open"
    /\ \/ CellEditable(popup[u], c) /\ x \in popup[u].opts \cup {Empty} /\ m = popup[u].rows[c].mask
       \/ RowSelectable(popup[u], c) /\ x = popup[u].rows[c].cls
    /\ Edited(u, [popup[u].rows EXCEPT ![c] = [cls |-> x, mask |-> m]])

\* Mutant: every selected row takes the classification.
AppliedAll(p, S, x, m) ==
    [c \in DOMAIN p.rows |->
        IF c \notin S THEN p.rows[c]
        ELSE [cls  |-> IF x # <<>> THEN x[1] ELSE p.rows[c].cls,
              mask |-> IF m # <<>> THEN m[1] ELSE p.rows[c].mask]]

\* applyMaskAndClassificationToSelected; x and m are singletons, or <<>> for none.
Applied(p, S, x, m) ==
    [c \in DOMAIN p.rows |->
        IF c \notin S THEN p.rows[c]
        ELSE [cls  |-> IF x # <<>> /\ CellEditable(p, c) THEN x[1] ELSE p.rows[c].cls,
              mask |-> IF m # <<>> THEN m[1] ELSE p.rows[c].mask]]

Selections(p) == SUBSET {c \in DOMAIN p.rows : RowSelectable(p, c)} \ {{}}

Apply(u, x, m) ==
    /\ x # <<>> \/ m # <<>>
    /\ x # <<>> => x[1] \in popup[u].opts \cup {Empty}
    /\ \E S \in Selections(popup[u]) : Edited(u, Applied(popup[u], S, x, m))

\* revertClassificationToSelected, revertMaskToSelected.
Revert(u, field) ==
    LET was == Filled(popup[u].seen.cols, hints[u]) IN
    \E S \in Selections(popup[u]) :
       Edited(u, [c \in DOMAIN popup[u].rows |->
                     IF c \notin S THEN popup[u].rows[c]
                     ELSE IF field = "classification" THEN [popup[u].rows[c] EXCEPT !.cls = was[c].cls]
                     ELSE [popup[u].rows[c] EXCEPT !.mask = was[c].mask]])

\* handleSetIsChecked: the first check writes every stage.
Toggled(stages, s) ==
    IF DOMAIN stages = Stages THEN [stages EXCEPT ![s] = ~@] ELSE [z \in Stages |-> z = s]

Check(u, s) ==
    /\ popup[u].phase = "open" /\ edits < MaxEdits
    /\ popup' = [popup EXCEPT ![u].stages = Toggled(@, s)]
    /\ edits' = edits + 1
    /\ UNCHANGED <<tableVars, opened, hints, listVars, taskVars, faults>>

\* handleSave: the button works before the table is there, too.
Save(u) ==
    /\ popup[u].phase \in {"loading", "open"}
    /\ popup' = [popup EXCEPT ![u].phase = "saving"]
    /\ UNCHANGED <<tableVars, opened, edits, hints, listVars, taskVars, faults>>

Cancel(u) ==
    /\ popup[u].phase \in {"loading", "open"}
    /\ popup' = [popup EXCEPT ![u] = Closed]
    /\ UNCHANGED <<tableVars, opened, edits, hints, listVars, taskVars, faults>>
-----------------------------------------------------------------------------
\* editTableById: what is taken away and what is given must be assignable.
Passes(u) ==
    \A c \in DOMAIN popup[u].rows :
       LET was == table.cols[c].cls
           is  == popup[u].rows[c].cls
       IN was # is => {was, is} \ {Empty} \subseteq rights[u]

Stored(u) == [cols |-> [c \in Columns |-> IF c \in DOMAIN popup[u].rows THEN popup[u].rows[c] ELSE table.cols[c]],
              stages |-> IF popup[u].stages = NoStages THEN table.stages ELSE popup[u].stages]

\* Mutant: only a verification is announced, its loss is not.
AnnouncedOnce(sent) == IF Verified(sent) THEN TRUE ELSE told

\* getFullVerificationDiff and the message of updateTable, which stay for all saves.
Announced(sent) ==
    IF Verified(sent) = Verified(table.stages) THEN told ELSE Verified(sent)

\* The server handles a save.
Deliver(u) ==
    /\ popup[u].phase = "saving" /\ written < MaxWrites
    /\ IF Passes(u)
       THEN /\ table' = Stored(u)
            /\ told' = Announced(popup[u].stages)
            /\ written' = written + 1
            /\ blanked' = (blanked \/ (popup[u].stages = NoStages /\ Verified(table.stages)))
            /\ popup' = [popup EXCEPT ![u] = [Closed EXCEPT !.phase = "saved", !.from = popup[u].from,
                               !.sent = {[state |-> StateOf(popup[u].rows), stages |-> popup[u].stages,
                                          at |-> written + 1, sure |-> FALSE]}]]
       ELSE /\ popup' = [popup EXCEPT ![u] = Failed]
            /\ UNCHANGED <<table, told, written, blanked>>
    /\ UNCHANGED <<rights, turns, opened, edits, hints, listVars, taskVars, faults>>

\* The save or its answer is lost: the popup is told that it failed.
LoseSave(u) ==
    /\ popup[u].phase \in {"saving", "saved"} /\ MayTrouble
    /\ popup' = [popup EXCEPT ![u] = Failed]
    /\ faults' = faults + 1
    /\ UNCHANGED <<tableVars, opened, edits, hints, listVars, taskVars>>

\* Mutant: a list on its way is still welcome after a save.
RefetchLazy(u) == IF fetch[u] = Idle THEN Asked ELSE fetch[u]

\* invalidateQueries: only a list whose screen is open is asked for again, in place of a
\* fetch under way if there is a list already.  Any other fetch goes on.
Refetch(u) ==
    IF screen[u] = "tables" /\ (list[u] # {} \/ fetch[u] = Idle) THEN Asked
    ELSE [fetch[u] EXCEPT !.late = @ \/ fetch[u].got # {}]

\* The answer: a list that is cached takes what was sent, and is invalidated; onSave of
\* the list of tasks goes on to mark the task.
Answer(u) ==
    /\ popup[u].phase = "saved"
    /\ \E sent \in popup[u].sent :
          /\ list' = [list EXCEPT ![u] = IF @ = {} THEN {} ELSE {sent}]
          /\ mine' = [mine EXCEPT ![u] = sent.at]
    /\ overtaken' = [overtaken EXCEPT ![u] = FALSE]
    /\ stale' = [stale EXCEPT ![u] = TRUE]
    /\ fetch' = [fetch EXCEPT ![u] = Refetch(u)]
    /\ hints' = [hints EXCEPT ![u] = NoHints]
    /\ mark' = [mark EXCEPT ![u] = @ \/ popup[u].from = "tasks"]
    /\ popup' = [popup EXCEPT ![u] = Closed]
    /\ UNCHANGED <<tableVars, opened, edits, screen, done, tasks, faults>>

\* An error closes the popup as well: its edits are gone.
Fail(u) ==
    /\ popup[u].phase = "failed"
    /\ popup' = [popup EXCEPT ![u] = Closed]
    /\ UNCHANGED <<tableVars, opened, edits, hints, listVars, taskVars, faults>>

\* The other list is opened, during a save, too (its popup goes when the screen does);
\* that of tables is asked for unless a valid one is cached or on its way.
Go(u, s) ==
    /\ s # screen[u] /\ popup[u].phase \notin {"loading", "open"}
    /\ screen' = [screen EXCEPT ![u] = s]
    /\ fetch' = [fetch EXCEPT ![u] =
                    IF s = "tables" /\ @ = Idle /\ (list[u] = {} \/ stale[u]) THEN Asked ELSE @]
    /\ UNCHANGED <<tableVars, popupVars, list, stale, overtaken, mine, taskVars, faults>>

\* The window has the focus again.
Focus(u) ==
    /\ screen[u] = "tables" /\ fetch[u] = Idle /\ (list[u] = {} \/ stale[u])
    /\ fetch' = [fetch EXCEPT ![u] = Asked]
    /\ UNCHANGED <<tableVars, popupVars, screen, list, stale, overtaken, mine, taskVars, faults>>

\* gcTime is over.
Forget(u) ==
    /\ screen[u] = "tasks" /\ fetch[u] = Idle /\ list[u] # {}
    /\ list' = [list EXCEPT ![u] = {}] /\ stale' = [stale EXCEPT ![u] = FALSE]
    /\ overtaken' = [overtaken EXCEPT ![u] = FALSE]
    /\ UNCHANGED <<tableVars, popupVars, screen, fetch, mine, taskVars, faults>>

\* The list of tables, served and shown.
ServeList(u) ==
    /\ fetch[u].asked
    /\ fetch' = [fetch EXCEPT ![u] = [Idle EXCEPT !.got = {Shown(table, written)}]]
    /\ UNCHANGED <<tableVars, popupVars, screen, list, stale, overtaken, mine, taskVars, faults>>

ShowList(u) ==
    /\ \E l \in fetch[u].got : list' = [list EXCEPT ![u] = {l}]
    /\ stale' = [stale EXCEPT ![u] = FALSE]
    /\ overtaken' = [overtaken EXCEPT ![u] = fetch[u].late]
    /\ fetch' = [fetch EXCEPT ![u] = Idle]
    /\ UNCHANGED <<tableVars, popupVars, screen, mine, taskVars, faults>>

\* The browser is reloaded: nothing is cached any more.
Visit(u) ==
    /\ popup[u].phase = "closed" /\ ~mark[u]
    /\ list' = [list EXCEPT ![u] = {}] /\ stale' = [stale EXCEPT ![u] = FALSE]
    /\ overtaken' = [overtaken EXCEPT ![u] = FALSE]
    /\ fetch' = [fetch EXCEPT ![u] = IF screen[u] = "tables" THEN Asked ELSE Idle]
    /\ hints' = [hints EXCEPT ![u] = NoHints]
    /\ tasks' = [tasks EXCEPT ![u] = ~done]
    /\ UNCHANGED <<tableVars, opened, edits, popup, screen, mine, done, mark, faults>>

\* A list that cannot be loaded again is taken as stale.
LoseList(u) ==
    /\ fetch[u] # Idle /\ MayTrouble
    /\ fetch' = [fetch EXCEPT ![u] = Idle]
    /\ stale' = [stale EXCEPT ![u] = TRUE]
    /\ faults' = faults + 1
    /\ UNCHANGED <<tableVars, popupVars, screen, list, overtaken, mine, taskVars>>

\* markTaskAsDoneMutation: whatever the state of the table.
Mark(u) ==
    /\ mark[u]
    /\ done' = TRUE
    /\ mark' = [mark EXCEPT ![u] = FALSE]
    /\ tasks' = [tasks EXCEPT ![u] = FALSE]
    /\ UNCHANGED <<tableVars, popupVars, listVars, faults>>

\* Mutant: the task leaves the list when its mutation starts.
LeftEarly(u) == FALSE

\* The task as the list shows it after a mutation that failed.
LeftAfter(u) == tasks[u]

LoseMark(u) ==
    /\ mark[u] /\ MayTrouble
    /\ mark' = [mark EXCEPT ![u] = FALSE]
    /\ tasks' = [tasks EXCEPT ![u] = LeftAfter(u)]
    /\ done' \in {done, TRUE}
    /\ faults' = faults + 1
    /\ UNCHANGED <<tableVars, popupVars, listVars>>

\* Elsewhere: the table turns internal or back, somebody saves it and may close its
\* task, a user loses or gains rights.
Upsert(mark0) ==
    /\ written < MaxWrites
    /\ \E c \in Columns : table.cols[c].cls # mark0
    /\ table' = [table EXCEPT !.cols = [c \in Columns |-> [cls |-> mark0, mask |-> DefaultMask]]]
    /\ written' = written + 1
    /\ UNCHANGED <<told, rights, turns, blanked, popupVars, listVars, taskVars, faults>>

Elsewhere(t) ==
    /\ written < MaxWrites
    /\ table' = t
    /\ told' = IF Verified(t.stages) = Verified(table.stages) THEN told ELSE Verified(t.stages)
    /\ written' = written + 1
    /\ UNCHANGED <<rights, turns, blanked, popupVars, listVars, tasks, mark, faults>>

\* By way of the list of tasks, and of the list of tables.
Reclassified(c, x) == /\ table.cols[c].cls \notin {Internal, x}
                      /\ Elsewhere([table EXCEPT !.cols[c].cls = x])
                      /\ done' = TRUE

Rechecked(stages) == /\ table.stages # stages
                     /\ Elsewhere([table EXCEPT !.stages = stages])
                     /\ UNCHANGED done

Turn(u, c) ==
    /\ MayTrouble
    /\ rights' = [rights EXCEPT ![u] = IF c \in @ THEN @ \ {c} ELSE @ \cup {c}]
    /\ turns' = turns + 1
    /\ UNCHANGED <<table, told, written, blanked, popupVars, listVars, taskVars, faults>>

PopupStep(u) ==
    \/ Open(u)
    \/ Load(u)
    \/ Reload(u)
    \/ \E c \in Columns, x \in ColumnClasses \cup {Empty, Internal}, m \in Masks : EditCell(u, c, x, m)
    \/ \E x \in {<<>>} \cup {<<e>> : e \in ColumnClasses \cup {Empty}}, m \in {<<>>} \cup {<<k>> : k \in Masks} : Apply(u, x, m)
    \/ \E field \in {"classification", "mask"} : Revert(u, field)
    \/ \E s \in Stages : Check(u, s)
    \/ Save(u)
    \/ Cancel(u)

NetStep(u) ==
    \/ Deliver(u)
    \/ LoseSave(u)
    \/ Answer(u)
    \/ Fail(u)
    \/ \E s \in {"tables", "tasks"} : Go(u, s)
    \/ Focus(u)
    \/ Forget(u)
    \/ ServeList(u)
    \/ ShowList(u)
    \/ Visit(u)
    \/ LoseList(u)
    \/ Mark(u)
    \/ LoseMark(u)

PopupNext ==
    \/ \E u \in Users : PopupStep(u) \/ NetStep(u)
    \/ \E m \in {Internal, Empty} : Upsert(m)
    \/ \E c \in Columns, x \in ColumnClasses \cup {Empty} : Reclassified(c, x)
    \/ \E stages \in [Stages -> BOOLEAN] : Rechecked(stages)
    \/ \E u \in Users, c \in ColumnClasses : Turn(u, c)

PopupSpec == PopupInit /\ [][PopupNext]_vars
-----------------------------------------------------------------------------
(***************************************************************************)
(* Properties.                                                             *)
(***************************************************************************)

Lists == [state : States, stages : Marks, at : 0 .. MaxWrites, sure : BOOLEAN]

\* The form of the state.
PopupTypeOK ==
    /\ table \in Tables
    /\ told \in BOOLEAN /\ blanked \in BOOLEAN /\ done \in BOOLEAN
    /\ written \in 0 .. MaxWrites /\ turns + faults \in 0 .. MaxTroubles
    /\ rights \in [Users -> SUBSET ColumnClasses]
    /\ \A u \in Users :
          /\ popup[u].phase \in {"closed", "loading", "open", "saving", "saved", "failed"}
          /\ popup[u].rows \in {<<>>} \cup [Columns -> Row]
          /\ hints[u] \in {NoHints} \cup [Columns -> ColumnClasses \cup {Empty}]
          /\ screen[u] \in {"tables", "tasks"}
          /\ list[u] \subseteq Lists /\ stale[u] \in BOOLEAN /\ overtaken[u] \in BOOLEAN
          /\ fetch[u].asked \in BOOLEAN /\ fetch[u].got \subseteq Lists /\ fetch[u].late \in BOOLEAN
          /\ tasks[u] \in BOOLEAN /\ mark[u] \in BOOLEAN

\* What u was shown still holds: nobody has written the table since, and u may assign
\* all that it was offered.
Current(u) ==
    /\ popup[u].seen = table
    /\ popup[u].opts \subseteq rights[u]
    /\ hints[u] # NoHints => \A c \in Columns : hints[u][c] \in rights[u] \cup {Empty}

\* Whatever a user does in a popup that is current, its save is not refused: neither a
\* suggestion nor a bulk edit puts in or takes away what the user may not assign.
CurrentSavePasses ==
    \A u \in Users : popup[u].phase = "saving" /\ Current(u) => Passes(u)

\* A browser that waits for nothing shows a list no older than its own last save, and
\* one that shows the last write shows it as it is.  A save that was lost on its way
\* back does not count: the browser does not know of it.  Neither does one that was
\* answered when the list's screen was closed, or had never had a list, while an older
\* list was on its way: the code lets that list in, and keeps it.
OwnSaveShown ==
    \A u \in Users : fetch[u] = Idle =>
       \A l \in list[u] :
          /\ ~overtaken[u] => l.at >= mine[u]
          /\ l.at = written /\ l.sure => l = Shown(table, written)

\* What was announced about the verification of the table is what its stages say,
\* unless a popup without stages (it had loaded none, or was saved before it loaded)
\* was saved over a table that somebody had verified.
VerificationTold == ~blanked => told = Verified(table.stages)

\* A task that is not done is on every screen that has not been told of its end.
TaskNotLost == ~done => \A u \in Users : tasks[u]

\* What the browser shows of tables and tasks settles on what the server has.
ScreensSettle == OwnSaveShown /\ TaskNotLost

\* No popup changes a column of an internal table, its mask included; only an upsert
\* takes such a table back.
InternalUntouched ==
    [][\A u \in Users : Deliver(u) =>
          \A c \in Columns : table.cols[c].cls = Internal => table'.cols[c] = table.cols[c]]_vars
=============================================================================
