------------------------------- MODULE UserPopup -------------------------------
(***************************************************************************)
(* The popup in which a manager creates or edits a user (shield-client,    *)
(* ManageUserPopup and the dialogs it opens), from a user of the cached    *)
(* list or from a search.  The popup shows the user's own permissions      *)
(* merged with those of its groups, edits the own ones, and sends all of   *)
(* them when it is saved.  Its save button works when the merged           *)
(* permissions differ from those it started with.                          *)
(*                                                                         *)
(* Own permissions are [domains : domain -> classifications, tables :      *)
(* permission table -> values of its row filters, attrs, all, groups].     *)
(* The permission tables are kept in line with the domains by an effect,   *)
(* whenever the server's answer for the merged domains arrives.            *)
(*                                                                         *)
(* The form of a group's permissions (DataPermissionsForm) has the same    *)
(* dialogs.  It stays open when it is saved, and keeps its state while the *)
(* group that it is compared with is loaded anew.                          *)
(*                                                                         *)
(* What a manager does in the dialogs is noted in picked and unpicked,     *)
(* what the popup drops by itself in dropped, and what a dialog that is    *)
(* saved before its options came takes along in hasty.  A type and         *)
(* populations of a user are edited as attrs are and left out.             *)
(***************************************************************************)
EXTENDS MergedPermissions, PermissionDiffs

CONSTANTS
    UserIds,       \* people
    Forms,         \* groups whose permissions are edited, apart from UserGroups
    EmptyUser,     \* INITIAL_EMPTY_USER
    Catalog,       \* [Domains -> SUBSET Classes]: the classifications of a domain
    Allowed,       \* [Domains -> SUBSET Classes]: domainsOptions, what the manager may assign
    PermissionTables,
    Needs,         \* [PermissionTables -> SUBSET (Domains \X Classes)]: what a table is offered for
    Values,        \* the values that the other row filters have had
    Dimension,     \* those that they have by now, a subset of Values
    UserGroups,    \* groups of users
    GroupData,     \* [UserGroups -> own permissions of the group, without groups]
    Editable,      \* the groups whose members the manager may change
    MayAttrs,      \* the attributes that the manager may set, of {"mask", "deceased", "all"}
    DomainOrder,   \* Domains, TableOrder PermissionTables, GroupOrder UserGroups and KodOrder Kods, in the
    TableOrder,    \* order in which the server lists them
    GroupOrder,
    KodOrder,
    FirstUsers,    \* what may be stored at first: a set of functions from some of UserIds and Forms
    MaxUserEdits,  \* bound: edits
    MaxUserWrites, \* bound: writes of users
    MaxUserFaults, \* bound: requests that fail
    MaxUserSteps   \* bound: edits, writes, failures and a crossing altogether

\* The values of row filters; a boolean is on or off.
FilterValues == Values \cup {0, 1}

FilterMaps ==
    {f \in [Kods -> SUBSET FilterValues] :
        \A k \in Kods : IF k \in BoolKods THEN f[k] \in {{0}, {1}} ELSE f[k] \subseteq Values}

DomainMaps == UNION {[S -> SUBSET Classes] : S \in SUBSET Domains}
TableMaps  == UNION {[S -> FilterMaps] : S \in SUBSET PermissionTables}

Owns ==
    {own \in [domains : DomainMaps, tables : TableMaps, attrs : Attributes, all : BOOLEAN,
              groups : SUBSET UserGroups] :
        \A d \in DOMAIN own.domains : own.domains[d] \subseteq Catalog[d]}

\* Users, and groups, which have no groups, with their permissions.
Stores(s) ==
    /\ DOMAIN s \subseteq UserIds \cup Forms
    /\ \A u \in DOMAIN s : s[u] \in Owns /\ (u \in Forms => s[u].groups = {})

InOrder(order, S) == order \in Seq(S) /\ IsInjective(order) /\ Range(order) = S

ASSUME UserPopupAssumption ==
    /\ EmptyUser \notin UserIds \cup Forms
    /\ BoolKods \subseteq Kods /\ Dimension \subseteq Values
    /\ Catalog \in [Domains -> SUBSET Classes]
    /\ \A d \in Domains : Allowed[d] \subseteq Catalog[d]
    /\ InOrder(DomainOrder, Domains) /\ InOrder(TableOrder, PermissionTables)
    /\ InOrder(GroupOrder, UserGroups) /\ InOrder(KodOrder, Kods)
    /\ UserIds \cap Forms = {}
    /\ Direct \notin UserGroups
    /\ Nothing \notin [id : Domains, new : SUBSET Classes, deleted : SUBSET Classes]
    /\ Nothing \notin [kod : Kods, new : SUBSET FilterValues, deleted : SUBSET FilterValues]
    /\ Nothing \notin [id : PermissionTables,
                      filters : Seq([kod : Kods, new : SUBSET FilterValues, deleted : SUBSET FilterValues])]
    /\ \A g \in UserGroups : GroupData[g] \in Owns
    /\ \A s \in FirstUsers : Stores(s)
    /\ {MaxUserEdits, MaxUserWrites, MaxUserFaults, MaxUserSteps} \subseteq Nat

VARIABLES
    stored,   \* the users of the server, and the permissions of groups
    shown,    \* what the browser has cached of them
    waiting,  \* lookups under way: [id, sap, at], sap when the user turned out to be unknown, at
              \* the writes by then
    form,     \* the popup
    writes,
    failures

formVars == <<stored, shown, waiting, form, writes, failures>>

None      == [x \in {} |-> x]
NobodyYet == [domains |-> None, tables |-> None, attrs |-> [mask |-> TRUE, deceased |-> FALSE],
              all |-> FALSE, groups |-> {}]

\* No options have arrived.
NoOptions == {}

ClosedForm == [phase |-> "closed", kind |-> "user", name |-> EmptyUser, doc |-> EmptyUser, base |-> NobodyYet, own |-> NobodyYet,
           at |-> 0, options |-> NoOptions, picked |-> {}, unpicked |-> {}, dropped |-> {}, hasty |-> {},
           edits |-> 0, crossed |-> FALSE]
-----------------------------------------------------------------------------
\* mergeUserDto: own permissions in the form that the merged view takes.
Listed(order, S) == KeptAt(order, {i \in DOMAIN order : order[i] \in S})

DomainList(domains) ==
    LET s == Listed(DomainOrder, DOMAIN domains) IN [i \in DOMAIN s |-> [id |-> s[i], cls |-> domains[s[i]]]]

TableList(tables) ==
    LET s == Listed(TableOrder, DOMAIN tables) IN [i \in DOMAIN s |-> [id |-> s[i], filters |-> tables[s[i]]]]

AsGroups(S) ==
    LET s == Listed(GroupOrder, S)
    IN [i \in DOMAIN s |-> [id |-> s[i], domains |-> DomainList(GroupData[s[i]].domains),
                            tables |-> TableList(GroupData[s[i]].tables), attrs |-> GroupData[s[i]].attrs]]

AsUser(own) == [domains |-> DomainList(own.domains), tables |-> TableList(own.tables),
                attrs |-> own.attrs, all |-> own.all, groups |-> AsGroups(own.groups)]

Merged(own)       == MergeDomains(AsUser(own))
MergedTables(own) == MergeTables(AsUser(own))
MergedAttrs(own)  == MergeAttributes(AsUser(own))

OnlyDirect(sources) == sources = {Direct}
HasDirect(sources)  == Direct \in sources

\* A group gives the value; a boolean counts only when it is on.
FromGroup(own, t, k, v) ==
    \E g \in own.groups : /\ t \in DOMAIN GroupData[g].tables
                          /\ v \in GroupData[g].tables[t][k]
                          /\ k \in BoolKods => v = 1

OwnValue(own, t, k, v) == t \in DOMAIN own.tables /\ v \in own.tables[t][k]

\* calcUserDiff, getDomainsDiffClient, getPermissionTablesDiffClient.
MergedDomainList(own) ==
    LET m == Merged(own) IN DomainList([d \in DOMAIN m |-> DOMAIN m[d].cls])

FilterList(filters) == [j \in DOMAIN KodOrder |-> [kod |-> KodOrder[j], values |-> filters[KodOrder[j]]]]

MergedTableList(own) ==
    LET m == TableList(MergedTables(own))
    IN [i \in DOMAIN m |-> [id |-> m[i].id, filters |-> FilterList(m[i].filters)]]

\* Mutant: a permission table that is there before and after is not compared.
IsUserChangedNewTables(f) ==
    \/ f.doc = EmptyUser
    \/ MergedAttrs(f.base) # MergedAttrs(f.own)
    \/ DomainsDiff(MergedDomainList(f.base), MergedDomainList(f.own), TRUE) # <<>>
    \/ DOMAIN MergedTables(f.base) # DOMAIN MergedTables(f.own)
    \/ FlatGroups(f.base.groups, f.own.groups) # {}
    \/ f.base.all # f.own.all

\* isUserChanged.  The attributes of a new user always count as changed.
IsUserChanged(f) ==
    \/ f.doc = EmptyUser
    \/ MergedAttrs(f.base) # MergedAttrs(f.own)
    \/ DomainsDiff(MergedDomainList(f.base), MergedDomainList(f.own), TRUE) # <<>>
    \/ TablesDiff(MergedTableList(f.base), MergedTableList(f.own)) # <<>>
    \/ FlatGroups(f.base.groups, f.own.groups) # {}
    \/ f.base.all # f.own.all

\* isDataPermissionsChanged, of the merged form that formatPermissionGroupDataPermissions
\* gives a group: every permission is direct.
Ungrouped(own) == [own EXCEPT !.groups = {}]

IsDataPermissionsChanged(f) == IsUserChanged([f EXCEPT !.base = Ungrouped(f.base), !.own = Ungrouped(f.own)])
-----------------------------------------------------------------------------
\* The bounds of the steps that are counted.  A crossing is a second lookup under way,
\* or new permissions of a group under the edits of its form.
Steps    == form.edits + writes + failures + (IF form.crossed THEN 1 ELSE 0)
MayEditForm  == form.edits < MaxUserEdits /\ Steps < MaxUserSteps
MayWrite == writes < MaxUserWrites /\ Steps < MaxUserSteps
MayFail  == failures < MaxUserFaults /\ Steps < MaxUserSteps

FormInit ==
    /\ stored \in FirstUsers /\ shown = stored
    /\ waiting = {}
    /\ form = ClosedForm
    /\ writes = 0 /\ failures = 0

\* The card of a user of the list.
OpenEdit(u) ==
    /\ form.phase = "closed" /\ u \in DOMAIN shown /\ waiting = {}
    /\ form' = [ClosedForm EXCEPT !.phase = "open", !.name = u, !.doc = u, !.base = shown[u], !.own = shown[u],
                                  !.at = IF shown = stored THEN writes ELSE MaxUserWrites + 1]
    /\ UNCHANGED <<stored, shown, waiting, writes, failures>>

\* The tab of a group's permissions.
OpenGroup(g) ==
    /\ form.phase = "closed" /\ g \in DOMAIN shown /\ waiting = {}
    /\ form' = [ClosedForm EXCEPT !.phase = "open", !.kind = "group", !.name = g, !.doc = g,
                             !.base = shown[g], !.own = shown[g],
                             !.at = IF shown = stored THEN writes ELSE MaxUserWrites + 1]
    /\ UNCHANGED <<stored, shown, waiting, writes, failures>>

\* The button for a new user.
OpenNew ==
    /\ form.phase = "closed" /\ waiting = {}
    /\ form' = [ClosedForm EXCEPT !.phase = "search"]
    /\ UNCHANGED <<stored, shown, waiting, writes, failures>>

\* handleChangeUser: the search stays open until the answer, so that another user can
\* be selected meanwhile.
SelectUser(u) ==
    /\ form.phase = "search"
    /\ \A w \in waiting : w.id # u
    /\ waiting' = waiting \cup {[id |-> u, sap |-> FALSE, at |-> 0]}
    /\ form' = [form EXCEPT !.crossed = @ \/ waiting # {}]
    /\ UNCHANGED <<stored, shown, writes, failures>>

\* Mutant: a stored user is added to the form as a new one is.
FoundMerged(f, u) == [f EXCEPT !.phase = "open", !.name = u, !.at = writes, !.own = stored[u]]

\* getUserByUserId answers for a user that is stored.
Found(f, u) == [f EXCEPT !.phase = "open", !.name = u, !.doc = u, !.at = writes,
                         !.base = stored[u], !.own = stored[u]]

AnswerLookup(w) ==
    /\ w \in waiting /\ ~w.sap /\ form.phase \in {"search", "open"}
    /\ IF w.id \in DOMAIN stored
       THEN /\ waiting' = waiting \ {w}
            /\ form' = Found(form, w.id)
       ELSE /\ waiting' = (waiting \ {w}) \cup {[w EXCEPT !.sap = TRUE, !.at = writes]}
            /\ UNCHANGED form
    /\ UNCHANGED <<stored, shown, writes, failures>>

\* getIsUserSapPermittedById answers: the id and the name, whatever user is in the form.
AnswerSap(w) ==
    /\ w \in waiting /\ w.sap /\ form.phase \in {"search", "open"}
    /\ waiting' = waiting \ {w}
    /\ form' = [form EXCEPT !.phase = "open", !.name = w.id, !.at = w.at]
    /\ UNCHANGED <<stored, shown, writes, failures>>

\* In what follows m and mt are the merged domains and permission tables of the form.
FormSubmitted(own, picked, unpicked, hasty) ==
    /\ own # form.own
    /\ form' = [form EXCEPT !.own = own, !.edits = @ + 1,
                            !.picked = (@ \ unpicked) \cup picked,
                            !.unpicked = (@ \ picked) \cup unpicked,
                            !.hasty = @ \cup hasty]
    /\ UNCHANGED <<stored, shown, waiting, writes, failures>>

FormEdited(own, picked, unpicked) == FormSubmitted(own, picked, unpicked, {})

\* handleDeleteDomain.
DeleteDomain(m, d) ==
    /\ d \in DOMAIN m /\ Allowed[d] # {} /\ OnlyDirect(m[d].sources)
    /\ FormEdited([form.own EXCEPT !.domains = [e \in DOMAIN @ \ {d} |-> @[e]]],
              {}, {<<"domain", d>>} \cup {<<"class", d, c>> : c \in Classes})

\* handleAddDomains: domains that are in the view already cannot be chosen.
AddDomains(m, S) ==
    /\ S # {} /\ \A d \in S : Allowed[d] # {} /\ d \notin DOMAIN m
    /\ FormEdited([form.own EXCEPT !.domains = [d \in DOMAIN @ \cup S |-> IF d \in S THEN {} ELSE @[d]]],
              {<<"domain", d>> : d \in S}, {})

\* handleDeleteUserClassifications, by a chip that is not disabled.
DeleteClass(m, d, c) ==
    /\ d \in DOMAIN m /\ c \in DOMAIN m[d].cls /\ c \in Allowed[d] /\ OnlyDirect(m[d].cls[c])
    /\ FormEdited([form.own EXCEPT !.domains = [e \in DOMAIN @ |-> IF e = d THEN @[e] \ {c} ELSE @[e]]],
              {}, {<<"class", d, c>>})

\* Mutant: every checked option is the user's own.
SubmittedAll(options, held, checked) == options \cap checked

\* handleSubmit of AddClassificationsPopup: what only groups give stays theirs.
Submitted(options, held, checked) ==
    {c \in options \cap checked : c \in DOMAIN held => HasDirect(held[c])}

\* handleSaveUserClassifications; a domain that only groups give becomes the user's own.
\* There are no options while they load: nothing can be checked, but the dialog be saved.
EditClasses(m, d, options, flipped) ==
    LET initial == DOMAIN m[d].cls
        checked == (initial \ flipped) \cup (flipped \ initial)
        own     == Submitted(options, m[d].cls, checked)
    IN
    /\ d \in DOMAIN m /\ checked # {}
    /\ \A c \in flipped : c \in options \cap Allowed[d] /\ (c \in initial => OnlyDirect(m[d].cls[c]))
    /\ FormSubmitted([form.own EXCEPT !.domains = [e \in DOMAIN @ \cup {d} |-> IF e = d THEN own ELSE @[e]]],
              {<<"domain", d>>} \cup {<<"class", d, c>> : c \in flipped \ initial},
              {<<"class", d, c>> : c \in flipped \cap initial},
              {<<"class", d, c>> : c \in initial \ options})

\* The permission tables are covered until the options for the domains have arrived.
OptionsKey(m)  == UNION {{d} \X DOMAIN m[d].cls : d \in DOMAIN m}
OptionsCame(m) == form.options = {OptionsKey(m)}

WithValues(own, t, k, values) ==
    [own EXCEPT !.tables = [s \in DOMAIN @ |-> IF s = t THEN [@[s] EXCEPT ![k] = values] ELSE @[s]]]

\* handleDeleteUserRowFilterValue, by a chip that is not disabled.
DeleteValue(t, k, v) ==
    /\ t \in DOMAIN form.own.tables
    /\ k \notin BoolKods /\ v \in form.own.tables[t][k] /\ ~FromGroup(form.own, t, k, v)
    /\ FormEdited(WithValues(form.own, t, k, form.own.tables[t][k] \ {v}), {}, {<<"value", t, k, v>>})

\* handleSubmit of AddRowFilterValuesPopup and setUserRowFilterValues: values that the
\* row filter does not have any more are dropped, and all of them while it loads.
EditValues(mt, t, k, options, flipped) ==
    LET initial == mt[t][k]
        checked == (initial \ flipped) \cup (flipped \ initial)
        own     == {v \in options \cap checked : v \in initial => OwnValue(form.own, t, k, v)}
        gone    == {<<"value", t, k, v>> : v \in initial \ Dimension}
    IN
    /\ k \notin BoolKods /\ checked # {}
    /\ \A v \in flipped : v \in options /\ ~FromGroup(form.own, t, k, v)
    /\ form' = [form EXCEPT
          !.own = WithValues(@, t, k, own), !.edits = @ + 1,
          !.picked = (@ \ {<<"value", t, k, v>> : v \in flipped}) \cup {<<"value", t, k, v>> : v \in flipped \ initial},
          !.unpicked = @ \cup {<<"value", t, k, v>> : v \in flipped \cap initial},
          !.dropped = @ \cup gone,
          !.hasty = @ \cup {<<"value", t, k, v>> : v \in initial \ options}]
    /\ UNCHANGED <<stored, shown, waiting, writes, failures>>

\* The dialog of a boolean: its choices are disabled when a group switches it on, but
\* its save button is not, and makes what is shown the user's own.
EditBoolean(t, k, v) ==
    /\ k \in BoolKods
    /\ FromGroup(form.own, t, k, 1) => v = 1
    /\ FormEdited(WithValues(form.own, t, k, {v}),
              {<<"value", t, k, w>> : w \in {v} \ {0}}, {<<"value", t, k, w>> : w \in {1 - v} \ {0}})

\* The dialogs of the attributes, disabled in the same way.
EditAttribute(a, v) ==
    LET default == IF a = "mask" THEN TRUE ELSE FALSE
        held    == \E g \in form.own.groups : GroupData[g].attrs[a] # default
    IN
    /\ (a \notin MayAttrs \/ held) => v = MergedAttrs(form.own)[a]
    /\ FormEdited([form.own EXCEPT !.attrs = [@ EXCEPT ![a] = v]],
              IF v # default THEN {<<a>>} ELSE {}, IF v = default THEN {<<a>>} ELSE {})

EditReadAll(v) ==
    /\ "all" \in MayAttrs
    /\ FormEdited([form.own EXCEPT !.all = v], IF v THEN {<<"all">>} ELSE {}, IF v THEN {} ELSE {<<"all">>})

\* handleUpdatePermissionsGroups: the popup is covered until their permissions came.
EditGroups(S) ==
    LET flipped == (S \ form.own.groups) \cup (form.own.groups \ S) IN
    /\ flipped \subseteq Editable
    /\ FormEdited([form.own EXCEPT !.groups = S],
              {<<"group", g>> : g \in S \ form.own.groups}, {<<"group", g>> : g \in form.own.groups \ S})

\* getPermissionTablesOptions.
Offered(m) == {t \in PermissionTables : Needs[t] \cap OptionsKey(m) # {}}

DefaultFilters == [k \in Kods |-> IF k \in BoolKods THEN {0} ELSE {}]

\* The own tables, and the values that go with those that are not offered any more.
OfferedTables(old, offered) == [t \in offered |-> IF t \in DOMAIN old THEN old[t] ELSE DefaultFilters]

GoneValues(old, offered) ==
    UNION {{<<"value", t, k, v>> : k \in Kods, v \in UNION {old[t][j] : j \in Kods}} : t \in DOMAIN old \ offered}

\* The effect of UserPermissionTables, when the options for the domains arrive while
\* its tab is open: own tables that are not offered go, offered ones are added.
OptionsArrive ==
    LET m       == Merged(form.own)
        offered == Offered(m)
        old     == form.own.tables
    IN
    /\ form.phase = "open" /\ ~OptionsCame(m)
    /\ form' = [form EXCEPT
          !.options = {OptionsKey(m)},
          !.own = [@ EXCEPT !.tables = OfferedTables(old, offered)],
          !.dropped = @ \cup GoneValues(old, offered)]
    /\ UNCHANGED <<stored, shown, waiting, writes, failures>>

\* SaveDataPermissionsPopup has a warning instead for nobody, and for a user without domains.
CanSaveUser(f) == IsUserChanged(f) /\ f.name # EmptyUser /\ DOMAIN Merged(f.own) # {}

\* handleSaveUser.
SaveUser ==
    /\ form.phase = "open" /\ form.kind = "user" /\ CanSaveUser(form)
    /\ form' = [form EXCEPT !.phase = "saving"]
    /\ UNCHANGED <<stored, shown, waiting, writes, failures>>

\* handleSaveGroupDataPermissions.
SaveGroup ==
    /\ form.phase = "open" /\ form.kind = "group" /\ IsDataPermissionsChanged(form)
    /\ form' = [form EXCEPT !.phase = "saving"]
    /\ UNCHANGED <<stored, shown, waiting, writes, failures>>

CancelForm ==
    /\ form.phase \in {"search", "open"}
    /\ form' = ClosedForm
    /\ waiting' = {}
    /\ UNCHANGED <<stored, shown, writes, failures>>

PutUser(f, u, own) == [v \in DOMAIN f \cup {u} |-> IF v = u THEN own ELSE f[v]]

\* createUser for a new user, else editUser of the document in the form.
Saved(f) == IF f.doc = EmptyUser THEN f.name ELSE f.doc

\* The server handles the save: a user that is stored cannot be created, one that is
\* not cannot be edited.  The list takes the answer.
DeliverUser ==
    LET u == Saved(form) IN
    /\ form.phase = "saving" /\ form.kind = "user" /\ MayWrite
    /\ IF (form.doc = EmptyUser) = (u \notin DOMAIN stored)
       THEN /\ stored' = PutUser(stored, u, form.own)
            /\ shown' = IF form.doc = EmptyUser \/ u \in DOMAIN shown THEN PutUser(shown, u, form.own) ELSE shown
            /\ writes' = writes + 1
       ELSE UNCHANGED <<stored, shown, writes>>
    /\ form' = ClosedForm /\ waiting' = {}
    /\ UNCHANGED failures

\* The answer is what the form is compared with from now on.
DeliverGroup ==
    /\ form.phase = "saving" /\ form.kind = "group" /\ MayWrite
    /\ form.doc \in DOMAIN stored
    /\ stored' = PutUser(stored, form.doc, form.own)
    /\ shown' = PutUser(shown, form.doc, form.own)
    /\ writes' = writes + 1
    /\ form' = [form EXCEPT !.phase = "open", !.base = form.own, !.at = writes + 1,
                            !.picked = {}, !.unpicked = {}, !.dropped = {}, !.hasty = {}]
    /\ UNCHANGED <<waiting, failures>>

\* The group is asked for again, after a save of its form or of its details: what the
\* form is compared with changes, what is in the form does not.
RefreshGroup ==
    /\ form.phase = "open" /\ form.kind = "group" /\ form.doc \in DOMAIN stored
    /\ shown' = PutUser(shown, form.doc, stored[form.doc])
    /\ shown' # shown
    /\ form' = [form EXCEPT !.base = stored[form.doc], !.at = writes, !.crossed = TRUE]
    /\ UNCHANGED <<stored, waiting, writes, failures>>

\* A request fails: a search goes on, a save closes the popup of a user.
LoseAnswer ==
    /\ form.phase \in {"search", "saving"} /\ MayFail
    /\ form.phase = "search" => waiting # {}
    /\ form' = CASE form.phase = "search" -> form
                 [] form.kind = "group"    -> [form EXCEPT !.phase = "open"]
                 [] OTHER                  -> ClosedForm
    /\ waiting' = {}
    /\ failures' = failures + 1
    /\ UNCHANGED <<stored, shown, writes>>

\* The list is asked for again: after a save, or when its page is opened.
RefetchUsers ==
    /\ form.phase = "closed" /\ shown # stored
    /\ shown' = stored
    /\ UNCHANGED <<stored, waiting, form, writes, failures>>

\* handleConfirmDelete of a card: removeUserFromCache.
DeleteUser(u) ==
    /\ form.phase = "closed" /\ u \in DOMAIN shown /\ MayWrite
    /\ stored' = [v \in DOMAIN stored \ {u} |-> stored[v]]
    /\ shown' = [v \in DOMAIN shown \ {u} |-> shown[v]]
    /\ writes' = writes + 1
    /\ UNCHANGED <<waiting, form, failures>>

\* Another manager saves or deletes a user.
UserElsewhere(u, other) ==
    /\ MayWrite
    /\ stored' = IF u \in DOMAIN other THEN PutUser(stored, u, other[u])
                                       ELSE [v \in DOMAIN stored \ {u} |-> stored[v]]
    /\ stored' # stored
    /\ writes' = writes + 1
    /\ UNCHANGED <<shown, waiting, form, failures>>

EditDomains ==
    LET m == Merged(form.own) IN
    \/ \E d \in Domains : DeleteDomain(m, d)
    \/ \E S \in SUBSET Domains : AddDomains(m, S)
    \/ \E d \in Domains, c \in Classes : DeleteClass(m, d, c)
    \/ \E d \in DOMAIN m : \E options \in {{}, Catalog[d]} : \E flipped \in SUBSET options :
          EditClasses(m, d, options, flipped)

EditTables ==
    LET mt == MergedTables(form.own) IN
    /\ OptionsCame(Merged(form.own))
    /\ \/ \E t \in PermissionTables, k \in Kods, v \in Values : DeleteValue(t, k, v)
       \/ \E t \in DOMAIN mt, k \in Kods, options \in {{}, Dimension} : \E flipped \in SUBSET options :
             EditValues(mt, t, k, options, flipped)
       \/ \E t \in DOMAIN mt, k \in Kods, v \in {0, 1} : EditBoolean(t, k, v)

EditIndications == \E a \in {"mask", "deceased"}, v \in BOOLEAN : EditAttribute(a, v)

EditUser ==
    \/ EditIndications
    \/ \E v \in BOOLEAN : EditReadAll(v)
    \/ \E S \in SUBSET UserGroups : EditGroups(S)

EditUserForm ==
    /\ form.phase = "open" /\ form.kind = "user" /\ MayEditForm
    /\ EditDomains \/ EditTables \/ EditUser

\* The handlers of DataPermissionsForm.
EditGroupForm ==
    /\ form.phase = "open" /\ form.kind = "group" /\ MayEditForm
    /\ EditDomains \/ EditTables \/ EditIndications

FormNext ==
    \/ \E u \in UserIds : OpenEdit(u) \/ SelectUser(u) \/ DeleteUser(u)
    \/ \E g \in Forms : OpenGroup(g)
    \/ OpenNew
    \/ \E w \in waiting : AnswerLookup(w) \/ AnswerSap(w)
    \/ EditUserForm
    \/ EditGroupForm
    \/ OptionsArrive
    \/ SaveUser
    \/ SaveGroup
    \/ CancelForm
    \/ DeliverUser
    \/ DeliverGroup
    \/ RefreshGroup
    \/ LoseAnswer
    \/ RefetchUsers
    \/ \E u \in UserIds \cup Forms, other \in FirstUsers : UserElsewhere(u, other)

FormSpec == FormInit /\ [][FormNext]_formVars
-----------------------------------------------------------------------------
(***************************************************************************)
(* Properties.                                                             *)
(***************************************************************************)

\* What own permissions give, apart from empty tables and booleans that are off.
Atoms(own) ==
    {<<"domain", d>> : d \in DOMAIN own.domains}
    \cup (UNION {{<<"class", d, c>> : c \in own.domains[d]} : d \in DOMAIN own.domains})
    \cup (UNION {UNION {{<<"value", t, k, v>> : v \in own.tables[t][k] \ {0}} : k \in Kods} : t \in DOMAIN own.tables})
    \cup {<<"group", g>> : g \in own.groups}
    \cup (IF own.attrs.mask THEN {} ELSE {<<"mask">>})
    \cup (IF own.attrs.deceased THEN {<<"deceased">>} ELSE {})
    \cup (IF own.all THEN {<<"all">>} ELSE {})

\* What a save adds to the user's own permissions somebody chose in a dialog, and what
\* it takes away somebody removed there, or it was a table that the domains do not
\* offer any more or a value that its row filter does not have any more.  So nothing
\* that groups give becomes the user's own, although the dialogs show it merged.  One
\* loss nobody chose is excepted, as the code allows it: a dialog that is saved before
\* its options came takes all that its domain or row filter had (hasty).  And so is a
\* form under whose edits what it is compared with was replaced.
OnlyPicks ==
    form.phase \in {"open", "saving"} /\ ~form.crossed =>
       /\ Atoms(form.own) \ Atoms(form.base) \subseteq form.picked
       /\ Atoms(form.base) \ Atoms(form.own) \subseteq form.unpicked \cup form.dropped \cup form.hasty

Effective(own) == <<DomainsDict(AsUser(own)), MergedTables(own), MergedAttrs(own), own.all, own.groups>>

\* An edit that changes what the user may see, or its groups, can be saved, unless it
\* leaves a user without any domain.
ChangeSavable ==
    form.phase = "open" /\ Effective(form.own) # Effective(form.base) =>
       IF form.kind = "group" THEN IsDataPermissionsChanged(form)
       ELSE DOMAIN Merged(form.own) # {} => CanSaveUser(form)

\* A save goes to the user whose name the popup shows, and creates it only if it is not
\* stored, as far as nobody wrote users since it was looked up.  Two lookups at once are
\* the exception: the id of the second user may be shown over the document of the first.
SavesTheNamed ==
    form.phase = "saving" /\ ~form.crossed =>
       /\ form.doc \in {EmptyUser, form.name}
       /\ form.at = writes => (form.doc = EmptyUser) = (form.name \notin DOMAIN stored)
\* It can save what changes somebody's rights, and saves it to the one it names.
NamedChangeSaved == ChangeSavable /\ SavesTheNamed
=============================================================================
