------------------------------ MODULE GroupScreen ------------------------------
(***************************************************************************)
(* The screen of the permission groups in the browser of one person, Me    *)
(* (shield-client, PermissionGroups.tsx, ManagePermissionGroup.tsx and     *)
(* EditPermissionGroupsPopup.tsx): the cached list, the dialog for a new   *)
(* group, the deletion of a group, and the form of a group's name, owner   *)
(* and co-owners.                                                          *)
(*                                                                         *)
(* The form starts from the row of the list and sends every field.  The    *)
(* server checks only that Me may change details (PermissionGroups has its *)
(* interleavings; a request is one step here): that a co-owner neither     *)
(* passes the group on nor dismisses another is up to the form.            *)
(*                                                                         *)
(* Other people change the groups as well.  changes counts what was        *)
(* changed, so that what the browser shows can be dated.                   *)
(***************************************************************************)
EXTENDS Naturals, FiniteSets

CONSTANTS
    People,
    Me,             \* who sits at the browser
    GroupIds,       \* permission groups
    Names,          \* their names
    Blank,          \* the user of a new row of the co-owners' selector, and no name
    NoOne,
    FirstGroups,    \* what may be stored at first: functions from some of GroupIds
    Others,         \* what somebody else may make of a group: some of Groups
    MaxGroupEdits,  \* bound: edits in forms
    MaxCalls,       \* bound: requests under way
    MaxGroupWrites, \* bound: changes of the groups
    MaxGroupFaults, \* bound: requests and answers that are lost
    MaxGroupSteps   \* bound: edits, changes and losses altogether

Group == [name : Names, owner : People, co : SUBSET People]

ASSUME GroupScreenAssumption ==
    /\ Me \in People /\ {Blank, NoOne} \cap (People \cup GroupIds \cup Names) = {}
    /\ \A f \in FirstGroups : DOMAIN f \subseteq GroupIds /\ f \in [DOMAIN f -> Group]
    /\ Others \subseteq Group
    /\ {MaxGroupEdits, MaxCalls, MaxGroupWrites, MaxGroupFaults, MaxGroupSteps} \subseteq Nat

VARIABLES
    groups,       \* the permission groups of the server: some of GroupIds -> [name, owner, co]
    used,         \* the ids given so far
    groupList,    \* the cached list: [rows, at, sure]
    groupFetch,   \* [asked, got]: the list is asked for; got holds one on its way
    selected,     \* the group whose popup is open, or was open last
    details,      \* the form of the details
    groupRights,  \* [GroupIds -> what the browser has cached of Me's rights]
    calls,        \* requests under way
    changes,      \* changes of the groups so far
    acknowledged, \* the last of them that was an addition or edit of Me with an answer
    typed,        \* edits in forms so far
    lost          \* requests and answers lost so far

groupVars == <<groups, used, groupList, groupFetch, selected, details, groupRights, calls,
               changes, acknowledged, typed, lost>>

NotAsked  == [asked |-> FALSE, got |-> {}]
ListAsked == [asked |-> TRUE, got |-> {}]

\* A row of the list, and the rows of a list.
GroupRow == [name : Names \cup {Blank}, owner : People \cup {NoOne}, co : SUBSET People, deletable : BOOLEAN]
Listings == UNION {[D -> GroupRow] : D \in SUBSET GroupIds}

\* A group that was just created has no more than an id.
Stub == [name |-> Blank, owner |-> NoOne, co |-> {}, deletable |-> FALSE]

NoForm == [open |-> FALSE, g |-> NoOne, seen |-> Stub, name |-> Blank, owner |-> NoOne, co |-> {},
           twice |-> NoOne, passed |-> FALSE, asOwner |-> FALSE, moved |-> FALSE]
-----------------------------------------------------------------------------
\* getLoggedUserGroupPermissions: the relations of a permission group in shield.fga.
Role(g) ==
    IF g \notin DOMAIN groups THEN "none"
    ELSE IF groups[g].owner = Me THEN "owner"
    ELSE IF Me \in groups[g].co THEN "co_owner" ELSE "none"

OwnerRights(g)  == groupRights[g] = "owner"
DetailRights(g) == groupRights[g] \in {"owner", "co_owner"}

\* getPermissionGroups.
Listing == [g \in DOMAIN groups |->
               [name |-> groups[g].name, owner |-> groups[g].owner, co |-> groups[g].co,
                deletable |-> Role(g) = "owner"]]

RowOf(g) == groupList.rows[g]
Put(f, g, x) == [h \in DOMAIN f \cup {g} |-> IF h = g THEN x ELSE f[h]]

\* Mutant: an answer that is on its way is welcome.
InvalidatedLazy ==
    /\ groupFetch' = IF groupFetch = NotAsked THEN ListAsked ELSE groupFetch
    /\ groupRights' = [g \in GroupIds |-> "unknown"]

\* invalidateQueries of "permissionGroups", which is the prefix of the keys of the rights.
Invalidated ==
    /\ groupFetch' = ListAsked
    /\ groupRights' = [g \in GroupIds |-> "unknown"]

\* The popup of a group and its form are there while the list has the group.
Seen(rows, f) ==
    IF f.open /\ f.g \notin DOMAIN rows THEN NoForm
    ELSE [f EXCEPT !.moved = @ \/ (f.open /\ rows[f.g] # f.seen)]

Show(rows, at, sure) ==
    /\ groupList' = [rows |-> rows, at |-> at, sure |-> sure]
    /\ details' = Seen(rows, details)
-----------------------------------------------------------------------------
\* The bounds of the steps that are counted.
MayEdit   == typed < MaxGroupEdits /\ typed + changes + lost < MaxGroupSteps
MayChange == changes < MaxGroupWrites /\ typed + changes + lost < MaxGroupSteps
MayLose   == lost < MaxGroupFaults /\ typed + changes + lost < MaxGroupSteps

GroupInit ==
    /\ groups \in FirstGroups /\ used = DOMAIN groups
    /\ groupList = [rows |-> Listing, at |-> 0, sure |-> TRUE]
    /\ groupFetch = NotAsked
    /\ selected = NoOne /\ details = NoForm
    /\ groupRights = [g \in GroupIds |-> "unknown"]
    /\ calls = {}
    /\ changes = 0 /\ acknowledged = 0 /\ typed = 0 /\ lost = 0

\* The popup of a group, and its form: useForm takes the row as it is.  The rights are
\* asked for when the browser has none, and kept until an invalidation.
OpenForm(g) ==
    /\ ~details.open /\ g \in DOMAIN groupList.rows
    /\ selected' = g
    /\ details' = [NoForm EXCEPT !.open = TRUE, !.g = g, !.seen = RowOf(g), !.name = RowOf(g).name,
                              !.owner = RowOf(g).owner, !.co = RowOf(g).co]
    /\ groupRights' = [groupRights EXCEPT ![g] = IF @ = "unknown" THEN Role(g) ELSE @]
    /\ UNCHANGED <<groups, used, groupList, groupFetch, calls, changes, acknowledged, lost, typed>>

EditedDetails(f) ==
    /\ details.open /\ MayEdit
    /\ typed' = typed + 1
    /\ details' = [f EXCEPT !.asOwner = @ \/ OwnerRights(details.g)]
    /\ details' # details
    /\ UNCHANGED <<groups, used, groupList, groupFetch, selected, groupRights, calls, changes, acknowledged, lost>>

Rename(n) == DetailRights(details.g) /\ EditedDetails([details EXCEPT !.name = n])

\* Mutant: the owner who passes the group on is not kept as a co-owner.
WithOwnerForgotten(f, u) ==
    [f EXCEPT !.owner = u, !.co = @ \ {u}, !.passed = f.owner = Me /\ u # Me /\ u \notin f.co]

\* onUserSelect of the owner, or NoOne.  The co-owners that are filtered are those that
\* were there before: when the new owner was one of them, the old one is not added.
WithOwner(f, u) ==
    LET passes == f.owner = Me /\ u # Me IN
    [f EXCEPT !.owner = u,
              !.co = IF u \in @ THEN @ \ {u} ELSE IF passes THEN @ \cup {Me} ELSE @,
              !.twice = IF @ = u THEN NoOne ELSE @,
              !.passed = IF passes THEN u \notin f.co ELSE @ /\ u # Me]

ChooseOwner(u) == OwnerRights(details.g) /\ EditedDetails(WithOwner(details, u))

\* What MultiUserSelector is given: the co-owners of the row stay, for whom may not
\* dismiss any.
ShownCoOwners == IF OwnerRights(details.g) THEN details.co ELSE RowOf(details.g).co \cup details.co
Protected     == IF OwnerRights(details.g) THEN {} ELSE RowOf(details.g).co

\* Mutant: only the button that removes a co-owner is disabled.
SelectableAll == ShownCoOwners

\* The entries in which somebody else can be selected.
Selectable == ShownCoOwners \ Protected

WithCoOwners(co, twice, by) ==
    EditedDetails([details EXCEPT !.co = co, !.twice = twice, !.passed = @ /\ by # Me])

AddEntry == /\ DetailRights(details.g) /\ Blank \notin ShownCoOwners
            /\ WithCoOwners(ShownCoOwners \cup {Blank}, NoOne, NoOne)

SelectCoOwner(old, u) ==
    /\ old \in Selectable /\ u # old
    /\ WithCoOwners((ShownCoOwners \ {old}) \cup {u}, IF u \in ShownCoOwners THEN u ELSE NoOne, old)

RemoveEntry(old) ==
    /\ old \in ShownCoOwners \ Protected
    /\ WithCoOwners(ShownCoOwners \ {old}, NoOne, old)

CloseForm ==
    /\ details.open
    /\ details' = NoForm
    /\ UNCHANGED <<groups, used, groupList, groupFetch, selected, groupRights, calls, changes, acknowledged, lost, typed>>

Calling(kind) == Cardinality(calls) >= MaxCalls \/ \E c \in calls : c.kind = kind

\* The save button and PermissionGroupFormSchema.
Submittable ==
    /\ DetailRights(details.g)
    /\ Blank \notin details.co /\ details.owner # NoOne /\ details.name # Blank
    /\ details.owner \notin details.co /\ details.twice = NoOne

\* sumbitEditPermissionGroup: the form is closed at once.
SubmitForm ==
    /\ details.open /\ ~Calling("edit") /\ Submittable
    /\ calls' = calls \cup {[kind |-> "edit", state |-> "sent", g |-> details.g, at |-> 0,
                             row |-> RowOf(details.g), form |-> details]}
    /\ details' = NoForm
    /\ UNCHANGED <<groups, used, groupList, groupFetch, selected, groupRights, changes, acknowledged, lost, typed>>

\* addRow: a name that the list has is refused without asking.
Add(n) ==
    /\ ~Calling("add")
    /\ \A g \in DOMAIN groupList.rows : RowOf(g).name # n
    /\ calls' = calls \cup {[kind |-> "add", state |-> "sent", g |-> NoOne, at |-> 0,
                             row |-> IF selected \in DOMAIN groupList.rows THEN RowOf(selected) ELSE Stub,
                             form |-> [NoForm EXCEPT !.name = n]]}
    /\ UNCHANGED <<groups, used, groupList, groupFetch, selected, details, groupRights, changes, acknowledged, lost, typed>>

\* deleteRow.
Delete(g) ==
    /\ ~details.open /\ ~Calling("delete") /\ g \in DOMAIN groupList.rows /\ RowOf(g).deletable
    /\ calls' = calls \cup {[kind |-> "delete", state |-> "sent", g |-> g, at |-> 0, row |-> Stub, form |-> NoForm]}
    /\ selected' = g
    /\ UNCHANGED <<groups, used, groupList, groupFetch, details, groupRights, changes, acknowledged, lost, typed>>
-----------------------------------------------------------------------------
NameFree(n, g) == \A h \in DOMAIN groups \ {g} : groups[h].name # n

\* assertCanUpdatePermissionGroup, the unique name, can_delete_permission_group.
Accepted(c) ==
    CASE c.kind = "add"    -> NameFree(c.form.name, NoOne) /\ used # GroupIds
      [] c.kind = "edit"   -> Role(c.g) # "none" /\ NameFree(c.form.name, c.g)
      [] c.kind = "delete" -> Role(c.g) = "owner"

Answered(c, g, state) == calls' = (calls \ {c}) \cup {[c EXCEPT !.state = state, !.g = g, !.at = changes', !.form = NoForm]}

\* createPermissionGroup, editPermissionGroupDetailsById, deletePermissionGroupById.
Serve(c) ==
    /\ c.state = "sent" /\ MayChange
    /\ \/ /\ ~Accepted(c)
          /\ UNCHANGED <<groups, used, changes>>
          /\ Answered(c, c.g, "failed")
       \/ /\ Accepted(c)
          /\ changes' = changes + 1
          /\ \E g \in IF c.kind = "add" THEN GroupIds \ used ELSE {c.g} :
                /\ used' = used \cup {g}
                /\ groups' =
                      CASE c.kind = "add"    -> Put(groups, g, [name |-> c.form.name, owner |-> Me, co |-> {}])
                        [] c.kind = "edit"   -> Put(groups, g, [name |-> c.form.name, owner |-> c.form.owner, co |-> c.form.co])
                        [] c.kind = "delete" -> [h \in DOMAIN groups \ {g} |-> groups[h]]
                /\ Answered(c, g, "done")
    /\ UNCHANGED <<groupList, groupFetch, selected, details, groupRights, acknowledged, lost, typed>>

LoseCall(c) ==
    /\ c.state \in {"sent", "done"} /\ MayLose
    /\ calls' = (calls \ {c}) \cup {[c EXCEPT !.state = "failed", !.form = NoForm]}
    /\ lost' = lost + 1
    /\ UNCHANGED <<groups, used, groupList, groupFetch, selected, details, groupRights, changes, acknowledged, typed>>

\* A new row is a copy of the one that was selected, with the new id; the row that was
\* edited becomes again what it was when it was submitted.
Optimistic(c) ==
    IF c.state = "failed" \/ (c.kind = "edit" /\ c.g \notin DOMAIN groupList.rows)
    THEN groupList.rows ELSE Put(groupList.rows, c.g, c.row)

\* Both ask for the list again, and the first closes whatever popup is open.
AnswerWrite(c) ==
    /\ c.kind \in {"add", "edit"} /\ c.state \in {"done", "failed"}
    /\ groupList' = [rows |-> Optimistic(c), at |-> groupList.at, sure |-> FALSE]
    /\ details' = IF c.kind = "add" THEN NoForm ELSE Seen(Optimistic(c), details)
    /\ selected' = IF c.kind = "add" THEN NoOne ELSE selected
    /\ acknowledged' = IF c.state = "done" /\ c.at > acknowledged THEN c.at ELSE acknowledged
    /\ Invalidated
    /\ calls' = calls \ {c}
    /\ UNCHANGED <<groups, used, changes, lost, typed>>

\* The deletion does not ask for the list again.
AnswerDelete(c) ==
    /\ c.kind = "delete" /\ c.state \in {"done", "failed"}
    /\ IF c.state = "done"
       THEN Show([g \in DOMAIN groupList.rows \ {c.g} |-> RowOf(g)],
                 IF groupList.at = c.at - 1 THEN c.at ELSE groupList.at, groupList.sure)
       ELSE UNCHANGED <<groupList, details>>
    /\ calls' = calls \ {c}
    /\ UNCHANGED <<groups, used, groupFetch, selected, groupRights, changes, acknowledged, lost, typed>>

ServeGroups ==
    /\ groupFetch = ListAsked
    /\ groupFetch' = [NotAsked EXCEPT !.got = {[rows |-> Listing, at |-> changes]}]
    /\ UNCHANGED <<groups, used, groupList, selected, details, groupRights, calls, changes, acknowledged, lost, typed>>

ShowGroups ==
    /\ \E l \in groupFetch.got : Show(l.rows, l.at, TRUE)
    /\ groupFetch' = NotAsked
    /\ UNCHANGED <<groups, used, selected, groupRights, calls, changes, acknowledged, lost, typed>>

\* The rows stay, optimistic ones included.
LoseGroups ==
    /\ groupFetch # NotAsked /\ MayLose
    /\ groupFetch' = NotAsked
    /\ acknowledged' = 0
    /\ lost' = lost + 1
    /\ UNCHANGED <<groups, used, groupList, selected, details, groupRights, calls, changes, typed>>

\* Somebody else edits or deletes a group.
OtherEdits(g, x) ==
    /\ MayChange /\ g \in DOMAIN groups
    /\ x # groups[g] /\ x.owner \notin x.co /\ NameFree(x.name, g)
    /\ groups' = Put(groups, g, x)
    /\ changes' = changes + 1
    /\ UNCHANGED <<used, groupList, groupFetch, selected, details, groupRights, calls, acknowledged, lost, typed>>

OtherDeletes(g) ==
    /\ MayChange /\ g \in DOMAIN groups
    /\ groups' = [h \in DOMAIN groups \ {g} |-> groups[h]]
    /\ changes' = changes + 1
    /\ UNCHANGED <<used, groupList, groupFetch, selected, details, groupRights, calls, acknowledged, lost, typed>>

EditForm ==
    \/ \E n \in Names : Rename(n)
    \/ \E u \in People \cup {NoOne} : ChooseOwner(u)
    \/ AddEntry
    \/ \E old \in ShownCoOwners, u \in People \cup {Blank} : SelectCoOwner(old, u)
    \/ \E old \in ShownCoOwners : RemoveEntry(old)

GroupNext ==
    \/ \E g \in GroupIds : OpenForm(g) \/ Delete(g) \/ OtherDeletes(g)
    \/ details.open /\ EditForm
    \/ CloseForm
    \/ SubmitForm
    \/ \E n \in Names : Add(n)
    \/ \E c \in calls : Serve(c) \/ LoseCall(c) \/ AnswerWrite(c) \/ AnswerDelete(c)
    \/ ServeGroups
    \/ ShowGroups
    \/ LoseGroups
    \/ \E g \in GroupIds, x \in Others : OtherEdits(g, x)

GroupSpec == GroupInit /\ [][GroupNext]_groupVars
-----------------------------------------------------------------------------
(***************************************************************************)
(* Properties.                                                             *)
(***************************************************************************)

\* The groups, the list that is shown or on its way, the form and the requests are of the
\* forms that the handlers take them to be; of each kind one request at most is under way.
DetailsForm ==
    [open : BOOLEAN, g : GroupIds \cup {NoOne}, seen : GroupRow, name : Names \cup {Blank},
     owner : People \cup {NoOne}, co : SUBSET (People \cup {Blank}), twice : People \cup {Blank, NoOne},
     passed : BOOLEAN, asOwner : BOOLEAN, moved : BOOLEAN]

GroupCall ==
    [kind : {"add", "edit", "delete"}, state : {"sent", "done", "failed"}, g : GroupIds \cup {NoOne},
     at : Nat, row : GroupRow, form : DetailsForm]

GroupTypeOK ==
    /\ used \subseteq GroupIds /\ DOMAIN groups \subseteq used /\ groups \in [DOMAIN groups -> Group]
    /\ groupList \in [rows : Listings, at : Nat, sure : BOOLEAN]
    /\ groupFetch \in [asked : BOOLEAN, got : SUBSET [rows : Listings, at : Nat]]
    /\ selected \in GroupIds \cup {NoOne}
    /\ details \in DetailsForm
    /\ groupRights \in [GroupIds -> {"unknown", "none", "co_owner", "owner"}]
    /\ calls \subseteq GroupCall
    /\ \A c, d \in calls : c.kind = d.kind => c = d
    /\ {changes, acknowledged, typed, lost} \subseteq Nat

\* When no list is on its way, the one shown is no older than the last addition or edit
\* of Me that was acknowledged, and a list that shows the last change shows all as it is.
ListSettles ==
    groupFetch = NotAsked =>
       /\ groupList.at >= acknowledged
       /\ groupList.at = changes /\ groupList.sure =>
             [g \in DOMAIN groupList.rows |-> [RowOf(g) EXCEPT !.deletable = TRUE]]
                = [g \in DOMAIN groups |-> [Listing[g] EXCEPT !.deletable = TRUE]]

\* The owner who passes a group on to somebody who was not its co-owner becomes one,
\* unless it is taken out by hand, through any other choice in the form.
PassedOnStays == \A c \in calls : c.kind = "edit" /\ c.form.passed => Me \in c.form.co

\* A co-owner who sees the group as it is neither passes it on nor dismisses a co-owner,
\* which the server would accept.
CoOwnerKeeps ==
    \A c \in calls :
       /\ c.kind = "edit" /\ c.state = "sent"
       /\ ~c.form.asOwner /\ ~c.form.moved
       /\ c.g \in DOMAIN groups
       => c.form.seen.owner = c.form.owner /\ c.form.seen.co \subseteq c.form.co

\* The list of the groups settles on what the server has, and the form of a group's
\* details loses no owner behind the back of its user.
GroupsKept == GroupTypeOK /\ ListSettles /\ PassedOnStays /\ CoOwnerKeeps
=============================================================================
