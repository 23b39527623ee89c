------------------------------ MODULE UserViews ------------------------------
(***************************************************************************)
(* The users, and the edits of users, whose permissions are shown: what    *)
(* UserPermissions states of every one of them, as an invariant.  A state  *)
(* is one of them, and nothing happens to it.                              *)
(***************************************************************************)
EXTENDS UserPermissions

CONSTANTS
    GroupIds,         \* ids of permission groups
    PermissionTables, \* ids of permission tables
    FilterValues      \* values of row filters

VARIABLE input

TableEntry == [id : PermissionTables, filters : [Kods -> SUBSET FilterValues]]

UserRecords == Holders(DomainEntry, TableEntry, GroupIds)

\* A user whose merged view is shown, one whose rows are filtered, and an edit whose
\* preview is shown.
UserInputs ==
    [kind : {"view", "rows"}, user : UserRecords]
    \cup [kind : {"preview"}, old : UserRecords, user : UserRecords]

ViewsSpec == input \in UserInputs /\ [][UNCHANGED input]_input
-----------------------------------------------------------------------------
\* Whoever is shown is a user with groups.
InputsAreUsers == input.kind \in {"view", "rows", "preview"} => input \in UserInputs

\* Every user: what the merged view shows of its domains is what the dictionary
\* holds, with the right sources.
MergedViewEnforced == input.kind = "view" => ViewIsEnforced(input.user)

\* Every user with groups: they take no row away that ought to stay.
RowsKept == input.kind = "rows" => \A row \in [Kods -> FilterValues] : GroupsAddRows(input.user, row)

\* Every edit of domains: the two previews of it agree.
PreviewsConsistent == input.kind = "preview" => PreviewsAgree(input.old, input.user)

\* What the merged view of a user, the dictionary that is enforced and the previews
\* say of its domains and rows is the same.
UsersViewed == InputsAreUsers /\ MergedViewEnforced /\ RowsKept /\ PreviewsConsistent
=============================================================================
