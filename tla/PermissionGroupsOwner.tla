------------------------- MODULE PermissionGroupsOwner -------------------------
(***************************************************************************)
(* PermissionGroups implements OwnerToken: the holder of a group is the    *)
(* user of its owner tuple.  The platform tuple, written together with the *)
(* first owner and never deleted, tells a deleted group from one that has  *)
(* not had an owner yet.                                                   *)
(***************************************************************************)
EXTENDS PermissionGroups

CONSTANTS Vacant, Retired

ASSUME TokenAssumption == Vacant # Retired /\ {Vacant, Retired} \cap Actors = {}

Owners(g) == {u \in Actors : OwnerTuple(u, g) \in tuples}

Holder(g) == IF Owners(g) # {} THEN CHOOSE u \in Actors : u \in Owners(g)
             ELSE IF PlatformTuple(g) \in tuples THEN Retired ELSE Vacant

Token == INSTANCE OwnerToken WITH holder <- [g \in Groups |-> Holder(g)]

\* Ownership in OpenFGA behaves as the token of OwnerToken, whatever requests
\* overlap, calls fail or crashes happen: create appoints, an edit or its
\* rollback transfers, a delete retires, and nothing else touches it.
OwnerIsToken == Token!Spec
===============================================================================
