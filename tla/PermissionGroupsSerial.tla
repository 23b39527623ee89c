------------------------- MODULE PermissionGroupsSerial -------------------------
(***************************************************************************)
(* What permission groups promise while requests are served one at a time. *)
(* Two history variables watch a behaviour of PermissionGroups and change  *)
(* nothing in it: before holds the stores as they were when the last       *)
(* request was taken up, so that what withRollbacks gives back can be      *)
(* compared with them, and alone says that no two requests have been in    *)
(* flight together.                                                        *)
(***************************************************************************)
EXTENDS PermissionGroups

VARIABLES before, alone

history == <<before, alone>>

\* The number of entries by which a user refers to each group.
Entered == [u \in Members |-> [g \in Groups |-> refs[u][g].full + refs[u][g].bare]]

\* by: the request that was taken up then, if any.
Snapshot(S) == [by |-> S, group |-> group, tuples |-> tuples, entered |-> Entered]

Taken(r) == pc[r] = "new" /\ pc'[r] # "new"

OneAtATime == \A q, r \in InFlight : q = r

\* The snapshot is taken before the step, as long as it may be compared with.
Watch ==
    /\ alone' = (alone /\ OneAtATime')
    /\ before' = IF alone' /\ \E r \in Reqs : Taken(r)
                 THEN Snapshot({r \in Reqs : Taken(r)}) ELSE before

\* A behaviour that starts with alone = FALSE is not watched.
SerialInit == Init /\ alone \in BOOLEAN /\ before = Snapshot({})

SerialSpec == SerialInit /\ [][Next /\ Watch]_<<vars, history>>

-----------------------------------------------------------------------------
(* Properties *)

\* While requests are served one at a time the stores agree in between: OpenFGA holds
\* the owner and co-owners of the documents, no user refers to a group that is gone,
\* none refers to a group twice, and an entry lacks its giver only after a failed delete
\* of its group; also after a call was refused.
StoresAgree ==
    alone => MirrorAtRest /\ NoDanglingGroup /\ NoDoubleEntry /\ EntriesComplete

\* A create, edit or delete that fails after one call was refused has left the
\* documents, the tuples and the number of entries of every user as they were:
\* withRollbacks undoes all of it, whichever call it was.
AllOrNothing ==
    \A r \in Reqs :
        /\ alone
        /\ AtRest
        /\ before.by = {r}
        /\ pc[r] = "failed"
        /\ job[r].op \in {"create", "edit", "delete"}
        => Snapshot({r}) = before
===============================================================================
