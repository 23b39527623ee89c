------------------------------ MODULE OwnerToken ------------------------------
(***************************************************************************)
(* What the owner relation of permission groups promises: it is a token.   *)
(* A group that nobody owned yet is given an owner, an owner hands it to   *)
(* one successor, and when the group is deleted nobody owns it again.      *)
(***************************************************************************)
CONSTANTS Groups, Actors,
          Vacant,   \* nobody has owned the group yet
          Retired   \* the group was deleted

VARIABLE holder

Init == holder \in [Groups -> Actors \cup {Vacant, Retired}]

Appoint(g, u) == /\ holder[g] = Vacant
                 /\ holder' = [holder EXCEPT ![g] = u]

Transfer(g, u) == /\ holder[g] \in Actors
                  /\ holder' = [holder EXCEPT ![g] = u]

Retire(g) == /\ holder[g] \in Actors
             /\ holder' = [holder EXCEPT ![g] = Retired]

Next == \E g \in Groups : \/ \E u \in Actors : Appoint(g, u) \/ Transfer(g, u)
                          \/ Retire(g)

Spec == Init /\ [][Next]_holder
===============================================================================
