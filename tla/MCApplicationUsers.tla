--------------------------- MODULE MCApplicationUsers ---------------------------
(* Small instances of ApplicationUsers: one domain with a role and a           *)
(* classification, and an admin.                                               *)
EXTENDS ApplicationUsers, TLC

CONSTANTS r1, r2, u1, u2, a1, a2, amlach, class, admin, JobKinds, Bodies

MCUsers   == {u1, u2}
MCOneUser == {u1}

MCDomainOf == [g \in {amlach, class} |-> "d"]
MCRelation == (amlach :> "amlach") @@ (class :> "assigner") @@ (admin :> "admin")

\* a1 is an admin; a2 an amlach of the domain.
MCMayManage == [a \in Actors |-> IF a = a1 THEN {amlach, class, admin} ELSE {amlach, class}]

Offer(op, U, A, Gs) == {[op |-> op, u |-> u, by |-> a, grants |-> G] :
                           u \in U, a \in A, G \in Gs}

MCCreates == Offer("create", Users, Actors, Bodies)
MCEdits   == Offer("edit", Users, Actors, Bodies)
MCDeletes == Offer("delete", Users, Actors, {{}})
MCSyncs   == Offer("sync", {u1}, {CHOOSE a \in Actors : TRUE}, {{}})

MCJobs == UNION {CASE k = "create" -> MCCreates
                   [] k = "edit"   -> MCEdits
                   [] k = "delete" -> MCDeletes
                   [] k = "sync"   -> MCSyncs : k \in JobKinds}

\* One request after the other, with faults; or at some point creates of the only user
\* there is to be overlap, and then there are only creates left and there was no fault.
Apart ==
    \/ OneByOne'
    \/ /\ faults' = 0
       /\ \A r \in InFlight' : job'[r].op = "create" /\ job'[r].u = u1
       /\ \A u \in Users \ {u1} : doc[u] = NoDoc

ApartSpec == Init /\ [][Next /\ Apart]_vars

\* What a request knew is of no use once it has ended: Accept forgets it.
View == <<tuples, doc, pc, faults,
          [r \in Reqs |-> IF r \in InFlight
                          THEN <<job[r], todo[r], got[r], copy[r], batch[r], undo[r]>>
                          ELSE <<>>]>>

Slots == Permutations(Reqs)
=============================================================================
