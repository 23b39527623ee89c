-------------------------- MODULE MCPermissionGroups --------------------------
(***************************************************************************)
(* PermissionGroups on small instances.  The database starts with the      *)
(* group g1, owned by a, with b as co-owner and m1 as member; g2 is an id  *)
(* not given yet; m2 is a user that was deleted or never was one.          *)
(***************************************************************************)
EXTENDS PermissionGroupsOwner, TLC

CONSTANTS a, b, g1, g2, m1, m2, n1, n2, d0, d1

D(n, own, co, data) == [name |-> n, owner |-> own, coOwners |-> co, data |-> data]
J(op, g, by, doc, to) == [op |-> op, g |-> g, by |-> by, doc |-> doc, to |-> to]

G1 == D(n1, a, {b}, d0)

\* a creates g2 under a free name and under the name of g1; a and b edit g1:
\* a new owner, other co-owners, both, a new name; a and b delete it; members
\* come and go.
MCJobs ==
    {J("create", g2, a, D(n, a, {}, d0), {}) : n \in {n1, n2}}
    \cup {J("edit", g1, by, D(n1, own, co, d0), {}) :
             by \in {a, b}, own \in {a, b}, co \in {{}, {b}}}
    \cup {J("edit", g1, b, D(n2, a, {a, b}, d0), {})}
    \cup {J("delete", g1, by, G1, {}) : by \in {a, b}}
    \cup {J("add", g1, a, G1, to) : to \in {{m2}, {m1, m2}}}
    \cup {J("remove", g1, a, G1, {m1})}
    \cup {J("data", g1, b, D(n1, a, {b}, d1), {})}

\* Three requests over one group: owners and co-owners move to and fro while
\* it is deleted, and its name is taken by a new group.
ContestJobs ==
    {J("create", g2, b, D(n1, b, {}, d0), {}),
     J("edit", g1, a, D(n1, b, {b}, d0), {}),
     J("edit", g1, b, D(n1, b, {}, d0), {}),
     J("edit", g1, a, D(n2, a, {b}, d0), {}),
     J("delete", g1, a, G1, {})}

MCInit ==
    /\ used = {g1}
    /\ tuples = Mirror(G1, g1)
    /\ group = (g1 :> G1 @@ g2 :> NoDoc)
    /\ user \in {m1 :> "active" @@ m2 :> s : s \in {"absent", "deleted"}}
    /\ refs = [u \in Members |-> [g \in Groups |->
                  IF u = m1 /\ g = g1 THEN [full |-> 1, bare |-> 0] ELSE NoRefs]]
    /\ Init

MCSpec == MCInit /\ [][Next]_vars
===============================================================================
