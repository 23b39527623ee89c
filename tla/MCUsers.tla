------------------------------- MODULE MCUsers -------------------------------
(***************************************************************************)
(* Small instances of Users: a user u1 in the states a user can be in, a   *)
(* source of clones u2, two domains, of which the second is out of reach   *)
(* of most actors, one permission table, one group and one schema.         *)
(***************************************************************************)
EXTENDS Users, TLC

CONSTANTS r1, r2, r3, u1, u2, boss, clerk, robot, d1, d2, c1, t1, v1, v2, p1, g1, k1, k2, s1

NoDomains == [d \in Domains |-> Absent]
NoTables  == [t \in Tables |-> Absent]

MCMayManage == [a \in Actors |-> IF a = boss THEN {d1, d2} ELSE {d1}]
MCMayAssign == [a \in Actors |-> MCMayManage[a] \X {c1}]
MCMayMask   == [a \in Actors |-> IF a = boss THEN {d1, d2} ELSE {d1}]
MCMayEnrol  == [a \in Actors |-> IF a = boss THEN {g1} ELSE {}]
MCGrants    == [g \in Groups |-> [d \in Domains |-> IF d = d2 THEN {c1} ELSE Absent]]
MCRank      == [g \in Groups |-> 0]
MCColumns   == [t \in Tables |-> {<<d1, c1>>}]

Body(mask, pop, domains, tables, groups, all) ==
    [mask |-> mask, pop |-> pop, domains |-> domains, tables |-> tables,
     groups |-> groups, all |-> all]

NoBody == Body(TRUE, {}, NoDomains, NoTables, {}, "keep")

Job(op, by, u, body) ==
    [op |-> op, by |-> by, u |-> u, body |-> body, d |-> d1, s |-> s1, names |-> {},
     rename |-> [k \in Catalogs |-> k], to |-> {}]

In1  == d1 :> {c1} @@ d2 :> Absent
In12 == d1 :> {c1} @@ d2 :> {c1}
In2  == d1 :> Absent @@ d2 :> {c1}
T(v) == t1 :> v

Creates ==
    {Job("create", boss, u1, Body(FALSE, {p1}, In12, T(v1), {g1}, "on")),
     Job("create", clerk, u1, Body(TRUE, {p1}, In1, NoTables, {}, "off")),
     Job("create", clerk, u1, Body(TRUE, {}, In1, NoTables, {}, "on"))}

Edits ==
    {Job("edit", boss, u1, Body(TRUE, {}, In2, NoTables, {g1}, "keep")),
     Job("edit", boss, u1, Body(FALSE, {p1}, In12, T(v2), Keep, "on")),
     Job("edit", clerk, u1, Body(FALSE, {}, In1, T(v2), Keep, "keep")),
     Job("edit", clerk, u1, Body(TRUE, {}, [In12 EXCEPT ![d1] = {}], T(v1), Keep, "keep")),
     Job("edit", clerk, u1, Body(TRUE, {}, In2, T(v1), {}, "keep")),
     Job("edit", robot, u1, Body(TRUE, {}, [In12 EXCEPT ![d1] = {}], T(v2), Keep, "keep")),
     Job("edit", robot, u1, Body(TRUE, {}, In2, NoTables, Keep, "keep"))}

Others ==
    {Job("block", boss, u1, NoBody), Job("delete", boss, u1, NoBody)}
    \cup {[Job("dropDomain", a, u1, NoBody) EXCEPT !.d = d] : a \in {boss, clerk}, d \in {d1, d2}}

CatalogJobs ==
    {[Job("addCatalogs", robot, u1, NoBody) EXCEPT !.names = {k2}],
     [Job("renameCatalogs", robot, u1, NoBody) EXCEPT !.rename = k1 :> k2 @@ k2 :> k2],
     [Job("deleteCatalogs", robot, u1, NoBody) EXCEPT !.names = {k1}]}
    \cup {Job(op, boss, u1, NoBody) : op \in {"give", "revoke"}}
    \cup {Job("give", clerk, u1, NoBody)}

Clones == {[Job("clone", a, u2, NoBody) EXCEPT !.to = {u1}] : a \in {boss, clerk}}

MCJobs == Creates \cup Edits \cup Others \cup CatalogJobs \cup Clones

Lake(all, v) == [all |-> all, schemas |-> s1 :> v]
Doc(blocked, lake, domains, by, tables) ==
    [attrs |-> [blocked |-> blocked, mask |-> TRUE, pop |-> {}], lake |-> lake,
     cats |-> {k1},
     domains |-> [d \in Domains |-> IF domains[d] = Absent THEN Absent
                                    ELSE [cls |-> domains[d], by |-> by]],
     tables |-> [t \in Tables |-> IF tables[t] = Absent THEN Absent
                                  ELSE [rows |-> tables[t], by |-> by]],
     groups |-> {}]

\* Unknown, live without and with permissions, blocked, deleted.
FirstDocs ==
    {NoDoc,
     Doc(FALSE, Lake(FALSE, "none"), NoDomains, boss, NoTables),
     Doc(FALSE, Lake(FALSE, "write"), In12, clerk, T(v1)),
     Doc(FALSE, Lake(TRUE, "read"), In12, robot, T(v1)),
     Doc(TRUE, Lake(FALSE, "none"), In1, Nobody, T(v1)),
     Doc(TRUE, Absent, In12, boss, T(v1))}

MCFirst == {u1 :> D @@ u2 :> Doc(FALSE, Lake(FALSE, "none"), In12, boss, T(v1)) : D \in FirstDocs}

Slots == Permutations(Reqs)
=============================================================================
