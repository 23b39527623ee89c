------------------------------ MODULE MCTables ------------------------------
(***************************************************************************)
(* Small instances of Tables over Domains: one name that may come to have  *)
(* two documents, two columns, two domains with a classification each, an  *)
(* admin and a clerk who works on d1 only.                                 *)
(***************************************************************************)
EXTENDS Tables, TLC

CONSTANTS r1, r2, r3, n1, i1, i2, a, b, x, y, tx, ty, tz, d1, d2, boss, clerk

Cols(ka, kb) == a :> ka @@ b :> kb

MCMayClassify == boss :> {} @@ clerk :> {d1} @@ System :> {}
MCAssigners   == {<<clerk, d1, x>>}
MCMayUpdate   == boss :> {d1, d2} @@ clerk :> {d1} @@ System :> {}

MCFirstDomains ==
    {[listed |-> d1 :> {x} @@ d2 :> {y}, titles |-> x :> tx @@ y :> ty],
     [listed |-> d1 :> {x} @@ d2 :> NoDomain, titles |-> x :> tx @@ y :> ty],
     [listed |-> d1 :> {x} @@ d2 :> {}, titles |-> x :> tx @@ y :> NoTitle]}

\* A table in a state the program leaves it in, with its tasks.
First(cols, dead, open, done) ==
    [table |-> i1 :> [name |-> n1, domain |-> d1, cols |-> cols, dead |-> dead] @@ i2 :> NoTable,
     tasks |-> i1 :> [open |-> open, done |-> done] @@ i2 :> NoTasks]

MCFirstTables ==
    {[table |-> Nothing, tasks |-> [i \in Ids |-> NoTasks]],
     First(Cols(None, NoColumn), FALSE, 1, 0),
     First(Cols(x, None), FALSE, 1, 0),
     First(Cols(x, x), FALSE, 0, 1),
     First(Cols(Internal, Internal), FALSE, 0, 0),
     First(Cols(None, None), TRUE, 0, 0)}

Want(d, internal, schema) == n1 :> [domain |-> d, internal |-> internal, schema |-> schema]

Upserts ==
    {[op |-> "upsert", by |-> who, want |-> Want(d, FALSE, s)] :
        who \in {System}, d \in {d1, d2}, s \in {{a}, {a, b}}}
    \cup {[op |-> "upsert", by |-> System, want |-> Want(d1, TRUE, {a, b})],
          [op |-> "upsert", by |-> clerk, want |-> Want(d1, FALSE, {a, b})],
          [op |-> "upsert", by |-> clerk, want |-> Want(d2, FALSE, {a})]}

Edit(who, ka, kb) == [op |-> "edit", by |-> who, id |-> i1, cols |-> Cols(ka, kb)]

Edits ==
    {Edit(clerk, x, NoColumn), Edit(clerk, x, x), Edit(clerk, None, NoColumn),
     Edit(boss, x, y), Edit(boss, y, NoColumn)}

Others ==
    {[op |-> "approve", by |-> who, id |-> i1] : who \in {boss, clerk}}
    \cup {[op |-> "deprecate", by |-> who, names |-> {n1}] : who \in {System, clerk}}

MCDomainJobs ==
    {[op |-> "createDomain", d |-> d2, cs |-> {y}],
     [op |-> "editDomain", d |-> d1, cs |-> {x}],
     [op |-> "editDomain", d |-> d1, cs |-> {x, y}],
     [op |-> "editDomain", d |-> d1, cs |-> {y}],
     [op |-> "createClass", title |-> ty, ds |-> {d1}],
     [op |-> "renameClass", c |-> x, title |-> ty]}

MCJobs == Upserts \cup Edits \cup Others \cup MCDomainJobs

\* Two requests of any kind, and a third that upserts the table once more.
\* The states of domains matter to requests on domains, those of the table to
\* requests on it.
Again == [op |-> "upsert", by |-> System, want |-> Want(d1, FALSE, {a, b})]

OnDomains(r) == job[r].op \in DomainOps

MCInit ==
    /\ Init
    /\ job[r3] = Again
    /\ ~OnDomains(r1) /\ ~OnDomains(r2) => listed[d2] = {y}
    /\ OnDomains(r1) /\ OnDomains(r2) => table = Nothing
    /\ OnDomains(r1) # OnDomains(r2) => There(i1) /\ table[i1].cols[a] = x

MCSpec == MCInit /\ [][Next]_vars

Slots == Permutations({r1, r2})

=============================================================================
