------------------------------- MODULE MCClient -------------------------------
(***************************************************************************)
(* One browser of shield-client with the popup of a table, the form of a   *)
(* user or of a group's permissions, or the screen of the permission       *)
(* groups in use.  They share nothing but the server and are not open      *)
(* together: focus says which one a behaviour is about, and the others     *)
(* rest as they started.                                                   *)
(***************************************************************************)
EXTENDS ClassificationPopup, UserPopup, GroupScreen, TLC

CONSTANTS u1, x1, x2, c1, c2, ci, no, a, b, c, none, blank, d1, d2, t1, k1, k2, v1, v2, g1, g2, f1, n1, n2

VARIABLE focus
-----------------------------------------------------------------------------
\* The popup of a table of two columns, of which one has a suggestion its user may assign.
MCHints == [x \in Columns |-> IF x = x1 THEN c1 ELSE c2]
MCRights == [u \in Users |-> {c1}]

Col(cls, m) == [cls |-> cls, mask |-> m]
MCFirstTables ==
    {[cols |-> (x1 :> Col(no, "none") @@ x2 :> Col(c2, "hash")), stages |-> [z \in Stages |-> TRUE]],
     [cols |-> (x1 :> Col(no, "none") @@ x2 :> Col(no, "none")), stages |-> NoStages],
     [cols |-> (x1 :> Col(ci, "none") @@ x2 :> Col(ci, "none")), stages |-> NoStages]}
-----------------------------------------------------------------------------
\* The form of a user: a table that needs one domain, a group for each domain.
FilterPair(x, y) == [k \in {k1, k2} |-> IF k = k1 THEN x ELSE y]
Holds(domains, tables, mask, in) ==
    [domains |-> domains, tables |-> tables, attrs |-> [mask |-> mask, deceased |-> FALSE], all |-> FALSE, groups |-> in]
Empties == [x \in {} |-> x]

MCCatalog   == d1 :> {c1, c2} @@ d2 :> {c1}
MCAllowed   == d1 :> {c1, c2} @@ d2 :> {}
MCNeeds     == t1 :> {<<d1, c1>>}
MCGroupData == g1 :> Holds(d1 :> {c1}, t1 :> FilterPair({v1}, {1}), FALSE, {})
            @@ g2 :> Holds(d2 :> {c1}, Empties, TRUE, {})
MCFirstUsers ==
    {a :> Holds(d1 :> {c1}, t1 :> FilterPair({v1, v2}, {0}), TRUE, {}) @@ f1 :> Holds(Empties, Empties, TRUE, {}),
     a :> Holds(d1 :> {c2} @@ d2 :> {}, Empties, TRUE, {g1}) @@ b :> Holds(Empties, Empties, TRUE, {}) @@ f1 :> Holds(d1 :> {c1}, t1 :> FilterPair({v1, v2}, {0}), TRUE, {})}

\* The orders in which the server lists them.
MCDomains == <<d1, d2>>
MCTables  == <<t1>>
MCGroups  == <<g1, g2>>
MCKods    == <<k1, k2>>
-----------------------------------------------------------------------------
\* The screen of the groups: a is an owner, or a co-owner with c.
GroupOf(n, owner, co) == [name |-> n, owner |-> owner, co |-> co]
MCFirstGroups == {g1 :> GroupOf(n1, a, {b}), g1 :> GroupOf(n1, b, {a, c})}
MCOthers == {GroupOf(n1, b, {a})}

-----------------------------------------------------------------------------
PopupRests == /\ \E t \in FirstTables : t.stages = NoStages /\ StateOf(t.cols) = "unclassified" /\ table = t
              /\ hints = [u \in Users |-> NoHints]
UserRests  == stored = (CHOOSE s \in FirstUsers : TRUE)
GroupRests == groups = (CHOOSE s \in MCFirstGroups : TRUE)

ClientInit ==
    /\ PopupInit /\ FormInit /\ GroupInit
    /\ \/ focus = "popup" /\ UserRests /\ GroupRests
       \/ focus = "user" /\ PopupRests /\ GroupRests
       \/ focus = "groups" /\ PopupRests /\ UserRests

ClientNext ==
    \/ focus = "popup" /\ PopupNext /\ UNCHANGED <<focus, formVars, groupVars>>
    \/ focus = "user" /\ FormNext /\ UNCHANGED <<focus, vars, groupVars>>
    \/ focus = "groups" /\ GroupNext /\ UNCHANGED <<focus, vars, formVars>>

ClientSpec == ClientInit /\ [][ClientNext]_<<focus, vars, formVars, groupVars>>
-----------------------------------------------------------------------------
=============================================================================
