----------------------------- MODULE ResourceDiffs -----------------------------
(***************************************************************************)
(* What the audit log says of a change of a table (shield-api,             *)
(* table.utils.ts) and of an application user                              *)
(* (application_users.utils.ts), and the tags of its columns that lens is  *)
(* told to change (table.service.ts).                                      *)
(*                                                                         *)
(* The columns of a table are a function to [cls, mask].  Its verification *)
(* stages are a function from those it has to whether they are checked.    *)
(* Its keys are a sequence of [kod, column], the entries of a map.  An     *)
(* application user is [domains, flags]: a sequence of [id, cls, roles],   *)
(* and a function from the boolean attributes.                             *)
(***************************************************************************)
EXTENDS UserDiffs

CONSTANTS
    Unset,         \* an attribute without a value
    PlainMask,   \* the mask that masks nothing
    StageNames     \* the stages of verification

ColumnOf(cols, c) == IF c \in DOMAIN cols THEN cols[c] ELSE [cls |-> Unset, mask |-> Unset]

\* Mutant: a column that was not there has no diff of its mask.
MaskChangedKnown(curr, new, c) == c \in DOMAIN curr /\ curr[c].mask # new[c].mask

\* A new column starts with the default mask.
MaskChanged(curr, new, c) ==
    IF c \in DOMAIN curr THEN curr[c].mask # new[c].mask
    ELSE new[c].mask \notin {Unset, PlainMask}

\* getColumnsDictDiff: only the columns that the new dictionary has.
ColumnsDiff(curr, new) ==
    {[kind |-> "classification", column |-> c, old |-> ColumnOf(curr, c).cls, new |-> new[c].cls] :
        c \in {c \in DOMAIN new : ColumnOf(curr, c).cls # new[c].cls}}
    \cup {[kind |-> "mask", column |-> c, old |-> ColumnOf(curr, c).mask, new |-> new[c].mask] :
        c \in {c \in DOMAIN new : MaskChanged(curr, new, c)}}

Checked(stages) == {s \in DOMAIN stages : stages[s]}

VerificationDiff(old, new) ==
    [kind : {"stage"}, stage : Checked(new) \ Checked(old), action : {"checked"}]
    \cup [kind : {"stage"}, stage : Checked(old) \ Checked(new), action : {"unchecked"}]

\* isDataVerified.
Verified(stages) == Checked(stages) = StageNames

FullVerificationDiff(old, new) ==
    IF Verified(old) = Verified(new) THEN {}
    ELSE {[kind |-> "full_verification", old |-> Verified(old), new |-> Verified(new)]}

\* IsUniqueByStage and IsAllStagesExist, of the list of stages in a request.
ValidStages(list) == IsInjective(list) /\ StageNames \subseteq ToSet(list)

FieldDiff(kind, old, new) == IF old = new THEN {} ELSE {[kind |-> kind, old |-> old, new |-> new]}

\* Only the first key of a table counts.
AuthKey(t)    == IF t.keys = <<>> THEN Unset ELSE Head(t.keys).kod
AuthColumn(t) == IF t.keys = <<>> THEN Unset ELSE Head(t.keys).column

BlankTable == [cols |-> <<>>, domain |-> Unset, ptable |-> Unset, keys |-> <<>>]

\* getTablesDiff, of an upsert; curr is BlankTable for a table that is new.
TableDiff(curr, new) ==
    ColumnsDiff(curr.cols, new.cols)
    \cup FieldDiff("domain", curr.domain, new.domain)
    \cup FieldDiff("permission_table", curr.ptable, new.ptable)
    \cup FieldDiff("auth_key", AuthKey(curr), AuthKey(new))
    \cup FieldDiff("auth_column", AuthColumn(curr), AuthColumn(new))

\* Mutant: an edit that leaves a column out takes its attributes away.
EditedAll(cols, edit) == [c \in DOMAIN cols |-> ColumnOf(edit, c)]

\* An edit: updateTable writes the columns that the table has and the edit names;
\* stages stay when the edit has none, which the log takes for none checked.
MergedColumns(cols, edit) == [c \in DOMAIN cols |-> IF c \in DOMAIN edit THEN edit[c] ELSE cols[c]]
MergedStages(old, new)    == IF new = <<>> THEN old ELSE new

EditDiff(cols, edit, old, new) ==
    ColumnsDiff(cols, edit) \cup VerificationDiff(old, new) \cup FullVerificationDiff(old, new)
-----------------------------------------------------------------------------
\* getClassificationTag and getMaskingTag: two masks have the same tag.
ClassTag(cls) == {[tag |-> "classification", of |-> cls] : c \in {cls} \ {Unset}}
MaskTag(mask) == {[tag |-> "masked"] : m \in {mask} \ {Unset, PlainMask}}

Tags(column) == ClassTag(column.cls) \cup MaskTag(column.mask)

\* Mutant: the tags of the classification that was are not removed.
ColumnTagsAdded(was, is) ==
    [remove |-> IF was.mask = is.mask THEN {} ELSE MaskTag(was.mask),
     add    |-> (IF was.cls = is.cls THEN {} ELSE ClassTag(is.cls))
                \cup (IF was.mask = is.mask THEN {} ELSE MaskTag(is.mask))]

ColumnTagDiff(was, is) ==
    [remove |-> (IF was.cls = is.cls THEN {} ELSE ClassTag(was.cls))
                \cup (IF was.mask = is.mask THEN {} ELSE MaskTag(was.mask)),
     add    |-> (IF was.cls = is.cls THEN {} ELSE ClassTag(is.cls))
                \cup (IF was.mask = is.mask THEN {} ELSE MaskTag(is.mask))]

\* generateColumnsTagDiff.
ColumnsTagDiff(prev, next) == [c \in DOMAIN next |-> ColumnTagDiff(ColumnOf(prev, c), next[c])]
-----------------------------------------------------------------------------
\* getApplicationUserDomainsDiff.
UpdatedAppDomain(c, n) ==
    LET cls   == SymmetricDiff(n.cls, c.cls)
        roles == SymmetricDiff(n.roles, c.roles)
    IN IF cls = <<{}, {}>> /\ roles = <<{}, {}>> THEN Nothing
       ELSE [id |-> c.id, newCls |-> cls[1], deletedCls |-> cls[2],
             newRoles |-> roles[1], deletedRoles |-> roles[2]]

AppDomainMeta(p) ==
    CASE p.type = "new" ->
            [id |-> p.new.id, newCls |-> p.new.cls, deletedCls |-> {}, newRoles |-> p.new.roles, deletedRoles |-> {}]
      [] p.type = "updated" -> UpdatedAppDomain(p.old, p.new)
      [] OTHER ->
            [id |-> p.old.id, newCls |-> {}, deletedCls |-> p.old.cls, newRoles |-> {}, deletedRoles |-> p.old.roles]

AppDomainsDiff(curr, new) ==
    LET pairs == CalcDiff(curr, new, "id")
    IN Reported(pairs, [i \in DOMAIN pairs |-> AppDomainMeta(pairs[i])])

\* The boolean attributes that changed, in getApplicationUserDiff.
FlagsDiff(old, new) ==
    UNION {{[kind |-> f, type |-> t] : t \in OnOff(old[f], new[f])} : f \in DOMAIN new}

\* flattenApplicationUserDomainsDiff.
FlatAppDomains(diff) ==
    UNION {LET d == diff[i].meta IN
           {[kind |-> "domain", type |-> diff[i].type, id |-> d.id] : t \in {diff[i].type} \ {"updated"}}
           \cup [kind : {"classification"}, type : {"new"}, id : {d.id}, cls : d.newCls]
           \cup [kind : {"classification"}, type : {"deleted"}, id : {d.id}, cls : d.deletedCls]
           \cup [kind : {"role"}, type : {"new"}, id : {d.id}, role : d.newRoles]
           \cup [kind : {"role"}, type : {"deleted"}, id : {d.id}, role : d.deletedRoles] :
           i \in DOMAIN diff}

\* insertApplicationUserAudits.
AppUserAudit(old, new) ==
    FlagsDiff(old.flags, new.flags) \cup FlatAppDomains(AppDomainsDiff(old.domains, new.domains))
-----------------------------------------------------------------------------
(***************************************************************************)
(* Properties.                                                             *)
(***************************************************************************)

\* What a column was given, by the last diff of a kind.
After(log, kind, c, was) ==
    IF \E e \in log : e.kind = kind /\ e.column = c
    THEN (CHOOSE e \in log : e.kind = kind /\ e.column = c).new ELSE was

\* A change of a table is told right: replaying the log of an edit or an upsert over
\* the columns that were leads to those that are, where a new column starts with the
\* default mask, and applying the tags to remove and then the tags to add leads lens
\* to the tags of the columns that are.
ColumnsTold(old, new, log) ==
    LET cols  == {e \in log : e.kind \in {"classification", "mask"}}
        shown == [c \in DOMAIN new |-> IF new[c].mask = Unset /\ c \notin DOMAIN old
                                       THEN [new[c] EXCEPT !.mask = PlainMask] ELSE new[c]]
        start(c) == IF c \in DOMAIN old THEN old[c] ELSE [cls |-> Unset, mask |-> PlainMask]
        told(c)  == ColumnsTagDiff(old, new)[c]
    IN \A c \in DOMAIN new :
          /\ shown[c] = [cls  |-> After(cols, "classification", c, start(c).cls),
                         mask |-> After(cols, "mask", c, start(c).mask)]
          /\ (Tags(ColumnOf(old, c)) \ told(c).remove) \cup told(c).add = Tags(new[c])

\* An edit of a table is told right, and so are the stages of verification, if it
\* names them: the list of a request that is let in has every stage once, and a table
\* becomes verified in the log when its last stage is checked.
EditTold(cols, edit, old, list, checked) ==
    LET new    == [s \in ToSet(list) |-> s \in checked]
        log    == EditDiff(cols, edit, old, new)
        stages == {e \in log : e.kind = "stage"}
    IN /\ ColumnsTold(cols, MergedColumns(cols, edit), log)
       /\ ValidStages(list) =>
             /\ Len(list) = Cardinality(StageNames)
             /\ Checked(MergedStages(old, new)) =
                   (Checked(old) \cup {e.stage : e \in {x \in stages : x.action = "checked"}})
                      \ {e.stage : e \in {x \in stages : x.action = "unchecked"}}
             /\ \A e \in log : e.kind = "full_verification" => e.new = Verified(MergedStages(old, new))

\* An upsert is told right, with the domain, the permission table and the key.
UpsertTold(curr, new) ==
    LET log == TableDiff(curr, new)
        told(kind, was) == IF \E e \in log : e.kind = kind
                           THEN (CHOOSE e \in log : e.kind = kind).new ELSE was
    IN /\ ColumnsTold(curr.cols, new.cols, log)
       /\ told("domain", curr.domain) = new.domain
       /\ told("permission_table", curr.ptable) = new.ptable
       /\ told("auth_key", AuthKey(curr)) = AuthKey(new)
       /\ told("auth_column", AuthColumn(curr)) = AuthColumn(new)
=============================================================================
