---------------------------- MODULE PermissionDiffs ----------------------------
(***************************************************************************)
(* The differences between an old and a new list of permissions            *)
(* (packages/shared/shield/utils, diff.utils.ts and user.diff.ts) and what *)
(* the audit log makes of them (shield-api, auditing.service.ts).          *)
(*                                                                         *)
(* A list of domains is a sequence of [id, cls], one of permission tables  *)
(* a sequence of [id, filters], filters a sequence of [kod, values].  The  *)
(* ids of a list differ.                                                   *)
(***************************************************************************)
EXTENDS Naturals, SequencesExt

CONSTANTS Nothing      \* what a getter returns for a pair that did not change

\* calcSymetricDiff of lists without order.
SymmetricDiff(a, b) == <<a \ b, b \ a>>

\* calcDiff: the new items one after the other, each matched with the first of the
\* remaining old ones that has its key; what then remains was deleted.
Matching(remaining, item, key) == {i \in DOMAIN remaining : remaining[i][key] = item[key]}

MatchItem(acc, item, key) ==
    LET found == Matching(acc.rest, item, key)
        i     == Min(found)
    IN IF found = {}
       THEN [rest |-> acc.rest,
             out  |-> Append(acc.out, [type |-> "new", old |-> Nothing, new |-> item])]
       ELSE [rest |-> RemoveAt(acc.rest, i),
             out  |-> Append(acc.out, [type |-> "updated", old |-> acc.rest[i], new |-> item])]

Remaining(rest) == [i \in DOMAIN rest |-> [type |-> "deleted", old |-> rest[i], new |-> Nothing]]

CalcDiff(curr, new, key) ==
    LET matched[i \in 0 .. Len(new)] ==
            IF i = 0 THEN [rest |-> curr, out |-> <<>>] ELSE MatchItem(matched[i - 1], new[i], key)
    IN matched[Len(new)].out \o Remaining(matched[Len(new)].rest)

\* The elements of s at the positions in I.
KeptAt(s, I) ==
    LET kept[i \in 0 .. Len(s)] ==
            IF i = 0 THEN <<>> ELSE IF i \in I THEN Append(kept[i - 1], s[i]) ELSE kept[i - 1]
    IN kept[Len(s)]

\* What is reported: metas[i] is what a getter makes of the i-th pair, or Nothing.
Reported(pairs, metas) ==
    KeptAt([i \in DOMAIN pairs |-> [type |-> pairs[i].type, meta |-> metas[i]]],
           {i \in DOMAIN pairs : metas[i] # Nothing})

\* Mutant: only what is new makes a domain an updated one.
UpdatedDomainNew(c, n) ==
    LET diff == SymmetricDiff(n.cls, c.cls)
    IN IF diff[1] = {} THEN Nothing ELSE [id |-> c.id, new |-> diff[1], deleted |-> diff[2]]

\* getDomainsDiff with split classifications; withDeleted is
\* returnDeletedClassifications.
UpdatedDomain(c, n) ==
    LET diff == SymmetricDiff(n.cls, c.cls)
    IN IF diff = <<{}, {}>> THEN Nothing ELSE [id |-> c.id, new |-> diff[1], deleted |-> diff[2]]

DomainMeta(p, withDeleted) ==
    CASE p.type = "new"     -> [id |-> p.new.id, new |-> p.new.cls, deleted |-> {}]
      [] p.type = "updated" -> UpdatedDomain(p.old, p.new)
      [] OTHER -> [id |-> p.old.id, new |-> {}, deleted |-> IF withDeleted THEN p.old.cls ELSE {}]

DomainsDiff(curr, new, withDeleted) ==
    LET pairs == CalcDiff(curr, new, "id")
    IN Reported(pairs, [i \in DOMAIN pairs |-> DomainMeta(pairs[i], withDeleted)])

\* getPermissionTablesDiff.  A row filter that the new table leaves out is not
\* reported.
AddedFilter(f)   == [kod |-> f.kod, new |-> f.values, deleted |-> {}]
RemovedFilter(f) == [kod |-> f.kod, new |-> {}, deleted |-> f.values]

UpdatedFilter(c, n) ==
    LET diff == SymmetricDiff(n.values, c.values)
    IN IF diff = <<{}, {}>> THEN Nothing ELSE [kod |-> n.kod, new |-> diff[1], deleted |-> diff[2]]

FilterMeta(p) ==
    CASE p.type = "new"     -> IF p.new.values = {} THEN Nothing ELSE AddedFilter(p.new)
      [] p.type = "updated" -> UpdatedFilter(p.old, p.new)
      [] OTHER              -> Nothing

FiltersDiff(curr, new) ==
    LET pairs == CalcDiff(curr, new, "kod")
    IN Reported(pairs, [i \in DOMAIN pairs |-> FilterMeta(pairs[i])])

UpdatedTable(c, n) ==
    LET diff == FiltersDiff(c.filters, n.filters)
    IN IF diff = <<>> THEN Nothing
       ELSE [id |-> n.id, filters |-> [i \in DOMAIN diff |-> diff[i].meta]]

TableMeta(p) ==
    CASE p.type = "new" ->
            [id |-> p.new.id, filters |-> [i \in DOMAIN p.new.filters |-> AddedFilter(p.new.filters[i])]]
      [] p.type = "updated" -> UpdatedTable(p.old, p.new)
      [] OTHER ->
            [id |-> p.old.id, filters |-> [i \in DOMAIN p.old.filters |-> RemovedFilter(p.old.filters[i])]]

TablesDiff(curr, new) ==
    LET pairs == CalcDiff(curr, new, "id")
    IN Reported(pairs, [i \in DOMAIN pairs |-> TableMeta(pairs[i])])

\* getUserAttributesDiff, for attributes that are both there.
OnOff(old, new) == IF old = new THEN {} ELSE {IF new THEN "ON" ELSE "OFF"}

AttributesDiff(old, new) ==
    {[kind |-> k, type |-> v] : k \in {"mask"}, v \in OnOff(old.mask, new.mask)}
    \cup {[kind |-> k, type |-> v] : k \in {"deceased"}, v \in OnOff(old.deceased, new.deceased)}
    \cup (IF old.type = new.type THEN {} ELSE {[kind |-> "type", old |-> old.type, new |-> new.type]})
    \cup {[kind |-> "pop", type |-> "deleted", value |-> p] : p \in SymmetricDiff(old.pop, new.pop)[1]}
    \cup {[kind |-> "pop", type |-> "new", value |-> p] : p \in SymmetricDiff(old.pop, new.pop)[2]}
-----------------------------------------------------------------------------
\* The audit log: one entry for every domain, classification, permission table and
\* value that came or went.

FlatDomains(diff) ==
    UNION {LET d == diff[i].meta IN
           {[kind |-> "domain", type |-> diff[i].type, id |-> d.id] : t \in {diff[i].type} \ {"updated"}}
           \cup {[kind |-> "classification", type |-> "new", id |-> d.id, cls |-> c] : c \in d.new}
           \cup {[kind |-> "classification", type |-> "deleted", id |-> d.id, cls |-> c] : c \in d.deleted} :
           i \in DOMAIN diff}

FlatValues(id, filter) ==
    {[kind |-> "value", type |-> "new", id |-> id, kod |-> filter.kod, value |-> v] : v \in filter.new}
    \cup {[kind |-> "value", type |-> "deleted", id |-> id, kod |-> filter.kod, value |-> v] : v \in filter.deleted}

FlatTables(diff) ==
    UNION {LET t == diff[i].meta IN
           {[kind |-> "table", type |-> diff[i].type, id |-> t.id] : x \in {diff[i].type} \ {"updated"}}
           \cup UNION {FlatValues(t.id, t.filters[j]) : j \in DOMAIN t.filters} :
           i \in DOMAIN diff}

FlatGroups(old, new) ==
    {[kind |-> "group", type |-> "new", id |-> g] : g \in new \ old}
    \cup {[kind |-> "group", type |-> "deleted", id |-> g] : g \in old \ new}

\* insertUserAudits; insertPermissionGroupDataPermissionsAudits is the same
\* without the groups.
UserAudit(old, new) ==
    AttributesDiff(old.attrs, new.attrs)
    \cup FlatDomains(DomainsDiff(old.domains, new.domains, TRUE))
    \cup FlatTables(TablesDiff(old.tables, new.tables))
    \cup FlatGroups(old.groups, new.groups)
=============================================================================
