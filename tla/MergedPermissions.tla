--------------------------- MODULE MergedPermissions ---------------------------
(***************************************************************************)
(* A user's own permissions merged with those of its permission groups:    *)
(* the merged view of the client and of the excel                          *)
(* (packages/shared/shield/utils, user.permission_groups.ts), and the      *)
(* entry of the users dictionary that the engines enforce                  *)
(* (user.service.ts).                                                      *)
(*                                                                         *)
(* A user is a record with domains, a sequence of [id, cls], tables, a     *)
(* sequence of [id, filters], attributes, and groups, a sequence of groups *)
(* of the same shape.  filters gives every row filter of a permission      *)
(* table the set of its values; a row filter that is boolean holds 0 or 1. *)
(***************************************************************************)
EXTENDS Naturals, SequencesExt

CONSTANTS
    Domains, Classes,
    Kods,        \* the row filters of a permission table
    BoolKods     \* those that are boolean, a subset of Kods

Direct == "direct"

Attributes  == [mask : BOOLEAN, deceased : BOOLEAN]
DomainEntry == [id : Domains, cls : SUBSET Classes]

\* The users whose entries are of the sets D and T, and whose groups have ids in G.
Holders(D, T, G) ==
    [domains : Seq(D), tables : Seq(T), attrs : Attributes, all : BOOLEAN,
     groups  : Seq([id : G, domains : Seq(D), tables : Seq(T), attrs : Attributes])]

\* The function f, extended or overridden at x.
With(f, x, v) == [y \in DOMAIN f \cup {x} |-> IF y = x THEN v ELSE f[y]]

\* f[x], or what stands for nothing.
At(f, x, none) == IF x \in DOMAIN f THEN f[x] ELSE none
-----------------------------------------------------------------------------
\* mergeDomainsWithGroups.

\* The entries of a user with their source, the user's own first.
SourcedDomains(user) ==
    [i \in DOMAIN user.domains |-> [id |-> user.domains[i].id, cls |-> user.domains[i].cls, src |-> Direct]]
    \o FlattenSeq([g \in DOMAIN user.groups |->
           [i \in DOMAIN user.groups[g].domains |->
               [id |-> user.groups[g].domains[i].id, cls |-> user.groups[g].domains[i].cls,
                src |-> user.groups[g].id]]])

NoSources == [c \in {} |-> {}]

\* Mutant: a classification that is there already keeps its sources.
MergeClassesFirst(cls, e) ==
    [c \in DOMAIN cls \cup e.cls |-> IF c \in DOMAIN cls THEN cls[c] ELSE {e.src}]

MergeClasses(cls, e) ==
    [c \in DOMAIN cls \cup e.cls |->
        At(cls, c, {}) \cup (IF c \in e.cls THEN {e.src} ELSE {})]

MergeDomain(merged, e) ==
    LET old == At(merged, e.id, [sources |-> {}, cls |-> NoSources])
    IN With(merged, e.id, [sources |-> old.sources \cup {e.src}, cls |-> MergeClasses(old.cls, e)])

NoDomains == [d \in {} |-> {}]

\* [id -> [sources, cls: [classification -> sources]]], entry after entry.
MergeDomains(user) ==
    LET entries == SourcedDomains(user)
        merged[i \in 0 .. Len(entries)] ==
            IF i = 0 THEN NoDomains ELSE MergeDomain(merged[i - 1], entries[i])
    IN merged[Len(entries)]

\* toUserDomainsDict, which the dictionary and the preview use.
DictDomain(merged, e) == With(merged, e.id, At(merged, e.id, {}) \cup e.cls)

AllDomains(user) ==
    user.domains \o FlattenSeq([g \in DOMAIN user.groups |-> user.groups[g].domains])

DomainsDict(user) ==
    LET entries == AllDomains(user)
        dict[i \in 0 .. Len(entries)] ==
            IF i = 0 THEN NoDomains ELSE DictDomain(dict[i - 1], entries[i])
    IN dict[Len(entries)]
-----------------------------------------------------------------------------
\* mergePermissionTablesWithGroups.

SourcedTables(user) == user.tables \o FlattenSeq([g \in DOMAIN user.groups |-> user.groups[g].tables])

NoValues == [k \in Kods |-> {}]

\* A boolean is on when one source has it on, and off when none has it.
MergeFilter(k, held, values) ==
    IF k \in BoolKods THEN {IF 1 \in held \cup values THEN 1 ELSE 0} ELSE held \cup values

MergeTable(merged, t) ==
    LET old == At(merged, t.id, NoValues)
    IN With(merged, t.id, [k \in Kods |-> MergeFilter(k, old[k], t.filters[k])])

NoTables == [t \in {} |-> NoValues]

MergeTables(user) ==
    LET entries == SourcedTables(user)
        merged[i \in 0 .. Len(entries)] ==
            IF i = 0 THEN NoTables ELSE MergeTable(merged[i - 1], entries[i])
    IN merged[Len(entries)]

\* mergeAttributesWithGroups: what differs from the default wins, wherever it
\* comes from.
InitialMask == TRUE
DefaultDeceased == FALSE

Attributed(user) == <<user.attrs>> \o [g \in DOMAIN user.groups |-> user.groups[g].attrs]

MergeAttribute(merged, a) ==
    [mask     |-> IF a.mask # InitialMask THEN a.mask ELSE merged.mask,
     deceased |-> IF a.deceased # DefaultDeceased THEN a.deceased ELSE merged.deceased]

MergeAttributes(user) ==
    LET sources == Attributed(user)
        merged[i \in 0 .. Len(sources)] ==
            IF i = 0 THEN user.attrs ELSE MergeAttribute(merged[i - 1], sources[i])
    IN merged[Len(sources)]
=============================================================================
