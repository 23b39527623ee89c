------------------------------ MODULE GrantViews ------------------------------
(***************************************************************************)
(* What shield-client offers a manager to give to others, and what the     *)
(* server then lets through: the domains of a user that are copied to new  *)
(* ones (CardUser.tsx, SummeryCopyPermissionPopup.tsx and cloneUsers of    *)
(* user.service.ts), and the permission groups a user may be put in        *)
(* (permission_groups.service.ts).                                         *)
(*                                                                         *)
(* Worlds and viewers are those of TableViews; a viewer also has ravs, the *)
(* domains it is rav amlach of, and groups, those it is owner or co-owner  *)
(* of.  A group is a record [id, domains, attrs].                          *)
(***************************************************************************)
EXTENDS TableViews

-----------------------------------------------------------------------------
(* The checks of the server.                                                 *)

Unmanaged(w, v, domains) == {d.id : d \in {d \in domains : ~CanManageData(w, v, d.id)}}

\* checkPermissionForDomains: the classifications of domains that pass are checked too.
NotAllowed(w, v, domains) ==
    Unmanaged(w, v, domains)
    \cup {d.id : d \in {d \in domains : \E c \in d.cls : ~CanAssignToUser(w, v, d.id, c)}}

DeceasedAllowed(w, v, domains) == \A d \in domains : AdminFrom(w, v, d.id) \/ d.id \in v.ravs
MaskAllowed(w, v, domains)     == \A d \in domains : CanManageData(w, v, d.id)

\* assertHasPermissionsForSimpleAttributes, of attributes that are new.
AttributesAllowed(w, v, attrs, domains) ==
    /\ attrs.deceased => DeceasedAllowed(w, v, domains)
    /\ ~attrs.mask => MaskAllowed(w, v, domains)
-----------------------------------------------------------------------------
(* The copy of a user.                                                       *)

\* A card has the classifications that are in the collection.
Card(w, domains) == [i \in DOMAIN domains |-> [domains[i] EXCEPT !.cls = @ \cap w.classes]]

\* Mutant: the classifications of a domain are not looked at.
AllowedIds(options, domains) == SelectSeq(domains, LAMBDA d : d.id \in {o.id : o \in options})

\* filterUserAllowedDomains: the domains that the viewer may give as they are.
AllowedDomains(options, domains) ==
    SelectSeq(domains, LAMBDA d : \E o \in options : o.id = d.id /\ d.cls \subseteq o.cls)

\* cloneUsers: what it takes from the document of the source.
CopiedDomains(w, v, domains) ==
    SelectSeq(domains, LAMBDA d : d.id \notin NotAllowed(w, v, ToSet(domains)))
-----------------------------------------------------------------------------
(* The groups of a user.                                                     *)

MayChangeMembers(v, g) == v.admin \/ g.id \in v.groups

\* checkHasPermissionGroupDataPermissions
DataAllowed(w, v, g) ==
    /\ NotAllowed(w, v, ToSet(g.domains)) = {}
    /\ AttributesAllowed(w, v, g.attrs, ToSet(g.domains))

\* getMemberEditablePermissionGroups: the groups that the popover lets one tick.
MemberEditable(w, v, groups) == {g.id : g \in {g \in groups : MayChangeMembers(v, g) /\ DataAllowed(w, v, g)}}

DomainIds(groups) == UNION {{d.id : d \in ToSet(g.domains)} : g \in groups}

\* Mutant: of a domain that several groups have, the classifications of one.
MergedOnce(groups) ==
    {CHOOSE d \in UNION {ToSet(g.domains) : g \in groups} : d.id = id : id \in DomainIds(groups)}

Merged(groups) ==
    {[id |-> id, cls |-> UNION {UNION {d.cls : d \in {d \in ToSet(g.domains) : d.id = id}} : g \in groups}] :
        id \in DomainIds(groups)}

\* assertCanChangeGroupsUsers: the domains of all groups are checked together.  The
\* checks of the attributes are promises that nobody awaits.
ChangeAccepted(w, v, groups) ==
    /\ \A g \in groups : MayChangeMembers(v, g)
    /\ NotAllowed(w, v, Merged(groups)) = {}
-----------------------------------------------------------------------------
(***************************************************************************)
(* Properties.                                                             *)
(***************************************************************************)

\* The summary of a copy names the domains that the server copies, though the one goes
\* by the listings of OpenFGA and the other by single checks: all of them, and when
\* everything the source has is in the collections, no other.
CopyTold(w, v, domains) ==
    LET options == DomainsBy(w, v, "can_manage_data_permissions", "can_assign_to_user")
        shown   == AllowedDomains(options, Card(w, domains))
        copied  == CopiedDomains(w, v, domains)
        stored  == {d.id : d \in w.domains}
        whole   == \A d \in ToSet(domains) : d.id \in stored /\ d.cls \subseteq w.classes
    IN /\ whole => shown = copied
       /\ {d.id : d \in ToSet(copied)} \cap stored \subseteq {d.id : d \in ToSet(shown)}

\* Any groups that the popover offers are accepted together; and groups that are
\* accepted are each offered, but for attributes, whose checks are not awaited.
GroupsOffered(w, v, groups) ==
    \A some \in SUBSET groups :
        LET offered == {g \in some : g.id \in MemberEditable(w, v, groups)}
            accepted == ChangeAccepted(w, v, some)
        IN /\ offered = some => accepted
           /\ accepted => \A g \in some \ offered : ~AttributesAllowed(w, v, g.attrs, ToSet(g.domains))
=============================================================================
