----------------------------- MODULE AppUserViews -----------------------------
(***************************************************************************)
(* What shield-api answers about application users                         *)
(* (application_users.service.ts): what a user holds and may manage, what  *)
(* an edit by it lets through, the list of users with its search, its own  *)
(* roles as the client shows them, and the owners of domains that lens is  *)
(* told of.                                                                *)
(*                                                                         *)
(* A world w holds the tuples of OpenFGA: roles, triples <<user, domain,   *)
(* role>>; assigners, triples <<user, domain, classification>>; links and  *)
(* rooted as in TableViews; flags, pairs <<user, flag>>.  docs, the        *)
(* application users of MongoDB, is a sequence of [user, domains, flags],  *)
(* domains a sequence of [id, cls, roles]; stored holds the domains that   *)
(* have a document.                                                        *)
(***************************************************************************)
EXTENDS UserPermissions, ResourceDiffs

RolesOfShield == {"amlach", "rav_amlach", "api_user", "support_center"}
RolesOfAll    == RolesOfShield \cup {"kapat", "implementor", "analyst", "documentator"}
UserFlags     == {"is_admin", "can_create_connections", "can_manage_unique_population_indications"}

\* core.fga: the roles that manage a role, apart from the administrator.
ManagersOf(role) ==
    CASE role \in {"documentator", "analyst", "support_center", "api_user"} -> {"rav_amlach", "amlach"}
      [] role = "amlach" -> {"rav_amlach"}
      [] role = "implementor" -> {"kapat"}
      [] OTHER -> {}

IsAdmin(w, a) == <<a, "is_admin">> \in w.flags
AdminOf(w, a, d) == IsAdmin(w, a) /\ d \in w.rooted

Assigned(w, a, d, r) == <<a, d, r>> \in w.roles
Manages(w, a, d, r) == AdminOf(w, a, d) \/ \E m \in ManagersOf(r) : Assigned(w, a, d, m)

IsAssigner(w, a, d, c) == <<a, d, c>> \in w.assigners
ManagesAssigners(w, a, d, c) ==
    /\ <<d, c>> \in w.links
    /\ AdminOf(w, a, d) \/ (IsAssigner(w, a, d, c) /\ \E r \in RolesOfShield : Manages(w, a, d, r))
-----------------------------------------------------------------------------
\* getApplicationUserDomainsRoles and getApplicationUserDomainClassifications: the
\* domains are those in which there is a role, whatever classifications there are.
ByDomain(roles, classes) ==
    {[id |-> d, roles |-> {p[2] : p \in {p \in roles : p[1] = d}},
      cls |-> {p[2] : p \in {p \in classes : p[1] = d}}] : d \in {p[1] : p \in roles}}

\* The same pairs, as objects of tuples and as what one may manage.
RolePairs  == Domains \X RolesOfAll
ClassPairs == Domains \X Classes

FlagsOf(w, a) == [f \in UserFlags |-> <<a, f>> \in w.flags]

\* getFormattedOpenFgaUser and getApplicationUserDto; Nothing is NotFoundException.
Formatted(w, a) ==
    LET u == [domains |-> ByDomain({p \in RolePairs : Assigned(w, a, p[1], p[2])},
                                   {p \in ClassPairs : IsAssigner(w, a, p[1], p[2])}),
              flags |-> FlagsOf(w, a)]
    IN IF u.domains = {} /\ \A f \in UserFlags : ~u.flags[f] THEN Nothing ELSE u

\* getApplicationUserManagePermissionsDto: every flag is for administrators to manage.
ManageDto(w, a) ==
    [domains |-> ByDomain({p \in RolePairs : Manages(w, a, p[1], p[2])},
                         {p \in ClassPairs : ManagesAssigners(w, a, p[1], p[2])}),
     flags |-> [f \in UserFlags |-> IsAdmin(w, a)], delete |-> IsAdmin(w, a)]

\* Mutant: taking away is not checked.
FlagCheckedGiven(old, new, f) == new[f]

\* assertHasPermissionForAttributes of an edit: an administrator is edited by
\* administrators only, whatever the edit changes.
FlagChecked(old, new, f) == (f = "is_admin" /\ old[f]) \/ old[f] # new[f]

AttributesPass(w, a, old, new) == \A f \in UserFlags : FlagChecked(old, new, f) => IsAdmin(w, a)

\* assertHasPermissionForDomains, of what the diff adds and takes away.
DomainsPass(w, a, old, new) ==
    \A e \in ToSet(AppDomainsDiff(old, new)) :
       /\ \A r \in e.meta.newRoles \cup e.meta.deletedRoles : Manages(w, a, e.meta.id, r)
       /\ \A c \in e.meta.newCls \cup e.meta.deletedCls : ManagesAssigners(w, a, e.meta.id, c)

\* editApplicationUserByUserId: an edit that changes nothing is not checked at all.
AppEditPasses(w, a, old, new) ==
    \/ AppUserAudit(old, new) = {}
    \/ DomainsPass(w, a, old.domains, new.domains) /\ AttributesPass(w, a, old.flags, new.flags)
-----------------------------------------------------------------------------
\* APPLICATION_USER_DATA_PIPELINE unwinds the domains, joins them and puts them
\* together again; a user without domains is flagged, so that it keeps none.
Rejoined(w, doc) ==
    [user |-> doc.user, admin |-> doc.flags["is_admin"],
     domains |-> [i \in DOMAIN doc.domains |->
                     [name  |-> {doc.domains[i].id} \cap w.stored,
                      roles |-> doc.domains[i].roles]]]

\* formatApplicationUserDataToListDto: every role once.
ListRow(w, doc) ==
    [user |-> doc.user, admin |-> doc.flags["is_admin"],
     roles |-> UNION {doc.domains[i].roles : i \in DOMAIN doc.domains}]

\* A search finds a user, a domain or a role by its name; without one all match.
MatchesSearch(row, search) ==
    search = Nothing \/ search = row.user
    \/ \E i \in DOMAIN row.domains : search \in row.domains[i].name \cup row.domains[i].roles

\* Mutant: the search alone decides.
ShownToAll(w, actor, row) == TRUE

ShownTo(w, actor, row) == IsAdmin(w, actor) \/ ~row.admin

\* getApplicationUsers.  rank is the value of the field to sort by: users of one rank
\* come in an order that the pages of one search share here.
FoundUsers(w, actor, search) ==
    SelectSeq(w.docs, LAMBDA doc : LET row == Rejoined(w, doc)
                                   IN ShownTo(w, actor, row) /\ MatchesSearch(row, search))

UsersPage(w, actor, search, rank, page, size) ==
    LET found  == FoundUsers(w, actor, search)
        sorted == SortSeq(found, LAMBDA a, b : rank[a.user] < rank[b.user])
        last   == IF page * size < Len(sorted) THEN page * size ELSE Len(sorted)
    IN [rows  |-> [i \in 1 .. (IF last < (page - 1) * size THEN 0 ELSE last - (page - 1) * size) |->
                      ListRow(w, sorted[(page - 1) * size + i])],
        total |-> Len(found)]
-----------------------------------------------------------------------------
\* getLoggedUserPermissions, from OpenFGA.
RoleNames(w, a) == {r \in RolesOfShield : \E d \in Domains : Assigned(w, a, d, r)}

\* getLoggedUserPermissionsDisplay, from MongoDB: the role with its domains.  A role in
\* a domain without a document throws (BrokenDisplay).
DocOf(w, a) == {doc \in ToSet(w.docs) : doc.user = a}

RolesDisplay(w, doc) ==
    [r \in RolesOfShield \cap UNION {e.roles : e \in ToSet(doc.domains)} |->
        {e.id : e \in {e \in ToSet(doc.domains) : r \in e.roles}}]

BrokenDisplay(w, doc) ==
    \E e \in ToSet(doc.domains) : e.id \notin w.stored /\ e.roles \cap RolesOfShield # {}

\* Mutant: everybody with a role in a domain is an owner of it.
OwnersAny(w, d) == {doc.user : doc \in {doc \in ToSet(w.docs) : \E e \in ToSet(doc.domains) : e.id = d}}

\* handleLensDomainsOwnerEvents: a message for each of the domains that has an owner.
Owners(w, d) ==
    {doc.user : doc \in {doc \in ToSet(w.docs) :
                            \E e \in ToSet(doc.domains) : e.id = d /\ "amlach" \in e.roles}}

OwnerEvents(w, ids) == {[domain |-> d, owners |-> Owners(w, d)] : d \in {d \in ids \cap w.stored : Owners(w, d) # {}}}

\* The domains a create, an edit or a delete asks for.
OwnerDomains(old, new) ==
    {e.meta.id : e \in {e \in ToSet(AppDomainsDiff(old, new)) : "amlach" \in e.meta.newRoles \cup e.meta.deletedRoles}}
-----------------------------------------------------------------------------
(***************************************************************************)
(* Properties.                                                             *)
(***************************************************************************)

\* What a manager is offered is what an edit by it may change: roles and assigners of a
\* domain, flags, and nothing of an administrator unless it is one.  A classification
\* is managed only where some role is, so that no domain is missing from the offer.
OffersManaged(w, a, old, new) ==
    LET offer == ManageDto(w, a)
        mine(d) == {o \in offer.domains : o.id = d}
        may  == \A e \in ToSet(AppDomainsDiff(old.domains, new.domains)) :
                   /\ e.meta.newRoles \cup e.meta.deletedRoles \subseteq UNION {o.roles : o \in mine(e.meta.id)}
                   /\ e.meta.newCls \cup e.meta.deletedCls \subseteq UNION {o.cls : o \in mine(e.meta.id)}
        flag == \A f \in UserFlags : old.flags[f] # new.flags[f] => offer.flags[f]
    IN AppUserAudit(old, new) # {} =>
          (AppEditPasses(w, a, old, new) <=> may /\ flag /\ (old.flags["is_admin"] => offer.flags["is_admin"]))

\* MongoDB mirrors OpenFGA.
Mirrored(w) ==
    \A doc \in ToSet(w.docs) :
       /\ doc.flags = FlagsOf(w, doc.user)
       /\ {<<e.id, r>> : e \in ToSet(doc.domains), r \in RolesOfAll} \cap
             UNION {{<<e.id, r>> : r \in e.roles} : e \in ToSet(doc.domains)} =
          {<<p[2], p[3]>> : p \in {p \in w.roles : p[1] = doc.user}}

\* A user is shown the same roles by the two stores, when one mirrors the other, and
\* every role with just the domains in which it is held, unless the answer is broken.
RolesShown(w) ==
    Mirrored(w) => \A doc \in {doc \in ToSet(w.docs) : ~BrokenDisplay(w, doc)} :
       LET shown == RolesDisplay(w, doc) IN
       /\ DOMAIN shown = RoleNames(w, doc.user)
       /\ \A r \in DOMAIN shown : shown[r] = {d \in Domains : Assigned(w, doc.user, d, r)}

\* The pages of a search show everyone it finds once, count them all, and show an
\* administrator to administrators only.
UsersPaged(w, actor, search, rank, size) ==
    LET page(p) == UsersPage(w, actor, search, rank, p, size)
        found   == ToSet(FoundUsers(w, actor, search))
        shown   == UNION {{<<p, i>> : i \in DOMAIN page(p).rows} : p \in 1 .. Len(w.docs) + 1}
    IN /\ {page(x[1]).rows[x[2]].user : x \in shown} = {doc.user : doc \in found}
       /\ Cardinality(shown) = page(1).total
       /\ IsAdmin(w, actor) \/ \A x \in shown : ~page(x[1]).rows[x[2]].admin

\* After a change of one user lens knows the owners of every domain that still has one;
\* a domain that has lost its last owner keeps it there, as no message tells.
OwnersTold(w, user, old, new) ==
    LET doc(domains) == [user |-> user, domains |-> domains, flags |-> [f \in UserFlags |-> FALSE]]
        was    == [w EXCEPT !.docs = Append(w.docs, doc(old))]
        is     == [w EXCEPT !.docs = Append(w.docs, doc(new))]
        events == OwnerEvents(is, OwnerDomains(old, new))
    IN \A d \in w.stored :
          LET known == IF \E e \in events : e.domain = d
                       THEN (CHOOSE e \in events : e.domain = d).owners ELSE Owners(was, d)
          IN IF Owners(is, d) = {} THEN known = Owners(was, d) ELSE known = Owners(is, d)
=============================================================================
