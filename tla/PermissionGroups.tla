--------------------------- MODULE PermissionGroups ---------------------------
(***************************************************************************)
(* Permission groups of shield-api: a group is a MongoDB document, who may *)
(* act on it is a set of OpenFGA tuples, and its members are the users     *)
(* whose documents refer to it.  The three stores share no transaction: a  *)
(* request is a sequence of awaited calls, each of them a step here, that  *)
(* interleave with the calls of the other requests.  withRollbacks         *)
(* (packages/shared/server-utils) undoes what a request did before the     *)
(* call that failed.                                                       *)
(*                                                                         *)
(* A call may be answered, refused by the store (a unique name already     *)
(* taken, a tuple that exists already), fail without effect, or fail after *)
(* it took effect (the reply was lost).  The process may crash, and then   *)
(* no rollback runs.                                                       *)
(***************************************************************************)
EXTENDS Naturals, FiniteSets

CONSTANTS
    Groups,      \* ids of permission groups; MongoDB never gives one twice
    Actors,      \* the people who own groups and call the API
    Admins,      \* those with the admin relation on the platform
    Members,     \* the data lake users
    Names,       \* names of groups
    Data,        \* what a group permits: domains, tables and attributes
    NoDoc,       \* no such document
    Reqs,        \* the requests of a behaviour
    Jobs,        \* what a request may ask for
    FaultKinds,  \* the faults that may happen
    MaxFaults,   \* bound: how many of them
    MaxInFlight  \* bound: requests served at the same time

Doc == [name : Names, owner : Actors, coOwners : SUBSET Actors, data : Data]

Ops == {"create", "edit", "delete", "add", "remove", "data"}

\* doc: the new details or data, to: the users to add or to remove.
Job == [op : Ops, g : Groups, by : Actors, doc : Doc, to : SUBSET Members]

ASSUME JobsAssumption  == Jobs \subseteq Job
ASSUME NoDocAssumption == NoDoc \notin Doc
ASSUME BoundAssumption == MaxFaults \in Nat /\ MaxInFlight \in Nat
ASSUME AdminAssumption == Admins \subseteq Actors

VARIABLES
    group,   \* MongoDB: the document of each group, or NoDoc
    tuples,  \* OpenFGA: <<user, relation, group>>
    user,    \* MongoDB: "active" has catalogs.datalake, "deleted" lost it
    refs,    \* MongoDB: the entries of user.permission_groups per group: full
             \* ones, and bare ones, which hold nothing but the group's id
    used,    \* the group ids given so far
    pc,      \* the call a request makes next
    job,     \* what it was asked for
    old,     \* its copy of the group's document
    seen,    \* the users a query of it returned
    make,    \* the createUser calls it has started, by user
    undo,    \* the rollbacks it has registered
    faults

stores == <<group, tuples, user, refs, used>>
locals == <<job, old, seen, make>>
vars   == <<stores, pc, locals, undo, faults>>

Platform == "platform"
Tuple    == (Actors \X {"owner", "co_owner"} \X Groups)
               \cup ({Platform} \X {"platform"} \X Groups)
Undos    == {"unCreate", "details", "owner", "users", "recreate"}
Final    == {"done", "failed", "crashed"}
Calls    == {"create", "writeOwner",
             "canUpdate", "readGroup", "setDetails", "moveOwner", "moveCoOwners",
             "canDelete", "readDoomed", "findMembers", "pullMembers",
             "deleteGroup", "deleteTuples",
             "readForAdd", "canAdd", "findUsers", "makeUsers", "findLacking",
             "pushMembers",
             "readForRemove", "canRemove", "pullMember",
             "readForData", "canSetData", "setData", "reread"}
MakeSteps == {"no", "checkGroup", "findUser", "insert", "revive", "made", "threw"}

NoRefs  == [full |-> 0, bare |-> 0]
In(u, g) == refs[u][g] # NoRefs

TypeOK ==
    /\ group  \in [Groups -> Doc \cup {NoDoc}]
    /\ tuples \subseteq Tuple
    /\ user   \in [Members -> {"absent", "active", "deleted"}]
    /\ refs   \in [Members -> [Groups -> [full : Nat, bare : Nat]]]
    /\ used   \subseteq Groups
    /\ pc     \in [Reqs -> {"new", "rollback"} \cup Calls \cup Final]
    /\ job    \in [Reqs -> Job]
    /\ old    \in [Reqs -> Doc \cup {NoDoc}]
    /\ seen   \in [Reqs -> SUBSET Members]
    /\ make   \in [Reqs -> [Members -> MakeSteps]]
    /\ undo   \in [Reqs -> SUBSET Undos]
    /\ faults \in Nat

-----------------------------------------------------------------------------
(* What OpenFGA holds for a document, and what it answers. *)

OwnerTuple(u, g)   == <<u, "owner", g>>
CoOwnerTuples(S, g) == {<<u, "co_owner", g>> : u \in S}
PlatformTuple(g)   == <<Platform, "platform", g>>
Mirror(d, g) == {OwnerTuple(d.owner, g), PlatformTuple(g)} \cup CoOwnerTuples(d.coOwners, g)

IsAdmin(u, g)   == u \in Admins /\ PlatformTuple(g) \in tuples
CanDelete(u, g) == OwnerTuple(u, g) \in tuples \/ IsAdmin(u, g)
CanUpdate(u, g) == CanDelete(u, g) \/ <<u, "co_owner", g>> \in tuples
CanChangeUsers(u, g) == CanUpdate(u, g)

NameFree(n, g) == \A h \in Groups \ {g} : group[h] # NoDoc => group[h].name # n

(* A database as the service leaves it when nothing is being served. *)
Init ==
    /\ used \in SUBSET Groups
    /\ group \in [Groups -> Doc \cup {NoDoc}]
    /\ \A g \in Groups : group[g] # NoDoc => g \in used /\ NameFree(group[g].name, g)
    /\ \E past \in SUBSET used :  \* deleted groups: their platform tuple stays
          tuples = (UNION {Mirror(group[g], g) : g \in {h \in Groups : group[h] # NoDoc}})
                      \cup {PlatformTuple(g) : g \in past}
    /\ user \in [Members -> {"absent", "active", "deleted"}]
    /\ refs \in [Members -> [Groups -> {NoRefs, [full |-> 1, bare |-> 0]}]]
    /\ \A u \in Members, g \in Groups :
          In(u, g) => user[u] # "absent" /\ group[g] # NoDoc
    /\ pc = [r \in Reqs |-> "new"]
    /\ job \in [Reqs -> Jobs]
    /\ old = [r \in Reqs |-> NoDoc]
    /\ seen = [r \in Reqs |-> {}]
    /\ make = [r \in Reqs |-> [u \in Members |-> "no"]]
    /\ undo = [r \in Reqs |-> {}]
    /\ faults = 0

-----------------------------------------------------------------------------
(* The ways an awaited call may end. *)

Working(r) == \E u \in Members : make[r][u] \notin {"no", "made", "threw"}
InFlight   == {r \in Reqs : pc[r] \notin {"new"} \cup Final \/ Working(r)}

Fault(kind) == /\ kind \in FaultKinds
               /\ faults < MaxFaults
               /\ faults' = faults + 1

\* The call is answered: a rollback may be registered and the request goes on.
Proceed(r, next, undos) ==
    /\ pc' = [pc EXCEPT ![r] = next]
    /\ undo' = [undo EXCEPT ![r] = @ \cup undos]

\* An exception: withRollbacks starts every registered rollback.
Throw(r) ==
    /\ pc' = [pc EXCEPT ![r] = IF undo[r] = {} THEN "failed" ELSE "rollback"]
    /\ undo' = undo

\* A write of permissionGroupModel that leaves the collection as new.
WriteGroup(r, ok, new, next, undos) ==
    /\ UNCHANGED <<tuples, user, refs, used, locals>>
    /\ \/ ok  /\ group' = new /\ Proceed(r, next, undos) /\ UNCHANGED faults
       \/ ~ok /\ Throw(r) /\ UNCHANGED <<group, faults>>
       \/ Fault("refused") /\ Throw(r) /\ UNCHANGED group
       \/ ok /\ Fault("lost") /\ group' = new /\ Throw(r)

\* openFgaService.write, writeTuples, deleteTuples: one atomic request, refused
\* when it writes a tuple that exists or deletes one that does not.
Accepts(W, D) == W \cap tuples = {} /\ D \subseteq tuples

WriteTuples(r, W, D, next, undos) ==
    /\ UNCHANGED <<group, user, refs, used, locals>>
    /\ \/ Accepts(W, D) /\ tuples' = (tuples \ D) \cup W
                        /\ Proceed(r, next, undos) /\ UNCHANGED faults
       \/ ~Accepts(W, D) /\ Throw(r) /\ UNCHANGED <<tuples, faults>>
       \/ Fault("refused") /\ Throw(r) /\ UNCHANGED tuples
       \/ Accepts(W, D) /\ Fault("lost") /\ tuples' = (tuples \ D) \cup W /\ Throw(r)

\* userModel.updateMany over the users of S: $push a full or a bare entry, or
\* $pull all entries.  MongoDB updates each document atomically, but not all of
\* them together, so one whose reply was lost may have reached only some.
Entries(how, g, S) ==
    [u \in Members |->
        IF u \notin S THEN refs[u]
        ELSE [refs[u] EXCEPT ![g] =
                 [full |-> IF how = "full" THEN @.full + 1 ELSE IF how = "pull" THEN 0 ELSE @.full,
                  bare |-> IF how = "bare" THEN @.bare + 1 ELSE IF how = "pull" THEN 0 ELSE @.bare]]]

WriteRefs(r, how, g, S, next, undos) ==
    /\ UNCHANGED <<group, tuples, user, used, locals>>
    /\ \/ refs' = Entries(how, g, S) /\ Proceed(r, next, undos) /\ UNCHANGED faults
       \/ Fault("refused") /\ Throw(r) /\ UNCHANGED refs
       \/ \E P \in SUBSET S : /\ Fault("lost")
                              /\ refs' = Entries(how, g, P)
                              /\ Throw(r)

\* A call that only reads: the request continues with next, or throws.
Read(r, ok, next) ==
    /\ UNCHANGED stores
    /\ \/ ok  /\ Proceed(r, next, {}) /\ UNCHANGED faults
       \/ ~ok /\ Throw(r) /\ UNCHANGED faults
       \/ Fault("refused") /\ Throw(r)

-----------------------------------------------------------------------------
(* A request is taken up.  A create gets the id of its group from the driver. *)

First == [create |-> "create", edit |-> "canUpdate", delete |-> "canDelete",
          add |-> "readForAdd", remove |-> "readForRemove", data |-> "readForData"]

Accept(r) ==
    /\ pc[r] = "new"
    /\ Cardinality(InFlight) < MaxInFlight
    /\ IF job[r].op = "create"
       THEN job[r].g \notin used /\ used' = used \cup {job[r].g}
       ELSE used' = used
    /\ Proceed(r, First[job[r].op], {})
    /\ UNCHANGED <<group, tuples, user, refs, locals, faults>>

-----------------------------------------------------------------------------
(* createPermissionGroup *)

NewDoc(j) == [j.doc EXCEPT !.owner = j.by, !.coOwners = {}]

\* Mutant: no rollback is registered.
CreateGroupForGood(r) ==
    /\ pc[r] = "create"
    /\ LET j == job[r] IN
       WriteGroup(r, NameFree(j.doc.name, j.g), [group EXCEPT ![j.g] = NewDoc(j)],
                  "writeOwner", {})

CreateGroup(r) ==
    /\ pc[r] = "create"
    /\ LET j == job[r] IN
       WriteGroup(r, NameFree(j.doc.name, j.g), [group EXCEPT ![j.g] = NewDoc(j)],
                  "writeOwner", {"unCreate"})

\* Mutant: user and object swapped.
WriteOwnerSwapped(r) ==
    /\ pc[r] = "writeOwner"
    /\ LET j == job[r] IN
       WriteTuples(r, {OwnerTuple(j.g, j.by), PlatformTuple(j.g)}, {}, "done", {})

WriteOwner(r) ==
    /\ pc[r] = "writeOwner"
    /\ LET j == job[r] IN
       WriteTuples(r, {OwnerTuple(j.by, j.g), PlatformTuple(j.g)}, {}, "done", {})

-----------------------------------------------------------------------------
(* editPermissionGroupDetailsById: what changed is computed from the copy.   *)

CheckCanUpdate(r) ==
    pc[r] = "canUpdate" /\ Read(r, CanUpdate(job[r].by, job[r].g), "readGroup")
                        /\ UNCHANGED locals

ReadCopy(r, next) ==
    LET g == job[r].g IN
    /\ Read(r, group[g] # NoDoc, next)
    /\ old' = [old EXCEPT ![r] = IF group[g] = NoDoc THEN @ ELSE group[g]]
    /\ UNCHANGED <<job, seen, make>>

ReadGroup(r) == pc[r] = "readGroup" /\ ReadCopy(r, "setDetails")

\* Mutant: an update that inserts when there is nothing to update.
WithDetailsUpserted(g, d) ==
    [group EXCEPT ![g] = IF @ = NoDoc THEN d ELSE [d EXCEPT !.data = group[g].data]]

WithDetails(g, d) == IF group[g] = NoDoc THEN group
                     ELSE [group EXCEPT ![g] = [d EXCEPT !.data = group[g].data]]

CoOwnersAdded(r)   == job[r].doc.coOwners \ old[r].coOwners
CoOwnersRemoved(r) == old[r].coOwners \ job[r].doc.coOwners
CoOwnersNext(r)    == IF CoOwnersAdded(r) \cup CoOwnersRemoved(r) = {} THEN "done"
                      ELSE "moveCoOwners"

SetDetails(r) ==
    /\ pc[r] = "setDetails"
    /\ LET g == job[r].g  d == job[r].doc IN
       WriteGroup(r, group[g] = NoDoc \/ NameFree(d.name, g), WithDetails(g, d),
                  IF old[r].owner # d.owner THEN "moveOwner" ELSE CoOwnersNext(r),
                  {"details"})

\* Mutants: the old owner stays; its tuple is deleted if it is still there; the
\* rollback is not registered.
MoveOwnerAdds(r) ==
    /\ pc[r] = "moveOwner"
    /\ WriteTuples(r, {OwnerTuple(job[r].doc.owner, job[r].g)}, {}, CoOwnersNext(r), {"owner"})

MoveOwnerLeniently(r) ==
    /\ pc[r] = "moveOwner"
    /\ LET g == job[r].g IN
       WriteTuples(r, {OwnerTuple(job[r].doc.owner, g)},
                   {OwnerTuple(old[r].owner, g)} \cap tuples, CoOwnersNext(r), {"owner"})

MoveOwnerForGood(r) ==
    /\ pc[r] = "moveOwner"
    /\ LET g == job[r].g IN
       WriteTuples(r, {OwnerTuple(job[r].doc.owner, g)}, {OwnerTuple(old[r].owner, g)},
                   CoOwnersNext(r), {})

MoveOwner(r) ==
    /\ pc[r] = "moveOwner"
    /\ LET g == job[r].g IN
       WriteTuples(r, {OwnerTuple(job[r].doc.owner, g)}, {OwnerTuple(old[r].owner, g)},
                   CoOwnersNext(r), {"owner"})

MoveCoOwners(r) ==
    /\ pc[r] = "moveCoOwners"
    /\ LET g == job[r].g IN
       WriteTuples(r, CoOwnerTuples(CoOwnersAdded(r), g), CoOwnerTuples(CoOwnersRemoved(r), g),
                   "done", {})

-----------------------------------------------------------------------------
(* deletePermissionGroupById *)

CheckCanDelete(r) ==
    pc[r] = "canDelete" /\ Read(r, CanDelete(job[r].by, job[r].g), "readDoomed")
                        /\ UNCHANGED locals

ReadDoomed(r) == pc[r] = "readDoomed" /\ ReadCopy(r, "findMembers")

See(r, S) == /\ seen' = [seen EXCEPT ![r] = S]
             /\ UNCHANGED <<job, old, make>>

FindMembers(r) ==
    /\ pc[r] = "findMembers"
    /\ Read(r, TRUE, "pullMembers")
    /\ See(r, {u \in Members : In(u, job[r].g)})

\* Mutant: leaves the soft-deleted users alone, as the lists of users do.
PullActiveMembers(r) ==
    /\ pc[r] = "pullMembers"
    /\ LET g == job[r].g IN
       WriteRefs(r, "pull", g, {u \in Members : In(u, g) /\ user[u] = "active"},
                 "deleteGroup", {"users"})

PullMembers(r) ==
    /\ pc[r] = "pullMembers"
    /\ LET g == job[r].g IN
       WriteRefs(r, "pull", g, {u \in Members : In(u, g)}, "deleteGroup", {"users"})

DeleteGroup(r) ==
    /\ pc[r] = "deleteGroup"
    /\ LET g == job[r].g IN
       WriteGroup(r, group[g] # NoDoc, [group EXCEPT ![g] = NoDoc], "deleteTuples", {"recreate"})

DeleteTuples(r) ==
    /\ pc[r] = "deleteTuples"
    /\ LET g == job[r].g IN
       WriteTuples(r, {}, {OwnerTuple(old[r].owner, g)} \cup CoOwnerTuples(old[r].coOwners, g),
                   "done", {})

-----------------------------------------------------------------------------
(* addPermissionGroupToUsers.  The users that have no data lake access are   *)
(* created by calls of createUser that run side by side; when one of them    *)
(* throws the request fails at once, and the others go on.                   *)

ReadForAdd(r) == pc[r] = "readForAdd" /\ ReadCopy(r, "canAdd")

\* assertCanChangeGroupsUsers; the permissions on the group's data, which
\* are kept elsewhere, may be there or not.
MayChangeUsers(r, next) ==
    \E dataPermitted \in BOOLEAN :
        Read(r, CanChangeUsers(job[r].by, job[r].g) /\ dataPermitted, next)

CheckCanAdd(r) == pc[r] = "canAdd" /\ MayChangeUsers(r, "findUsers") /\ UNCHANGED locals

FindUsers(r) ==
    LET active == {u \in job[r].to : user[u] = "active"} IN
    /\ pc[r] = "findUsers"
    /\ Read(r, TRUE, "makeUsers")
    /\ seen' = [seen EXCEPT ![r] = active]
    /\ make' = IF pc'[r] # "makeUsers" THEN make
               ELSE [make EXCEPT ![r] = [u \in Members |-> IF u \in job[r].to \ active
                                                           THEN "checkGroup" ELSE "no"]]
    /\ UNCHANGED <<job, old>>

Making(r, u, from, to) ==
    /\ make[r][u] = from
    /\ make' = [make EXCEPT ![r][u] = to]
    /\ UNCHANGED <<group, tuples, used, pc, undo, job, old, seen>>

\* createUser's own checks: the group exists, its users may be changed.
MakeCheckGroup(r, u) ==
    LET g == job[r].g
        ok == group[g] # NoDoc /\ CanChangeUsers(job[r].by, g) IN
    /\ UNCHANGED <<user, refs>>
    /\ \/ Making(r, u, "checkGroup", IF ok THEN "findUser" ELSE "threw") /\ UNCHANGED faults
       \/ Making(r, u, "checkGroup", "threw") /\ Fault("refused")

MakeFindUser(r, u) ==
    /\ UNCHANGED <<user, refs>>
    /\ \/ /\ Making(r, u, "findUser", CASE user[u] = "active"  -> "threw"
                                       [] user[u] = "deleted" -> "revive"
                                       [] user[u] = "absent"  -> "insert")
          /\ UNCHANGED faults
       \/ Making(r, u, "findUser", "threw") /\ Fault("refused")

\* The new document, or the $set over a soft-deleted one, has this one group.
Made(r, u) ==
    /\ user' = [user EXCEPT ![u] = "active"]
    /\ refs' = [refs EXCEPT ![u] = [g \in Groups |-> IF g = job[r].g
                                                     THEN [full |-> 1, bare |-> 0]
                                                     ELSE NoRefs]]

MakeWrite(r, u, from) ==
    \/ Making(r, u, from, "made")  /\ Made(r, u) /\ UNCHANGED faults
    \/ Making(r, u, from, "threw") /\ Made(r, u) /\ Fault("lost")
    \/ Making(r, u, from, "threw") /\ UNCHANGED <<user, refs>> /\ Fault("refused")

\* user_id is unique: somebody else may have inserted it meanwhile.
MakeInsert(r, u) ==
    \/ user[u] = "absent" /\ MakeWrite(r, u, "insert")
    \/ user[u] # "absent" /\ Making(r, u, "insert", "threw") /\ UNCHANGED <<user, refs, faults>>

MakeRevive(r, u) == MakeWrite(r, u, "revive")

JoinUsers(r) ==
    /\ pc[r] = "makeUsers"
    /\ \/ /\ \A u \in Members : make[r][u] \in {"no", "made"}
          /\ Proceed(r, "findLacking", {})
       \/ /\ \E u \in Members : make[r][u] = "threw"
          /\ Throw(r)
    /\ UNCHANGED <<stores, locals, faults>>

\* Mutant: the filter on those that are members already is dropped.
FindAll(r) ==
    /\ pc[r] = "findLacking"
    /\ Read(r, TRUE, "pushMembers")
    /\ UNCHANGED locals

FindLacking(r) ==
    /\ pc[r] = "findLacking"
    /\ Read(r, TRUE, "pushMembers")
    /\ See(r, {u \in seen[r] : ~In(u, job[r].g)})

PushMembers(r) ==
    /\ pc[r] = "pushMembers"
    /\ WriteRefs(r, "full", job[r].g, seen[r], "done", {})

-----------------------------------------------------------------------------
(* deletePermissionGroupFromUser *)

ReadForRemove(r) == pc[r] = "readForRemove" /\ ReadCopy(r, "canRemove")

CheckCanRemove(r) == pc[r] = "canRemove" /\ MayChangeUsers(r, "pullMember") /\ UNCHANGED locals

PullMember(r) ==
    /\ pc[r] = "pullMember"
    /\ WriteRefs(r, "pull", job[r].g, job[r].to, "done", {})

-----------------------------------------------------------------------------
(* editPermissionGroupDataPermissionsById *)

ReadForData(r) == pc[r] = "readForData" /\ ReadCopy(r, "canSetData")

CheckCanSetData(r) ==
    /\ pc[r] = "canSetData"
    /\ \E dataPermitted \in BOOLEAN :
          Read(r, CanUpdate(job[r].by, job[r].g) /\ dataPermitted, "setData")
    /\ UNCHANGED locals

SetData(r) ==
    /\ pc[r] = "setData"
    /\ LET g == job[r].g IN
       WriteGroup(r, TRUE,
                  IF group[g] = NoDoc THEN group
                  ELSE [group EXCEPT ![g] = [@ EXCEPT !.data = job[r].doc.data]],
                  "reread", {})

Reread(r) == pc[r] = "reread" /\ Read(r, group[job[r].g] # NoDoc, "done") /\ UNCHANGED locals

-----------------------------------------------------------------------------
(* The rollbacks of withRollbacks run side by side; one that fails is logged *)
(* and the others go on.  The request fails when all of them have ended.     *)

Undoing(r, k) ==
    /\ pc[r] = "rollback"
    /\ k \in undo[r]
    /\ undo' = [undo EXCEPT ![r] = @ \ {k}]
    /\ pc' = [pc EXCEPT ![r] = IF undo[r] = {k} THEN "failed" ELSE "rollback"]
    /\ UNCHANGED <<user, used, locals>>

UndoGroup(r, k, ok, new) ==
    /\ Undoing(r, k)
    /\ UNCHANGED <<tuples, refs>>
    /\ \/ ok /\ group' = new /\ UNCHANGED faults
       \/ ~ok /\ UNCHANGED <<group, faults>>
       \/ Fault("refused") /\ UNCHANGED group

UndoCreate(r) == UndoGroup(r, "unCreate", TRUE, [group EXCEPT ![job[r].g] = NoDoc])

UndoDetails(r) ==
    LET g == job[r].g IN
    UndoGroup(r, "details", group[g] = NoDoc \/ NameFree(old[r].name, g),
              WithDetails(g, old[r]))

UndoDelete(r) ==
    LET g == job[r].g IN
    UndoGroup(r, "recreate", group[g] = NoDoc /\ NameFree(old[r].name, g),
              [group EXCEPT ![g] = old[r]])

\* Mutant: takes the new owner away and gives nothing back.
UndoOwnerTakes(r) ==
    LET D == {OwnerTuple(job[r].doc.owner, job[r].g)} IN
    /\ Undoing(r, "owner")
    /\ UNCHANGED <<group, refs, faults>>
    /\ tuples' = tuples \ D

UndoOwner(r) ==
    LET g == job[r].g
        W == {OwnerTuple(old[r].owner, g)}
        D == {OwnerTuple(job[r].doc.owner, g)} IN
    /\ Undoing(r, "owner")
    /\ UNCHANGED <<group, refs>>
    /\ \/ Accepts(W, D) /\ tuples' = (tuples \ D) \cup W /\ UNCHANGED faults
       \/ ~Accepts(W, D) /\ UNCHANGED <<tuples, faults>>
       \/ Fault("refused") /\ UNCHANGED tuples

\* $push of { id } alone, to the users that were members before the $pull.
UndoPull(r) ==
    /\ Undoing(r, "users")
    /\ UNCHANGED <<group, tuples>>
    /\ \/ refs' = Entries("bare", job[r].g, seen[r]) /\ UNCHANGED faults
       \/ Fault("refused") /\ UNCHANGED refs

-----------------------------------------------------------------------------
(* The rest of the world. *)

\* deleteUserById: takes catalogs.datalake away, and leaves the groups.
DeleteUser(u) ==
    /\ user[u] = "active"
    /\ user' = [user EXCEPT ![u] = "deleted"]
    /\ UNCHANGED <<group, tuples, refs, used, pc, locals, undo, faults>>

\* The process ends with whatever it was serving, and is started again.
Crash ==
    /\ InFlight # {}
    /\ Fault("crash")
    /\ pc' = [r \in Reqs |-> IF r \in InFlight THEN "crashed" ELSE pc[r]]
    /\ make' = [r \in Reqs |-> [u \in Members |-> "no"]]
    /\ undo' = [r \in Reqs |-> {}]
    /\ UNCHANGED <<stores, job, old, seen>>

\* Nothing is being served, and maybe nothing more will be asked.
Idle == InFlight = {} /\ UNCHANGED vars

Create(r) == CreateGroup(r) \/ WriteOwner(r)
Edit(r)   == \/ CheckCanUpdate(r) \/ ReadGroup(r) \/ SetDetails(r)
             \/ MoveOwner(r) \/ MoveCoOwners(r)
Delete(r) == \/ CheckCanDelete(r) \/ ReadDoomed(r) \/ FindMembers(r)
             \/ PullMembers(r) \/ DeleteGroup(r) \/ DeleteTuples(r)
Make(r, u) == \/ MakeCheckGroup(r, u) \/ MakeFindUser(r, u)
              \/ MakeInsert(r, u) \/ MakeRevive(r, u)
Add(r)    == \/ ReadForAdd(r) \/ CheckCanAdd(r) \/ FindUsers(r)
             \/ \E u \in Members : Make(r, u)
             \/ JoinUsers(r) \/ FindLacking(r) \/ PushMembers(r)
Remove(r) == ReadForRemove(r) \/ CheckCanRemove(r) \/ PullMember(r)
EditData(r) == ReadForData(r) \/ CheckCanSetData(r) \/ SetData(r) \/ Reread(r)
Rollback(r) == \/ UndoCreate(r) \/ UndoDetails(r) \/ UndoDelete(r)
               \/ UndoOwner(r) \/ UndoPull(r)

Serve(r) == \/ Accept(r) \/ Create(r) \/ Edit(r) \/ Delete(r)
            \/ Add(r) \/ Remove(r) \/ EditData(r) \/ Rollback(r)

Next == \/ \E r \in Reqs : Serve(r)
        \/ \E u \in Members : DeleteUser(u)
        \/ Crash
        \/ Idle

Spec == Init /\ [][Next]_vars

-----------------------------------------------------------------------------
(* Properties *)

AtRest == InFlight = {}

\* A group never has two owners in OpenFGA, whatever requests overlap, calls
\* fail or crashes happen: each transfer deletes the tuple it replaces in the
\* same atomic write, and the write is refused when that tuple is gone.
OneOwner ==
    \A g \in Groups, u, v \in Actors :
        OwnerTuple(u, g) \in tuples /\ OwnerTuple(v, g) \in tuples => u = v

\* A group whose deletion was reported as done is gone for good: no rollback of
\* an overlapping request brings back its document or an owner of it.
DeletedForGood ==
    \A r \in Reqs : pc[r] = "done" /\ job[r].op = "delete" =>
        /\ group[job[r].g] = NoDoc
        /\ \A u \in Actors : OwnerTuple(u, job[r].g) \notin tuples

\* However edits and deletes overlap, a group that exists and is not just being
\* created or deleted has an owner in OpenFGA, so somebody other than an admin
\* can still manage it.
LiveGroupOwned ==
    \A g \in Groups :
        /\ group[g] # NoDoc
        /\ \A r \in InFlight : job[r].g = g => job[r].op \notin {"create", "delete"}
        => \E u \in Actors : OwnerTuple(u, g) \in tuples

\* When requests are served one at a time, OpenFGA ends up with exactly the
\* owner and co-owners of the documents, also after a call was refused.
MirrorAtRest ==
    AtRest => \A g \in Groups :
        {t \in tuples : t[3] = g} \ {PlatformTuple(g)} =
            IF group[g] = NoDoc THEN {} ELSE Mirror(group[g], g) \ {PlatformTuple(g)}

\* A user refers only to groups that exist: createUser and editUser refuse
\* others with "Can't add permssion groups that don't exist".
NoDanglingGroup ==
    AtRest => \A u \in Members, g \in Groups : In(u, g) => group[g] # NoDoc

\* No user is in one group twice: addPermissionGroupToUsers picks only users
\* that lack it, and the rollback of a delete restores each entry once.
NoDoubleEntry ==
    AtRest => \A u \in Members, g \in Groups : refs[u][g].full + refs[u][g].bare <= 1

\* Every entry says who gave it and when, as the schema of users requires, unless
\* a delete of its group has failed: the rollback of that pushes the id alone.
EntriesComplete ==
    AtRest => \A u \in Members, g \in Groups :
        refs[u][g].bare > 0 =>
            \E r \in Reqs : pc[r] = "failed" /\ job[r].op = "delete" /\ job[r].g = g
=============================================================================
