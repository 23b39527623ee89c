# Shield: specifications and proofs

Shield manages who may see what in a data lake.  The repository is a TypeScript
monorepo; its core is `apps/shield-api` (NestJS), which keeps its state in several
stores that share no transaction:

- **MongoDB** holds users, application users, permission groups, permission tables,
  domains, classifications, tables and tasks;
- **OpenFGA** holds relation tuples that say who may administer what;
- **Redis** caches the users dictionary and values for row filters;
- Trino, OPA, Kafka, Keycloak and the *lens* service are called from outside.

What is hard about it is not any one function.  A request is a chain of `await`ed
calls to several stores; the event loop interleaves the chains of concurrent
requests, each call may fail, and a failed chain is compensated by `withRollbacks`
rather than by a transaction.  The unit tests of the repository
(`table.utils.unit.spec.ts`, `user.utils.unit.spec.ts`, `metadata.unit.spec.ts`)
cover pure helpers only.  The specifications are about the chains.

## Inventory

Paths are relative to `src/apps/shield-api/src/` unless they start with `packages/`
or `apps/`.

| component | state | operations | interacts with | what makes it correct |
|---|---|---|---|---|
| permission groups (`permission_groups/`) | group documents; tuples `owner`, `co_owner`, `platform`; `permission_groups` entries of users | create, edit details, edit data, delete, add users, remove a user | users (`createUser`), OpenFGA, users cache, auditing | one owner per group; a live group has an owner; a deleted one stays deleted; stores agree after a failed request |
| `withRollbacks` (`packages/shared/server-utils`) | the rollbacks of one request | register, run all on an exception | every service that writes to two stores | whatever was done before the failing call is undone |
| OpenFGA client (`packages/services/openfga-client`) | none | atomic `write`; `*Batch` in chunks of 100 | OpenFGA | a batch is not atomic: callers must cope with a prefix |
| application users (`application_users/`) | tuples of roles on domains and classifications; a MongoDB mirror | create, edit, delete, sync from OpenFGA; lists, own roles, owners of domains | OpenFGA, lens events | the mirror agrees with the tuples; nobody gives what he may not |
| users (`user/`, `admin/`) | user documents, soft deletion by unsetting `catalogs.datalake`; `can_write` tuples of schemas | create, edit, clone, block, delete, drop a domain, catalogs, schemas | groups, tables, cache, Trino, auditing | no resurrection, no permission given that the actor lacks, API users yield to people |
| lists of users (`users.aggregations.ts`) | none | list, search, dictionary pipelines | MongoDB | they are what a join gives; every user on one page |
| merged permissions (`packages/shared/shield/utils`) | none | merge with groups, where clauses, previews, diffs | server, client, excel | what is shown is what is enforced |
| users dictionary (`user/user.service.ts`, Redis) | one cached value with a 15 minute TTL | read through, invalidate | every write to a user | a stale entry goes away |
| tables and tasks (`tables/`, `tasks/`) | table documents with columns; open and done classification tasks | upsert from lens, edit, deprecate, close a task | domains, OPA tags, auditing | a table with an unclassified column has one open task |
| domains, classifications (`domains/`, `classifications/`) | documents; hierarchy tuples | create, edit, rename, attach a classification to domains | OpenFGA | every domain and listed classification has its tuple |
| permission tables (`permission_tables/`) | dimension values in Trino and Redis | look-ups, tree building | Trino, Redis, client | every value is in the tree once |
| auditing (`auditing/`) | a log that is only appended to | record a change | every service | the log leads from the state before to the state after |
| shield-bay (`apps/shield-bay`) | none | listings, one page per request | MongoDB | a consumer gets every row |
| shield-client (`apps/shield-client`, `packages/shared/ui`) | React state, cached queries | classify a table, edit a user or a group, copy a user | shield-api | what is saved is what was chosen; what is shown settles |
| roles, secret, contact us, user info, excel, auth, Kafka, OPA, Trino, migrations | none, or single writes | look-ups | | |

The behaviours that are hard to test, each at its line, are the `hazards` of
`PROJECT.json`.

## Modules

    OwnerToken                what ownership of groups promises (abstract)
    PermissionGroups          the permission groups and their three stores
      PermissionGroupsOwner     ... implements OwnerToken
        MCPermissionGroups        small instances
        PermissionGroupsProofs    types; one owner; the refinement; a deleted group
                                  stays deleted; live ones are owned; for all constants
      PermissionGroupsSerial    ... watched while requests are served one at a time
        MCPermissionGroupsSerial  one by one, or in contest for a group
                                  (PermissionGroupsProofs: stores agree; a failure
                                  changes nothing)
    ApplicationUsers          the grants of application users and their mirror
      MCApplicationUsers        small instances
      ApplicationUsersProofs    types, permitted changes, guarded admins, syncs that
                                restore, the mirror, for all constants
    Users                     the documents of users and their schemas
      MCUsers                   small instances
      UsersProofs               types, revocation, API users, permitted changes,
                                  creates, schemas
    UsersDictionary           the users dictionary in Redis
      MCUsersDictionary         a small instance
      UsersDictionaryProofs     types; why an entry is out of date; own writes are read
    Domains                   domains, classifications and their tuples
      Tables                    tables and their tasks, over Domains
        MCTables                  a small instance
        TablesProofs              types; only permitted edits; nothing taken away;
                                    tuples mirror domains; tasks match; one document;
                                    columns of the domain
    MergedPermissions         pure: merged views, of the client and of the dictionary
      UserPermissions -> UserViews               pure: where clauses, previews, for any user
    UserListing                                  pure: pipelines of the lists of users
    PermissionDiffs           pure: differences of permissions and their audit
      UserDiffs -> ResourceDiffs -> BayTables    pure: row filters, other diffs, exports
    MergedPermissionsProofs   lemmas on both: what the merges and the diffs compute
    TableViews -> GrantViews, AppUserViews       pure: what is offered and let through
    RowFilterTree                                pure: values of row filters
    Export                    a consumer that pages while documents change
    MCAlgorithms              all of these, over bounded inputs
    AlgorithmsProofs          of any export, what it misses and repeats, and why; of any
                                user, that what is shown is what is enforced
    ClassificationPopup, UserPopup, GroupScreen  the three screens of the client
      MCClient                  one browser with one of them in use
      ClientProofs              saves pass, lists settle, internal tables stay, what was
                                announced is true; the list of groups settles and a form
                                loses no owner; a form saves what was picked, every
                                change, for the user it names

`TableViews` extends `UserPermissions` and `ResourceDiffs`; `UserPopup` extends
`MergedPermissions` and `PermissionDiffs`, so the form computes with the definitions that the
algorithms run checks; `Tables` extends `Domains`, so that a request on a table
interleaves with one that changes the classifications of its domain.

### PermissionGroups

*State.*  `group`, `user`, `refs` are the MongoDB collections (`refs[u][g]` counts the
entries of group `g` in the document of user `u`, whole ones and ones that hold only
the id); `tuples` is OpenFGA.  Per request, `job` is what was asked, `pc` the call it
makes next, `old` its copy of the group, `seen` the users a query returned, `make` the
`createUser` calls of a `Promise.all`, `undo` the registered rollbacks.

*Actions.*  One per awaited call, in the order of the code; what the code does between
two awaits belongs to the action of the call before.  `Read`, `WriteGroup`,
`WriteTuples` and `WriteRefs` say how a call may end: answered, refused (a duplicate
name, a tuple that exists or is missing, or any failure without effect), or lost
(it took effect and the caller got an error; an `updateMany` may have reached some of
the documents).  An exception starts every registered rollback (`Throw`); they run
side by side, one action each, and one that fails is logged and forgotten.  `Crash`
ends everything that is being served, and no rollback runs.

*Abstractions.*  Domains, tables and attributes of a group are one value (`Data`), and
whether the caller may grant them is either answer (`dataPermitted`).  Names of owners,
descriptions and colours are left out.  Audit records and the invalidation of the users
cache have no reader here.  In `createUser` the look-ups of Trino and of user info are
part of the check before the write.

*Served one at a time.*  `PermissionGroupsSerial` adds two history variables that change
nothing in a behaviour: `alone` says that no two requests have been in flight together, and
`before` is the state of the three stores when the last request was taken up.  `AllOrNothing`
compares the stores after a failure with it.

### OwnerToken and its refinement

Ownership of a group is a token: given once, handed on, retired for good.
`PermissionGroupsOwner` maps the holder to the user of the owner tuple; the platform
tuple, written with the first owner and never deleted, tells a deleted group from one
without a past.

### ApplicationUsers

*State.*  `tuples[u]` are the grants of user `u` in OpenFGA: roles in a domain,
classifications in a domain (*assigners*), and attributes of the platform; `doc[u]` is
the user's document, the *mirror*.  Documents are identified by `user_id`, which is
unique.  Per request, `job` is what was asked, `pc` the call it makes next, `todo` the
queries of a `Promise.all` that have no answer yet, `got` and `copy` what the answered
ones said, `batch` the changes of grants that remain to be sent, `undo` whether the
rollback is registered.

*Actions.*  One per awaited call.  Queries sent side by side are answered one by one in
any order (`ReadTuples`, `ReadMongo`, `ReadAssigners`), so what a request knows of a user
need not have been true at any one moment.  `Check` compares, asks for the permissions
and decides; `SendChunk` is one write of a batch, in the order of `writeBatch`; the
rollback is registered only when the last chunk was answered (`Sent`).  `Insert`,
`Update`, `FindDoc`, `Remove`, `ReadBack` follow; `UndoChunk` is one write of the
rollback.  `syncRead`, `syncRoles`, `syncAssigners`, `syncSave`, `syncDelete` are the
steps of `syncMongoFromOpenFga`; `Saved` is what mongoose writes for an overwritten
document: the paths that changed since it was read.  `Visible` is what
`getFormattedOpenFgaUser` makes of tuples: a classification shows only under a domain
in which the user has a role.

*Abstractions.*  A create asks for the permissions before it reads and an edit after;
the model has one order, since neither step writes.  Who may manage what
(`MayManage`) does not change during a run: that the permissions of the *actor* may be
taken away between check and write is left out.  Look-ups of role ids and of user
info before the first write are part of the check.  A sync saves users in any order.
Names, dates, audit records and events to lens are left out.

### UsersDictionary

*State.*  `users` is MongoDB, `dict` the entry of Redis, `queue[p]` the commands a
process has handed to its Redis connection.  What users are is the set of the changes
in effect: a dictionary is up to date iff it was computed with the same ones.  A reader
is a slot that serves one read after the other (`StartRead`, `Aggregate`, `Fill`); a
writer is one request that changes users or a group (`StartWrite`, `Write`, then
`ReadBack` or `Grant`, perhaps `Undo`, and `Invalidate`).

*Actions.*  Every await is a step.  The SET of a read and the DEL of a change are not
awaited: `Fill` and `Invalidate` append them to the queue and the request answers.
`Execute` is Redis taking the first command of a connection; `Resend` executes it and
leaves it there, as ioredis sends a command again whose reply did not come; `Refuse` is
the error that the proxy of `ioredis.module.ts` swallows.  `Expire` is the end of the
15 minutes.  `asOf`, `late`, `before`, `deleted` and `dropped` are history: they say
which DELs Redis executed before an aggregation, which between it and the SET, which
changes were answered when a read came, and which DELs were lost.

*Kinds of changes.*  `plain` writes and invalidates: block, delete, edit, clone, the
operations on catalogs and domains, and on members and data of groups.  `readBack` is
`createUser`, which reads the user it answers with before it invalidates and may throw
there.  `compensated` are the two operations of `admin.service.ts` and the deletion of
a group: what follows the write may fail, the write is undone, and nothing is
invalidated.

*Abstractions.*  Changes do not overwrite each other here.  A call that loses its reply
differs from a refused one only where its effect is read, so it appears for `Write`
alone.  Several processes are not documented anywhere, and nothing in the code forbids
them; the properties hold for one as well.

### Users

*State.*  `doc` is the users collection, a document or `NoDoc`; a deleted user is a
document whose `lake` (`catalogs.datalake`) is `Absent`.  `writers` are the `can_write`
tuples of schemas.  Per request: `pc`, `job`, the document as it was read (`copy`), the
destinations a clone has still to write (`todo`), and the history variable `missed`: who
has written a document the request is about since it read it.

*Actions.*  A request reads and checks in one step (`Read...`) and writes in another
(`Write...`), without looking again; `Delete` and the other single atomic updates are one
step.  `CopyTo` writes one destination of a clone's `bulkWrite`, `CopyFails` ends it,
`Audit` is the un-awaited audit.  `WriteSchemas`, `WriteTuple`, `TupleFails` and `Undo`
are the two stores of the admin API.  `EndProcess` is what Node does when a promise that
nobody awaits is rejected: every request ends where it stands.

*Abstractions.*  Row filters of a permission table are one value, names are left out,
and OpenFGA's answers about actors do not change, so that the check and the read are one
step.  The answer, which reads the document again, changes nothing.

### MergedPermissions, UserPermissions, UserListing, PermissionDiffs, UserDiffs

Pure operators.  `MergedPermissions` merges a user with its groups as the client shows it
and as the dictionary stores it; `UserPermissions` computes from it the rows of the excel and
of the where clauses and the two previews; `UserViews` says of what users, and makes the properties invariants of one that does not change.
`UserListing` evaluates the aggregation pipelines stage by stage (`$unwind`, `$lookup`,
`$group`, and the flags that tell an empty list from one that was unwound), the search and
its pages.  `PermissionDiffs` has the diffs and the audit entries made of them, `UserDiffs` the
check and naming of row filters.  Each states what it computes against a reference that is written
independently (a join, a union, replaying the audit entry on the old value).

### ResourceDiffs, BayTables, Export

`ResourceDiffs` does for tables and application users what `PermissionDiffs` does for users.
`BayTables` is the listings of shield-bay, as sets of rows.  `Export` is the one process
among the algorithms: a consumer asks page by page, while keys are added, change their
number of rows, and go; `first`, `touched`, `grown`, `shrunk` and `split` are history that
says which rows it ought to get exactly once (`ExactlyOnce`) and which way it errs
otherwise (`OneWayOnly`).

### TableViews, AppUserViews, GrantViews, RowFilterTree

What the server offers (lists, dialogs, suggestions, groups, copies) against what the
server then lets through: the two are different functions in the code, and the properties
say that what is offered passes.  `RowFilterTree` has both tree builders (server and
client), the search, unfolding and the values that stay checked when the search changes or
values are read anew.

### Domains and Tables

*State.*  `listed` and `titles` are the collections of domains and classifications,
`links` and `rooted` their tuples; `table` and `tasks` the collections of tables and
tasks.  History: `hurt` has the domains for which a tuple could not be written or a list
computed from an old copy was saved; `mixed` the names of tables that requests worked on at
a time; `settled` the tables whose tasks a person closed or whose task write failed.

*Actions.*  One per awaited call: an upsert reads, computes the work on tasks
(`TaskWork`), writes the tables, then the tasks one by one; an edit checks, saves and
closes the task, which it awaits, so that a failure there fails the request although the
table was saved (`CloseFails`); a deprecation marks tables and deletes their tasks, and its compensation is
built but never sent (`DropFails`).

*Abstractions.*  Masks travel with classifications; Kafka is a stub; the audit entry is in
`ResourceDiffs`.

### ClassificationPopup, UserPopup, GroupScreen

*State.*  The server's documents; what the browser has cached of them (`list`, `hints`,
`shown`), the query on its way (`fetch`), the form, the calls under way.  Counters date
what is shown (`written`, `mine`; `changes` and `acknowledged` in `GroupScreen`).  The two
lists that open the popup of a table are different screens (`screen`): while that of tasks is
open nothing holds the query of the list of tables, whose cached answer stays (`list`), may be
invalidated (`stale`) and may be dropped in time (`Forget`).

*Actions.*  One per event a React component handles: opening, the arrival of an answer, an
edit in a dialog, submitting, the success and failure callbacks of a mutation (which write
the cache, invalidate queries or close the popup), and the steps of other people on the
server.  `OptionsArrive` is the effect that keeps a form's permission tables in line with its
domains.  A request or its answer may be lost.  `Refetch` is `invalidateQueries` after a save: if
the list's screen is open, a fetch on its way is given up for another; if not, it is left alone,
and a list that was served before the save may come after it.  `EditClasses` and
`EditValues` submit a dialog with the options that have come, or with none while they load: the
save button does not wait for them.  `CanSaveUser` has the two warnings that stand in place of
the button of a user's form, for nobody and for a user without domains.

*Abstractions.*  A request is one step of the server here; its interleavings are in
`Tables`, `Users` and `PermissionGroups`.  Rendering, validation messages and icons are
left out.

## Runs

| run | instance | shows |
|---|---|---|
| `groups_faults` | 2 requests at a time out of 15 kinds, 1 fault of any kind | `TypeOK`, `OneOwner`, `DeletedForGood`, the refinement `OwnerIsToken` |
| `groups_serial` | 2 requests one after the other, or 3 that contend for one group; 1 refused call | `StoresAgree`, `AllOrNothing` (one by one), `LiveGroupOwned` (both) |
| `groups_two_deletes` | 2 deletes, no fault | violated: `NoDanglingGroup` |
| `appusers_faults` | create, edit, delete at a time and a sync alone; chunks of 1, 1 fault of any kind | `TypeOK`, `OnlyPermitted`, `SyncRestores` |
| `appusers_serial` | create, edit, delete, sync one after the other on 2 users, or overlapping creates; 1 refused call | `GrantsMirrored`, `NoHiddenGrants`, `AdminsGuarded` |
| `appusers_hidden` | 2 edits at a time, no fault | violated: `NoHiddenGrants` |
| `dictionary` | 1 reader slot, a `readBack` and a `compensated` change, 2 processes, 2 faults of any kind | `TypeOK`, `StaleExplained`, `ReadsOwnWrites`, `EventuallyFresh` |
| `users` | 3 requests at a time out of 24 about a user in 6 states, 1 refused call | `CreateOnce`, `SchemasSound`, `OnlyPermitted`, `ApiUsersYield`, `RevocationHolds` |
| `users_clone` | one clone onto a user that may exist | violated: `ConflictAnswered` |
| `tables` | 2 requests on tables or domains and an upsert at a time, 1 failing call or crash | `LinksMirror`, `TasksMatch`, `ClassesOfDomain`, `TablesSound`, `OnlyAdded`, `OnlyPermittedEdits` |
| `algorithms` | every bounded input of the pure modules; an export of 3 documents | `UsersViewed`, `UsersListed`, `ChangesTold`, `ScreensTrue`, `PagesExported` |
| `client` | one browser and one of three screens, other people's writes, 1 lost request or answer | `CurrentSavePasses`, `ScreensSettle`, `VerificationTold`, `InternalUntouched`, `OnlyPicks`, `NamedChangeSaved`, `GroupsKept` |

Several of these are conjunctions of properties that are named and explained where they are
defined: `StoresAgree` of `MirrorAtRest`, `NoDanglingGroup`, `NoDoubleEntry` and
`EntriesComplete`; the invariants of `MCAlgorithms` and `UserViews` and the three of `MCClient` that
its last section lists; `SchemasSound` and `TablesSound`, which add the types.

*Bounds of the groups.*  Two people are enough for an owner to change and change back; a
second group id for a name to be taken; one member and one user without access for
every branch of `addPermissionGroupToUsers`.  Two requests give every pair of calls in
every order, the third of the contest an edit, its rollback and a delete at once.

*Bounds of the application users.*  One grant of each kind: a role and a classification
of one domain, and `isAdmin`; two actors, of whom one manages all of them and the other
not `isAdmin`.  A request that has ended makes room for the next one, so the number of
requests is not bounded, only how many overlap.  Chunks of one tuple tear every batch at
every place; a second user only for the sync, the one operation that touches several.
`SyncsAlone` and `Apart` narrow the interleavings to those for which the promise is made;
what happens outside them is under *Known limits*.  `View` leaves out what requests that
have ended once knew, which `Accept` forgets; requests are symmetric.

*Bounds of the users.*  The user is unknown, live with and without permissions, given by a
person or by a system, blocked, or deleted; `u2` is only the source of clones.  Two domains,
so that one is out of the clerk's reach; a person with all rights, one with some, and a
system.  Three requests: a third is needed for a write between the read and the write of
another while a first has already answered.

*Bounds of the tables.*  One name and two ids, so that a name can come to have two
documents; two columns, one of which a table may lack; two domains with a classification
each; an admin and a clerk of one domain.  The third request is always the same upsert, the
operation that touches tables and tasks in bulk.  A request on domains alone does not
depend on tables and starts from none.

*Bounds of the algorithms.*  Two or three ids of everything, among them one that does not
exist in the collection it refers to; lists up to two or three elements, in both orders
where order matters.

*Bounds of the client.*  `focus` of `MCClient` picks one screen for a behaviour: they share nothing but
the server and are not open together.  The popup of a table is opened from both lists, and its
person goes from one to the other (`Go`), so that saves are answered with and without a screen that
holds the list.  A change of rights and a lost answer count together (`MaxTroubles`).  The counters (`MaxWrites`, `MaxOpens`, `MaxEdits`, `MaxTroubles`,
`MaxUserSteps`, `MaxGroupSteps`, ...) allow a write of somebody else before and after
the user's own, and a lost answer between.  In the form of a user a second lookup under way
counts as a step (`Steps`): what it mixes up is known and excepted, so it needs no two
edits and a write besides.  Of the two stores it starts from, the second has both people, so
that a user who was looked up as unknown can be stored by somebody else before the lookup ends.

*Bounds of the dictionary.*  One reader slot is enough for two fills at a time: its SET
may still wait in the queue of one process while it reads through the other.  Two
changes allow one that is refused and one that is answered around the same fill.  Two
faults, so that a DEL can be lost and a SET resent.  Before the first change there is no
user, hence no dictionary (`EmptyStates`).  Every reason `StaleExplained` and
`ReadsOwnWrites` allow occurs: without any one of them the run finds a violation.

*Fairness.*  `EventuallyFresh` assumes `WF_vars(Expire)` and nothing else: every SET has
`EX 900`, and Redis lets such an entry go whatever the service does.  It is not assumed
that a request, a queue or a retry makes progress.  It says that changes which have
stopped are not hidden for good; they have stopped since each writer makes one.

*Faults.*  In the groups, application users and users one fault (`MaxFaults`) reaches every
error path; a second one only makes a rollback fail, which the code answers with a log line.
Deadlock is checked where the service rests in a step of its own (`Idle`, `Done`), so that a
request that could not go on would be reported; not in `tables` and `client`, where each
request and each bounded dialog is finite and everything really stops.

## Findings

Each is a run that ends in a violation, with the line and the sentence it contradicts in
`PROJECT.json`.

- `groups_two_deletes`: two overlapping deletes leave users that refer to the deleted group.
  The second fails on `deletedCount === 0`, and its rollback pushes the references back
  (`permission_groups.service.ts:326`).
- `appusers_hidden`: two overlapping edits leave a classification in a domain without a role
  there; the service does not see it, so no request takes it away.
- `users_clone`: a clone onto a user that exists throws in an async callback of `forEach`
  (`user.service.ts:1215`); nobody catches the rejection, which ends the process.

### Read off the code while modelling

Groups and application users.  The rollback of a delete pushes `{id}` alone
(`permission_groups.service.ts:326`), an entry that the schema of `models/user.ts` does not
allow; the groups' check of attributes is not awaited, since `assertCanChangeGroupsUsers`
gives `Promise.all` an array of arrays (`:456`); an edit may take the last grant of an
application user away (`application_users.service.ts:1240`), which only a create refuses:
such a user is listed, but neither edit nor delete finds it until a sync; the rollback of a
delete sends all tuples in one write (`:1326`), beyond the limit that made the delete send
them in chunks; lens is not told when a domain loses its last amlach (`:793`).

Users.  A system's edit removes tables it leaves out even if a person changed them last, and
may change the mask with a list that lacks the locked domains; anybody may set the mask of a
user without domains; the lookup of Trino data has its guard inverted
(`user-info.service.ts:66`), so that every numeric id gets none.

Lists and exports.  A page of users is cut before deleted users are filtered, while the
count includes them; a filter on a domain wants all its classifications from one listing; a
dangling group makes the parse of the whole list fail; the projection of the dictionary
drops `blocked`, so that the check for it never triggers.  In shield-bay page 1 of an empty
listing is a 404, one row that fails the schema fails its page, `columns` is sorted by a
key it lacks, and changes of groups and domains are not exported as actions.  Removing a row
filter altogether is not logged.

Tables and domains.  A failed delete of tasks is not compensated, and later yields two tasks;
an edit that takes a classification back does not reopen the task; an edit without stages
announces a verified table as not verified; a domain whose tuple could not be written stays
and cannot be used; two overlapping edits of a domain lose a classification; edits of
tables drop `is_key`; nothing makes names of tables unique.

Client.  The popup of a table can be saved before the table is there, and its list then shows
a table as classified; a failed save closes the popup.  After a save from the list of tasks a list
of tables that was on its way is let in, although it may be older than the save, and
counts as valid (`ClassificationPopup.tsx:489`): `OwnSaveShown` excepts it by name
(`overtaken`).  A dialog of classifications or of row filter values that is saved while its
options load takes away all own ones (`AddClassificationsPopup.tsx:51`,
`AddRowFiltersPopup.tsx:47`): `OnlyPicks` excepts what it held (`hasty`).  The removal of the
last domain of a user cannot be saved (`SaveUserPopup.tsx:50`), which `ChangeSavable`
excepts.  In the form of a user two lookups
at once show the id of the second over the document of the first
(`ManageUserPopup.tsx:83`), which `SavesTheNamed` excepts by name; a dialog whose fields are
disabled keeps its save button and copies a group's values into the user; taking a domain
out and back loses its values; a change of a domain that only groups give does not by itself
enable the save button; the whole user is sent, so that an old copy overwrites what others
did.  In the form of a group an owner who passes it to a co-owner drops out of the
co-owners (`EditPermissionGroupsPopup.tsx:151`), and a deleted group may come back into the
list until it is asked for again.  The tree of row filters keeps the values it was mounted
with visible until the search changes, and a parent that is `""` or 0 is a root on the
server but not in the client.

## Proofs

`tlapm` checks, for every set of groups, people, users, tables, domains and requests, and
every bound:

- `PermissionGroupsProofs!TypeCorrect`: `Spec => [](TypeOK /\ CopyKept)`.  `TypeOK` alone
  is not inductive: `setDetails` and its rollback write the copy `old` into the
  collection, so it must be a document by then, which is `CopyKept`.
- `OneOwnerAlways`: `Spec => []OneOwner`.  The inductive invariant adds `PlatformMarks`
  (a group with an owner has its platform tuple), without which `writeOwner` could add
  a second owner.  The argument goes through `TupleStep`: every step of the system
  leaves the tuples alone, appoints, moves an owner, recasts co-owners, or drops.
- `OwnershipIsToken`: `Spec => OwnerIsToken`, by mapping each kind of `TupleStep` to a
  step of the token or a stutter.
- `DeletionIsFinal`: `Spec => []DeletedForGood`.  Only the rollback of a delete and the
  insert of a create could bring a document back.  The invariant says that a request
  which holds that rollback, or has answered a delete, found the document, so there is
  none now and no second such request (`ClosedGone`); that a create works on an id
  nobody has seen (`Fresh`); and that the platform tuple, which stays, keeps a new owner
  from being written (`Orphaned`).
- `OwnerlessExplained`: `Spec => []OwnedOrUnfinished`, under every fault.  A document is
  without an owner when a create has inserted it and when a delete gives it back, and the
  owner is taken only after the document; so an ownerless group is left by a create
  that did not write its owner or by a delete that failed.  `Controlled` says which
  operation may be at which step and hold which rollback.
- `RefusalKeepsOwner`: `ASSUME OneRefusal PROVE Spec => []LiveGroupOwned`, where `OneRefusal`
  is the setting of `groups_serial` with any number of requests, all overlapping: at most one
  call fails, and it fails without effect.  The property does not hold without it: a create
  whose owner tuple and whose rollback both fail leaves a group without an owner, and so does
  one that loses the reply to its insert, or a crash after it.  The invariant `Whole` says that a create in its rollback has
  used up the refusal, so that the rollback works (`CreatesUndone`); that deletes of a group
  begin after its platform tuple, hence after its create (`Unwritten`, `DeletesKnown`); and
  that a delete which could give the document back has left the owner (`OwnerKept`), which
  needs `ClosedGone` again: no second delete can take it meanwhile.
- `StoresAgreeAlways` and `FailureChangesNothing`: `ASSUME OneRefusal PROVE SerialSpec =>
  []StoresAgree`, and the same of `AllOrNothing`.  `SerialSpec` restricts nothing: it is `Spec`
  with the history variables, and the properties speak of behaviours while `alone` holds.  The
  invariant `SerialParts` says of the one request in flight, at each of its calls, how the
  stores differ from the snapshot: by the changes whose rollbacks it has registered, and by no
  others (`OwnCreate`, `OwnEdit`, `OwnDelete`).  A call that is answered makes its change and
  registers the rollback in one step; a call that is refused does neither, and has used up the
  refusal, so that every rollback works and takes its own change back, in whichever order they
  run: in the end there is none left and no difference.  The snapshot is one of stores that
  agree (`Sound`), and a request that ends well leaves them so (`Settled`).  That names of groups
  stay apart (`NamesApart`) is needed because the rollback of an edit writes the old name again,
  and the unique index would refuse it.
- `ApplicationUsersProofs!TypeCorrect`: `Spec => []TypeOK`.  It needs `Phases`: a request
  that sends changes is a create, an edit or a delete, or `AfterSend` would not apply.
- `OnlyPermittedChanges`: `Spec => OnlyPermitted`.  The invariant `Checked` says of every
  request that what is left of its batch was checked, that whatever its rollback would
  send was checked too, and that it has no rollback while it still reads; the last part
  is needed because the rollback is computed from what was read.
- `SyncsRestore`: `SyncSpec => SyncRestores`, where `SyncSpec` lets nothing overlap a sync and
  everything else happen.  `SyncKnows` says of each call what the sync has read by then: the
  documents as they are, all grants of the relations that were answered (`Known`), hence who
  is to be listed (`KnownListed`), and of the saved users the row that was meant.  That a
  query of MongoDB is not taken for one of a relation is `QueriesAssumption`; that it saves
  what it computed although mongoose writes only what changed is `SavedNew`.
- `AdminsAreGuarded`: `Spec => AdminsGuarded`, under every fault.  As long as only one request
  has been served at a time, what it has read of each answered relation is what there is, so
  that a check compares with exactly the tuples (`Knowing`) and asks for isAdmin when the
  user has it (`AskedForAdmin`); from then on, rollback included, it may (`Guarded`).
- `MirrorKept` and `NothingHidden`: `ASSUME Setting PROVE SerialSpec => []GrantsMirrored`, and
  the same of `NoHiddenGrants`.  `Setting` is that of `appusers_serial` for requests served one
  after the other: at most one call fails, and it fails without effect; a batch fits into one
  write; an edit leaves its user a grant.  Each part is needed: a lost reply leaves tuples
  without a document, so does the second chunk that is refused, and an edit to nothing leaves a
  document that makes the next create fail.  `Midway` says of each call what tuples and document
  the user has and what the rollback would send, and that a rollback has used up the
  refusal, so that it works; `Agrees` of everyone else that document and tuples are the same,
  except for the document that the one refused create left behind.
- `UsersDictionaryProofs!TypeCorrect`: `Spec => []TypeOK`, with `FillHasEntry`: a reader
  about to send a SET has computed a dictionary.
- `StaleAlwaysExplained`: `Spec => []StaleExplained`.  A fill is under way in a reader
  or a queue before it is an entry, so the invariant says the same of fills
  (`FillsCoherent`), with the DELs executed since the aggregation in the place of
  `late`.  That a DEL executed before the aggregation excuses nothing needs
  `DonesInEffect` (the change of an answered request stays in effect, and only answered
  requests have their DEL executed) and `DelsByDones`.  `ExcusesKept` carries the
  argument: a step ends an excuse only by executing the DEL, which leaves no entry.
- `OwnWritesRead`: `Spec => []ReadsOwnWrites`.  `OwnInv` follows the GET through the queue of its
  process.  The DEL of each change answered before the read is executed, dropped, or ahead
  of the GET in the same queue (`Behind`); a command that is sent again is still the first,
  so the DEL is executed at least once before the GET.  What Redis then answers was aggregated
  with the change or has its DEL in `late` (`EntryKnows`), and what the reader aggregates
  itself has it (`FillsKnow`).
- `UsersProofs!TypeCorrect`: `Spec => []TypeOK`, with `Ready`: the copy a request works on
  is one that it checked, and a request that read a document still finds one, which its
  write needs to leave a document.
- `RevokedStayRevoked`, `ApiEditsYield` and `ChangesPermitted`: `RevocationHolds`,
  `ApiUsersYield` and `OnlyPermitted` of `Users`.  All three rest on `Fresh`: as long as a
  request has missed no write, what it read is what there is (a clone: its destinations are
  still not live), so that what a write computes need only be compared with the document
  it was computed from.  `Frame` shows that a step of another request keeps `Fresh` or is
  noted in `missed`.  What remains is pure: the create, the edit, the removal of a domain
  and the clone stay within what was checked (`CreatedWithin`, `EditedWithin`, ...).
- `CreatedOnce`: `Spec => []CreateOnce`.  A user that a create has made stays in the data lake
  until a delete (`CreatedStay`), so a create that reads later refuses, and of two that both
  get to their write one has read before the other wrote, which `missed` records
  (`OneMissed`).
- `SchemasMirrored`: `Spec => []SchemasSound`.  The invariant speaks of the time between the two
  writes: exactly the schema of the request differs, its tuple is the one of the copy
  (`HalfWay`), and no second request is at the same place without having missed a write
  (`OneHalf`).  So both the tuple and the write of the copy that answers its failure bring
  document and tuples together.
- `TablesProofs!TypeCorrect`: types of `Tables` and `Domains`, with `StepsOf` (which steps
  an operation has), `CopiesThere` and `CopiesAsked` (the table a request has read stays,
  under the name it was asked for).
- `ClassificationsOnlyAdded`: `Spec => OnlyAdded`.  An edit of a domain that was computed
  from what is there adds only (`EditsAdd`); otherwise the domain is in `hurt`.
- `TuplesMirrorDomains`: `Spec => []LinksMirror`.  At every moment the tuples that are there
  and those that requests still owe are together those of the documents (`Mirrored`); a
  classification is created with one id, for domains that exist (`Creating`), and what was
  found stays there (`FoundThere`), since no request removes a domain.
- `TasksFollow`, `ColumnsOfDomain` and `OneDocumentEach`: `TasksMatch`, `ClassesOfDomain` and
  `TablesSound`, from the one inductive invariant `TasksInv` (`TasksSound`).  As long as a name is
  not `mixed`, what a request has read of it is what there is (`CopiesFresh`), so the
  documents and the work on tasks that it computes from its copies can be compared
  with the collections: they keep names unique (`NamesUnique`), columns within the list of
  the domain (`ClassesListed`), and the work that is left makes the tasks fit whichever
  task it takes (`PendingFits`); where no work is left they fit (`AllFit`).
- `EditsPermitted`: `Spec => OnlyPermittedEdits`.  `EditsChecked` says that what an edit is
  about to write was permitted for its copy; the tuples it was checked with only grow
  (`TuplesGrow`), and a write of another request marks the name as `mixed`
  (`WritesMark`), so that otherwise the copy is the table as it is.

- `ClientProofs!TypeCorrect`, `CurrentSavesPass`, `InternalStays`: `PopupTypeOK`,
  `CurrentSavePasses` and `InternalUntouched` of `PopupSpec`, which the run `client` explores for one
  person; here for several at once.  The invariant `LoadedFirst` says
  of every row which classifications it may hold (`Picked`): what was loaded, or else both
  that and the row are empty, the suggestion, or among the options.  Each kind of edit keeps
  it (`CellAllowed`, `AppliedAllowed`, `RevertedAllowed`, `FilledAllowed`).  An internal
  column always has the default mask (`Masked`), since only an upsert writes one.
- `VerificationsTold` is inductive with the types.  `ScreensSettled` is made of
  `OwnSavesShown` and `TasksNotLost`.  The first rests on `ListsDated`: a list that
  is shown, or on its way, is not older than the own save, unless it is marked as late: it was on
  its way when a save was answered and the screen did not hold it.  One that is dated with the last
  write and was served shows the table, as every write counts.
- `ClientProofs!GroupsKeptAlways`: `GroupSpec => []GroupsKept`, for any number of edits,
  requests and losses.  A list that is dated with the last change shows the groups; the answer to a
  deletion moves the date of the list without asking for it again, so the invariant says of
  the list that is one change older that it shows the groups once the deleted row is taken out
  (`Exact`), and of the deleted group that its id does not come back (`Gone`).  `Dated` orders
  the dates: what is on its way is no older than what was acknowledged.  Of the form,
  `FormKept` says that its row is that of the list until it is noted as moved, so that the
  entries its fields protect are those it was started with, and `CallsKept` that a request
  carries on what its form kept.
- `ClientProofs!OnlyPicksAlways` and `NamedChangeAlwaysSaved`: `FormSpec => []OnlyPicks` and
  `FormSpec => []NamedChangeSaved`, for any users, groups, domains, tables and values and any
  number of edits, lookups, writes and losses.  The inductive invariant `FormInv` has the types
  (`FormTypes`), what is known of lookups (`FormLookups`), and, unless the form was crossed,
  `Uncrossed`: it differs from what it is compared with only by what was picked or lost,
  that is dropped or held by a dialog that was saved too early (`PickedOnly`, `LostBy`), and its name and document are those of one lookup.  `FormLookups` dates every
  lookup with the writes there were when its user turned out to be unknown: the answer about
  SAP comes later, and by then somebody may have stored the user, so that the form must not be
  dated with the answer.  Each dialog is shown to move the own permissions by exactly what it
  notes (`Moves`, with one lemma per kind: `DomainMoves`, `ValueMoves`, `OptionsMoves`, ...),
  which needs the merged view to say what is direct: a source of the view is `Direct` iff the
  own permissions have the classification (`OwnInView`).  That a change can be saved is the
  contrapositive: if the diffs of the merged lists are empty, the lists have the same
  members (`SameDomains`, `SameTables`, from `CalcDiffIs`: each item is paired with the one of its
  key), and a list in the order of the server determines the map it was made of
  (`SameDomainLists`, `SameFilters`, `SameTableLists`).
- `AlgorithmsProofs!PagesAlwaysExported`: `ExportSpec => []PagesExported`, for any number of documents,
  rows and changes and any size of a page.  The rows of a key begin at the sum of those before
  it; that `Sums` has its recursive equation, grows, and follows its function is proved by
  induction on sets of numbers (`SumsExist`, `KeyInduction`), from the library's `WFMin`.
  A key that no page has split lies before the position that is read next, and was read, or behind
  it, and was not.  If nothing up to it changed it cannot cross that position (`StableAt`);
  if no document grew it can only move towards what was read (`NotTwiceAt`), and if none shrank
  only away from it (`NotMissedAt`).  The legacy audit needs two facts more: rows that were read
  before the count are still those of the page (`PageAt`), and a count that was read before the
  rows has all that was there when the export began.
- `AlgorithmsProofs!UsersAlwaysViewed`: `ViewsSpec => []UsersViewed`, for users with any number
  of domains, permission tables and groups, any row and any edit.  The code merges entry after
  entry into a map; each merge is shown to be a set over the first `n` entries (`ViewOf`,
  `DictOf`, `TablesOf`, `AttrsOf`), one step at a time (`ViewStep`, `DictStep`, `TablesStep`,
  `AttrsStep`), which shows that the recursive function exists and, by induction, what it is.  The
  entries of groups are concatenated (`FlatRange`), so the view and the dictionary are sets of
  the same entries (`SameEntries`), and the tables of a user alone are a part of those with its
  groups (`TablesGrow`).  `ViewAlwaysEnforced`, `GroupsAlwaysAddRows` and `PreviewsAlwaysAgree`
  are the three parts.

The lemmas on the merges and on the diffs that both this and the form rest on are in
`MergedPermissionsProofs`.

Assumptions: `Readers` and `Writers` are disjoint, `NoEntry` is not an entry, `Jobs` are
well typed, the values that stand for something absent are not documents, entries or
contents, `Internal` is not a classification of a domain, the kinds of grants are disjoint, no
relation has the name of the query of MongoDB,
bounds are natural, `Vacant` and `Retired` are not people.  The `UserPopupAssumption` says that the
lists of the server have everything once, that groups and first users have permissions of the
kinds there are, and that people, groups and `EmptyUser` have different ids.  The `FirstAssumption` of
`ClassificationPopup` gives internal columns the default mask, as upserts do; that of `Tables`
says of the collections it starts from what requests leave behind when none overlaps another
and none fails: names are unique, tasks fit, columns have listed classifications.  All are named
and evaluated by TLC.  The theorems with a hypothesis are `RefusalKeepsOwner`, `StoresAgreeAlways`
and `FailureChangesNothing` (`OneRefusal`), `MirrorKept` and `NothingHidden` (`Setting`).

Only model-checked:

- Of `GrantsMirrored` and `NoHiddenGrants`, the part about overlapping creates; the theorems
  are about requests served one after the other.
- `EventuallyFresh`, a liveness property: outside the prover's reach.
- Of the run `algorithms`, the lists, diffs and offers (`UsersListed`, `ChangesTold`,
  `ScreensTrue`).  Most of their definitions pass operators to `SelectSeq` and to folds, which
  the provers cannot expand.  Of the diffs of permissions, which are recursive functions, it is
  proved what they pair and that they are empty only for equal lists, not that the audit made
  of them can be replayed.

## Known limits of what holds

`StoresAgree` and `AllOrNothing` are checked for requests served one
at a time, because they do not hold otherwise: of two edits that read the same copy
the loser writes its copy's owner back into the document while OpenFGA keeps the
winner's; two overlapping additions both push an entry; a lost reply leaves an effect
whose rollback was never registered.  Co-owner tuples of a deleted group can stay
behind when an edit overlaps the delete.

`GrantsMirrored` is checked for requests served one at a time and for overlapping
creates.  Overlapping edits leave the tuples with the changes of both and the mirror with
the wish of the last; a torn batch leaves its first chunks; a sync that overlaps a
create may delete the new document, and one that overlaps an edit writes what it read
before.  An edit may take everything away (`editApplicationUserDto`, unlike
`createApplicationUserDto`, demands no grant): the document stays, empty, and the user
cannot be created again until a sync.  The next sync repairs all of these, except hidden
classifications (`SyncRestores`).  `AdminsGuarded` speaks of requests served one at a time:
a rollback may touch a user who became an admin meanwhile.

The properties of `Users` except the requests that missed a write, and `Torn` says when
schemas and tuples may differ: a create or a clone starts the document afresh and leaves
the tuples.  Those of `Tables` except tables that requests worked on at a time (`mixed`), whose
tasks a person closed or a call failed to write (`settled`), and domains in `hurt`;
`LinksMirror` also assumes that the domains named to `createClassification` exist.  The
exceptions are as narrow as the code allows: without any one of them the run finds a
violation.

The service writes and reads the relation `assigner` of `domain_classification`
(`openfga.service.ts:131`), and so do the generated types; `openfga/shield.fga:19` calls
it `assigners`.  The model follows the service.

## Not modelled

- The lists of SAP tables and SAP users: an insert and a delete of one call each.
- User info, roles, secret, contact us: look-ups and single writes without interaction.
- Excel: the layout of a spreadsheet; what it holds is computed by the merge functions of
  `UserPermissions`.
- Authentication and guards: configuration of NestJS and Keycloak.  Which check an operation
  makes is in the action of the operation.
- Kafka (a stub), OPA, Trino and the clients of other services: they pass requests on.
  Their failing calls are in the modules of the callers.
- PostgreSQL schema and migrations: a store no service uses yet, and scripts that ran once.
- The generator of OpenFGA types, seeds, configurations, loggers.
- Of the client: layout, texts, the forms of application users and of contact.  The state
  of those forms is local, and the rules they follow are those of `AppUserViews`.
- Of auditing: the insertion, whose errors are swallowed; nothing reads the log to decide.

## What is left

- A proof for overlapping creates of application users.
- An abstract specification of the tables' tasks, to which `Tables` would be a refinement:
  `TasksInv` is the invariant that its refinement mapping needs.
