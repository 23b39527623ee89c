--------------------------- MODULE ApplicationUsers ---------------------------
(***************************************************************************)
(* Application users of shield-api: those who administer the data lake.    *)
(* What one may do is a set of OpenFGA tuples, its grants; MongoDB keeps a *)
(* copy of them, the mirror, which the lists of the application read.      *)
(* Creating, editing and deleting an application user reads its grants,    *)
(* writes the difference to OpenFGA in chunks, and then the mirror;        *)
(* a sync rebuilds the whole mirror from OpenFGA.                          *)
(*                                                                         *)
(* A request is a sequence of awaited calls, each of them a step here.     *)
(* Queries that the code sends with Promise.all are answered in any order. *)
(* A call may be answered, refused without effect, or lost (it took effect *)
(* and the caller got an error); the process may crash.                    *)
(***************************************************************************)
EXTENDS Naturals, FiniteSets

CONSTANTS
    Users,        \* application users
    Actors,       \* the people who call the API
    RoleGrants,   \* grants of a role in a domain
    Assigners,    \* grants of a classification in a domain
    Attributes,   \* grants on the platform
    Admin,        \* the attribute isAdmin
    DomainOf,     \* the domain of each role grant and assigner
    Relation,     \* the relation of each grant's tuple
    MayManage,    \* the grants an actor may give and take
    NoDoc,        \* no such document
    Reqs,         \* as many requests are served at the same time
    Jobs,         \* what a request may ask for
    ChunkSize,    \* MAX_TUPLES_CHUNK_SIZE, also the limit of one write
    FaultKinds,   \* the faults that may happen
    MaxFaults     \* bound: how many of them

Grants    == RoleGrants \cup Assigners \cup Attributes
RelationsOf(S) == {Relation[g] : g \in S}
Relations == RelationsOf(Grants)
Change    == {"write", "delete"} \X Grants
Ops       == {"create", "edit", "delete", "sync"}
Job       == [op : Ops, u : Users, by : Actors, grants : SUBSET Grants]

VARIABLES
    tuples,   \* OpenFGA: the grants of each user
    doc,      \* MongoDB: the grants in the user's document, or NoDoc
    pc,       \* the call a request makes next
    job,      \* what it was asked for
    todo,     \* of calls it sent side by side, those without an answer
    got,      \* the grants it has read, by user
    copy,     \* the documents it has read, by user
    batch,    \* the changes of grants it still has to send
    undo,     \* whether it has registered its rollback
    faults

locals == <<job, todo, got, copy>>
vars   == <<tuples, doc, pc, locals, batch, undo, faults>>

-----------------------------------------------------------------------------
(* What a set of grants is, and what of it the service sees. *)

\* isApplicationUserSet
IsSet(G) == G \cap (RoleGrants \cup Attributes) # {}

\* A classification is listed under a domain in which the user has a role.
Visible(G) ==
    (G \ Assigners) \cup
    {c \in G \cap Assigners : \E g \in G \cap RoleGrants : DomainOf[g] = DomainOf[c]}

\* createApplicationUserDto: a domain comes with at least one role; a create
\* has to grant something.
WellFormed(j) == /\ j \in Job
                 /\ Visible(j.grants) = j.grants
                 /\ j.op = "create" => IsSet(j.grants)

ASSUME JobsAssumption    == Jobs # {} /\ \A j \in Jobs : WellFormed(j)
ASSUME GrantsAssumption  == /\ Admin \in Attributes
                            /\ RoleGrants \cap Assigners = {}
                            /\ Attributes \cap (RoleGrants \cup Assigners) = {}
ASSUME ActorsAssumption  == MayManage \in [Actors -> SUBSET Grants]
ASSUME QueriesAssumption == "mongo" \notin Relations  \* the query that is not OpenFGA's
ASSUME NoDocAssumption   == \A G \in SUBSET Grants : NoDoc # G
ASSUME BoundAssumption   == /\ ChunkSize \in Nat \ {0}
                            /\ MaxFaults \in Nat

Docs  == (SUBSET Grants) \cup {NoDoc}
Calls == {"readUser", "check", "send", "insert", "update", "findDoc", "remove",
          "readBack", "syncRead", "syncRoles", "syncAssigners", "syncSave",
          "syncDelete"}
Final == {"done", "failed", "crashed"}

TypeOK ==
    /\ tuples \in [Users -> SUBSET Grants]
    /\ doc    \in [Users -> Docs]
    /\ pc     \in [Reqs -> {"new", "rollback"} \cup Calls \cup Final]
    /\ job    \in [Reqs -> Job]
    /\ todo   \in [Reqs -> SUBSET (Relations \cup {"mongo"} \cup Users)]
    /\ got    \in [Reqs -> [Users -> SUBSET Grants]]
    /\ copy   \in [Reqs -> [Users -> Docs]]
    /\ batch  \in [Reqs -> SUBSET Change]
    /\ undo   \in [Reqs -> BOOLEAN]
    /\ faults \in Nat

\* The mirror of a set of grants.
MirrorOf(G) == IF IsSet(G) THEN Visible(G) ELSE NoDoc

Init ==
    /\ tuples \in [Users -> {G \in SUBSET Grants : Visible(G) = G}]
    /\ doc = [u \in Users |-> MirrorOf(tuples[u])]
    /\ pc = [r \in Reqs |-> "new"]
    /\ job = [r \in Reqs |-> CHOOSE j \in Jobs : TRUE]
    /\ todo = [r \in Reqs |-> {}]
    /\ got = [r \in Reqs |-> [u \in Users |-> {}]]
    /\ copy = [r \in Reqs |-> [u \in Users |-> NoDoc]]
    /\ batch = [r \in Reqs |-> {}]
    /\ undo = [r \in Reqs |-> FALSE]
    /\ faults = 0

-----------------------------------------------------------------------------
(* What a create, an edit or a delete changes. *)

Seen(r)   == Visible(got[r][job[r].u])
Target(r) == IF job[r].op = "delete" THEN {} ELSE job[r].grants

\* Mutant: takes only the roles and attributes away.
ChangesOfRoles(r) == ({"write"} \X (Target(r) \ Seen(r)))
                        \cup ({"delete"} \X ((Seen(r) \ Target(r)) \ Assigners))

\* getApplicationUserDiff and generateApplicationUserTuples
Changes(r) == ({"write"} \X (Target(r) \ Seen(r)))
                 \cup ({"delete"} \X (Seen(r) \ Target(r)))

\* Mutant: the parts of a change swapped.
ReverseSwapped(B) == {<<x[2], x[1]>> : x \in B}

Reverse(B) == {<<IF x[1] = "write" THEN "delete" ELSE "write", x[2]>> : x \in B}

GrantsIn(B, o) == {x[2] : x \in {y \in B : y[1] = o}}

\* writeBatch sends writes before deletes, and of each the roles first, then
\* the assigners, then the attributes.
Rank(x) == (IF x[1] = "write" THEN 0 ELSE 3)
              + (IF x[2] \in RoleGrants THEN 1 ELSE IF x[2] \in Assigners THEN 2 ELSE 3)

IsNextChunk(C, B) ==
    /\ C \subseteq B
    /\ Cardinality(C) = IF Cardinality(B) < ChunkSize THEN Cardinality(B) ELSE ChunkSize
    /\ \A x \in C, y \in B \ C : Rank(x) =< Rank(y)

-----------------------------------------------------------------------------
(* The ways an awaited call may end. *)

InFlight == {r \in Reqs : pc[r] \in Calls \cup {"rollback"}}

Fault(kind) == /\ kind \in FaultKinds
               /\ faults < MaxFaults
               /\ faults' = faults + 1

Proceed(r, next) == /\ pc' = [pc EXCEPT ![r] = next]
                    /\ UNCHANGED <<batch, undo>>

\* An exception: withRollbacks runs the rollback, if it is registered.
Throw(r) ==
    /\ pc' = [pc EXCEPT ![r] = IF undo[r] THEN "rollback" ELSE "failed"]
    /\ batch' = [batch EXCEPT ![r] = IF undo[r] THEN Reverse(Changes(r)) ELSE {}]
    /\ undo' = [undo EXCEPT ![r] = FALSE]

\* A call that only reads.
Read(r, ok, next) ==
    /\ UNCHANGED <<tuples, doc>>
    /\ \/ ok  /\ Proceed(r, next) /\ UNCHANGED faults
       \/ ~ok /\ Throw(r) /\ UNCHANGED faults
       \/ Fault("refused") /\ Throw(r)

\* A write of applicationUserModel that leaves the collection as new.
WriteDoc(r, ok, new, next) ==
    /\ UNCHANGED tuples
    /\ \/ ok  /\ doc' = new /\ Proceed(r, next) /\ UNCHANGED faults
       \/ ~ok /\ Throw(r) /\ UNCHANGED <<doc, faults>>
       \/ Fault("refused") /\ Throw(r) /\ UNCHANGED doc
       \/ ok /\ Fault("lost") /\ doc' = new /\ Throw(r)

\* One write of OpenFGA is atomic; it is refused when it writes a tuple that
\* exists, deletes one that does not, or holds too many.
Accepts(u, C) == /\ GrantsIn(C, "write") \cap tuples[u] = {}
                 /\ GrantsIn(C, "delete") \subseteq tuples[u]
                 /\ Cardinality(C) =< ChunkSize

WithChanges(u, C) ==
    [tuples EXCEPT ![u] = (@ \ GrantsIn(C, "delete")) \cup GrantsIn(C, "write")]

-----------------------------------------------------------------------------
(* A request is taken up; its first queries are sent side by side: those of  *)
(* getFormattedOpenFgaUser, and for an edit the look-up of the document.     *)

FirstQueries(op) ==
    CASE op = "sync" -> RelationsOf(Attributes) \cup {"mongo"}
      [] op = "edit" -> Relations \cup {"mongo"}
      [] OTHER       -> Relations

Accept(r, j) ==
    /\ r \notin InFlight
    /\ job' = [job EXCEPT ![r] = j]
    /\ pc' = [pc EXCEPT ![r] = IF j.op = "sync" THEN "syncRead" ELSE "readUser"]
    /\ todo' = [todo EXCEPT ![r] = FirstQueries(j.op)]
    /\ got' = [got EXCEPT ![r] = [u \in Users |-> {}]]
    /\ copy' = [copy EXCEPT ![r] = [u \in Users |-> NoDoc]]
    /\ batch' = [batch EXCEPT ![r] = {}]
    /\ undo' = [undo EXCEPT ![r] = FALSE]
    /\ UNCHANGED <<tuples, doc, faults>>

\* The users a request reads about.
About(r) == IF job[r].op = "sync" THEN Users ELSE {job[r].u}

\* The users getDomainApplicationUsers and the attributes have named.
Listed(G) == {u \in Users : IsSet(G[u])}

\* All queries of one Promise.all are answered: G and D are what they said.
Joined(r, G, D) ==
    LET u == job[r].u
        fits == CASE job[r].op = "create" -> ~IsSet(G[u])
                  [] job[r].op = "edit"   -> IsSet(G[u]) /\ D[u] # NoDoc
                  [] OTHER                -> IsSet(G[u])
        ask(next, queries) == /\ Proceed(r, next)
                              /\ todo' = [todo EXCEPT ![r] = queries]
    IN
    \/ pc[r] = "readUser" /\ fits  /\ ask("check", {})
    \/ pc[r] = "readUser" /\ ~fits /\ Throw(r) /\ todo' = [todo EXCEPT ![r] = {}]
    \/ pc[r] = "syncRead" /\ ask("syncRoles", RelationsOf(RoleGrants))
    \/ pc[r] = "syncRoles" /\ Listed(G) # {} /\ ask("syncAssigners", Listed(G))
    \/ pc[r] = "syncRoles" /\ Listed(G) = {} /\ ask("syncDelete", {})
    \/ pc[r] = "syncAssigners" /\ ask("syncSave", Listed(G))

\* Query q is answered, or refused, and then the Promise.all throws.
Answer(r, q, G, D) ==
    /\ q \in todo[r]
    /\ UNCHANGED <<tuples, doc, job>>
    /\ \/ /\ got' = [got EXCEPT ![r] = G]
          /\ copy' = [copy EXCEPT ![r] = D]
          /\ IF todo[r] = {q} THEN Joined(r, G, D)
             ELSE Proceed(r, pc[r]) /\ todo' = [todo EXCEPT ![r] = @ \ {q}]
          /\ UNCHANGED faults
       \/ /\ Fault("refused")
          /\ Throw(r)
          /\ todo' = [todo EXCEPT ![r] = {}]
          /\ UNCHANGED <<got, copy>>

\* What r knows when it learns of the grants in S of the users in W.
Learning(r, W, S) ==
    [u \in Users |-> IF u \in W THEN got[r][u] \cup (tuples[u] \cap S) ELSE got[r][u]]

ReadTuples(r, rel) ==
    /\ pc[r] \in {"readUser", "syncRead", "syncRoles"}
    /\ rel \in Relations
    /\ Answer(r, rel, Learning(r, About(r), {g \in Grants : Relation[g] = rel}), copy[r])

ReadMongo(r) ==
    /\ pc[r] \in {"readUser", "syncRead"}
    /\ Answer(r, "mongo", got[r],
              [u \in Users |-> IF u \in About(r) THEN doc[u] ELSE copy[r][u]])

-----------------------------------------------------------------------------
(* createApplicationUser, editApplicationUserByUserId,                       *)
(* deleteApplicationUserByUserId                                             *)

\* Mutants: what is taken away is not asked for; an admin is edited like others.
AsksForNew(r) == GrantsIn(Changes(r), "write")

AsksForChanges(r) == {x[2] : x \in Changes(r)}

\* assertHasPermissionForDomains and assertHasPermissionForAttributes: for all
\* that changes, and for isAdmin also when an admin is edited.
AsksFor(r) ==
    {x[2] : x \in Changes(r)}
       \cup (IF job[r].op = "edit" /\ Admin \in Seen(r) THEN {Admin} ELSE {})

\* An edit that changes nothing is answered at once.  (A create asks for the
\* permissions before it reads the user: either order writes nothing.)
Check(r) ==
    /\ pc[r] = "check"
    /\ UNCHANGED <<tuples, doc, locals, undo>>
    /\ \/ /\ Changes(r) = {}
          /\ pc' = [pc EXCEPT ![r] = "readBack"]
          /\ UNCHANGED <<batch, faults>>
       \/ /\ Changes(r) # {} /\ AsksFor(r) \subseteq MayManage[job[r].by]
          /\ pc' = [pc EXCEPT ![r] = "send"]
          /\ batch' = [batch EXCEPT ![r] = Changes(r)]
          /\ UNCHANGED faults
       \/ /\ Changes(r) # {} /\ ~(AsksFor(r) \subseteq MayManage[job[r].by])
          /\ pc' = [pc EXCEPT ![r] = "failed"]
          /\ UNCHANGED <<batch, faults>>
       \/ /\ Fault("refused")
          /\ pc' = [pc EXCEPT ![r] = "failed"]
          /\ UNCHANGED batch

AfterSend == [create |-> "insert", edit |-> "update", delete |-> "findDoc"]

\* Mutant: a rollback is never registered.
SentForGood(r, C) ==
    /\ batch' = [batch EXCEPT ![r] = @ \ C]
    /\ pc' = [pc EXCEPT ![r] = IF C = batch[r] THEN AfterSend[job[r].op] ELSE "send"]
    /\ UNCHANGED undo

\* The rollback is registered when the last chunk is answered.
Sent(r, C) ==
    /\ batch' = [batch EXCEPT ![r] = @ \ C]
    /\ pc' = [pc EXCEPT ![r] = IF C = batch[r] THEN AfterSend[job[r].op] ELSE "send"]
    /\ undo' = [undo EXCEPT ![r] = C = batch[r]]

SendChunk(r) ==
    LET u == job[r].u IN
    /\ pc[r] = "send"
    /\ UNCHANGED <<doc, locals>>
    /\ \E C \in SUBSET batch[r] :
          /\ IsNextChunk(C, batch[r])
          /\ \/ Accepts(u, C) /\ tuples' = WithChanges(u, C) /\ Sent(r, C)
                              /\ UNCHANGED faults
             \/ ~Accepts(u, C) /\ Throw(r) /\ UNCHANGED <<tuples, faults>>
             \/ Fault("refused") /\ Throw(r) /\ UNCHANGED tuples
             \/ Accepts(u, C) /\ Fault("lost") /\ tuples' = WithChanges(u, C) /\ Throw(r)

WithDoc(u, d) == [doc EXCEPT ![u] = d]

\* Mutant: an upsert.
InsertOrUpdate(r) ==
    LET u == job[r].u IN
    /\ pc[r] = "insert"
    /\ WriteDoc(r, TRUE, WithDoc(u, job[r].grants), "readBack")
    /\ UNCHANGED locals

\* user_id is unique.
Insert(r) ==
    LET u == job[r].u IN
    /\ pc[r] = "insert"
    /\ WriteDoc(r, doc[u] = NoDoc, WithDoc(u, job[r].grants), "readBack")
    /\ UNCHANGED locals

\* updateOne matches nothing when the document is gone.
Update(r) ==
    LET u == job[r].u IN
    /\ pc[r] = "update"
    /\ WriteDoc(r, TRUE, IF doc[u] = NoDoc THEN doc ELSE WithDoc(u, job[r].grants), "readBack")
    /\ UNCHANGED locals

\* A user without a document is deleted with a warning.
FindDoc(r) ==
    /\ pc[r] = "findDoc"
    /\ Read(r, TRUE, IF doc[job[r].u] = NoDoc THEN "done" ELSE "remove")
    /\ UNCHANGED locals

Remove(r) ==
    /\ pc[r] = "remove"
    /\ WriteDoc(r, TRUE, WithDoc(job[r].u, NoDoc), "done")
    /\ UNCHANGED locals

\* The answer is read back: within withRollbacks for a create, after it for an
\* edit.
ReadBack(r) ==
    LET found == doc[job[r].u] # NoDoc IN
    /\ pc[r] = "readBack"
    /\ \/ job[r].op = "create" /\ Read(r, found, "done")
       \/ /\ job[r].op = "edit"
          /\ UNCHANGED <<tuples, doc, batch, undo>>
          /\ \/ /\ pc' = [pc EXCEPT ![r] = IF found THEN "done" ELSE "failed"]
                /\ UNCHANGED faults
             \/ /\ Fault("refused")
                /\ pc' = [pc EXCEPT ![r] = "failed"]
    /\ UNCHANGED locals

\* The rollback sends the reverse changes, in chunks; that of a delete sends
\* all of them with one writeTuples.
UndoChunk(r) ==
    LET u == job[r].u IN
    /\ pc[r] = "rollback"
    /\ UNCHANGED <<doc, locals, undo>>
    /\ \E C \in SUBSET batch[r] :
          /\ IF job[r].op = "delete" THEN C = batch[r] ELSE IsNextChunk(C, batch[r])
          /\ \/ /\ Accepts(u, C)
                /\ tuples' = WithChanges(u, C)
                /\ batch' = [batch EXCEPT ![r] = @ \ C]
                /\ pc' = [pc EXCEPT ![r] = IF C = batch[r] THEN "failed" ELSE "rollback"]
                /\ UNCHANGED faults
             \/ /\ ~Accepts(u, C) \/ ("refused" \in FaultKinds /\ faults < MaxFaults)
                /\ batch' = [batch EXCEPT ![r] = {}]
                /\ pc' = [pc EXCEPT ![r] = "failed"]
                /\ faults' = IF Accepts(u, C) THEN faults + 1 ELSE faults
                /\ UNCHANGED tuples

-----------------------------------------------------------------------------
(* syncMongoFromOpenFga, from the queries about single users on.             *)

ReadAssigners(r, u) ==
    /\ pc[r] = "syncAssigners"
    /\ Answer(r, u, Learning(r, {u}, Assigners), copy[r])

\* Mutant: the domains are pushed to those that are there.
SavedOnTop(old, base, new) ==
    {a \in Attributes : IF (a \in old) # (a \in new) THEN a \in new ELSE a \in base}
       \cup ((base \cup new) \ Attributes)

\* What bulkSave writes into the document that was read as old and now holds
\* base: the attributes that changed, and the domains unless there are none.
Saved(old, base, new) ==
    LET attributes == {a \in Attributes : IF (a \in old) # (a \in new) THEN a \in new
                                          ELSE a \in base}
        domains == IF (old \cup new) \subseteq Attributes THEN base \ Attributes
                   ELSE new \ Attributes
    IN attributes \cup domains

\* bulkSave inserts or updates one document after the other.  It stops at a
\* user_id that exists already, and complains in the end of a document that is
\* gone.
SyncSave(r, u) ==
    LET new == Visible(got[r][u])
        old == copy[r][u]
        more == todo[r] # {u}
        gone(v) == copy[r][v] # NoDoc /\ doc[v] = NoDoc
    IN
    /\ pc[r] = "syncSave"
    /\ u \in todo[r]
    /\ gone(u) => \A v \in todo[r] : gone(v)
    /\ todo' = [todo EXCEPT ![r] = @ \ {u}]
    /\ WriteDoc(r, (old = NoDoc) = (doc[u] = NoDoc),
                WithDoc(u, IF old = NoDoc THEN new ELSE Saved(old, doc[u], new)),
                IF more THEN "syncSave" ELSE "syncDelete")
    /\ UNCHANGED <<job, got, copy>>

SyncDelete(r) ==
    /\ pc[r] = "syncDelete"
    /\ WriteDoc(r, TRUE, [u \in Users |-> IF copy[r][u] # NoDoc /\ ~IsSet(got[r][u])
                                          THEN NoDoc ELSE doc[u]], "done")
    /\ UNCHANGED locals

-----------------------------------------------------------------------------

\* The process ends with whatever it was serving, and is started again.
Crash ==
    /\ InFlight # {}
    /\ Fault("crash")
    /\ pc' = [r \in Reqs |-> IF r \in InFlight THEN "crashed" ELSE pc[r]]
    /\ batch' = [r \in Reqs |-> {}]
    /\ undo' = [r \in Reqs |-> FALSE]
    /\ UNCHANGED <<tuples, doc, locals>>

\* Nothing is being served, and maybe nothing more will be asked.
Idle == InFlight = {} /\ UNCHANGED vars

Serve(r) ==
    \/ \E j \in Jobs : Accept(r, j)
    \/ \E rel \in Relations : ReadTuples(r, rel)
    \/ ReadMongo(r) \/ Check(r) \/ SendChunk(r)
    \/ Insert(r) \/ Update(r) \/ FindDoc(r) \/ Remove(r) \/ ReadBack(r)
    \/ UndoChunk(r)
    \/ \E u \in Users : ReadAssigners(r, u) \/ SyncSave(r, u)
    \/ SyncDelete(r)

Next == (\E r \in Reqs : Serve(r)) \/ Crash \/ Idle

Spec == Init /\ [][Next]_vars

\* What a sync promises it promises when nothing overlaps with it.
SyncsAlone == \A r \in InFlight' : job'[r].op = "sync" => InFlight' = {r}

SyncSpec == Init /\ [][Next /\ SyncsAlone]_vars

\* One request is served after the other, all in one place.
Used     == {r \in Reqs : pc[r] # "new"}
OneByOne == \A p, q \in Used : p = q

SerialSpec == Init /\ [][Next /\ OneByOne']_vars

-----------------------------------------------------------------------------
(* Properties *)

AtRest == InFlight = {}

\* Whatever overlaps or fails, also in the rollbacks, the tuples of a user
\* change only by what an actor with a request about that user may manage.
OnlyPermitted ==
    [][\A u \in Users : tuples'[u] # tuples[u] =>
          \E r \in InFlight :
             /\ job[r].u = u
             /\ (tuples[u] \ tuples'[u]) \cup (tuples'[u] \ tuples[u])
                   \subseteq MayManage[job[r].by]]_vars

\* The lists show of a user who can do something exactly what OpenFGA grants.
GrantsMirrored ==
    AtRest => \A u \in Users : IsSet(tuples[u]) => doc[u] = tuples[u]

\* A user with a classification in a domain has a role there, as the schema of
\* application users demands (roleNames has .min(1)); otherwise the service does
\* not see the classification, and nobody can take it away.
NoHiddenGrants ==
    AtRest => \A u \in Users : Visible(tuples[u]) = tuples[u]

\* When nothing overlaps with it, a sync that is answered leaves the mirror of
\* what OpenFGA holds, whatever earlier requests, faults or crashes left behind.
SyncRestores ==
    [][\A r \in Reqs : job[r].op = "sync" /\ pc[r] # "done" /\ pc'[r] = "done" =>
          doc' = [u \in Users |-> MirrorOf(tuples'[u])]]_vars

\* As long as one request is served after the other, nobody without the permission
\* to manage admins changes any grant of an admin.  (A rollback that overlaps another
\* request may.)
AdminsGuarded ==
    [][\A u \in Users :
          OneByOne' /\ Admin \in tuples[u] /\ tuples'[u] # tuples[u] =>
             \E r \in InFlight : job[r].u = u /\ Admin \in MayManage[job[r].by]]_vars
=============================================================================
