------------------------ MODULE PermissionGroupsProofs ------------------------
(***************************************************************************)
(* Permission groups, for every set of groups, people, users and requests  *)
(* and every number of faults: every variable keeps its type, a group has  *)
(* one owner at most, ownership implements the token of OwnerToken, a      *)
(* deleted group stays deleted, and a group without an owner is what a     *)
(* create or a delete that ended badly leaves behind.                      *)
(*                                                                         *)
(* OneOwner alone is not inductive: writeOwner would add a second owner,   *)
(* were it not refused because the platform tuple it writes along with it  *)
(* is there already.  PlatformMarks says that it is.                       *)
(***************************************************************************)
EXTENDS PermissionGroupsOwner, PermissionGroupsSerial, TLAPS

-----------------------------------------------------------------------------
(* The values of the variables, one lemma per way an awaited call may end.   *)

LEMMA JobType ==
    ASSUME TypeOK, NEW r \in Reqs
    PROVE  /\ job[r] \in Job
           /\ job[r].op \in Ops
           /\ job[r].g \in Groups
           /\ job[r].by \in Actors
           /\ job[r].doc \in Doc
           /\ job[r].doc.name \in Names
           /\ job[r].doc.owner \in Actors
           /\ job[r].doc.coOwners \subseteq Actors
           /\ job[r].doc.data \in Data
           /\ job[r].to \subseteq Members
  BY DEF TypeOK, Job, Doc

LEMMA ControlType ==
    ASSUME TypeOK, NEW r \in Reqs, NEW next \in Calls \cup Final,
           NEW undos \in SUBSET Undos,
           Proceed(r, next, undos) \/ Throw(r)
    PROVE  /\ pc' \in [Reqs -> {"new", "rollback"} \cup Calls \cup Final]
           /\ undo' \in [Reqs -> SUBSET Undos]
  BY DEF TypeOK, Proceed, Throw, Final

LEMMA FaultType ==
    ASSUME TypeOK, NEW k, UNCHANGED faults \/ Fault(k)
    PROVE  faults' \in Nat
  BY DEF TypeOK, Fault

LEMMA WriteGroupType ==
    ASSUME TypeOK, NEW r \in Reqs, NEW next \in Calls \cup Final,
           NEW undos \in SUBSET Undos, NEW ok \in BOOLEAN, NEW new,
           ok => new \in [Groups -> Doc \cup {NoDoc}],
           WriteGroup(r, ok, new, next, undos)
    PROVE  TypeOK'
<1>1. /\ pc' \in [Reqs -> {"new", "rollback"} \cup Calls \cup Final]
      /\ undo' \in [Reqs -> SUBSET Undos]
  BY ControlType DEF WriteGroup
<1>2. faults' \in Nat
  BY FaultType DEF WriteGroup
<1>3. group' \in [Groups -> Doc \cup {NoDoc}]
  BY DEF WriteGroup, TypeOK
<1>4. QED
  BY <1>1, <1>2, <1>3 DEF WriteGroup, TypeOK, locals

LEMMA TupleFacts ==
    /\ \A u \in Actors, g \in Groups : OwnerTuple(u, g) \in Tuple
    /\ \A S \in SUBSET Actors, g \in Groups : CoOwnerTuples(S, g) \subseteq Tuple
    /\ \A g \in Groups : PlatformTuple(g) \in Tuple
  BY DEF OwnerTuple, CoOwnerTuples, PlatformTuple, Tuple

LEMMA WriteTuplesType ==
    ASSUME TypeOK, NEW r \in Reqs, NEW next \in Calls \cup Final,
           NEW undos \in SUBSET Undos, NEW W \in SUBSET Tuple, NEW D,
           WriteTuples(r, W, D, next, undos)
    PROVE  TypeOK'
<1>1. /\ pc' \in [Reqs -> {"new", "rollback"} \cup Calls \cup Final]
      /\ undo' \in [Reqs -> SUBSET Undos]
  BY ControlType DEF WriteTuples
<1>2. faults' \in Nat
  BY FaultType DEF WriteTuples
<1>3. tuples' \subseteq Tuple
  BY DEF WriteTuples, TypeOK
<1>4. QED
  BY <1>1, <1>2, <1>3 DEF WriteTuples, TypeOK, locals

LEMMA EntriesType ==
    ASSUME TypeOK, NEW how, NEW g \in Groups, NEW S
    PROVE  Entries(how, g, S) \in [Members -> [Groups -> [full : Nat, bare : Nat]]]
<1> DEFINE Entry == [full : Nat, bare : Nat]
           Row(u) == IF u \notin S THEN refs[u]
                     ELSE [refs[u] EXCEPT ![g] =
                       [full |-> IF how = "full" THEN @.full + 1
                                 ELSE IF how = "pull" THEN 0 ELSE @.full,
                        bare |-> IF how = "bare" THEN @.bare + 1
                                 ELSE IF how = "pull" THEN 0 ELSE @.bare]]
<1>1. ASSUME NEW u \in Members
      PROVE  Row(u) \in [Groups -> Entry]
  <2> DEFINE e == refs[u][g]
  <2>1. refs[u] \in [Groups -> Entry] /\ e \in Entry
    BY DEF TypeOK
  <2>2. e.full \in Nat /\ e.bare \in Nat
    BY <2>1
  <2> HIDE DEF e
  <2>3. [full |-> IF how = "full" THEN e.full + 1
                  ELSE IF how = "pull" THEN 0 ELSE e.full,
         bare |-> IF how = "bare" THEN e.bare + 1
                  ELSE IF how = "pull" THEN 0 ELSE e.bare] \in Entry
    BY <2>2
  <2> HIDE DEF Entry
  <2>4. QED
    BY <2>1, <2>3 DEF e
<1>2. Entries(how, g, S) = [u \in Members |-> Row(u)]
  BY DEF Entries
<1> HIDE DEF Row
<1>3. QED
  BY <1>1, <1>2

LEMMA WriteRefsType ==
    ASSUME TypeOK, NEW r \in Reqs, NEW next \in Calls \cup Final,
           NEW undos \in SUBSET Undos, NEW how, NEW g \in Groups, NEW S,
           WriteRefs(r, how, g, S, next, undos)
    PROVE  TypeOK'
<1>1. /\ pc' \in [Reqs -> {"new", "rollback"} \cup Calls \cup Final]
      /\ undo' \in [Reqs -> SUBSET Undos]
  BY ControlType DEF WriteRefs
<1>2. faults' \in Nat
  BY FaultType DEF WriteRefs
<1>3. refs' \in [Members -> [Groups -> [full : Nat, bare : Nat]]]
  <2>1. CASE UNCHANGED refs
    BY <2>1 DEF TypeOK
  <2>2. CASE \E P : refs' = Entries(how, g, P)
    BY <2>2, EntriesType
  <2>3. QED
    BY <2>1, <2>2 DEF WriteRefs
<1>4. QED
  BY <1>1, <1>2, <1>3 DEF WriteRefs, TypeOK, locals

LEMMA ReadType ==
    ASSUME TypeOK, NEW r \in Reqs, NEW next \in Calls \cup Final, NEW ok \in BOOLEAN,
           Read(r, ok, next)
    PROVE  /\ UNCHANGED stores
           /\ pc' \in [Reqs -> {"new", "rollback"} \cup Calls \cup Final]
           /\ undo' \in [Reqs -> SUBSET Undos]
           /\ faults' \in Nat
<1>1. /\ pc' \in [Reqs -> {"new", "rollback"} \cup Calls \cup Final]
      /\ undo' \in [Reqs -> SUBSET Undos]
  <2>1. {} \in SUBSET Undos
    OBVIOUS
  <2>2. Proceed(r, next, {}) \/ Throw(r)
    BY DEF Read
  <2>3. QED
    BY <2>1, <2>2, ControlType
<1>2. faults' \in Nat
  BY FaultType DEF Read
<1>3. QED
  BY <1>1, <1>2 DEF Read

LEMMA ReadCopyType ==
    ASSUME TypeOK, NEW r \in Reqs, NEW next \in Calls \cup Final, ReadCopy(r, next)
    PROVE  TypeOK'
<1>1. Read(r, group[job[r].g] # NoDoc, next)
  BY DEF ReadCopy
<1>2. /\ UNCHANGED stores
      /\ pc' \in [Reqs -> {"new", "rollback"} \cup Calls \cup Final]
      /\ undo' \in [Reqs -> SUBSET Undos]
      /\ faults' \in Nat
  BY <1>1, ReadType
<1>3. old' \in [Reqs -> Doc \cup {NoDoc}]
  BY JobType DEF ReadCopy, TypeOK
<1>4. QED
  BY <1>2, <1>3 DEF ReadCopy, TypeOK, stores

LEMMA CheckType ==
    ASSUME TypeOK, NEW r \in Reqs, NEW next \in Calls \cup Final, NEW ok \in BOOLEAN,
           Read(r, ok, next), UNCHANGED locals
    PROVE  TypeOK'
<1>1. /\ UNCHANGED stores
      /\ pc' \in [Reqs -> {"new", "rollback"} \cup Calls \cup Final]
      /\ undo' \in [Reqs -> SUBSET Undos]
      /\ faults' \in Nat
  BY ReadType
<1>2. QED
  BY <1>1 DEF TypeOK, stores, locals

LEMMA SeeType ==
    ASSUME TypeOK, NEW r \in Reqs, NEW next \in Calls \cup Final,
           NEW S \in SUBSET Members, Read(r, TRUE, next), See(r, S)
    PROVE  TypeOK'
<1>1. /\ UNCHANGED stores
      /\ pc' \in [Reqs -> {"new", "rollback"} \cup Calls \cup Final]
      /\ undo' \in [Reqs -> SUBSET Undos]
      /\ faults' \in Nat
  BY ReadType
<1>2. seen' \in [Reqs -> SUBSET Members]
  BY DEF See, TypeOK
<1>3. QED
  BY <1>1, <1>2 DEF TypeOK, stores, See

-----------------------------------------------------------------------------
(* Every step keeps the types: one lemma per handler.                        *)

LEMMA AcceptType == ASSUME TypeOK, NEW r \in Reqs, Accept(r) PROVE TypeOK'
<1>1. First[job[r].op] \in Calls \cup Final
  BY JobType DEF First, Ops, Calls
<1>2. /\ pc' \in [Reqs -> {"new", "rollback"} \cup Calls \cup Final]
      /\ undo' \in [Reqs -> SUBSET Undos]
  <2>1. {} \in SUBSET Undos
    OBVIOUS
  <2>2. QED
    BY <1>1, <2>1, ControlType DEF Accept
<1>3. used' \subseteq Groups
  BY JobType DEF Accept, TypeOK
<1>4. QED
  BY <1>2, <1>3 DEF Accept, TypeOK, locals

LEMMA CreateType == ASSUME TypeOK, NEW r \in Reqs, Create(r) PROVE TypeOK'
<1>1. CASE CreateGroup(r)
  <2>1. NewDoc(job[r]) \in Doc
    BY JobType DEF NewDoc, Doc
  <2>2. [group EXCEPT ![job[r].g] = NewDoc(job[r])] \in [Groups -> Doc \cup {NoDoc}]
    BY <2>1 DEF TypeOK
  <2>3. NameFree(job[r].doc.name, job[r].g) \in BOOLEAN
    BY DEF NameFree
  <2>4. "writeOwner" \in Calls \cup Final /\ {"unCreate"} \in SUBSET Undos
    BY DEF Calls, Undos
  <2>5. QED
    BY <1>1, <2>2, <2>3, <2>4, WriteGroupType DEF CreateGroup
<1>2. CASE WriteOwner(r)
  <2>1. {OwnerTuple(job[r].by, job[r].g), PlatformTuple(job[r].g)} \in SUBSET Tuple
    BY JobType, TupleFacts
  <2>2. "done" \in Calls \cup Final /\ {} \in SUBSET Undos
    BY DEF Final
  <2>3. QED
    BY <1>2, <2>1, <2>2, WriteTuplesType DEF WriteOwner
<1>3. QED
  BY <1>1, <1>2 DEF Create

LEMMA WithDetailsType ==
    ASSUME TypeOK, NEW g \in Groups, NEW d \in Doc
    PROVE  WithDetails(g, d) \in [Groups -> Doc \cup {NoDoc}]
<1>1. CASE group[g] = NoDoc
  BY <1>1 DEF WithDetails, TypeOK
<1>2. CASE group[g] # NoDoc
  <2>1. group[g] \in Doc
    BY <1>2 DEF TypeOK
  <2>2. [d EXCEPT !.data = group[g].data] \in Doc
    BY <2>1 DEF Doc
  <2>3. QED
    BY <1>2, <2>2 DEF WithDetails, TypeOK
<1>3. QED
  BY <1>1, <1>2

LEMMA NextCalls ==
    ASSUME NEW r \in Reqs
    PROVE  CoOwnersNext(r) \in Calls \cup Final
  BY DEF CoOwnersNext, Calls, Final

LEMMA EditType == ASSUME TypeOK, NEW r \in Reqs, Edit(r) PROVE TypeOK'
<1> DEFINE g == job[r].g
           d == job[r].doc
<1>1. CASE CheckCanUpdate(r)
  <2>1. CanUpdate(job[r].by, g) \in BOOLEAN /\ "readGroup" \in Calls \cup Final
    BY DEF CanUpdate, CanDelete, IsAdmin, Calls
  <2>2. QED
    BY <1>1, <2>1, CheckType DEF CheckCanUpdate
<1>2. CASE ReadGroup(r)
  BY <1>2, ReadCopyType DEF ReadGroup, Calls
<1>3. CASE SetDetails(r)
  <2> DEFINE next == IF old[r].owner # d.owner THEN "moveOwner" ELSE CoOwnersNext(r)
             ok   == group[g] = NoDoc \/ NameFree(d.name, g)
  <2>1. next \in Calls \cup Final
    BY NextCalls DEF Calls
  <2>2. ok \in BOOLEAN /\ {"details"} \in SUBSET Undos
    BY DEF Undos, NameFree
  <2>3. WithDetails(g, d) \in [Groups -> Doc \cup {NoDoc}]
    BY JobType, WithDetailsType
  <2>4. WriteGroup(r, ok, WithDetails(g, d), next, {"details"})
    BY <1>3 DEF SetDetails
  <2> HIDE DEF ok, next
  <2>5. QED
    BY <2>1, <2>2, <2>3, <2>4, WriteGroupType
<1>4. CASE MoveOwner(r)
  <2>1. {OwnerTuple(d.owner, g)} \in SUBSET Tuple /\ {"owner"} \in SUBSET Undos
    BY JobType, TupleFacts DEF Undos
  <2>2. QED
    BY <1>4, <2>1, NextCalls, WriteTuplesType DEF MoveOwner
<1>5. CASE MoveCoOwners(r)
  <2>1. CoOwnersAdded(r) \in SUBSET Actors
    BY JobType DEF CoOwnersAdded
  <2>2. CoOwnerTuples(CoOwnersAdded(r), g) \in SUBSET Tuple
    BY <2>1, JobType, TupleFacts
  <2>3. "done" \in Calls \cup Final /\ {} \in SUBSET Undos
    BY DEF Final
  <2>4. QED
    BY <1>5, <2>2, <2>3, WriteTuplesType DEF MoveCoOwners
<1>6. QED
  BY <1>1, <1>2, <1>3, <1>4, <1>5 DEF Edit

LEMMA DeleteType == ASSUME TypeOK, NEW r \in Reqs, Delete(r) PROVE TypeOK'
<1> DEFINE g == job[r].g
<1>0. g \in Groups
  BY JobType
<1>1. CASE CheckCanDelete(r)
  <2>1. CanDelete(job[r].by, g) \in BOOLEAN /\ "readDoomed" \in Calls \cup Final
    BY DEF CanDelete, IsAdmin, Calls
  <2>2. QED
    BY <1>1, <2>1, CheckType DEF CheckCanDelete
<1>2. CASE ReadDoomed(r)
  BY <1>2, ReadCopyType DEF ReadDoomed, Calls
<1>3. CASE FindMembers(r)
  <2>1. {u \in Members : In(u, g)} \in SUBSET Members /\ "pullMembers" \in Calls \cup Final
    BY DEF Calls
  <2>2. QED
    BY <1>3, <2>1, SeeType DEF FindMembers
<1>4. CASE PullMembers(r)
  <2>1. "deleteGroup" \in Calls \cup Final /\ {"users"} \in SUBSET Undos
    BY DEF Calls, Undos
  <2>2. QED
    BY <1>0, <1>4, <2>1, WriteRefsType DEF PullMembers
<1>5. CASE DeleteGroup(r)
  <2>1. "deleteTuples" \in Calls \cup Final /\ {"recreate"} \in SUBSET Undos
    BY DEF Calls, Undos
  <2>2. [group EXCEPT ![g] = NoDoc] \in [Groups -> Doc \cup {NoDoc}]
    BY DEF TypeOK
  <2>3. (group[g] # NoDoc) \in BOOLEAN
    OBVIOUS
  <2>4. QED
    BY <1>5, <2>1, <2>2, <2>3, WriteGroupType DEF DeleteGroup
<1>6. CASE DeleteTuples(r)
  <2>1. {} \in SUBSET Tuple /\ {} \in SUBSET Undos /\ "done" \in Calls \cup Final
    BY DEF Final
  <2>2. QED
    BY <1>6, <2>1, WriteTuplesType DEF DeleteTuples
<1>7. QED
  BY <1>1, <1>2, <1>3, <1>4, <1>5, <1>6 DEF Delete

LEMMA MakeType ==
    ASSUME TypeOK, NEW r \in Reqs, NEW u \in Members, Make(r, u)
    PROVE  TypeOK'
<1>1. make' \in [Reqs -> [Members -> MakeSteps]]
  <2>1. ASSUME NEW from, NEW to \in MakeSteps, Making(r, u, from, to)
        PROVE  make' \in [Reqs -> [Members -> MakeSteps]]
    BY <2>1 DEF Making, TypeOK
  <2>2. CASE MakeCheckGroup(r, u)
    <3>1. \E to \in {"findUser", "threw"} : Making(r, u, "checkGroup", to)
      BY <2>2 DEF MakeCheckGroup
    <3>2. QED
      BY <2>1, <3>1 DEF MakeSteps
  <2>3. CASE MakeFindUser(r, u)
    <3>1. user[u] \in {"absent", "active", "deleted"}
      BY DEF TypeOK
    <3>2. \E to \in {"insert", "revive", "threw"} : Making(r, u, "findUser", to)
      BY <2>3, <3>1 DEF MakeFindUser
    <3>3. QED
      BY <2>1, <3>2 DEF MakeSteps
  <2>4. ASSUME NEW from, MakeWrite(r, u, from)
        PROVE  make' \in [Reqs -> [Members -> MakeSteps]]
    <3>1. \E to \in {"made", "threw"} : Making(r, u, from, to)
      BY <2>4 DEF MakeWrite
    <3>2. QED
      BY <2>1, <3>1 DEF MakeSteps
  <2>5. CASE MakeInsert(r, u)
    <3>1. MakeWrite(r, u, "insert") \/ Making(r, u, "insert", "threw")
      BY <2>5 DEF MakeInsert
    <3>2. QED
      BY <2>1, <2>4, <3>1 DEF MakeSteps
  <2>6. CASE MakeRevive(r, u)
    BY <2>4, <2>6 DEF MakeRevive
  <2>7. QED
    BY <2>2, <2>3, <2>5, <2>6 DEF Make
<1>2. /\ user' \in [Members -> {"absent", "active", "deleted"}]
      /\ refs' \in [Members -> [Groups -> [full : Nat, bare : Nat]]]
  <2>1. UNCHANGED <<user, refs>> \/ Made(r, u)
    BY DEF Make, MakeCheckGroup, MakeFindUser, MakeInsert, MakeRevive, MakeWrite
  <2>2. CASE Made(r, u)
    BY <2>2 DEF Made, TypeOK, NoRefs
  <2>3. QED
    BY <2>1, <2>2 DEF TypeOK
<1>3. faults' \in Nat
  BY DEF TypeOK, Make, MakeCheckGroup, MakeFindUser, MakeInsert, MakeRevive, MakeWrite, Fault
<1>4. UNCHANGED <<group, tuples, used, pc, undo, job, old, seen>>
  BY DEF Make, MakeCheckGroup, MakeFindUser, MakeInsert, MakeRevive, MakeWrite, Making
<1>5. QED
  BY <1>1, <1>2, <1>3, <1>4 DEF TypeOK

LEMMA MayChangeUsersType ==
    ASSUME TypeOK, NEW r \in Reqs, NEW next \in Calls \cup Final,
           MayChangeUsers(r, next), UNCHANGED locals
    PROVE  TypeOK'
<1>1. PICK dataPermitted \in BOOLEAN :
        Read(r, CanChangeUsers(job[r].by, job[r].g) /\ dataPermitted, next)
  BY DEF MayChangeUsers
<1>2. (CanChangeUsers(job[r].by, job[r].g) /\ dataPermitted) \in BOOLEAN
  BY DEF CanChangeUsers, CanUpdate
<1>3. QED
  BY <1>1, <1>2, CheckType

LEMMA AddType == ASSUME TypeOK, NEW r \in Reqs, Add(r) PROVE TypeOK'
<1> DEFINE g == job[r].g
<1>0. g \in Groups
  BY JobType
<1>1. CASE ReadForAdd(r)
  BY <1>1, ReadCopyType DEF ReadForAdd, Calls
<1>2. CASE CheckCanAdd(r)
  BY <1>2, MayChangeUsersType DEF CheckCanAdd, Calls
<1>3. CASE FindUsers(r)
  <2> DEFINE active == {u \in job[r].to : user[u] = "active"}
  <2>1. /\ UNCHANGED stores
        /\ pc' \in [Reqs -> {"new", "rollback"} \cup Calls \cup Final]
        /\ undo' \in [Reqs -> SUBSET Undos]
        /\ faults' \in Nat
    <3>1. "makeUsers" \in Calls \cup Final /\ Read(r, TRUE, "makeUsers")
      BY <1>3 DEF FindUsers, Calls
    <3>2. QED
      BY <3>1, ReadType
  <2>2. active \in SUBSET Members
    BY JobType
  <2>3. seen' \in [Reqs -> SUBSET Members]
    BY <1>3, <2>2 DEF FindUsers, TypeOK
  <2>4. make' \in [Reqs -> [Members -> MakeSteps]]
    BY <1>3 DEF FindUsers, TypeOK, MakeSteps
  <2>5. QED
    BY <1>3, <2>1, <2>3, <2>4 DEF FindUsers, TypeOK, stores
<1>4. CASE \E u \in Members : Make(r, u)
  BY <1>4, MakeType
<1>5. CASE JoinUsers(r)
  <2>1. {} \in SUBSET Undos /\ "findLacking" \in Calls \cup Final
    BY DEF Calls
  <2>2. /\ pc' \in [Reqs -> {"new", "rollback"} \cup Calls \cup Final]
        /\ undo' \in [Reqs -> SUBSET Undos]
    BY <1>5, <2>1, ControlType DEF JoinUsers
  <2>3. QED
    BY <1>5, <2>2 DEF JoinUsers, TypeOK, stores, locals
<1>6. CASE FindLacking(r)
  <2>1. /\ {u \in seen[r] : ~In(u, g)} \in SUBSET Members
        /\ "pushMembers" \in Calls \cup Final
    BY DEF Calls, TypeOK
  <2>2. QED
    BY <1>6, <2>1, SeeType DEF FindLacking
<1>7. CASE PushMembers(r)
  <2>1. {} \in SUBSET Undos /\ "done" \in Calls \cup Final
    BY DEF Final
  <2>2. QED
    BY <1>0, <1>7, <2>1, WriteRefsType DEF PushMembers
<1>8. QED
  BY <1>1, <1>2, <1>3, <1>4, <1>5, <1>6, <1>7 DEF Add

LEMMA RemoveType == ASSUME TypeOK, NEW r \in Reqs, Remove(r) PROVE TypeOK'
<1>1. CASE ReadForRemove(r)
  BY <1>1, ReadCopyType DEF ReadForRemove, Calls
<1>2. CASE CheckCanRemove(r)
  BY <1>2, MayChangeUsersType DEF CheckCanRemove, Calls
<1>3. CASE PullMember(r)
  <2>1. {} \in SUBSET Undos /\ "done" \in Calls \cup Final /\ job[r].g \in Groups
    BY JobType DEF Final
  <2>2. QED
    BY <1>3, <2>1, WriteRefsType DEF PullMember
<1>4. QED
  BY <1>1, <1>2, <1>3 DEF Remove

LEMMA EditDataType == ASSUME TypeOK, NEW r \in Reqs, EditData(r) PROVE TypeOK'
<1> DEFINE g == job[r].g
<1>1. CASE ReadForData(r)
  BY <1>1, ReadCopyType DEF ReadForData, Calls
<1>2. CASE CheckCanSetData(r)
  <2>1. PICK dataPermitted \in BOOLEAN :
          Read(r, CanUpdate(job[r].by, g) /\ dataPermitted, "setData")
    BY <1>2 DEF CheckCanSetData
  <2>2. (CanUpdate(job[r].by, g) /\ dataPermitted) \in BOOLEAN
    BY DEF CanUpdate
  <2>3. "setData" \in Calls \cup Final
    BY DEF Calls
  <2>4. QED
    BY <1>2, <2>1, <2>2, <2>3, CheckType DEF CheckCanSetData
<1>3. CASE SetData(r)
  <2> DEFINE new == IF group[g] = NoDoc THEN group
                    ELSE [group EXCEPT ![g] = [@ EXCEPT !.data = job[r].doc.data]]
  <2>1. new \in [Groups -> Doc \cup {NoDoc}]
    <3>1. CASE group[g] = NoDoc
      BY <3>1 DEF TypeOK
    <3>2. CASE group[g] # NoDoc
      <4>1. group[g] \in Doc
        BY <3>2, JobType DEF TypeOK
      <4>2. [group[g] EXCEPT !.data = job[r].doc.data] \in Doc
        BY <4>1, JobType DEF Doc
      <4>3. QED
        BY <3>2, <4>2 DEF TypeOK
    <3>3. QED
      BY <3>1, <3>2
  <2>2. "reread" \in Calls \cup Final /\ {} \in SUBSET Undos /\ TRUE \in BOOLEAN
    BY DEF Calls
  <2>3. WriteGroup(r, TRUE, new, "reread", {})
    BY <1>3 DEF SetData
  <2> HIDE DEF new
  <2>4. QED
    BY <2>1, <2>2, <2>3, WriteGroupType
<1>4. CASE Reread(r)
  <2>1. (group[g] # NoDoc) \in BOOLEAN /\ "done" \in Calls \cup Final
    BY DEF Final
  <2>2. QED
    BY <1>4, <2>1, CheckType DEF Reread
<1>5. QED
  BY <1>1, <1>2, <1>3, <1>4 DEF EditData

\* A rollback only writes what was read: the copy is there when it is needed.
CopyKept ==
    \A r \in Reqs :
        pc[r] \in {"setDetails", "moveOwner"} \/ undo[r] \cap {"details", "owner"} # {}
            => old[r] # NoDoc

LEMMA UndoingType ==
    ASSUME TypeOK, NEW r \in Reqs, NEW k, Undoing(r, k)
    PROVE  /\ undo' \in [Reqs -> SUBSET Undos]
           /\ pc' \in [Reqs -> {"new", "rollback"} \cup Calls \cup Final]
           /\ UNCHANGED <<user, used, job, old, seen, make>>
  BY DEF TypeOK, Undoing, Final, locals

LEMMA UndoGroupType ==
    ASSUME TypeOK, NEW r \in Reqs, NEW k, NEW ok, NEW new,
           ok => new \in [Groups -> Doc \cup {NoDoc}], UndoGroup(r, k, ok, new)
    PROVE  TypeOK'
<1>1. group' \in [Groups -> Doc \cup {NoDoc}] /\ faults' \in Nat
  BY DEF UndoGroup, TypeOK, Fault
<1>2. QED
  BY <1>1, UndoingType DEF UndoGroup, TypeOK

LEMMA RollbackType ==
    ASSUME TypeOK, CopyKept, NEW r \in Reqs, Rollback(r)
    PROVE  TypeOK'
<1> DEFINE g == job[r].g
<1>c. undo[r] \cap {"details", "owner"} # {} => old[r] \in Doc
  BY DEF CopyKept, TypeOK
<1>0. g \in Groups
  BY JobType
<1>1. CASE UndoCreate(r)
  <2>1. [group EXCEPT ![g] = NoDoc] \in [Groups -> Doc \cup {NoDoc}]
    BY DEF TypeOK
  <2>2. QED
    BY <1>1, <2>1, UndoGroupType DEF UndoCreate
<1>2. CASE UndoDetails(r)
  <2>0. old[r] \in Doc
    BY <1>c, <1>2 DEF UndoDetails, UndoGroup, Undoing
  <2>1. WithDetails(g, old[r]) \in [Groups -> Doc \cup {NoDoc}]
    BY <1>0, <2>0, WithDetailsType
  <2>2. QED
    BY <1>2, <2>1, UndoGroupType DEF UndoDetails
<1>3. CASE UndoDelete(r)
  <2>1. [group EXCEPT ![g] = old[r]] \in [Groups -> Doc \cup {NoDoc}]
    BY DEF TypeOK
  <2>2. QED
    BY <1>3, <2>1, UndoGroupType DEF UndoDelete
<1>4. CASE UndoOwner(r)
  <2>0. old[r] \in Doc
    BY <1>c, <1>4 DEF UndoOwner, Undoing
  <2>1. {OwnerTuple(old[r].owner, g)} \subseteq Tuple
    BY <1>0, <2>0, TupleFacts DEF Doc
  <2>2. tuples' \subseteq Tuple /\ faults' \in Nat
    BY <1>4, <2>1 DEF UndoOwner, TypeOK, Fault
  <2>3. QED
    BY <1>4, <2>2, UndoingType DEF UndoOwner, TypeOK
<1>5. CASE UndoPull(r)
  <2>1. refs' \in [Members -> [Groups -> [full : Nat, bare : Nat]]]
    <3>1. CASE UNCHANGED refs
      BY <3>1 DEF TypeOK
    <3>2. CASE refs' = Entries("bare", g, seen[r])
      BY <1>0, <3>2, EntriesType
    <3>3. QED
      BY <1>5, <3>1, <3>2 DEF UndoPull
  <2>2. faults' \in Nat
    BY <1>5 DEF UndoPull, TypeOK, Fault
  <2>3. QED
    BY <1>5, <2>1, <2>2, UndoingType DEF UndoPull, TypeOK
<1>6. QED
  BY <1>1, <1>2, <1>3, <1>4, <1>5 DEF Rollback

-----------------------------------------------------------------------------
(* What a step of one request leaves alone. *)

LEMMA OtherRequests ==
    ASSUME TypeOK, NEW r \in Reqs, Serve(r), NEW q \in Reqs \ {r}
    PROVE  pc'[q] = pc[q] /\ undo'[q] = undo[q] /\ old'[q] = old[q] /\ job' = job
  BY DEF TypeOK, Serve, Accept, Create, Edit, Delete, Add, Remove, EditData, Rollback,
         CreateGroup, WriteOwner, CheckCanUpdate, ReadGroup, SetDetails, MoveOwner,
         MoveCoOwners, CheckCanDelete, ReadDoomed, FindMembers, PullMembers, DeleteGroup,
         DeleteTuples, ReadForAdd, CheckCanAdd, FindUsers, JoinUsers, FindLacking,
         PushMembers, ReadForRemove, CheckCanRemove, PullMember, ReadForData,
         CheckCanSetData, SetData, Reread, MayChangeUsers, ReadCopy, See, Read, WriteGroup,
         WriteTuples, WriteRefs, Proceed, Throw, locals,
         Make, MakeCheckGroup, MakeFindUser, MakeInsert, MakeRevive, MakeWrite, Making,
         UndoCreate, UndoDetails, UndoDelete, UndoOwner, UndoPull, UndoGroup, Undoing

\* What a request does to its own control: a copy, once read, stays, and only
\* a read that found the document leads to the calls that use it.
LEMMA OwnCopy ==
    ASSUME TypeOK, NEW r \in Reqs, Serve(r), CopyKept
    PROVE  /\ old[r] # NoDoc => old'[r] # NoDoc
           /\ pc'[r] \in {"setDetails", "moveOwner"} => old'[r] # NoDoc
           /\ undo'[r] \cap {"details", "owner"} # {} => old'[r] # NoDoc
<1>0. /\ pc \in [Reqs -> {"new", "rollback"} \cup Calls \cup Final]
      /\ undo \in [Reqs -> SUBSET Undos]
      /\ old \in [Reqs -> Doc \cup {NoDoc}]
      /\ pc[r] \in {"setDetails", "moveOwner"} \/ undo[r] \cap {"details", "owner"} # {}
            => old[r] # NoDoc
  BY DEF TypeOK, CopyKept
<1>1. CASE Accept(r)
  BY <1>0, <1>1, JobType DEF Accept, Proceed, locals, First, Ops
<1>2. CASE Create(r)
  BY <1>0, <1>2 DEF Create, CreateGroup, WriteOwner, WriteGroup, WriteTuples, Proceed,
     Throw, locals
<1>3. CASE Edit(r)
  <2>1. CASE CheckCanUpdate(r)
    BY <1>0, <2>1 DEF CheckCanUpdate, Read, Proceed, Throw, locals
  <2>2. CASE ReadGroup(r)
    BY <1>0, <2>2 DEF ReadGroup, ReadCopy, Read, Proceed, Throw
  <2>3. CASE SetDetails(r) \/ MoveOwner(r) \/ MoveCoOwners(r)
    BY <1>0, <2>3 DEF SetDetails, MoveOwner, MoveCoOwners, WriteGroup, WriteTuples,
       Proceed, Throw, CoOwnersNext, locals
  <2>4. QED
    BY <1>3, <2>1, <2>2, <2>3 DEF Edit
<1>4. CASE Delete(r)
  BY <1>0, <1>4 DEF Delete, CheckCanDelete, ReadDoomed, FindMembers, PullMembers,
     DeleteGroup, DeleteTuples, ReadCopy, See, Read, WriteGroup, WriteTuples, WriteRefs,
     Proceed, Throw, locals
<1>5. CASE Add(r)
  <2>1. CASE \E u \in Members : Make(r, u)
    BY <1>0, <2>1 DEF Make, MakeCheckGroup, MakeFindUser, MakeInsert, MakeRevive,
       MakeWrite, Making
  <2>2. CASE ~ \E u \in Members : Make(r, u)
    BY <1>0, <1>5, <2>2 DEF Add, ReadForAdd, CheckCanAdd, FindUsers, JoinUsers,
       FindLacking, PushMembers, MayChangeUsers, ReadCopy, See, Read, WriteRefs, Proceed,
       Throw, locals
  <2>3. QED
    BY <2>1, <2>2
<1>6. CASE Remove(r) \/ EditData(r)
  BY <1>0, <1>6 DEF Remove, EditData, ReadForRemove, CheckCanRemove, PullMember,
     ReadForData, CheckCanSetData, SetData, Reread, MayChangeUsers, ReadCopy, Read,
     WriteGroup, WriteRefs, Proceed, Throw, locals
<1>7. CASE Rollback(r)
  BY <1>0, <1>7 DEF Rollback, UndoCreate, UndoDetails, UndoDelete, UndoOwner, UndoPull,
     UndoGroup, Undoing, locals
<1>8. QED
  BY <1>1, <1>2, <1>3, <1>4, <1>5, <1>6, <1>7 DEF Serve

LEMMA ServeType == ASSUME TypeOK, CopyKept, NEW r \in Reqs, Serve(r) PROVE TypeOK'
  BY AcceptType, CreateType, EditType, DeleteType, AddType, RemoveType, EditDataType,
     RollbackType DEF Serve

LEMMA WorldType ==
    ASSUME TypeOK, Crash \/ Idle \/ \E u \in Members : DeleteUser(u)
    PROVE  TypeOK'
<1>1. CASE Crash
  BY <1>1 DEF Crash, TypeOK, stores, Fault, Final, MakeSteps
<1>2. CASE Idle
  BY <1>2 DEF Idle, vars, stores, locals, TypeOK
<1>3. CASE \E u \in Members : DeleteUser(u)
  BY <1>3 DEF DeleteUser, locals, TypeOK
<1>4. QED
  BY <1>1, <1>2, <1>3

LEMMA CopyStep == ASSUME TypeOK, CopyKept, [Next]_vars PROVE CopyKept'
<1>1. ASSUME NEW r \in Reqs, Serve(r)
      PROVE  CopyKept'
  BY <1>1, OwnCopy, OtherRequests DEF CopyKept
<1>2. CASE Crash
  BY <1>2 DEF Crash, CopyKept, TypeOK, InFlight
<1>3. CASE UNCHANGED vars \/ Idle \/ \E u \in Members : DeleteUser(u)
  BY <1>3 DEF Idle, DeleteUser, vars, locals, CopyKept
<1>4. QED
  BY <1>1, <1>2, <1>3 DEF Next

LEMMA InitType == Init => TypeOK /\ CopyKept
<1> SUFFICES ASSUME Init
             PROVE  TypeOK /\ CopyKept
  OBVIOUS
<1>1. tuples \subseteq Tuple
  <2>1. \A d \in Doc, g \in Groups : Mirror(d, g) \subseteq Tuple
    BY TupleFacts DEF Mirror, Doc
  <2>2. PICK past \in SUBSET used :
          tuples = (UNION {Mirror(group[g], g) : g \in {h \in Groups : group[h] # NoDoc}})
                      \cup {PlatformTuple(g) : g \in past}
    BY DEF Init
  <2>3. \A g \in Groups : group[g] # NoDoc => Mirror(group[g], g) \subseteq Tuple
    BY <2>1 DEF Init
  <2>4. \A g \in past : PlatformTuple(g) \in Tuple
    BY TupleFacts DEF Init
  <2>5. SUFFICES ASSUME NEW t \in tuples
                 PROVE  t \in Tuple
    OBVIOUS
  <2>6. \/ \E g \in Groups : group[g] # NoDoc /\ t \in Mirror(group[g], g)
        \/ \E g \in past : t = PlatformTuple(g)
    BY <2>2
  <2>7. QED
    BY <2>3, <2>4, <2>6
<1>2. refs \in [Members -> [Groups -> [full : Nat, bare : Nat]]]
  BY DEF Init, NoRefs
<1>3. job \in [Reqs -> Job]
  BY JobsAssumption DEF Init
<1>4. QED
  BY <1>1, <1>2, <1>3 DEF Init, TypeOK, CopyKept, MakeSteps

LEMMA TypeStep == ASSUME TypeOK, CopyKept, [Next]_vars PROVE TypeOK' /\ CopyKept'
<1>1. TypeOK /\ UNCHANGED vars => TypeOK'
  BY DEF TypeOK, vars, stores, locals
<1>2. QED
  BY <1>1, ServeType, WorldType, CopyStep DEF Next

\* Every variable keeps its type, for all constants, and a request that writes
\* back its copy of the document has one.
THEOREM TypeCorrect == Spec => [](TypeOK /\ CopyKept)
  BY InitType, TypeStep, PTL DEF Spec
-----------------------------------------------------------------------------
(* The five ways a step of the whole system changes the tuples.              *)

Appoints(g, u) ==
    /\ PlatformTuple(g) \notin tuples
    /\ tuples' = tuples \cup {OwnerTuple(u, g), PlatformTuple(g)}

Moves(g, u, v) ==
    /\ OwnerTuple(u, g) \in tuples
    /\ tuples' = (tuples \ {OwnerTuple(u, g)}) \cup {OwnerTuple(v, g)}

Recasts(g, S, T) ==
    tuples' = (tuples \ CoOwnerTuples(S, g)) \cup CoOwnerTuples(T, g)

Drops(g, u, S) ==
    /\ OwnerTuple(u, g) \in tuples
    /\ tuples' = tuples \ ({OwnerTuple(u, g)} \cup CoOwnerTuples(S, g))

TupleStep ==
    \/ tuples' = tuples
    \/ \E g \in Groups, u \in Actors : Appoints(g, u)
    \/ \E g \in Groups, u \in Actors, v \in Actors : Moves(g, u, v)
    \/ \E g \in Groups, T \in SUBSET Actors : \E S : Recasts(g, S, T)
    \/ \E g \in Groups, u \in Actors : \E S : Drops(g, u, S)

LEMMA OwnersAreActors ==
    ASSUME TypeOK, NEW g, NEW u, OwnerTuple(u, g) \in tuples
    PROVE  u \in Actors
  BY DEF TypeOK, Tuple, OwnerTuple, Platform

LEMMA WriteTuplesStep ==
    ASSUME NEW r, NEW W, NEW D, NEW next, NEW undos, WriteTuples(r, W, D, next, undos)
    PROVE  \/ tuples' = tuples
           \/ /\ W \cap tuples = {} /\ D \subseteq tuples
              /\ tuples' = (tuples \ D) \cup W
  BY DEF WriteTuples, Accepts

LEMMA ServeTuples ==
    ASSUME TypeOK, CopyKept, NEW r \in Reqs, Serve(r)
    PROVE  TupleStep
<1> DEFINE g == job[r].g
<1>0. /\ g \in Groups /\ job[r].by \in Actors /\ job[r].doc.owner \in Actors
      /\ CoOwnersAdded(r) \subseteq Actors
  BY JobType DEF CoOwnersAdded
<1>1. CASE Accept(r)
  BY <1>1 DEF Accept, TupleStep
<1>2. CASE WriteOwner(r)
  <2> DEFINE W == {OwnerTuple(job[r].by, g), PlatformTuple(g)}
  <2>1. \/ tuples' = tuples
        \/ W \cap tuples = {} /\ tuples' = (tuples \ {}) \cup W
    BY <1>2, WriteTuplesStep DEF WriteOwner
  <2>2. tuples' = tuples \/ Appoints(g, job[r].by)
    BY <2>1 DEF Appoints
  <2>3. QED
    BY <1>0, <2>2 DEF TupleStep
<1>3. CASE MoveOwner(r)
  <2>1. \/ tuples' = tuples
        \/ Moves(g, old[r].owner, job[r].doc.owner)
    BY <1>3, WriteTuplesStep DEF MoveOwner, Moves
  <2>2. QED
    BY <1>0, <2>1, OwnersAreActors DEF TupleStep, Moves
<1>4. CASE MoveCoOwners(r)
  <2>1. tuples' = tuples \/ Recasts(g, CoOwnersRemoved(r), CoOwnersAdded(r))
    BY <1>4, WriteTuplesStep DEF MoveCoOwners, Recasts
  <2>2. QED
    BY <1>0, <2>1 DEF TupleStep
<1>5. CASE DeleteTuples(r)
  <2> DEFINE D == {OwnerTuple(old[r].owner, g)} \cup CoOwnerTuples(old[r].coOwners, g)
  <2>1. \/ tuples' = tuples
        \/ D \subseteq tuples /\ tuples' = (tuples \ D) \cup {}
    BY <1>5, WriteTuplesStep DEF DeleteTuples
  <2>2. tuples' = tuples \/ Drops(g, old[r].owner, old[r].coOwners)
    BY <2>1 DEF Drops
  <2>3. QED
    BY <1>0, <2>2, OwnersAreActors DEF TupleStep, Drops
<1>6. CASE UndoOwner(r)
  <2>1. old[r].owner \in Actors
    BY <1>6 DEF UndoOwner, Undoing, CopyKept, TypeOK, Doc
  <2>2. tuples' = tuples \/ Moves(g, job[r].doc.owner, old[r].owner)
    BY <1>6 DEF UndoOwner, Accepts, Moves
  <2>3. QED
    BY <1>0, <2>1, <2>2 DEF TupleStep
<1>7. CASE CreateGroup(r)
  BY <1>7 DEF CreateGroup, WriteGroup, TupleStep
<1>8. CASE CheckCanUpdate(r) \/ ReadGroup(r) \/ SetDetails(r)
  BY <1>8 DEF CheckCanUpdate, ReadGroup, ReadCopy, SetDetails, Read, WriteGroup, stores,
     TupleStep
<1>9. CASE \/ CheckCanDelete(r) \/ ReadDoomed(r) \/ FindMembers(r)
           \/ PullMembers(r) \/ DeleteGroup(r)
  BY <1>9 DEF CheckCanDelete, ReadDoomed, FindMembers, PullMembers, DeleteGroup, ReadCopy,
     Read, WriteRefs, WriteGroup, stores, TupleStep
<1>10. CASE Add(r)
  <2>1. CASE \E u \in Members : Make(r, u)
    BY <2>1 DEF Make, MakeCheckGroup, MakeFindUser, MakeInsert, MakeRevive, MakeWrite,
       Making, TupleStep
  <2>2. CASE ~ \E u \in Members : Make(r, u)
    BY <1>10, <2>2 DEF Add, ReadForAdd, CheckCanAdd, FindUsers, JoinUsers, FindLacking,
       PushMembers, MayChangeUsers, ReadCopy, Read, WriteRefs, stores, TupleStep
  <2>3. QED
    BY <2>1, <2>2
<1>11. CASE Remove(r) \/ EditData(r)
  BY <1>11 DEF Remove, EditData, ReadForRemove, CheckCanRemove, PullMember, ReadForData,
     CheckCanSetData, SetData, Reread, MayChangeUsers, ReadCopy, Read, WriteRefs,
     WriteGroup, stores, TupleStep
<1>12. CASE UndoCreate(r) \/ UndoDetails(r) \/ UndoDelete(r) \/ UndoPull(r)
  BY <1>12 DEF UndoCreate, UndoDetails, UndoDelete, UndoPull, UndoGroup, TupleStep
<1>13. QED
  BY <1>1, <1>2, <1>3, <1>4, <1>5, <1>6, <1>7, <1>8, <1>9, <1>10, <1>11, <1>12
     DEF Serve, Create, Edit, Delete, Rollback

LEMMA NextTuples ==
    ASSUME TypeOK, CopyKept, [Next]_vars
    PROVE  TupleStep
<1>1. CASE \E r \in Reqs : Serve(r)
  BY <1>1, ServeTuples
<1>2. CASE UNCHANGED vars \/ Crash \/ Idle \/ \E u \in Members : DeleteUser(u)
  BY <1>2 DEF vars, stores, Crash, Idle, DeleteUser, TupleStep
<1>3. QED
  BY <1>1, <1>2 DEF Next

-----------------------------------------------------------------------------
(* One owner at most                                                         *)

PlatformMarks ==
    \A g \in Groups, u \in Actors :
        OwnerTuple(u, g) \in tuples => PlatformTuple(g) \in tuples

LEMMA TupleNames ==
    /\ \A u, g, v, h : OwnerTuple(u, g) = OwnerTuple(v, h) <=> u = v /\ g = h
    /\ \A g, h : PlatformTuple(g) = PlatformTuple(h) <=> g = h
    /\ \A u, g, h : OwnerTuple(u, g) # PlatformTuple(h)
    /\ \A S, g, u, h : OwnerTuple(u, h) \notin CoOwnerTuples(S, g)
    /\ \A S, g, h : PlatformTuple(h) \notin CoOwnerTuples(S, g)
  BY DEF OwnerTuple, PlatformTuple, CoOwnerTuples

LEMMA OneOwnerStep ==
    ASSUME OneOwner, PlatformMarks, TupleStep
    PROVE  OneOwner' /\ PlatformMarks'
<1> USE TupleNames
<1>1. CASE tuples' = tuples
  BY <1>1 DEF OneOwner, PlatformMarks, OwnerTuple, PlatformTuple
<1>2. ASSUME NEW g \in Groups, NEW u \in Actors, Appoints(g, u)
      PROVE  OneOwner' /\ PlatformMarks'
  BY <1>2 DEF Appoints, OneOwner, PlatformMarks
<1>3. ASSUME NEW g \in Groups, NEW u \in Actors, NEW v \in Actors, Moves(g, u, v)
      PROVE  OneOwner' /\ PlatformMarks'
  BY <1>3 DEF Moves, OneOwner, PlatformMarks
<1>4. ASSUME NEW g \in Groups, NEW T \in SUBSET Actors, NEW S, Recasts(g, S, T)
      PROVE  OneOwner' /\ PlatformMarks'
  BY <1>4 DEF Recasts, OneOwner, PlatformMarks
<1>5. ASSUME NEW g \in Groups, NEW u \in Actors, NEW S, Drops(g, u, S)
      PROVE  OneOwner' /\ PlatformMarks'
  BY <1>5 DEF Drops, OneOwner, PlatformMarks
<1>6. QED
  BY <1>1, <1>2, <1>3, <1>4, <1>5 DEF TupleStep

LEMMA OneOwnerInit == Init => OneOwner /\ PlatformMarks
<1> SUFFICES ASSUME Init
             PROVE  OneOwner /\ PlatformMarks
  OBVIOUS
<1>1. PICK past \in SUBSET used :
        tuples = (UNION {Mirror(group[g], g) : g \in {h \in Groups : group[h] # NoDoc}})
                    \cup {PlatformTuple(g) : g \in past}
  BY DEF Init
<1>2. ASSUME NEW g \in Groups, NEW u \in Actors, OwnerTuple(u, g) \in tuples
      PROVE  u = group[g].owner /\ PlatformTuple(g) \in tuples
  <2>1. PICK h \in Groups : group[h] # NoDoc /\ OwnerTuple(u, g) \in Mirror(group[h], h)
    BY <1>1, <1>2, TupleNames
  <2>2. h = g /\ u = group[h].owner
    BY <2>1, TupleNames DEF Mirror
  <2>3. PlatformTuple(h) \in Mirror(group[h], h)
    BY DEF Mirror
  <2>4. QED
    BY <1>1, <2>1, <2>2, <2>3
<1>3. QED
  BY <1>2 DEF OneOwner, PlatformMarks

OwnerInv == TypeOK /\ CopyKept /\ OneOwner /\ PlatformMarks

LEMMA OwnerInvariant == Spec => []OwnerInv
<1>1. Init => OwnerInv
  BY InitType, OneOwnerInit DEF OwnerInv
<1>2. OwnerInv /\ [Next]_vars => OwnerInv'
  <2> SUFFICES ASSUME OwnerInv, [Next]_vars
               PROVE  OwnerInv'
    OBVIOUS
  <2>1. TypeOK' /\ CopyKept'
    BY TypeStep DEF OwnerInv
  <2>2. OneOwner' /\ PlatformMarks'
    BY NextTuples, OneOwnerStep DEF OwnerInv
  <2>3. QED
    BY <2>1, <2>2 DEF OwnerInv
<1>3. QED
  BY <1>1, <1>2, PTL DEF Spec

\* No interleaving, failed call, lost reply or crash ever leaves two owner
\* tuples on one group in OpenFGA.
THEOREM OneOwnerAlways == Spec => []OneOwner
<1>1. OwnerInv => OneOwner
  BY DEF OwnerInv
<1>2. QED
  BY <1>1, OwnerInvariant, PTL

-----------------------------------------------------------------------------
(* Refinement of OwnerToken                                                  *)

TokenHolder == [g \in Groups |-> Holder(g)]

\* When a group has one owner, the choice in Holder is that owner.
LEMMA HolderOwner ==
    ASSUME OneOwner, NEW g \in Groups, NEW u \in Actors, OwnerTuple(u, g) \in tuples
    PROVE  Holder(g) = u
<1>1. \A v \in Actors : v \in Owners(g) <=> v = u
  BY DEF OneOwner, Owners
<1>2. (CHOOSE v \in Actors : v \in Owners(g)) = u
  BY <1>1
<1>3. QED
  BY <1>1, <1>2 DEF Holder

LEMMA HolderType == ASSUME NEW g \in Groups PROVE Holder(g) \in Actors \cup {Vacant, Retired}
<1>1. CASE Owners(g) # {}
  <2>1. \E u \in Actors : u \in Owners(g)
    BY <1>1 DEF Owners
  <2>2. (CHOOSE u \in Actors : u \in Owners(g)) \in Actors
    BY <2>1
  <2>3. QED
    BY <1>1, <2>2 DEF Holder
<1>2. CASE Owners(g) = {}
  BY <1>2 DEF Holder
<1>3. QED
  BY <1>1, <1>2

LEMMA HolderOwnerNext ==
    ASSUME OneOwner', NEW g \in Groups, NEW u \in Actors, OwnerTuple(u, g) \in tuples'
    PROVE  Holder(g)' = u
<1>1. \A v \in Actors : v \in Owners(g)' <=> v = u
  BY DEF OneOwner, Owners, OwnerTuple
<1>2. (CHOOSE v \in Actors : v \in Owners(g)') = u
  BY <1>1
<1>3. QED
  BY <1>1, <1>2 DEF Holder

\* A group whose owner and platform tuples stay has the same holder.
LEMMA HolderKept ==
    ASSUME NEW g \in Groups,
           \A u \in Actors : OwnerTuple(u, g) \in tuples <=> OwnerTuple(u, g) \in tuples',
           PlatformTuple(g) \in tuples <=> PlatformTuple(g) \in tuples'
    PROVE  Holder(g)' = Holder(g)
<1>1. Owners(g)' = Owners(g)
  BY DEF Owners, OwnerTuple
<1>2. QED
  BY <1>1 DEF Holder, PlatformTuple

LEMMA HolderSet ==
    ASSUME NEW g \in Groups, NEW x, Holder(g)' = x,
           \A h \in Groups \ {g} : Holder(h)' = Holder(h)
    PROVE  TokenHolder' = [TokenHolder EXCEPT ![g] = x]
  BY DEF TokenHolder

LEMMA TokenStep ==
    ASSUME OwnerInv, OwnerInv', TupleStep
    PROVE  [Token!Next]_TokenHolder
<1> USE TupleNames
<1> DEFINE Same(g) ==
        /\ \A u \in Actors : OwnerTuple(u, g) \in tuples <=> OwnerTuple(u, g) \in tuples'
        /\ PlatformTuple(g) \in tuples <=> PlatformTuple(g) \in tuples'
<1>0. OneOwner /\ OneOwner' /\ PlatformMarks /\ PlatformMarks'
  BY DEF OwnerInv
<1>1. ASSUME \A g \in Groups : Same(g)
      PROVE  TokenHolder' = TokenHolder
  BY <1>1, HolderKept DEF TokenHolder
<1>2. CASE tuples' = tuples
  BY <1>1, <1>2
<1>3. ASSUME NEW g \in Groups, NEW u \in Actors, Appoints(g, u)
      PROVE  Token!Next
  <2>1. OwnerTuple(u, g) \in tuples'
    BY <1>3 DEF Appoints
  <2>2. Holder(g)' = u
    BY <1>0, <2>1, HolderOwnerNext
  <2>3. \A h \in Groups \ {g} : Same(h)
    BY <1>3 DEF Appoints
  <2>4. TokenHolder' = [TokenHolder EXCEPT ![g] = u]
    BY <2>2, <2>3, HolderKept, HolderSet
  <2>5. Owners(g) = {} /\ PlatformTuple(g) \notin tuples
    BY <1>0, <1>3 DEF Appoints, PlatformMarks, Owners
  <2>6. TokenHolder[g] = Vacant
    BY <2>5 DEF Holder, TokenHolder
  <2>7. QED
    BY <2>4, <2>6 DEF Token!Next, Token!Appoint, TokenHolder
<1>4. ASSUME NEW g \in Groups, NEW u \in Actors, NEW v \in Actors, Moves(g, u, v)
      PROVE  Token!Next
  <2>1. OwnerTuple(v, g) \in tuples'
    BY <1>4 DEF Moves
  <2>2. Holder(g)' = v
    BY <1>0, <2>1, HolderOwnerNext
  <2>3. \A h \in Groups \ {g} : Same(h)
    BY <1>4 DEF Moves
  <2>4. TokenHolder' = [TokenHolder EXCEPT ![g] = v]
    BY <2>2, <2>3, HolderKept, HolderSet
  <2>5. TokenHolder[g] \in Actors
    BY <1>0, <1>4, HolderOwner DEF Moves, TokenHolder
  <2>6. QED
    BY <2>4, <2>5 DEF Token!Next, Token!Transfer, TokenHolder
<1>5. ASSUME NEW g \in Groups, NEW T \in SUBSET Actors, NEW S, Recasts(g, S, T)
      PROVE  TokenHolder' = TokenHolder
  BY <1>1, <1>5 DEF Recasts
<1>6. ASSUME NEW g \in Groups, NEW u \in Actors, NEW S, Drops(g, u, S)
      PROVE  Token!Next
  <2>1. PlatformTuple(g) \in tuples'
    BY <1>0, <1>6 DEF Drops, PlatformMarks
  <2>2. Owners(g)' = {}
    BY <1>0, <1>6 DEF Drops, OneOwner, Owners, OwnerTuple
  <2>3. Holder(g)' = Retired
    BY <2>1, <2>2 DEF Holder, PlatformTuple
  <2>4. \A h \in Groups \ {g} : Same(h)
    BY <1>6 DEF Drops
  <2>5. TokenHolder' = [TokenHolder EXCEPT ![g] = Retired]
    BY <2>3, <2>4, HolderKept, HolderSet
  <2>6. TokenHolder[g] \in Actors
    BY <1>0, <1>6, HolderOwner DEF Drops, TokenHolder
  <2>7. QED
    BY <2>5, <2>6 DEF Token!Next, Token!Retire, TokenHolder
<1>7. QED
  BY <1>2, <1>3, <1>4, <1>5, <1>6 DEF TupleStep

LEMMA TokenInit == TokenHolder \in [Groups -> Actors \cup {Vacant, Retired}]
  BY HolderType DEF TokenHolder

\* Ownership in OpenFGA implements the token: whatever requests overlap, calls
\* fail or crashes happen, a group without a past gets its first owner, its
\* owner hands it on, and a group whose owner was taken away never has one again.
THEOREM OwnershipIsToken == Spec => OwnerIsToken
<1>1. Token!Init
  BY TokenInit DEF Token!Init, TokenHolder
<1>2. OwnerInv /\ OwnerInv' /\ [Next]_vars => [Token!Next]_TokenHolder
  BY NextTuples, TokenStep DEF OwnerInv
<1>3. QED
  BY <1>1, <1>2, OwnerInvariant, PTL DEF Spec, OwnerIsToken, Token!Spec, TokenHolder
------------------------------------------------------------------------------
(* A group whose deletion was answered never comes back.                   *)
(*                                                                         *)
(* What could bring it back is the rollback "recreate" of another delete   *)
(* and the insert of a create.  A request that registered the former found *)
(* the document (deletedCount was not 0), so as long as it holds it there  *)
(* is no document and no second such request: Closed.  A create works on   *)
(* an id that nobody has seen: Fresh.  The owner tuple cannot be moved     *)
(* back, as there is none, nor written anew, as the platform tuple stays.  *)

DeleteSteps == {"new", "canDelete", "readDoomed", "findMembers", "pullMembers",
                "deleteGroup", "deleteTuples", "rollback"} \cup Final

Holds(r)   == "recreate" \in undo[r]
Deleted(r) == pc[r] = "done" /\ job[r].op = "delete"
Closed(r)  == Holds(r) \/ Deleted(r)

\* The parts of the inductive invariant.
StepsOfDelete == \A r \in Reqs : job[r].op = "delete" => pc[r] \in DeleteSteps

HoldsBeforeTuples == \A r \in Reqs : pc[r] = "deleteTuples" => Holds(r)

KnownUsed == \A g \in Groups : group[g] # NoDoc => g \in used

ClosedGone ==
    \A r \in Reqs : Closed(r) =>
        /\ job[r].g \in used
        /\ group[job[r].g] = NoDoc
        /\ \A q \in Reqs \ {r} : Closed(q) => job[q].g # job[r].g

Fresh ==
    \A r \in Reqs : pc[r] = "create" =>
        /\ job[r].g \in used
        /\ group[job[r].g] = NoDoc
        /\ \A q \in Reqs \ {r} : pc[q] = "create" => job[q].g # job[r].g
        /\ \A q \in Reqs : Closed(q) => job[q].g # job[r].g

Orphaned ==
    \A r \in Reqs : Deleted(r) =>
        /\ PlatformTuple(job[r].g) \in tuples
        /\ \A u \in Actors : OwnerTuple(u, job[r].g) \notin tuples

GroupInv == StepsOfDelete /\ HoldsBeforeTuples /\ KnownUsed /\ ClosedGone /\ Fresh

-----------------------------------------------------------------------------
(* What the steps of a request do to the documents and to its own control.   *)

\* Nothing is born, and the request neither closes a group nor gets an id.
Quiet(r) ==
    /\ used' = used
    /\ \A g \in Groups : group'[g] # NoDoc => group[g] # NoDoc
    /\ "recreate" \in undo'[r] => "recreate" \in undo[r]
    /\ pc'[r] \notin {"create", "deleteTuples"}
    /\ pc'[r] = "done" => job[r].op # "delete"
    /\ job[r].op = "delete" => pc'[r] \in DeleteSteps

LEMMA ServeGroups ==
    ASSUME TypeOK, CopyKept, StepsOfDelete, NEW r \in Reqs, Serve(r)
    PROVE  \/ Quiet(r)
           \/ \E u \in Members : Make(r, u)
           \/ Accept(r) \/ CreateGroup(r) \/ DeleteGroup(r) \/ DeleteTuples(r)
           \/ UndoDelete(r)
<1>0. /\ pc \in [Reqs -> {"new", "rollback"} \cup Calls \cup Final]
      /\ undo \in [Reqs -> SUBSET Undos]
      /\ group \in [Groups -> Doc \cup {NoDoc}]
      /\ job[r].g \in Groups
      /\ job[r].op = "delete" => pc[r] \in DeleteSteps
  BY JobType DEF TypeOK, StepsOfDelete
<1>1. CASE WriteOwner(r)
  BY <1>0, <1>1 DEF WriteOwner, WriteTuples, Proceed, Throw, Quiet, DeleteSteps, Final
<1>2. CASE Edit(r)
  <2>1. CASE CheckCanUpdate(r) \/ ReadGroup(r)
    BY <1>0, <2>1 DEF CheckCanUpdate, ReadGroup, ReadCopy, Read, Proceed, Throw, stores,
       Quiet, DeleteSteps, Final
  <2>2. CASE SetDetails(r)
    BY <1>0, <2>2 DEF SetDetails, WithDetails, WriteGroup, Proceed, Throw, CoOwnersNext,
       Quiet, DeleteSteps, Final
  <2>3. CASE MoveOwner(r) \/ MoveCoOwners(r)
    BY <1>0, <2>3 DEF MoveOwner, MoveCoOwners, WriteTuples, Proceed, Throw, CoOwnersNext,
       Quiet, DeleteSteps, Final
  <2>4. QED
    BY <1>2, <2>1, <2>2, <2>3 DEF Edit
<1>3. CASE CheckCanDelete(r) \/ ReadDoomed(r) \/ FindMembers(r) \/ PullMembers(r)
  BY <1>0, <1>3 DEF CheckCanDelete, ReadDoomed, FindMembers, PullMembers, ReadCopy, Read,
     WriteRefs, Proceed, Throw, stores, Quiet, DeleteSteps, Final
<1>4. CASE Add(r)
  BY <1>0, <1>4 DEF Add, ReadForAdd, CheckCanAdd, FindUsers, JoinUsers, FindLacking,
     PushMembers, MayChangeUsers, ReadCopy, Read, WriteRefs, Proceed, Throw, stores,
     Quiet, DeleteSteps, Final
<1>5. CASE Remove(r)
  BY <1>0, <1>5 DEF Remove, ReadForRemove, CheckCanRemove, PullMember, MayChangeUsers,
     ReadCopy, Read, WriteRefs, Proceed, Throw, stores, Quiet, DeleteSteps, Final
<1>6. CASE EditData(r)
  <2>1. CASE SetData(r)
    BY <1>0, <2>1 DEF SetData, WriteGroup, Proceed, Throw, Quiet, DeleteSteps, Final
  <2>2. CASE ReadForData(r) \/ CheckCanSetData(r) \/ Reread(r)
    BY <1>0, <2>2 DEF ReadForData, CheckCanSetData, Reread, ReadCopy, Read, Proceed, Throw,
       stores, Quiet, DeleteSteps, Final
  <2>3. QED
    BY <1>6, <2>1, <2>2 DEF EditData
<1>7. CASE UndoCreate(r) \/ UndoDetails(r)
  BY <1>0, <1>7 DEF UndoCreate, UndoDetails, WithDetails, UndoGroup, Undoing, Quiet,
     DeleteSteps, Final
<1>8. CASE UndoOwner(r) \/ UndoPull(r)
  BY <1>0, <1>8 DEF UndoOwner, UndoPull, Undoing, Quiet, DeleteSteps, Final
<1>9. QED
  BY <1>1, <1>2, <1>3, <1>4, <1>5, <1>6, <1>7, <1>8
     DEF Serve, Create, Delete, Rollback

LEMMA ServeJob == ASSUME NEW r \in Reqs, Serve(r) PROVE job' = job
  BY DEF Serve, Accept, Create, Edit, Delete, Add, Remove, EditData, Rollback,
       CreateGroup, WriteOwner, CheckCanUpdate, ReadGroup, SetDetails, MoveOwner,
       MoveCoOwners, CheckCanDelete, ReadDoomed, FindMembers, PullMembers, DeleteGroup,
       DeleteTuples, ReadForAdd, CheckCanAdd, FindUsers, JoinUsers, FindLacking,
       PushMembers, ReadForRemove, CheckCanRemove, PullMember, ReadForData,
       CheckCanSetData, SetData, Reread, MayChangeUsers, ReadCopy, See, Read, WriteGroup,
       WriteTuples, WriteRefs, Proceed, Throw, locals,
       Make, MakeCheckGroup, MakeFindUser, MakeInsert, MakeRevive, MakeWrite, Making,
       UndoCreate, UndoDetails, UndoDelete, UndoOwner, UndoPull, UndoGroup, Undoing

LEMMA GroupStep ==
    ASSUME TypeOK, CopyKept, GroupInv, NEW r \in Reqs, Serve(r)
    PROVE  GroupInv'
<1> DEFINE g == job[r].g
<1>0. /\ pc \in [Reqs -> {"new", "rollback"} \cup Calls \cup Final]
      /\ undo \in [Reqs -> SUBSET Undos]
      /\ group \in [Groups -> Doc \cup {NoDoc}]
      /\ used \subseteq Groups
      /\ \A q \in Reqs : job[q].g \in Groups
      /\ job[r].op \in Ops
  BY JobType DEF TypeOK
<1>f. /\ job' = job
      /\ \A q \in Reqs \ {r} : pc'[q] = pc[q] /\ undo'[q] = undo[q]
  <2>1. \A q \in Reqs \ {r} : pc'[q] = pc[q] /\ undo'[q] = undo[q] /\ job' = job
    BY OtherRequests
  <2>2. job' = job
    BY ServeJob
  <2>3. QED
    BY <2>1, <2>2
<1> USE <1>0, <1>f DEF GroupInv, StepsOfDelete, HoldsBeforeTuples, KnownUsed, ClosedGone,
        Fresh, Closed, Holds, Deleted
<1>1. CASE Quiet(r)
  <2>1. StepsOfDelete' /\ HoldsBeforeTuples' /\ KnownUsed'
    BY <1>1 DEF Quiet
  <2>2. \A q \in Reqs : Closed(q)' => Closed(q)
    BY <1>1 DEF Quiet
  <2>3. ClosedGone'
    BY <1>1, <2>2 DEF Quiet
  <2>4. Fresh'
    BY <1>1, <2>2 DEF Quiet
  <2>5. QED
    BY <2>1, <2>3, <2>4
<1>2. CASE \E u \in Members : Make(r, u)
  BY <1>2 DEF Make, MakeCheckGroup, MakeFindUser, MakeInsert, MakeRevive, MakeWrite, Making
<1>3. CASE Accept(r)
  <2>1. /\ pc[r] = "new" /\ pc'[r] = First[job[r].op] /\ undo'[r] = undo[r]
        /\ group' = group
        /\ used \subseteq used'
        /\ job[r].op = "create" => g \notin used /\ g \in used'
    BY <1>3 DEF Accept, Proceed
  <2>2. /\ pc'[r] # "deleteTuples" /\ pc'[r] # "done"
        /\ pc'[r] = "create" => job[r].op = "create"
        /\ job[r].op = "delete" => pc'[r] \in DeleteSteps
    BY <2>1 DEF First, Ops, DeleteSteps
  <2>3. QED
    BY <2>1, <2>2
<1>4. CASE CreateGroup(r)
  BY <1>4 DEF CreateGroup, WriteGroup, Proceed, Throw, DeleteSteps, Final
<1>5. CASE DeleteGroup(r)
  BY <1>5 DEF DeleteGroup, WriteGroup, Proceed, Throw, DeleteSteps, Final
<1>6. CASE DeleteTuples(r)
  BY <1>6 DEF DeleteTuples, WriteTuples, Proceed, Throw, DeleteSteps, Final
<1>7. CASE UndoDelete(r)
  BY <1>7 DEF UndoDelete, UndoGroup, Undoing, DeleteSteps, Final
<1>8. QED
  BY <1>1, <1>2, <1>3, <1>4, <1>5, <1>6, <1>7, ServeGroups

-----------------------------------------------------------------------------
(* The owner tuple                                                           *)

\* Tuples change in one of the five ways, and none gives an owner to a group
\* that has its platform tuple and no owner.
LEMMA OrphanKept ==
    ASSUME TupleStep, NEW g \in Groups, PlatformTuple(g) \in tuples,
           \A u \in Actors : OwnerTuple(u, g) \notin tuples
    PROVE  /\ PlatformTuple(g) \in tuples'
           /\ \A u \in Actors : OwnerTuple(u, g) \notin tuples'
<1> USE TupleNames
<1>1. CASE tuples' = tuples
  BY <1>1
<1>2. CASE \E h \in Groups, u \in Actors : Appoints(h, u)
  BY <1>2 DEF Appoints
<1>3. CASE \E h \in Groups, u \in Actors, v \in Actors : Moves(h, u, v)
  BY <1>3 DEF Moves
<1>4. CASE \E h \in Groups, T \in SUBSET Actors : \E S : Recasts(h, S, T)
  BY <1>4 DEF Recasts
<1>5. CASE \E h \in Groups, u \in Actors : \E S : Drops(h, u, S)
  BY <1>5 DEF Drops
<1>6. QED
  BY <1>1, <1>2, <1>3, <1>4, <1>5 DEF TupleStep

\* The step that answers a delete takes the group's one owner away.
LEMMA LastOwner ==
    ASSUME OwnerInv, NEW r \in Reqs, DeleteTuples(r), pc'[r] = "done"
    PROVE  /\ PlatformTuple(job[r].g) \in tuples'
           /\ \A u \in Actors : OwnerTuple(u, job[r].g) \notin tuples'
<1> DEFINE g == job[r].g
           D == {OwnerTuple(old[r].owner, g)} \cup CoOwnerTuples(old[r].coOwners, g)
<1>0. OneOwner /\ PlatformMarks /\ g \in Groups /\ pc \in [Reqs -> {"new", "rollback"} \cup Calls \cup Final]
  BY JobType DEF OwnerInv, TypeOK
<1>1. D \subseteq tuples /\ tuples' = (tuples \ D) \cup {}
  BY <1>0 DEF DeleteTuples, WriteTuples, Accepts, Throw
<1>2. OwnerTuple(old[r].owner, g) \in tuples /\ old[r].owner \in Actors
  BY <1>1, OwnersAreActors DEF OwnerInv
<1>3. PlatformTuple(g) \in tuples /\ \A u \in Actors : OwnerTuple(u, g) \in tuples => u = old[r].owner
  BY <1>0, <1>2 DEF OneOwner, PlatformMarks
<1>4. QED
  BY <1>1, <1>3, TupleNames

LEMMA OrphanedStep ==
    ASSUME OwnerInv, GroupInv, Orphaned, NEW r \in Reqs, Serve(r)
    PROVE  Orphaned'
<1>0. TypeOK /\ CopyKept /\ TupleStep
  BY ServeTuples DEF OwnerInv
<1>1. job' = job
  BY <1>0, ServeJob
<1> SUFFICES ASSUME NEW q \in Reqs, Deleted(q)'
             PROVE  /\ PlatformTuple(job[q].g) \in tuples'
                    /\ \A u \in Actors : OwnerTuple(u, job[q].g) \notin tuples'
  BY <1>1 DEF Orphaned, PlatformTuple, OwnerTuple
<1>2. job[q].g \in Groups
  BY <1>0, JobType
<1>3. CASE Deleted(q)
  BY <1>0, <1>2, <1>3, OrphanKept DEF Orphaned
<1>4. CASE ~Deleted(q)
  <2>1. q = r
    BY <1>0, <1>1, <1>4, OtherRequests DEF Deleted
  <2>2. pc'[r] = "done" /\ pc[r] # "done" /\ job[r].op = "delete"
    BY <1>1, <1>4, <2>1 DEF Deleted
  <2>3. DeleteTuples(r)
    <3>0. /\ pc \in [Reqs -> {"new", "rollback"} \cup Calls \cup Final]
          /\ pc[r] \in DeleteSteps
      BY <1>0, <2>2 DEF TypeOK, GroupInv, StepsOfDelete
    <3>1. ~Quiet(r)
      BY <2>2 DEF Quiet
    <3>2. ~ \E u \in Members : Make(r, u)
      BY <2>2 DEF Make, MakeCheckGroup, MakeFindUser, MakeInsert, MakeRevive, MakeWrite, Making
    <3>3. ~Accept(r)
      BY <2>2, <3>0 DEF Accept, Proceed, First
    <3>4. ~CreateGroup(r)
      BY <3>0 DEF CreateGroup, DeleteSteps, Final
    <3>5. ~DeleteGroup(r)
      BY <2>2, <3>0 DEF DeleteGroup, WriteGroup, Proceed, Throw
    <3>6. ~UndoDelete(r)
      BY <2>2, <3>0 DEF UndoDelete, UndoGroup, Undoing
    <3>7. QED
      BY <1>0, <3>1, <3>2, <3>3, <3>4, <3>5, <3>6, ServeGroups DEF GroupInv
  <2>4. QED
    BY <2>1, <2>2, <2>3, LastOwner
<1>5. QED
  BY <1>3, <1>4

-----------------------------------------------------------------------------

DeletionInv == OwnerInv /\ GroupInv /\ Orphaned

LEMMA DeletionInit == Init => GroupInv /\ Orphaned
  BY DEF Init, GroupInv, StepsOfDelete, HoldsBeforeTuples, KnownUsed, ClosedGone, Fresh,
     Orphaned, Closed, Holds, Deleted, DeleteSteps

\* Steps that serve no request: a crash forgets rollbacks and ends requests.
LEMMA WorldDeletion ==
    ASSUME OwnerInv, GroupInv, Orphaned, UNCHANGED vars \/ Crash \/ Idle \/ \E u \in Members : DeleteUser(u)
    PROVE  GroupInv' /\ Orphaned'
<1> USE DEF GroupInv, StepsOfDelete, HoldsBeforeTuples, KnownUsed, ClosedGone, Fresh,
     Orphaned, Closed, Holds, Deleted, DeleteSteps
<1>1. CASE Crash
  BY <1>1 DEF Crash, stores, Final, OwnerInv, TypeOK, InFlight, PlatformTuple, OwnerTuple
<1>2. CASE UNCHANGED vars \/ Idle \/ \E u \in Members : DeleteUser(u)
  BY <1>2 DEF Idle, DeleteUser, vars, stores, locals, PlatformTuple, OwnerTuple
<1>3. QED
  BY <1>1, <1>2

LEMMA DeletionInvariant == Spec => []DeletionInv
<1>1. Init => GroupInv /\ Orphaned
  BY DeletionInit
<1>2. OwnerInv /\ GroupInv /\ Orphaned /\ [Next]_vars => GroupInv' /\ Orphaned'
  <2>1. ASSUME OwnerInv, GroupInv, Orphaned, NEW r \in Reqs, Serve(r)
        PROVE  GroupInv' /\ Orphaned'
    BY <2>1, GroupStep, OrphanedStep DEF OwnerInv
  <2>2. QED
    BY <2>1, WorldDeletion DEF Next
<1>3. QED
  BY <1>1, <1>2, OwnerInvariant, PTL DEF Spec, DeletionInv

\* A group whose deletion was answered as done has no document and no owner
\* ever after, whatever other creates, edits, deletes, rollbacks, failures and
\* crashes overlap with it.
THEOREM DeletionIsFinal == Spec => []DeletedForGood
<1>1. DeletionInv => DeletedForGood
  BY DEF DeletionInv, GroupInv, ClosedGone, Closed, Deleted, Orphaned, DeletedForGood
<1>2. QED
  BY <1>1, DeletionInvariant, PTL
-----------------------------------------------------------------------------
(* A group that exists has an owner.                                       *)
(*                                                                         *)
(* Whatever fails, one that has none is left by a create or a delete that  *)
(* did not end well.  The document is born without an owner only by a      *)
(* create, which either writes one or ends otherwise, and by a delete that *)
(* gives it back; the owner is taken only where the document is gone.      *)

HasOwner(g) == \E u \in Actors : OwnerTuple(u, g) \in tuples

CreateSteps == {"new", "create", "writeOwner", "rollback"} \cup Final
DeleteCalls == {"canDelete", "readDoomed", "findMembers", "pullMembers",
                "deleteGroup", "deleteTuples"}

\* Which requests create and delete, and the rollbacks they may hold.
Control(r) ==
    /\ pc[r] \in {"create", "writeOwner"} \/ "unCreate" \in undo[r] => job[r].op = "create"
    /\ pc[r] \in DeleteCalls \/ "recreate" \in undo[r] => job[r].op = "delete"
    /\ job[r].op = "create" =>
          /\ pc[r] \in CreateSteps
          /\ undo[r] \subseteq {"unCreate"}
          /\ pc[r] \in {"new", "create"} => undo[r] = {}
          /\ pc[r] \in {"writeOwner", "rollback"} => undo[r] = {"unCreate"}

Controlled == \A r \in Reqs : Control(r)

\* A create that has not written the owner, or a delete that has failed.
Unfinished(g) ==
    \E r \in Reqs :
        /\ job[r].g = g
        /\ \/ job[r].op = "create" /\ pc[r] \in {"writeOwner", "rollback", "failed", "crashed"}
           \/ job[r].op = "delete" /\ pc[r] \in {"rollback", "failed", "crashed"}

OwnedOrUnfinished == \A g \in Groups : group[g] # NoDoc => HasOwner(g) \/ Unfinished(g)

LEMMA ControlServed ==
    ASSUME TypeOK, NEW r \in Reqs, Control(r), Serve(r)
    PROVE  Control(r)'
<1>0. /\ pc \in [Reqs -> {"new", "rollback"} \cup Calls \cup Final]
      /\ undo \in [Reqs -> SUBSET Undos]
      /\ job[r].op \in Ops
  BY JobType DEF TypeOK
<1>j. job' = job
  BY ServeJob
<1> USE <1>0, <1>j DEF Control, CreateSteps, DeleteCalls, Final
<1>1. CASE Accept(r)
  <2>1. pc[r] = "new" /\ pc'[r] = First[job[r].op] /\ undo'[r] = undo[r]
    BY <1>1 DEF Accept, Proceed
  <2>2. QED
    BY <2>1 DEF First, Ops
<1>2. CASE Create(r)
  BY <1>2 DEF Create, CreateGroup, WriteOwner, WriteGroup, WriteTuples, Proceed, Throw
<1>3. CASE Edit(r)
  <2>1. CASE CheckCanUpdate(r) \/ ReadGroup(r)
    BY <2>1 DEF CheckCanUpdate, ReadGroup, ReadCopy, Read, Proceed, Throw
  <2>2. CASE SetDetails(r)
    BY <2>2 DEF SetDetails, WriteGroup, Proceed, Throw, CoOwnersNext
  <2>3. CASE MoveOwner(r) \/ MoveCoOwners(r)
    BY <2>3 DEF MoveOwner, MoveCoOwners, WriteTuples, Proceed, Throw, CoOwnersNext
  <2>4. QED
    BY <1>3, <2>1, <2>2, <2>3 DEF Edit
<1>4. CASE Delete(r)
  BY <1>4 DEF Delete, CheckCanDelete, ReadDoomed, FindMembers, PullMembers, DeleteGroup,
     DeleteTuples, ReadCopy, Read, WriteGroup, WriteTuples, WriteRefs, Proceed, Throw
<1>5. CASE Add(r)
  <2>1. CASE \E u \in Members : Make(r, u)
    BY <2>1 DEF Make, MakeCheckGroup, MakeFindUser, MakeInsert, MakeRevive, MakeWrite, Making
  <2>2. CASE ~ \E u \in Members : Make(r, u)
    BY <1>5, <2>2 DEF Add, ReadForAdd, CheckCanAdd, FindUsers, JoinUsers, FindLacking,
       PushMembers, MayChangeUsers, ReadCopy, Read, WriteRefs, Proceed, Throw
  <2>3. QED
    BY <2>1, <2>2
<1>6. CASE Remove(r) \/ EditData(r)
  BY <1>6 DEF Remove, EditData, ReadForRemove, CheckCanRemove, PullMember, ReadForData,
     CheckCanSetData, SetData, Reread, MayChangeUsers, ReadCopy, Read, WriteGroup,
     WriteRefs, Proceed, Throw
<1>7. CASE Rollback(r)
  <2>1. PICK k \in undo[r] : Undoing(r, k)
    BY <1>7 DEF Rollback, UndoCreate, UndoDetails, UndoDelete, UndoOwner, UndoPull,
       UndoGroup, Undoing
  <2>2. QED
    BY <2>1 DEF Undoing
<1>8. QED
  BY <1>1, <1>2, <1>3, <1>4, <1>5, <1>6, <1>7 DEF Serve

\* Owners go only with the last call of a delete, and platform tuples never;
\* both come only with the last call of a create.
LEMMA OwnersKept ==
    ASSUME TypeOK, CopyKept, NEW r \in Reqs, Serve(r), ~WriteOwner(r), ~DeleteTuples(r),
           NEW g \in Groups
    PROVE  /\ HasOwner(g) => HasOwner(g)'
           /\ PlatformTuple(g) \in tuples' => PlatformTuple(g) \in tuples
<1> DEFINE h == job[r].g
<1>0. job[r].doc.owner \in Actors
  BY JobType
<1>1. ASSUME NEW u, NEW v \in Actors, tuples' = tuples \/ Moves(h, u, v)
      PROVE  /\ HasOwner(g) => HasOwner(g)'
             /\ PlatformTuple(g) \in tuples' => PlatformTuple(g) \in tuples
  <2>1. CASE tuples' = tuples
    BY <2>1 DEF HasOwner, OwnerTuple
  <2>2. CASE Moves(h, u, v)
    <3>1. OwnerTuple(v, h) \in tuples'
      BY <2>2 DEF Moves
    <3>2. ASSUME NEW w \in Actors, OwnerTuple(w, g) \in tuples PROVE HasOwner(g)'
      <4>1. CASE OwnerTuple(w, g) = OwnerTuple(u, h)
        BY <1>1, <3>1, <4>1, TupleNames DEF HasOwner, OwnerTuple
      <4>2. CASE OwnerTuple(w, g) # OwnerTuple(u, h)
        BY <2>2, <3>2, <4>2 DEF Moves, HasOwner, OwnerTuple
      <4>3. QED
        BY <4>1, <4>2
    <3>3. PlatformTuple(g) \in tuples' => PlatformTuple(g) \in tuples
      BY <2>2, TupleNames DEF Moves
    <3>4. QED
      BY <3>2, <3>3 DEF HasOwner
  <2>3. QED
    BY <1>1, <2>1, <2>2
<1>2. CASE MoveOwner(r)
  <2>1. tuples' = tuples \/ Moves(h, old[r].owner, job[r].doc.owner)
    BY <1>2, WriteTuplesStep DEF MoveOwner, Moves
  <2>2. QED
    BY <1>0, <1>1, <2>1
<1>3. CASE UndoOwner(r)
  <2>1. old[r].owner \in Actors
    BY <1>3 DEF UndoOwner, Undoing, CopyKept, TypeOK, Doc
  <2>2. tuples' = tuples \/ Moves(h, job[r].doc.owner, old[r].owner)
    BY <1>3 DEF UndoOwner, Accepts, Moves
  <2>3. QED
    BY <1>1, <2>1, <2>2
<1>4. CASE MoveCoOwners(r)
  <2>1. tuples' = tuples \/ Recasts(h, CoOwnersRemoved(r), CoOwnersAdded(r))
    BY <1>4, WriteTuplesStep DEF MoveCoOwners, Recasts
  <2>2. QED
    BY <2>1, TupleNames DEF Recasts, HasOwner
<1>5. CASE ~MoveOwner(r) /\ ~UndoOwner(r) /\ ~MoveCoOwners(r)
  <2>1. tuples' = tuples
    <3>1. CASE Accept(r) \/ CreateGroup(r) \/ CheckCanUpdate(r) \/ ReadGroup(r) \/ SetDetails(r)
      BY <3>1 DEF Accept, CreateGroup, CheckCanUpdate, ReadGroup, ReadCopy, SetDetails,
         Read, WriteGroup, stores
    <3>2. CASE \/ CheckCanDelete(r) \/ ReadDoomed(r) \/ FindMembers(r)
               \/ PullMembers(r) \/ DeleteGroup(r)
      BY <3>2 DEF CheckCanDelete, ReadDoomed, FindMembers, PullMembers, DeleteGroup,
         ReadCopy, Read, WriteRefs, WriteGroup, stores
    <3>3. CASE \E u \in Members : Make(r, u)
      BY <3>3 DEF Make, MakeCheckGroup, MakeFindUser, MakeInsert, MakeRevive, MakeWrite, Making
    <3>4. CASE Add(r) /\ ~ \E u \in Members : Make(r, u)
      BY <3>4 DEF Add, ReadForAdd, CheckCanAdd, FindUsers, JoinUsers, FindLacking,
         PushMembers, MayChangeUsers, ReadCopy, Read, WriteRefs, stores
    <3>5. CASE Remove(r) \/ EditData(r)
      BY <3>5 DEF Remove, EditData, ReadForRemove, CheckCanRemove, PullMember, ReadForData,
         CheckCanSetData, SetData, Reread, MayChangeUsers, ReadCopy, Read, WriteRefs,
         WriteGroup, stores
    <3>6. CASE UndoCreate(r) \/ UndoDetails(r) \/ UndoDelete(r) \/ UndoPull(r)
      BY <3>6 DEF UndoCreate, UndoDetails, UndoDelete, UndoPull, UndoGroup
    <3>7. QED
      BY <1>5, <3>1, <3>2, <3>3, <3>4, <3>5, <3>6 DEF Serve, Create, Edit, Delete, Rollback
  <2>2. QED
    BY <2>1 DEF HasOwner, OwnerTuple
<1>6. QED
  BY <1>2, <1>3, <1>4, <1>5
\* A request that rolls back, or has failed, does nothing else any more.
LEMMA LateServe ==
    ASSUME TypeOK, NEW r \in Reqs, Serve(r)
    PROVE  /\ pc[r] \in {"rollback", "failed", "crashed"} =>
                 pc'[r] \in {"rollback", "failed", "crashed"}
           /\ pc[r] = "writeOwner" => WriteOwner(r) \/ pc'[r] = "writeOwner"
<1>0. /\ pc \in [Reqs -> {"new", "rollback"} \cup Calls \cup Final]
      /\ job[r].op \in Ops
  BY JobType DEF TypeOK
<1>1. CASE \E u \in Members : Make(r, u)
  BY <1>1 DEF Make, MakeCheckGroup, MakeFindUser, MakeInsert, MakeRevive, MakeWrite, Making
<1>2. CASE Rollback(r)
  <2>1. PICK k \in undo[r] : Undoing(r, k)
    BY <1>2 DEF Rollback, UndoCreate, UndoDetails, UndoDelete, UndoOwner, UndoPull,
       UndoGroup, Undoing
  <2>2. QED
    BY <1>0, <2>1 DEF Undoing
<1>3. CASE ~Rollback(r) /\ ~ \E u \in Members : Make(r, u)
  BY <1>3 DEF Serve, Accept, Create, Edit, Delete, Add, Remove, EditData,
     CreateGroup, WriteOwner, CheckCanUpdate, ReadGroup, SetDetails, MoveOwner,
     MoveCoOwners, CheckCanDelete, ReadDoomed, FindMembers, PullMembers, DeleteGroup,
     DeleteTuples, ReadForAdd, CheckCanAdd, FindUsers, JoinUsers, FindLacking,
     PushMembers, ReadForRemove, CheckCanRemove, PullMember, ReadForData,
     CheckCanSetData, SetData, Reread
<1>4. QED
  BY <1>1, <1>2, <1>3

\* A document is born of a create, or of the rollback of a delete.
LEMMA Born ==
    ASSUME TypeOK, CopyKept, StepsOfDelete, NEW r \in Reqs, Serve(r),
           NEW g \in Groups, group[g] = NoDoc, group'[g] # NoDoc
    PROVE  g = job[r].g /\ (CreateGroup(r) \/ UndoDelete(r))
<1>0. group \in [Groups -> Doc \cup {NoDoc}]
  BY DEF TypeOK
<1>1. ~Quiet(r)
  BY DEF Quiet
<1>2. ~ \E u \in Members : Make(r, u)
  BY DEF Make, MakeCheckGroup, MakeFindUser, MakeInsert, MakeRevive, MakeWrite, Making
<1>3. ~Accept(r) /\ ~DeleteTuples(r)
  BY DEF Accept, DeleteTuples, WriteTuples
<1>4. ~DeleteGroup(r)
  BY <1>0 DEF DeleteGroup, WriteGroup
<1>5. CreateGroup(r) \/ UndoDelete(r)
  BY <1>1, <1>2, <1>3, <1>4, ServeGroups
<1>6. g = job[r].g
  BY <1>0, <1>5 DEF CreateGroup, WriteGroup, UndoDelete, UndoGroup
<1>7. QED
  BY <1>5, <1>6

LEMMA OwnedStep ==
    ASSUME OwnerInv, GroupInv, Controlled, OwnedOrUnfinished, NEW r \in Reqs, Serve(r)
    PROVE  OwnedOrUnfinished'
<1> SUFFICES ASSUME NEW g \in Groups, group'[g] # NoDoc
             PROVE  HasOwner(g)' \/ Unfinished(g)'
  BY DEF OwnedOrUnfinished
<1>0. /\ TypeOK /\ CopyKept /\ Control(r)
      /\ pc \in [Reqs -> {"new", "rollback"} \cup Calls \cup Final]
  BY DEF OwnerInv, TypeOK, Controlled
<1>j. job' = job /\ \A q \in Reqs \ {r} : pc'[q] = pc[q]
  BY <1>0, ServeJob, OtherRequests
<1>1. CASE WriteOwner(r)
  <2>1. \/ tuples' = tuples
        \/ tuples' = (tuples \ {}) \cup {OwnerTuple(job[r].by, job[r].g), PlatformTuple(job[r].g)}
    BY <1>1, WriteTuplesStep DEF WriteOwner
  <2>2. HasOwner(g) => HasOwner(g)'
    BY <2>1 DEF HasOwner, OwnerTuple
  <2>3. group' = group
    BY <1>1 DEF WriteOwner, WriteTuples
  <2>4. ASSUME NEW q \in Reqs, job[q].g = g,
               \/ job[q].op = "create" /\ pc[q] \in {"writeOwner", "rollback", "failed", "crashed"}
               \/ job[q].op = "delete" /\ pc[q] \in {"rollback", "failed", "crashed"}
        PROVE  HasOwner(g)' \/ Unfinished(g)'
    <3>1. CASE q # r
      BY <1>j, <2>4, <3>1 DEF Unfinished
    <3>2. CASE q = r /\ pc'[r] = "done"
      <4>1. OwnerTuple(job[r].by, g) \in tuples' /\ job[r].by \in Actors
        BY <1>0, <1>1, <2>4, <3>2, JobType DEF WriteOwner, WriteTuples, Throw
      <4>2. QED
        BY <4>1 DEF HasOwner, OwnerTuple
    <3>3. CASE q = r /\ pc'[r] # "done"
      <4>1. pc'[r] \in {"rollback", "failed"} /\ job[r].op = "create"
        BY <1>0, <1>1, <3>3 DEF WriteOwner, WriteTuples, Proceed, Throw, Control
      <4>2. QED
        BY <1>j, <2>4, <3>3, <4>1 DEF Unfinished
    <3>4. QED
      BY <3>1, <3>2, <3>3
  <2>5. QED
    BY <2>2, <2>3, <2>4 DEF OwnedOrUnfinished, Unfinished
<1>2. ASSUME ~WriteOwner(r), Unfinished(g)
      PROVE  Unfinished(g)'
  <2>1. PICK q \in Reqs :
          /\ job[q].g = g
          /\ \/ job[q].op = "create" /\ pc[q] \in {"writeOwner", "rollback", "failed", "crashed"}
             \/ job[q].op = "delete" /\ pc[q] \in {"rollback", "failed", "crashed"}
    BY <1>2 DEF Unfinished
  <2>2. \/ job[q].op = "create" /\ pc'[q] \in {"writeOwner", "rollback", "failed", "crashed"}
        \/ job[q].op = "delete" /\ pc'[q] \in {"rollback", "failed", "crashed"}
    BY <1>0, <1>j, <1>2, <2>1, LateServe
  <2>3. QED
    BY <1>j, <2>1, <2>2 DEF Unfinished
<1>3. CASE DeleteTuples(r)
  <2>1. group[job[r].g] = NoDoc /\ group' = group
    BY <1>3 DEF DeleteTuples, WriteTuples, GroupInv, HoldsBeforeTuples, ClosedGone, Closed
  <2>2. \/ tuples' = tuples
        \/ tuples' = (tuples \ ({OwnerTuple(old[r].owner, job[r].g)}
                                   \cup CoOwnerTuples(old[r].coOwners, job[r].g))) \cup {}
    BY <1>3, WriteTuplesStep DEF DeleteTuples
  <2>3. HasOwner(g) => HasOwner(g)'
    BY <2>1, <2>2, TupleNames DEF HasOwner
  <2>4. ~WriteOwner(r)
    BY <1>3 DEF DeleteTuples, WriteOwner
  <2>5. QED
    BY <1>2, <2>1, <2>3, <2>4 DEF OwnedOrUnfinished
<1>4. CASE ~WriteOwner(r) /\ ~DeleteTuples(r)
  <2>1. CASE group[g] # NoDoc
    BY <1>0, <1>2, <1>4, <2>1, OwnersKept DEF OwnedOrUnfinished
  <2>2. CASE group[g] = NoDoc
    <3>1. g = job[r].g /\ (CreateGroup(r) \/ UndoDelete(r))
      BY <1>0, <2>2, Born DEF GroupInv
    <3>2. CASE CreateGroup(r)
      <4>1. job[r].op = "create" /\ pc'[r] \in {"writeOwner", "rollback", "failed"}
        BY <1>0, <3>2 DEF CreateGroup, WriteGroup, Proceed, Throw, Control
      <4>2. QED
        BY <1>j, <3>1, <4>1 DEF Unfinished
    <3>3. CASE UndoDelete(r)
      <4>1. job[r].op = "delete" /\ pc'[r] \in {"rollback", "failed"}
        BY <1>0, <3>3 DEF UndoDelete, UndoGroup, Undoing, Control
      <4>2. QED
        BY <1>j, <3>1, <4>1 DEF Unfinished
    <3>4. QED
      BY <3>1, <3>2, <3>3
  <2>3. QED
    BY <2>1, <2>2
<1>5. QED
  BY <1>1, <1>3, <1>4

LEMMA OwnedInit == Init => Controlled /\ OwnedOrUnfinished
<1> SUFFICES ASSUME Init
             PROVE  Controlled /\ OwnedOrUnfinished
  OBVIOUS
<1>1. Controlled
  BY DEF Init, Controlled, Control, CreateSteps, DeleteCalls
<1>2. ASSUME NEW g \in Groups, group[g] # NoDoc PROVE HasOwner(g)
  <2>1. OwnerTuple(group[g].owner, g) \in tuples
    BY <1>2 DEF Init, Mirror
  <2>2. group[g].owner \in Actors
    BY <1>2 DEF Init, Doc
  <2>3. QED
    BY <2>1, <2>2 DEF HasOwner
<1>3. QED
  BY <1>1, <1>2 DEF OwnedOrUnfinished

LEMMA WorldOwned ==
    ASSUME TypeOK, Controlled, OwnedOrUnfinished,
           UNCHANGED vars \/ Crash \/ Idle \/ \E u \in Members : DeleteUser(u)
    PROVE  Controlled' /\ OwnedOrUnfinished'
<1>1. CASE Crash
  <2>1. /\ UNCHANGED <<group, tuples, job>>
        /\ \A r \in Reqs : (pc'[r] = pc[r] \/ pc'[r] = "crashed") /\ undo'[r] = {}
        /\ \A r \in Reqs : pc'[r] = pc[r] => pc[r] \notin {"writeOwner", "rollback"}
    BY <1>1 DEF Crash, stores, TypeOK, InFlight, Final
  <2>2. Controlled'
    BY <2>1 DEF Controlled, Control, CreateSteps, DeleteCalls, Final
  <2>3. \A g \in Groups : Unfinished(g) => Unfinished(g)'
    BY <2>1 DEF Unfinished
  <2>4. OwnedOrUnfinished'
    BY <2>1, <2>3 DEF OwnedOrUnfinished, HasOwner, OwnerTuple
  <2>5. QED
    BY <2>2, <2>4
<1>2. CASE UNCHANGED vars \/ Idle \/ \E u \in Members : DeleteUser(u)
  BY <1>2 DEF Idle, DeleteUser, vars, stores, locals, Controlled, Control,
     OwnedOrUnfinished, HasOwner, OwnerTuple, Unfinished
<1>3. QED
  BY <1>1, <1>2

OwnedInv == DeletionInv /\ Controlled /\ OwnedOrUnfinished

LEMMA OwnedNext ==
    ASSUME DeletionInv, Controlled, OwnedOrUnfinished, [Next]_vars
    PROVE  Controlled' /\ OwnedOrUnfinished'
<1>0. TypeOK /\ OwnerInv /\ GroupInv
  BY DEF DeletionInv, OwnerInv
<1>1. ASSUME NEW r \in Reqs, Serve(r)
      PROVE  Controlled' /\ OwnedOrUnfinished'
  <2>1. Control(r)'
    BY <1>0, <1>1, ControlServed DEF Controlled
  <2>2. \A q \in Reqs \ {r} : Control(q)'
    BY <1>0, <1>1, OtherRequests DEF Controlled, Control
  <2>3. QED
    BY <1>0, <1>1, <2>1, <2>2, OwnedStep DEF Controlled
<1>2. QED
  BY <1>0, <1>1, WorldOwned DEF Next

LEMMA OwnedInvariant == Spec => []OwnedInv
<1>1. DeletionInv /\ Controlled /\ OwnedOrUnfinished /\ [Next]_vars
         => Controlled' /\ OwnedOrUnfinished'
  BY OwnedNext
<1>2. QED
  BY <1>1, OwnedInit, DeletionInvariant, PTL DEF Spec, OwnedInv

\* Whatever creates, edits, deletes and rollbacks overlap, and whatever fails,
\* is lost or crashes: a group that exists without an owner is what a create
\* that has not ended well, or a delete that has failed, leaves behind.  Where
\* there is neither, the group has an owner, whatever edits of it overlap.
THEOREM OwnerlessExplained == Spec => []OwnedOrUnfinished
<1>1. OwnedInv => OwnedOrUnfinished
  BY DEF OwnedInv
<1>2. QED
  BY <1>1, OwnedInvariant, PTL
-----------------------------------------------------------------------------
(* With one refused call at most, nothing lost and no crash, the creates   *)
(* and deletes that fail leave no such group.  A create that must roll     *)
(* back has had its refusal, so its rollback works; the deletes of its     *)
(* group come after the platform tuple, and so after the create, and the   *)
(* last call of a delete finds the document gone and no other delete that  *)
(* could give it back.                                                     *)

OneRefusal == FaultKinds \subseteq {"refused"} /\ MaxFaults <= 1

Creates(r) == job[r].op = "create" /\ pc[r] # "new"

\* The calls of a delete after its check.
LateCalls == DeleteCalls \ {"canDelete"}

PlatformKnown == \A g \in Groups : PlatformTuple(g) \in tuples => g \in used

CreatesApart ==
    \A r \in Reqs : Creates(r) =>
        /\ job[r].g \in used
        /\ \A q \in Reqs \ {r} : Creates(q) => job[q].g # job[r].g

Unwritten ==
    \A r \in Reqs : Creates(r) /\ pc[r] # "done" => PlatformTuple(job[r].g) \notin tuples

DeletesKnown ==
    \A r \in Reqs : pc[r] \in LateCalls \/ Holds(r) => PlatformTuple(job[r].g) \in tuples

CreatesUndone ==
    \A r \in Reqs : Creates(r) =>
        /\ pc[r] = "failed" => group[job[r].g] = NoDoc
        /\ pc[r] = "rollback" => faults = MaxFaults

OwnerKept ==
    \A g \in Groups :
        \/ group[g] # NoDoc
        \/ \E r \in Reqs : Holds(r) /\ pc[r] \notin Final /\ job[r].g = g
        => \/ HasOwner(g)
           \/ \E r \in Reqs : /\ Creates(r) /\ job[r].g = g
                              /\ pc[r] \in {"writeOwner", "rollback"}

Whole == /\ PlatformKnown /\ CreatesApart /\ Unwritten
         /\ DeletesKnown /\ CreatesUndone /\ OwnerKept

LEMMA PlatformStays ==
    ASSUME TupleStep, NEW g \in Groups, PlatformTuple(g) \in tuples
    PROVE  PlatformTuple(g) \in tuples'
  BY TupleNames DEF TupleStep, Appoints, Moves, Recasts, Drops

LEMMA FaultsSpent ==
    ASSUME TypeOK, NEW r \in Reqs, Serve(r), faults = MaxFaults
    PROVE  faults' = faults
<1>1. \A k : ~Fault(k)
  BY DEF Fault, TypeOK
<1>2. QED
  BY <1>1 DEF Serve, Accept, Create, Edit, Delete, Add, Remove, EditData, Rollback,
       CreateGroup, WriteOwner, CheckCanUpdate, ReadGroup, SetDetails, MoveOwner,
       MoveCoOwners, CheckCanDelete, ReadDoomed, FindMembers, PullMembers, DeleteGroup,
       DeleteTuples, ReadForAdd, CheckCanAdd, FindUsers, JoinUsers, FindLacking,
       PushMembers, ReadForRemove, CheckCanRemove, PullMember, ReadForData,
       CheckCanSetData, SetData, Reread, MayChangeUsers, ReadCopy, Read, WriteGroup,
       WriteTuples, WriteRefs,
       Make, MakeCheckGroup, MakeFindUser, MakeInsert, MakeRevive, MakeWrite,
       UndoCreate, UndoDetails, UndoDelete, UndoOwner, UndoPull, UndoGroup

\* The steps that neither create, delete nor give back a group.
Plain(r) ==
    /\ ~Accept(r) /\ ~CreateGroup(r) /\ ~WriteOwner(r) /\ ~CheckCanDelete(r)
    /\ ~DeleteGroup(r) /\ ~DeleteTuples(r) /\ ~UndoCreate(r) /\ ~UndoDelete(r)

LEMMA PlainServe ==
    ASSUME TypeOK, NEW r \in Reqs, Control(r), Serve(r), Plain(r)
    PROVE  /\ used' = used
           /\ pc'[r] \in LateCalls => pc[r] \in LateCalls
           /\ Holds(r)' => Holds(r)
           /\ pc'[r] \notin Final => pc[r] \notin Final
           /\ job[r].op = "create" => pc'[r] = pc[r]
<1>0. /\ pc \in [Reqs -> {"new", "rollback"} \cup Calls \cup Final]
      /\ undo \in [Reqs -> SUBSET Undos]
  BY DEF TypeOK
<1> USE <1>0 DEF Control, CreateSteps, DeleteCalls, LateCalls, Final, Holds
<1>1. CASE Edit(r)
  <2>1. CASE CheckCanUpdate(r) \/ ReadGroup(r)
    BY <2>1 DEF CheckCanUpdate, ReadGroup, ReadCopy, Read, Proceed, Throw, stores
  <2>2. CASE SetDetails(r)
    BY <2>2 DEF SetDetails, WriteGroup, Proceed, Throw, CoOwnersNext
  <2>3. CASE MoveOwner(r) \/ MoveCoOwners(r)
    BY <2>3 DEF MoveOwner, MoveCoOwners, WriteTuples, Proceed, Throw, CoOwnersNext
  <2>4. QED
    BY <1>1, <2>1, <2>2, <2>3 DEF Edit
<1>2. CASE ReadDoomed(r) \/ FindMembers(r) \/ PullMembers(r)
  BY <1>2 DEF ReadDoomed, FindMembers, PullMembers, ReadCopy, Read, WriteRefs, Proceed,
     Throw, stores
<1>3. CASE \E u \in Members : Make(r, u)
  BY <1>3 DEF Make, MakeCheckGroup, MakeFindUser, MakeInsert, MakeRevive, MakeWrite, Making
<1>4. CASE Add(r) /\ ~ \E u \in Members : Make(r, u)
  BY <1>4 DEF Add, ReadForAdd, CheckCanAdd, FindUsers, JoinUsers, FindLacking,
     PushMembers, MayChangeUsers, ReadCopy, Read, WriteRefs, Proceed, Throw, stores
<1>5. CASE Remove(r) \/ EditData(r)
  BY <1>5 DEF Remove, EditData, ReadForRemove, CheckCanRemove, PullMember, ReadForData,
     CheckCanSetData, SetData, Reread, MayChangeUsers, ReadCopy, Read, WriteGroup,
     WriteRefs, Proceed, Throw, stores
<1>6. CASE UndoDetails(r) \/ UndoOwner(r) \/ UndoPull(r)
  <2>1. PICK k \in undo[r] : Undoing(r, k) /\ k # "unCreate"
    BY <1>6 DEF UndoDetails, UndoOwner, UndoPull, UndoGroup, Undoing
  <2>2. QED
    BY <2>1 DEF Undoing
<1>7. QED
  BY <1>1, <1>2, <1>3, <1>4, <1>5, <1>6 DEF Plain, Serve, Create, Delete, Rollback
LEMMA PlainWhole ==
    ASSUME OwnerInv, GroupInv, Controlled, Whole, NEW r \in Reqs, Serve(r), Plain(r)
    PROVE  Whole'
<1>0. TypeOK /\ CopyKept /\ Control(r) /\ StepsOfDelete
  BY DEF OwnerInv, Controlled, GroupInv
<1>1. \A q \in Reqs : job[q].g \in Groups
  BY <1>0, JobType
<1>2. /\ used' = used
      /\ pc'[r] \in LateCalls => pc[r] \in LateCalls
      /\ Holds(r)' => Holds(r)
      /\ pc'[r] \notin Final => pc[r] \notin Final
      /\ job[r].op = "create" => pc'[r] = pc[r]
  BY <1>0, PlainServe
<1>3. /\ job' = job
      /\ \A q \in Reqs \ {r} : pc'[q] = pc[q] /\ undo'[q] = undo[q]
  BY <1>0, ServeJob, OtherRequests
<1>4. \A q \in Reqs : Creates(q)' <=> Creates(q)
  BY <1>2, <1>3 DEF Creates
<1>5. \A q \in Reqs : Creates(q) => pc'[q] = pc[q]
  BY <1>2, <1>3 DEF Creates
<1>6. \A q \in Reqs : /\ pc'[q] \in LateCalls => pc[q] \in LateCalls
                      /\ Holds(q)' => Holds(q)
                      /\ pc'[q] \notin Final => pc[q] \notin Final
  BY <1>2, <1>3 DEF Holds
<1>7. \A g \in Groups : /\ PlatformTuple(g) \in tuples' <=> PlatformTuple(g) \in tuples
                        /\ HasOwner(g) => HasOwner(g)'
                        /\ group'[g] # NoDoc => group[g] # NoDoc
  BY <1>0, OwnersKept, PlatformStays, ServeTuples, Born DEF Plain
<1>8. PlatformKnown' /\ CreatesApart' /\ Unwritten' /\ DeletesKnown'
  BY <1>1, <1>2, <1>3, <1>4, <1>5, <1>6, <1>7
     DEF Whole, PlatformKnown, CreatesApart, Unwritten, DeletesKnown, PlatformTuple
<1>9. CreatesUndone'
  BY <1>0, <1>1, <1>3, <1>4, <1>5, <1>7, FaultsSpent DEF Whole, CreatesUndone
<1>10. OwnerKept'
  BY <1>3, <1>4, <1>5, <1>6, <1>7 DEF Whole, OwnerKept
<1>11. QED
  BY <1>8, <1>9, <1>10 DEF Whole

LEMMA AcceptWhole ==
    ASSUME OwnerInv, GroupInv, Controlled, Whole, NEW r \in Reqs, Accept(r)
    PROVE  Whole'
<1>0. /\ TypeOK /\ Control(r) /\ Serve(r)
      /\ \A q \in Reqs : job[q].g \in Groups
      /\ pc \in [Reqs -> {"new", "rollback"} \cup Calls \cup Final]
      /\ undo \in [Reqs -> SUBSET Undos]
      /\ job[r].op \in Ops
  BY JobType DEF OwnerInv, Controlled, TypeOK, Serve
<1>1. /\ UNCHANGED <<group, tuples, faults>>
      /\ pc[r] = "new" /\ pc'[r] = First[job[r].op] /\ undo'[r] = undo[r]
      /\ used \subseteq used'
      /\ job[r].op = "create" => job[r].g \notin used /\ job[r].g \in used'
  BY <1>0 DEF Accept, Proceed
<1>2. /\ job' = job
      /\ \A q \in Reqs \ {r} : pc'[q] = pc[q] /\ undo'[q] = undo[q]
  BY <1>0, ServeJob, OtherRequests
<1>3. /\ pc'[r] \notin LateCalls \cup Final \cup {"new", "rollback", "writeOwner"}
  BY <1>0, <1>1 DEF First, Ops, LateCalls, DeleteCalls, Final
<1>4. \A q \in Reqs : /\ Holds(q)' <=> Holds(q)
                      /\ Creates(q)' => Creates(q) \/ (q = r /\ job[r].op = "create")
                      /\ Creates(q) => Creates(q)' /\ pc'[q] = pc[q]
  BY <1>1, <1>2 DEF Holds, Creates
<1>5. PlatformKnown' /\ DeletesKnown'
  BY <1>1, <1>2, <1>3, <1>4 DEF Whole, PlatformKnown, DeletesKnown, PlatformTuple
<1>6. CreatesApart' /\ Unwritten'
  BY <1>0, <1>1, <1>2, <1>4
     DEF Whole, CreatesApart, Unwritten, PlatformKnown, PlatformTuple, Creates
<1>7. CreatesUndone'
  BY <1>1, <1>2, <1>3, <1>4 DEF Whole, CreatesUndone, Final
<1>8. OwnerKept'
  BY <1>1, <1>2, <1>3, <1>4 DEF Whole, OwnerKept, HasOwner, OwnerTuple, Final
<1>9. QED
  BY <1>5, <1>6, <1>7, <1>8 DEF Whole

LEMMA CheckWhole ==
    ASSUME OwnerInv, GroupInv, Controlled, Whole, NEW r \in Reqs, CheckCanDelete(r)
    PROVE  Whole'
<1>0. /\ TypeOK /\ Control(r) /\ Serve(r)
      /\ \A q \in Reqs : job[q].g \in Groups
      /\ pc \in [Reqs -> {"new", "rollback"} \cup Calls \cup Final]
      /\ undo \in [Reqs -> SUBSET Undos]
      /\ job[r].by \in Actors
  BY JobType DEF OwnerInv, Controlled, TypeOK, Serve, Delete
<1>1. /\ UNCHANGED <<group, tuples, used>>
      /\ pc[r] = "canDelete" /\ undo'[r] = undo[r]
      /\ pc'[r] \in {"readDoomed", "failed", "rollback"}
      /\ pc'[r] = "readDoomed" => CanDelete(job[r].by, job[r].g)
  BY <1>0 DEF CheckCanDelete, Read, Proceed, Throw, stores
<1>2. /\ job' = job
      /\ \A q \in Reqs \ {r} : pc'[q] = pc[q] /\ undo'[q] = undo[q]
  BY <1>0, ServeJob, OtherRequests
<1>3. job[r].op = "delete"
  BY <1>0, <1>1 DEF Control, DeleteCalls
<1>4. pc'[r] = "readDoomed" => PlatformTuple(job[r].g) \in tuples
  BY <1>0, <1>1 DEF CanDelete, IsAdmin, OwnerInv, PlatformMarks
<1>5. \A q \in Reqs : /\ Holds(q)' <=> Holds(q)
                      /\ Creates(q)' <=> Creates(q)
                      /\ Creates(q) => pc'[q] = pc[q]
  BY <1>1, <1>2, <1>3 DEF Holds, Creates
<1>6. PlatformKnown' /\ DeletesKnown'
  BY <1>1, <1>2, <1>4, <1>5
     DEF Whole, PlatformKnown, DeletesKnown, PlatformTuple, LateCalls, DeleteCalls
<1>7. CreatesApart' /\ Unwritten'
  BY <1>1, <1>2, <1>5 DEF Whole, CreatesApart, Unwritten, PlatformTuple
<1>8. CreatesUndone'
  BY <1>0, <1>1, <1>2, <1>5, FaultsSpent DEF Whole, CreatesUndone
<1>9. OwnerKept'
  BY <1>1, <1>2, <1>5 DEF Whole, OwnerKept, HasOwner, OwnerTuple, Final
<1>10. QED
  BY <1>6, <1>7, <1>8, <1>9 DEF Whole

LEMMA CreateWhole ==
    ASSUME OneRefusal, OwnerInv, GroupInv, Controlled, Whole, NEW r \in Reqs, CreateGroup(r)
    PROVE  Whole'
<1> DEFINE h == job[r].g
<1>0. /\ TypeOK /\ Control(r) /\ Serve(r)
      /\ \A q \in Reqs : job[q].g \in Groups
      /\ pc \in [Reqs -> {"new", "rollback"} \cup Calls \cup Final]
      /\ undo \in [Reqs -> SUBSET Undos]
      /\ group \in [Groups -> Doc \cup {NoDoc}]
  BY JobType DEF OwnerInv, Controlled, TypeOK, Serve, Create
<1>1. pc[r] = "create" /\ job[r].op = "create" /\ undo[r] = {}
  BY <1>0 DEF CreateGroup, Control
<1>2. /\ UNCHANGED <<tuples, used>>
      /\ undo'[r] \subseteq {"unCreate"}
      /\ \A g \in Groups \ {h} : group'[g] = group[g]
      /\ \/ pc'[r] = "writeOwner"
         \/ pc'[r] = "failed" /\ group' = group
  BY <1>0, <1>1 DEF CreateGroup, WriteGroup, Proceed, Throw, OneRefusal, Fault
<1>3. /\ job' = job
      /\ \A q \in Reqs \ {r} : pc'[q] = pc[q] /\ undo'[q] = undo[q]
  BY <1>0, ServeJob, OtherRequests
<1>4. group[h] = NoDoc
  BY <1>1 DEF GroupInv, Fresh
<1>5. \A q \in Reqs : /\ Holds(q)' => Holds(q)
                      /\ Creates(q)' <=> Creates(q)
                      /\ Creates(q) /\ q # r => pc'[q] = pc[q] /\ job[q].g # h
  BY <1>1, <1>2, <1>3 DEF Holds, Creates, Whole, CreatesApart
<1>6. PlatformKnown' /\ DeletesKnown'
  BY <1>2, <1>3, <1>5
     DEF Whole, PlatformKnown, DeletesKnown, PlatformTuple, LateCalls, DeleteCalls
<1>7. CreatesApart' /\ Unwritten'
  BY <1>1, <1>2, <1>3, <1>5 DEF Whole, CreatesApart, Unwritten, PlatformTuple
<1>8. CreatesUndone'
  BY <1>0, <1>1, <1>2, <1>3, <1>4, <1>5, FaultsSpent DEF Whole, CreatesUndone
<1>9. OwnerKept'
  <2> SUFFICES ASSUME NEW g \in Groups,
                      \/ group'[g] # NoDoc
                      \/ \E q \in Reqs : Holds(q)' /\ pc'[q] \notin Final /\ job[q].g = g,
                      ~HasOwner(g)
               PROVE  \E q \in Reqs : /\ Creates(q)' /\ job[q].g = g
                                      /\ pc'[q] \in {"writeOwner", "rollback"}
    BY <1>2, <1>3 DEF OwnerKept, HasOwner, OwnerTuple
  <2>1. CASE g = h /\ pc'[r] = "writeOwner"
    BY <1>1, <1>5, <2>1 DEF Creates
  <2>2. CASE g # h \/ pc'[r] = "failed"
    <3>1. group'[g] # NoDoc => group[g] # NoDoc
      BY <1>2, <2>2
    <3>2. PICK q \in Reqs : /\ Creates(q) /\ job[q].g = g
                            /\ pc[q] \in {"writeOwner", "rollback"}
      BY <1>1, <1>2, <1>3, <1>5, <3>1 DEF Whole, OwnerKept, Final
    <3>3. QED
      BY <1>1, <1>5, <3>2
  <2>3. QED
    BY <1>2, <2>1, <2>2
<1>10. QED
  BY <1>6, <1>7, <1>8, <1>9 DEF Whole

LEMMA WriteOwnerWhole ==
    ASSUME OneRefusal, OwnerInv, GroupInv, Controlled, Whole, NEW r \in Reqs, WriteOwner(r)
    PROVE  Whole'
<1> DEFINE h == job[r].g
           W == {OwnerTuple(job[r].by, h), PlatformTuple(h)}
<1>0. /\ TypeOK /\ Control(r) /\ Serve(r)
      /\ \A q \in Reqs : job[q].g \in Groups
      /\ pc \in [Reqs -> {"new", "rollback"} \cup Calls \cup Final]
      /\ undo \in [Reqs -> SUBSET Undos]
      /\ job[r].by \in Actors /\ faults \in Nat /\ MaxFaults \in Nat
  BY JobType, BoundAssumption DEF OwnerInv, Controlled, TypeOK, Serve, Create
<1>1. pc[r] = "writeOwner" /\ job[r].op = "create" /\ undo[r] = {"unCreate"} /\ Creates(r)
  BY <1>0 DEF WriteOwner, Control, Creates
<1>2. PlatformTuple(h) \notin tuples /\ h \in used
  BY <1>1 DEF Whole, Unwritten, CreatesApart
<1>3. Accepts(W, {})
  BY <1>0, <1>2 DEF Accepts, OwnerInv, PlatformMarks
<1>4. /\ UNCHANGED <<group, used>> /\ undo'[r] = undo[r]
      /\ \/ pc'[r] = "done" /\ tuples' = tuples \cup W /\ faults' = faults
         \/ pc'[r] = "rollback" /\ tuples' = tuples /\ faults < MaxFaults /\ faults' = faults + 1
  BY <1>0, <1>1, <1>3 DEF WriteOwner, WriteTuples, Proceed, Throw, OneRefusal, Fault
<1>5. pc'[r] = "rollback" => faults' = MaxFaults
  BY <1>0, <1>4 DEF OneRefusal
<1>6. /\ job' = job
      /\ \A q \in Reqs \ {r} : pc'[q] = pc[q] /\ undo'[q] = undo[q]
  BY <1>0, ServeJob, OtherRequests
<1>7. \A q \in Reqs : /\ Holds(q)' <=> Holds(q)
                      /\ Creates(q)' <=> Creates(q)
                      /\ Creates(q) /\ q # r => pc'[q] = pc[q] /\ job[q].g # h
  BY <1>1, <1>4, <1>6 DEF Holds, Creates, Whole, CreatesApart
<1>8. \A g \in Groups :
         /\ PlatformTuple(g) \in tuples => PlatformTuple(g) \in tuples'
         /\ PlatformTuple(g) \in tuples' => PlatformTuple(g) \in tuples \/ g = h
         /\ HasOwner(g) => HasOwner(g)'
  BY <1>4, TupleNames DEF HasOwner
<1>9. PlatformKnown' /\ DeletesKnown'
  BY <1>0, <1>2, <1>4, <1>6, <1>7, <1>8
     DEF Whole, PlatformKnown, DeletesKnown, PlatformTuple, LateCalls, DeleteCalls
<1>10. CreatesApart' /\ Unwritten'
  <2>1. CreatesApart'
    BY <1>4, <1>6, <1>7 DEF Whole, CreatesApart
  <2>2. pc'[r] # "done" => PlatformTuple(h) \notin tuples'
    BY <1>2, <1>4
  <2>3. QED
    BY <1>0, <1>1, <1>6, <1>7, <1>8, <2>1, <2>2 DEF Whole, Unwritten, PlatformTuple
<1>11. CreatesUndone'
  BY <1>0, <1>1, <1>4, <1>5, <1>6, <1>7, FaultsSpent DEF Whole, CreatesUndone
<1>12. OwnerKept'
  <2> SUFFICES ASSUME NEW g \in Groups,
                      \/ group[g] # NoDoc
                      \/ \E q \in Reqs : Holds(q) /\ pc'[q] \notin Final /\ job[q].g = g,
                      ~HasOwner(g)'
               PROVE  \E q \in Reqs : /\ Creates(q) /\ job[q].g = g
                                      /\ pc'[q] \in {"writeOwner", "rollback"}
    BY <1>4, <1>6, <1>7 DEF OwnerKept
  <2>1. PICK q \in Reqs : /\ Creates(q) /\ job[q].g = g
                          /\ pc[q] \in {"writeOwner", "rollback"}
    BY <1>1, <1>6, <1>8 DEF Whole, OwnerKept, Final
  <2>2. CASE q # r
    BY <1>6, <2>1, <2>2
  <2>3. CASE q = r /\ pc'[r] = "rollback"
    BY <2>1, <2>3
  <2>4. CASE q = r /\ pc'[r] = "done"
    <3>1. OwnerTuple(job[r].by, g) \in tuples'
      BY <1>4, <2>1, <2>4
    <3>2. QED
      BY <1>0, <3>1 DEF HasOwner, OwnerTuple
  <2>5. QED
    BY <1>4, <2>2, <2>3, <2>4
<1>13. QED
  BY <1>9, <1>10, <1>11, <1>12 DEF Whole
LEMMA DeleteWhole ==
    ASSUME OneRefusal, OwnerInv, GroupInv, Controlled, Whole, NEW r \in Reqs,
           DeleteGroup(r) \/ DeleteTuples(r)
    PROVE  Whole'
<1> DEFINE h == job[r].g
           D == {OwnerTuple(old[r].owner, h)} \cup CoOwnerTuples(old[r].coOwners, h)
<1>0. /\ TypeOK /\ Control(r) /\ Serve(r)
      /\ \A q \in Reqs : job[q].g \in Groups
      /\ pc \in [Reqs -> {"new", "rollback"} \cup Calls \cup Final]
      /\ undo \in [Reqs -> SUBSET Undos]
      /\ group \in [Groups -> Doc \cup {NoDoc}]
  BY JobType DEF OwnerInv, Controlled, TypeOK, Serve, Delete
<1>1. pc[r] \in {"deleteGroup", "deleteTuples"} /\ job[r].op = "delete"
  BY <1>0 DEF DeleteGroup, DeleteTuples, Control, DeleteCalls
<1>2. PlatformTuple(h) \in tuples
  BY <1>1 DEF Whole, DeletesKnown, LateCalls, DeleteCalls
<1>3. /\ job' = job
      /\ \A q \in Reqs \ {r} : pc'[q] = pc[q] /\ undo'[q] = undo[q]
  BY <1>0, ServeJob, OtherRequests
<1>4. /\ used' = used
      /\ \A g \in Groups : group'[g] # NoDoc => group[g] # NoDoc
      /\ \/ tuples' = tuples
         \/ DeleteTuples(r) /\ pc'[r] = "done" /\ tuples' = (tuples \ D) \cup {}
  BY <1>0 DEF DeleteGroup, DeleteTuples, WriteGroup, WriteTuples, Proceed, Throw, Fault, OneRefusal
<1>5. \A q \in Reqs : /\ Creates(q)' <=> Creates(q)
                      /\ Creates(q) => q # r /\ pc'[q] = pc[q]
                      /\ q # r => (Holds(q)' <=> Holds(q))
  BY <1>1, <1>3 DEF Holds, Creates
<1>6. \A g \in Groups : PlatformTuple(g) \in tuples' <=> PlatformTuple(g) \in tuples
  BY <1>4, TupleNames
<1>7. PlatformKnown' /\ DeletesKnown'
  BY <1>0, <1>2, <1>3, <1>4, <1>5, <1>6 DEF Whole, PlatformKnown, DeletesKnown, PlatformTuple
<1>8. CreatesApart' /\ Unwritten'
  BY <1>0, <1>3, <1>4, <1>5, <1>6 DEF Whole, CreatesApart, Unwritten, PlatformTuple
<1>9. CreatesUndone'
  BY <1>0, <1>3, <1>4, <1>5, FaultsSpent DEF Whole, CreatesUndone
<1>10. CASE tuples' = tuples
  <2>1. Holds(r)' /\ pc'[r] \notin Final => group[h] # NoDoc \/ Holds(r)
    BY <1>0, <1>1 DEF DeleteGroup, DeleteTuples, WriteGroup, WriteTuples, Proceed, Throw, Holds
  <2>2. pc[r] \notin Final
    BY <1>1 DEF Final
  <2>3. OwnerKept'
    BY <1>0, <1>3, <1>4, <1>5, <1>10, <2>1, <2>2 DEF Whole, OwnerKept, HasOwner, OwnerTuple
  <2>4. QED
    BY <1>7, <1>8, <1>9, <2>3 DEF Whole
<1>11. CASE tuples' # tuples
  <2>1. /\ DeleteTuples(r) /\ pc'[r] = "done"
        /\ tuples' = (tuples \ D) \cup {} /\ group' = group
    BY <1>4, <1>11 DEF DeleteTuples, WriteTuples
  <2>2. Closed(r) /\ group[h] = NoDoc
    BY <2>1 DEF DeleteTuples, GroupInv, HoldsBeforeTuples, ClosedGone, Closed
  <2>3. \A q \in Reqs \ {r} : Holds(q) => job[q].g # h
    BY <2>2 DEF GroupInv, ClosedGone, Closed
  <2>4. \A g \in Groups : g # h /\ HasOwner(g) => HasOwner(g)'
    BY <2>1, TupleNames DEF HasOwner
  <2>5. OwnerKept'
    <3> SUFFICES ASSUME NEW g \in Groups,
                        \/ group[g] # NoDoc
                        \/ \E q \in Reqs : Holds(q)' /\ pc'[q] \notin Final /\ job[q].g = g
                 PROVE  \/ HasOwner(g)'
                        \/ \E q \in Reqs : /\ Creates(q) /\ job[q].g = g
                                           /\ pc'[q] \in {"writeOwner", "rollback"}
      BY <1>3, <1>5, <2>1 DEF OwnerKept
    <3>1. /\ g # h
          /\ group[g] # NoDoc \/ \E q \in Reqs : Holds(q) /\ pc[q] \notin Final /\ job[q].g = g
      BY <1>3, <1>5, <2>1, <2>2, <2>3 DEF Final
    <3>2. \/ HasOwner(g)
          \/ \E q \in Reqs : /\ Creates(q) /\ job[q].g = g
                             /\ pc[q] \in {"writeOwner", "rollback"}
      BY <3>1 DEF Whole, OwnerKept
    <3>3. QED
      BY <1>5, <2>4, <3>1, <3>2
  <2>6. QED
    BY <1>7, <1>8, <1>9, <2>5 DEF Whole
<1>12. QED
  BY <1>10, <1>11

LEMMA UndoWhole ==
    ASSUME OwnerInv, GroupInv, Controlled, Whole, NEW r \in Reqs,
           UndoCreate(r) \/ UndoDelete(r)
    PROVE  Whole'
<1> DEFINE h == job[r].g
<1>0. /\ TypeOK /\ Control(r) /\ Serve(r)
      /\ \A q \in Reqs : job[q].g \in Groups
      /\ pc \in [Reqs -> {"new", "rollback"} \cup Calls \cup Final]
      /\ undo \in [Reqs -> SUBSET Undos]
      /\ group \in [Groups -> Doc \cup {NoDoc}]
      /\ faults \in Nat /\ MaxFaults \in Nat
  BY JobType, BoundAssumption DEF OwnerInv, Controlled, TypeOK, Serve, Rollback
<1>1. /\ UNCHANGED <<tuples, used>>
      /\ \A g \in Groups \ {h} : group'[g] = group[g]
      /\ pc[r] = "rollback" /\ pc'[r] \in {"rollback", "failed"}
      /\ undo'[r] \subseteq undo[r]
  BY <1>0 DEF UndoCreate, UndoDelete, UndoGroup, Undoing
<1>2. /\ job' = job
      /\ \A q \in Reqs \ {r} : pc'[q] = pc[q] /\ undo'[q] = undo[q]
  BY <1>0, ServeJob, OtherRequests
<1>3. \A q \in Reqs : /\ Creates(q)' <=> Creates(q)
                      /\ Creates(q) /\ q # r => pc'[q] = pc[q]
                      /\ Holds(q)' => Holds(q)
                      /\ pc'[q] \notin Final => pc[q] \notin Final
  BY <1>1, <1>2 DEF Holds, Creates, Final
<1>4. PlatformKnown' /\ CreatesApart' /\ Unwritten' /\ DeletesKnown'
  BY <1>1, <1>2, <1>3
     DEF Whole, PlatformKnown, CreatesApart, Unwritten, DeletesKnown, PlatformTuple,
         LateCalls, DeleteCalls
<1>5. CASE UndoCreate(r)
  <2>1. "unCreate" \in undo[r]
    BY <1>5 DEF UndoCreate, UndoGroup, Undoing
  <2>2. job[r].op = "create" /\ undo[r] = {"unCreate"} /\ Creates(r)
    BY <1>0, <1>1, <2>1 DEF Creates, Control
  <2>3. faults = MaxFaults /\ PlatformTuple(h) \notin tuples
    BY <1>1, <2>2 DEF Whole, CreatesUndone, Unwritten
  <2>4. pc'[r] = "failed" /\ group'[h] = NoDoc
    BY <1>0, <1>5, <2>2, <2>3 DEF UndoCreate, UndoGroup, Undoing, Fault
  <2>5. CreatesUndone'
    BY <1>0, <1>1, <1>2, <1>3, <2>2, <2>4, FaultsSpent DEF Whole, CreatesUndone, CreatesApart
  <2>6. OwnerKept'
    <3> SUFFICES ASSUME NEW g \in Groups,
                        \/ group'[g] # NoDoc
                        \/ \E q \in Reqs : Holds(q) /\ pc[q] \notin Final /\ job[q].g = g
                 PROVE  \/ HasOwner(g)
                        \/ \E q \in Reqs : /\ Creates(q) /\ job[q].g = g
                                           /\ pc'[q] \in {"writeOwner", "rollback"}
      BY <1>1, <1>2, <1>3 DEF OwnerKept, HasOwner, OwnerTuple
    <3>1. g # h
      BY <2>3, <2>4 DEF Whole, DeletesKnown
    <3>2. \/ HasOwner(g)
          \/ \E q \in Reqs : /\ Creates(q) /\ job[q].g = g
                             /\ pc[q] \in {"writeOwner", "rollback"}
      BY <1>1, <3>1 DEF Whole, OwnerKept
    <3>3. QED
      BY <1>3, <3>1, <3>2
  <2>7. QED
    BY <1>4, <2>5, <2>6 DEF Whole
<1>6. CASE UndoDelete(r)
  <2>1. Holds(r) /\ job[r].op = "delete"
    BY <1>0, <1>6 DEF UndoDelete, UndoGroup, Undoing, Holds, Control
  <2>2. \A q \in Reqs : Creates(q) => q # r /\ pc'[q] = pc[q]
    BY <1>3, <2>1 DEF Creates
  <2>3. PlatformTuple(h) \in tuples
    BY <2>1 DEF Whole, DeletesKnown
  <2>4. \A q \in Reqs : Creates(q) /\ pc[q] # "done" => job[q].g # h
    BY <2>3 DEF Whole, Unwritten
  <2>5. CreatesUndone'
    BY <1>0, <1>1, <1>2, <1>3, <2>2, <2>4, FaultsSpent DEF Whole, CreatesUndone
  <2>6. OwnerKept'
    <3>1. pc[r] \notin Final
      BY <1>1 DEF Final
    <3>2. QED
      BY <1>1, <1>2, <1>3, <2>1, <2>2, <3>1 DEF Whole, OwnerKept, HasOwner, OwnerTuple
  <2>7. QED
    BY <1>4, <2>5, <2>6 DEF Whole
<1>7. QED
  BY <1>5, <1>6

LEMMA WholeInit == Init => Whole
<1> SUFFICES ASSUME Init
             PROVE  Whole
  OBVIOUS
<1>1. PICK past \in SUBSET used :
        tuples = (UNION {Mirror(group[g], g) : g \in {h \in Groups : group[h] # NoDoc}})
                    \cup {PlatformTuple(g) : g \in past}
  BY DEF Init
<1>2. ASSUME NEW g \in Groups, PlatformTuple(g) \in tuples PROVE g \in used
  <2>1. \/ g \in past
        \/ \E h \in Groups : group[h] # NoDoc /\ PlatformTuple(g) \in Mirror(group[h], h)
    BY <1>1, <1>2, TupleNames
  <2>2. ASSUME NEW h \in Groups, group[h] # NoDoc, PlatformTuple(g) \in Mirror(group[h], h)
        PROVE  g \in used
    <3>1. g = h
      BY <2>2, TupleNames DEF Mirror
    <3>2. QED
      BY <2>2, <3>1 DEF Init
  <2>3. QED
    BY <1>1, <2>1, <2>2
<1>3. \A r \in Reqs : pc[r] = "new" /\ ~Holds(r)
  BY DEF Init, Holds
<1>4. \A g \in Groups : group[g] # NoDoc => HasOwner(g)
  <2>1. ASSUME NEW g \in Groups, group[g] # NoDoc PROVE HasOwner(g)
    <3>1. OwnerTuple(group[g].owner, g) \in tuples
      BY <2>1 DEF Init, Mirror
    <3>2. group[g].owner \in Actors
      BY <2>1 DEF Init, Doc
    <3>3. QED
      BY <3>1, <3>2 DEF HasOwner
  <2>2. QED
    BY <2>1
<1>5. QED
  BY <1>2, <1>3, <1>4
     DEF Whole, PlatformKnown, CreatesApart, Unwritten, DeletesKnown, CreatesUndone,
         OwnerKept, Creates, LateCalls, DeleteCalls

LEMMA WholeNext ==
    ASSUME OneRefusal, OwnedInv, Whole, [Next]_vars
    PROVE  Whole'
<1>0. OwnerInv /\ GroupInv /\ Controlled
  BY DEF OwnedInv, DeletionInv
<1>1. ASSUME NEW r \in Reqs, Serve(r)
      PROVE  Whole'
  <2>1. CASE Plain(r)
    BY <1>0, <1>1, <2>1, PlainWhole
  <2>2. CASE ~Plain(r)
    BY <1>0, <2>2, AcceptWhole, CheckWhole, CreateWhole, WriteOwnerWhole, DeleteWhole,
       UndoWhole DEF Plain
  <2>3. QED
    BY <2>1, <2>2
<1>2. CASE UNCHANGED vars \/ Idle \/ \E u \in Members : DeleteUser(u)
  BY <1>2 DEF Idle, DeleteUser, vars, stores, locals, Whole, PlatformKnown, CreatesApart,
     Unwritten, DeletesKnown, CreatesUndone, OwnerKept, Creates, Holds, HasOwner,
     OwnerTuple, PlatformTuple
<1>3. ~Crash
  BY DEF Crash, Fault, OneRefusal
<1>4. QED
  BY <1>1, <1>2, <1>3 DEF Next

\* When one call at most is refused, and no reply is lost and no process
\* crashes: however creates, edits, deletes and their rollbacks overlap, a
\* group that exists and is not being created or deleted has an owner.
THEOREM RefusalKeepsOwner == ASSUME OneRefusal PROVE Spec => []LiveGroupOwned
<1>1. OwnedInv /\ Whole /\ [Next]_vars => Whole'
  BY WholeNext
<1>2. OwnedInv /\ Whole => LiveGroupOwned
  <2> SUFFICES ASSUME OwnedInv, Whole, NEW g \in Groups, group[g] # NoDoc,
                      \A r \in InFlight : job[r].g = g => job[r].op \notin {"create", "delete"}
               PROVE  HasOwner(g)
    BY DEF LiveGroupOwned, HasOwner
  <2>1. ASSUME NEW r \in Reqs, Creates(r), job[r].g = g, pc[r] \in {"writeOwner", "rollback"}
        PROVE  FALSE
    <3>1. r \in InFlight /\ job[r].op = "create"
      BY <2>1 DEF InFlight, Final, Creates
    <3>2. QED
      BY <2>1, <3>1
  <2>2. QED
    BY <2>1 DEF Whole, OwnerKept
<1>3. QED
  BY <1>1, <1>2, WholeInit, OwnedInvariant, PTL DEF Spec

-----------------------------------------------------------------------------
(***************************************************************************)
(* When requests for permission groups are served one at a time and one    *)
(* call at most is refused, the document, the tuples and the entries agree *)
(* between requests, and a create, edit or delete that fails has changed   *)
(* nothing; for every set of groups, people, users and requests.           *)
(*                                                                         *)
(* The inductive invariant says what the stores are to the one request in  *)
(* flight, at each of its calls, as the snapshot taken when it was taken   *)
(* up with the changes whose rollbacks it has registered.  A step of the   *)
(* request that registers a rollback makes its change, and a rollback that *)
(* is run takes it back: whichever call is refused, and in whichever order *)
(* the rollbacks run, the request fails with none left.                    *)
(***************************************************************************)

\* The tuples T hold of group g what document d says.
Mirrored(T, g, d) ==
    \A u \in Actors :
        /\ OwnerTuple(u, g) \in T <=> d # NoDoc /\ d.owner = u
        /\ <<u, "co_owner", g>> \in T <=> d # NoDoc /\ u \in d.coOwners

\* Documents G, tuples T and numbers of entries E agree on group g.
Agree(G, T, E, g) ==
    /\ Mirrored(T, g, G[g])
    /\ \A u \in Members : E[u][g] <= 1 /\ (E[u][g] > 0 => G[g] # NoDoc)

Agreed(g) == Agree(group, tuples, Entered, g)

\* The calls before which a request leaves its group half changed.
Midway == {"writeOwner", "moveOwner", "moveCoOwners", "deleteGroup", "deleteTuples", "rollback"}

Settled == \A g \in Groups : (\A r \in InFlight : pc[r] \in Midway => job[r].g # g) => Agreed(g)

NamesApart(G) ==
    \A g, h \in Groups : g # h /\ G[g] # NoDoc /\ G[h] # NoDoc => G[g].name # G[h].name

\* The snapshot is one of stores that agree.
Sound(B) ==
    /\ B \in [by : SUBSET Reqs, group : [Groups -> Doc \cup {NoDoc}],
              tuples : SUBSET Tuple, entered : [Members -> [Groups -> Nat]]]
    /\ NamesApart(B.group)
    /\ \A g \in Groups : Agree(B.group, B.tuples, B.entered, g)

\* Nothing differs from the snapshot.
Back == group = before.group /\ tuples = before.tuples /\ Entered = before.entered

OwnCreate(r) ==
    LET g == job[r].g IN
    /\ \/ pc[r] = "create" /\ undo[r] = {} /\ group = before.group
       \/ /\ pc[r] \in {"writeOwner", "rollback"} /\ undo[r] = {"unCreate"}
          /\ group = [before.group EXCEPT ![g] = NewDoc(job[r])]
    /\ before.group[g] = NoDoc
    /\ tuples = before.tuples
    /\ Entered = before.entered

Edited(r) == [job[r].doc EXCEPT !.data = old[r].data]
NewOwner(r) == old[r].owner # job[r].doc.owner

OwnEdit(r) ==
    LET g == job[r].g IN
    /\ \/ pc[r] \in {"canUpdate", "readGroup", "setDetails"} /\ undo[r] = {}
       \/ pc[r] = "moveOwner" /\ undo[r] = {"details"} /\ NewOwner(r)
       \/ pc[r] = "moveCoOwners"
             /\ undo[r] = {"details"} \cup (IF NewOwner(r) THEN {"owner"} ELSE {})
       \/ pc[r] = "rollback" /\ undo[r] # {} /\ undo[r] \subseteq {"details", "owner"}
    /\ pc[r] \notin {"canUpdate", "readGroup"} => old[r] # NoDoc /\ old[r] = before.group[g]
    /\ "owner" \in undo[r] => NewOwner(r)
    /\ group = IF "details" \in undo[r] THEN [before.group EXCEPT ![g] = Edited(r)]
               ELSE before.group
    /\ tuples = IF "owner" \in undo[r]
                THEN (before.tuples \ {OwnerTuple(old[r].owner, g)})
                        \cup {OwnerTuple(job[r].doc.owner, g)}
                ELSE before.tuples
    /\ Entered = before.entered

OwnDelete(r) ==
    LET g == job[r].g IN
    /\ \/ pc[r] \in {"canDelete", "readDoomed", "findMembers", "pullMembers"} /\ undo[r] = {}
       \/ pc[r] = "deleteGroup" /\ undo[r] = {"users"}
       \/ pc[r] = "deleteTuples" /\ undo[r] = {"users", "recreate"}
       \/ pc[r] = "rollback" /\ undo[r] # {} /\ undo[r] \subseteq {"users", "recreate"}
    /\ pc[r] \notin {"canDelete", "readDoomed"} => old[r] # NoDoc /\ old[r] = before.group[g]
    /\ pc[r] \in {"pullMembers", "deleteGroup", "deleteTuples", "rollback"} =>
          seen[r] = {u \in Members : before.entered[u][g] > 0}
    /\ group = IF "recreate" \in undo[r] THEN [before.group EXCEPT ![g] = NoDoc]
               ELSE before.group
    /\ tuples = before.tuples
    /\ \A u \in Members, h \in Groups :
          Entered[u][h] = IF h = g /\ "users" \in undo[r] THEN 0 ELSE before.entered[u][h]

AddCalls == {"readForAdd", "canAdd", "findUsers", "makeUsers", "findLacking", "pushMembers"}

OwnAdd(r) ==
    LET g == job[r].g IN
    /\ pc[r] \in AddCalls \cup Final /\ undo[r] = {}
    /\ pc[r] # "readForAdd" => group[g] # NoDoc
    /\ pc[r] \in {"readForAdd", "canAdd", "findUsers"} => \A u \in Members : make[r][u] = "no"
    /\ pc[r] \in {"findLacking", "pushMembers"} =>
          \A u \in Members : make[r][u] \in {"no", "made"}
    /\ pc[r] = "pushMembers" => \A u \in seen[r] : ~In(u, g)

OwnRemove(r) == pc[r] \in {"readForRemove", "canRemove", "pullMember"} /\ undo[r] = {}
OwnData(r) == pc[r] \in {"readForData", "canSetData", "setData", "reread"} /\ undo[r] = {}

\* What the stores are to a request in flight, by what it was asked for.
Own(r) ==
    /\ before.by = {r}
    /\ pc[r] = "rollback" => faults = MaxFaults
    /\ job[r].op # "add"   => \A u \in Members : make[r][u] = "no"
    /\ job[r].op = "create" => OwnCreate(r)
    /\ job[r].op = "edit"   => OwnEdit(r)
    /\ job[r].op = "delete" => OwnDelete(r)
    /\ job[r].op = "add"    => OwnAdd(r)
    /\ job[r].op = "remove" => OwnRemove(r)
    /\ job[r].op = "data"   => OwnData(r)

\* A request not taken up has done nothing.
Untouched(r) == undo[r] = {} /\ \A u \in Members : make[r][u] = "no"

Undoable(r) == job[r].op \in {"create", "edit", "delete"}

Outcome(r) == before.by = {r} /\ pc[r] = "failed" /\ Undoable(r) => Back

\* A delete of g gave entries back.
Returned(g) ==
    \E q \in Reqs : pc[q] \in {"rollback", "failed"} /\ job[q].op = "delete" /\ job[q].g = g

BareExplained == \A u \in Members, g \in Groups : refs[u][g].bare > 0 => Returned(g)

SerialParts ==
    /\ OneAtATime
    /\ NamesApart(group)
    /\ Settled
    /\ Sound(before)
    /\ \A r \in Reqs : pc[r] = "new" => Untouched(r)
    /\ \A r \in InFlight : Own(r)
    /\ \A r \in Reqs : Outcome(r)
    /\ BareExplained

SerialInv == alone => SerialParts
-----------------------------------------------------------------------------
(* The ways a call ends when one is refused at most.                         *)

LEMMA EnteredFacts ==
    ASSUME TypeOK
    PROVE  /\ Entered \in [Members -> [Groups -> Nat]]
           /\ \A u \in Members, g \in Groups :
                 /\ refs[u][g] \in [full : Nat, bare : Nat]
                 /\ Entered[u][g] = refs[u][g].full + refs[u][g].bare
                 /\ In(u, g) <=> Entered[u][g] > 0
<1>1. ASSUME NEW u \in Members, NEW g \in Groups
      PROVE  refs[u][g] \in [full : Nat, bare : Nat]
  BY DEF TypeOK
<1>2. ASSUME NEW u \in Members, NEW g \in Groups
      PROVE  /\ Entered[u][g] = refs[u][g].full + refs[u][g].bare
             /\ Entered[u][g] \in Nat
             /\ In(u, g) <=> Entered[u][g] > 0
  <2> DEFINE e == refs[u][g]
  <2>1. Entered[u][g] = e.full + e.bare
    BY DEF Entered
  <2>2. e \in [full : Nat, bare : Nat]
    BY <1>1
  <2>3. In(u, g) <=> e # [full |-> 0, bare |-> 0]
    BY DEF In, NoRefs
  <2> HIDE DEF e
  <2>4. e.full \in Nat /\ e.bare \in Nat
    BY <2>2
  <2>5. e = [full |-> 0, bare |-> 0] <=> e.full = 0 /\ e.bare = 0
    BY <2>2
  <2>6. (e.full + e.bare > 0 <=> ~(e.full = 0 /\ e.bare = 0)) /\ e.full + e.bare \in Nat
    BY <2>4
  <2>7. QED
    BY <2>1, <2>3, <2>5, <2>6 DEF e
<1>3. \A u \in Members, g \in Groups : refs[u][g].full + refs[u][g].bare \in Nat
  BY <1>2
<1>4. Entered \in [Members -> [Groups -> Nat]]
  BY <1>3 DEF Entered
<1>5. QED
  BY <1>1, <1>2, <1>4

\* A function equals another one on Members and Groups.
LEMMA EnteredSame ==
    ASSUME TypeOK, NEW E \in [Members -> [Groups -> Nat]],
           \A u \in Members, g \in Groups : Entered[u][g] = E[u][g]
    PROVE  Entered = E
<1>1. Entered \in [Members -> [Groups -> Nat]]
  BY EnteredFacts
<1>2. \A u \in Members : Entered[u] \in [Groups -> Nat] /\ E[u] \in [Groups -> Nat]
  BY <1>1
<1>3. ASSUME NEW u \in Members
      PROVE  Entered[u] = E[u]
  BY <1>2
<1>4. QED
  BY <1>1, <1>3

LEMMA Refusal ==
    ASSUME OneRefusal, TypeOK, NEW k, Fault(k)
    PROVE  faults # MaxFaults /\ faults' = MaxFaults /\ k = "refused"
  BY BoundAssumption DEF OneRefusal, Fault, TypeOK

\* An exception, with the control it leaves.
Stops(r) ==
    /\ undo' = undo
    /\ pc' = [pc EXCEPT ![r] = IF undo[r] = {} THEN "failed" ELSE "rollback"]

Goes(r, next, undos) ==
    /\ undo' = [undo EXCEPT ![r] = @ \cup undos]
    /\ pc' = [pc EXCEPT ![r] = next]

LEMMA WriteGroupEnds ==
    ASSUME OneRefusal, TypeOK, NEW r, NEW ok, NEW new, NEW next, NEW undos,
           WriteGroup(r, ok, new, next, undos)
    PROVE  /\ UNCHANGED <<tuples, user, refs, used, job, old, seen, make>>
           /\ \/ ok /\ group' = new /\ Goes(r, next, undos) /\ faults' = faults
              \/ group' = group /\ Stops(r) /\ faults' = MaxFaults
              \/ ~ok /\ group' = group /\ Stops(r) /\ faults' = faults
  BY Refusal DEF WriteGroup, locals, Proceed, Throw, Stops, Goes

LEMMA WriteTuplesEnds ==
    ASSUME OneRefusal, TypeOK, NEW r, NEW W, NEW D, NEW next, NEW undos,
           WriteTuples(r, W, D, next, undos), Accepts(W, D)
    PROVE  /\ UNCHANGED <<group, user, refs, used, job, old, seen, make>>
           /\ \/ /\ tuples' = (tuples \ D) \cup W
                 /\ Goes(r, next, undos) /\ faults' = faults
              \/ tuples' = tuples /\ Stops(r) /\ faults' = MaxFaults
  BY Refusal DEF WriteTuples, locals, Proceed, Throw, Stops, Goes

LEMMA WriteRefsEnds ==
    ASSUME OneRefusal, TypeOK, NEW r, NEW how, NEW g, NEW S, NEW next, NEW undos,
           WriteRefs(r, how, g, S, next, undos)
    PROVE  /\ UNCHANGED <<group, tuples, user, used, job, old, seen, make>>
           /\ \/ refs' = Entries(how, g, S) /\ Goes(r, next, undos) /\ faults' = faults
              \/ refs' = refs /\ Stops(r) /\ faults' = MaxFaults
  BY Refusal DEF WriteRefs, locals, Proceed, Throw, Stops, Goes

LEMMA ReadEnds ==
    ASSUME OneRefusal, TypeOK, NEW r, NEW ok, NEW next, Read(r, ok, next)
    PROVE  /\ UNCHANGED <<group, tuples, user, refs, used>>
           /\ \/ ok /\ Goes(r, next, {}) /\ faults' = faults
              \/ Stops(r) /\ faults' = MaxFaults
              \/ ~ok /\ Stops(r) /\ faults' = faults
  BY Refusal DEF Read, stores, Proceed, Throw, Stops, Goes

LEMMA NewEntries ==
    ASSUME TypeOK, NEW g \in Groups, NEW how \in {"full", "bare", "pull"}, NEW S,
           refs' = Entries(how, g, S)
    PROVE  \A u \in Members, h \in Groups :
              /\ Entered'[u][h] = IF h # g \/ u \notin S THEN Entered[u][h]
                                  ELSE IF how = "pull" THEN 0 ELSE Entered[u][h] + 1
              /\ refs'[u][h].bare = IF h # g \/ u \notin S THEN refs[u][h].bare
                                    ELSE IF how = "pull" THEN 0
                                    ELSE IF how = "bare" THEN refs[u][h].bare + 1
                                    ELSE refs[u][h].bare
<1> SUFFICES ASSUME NEW u \in Members, NEW h \in Groups
             PROVE  /\ Entered'[u][h] = IF h # g \/ u \notin S THEN Entered[u][h]
                                        ELSE IF how = "pull" THEN 0 ELSE Entered[u][h] + 1
                    /\ refs'[u][h].bare = IF h # g \/ u \notin S THEN refs[u][h].bare
                                          ELSE IF how = "pull" THEN 0
                                          ELSE IF how = "bare" THEN refs[u][h].bare + 1
                                          ELSE refs[u][h].bare
  OBVIOUS
<1>1. /\ Entered'[u][h] = refs'[u][h].full + refs'[u][h].bare
      /\ Entered[u][h] = refs[u][h].full + refs[u][h].bare
  BY DEF Entered
<1>2. refs[u] \in [Groups -> [full : Nat, bare : Nat]]
      /\ refs[u][h].full \in Nat /\ refs[u][h].bare \in Nat
  BY DEF TypeOK
<1>3. CASE h # g \/ u \notin S
  <2>1. refs'[u][h] = refs[u][h]
    BY <1>2, <1>3 DEF Entries
  <2>2. QED
    BY <1>1, <1>3, <2>1
<1>4. CASE h = g /\ u \in S
  <2>1. refs'[u][g] = [full |-> IF how = "full" THEN refs[u][g].full + 1
                                ELSE IF how = "pull" THEN 0 ELSE refs[u][g].full,
                       bare |-> IF how = "bare" THEN refs[u][g].bare + 1
                                ELSE IF how = "pull" THEN 0 ELSE refs[u][g].bare]
    BY <1>2, <1>4 DEF Entries
  <2>2. refs'[u][g].full = IF how = "full" THEN refs[u][g].full + 1
                           ELSE IF how = "pull" THEN 0 ELSE refs[u][g].full
    BY <2>1
  <2>3. refs'[u][g].bare = IF how = "bare" THEN refs[u][g].bare + 1
                           ELSE IF how = "pull" THEN 0 ELSE refs[u][g].bare
    BY <2>1
  <2>4. QED
    BY <1>1, <1>2, <1>4, <2>2, <2>3
<1>5. QED
  BY <1>3, <1>4
-----------------------------------------------------------------------------
(* What a step of the request in flight must establish.                      *)

\* The request goes on as its invariant says, or has ended; when it is not half way,
\* its group agrees in the stores; and if it has failed it has changed nothing.
Served(r) ==
    /\ NamesApart(group)'
    /\ \/ Own(r)'
       \/ pc'[r] \in {"done", "failed"} /\ \A u \in Members : make'[r][u] = "no"
    /\ pc'[r] \notin Midway => Agreed(job[r].g)'
    /\ Outcome(r)'

\* Before the step.
Serving(r) ==
    /\ OwnedInv /\ Whole
    /\ NamesApart(group)
    /\ Sound(before)
    /\ Own(r)
    /\ pc[r] \notin Midway => Agreed(job[r].g)

LEMMA ServingFacts ==
    ASSUME NEW r \in Reqs, Serving(r)
    PROVE  /\ TypeOK /\ CopyKept /\ PlatformMarks /\ Control(r)
           /\ pc \in [Reqs -> {"new", "rollback"} \cup Calls \cup Final]
           /\ undo \in [Reqs -> SUBSET Undos]
           /\ group \in [Groups -> Doc \cup {NoDoc}]
           /\ old \in [Reqs -> Doc \cup {NoDoc}]
           /\ job[r].g \in Groups /\ job[r].op \in Ops /\ job[r].by \in Actors
           /\ job[r].doc \in Doc
  BY JobType DEF Serving, OwnedInv, DeletionInv, OwnerInv, Controlled, TypeOK

EditCalls == {"canUpdate", "readGroup", "setDetails", "moveOwner", "moveCoOwners"}
RemoveCalls == {"readForRemove", "canRemove", "pullMember"}
DataCalls == {"readForData", "canSetData", "setData", "reread"}

\* The call a request makes next, and its rollbacks, tell what it was asked for.
LEMMA OpOfCall ==
    ASSUME NEW r \in Reqs, Own(r), job[r].op \in Ops
    PROVE  /\ pc[r] \in {"create", "writeOwner"} \/ "unCreate" \in undo[r] => job[r].op = "create"
           /\ pc[r] \in EditCalls \/ undo[r] \cap {"details", "owner"} # {} => job[r].op = "edit"
           /\ pc[r] \in DeleteCalls \/ undo[r] \cap {"users", "recreate"} # {} => job[r].op = "delete"
           /\ pc[r] \in AddCalls \cup Final => job[r].op = "add"
           /\ pc[r] \in RemoveCalls => job[r].op = "remove"
           /\ pc[r] \in DataCalls => job[r].op = "data"
           /\ job[r].op \in {"add", "remove", "data"} => undo[r] = {}
           /\ pc[r] # "new"
  BY DEF Own, OwnCreate, OwnEdit, OwnDelete, OwnAdd, OwnRemove, OwnData, Ops, EditCalls,
     DeleteCalls, RemoveCalls, DataCalls, AddCalls, Final

\* A request that is back where it was taken up is served, on or failed.
LEMMA BackServed ==
    ASSUME NEW r \in Reqs, Sound(before), UNCHANGED <<before, job>>, job[r].g \in Groups, Back',
           \/ Own(r)'
           \/ pc'[r] \in {"done", "failed"} /\ \A u \in Members : make'[r][u] = "no"
    PROVE  Served(r)
<1>1. NamesApart(group)'
  BY DEF Sound, Back, NamesApart
<1>2. Agreed(job[r].g)'
  BY DEF Sound, Back, Agreed
<1>3. Outcome(r)'
  BY DEF Outcome
<1>4. QED
  BY <1>1, <1>2, <1>3 DEF Served

\* What the request owns is the snapshot with its changes, which has a known type.
LEMMA SoundFacts ==
    ASSUME Sound(before), NEW g \in Groups
    PROVE  /\ before.group \in [Groups -> Doc \cup {NoDoc}]
           /\ before.tuples \subseteq Tuple
           /\ before.entered \in [Members -> [Groups -> Nat]]
           /\ NamesApart(before.group)
           /\ Mirrored(before.tuples, g, before.group[g])
           /\ \A u \in Members : /\ before.entered[u][g] \in {0, 1}
                                 /\ before.group[g] = NoDoc => before.entered[u][g] = 0
<1>1. /\ before.group \in [Groups -> Doc \cup {NoDoc}]
      /\ before.tuples \subseteq Tuple
      /\ before.entered \in [Members -> [Groups -> Nat]]
  BY DEF Sound
<1>2. Agree(before.group, before.tuples, before.entered, g)
  BY DEF Sound
<1>3. ASSUME NEW u \in Members
      PROVE  /\ before.entered[u][g] \in {0, 1}
             /\ before.group[g] = NoDoc => before.entered[u][g] = 0
  <2>1. before.entered[u][g] \in Nat
    BY <1>1
  <2>2. before.entered[u][g] <= 1 /\ (before.entered[u][g] > 0 => before.group[g] # NoDoc)
    BY <1>2 DEF Agree
  <2>3. QED
    BY <2>1, <2>2
<1>4. QED
  BY <1>1, <1>2, <1>3 DEF Sound, Agree

-----------------------------------------------------------------------------
(* createPermissionGroup *)

LEMMA CreateServed ==
    ASSUME OneRefusal, NEW r \in Reqs, Serving(r), CreateGroup(r), UNCHANGED before
    PROVE  Served(r)
<1> DEFINE g == job[r].g
           D == NewDoc(job[r])
<1>0. /\ TypeOK /\ job[r].op = "create" /\ pc[r] = "create" /\ g \in Groups
      /\ pc \in [Reqs -> {"new", "rollback"} \cup Calls \cup Final]
      /\ undo \in [Reqs -> SUBSET Undos]
  BY ServingFacts, OpOfCall DEF CreateGroup, Serving
<1>1. /\ Own(r) /\ OwnCreate(r) /\ Sound(before) /\ undo[r] = {} /\ group = before.group
      /\ \A u \in Members : make[r][u] = "no"
  BY <1>0 DEF Serving, Own, OwnCreate
<1>2. /\ UNCHANGED <<tuples, refs, job, old, seen, make>>
      /\ \/ /\ NameFree(job[r].doc.name, g) /\ group' = [group EXCEPT ![g] = D]
            /\ Goes(r, "writeOwner", {"unCreate"})
         \/ group' = group /\ Stops(r)
  BY <1>0, WriteGroupEnds DEF CreateGroup
<1>3. Entered' = Entered
  BY <1>2 DEF Entered
<1>4. CASE group' = group /\ Stops(r)
  <2>1. Back'
    BY <1>1, <1>2, <1>3, <1>4 DEF Back, OwnCreate
  <2>2. pc'[r] = "failed" /\ \A u \in Members : make'[r][u] = "no"
    BY <1>0, <1>1, <1>2, <1>4 DEF Stops
  <2>3. QED
    BY <1>0, <1>1, <1>2, <2>1, <2>2, BackServed
<1>5. CASE /\ NameFree(job[r].doc.name, g) /\ group' = [group EXCEPT ![g] = D]
           /\ Goes(r, "writeOwner", {"unCreate"})
  <2>1. pc'[r] = "writeOwner" /\ undo'[r] = {"unCreate"}
    BY <1>0, <1>1, <1>5 DEF Goes
  <2>2. OwnCreate(r)'
    BY <1>1, <1>2, <1>3, <1>5, <2>1 DEF OwnCreate
  <2>3. Own(r)'
    BY <1>0, <1>1, <1>2, <2>1, <2>2 DEF Own
  <2>4. NamesApart(group)'
    <3>1. D.name = job[r].doc.name
      BY ServingFacts DEF NewDoc, Doc
    <3>2. group \in [Groups -> Doc \cup {NoDoc}] /\ NamesApart(group)
      BY ServingFacts DEF Serving
    <3>3. QED
      BY <1>0, <1>5, <3>1, <3>2 DEF NamesApart, NameFree
  <2>5. QED
    BY <2>1, <2>3, <2>4 DEF Served, Midway, Outcome
<1>6. QED
  BY <1>2, <1>4, <1>5

LEMMA WriteOwnerServed ==
    ASSUME OneRefusal, NEW r \in Reqs, Serving(r), WriteOwner(r), UNCHANGED before
    PROVE  Served(r)
<1> DEFINE g == job[r].g
           D == NewDoc(job[r])
           W == {OwnerTuple(job[r].by, g), PlatformTuple(g)}
<1>0. /\ TypeOK /\ PlatformMarks /\ job[r].op = "create" /\ pc[r] = "writeOwner"
      /\ g \in Groups /\ job[r].by \in Actors
      /\ pc \in [Reqs -> {"new", "rollback"} \cup Calls \cup Final]
      /\ undo \in [Reqs -> SUBSET Undos]
  BY ServingFacts, OpOfCall DEF WriteOwner, Serving
<1>1. /\ Own(r) /\ OwnCreate(r) /\ Sound(before) /\ undo[r] = {"unCreate"}
      /\ group = [before.group EXCEPT ![g] = D]
      /\ \A u \in Members : make[r][u] = "no"
  BY <1>0 DEF Serving, Own, OwnCreate
<1>2. PlatformTuple(g) \notin tuples
  BY <1>0 DEF Serving, Whole, Unwritten, Creates
<1>3. Accepts(W, {})
  BY <1>0, <1>2 DEF Accepts, PlatformMarks
<1>4. /\ UNCHANGED <<group, refs, job, old, seen, make>>
      /\ \/ tuples' = (tuples \ {}) \cup W /\ Goes(r, "done", {})
         \/ tuples' = tuples /\ Stops(r) /\ faults' = MaxFaults
  BY <1>0, <1>3, WriteTuplesEnds DEF WriteOwner
<1>5. Entered' = Entered
  BY <1>4 DEF Entered
<1>6. NamesApart(group)'
  BY <1>4 DEF Serving, NamesApart
<1>7. CASE tuples' = tuples /\ Stops(r) /\ faults' = MaxFaults
  <2>1. pc'[r] = "rollback" /\ undo'[r] = {"unCreate"}
    BY <1>0, <1>1, <1>7 DEF Stops
  <2>2. OwnCreate(r)'
    BY <1>1, <1>4, <1>5, <1>7, <2>1 DEF OwnCreate
  <2>3. Own(r)'
    BY <1>0, <1>1, <1>4, <1>7, <2>1, <2>2 DEF Own
  <2>4. QED
    BY <1>6, <2>1, <2>3 DEF Served, Midway, Outcome
<1>8. CASE tuples' = (tuples \ {}) \cup W /\ Goes(r, "done", {})
  <2>1. pc'[r] = "done"
    BY <1>0, <1>8 DEF Goes
  <2>2. /\ before.group[g] = NoDoc /\ tuples = before.tuples /\ Entered = before.entered
    BY <1>1 DEF OwnCreate
  <2>3. Mirrored(tuples, g, NoDoc) /\ \A u \in Members : Entered[u][g] = 0
    BY <1>0, <1>1, <2>2, SoundFacts
  <2>4. D \in Doc /\ D.owner = job[r].by /\ D.coOwners = {}
    BY ServingFacts DEF NewDoc, Doc
  <2>5. D # NoDoc /\ group[g] = D
    BY <1>0, <1>1, <2>4, NoDocAssumption, SoundFacts
  <2>6. Mirrored(tuples', g, D)
    BY <1>0, <1>8, <2>3, <2>4, <2>5, TupleNames DEF Mirrored, OwnerTuple, PlatformTuple
  <2>7. Agreed(g)'
    BY <1>4, <1>5, <2>3, <2>5, <2>6 DEF Agreed, Agree
  <2>8. QED
    BY <1>1, <1>4, <1>6, <2>1, <2>7 DEF Served, Outcome
<1>9. QED
  BY <1>4, <1>7, <1>8

LEMMA UndoCreateServed ==
    ASSUME OneRefusal, NEW r \in Reqs, Serving(r), UndoCreate(r), UNCHANGED before
    PROVE  Served(r)
<1> DEFINE g == job[r].g
<1>0. /\ TypeOK /\ job[r].op = "create" /\ pc[r] = "rollback" /\ g \in Groups
      /\ pc \in [Reqs -> {"new", "rollback"} \cup Calls \cup Final]
      /\ undo \in [Reqs -> SUBSET Undos]
  BY ServingFacts, OpOfCall DEF UndoCreate, UndoGroup, Undoing, Serving
<1>1. /\ Own(r) /\ OwnCreate(r) /\ Sound(before) /\ undo[r] = {"unCreate"}
      /\ group = [before.group EXCEPT ![g] = NewDoc(job[r])]
      /\ faults = MaxFaults
      /\ \A u \in Members : make[r][u] = "no"
  BY <1>0 DEF Serving, Own, OwnCreate
<1>2. /\ UNCHANGED <<tuples, refs, job, make>>
      /\ group' = [group EXCEPT ![g] = NoDoc]
      /\ pc'[r] = "failed"
  BY <1>0, <1>1, Refusal DEF UndoCreate, UndoGroup, Undoing, locals
<1>3. group' = before.group
  BY <1>0, <1>1, <1>2, SoundFacts DEF OwnCreate
<1>4. Back'
  BY <1>1, <1>2, <1>3 DEF Back, OwnCreate, Entered
<1>5. QED
  BY <1>0, <1>1, <1>2, <1>4, BackServed
-----------------------------------------------------------------------------
(* editPermissionGroupDetailsById *)

\* A request with nothing to undo only read, and goes on or fails.
LEMMA ReadServed ==
    ASSUME OneRefusal, NEW r \in Reqs, Serving(r), UNCHANGED <<before, job, make>>,
           NEW ok, NEW next, Read(r, ok, next), Undoable(r), Back, undo[r] = {},
           \A u \in Members : make[r][u] = "no",
           (ok /\ pc'[r] = next /\ undo'[r] = {} /\ Back') => Own(r)'
    PROVE  Served(r)
<1>0. /\ TypeOK /\ job[r].g \in Groups /\ Sound(before)
      /\ pc \in [Reqs -> {"new", "rollback"} \cup Calls \cup Final]
      /\ undo \in [Reqs -> SUBSET Undos]
  BY ServingFacts DEF Serving
<1>1. /\ UNCHANGED <<group, tuples, refs>>
      /\ (ok /\ Goes(r, next, {})) \/ Stops(r)
  BY <1>0, ReadEnds
<1>2. Back'
  BY <1>1 DEF Back, Entered
<1>3. \/ ok /\ pc'[r] = next /\ undo'[r] = {}
      \/ pc'[r] = "failed"
  BY <1>0, <1>1 DEF Goes, Stops
<1>4. QED
  BY <1>0, <1>2, <1>3, BackServed

LEMMA CheckUpdateServed ==
    ASSUME OneRefusal, NEW r \in Reqs, Serving(r), CheckCanUpdate(r), UNCHANGED before
    PROVE  Served(r)
<1>0. /\ job[r].op = "edit" /\ pc[r] = "canUpdate"
      /\ Read(r, CanUpdate(job[r].by, job[r].g), "readGroup")
      /\ UNCHANGED <<job, old, seen, make>>
  BY ServingFacts, OpOfCall DEF CheckCanUpdate, Serving, EditCalls, locals
<1>1. /\ Own(r) /\ OwnEdit(r) /\ undo[r] = {} /\ Back
      /\ \A u \in Members : make[r][u] = "no"
  BY <1>0 DEF Serving, Own, OwnEdit, Back
<1>2. pc'[r] = "readGroup" /\ undo'[r] = {} /\ Back' => OwnEdit(r)'
  BY DEF OwnEdit, Back
<1>3. pc'[r] = "readGroup" /\ undo'[r] = {} /\ Back' => Own(r)'
  BY <1>0, <1>1, <1>2 DEF Own
<1>4. QED
  BY <1>0, <1>1, <1>3, ReadServed DEF Undoable

LEMMA ReadGroupServed ==
    ASSUME OneRefusal, NEW r \in Reqs, Serving(r), ReadGroup(r), UNCHANGED before
    PROVE  Served(r)
<1> DEFINE g == job[r].g
<1>0. /\ job[r].op = "edit" /\ pc[r] = "readGroup" /\ g \in Groups
      /\ Read(r, group[g] # NoDoc, "setDetails")
      /\ UNCHANGED <<job, seen, make>>
      /\ group[g] # NoDoc => old'[r] = group[g]
  BY ServingFacts, OpOfCall DEF ReadGroup, ReadCopy, Serving, EditCalls
<1>1. /\ Own(r) /\ OwnEdit(r) /\ undo[r] = {} /\ Back
      /\ \A u \in Members : make[r][u] = "no"
  BY <1>0 DEF Serving, Own, OwnEdit, Back
<1>2. group[g] # NoDoc /\ pc'[r] = "setDetails" /\ undo'[r] = {} /\ Back' => OwnEdit(r)'
  BY <1>0, <1>1 DEF OwnEdit, Back
<1>3. group[g] # NoDoc /\ pc'[r] = "setDetails" /\ undo'[r] = {} /\ Back' => Own(r)'
  BY <1>0, <1>1, <1>2 DEF Own
<1>4. QED
  BY <1>0, <1>1, <1>3, ReadServed DEF Undoable

\* An edit that has read its copy.
LEMMA EditFacts ==
    ASSUME NEW r \in Reqs, Serving(r), job[r].op = "edit", pc[r] \notin {"canUpdate", "readGroup"}
    PROVE  /\ TypeOK /\ Own(r) /\ OwnEdit(r) /\ Sound(before) /\ job[r].g \in Groups
           /\ pc \in [Reqs -> {"new", "rollback"} \cup Calls \cup Final]
           /\ undo \in [Reqs -> SUBSET Undos]
           /\ old[r] \in Doc /\ old[r] = before.group[job[r].g]
           /\ old[r].owner \in Actors /\ old[r].coOwners \subseteq Actors
           /\ job[r].doc.owner \in Actors /\ job[r].doc.coOwners \subseteq Actors
           /\ Edited(r) \in Doc /\ Edited(r) # NoDoc
           /\ Edited(r).name = job[r].doc.name /\ Edited(r).owner = job[r].doc.owner
           /\ Edited(r).coOwners = job[r].doc.coOwners /\ Edited(r).data = old[r].data
           /\ before.group \in [Groups -> Doc \cup {NoDoc}]
           /\ Mirrored(before.tuples, job[r].g, old[r])
           /\ \A u \in Members : make[r][u] = "no"
<1>1. /\ TypeOK /\ Own(r) /\ OwnEdit(r) /\ Sound(before) /\ job[r].g \in Groups
      /\ pc \in [Reqs -> {"new", "rollback"} \cup Calls \cup Final]
      /\ undo \in [Reqs -> SUBSET Undos]
      /\ \A u \in Members : make[r][u] = "no"
  BY ServingFacts DEF Serving, Own
<1>2. /\ before.group \in [Groups -> Doc \cup {NoDoc}]
      /\ Mirrored(before.tuples, job[r].g, before.group[job[r].g])
  BY <1>1, SoundFacts
<1>3. old[r] = before.group[job[r].g] /\ old[r] # NoDoc
  BY <1>1 DEF OwnEdit
<1>4. old[r] \in Doc
  BY <1>1, <1>2, <1>3
<1>5. job[r].doc \in Doc
  BY ServingFacts
<1>6. /\ Edited(r) \in Doc
      /\ Edited(r).name = job[r].doc.name /\ Edited(r).owner = job[r].doc.owner
      /\ Edited(r).coOwners = job[r].doc.coOwners /\ Edited(r).data = old[r].data
  BY <1>4, <1>5 DEF Edited, Doc
<1>7. /\ old[r].owner \in Actors /\ old[r].coOwners \subseteq Actors
      /\ job[r].doc.owner \in Actors /\ job[r].doc.coOwners \subseteq Actors
  BY <1>4, <1>5 DEF Doc
<1>8. Edited(r) # NoDoc
  BY <1>6, NoDocAssumption
<1>9. QED
  BY <1>1, <1>2, <1>3, <1>4, <1>6, <1>7, <1>8

\* The group is as the edit wants it, in the document and in the tuples.
LEMMA EditDone ==
    ASSUME NEW r \in Reqs, Serving(r), job[r].op = "edit", pc[r] \notin {"canUpdate", "readGroup"},
           UNCHANGED <<before, job, make>>, Entered' = Entered, NamesApart(group)',
           pc'[r] = "done", group'[job[r].g] = Edited(r),
           Mirrored(tuples', job[r].g, Edited(r))
    PROVE  Served(r)
<1> DEFINE g == job[r].g
<1>1. /\ OwnEdit(r) /\ Sound(before) /\ g \in Groups /\ Edited(r) # NoDoc
      /\ old[r] # NoDoc /\ old[r] = before.group[g]
      /\ \A u \in Members : make[r][u] = "no"
  BY EditFacts, NoDocAssumption
<1>2. Entered' = before.entered
  BY <1>1 DEF OwnEdit
<1>3. \A u \in Members : before.entered[u][g] <= 1
  BY <1>1 DEF Sound, Agree
<1>4. Agreed(g)'
  BY <1>1, <1>2, <1>3 DEF Agreed, Agree
<1>5. QED
  BY <1>1, <1>4 DEF Served, Outcome

LEMMA SetDetailsServed ==
    ASSUME OneRefusal, NEW r \in Reqs, Serving(r), SetDetails(r), UNCHANGED before
    PROVE  Served(r)
<1> DEFINE g == job[r].g
           d == job[r].doc
           next == IF NewOwner(r) THEN "moveOwner" ELSE CoOwnersNext(r)
<1>0. job[r].op = "edit" /\ pc[r] = "setDetails"
  BY ServingFacts, OpOfCall DEF SetDetails, Serving, EditCalls
<1>e. /\ TypeOK /\ Own(r) /\ OwnEdit(r) /\ Sound(before) /\ g \in Groups
      /\ pc \in [Reqs -> {"new", "rollback"} \cup Calls \cup Final]
      /\ undo \in [Reqs -> SUBSET Undos]
      /\ old[r] \in Doc /\ old[r] = before.group[g]
      /\ old[r].coOwners \subseteq Actors /\ d.coOwners \subseteq Actors
      /\ Edited(r) \in Doc /\ Edited(r).name = d.name
      /\ Edited(r).owner = d.owner /\ Edited(r).coOwners = d.coOwners
      /\ before.group \in [Groups -> Doc \cup {NoDoc}]
      /\ Mirrored(before.tuples, g, old[r])
      /\ \A u \in Members : make[r][u] = "no"
  BY <1>0, EditFacts
<1>1. undo[r] = {} /\ Back
  BY <1>0, <1>e DEF OwnEdit, Back
<1>2. group[g] = old[r] /\ group[g] # NoDoc
  BY <1>1, <1>e, NoDocAssumption DEF Back
<1>3. WithDetails(g, d) = [group EXCEPT ![g] = Edited(r)]
  BY <1>2 DEF WithDetails, Edited
<1>4. /\ UNCHANGED <<tuples, refs, job, old, seen, make>>
      /\ \/ /\ NameFree(d.name, g) /\ group' = [group EXCEPT ![g] = Edited(r)]
            /\ Goes(r, next, {"details"})
         \/ group' = group /\ Stops(r)
  <2>1. WriteGroup(r, group[g] = NoDoc \/ NameFree(d.name, g), WithDetails(g, d), next, {"details"})
    BY DEF SetDetails, NewOwner
  <2> HIDE DEF next
  <2>2. QED
    BY <1>2, <1>3, <1>e, <2>1, WriteGroupEnds
<1>5. Entered' = Entered
  BY <1>4 DEF Entered
<1>6. CASE group' = group /\ Stops(r)
  <2>1. Back' /\ pc'[r] = "failed"
    BY <1>1, <1>4, <1>5, <1>6, <1>e DEF Back, Stops
  <2>2. QED
    BY <1>4, <1>e, <2>1, BackServed
<1>7. CASE /\ NameFree(d.name, g) /\ group' = [group EXCEPT ![g] = Edited(r)]
           /\ Goes(r, next, {"details"})
  <2>1. pc'[r] = next /\ undo'[r] = {"details"}
    BY <1>1, <1>7, <1>e DEF Goes
  <2>2. NamesApart(group)'
    <3>1. group \in [Groups -> Doc \cup {NoDoc}] /\ NamesApart(group)
      BY ServingFacts DEF Serving
    <3>2. QED
      BY <1>7, <1>e, <3>1 DEF NamesApart, NameFree
  <2>3. group' = [before.group EXCEPT ![g] = Edited(r)] /\ tuples' = before.tuples
        /\ Entered' = before.entered
    BY <1>1, <1>4, <1>5, <1>7 DEF Back
  <2>4. Edited(r)' = Edited(r) /\ NewOwner(r)' = NewOwner(r)
    BY <1>4 DEF Edited, NewOwner
  <2>5. CASE next \in {"moveOwner", "moveCoOwners"}
    <3>1. next = "moveOwner" <=> NewOwner(r)
      BY DEF CoOwnersNext
    <3>2. OwnEdit(r)'
      BY <1>4, <1>e, <2>1, <2>3, <2>4, <2>5, <3>1, NoDocAssumption DEF OwnEdit
    <3>3. Own(r)'
      BY <1>0, <1>4, <1>e, <2>1, <2>5, <3>2 DEF Own
    <3>4. QED
      BY <2>1, <2>2, <2>5, <3>3 DEF Served, Midway, Outcome
  <2>6. CASE next = "done"
    <3>1. ~NewOwner(r) /\ CoOwnersAdded(r) \cup CoOwnersRemoved(r) = {}
      BY <2>6 DEF CoOwnersNext
    <3>2. d.owner = old[r].owner /\ d.coOwners = old[r].coOwners
      BY <3>1 DEF NewOwner, CoOwnersAdded, CoOwnersRemoved
    <3>3. Mirrored(tuples', g, Edited(r))
      BY <1>e, <2>3, <3>2, NoDocAssumption DEF Mirrored
    <3>4. group'[g] = Edited(r)
      BY <1>e, <2>3
    <3>5. QED
      BY <1>0, <1>4, <1>5, <2>1, <2>2, <2>6, <3>3, <3>4, EditDone
  <2>7. QED
    BY <2>5, <2>6 DEF CoOwnersNext
<1>8. QED
  BY <1>4, <1>6, <1>7
LEMMA MoveOwnerServed ==
    ASSUME OneRefusal, NEW r \in Reqs, Serving(r), MoveOwner(r), UNCHANGED before
    PROVE  Served(r)
<1> DEFINE g == job[r].g
           d == job[r].doc
           W == {OwnerTuple(d.owner, g)}
           D == {OwnerTuple(old[r].owner, g)}
<1>0. job[r].op = "edit" /\ pc[r] = "moveOwner"
  BY ServingFacts, OpOfCall DEF MoveOwner, Serving, EditCalls
<1>e. /\ TypeOK /\ Own(r) /\ OwnEdit(r) /\ Sound(before) /\ g \in Groups
      /\ pc \in [Reqs -> {"new", "rollback"} \cup Calls \cup Final]
      /\ undo \in [Reqs -> SUBSET Undos]
      /\ old[r] \in Doc /\ old[r] = before.group[g]
      /\ old[r].owner \in Actors /\ d.owner \in Actors
      /\ old[r].coOwners \subseteq Actors /\ d.coOwners \subseteq Actors
      /\ Edited(r) \in Doc /\ Edited(r) # NoDoc
      /\ Edited(r).owner = d.owner /\ Edited(r).coOwners = d.coOwners
      /\ before.group \in [Groups -> Doc \cup {NoDoc}]
      /\ Mirrored(before.tuples, g, old[r])
      /\ \A u \in Members : make[r][u] = "no"
  BY <1>0, EditFacts
<1>1. /\ undo[r] = {"details"} /\ NewOwner(r)
      /\ group = [before.group EXCEPT ![g] = Edited(r)]
      /\ tuples = before.tuples /\ Entered = before.entered
      /\ old[r] # NoDoc
  BY <1>0, <1>e, NoDocAssumption DEF OwnEdit
<1>2. Accepts(W, D)
  BY <1>1, <1>e DEF Accepts, Mirrored, NewOwner
<1>3. /\ UNCHANGED <<group, refs, job, old, seen, make>>
      /\ \/ tuples' = (tuples \ D) \cup W /\ Goes(r, CoOwnersNext(r), {"owner"})
         \/ tuples' = tuples /\ Stops(r) /\ faults' = MaxFaults
  BY <1>2, <1>e, WriteTuplesEnds DEF MoveOwner
<1>4. Entered' = Entered /\ NamesApart(group)'
  BY <1>3 DEF Entered, Serving, NamesApart
<1>5. Edited(r)' = Edited(r) /\ NewOwner(r)' = NewOwner(r)
  BY <1>3 DEF Edited, NewOwner
<1>6. CASE tuples' = tuples /\ Stops(r) /\ faults' = MaxFaults
  <2>1. pc'[r] = "rollback" /\ undo'[r] = {"details"}
    BY <1>1, <1>6, <1>e DEF Stops
  <2>2. OwnEdit(r)'
    BY <1>1, <1>3, <1>4, <1>5, <1>6, <1>e, <2>1 DEF OwnEdit
  <2>3. Own(r)'
    BY <1>0, <1>3, <1>6, <1>e, <2>1, <2>2 DEF Own
  <2>4. QED
    BY <1>4, <2>1, <2>3 DEF Served, Midway, Outcome
<1>7. CASE tuples' = (tuples \ D) \cup W /\ Goes(r, CoOwnersNext(r), {"owner"})
  <2>1. pc'[r] = CoOwnersNext(r) /\ undo'[r] = {"details", "owner"}
    BY <1>1, <1>7, <1>e DEF Goes
  <2>2. tuples' = (before.tuples \ D) \cup W
    BY <1>1, <1>7
  <2>3. CASE pc'[r] = "moveCoOwners"
    <3>1. OwnEdit(r)'
      BY <1>1, <1>3, <1>4, <1>5, <1>e, <2>1, <2>2, <2>3 DEF OwnEdit
    <3>2. Own(r)'
      BY <1>0, <1>3, <1>e, <2>3, <3>1 DEF Own
    <3>3. QED
      BY <1>4, <2>3, <3>2 DEF Served, Midway, Outcome
  <2>4. CASE pc'[r] = "done"
    <3>1. CoOwnersAdded(r) \cup CoOwnersRemoved(r) = {}
      BY <2>1, <2>4 DEF CoOwnersNext
    <3>2. d.coOwners = old[r].coOwners
      BY <3>1 DEF CoOwnersAdded, CoOwnersRemoved
    <3>3. Mirrored(tuples', g, Edited(r))
      BY <1>1, <1>e, <2>2, <3>2, TupleNames DEF Mirrored, OwnerTuple
    <3>4. group'[g] = Edited(r)
      BY <1>1, <1>3, <1>e
    <3>5. QED
      BY <1>0, <1>3, <1>4, <2>4, <3>3, <3>4, EditDone
  <2>5. QED
    BY <2>1, <2>3, <2>4 DEF CoOwnersNext
<1>8. QED
  BY <1>3, <1>6, <1>7

LEMMA MoveCoOwnersServed ==
    ASSUME OneRefusal, NEW r \in Reqs, Serving(r), MoveCoOwners(r), UNCHANGED before
    PROVE  Served(r)
<1> DEFINE g == job[r].g
           d == job[r].doc
           W == CoOwnerTuples(CoOwnersAdded(r), g)
           D == CoOwnerTuples(CoOwnersRemoved(r), g)
<1>0. job[r].op = "edit" /\ pc[r] = "moveCoOwners"
  BY ServingFacts, OpOfCall DEF MoveCoOwners, Serving, EditCalls
<1>e. /\ TypeOK /\ Own(r) /\ OwnEdit(r) /\ Sound(before) /\ g \in Groups
      /\ pc \in [Reqs -> {"new", "rollback"} \cup Calls \cup Final]
      /\ undo \in [Reqs -> SUBSET Undos]
      /\ old[r] \in Doc /\ old[r] = before.group[g]
      /\ old[r].owner \in Actors /\ d.owner \in Actors
      /\ old[r].coOwners \subseteq Actors /\ d.coOwners \subseteq Actors
      /\ Edited(r) \in Doc /\ Edited(r) # NoDoc
      /\ Edited(r).owner = d.owner /\ Edited(r).coOwners = d.coOwners
      /\ before.group \in [Groups -> Doc \cup {NoDoc}]
      /\ Mirrored(before.tuples, g, old[r])
      /\ \A u \in Members : make[r][u] = "no"
  BY <1>0, EditFacts
<1>1. /\ undo[r] = {"details"} \cup (IF NewOwner(r) THEN {"owner"} ELSE {})
      /\ "details" \in undo[r] /\ ("owner" \in undo[r] <=> NewOwner(r))
      /\ group = [before.group EXCEPT ![g] = Edited(r)]
      /\ tuples = IF NewOwner(r)
                  THEN (before.tuples \ {OwnerTuple(old[r].owner, g)})
                          \cup {OwnerTuple(d.owner, g)}
                  ELSE before.tuples
      /\ Entered = before.entered
      /\ old[r] # NoDoc
  BY <1>0, <1>e, NoDocAssumption DEF OwnEdit
<1>t. \A u \in Actors : /\ OwnerTuple(u, g) \in tuples <=> u = d.owner
                        /\ <<u, "co_owner", g>> \in tuples <=> u \in old[r].coOwners
  <2>1. CASE NewOwner(r)
    BY <1>1, <1>e, <2>1, TupleNames DEF Mirrored, OwnerTuple, NewOwner
  <2>2. CASE ~NewOwner(r)
    BY <1>1, <1>e, <2>2 DEF Mirrored, NewOwner
  <2>3. QED
    BY <2>1, <2>2
<1>c. /\ \A t : t \in W <=> \E u \in d.coOwners \ old[r].coOwners : t = <<u, "co_owner", g>>
      /\ \A t : t \in D <=> \E u \in old[r].coOwners \ d.coOwners : t = <<u, "co_owner", g>>
  BY DEF CoOwnerTuples, CoOwnersAdded, CoOwnersRemoved
<1>2. Accepts(W, D)
  <2>1. W \cap tuples = {}
    BY <1>c, <1>e, <1>t
  <2>2. D \subseteq tuples
    BY <1>c, <1>e, <1>t
  <2>3. QED
    BY <2>1, <2>2 DEF Accepts
<1>3. /\ UNCHANGED <<group, refs, job, old, seen, make>>
      /\ \/ tuples' = (tuples \ D) \cup W /\ Goes(r, "done", {})
         \/ tuples' = tuples /\ Stops(r) /\ faults' = MaxFaults
  BY <1>2, <1>e, WriteTuplesEnds DEF MoveCoOwners
<1>4. Entered' = Entered /\ NamesApart(group)'
  BY <1>3 DEF Entered, Serving, NamesApart
<1>5. Edited(r)' = Edited(r) /\ NewOwner(r)' = NewOwner(r)
  BY <1>3 DEF Edited, NewOwner
<1>6. CASE tuples' = tuples /\ Stops(r) /\ faults' = MaxFaults
  <2>1. pc'[r] = "rollback" /\ undo'[r] = undo[r] /\ undo[r] # {}
        /\ undo[r] \subseteq {"details", "owner"}
    BY <1>1, <1>6, <1>e DEF Stops
  <2>2. OwnEdit(r)'
    BY <1>1, <1>3, <1>4, <1>5, <1>6, <1>e, <2>1 DEF OwnEdit
  <2>3. Own(r)'
    BY <1>0, <1>3, <1>6, <1>e, <2>1, <2>2 DEF Own
  <2>4. QED
    BY <1>4, <2>1, <2>3 DEF Served, Midway, Outcome
<1>7. CASE tuples' = (tuples \ D) \cup W /\ Goes(r, "done", {})
  <2>1. pc'[r] = "done"
    BY <1>7, <1>e DEF Goes
  <2>2. \A u \in Actors : OwnerTuple(u, g) \in tuples' <=> u = d.owner
    BY <1>7, <1>t, TupleNames
  <2>3. \A u \in Actors : <<u, "co_owner", g>> \in tuples' <=> u \in d.coOwners
    <3> SUFFICES ASSUME NEW u \in Actors
                 PROVE  <<u, "co_owner", g>> \in tuples' <=> u \in d.coOwners
      OBVIOUS
    <3>1. /\ <<u, "co_owner", g>> \in W <=> u \in d.coOwners \ old[r].coOwners
          /\ <<u, "co_owner", g>> \in D <=> u \in old[r].coOwners \ d.coOwners
      BY <1>c
    <3>2. <<u, "co_owner", g>> \in tuples <=> u \in old[r].coOwners
      BY <1>t
    <3>3. <<u, "co_owner", g>> \in tuples' <=>
             \/ <<u, "co_owner", g>> \in tuples /\ <<u, "co_owner", g>> \notin D
             \/ <<u, "co_owner", g>> \in W
      BY <1>7
    <3>4. QED
      BY <3>1, <3>2, <3>3
  <2>4. Mirrored(tuples', g, Edited(r))
    BY <1>e, <2>2, <2>3 DEF Mirrored
  <2>5. group'[g] = Edited(r)
    BY <1>1, <1>3, <1>e
  <2>6. QED
    BY <1>0, <1>3, <1>4, <2>1, <2>4, <2>5, EditDone
<1>8. QED
  BY <1>3, <1>6, <1>7

\* The last rollback ends the request.
LEMMA UndoingEnds ==
    ASSUME NEW r \in Reqs, NEW k, Undoing(r, k), TypeOK
    PROVE  /\ pc[r] = "rollback" /\ k \in undo[r] /\ undo'[r] = undo[r] \ {k}
           /\ UNCHANGED <<user, used, job, old, seen, make>>
           /\ pc'[r] = IF undo'[r] = {} THEN "failed" ELSE "rollback"
<1>1. /\ pc \in [Reqs -> {"new", "rollback"} \cup Calls \cup Final]
      /\ undo \in [Reqs -> SUBSET Undos]
  BY DEF TypeOK
<1>2. /\ pc[r] = "rollback" /\ k \in undo[r] /\ undo'[r] = undo[r] \ {k}
      /\ pc'[r] = IF undo[r] = {k} THEN "failed" ELSE "rollback"
  BY <1>1 DEF Undoing
<1>3. undo[r] = {k} <=> undo'[r] = {}
  BY <1>2
<1>4. QED
  BY <1>2, <1>3 DEF Undoing, locals

LEMMA UndoDetailsServed ==
    ASSUME OneRefusal, NEW r \in Reqs, Serving(r), UndoDetails(r), UNCHANGED before
    PROVE  Served(r)
<1> DEFINE g == job[r].g
<1>u. /\ TypeOK /\ Undoing(r, "details")
  BY ServingFacts DEF UndoDetails, UndoGroup
<1>0. /\ pc[r] = "rollback" /\ "details" \in undo[r] /\ undo'[r] = undo[r] \ {"details"}
      /\ UNCHANGED <<job, old, seen, make>>
      /\ pc'[r] = IF undo'[r] = {} THEN "failed" ELSE "rollback"
  BY <1>u, UndoingEnds
<1>d. job[r].op = "edit"
  BY <1>0, ServingFacts, OpOfCall DEF Serving
<1>e. /\ Own(r) /\ OwnEdit(r) /\ Sound(before) /\ g \in Groups
      /\ old[r] \in Doc /\ old[r] = before.group[g] /\ old[r] # NoDoc
      /\ Edited(r) \in Doc /\ Edited(r) # NoDoc /\ Edited(r).data = old[r].data
      /\ before.group \in [Groups -> Doc \cup {NoDoc}]
      /\ \A u \in Members : make[r][u] = "no"
  BY <1>0, <1>d, EditFacts, NoDocAssumption
<1>1. /\ group = [before.group EXCEPT ![g] = Edited(r)]
      /\ undo[r] \subseteq {"details", "owner"}
      /\ Entered = before.entered /\ faults = MaxFaults
  BY <1>0, <1>d, <1>e DEF OwnEdit, Own
<1>2. group[g] = Edited(r) /\ \A h \in Groups \ {g} : group[h] = before.group[h]
  BY <1>1, <1>e
<1>3. NameFree(old[r].name, g)
  <2>1. NamesApart(before.group)
    BY <1>e DEF Sound
  <2>2. QED
    BY <1>2, <1>e, <2>1 DEF NamesApart, NameFree
<1>4. WithDetails(g, old[r]) = before.group
  <2>1. [old[r] EXCEPT !.data = group[g].data] = old[r]
    BY <1>2, <1>e DEF Doc
  <2>2. WithDetails(g, old[r]) = [group EXCEPT ![g] = old[r]]
    BY <1>2, <1>e, <2>1 DEF WithDetails
  <2>3. QED
    BY <1>1, <1>e, <2>2
<1>5. group' = before.group /\ UNCHANGED <<tuples, refs, faults>>
  <2>1. ~Fault("refused")
    BY <1>1, <1>u, Refusal
  <2>2. QED
    BY <1>3, <1>4, <2>1 DEF UndoDetails, UndoGroup
<1>6. Entered' = before.entered
  BY <1>1, <1>5 DEF Entered
<1>7. Edited(r)' = Edited(r) /\ NewOwner(r)' = NewOwner(r)
  BY <1>0 DEF Edited, NewOwner
<1>8. NamesApart(group)'
  BY <1>5, <1>e DEF Sound, NamesApart
<1>9. CASE undo'[r] = {}
  <2>1. undo[r] = {"details"}
    BY <1>0, <1>9
  <2>2. tuples' = before.tuples
    BY <1>5, <1>e, <2>1 DEF OwnEdit
  <2>3. Back'
    BY <1>5, <1>6, <2>2 DEF Back
  <2>4. QED
    BY <1>0, <1>9, <1>e, <2>3, BackServed
<1>10. CASE undo'[r] # {}
  <2>1. pc'[r] = "rollback" /\ undo'[r] \subseteq {"details", "owner"} /\ "details" \notin undo'[r]
        /\ ("owner" \in undo'[r] <=> "owner" \in undo[r])
    BY <1>0, <1>1, <1>10
  <2>2. OwnEdit(r)'
    BY <1>0, <1>5, <1>6, <1>7, <1>10, <1>e, <2>1 DEF OwnEdit
  <2>3. Own(r)'
    BY <1>0, <1>1, <1>5, <1>d, <1>e, <2>2 DEF Own
  <2>4. QED
    BY <1>8, <2>1, <2>3 DEF Served, Midway, Outcome
<1>11. QED
  BY <1>9, <1>10

LEMMA UndoOwnerServed ==
    ASSUME OneRefusal, NEW r \in Reqs, Serving(r), UndoOwner(r), UNCHANGED before
    PROVE  Served(r)
<1> DEFINE g == job[r].g
           W == {OwnerTuple(old[r].owner, g)}
           D == {OwnerTuple(job[r].doc.owner, g)}
<1>u. /\ TypeOK /\ Undoing(r, "owner")
  BY ServingFacts DEF UndoOwner
<1>0. /\ pc[r] = "rollback" /\ "owner" \in undo[r] /\ undo'[r] = undo[r] \ {"owner"}
      /\ UNCHANGED <<job, old, seen, make>>
      /\ pc'[r] = IF undo'[r] = {} THEN "failed" ELSE "rollback"
  BY <1>u, UndoingEnds
<1>d. job[r].op = "edit"
  BY <1>0, ServingFacts, OpOfCall DEF Serving
<1>e. /\ Own(r) /\ OwnEdit(r) /\ Sound(before) /\ g \in Groups
      /\ old[r] = before.group[g] /\ old[r] # NoDoc
      /\ old[r].owner \in Actors /\ job[r].doc.owner \in Actors
      /\ Mirrored(before.tuples, g, old[r])
      /\ \A u \in Members : make[r][u] = "no"
  BY <1>0, <1>d, EditFacts DEF OwnEdit
<1>1. /\ undo[r] \subseteq {"details", "owner"} /\ NewOwner(r)
      /\ tuples = (before.tuples \ W) \cup D
      /\ Entered = before.entered /\ faults = MaxFaults
  BY <1>0, <1>d, <1>e DEF OwnEdit, Own
<1>2. /\ OwnerTuple(old[r].owner, g) \in before.tuples
      /\ OwnerTuple(job[r].doc.owner, g) \notin before.tuples
      /\ OwnerTuple(old[r].owner, g) # OwnerTuple(job[r].doc.owner, g)
  BY <1>1, <1>e, TupleNames DEF Mirrored, NewOwner
<1>3. Accepts(W, D)
  BY <1>1, <1>2 DEF Accepts
<1>4. (tuples \ D) \cup W = before.tuples
  BY <1>1, <1>2
<1>5. tuples' = before.tuples /\ UNCHANGED <<group, refs, faults>>
  <2>1. ~Fault("refused")
    BY <1>1, <1>u, Refusal
  <2>2. QED
    BY <1>3, <1>4, <2>1 DEF UndoOwner
<1>6. Entered' = before.entered
  BY <1>1, <1>5 DEF Entered
<1>7. Edited(r)' = Edited(r) /\ NewOwner(r)' = NewOwner(r)
  BY <1>0 DEF Edited, NewOwner
<1>8. NamesApart(group)'
  BY <1>5 DEF Serving, NamesApart
<1>9. CASE undo'[r] = {}
  <2>1. undo[r] = {"owner"}
    BY <1>0, <1>9
  <2>2. group' = before.group
    BY <1>5, <1>e, <2>1 DEF OwnEdit
  <2>3. Back'
    BY <1>5, <1>6, <2>2 DEF Back
  <2>4. QED
    BY <1>0, <1>9, <1>e, <2>3, BackServed
<1>10. CASE undo'[r] # {}
  <2>1. pc'[r] = "rollback" /\ undo'[r] \subseteq {"details", "owner"} /\ "owner" \notin undo'[r]
        /\ ("details" \in undo'[r] <=> "details" \in undo[r])
    BY <1>0, <1>1, <1>10
  <2>2. OwnEdit(r)'
    BY <1>0, <1>5, <1>6, <1>7, <1>10, <1>e, <2>1 DEF OwnEdit
  <2>3. Own(r)'
    BY <1>0, <1>1, <1>5, <1>d, <1>e, <2>2 DEF Own
  <2>4. QED
    BY <1>8, <2>1, <2>3 DEF Served, Midway, Outcome
<1>11. QED
  BY <1>9, <1>10
-----------------------------------------------------------------------------
(* deletePermissionGroupById *)

LEMMA EnteredNext ==
    ASSUME NEW E \in [Members -> [Groups -> Nat]],
           \A u \in Members, g \in Groups : Entered'[u][g] = E[u][g]
    PROVE  Entered' = E
<1> DEFINE F == [u \in Members |-> [g \in Groups |-> refs'[u][g].full + refs'[u][g].bare]]
<1>1. Entered' = F
  BY DEF Entered
<1> HIDE DEF F
<1>2. ASSUME NEW u \in Members
      PROVE  F[u] = E[u]
  <2>1. E[u] \in [Groups -> Nat]
    OBVIOUS
  <2>2. F[u] = [g \in Groups |-> refs'[u][g].full + refs'[u][g].bare]
    BY DEF F
  <2>3. \A g \in Groups : F[u][g] = E[u][g]
    BY <1>1
  <2>4. QED
    BY <2>1, <2>2, <2>3
<1>3. F = [u \in Members |-> F[u]]
  BY DEF F
<1>4. QED
  BY <1>1, <1>2, <1>3

LEMMA DeleteFacts ==
    ASSUME NEW r \in Reqs, Serving(r), job[r].op = "delete"
    PROVE  /\ TypeOK /\ Own(r) /\ OwnDelete(r) /\ Sound(before) /\ job[r].g \in Groups
           /\ pc \in [Reqs -> {"new", "rollback"} \cup Calls \cup Final]
           /\ undo \in [Reqs -> SUBSET Undos]
           /\ before.group \in [Groups -> Doc \cup {NoDoc}]
           /\ before.entered \in [Members -> [Groups -> Nat]]
           /\ Mirrored(before.tuples, job[r].g, before.group[job[r].g])
           /\ \A u \in Members : before.entered[u][job[r].g] \in {0, 1}
           /\ \A u \in Members : make[r][u] = "no"
           /\ undo[r] = {} => Back
<1>1. /\ TypeOK /\ Own(r) /\ OwnDelete(r) /\ Sound(before) /\ job[r].g \in Groups
      /\ pc \in [Reqs -> {"new", "rollback"} \cup Calls \cup Final]
      /\ undo \in [Reqs -> SUBSET Undos]
      /\ \A u \in Members : make[r][u] = "no"
  BY ServingFacts DEF Serving, Own
<1>2. /\ before.group \in [Groups -> Doc \cup {NoDoc}]
      /\ before.entered \in [Members -> [Groups -> Nat]]
      /\ Mirrored(before.tuples, job[r].g, before.group[job[r].g])
      /\ \A u \in Members : before.entered[u][job[r].g] \in {0, 1}
  BY <1>1, SoundFacts
<1>3. ASSUME undo[r] = {}
      PROVE  Back
  <2>1. \A u \in Members, h \in Groups : Entered[u][h] = before.entered[u][h]
    BY <1>1, <1>3 DEF OwnDelete
  <2>2. Entered = before.entered
    BY <1>1, <1>2, <2>1, EnteredSame
  <2>3. QED
    BY <1>1, <1>3, <2>2 DEF OwnDelete, Back
<1>4. QED
  BY <1>1, <1>2, <1>3

LEMMA ReadsDeleteServed ==
    ASSUME OneRefusal, NEW r \in Reqs, Serving(r), UNCHANGED before,
           CheckCanDelete(r) \/ ReadDoomed(r) \/ FindMembers(r)
    PROVE  Served(r)
<1> DEFINE g == job[r].g
<1>0. job[r].op = "delete" /\ pc[r] \in {"canDelete", "readDoomed", "findMembers"}
  BY ServingFacts, OpOfCall DEF CheckCanDelete, ReadDoomed, FindMembers, Serving, DeleteCalls
<1>1. /\ Own(r) /\ OwnDelete(r) /\ undo[r] = {} /\ g \in Groups /\ TypeOK
      /\ \A u \in Members : make[r][u] = "no"
  BY <1>0, DeleteFacts DEF OwnDelete
<1>2. Back
  BY <1>0, <1>1, DeleteFacts
<1>3. ASSUME NEW next \in {"readDoomed", "findMembers", "pullMembers"},
             UNCHANGED <<job, make>>,
             pc'[r] = next, undo'[r] = {}, Back',
             next # "readDoomed" => old'[r] # NoDoc /\ old'[r] = group[g],
             next = "pullMembers" => seen'[r] = {u \in Members : before.entered[u][g] > 0}
      PROVE  Own(r)'
  <2>1. OwnDelete(r)'
    BY <1>1, <1>2, <1>3 DEF OwnDelete, Back
  <2>2. QED
    BY <1>0, <1>1, <1>3, <2>1 DEF Own
<1>4. CASE CheckCanDelete(r)
  <2>1. Read(r, CanDelete(job[r].by, g), "readDoomed") /\ UNCHANGED <<job, make>>
    BY <1>4 DEF CheckCanDelete, locals
  <2>2. QED
    BY <1>0, <1>1, <1>2, <1>3, <2>1, ReadServed DEF Undoable
<1>5. CASE ReadDoomed(r)
  <2>1. /\ Read(r, group[g] # NoDoc, "findMembers") /\ UNCHANGED <<job, make>>
        /\ group[g] # NoDoc => old'[r] = group[g]
    BY <1>5, <1>1 DEF ReadDoomed, ReadCopy, TypeOK
  <2>2. group[g] # NoDoc /\ pc'[r] = "findMembers" /\ undo'[r] = {} /\ Back' => Own(r)'
    BY <1>3, <2>1
  <2>3. QED
    BY <1>0, <1>1, <1>2, <2>1, <2>2, ReadServed DEF Undoable
<1>6. CASE FindMembers(r)
  <2>1. /\ pc[r] = "findMembers" /\ Read(r, TRUE, "pullMembers") /\ UNCHANGED <<job, old, make>>
        /\ seen'[r] = {u \in Members : In(u, g)}
    BY <1>1, <1>6 DEF FindMembers, See, TypeOK
  <2>2. old[r] # NoDoc /\ old[r] = group[g]
    BY <1>1, <1>2, <2>1 DEF OwnDelete, Back
  <2>3. seen'[r] = {u \in Members : before.entered[u][g] > 0}
    BY <1>1, <1>2, <2>1, EnteredFacts DEF Back
  <2>4. pc'[r] = "pullMembers" /\ undo'[r] = {} /\ Back' => Own(r)'
    BY <1>3, <2>1, <2>2, <2>3
  <2>5. QED
    BY <1>0, <1>1, <1>2, <2>1, <2>4, ReadServed DEF Undoable
<1>7. QED
  BY <1>4, <1>5, <1>6

\* What a $pull leaves.
LEMMA PulledEntries ==
    ASSUME TypeOK, NEW g \in Groups, NEW S, refs' = Entries("pull", g, S)
    PROVE  \A u \in Members, h \in Groups :
              Entered'[u][h] = IF h # g \/ u \notin S THEN Entered[u][h] ELSE 0
<1> DEFINE how == "pull"
<1>1. refs' = Entries(how, g, S) /\ how \in {"full", "bare", "pull"} /\ how = "pull"
  OBVIOUS
<1> HIDE DEF how
<1>2. QED
  BY <1>1, NewEntries

\* What a $push adds.
LEMMA PushedEntries ==
    ASSUME TypeOK, NEW g \in Groups, NEW how \in {"full", "bare"}, NEW S,
           refs' = Entries(how, g, S)
    PROVE  \A u \in Members, h \in Groups :
              Entered'[u][h] = IF h # g \/ u \notin S THEN Entered[u][h] ELSE Entered[u][h] + 1
<1>1. how \in {"full", "bare", "pull"} /\ how # "pull"
  OBVIOUS
<1>2. QED
  BY <1>1, NewEntries

LEMMA PullMembersServed ==
    ASSUME OneRefusal, NEW r \in Reqs, Serving(r), PullMembers(r), UNCHANGED before
    PROVE  Served(r)
<1> DEFINE g == job[r].g
           S == {u \in Members : In(u, g)}
<1>0. job[r].op = "delete" /\ pc[r] = "pullMembers"
  BY ServingFacts, OpOfCall DEF PullMembers, Serving, DeleteCalls
<1>1. /\ TypeOK /\ Own(r) /\ OwnDelete(r) /\ Sound(before) /\ undo[r] = {} /\ g \in Groups
      /\ pc \in [Reqs -> {"new", "rollback"} \cup Calls \cup Final]
      /\ undo \in [Reqs -> SUBSET Undos]
      /\ \A u \in Members : make[r][u] = "no"
  BY <1>0, DeleteFacts DEF OwnDelete
<1>2. Back
  BY <1>0, <1>1, DeleteFacts
<1>3. /\ UNCHANGED <<group, tuples, job, old, seen, make>>
      /\ \/ refs' = Entries("pull", g, S) /\ Goes(r, "deleteGroup", {"users"})
         \/ refs' = refs /\ Stops(r)
  BY <1>1, WriteRefsEnds DEF PullMembers
<1>4. CASE refs' = refs /\ Stops(r)
  <2>1. Back' /\ pc'[r] = "failed"
    BY <1>1, <1>2, <1>3, <1>4 DEF Back, Entered, Stops
  <2>2. QED
    BY <1>1, <1>3, <2>1, BackServed
<1>5. CASE refs' = Entries("pull", g, S) /\ Goes(r, "deleteGroup", {"users"})
  <2>1. pc'[r] = "deleteGroup" /\ undo'[r] = {"users"}
    BY <1>1, <1>5 DEF Goes
  <2>2. \A u \in Members, h \in Groups :
           Entered'[u][h] = IF h = g THEN 0 ELSE before.entered[u][h]
    <3> SUFFICES ASSUME NEW u \in Members, NEW h \in Groups
                 PROVE  Entered'[u][h] = IF h = g THEN 0 ELSE before.entered[u][h]
      OBVIOUS
    <3>1. Entered'[u][h] = IF h # g \/ u \notin S THEN Entered[u][h] ELSE 0
      BY <1>1, <1>5, PulledEntries
    <3>2. Entered[u][h] \in Nat /\ (In(u, h) <=> Entered[u][h] > 0)
      BY <1>1, EnteredFacts
    <3>3. u \notin S /\ h = g => Entered[u][h] = 0
      BY <3>2
    <3>4. QED
      BY <1>2, <3>1, <3>3 DEF Back
  <2>3. OwnDelete(r)'
    BY <1>0, <1>1, <1>2, <1>3, <2>1, <2>2 DEF OwnDelete, Back
  <2>4. Own(r)'
    BY <1>0, <1>1, <1>3, <2>1, <2>3 DEF Own
  <2>5. NamesApart(group)'
    BY <1>3 DEF Serving, NamesApart
  <2>6. QED
    BY <2>1, <2>4, <2>5 DEF Served, Midway, Outcome
<1>6. QED
  BY <1>3, <1>4, <1>5

LEMMA DeleteGroupServed ==
    ASSUME OneRefusal, NEW r \in Reqs, Serving(r), DeleteGroup(r), UNCHANGED before
    PROVE  Served(r)
<1> DEFINE g == job[r].g
<1>0. job[r].op = "delete" /\ pc[r] = "deleteGroup"
  BY ServingFacts, OpOfCall DEF DeleteGroup, Serving, DeleteCalls
<1>1. /\ TypeOK /\ Own(r) /\ OwnDelete(r) /\ Sound(before) /\ g \in Groups
      /\ undo[r] = {"users"} /\ group = before.group /\ old[r] = group[g] /\ group[g] # NoDoc
      /\ pc \in [Reqs -> {"new", "rollback"} \cup Calls \cup Final]
      /\ undo \in [Reqs -> SUBSET Undos]
      /\ \A u \in Members : make[r][u] = "no"
  BY <1>0, DeleteFacts DEF OwnDelete
<1>2. /\ UNCHANGED <<tuples, refs, job, old, seen, make>>
      /\ \/ group' = [group EXCEPT ![g] = NoDoc] /\ Goes(r, "deleteTuples", {"recreate"})
         \/ group' = group /\ Stops(r) /\ faults' = MaxFaults
  BY <1>1, WriteGroupEnds DEF DeleteGroup
<1>3. Entered' = Entered
  BY <1>2 DEF Entered
<1>4. /\ pc'[r] \in {"deleteTuples", "rollback"}
      /\ undo'[r] = IF pc'[r] = "rollback" THEN {"users"} ELSE {"users", "recreate"}
      /\ group' = IF "recreate" \in undo'[r] THEN [before.group EXCEPT ![g] = NoDoc]
                  ELSE before.group
      /\ pc'[r] = "rollback" => faults' = MaxFaults
  <2>1. CASE group' = [group EXCEPT ![g] = NoDoc] /\ Goes(r, "deleteTuples", {"recreate"})
    BY <1>1, <2>1 DEF Goes
  <2>2. CASE group' = group /\ Stops(r) /\ faults' = MaxFaults
    BY <1>1, <2>2 DEF Stops
  <2>3. QED
    BY <1>2, <2>1, <2>2
<1>5. OwnDelete(r)'
  <2>1. "users" \in undo[r] /\ "users" \in undo'[r] /\ undo'[r] # {}
        /\ undo'[r] \subseteq {"users", "recreate"}
    BY <1>1, <1>4
  <2>2. \A u \in Members, h \in Groups :
           Entered[u][h] = IF h = g THEN 0 ELSE before.entered[u][h]
    BY <1>1, <2>1 DEF OwnDelete
  <2>3. /\ tuples = before.tuples
        /\ seen[r] = {u \in Members : before.entered[u][g] > 0}
    BY <1>0, <1>1 DEF OwnDelete
  <2>4. QED
    BY <1>1, <1>2, <1>3, <1>4, <2>1, <2>2, <2>3 DEF OwnDelete
<1>6. Own(r)'
  BY <1>0, <1>1, <1>2, <1>4, <1>5 DEF Own
<1>7. NamesApart(group)'
  <2>1. NamesApart(group) /\ group \in [Groups -> Doc \cup {NoDoc}]
    BY ServingFacts DEF Serving
  <2>2. QED
    BY <1>1, <1>2, <2>1 DEF NamesApart
<1>8. QED
  BY <1>4, <1>6, <1>7 DEF Served, Midway, Outcome
LEMMA DeleteTuplesServed ==
    ASSUME OneRefusal, NEW r \in Reqs, Serving(r), DeleteTuples(r), UNCHANGED before
    PROVE  Served(r)
<1> DEFINE g == job[r].g
           D == {OwnerTuple(old[r].owner, g)} \cup CoOwnerTuples(old[r].coOwners, g)
<1>0. job[r].op = "delete" /\ pc[r] = "deleteTuples"
  BY ServingFacts, OpOfCall DEF DeleteTuples, Serving, DeleteCalls
<1>1. /\ TypeOK /\ Own(r) /\ OwnDelete(r) /\ Sound(before) /\ g \in Groups
      /\ undo[r] = {"users", "recreate"} /\ group = [before.group EXCEPT ![g] = NoDoc]
      /\ tuples = before.tuples
      /\ old[r] # NoDoc /\ old[r] = before.group[g]
      /\ before.group \in [Groups -> Doc \cup {NoDoc}]
      /\ Mirrored(before.tuples, g, old[r])
      /\ pc \in [Reqs -> {"new", "rollback"} \cup Calls \cup Final]
      /\ undo \in [Reqs -> SUBSET Undos]
      /\ \A u \in Members : make[r][u] = "no"
  BY <1>0, DeleteFacts DEF OwnDelete
<1>2. old[r] \in Doc /\ old[r].owner \in Actors /\ old[r].coOwners \subseteq Actors
  BY <1>1 DEF Doc
<1>c. \A t : t \in D <=> \/ t = OwnerTuple(old[r].owner, g)
                         \/ \E u \in old[r].coOwners : t = <<u, "co_owner", g>>
  BY DEF CoOwnerTuples
<1>3. Accepts({}, D)
  <2>1. /\ OwnerTuple(old[r].owner, g) \in tuples
        /\ \A u \in old[r].coOwners : <<u, "co_owner", g>> \in tuples
    BY <1>1, <1>2 DEF Mirrored
  <2>2. \A t \in D : t \in tuples
    BY <2>1, <1>c
  <2>3. QED
    BY <2>2 DEF Accepts
<1>4. /\ UNCHANGED <<group, refs, job, old, seen, make>>
      /\ \/ tuples' = (tuples \ D) \cup {} /\ Goes(r, "done", {})
         \/ tuples' = tuples /\ Stops(r) /\ faults' = MaxFaults
  BY <1>1, <1>3, WriteTuplesEnds DEF DeleteTuples
<1>5. Entered' = Entered /\ NamesApart(group)'
  BY <1>4 DEF Entered, Serving, NamesApart
<1>6. CASE tuples' = tuples /\ Stops(r) /\ faults' = MaxFaults
  <2>1. pc'[r] = "rollback" /\ undo'[r] = undo[r]
    BY <1>1, <1>6 DEF Stops
  <2>2. "users" \in undo[r] /\ "recreate" \in undo[r] /\ undo[r] # {}
    BY <1>1
  <2>3. OwnDelete(r)'
    BY <1>0, <1>1, <1>4, <1>5, <1>6, <2>1, <2>2 DEF OwnDelete
  <2>4. Own(r)'
    BY <1>0, <1>1, <1>4, <1>6, <2>1, <2>3 DEF Own
  <2>5. QED
    BY <1>5, <2>1, <2>4 DEF Served, Midway, Outcome
<1>7. CASE tuples' = (tuples \ D) \cup {} /\ Goes(r, "done", {})
  <2>1. pc'[r] = "done"
    BY <1>1, <1>7 DEF Goes
  <2>2. Mirrored(tuples', g, NoDoc)
    BY <1>1, <1>2, <1>7, <1>c DEF Mirrored, OwnerTuple
  <2>3. group'[g] = NoDoc
    BY <1>1, <1>4
  <2>4. \A u \in Members : Entered'[u][g] = 0
    BY <1>1, <1>5 DEF OwnDelete
  <2>5. Agreed(g)'
    BY <1>4, <2>2, <2>3, <2>4 DEF Agreed, Agree
  <2>6. QED
    BY <1>1, <1>4, <1>5, <2>1, <2>5 DEF Served, Outcome
<1>8. QED
  BY <1>4, <1>6, <1>7

\* What the rollbacks of a delete find.
LEMMA UndoingDelete ==
    ASSUME OneRefusal, NEW r \in Reqs, Serving(r), NEW k \in {"users", "recreate"}, Undoing(r, k)
    PROVE  /\ job[r].op = "delete" /\ pc[r] = "rollback" /\ k \in undo[r]
           /\ undo[r] \subseteq {"users", "recreate"} /\ undo'[r] = undo[r] \ {k}
           /\ pc'[r] = IF undo'[r] = {} THEN "failed" ELSE "rollback"
           /\ UNCHANGED <<job, old, seen, make>>
           /\ faults = MaxFaults /\ ~Fault("refused")
           /\ old[r] = before.group[job[r].g] /\ old[r] # NoDoc
           /\ seen[r] = {u \in Members : before.entered[u][job[r].g] > 0}
<1>0. TypeOK
  BY ServingFacts
<1>1. /\ pc[r] = "rollback" /\ k \in undo[r] /\ undo'[r] = undo[r] \ {k}
      /\ UNCHANGED <<job, old, seen, make>>
      /\ pc'[r] = IF undo'[r] = {} THEN "failed" ELSE "rollback"
  BY <1>0, UndoingEnds
<1>2. job[r].op = "delete"
  BY <1>1, ServingFacts, OpOfCall DEF Serving
<1>3. OwnDelete(r) /\ Own(r)
  BY <1>2, DeleteFacts
<1>4. faults = MaxFaults
  BY <1>1, <1>3 DEF Own
<1>5. ~Fault("refused")
  BY <1>0, <1>4, Refusal
<1>6. QED
  BY <1>1, <1>2, <1>3, <1>4, <1>5 DEF OwnDelete

\* One of them has run.
LEMMA DeleteUndone ==
    ASSUME OneRefusal, NEW r \in Reqs, Serving(r), NEW k \in {"users", "recreate"},
           Undoing(r, k), UNCHANGED <<before, tuples, faults>>, NamesApart(group)',
           group' = IF "recreate" \in undo'[r] THEN [before.group EXCEPT ![job[r].g] = NoDoc]
                    ELSE before.group,
           \A u \in Members, h \in Groups :
              Entered'[u][h] = IF h = job[r].g /\ "users" \in undo'[r] THEN 0
                               ELSE before.entered[u][h]
    PROVE  Served(r)
<1>0. /\ job[r].op = "delete" /\ pc[r] = "rollback"
      /\ undo[r] \subseteq {"users", "recreate"} /\ undo'[r] = undo[r] \ {k}
      /\ pc'[r] = IF undo'[r] = {} THEN "failed" ELSE "rollback"
      /\ UNCHANGED <<job, old, seen, make>> /\ faults = MaxFaults
  BY UndoingDelete
<1>1. /\ Own(r) /\ OwnDelete(r) /\ Sound(before) /\ job[r].g \in Groups
      /\ before.entered \in [Members -> [Groups -> Nat]]
      /\ \A u \in Members : make[r][u] = "no"
  BY <1>0, DeleteFacts
<1>2. CASE undo'[r] = {}
  <2>1. Entered' = before.entered
    BY <1>1, <1>2, EnteredNext
  <2>2. Back'
    BY <1>1, <1>2, <2>1 DEF Back, OwnDelete
  <2>3. QED
    BY <1>0, <1>1, <1>2, <2>2, BackServed
<1>3. CASE undo'[r] # {}
  <2>1. pc'[r] = "rollback" /\ undo'[r] \subseteq {"users", "recreate"}
    BY <1>0, <1>3
  <2>2. OwnDelete(r)'
    BY <1>0, <1>1, <1>3, <2>1 DEF OwnDelete
  <2>3. Own(r)'
    BY <1>0, <1>1, <2>2 DEF Own
  <2>4. QED
    BY <2>1, <2>3 DEF Served, Midway, Outcome
<1>4. QED
  BY <1>2, <1>3

LEMMA UndoDeleteServed ==
    ASSUME OneRefusal, NEW r \in Reqs, Serving(r), UndoDelete(r), UNCHANGED before
    PROVE  Served(r)
<1> DEFINE g == job[r].g
<1>u. Undoing(r, "recreate")
  BY DEF UndoDelete, UndoGroup
<1>0. /\ job[r].op = "delete" /\ "recreate" \in undo[r] /\ undo'[r] = undo[r] \ {"recreate"}
      /\ old[r] = before.group[g] /\ old[r] # NoDoc /\ ~Fault("refused")
  BY <1>u, UndoingDelete
<1>1. /\ OwnDelete(r) /\ Sound(before) /\ g \in Groups
      /\ before.group \in [Groups -> Doc \cup {NoDoc}]
  BY <1>0, DeleteFacts
<1>2. group = [before.group EXCEPT ![g] = NoDoc]
  BY <1>0, <1>1 DEF OwnDelete
<1>3. NameFree(old[r].name, g) /\ group[g] = NoDoc
  <2>1. NamesApart(before.group)
    BY <1>1 DEF Sound
  <2>2. QED
    BY <1>0, <1>1, <1>2, <2>1 DEF NamesApart, NameFree
<1>4. group' = before.group /\ UNCHANGED <<tuples, refs, faults>>
  <2>1. [group EXCEPT ![g] = old[r]] = before.group
    BY <1>0, <1>1, <1>2
  <2>2. QED
    BY <1>0, <1>3, <2>1 DEF UndoDelete, UndoGroup
<1>5. NamesApart(group)' /\ "recreate" \notin undo'[r] /\ ("users" \in undo'[r] <=> "users" \in undo[r])
  BY <1>0, <1>1, <1>4 DEF Sound, NamesApart
<1>6. Entered' = Entered
  BY <1>4 DEF Entered
<1>7. \A u \in Members, h \in Groups :
         Entered'[u][h] = IF h = g /\ "users" \in undo'[r] THEN 0 ELSE before.entered[u][h]
  BY <1>1, <1>5, <1>6 DEF OwnDelete
<1>8. QED
  BY <1>4, <1>5, <1>7, <1>u, DeleteUndone

LEMMA UndoPullServed ==
    ASSUME OneRefusal, NEW r \in Reqs, Serving(r), UndoPull(r), UNCHANGED before
    PROVE  Served(r)
<1> DEFINE g == job[r].g
<1>u. Undoing(r, "users")
  BY DEF UndoPull
<1>0. /\ job[r].op = "delete" /\ "users" \in undo[r] /\ undo'[r] = undo[r] \ {"users"}
      /\ ~Fault("refused")
      /\ seen[r] = {u \in Members : before.entered[u][g] > 0}
  BY <1>u, UndoingDelete
<1>1. /\ OwnDelete(r) /\ Sound(before) /\ g \in Groups /\ TypeOK
      /\ before.entered \in [Members -> [Groups -> Nat]]
      /\ \A u \in Members : before.entered[u][g] \in {0, 1}
  BY <1>0, DeleteFacts
<1>2. UNCHANGED <<group, tuples, faults>> /\ refs' = Entries("bare", g, seen[r])
  BY <1>0 DEF UndoPull
<1>3. \A u \in Members, h \in Groups : Entered'[u][h] = before.entered[u][h]
  <2> SUFFICES ASSUME NEW u \in Members, NEW h \in Groups
               PROVE  Entered'[u][h] = before.entered[u][h]
    OBVIOUS
  <2>1. Entered'[u][h] = IF h # g \/ u \notin seen[r] THEN Entered[u][h] ELSE Entered[u][h] + 1
    BY <1>1, <1>2, PushedEntries
  <2>2. Entered[u][h] = IF h = g THEN 0 ELSE before.entered[u][h]
    BY <1>0, <1>1 DEF OwnDelete
  <2>3. u \in seen[r] <=> before.entered[u][g] > 0
    BY <1>0
  <2>4. before.entered[u][g] \in {0, 1}
    BY <1>1
  <2>5. QED
    BY <2>1, <2>2, <2>3, <2>4
<1>4. "users" \notin undo'[r] /\ ("recreate" \in undo'[r] <=> "recreate" \in undo[r])
  BY <1>0
<1>5. /\ NamesApart(group)'
      /\ group' = IF "recreate" \in undo'[r] THEN [before.group EXCEPT ![g] = NoDoc]
                  ELSE before.group
  BY <1>1, <1>2, <1>4 DEF Serving, NamesApart, OwnDelete
<1>6. QED
  BY <1>2, <1>3, <1>4, <1>5, <1>u, DeleteUndone
-----------------------------------------------------------------------------
(* addPermissionGroupToUsers, deletePermissionGroupFromUser and              *)
(* editPermissionGroupDataPermissionsById: each call leaves the group whole. *)

\* A request that registers no rollback.
LEMMA PlainFacts ==
    ASSUME NEW r \in Reqs, Serving(r), job[r].op \in {"add", "remove", "data"}
    PROVE  /\ TypeOK /\ Own(r) /\ job[r].g \in Groups /\ undo[r] = {}
           /\ pc[r] \in AddCalls \cup RemoveCalls \cup DataCalls \cup Final
           /\ pc \in [Reqs -> {"new", "rollback"} \cup Calls \cup Final]
           /\ undo \in [Reqs -> SUBSET Undos]
           /\ Agreed(job[r].g)
           /\ job[r].op = "add" => OwnAdd(r)
           /\ job[r].op = "remove" => OwnRemove(r)
           /\ job[r].op = "data" => OwnData(r)
           /\ job[r].op # "add" => \A u \in Members : make[r][u] = "no"
<1>1. /\ TypeOK /\ Own(r) /\ job[r].g \in Groups
      /\ pc \in [Reqs -> {"new", "rollback"} \cup Calls \cup Final]
      /\ undo \in [Reqs -> SUBSET Undos]
      /\ pc[r] \notin Midway => Agreed(job[r].g)
  BY ServingFacts DEF Serving
<1>2. /\ job[r].op = "add" => OwnAdd(r)
      /\ job[r].op = "remove" => OwnRemove(r)
      /\ job[r].op = "data" => OwnData(r)
      /\ job[r].op # "add" => \A u \in Members : make[r][u] = "no"
  BY <1>1 DEF Own
<1>3. undo[r] = {} /\ pc[r] \in AddCalls \cup RemoveCalls \cup DataCalls \cup Final
  BY <1>2 DEF OwnAdd, OwnRemove, OwnData, RemoveCalls, DataCalls
<1>4. pc[r] \notin Midway
  BY <1>3 DEF Midway, AddCalls, RemoveCalls, DataCalls, Final
<1>5. QED
  BY <1>1, <1>2, <1>3, <1>4

\* It changes the data of its group, or the entries that refer to it.
LEMMA PlainServed ==
    ASSUME NEW r \in Reqs, Serving(r), job[r].op \in {"add", "remove", "data"},
           UNCHANGED <<before, job, tuples>>, NamesApart(group)',
           \/ group'[job[r].g] = group[job[r].g]
           \/ /\ group[job[r].g] # NoDoc /\ group'[job[r].g] # NoDoc
              /\ group'[job[r].g].owner = group[job[r].g].owner
              /\ group'[job[r].g].coOwners = group[job[r].g].coOwners,
           \A u \in Members :
              \/ Entered'[u][job[r].g] \in {0, Entered[u][job[r].g]}
              \/ Entered'[u][job[r].g] = 1 /\ group'[job[r].g] # NoDoc,
           \/ Own(r)'
           \/ pc'[r] \in {"done", "failed"} /\ \A u \in Members : make'[r][u] = "no"
    PROVE  Served(r)
<1> DEFINE g == job[r].g
<1>1. Agreed(g) /\ TypeOK /\ g \in Groups
  BY PlainFacts
<1>2. Mirrored(tuples', g, group'[g])
  BY <1>1 DEF Agreed, Agree, Mirrored
<1>3. ASSUME NEW u \in Members
      PROVE  Entered'[u][g] <= 1 /\ (Entered'[u][g] > 0 => group'[g] # NoDoc)
  <2>1. Entered[u][g] \in Nat /\ Entered[u][g] <= 1 /\ (Entered[u][g] > 0 => group[g] # NoDoc)
    BY <1>1, EnteredFacts DEF Agreed, Agree
  <2>2. QED
    BY <2>1
<1>4. Agreed(g)'
  BY <1>2, <1>3 DEF Agreed, Agree
<1>5. Outcome(r)'
  BY DEF Outcome, Undoable
<1>6. QED
  BY <1>4, <1>5 DEF Served

\* A read changes nothing.
LEMMA PlainReadServed ==
    ASSUME OneRefusal, NEW r \in Reqs, Serving(r), job[r].op \in {"add", "remove", "data"},
           UNCHANGED <<before, job>>, NEW ok, NEW next, Read(r, ok, next),
           /\ (ok /\ pc'[r] = next) \/ pc'[r] = "failed"
           /\ undo'[r] = {}
           /\ UNCHANGED <<group, tuples, refs>>
           => \/ Own(r)'
              \/ pc'[r] \in {"done", "failed"} /\ \A u \in Members : make'[r][u] = "no"
    PROVE  Served(r)
<1>1. /\ TypeOK /\ undo[r] = {}
      /\ pc \in [Reqs -> {"new", "rollback"} \cup Calls \cup Final]
      /\ undo \in [Reqs -> SUBSET Undos]
  BY PlainFacts
<1>2. /\ UNCHANGED <<group, tuples, refs>>
      /\ (ok /\ Goes(r, next, {})) \/ Stops(r)
  BY <1>1, ReadEnds
<1>3. ((ok /\ pc'[r] = next) \/ pc'[r] = "failed") /\ undo'[r] = {}
  BY <1>1, <1>2 DEF Goes, Stops
<1>4. Entered' = Entered /\ NamesApart(group)'
  BY <1>2 DEF Entered, Serving, NamesApart
<1>5. QED
  BY <1>2, <1>3, <1>4, PlainServed

LEMMA RemoveServed ==
    ASSUME OneRefusal, NEW r \in Reqs, Serving(r), Remove(r), UNCHANGED before
    PROVE  Served(r)
<1> DEFINE g == job[r].g
<1>0. job[r].op = "remove" /\ pc[r] \in RemoveCalls
  BY ServingFacts, OpOfCall
     DEF Remove, ReadForRemove, CheckCanRemove, PullMember, Serving, RemoveCalls
<1>1. /\ TypeOK /\ Own(r) /\ OwnRemove(r) /\ g \in Groups /\ undo[r] = {}
      /\ pc \in [Reqs -> {"new", "rollback"} \cup Calls \cup Final]
      /\ undo \in [Reqs -> SUBSET Undos]
      /\ \A u \in Members : make[r][u] = "no"
  BY <1>0, PlainFacts
<1>2. ASSUME NEW next \in {"canRemove", "pullMember"}, UNCHANGED <<job, make>>,
             pc'[r] = next \/ pc'[r] = "failed", undo'[r] = {}
      PROVE  \/ Own(r)'
             \/ pc'[r] \in {"done", "failed"} /\ \A u \in Members : make'[r][u] = "no"
  BY <1>0, <1>1, <1>2 DEF Own, OwnRemove
<1>3. CASE ReadForRemove(r)
  <2>1. Read(r, group[g] # NoDoc, "canRemove") /\ UNCHANGED <<job, make>>
    BY <1>3 DEF ReadForRemove, ReadCopy
  <2>2. QED
    BY <1>0, <1>2, <2>1, PlainReadServed
<1>4. CASE CheckCanRemove(r)
  <2>1. UNCHANGED <<job, make>>
    BY <1>4 DEF CheckCanRemove, locals
  <2>2. PICK permitted \in BOOLEAN :
           Read(r, CanChangeUsers(job[r].by, g) /\ permitted, "pullMember")
    BY <1>4 DEF CheckCanRemove, MayChangeUsers
  <2>3. QED
    BY <1>0, <1>2, <2>1, <2>2, PlainReadServed
<1>5. CASE PullMember(r)
  <2>1. /\ UNCHANGED <<group, tuples, job, make>>
        /\ \/ refs' = Entries("pull", g, job[r].to) /\ Goes(r, "done", {})
           \/ refs' = refs /\ Stops(r)
    BY <1>1, <1>5, WriteRefsEnds DEF PullMember
  <2>2. pc'[r] \in {"done", "failed"}
    BY <1>1, <2>1 DEF Goes, Stops
  <2>3. \A u \in Members : Entered'[u][g] \in {0, Entered[u][g]}
    <3>1. CASE refs' = refs
      BY <3>1 DEF Entered
    <3>2. CASE refs' = Entries("pull", g, job[r].to)
      BY <1>1, <3>2, PulledEntries
    <3>3. QED
      BY <2>1, <3>1, <3>2
  <2>4. NamesApart(group)'
    BY <2>1 DEF Serving, NamesApart
  <2>5. QED
    BY <1>0, <1>1, <2>1, <2>2, <2>3, <2>4, PlainServed
<1>6. QED
  BY <1>3, <1>4, <1>5 DEF Remove

LEMMA EditDataServed ==
    ASSUME OneRefusal, NEW r \in Reqs, Serving(r), EditData(r), UNCHANGED before
    PROVE  Served(r)
<1> DEFINE g == job[r].g
<1>0. job[r].op = "data" /\ pc[r] \in DataCalls
  BY ServingFacts, OpOfCall
     DEF EditData, ReadForData, CheckCanSetData, SetData, Reread, Serving, DataCalls
<1>1. /\ TypeOK /\ Own(r) /\ OwnData(r) /\ g \in Groups /\ undo[r] = {}
      /\ pc \in [Reqs -> {"new", "rollback"} \cup Calls \cup Final]
      /\ undo \in [Reqs -> SUBSET Undos]
      /\ \A u \in Members : make[r][u] = "no"
  BY <1>0, PlainFacts
<1>2. ASSUME NEW next \in {"canSetData", "setData", "reread", "done"}, UNCHANGED <<job, make>>,
             pc'[r] = next \/ pc'[r] = "failed", undo'[r] = {}
      PROVE  \/ Own(r)'
             \/ pc'[r] \in {"done", "failed"} /\ \A u \in Members : make'[r][u] = "no"
  BY <1>0, <1>1, <1>2 DEF Own, OwnData
<1>3. CASE ReadForData(r)
  <2>1. Read(r, group[g] # NoDoc, "canSetData") /\ UNCHANGED <<job, make>>
    BY <1>3 DEF ReadForData, ReadCopy
  <2>2. QED
    BY <1>0, <1>2, <2>1, PlainReadServed
<1>4. CASE CheckCanSetData(r)
  <2>1. UNCHANGED <<job, make>>
    BY <1>4 DEF CheckCanSetData, locals
  <2>2. PICK permitted \in BOOLEAN :
           Read(r, CanUpdate(job[r].by, g) /\ permitted, "setData")
    BY <1>4 DEF CheckCanSetData
  <2>3. QED
    BY <1>0, <1>2, <2>1, <2>2, PlainReadServed
<1>5. CASE Reread(r)
  <2>1. Read(r, group[g] # NoDoc, "done") /\ UNCHANGED <<job, make>>
    BY <1>5 DEF Reread, locals
  <2>2. QED
    BY <1>0, <1>2, <2>1, PlainReadServed
<1>6. CASE SetData(r)
  <2> DEFINE new == IF group[g] = NoDoc THEN group
                    ELSE [group EXCEPT ![g] = [@ EXCEPT !.data = job[r].doc.data]]
  <2>1. WriteGroup(r, TRUE, new, "reread", {})
    BY <1>6 DEF SetData
  <2>2. /\ UNCHANGED <<tuples, refs, job, make>>
        /\ \/ group' = new /\ Goes(r, "reread", {})
           \/ group' = group /\ Stops(r)
    <3> HIDE DEF new
    <3>1. QED
      BY <1>1, <2>1, WriteGroupEnds
  <2>3. (pc'[r] = "reread" \/ pc'[r] = "failed") /\ undo'[r] = {}
    BY <1>1, <2>2 DEF Goes, Stops
  <2>4. group \in [Groups -> Doc \cup {NoDoc}] /\ NamesApart(group) /\ job[r].doc \in Doc
    BY ServingFacts DEF Serving
  <2>5. group' = group \/ (group[g] # NoDoc /\ group' = [group EXCEPT ![g] = [@ EXCEPT !.data = job[r].doc.data]])
    BY <2>2
  <2>6. \/ group' = group
        \/ /\ group[g] # NoDoc /\ group'[g] # NoDoc
           /\ group'[g].owner = group[g].owner
           /\ group'[g].coOwners = group[g].coOwners
           /\ group'[g].name = group[g].name
           /\ \A h \in Groups \ {g} : group'[h] = group[h]
    <3>1. CASE group[g] # NoDoc /\ group' = [group EXCEPT ![g] = [@ EXCEPT !.data = job[r].doc.data]]
      <4> DEFINE d == [group[g] EXCEPT !.data = job[r].doc.data]
      <4>1. group[g] \in Doc /\ job[r].doc.data \in Data
        BY <1>1, <2>4, <3>1 DEF Doc
      <4>2. /\ d \in Doc /\ d.owner = group[g].owner /\ d.coOwners = group[g].coOwners
            /\ d.name = group[g].name
        BY <4>1 DEF Doc
      <4>3. d # NoDoc
        BY <4>2, NoDocAssumption
      <4>4. group'[g] = d /\ \A h \in Groups \ {g} : group'[h] = group[h]
        BY <1>1, <2>4, <3>1
      <4>5. QED
        BY <3>1, <4>2, <4>3, <4>4
    <3>2. QED
      BY <2>5, <3>1
  <2>7. NamesApart(group)'
    BY <2>4, <2>6 DEF NamesApart
  <2>8. Entered' = Entered
    BY <2>2 DEF Entered
  <2>9. \/ Own(r)'
        \/ pc'[r] \in {"done", "failed"} /\ \A u \in Members : make'[r][u] = "no"
    BY <1>2, <2>2, <2>3
  <2>10. \/ group'[g] = group[g]
         \/ /\ group[g] # NoDoc /\ group'[g] # NoDoc
            /\ group'[g].owner = group[g].owner
            /\ group'[g].coOwners = group[g].coOwners
    BY <2>6
  <2>11. QED
    BY <1>0, <2>2, <2>7, <2>8, <2>9, <2>10, PlainServed
<1>7. QED
  BY <1>3, <1>4, <1>5, <1>6 DEF EditData
LEMMA AddFacts ==
    ASSUME NEW r \in Reqs, Serving(r), job[r].op = "add"
    PROVE  /\ TypeOK /\ Own(r) /\ OwnAdd(r) /\ job[r].g \in Groups /\ undo[r] = {}
           /\ pc \in [Reqs -> {"new", "rollback"} \cup Calls \cup Final]
           /\ undo \in [Reqs -> SUBSET Undos]
           /\ refs \in [Members -> [Groups -> [full : Nat, bare : Nat]]]
           /\ make \in [Reqs -> [Members -> MakeSteps]]
           /\ NamesApart(group)
  BY PlainFacts DEF TypeOK, Serving

\* The reads before any user is created.
LEMMA AddReadsServed ==
    ASSUME OneRefusal, NEW r \in Reqs, Serving(r), UNCHANGED before,
           ReadForAdd(r) \/ CheckCanAdd(r) \/ FindUsers(r)
    PROVE  Served(r)
<1> DEFINE g == job[r].g
<1>0. job[r].op = "add" /\ pc[r] \in {"readForAdd", "canAdd", "findUsers"}
  BY ServingFacts, OpOfCall DEF ReadForAdd, CheckCanAdd, FindUsers, Serving, AddCalls
<1>1. /\ TypeOK /\ Own(r) /\ OwnAdd(r) /\ g \in Groups /\ undo[r] = {}
      /\ pc[r] # "readForAdd" => group[g] # NoDoc
      /\ \A u \in Members : make[r][u] = "no"
  BY <1>0, AddFacts DEF OwnAdd
<1>2. ASSUME NEW next \in {"canAdd", "findUsers"}, UNCHANGED <<job, make, group>>,
             (group[g] # NoDoc /\ pc'[r] = next) \/ pc'[r] = "failed", undo'[r] = {}
      PROVE  \/ Own(r)'
             \/ pc'[r] \in {"done", "failed"} /\ \A u \in Members : make'[r][u] = "no"
  <2>1. CASE pc'[r] = next
    <3>1. OwnAdd(r)'
      BY <1>1, <1>2, <2>1 DEF OwnAdd, AddCalls
    <3>2. QED
      BY <1>0, <1>1, <1>2, <2>1, <3>1 DEF Own
  <2>2. QED
    BY <1>1, <1>2, <2>1
<1>3. CASE ReadForAdd(r)
  <2>1. Read(r, group[g] # NoDoc, "canAdd") /\ UNCHANGED <<job, make>>
    BY <1>3 DEF ReadForAdd, ReadCopy
  <2>2. QED
    BY <1>0, <1>2, <2>1, PlainReadServed
<1>4. CASE CheckCanAdd(r)
  <2>1. UNCHANGED <<job, make>> /\ group[g] # NoDoc
    BY <1>1, <1>4 DEF CheckCanAdd, locals
  <2>2. PICK permitted \in BOOLEAN :
           Read(r, CanChangeUsers(job[r].by, g) /\ permitted, "findUsers")
    BY <1>4 DEF CheckCanAdd, MayChangeUsers
  <2>3. QED
    BY <1>0, <1>2, <2>1, <2>2, PlainReadServed
<1>5. CASE FindUsers(r)
  <2>1. /\ Read(r, TRUE, "makeUsers") /\ UNCHANGED job /\ group[g] # NoDoc
        /\ pc'[r] # "makeUsers" => make' = make
    BY <1>1, <1>5 DEF FindUsers
  <2>2. ASSUME pc'[r] = "makeUsers" \/ pc'[r] = "failed", undo'[r] = {}, group' = group
        PROVE  \/ Own(r)'
               \/ pc'[r] \in {"done", "failed"} /\ \A u \in Members : make'[r][u] = "no"
    <3>1. CASE pc'[r] = "makeUsers"
      <4>1. OwnAdd(r)'
        BY <1>1, <2>1, <2>2, <3>1 DEF OwnAdd, AddCalls
      <4>2. QED
        BY <1>0, <1>1, <2>1, <2>2, <3>1, <4>1 DEF Own
    <3>2. QED
      BY <1>1, <2>1, <2>2, <3>1
  <2>3. QED
    BY <1>0, <2>1, <2>2, PlainReadServed
<1>6. QED
  BY <1>3, <1>4, <1>5

\* What a createUser call changes.
LEMMA MakeChanges ==
    ASSUME TypeOK, NEW r \in Reqs, NEW u \in Members, Make(r, u), job[r].g \in Groups
    PROVE  /\ UNCHANGED <<group, tuples, used, pc, undo, job, old, seen>>
           /\ make[r][u] \notin {"no", "made", "threw"}
           /\ \A q \in Reqs \ {r} : make'[q] = make[q]
           /\ \/ refs' = refs
              \/ \A v \in Members, h \in Groups :
                    refs'[v][h] = IF v # u THEN refs[v][h]
                                  ELSE IF h = job[r].g THEN [full |-> 1, bare |-> 0]
                                  ELSE NoRefs
<1>1. make \in [Reqs -> [Members -> MakeSteps]]
      /\ refs \in [Members -> [Groups -> [full : Nat, bare : Nat]]]
  BY DEF TypeOK
<1>2. PICK from, to : from \in {"checkGroup", "findUser", "insert", "revive"} /\ Making(r, u, from, to)
  BY DEF Make, MakeCheckGroup, MakeFindUser, MakeInsert, MakeRevive, MakeWrite
<1>3. refs' = refs \/ Made(r, u)
  BY DEF Make, MakeCheckGroup, MakeFindUser, MakeInsert, MakeRevive, MakeWrite
<1>4. \/ refs' = refs
      \/ \A v \in Members, h \in Groups :
            refs'[v][h] = IF v # u THEN refs[v][h]
                          ELSE IF h = job[r].g THEN [full |-> 1, bare |-> 0]
                          ELSE NoRefs
  BY <1>1, <1>3 DEF Made
<1>5. QED
  BY <1>1, <1>2, <1>4 DEF Making

LEMMA MakeServed ==
    ASSUME OneRefusal, NEW r \in Reqs, Serving(r), UNCHANGED before,
           NEW u \in Members, Make(r, u)
    PROVE  Served(r)
<1> DEFINE g == job[r].g
<1>0. /\ TypeOK /\ g \in Groups /\ Own(r) /\ job[r].op \in Ops
  BY ServingFacts DEF Serving
<1>1. /\ UNCHANGED <<group, tuples, used, pc, undo, job, old, seen>>
      /\ make[r][u] \notin {"no", "made", "threw"}
      /\ \/ refs' = refs
         \/ \A v \in Members, h \in Groups :
               refs'[v][h] = IF v # u THEN refs[v][h]
                             ELSE IF h = g THEN [full |-> 1, bare |-> 0]
                             ELSE NoRefs
  BY <1>0, MakeChanges
<1>2. job[r].op = "add"
  BY <1>0, <1>1 DEF Own
<1>3. OwnAdd(r) /\ undo[r] = {}
  BY <1>2, AddFacts
<1>4. /\ pc[r] \notin {"readForAdd", "canAdd", "findUsers", "findLacking", "pushMembers"}
      /\ group[g] # NoDoc
  BY <1>1, <1>3 DEF OwnAdd
<1>5. OwnAdd(r)'
  BY <1>1, <1>3, <1>4 DEF OwnAdd
<1>6. Own(r)'
  BY <1>0, <1>1, <1>2, <1>4, <1>5 DEF Own, OwnAdd, AddCalls, Final
<1>7. ASSUME NEW v \in Members
      PROVE  Entered'[v][g] = Entered[v][g] \/ Entered'[v][g] = 1
  <2>1. Entered'[v][g] = refs'[v][g].full + refs'[v][g].bare
        /\ Entered[v][g] = refs[v][g].full + refs[v][g].bare
    BY <1>0 DEF Entered
  <2>2. refs'[v][g] = refs[v][g] \/ refs'[v][g] = [full |-> 1, bare |-> 0]
    BY <1>0, <1>1
  <2>3. QED
    BY <2>1, <2>2
<1>8. NamesApart(group)'
  BY <1>1 DEF Serving, NamesApart
<1>9. QED
  BY <1>1, <1>2, <1>4, <1>6, <1>7, <1>8, PlainServed

LEMMA JoinUsersServed ==
    ASSUME OneRefusal, NEW r \in Reqs, Serving(r), JoinUsers(r), UNCHANGED before
    PROVE  Served(r)
<1> DEFINE g == job[r].g
<1>0. job[r].op = "add" /\ pc[r] = "makeUsers"
  BY ServingFacts, OpOfCall DEF JoinUsers, Serving, AddCalls
<1>1. /\ TypeOK /\ Own(r) /\ OwnAdd(r) /\ undo[r] = {} /\ group[g] # NoDoc
      /\ pc \in [Reqs -> {"new", "rollback"} \cup Calls \cup Final]
      /\ undo \in [Reqs -> SUBSET Undos]
  BY <1>0, AddFacts DEF OwnAdd
<1>2. /\ UNCHANGED <<group, tuples, refs, job, make>>
      /\ undo'[r] = {}
      /\ \/ pc'[r] = "findLacking" /\ \A u \in Members : make[r][u] \in {"no", "made"}
         \/ pc'[r] = "failed"
  BY <1>1 DEF JoinUsers, stores, locals, Proceed, Throw
<1>3. OwnAdd(r)'
  BY <1>1, <1>2 DEF OwnAdd, AddCalls, Final
<1>4. Own(r)'
  BY <1>0, <1>1, <1>2, <1>3 DEF Own
<1>5. Entered' = Entered /\ NamesApart(group)'
  BY <1>2 DEF Entered, Serving, NamesApart
<1>6. QED
  BY <1>0, <1>2, <1>4, <1>5, PlainServed

LEMMA FindLackingServed ==
    ASSUME OneRefusal, NEW r \in Reqs, Serving(r), FindLacking(r), UNCHANGED before
    PROVE  Served(r)
<1> DEFINE g == job[r].g
<1>0. job[r].op = "add" /\ pc[r] = "findLacking"
  BY ServingFacts, OpOfCall DEF FindLacking, Serving, AddCalls
<1>1. /\ TypeOK /\ Own(r) /\ OwnAdd(r) /\ undo[r] = {} /\ group[g] # NoDoc
      /\ \A u \in Members : make[r][u] \in {"no", "made"}
  BY <1>0, AddFacts DEF OwnAdd
<1>2. /\ Read(r, TRUE, "pushMembers") /\ UNCHANGED <<job, make>>
      /\ seen'[r] = {u \in seen[r] : ~In(u, g)}
  BY <1>1 DEF FindLacking, See, TypeOK
<1>3. ASSUME pc'[r] = "pushMembers" \/ pc'[r] = "failed", undo'[r] = {},
             UNCHANGED <<group, refs>>
      PROVE  Own(r)'
  <2>1. OwnAdd(r)'
    BY <1>1, <1>2, <1>3 DEF OwnAdd, AddCalls, Final, In
  <2>2. QED
    BY <1>0, <1>1, <1>2, <1>3, <2>1 DEF Own
<1>4. QED
  BY <1>0, <1>2, <1>3, PlainReadServed

LEMMA PushMembersServed ==
    ASSUME OneRefusal, NEW r \in Reqs, Serving(r), PushMembers(r), UNCHANGED before
    PROVE  Served(r)
<1> DEFINE g == job[r].g
           S == seen[r]
<1>0. job[r].op = "add" /\ pc[r] = "pushMembers"
  BY ServingFacts, OpOfCall DEF PushMembers, Serving, AddCalls
<1>1. /\ TypeOK /\ Own(r) /\ OwnAdd(r) /\ undo[r] = {} /\ group[g] # NoDoc /\ g \in Groups
      /\ \A u \in Members : make[r][u] \in {"no", "made"}
      /\ \A u \in S : ~In(u, g)
      /\ pc \in [Reqs -> {"new", "rollback"} \cup Calls \cup Final]
      /\ undo \in [Reqs -> SUBSET Undos]
  BY <1>0, AddFacts DEF OwnAdd
<1>2. /\ UNCHANGED <<group, tuples, job, make>>
      /\ \/ refs' = Entries("full", g, S) /\ Goes(r, "done", {})
         \/ refs' = refs /\ Stops(r)
  BY <1>1, WriteRefsEnds DEF PushMembers
<1>3. pc'[r] \in {"done", "failed"} /\ undo'[r] = {}
  BY <1>1, <1>2 DEF Goes, Stops
<1>4. OwnAdd(r)'
  BY <1>1, <1>2, <1>3 DEF OwnAdd, Final
<1>5. Own(r)'
  BY <1>0, <1>1, <1>2, <1>3, <1>4 DEF Own
<1>6. ASSUME NEW u \in Members
      PROVE  Entered'[u][g] = Entered[u][g] \/ Entered'[u][g] = 1
  <2>1. CASE refs' = refs
    BY <2>1 DEF Entered
  <2>2. CASE refs' = Entries("full", g, S)
    <3>1. Entered'[u][g] = IF u \notin S THEN Entered[u][g] ELSE Entered[u][g] + 1
      <4> DEFINE how == "full"
      <4>1. refs' = Entries(how, g, S) /\ how \in {"full", "bare"}
        BY <2>2
      <4> HIDE DEF how
      <4>2. QED
        BY <1>1, <4>1, PushedEntries
    <3>2. Entered[u][g] \in Nat /\ (u \in S => ~(Entered[u][g] > 0))
      BY <1>1, EnteredFacts
    <3>3. QED
      BY <3>1, <3>2
  <2>3. QED
    BY <1>2, <2>1, <2>2
<1>7. NamesApart(group)'
  BY <1>2 DEF Serving, NamesApart
<1>8. QED
  BY <1>0, <1>1, <1>2, <1>5, <1>6, <1>7, PlainServed

LEMMA AddServed ==
    ASSUME OneRefusal, NEW r \in Reqs, Serving(r), Add(r), UNCHANGED before
    PROVE  Served(r)
  BY AddReadsServed, MakeServed, JoinUsersServed, FindLackingServed, PushMembersServed DEF Add

\* Every step of a request in flight.
LEMMA ServeServed ==
    ASSUME OneRefusal, NEW r \in Reqs, Serving(r), Serve(r), ~Accept(r), UNCHANGED before
    PROVE  Served(r)
<1>1. CASE Create(r)
  BY <1>1, CreateServed, WriteOwnerServed DEF Create
<1>2. CASE Edit(r)
  BY <1>2, CheckUpdateServed, ReadGroupServed, SetDetailsServed, MoveOwnerServed,
     MoveCoOwnersServed DEF Edit
<1>3. CASE Delete(r)
  BY <1>3, ReadsDeleteServed, PullMembersServed, DeleteGroupServed, DeleteTuplesServed
     DEF Delete
<1>4. CASE Add(r) \/ Remove(r) \/ EditData(r)
  BY <1>4, AddServed, RemoveServed, EditDataServed
<1>5. CASE Rollback(r)
  BY <1>5, UndoCreateServed, UndoDetailsServed, UndoDeleteServed, UndoOwnerServed,
     UndoPullServed DEF Rollback
<1>6. QED
  BY <1>1, <1>2, <1>3, <1>4, <1>5 DEF Serve
-----------------------------------------------------------------------------
(* What a step leaves alone: the other groups, and the other requests.       *)

\* The ways a step changes the entries of users.
LEMMA ServeRefs ==
    ASSUME NEW r \in Reqs, Serve(r)
    PROVE  \/ refs' = refs
           \/ \E S : refs' = Entries("pull", job[r].g, S) \/ refs' = Entries("full", job[r].g, S)
           \/ UndoPull(r) /\ refs' = Entries("bare", job[r].g, seen[r])
           \/ \E u \in Members : Make(r, u)
<1>1. CASE Accept(r) \/ Create(r) \/ Edit(r)
  BY <1>1 DEF Accept, Create, Edit, CreateGroup, WriteOwner, CheckCanUpdate, ReadGroup, SetDetails,
     MoveOwner, MoveCoOwners, ReadCopy, Read, WriteGroup, WriteTuples, stores
<1>2. CASE Delete(r)
  <2>1. CASE PullMembers(r)
    BY <2>1 DEF PullMembers, WriteRefs
  <2>2. CASE ~PullMembers(r)
    BY <1>2, <2>2 DEF Delete, CheckCanDelete, ReadDoomed, FindMembers, DeleteGroup, DeleteTuples,
       ReadCopy, Read, WriteGroup, WriteTuples, stores
  <2>3. QED
    BY <2>1, <2>2
<1>3. CASE Add(r)
  <2>1. CASE PushMembers(r)
    BY <2>1 DEF PushMembers, WriteRefs
  <2>2. CASE ~PushMembers(r)
    BY <1>3, <2>2 DEF Add, ReadForAdd, CheckCanAdd, FindUsers, JoinUsers, FindLacking,
       MayChangeUsers, ReadCopy, Read, stores
  <2>3. QED
    BY <2>1, <2>2
<1>4. CASE Remove(r)
  BY <1>4 DEF Remove, ReadForRemove, CheckCanRemove, PullMember, MayChangeUsers, ReadCopy,
     Read, WriteRefs, stores
<1>5. CASE EditData(r)
  BY <1>5 DEF EditData, ReadForData, CheckCanSetData, SetData, Reread, ReadCopy, Read,
     WriteGroup, stores
<1>6. CASE Rollback(r)
  BY <1>6 DEF Rollback, UndoCreate, UndoDetails, UndoDelete, UndoOwner, UndoPull, UndoGroup
<1>7. QED
  BY <1>1, <1>2, <1>3, <1>4, <1>5, <1>6 DEF Serve

LEMMA EntriesElsewhere ==
    ASSUME TypeOK, NEW g \in Groups, NEW how, NEW S, refs' = Entries(how, g, S),
           NEW u \in Members, NEW h \in Groups \ {g}
    PROVE  refs'[u][h] = refs[u][h]
<1>1. refs[u] \in [Groups -> [full : Nat, bare : Nat]]
  BY DEF TypeOK
<1>2. QED
  BY <1>1 DEF Entries

\* The entries of another group stay, or go with the $set of createUser.
LEMMA RefsElsewhere ==
    ASSUME TypeOK, NEW r \in Reqs, Serve(r), NEW u \in Members, NEW h \in Groups, h # job[r].g
    PROVE  refs'[u][h] \in {refs[u][h], NoRefs}
<1>0. job[r].g \in Groups
  BY JobType
<1>1. CASE \E v \in Members : Make(r, v)
  BY <1>0, <1>1, MakeChanges
<1>2. CASE ~ \E v \in Members : Make(r, v)
  <2>1. \/ refs' = refs
        \/ \E how : \E S : refs' = Entries(how, job[r].g, S)
    BY <1>2, ServeRefs
  <2>2. QED
    BY <1>0, <2>1, EntriesElsewhere
<1>3. QED
  BY <1>1, <1>2

\* Only the rollback of a delete pushes an entry without its giver.
LEMMA BareServe ==
    ASSUME TypeOK, NEW r \in Reqs, Serve(r), NEW u \in Members, NEW h \in Groups,
           refs'[u][h].bare > 0
    PROVE  refs[u][h].bare > 0 \/ (h = job[r].g /\ UndoPull(r))
<1>0. job[r].g \in Groups /\ refs \in [Members -> [Groups -> [full : Nat, bare : Nat]]]
  BY JobType DEF TypeOK
<1>1. CASE refs' = refs
  BY <1>1
<1>2. ASSUME NEW S, NEW how \in {"full", "bare", "pull"}, refs' = Entries(how, job[r].g, S),
             how # "bare"
      PROVE  refs[u][h].bare > 0
  <2>1. refs'[u][h].bare = IF h # job[r].g \/ u \notin S THEN refs[u][h].bare
                           ELSE IF how = "pull" THEN 0
                           ELSE IF how = "bare" THEN refs[u][h].bare + 1
                           ELSE refs[u][h].bare
    BY <1>0, <1>2, NewEntries
  <2>2. QED
    BY <1>2, <2>1
<1>3. ASSUME NEW S, refs' = Entries("pull", job[r].g, S) \/ refs' = Entries("full", job[r].g, S)
      PROVE  refs[u][h].bare > 0
  <2>1. PICK how \in {"full", "pull"} : refs' = Entries(how, job[r].g, S)
    BY <1>3
  <2>2. QED
    BY <1>2, <2>1
<1>4. CASE UndoPull(r) /\ refs' = Entries("bare", job[r].g, seen[r])
  BY <1>0, <1>4, EntriesElsewhere
<1>5. CASE \E v \in Members : Make(r, v)
  <2>1. PICK v \in Members : Make(r, v)
    BY <1>5
  <2>2. refs' = refs \/ refs'[u][h] \in {refs[u][h], [full |-> 1, bare |-> 0], NoRefs}
    BY <1>0, <2>1, MakeChanges
  <2>3. QED
    BY <1>1, <2>2 DEF NoRefs
<1>6. QED
  BY <1>1, <1>3, <1>4, <1>5, ServeRefs

\* A request writes the document and the tuples of its own group only.
LEMMA GroupElsewhere ==
    ASSUME TypeOK, NEW r \in Reqs, Serve(r), NEW h \in Groups, h # job[r].g
    PROVE  group'[h] = group[h]
<1>0. group \in [Groups -> Doc \cup {NoDoc}]
  BY DEF TypeOK
<1>1. CASE Accept(r) \/ Create(r) \/ Edit(r)
  BY <1>0, <1>1 DEF Accept, Create, Edit, CreateGroup, WriteOwner, CheckCanUpdate, ReadGroup,
     SetDetails, WithDetails, MoveOwner, MoveCoOwners, ReadCopy, Read, WriteGroup, WriteTuples, stores
<1>2. CASE Delete(r)
  BY <1>0, <1>2 DEF Delete, CheckCanDelete, ReadDoomed, FindMembers, PullMembers, DeleteGroup,
     DeleteTuples, ReadCopy, Read, WriteGroup, WriteTuples, WriteRefs, stores
<1>3. CASE Add(r)
  <2>1. CASE \E u \in Members : Make(r, u)
    BY <2>1 DEF Make, MakeCheckGroup, MakeFindUser, MakeInsert, MakeRevive, MakeWrite, Making
  <2>2. CASE ~ \E u \in Members : Make(r, u)
    BY <1>3, <2>2 DEF Add, ReadForAdd, CheckCanAdd, FindUsers, JoinUsers, FindLacking, PushMembers,
       MayChangeUsers, ReadCopy, Read, WriteRefs, stores
  <2>3. QED
    BY <2>1, <2>2
<1>4. CASE Remove(r)
  BY <1>4 DEF Remove, ReadForRemove, CheckCanRemove, PullMember, MayChangeUsers, ReadCopy,
     Read, WriteRefs, stores
<1>5. CASE EditData(r)
  BY <1>0, <1>5 DEF EditData, ReadForData, CheckCanSetData, SetData, Reread, ReadCopy, Read,
     WriteGroup, stores
<1>6. CASE Rollback(r)
  BY <1>0, <1>6 DEF Rollback, UndoCreate, UndoDetails, UndoDelete, UndoOwner, UndoPull, UndoGroup,
     WithDetails
<1>7. QED
  BY <1>1, <1>2, <1>3, <1>4, <1>5, <1>6 DEF Serve

LEMMA TuplesElsewhere ==
    ASSUME TypeOK, NEW r \in Reqs, Serve(r), NEW h \in Groups, h # job[r].g, NEW u
    PROVE  /\ OwnerTuple(u, h) \in tuples' <=> OwnerTuple(u, h) \in tuples
           /\ <<u, "co_owner", h>> \in tuples' <=> <<u, "co_owner", h>> \in tuples
<1> DEFINE g == job[r].g
           Same == /\ OwnerTuple(u, h) \in tuples' <=> OwnerTuple(u, h) \in tuples
                   /\ <<u, "co_owner", h>> \in tuples' <=> <<u, "co_owner", h>> \in tuples
<1>0. \A v, S : /\ OwnerTuple(u, h) # OwnerTuple(v, g) /\ <<u, "co_owner", h>> # OwnerTuple(v, g)
                /\ OwnerTuple(u, h) # PlatformTuple(g) /\ <<u, "co_owner", h>> # PlatformTuple(g)
                /\ OwnerTuple(u, h) \notin CoOwnerTuples(S, g)
                /\ <<u, "co_owner", h>> \notin CoOwnerTuples(S, g)
  BY DEF OwnerTuple, PlatformTuple, CoOwnerTuples
<1>1. CASE tuples' = tuples
  BY <1>1
<1>2. CASE WriteOwner(r)
  <2>1. tuples' = tuples
        \/ tuples' = (tuples \ {}) \cup {OwnerTuple(job[r].by, g), PlatformTuple(g)}
    BY <1>2, WriteTuplesStep DEF WriteOwner
  <2>2. QED
    BY <1>0, <2>1
<1>3. CASE MoveOwner(r)
  <2>1. tuples' = tuples
        \/ tuples' = (tuples \ {OwnerTuple(old[r].owner, g)}) \cup {OwnerTuple(job[r].doc.owner, g)}
    BY <1>3, WriteTuplesStep DEF MoveOwner
  <2>2. QED
    BY <1>0, <2>1
<1>4. CASE MoveCoOwners(r)
  <2>1. tuples' = tuples
        \/ tuples' = (tuples \ CoOwnerTuples(CoOwnersRemoved(r), g))
                        \cup CoOwnerTuples(CoOwnersAdded(r), g)
    BY <1>4, WriteTuplesStep DEF MoveCoOwners
  <2>2. QED
    BY <1>0, <2>1
<1>5. CASE DeleteTuples(r)
  <2>1. tuples' = tuples
        \/ tuples' = (tuples \ ({OwnerTuple(old[r].owner, g)} \cup CoOwnerTuples(old[r].coOwners, g)))
                        \cup {}
    BY <1>5, WriteTuplesStep DEF DeleteTuples
  <2>2. QED
    BY <1>0, <2>1
<1>6. CASE UndoOwner(r)
  <2>1. tuples' = tuples
        \/ tuples' = (tuples \ {OwnerTuple(job[r].doc.owner, g)}) \cup {OwnerTuple(old[r].owner, g)}
    BY <1>6 DEF UndoOwner
  <2>2. QED
    BY <1>0, <2>1
<1>7. CASE Accept(r) \/ CreateGroup(r) \/ CheckCanUpdate(r) \/ ReadGroup(r) \/ SetDetails(r)
  BY <1>1, <1>7 DEF Accept, CreateGroup, CheckCanUpdate, ReadGroup, SetDetails, ReadCopy, Read,
     WriteGroup, stores
<1>8. CASE \/ CheckCanDelete(r) \/ ReadDoomed(r) \/ FindMembers(r)
           \/ PullMembers(r) \/ DeleteGroup(r)
  BY <1>1, <1>8 DEF CheckCanDelete, ReadDoomed, FindMembers, PullMembers, DeleteGroup, ReadCopy,
     Read, WriteRefs, WriteGroup, stores
<1>9. CASE Add(r)
  <2>1. CASE \E v \in Members : Make(r, v)
    BY <1>1, <2>1 DEF Make, MakeCheckGroup, MakeFindUser, MakeInsert, MakeRevive, MakeWrite, Making
  <2>2. CASE ~ \E v \in Members : Make(r, v)
    BY <1>1, <1>9, <2>2 DEF Add, ReadForAdd, CheckCanAdd, FindUsers, JoinUsers, FindLacking,
       PushMembers, MayChangeUsers, ReadCopy, Read, WriteRefs, stores
  <2>3. QED
    BY <2>1, <2>2
<1>10. CASE Remove(r) \/ EditData(r)
  BY <1>1, <1>10 DEF Remove, EditData, ReadForRemove, CheckCanRemove, PullMember, ReadForData,
     CheckCanSetData, SetData, Reread, MayChangeUsers, ReadCopy, Read, WriteRefs, WriteGroup, stores
<1>11. CASE UndoCreate(r) \/ UndoDetails(r) \/ UndoDelete(r) \/ UndoPull(r)
  BY <1>1, <1>11 DEF UndoCreate, UndoDetails, UndoDelete, UndoPull, UndoGroup
<1>12. QED
  BY <1>2, <1>3, <1>4, <1>5, <1>6, <1>7, <1>8, <1>9, <1>10, <1>11
     DEF Serve, Create, Edit, Delete, Rollback

\* Groups that agreed and are not the request's own still do.
LEMMA AgreedElsewhere ==
    ASSUME TypeOK, TypeOK', NEW r \in Reqs, Serve(r), NEW h \in Groups, h # job[r].g, Agreed(h)
    PROVE  Agreed(h)'
<1>1. group'[h] = group[h]
  BY GroupElsewhere
<1>2. Mirrored(tuples', h, group'[h])
  BY <1>1, TuplesElsewhere DEF Agreed, Agree, Mirrored
<1>3. ASSUME NEW u \in Members
      PROVE  Entered'[u][h] <= 1 /\ (Entered'[u][h] > 0 => group'[h] # NoDoc)
  <2>1. Entered'[u][h] = refs'[u][h].full + refs'[u][h].bare
        /\ Entered[u][h] = refs[u][h].full + refs[u][h].bare
    BY DEF Entered
  <2>2. refs'[u][h] = refs[u][h] \/ refs'[u][h] = [full |-> 0, bare |-> 0]
    BY RefsElsewhere DEF NoRefs
  <2>3. Entered'[u][h] = Entered[u][h] \/ Entered'[u][h] = 0
    BY <2>1, <2>2
  <2>4. QED
    BY <1>1, <2>3 DEF Agreed, Agree
<1>4. QED
  BY <1>2, <1>3 DEF Agreed, Agree

\* The createUser calls of the other requests go on as they were.
LEMMA MakesElsewhere ==
    ASSUME TypeOK, NEW r \in Reqs, Serve(r), NEW q \in Reqs \ {r}
    PROVE  make'[q] = make[q]
<1>0. job[r].g \in Groups
  BY JobType
<1>1. CASE \E u \in Members : Make(r, u)
  BY <1>0, <1>1, MakeChanges
<1>2. CASE FindUsers(r)
  BY <1>2 DEF FindUsers, TypeOK
<1>3. CASE Add(r) /\ ~FindUsers(r) /\ ~ \E u \in Members : Make(r, u)
  BY <1>3 DEF Add, ReadForAdd, CheckCanAdd, JoinUsers, FindLacking, PushMembers, MayChangeUsers,
     ReadCopy, See, WriteRefs, locals
<1>4. CASE ~Add(r)
  BY <1>4 DEF Serve, Accept, Create, Edit, Delete, Remove, EditData, Rollback,
     CreateGroup, WriteOwner, CheckCanUpdate, ReadGroup, SetDetails, MoveOwner,
     MoveCoOwners, CheckCanDelete, ReadDoomed, FindMembers, PullMembers, DeleteGroup,
     DeleteTuples, ReadForRemove, CheckCanRemove, PullMember, ReadForData,
     CheckCanSetData, SetData, Reread, MayChangeUsers, ReadCopy, See, WriteGroup,
     WriteTuples, WriteRefs, locals,
     UndoCreate, UndoDetails, UndoDelete, UndoOwner, UndoPull, UndoGroup, Undoing
<1>5. QED
  BY <1>1, <1>2, <1>3, <1>4
-----------------------------------------------------------------------------
(* The inductive invariant.                                                  *)

LEMMA ServedInFlight ==
    ASSUME NEW r \in Reqs, Serve(r), ~Accept(r)
    PROVE  r \in InFlight
<1>1. CASE \E u \in Members : Make(r, u)
  BY <1>1 DEF Make, MakeCheckGroup, MakeFindUser, MakeInsert, MakeRevive, MakeWrite, Making,
     InFlight, Working
<1>2. CASE ~ \E u \in Members : Make(r, u)
  BY <1>2 DEF Serve, Create, Edit, Delete, Add, Remove, EditData, Rollback,
     CreateGroup, WriteOwner, CheckCanUpdate, ReadGroup, SetDetails, MoveOwner, MoveCoOwners,
     CheckCanDelete, ReadDoomed, FindMembers, PullMembers, DeleteGroup, DeleteTuples,
     ReadForAdd, CheckCanAdd, FindUsers, JoinUsers, FindLacking, PushMembers,
     ReadForRemove, CheckCanRemove, PullMember, ReadForData, CheckCanSetData, SetData, Reread,
     UndoCreate, UndoDetails, UndoDelete, UndoOwner, UndoPull, UndoGroup, Undoing,
     InFlight, Final
<1>3. QED
  BY <1>1, <1>2

LEMMA SerialServe ==
    ASSUME OneRefusal, OwnedInv, Whole, TypeOK', SerialParts, OneAtATime',
           NEW r \in Reqs, Serve(r), ~Accept(r),
           before' = IF \E q \in Reqs : Taken(q) THEN Snapshot({q \in Reqs : Taken(q)}) ELSE before
    PROVE  SerialParts'
<1>0. TypeOK /\ StepsOfDelete
  BY DEF OwnedInv, DeletionInv, OwnerInv, GroupInv
<1>1. r \in InFlight /\ \A q \in InFlight : q = r
  BY ServedInFlight DEF SerialParts, OneAtATime
<1>2. job' = job /\ \A q \in Reqs \ {r} : pc'[q] = pc[q] /\ undo'[q] = undo[q] /\ make'[q] = make[q]
  <2>1. \A q \in Reqs \ {r} : pc'[q] = pc[q] /\ undo'[q] = undo[q]
    BY <1>0, OtherRequests
  <2>2. QED
    BY <1>0, <2>1, ServeJob, MakesElsewhere
<1>3. pc[r] # "new"
  BY <1>1 DEF SerialParts, Untouched, InFlight, Working
<1>4. before' = before
  <2>1. \A q \in Reqs : ~Taken(q)
    BY <1>2, <1>3 DEF Taken
  <2>2. QED
    BY <2>1
<1>5. Own(r) /\ Serving(r)
  <2>1. Own(r)
    BY <1>1 DEF SerialParts
  <2>2. job[r].g \in Groups
    BY <1>0, JobType
  <2>3. pc[r] \notin Midway => Agreed(job[r].g)
    BY <1>1, <2>2 DEF SerialParts, Settled
  <2>4. QED
    BY <2>1, <2>3 DEF SerialParts, Serving
<1>6. Served(r)
  BY <1>4, <1>5, ServeServed
<1>7. job[r].op \in Ops /\ job[r].g \in Groups /\ before.by = {r}
  BY <1>0, <1>5, JobType DEF Own
<1>8. ASSUME NEW q \in InFlight' PROVE q = r
  <2>1. q \in Reqs \ {r} => q \in InFlight
    BY <1>2, <1>8 DEF InFlight, Working
  <2>2. QED
    BY <1>1, <2>1 DEF InFlight
<1>9. ASSUME r \in InFlight' PROVE Own(r)'
  BY <1>6, <1>9 DEF Served, InFlight, Working, Final
<1>10. pc'[r] # "new"
  <2>1. Own(r)' => pc'[r] # "new"
    BY <1>2, <1>7 DEF Own, OwnCreate, OwnEdit, OwnDelete, OwnAdd, OwnRemove, OwnData, Ops,
       AddCalls, Final
  <2>2. QED
    BY <1>6, <2>1 DEF Served
<1>11. ASSUME NEW q \in Reqs, pc'[q] = "new" PROVE Untouched(q)'
  BY <1>2, <1>10, <1>11 DEF SerialParts, Untouched
<1>12. ASSUME NEW q \in Reqs PROVE Outcome(q)'
  BY <1>4, <1>6, <1>7 DEF Served, Outcome
<1>13. Settled'
  <2> SUFFICES ASSUME NEW g \in Groups,
                      \A q \in InFlight' : pc'[q] \in Midway => job'[q].g # g
               PROVE  Agreed(g)'
    BY DEF Settled
  <2>1. CASE g = job[r].g
    <3>1. pc'[r] \in Midway => r \in InFlight'
      BY DEF Midway, InFlight, Final
    <3>2. pc'[r] \notin Midway
      BY <1>2, <2>1, <3>1
    <3>3. Agreed(job[r].g)'
      BY <1>6, <3>2 DEF Served
    <3>4. QED
      BY <1>2, <2>1, <3>3 DEF Agreed
  <2>2. CASE g # job[r].g
    <3>1. Agreed(g)
      BY <1>1, <2>2 DEF SerialParts, Settled
    <3>2. QED
      BY <1>0, <2>2, <3>1, AgreedElsewhere
  <2>3. QED
    BY <2>1, <2>2
<1>14. BareExplained'
  <2> SUFFICES ASSUME NEW u \in Members, NEW g \in Groups, refs'[u][g].bare > 0
               PROVE  Returned(g)'
    BY DEF BareExplained
  <2>1. ASSUME pc[r] = "rollback", job[r].op = "delete", job[r].g = g
        PROVE  Returned(g)'
    <3>1. pc'[r] \in {"rollback", "failed", "crashed"}
      BY <1>0, <2>1, LateServe
    <3>2. Own(r)' => pc'[r] # "crashed"
      BY <1>2, <2>1 DEF Own, OwnDelete
    <3>3. pc'[r] \in {"rollback", "failed"}
      BY <1>6, <3>1, <3>2 DEF Served
    <3>4. QED
      BY <1>2, <2>1, <3>3 DEF Returned
  <2>2. CASE refs[u][g].bare > 0
    <3>1. PICK q \in Reqs : pc[q] \in {"rollback", "failed"} /\ job[q].op = "delete" /\ job[q].g = g
      BY <2>2 DEF SerialParts, BareExplained, Returned
    <3>2. CASE q = r
      <4>1. pc[r] = "rollback"
        BY <1>5, <3>1, <3>2 DEF Own, OwnDelete
      <4>2. QED
        BY <2>1, <3>1, <3>2, <4>1
    <3>3. CASE q # r
      BY <1>2, <3>1, <3>3 DEF Returned
    <3>4. QED
      BY <3>2, <3>3
  <2>3. CASE g = job[r].g /\ UndoPull(r)
    <3>1. pc[r] = "rollback" /\ "users" \in undo[r]
      BY <2>3 DEF UndoPull, Undoing
    <3>2. job[r].op = "delete"
      BY <1>5, <1>7, <3>1, OpOfCall
    <3>3. QED
      BY <2>1, <2>3, <3>1, <3>2
  <2>4. QED
    BY <1>0, <2>2, <2>3, BareServe
<1>15. NamesApart(group)' /\ Sound(before)'
  BY <1>4, <1>6 DEF Served, SerialParts, Sound
<1>16. \A q \in InFlight' : Own(q)'
  BY <1>8, <1>9
<1>17. QED
  BY <1>11, <1>12, <1>13, <1>14, <1>15, <1>16 DEF SerialParts

\* A request is taken up when nothing is in flight, so the stores agree.
LEMMA SerialAccept ==
    ASSUME OwnedInv, SerialParts, OneAtATime', NEW r \in Reqs, Accept(r),
           before' = IF \E q \in Reqs : Taken(q) THEN Snapshot({q \in Reqs : Taken(q)}) ELSE before
    PROVE  SerialParts'
<1>0. /\ TypeOK /\ KnownUsed /\ Serve(r)
      /\ pc \in [Reqs -> {"new", "rollback"} \cup Calls \cup Final]
      /\ undo \in [Reqs -> SUBSET Undos]
      /\ job[r].op \in Ops /\ job[r].g \in Groups
  BY JobType DEF OwnedInv, DeletionInv, OwnerInv, GroupInv, TypeOK, Serve
<1>1. /\ UNCHANGED <<group, tuples, refs, job, old, seen, make, faults>>
      /\ pc[r] = "new" /\ pc'[r] = First[job[r].op] /\ undo'[r] = undo[r]
      /\ \A q \in Reqs \ {r} : pc'[q] = pc[q] /\ undo'[q] = undo[q]
      /\ job[r].op = "create" => group[job[r].g] = NoDoc
  BY <1>0 DEF Accept, Proceed, locals, KnownUsed
<1>2. undo[r] = {} /\ \A u \in Members : make[r][u] = "no"
  BY <1>1 DEF SerialParts, Untouched
<1>3. pc'[r] \in {"create", "canUpdate", "canDelete", "readForAdd", "readForRemove", "readForData"}
  BY <1>0, <1>1 DEF First, Ops
<1>4. r \in InFlight' /\ \A q \in InFlight' : q = r
  BY <1>3 DEF OneAtATime, InFlight, Final
<1>5. InFlight = {}
  <2>1. r \notin InFlight
    BY <1>1, <1>2 DEF InFlight, Working
  <2>2. \A q \in Reqs \ {r} : q \in InFlight => q \in InFlight'
    BY <1>1 DEF InFlight, Working
  <2>3. QED
    BY <1>4, <2>1, <2>2 DEF InFlight
<1>6. before' = Snapshot({r})
  <2>1. {q \in Reqs : Taken(q)} = {r} /\ Taken(r)
    BY <1>1, <1>3 DEF Taken
  <2>2. QED
    BY <2>1
<1>7. /\ before'.by = {r} /\ before'.group = group /\ before'.tuples = tuples
      /\ before'.entered = Entered /\ Entered' = Entered
  BY <1>1, <1>6 DEF Snapshot, Entered
<1>8. \A g \in Groups : Agreed(g)
  BY <1>5 DEF SerialParts, Settled
<1>9. Sound(before)'
  <2>1. /\ Entered \in [Members -> [Groups -> Nat]] /\ tuples \subseteq Tuple
        /\ group \in [Groups -> Doc \cup {NoDoc}]
    BY <1>0, EnteredFacts DEF TypeOK
  <2>2. Snapshot({r}) \in [by : SUBSET Reqs, group : [Groups -> Doc \cup {NoDoc}],
                           tuples : SUBSET Tuple, entered : [Members -> [Groups -> Nat]]]
    BY <2>1 DEF Snapshot
  <2>3. \A g \in Groups : Agree(before'.group, before'.tuples, before'.entered, g)
    BY <1>7, <1>8 DEF Agreed
  <2>4. NamesApart(before'.group)
    BY <1>7 DEF SerialParts
  <2>5. QED
    BY <1>6, <2>2, <2>3, <2>4 DEF Sound
<1>10. Own(r)'
  <2>1. OwnCreate(r)' \/ job[r].op # "create"
    BY <1>0, <1>1, <1>2, <1>7 DEF OwnCreate, First
  <2>2. OwnEdit(r)' \/ job[r].op # "edit"
    BY <1>0, <1>1, <1>2, <1>7 DEF OwnEdit, First
  <2>3. OwnDelete(r)' \/ job[r].op # "delete"
    <3>1. CASE job[r].op = "delete"
      <4>1. pc'[r] = "canDelete" /\ undo'[r] = {}
        BY <1>1, <1>2, <3>1 DEF First
      <4>2. QED
        BY <1>1, <1>7, <4>1 DEF OwnDelete
    <3>2. QED
      BY <3>1
  <2>4. OwnAdd(r)' \/ job[r].op # "add"
    BY <1>0, <1>1, <1>2, <1>7 DEF OwnAdd, First, AddCalls
  <2>5. OwnRemove(r)' \/ job[r].op # "remove"
    BY <1>0, <1>1, <1>2, <1>7 DEF OwnRemove, First
  <2>6. OwnData(r)' \/ job[r].op # "data"
    BY <1>0, <1>1, <1>2, <1>7 DEF OwnData, First
  <2>7. QED
    BY <1>1, <1>2, <1>3, <1>7, <2>1, <2>2, <2>3, <2>4, <2>5, <2>6 DEF Own
<1>11. Settled'
  BY <1>1, <1>7, <1>8 DEF Settled, Agreed
<1>12. \A q \in Reqs : (pc'[q] = "new" => Untouched(q)') /\ Outcome(q)'
  BY <1>1, <1>3, <1>7 DEF SerialParts, Untouched, Outcome
<1>13. BareExplained'
  BY <1>1 DEF SerialParts, BareExplained, Returned
<1>14. NamesApart(group)'
  BY <1>1 DEF SerialParts, NamesApart
<1>15. QED
  BY <1>4, <1>9, <1>10, <1>11, <1>12, <1>13, <1>14 DEF SerialParts

\* A user is deleted, or nothing happens: nothing that the invariant speaks of changes.
LEMMA SerialWorld ==
    ASSUME SerialParts, UNCHANGED vars \/ Idle \/ \E u \in Members : DeleteUser(u),
           UNCHANGED before
    PROVE  SerialParts'
<1>1. UNCHANGED <<group, tuples, refs, pc, job, old, seen, make, undo, faults, before>>
  BY DEF vars, stores, locals, Idle, DeleteUser
<1>2. Entered' = Entered /\ InFlight' = InFlight
  BY <1>1 DEF Entered, InFlight, Working
<1>3. (\A r \in InFlight : Own(r)) => (\A r \in InFlight' : Own(r)')
  BY <1>1, <1>2 DEF Own, OwnCreate, OwnEdit, OwnDelete, OwnAdd, OwnRemove, OwnData, Edited,
     NewOwner, In
<1>4. QED
  BY <1>1, <1>2, <1>3 DEF SerialParts, OneAtATime, NamesApart, Settled, Agreed, Untouched,
     Outcome, Back, Undoable, BareExplained, Returned
\* A database as Init describes it agrees with itself.
LEMMA InitAgrees ==
    ASSUME Init, NEW g \in Groups
    PROVE  Agreed(g)
<1>1. PICK past \in SUBSET used :
        tuples = (UNION {Mirror(group[h], h) : h \in {h \in Groups : group[h] # NoDoc}})
                    \cup {PlatformTuple(h) : h \in past}
  BY DEF Init
<1>2. /\ group \in [Groups -> Doc \cup {NoDoc}]
      /\ refs \in [Members -> [Groups -> {NoRefs, [full |-> 1, bare |-> 0]}]]
      /\ \A u \in Members : In(u, g) => group[g] # NoDoc
  BY DEF Init
<1>3. ASSUME NEW u \in Actors
      PROVE  /\ OwnerTuple(u, g) \in tuples <=> group[g] # NoDoc /\ group[g].owner = u
             /\ <<u, "co_owner", g>> \in tuples <=> group[g] # NoDoc /\ u \in group[g].coOwners
  <2>1. \A d, h : /\ OwnerTuple(u, g) \in Mirror(d, h) <=> h = g /\ d.owner = u
                  /\ <<u, "co_owner", g>> \in Mirror(d, h) <=> h = g /\ u \in d.coOwners
    BY DEF Mirror, OwnerTuple, PlatformTuple, CoOwnerTuples
  <2>2. \A h : OwnerTuple(u, g) # PlatformTuple(h) /\ <<u, "co_owner", g>> # PlatformTuple(h)
    BY DEF OwnerTuple, PlatformTuple
  <2>3. \A t : (\A h : t # PlatformTuple(h)) =>
               (t \in tuples <=> \E h \in Groups : group[h] # NoDoc /\ t \in Mirror(group[h], h))
    BY <1>1
  <2>4. QED
    BY <2>1, <2>2, <2>3
<1>4. ASSUME NEW u \in Members
      PROVE  Entered[u][g] <= 1 /\ (Entered[u][g] > 0 => group[g] # NoDoc)
  <2>1. Entered[u][g] = refs[u][g].full + refs[u][g].bare
    BY DEF Entered
  <2>2. CASE refs[u][g] = NoRefs
    BY <2>1, <2>2 DEF NoRefs
  <2>3. CASE refs[u][g] = [full |-> 1, bare |-> 0]
    <3>1. In(u, g)
      BY <2>3 DEF In, NoRefs
    <3>2. Entered[u][g] = 1
      BY <2>1, <2>3
    <3>3. QED
      BY <1>2, <3>1, <3>2
  <2>4. QED
    BY <1>2, <2>2, <2>3
<1>5. QED
  BY <1>3, <1>4 DEF Agreed, Agree, Mirrored

LEMMA SerialStarts == SerialInit => SerialInv
<1> SUFFICES ASSUME SerialInit
             PROVE  SerialParts
  BY DEF SerialInv
<1>1. Init /\ before = Snapshot({})
  BY DEF SerialInit
<1>2. TypeOK /\ \A g \in Groups : Agreed(g)
  BY <1>1, InitType, InitAgrees
<1>3. InFlight = {} /\ \A r \in Reqs : pc[r] = "new" /\ Untouched(r)
  BY <1>1 DEF Init, InFlight, Working, Untouched
<1>4. NamesApart(group)
  BY <1>1 DEF Init, NameFree, NamesApart
<1>5. Sound(before)
  <2>1. /\ Entered \in [Members -> [Groups -> Nat]] /\ tuples \subseteq Tuple
        /\ group \in [Groups -> Doc \cup {NoDoc}]
    BY <1>2, EnteredFacts DEF TypeOK
  <2>2. /\ before.group = group /\ before.tuples = tuples /\ before.entered = Entered
        /\ before \in [by : SUBSET Reqs, group : [Groups -> Doc \cup {NoDoc}],
                       tuples : SUBSET Tuple, entered : [Members -> [Groups -> Nat]]]
    BY <1>1, <2>1 DEF Snapshot
  <2>3. QED
    BY <1>2, <1>4, <2>2 DEF Sound, Agreed
<1>6. \A r \in Reqs : Outcome(r)
  BY <1>3 DEF Outcome
<1>7. BareExplained
  <2>1. \A u \in Members, g \in Groups : refs[u][g] \in {NoRefs, [full |-> 1, bare |-> 0]}
    BY <1>1 DEF Init
  <2>2. \A u \in Members, g \in Groups : refs[u][g].bare = 0
    BY <2>1 DEF NoRefs
  <2>3. QED
    BY <2>2 DEF BareExplained
<1>8. QED
  BY <1>2, <1>3, <1>4, <1>5, <1>6, <1>7 DEF SerialParts, OneAtATime, Settled

LEMMA SerialStep ==
    ASSUME OneRefusal, OwnedInv, Whole, TypeOK', SerialInv, [Next /\ Watch]_<<vars, history>>
    PROVE  SerialInv'
<1> SUFFICES ASSUME alone'
             PROVE  SerialParts'
  BY DEF SerialInv
<1>1. CASE UNCHANGED <<vars, history>>
  BY <1>1, SerialWorld DEF history, SerialInv
<1>2. CASE Next /\ Watch
  <2>1. /\ SerialParts /\ OneAtATime'
        /\ before' = IF \E r \in Reqs : Taken(r) THEN Snapshot({r \in Reqs : Taken(r)}) ELSE before
    BY <1>2 DEF Watch, SerialInv
  <2>2. CASE \E r \in Reqs : Serve(r)
    BY <2>1, <2>2, SerialServe, SerialAccept
  <2>3. CASE Idle \/ \E u \in Members : DeleteUser(u)
    <3>1. pc' = pc
      BY <2>3 DEF Idle, DeleteUser, vars
    <3>2. before' = before
      BY <2>1, <3>1 DEF Taken
    <3>3. QED
      BY <2>1, <2>3, <3>2, SerialWorld
  <2>4. ~Crash
    BY DEF Crash, Fault, OneRefusal
  <2>5. QED
    BY <1>2, <2>2, <2>3, <2>4 DEF Next
<1>3. QED
  BY <1>1, <1>2

LEMMA SerialInvariant == ASSUME OneRefusal PROVE SerialSpec => [](OwnedInv /\ Whole /\ SerialInv)
<1>1. SerialInit => Init
  BY DEF SerialInit
<1>2. [Next /\ Watch]_<<vars, history>> => [Next]_vars
  OBVIOUS
<1>3. OwnedInv /\ Whole /\ [Next]_vars => Whole'
  BY WholeNext
<1>4. OwnedInv /\ OwnedInv' /\ Whole /\ SerialInv /\ [Next /\ Watch]_<<vars, history>> => SerialInv'
  <2>1. OwnedInv' => TypeOK'
    BY DEF OwnedInv, DeletionInv, OwnerInv
  <2>2. QED
    BY <2>1, SerialStep
<1>5. QED
  BY <1>1, <1>2, <1>3, <1>4, WholeInit, SerialStarts, OwnedInvariant, PTL DEF Spec, SerialSpec
-----------------------------------------------------------------------------
(* What it shows.                                                            *)

\* At rest the tuples of a group are those of its document, and no others.
LEMMA MirroredExactly ==
    ASSUME TypeOK, NEW g \in Groups, Mirrored(tuples, g, group[g])
    PROVE  {t \in tuples : t[3] = g} \ {PlatformTuple(g)} =
               IF group[g] = NoDoc THEN {} ELSE Mirror(group[g], g) \ {PlatformTuple(g)}
<1> DEFINE d == group[g]
           L == {t \in tuples : t[3] = g} \ {PlatformTuple(g)}
           R == IF d = NoDoc THEN {} ELSE Mirror(d, g) \ {PlatformTuple(g)}
<1>1. d # NoDoc => d.owner \in Actors /\ d.coOwners \subseteq Actors
  BY DEF TypeOK, Doc
<1>2. ASSUME NEW t \in L PROVE t \in R
  <2>1. PICK u \in Actors : t = <<u, "owner", g>> \/ t = <<u, "co_owner", g>>
    <3>1. t \in Tuple /\ t[3] = g /\ t # <<Platform, "platform", g>>
      BY <1>2 DEF TypeOK, PlatformTuple
    <3>2. QED
      BY <3>1 DEF Tuple
  <2>2. CASE t = <<u, "owner", g>>
    <3>1. d # NoDoc /\ d.owner = u
      BY <1>2, <2>2 DEF Mirrored, OwnerTuple
    <3>2. QED
      BY <1>2, <2>2, <3>1 DEF Mirror, OwnerTuple
  <2>3. CASE t = <<u, "co_owner", g>>
    <3>1. d # NoDoc /\ u \in d.coOwners
      BY <1>2, <2>3 DEF Mirrored
    <3>2. QED
      BY <1>2, <2>3, <3>1 DEF Mirror, CoOwnerTuples
  <2>4. QED
    BY <2>1, <2>2, <2>3
<1>3. ASSUME NEW t \in R PROVE t \in L
  <2>1. d # NoDoc /\ t # PlatformTuple(g) /\ t \in Mirror(d, g)
    BY <1>3
  <2>2. \/ t = OwnerTuple(d.owner, g)
        \/ \E u \in d.coOwners : t = <<u, "co_owner", g>>
    BY <2>1 DEF Mirror, CoOwnerTuples
  <2>3. t \in tuples
    BY <1>1, <2>1, <2>2 DEF Mirrored
  <2>4. t[3] = g
    BY <2>2 DEF OwnerTuple
  <2>5. QED
    BY <2>1, <2>3, <2>4
<1>4. QED
  BY <1>2, <1>3

\* While requests for permission groups are served one at a time and one call at
\* most is refused: between requests OpenFGA holds the owner and co-owners of the
\* documents and no others, every entry of a user refers to a group that exists and
\* no two to the same, and an entry that lacks its giver is of a group whose
\* delete has failed.
THEOREM StoresAgreeAlways == ASSUME OneRefusal PROVE SerialSpec => []StoresAgree
<1>1. OwnedInv /\ SerialInv => StoresAgree
  <2> SUFFICES ASSUME OwnedInv, SerialInv, alone, AtRest
               PROVE  MirrorAtRest /\ NoDanglingGroup /\ NoDoubleEntry /\ EntriesComplete
    BY DEF StoresAgree, MirrorAtRest, NoDanglingGroup, NoDoubleEntry, EntriesComplete
  <2>1. SerialParts /\ TypeOK
    BY DEF SerialInv, OwnedInv, DeletionInv, OwnerInv
  <2>2. \A g \in Groups : Agreed(g)
    BY <2>1 DEF SerialParts, Settled, AtRest
  <2>3. MirrorAtRest
    <3>1. \A g \in Groups : Mirrored(tuples, g, group[g])
      BY <2>2 DEF Agreed, Agree
    <3>2. QED
      BY <2>1, <3>1, MirroredExactly DEF MirrorAtRest
  <2>4. ASSUME NEW u \in Members, NEW g \in Groups
        PROVE  /\ In(u, g) => group[g] # NoDoc
               /\ refs[u][g].full + refs[u][g].bare <= 1
    BY <2>1, <2>2, EnteredFacts DEF Agreed, Agree
  <2>5. EntriesComplete
    <3>1. \A r \in Reqs : pc[r] # "rollback"
      BY DEF AtRest, InFlight, Final
    <3>2. QED
      BY <2>1, <3>1 DEF SerialParts, BareExplained, Returned, EntriesComplete
  <2>6. QED
    BY <2>3, <2>4, <2>5 DEF NoDanglingGroup, NoDoubleEntry
<1>2. QED
  BY <1>1, SerialInvariant, PTL

\* While requests are served one at a time and one call at most is refused: a
\* create, edit or delete that has failed has left every document, every tuple and
\* the number of entries of every user as they were when it was taken up, whichever
\* of its calls was refused and in whichever order its rollbacks ran.
THEOREM FailureChangesNothing == ASSUME OneRefusal PROVE SerialSpec => []AllOrNothing
<1>1. SerialInv => AllOrNothing
  <2> SUFFICES ASSUME SerialInv, NEW r \in Reqs, alone, before.by = {r}, pc[r] = "failed",
                      Undoable(r)
               PROVE  Snapshot({r}) = before
    BY DEF AllOrNothing, Undoable
  <2>1. Back /\ Sound(before)
    BY DEF SerialInv, SerialParts, Outcome
  <2>2. before = [by |-> before.by, group |-> before.group, tuples |-> before.tuples,
                  entered |-> before.entered]
    BY <2>1 DEF Sound
  <2>3. QED
    BY <2>1, <2>2 DEF Back, Snapshot
<1>2. QED
  BY <1>1, SerialInvariant, PTL
=============================================================================
