------------------------ MODULE ApplicationUsersProofs ------------------------
(***************************************************************************)
(* Theorems about ApplicationUsers for every set of users, actors, grants  *)
(* and requests, every size of a chunk and every number of faults: the     *)
(* types, that grants change only by what an actor may manage, that admins *)
(* are guarded and that a sync restores the mirror; and, where a batch is  *)
(* one write and at most one call is refused, that the mirror agrees.      *)
(***************************************************************************)
EXTENDS ApplicationUsers, FiniteSetTheorems, TLAPS

States == {"new", "rollback"} \cup Calls \cup Final

\* A request that reads one user, checks or sends changes is not a sync.
Phases == \A r \in Reqs : pc[r] \in {"readUser", "check", "send"} =>
                             job[r].op \in {"create", "edit", "delete"}

TypeInv == TypeOK /\ Phases

-----------------------------------------------------------------------------
(* The operators keep to grants and changes. *)

LEMMA JobType ==
    ASSUME TypeOK, NEW r \in Reqs
    PROVE  /\ job[r].op \in Ops
           /\ job[r].u \in Users
           /\ job[r].by \in Actors
           /\ job[r].grants \subseteq Grants
  BY DEF TypeOK, Job

LEMMA VisibleType ==
    ASSUME NEW G \in SUBSET Grants
    PROVE  Visible(G) \subseteq G /\ Visible(G) \in SUBSET Grants
  BY DEF Visible

LEMMA SeenType ==
    ASSUME TypeOK, NEW r \in Reqs
    PROVE  Seen(r) \subseteq Grants /\ Target(r) \subseteq Grants
<1>1. got[r][job[r].u] \in SUBSET Grants
  BY JobType DEF TypeOK
<1>2. QED
  BY <1>1, VisibleType, JobType DEF Seen, Target

LEMMA ChangesType ==
    ASSUME TypeOK, NEW r \in Reqs
    PROVE  Changes(r) \in SUBSET Change
<1>1. {"write"} \X (Target(r) \ Seen(r)) \subseteq Change
  BY SeenType DEF Change
<1>2. {"delete"} \X (Seen(r) \ Target(r)) \subseteq Change
  BY SeenType DEF Change
<1>3. QED
  BY <1>1, <1>2 DEF Changes

LEMMA ReverseType ==
    ASSUME NEW B \in SUBSET Change
    PROVE  Reverse(B) \in SUBSET Change
<1>1. ASSUME NEW x \in B
      PROVE  <<IF x[1] = "write" THEN "delete" ELSE "write", x[2]>> \in Change
  BY DEF Change
<1>2. QED
  BY <1>1 DEF Reverse

LEMMA GrantsInType ==
    ASSUME NEW B \in SUBSET Change, NEW o
    PROVE  GrantsIn(B, o) \subseteq Grants
<1>1. \A x \in B : x[2] \in Grants
  BY DEF Change
<1>2. QED
  BY <1>1 DEF GrantsIn

LEMMA WithChangesType ==
    ASSUME TypeOK, NEW u \in Users, NEW C \in SUBSET Change
    PROVE  WithChanges(u, C) \in [Users -> SUBSET Grants]
<1>1. GrantsIn(C, "write") \subseteq Grants
  BY GrantsInType
<1>2. (tuples[u] \ GrantsIn(C, "delete")) \cup GrantsIn(C, "write") \in SUBSET Grants
  BY <1>1 DEF TypeOK
<1>3. QED
  BY <1>2 DEF WithChanges, TypeOK

-----------------------------------------------------------------------------
(* What the ways in which a call may end keep, whatever the call. *)

\* What Proceed and Throw do to the control of a request.
Control(r, next) ==
    /\ pc' \in [Reqs -> States]
    /\ batch' \in [Reqs -> SUBSET Change]
    /\ undo' \in [Reqs -> BOOLEAN]
    /\ \E s \in {next, "rollback", "failed"} : pc' = [pc EXCEPT ![r] = s]

LEMMA ThrowType ==
    ASSUME TypeOK, NEW r \in Reqs, NEW next, Throw(r)
    PROVE  Control(r, next)
<1>1. Reverse(Changes(r)) \in SUBSET Change
  BY ChangesType, ReverseType
<1>2. batch' \in [Reqs -> SUBSET Change]
  BY <1>1 DEF TypeOK, Throw
<1>3. undo' \in [Reqs -> BOOLEAN]
  BY DEF TypeOK, Throw
<1>4. /\ pc' \in [Reqs -> States]
      /\ \E s \in {next, "rollback", "failed"} : pc' = [pc EXCEPT ![r] = s]
  BY DEF TypeOK, Throw, States, Final
<1>5. QED
  BY <1>2, <1>3, <1>4 DEF Control

LEMMA ProceedType ==
    ASSUME TypeOK, NEW r \in Reqs, NEW next \in States, Proceed(r, next)
    PROVE  Control(r, next)
  BY DEF TypeOK, Proceed, Control, States

LEMMA FaultType ==
    ASSUME TypeOK, NEW k, UNCHANGED faults \/ Fault(k)
    PROVE  faults' \in Nat
  BY DEF TypeOK, Fault

LEMMA ReadType ==
    ASSUME TypeOK, NEW r \in Reqs, NEW ok \in BOOLEAN, NEW next \in States,
           Read(r, ok, next)
    PROVE  /\ Control(r, next)
           /\ UNCHANGED <<tuples, doc>>
           /\ faults' \in Nat
<1>1. Control(r, next)
  BY ThrowType, ProceedType DEF Read
<1>2. faults' \in Nat
  BY FaultType DEF Read
<1>3. QED
  BY <1>1, <1>2 DEF Read

LEMMA WriteDocType ==
    ASSUME TypeOK, NEW r \in Reqs, NEW ok \in BOOLEAN, NEW next \in States,
           NEW new, ok => new \in [Users -> Docs], WriteDoc(r, ok, new, next)
    PROVE  /\ Control(r, next)
           /\ UNCHANGED tuples
           /\ doc' \in [Users -> Docs]
           /\ faults' \in Nat
<1>1. Control(r, next)
  BY ThrowType, ProceedType DEF WriteDoc
<1>2. faults' \in Nat
  BY FaultType DEF WriteDoc
<1>3. doc' \in [Users -> Docs]
  BY DEF WriteDoc, TypeOK
<1>4. QED
  BY <1>1, <1>2, <1>3 DEF WriteDoc

\* A step of request r that leaves what was asked alone keeps the phases, unless
\* it leads into one of them from elsewhere.
LEMMA PhasesKept ==
    ASSUME TypeInv, NEW r \in Reqs, NEW s, UNCHANGED job,
           pc' = [pc EXCEPT ![r] = s],
           s \in {"readUser", "check", "send"} => pc[r] \in {"readUser", "check", "send"}
    PROVE  Phases'
  BY DEF TypeInv, TypeOK, Phases

LEMMA QuietStep ==
    ASSUME TypeInv, NEW r \in Reqs, NEW next \in States, Control(r, next),
           next \notin {"readUser", "check", "send"},
           UNCHANGED locals, UNCHANGED tuples, doc' \in [Users -> Docs], faults' \in Nat
    PROVE  TypeInv'
<1>1. Phases'
  <2>1. PICK s \in {next, "rollback", "failed"} : pc' = [pc EXCEPT ![r] = s]
    BY DEF Control
  <2>2. s \notin {"readUser", "check", "send"}
    BY <2>1
  <2>3. QED
    BY <2>1, <2>2, PhasesKept DEF locals
<1>2. TypeOK'
  BY DEF TypeInv, TypeOK, Control, States, locals
<1>3. QED
  BY <1>1, <1>2 DEF TypeInv

-----------------------------------------------------------------------------
(* Accepting a request and its queries. *)

LEMMA AcceptType ==
    ASSUME TypeInv, NEW r \in Reqs, NEW j \in Jobs, Accept(r, j)
    PROVE  TypeInv'
<1>1. j \in Job
  BY JobsAssumption DEF WellFormed
<1>2. j.op \in Ops
  BY <1>1 DEF Job
<1>3. FirstQueries(j.op) \in SUBSET (Relations \cup {"mongo"} \cup Users)
  <2>1. RelationsOf(Attributes) \subseteq Relations
    BY DEF Relations, RelationsOf, Grants
  <2>2. QED
    BY <2>1 DEF FirstQueries
<1>4. TypeOK'
  <2>1. tuples' \in [Users -> SUBSET Grants] /\ doc' \in [Users -> Docs] /\ faults' \in Nat
    BY DEF TypeInv, TypeOK, Accept
  <2>2. pc' \in [Reqs -> States] /\ job' \in [Reqs -> Job]
    BY <1>1 DEF TypeInv, TypeOK, Accept, States, Calls
  <2>3. todo' \in [Reqs -> SUBSET (Relations \cup {"mongo"} \cup Users)]
    BY <1>3 DEF TypeInv, TypeOK, Accept
  <2>4. [u \in Users |-> {}] \in [Users -> SUBSET Grants]
    OBVIOUS
  <2>5. got' \in [Reqs -> [Users -> SUBSET Grants]]
    BY <2>4 DEF TypeInv, TypeOK, Accept
  <2>6. [u \in Users |-> NoDoc] \in [Users -> Docs]
    BY DEF Docs
  <2>7. copy' \in [Reqs -> [Users -> Docs]]
    BY <2>6 DEF TypeInv, TypeOK, Accept
  <2>8. batch' \in [Reqs -> SUBSET Change] /\ undo' \in [Reqs -> BOOLEAN]
    BY DEF TypeInv, TypeOK, Accept
  <2>9. QED
    BY <2>1, <2>2, <2>3, <2>5, <2>7, <2>8 DEF TypeOK, States
<1>5. Phases'
  <2> SUFFICES ASSUME NEW q \in Reqs, pc'[q] \in {"readUser", "check", "send"}
               PROVE  job'[q].op \in {"create", "edit", "delete"}
    BY DEF Phases
  <2>1. CASE q = r
    BY <1>2, <2>1 DEF Accept, Ops, TypeInv, TypeOK
  <2>2. CASE q # r
    BY <2>2 DEF Accept, TypeInv, TypeOK, Phases
  <2>3. QED
    BY <2>1, <2>2
<1>6. QED
  BY <1>4, <1>5 DEF TypeInv

Reading == {"readUser", "syncRead", "syncRoles", "syncAssigners"}

LEMMA JoinedType ==
    ASSUME TypeOK, NEW r \in Reqs, NEW G \in [Users -> SUBSET Grants], NEW D,
           Joined(r, G, D)
    PROVE  /\ todo' \in [Reqs -> SUBSET (Relations \cup {"mongo"} \cup Users)]
           /\ \E next \in {"check", "syncRoles", "syncAssigners", "syncDelete", "syncSave"} :
                 /\ next = "check" => pc[r] = "readUser"
                 /\ Control(r, next)
<1>1. RelationsOf(RoleGrants) \subseteq Relations /\ Listed(G) \subseteq Users
  BY DEF Relations, RelationsOf, Grants, Listed
<1> DEFINE Ask(next, queries) == Proceed(r, next)
                                   /\ todo' = [todo EXCEPT ![r] = queries]
<1>2. ASSUME NEW next \in {"check", "syncRoles", "syncAssigners", "syncDelete", "syncSave"},
             NEW queries \in SUBSET (Relations \cup Users), Ask(next, queries)
      PROVE  /\ todo' \in [Reqs -> SUBSET (Relations \cup {"mongo"} \cup Users)]
             /\ Control(r, next)
  <2>1. next \in States
    BY DEF States, Calls
  <2>2. QED
    BY <1>2, <2>1, ProceedType DEF TypeOK
<1>3. CASE pc[r] = "readUser" /\ Ask("check", {})
  BY <1>3, <1>2
<1>4. CASE Throw(r) /\ pc[r] = "readUser" /\ todo' = [todo EXCEPT ![r] = {}]
  BY <1>4, ThrowType DEF TypeOK
<1>5. CASE Ask("syncRoles", RelationsOf(RoleGrants))
  BY <1>5, <1>2, <1>1
<1>6. CASE Ask("syncAssigners", Listed(G))
  BY <1>6, <1>2, <1>1
<1>7. CASE Ask("syncDelete", {})
  BY <1>7, <1>2
<1>8. CASE Ask("syncSave", Listed(G))
  BY <1>8, <1>2, <1>1
<1>9. QED
  BY <1>3, <1>4, <1>5, <1>6, <1>7, <1>8 DEF Joined

LEMMA AnswerType ==
    ASSUME TypeInv, NEW r \in Reqs, NEW q, NEW G \in [Users -> SUBSET Grants],
           NEW D \in [Users -> Docs], pc[r] \in Reading, Answer(r, q, G, D)
    PROVE  TypeInv'
<1> USE DEF TypeInv
<1>1. faults' \in Nat
  BY FaultType DEF Answer
<1>2. got' \in [Reqs -> [Users -> SUBSET Grants]] /\ copy' \in [Reqs -> [Users -> Docs]]
  <2>1. CASE got' = [got EXCEPT ![r] = G] /\ copy' = [copy EXCEPT ![r] = D]
    BY <2>1 DEF TypeOK
  <2>2. CASE UNCHANGED <<got, copy>>
    BY <2>2 DEF TypeOK
  <2>3. QED
    BY <2>1, <2>2 DEF Answer
<1>3. \E next \in States :
         /\ Control(r, next)
         /\ next \in {"readUser", "check", "send"} => pc[r] \in {"readUser", "check", "send"}
         /\ todo' \in [Reqs -> SUBSET (Relations \cup {"mongo"} \cup Users)]
  <2>1. CASE Joined(r, G, D)
    <3>1. {"check", "syncRoles", "syncAssigners", "syncDelete", "syncSave"} \subseteq States
      BY DEF States, Calls
    <3>2. QED
      BY <2>1, <3>1, JoinedType
  <2>2. CASE Proceed(r, pc[r]) /\ todo' = [todo EXCEPT ![r] = @ \ {q}]
    <3>1. pc[r] \in States
      BY DEF States, Calls, Reading
    <3>2. todo' \in [Reqs -> SUBSET (Relations \cup {"mongo"} \cup Users)]
      BY <2>2 DEF TypeOK
    <3>3. QED
      BY <2>2, <3>1, <3>2, ProceedType
  <2>3. CASE Throw(r) /\ todo' = [todo EXCEPT ![r] = {}]
    <3>1. "failed" \in States /\ Control(r, "failed")
      BY <2>3, ThrowType DEF States, Final
    <3>2. QED
      BY <2>3, <3>1 DEF TypeOK
  <2>4. QED
    BY <2>1, <2>2, <2>3 DEF Answer
<1>4. Phases'
  BY <1>3, PhasesKept DEF Control, Answer
<1>5. TypeOK'
  BY <1>1, <1>2, <1>3 DEF TypeOK, Control, States, Answer
<1>6. QED
  BY <1>4, <1>5

LEMMA LearningType ==
    ASSUME TypeOK, NEW r \in Reqs, NEW W, NEW S
    PROVE  Learning(r, W, S) \in [Users -> SUBSET Grants]
<1>1. got[r] \in [Users -> SUBSET Grants]
  BY DEF TypeOK
<1>2. ASSUME NEW u \in Users
      PROVE  (IF u \in W THEN got[r][u] \cup (tuples[u] \cap S) ELSE got[r][u])
                \in SUBSET Grants
  BY <1>1 DEF TypeOK
<1>3. QED
  BY <1>2 DEF Learning

LEMMA QueriesType ==
    ASSUME TypeInv, NEW r \in Reqs,
           \/ \E rel \in Relations : ReadTuples(r, rel)
           \/ ReadMongo(r)
           \/ \E u \in Users : ReadAssigners(r, u)
    PROVE  TypeInv'
<1>1. /\ copy[r] \in [Users -> Docs]
      /\ got[r] \in [Users -> SUBSET Grants]
      /\ [u \in Users |-> IF u \in About(r) THEN doc[u] ELSE copy[r][u]] \in [Users -> Docs]
  BY DEF TypeInv, TypeOK
<1>2. CASE \E rel \in Relations : ReadTuples(r, rel)
  BY <1>1, <1>2, AnswerType, LearningType DEF ReadTuples, Reading, TypeInv
<1>3. CASE ReadMongo(r)
  BY <1>1, <1>3, AnswerType DEF ReadMongo, Reading
<1>4. CASE \E u \in Users : ReadAssigners(r, u)
  BY <1>1, <1>4, AnswerType, LearningType DEF ReadAssigners, Reading, TypeInv
<1>5. QED
  BY <1>2, <1>3, <1>4

-----------------------------------------------------------------------------
(* Checking, sending changes, and taking them back. *)

LEMMA AfterSendType ==
    ASSUME TypeInv, NEW r \in Reqs, pc[r] = "send"
    PROVE  AfterSend[job[r].op] \in {"insert", "update", "findDoc"}
  BY DEF TypeInv, Phases, AfterSend

LEMMA CheckType ==
    ASSUME TypeInv, NEW r \in Reqs, Check(r)
    PROVE  TypeInv'
<1> USE DEF TypeInv
<1>1. Changes(r) \in SUBSET Change
  BY ChangesType
<1>2. faults' \in Nat
  BY FaultType DEF Check
<1>3. batch' \in [Reqs -> SUBSET Change] /\ pc' \in [Reqs -> States]
  <2>1. \E s \in {"readBack", "send", "failed"} : pc' = [pc EXCEPT ![r] = s]
    BY DEF Check
  <2>2. pc' \in [Reqs -> States]
    BY <2>1 DEF TypeOK, States, Calls, Final
  <2>3. batch' = [batch EXCEPT ![r] = Changes(r)] \/ UNCHANGED batch
    BY DEF Check
  <2>4. QED
    BY <1>1, <2>2, <2>3 DEF TypeOK
<1>4. TypeOK'
  BY <1>2, <1>3 DEF Check, TypeOK, States, locals
<1>5. Phases'
  <2>1. \E s : pc' = [pc EXCEPT ![r] = s]
    BY DEF Check
  <2>2. QED
    BY <2>1, PhasesKept DEF Check, locals
<1>6. QED
  BY <1>4, <1>5

LEMMA SendChunkType ==
    ASSUME TypeInv, NEW r \in Reqs, SendChunk(r)
    PROVE  TypeInv'
<1> USE DEF TypeInv
<1> DEFINE u == job[r].u
<1>1. u \in Users
  BY JobType
<1>2. PICK C \in SUBSET batch[r] :
         \/ Accepts(u, C) /\ tuples' = WithChanges(u, C) /\ Sent(r, C) /\ UNCHANGED faults
         \/ ~Accepts(u, C) /\ Throw(r) /\ UNCHANGED <<tuples, faults>>
         \/ Fault("refused") /\ Throw(r) /\ UNCHANGED tuples
         \/ Accepts(u, C) /\ Fault("lost") /\ tuples' = WithChanges(u, C) /\ Throw(r)
  BY DEF SendChunk
<1>3. C \in SUBSET Change
  BY DEF TypeOK
<1>4. tuples' \in [Users -> SUBSET Grants]
  BY <1>1, <1>2, <1>3, WithChangesType DEF TypeOK
<1>5. faults' \in Nat
  BY <1>2, FaultType
<1>6. /\ pc' \in [Reqs -> States]
      /\ batch' \in [Reqs -> SUBSET Change]
      /\ undo' \in [Reqs -> BOOLEAN]
      /\ \E s : pc' = [pc EXCEPT ![r] = s]
  <2>1. CASE Sent(r, C)
    <3>1. AfterSend[job[r].op] \in States
      BY AfterSendType DEF SendChunk, States, Calls
    <3>2. pc' \in [Reqs -> States]
      BY <2>1, <3>1 DEF Sent, TypeOK, States, Calls
    <3>3. (C = batch[r]) \in BOOLEAN
      OBVIOUS
    <3>4. undo' \in [Reqs -> BOOLEAN]
      BY <2>1, <3>3 DEF Sent, TypeOK
    <3>5. batch' \in [Reqs -> SUBSET Change]
      BY <2>1 DEF Sent, TypeOK
    <3>6. \E s : pc' = [pc EXCEPT ![r] = s]
      BY <2>1 DEF Sent
    <3>7. QED
      BY <3>2, <3>4, <3>5, <3>6
  <2>2. CASE Throw(r)
    BY <2>2, ThrowType DEF Control
  <2>3. QED
    BY <1>2, <2>1, <2>2
<1>7. Phases'
  BY <1>6, PhasesKept DEF SendChunk, locals
<1>8. TypeOK'
  BY <1>4, <1>5, <1>6 DEF TypeOK, SendChunk, locals, States
<1>9. QED
  BY <1>7, <1>8

LEMMA UndoChunkType ==
    ASSUME TypeInv, NEW r \in Reqs, UndoChunk(r)
    PROVE  TypeInv'
<1> USE DEF TypeInv
<1> DEFINE u == job[r].u
<1>1. u \in Users
  BY JobType
<1>2. PICK C \in SUBSET batch[r] :
         \/ /\ tuples' = WithChanges(u, C)
            /\ batch' = [batch EXCEPT ![r] = @ \ C]
            /\ pc' = [pc EXCEPT ![r] = IF C = batch[r] THEN "failed" ELSE "rollback"]
            /\ UNCHANGED faults
         \/ /\ batch' = [batch EXCEPT ![r] = {}]
            /\ pc' = [pc EXCEPT ![r] = "failed"]
            /\ faults' = IF Accepts(u, C) THEN faults + 1 ELSE faults
            /\ UNCHANGED tuples
  BY DEF UndoChunk
<1>3. C \in SUBSET Change
  BY DEF TypeOK
<1>4. tuples' \in [Users -> SUBSET Grants]
  BY <1>1, <1>2, <1>3, WithChangesType DEF TypeOK
<1>5. faults' \in Nat
  BY <1>2 DEF TypeOK
<1>6. /\ pc' \in [Reqs -> States]
      /\ batch' \in [Reqs -> SUBSET Change]
      /\ \E s \in {"failed", "rollback"} : pc' = [pc EXCEPT ![r] = s]
  <2>1. \E s \in {"failed", "rollback"} : pc' = [pc EXCEPT ![r] = s]
    BY <1>2
  <2>2. batch' = [batch EXCEPT ![r] = @ \ C] \/ batch' = [batch EXCEPT ![r] = {}]
    BY <1>2
  <2>3. batch' \in [Reqs -> SUBSET Change]
    BY <2>2 DEF TypeOK
  <2>4. QED
    BY <2>1, <2>3 DEF TypeOK, States, Final
<1>7. Phases'
  BY <1>6, PhasesKept DEF UndoChunk, locals
<1>8. TypeOK'
  BY <1>4, <1>5, <1>6 DEF TypeOK, UndoChunk, locals, States
<1>9. QED
  BY <1>7, <1>8

-----------------------------------------------------------------------------
(* Reading and writing the mirror. *)

LEMMA WithDocType ==
    ASSUME TypeOK, NEW u \in Users, NEW d \in Docs
    PROVE  WithDoc(u, d) \in [Users -> Docs]
  BY DEF WithDoc, TypeOK

LEMMA MirrorType ==
    ASSUME TypeInv, NEW r \in Reqs,
           Insert(r) \/ Update(r) \/ FindDoc(r) \/ Remove(r) \/ ReadBack(r)
    PROVE  TypeInv'
<1> USE DEF TypeInv
<1> DEFINE u == job[r].u
<1>1. u \in Users /\ job[r].grants \in Docs /\ NoDoc \in Docs
  BY JobType DEF Docs
<1>2. /\ WithDoc(u, job[r].grants) \in [Users -> Docs]
      /\ WithDoc(u, NoDoc) \in [Users -> Docs]
      /\ doc \in [Users -> Docs]
  BY <1>1, WithDocType DEF TypeOK
<1>3. {"readBack", "done", "failed", "remove"} \subseteq States
  BY DEF States, Calls, Final
<1>4. ASSUME NEW next \in {"readBack", "done", "failed", "remove"}, NEW ok \in BOOLEAN,
             NEW new \in [Users -> Docs],
             Read(r, ok, next) \/ WriteDoc(r, ok, new, next), UNCHANGED locals
      PROVE  TypeInv'
  <2>1. next \in States /\ doc \in [Users -> Docs]
    BY <1>3 DEF TypeOK
  <2>2. CASE Read(r, ok, next)
    <3>1. Control(r, next) /\ UNCHANGED <<tuples, doc>> /\ faults' \in Nat
      BY <2>1, <2>2, ReadType
    <3>2. QED
      BY <1>4, <2>1, <3>1, QuietStep
  <2>3. CASE WriteDoc(r, ok, new, next)
    <3>1. Control(r, next) /\ UNCHANGED tuples /\ doc' \in [Users -> Docs] /\ faults' \in Nat
      BY <2>1, <2>3, WriteDocType
    <3>2. QED
      BY <1>4, <2>1, <3>1, QuietStep
  <2>4. QED
    BY <1>4, <2>2, <2>3
<1>5. CASE Insert(r)
  BY <1>2, <1>4, <1>5 DEF Insert
<1>6. CASE Update(r)
  <2>1. (IF doc[u] = NoDoc THEN doc ELSE WithDoc(u, job[r].grants)) \in [Users -> Docs]
    BY <1>2
  <2>2. QED
    BY <1>4, <1>6, <2>1 DEF Update
<1>7. CASE FindDoc(r)
  <2>1. (IF doc[job[r].u] = NoDoc THEN "done" ELSE "remove") \in
           {"readBack", "done", "failed", "remove"}
    OBVIOUS
  <2>2. QED
    BY <1>2, <1>4, <1>7, <2>1 DEF FindDoc
<1>8. CASE Remove(r)
  BY <1>2, <1>4, <1>8 DEF Remove
<1>9. CASE ReadBack(r)
  <2> DEFINE found == doc[job[r].u] # NoDoc
  <2>1. CASE Read(r, found, "done")
    BY <1>2, <1>4, <1>9, <2>1 DEF ReadBack
  <2>2. CASE /\ UNCHANGED <<tuples, doc, batch, undo>>
             /\ \/ pc' = [pc EXCEPT ![r] = IF found THEN "done" ELSE "failed"]
                \/ pc' = [pc EXCEPT ![r] = "failed"]
    <3>1. \E s \in {"done", "failed"} : pc' = [pc EXCEPT ![r] = s]
      BY <2>2
    <3>2. faults' \in Nat
      BY <1>9, FaultType DEF ReadBack, Read
    <3>3. Phases'
      BY <1>9, <3>1, PhasesKept DEF ReadBack, locals
    <3>4. pc' \in [Reqs -> States]
      BY <1>3, <3>1 DEF TypeOK, States
    <3>5. TypeOK'
      BY <1>9, <2>2, <3>2, <3>4 DEF TypeOK, ReadBack, locals, States
    <3>6. QED
      BY <3>3, <3>5
  <2>3. QED
    BY <1>9, <2>1, <2>2 DEF ReadBack
<1>10. QED
  BY <1>5, <1>6, <1>7, <1>8, <1>9

LEMMA SavedType ==
    ASSUME NEW old, NEW base \in SUBSET Grants, NEW new \in SUBSET Grants
    PROVE  Saved(old, base, new) \in Docs
  BY DEF Saved, Docs, Grants

LEMMA SyncSaveType ==
    ASSUME TypeInv, NEW r \in Reqs, NEW u \in Users, SyncSave(r, u)
    PROVE  TypeInv'
<1> USE DEF TypeInv
<1> DEFINE new == Visible(got[r][u])
           old == copy[r][u]
           row == IF old = NoDoc THEN new ELSE Saved(old, doc[u], new)
           next == IF todo[r] # {u} THEN "syncSave" ELSE "syncDelete"
           ok == (old = NoDoc) = (doc[u] = NoDoc)
<1>1. new \in SUBSET Grants
  BY VisibleType DEF TypeOK
<1>2. WriteDoc(r, ok, WithDoc(u, row), next)
  BY DEF SyncSave
<1>3. next \in States /\ next \notin {"readUser", "check", "send"} /\ ok \in BOOLEAN
  BY DEF States, Calls
<1>4. ok => WithDoc(u, row) \in [Users -> Docs]
  <2>1. SUFFICES ASSUME ok PROVE row \in Docs
    BY WithDocType
  <2>2. CASE old = NoDoc
    BY <1>1, <2>2 DEF Docs
  <2>3. CASE old # NoDoc
    <3>1. doc[u] \in SUBSET Grants
      BY <2>1, <2>3 DEF TypeOK, Docs
    <3>2. QED
      BY <1>1, <2>3, <3>1, SavedType
  <2>4. QED
    BY <2>2, <2>3
<1> HIDE DEF row, next, ok
<1>5. Control(r, next) /\ UNCHANGED tuples /\ doc' \in [Users -> Docs] /\ faults' \in Nat
  BY <1>2, <1>3, <1>4, WriteDocType
<1>6. todo' \in [Reqs -> SUBSET (Relations \cup {"mongo"} \cup Users)]
  BY DEF SyncSave, TypeOK
<1>7. Phases'
  <2>1. PICK s \in {next, "rollback", "failed"} : pc' = [pc EXCEPT ![r] = s]
    BY <1>5 DEF Control
  <2>2. QED
    BY <1>3, <2>1, PhasesKept DEF SyncSave
<1>8. TypeOK'
  BY <1>5, <1>6 DEF TypeOK, Control, States, SyncSave
<1>9. QED
  BY <1>7, <1>8

LEMMA SyncDeleteType ==
    ASSUME TypeInv, NEW r \in Reqs, SyncDelete(r)
    PROVE  TypeInv'
<1> DEFINE new == [u \in Users |-> IF copy[r][u] # NoDoc /\ ~IsSet(got[r][u])
                                   THEN NoDoc ELSE doc[u]]
<1>1. new \in [Users -> Docs]
  BY DEF TypeInv, TypeOK, Docs
<1>2. WriteDoc(r, TRUE, new, "done") /\ UNCHANGED locals
  BY DEF SyncDelete
<1>3. "done" \in States
  BY DEF States, Final
<1> HIDE DEF new
<1>4. /\ Control(r, "done") /\ UNCHANGED tuples
      /\ doc' \in [Users -> Docs] /\ faults' \in Nat
  BY <1>1, <1>2, <1>3, WriteDocType DEF TypeInv
<1>5. QED
  BY <1>2, <1>3, <1>4, QuietStep

LEMMA CrashType ==
    ASSUME TypeInv, Crash
    PROVE  TypeInv'
<1> USE DEF TypeInv
<1>1. faults' \in Nat
  BY FaultType DEF Crash
<1>2. pc' \in [Reqs -> States]
  BY DEF Crash, TypeOK, States, Final
<1>3. TypeOK'
  BY <1>1, <1>2 DEF Crash, TypeOK, States, locals
<1>4. Phases'
  BY DEF Crash, Phases, TypeOK, locals
<1>5. QED
  BY <1>3, <1>4

-----------------------------------------------------------------------------
(* Every variable keeps its type, and requests their phases. *)

LEMMA TypeInit == Init => TypeInv
<1> SUFFICES ASSUME Init PROVE TypeInv
  OBVIOUS
<1>1. (CHOOSE j \in Jobs : TRUE) \in Job
  BY JobsAssumption DEF WellFormed
<1>2. tuples \in [Users -> SUBSET Grants]
  BY DEF Init
<1>3. doc \in [Users -> Docs]
  <2>1. ASSUME NEW u \in Users
        PROVE  MirrorOf(tuples[u]) \in Docs
    BY <1>2, VisibleType DEF MirrorOf, Docs
  <2>2. QED
    BY <2>1 DEF Init
<1>4. /\ got \in [Reqs -> [Users -> SUBSET Grants]]
      /\ copy \in [Reqs -> [Users -> Docs]]
  BY DEF Init, Docs
<1>5. TypeOK
  BY <1>1, <1>2, <1>3, <1>4 DEF Init, TypeOK
<1>6. Phases
  BY DEF Init, Phases
<1>7. QED
  BY <1>5, <1>6 DEF TypeInv

LEMMA ServeType ==
    ASSUME TypeInv, NEW r \in Reqs, Serve(r)
    PROVE  TypeInv'
<1>1. CASE \E j \in Jobs : Accept(r, j)
  BY <1>1, AcceptType
<1>2. CASE \/ \E rel \in Relations : ReadTuples(r, rel)
           \/ ReadMongo(r)
           \/ \E u \in Users : ReadAssigners(r, u)
  BY <1>2, QueriesType
<1>3. CASE Check(r)
  BY <1>3, CheckType
<1>4. CASE SendChunk(r)
  BY <1>4, SendChunkType
<1>5. CASE Insert(r) \/ Update(r) \/ FindDoc(r) \/ Remove(r) \/ ReadBack(r)
  BY <1>5, MirrorType
<1>6. CASE UndoChunk(r)
  BY <1>6, UndoChunkType
<1>7. CASE \E u \in Users : SyncSave(r, u)
  BY <1>7, SyncSaveType
<1>8. CASE SyncDelete(r)
  BY <1>8, SyncDeleteType
<1>9. QED
  BY <1>1, <1>2, <1>3, <1>4, <1>5, <1>6, <1>7, <1>8 DEF Serve

LEMMA TypeNext == TypeInv /\ [Next]_vars => TypeInv'
<1> SUFFICES ASSUME TypeInv, [Next]_vars PROVE TypeInv'
  OBVIOUS
<1>1. CASE UNCHANGED vars
  BY <1>1 DEF TypeInv, TypeOK, Phases, vars, locals
<1>2. CASE \E r \in Reqs : Serve(r)
  BY <1>2, ServeType
<1>3. CASE Crash
  BY <1>3, CrashType
<1>4. QED
  BY <1>1, <1>2, <1>3 DEF Next, Idle

LEMMA TypeInvariant == Spec => []TypeInv
  BY TypeInit, TypeNext, PTL DEF Spec

\* Every variable keeps its type: what a request knows, sends and takes back
\* are grants, whatever overlaps, fails or crashes.
THEOREM TypeCorrect == Spec => []TypeOK
<1>1. TypeInv => TypeOK
  BY DEF TypeInv
<1>2. QED
  BY <1>1, TypeInvariant, PTL
-----------------------------------------------------------------------------
(* The grants of a user change only by what an actor with a request may *)
(* manage.                                                              *)

\* The actor of r may manage all that B changes.
MayDo(r, B) == \A x \in B : x[2] \in MayManage[job[r].by]

\* What a request sends was checked, and so was what its rollback would send;
\* while it still reads there is no rollback, so what it has read does not
\* change under one.
Checked(r) ==
    /\ MayDo(r, batch[r])
    /\ pc[r] = "send" \/ undo[r] => MayDo(r, Changes(r))
    /\ pc[r] \in Reading => ~undo[r]

PermissionInv == TypeInv /\ \A r \in Reqs : Checked(r)

\* A step of r leaves the control of the others alone.
OthersKept(r) ==
    \A q \in Reqs \ {r} :
       /\ pc'[q] = pc[q]
       /\ batch'[q] = batch[q]
       /\ undo'[q] = undo[q]
       /\ job'[q] = job[q]
       /\ got'[q] = got[q]

-----------------------------------------------------------------------------
(* The ways a call may end. *)

LEMMA OthersChecked ==
    ASSUME NEW r \in Reqs, NEW q \in Reqs \ {r}, OthersKept(r), Checked(q)
    PROVE  Checked(q)'
<1>1. Changes(q)' = Changes(q)
  BY DEF OthersKept, Changes, Target, Seen, Visible
<1>2. QED
  BY <1>1 DEF OthersKept, Checked, MayDo

LEMMA ReverseGrants ==
    ASSUME NEW r, NEW B, MayDo(r, B)
    PROVE  MayDo(r, Reverse(B))
  BY DEF MayDo, Reverse

LEMMA SameChanges ==
    ASSUME NEW r, UNCHANGED <<job, got>>
    PROVE  Changes(r)' = Changes(r)
  BY DEF Changes, Target, Seen, Visible

LEMMA ThrowChecked ==
    ASSUME TypeOK, NEW r \in Reqs, Checked(r), Throw(r), UNCHANGED job
    PROVE  Checked(r)'
<1>1. undo'[r] = FALSE /\ pc'[r] # "send"
  BY DEF Throw, TypeOK
<1>2. batch'[r] = IF undo[r] THEN Reverse(Changes(r)) ELSE {}
  BY DEF Throw, TypeOK
<1>3. MayDo(r, batch'[r])
  <2>1. CASE undo[r]
    BY <1>2, <2>1, ReverseGrants DEF Checked
  <2>2. CASE ~undo[r]
    BY <1>2, <2>2 DEF MayDo
  <2>3. QED
    BY <2>1, <2>2
<1>4. QED
  BY <1>1, <1>3 DEF Checked, MayDo

LEMMA ProceedChecked ==
    ASSUME TypeOK, NEW r \in Reqs, Checked(r), NEW next, next # "send",
           Proceed(r, next), UNCHANGED job,
           UNCHANGED got \/ ~undo[r],
           next \in Reading => ~undo[r]
    PROVE  Checked(r)'
<1>1. pc'[r] = next /\ undo'[r] = undo[r] /\ batch'[r] = batch[r]
  BY DEF Proceed, TypeOK
<1>2. undo[r] => Changes(r)' = Changes(r)
  BY SameChanges
<1>3. QED
  BY <1>1, <1>2 DEF Checked, MayDo

LEMMA ControlOthers ==
    ASSUME TypeOK, NEW r \in Reqs, UNCHANGED <<job, got>>,
           Throw(r) \/ \E next : Proceed(r, next)
    PROVE  OthersKept(r)
  BY DEF OthersKept, Throw, Proceed, TypeOK

\* A call on the mirror.
LEMMA MirrorCall ==
    ASSUME TypeOK, NEW r \in Reqs, Checked(r), NEW next,
           next \notin {"send"} \cup Reading,
           NEW ok, NEW new, Read(r, ok, next) \/ WriteDoc(r, ok, new, next),
           UNCHANGED <<job, got>>
    PROVE  Checked(r)' /\ OthersKept(r) /\ UNCHANGED tuples
<1>1. Throw(r) \/ Proceed(r, next)
  BY DEF Read, WriteDoc
<1>2. Checked(r)'
  BY <1>1, ThrowChecked, ProceedChecked
<1>3. OthersKept(r)
  BY <1>1, ControlOthers
<1>4. UNCHANGED tuples
  BY DEF Read, WriteDoc
<1>5. QED
  BY <1>2, <1>3, <1>4

-----------------------------------------------------------------------------
(* The steps of a request. *)

LEMMA AcceptChecked ==
    ASSUME TypeOK, NEW r \in Reqs, NEW j \in Jobs, Accept(r, j)
    PROVE  Checked(r)' /\ OthersKept(r) /\ UNCHANGED tuples
<1>1. batch'[r] = {} /\ undo'[r] = FALSE /\ pc'[r] # "send"
  BY DEF Accept, TypeOK
<1>2. Checked(r)'
  BY <1>1 DEF Checked, MayDo
<1>3. OthersKept(r) /\ UNCHANGED tuples
  BY DEF OthersKept, Accept, TypeOK
<1>4. QED
  BY <1>2, <1>3

LEMMA AnswerChecked ==
    ASSUME TypeOK, NEW r \in Reqs, Checked(r), pc[r] \in Reading,
           NEW q, NEW G, NEW D, Answer(r, q, G, D)
    PROVE  Checked(r)' /\ OthersKept(r) /\ UNCHANGED tuples
<1>1. ~undo[r] /\ UNCHANGED <<tuples, job>>
  BY DEF Checked, Answer
<1>2. Throw(r) \/ \E next : next # "send" /\ Proceed(r, next)
  BY DEF Answer, Joined, Reading
<1>3. got' = [got EXCEPT ![r] = G] \/ UNCHANGED got
  BY DEF Answer
<1>4. Checked(r)'
  BY <1>1, <1>2, ThrowChecked, ProceedChecked
<1>5. OthersKept(r)
  BY <1>1, <1>2, <1>3 DEF OthersKept, Throw, Proceed, TypeOK
<1>6. QED
  BY <1>1, <1>4, <1>5

LEMMA CheckChecked ==
    ASSUME TypeOK, NEW r \in Reqs, Checked(r), Check(r)
    PROVE  Checked(r)' /\ OthersKept(r) /\ UNCHANGED tuples
<1>1. UNCHANGED <<tuples, job, got, undo>>
  BY DEF Check, locals
<1>2. Changes(r)' = Changes(r)
  BY <1>1, SameChanges
<1>3. CASE pc'[r] = "send"
  <2>1. AsksFor(r) \subseteq MayManage[job[r].by] /\ batch'[r] = Changes(r)
    BY <1>3 DEF Check, TypeOK
  <2>2. MayDo(r, Changes(r))
    BY <2>1 DEF MayDo, AsksFor
  <2>3. QED
    BY <1>1, <1>2, <1>3, <2>1, <2>2 DEF Checked, MayDo, Reading, OthersKept, Check, TypeOK
<1>4. CASE pc'[r] # "send"
  <2>1. pc'[r] \in {"readBack", "failed"} /\ batch' = batch
    BY <1>4 DEF Check, TypeOK
  <2>2. Checked(r)'
    BY <1>1, <1>2, <2>1 DEF Checked, MayDo, Reading
  <2>3. OthersKept(r)
    BY <1>1, <2>1 DEF OthersKept, Check, TypeOK
  <2>4. QED
    BY <1>1, <2>2, <2>3
<1>5. QED
  BY <1>3, <1>4

\* The changes of the user's grants that a request makes are among those it may.
WithinPermissions(r) ==
    \A u \in Users : tuples'[u] # tuples[u] =>
       /\ r \in InFlight
       /\ job[r].u = u
       /\ (tuples[u] \ tuples'[u]) \cup (tuples'[u] \ tuples[u]) \subseteq MayManage[job[r].by]

LEMMA WrittenWithin ==
    ASSUME TypeOK, NEW r \in Reqs, r \in InFlight, MayDo(r, batch[r]),
           NEW C \in SUBSET batch[r], tuples' = WithChanges(job[r].u, C)
    PROVE  WithinPermissions(r)
<1> SUFFICES ASSUME NEW u \in Users, tuples'[u] # tuples[u]
             PROVE  /\ job[r].u = u
                    /\ (tuples[u] \ tuples'[u]) \cup (tuples'[u] \ tuples[u])
                          \subseteq MayManage[job[r].by]
  BY DEF WithinPermissions
<1>1. job[r].u = u /\ tuples'[u] = (tuples[u] \ GrantsIn(C, "delete")) \cup GrantsIn(C, "write")
  BY DEF WithChanges, TypeOK
<1>2. \A o : GrantsIn(C, o) \subseteq MayManage[job[r].by]
  BY DEF MayDo, GrantsIn
<1>3. QED
  BY <1>1, <1>2

LEMMA SendChecked ==
    ASSUME TypeInv, NEW r \in Reqs, Checked(r), SendChunk(r)
    PROVE  Checked(r)' /\ OthersKept(r) /\ WithinPermissions(r)
<1> USE DEF TypeInv
<1>1. UNCHANGED <<job, got>> /\ pc[r] = "send" /\ r \in InFlight
  BY DEF SendChunk, locals, InFlight, Calls
<1>2. PICK C \in SUBSET batch[r] :
         \/ tuples' = WithChanges(job[r].u, C) /\ Sent(r, C)
         \/ tuples' = WithChanges(job[r].u, C) /\ Throw(r)
         \/ UNCHANGED tuples /\ Throw(r)
  BY DEF SendChunk
<1>3. WithinPermissions(r)
  <2>1. CASE UNCHANGED tuples
    BY <2>1 DEF WithinPermissions
  <2>2. CASE tuples' = WithChanges(job[r].u, C)
    BY <1>1, <2>2, WrittenWithin DEF Checked
  <2>3. QED
    BY <1>2, <2>1, <2>2
<1>4. CASE Throw(r)
  BY <1>1, <1>3, <1>4, ThrowChecked, ControlOthers
<1>5. CASE Sent(r, C)
  <2>1. batch'[r] = batch[r] \ C /\ pc'[r] \notin Reading
    BY <1>1, <1>5, AfterSendType DEF Sent, TypeOK, Reading
  <2>2. Changes(r)' = Changes(r)
    BY <1>1, SameChanges
  <2>3. MayDo(r, Changes(r)) /\ MayDo(r, batch[r])
    BY <1>1 DEF Checked
  <2>4. Checked(r)'
    BY <1>1, <2>1, <2>2, <2>3 DEF Checked, MayDo
  <2>5. OthersKept(r)
    BY <1>1, <1>5 DEF OthersKept, Sent, TypeOK
  <2>6. QED
    BY <1>3, <2>4, <2>5
<1>6. QED
  BY <1>2, <1>4, <1>5

LEMMA UndoChecked ==
    ASSUME TypeInv, NEW r \in Reqs, Checked(r), UndoChunk(r)
    PROVE  Checked(r)' /\ OthersKept(r) /\ WithinPermissions(r)
<1> USE DEF TypeInv
<1>1. UNCHANGED <<job, got, undo>> /\ pc[r] = "rollback" /\ r \in InFlight
  BY DEF UndoChunk, locals, InFlight
<1>2. PICK C \in SUBSET batch[r] :
         \/ /\ tuples' = WithChanges(job[r].u, C)
            /\ batch' = [batch EXCEPT ![r] = @ \ C]
            /\ pc' = [pc EXCEPT ![r] = IF C = batch[r] THEN "failed" ELSE "rollback"]
         \/ /\ UNCHANGED tuples
            /\ batch' = [batch EXCEPT ![r] = {}]
            /\ pc' = [pc EXCEPT ![r] = "failed"]
  BY DEF UndoChunk
<1>3. WithinPermissions(r)
  <2>1. CASE UNCHANGED tuples
    BY <2>1 DEF WithinPermissions
  <2>2. CASE tuples' = WithChanges(job[r].u, C)
    BY <1>1, <2>2, WrittenWithin DEF Checked
  <2>3. QED
    BY <1>2, <2>1, <2>2
<1>4. batch'[r] \subseteq batch[r] /\ pc'[r] \notin {"send"} \cup Reading
  BY <1>2 DEF TypeOK, Reading
<1>5. Checked(r)'
  BY <1>1, <1>4, SameChanges DEF Checked, MayDo
<1>6. OthersKept(r)
  BY <1>1, <1>2 DEF OthersKept, TypeOK
<1>7. QED
  BY <1>3, <1>5, <1>6

LEMMA ServeChecked ==
    ASSUME PermissionInv, NEW r \in Reqs, Serve(r)
    PROVE  Checked(r)' /\ OthersKept(r) /\ WithinPermissions(r)
<1> USE DEF PermissionInv, TypeInv
<1>1. UNCHANGED tuples => WithinPermissions(r)
  BY DEF WithinPermissions
<1>2. {"done", "readBack", "remove", "syncSave", "syncDelete"} \cap ({"send"} \cup Reading) = {}
  BY DEF Reading
<1>3. CASE \E j \in Jobs : Accept(r, j)
  BY <1>1, <1>3, AcceptChecked
<1>4. CASE \/ \E rel \in Relations : ReadTuples(r, rel)
           \/ ReadMongo(r)
           \/ \E u \in Users : ReadAssigners(r, u)
  <2>1. pc[r] \in Reading /\ \E q, G, D : Answer(r, q, G, D)
    BY <1>4 DEF ReadTuples, ReadMongo, ReadAssigners, Reading
  <2>2. QED
    BY <1>1, <2>1, AnswerChecked
<1>5. CASE Check(r)
  BY <1>1, <1>5, CheckChecked
<1>6. CASE SendChunk(r)
  BY <1>6, SendChecked
<1>7. CASE UndoChunk(r)
  BY <1>7, UndoChecked
<1>8. CASE \/ Insert(r) \/ Update(r) \/ FindDoc(r) \/ Remove(r)
           \/ \E u \in Users : SyncSave(r, u)
           \/ SyncDelete(r)
  <2>1. /\ UNCHANGED <<job, got>>
        /\ \E next \in {"done", "readBack", "remove", "syncSave", "syncDelete"} :
              \E ok, new : Read(r, ok, next) \/ WriteDoc(r, ok, new, next)
    BY <1>8 DEF Insert, Update, FindDoc, Remove, SyncSave, SyncDelete, locals
  <2>2. QED
    BY <1>1, <1>2, <2>1, MirrorCall
<1>9. CASE ReadBack(r)
  <2>1. UNCHANGED <<job, got>>
    BY <1>9 DEF ReadBack, locals
  <2>2. CASE \E ok : Read(r, ok, "done")
    BY <1>1, <1>2, <2>1, <2>2, MirrorCall
  <2>3. CASE /\ UNCHANGED <<tuples, batch, undo>>
             /\ \E s \in {"done", "failed"} : pc' = [pc EXCEPT ![r] = s]
    <3>1. pc'[r] \notin {"send"} \cup Reading
      BY <2>3 DEF TypeOK, Reading
    <3>2. Checked(r)'
      BY <2>1, <2>3, <3>1, SameChanges DEF Checked, MayDo
    <3>3. OthersKept(r)
      BY <2>1, <2>3 DEF OthersKept, TypeOK
    <3>4. QED
      BY <1>1, <2>3, <3>2, <3>3
  <2>4. QED
    BY <1>9, <2>2, <2>3 DEF ReadBack
<1>10. QED
  BY <1>3, <1>4, <1>5, <1>6, <1>7, <1>8, <1>9 DEF Serve

-----------------------------------------------------------------------------
(* The invariant and the theorem. *)

LEMMA PermissionInit == Init => PermissionInv
<1> SUFFICES ASSUME Init PROVE PermissionInv
  OBVIOUS
<1>1. \A r \in Reqs : Checked(r)
  BY DEF Init, Checked, MayDo
<1>2. QED
  BY <1>1, TypeInit DEF PermissionInv

LEMMA PermissionNext ==
    PermissionInv /\ [Next]_vars =>
       /\ PermissionInv'
       /\ UNCHANGED tuples \/ \E r \in Reqs : WithinPermissions(r)
<1> SUFFICES ASSUME PermissionInv, [Next]_vars
             PROVE  /\ \A q \in Reqs : Checked(q)'
                    /\ UNCHANGED tuples \/ \E r \in Reqs : WithinPermissions(r)
  BY TypeNext DEF PermissionInv
<1>1. CASE UNCHANGED vars
  BY <1>1, SameChanges DEF PermissionInv, Checked, MayDo, vars, locals
<1>2. CASE \E r \in Reqs : Serve(r)
  BY <1>2, ServeChecked, OthersChecked DEF PermissionInv
<1>3. CASE Crash
  <2>1. /\ UNCHANGED <<tuples, job, got>>
        /\ \A q \in Reqs : batch'[q] = {} /\ undo'[q] = FALSE /\ pc'[q] # "send"
    BY <1>3 DEF Crash, locals, InFlight, Calls
  <2>2. QED
    BY <2>1 DEF Checked, MayDo
<1>4. QED
  BY <1>1, <1>2, <1>3 DEF Next, Idle

\* Whatever overlaps, is refused, is lost or crashes, rollbacks included, the
\* grants of a user change only in a step of a request about that user whose
\* actor may manage all that changes.
THEOREM OnlyPermittedChanges == Spec => OnlyPermitted
<1>1. PermissionInv /\ [Next]_vars =>
         [\A u \in Users : tuples'[u] # tuples[u] =>
             \E r \in InFlight :
                /\ job[r].u = u
                /\ (tuples[u] \ tuples'[u]) \cup (tuples'[u] \ tuples[u])
                      \subseteq MayManage[job[r].by]]_vars
  BY PermissionNext DEF WithinPermissions
<1>2. PermissionInv /\ [Next]_vars => PermissionInv'
  BY PermissionNext
<1>3. QED
  BY <1>1, <1>2, PermissionInit, PTL DEF Spec, OnlyPermitted
-----------------------------------------------------------------------------
(* A sync that nothing overlaps restores the mirror. *)

SyncCalls == {"syncRead", "syncRoles", "syncAssigners", "syncSave", "syncDelete"}

\* A sync is in calls of its own and has no rollback, and no other request is in them.
SyncPhase(r) ==
    r \in InFlight =>
       IF job[r].op = "sync" THEN pc[r] \in SyncCalls /\ ~undo[r] ELSE pc[r] \notin SyncCalls

\* Of the grants in S, r knows what the users in W have.
Known(r, W, S) == \A u \in W : tuples[u] \cap S \subseteq got[r][u]

Related(rel) == {g \in Grants : Relation[g] = rel}

Relevant == Attributes \cup RoleGrants

\* What the document of a user is to become.
Row(r, u, W) == IF u \in W THEN Visible(tuples[u]) ELSE copy[r][u]

\* What a sync knows at each of its calls, and what of it is written.
SyncReads(r) ==
    /\ todo[r] \subseteq RelationsOf(Attributes) \cup {"mongo"}
    /\ \A rel \in RelationsOf(Attributes) \ todo[r] : Known(r, Users, Related(rel))
    /\ "mongo" \notin todo[r] => copy[r] = doc

SyncAsksRoles(r) ==
    /\ copy[r] = doc /\ Known(r, Users, Attributes)
    /\ todo[r] \subseteq RelationsOf(RoleGrants)
    /\ \A rel \in RelationsOf(RoleGrants) \ todo[r] : Known(r, Users, Related(rel))

SyncAsksAssigners(r) ==
    /\ copy[r] = doc /\ Known(r, Users, Relevant)
    /\ todo[r] \subseteq Listed(tuples)
    /\ Known(r, Listed(tuples) \ todo[r], Grants)

SyncSaves(r) ==
    /\ Known(r, Users, Relevant) /\ Known(r, Listed(tuples), Grants)
    /\ todo[r] \subseteq Listed(tuples)
    /\ \A u \in Users : doc[u] = Row(r, u, Listed(tuples) \ todo[r])

SyncDeletes(r) ==
    /\ Known(r, Users, Relevant)
    /\ \A u \in Users : doc[u] = Row(r, u, Listed(tuples))

SyncKnows(r) ==
    /\ InFlight = {r}
    /\ \A u \in Users : got[r][u] \subseteq tuples[u]
    /\ pc[r] = "syncRead" => SyncReads(r)
    /\ pc[r] = "syncRoles" => SyncAsksRoles(r)
    /\ pc[r] = "syncAssigners" => SyncAsksAssigners(r)
    /\ pc[r] = "syncSave" => SyncSaves(r)
    /\ pc[r] = "syncDelete" => SyncDeletes(r)

SyncInv ==
    /\ PermissionInv
    /\ \A r \in Reqs : SyncPhase(r)
    /\ \A r \in InFlight : job[r].op = "sync" => SyncKnows(r)

-----------------------------------------------------------------------------
(* What is known of the grants of a user. *)

LEMMA KnownSet ==
    ASSUME NEW G \in SUBSET Grants, NEW H \in SUBSET G, G \cap Relevant \subseteq H
    PROVE  IsSet(H) <=> IsSet(G)
  BY DEF IsSet, Relevant

LEMMA KnownListed ==
    ASSUME NEW T \in [Users -> SUBSET Grants], NEW G \in [Users -> SUBSET Grants],
           \A u \in Users : G[u] \subseteq T[u] /\ T[u] \cap Relevant \subseteq G[u]
    PROVE  Listed(G) = Listed(T)
<1>1. ASSUME NEW u \in Users
      PROVE  IsSet(G[u]) <=> IsSet(T[u])
  BY KnownSet
<1>2. QED
  BY <1>1 DEF Listed

\* What is known for every relation of S is known for S.
LEMMA RelationsKnown ==
    ASSUME NEW S \in SUBSET Grants, NEW G, NEW H,
           \A rel \in RelationsOf(S) : G \cap Related(rel) \subseteq H
    PROVE  G \cap S \subseteq H
<1> SUFFICES ASSUME NEW g \in G \cap S
             PROVE  g \in H
  OBVIOUS
<1>1. Relation[g] \in RelationsOf(S) /\ g \in Related(Relation[g])
  BY DEF RelationsOf, Related
<1>2. QED
  BY <1>1

\* bulkSave into a document that is as it was read writes what it was to write.
LEMMA SavedNew ==
    ASSUME NEW old \in SUBSET Grants, NEW new \in SUBSET Grants
    PROVE  Saved(old, old, new) = new
<1>1. CASE (old \cup new) \subseteq Attributes
  BY <1>1 DEF Saved
<1>2. CASE ~((old \cup new) \subseteq Attributes)
  BY <1>2 DEF Saved
<1>3. QED
  BY <1>1, <1>2
-----------------------------------------------------------------------------
(* Who moves while a sync is served. *)

LEMMA ServedInFlight ==
    ASSUME TypeOK, NEW r \in Reqs, Serve(r)
    PROVE  r \in InFlight \/ \E j \in Jobs : Accept(r, j)
  BY DEF Serve, ReadTuples, ReadMongo, Check, SendChunk, Insert, Update, FindDoc, Remove,
         ReadBack, UndoChunk, ReadAssigners, SyncSave, SyncDelete, InFlight, Calls

LEMMA AcceptedInFlight ==
    ASSUME TypeOK, NEW r \in Reqs, NEW j \in Jobs, Accept(r, j)
    PROVE  /\ r \in InFlight' /\ r \notin InFlight
           /\ pc'[r] = IF j.op = "sync" THEN "syncRead" ELSE "readUser"
           /\ job'[r] = j /\ undo'[r] = FALSE /\ todo'[r] = FirstQueries(j.op)
           /\ got'[r] = [u \in Users |-> {}]
           /\ UNCHANGED <<tuples, doc>>
  BY DEF Accept, InFlight, Calls, TypeOK

\* A request that has thrown without a rollback is over.
LEMMA ThrownOver ==
    ASSUME TypeOK, NEW r \in Reqs, ~undo[r], Throw(r)
    PROVE  pc'[r] = "failed" /\ undo'[r] = FALSE /\ r \notin InFlight'
  BY DEF Throw, TypeOK, InFlight, Calls

LEMMA AnswerPhase ==
    ASSUME SyncInv, NEW r \in Reqs, r \in InFlight, pc[r] \in Reading,
           NEW q, NEW G, NEW D, Answer(r, q, G, D)
    PROVE  SyncPhase(r)'
<1>1. TypeOK /\ ~undo[r] /\ SyncPhase(r) /\ UNCHANGED job
  BY DEF SyncInv, PermissionInv, TypeInv, Checked, Answer
<1>2. CASE Throw(r)
  BY <1>1, <1>2, ThrownOver DEF SyncPhase
<1>3. CASE Proceed(r, pc[r])
  BY <1>1, <1>3 DEF Proceed, TypeOK, SyncPhase, InFlight
<1>4. CASE Joined(r, G, D)
  <2>1. \/ Throw(r)
        \/ pc[r] = "readUser" /\ Proceed(r, "check")
        \/ pc[r] # "readUser" /\ \E s \in SyncCalls : Proceed(r, s)
    BY <1>4 DEF Joined, SyncCalls
  <2>2. pc[r] = "readUser" <=> job[r].op # "sync"
    BY <1>1 DEF SyncPhase, SyncCalls, Reading
  <2>3. QED
    BY <1>1, <1>2, <2>1, <2>2 DEF Proceed, TypeOK, SyncPhase, SyncCalls
<1>5. QED
  BY <1>2, <1>3, <1>4 DEF Answer

\* A step of a request that is not a sync, into a call that is not one of a sync.
LEMMA OtherPhase ==
    ASSUME TypeOK, NEW r \in Reqs, r \in InFlight, SyncPhase(r), pc[r] \notin SyncCalls,
           UNCHANGED job, NEW s, s \notin SyncCalls, pc' = [pc EXCEPT ![r] = s]
    PROVE  SyncPhase(r)'
  BY DEF SyncPhase, TypeOK

LEMMA CallPhase ==
    ASSUME TypeOK, NEW r \in Reqs, r \in InFlight, SyncPhase(r), pc[r] \notin SyncCalls,
           UNCHANGED job, NEW next, next \notin SyncCalls, NEW ok, NEW new,
           Read(r, ok, next) \/ WriteDoc(r, ok, new, next)
    PROVE  SyncPhase(r)'
<1>1. Throw(r) \/ Proceed(r, next)
  BY DEF Read, WriteDoc
<1>2. \E s : s \notin SyncCalls /\ pc' = [pc EXCEPT ![r] = s]
  BY <1>1 DEF Throw, Proceed, SyncCalls
<1>3. QED
  BY <1>2, OtherPhase

LEMMA ServePhase ==
    ASSUME SyncInv, NEW r \in Reqs, Serve(r)
    PROVE  SyncPhase(r)'
<1>0. TypeInv /\ TypeOK /\ SyncPhase(r)
  BY DEF SyncInv, PermissionInv, TypeInv
<1>1. CASE \E j \in Jobs : Accept(r, j)
  BY <1>0, <1>1, AcceptedInFlight DEF SyncPhase, SyncCalls
<1> SUFFICES ASSUME r \in InFlight PROVE SyncPhase(r)'
  BY <1>0, <1>1, ServedInFlight
<1>2. CASE \/ \E rel \in Relations : ReadTuples(r, rel)
           \/ ReadMongo(r)
           \/ \E u \in Users : ReadAssigners(r, u)
  <2>1. pc[r] \in Reading /\ \E q, G, D : Answer(r, q, G, D)
    BY <1>2 DEF ReadTuples, ReadMongo, ReadAssigners, Reading
  <2>2. QED
    BY <2>1, AnswerPhase
<1>3. CASE Check(r)
  <2>1. \E s : s \notin SyncCalls /\ pc' = [pc EXCEPT ![r] = s]
    BY <1>3 DEF Check, SyncCalls
  <2>2. QED
    BY <1>0, <1>3, <2>1, OtherPhase DEF Check, SyncCalls, locals
<1>4. CASE SendChunk(r)
  <2>1. AfterSend[job[r].op] \notin SyncCalls
    BY <1>0, <1>4, AfterSendType DEF SendChunk, SyncCalls
  <2>2. \E s : s \notin SyncCalls /\ pc' = [pc EXCEPT ![r] = s]
    BY <1>4, <2>1 DEF SendChunk, Sent, Throw, SyncCalls
  <2>3. QED
    BY <1>0, <1>4, <2>2, OtherPhase DEF SendChunk, SyncCalls, locals
<1>5. CASE UndoChunk(r)
  <2>1. \E s : s \notin SyncCalls /\ pc' = [pc EXCEPT ![r] = s]
    BY <1>5 DEF UndoChunk, SyncCalls
  <2>2. QED
    BY <1>0, <1>5, <2>1, OtherPhase DEF UndoChunk, SyncCalls, locals
<1>6. CASE Insert(r) \/ Update(r) \/ FindDoc(r) \/ Remove(r)
  <2>1. /\ UNCHANGED job /\ pc[r] \notin SyncCalls
        /\ \E next \in {"done", "readBack", "remove"} :
              \E ok, new : Read(r, ok, next) \/ WriteDoc(r, ok, new, next)
    BY <1>6 DEF Insert, Update, FindDoc, Remove, locals, SyncCalls
  <2>2. {"done", "readBack", "remove"} \cap SyncCalls = {}
    BY DEF SyncCalls
  <2>3. QED
    BY <1>0, <2>1, <2>2, CallPhase
<1>7. CASE ReadBack(r)
  <2>1. UNCHANGED job /\ pc[r] \notin SyncCalls
    BY <1>7 DEF ReadBack, locals, SyncCalls
  <2>2. CASE \E ok : Read(r, ok, "done")
    BY <1>0, <2>1, <2>2, CallPhase DEF SyncCalls
  <2>3. CASE \E s \in {"done", "failed"} : pc' = [pc EXCEPT ![r] = s]
    BY <1>0, <2>1, <2>3, OtherPhase DEF SyncCalls
  <2>4. QED
    BY <1>7, <2>2, <2>3 DEF ReadBack
<1>8. CASE (\E u \in Users : SyncSave(r, u)) \/ SyncDelete(r)
  <2>1. /\ UNCHANGED job /\ pc[r] \in SyncCalls
        /\ \E next \in {"done", "syncSave", "syncDelete"} :
              \E ok, new : WriteDoc(r, ok, new, next)
    BY <1>8 DEF SyncSave, SyncDelete, locals, SyncCalls
  <2>2. job[r].op = "sync" /\ ~undo[r]
    BY <1>0, <2>1 DEF SyncPhase
  <2>3. Throw(r) \/ \E next \in {"done", "syncSave", "syncDelete"} : Proceed(r, next)
    BY <2>1 DEF WriteDoc
  <2>4. CASE Throw(r)
    BY <1>0, <2>2, <2>4, ThrownOver DEF SyncPhase
  <2>5. CASE \E next \in {"done", "syncSave", "syncDelete"} : Proceed(r, next)
    BY <1>0, <2>1, <2>2, <2>5 DEF Proceed, TypeOK, SyncPhase, SyncCalls, InFlight, Calls
  <2>6. QED
    BY <2>3, <2>4, <2>5
<1>9. QED
  BY <1>1, <1>2, <1>3, <1>4, <1>5, <1>6, <1>7, <1>8 DEF Serve
-----------------------------------------------------------------------------
(* What a sync knows at its next call. *)

\* The step of a sync that is alone, before it is known which call it is.
Alone(r) ==
    /\ r \in InFlight /\ job[r].op = "sync" /\ SyncKnows(r)
    /\ ~undo[r] /\ pc[r] \in SyncCalls /\ InFlight' = {r}

\* What an answer teaches.
LEMMA Learns ==
    ASSUME TypeOK, NEW r \in Reqs, \A u \in Users : got[r][u] \subseteq tuples[u],
           NEW W \in SUBSET Users, NEW S,
           got' = [got EXCEPT ![r] = Learning(r, W, S)], UNCHANGED tuples
    PROVE  /\ \A u \in Users : got'[r][u] \subseteq tuples'[u]
           /\ Known(r, W, S)'
           /\ \A V \in SUBSET Users : \A T : Known(r, V, T) => Known(r, V, T)'
<1>1. got'[r] = Learning(r, W, S)
  BY DEF TypeOK
<1>2. \A u \in Users : got'[r][u] = IF u \in W THEN got[r][u] \cup (tuples[u] \cap S) ELSE got[r][u]
  BY <1>1 DEF Learning
<1>3. ASSUME NEW u \in Users PROVE got'[r][u] \subseteq tuples'[u]
  <2>1. got'[r][u] = IF u \in W THEN got[r][u] \cup (tuples[u] \cap S) ELSE got[r][u]
    BY <1>2
  <2>2. got[r][u] \subseteq tuples[u] /\ tuples'[u] = tuples[u]
    OBVIOUS
  <2>3. QED
    BY <2>1, <2>2
<1>4. ASSUME NEW u \in Users, NEW T
      PROVE  /\ tuples[u] \cap T \subseteq got[r][u] => tuples'[u] \cap T \subseteq got'[r][u]
             /\ u \in W => tuples'[u] \cap S \subseteq got'[r][u]
  <2>1. got'[r][u] = IF u \in W THEN got[r][u] \cup (tuples[u] \cap S) ELSE got[r][u]
    BY <1>2
  <2>2. tuples'[u] = tuples[u]
    OBVIOUS
  <2>3. QED
    BY <2>1, <2>2
<1>5. Known(r, W, S)'
  BY <1>4 DEF Known
<1>6. \A V \in SUBSET Users : \A T : Known(r, V, T) => Known(r, V, T)'
  BY <1>4 DEF Known
<1>7. QED
  BY <1>3, <1>5, <1>6

\* After the answer of a call that asks for relations: the rest of the step.
LEMMA AfterAnswer ==
    ASSUME TypeOK, NEW r \in Reqs, Alone(r), NEW q, NEW G, NEW D, Answer(r, q, G, D)
    PROVE  /\ UNCHANGED <<tuples, doc, job>>
           /\ got' = [got EXCEPT ![r] = G] /\ copy' = [copy EXCEPT ![r] = D]
           /\ q \in todo[r]
           /\ \/ /\ todo[r] # {q} /\ pc'[r] = pc[r] /\ todo'[r] = todo[r] \ {q}
              \/ todo[r] = {q} /\ Joined(r, G, D)
<1>1. ~Throw(r)
  BY ThrownOver DEF Alone
<1>2. QED
  BY <1>1 DEF Answer, Proceed, TypeOK

LEMMA SyncReadStep ==
    ASSUME TypeOK, NEW r \in Reqs, Alone(r), pc[r] = "syncRead",
           (\E rel \in Relations : ReadTuples(r, rel)) \/ ReadMongo(r)
    PROVE  SyncKnows(r)'
<1>1. SyncReads(r) /\ \A u \in Users : got[r][u] \subseteq tuples[u]
  BY DEF Alone, SyncKnows
<1>2. About(r) = Users
  BY DEF About, Alone
<1>3. PICK q, W, S, D :
         /\ Answer(r, q, Learning(r, W, S), D)
         /\ W \in SUBSET Users
         /\ \/ q \in Relations /\ W = Users /\ S = Related(q) /\ D = copy[r]
            \/ q = "mongo" /\ W = {} /\ S = {} /\ D = [u \in Users |-> doc[u]]
  <2>1. CASE \E rel \in Relations : ReadTuples(r, rel)
    BY <1>2, <2>1 DEF ReadTuples, Related
  <2>2. CASE ReadMongo(r)
    <3>1. Learning(r, {}, {}) = got[r]
      BY DEF Learning, TypeOK
    <3>2. [u \in Users |-> IF u \in About(r) THEN doc[u] ELSE copy[r][u]] = [u \in Users |-> doc[u]]
      BY <1>2
    <3>3. Answer(r, "mongo", Learning(r, {}, {}), [u \in Users |-> doc[u]])
      BY <2>2, <3>1, <3>2 DEF ReadMongo
    <3>4. QED
      BY <3>3
  <2>3. QED
    BY <2>1, <2>2
<1> DEFINE G == Learning(r, W, S)
<1>4. /\ UNCHANGED <<tuples, doc, job>>
      /\ got' = [got EXCEPT ![r] = G] /\ copy' = [copy EXCEPT ![r] = D]
      /\ q \in todo[r]
      /\ \/ /\ todo[r] # {q} /\ pc'[r] = pc[r] /\ todo'[r] = todo[r] \ {q}
         \/ todo[r] = {q} /\ Joined(r, G, D)
  BY <1>3, AfterAnswer
<1>5. /\ \A u \in Users : got'[r][u] \subseteq tuples'[u]
      /\ Known(r, W, S)'
      /\ \A V \in SUBSET Users : \A T : Known(r, V, T) => Known(r, V, T)'
  BY <1>1, <1>3, <1>4, Learns
<1>6. "mongo" \notin todo[r] \ {q} => copy'[r] = doc'
  <2>1. [u \in Users |-> doc[u]] = doc /\ copy'[r] = D
    BY <1>4 DEF TypeOK
  <2>2. q \in Relations => q # "mongo"
    BY QueriesAssumption
  <2>3. QED
    BY <1>1, <1>3, <1>4, <2>1, <2>2 DEF SyncReads
<1>7. \A rel \in RelationsOf(Attributes) \ (todo[r] \ {q}) : Known(r, Users, Related(rel))'
  <2>1. RelationsOf(Attributes) \subseteq Relations
    BY DEF RelationsOf, Relations, Grants
  <2> SUFFICES ASSUME NEW rel \in RelationsOf(Attributes) \ (todo[r] \ {q})
               PROVE  Known(r, Users, Related(rel))'
    OBVIOUS
  <2>2. CASE rel \notin todo[r]
    BY <1>1, <1>5, <2>2 DEF SyncReads
  <2>3. CASE rel = q
    <3>1. q # "mongo"
      BY <2>1, <2>3, QueriesAssumption
    <3>2. QED
      BY <1>3, <1>5, <2>3, <3>1
  <2>4. QED
    BY <2>2, <2>3
<1>8. CASE todo[r] # {q} /\ pc'[r] = pc[r] /\ todo'[r] = todo[r] \ {q}
  <2>1. SyncReads(r)'
    BY <1>1, <1>6, <1>7, <1>8 DEF SyncReads
  <2>2. QED
    BY <1>5, <1>8, <2>1 DEF SyncKnows, Alone
<1>9. CASE todo[r] = {q} /\ Joined(r, G, D)
  <2>1. Proceed(r, "syncRoles") /\ todo' = [todo EXCEPT ![r] = RelationsOf(RoleGrants)]
    BY <1>9 DEF Joined
  <2>2. pc'[r] = "syncRoles" /\ todo'[r] = RelationsOf(RoleGrants)
    BY <2>1 DEF Proceed, TypeOK
  <2>3. Known(r, Users, Attributes)'
    <3>1. \A rel \in RelationsOf(Attributes) : Known(r, Users, Related(rel))'
      BY <1>7, <1>9
    <3>2. Attributes \in SUBSET Grants
      BY DEF Grants
    <3>3. ASSUME NEW u \in Users PROVE tuples'[u] \cap Attributes \subseteq got'[r][u]
      BY <3>1, <3>2, RelationsKnown DEF Known
    <3>4. QED
      BY <3>3 DEF Known
  <2>4. SyncAsksRoles(r)'
    BY <1>6, <1>9, <2>2, <2>3 DEF SyncAsksRoles
  <2>5. QED
    BY <1>5, <2>2, <2>4 DEF SyncKnows, Alone
<1>10. QED
  BY <1>4, <1>8, <1>9
LEMMA SyncRolesStep ==
    ASSUME TypeOK, NEW r \in Reqs, Alone(r), pc[r] = "syncRoles",
           NEW q \in Relations, ReadTuples(r, q)
    PROVE  SyncKnows(r)'
<1>1. SyncAsksRoles(r) /\ \A u \in Users : got[r][u] \subseteq tuples[u]
  BY DEF Alone, SyncKnows
<1> DEFINE G == Learning(r, Users, Related(q))
<1>2. Answer(r, q, G, copy[r])
  BY DEF ReadTuples, Related, About, Alone
<1>3. /\ UNCHANGED <<tuples, doc, job>>
      /\ got' = [got EXCEPT ![r] = G] /\ copy' = [copy EXCEPT ![r] = copy[r]]
      /\ q \in todo[r]
      /\ \/ /\ todo[r] # {q} /\ pc'[r] = pc[r] /\ todo'[r] = todo[r] \ {q}
         \/ todo[r] = {q} /\ Joined(r, G, copy[r])
  BY <1>2, AfterAnswer
<1>4. /\ \A u \in Users : got'[r][u] \subseteq tuples'[u]
      /\ Known(r, Users, Related(q))'
      /\ \A V \in SUBSET Users : \A T : Known(r, V, T) => Known(r, V, T)'
  BY <1>1, <1>3, Learns
<1>5. copy'[r] = doc' /\ Known(r, Users, Attributes)'
  BY <1>1, <1>3, <1>4 DEF SyncAsksRoles, TypeOK
<1>6. \A rel \in RelationsOf(RoleGrants) \ (todo[r] \ {q}) : Known(r, Users, Related(rel))'
  BY <1>1, <1>4 DEF SyncAsksRoles
<1>7. CASE todo[r] # {q} /\ pc'[r] = pc[r] /\ todo'[r] = todo[r] \ {q}
  <2>1. SyncAsksRoles(r)'
    BY <1>1, <1>5, <1>6, <1>7 DEF SyncAsksRoles
  <2>2. QED
    BY <1>4, <1>7, <2>1 DEF SyncKnows, Alone
<1>8. CASE todo[r] = {q} /\ Joined(r, G, copy[r])
  <2>1. Known(r, Users, Relevant)'
    <3>1. RoleGrants \in SUBSET Grants
      BY DEF Grants
    <3>2. ASSUME NEW u \in Users PROVE tuples'[u] \cap RoleGrants \subseteq got'[r][u]
      <4>1. \A rel \in RelationsOf(RoleGrants) : tuples'[u] \cap Related(rel) \subseteq got'[r][u]
        BY <1>6, <1>8 DEF Known
      <4>2. QED
        BY <3>1, <4>1, RelationsKnown
    <3>3. QED
      BY <1>5, <3>2 DEF Known, Relevant
  <2>2. got'[r] = G /\ G \in [Users -> SUBSET Grants]
    BY <1>3, LearningType DEF TypeOK
  <2>3. Listed(G) = Listed(tuples')
    <3>1. tuples' \in [Users -> SUBSET Grants]
      BY <1>3 DEF TypeOK
    <3>2. \A u \in Users : G[u] \subseteq tuples'[u] /\ tuples'[u] \cap Relevant \subseteq G[u]
      BY <1>4, <2>1, <2>2 DEF Known
    <3>3. QED
      BY <2>2, <3>1, <3>2, KnownListed
  <2>4. CASE Listed(G) # {}
    <3>1. Proceed(r, "syncAssigners") /\ todo' = [todo EXCEPT ![r] = Listed(G)]
      BY <1>8, <2>4 DEF Joined
    <3>2. pc'[r] = "syncAssigners" /\ todo'[r] = Listed(tuples')
      BY <2>3, <3>1 DEF Proceed, TypeOK
    <3>3. SyncAsksAssigners(r)'
      BY <1>5, <2>1, <3>2 DEF SyncAsksAssigners, Known
    <3>4. QED
      BY <1>4, <3>2, <3>3 DEF SyncKnows, Alone
  <2>5. CASE Listed(G) = {}
    <3>1. Proceed(r, "syncDelete")
      BY <1>8, <2>5 DEF Joined
    <3>2. pc'[r] = "syncDelete"
      BY <3>1 DEF Proceed, TypeOK
    <3>3. SyncDeletes(r)'
      BY <1>5, <2>1, <2>3, <2>5 DEF SyncDeletes, Row
    <3>4. QED
      BY <1>4, <3>2, <3>3 DEF SyncKnows, Alone
  <2>6. QED
    BY <2>4, <2>5
<1>9. QED
  BY <1>3, <1>7, <1>8

LEMMA SyncAssignersStep ==
    ASSUME TypeOK, NEW r \in Reqs, Alone(r), NEW q \in Users, ReadAssigners(r, q)
    PROVE  SyncKnows(r)'
<1>1. /\ pc[r] = "syncAssigners" /\ SyncAsksAssigners(r)
      /\ \A u \in Users : got[r][u] \subseteq tuples[u]
  BY DEF Alone, SyncKnows, ReadAssigners
<1> DEFINE G == Learning(r, {q}, Assigners)
<1>2. Answer(r, q, G, copy[r])
  BY DEF ReadAssigners
<1>3. /\ UNCHANGED <<tuples, doc, job>>
      /\ got' = [got EXCEPT ![r] = G] /\ copy' = [copy EXCEPT ![r] = copy[r]]
      /\ q \in todo[r]
      /\ \/ /\ todo[r] # {q} /\ pc'[r] = pc[r] /\ todo'[r] = todo[r] \ {q}
         \/ todo[r] = {q} /\ Joined(r, G, copy[r])
  BY <1>2, AfterAnswer
<1>4. /\ \A u \in Users : got'[r][u] \subseteq tuples'[u]
      /\ Known(r, {q}, Assigners)'
      /\ \A V \in SUBSET Users : \A T : Known(r, V, T) => Known(r, V, T)'
  BY <1>1, <1>3, Learns
<1>5. copy'[r] = doc' /\ Known(r, Users, Relevant)'
  BY <1>1, <1>3, <1>4 DEF SyncAsksAssigners, TypeOK
<1>6. \A u \in Listed(tuples) \ (todo[r] \ {q}) : tuples'[u] \cap Grants \subseteq got'[r][u]
  <2>1. ASSUME NEW u \in Listed(tuples) \ todo[r]
        PROVE  tuples'[u] \cap Grants \subseteq got'[r][u]
    <3>1. u \in Users /\ Known(r, {u}, Grants)
      BY <1>1 DEF SyncAsksAssigners, Known, Listed
    <3>2. QED
      BY <1>4, <3>1 DEF Known
  <2>2. tuples'[q] \cap Grants \subseteq got'[r][q]
    BY <1>4, <1>5 DEF Known, Relevant, Grants
  <2>3. QED
    BY <2>1, <2>2
<1>7. Listed(tuples)' = Listed(tuples)
  BY <1>3 DEF Listed
<1>8. CASE todo[r] # {q} /\ pc'[r] = pc[r] /\ todo'[r] = todo[r] \ {q}
  <2>1. SyncAsksAssigners(r)'
    BY <1>1, <1>5, <1>6, <1>7, <1>8 DEF SyncAsksAssigners, Known
  <2>2. QED
    BY <1>1, <1>4, <1>8, <2>1 DEF SyncKnows, Alone
<1>9. CASE todo[r] = {q} /\ Joined(r, G, copy[r])
  <2>1. got'[r] = G /\ G \in [Users -> SUBSET Grants]
    BY <1>3, LearningType DEF TypeOK
  <2>2. Listed(G) = Listed(tuples)'
    <3>1. tuples' \in [Users -> SUBSET Grants]
      BY <1>3 DEF TypeOK
    <3>2. \A u \in Users : G[u] \subseteq tuples'[u] /\ tuples'[u] \cap Relevant \subseteq G[u]
      BY <1>4, <1>5, <2>1 DEF Known
    <3>3. QED
      BY <2>1, <3>1, <3>2, KnownListed
  <2>3. Proceed(r, "syncSave") /\ todo' = [todo EXCEPT ![r] = Listed(G)]
    BY <1>1, <1>9 DEF Joined
  <2>4. pc'[r] = "syncSave" /\ todo'[r] = Listed(tuples)'
    BY <2>2, <2>3 DEF Proceed, TypeOK
  <2>5. Known(r, Listed(tuples), Grants)'
    <3>1. \A u \in Listed(tuples)' : tuples'[u] \cap Grants \subseteq got'[r][u]
      BY <1>6, <1>7, <1>9
    <3>2. QED
      BY <3>1 DEF Known
  <2>6. SyncSaves(r)'
    BY <1>5, <2>4, <2>5 DEF SyncSaves, Row
  <2>7. QED
    BY <1>4, <2>4, <2>6 DEF SyncKnows, Alone
<1>10. QED
  BY <1>3, <1>8, <1>9
LEMMA SyncSaveStep ==
    ASSUME TypeOK, NEW r \in Reqs, Alone(r), NEW q \in Users, SyncSave(r, q)
    PROVE  SyncKnows(r)'
<1> DEFINE new == Visible(got[r][q])
           old == copy[r][q]
           row == IF old = NoDoc THEN new ELSE Saved(old, doc[q], new)
           next == IF todo[r] # {q} THEN "syncSave" ELSE "syncDelete"
<1>1. /\ pc[r] = "syncSave" /\ SyncSaves(r) /\ q \in todo[r]
      /\ \A u \in Users : got[r][u] \subseteq tuples[u]
  BY DEF Alone, SyncKnows, SyncSave
<1>2. doc[q] = old
  BY <1>1 DEF SyncSaves, Row
<1>3. got[r][q] = tuples[q] /\ tuples[q] \in SUBSET Grants
  BY <1>1 DEF SyncSaves, Known, TypeOK
<1>4. row = Visible(tuples[q])
  <2>1. Visible(tuples[q]) \in SUBSET Grants
    BY <1>3, VisibleType
  <2>2. CASE old = NoDoc
    BY <1>3, <2>2
  <2>3. CASE old # NoDoc
    <3>1. old \in SUBSET Grants
      BY <2>3 DEF TypeOK, Docs
    <3>2. QED
      BY <1>2, <1>3, <2>1, <2>3, <3>1, SavedNew
  <2>4. QED
    BY <2>2, <2>3
<1>5. WriteDoc(r, (old = NoDoc) = (doc[q] = NoDoc), WithDoc(q, row), next)
  BY DEF SyncSave
<1>6. ~Throw(r)
  BY ThrownOver DEF Alone
<1>7. UNCHANGED tuples /\ doc' = WithDoc(q, row) /\ Proceed(r, next)
  BY <1>2, <1>5, <1>6 DEF WriteDoc
<1>8. /\ pc'[r] = next /\ todo'[r] = todo[r] \ {q}
      /\ UNCHANGED <<job, got, copy>>
  BY <1>7 DEF Proceed, TypeOK, SyncSave
<1>9. Listed(tuples)' = Listed(tuples)
  BY <1>7 DEF Listed
<1>10. /\ Known(r, Users, Relevant)'
       /\ \A u \in Listed(tuples) : tuples'[u] \cap Grants \subseteq got'[r][u]
       /\ \A u \in Users : got'[r][u] \subseteq tuples'[u]
  BY <1>1, <1>7, <1>8 DEF SyncSaves, Known
<1>11. ASSUME NEW u \in Users
       PROVE  doc'[u] = IF u \in Listed(tuples) \ (todo[r] \ {q}) THEN Visible(tuples'[u])
                        ELSE copy'[r][u]
  <2>1. CASE u = q
    <3>1. doc'[u] = row
      BY <1>7, <2>1 DEF WithDoc, TypeOK
    <3>2. u \in Listed(tuples) \ (todo[r] \ {q})
      BY <1>1, <2>1 DEF SyncSaves
    <3>3. QED
      BY <1>4, <1>7, <2>1, <3>1, <3>2
  <2>2. CASE u # q
    <3>1. doc'[u] = doc[u] /\ doc[u] = Row(r, u, Listed(tuples) \ todo[r])
      BY <1>1, <1>7, <2>2 DEF WithDoc, TypeOK, SyncSaves
    <3>2. u \in Listed(tuples) \ (todo[r] \ {q}) <=> u \in Listed(tuples) \ todo[r]
      BY <2>2
    <3>3. tuples'[u] = tuples[u] /\ copy'[r][u] = copy[r][u]
      BY <1>7, <1>8
    <3>4. QED
      BY <3>1, <3>2, <3>3 DEF Row
  <2>3. QED
    BY <2>1, <2>2
<1>12. CASE todo[r] # {q}
  <2>1. Known(r, Listed(tuples), Grants)'
    BY <1>9, <1>10 DEF Known
  <2>2. todo'[r] \subseteq Listed(tuples)'
    BY <1>1, <1>8, <1>9 DEF SyncSaves
  <2>3. \A u \in Users : doc'[u] = Row(r, u, Listed(tuples) \ todo[r])'
    BY <1>8, <1>9, <1>11 DEF Row
  <2>4. SyncSaves(r)'
    BY <1>10, <2>1, <2>2, <2>3 DEF SyncSaves
  <2>5. QED
    BY <1>8, <1>10, <1>12, <2>4 DEF SyncKnows, Alone
<1>13. CASE todo[r] = {q}
  <2>1. \A u \in Users : doc'[u] = Row(r, u, Listed(tuples))'
    BY <1>9, <1>11, <1>13 DEF Row
  <2>2. SyncDeletes(r)'
    BY <1>10, <2>1 DEF SyncDeletes
  <2>3. QED
    BY <1>8, <1>10, <1>13, <2>2 DEF SyncKnows, Alone
<1>14. QED
  BY <1>12, <1>13

\* The last call ends the sync.
LEMMA SyncDeleteEnds ==
    ASSUME TypeOK, NEW r \in Reqs, ~undo[r], SyncDelete(r)
    PROVE  r \notin InFlight'
<1>1. Throw(r) \/ Proceed(r, "done")
  BY DEF SyncDelete, WriteDoc
<1>2. QED
  BY <1>1, ThrownOver DEF Proceed, TypeOK, InFlight, Calls

LEMMA SyncAccepted ==
    ASSUME TypeOK, NEW r \in Reqs, NEW j \in Jobs, Accept(r, j), job'[r].op = "sync",
           InFlight' = {r}
    PROVE  SyncKnows(r)'
<1>1. /\ pc'[r] = "syncRead" /\ got'[r] = [u \in Users |-> {}]
      /\ todo'[r] = RelationsOf(Attributes) \cup {"mongo"}
  BY AcceptedInFlight DEF FirstQueries
<1>2. SyncReads(r)'
  BY <1>1 DEF SyncReads
<1>3. QED
  BY <1>1, <1>2 DEF SyncKnows

LEMMA SyncStep ==
    ASSUME SyncInv, NEW q \in Reqs, Serve(q), SyncsAlone,
           NEW r \in Reqs, r \in InFlight', job'[r].op = "sync"
    PROVE  SyncKnows(r)'
<1>0. TypeOK /\ TypeInv /\ InFlight' = {r}
  BY DEF SyncInv, PermissionInv, TypeInv, SyncsAlone
<1>1. q = r
  <2> SUFFICES ASSUME q # r PROVE FALSE
    OBVIOUS
  <2>1. OthersKept(q)
    BY ServeChecked DEF SyncInv
  <2>2. r \in InFlight /\ job[r].op = "sync"
    BY <2>1 DEF OthersKept, InFlight
  <2>3. InFlight = {r}
    BY <2>2 DEF SyncInv, SyncKnows
  <2>4. q \in InFlight'
    BY <1>0, <2>3, ServedInFlight, AcceptedInFlight
  <2>5. QED
    BY <1>0, <2>4
<1>2. CASE \E j \in Jobs : Accept(r, j)
  BY <1>0, <1>2, SyncAccepted
<1>3. CASE r \in InFlight /\ ~\E j \in Jobs : Accept(r, j)
  <2>1. UNCHANGED job
    BY <1>1, <1>3 DEF Serve, ReadTuples, ReadMongo, ReadAssigners, Answer, Check, SendChunk, Insert,
       Update, FindDoc, Remove, ReadBack, UndoChunk, SyncSave, SyncDelete, locals
  <2>2. Alone(r)
    BY <1>0, <1>3, <2>1 DEF Alone, SyncInv, SyncPhase
  <2>3. pc[r] \in SyncCalls
    BY <2>2 DEF Alone
  <2>4. CASE (\E rel \in Relations : ReadTuples(r, rel)) \/ ReadMongo(r)
    <3>1. CASE pc[r] = "syncRead"
      BY <1>0, <2>2, <2>4, <3>1, SyncReadStep
    <3>2. CASE pc[r] # "syncRead"
      <4>1. ~ReadMongo(r)
        BY <2>3, <3>2 DEF ReadMongo, SyncCalls
      <4>2. PICK rel \in Relations : ReadTuples(r, rel)
        BY <2>4, <4>1
      <4>3. pc[r] = "syncRoles"
        BY <2>3, <3>2, <4>2 DEF ReadTuples, SyncCalls
      <4>4. QED
        BY <1>0, <2>2, <4>2, <4>3, SyncRolesStep
    <3>3. QED
      BY <3>1, <3>2
  <2>5. CASE \E u \in Users : ReadAssigners(r, u) \/ SyncSave(r, u)
    BY <1>0, <2>2, <2>5, SyncAssignersStep, SyncSaveStep
  <2>6. CASE SyncDelete(r)
    BY <1>0, <2>2, <2>6, SyncDeleteEnds DEF Alone
  <2>7. QED
    BY <1>1, <1>3, <2>3, <2>4, <2>5, <2>6 DEF Serve, Check, SendChunk, Insert, Update, FindDoc,
       Remove, ReadBack, UndoChunk, SyncCalls
<1>4. QED
  BY <1>0, <1>1, <1>2, <1>3, ServedInFlight

-----------------------------------------------------------------------------
(* The invariant and the theorem about a sync. *)

LEMMA SyncInit == Init => SyncInv
<1> SUFFICES ASSUME Init PROVE SyncInv
  OBVIOUS
<1>1. InFlight = {}
  BY DEF Init, InFlight, Calls
<1>2. QED
  BY <1>1, PermissionInit DEF SyncInv, SyncPhase

LEMMA SyncNext == SyncInv /\ [Next /\ SyncsAlone]_vars => SyncInv'
<1> SUFFICES ASSUME SyncInv, [Next /\ SyncsAlone]_vars PROVE SyncInv'
  OBVIOUS
<1>1. PermissionInv'
  BY PermissionNext DEF SyncInv
<1>2. CASE UNCHANGED vars
  <2>1. UNCHANGED <<tuples, doc, pc, job, todo, got, copy, batch, undo, faults>>
    BY <1>2 DEF vars, locals
  <2>2. InFlight' = InFlight
    BY <2>1 DEF InFlight
  <2>3. \A q \in Reqs : SyncPhase(q)'
    BY <2>1, <2>2 DEF SyncInv, SyncPhase
  <2>4. ASSUME NEW q \in InFlight', job'[q].op = "sync" PROVE SyncKnows(q)'
    <3>1. SyncKnows(q)
      BY <2>1, <2>2, <2>4 DEF SyncInv
    <3>2. Listed(tuples)' = Listed(tuples)
      BY <2>1 DEF Listed
    <3>3. SyncReads(q)' = SyncReads(q)
      BY <2>1 DEF SyncReads, Known
    <3>4. SyncAsksRoles(q)' = SyncAsksRoles(q)
      BY <2>1, <3>2 DEF SyncAsksRoles, Known
    <3>5. SyncAsksAssigners(q)' = SyncAsksAssigners(q)
      BY <2>1, <3>2 DEF SyncAsksAssigners, Known, Row, Visible
    <3>6. SyncSaves(q)' = SyncSaves(q)
      BY <2>1, <3>2 DEF SyncSaves, Known, Row, Visible
    <3>7. SyncDeletes(q)' = SyncDeletes(q)
      BY <2>1, <3>2 DEF SyncDeletes, Known, Row, Visible
    <3>8. QED
      BY <2>1, <2>2, <3>1, <3>3, <3>4, <3>5, <3>6, <3>7 DEF SyncKnows
  <2>5. QED
    BY <1>1, <2>3, <2>4 DEF SyncInv
<1>3. CASE SyncsAlone /\ \E r \in Reqs : Serve(r)
  <2>1. PICK r \in Reqs : Serve(r)
    BY <1>3
  <2>2. ASSUME NEW q \in Reqs PROVE SyncPhase(q)'
    <3>1. CASE q = r
      BY <2>1, <3>1, ServePhase
    <3>2. CASE q # r
      <4>1. OthersKept(r) /\ SyncPhase(q)
        BY <2>1, ServeChecked DEF SyncInv
      <4>2. QED
        BY <3>2, <4>1 DEF OthersKept, SyncPhase, InFlight
    <3>3. QED
      BY <3>1, <3>2
  <2>3. \A q \in InFlight' : job'[q].op = "sync" => SyncKnows(q)'
    <3>1. InFlight' \subseteq Reqs
      BY DEF InFlight
    <3>2. QED
      BY <1>3, <2>1, <3>1, SyncStep
  <2>4. QED
    BY <1>1, <2>2, <2>3 DEF SyncInv
<1>4. CASE Crash
  <2>1. InFlight' = {}
    BY <1>4 DEF Crash, InFlight, Calls
  <2>2. QED
    BY <1>1, <2>1 DEF SyncInv, SyncPhase
<1>5. QED
  BY <1>2, <1>3, <1>4 DEF Next, Idle

\* The step that answers a sync.
LEMMA SyncAnswered ==
    ASSUME SyncInv, NEW r \in Reqs, job[r].op = "sync", pc[r] # "done", pc'[r] = "done", Next
    PROVE  doc' = [u \in Users |-> MirrorOf(tuples'[u])]
<1>0. TypeOK /\ TypeInv /\ SyncPhase(r)
  BY DEF SyncInv, PermissionInv, TypeInv
<1>1. Serve(r)
  <2>1. ~Crash /\ ~Idle
    BY <1>0 DEF Crash, Idle, vars, TypeOK
  <2>2. PICK q \in Reqs : Serve(q)
    BY <2>1 DEF Next
  <2>3. q = r
    BY <2>2, ServeChecked DEF SyncInv, OthersKept
  <2>4. QED
    BY <2>2, <2>3
<1>2. r \in InFlight
  BY <1>0, <1>1, ServedInFlight, AcceptedInFlight
<1>3. pc[r] \in SyncCalls /\ ~undo[r] /\ SyncKnows(r)
  BY <1>0, <1>2 DEF SyncPhase, SyncInv
<1>4. ~Throw(r)
  BY <1>0, <1>3, ThrownOver
<1>5. SyncDelete(r)
  <2>1. ~\E j \in Jobs : Accept(r, j)
    BY <1>0, <1>2, AcceptedInFlight
  <2>2. ~\E q, G, D : Answer(r, q, G, D)
    <3>1. ASSUME NEW q, NEW G, NEW D, Answer(r, q, G, D) PROVE FALSE
      <4>1. Proceed(r, pc[r]) \/ \E s \in SyncCalls \cup {"check"} : Proceed(r, s)
        BY <1>4, <3>1 DEF Answer, Joined, SyncCalls
      <4>2. QED
        BY <1>0, <4>1 DEF Proceed, TypeOK, SyncCalls
    <3>2. QED
      BY <3>1
  <2>3. ~\E u \in Users : SyncSave(r, u)
    BY <1>0, <1>4 DEF SyncSave, WriteDoc, Proceed, TypeOK
  <2>4. QED
    BY <1>1, <1>3, <2>1, <2>2, <2>3 DEF Serve, Check, SendChunk, Insert, Update, FindDoc, Remove,
       ReadBack, UndoChunk, SyncCalls, ReadTuples, ReadMongo, ReadAssigners
<1>6. /\ UNCHANGED tuples
      /\ doc' = [u \in Users |-> IF copy[r][u] # NoDoc /\ ~IsSet(got[r][u]) THEN NoDoc ELSE doc[u]]
  BY <1>4, <1>5 DEF SyncDelete, WriteDoc
<1>7. SyncDeletes(r) /\ \A u \in Users : got[r][u] \subseteq tuples[u]
  BY <1>3, <1>5 DEF SyncKnows, SyncDelete
<1>8. ASSUME NEW u \in Users
      PROVE  (IF copy[r][u] # NoDoc /\ ~IsSet(got[r][u]) THEN NoDoc ELSE doc[u]) = MirrorOf(tuples'[u])
  <2>1. IsSet(got[r][u]) <=> IsSet(tuples[u])
    BY <1>0, <1>7, KnownSet DEF SyncDeletes, Known, TypeOK
  <2>2. doc[u] = IF IsSet(tuples[u]) THEN Visible(tuples[u]) ELSE copy[r][u]
    BY <1>7 DEF SyncDeletes, Row, Listed
  <2>3. QED
    BY <1>6, <2>1, <2>2 DEF MirrorOf
<1>9. QED
  BY <1>6, <1>8

\* Whatever earlier requests, lost replies and crashes left behind in the mirror, a sync
\* that is answered, and that nothing overlaps, leaves the mirror of what OpenFGA holds,
\* for every number of users.
THEOREM SyncsRestore == SyncSpec => SyncRestores
<1>1. SyncInv /\ [Next /\ SyncsAlone]_vars =>
         [\A r \in Reqs : job[r].op = "sync" /\ pc[r] # "done" /\ pc'[r] = "done" =>
             doc' = [u \in Users |-> MirrorOf(tuples'[u])]]_vars
  BY SyncAnswered
<1>2. QED
  BY <1>1, SyncInit, SyncNext, PTL DEF SyncSpec, SyncRestores
-----------------------------------------------------------------------------
(* As long as one request is served after the other, admins are guarded. *)

\* A request that reads its user alone has, of each relation it has an answer for, all
\* that there is; a check knows exactly the tuples, of which a create finds none.
Knowing(r) ==
    LET u == job[r].u IN
    /\ pc[r] = "readUser" =>
          /\ got[r][u] \subseteq tuples[u]
          /\ \A rel \in Relations \ todo[r] : Known(r, {u}, Related(rel))
    /\ pc[r] = "check" =>
          /\ got[r][u] = tuples[u]
          /\ IsSet(tuples[u]) <=> job[r].op # "create"

\* Who may still write the tuples of an admin may manage admins.
Guarded(r) ==
    pc[r] \in {"send", "rollback"} \/ undo[r] =>
       (Admin \in tuples[job[r].u] => Admin \in MayManage[job[r].by])

GuardInv ==
    /\ PermissionInv
    /\ OneByOne => \A r \in InFlight : Knowing(r) /\ Guarded(r)

\* A slot that was used is never new again.
LEMMA ServedUsed ==
    ASSUME TypeInv, NEW r \in Reqs, Serve(r)
    PROVE  pc'[r] # "new"
<1>0. TypeOK
  BY DEF TypeInv
<1>1. ASSUME Throw(r) \/ \E s : s # "new" /\ (Proceed(r, s) \/ pc' = [pc EXCEPT ![r] = s])
      PROVE  pc'[r] # "new"
  BY <1>0, <1>1 DEF Throw, Proceed, TypeOK
<1>2. CASE \E j \in Jobs : Accept(r, j)
  BY <1>0, <1>2, AcceptedInFlight
<1>3. CASE \/ \E rel \in Relations : ReadTuples(r, rel)
           \/ ReadMongo(r)
           \/ \E u \in Users : ReadAssigners(r, u)
  <2>1. pc[r] \in Reading /\ \E q, G, D : Answer(r, q, G, D)
    BY <1>3 DEF ReadTuples, ReadMongo, ReadAssigners, Reading
  <2>2. QED
    BY <1>1, <2>1 DEF Answer, Joined, Reading
<1>4. CASE Check(r)
  BY <1>1, <1>4 DEF Check
<1>5. CASE SendChunk(r)
  <2>1. AfterSend[job[r].op] # "new"
    BY <1>0, <1>5, AfterSendType DEF SendChunk
  <2>2. QED
    BY <1>1, <1>5, <2>1 DEF SendChunk, Sent
<1>6. CASE UndoChunk(r)
  BY <1>1, <1>6 DEF UndoChunk
<1>7. CASE \/ Insert(r) \/ Update(r) \/ FindDoc(r) \/ Remove(r)
           \/ \E u \in Users : SyncSave(r, u)
           \/ SyncDelete(r)
  <2>1. \E next \in {"done", "readBack", "remove", "syncSave", "syncDelete"} :
           \E ok, new : Read(r, ok, next) \/ WriteDoc(r, ok, new, next)
    BY <1>7 DEF Insert, Update, FindDoc, Remove, SyncSave, SyncDelete
  <2>2. QED
    BY <1>1, <2>1 DEF Read, WriteDoc
<1>8. CASE ReadBack(r)
  BY <1>1, <1>8 DEF ReadBack, Read
<1>9. QED
  BY <1>2, <1>3, <1>4, <1>5, <1>6, <1>7, <1>8 DEF Serve

LEMMA UsedGrow ==
    ASSUME PermissionInv, Next
    PROVE  Used \subseteq Used'
<1>0. TypeInv /\ TypeOK
  BY DEF PermissionInv, TypeInv
<1>1. CASE \E r \in Reqs : Serve(r)
  <2>1. PICK r \in Reqs : Serve(r)
    BY <1>1
  <2>2. pc'[r] # "new" /\ OthersKept(r)
    BY <1>0, <2>1, ServedUsed, ServeChecked
  <2>3. QED
    BY <2>2 DEF Used, OthersKept
<1>2. CASE Crash
  BY <1>2 DEF Crash, Used
<1>3. CASE Idle
  BY <1>3 DEF Idle, vars, Used
<1>4. QED
  BY <1>1, <1>2, <1>3 DEF Next

\* Only a chunk of a batch or of a rollback writes tuples.
LEMMA WritersOfTuples ==
    ASSUME NEW r \in Reqs, Serve(r), tuples' # tuples
    PROVE  pc[r] \in {"send", "rollback"} /\ (SendChunk(r) \/ UndoChunk(r))
<1>1. ~(SendChunk(r) \/ UndoChunk(r)) => UNCHANGED tuples
  BY DEF Serve, Accept, ReadTuples, ReadMongo, ReadAssigners, Answer, Check, Insert, Update,
         FindDoc, Remove, ReadBack, SyncSave, SyncDelete, Read, WriteDoc
<1>2. QED
  BY <1>1 DEF SendChunk, UndoChunk

-----------------------------------------------------------------------------
(* What a request that is alone knows of its user. *)

\* An answer to the first queries.
LEMMA FirstAnswer ==
    ASSUME TypeInv, NEW r \in Reqs, ~undo[r], pc[r] = "readUser", Knowing(r),
           (\E rel \in Relations : ReadTuples(r, rel)) \/ ReadMongo(r)
    PROVE  Knowing(r)'
<1>0. TypeOK /\ job[r].op # "sync" /\ job[r].op \in Ops /\ job[r].u \in Users
  BY JobType DEF TypeInv, Phases
<1> DEFINE u == job[r].u
<1>1. About(r) = {u}
  BY <1>0 DEF About
<1>2. PICK q, W, S, D :
         /\ Answer(r, q, Learning(r, W, S), D)
         /\ W \in SUBSET Users
         /\ \/ q \in Relations /\ W = {u} /\ S = Related(q)
            \/ q = "mongo" /\ W = {} /\ S = {}
  <2>1. CASE \E rel \in Relations : ReadTuples(r, rel)
    BY <1>0, <1>1, <2>1 DEF ReadTuples, Related
  <2>2. CASE ReadMongo(r)
    <3>1. Learning(r, {}, {}) = got[r]
      BY <1>0 DEF Learning, TypeOK
    <3>2. QED
      BY <2>2, <3>1 DEF ReadMongo
  <2>3. QED
    BY <2>1, <2>2
<1>3. UNCHANGED <<tuples, job>> /\ q \in todo[r]
  BY <1>2 DEF Answer
<1>4. CASE Throw(r)
  <2>1. pc'[r] = "failed"
    BY <1>0, <1>4, ThrownOver
  <2>2. QED
    BY <2>1 DEF Knowing
<1>5. CASE ~Throw(r)
  <2>1. /\ got' = [got EXCEPT ![r] = Learning(r, W, S)]
        /\ \/ /\ todo[r] # {q} /\ pc'[r] = pc[r] /\ todo'[r] = todo[r] \ {q}
           \/ /\ todo[r] = {q} /\ Proceed(r, "check")
              /\ job[r].op = "create" <=> ~IsSet(Learning(r, W, S)[u])
    BY <1>0, <1>2, <1>5 DEF Answer, Joined, Proceed, TypeOK, Ops
  <2>2. got'[r] = Learning(r, W, S)
    BY <1>0, <2>1 DEF TypeOK
  <2>3. got'[r][u] = IF u \in W THEN got[r][u] \cup (tuples[u] \cap S) ELSE got[r][u]
    BY <1>0, <2>2 DEF Learning
  <2>4. got'[r][u] \subseteq tuples'[u]
    BY <1>3, <2>3 DEF Knowing
  <2>5. \A rel \in Relations \ (todo[r] \ {q}) : tuples'[u] \cap Related(rel) \subseteq got'[r][u]
    <3> SUFFICES ASSUME NEW rel \in Relations \ (todo[r] \ {q})
                 PROVE  tuples[u] \cap Related(rel) \subseteq got'[r][u]
      BY <1>3
    <3>1. CASE rel \notin todo[r]
      BY <2>3, <3>1 DEF Knowing, Known
    <3>2. CASE rel = q
      BY <1>2, <2>3, <3>2, QueriesAssumption
    <3>3. QED
      BY <3>1, <3>2
  <2>6. CASE todo[r] # {q} /\ pc'[r] = pc[r] /\ todo'[r] = todo[r] \ {q}
    BY <1>3, <2>4, <2>5, <2>6 DEF Knowing, Known
  <2>7. CASE todo[r] = {q} /\ Proceed(r, "check")
    <3>1. pc'[r] = "check"
      BY <1>0, <2>7 DEF Proceed, TypeOK
    <3>2. tuples'[u] \cap Grants \subseteq got'[r][u]
      <4>1. \A rel \in RelationsOf(Grants) : tuples'[u] \cap Related(rel) \subseteq got'[r][u]
        BY <2>5, <2>7 DEF Relations
      <4>2. QED
        BY <4>1, RelationsKnown
    <3>3. tuples'[u] \subseteq Grants
      BY <1>0, <1>3 DEF TypeOK
    <3>4. got'[r][u] = tuples'[u]
      BY <2>4, <3>2, <3>3
    <3>5. IsSet(tuples'[u]) <=> job[r].op # "create"
      BY <1>5, <2>1, <2>2, <2>7, <3>4
    <3>6. QED
      BY <1>3, <3>1, <3>4, <3>5 DEF Knowing, IsSet
  <2>8. QED
    BY <2>1, <2>6, <2>7
<1>6. QED
  BY <1>4, <1>5
-----------------------------------------------------------------------------
(* The steps of a request keep admins guarded. *)

\* A step that does not begin to write keeps what was asked for.
LEMMA GuardKept ==
    ASSUME NEW r \in Reqs, job[r].u \in Users, Guarded(r), WithinPermissions(r), UNCHANGED job,
           pc'[r] \in {"send", "rollback"} \/ undo'[r] =>
              pc[r] \in {"send", "rollback"} \/ undo[r]
    PROVE  Guarded(r)'
<1> SUFFICES ASSUME pc'[r] \in {"send", "rollback"} \/ undo'[r], Admin \in tuples'[job[r].u]
             PROVE  Admin \in MayManage[job[r].by]
  BY DEF Guarded
<1>1. CASE Admin \in tuples[job[r].u]
  BY <1>1 DEF Guarded
<1>2. CASE Admin \notin tuples[job[r].u]
  BY <1>2 DEF WithinPermissions
<1>3. QED
  BY <1>1, <1>2

LEMMA CallGuarded ==
    ASSUME TypeInv, NEW r \in Reqs, Guarded(r), WithinPermissions(r), UNCHANGED job,
           NEW s, s \notin {"readUser", "check", "send", "rollback"},
           \/ Throw(r)
           \/ Proceed(r, s)
           \/ pc' = [pc EXCEPT ![r] = s] /\ UNCHANGED undo
    PROVE  Knowing(r)' /\ Guarded(r)'
<1>0. TypeOK /\ job[r].u \in Users
  BY JobType DEF TypeInv
<1>1. /\ pc'[r] \notin {"readUser", "check", "send"}
      /\ undo'[r] \/ pc'[r] = "rollback" => undo[r]
  BY <1>0 DEF Throw, Proceed, TypeOK
<1>2. Guarded(r)'
  BY <1>0, <1>1, GuardKept
<1>3. QED
  BY <1>1, <1>2 DEF Knowing

\* What is asked for covers isAdmin whenever the user of the request has it.
LEMMA AskedForAdmin ==
    ASSUME TypeInv, NEW r \in Reqs, pc[r] = "check", Knowing(r), Admin \in tuples[job[r].u]
    PROVE  Admin \in AsksFor(r)
<1>1. got[r][job[r].u] = tuples[job[r].u] /\ IsSet(tuples[job[r].u])
  BY GrantsAssumption DEF Knowing, IsSet
<1>2. job[r].op \in {"edit", "delete"}
  BY <1>1 DEF Knowing, TypeInv, Phases
<1>3. Admin \in Seen(r)
  BY <1>1, GrantsAssumption DEF Seen, Visible
<1>4. CASE job[r].op = "edit"
  BY <1>3, <1>4 DEF AsksFor
<1>5. CASE job[r].op = "delete"
  <2>1. <<"delete", Admin>> \in Changes(r)
    BY <1>3, <1>5 DEF Changes, Target
  <2>2. QED
    BY <2>1 DEF AsksFor
<1>6. QED
  BY <1>2, <1>4, <1>5

LEMMA CheckGuarded ==
    ASSUME TypeInv, NEW r \in Reqs, Knowing(r), Guarded(r), WithinPermissions(r), Check(r)
    PROVE  Knowing(r)' /\ Guarded(r)'
<1>0. TypeOK /\ UNCHANGED <<tuples, job, undo>>
  BY DEF TypeInv, Check, locals
<1>1. CASE AsksFor(r) \subseteq MayManage[job[r].by] /\ pc' = [pc EXCEPT ![r] = "send"]
  <2>1. Admin \in tuples[job[r].u] => Admin \in MayManage[job[r].by]
    BY <1>1, AskedForAdmin DEF Check
  <2>2. QED
    BY <1>0, <1>1, <2>1 DEF Guarded, Knowing, TypeOK
<1>2. CASE \E s \in {"readBack", "failed"} : pc' = [pc EXCEPT ![r] = s]
  BY <1>0, <1>2, CallGuarded
<1>3. QED
  BY <1>1, <1>2 DEF Check

LEMMA SendGuarded ==
    ASSUME TypeInv, NEW r \in Reqs, Guarded(r), WithinPermissions(r),
           SendChunk(r) \/ UndoChunk(r)
    PROVE  Knowing(r)' /\ Guarded(r)'
<1>0. TypeOK /\ UNCHANGED job /\ pc[r] \in {"send", "rollback"} /\ job[r].u \in Users
  BY JobType DEF TypeInv, SendChunk, UndoChunk, locals
<1>1. pc'[r] \notin {"readUser", "check"}
  <2>1. CASE SendChunk(r)
    <3>1. AfterSend[job[r].op] \notin {"readUser", "check"}
      BY <2>1, AfterSendType DEF SendChunk, Reading
    <3>2. QED
      BY <1>0, <2>1, <3>1 DEF SendChunk, Sent, Throw, TypeOK
  <2>2. CASE UndoChunk(r)
    BY <1>0, <2>2 DEF UndoChunk, TypeOK
  <2>3. QED
    BY <2>1, <2>2
<1>2. Guarded(r)'
  BY <1>0, GuardKept
<1>3. QED
  BY <1>1, <1>2 DEF Knowing

LEMMA ServeGuarded ==
    ASSUME PermissionInv, NEW r \in Reqs, Serve(r), r \in InFlight => Knowing(r) /\ Guarded(r)
    PROVE  Knowing(r)' /\ Guarded(r)'
<1>0. TypeInv /\ TypeOK /\ Checked(r) /\ WithinPermissions(r)
  BY ServeChecked DEF PermissionInv, TypeInv
<1>1. CASE \E j \in Jobs : Accept(r, j)
  <2>1. PICK j \in Jobs : Accept(r, j)
    BY <1>1
  <2>2. pc'[r] = (IF j.op = "sync" THEN "syncRead" ELSE "readUser") /\ undo'[r] = FALSE
    BY <1>0, <2>1, AcceptedInFlight
  <2>3. j.op # "sync" => Relations \subseteq todo'[r]
    BY <1>0, <2>1, AcceptedInFlight DEF FirstQueries
  <2>4. j.u \in Users /\ job'[r].u = j.u /\ got'[r] = [u \in Users |-> {}]
    BY <1>0, <2>1, AcceptedInFlight, JobsAssumption DEF WellFormed, Job
  <2>5. QED
    BY <2>2, <2>3, <2>4 DEF Knowing, Guarded
<1> SUFFICES ASSUME r \in InFlight, Knowing(r), Guarded(r) PROVE Knowing(r)' /\ Guarded(r)'
  BY <1>0, <1>1, ServedInFlight
<1>2. CASE \/ \E rel \in Relations : ReadTuples(r, rel)
           \/ ReadMongo(r)
           \/ \E u \in Users : ReadAssigners(r, u)
  <2>1. pc[r] \in Reading /\ \E q, G, D : Answer(r, q, G, D)
    BY <1>2 DEF ReadTuples, ReadMongo, ReadAssigners, Reading
  <2>2. ~undo[r] /\ UNCHANGED job
    BY <1>0, <2>1 DEF Checked, Answer
  <2>3. CASE pc[r] = "readUser"
    <3>1. Knowing(r)'
      BY <1>0, <1>2, <2>2, <2>3, FirstAnswer DEF ReadAssigners
    <3>2. Throw(r) \/ \E s \in {"readUser", "check"} : Proceed(r, s)
      BY <2>1, <2>3 DEF Answer, Joined
    <3>3. ~undo'[r] /\ pc'[r] \notin {"send", "rollback"}
      BY <1>0, <2>2, <3>2 DEF Throw, Proceed, TypeOK
    <3>4. QED
      BY <3>1, <3>3 DEF Guarded
  <2>4. CASE pc[r] # "readUser"
    <3>1. \/ Throw(r)
          \/ \E s \in {"syncRead", "syncRoles", "syncAssigners", "syncSave", "syncDelete"} : Proceed(r, s)
      BY <2>1, <2>4 DEF Answer, Joined, Reading
    <3>2. QED
      BY <1>0, <2>2, <3>1, CallGuarded
  <2>5. QED
    BY <2>3, <2>4
<1>3. CASE Check(r)
  BY <1>0, <1>3, CheckGuarded
<1>4. CASE SendChunk(r) \/ UndoChunk(r)
  BY <1>0, <1>4, SendGuarded
<1>5. CASE \/ Insert(r) \/ Update(r) \/ FindDoc(r) \/ Remove(r)
           \/ \E u \in Users : SyncSave(r, u)
           \/ SyncDelete(r)
  <2>1. /\ UNCHANGED job
        /\ \E next \in {"done", "readBack", "remove", "syncSave", "syncDelete"} :
              \E ok, new : Read(r, ok, next) \/ WriteDoc(r, ok, new, next)
    BY <1>5 DEF Insert, Update, FindDoc, Remove, SyncSave, SyncDelete, locals
  <2>2. Throw(r) \/ \E s \in {"done", "readBack", "remove", "syncSave", "syncDelete"} : Proceed(r, s)
    BY <2>1 DEF Read, WriteDoc
  <2>3. QED
    BY <1>0, <2>1, <2>2, CallGuarded
<1>6. CASE ReadBack(r)
  <2>1. /\ UNCHANGED job
        /\ \/ Throw(r) \/ Proceed(r, "done")
           \/ \E s \in {"done", "failed"} : pc' = [pc EXCEPT ![r] = s] /\ UNCHANGED undo
    BY <1>6 DEF ReadBack, Read, locals
  <2>2. QED
    BY <1>0, <2>1, CallGuarded
<1>7. QED
  BY <1>2, <1>3, <1>4, <1>5, <1>6, ServedInFlight, <1>0, <1>1 DEF Serve

-----------------------------------------------------------------------------
(* The theorem about admins. *)

LEMMA GuardInit == Init => GuardInv
<1> SUFFICES ASSUME Init PROVE GuardInv
  OBVIOUS
<1>1. InFlight = {}
  BY DEF Init, InFlight, Calls
<1>2. QED
  BY <1>1, PermissionInit DEF GuardInv

\* When the next state has one used slot, it is the one that moves.
LEMMA OnlyOneMoves ==
    ASSUME PermissionInv, NEW r \in Reqs, Serve(r), OneByOne'
    PROVE  OneByOne /\ InFlight \subseteq {r} /\ InFlight' \subseteq {r}
<1>0. TypeInv /\ TypeOK
  BY DEF PermissionInv, TypeInv
<1>1. Used \subseteq Used' /\ r \in Used'
  BY <1>0, UsedGrow, ServedUsed DEF Next, Used
<1>2. InFlight \subseteq Used /\ InFlight' \subseteq Used'
  BY DEF InFlight, Used, Calls
<1>3. QED
  BY <1>1, <1>2 DEF OneByOne

LEMMA GuardNext == GuardInv /\ [Next]_vars => GuardInv'
<1> SUFFICES ASSUME GuardInv, [Next]_vars PROVE GuardInv'
  OBVIOUS
<1>1. PermissionInv'
  BY PermissionNext DEF GuardInv
<1> SUFFICES ASSUME OneByOne', NEW q \in InFlight' PROVE Knowing(q)' /\ Guarded(q)'
  BY <1>1 DEF GuardInv
<1>2. CASE UNCHANGED vars
  <2>1. UNCHANGED <<tuples, doc, pc, job, todo, got, copy, batch, undo, faults>>
    BY <1>2 DEF vars, locals
  <2>2. OneByOne /\ q \in InFlight
    BY <2>1 DEF OneByOne, Used, InFlight
  <2>3. Knowing(q) /\ Guarded(q)
    BY <2>2 DEF GuardInv
  <2>4. Guarded(q)'
    BY <2>1, <2>3 DEF Guarded
  <2>5. Knowing(q)'
    BY <2>1, <2>3 DEF Knowing, Known, IsSet
  <2>6. QED
    BY <2>4, <2>5
<1>3. CASE \E r \in Reqs : Serve(r)
  <2>1. PICK r \in Reqs : Serve(r)
    BY <1>3
  <2>2. OneByOne /\ InFlight \subseteq {r} /\ q = r
    BY <2>1, OnlyOneMoves DEF GuardInv
  <2>3. QED
    BY <2>1, <2>2, ServeGuarded DEF GuardInv
<1>4. CASE Crash
  BY <1>4 DEF Crash, InFlight, Calls
<1>5. QED
  BY <1>2, <1>3, <1>4 DEF Next, Idle

LEMMA AdminStep ==
    ASSUME GuardInv, Next, OneByOne', NEW u \in Users, Admin \in tuples[u], tuples'[u] # tuples[u]
    PROVE  \E r \in InFlight : job[r].u = u /\ Admin \in MayManage[job[r].by]
<1>1. PICK r \in Reqs : Serve(r)
  BY DEF Next, Crash, Idle, vars
<1>2. pc[r] \in {"send", "rollback"} /\ r \in InFlight /\ job[r].u = u
  <2>1. pc[r] \in {"send", "rollback"}
    BY <1>1, WritersOfTuples
  <2>2. job[r].u = u
    BY <1>1, ServeChecked DEF GuardInv, WithinPermissions
  <2>3. QED
    BY <2>1, <2>2 DEF InFlight, Calls
<1>3. Guarded(r)
  BY <1>1, <1>2, OnlyOneMoves DEF GuardInv
<1>4. QED
  BY <1>2, <1>3 DEF Guarded

\* As long as one request is served after the other, and whatever call of it fails, is
\* lost or is cut off, every grant of an admin changes at the wish of an actor who may
\* manage admins: an edit and a delete of an admin ask for it although they may leave
\* isAdmin alone, and a rollback undoes only what was asked for.
THEOREM AdminsAreGuarded == Spec => AdminsGuarded
<1>1. GuardInv /\ [Next]_vars =>
         [\A u \in Users :
             OneByOne' /\ Admin \in tuples[u] /\ tuples'[u] # tuples[u] =>
                \E r \in InFlight : job[r].u = u /\ Admin \in MayManage[job[r].by]]_vars
  BY AdminStep
<1>2. QED
  BY <1>1, GuardInit, GuardNext, PTL DEF Spec, AdminsGuarded
-----------------------------------------------------------------------------
(* One request after the other, of which one call may be refused: the mirror agrees. *)

\* The setting: at most one call is refused, a batch is one write, an edit leaves a grant.
OneRefusal == FaultKinds \subseteq {"refused"} /\ MaxFaults =< 1
OneChunk   == IsFiniteSet(Grants) /\ Cardinality(Grants) =< ChunkSize
EditsGrant == \A j \in Jobs : j.op = "edit" => IsSet(j.grants)

Setting == OneRefusal /\ OneChunk /\ EditsGrant

\* No grant of a user is out of sight, and those who have one are mirrored; only the
\* create whose answer was refused leaves a document without a grant behind.
Agrees(u) ==
    /\ Visible(tuples[u]) = tuples[u]
    /\ IsSet(tuples[u]) => doc[u] = tuples[u]
    /\ doc[u] # NoDoc => IsSet(tuples[u]) \/ faults >= MaxFaults

Writes == {"insert", "update", "findDoc", "remove"}

\* What a request about one user has read and done at each of its calls.
Midway(r) ==
    LET u  == job[r].u
        op == job[r].op
        X  == got[r][u]
    IN
    /\ pc[r] \in {"readUser", "check", "send"} => Agrees(u) /\ ~undo[r]
    /\ pc[r] = "send" => tuples[u] = X /\ batch[r] = Changes(r)
    /\ pc[r] \notin {"readUser", "check"} => Visible(X) = X /\ (IsSet(X) <=> op # "create")
    /\ pc[r] \in Writes => undo[r] /\ (pc[r] # "remove" => pc[r] = AfterSend[op])
    /\ pc[r] = "insert" /\ doc[u] # NoDoc => faults >= MaxFaults
    /\ pc[r] \in Writes \ {"insert"} => doc[u] = X
    /\ pc[r] = "remove" => op = "delete"
    /\ pc[r] = "readBack" => IF undo[r] THEN op # "delete" /\ doc[u] = Target(r)
                             ELSE op = "edit" /\ Agrees(u)
    /\ undo[r] \/ pc[r] = "rollback" => tuples[u] = Target(r)
    /\ pc[r] = "rollback" => /\ batch[r] = Reverse(Changes(r)) /\ ~undo[r]
                             /\ faults >= MaxFaults
                             /\ op # "create" => doc[u] = X

SerialInv ==
    /\ SyncInv /\ GuardInv /\ OneByOne
    /\ job \in [Reqs -> Jobs]
    /\ \A u \in Users : (\A r \in InFlight : job[r].op = "sync" \/ job[r].u # u) => Agrees(u)
    /\ \A r \in InFlight : job[r].op # "sync" => Midway(r)

-----------------------------------------------------------------------------
(* A batch is one write. *)

LEMMA ChunkIsBatch ==
    ASSUME OneChunk, NEW B \in SUBSET Change, \A x, y \in B : x[2] = y[2] => x = y
    PROVE  /\ Cardinality(B) =< ChunkSize
           /\ IsNextChunk(B, B)
           /\ \A C : IsNextChunk(C, B) => C = B
<1> DEFINE f == [x \in B |-> x[2]]
<1>1. f \in Injection(B, Grants)
  BY DEF Injection, IsInjective, Change
<1>2. IsFiniteSet(B) /\ Cardinality(B) =< Cardinality(Grants)
  BY <1>1, FS_Injection DEF OneChunk
<1>3. Cardinality(B) \in Nat /\ Cardinality(Grants) \in Nat
  BY <1>2, FS_CardinalityType DEF OneChunk
<1>4. Cardinality(B) =< ChunkSize
  BY <1>2, <1>3, BoundAssumption DEF OneChunk
<1>5. ASSUME NEW C, IsNextChunk(C, B) PROVE C = B
  <2>1. C \subseteq B /\ Cardinality(C) = Cardinality(B)
    BY <1>3, <1>4, <1>5, BoundAssumption DEF IsNextChunk
  <2>2. QED
    BY <1>2, <2>1, FS_Subset
<1>6. IsNextChunk(B, B)
  BY <1>3, <1>4, BoundAssumption DEF IsNextChunk
<1>7. QED
  BY <1>4, <1>5, <1>6

LEMMA GrantIn ==
    ASSUME NEW B, NEW o, NEW g, <<o, g>> \in B
    PROVE  g \in GrantsIn(B, o)
<1>1. <<o, g>>[1] = o /\ <<o, g>>[2] = g
  OBVIOUS
<1>2. QED
  BY <1>1 DEF GrantsIn

LEMMA ChangesOnce ==
    ASSUME TypeOK, NEW r \in Reqs
    PROVE  /\ Changes(r) \in SUBSET Change
           /\ \A x, y \in Changes(r) : x[2] = y[2] => x = y
           /\ GrantsIn(Changes(r), "write") = Target(r) \ Seen(r)
           /\ GrantsIn(Changes(r), "delete") = Seen(r) \ Target(r)
<1>1. Target(r) \subseteq Grants /\ Seen(r) \subseteq Grants
  <2>1. got[r][job[r].u] \in SUBSET Grants
    BY JobType DEF TypeOK
  <2>2. QED
    BY <2>1, JobType, VisibleType DEF Target, Seen
<1>2. \A x \in Changes(r) : \/ x[1] = "write" /\ x[2] \in Target(r) \ Seen(r)
                            \/ x[1] = "delete" /\ x[2] \in Seen(r) \ Target(r)
  BY DEF Changes
<1>3. \A x \in Changes(r) : x = <<x[1], x[2]>>
  BY DEF Changes
<1>4. ASSUME NEW x \in Changes(r), NEW y \in Changes(r), x[2] = y[2] PROVE x = y
  BY <1>2, <1>3, <1>4
<1>5. GrantsIn(Changes(r), "write") = Target(r) \ Seen(r)
  <2>1. \A g \in Target(r) \ Seen(r) : <<"write", g>> \in Changes(r)
    BY DEF Changes
  <2>2. \A g \in Target(r) \ Seen(r) : g \in GrantsIn(Changes(r), "write")
    BY <2>1, GrantIn
  <2>3. QED
    BY <1>2, <2>2 DEF GrantsIn
<1>6. GrantsIn(Changes(r), "delete") = Seen(r) \ Target(r)
  <2>1. \A g \in Seen(r) \ Target(r) : <<"delete", g>> \in Changes(r)
    BY DEF Changes
  <2>2. \A g \in Seen(r) \ Target(r) : g \in GrantsIn(Changes(r), "delete")
    BY <2>1, GrantIn
  <2>3. QED
    BY <1>2, <2>2 DEF GrantsIn
<1>7. QED
  BY <1>1, <1>4, <1>5, <1>6 DEF Changes, Change

LEMMA ReverseOnce ==
    ASSUME TypeOK, NEW r \in Reqs
    PROVE  LET B == Reverse(Changes(r)) IN
           /\ B \in SUBSET Change
           /\ \A x, y \in B : x[2] = y[2] => x = y
           /\ GrantsIn(B, "write") = Seen(r) \ Target(r)
           /\ GrantsIn(B, "delete") = Target(r) \ Seen(r)
<1> DEFINE B == Reverse(Changes(r))
<1>1. /\ Changes(r) \in SUBSET Change
      /\ \A x, y \in Changes(r) : x[2] = y[2] => x = y
      /\ GrantsIn(Changes(r), "write") = Target(r) \ Seen(r)
      /\ GrantsIn(Changes(r), "delete") = Seen(r) \ Target(r)
  BY ChangesOnce
<1>2. \A z \in B : \E x \in Changes(r) :
         z = <<IF x[1] = "write" THEN "delete" ELSE "write", x[2]>>
  BY DEF Reverse
<1>3. B \in SUBSET Change
  BY <1>1, <1>2 DEF Change
<1>4. ASSUME NEW y \in B, NEW z \in B, y[2] = z[2] PROVE y = z
  BY <1>1, <1>2, <1>4
<1>5. ASSUME NEW o \in {"write", "delete"}
      PROVE  GrantsIn(B, o) = GrantsIn(Changes(r), IF o = "write" THEN "delete" ELSE "write")
  <2>1. ASSUME NEW g \in GrantsIn(B, o)
        PROVE  g \in GrantsIn(Changes(r), IF o = "write" THEN "delete" ELSE "write")
    <3>1. PICK z \in B : z[1] = o /\ z[2] = g
      BY <2>1 DEF GrantsIn
    <3>2. PICK x \in Changes(r) : z = <<IF x[1] = "write" THEN "delete" ELSE "write", x[2]>>
      BY <1>2
    <3>3. x[2] = g /\ x[1] = IF o = "write" THEN "delete" ELSE "write"
      BY <1>1, <3>1, <3>2 DEF Change
    <3>4. QED
      BY <3>3 DEF GrantsIn
  <2>2. ASSUME NEW g \in GrantsIn(Changes(r), IF o = "write" THEN "delete" ELSE "write")
        PROVE  g \in GrantsIn(B, o)
    <3>1. PICK x \in Changes(r) : x[1] = (IF o = "write" THEN "delete" ELSE "write") /\ x[2] = g
      BY <2>2 DEF GrantsIn
    <3>2. <<o, g>> \in B
      BY <3>1 DEF Reverse
    <3>3. QED
      BY <3>2 DEF GrantsIn
  <2>3. QED
    BY <2>1, <2>2
<1>6. QED
  BY <1>1, <1>3, <1>4, <1>5

\* In one write a request makes of what it saw what was wanted, and its rollback the reverse.
LEMMA SentAll ==
    ASSUME TypeOK, OneChunk, NEW r \in Reqs, batch[r] = Changes(r), tuples[job[r].u] = Seen(r)
    PROVE  \A C : IsNextChunk(C, batch[r]) =>
              /\ C = batch[r] /\ Accepts(job[r].u, C)
              /\ WithChanges(job[r].u, C) = [tuples EXCEPT ![job[r].u] = Target(r)]
<1> SUFFICES ASSUME NEW C, IsNextChunk(C, batch[r])
             PROVE  /\ C = batch[r] /\ Accepts(job[r].u, C)
                    /\ WithChanges(job[r].u, C) = [tuples EXCEPT ![job[r].u] = Target(r)]
  OBVIOUS
<1>1. C = Changes(r) /\ C = batch[r] /\ Cardinality(C) =< ChunkSize
  <2>1. /\ Changes(r) \in SUBSET Change
        /\ \A x, y \in Changes(r) : x[2] = y[2] => x = y
    BY ChangesOnce
  <2>2. /\ Cardinality(Changes(r)) =< ChunkSize
        /\ IsNextChunk(C, Changes(r)) => C = Changes(r)
    BY <2>1, ChunkIsBatch
  <2>3. QED
    BY <2>2
<1>2. GrantsIn(C, "write") = Target(r) \ Seen(r) /\ GrantsIn(C, "delete") = Seen(r) \ Target(r)
  BY <1>1, ChangesOnce
<1>3. Accepts(job[r].u, C)
  BY <1>1, <1>2 DEF Accepts
<1>4. (tuples[job[r].u] \ GrantsIn(C, "delete")) \cup GrantsIn(C, "write") = Target(r)
  BY <1>2
<1>5. QED
  BY <1>1, <1>3, <1>4 DEF WithChanges

LEMMA TakenBack ==
    ASSUME TypeOK, OneChunk, NEW r \in Reqs, batch[r] = Reverse(Changes(r)),
           tuples[job[r].u] = Target(r)
    PROVE  \A C : C = batch[r] \/ IsNextChunk(C, batch[r]) =>
              /\ C = batch[r] /\ Accepts(job[r].u, C)
              /\ WithChanges(job[r].u, C) = [tuples EXCEPT ![job[r].u] = Seen(r)]
<1> SUFFICES ASSUME NEW C, C = batch[r] \/ IsNextChunk(C, batch[r])
             PROVE  /\ C = batch[r] /\ Accepts(job[r].u, C)
                    /\ WithChanges(job[r].u, C) = [tuples EXCEPT ![job[r].u] = Seen(r)]
  OBVIOUS
<1>1. C = Reverse(Changes(r)) /\ C = batch[r] /\ Cardinality(C) =< ChunkSize
  <2>1. /\ Reverse(Changes(r)) \in SUBSET Change
        /\ \A x, y \in Reverse(Changes(r)) : x[2] = y[2] => x = y
    BY ReverseOnce
  <2>2. /\ Cardinality(Reverse(Changes(r))) =< ChunkSize
        /\ IsNextChunk(C, Reverse(Changes(r))) => C = Reverse(Changes(r))
    BY <2>1, ChunkIsBatch
  <2>3. QED
    BY <2>2
<1>2. GrantsIn(C, "write") = Seen(r) \ Target(r) /\ GrantsIn(C, "delete") = Target(r) \ Seen(r)
  BY <1>1, ReverseOnce
<1>3. Accepts(job[r].u, C)
  BY <1>1, <1>2 DEF Accepts
<1>4. (tuples[job[r].u] \ GrantsIn(C, "delete")) \cup GrantsIn(C, "write") = Seen(r)
  BY <1>2
<1>5. QED
  BY <1>1, <1>3, <1>4 DEF WithChanges
-----------------------------------------------------------------------------
(* The steps of a request about one user, when no other is served. *)

\* What is known before such a step, and what it has to lead to.
Own(r) ==
    /\ TypeInv /\ r \in InFlight /\ job[r] \in Jobs /\ job[r].op # "sync"
    /\ Midway(r)
    /\ \A v \in Users \ {job[r].u} : Agrees(v)

Outcome(r) ==
    /\ \A v \in Users \ {job[r].u} : Agrees(v)'
    /\ IF r \in InFlight' THEN Midway(r)' ELSE Agrees(job[r].u)'

LEMMA Refused ==
    ASSUME TypeOK, OneRefusal, NEW kind, Fault(kind)
    PROVE  kind = "refused" /\ faults' >= MaxFaults /\ faults' >= faults /\ faults' \in Nat
  BY BoundAssumption DEF OneRefusal, Fault, TypeOK

LEMMA AgreesKept ==
    ASSUME NEW u \in Users, Agrees(u), tuples'[u] = tuples[u], doc'[u] = doc[u],
           faults \in Nat, faults' \in Nat, faults' >= faults
    PROVE  Agrees(u)'
  BY BoundAssumption DEF Agrees

\* The others are as they were.
LEMMA OthersAgree ==
    ASSUME NEW r \in Reqs, Own(r), faults' \in Nat, faults' >= faults,
           \A v \in Users \ {job[r].u} : tuples'[v] = tuples[v] /\ doc'[v] = doc[v]
    PROVE  \A v \in Users \ {job[r].u} : Agrees(v)'
  BY AgreesKept DEF Own, TypeInv, TypeOK

LEMMA TargetSound ==
    ASSUME EditsGrant, NEW r \in Reqs, job[r] \in Jobs
    PROVE  /\ Target(r) \in SUBSET Grants /\ Visible(Target(r)) = Target(r)
           /\ job[r].op \in {"create", "edit"} => IsSet(Target(r))
           /\ job[r].op = "delete" => Target(r) = {}
<1>1. WellFormed(job[r])
  BY JobsAssumption
<1>2. job[r].grants \in SUBSET Grants /\ Visible({}) = {}
  BY <1>1 DEF WellFormed, Job, Visible
<1>3. QED
  BY <1>1, <1>2 DEF WellFormed, EditsGrant, Target

LEMMA StaysAsked ==
    ASSUME NEW r \in Reqs, UNCHANGED <<job, got>>
    PROVE  Target(r)' = Target(r) /\ Changes(r)' = Changes(r) /\ Reverse(Changes(r))' = Reverse(Changes(r))
<1>1. Target(r)' = Target(r) /\ Changes(r)' = Changes(r)
  BY SameChanges DEF Target
<1>2. QED
  BY <1>1 DEF Reverse

\* A call that throws after the tuples were sent leads into the rollback.
LEMMA ThrownBack ==
    ASSUME NEW r \in Reqs, Own(r), undo[r], pc[r] \in Writes \cup {"readBack"}, Throw(r),
           UNCHANGED <<tuples, job, got>>, faults' >= MaxFaults,
           job[r].op # "create" => doc'[job[r].u] = got[r][job[r].u]
    PROVE  r \in InFlight' /\ Midway(r)'
<1>1. pc'[r] = "rollback" /\ batch'[r] = Reverse(Changes(r)) /\ undo'[r] = FALSE
  BY DEF Own, TypeInv, TypeOK, Throw
<1>2. Target(r)' = Target(r) /\ Reverse(Changes(r))' = Reverse(Changes(r))
  BY StaysAsked
<1>3. /\ Visible(got[r][job[r].u]) = got[r][job[r].u]
      /\ IsSet(got[r][job[r].u]) <=> job[r].op # "create"
      /\ tuples[job[r].u] = Target(r)
  BY DEF Own, Midway, Writes
<1>4. Midway(r)'
  BY <1>1, <1>2, <1>3 DEF Midway, Writes
<1>5. QED
  BY <1>1, <1>4 DEF InFlight

LEMMA OwnReads ==
    ASSUME OneRefusal, NEW r \in Reqs, Own(r), pc[r] = "readUser",
           NEW q, NEW G, NEW D, Answer(r, q, G, D)
    PROVE  Outcome(r)
<1>0. TypeOK /\ job[r].u \in Users
  BY JobType DEF Own, TypeInv
<1>1. UNCHANGED <<tuples, doc, job>> /\ Agrees(job[r].u) /\ ~undo[r]
  BY DEF Answer, Own, Midway
<1>2. faults' >= faults /\ faults' \in Nat
  BY <1>0, Refused DEF Answer, TypeOK
<1>3. Throw(r) \/ \E s \in {"readUser", "check"} : Proceed(r, s)
  BY DEF Answer, Joined
<1>4. Agrees(job[r].u)'
  BY <1>0, <1>1, <1>2, AgreesKept DEF TypeOK
<1>5. \A v \in Users \ {job[r].u} : Agrees(v)'
  BY <1>1, <1>2, OthersAgree
<1>6. ASSUME r \in InFlight' PROVE Midway(r)'
  <2>1. pc'[r] \in {"readUser", "check"} /\ undo'[r] = FALSE
    BY <1>0, <1>1, <1>3, <1>6, ThrownOver DEF Proceed, TypeOK
  <2>2. QED
    BY <1>1, <1>4, <2>1 DEF Midway, Writes
<1>7. QED
  BY <1>4, <1>5, <1>6 DEF Outcome

\* Only an edit can find that there is nothing to change.
LEMMA NothingToChange ==
    ASSUME EditsGrant, NEW r \in Reqs, Own(r), Changes(r) = {},
           got[r][job[r].u] \in SUBSET Grants, Visible(got[r][job[r].u]) = got[r][job[r].u],
           IsSet(got[r][job[r].u]) <=> job[r].op # "create"
    PROVE  job[r].op = "edit"
<1>1. Target(r) = Seen(r) /\ Seen(r) = got[r][job[r].u]
  <2>1. GrantsIn({}, "write") = {} /\ GrantsIn({}, "delete") = {}
    BY DEF GrantsIn
  <2>2. TypeOK
    BY DEF Own, TypeInv
  <2>3. Target(r) \ Seen(r) = {} /\ Seen(r) \ Target(r) = {}
    BY <2>1, <2>2, ChangesOnce
  <2>4. QED
    BY <2>3 DEF Seen
<1>2. job[r].op \in Ops
  BY JobType DEF Own, TypeInv
<1>3. job[r].op # "create" /\ job[r].op # "delete"
  BY <1>1, TargetSound DEF Own, IsSet
<1>4. QED
  BY <1>2, <1>3 DEF Own, Ops

LEMMA OwnCheck ==
    ASSUME Setting, NEW r \in Reqs, Own(r), Knowing(r), Check(r)
    PROVE  Outcome(r)
<1>0. TypeOK /\ job[r].u \in Users /\ OneRefusal /\ EditsGrant
  BY JobType DEF Own, TypeInv, Setting
<1>1. UNCHANGED <<tuples, doc, job, got, undo>> /\ Agrees(job[r].u) /\ ~undo[r] /\ pc[r] = "check"
  BY DEF Check, locals, Own, Midway
<1>2. faults' >= faults /\ faults' \in Nat
  BY <1>0, Refused DEF Check, TypeOK
<1>3. /\ got[r][job[r].u] = tuples[job[r].u]
      /\ IsSet(got[r][job[r].u]) <=> job[r].op # "create"
      /\ Visible(got[r][job[r].u]) = got[r][job[r].u]
  BY <1>1 DEF Knowing, Agrees
<1>4. Agrees(job[r].u)'
  BY <1>0, <1>1, <1>2, AgreesKept DEF TypeOK
<1>5. \A v \in Users \ {job[r].u} : Agrees(v)'
  BY <1>1, <1>2, OthersAgree
<1>6. Target(r)' = Target(r) /\ Changes(r)' = Changes(r)
  BY <1>1, StaysAsked
<1>7. CASE pc' = [pc EXCEPT ![r] = "readBack"] /\ Changes(r) = {}
  <2>1. pc'[r] = "readBack" /\ job[r].op = "edit"
    BY <1>0, <1>3, <1>7, NothingToChange DEF TypeOK
  <2>2. Midway(r)'
    BY <1>1, <1>3, <1>4, <2>1 DEF Midway, Writes
  <2>3. QED
    BY <1>4, <1>5, <2>2 DEF Outcome
<1>8. CASE pc' = [pc EXCEPT ![r] = "send"] /\ batch' = [batch EXCEPT ![r] = Changes(r)]
  <2>1. pc'[r] = "send" /\ batch'[r] = Changes(r)
    BY <1>0, <1>8 DEF TypeOK
  <2>2. Midway(r)'
    BY <1>1, <1>3, <1>4, <1>6, <2>1 DEF Midway, Writes
  <2>3. QED
    BY <1>4, <1>5, <2>2 DEF Outcome
<1>9. CASE pc' = [pc EXCEPT ![r] = "failed"]
  <2>1. r \notin InFlight'
    BY <1>0, <1>9 DEF InFlight, Calls, TypeOK
  <2>2. QED
    BY <1>4, <1>5, <2>1 DEF Outcome
<1>10. QED
  BY <1>7, <1>8, <1>9 DEF Check

LEMMA OwnSend ==
    ASSUME Setting, NEW r \in Reqs, Own(r), SendChunk(r)
    PROVE  Outcome(r)
<1> DEFINE u == job[r].u
           X == got[r][job[r].u]
<1>0. TypeOK /\ u \in Users /\ OneRefusal /\ OneChunk /\ EditsGrant /\ job[r].op \in {"create", "edit", "delete"}
  BY JobType DEF Own, TypeInv, Setting, SendChunk, Phases
<1>1. UNCHANGED <<doc, job, got>> /\ pc[r] = "send" /\ Agrees(u) /\ ~undo[r]
  BY DEF SendChunk, locals, Own, Midway
<1>2. /\ tuples[u] = X /\ batch[r] = Changes(r) /\ Visible(X) = X
      /\ IsSet(X) <=> job[r].op # "create"
  BY <1>1 DEF Own, Midway
<1>3. PICK C : /\ IsNextChunk(C, batch[r])
               /\ \/ Accepts(u, C) /\ tuples' = WithChanges(u, C) /\ Sent(r, C) /\ UNCHANGED faults
                  \/ ~Accepts(u, C)
                  \/ Fault("refused") /\ Throw(r) /\ UNCHANGED tuples
                  \/ Fault("lost")
  BY DEF SendChunk
<1>4. C = batch[r] /\ Accepts(u, C) /\ WithChanges(u, C) = [tuples EXCEPT ![u] = Target(r)]
  BY <1>0, <1>2, <1>3, SentAll DEF Seen
<1>5. CASE Fault("refused") /\ Throw(r) /\ UNCHANGED tuples
  <2>1. faults' >= faults /\ faults' \in Nat /\ r \notin InFlight'
    BY <1>0, <1>1, <1>5, Refused, ThrownOver
  <2>2. Agrees(u)'
    BY <1>0, <1>1, <1>5, <2>1, AgreesKept DEF TypeOK
  <2>3. \A v \in Users \ {u} : Agrees(v)'
    BY <1>1, <1>5, <2>1, OthersAgree
  <2>4. QED
    BY <2>1, <2>2, <2>3 DEF Outcome
<1>6. CASE tuples' = WithChanges(u, C) /\ Sent(r, C) /\ UNCHANGED faults
  <2>1. /\ pc'[r] = AfterSend[job[r].op] /\ undo'[r] = TRUE
        /\ tuples'[u] = Target(r) /\ \A v \in Users \ {u} : tuples'[v] = tuples[v]
    BY <1>0, <1>4, <1>6 DEF Sent, TypeOK
  <2>2. \A v \in Users \ {u} : Agrees(v)'
    <3>1. faults' >= faults /\ faults' \in Nat
      BY <1>0, <1>6 DEF TypeOK
    <3>2. \A v \in Users \ {u} : tuples'[v] = tuples[v] /\ doc'[v] = doc[v]
      BY <1>1, <2>1
    <3>3. QED
      BY <3>1, <3>2, OthersAgree
  <2>3. Target(r)' = Target(r)
    BY <1>1, StaysAsked
  <2>4. /\ job[r].op = "create" => pc'[r] = "insert"
        /\ job[r].op = "edit" => pc'[r] = "update"
        /\ job[r].op = "delete" => pc'[r] = "findDoc"
    BY <2>1 DEF AfterSend
  <2>5. doc'[u] = doc[u] /\ (job[r].op # "create" => doc[u] = X)
        /\ (job[r].op = "create" /\ doc[u] # NoDoc => faults' >= MaxFaults)
    BY <1>1, <1>2, <1>6 DEF Agrees
  <2>6. Midway(r)'
    BY <1>0, <1>1, <1>2, <2>1, <2>3, <2>4, <2>5 DEF Midway, Writes
  <2>7. r \in InFlight'
    BY <1>0, <2>4 DEF InFlight, Calls
  <2>8. QED
    BY <2>2, <2>6, <2>7 DEF Outcome
<1>7. QED
  BY <1>0, <1>3, <1>4, <1>5, <1>6, Refused
LEMMA OwnInsert ==
    ASSUME Setting, NEW r \in Reqs, Own(r), Insert(r)
    PROVE  Outcome(r)
<1> DEFINE u == job[r].u
<1>0. TypeOK /\ u \in Users /\ OneRefusal /\ EditsGrant /\ job[r].op \in Ops
  BY JobType DEF Own, TypeInv, Setting
<1>1. UNCHANGED <<tuples, job, got>> /\ pc[r] = "insert" /\ undo[r] /\ job[r].op = "create"
  <2>1. pc[r] = "insert" /\ undo[r] /\ "insert" = AfterSend[job[r].op]
    BY DEF Insert, Own, Midway, Writes
  <2>2. job[r].op = "create"
    BY <1>0, <2>1 DEF AfterSend, Own, Ops
  <2>3. QED
    BY <2>1, <2>2 DEF Insert, WriteDoc, locals
<1>2. /\ tuples[u] = Target(r) /\ IsSet(Target(r)) /\ Target(r) \in SUBSET Grants
      /\ doc[u] # NoDoc => faults >= MaxFaults
      /\ Visible(got[r][u]) = got[r][u] /\ ~IsSet(got[r][u])
  BY <1>0, <1>1, TargetSound DEF Own, Midway, Writes
<1>3. \A v \in Users \ {u} : tuples'[v] = tuples[v] /\ doc'[v] = doc[v]
  BY <1>0, <1>1 DEF Insert, WriteDoc, WithDoc, TypeOK
<1>4. CASE Throw(r) /\ faults' >= MaxFaults /\ faults' >= faults /\ faults' \in Nat
  <2>1. r \in InFlight' /\ Midway(r)'
    BY <1>1, <1>4, ThrownBack DEF Writes
  <2>2. \A v \in Users \ {u} : Agrees(v)'
    BY <1>3, <1>4, OthersAgree
  <2>3. QED
    BY <2>1, <2>2 DEF Outcome
<1>5. CASE doc' = WithDoc(u, job[r].grants) /\ Proceed(r, "readBack") /\ UNCHANGED faults
  <2>1. /\ pc'[r] = "readBack" /\ undo'[r] = undo[r] /\ doc'[u] = Target(r)
        /\ Target(r)' = Target(r) /\ r \in InFlight'
    BY <1>0, <1>1, <1>5, StaysAsked DEF Proceed, TypeOK, WithDoc, Target, InFlight, Calls
  <2>2. Midway(r)'
    BY <1>1, <1>2, <2>1 DEF Midway, Writes
  <2>3. faults' >= faults /\ faults' \in Nat
    BY <1>0, <1>5 DEF TypeOK
  <2>4. \A v \in Users \ {u} : Agrees(v)'
    BY <1>3, <2>3, OthersAgree
  <2>5. QED
    BY <2>1, <2>2, <2>4 DEF Outcome
<1>6. CASE doc[u] # NoDoc /\ Throw(r) /\ UNCHANGED faults
  BY <1>0, <1>2, <1>4, <1>6 DEF TypeOK
<1>7. QED
  BY <1>0, <1>4, <1>5, <1>6, Refused DEF Insert, WriteDoc

LEMMA OwnUpdate ==
    ASSUME Setting, NEW r \in Reqs, Own(r), Update(r)
    PROVE  Outcome(r)
<1> DEFINE u == job[r].u
<1>0. TypeOK /\ u \in Users /\ OneRefusal /\ EditsGrant /\ job[r].op \in Ops
  BY JobType DEF Own, TypeInv, Setting
<1>1. UNCHANGED <<tuples, job, got>> /\ pc[r] = "update" /\ undo[r] /\ job[r].op = "edit"
  <2>1. pc[r] = "update" /\ undo[r] /\ "update" = AfterSend[job[r].op]
    BY DEF Update, Own, Midway, Writes
  <2>2. job[r].op = "edit"
    BY <1>0, <2>1 DEF AfterSend, Own, Ops
  <2>3. QED
    BY <2>1, <2>2 DEF Update, WriteDoc, locals
<1>2. /\ tuples[u] = Target(r) /\ doc[u] = got[r][u] /\ doc[u] # NoDoc
      /\ Visible(got[r][u]) = got[r][u] /\ IsSet(got[r][u])
  <2>1. got[r][u] \in SUBSET Grants
    BY <1>0 DEF TypeOK
  <2>2. QED
    BY <1>0, <1>1, <2>1, NoDocAssumption DEF Own, Midway, Writes
<1>3. \A v \in Users \ {u} : tuples'[v] = tuples[v] /\ doc'[v] = doc[v]
  BY <1>0, <1>1 DEF Update, WriteDoc, WithDoc, TypeOK
<1>4. CASE Fault("refused") /\ Throw(r) /\ UNCHANGED doc
  <2>1. faults' >= MaxFaults /\ faults' >= faults /\ faults' \in Nat
    BY <1>0, <1>4, Refused
  <2>2. r \in InFlight' /\ Midway(r)'
    BY <1>1, <1>2, <1>4, <2>1, ThrownBack DEF Writes
  <2>3. \A v \in Users \ {u} : Agrees(v)'
    BY <1>3, <2>1, OthersAgree
  <2>4. QED
    BY <2>2, <2>3 DEF Outcome
<1>5. CASE doc' = WithDoc(u, job[r].grants) /\ Proceed(r, "readBack") /\ UNCHANGED faults
  <2>1. /\ pc'[r] = "readBack" /\ undo'[r] = undo[r] /\ doc'[u] = Target(r)
        /\ Target(r)' = Target(r) /\ r \in InFlight'
    BY <1>0, <1>1, <1>5, StaysAsked DEF Proceed, TypeOK, WithDoc, Target, InFlight, Calls
  <2>2. Midway(r)'
    BY <1>1, <1>2, <2>1 DEF Midway, Writes
  <2>3. faults' >= faults /\ faults' \in Nat
    BY <1>0, <1>5 DEF TypeOK
  <2>4. \A v \in Users \ {u} : Agrees(v)'
    BY <1>3, <2>3, OthersAgree
  <2>5. QED
    BY <2>1, <2>2, <2>4 DEF Outcome
<1>6. QED
  BY <1>0, <1>2, <1>4, <1>5, Refused DEF Update, WriteDoc

LEMMA OwnRemove ==
    ASSUME Setting, NEW r \in Reqs, Own(r), FindDoc(r) \/ Remove(r)
    PROVE  Outcome(r)
<1> DEFINE u == job[r].u
<1>0. TypeOK /\ u \in Users /\ OneRefusal /\ EditsGrant /\ job[r].op \in Ops
  BY JobType DEF Own, TypeInv, Setting
<1>1. UNCHANGED <<tuples, job, got>> /\ pc[r] \in {"findDoc", "remove"} /\ undo[r]
      /\ job[r].op = "delete"
  <2>1. pc[r] \in {"findDoc", "remove"} /\ undo[r]
    BY DEF FindDoc, Remove, Own, Midway, Writes
  <2>2. pc[r] = "findDoc" => "findDoc" = AfterSend[job[r].op]
    BY DEF Own, Midway, Writes
  <2>3. job[r].op = "delete"
    BY <1>0, <2>1, <2>2 DEF AfterSend, Own, Midway, Ops
  <2>4. QED
    BY <2>1, <2>3 DEF FindDoc, Remove, Read, WriteDoc, locals
<1>2. /\ tuples[u] = {} /\ Target(r) = {} /\ doc[u] = got[r][u] /\ doc[u] # NoDoc
      /\ Visible(got[r][u]) = got[r][u] /\ IsSet(got[r][u])
  <2>1. got[r][u] \in SUBSET Grants
    BY <1>0 DEF TypeOK
  <2>2. QED
    BY <1>0, <1>1, <2>1, NoDocAssumption, TargetSound DEF Own, Midway, Writes
<1>3. \A v \in Users \ {u} : tuples'[v] = tuples[v] /\ doc'[v] = doc[v]
  BY <1>0, <1>1 DEF FindDoc, Remove, Read, WriteDoc, WithDoc, TypeOK
<1>4. CASE Fault("refused") /\ Throw(r) /\ UNCHANGED doc
  <2>1. faults' >= MaxFaults /\ faults' >= faults /\ faults' \in Nat
    BY <1>0, <1>4, Refused
  <2>2. r \in InFlight' /\ Midway(r)'
    BY <1>1, <1>2, <1>4, <2>1, ThrownBack DEF Writes
  <2>3. \A v \in Users \ {u} : Agrees(v)'
    BY <1>3, <2>1, OthersAgree
  <2>4. QED
    BY <2>2, <2>3 DEF Outcome
<1>5. CASE Proceed(r, "remove") /\ UNCHANGED <<doc, faults>>
  <2>1. /\ pc'[r] = "remove" /\ undo'[r] = undo[r] /\ Target(r)' = Target(r) /\ r \in InFlight'
    BY <1>0, <1>1, <1>5, StaysAsked DEF Proceed, TypeOK, InFlight, Calls
  <2>2. Midway(r)'
    BY <1>1, <1>2, <1>5, <2>1 DEF Midway, Writes
  <2>3. faults' >= faults /\ faults' \in Nat
    BY <1>0, <1>5 DEF TypeOK
  <2>4. \A v \in Users \ {u} : Agrees(v)'
    BY <1>3, <2>3, OthersAgree
  <2>5. QED
    BY <2>1, <2>2, <2>4 DEF Outcome
<1>6. CASE doc' = WithDoc(u, NoDoc) /\ Proceed(r, "done") /\ UNCHANGED faults
  <2>1. r \notin InFlight' /\ doc'[u] = NoDoc
    BY <1>0, <1>6 DEF Proceed, TypeOK, WithDoc, InFlight, Calls
  <2>2. Agrees(u)'
    BY <1>1, <1>2, <2>1 DEF Agrees, Visible, IsSet
  <2>3. faults' >= faults /\ faults' \in Nat
    BY <1>0, <1>6 DEF TypeOK
  <2>4. \A v \in Users \ {u} : Agrees(v)'
    BY <1>3, <2>3, OthersAgree
  <2>5. QED
    BY <2>1, <2>2, <2>4 DEF Outcome
<1>7. QED
  BY <1>0, <1>2, <1>4, <1>5, <1>6, Refused DEF FindDoc, Remove, Read, WriteDoc
LEMMA OwnReadBack ==
    ASSUME Setting, NEW r \in Reqs, Own(r), ReadBack(r)
    PROVE  Outcome(r)
<1> DEFINE u == job[r].u
<1>0. TypeOK /\ u \in Users /\ OneRefusal /\ EditsGrant
  BY JobType DEF Own, TypeInv, Setting
<1>1. UNCHANGED <<tuples, doc, job, got>> /\ pc[r] = "readBack"
  BY DEF ReadBack, Read, locals
<1>2. \A v \in Users : tuples'[v] = tuples[v] /\ doc'[v] = doc[v]
  BY <1>1
<1>3. faults' >= faults /\ faults' \in Nat
  BY <1>0, Refused DEF ReadBack, Read, TypeOK
<1>4. \A v \in Users \ {u} : Agrees(v)'
  BY <1>2, <1>3, OthersAgree
<1>5. undo[r] => /\ doc[u] = Target(r) /\ tuples[u] = Target(r) /\ IsSet(Target(r))
                 /\ Visible(Target(r)) = Target(r) /\ doc[u] # NoDoc
  <2> HAVE undo[r]
  <2>1. job[r].op \in {"create", "edit"} /\ doc[u] = Target(r) /\ tuples[u] = Target(r)
    BY <1>0, <1>1, JobType DEF Own, Midway, Ops
  <2>2. Target(r) \in SUBSET Grants /\ Visible(Target(r)) = Target(r) /\ IsSet(Target(r))
    BY <1>0, <2>1, TargetSound DEF Own
  <2>3. QED
    BY <2>1, <2>2, NoDocAssumption
<1>6. Agrees(u)'
  <2>1. CASE undo[r]
    BY <1>0, <1>1, <1>5, <2>1 DEF Agrees
  <2>2. CASE ~undo[r]
    <3>1. Agrees(u)
      BY <1>1, <2>2 DEF Own, Midway
    <3>2. tuples'[u] = tuples[u] /\ doc'[u] = doc[u] /\ faults \in Nat
      BY <1>0, <1>2 DEF TypeOK
    <3>3. QED
      BY <1>0, <1>1, <1>3, <3>1, <3>2, AgreesKept
  <2>3. QED
    BY <2>1, <2>2
<1>7. CASE r \notin InFlight'
  BY <1>4, <1>6, <1>7 DEF Outcome
<1>8. CASE r \in InFlight'
  <2>1. job[r].op = "create" /\ Throw(r) /\ (doc[u] = NoDoc \/ Fault("refused"))
    BY <1>0, <1>8 DEF ReadBack, Read, Proceed, TypeOK, InFlight, Calls
  <2>2. undo[r]
    BY <1>1, <2>1 DEF Own, Midway
  <2>3. faults' >= MaxFaults
    BY <1>0, <1>5, <2>1, <2>2, Refused
  <2>4. Midway(r)'
    BY <1>1, <2>1, <2>2, <2>3, ThrownBack
  <2>5. QED
    BY <1>4, <1>8, <2>4 DEF Outcome
<1>9. QED
  BY <1>7, <1>8

LEMMA OwnUndo ==
    ASSUME Setting, NEW r \in Reqs, Own(r), UndoChunk(r)
    PROVE  Outcome(r)
<1> DEFINE u == job[r].u
           X == got[r][job[r].u]
<1>0. TypeOK /\ u \in Users /\ OneChunk
  BY JobType DEF Own, TypeInv, Setting
<1>1. UNCHANGED <<doc, job, got>> /\ pc[r] = "rollback"
  BY DEF UndoChunk, locals
<1>2. /\ tuples[u] = Target(r) /\ batch[r] = Reverse(Changes(r)) /\ faults >= MaxFaults
      /\ Visible(X) = X /\ (IsSet(X) <=> job[r].op # "create")
      /\ job[r].op # "create" => doc[u] = X
  BY <1>1 DEF Own, Midway, Writes
<1>3. PICK C : /\ C = batch[r] \/ IsNextChunk(C, batch[r])
               /\ \/ /\ tuples' = WithChanges(u, C)
                     /\ pc' = [pc EXCEPT ![r] = IF C = batch[r] THEN "failed" ELSE "rollback"]
                     /\ UNCHANGED faults
                  \/ ~Accepts(u, C)
                  \/ faults < MaxFaults
  BY DEF UndoChunk
<1>4. C = batch[r] /\ Accepts(u, C) /\ WithChanges(u, C) = [tuples EXCEPT ![u] = X]
  BY <1>0, <1>2, <1>3, TakenBack DEF Seen
<1>5. ~(faults < MaxFaults)
  BY <1>0, <1>2, BoundAssumption DEF TypeOK
<1>6. tuples' = [tuples EXCEPT ![u] = X] /\ pc' = [pc EXCEPT ![r] = "failed"] /\ UNCHANGED faults
  BY <1>3, <1>4, <1>5
<1>7. r \notin InFlight' /\ tuples'[u] = X /\ \A v \in Users \ {u} : tuples'[v] = tuples[v]
  BY <1>0, <1>6 DEF InFlight, Calls, TypeOK
<1>8. faults' >= faults /\ faults' \in Nat
  BY <1>0, <1>6 DEF TypeOK
<1>9. \A v \in Users \ {u} : Agrees(v)'
  BY <1>1, <1>7, <1>8, OthersAgree
<1>10. Agrees(u)'
  BY <1>1, <1>2, <1>6, <1>7 DEF Agrees
<1>11. QED
  BY <1>7, <1>9, <1>10 DEF Outcome

LEMMA OwnStep ==
    ASSUME Setting, NEW r \in Reqs, Own(r), Knowing(r), pc[r] \notin SyncCalls, Serve(r)
    PROVE  Outcome(r) /\ UNCHANGED job
<1>1. ~\E j \in Jobs : Accept(r, j)
  BY DEF Own, Accept
<1>2. UNCHANGED job
  BY <1>1 DEF Serve, ReadTuples, ReadMongo, ReadAssigners, Answer, Check, SendChunk, Insert,
       Update, FindDoc, Remove, ReadBack, UndoChunk, SyncSave, SyncDelete, locals
<1>3. CASE (\E rel \in Relations : ReadTuples(r, rel)) \/ ReadMongo(r)
  <2>1. pc[r] = "readUser" /\ \E q, G, D : Answer(r, q, G, D)
    BY <1>3 DEF ReadTuples, ReadMongo, SyncCalls
  <2>2. QED
    BY <1>2, <2>1, OwnReads DEF Setting
<1>4. QED
  BY <1>1, <1>2, <1>3, OwnCheck, OwnSend, OwnInsert, OwnUpdate, OwnRemove, OwnReadBack, OwnUndo
     DEF Serve, SyncCalls, ReadAssigners, SyncSave, SyncDelete
-----------------------------------------------------------------------------
(* The steps of a sync that finds the mirror in order. *)

LEMMA FaultsGrow ==
    ASSUME TypeOK, NEW r \in Reqs, Serve(r)
    PROVE  faults' >= faults /\ faults' \in Nat
<1>1. UNCHANGED faults \/ faults' = faults + 1
  BY DEF Serve, Accept, ReadTuples, ReadMongo, ReadAssigners, Answer, Check, SendChunk, Insert,
     Update, FindDoc, Remove, ReadBack, UndoChunk, SyncSave, SyncDelete, Read, WriteDoc, Fault
<1>2. QED
  BY <1>1 DEF TypeOK

\* What is saved of a user is what the document says already.
LEMMA SavesTheSame ==
    ASSUME TypeOK, NEW r \in Reqs, SyncSaves(r), \A v \in Users : got[r][v] \subseteq tuples[v],
           NEW u \in Users, Agrees(u), SyncSave(r, u)
    PROVE  doc' = doc
<1>1. u \in Listed(tuples) /\ u \in todo[r]
  BY DEF SyncSaves, SyncSave
<1>2. IsSet(tuples[u]) /\ doc[u] = tuples[u] /\ Visible(tuples[u]) = tuples[u]
  BY <1>1 DEF Listed, Agrees
<1>3. copy[r][u] = tuples[u]
  BY <1>1, <1>2 DEF SyncSaves, Row
<1>4. got[r][u] = tuples[u]
  <2>1. tuples[u] \cap Grants \subseteq got[r][u]
    BY <1>1 DEF SyncSaves, Known
  <2>2. tuples[u] \subseteq Grants
    BY DEF TypeOK
  <2>3. QED
    BY <2>1, <2>2
<1>5. tuples[u] \in SUBSET Grants /\ tuples[u] # NoDoc
  BY NoDocAssumption DEF TypeOK
<1>6. Saved(tuples[u], tuples[u], tuples[u]) = tuples[u]
  BY <1>5, SavedNew
<1>7. doc' = doc \/ doc' = WithDoc(u, tuples[u])
  BY <1>2, <1>3, <1>4, <1>5, <1>6 DEF SyncSave, WriteDoc
<1>8. WithDoc(u, tuples[u]) = doc
  BY <1>2 DEF WithDoc, TypeOK
<1>9. QED
  BY <1>7, <1>8

\* Only documents of users without a grant are deleted.
LEMMA DeletesRemains ==
    ASSUME TypeOK, NEW r \in Reqs, SyncDeletes(r), \A v \in Users : got[r][v] \subseteq tuples[v],
           SyncDelete(r), NEW u \in Users
    PROVE  tuples'[u] = tuples[u] /\ (doc'[u] = doc[u] \/ (~IsSet(tuples[u]) /\ doc'[u] = NoDoc))
<1>1. IsSet(got[r][u]) <=> IsSet(tuples[u])
  BY KnownSet DEF SyncDeletes, Known, TypeOK
<1>2. QED
  BY <1>1 DEF SyncDelete, WriteDoc

LEMMA SyncAgrees ==
    ASSUME SyncInv, NEW r \in Reqs, r \in InFlight, job[r].op = "sync", Serve(r),
           \A u \in Users : Agrees(u)
    PROVE  UNCHANGED job /\ \A u \in Users : Agrees(u)'
<1>0. /\ TypeOK /\ SyncKnows(r) /\ pc[r] \in SyncCalls
      /\ \A v \in Users : got[r][v] \subseteq tuples[v]
  BY DEF SyncInv, PermissionInv, TypeInv, SyncPhase, SyncKnows
<1>1. faults' >= faults /\ faults' \in Nat /\ faults \in Nat
  BY <1>0, FaultsGrow DEF TypeOK
<1>2. ~\E j \in Jobs : Accept(r, j)
  BY DEF Accept
<1>3. UNCHANGED job
  BY <1>2 DEF Serve, ReadTuples, ReadMongo, ReadAssigners, Answer, Check, SendChunk, Insert,
       Update, FindDoc, Remove, ReadBack, UndoChunk, SyncSave, SyncDelete, locals
<1>4. CASE UNCHANGED <<tuples, doc>>
  <2>1. ASSUME NEW u \in Users PROVE Agrees(u)'
    BY <1>1, <1>4, AgreesKept
  <2>2. QED
    BY <1>3, <2>1
<1>5. CASE \E u \in Users : SyncSave(r, u)
  <2>1. doc' = doc
    BY <1>0, <1>5, SavesTheSame DEF SyncKnows, SyncSave
  <2>2. tuples' = tuples
    BY <1>5 DEF SyncSave, WriteDoc
  <2>3. QED
    BY <1>3, <1>4, <2>1, <2>2
<1>6. CASE SyncDelete(r)
  <2>1. SyncDeletes(r)
    BY <1>0, <1>6 DEF SyncKnows, SyncDelete
  <2> SUFFICES ASSUME NEW u \in Users PROVE Agrees(u)'
    BY <1>3
  <2>2. tuples'[u] = tuples[u] /\ (doc'[u] = doc[u] \/ (~IsSet(tuples[u]) /\ doc'[u] = NoDoc))
    BY <1>0, <1>6, <2>1, DeletesRemains
  <2>3. CASE doc'[u] = doc[u]
    BY <1>1, <2>2, <2>3, AgreesKept
  <2>4. CASE ~IsSet(tuples[u]) /\ doc'[u] = NoDoc
    BY <2>2, <2>4 DEF Agrees
  <2>5. QED
    BY <2>2, <2>3, <2>4
<1>7. QED
  BY <1>0, <1>2, <1>3, <1>4, <1>5, <1>6 DEF Serve, ReadTuples, ReadMongo, ReadAssigners, Answer,
     Check, SendChunk, Insert, Update, FindDoc, Remove, ReadBack, UndoChunk, SyncCalls

-----------------------------------------------------------------------------
(* The theorems about requests served one after the other. *)

LEMMA InitAgrees == Init => \A u \in Users : Agrees(u)
<1> SUFFICES ASSUME Init, NEW u \in Users PROVE Agrees(u)
  OBVIOUS
<1>1. Visible(tuples[u]) = tuples[u] /\ doc[u] = MirrorOf(tuples[u])
  BY DEF Init
<1>2. QED
  BY <1>1 DEF MirrorOf, Agrees

LEMMA SerialInit == Init => SerialInv
<1> SUFFICES ASSUME Init PROVE SerialInv
  OBVIOUS
<1>1. InFlight = {} /\ OneByOne
  BY DEF Init, InFlight, Calls, OneByOne, Used
<1>2. job \in [Reqs -> Jobs]
  BY JobsAssumption DEF Init
<1>3. QED
  BY <1>1, <1>2, SyncInit, GuardInit, InitAgrees DEF SerialInv

LEMMA SerialAlone ==
    ASSUME OneByOne'
    PROVE  SyncsAlone
<1>1. InFlight' \subseteq Used'
  BY DEF InFlight, Used, Calls
<1>2. QED
  BY <1>1 DEF OneByOne, SyncsAlone

\* A request that is taken up finds everything in order.
LEMMA AcceptedMidway ==
    ASSUME TypeInv, NEW r \in Reqs, NEW j \in Jobs, Accept(r, j), \A u \in Users : Agrees(u)
    PROVE  (\A u \in Users : Agrees(u)') /\ (job'[r].op # "sync" => Midway(r)')
<1>0. TypeOK /\ j.u \in Users
  BY JobsAssumption DEF TypeInv, WellFormed, Job
<1>1. /\ pc'[r] = IF j.op = "sync" THEN "syncRead" ELSE "readUser"
      /\ job'[r] = j /\ undo'[r] = FALSE /\ UNCHANGED <<tuples, doc, faults>>
  BY <1>0, AcceptedInFlight DEF Accept
<1>2. \A u \in Users : Agrees(u)'
  BY <1>1 DEF Agrees
<1>3. QED
  BY <1>0, <1>1, <1>2 DEF Midway, Writes
\* A step of a request changes nothing of the others, and ends with its user in order.
LEMMA SerialStep ==
    ASSUME Setting, SerialInv, NEW r \in Reqs, Serve(r), OneByOne'
    PROVE  /\ job' \in [Reqs -> Jobs]
           /\ \A u \in Users : (job'[r].op # "sync" /\ r \in InFlight' => job'[r].u # u) => Agrees(u)'
           /\ r \in InFlight' /\ job'[r].op # "sync" => Midway(r)'
<1>0. /\ TypeInv /\ TypeOK /\ InFlight \subseteq {r} /\ job[r] \in Jobs
      /\ job \in [Reqs -> Jobs]
  BY OnlyOneMoves DEF SerialInv, SyncInv, PermissionInv, TypeInv
<1>1. CASE \E j \in Jobs : Accept(r, j)
  <2>1. PICK j \in Jobs : Accept(r, j)
    BY <1>1
  <2>2. InFlight = {}
    BY <1>0, <2>1 DEF Accept
  <2>3. \A u \in Users : Agrees(u)
    BY <2>2 DEF SerialInv
  <2>4. (\A u \in Users : Agrees(u)') /\ (job'[r].op # "sync" => Midway(r)')
    BY <1>0, <2>1, <2>3, AcceptedMidway
  <2>5. job' \in [Reqs -> Jobs]
    BY <1>0, <2>1 DEF Accept
  <2>6. QED
    BY <2>4, <2>5
<1>2. CASE r \in InFlight /\ job[r].op = "sync"
  <2>1. \A u \in Users : Agrees(u)
    BY <1>0, <1>2 DEF SerialInv
  <2>2. UNCHANGED job /\ \A u \in Users : Agrees(u)'
    BY <1>2, <2>1, SyncAgrees DEF SerialInv
  <2>3. QED
    BY <1>0, <1>2, <2>2
<1>3. CASE r \in InFlight /\ job[r].op # "sync"
  <2>1. \A v \in Users \ {job[r].u} : Agrees(v)
    BY <1>0 DEF SerialInv
  <2>2. Own(r) /\ Knowing(r) /\ pc[r] \notin SyncCalls
    BY <1>0, <1>3, <2>1 DEF SerialInv, Own, GuardInv, SyncInv, SyncPhase
  <2>3. Outcome(r) /\ UNCHANGED job
    BY <2>2, OwnStep
  <2>4. /\ \A v \in Users \ {job[r].u} : Agrees(v)'
        /\ r \in InFlight' => Midway(r)'
        /\ r \notin InFlight' => Agrees(job[r].u)'
    BY <2>3 DEF Outcome
  <2>5. ASSUME NEW u \in Users, r \in InFlight' => job'[r].u # u PROVE Agrees(u)'
    BY <1>3, <2>3, <2>4, <2>5
  <2>6. QED
    BY <1>0, <1>3, <2>3, <2>4, <2>5
<1>4. QED
  BY <1>0, <1>1, <1>2, <1>3, ServedInFlight

LEMMA SerialNext == Setting /\ SerialInv /\ [Next /\ OneByOne']_vars => SerialInv'
<1> SUFFICES ASSUME Setting, SerialInv, [Next /\ OneByOne']_vars PROVE SerialInv'
  OBVIOUS
<1>1. CASE Next /\ OneByOne' /\ ~UNCHANGED vars
  <2>1. SyncInv' /\ GuardInv'
    BY <1>1, SerialAlone, SyncNext, GuardNext DEF SerialInv
  <2>2. CASE \E r \in Reqs : Serve(r)
    <3>1. PICK r \in Reqs : Serve(r)
      BY <2>2
    <3>2. InFlight' \subseteq {r}
      BY <1>1, <3>1, OnlyOneMoves DEF SerialInv, GuardInv
    <3>3. /\ job' \in [Reqs -> Jobs]
          /\ \A u \in Users : (job'[r].op # "sync" /\ r \in InFlight' => job'[r].u # u) => Agrees(u)'
          /\ r \in InFlight' /\ job'[r].op # "sync" => Midway(r)'
      BY <1>1, <3>1, SerialStep
    <3>4. ASSUME NEW u \in Users, \A q \in InFlight' : job'[q].op = "sync" \/ job'[q].u # u
          PROVE  Agrees(u)'
      BY <3>3, <3>4
    <3>5. ASSUME NEW q \in InFlight', job'[q].op # "sync" PROVE Midway(q)'
      BY <3>2, <3>3, <3>5
    <3>6. QED
      BY <1>1, <2>1, <3>3, <3>4, <3>5 DEF SerialInv
  <2>3. CASE Crash
    BY <2>3 DEF Crash, Fault, Setting, OneRefusal
  <2>4. QED
    BY <1>1, <2>2, <2>3 DEF Next, Idle
<1>2. CASE UNCHANGED vars
  <2>1. UNCHANGED <<tuples, doc, pc, job, todo, got, copy, batch, undo, faults>>
    BY <1>2 DEF vars, locals
  <2>2. SyncInv' /\ GuardInv'
    BY <1>2, SyncNext, GuardNext DEF SerialInv
  <2>3. InFlight' = InFlight /\ OneByOne'
    BY <2>1 DEF SerialInv, InFlight, OneByOne, Used
  <2>4. ASSUME NEW u \in Users PROVE Agrees(u)' <=> Agrees(u)
    BY <2>1 DEF Agrees
  <2>5. ASSUME NEW q \in InFlight', job'[q].op # "sync" PROVE Midway(q)'
    <3>1. Midway(q) /\ q \in Reqs
      BY <2>1, <2>3, <2>5 DEF SerialInv, InFlight
    <3>2. Target(q)' = Target(q) /\ Changes(q)' = Changes(q)
          /\ Reverse(Changes(q))' = Reverse(Changes(q))
      BY <2>1, <3>1, StaysAsked
    <3>3. QED
      BY <2>1, <3>1, <3>2 DEF Midway, Agrees, Writes
  <2>6. QED
    BY <2>1, <2>2, <2>3, <2>4, <2>5 DEF SerialInv
<1>3. QED
  BY <1>1, <1>2

LEMMA AtRestAgrees ==
    ASSUME SerialInv
    PROVE  GrantsMirrored /\ NoHiddenGrants
<1> SUFFICES ASSUME AtRest PROVE \A u \in Users : Agrees(u)
  BY DEF GrantsMirrored, NoHiddenGrants, Agrees
<1>1. QED
  BY DEF AtRest, SerialInv

\* When one request is served after the other, a batch is one write, edits leave a grant,
\* and at most one call is refused, then between requests the document of everyone who has
\* a grant is what OpenFGA holds: a create, an edit or a delete that fails has taken back
\* its tuples, and a sync saves what is there.
THEOREM MirrorKept ==
    ASSUME Setting
    PROVE  SerialSpec => []GrantsMirrored
<1>1. SerialInv /\ [Next /\ OneByOne']_vars => SerialInv'
  BY SerialNext
<1>2. SerialInv => GrantsMirrored
  BY AtRestAgrees
<1>3. QED
  BY <1>1, <1>2, SerialInit, PTL DEF SerialSpec

\* In the same setting no classification is left in a domain without a role.
THEOREM NothingHidden ==
    ASSUME Setting
    PROVE  SerialSpec => []NoHiddenGrants
<1>1. SerialInv /\ [Next /\ OneByOne']_vars => SerialInv'
  BY SerialNext
<1>2. SerialInv => NoHiddenGrants
  BY AtRestAgrees
<1>3. QED
  BY <1>1, <1>2, SerialInit, PTL DEF SerialSpec
=============================================================================
