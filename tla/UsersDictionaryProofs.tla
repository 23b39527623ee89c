------------------------- MODULE UsersDictionaryProofs -------------------------
(***************************************************************************)
(* The users dictionary has its types, is out of date only for one of the  *)
(* reasons StaleExplained names, and serves who reads through a process    *)
(* what that process has answered, for any readers, changes, processes and *)
(* faults.                                                                 *)
(*                                                                         *)
(* A fill is under way from the aggregation to the SET, in a reader or in  *)
(* the queue of a process.  The inductive invariant says of a fill what    *)
(* StaleExplained says of the entry, with the invalidations Redis has      *)
(* executed since the aggregation in the place of late; it needs that a    *)
(* DEL is sent by a request that is done, and that the change of such a    *)
(* request stays in effect.                                                *)
(***************************************************************************)
EXTENDS UsersDictionary, TLAPS

-----------------------------------------------------------------------------
(* Types. *)

DelOf(w) == [cmd |-> "del", by |-> w]

\* What a command carries.
LEMMA CommandTypes ==
    ASSUME NEW c \in Commands
    PROVE  /\ c.cmd \in {"get", "set", "del"}
           /\ c.cmd = "get" => c.by \in Readers
           /\ c.cmd = "set" => c.entry \in Entry
           /\ c.cmd = "del" => c.by \in Writers /\ c = DelOf(c.by)
  BY DEF Commands, DelOf

\* The first command of a queue, and what is left.
LEMMA QueueTypes ==
    ASSUME TypeOK, NEW p \in Processes, queue[p] # <<>>
    PROVE  /\ Head(queue[p]) \in Commands
           /\ Tail(queue[p]) \in Seq(Commands)
           /\ Head(queue[p]) = queue[p][1]
           /\ 1 \in 1..Len(queue[p])
  <1>1. queue[p] \in Seq(Commands)
    BY DEF TypeOK
  <1> QED
    BY <1>1

\* A command is sent and taken with the queue keeping its type.
LEMMA SendType ==
    ASSUME TypeOK, NEW p \in Processes, NEW c \in Commands, Send(p, c)
    PROVE  queue' \in [Processes -> Seq(Commands)]
  <1>1. Append(queue[p], c) \in Seq(Commands)
    BY DEF TypeOK
  <1> QED
    BY <1>1 DEF TypeOK, Send

LEMMA PopType ==
    ASSUME TypeOK, NEW p \in Processes, queue[p] # <<>>, Pop(p)
    PROVE  queue' \in [Processes -> Seq(Commands)]
  BY QueueTypes DEF TypeOK, Pop

\* The effects of Redis keep the types of what they change.
LEMMA EffectType ==
    ASSUME TypeOK, NEW c \in Commands, Effect(c)
    PROVE  /\ dict' \in Entry \cup {NoEntry}
           /\ pc' \in [Requests -> {"idle", "get", "aggregate", "fill", "answered",
                                    "new", "write", "readBack", "grant", "undo",
                                    "invalidate", "done", "failed", "crashed"}]
           /\ got' \in [Readers -> Entry \cup {NoEntry}]
           /\ deleted' \in SUBSET Writers
  <1>1. CASE c.cmd = "get" /\ Get(c.by)
    BY <1>1, CommandTypes DEF TypeOK, Get, Goto, Requests
  <1>2. CASE c.cmd = "set" /\ Set(c.entry)
    <2>1. c.entry \in Entry
      BY <1>2, CommandTypes
    <2> QED
      BY <1>2, <2>1 DEF TypeOK, Set, Entry
  <1>3. CASE c.cmd = "del" /\ Del(c.by)
    BY <1>3, CommandTypes DEF TypeOK, Del
  <1> QED
    BY <1>1, <1>2, <1>3 DEF Effect

\* The invariant, with the entry a reader is about to hand to Redis.
FillHasEntry == \A r \in Readers : pc[r] = "fill" => got[r] \in Entry

TypeInv == TypeOK /\ FillHasEntry

LEMMA TypeInit == Init => TypeInv
  BY DEF Init, TypeInv, TypeOK, FillHasEntry, Requests, States

LEMMA TypeRead ==
    ASSUME TypeInv, NEW r \in Readers,
           (\E p \in Processes : StartRead(r, p)) \/ Aggregate(r) \/ Fill(r)
    PROVE  TypeInv'
  <1> USE NamesAssumption DEF TypeInv, Requests
  <1>1. ASSUME NEW p \in Processes, StartRead(r, p) PROVE TypeInv'
    <2>1. [cmd |-> "get", by |-> r] \in Commands
      BY DEF Commands
    <2>2. queue' \in [Processes -> Seq(Commands)]
      BY <1>1, <2>1, SendType DEF StartRead
    <2> QED
      BY <1>1, <2>2 DEF StartRead, TypeOK, FillHasEntry, Goto, history
  <1>2. CASE Aggregate(r)
    <2>1. Computed \in Entry
      BY DEF Computed, Entry, TypeOK, States
    <2>2. faults' \in Nat
      BY <1>2 DEF Aggregate, TypeOK, Fault
    <2>3. got' \in [Readers -> Entry \cup {NoEntry}]
      BY <1>2, <2>1 DEF Aggregate, TypeOK
    <2>4. \E l \in {"fill", "idle"} : pc' = [pc EXCEPT ![r] = l]
      BY <1>2 DEF Aggregate, Goto
    <2>5. TypeOK'
      BY <1>2, <2>2, <2>3, <2>4 DEF Aggregate, TypeOK, history
    <2>6. FillHasEntry'
      BY <1>2, <2>1 DEF Aggregate, TypeOK, FillHasEntry, Goto
    <2> QED
      BY <2>5, <2>6
  <1>3. CASE Fill(r)
    <2>1. [cmd |-> "set", entry |-> got[r]] \in Commands
      BY <1>3 DEF Fill, FillHasEntry, Commands
    <2>2. queue' \in [Processes -> Seq(Commands)]
      <3>1. at[r] \in Processes
        BY DEF TypeOK
      <3> QED
        BY <1>3, <2>1, <3>1, SendType DEF Fill
    <2> QED
      BY <1>3, <2>2 DEF Fill, TypeOK, FillHasEntry, Goto, history
  <1> QED
    BY <1>1, <1>2, <1>3

LEMMA TypeChange ==
    ASSUME TypeInv, NEW w \in Writers,
           \/ \E p \in Processes : StartWrite(w, p)
           \/ Write(w) \/ ReadBack(w) \/ Grant(w) \/ Undo(w) \/ Invalidate(w)
    PROVE  TypeInv'
  <1> USE NamesAssumption DEF TypeInv, Requests
  <1>1. ASSUME NEW p \in Processes, StartWrite(w, p) PROVE TypeInv'
    BY <1>1 DEF StartWrite, TypeOK, FillHasEntry, Goto, history
  <1>2. CASE Write(w)
    <2>1. faults' \in Nat
      BY <1>2 DEF Write, TypeOK, Fault
    <2>2. NextCall(w) \in {"invalidate", "readBack", "grant"}
      BY KindAssumption DEF NextCall, Kinds
    <2>3. users' \in States
      BY <1>2 DEF Write, TypeOK, States
    <2> QED
      BY <1>2, <2>1, <2>2, <2>3 DEF Write, TypeOK, FillHasEntry, Goto, history
  <1>3. CASE ReadBack(w) \/ Grant(w)
    BY <1>3 DEF ReadBack, Grant, TypeOK, FillHasEntry, Goto, history
  <1>4. CASE Undo(w)
    <2>1. faults' \in Nat
      BY <1>4 DEF Undo, TypeOK, Fault
    <2>2. users' \in States
      BY <1>4 DEF Undo, TypeOK, States
    <2> QED
      BY <1>4, <2>1, <2>2 DEF Undo, TypeOK, FillHasEntry, Goto, history
  <1>5. CASE Invalidate(w)
    <2>1. [cmd |-> "del", by |-> w] \in Commands
      BY DEF Commands
    <2>2. queue' \in [Processes -> Seq(Commands)]
      <3>1. at[w] \in Processes
        BY DEF TypeOK
      <3> QED
        BY <1>5, <2>1, <3>1, SendType DEF Invalidate
    <2> QED
      BY <1>5, <2>2 DEF Invalidate, TypeOK, FillHasEntry, Goto, history
  <1> QED
    BY <1>1, <1>2, <1>3, <1>4, <1>5

\* Redis puts no reader before its SET.
LEMMA EffectFill ==
    ASSUME TypeInv, NEW c \in Commands, Effect(c)
    PROVE  FillHasEntry'
  <1> USE NamesAssumption DEF TypeInv
  <1>1. CASE c.cmd = "get" /\ Get(c.by)
    BY <1>1, CommandTypes DEF Get, Goto, TypeOK, FillHasEntry, Requests
  <1>2. CASE c.cmd = "set" /\ Set(c.entry)
    BY <1>2 DEF Set, FillHasEntry
  <1>3. CASE c.cmd = "del" /\ Del(c.by)
    BY <1>3 DEF Del, FillHasEntry
  <1> QED
    BY <1>1, <1>2, <1>3 DEF Effect

LEMMA TypeProcess ==
    ASSUME TypeInv, NEW p \in Processes,
           Execute(p) \/ Resend(p) \/ Refuse(p) \/ Crash(p)
    PROVE  TypeInv'
  <1> USE NamesAssumption DEF TypeInv
  <1>1. CASE Execute(p)
    <2>1. Head(queue[p]) \in Commands
      BY <1>1, QueueTypes DEF Execute
    <2>2. queue' \in [Processes -> Seq(Commands)]
      BY <1>1, PopType DEF Execute
    <2> QED
      BY <1>1, <2>1, <2>2, EffectType, EffectFill DEF Execute, TypeOK
  <1>2. CASE Resend(p)
    <2>1. Head(queue[p]) \in Commands
      BY <1>2, QueueTypes DEF Resend
    <2>2. faults' \in Nat
      BY <1>2 DEF Resend, TypeOK, Fault
    <2> QED
      BY <1>2, <2>1, <2>2, EffectType, EffectFill DEF Resend, TypeOK
  <1>3. CASE Refuse(p)
    <2>1. Head(queue[p]) \in Commands
      BY <1>3, QueueTypes DEF Refuse
    <2>2. queue' \in [Processes -> Seq(Commands)]
      BY <1>3, PopType DEF Refuse
    <2>3. faults' \in Nat
      BY <1>3 DEF Refuse, TypeOK, Fault
    <2> QED
      BY <1>3, <2>1, <2>2, <2>3, CommandTypes
      DEF Refuse, TypeOK, FillHasEntry, Goto, Requests
  <1>4. CASE Crash(p)
    <2>1. <<>> \in Seq(Commands)
      OBVIOUS
    <2>2. queue' \in [Processes -> Seq(Commands)]
      BY <1>4, <2>1 DEF Crash, TypeOK
    <2>3. faults' \in Nat
      BY <1>4 DEF Crash, TypeOK, Fault
    <2> QED
      BY <1>4, <2>2, <2>3 DEF Crash, TypeOK, FillHasEntry, Requests
  <1> QED
    BY <1>1, <1>2, <1>3, <1>4

LEMMA TypeNext == TypeInv /\ [Next]_vars => TypeInv'
  <1> SUFFICES ASSUME TypeInv, [Next]_vars PROVE TypeInv'
    OBVIOUS
  <1>1. CASE Expire
    BY <1>1 DEF Expire, TypeInv, TypeOK, FillHasEntry, requests, history
  <1>2. CASE UNCHANGED vars
    BY <1>2 DEF vars, requests, history, TypeInv, TypeOK, FillHasEntry
  <1> QED
    BY <1>1, <1>2, TypeRead, TypeChange, TypeProcess DEF Next

\* Every value that the requests, the connections and the stores hold has its
\* type, for any readers, changes and processes and any faults.
THEOREM TypeCorrect == Spec => []TypeOK
  <1>1. TypeInv => TypeOK
    BY DEF TypeInv
  <1> QED
    BY TypeInit, TypeNext, <1>1, PTL DEF Spec

-----------------------------------------------------------------------------
(* Why an entry is out of date. *)

\* Whether a command waits in the queue of a process.
Waiting(p, c) == \E i \in 1..Len(queue[p]) : queue[p][i] = c

Excused(w) == pc[w] # "done" \/ Deleting(w) \/ w \in dropped

\* The changes an entry misses or keeps wrongly are excused, or their DEL was
\* executed after its aggregation.
Explained(e) == \A w \in Differ(e.of, users) : Excused(w) \/ w \in deleted \ e.asOf

\* What an aggregation has seen deleted it has seen in effect.
Coherent(e) == e.asOf \subseteq e.of /\ Explained(e)

DonesInEffect ==
    /\ \A w \in Writers :
          pc[w] \in {"readBack", "grant", "undo", "invalidate", "done"} => w \in users
    /\ \A w \in deleted : pc[w] = "done"

DelsByDones ==
    \A p \in Processes, w \in Writers :
        Waiting(p, DelOf(w)) => pc[w] = "done" /\ at[w] = p

FillsCoherent ==
    /\ \A r \in Readers : pc[r] = "fill" => Coherent(got[r])
    /\ \A p \in Processes, e \in Entry :
          Waiting(p, [cmd |-> "set", entry |-> e]) => Coherent(e)

IInv == TypeInv /\ DonesInEffect /\ DelsByDones /\ FillsCoherent /\ StaleExplained

-----------------------------------------------------------------------------
(* What a step does to a queue. *)

LEMMA WaitingTypes ==
    ASSUME TypeOK, NEW p \in Processes
    PROVE  /\ queue[p] \in Seq(Commands)
           /\ \A i \in 1..Len(queue[p]) : queue[p][i] \in Commands
  BY DEF TypeOK

\* A command sent waits, and those before it still do.
LEMMA SendWaiting ==
    ASSUME TypeOK, NEW p \in Processes, NEW c \in Commands, Send(p, c)
    PROVE  \A q \in Processes, d \in Commands :
              Waiting(q, d)' <=> Waiting(q, d) \/ (q = p /\ d = c)
  <1> SUFFICES ASSUME NEW q \in Processes, NEW d \in Commands
               PROVE  Waiting(q, d)' <=> Waiting(q, d) \/ (q = p /\ d = c)
    OBVIOUS
  <1>1. queue[q] \in Seq(Commands)
    BY WaitingTypes
  <1>2. CASE q = p
    <2>1. queue'[q] = Append(queue[q], c)
      BY <1>2 DEF Send, TypeOK
    <2>2. Len(queue'[q]) = Len(queue[q]) + 1
      BY <1>1, <2>1
    <2>3. \A i \in 1..Len(queue[q]) : queue'[q][i] = queue[q][i]
      BY <1>1, <2>1
    <2>4. queue'[q][Len(queue[q]) + 1] = c
      BY <1>1, <2>1
    <2>5. Len(queue[q]) \in Nat
      BY <1>1
    <2> QED
      BY <1>2, <2>2, <2>3, <2>4, <2>5 DEF Waiting
  <1>3. CASE q # p
    BY <1>3 DEF Send, TypeOK, Waiting
  <1> QED
    BY <1>2, <1>3

\* A command taken was the first; the others wait on.
LEMMA PopWaiting ==
    ASSUME TypeOK, NEW p \in Processes, queue[p] # <<>>, Pop(p)
    PROVE  \A q \in Processes, d \in Commands :
              /\ Waiting(q, d)' => Waiting(q, d)
              /\ Waiting(q, d) => Waiting(q, d)' \/ (q = p /\ d = Head(queue[p]))
  <1> SUFFICES ASSUME NEW q \in Processes, NEW d \in Commands
               PROVE  /\ Waiting(q, d)' => Waiting(q, d)
                      /\ Waiting(q, d) => Waiting(q, d)' \/ (q = p /\ d = Head(queue[p]))
    OBVIOUS
  <1>1. queue[q] \in Seq(Commands)
    BY WaitingTypes
  <1>2. CASE q = p
    <2>1. queue'[q] = Tail(queue[q])
      BY <1>2 DEF Pop, TypeOK
    <2>2. /\ Len(queue'[q]) = Len(queue[q]) - 1
          /\ \A i \in 1..Len(queue[q]) - 1 : queue'[q][i] = queue[q][i + 1]
          /\ Head(queue[q]) = queue[q][1]
          /\ Len(queue[q]) \in Nat
      BY <1>1, <1>2, <2>1
    <2>3. Waiting(q, d)' => Waiting(q, d)
      BY <2>2 DEF Waiting
    <2>4. ASSUME NEW i \in 1..Len(queue[q]), queue[q][i] = d, i # 1
          PROVE  Waiting(q, d)'
      <3>1. i - 1 \in 1..Len(queue'[q]) /\ queue'[q][i - 1] = d
        BY <2>2, <2>4
      <3> QED
        BY <3>1 DEF Waiting
    <2> QED
      BY <1>2, <2>2, <2>3, <2>4 DEF Waiting
  <1>3. CASE q # p
    BY <1>3 DEF Pop, TypeOK, Waiting
  <1> QED
    BY <1>2, <1>3

\* The first command of a queue waits.
LEMMA HeadWaiting ==
    ASSUME TypeOK, NEW p \in Processes, queue[p] # <<>>
    PROVE  Waiting(p, Head(queue[p]))
  BY QueueTypes DEF Waiting


-----------------------------------------------------------------------------
(* What a step leaves alone. *)

SetOf(e) == [cmd |-> "set", entry |-> e]

LEMMA CommandsOf ==
    /\ \A w \in Writers : DelOf(w) \in Commands
    /\ \A e \in Entry : SetOf(e) \in Commands
    /\ \A w \in Writers, e \in Entry : DelOf(w) # SetOf(e)
    /\ \A w, v \in Writers : DelOf(w) = DelOf(v) => w = v
    /\ \A e, f \in Entry : SetOf(e) = SetOf(f) => e = f
    /\ \A r \in Readers : /\ [cmd |-> "get", by |-> r] \in Commands
                          /\ \A w \in Writers : [cmd |-> "get", by |-> r] # DelOf(w)
                          /\ \A e \in Entry : [cmd |-> "get", by |-> r] # SetOf(e)
  BY DEF DelOf, SetOf, Commands

\* A read leaves the writers and their DELs as they are; what it adds to the
\* fills is the entry computed from the users as they are.
LEMMA ReadFrame ==
    ASSUME TypeInv, NEW r \in Readers,
           (\E p \in Processes : StartRead(r, p)) \/ Aggregate(r) \/ Fill(r)
    PROVE  /\ UNCHANGED <<users, dict, deleted, dropped>>
           /\ \A w \in Writers : pc'[w] = pc[w] /\ at'[w] = at[w]
           /\ \A q \in Processes, w \in Writers :
                 Waiting(q, DelOf(w))' <=> Waiting(q, DelOf(w))
           /\ \A q \in Processes, e \in Entry :
                 Waiting(q, SetOf(e))' =>
                    Waiting(q, SetOf(e)) \/ (pc[r] = "fill" /\ e = got[r])
           /\ \A s \in Readers :
                 pc'[s] = "fill" => \/ pc[s] = "fill" /\ got'[s] = got[s]
                                    \/ got'[s] = Computed
  <1> USE NamesAssumption DEF TypeInv
  <1>1. ASSUME NEW p \in Processes, NEW c \in Commands, Send(p, c),
               \A w \in Writers : c # DelOf(w)
        PROVE  /\ \A q \in Processes, w \in Writers :
                     Waiting(q, DelOf(w))' <=> Waiting(q, DelOf(w))
               /\ \A q \in Processes, e \in Entry :
                     Waiting(q, SetOf(e))' => Waiting(q, SetOf(e)) \/ c = SetOf(e)
    BY <1>1, SendWaiting, CommandsOf
  <1>2. ASSUME queue' = queue
        PROVE  \A q \in Processes, d \in Commands : Waiting(q, d)' <=> Waiting(q, d)
    BY <1>2 DEF Waiting
  <1>3. ASSUME NEW p \in Processes, StartRead(r, p)
        PROVE  /\ UNCHANGED <<users, dict, deleted, dropped>>
               /\ \A w \in Writers : pc'[w] = pc[w] /\ at'[w] = at[w]
               /\ \A q \in Processes, w \in Writers :
                     Waiting(q, DelOf(w))' <=> Waiting(q, DelOf(w))
               /\ \A q \in Processes, e \in Entry :
                     Waiting(q, SetOf(e))' => Waiting(q, SetOf(e))
               /\ \A s \in Readers :
                     pc'[s] = "fill" => pc[s] = "fill" /\ got'[s] = got[s]
    <2>1. Send(p, [cmd |-> "get", by |-> r])
      BY <1>3 DEF StartRead
    <2>2. /\ \A q \in Processes, w \in Writers :
                Waiting(q, DelOf(w))' <=> Waiting(q, DelOf(w))
          /\ \A q \in Processes, e \in Entry :
                Waiting(q, SetOf(e))' => Waiting(q, SetOf(e))
      BY <2>1, <1>1, CommandsOf
    <2> QED
      BY <1>3, <2>2 DEF StartRead, Goto, TypeOK, Requests, history
  <1>4. CASE Aggregate(r)
    <2>1. queue' = queue /\ UNCHANGED <<users, dict, deleted, dropped, at>>
      BY <1>4 DEF Aggregate, history
    <2>2. \A w \in Writers : pc'[w] = pc[w]
      BY <1>4 DEF Aggregate, Goto, TypeOK, Requests
    <2>3. \A s \in Readers :
             pc'[s] = "fill" => \/ pc[s] = "fill" /\ got'[s] = got[s]
                                \/ got'[s] = Computed
      BY <1>4 DEF Aggregate, Goto, TypeOK, Requests
    <2> QED
      BY <2>1, <2>2, <2>3, <1>2, CommandsOf
  <1>5. CASE Fill(r)
    <2>1. /\ Send(at[r], SetOf(got[r]))
          /\ pc[r] = "fill" /\ got[r] \in Entry /\ at[r] \in Processes
      BY <1>5 DEF Fill, SetOf, FillHasEntry, TypeOK, Requests
    <2>2. /\ \A q \in Processes, w \in Writers :
                Waiting(q, DelOf(w))' <=> Waiting(q, DelOf(w))
          /\ \A q \in Processes, e \in Entry :
                Waiting(q, SetOf(e))' => Waiting(q, SetOf(e)) \/ e = got[r]
      BY <2>1, <1>1, CommandsOf
    <2> QED
      BY <1>5, <2>1, <2>2 DEF Fill, Goto, TypeOK, Requests, history
  <1> QED
    BY <1>3, <1>4, <1>5

\* A change leaves the other writers and the fills as they are; once it is
\* done its DEL waits.
LEMMA ChangeFrame ==
    ASSUME TypeInv, DonesInEffect, NEW w \in Writers,
           \/ \E p \in Processes : StartWrite(w, p)
           \/ Write(w) \/ ReadBack(w) \/ Grant(w) \/ Undo(w) \/ Invalidate(w)
    PROVE  /\ UNCHANGED <<dict, deleted, dropped, got>>
           /\ \A r \in Readers : pc'[r] = pc[r]
           /\ \A v \in Writers \ {w} : /\ pc'[v] = pc[v] /\ at'[v] = at[v]
                                       /\ v \in users' <=> v \in users
           /\ pc[w] # "done"
           /\ at'[w] = at[w] \/ pc[w] = "new"
           /\ pc'[w] \in {"readBack", "grant", "undo", "invalidate", "done"} => w \in users'
           /\ pc'[w] = "done" => Deleting(w)'
           /\ \A q \in Processes, d \in Commands :
                 /\ Waiting(q, d) => Waiting(q, d)'
                 /\ Waiting(q, d)' =>
                       Waiting(q, d) \/ (pc'[w] = "done" /\ q = at'[w] /\ d = DelOf(w))
  <1> USE NamesAssumption DEF TypeInv
  <1>1. ASSUME queue' = queue
        PROVE  \A q \in Processes, d \in Commands : Waiting(q, d)' <=> Waiting(q, d)
    BY <1>1 DEF Waiting
  <1>2. ASSUME NEW p \in Processes, StartWrite(w, p)
        PROVE  /\ UNCHANGED <<dict, deleted, dropped, got, queue, users>>
               /\ pc[w] = "new" /\ pc'[w] = "write"
               /\ \A r \in Requests \ {w} : pc'[r] = pc[r] /\ at'[r] = at[r]
    BY <1>2 DEF StartWrite, Goto, TypeOK, Requests, history
  <1>3. ASSUME Write(w) \/ ReadBack(w) \/ Grant(w) \/ Undo(w)
        PROVE  /\ UNCHANGED <<dict, deleted, dropped, got, queue, at>>
               /\ pc[w] # "done"
               /\ \A r \in Requests \ {w} : pc'[r] = pc[r]
               /\ \A v \in Writers \ {w} : v \in users' <=> v \in users
               /\ pc'[w] \in {"readBack", "grant", "undo", "invalidate"} => w \in users'
               /\ pc'[w] # "done"
    <2>1. CASE Write(w)
      <3>1. NextCall(w) \in {"invalidate", "readBack", "grant"}
        BY KindAssumption DEF NextCall, Kinds
      <3> QED
        BY <2>1, <3>1 DEF Write, Goto, TypeOK, Requests, history
    <2>2. CASE ReadBack(w) \/ Grant(w)
      BY <2>2 DEF ReadBack, Grant, DonesInEffect, Goto, TypeOK, Requests, history
    <2>3. CASE Undo(w)
      BY <2>3 DEF Undo, Goto, TypeOK, Requests, history
    <2> QED
      BY <1>3, <2>1, <2>2, <2>3
  <1>4. ASSUME Invalidate(w)
        PROVE  /\ UNCHANGED <<dict, deleted, dropped, got, at, users>>
               /\ pc[w] # "done" /\ pc'[w] = "done" /\ w \in users
               /\ \A r \in Requests \ {w} : pc'[r] = pc[r]
               /\ Send(at[w], DelOf(w)) /\ at[w] \in Processes
    BY <1>4 DEF Invalidate, DonesInEffect, Goto, TypeOK, Requests, history, DelOf
  <1>5. CASE \E p \in Processes : StartWrite(w, p)
    BY <1>1, <1>2, <1>5 DEF Requests
  <1>6. CASE Write(w) \/ ReadBack(w) \/ Grant(w) \/ Undo(w)
    BY <1>1, <1>3, <1>6 DEF Requests
  <1>7. CASE Invalidate(w)
    <2>1. \A q \in Processes, d \in Commands :
             Waiting(q, d)' <=> Waiting(q, d) \/ (q = at[w] /\ d = DelOf(w))
      BY <1>4, <1>7, SendWaiting, CommandsOf
    <2>2. Deleting(w)'
      BY <1>4, <1>7, <2>1, CommandsOf DEF Deleting, Waiting, DelOf
    <2> QED
      BY <1>4, <1>7, <2>1, <2>2, CommandsOf DEF Requests
  <1> QED
    BY <1>5, <1>6, <1>7

\* Redis and the process change no user; a writer that is done stays so, with
\* its process, and a DEL that waits no more was executed or dropped.
LEMMA ProcessFrame ==
    ASSUME TypeInv, DelsByDones, NEW p \in Processes,
           Execute(p) \/ Resend(p) \/ Refuse(p) \/ Crash(p)
    PROVE  /\ users' = users /\ at' = at
           /\ \A w \in Writers : pc'[w] = pc[w] \/ (pc'[w] = "crashed" /\ pc[w] # "done")
           /\ \A r \in Readers : pc'[r] = "fill" => pc[r] = "fill" /\ got'[r] = got[r]
           /\ deleted \subseteq deleted' /\ dropped \subseteq dropped'
           /\ \A w \in deleted' \ deleted : pc[w] = "done" /\ w \in Writers
           /\ \A q \in Processes, d \in Commands : Waiting(q, d)' => Waiting(q, d)
           /\ \A w \in Writers :
                 Deleting(w) => \/ Deleting(w)' \/ w \in dropped'
                                \/ w \in deleted' /\ dict' = NoEntry
           /\ \/ dict' = dict /\ deleted' = deleted
              \/ dict' = NoEntry
              \/ deleted' = deleted /\ \E e \in Entry :
                    Waiting(p, SetOf(e)) /\ dict' = [e EXCEPT !.late = deleted \ e.asOf]
  <1> USE NamesAssumption DEF TypeInv
  <1>1. ASSUME queue[p] # <<>>, Effect(Head(queue[p]))
        PROVE  /\ \A w \in Writers : pc'[w] = pc[w]
               /\ \A r \in Readers : pc'[r] = "fill" => pc[r] = "fill" /\ got'[r] = got[r]
               /\ deleted \subseteq deleted'
               /\ \A w \in deleted' \ deleted : pc[w] = "done" /\ w \in Writers
               /\ \A w \in Writers :
                     Head(queue[p]) = DelOf(w) => w \in deleted' /\ dict' = NoEntry
               /\ \/ dict' = dict /\ deleted' = deleted
                  \/ dict' = NoEntry
                  \/ deleted' = deleted /\ \E e \in Entry :
                        Waiting(p, SetOf(e)) /\ dict' = [e EXCEPT !.late = deleted \ e.asOf]
    <2> DEFINE c == Head(queue[p])
    <2>1. c \in Commands /\ Waiting(p, c)
      BY <1>1, QueueTypes, HeadWaiting
    <2> HIDE DEF c
    <2>2. Effect(c)
      BY <1>1 DEF c
    <2>3. CASE c.cmd = "get" /\ Get(c.by)
      <3>1. c.by \in Readers /\ \A w \in Writers : c # DelOf(w)
        BY <2>1, <2>3, CommandTypes DEF DelOf
      <3> QED
        BY <2>3, <3>1 DEF Get, Goto, TypeOK, Requests, c
    <2>4. CASE c.cmd = "set" /\ Set(c.entry)
      <3>1. /\ c.entry \in Entry /\ c = SetOf(c.entry)
            /\ \A w \in Writers : c # DelOf(w)
        BY <2>1, <2>4, CommandTypes DEF DelOf, SetOf, Commands
      <3> QED
        BY <2>1, <2>4, <3>1 DEF Set, c
    <2>5. CASE c.cmd = "del" /\ Del(c.by)
      <3>1. c.by \in Writers /\ c = DelOf(c.by)
        BY <2>1, <2>5, CommandTypes
      <3>2. pc[c.by] = "done"
        BY <2>1, <3>1 DEF DelsByDones
      <3>3. \A w \in Writers : c = DelOf(w) => w = c.by
        BY <3>1, CommandsOf
      <3> QED
        BY <2>5, <3>1, <3>2, <3>3 DEF Del, c
    <2> QED
      BY <2>2, <2>3, <2>4, <2>5 DEF Effect
  <1>2. ASSUME queue[p] # <<>>, Pop(p), at' = at
        PROVE  /\ \A q \in Processes, d \in Commands : Waiting(q, d)' => Waiting(q, d)
               /\ \A w \in Writers :
                     Deleting(w) => Deleting(w)' \/ Head(queue[p]) = DelOf(w)
    <2>1. \A w \in Writers : at[w] \in Processes /\ DelOf(w) \in Commands
      BY CommandsOf DEF TypeOK, Requests
    <2>4. \A w \in Writers, q \in Processes :
             at[w] = q => /\ Deleting(w) <=> Waiting(q, DelOf(w))
                          /\ Deleting(w)' <=> Waiting(q, DelOf(w))'
      BY <1>2 DEF Deleting, Waiting, DelOf
    <2>2. TypeOK
      OBVIOUS
    <2>3. \A q \in Processes, d \in Commands :
             /\ Waiting(q, d)' => Waiting(q, d)
             /\ Waiting(q, d) => Waiting(q, d)' \/ (q = p /\ d = Head(queue[p]))
      BY <1>2, <2>2, PopWaiting
    <2> QED
      BY <2>1, <2>3, <2>4
  <1>3. CASE Execute(p)
    <2>1. /\ queue[p] # <<>> /\ Effect(Head(queue[p])) /\ Pop(p)
          /\ UNCHANGED <<users, at, dropped>>
      BY <1>3 DEF Execute
    <2> QED
      BY <2>1, <1>1, <1>2
  <1>4. CASE Resend(p)
    <2>1. /\ queue[p] # <<>> /\ Effect(Head(queue[p]))
          /\ UNCHANGED <<users, at, dropped, queue>>
      BY <1>4 DEF Resend
    <2>2. /\ \A q \in Processes, d \in Commands : Waiting(q, d)' => Waiting(q, d)
          /\ \A w \in Writers : Deleting(w) => Deleting(w)'
      BY <2>1 DEF Waiting, Deleting
    <2> QED
      BY <2>1, <2>2, <1>1
  <1>5. CASE Refuse(p)
    <2>1. /\ queue[p] # <<>> /\ Pop(p)
          /\ UNCHANGED <<users, dict, at, got, deleted>>
      BY <1>5 DEF Refuse
    <2>2. Head(queue[p]) \in Commands
      BY <2>1, QueueTypes
    <2>3. /\ \A w \in Writers : pc'[w] = pc[w]
          /\ \A r \in Readers : pc'[r] = "fill" => pc[r] = "fill"
      BY <1>5, <2>2, CommandTypes DEF Refuse, Goto, TypeOK, Requests
    <2>4. /\ dropped \subseteq dropped'
          /\ \A w \in Writers : Head(queue[p]) = DelOf(w) => w \in dropped'
      BY <1>5 DEF Refuse, DelOf
    <2> QED
      BY <2>1, <2>3, <2>4, <1>2
  <1>6. CASE Crash(p)
    <2>1. UNCHANGED <<users, dict, at, got, deleted>>
      BY <1>6 DEF Crash
    <2>2. /\ \A w \in Writers : pc'[w] = pc[w] \/ (pc'[w] = "crashed" /\ pc[w] # "done")
          /\ \A r \in Readers : pc'[r] = "fill" => pc[r] = "fill"
      BY <1>6 DEF Crash, TypeOK, Requests
    <2>3. /\ queue'[p] = <<>>
          /\ \A q \in Processes \ {p} : queue'[q] = queue[q]
      BY <1>6 DEF Crash, TypeOK
    <2>4. \A q \in Processes, d \in Commands : Waiting(q, d)' => Waiting(q, d)
      BY <2>3 DEF Waiting
    <2>5. /\ dropped \subseteq dropped'
          /\ \A w \in Writers : Deleting(w) => Deleting(w)' \/ w \in dropped'
      BY <1>6, <2>1, <2>3 DEF Crash, Deleting, TypeOK, Requests
    <2> QED
      BY <2>1, <2>2, <2>4, <2>5
  <1> QED
    BY <1>3, <1>4, <1>5, <1>6

-----------------------------------------------------------------------------
(* The invariant. *)

LEMMA DonesNext == IInv /\ Next => DonesInEffect'
  <1> SUFFICES ASSUME IInv, Next PROVE DonesInEffect'
    OBVIOUS
  <1> USE DEF IInv
  <1>1. deleted \subseteq Writers
    BY DEF TypeInv, TypeOK
  <1>2. ASSUME NEW r \in Readers,
               (\E p \in Processes : StartRead(r, p)) \/ Aggregate(r) \/ Fill(r)
        PROVE  DonesInEffect'
    BY <1>1, <1>2, ReadFrame DEF DonesInEffect
  <1>3. ASSUME NEW w \in Writers,
               \/ \E p \in Processes : StartWrite(w, p)
               \/ Write(w) \/ ReadBack(w) \/ Grant(w) \/ Undo(w) \/ Invalidate(w)
        PROVE  DonesInEffect'
    <2>1. /\ deleted' = deleted /\ pc[w] # "done"
          /\ \A v \in Writers \ {w} : pc'[v] = pc[v] /\ (v \in users' <=> v \in users)
          /\ pc'[w] \in {"readBack", "grant", "undo", "invalidate", "done"} => w \in users'
      BY <1>3, ChangeFrame
    <2> QED
      BY <1>1, <2>1 DEF DonesInEffect
  <1>4. ASSUME NEW p \in Processes,
               Execute(p) \/ Resend(p) \/ Refuse(p) \/ Crash(p)
        PROVE  DonesInEffect'
    <2>1. /\ users' = users
          /\ \A w \in Writers : pc'[w] = pc[w] \/ (pc'[w] = "crashed" /\ pc[w] # "done")
          /\ \A w \in deleted' \ deleted : pc[w] = "done" /\ w \in Writers
      BY <1>4, ProcessFrame
    <2> QED
      BY <1>1, <2>1 DEF DonesInEffect
  <1>5. CASE Expire
    BY <1>5 DEF Expire, requests, history, DonesInEffect
  <1> QED
    BY <1>2, <1>3, <1>4, <1>5 DEF Next

LEMMA DelsNext == IInv /\ Next => DelsByDones'
  <1> SUFFICES ASSUME IInv, Next, NEW q \in Processes, NEW v \in Writers,
                      Waiting(q, DelOf(v))'
               PROVE  pc'[v] = "done" /\ at'[v] = q
    BY DEF DelsByDones
  <1> USE DEF IInv
  <1>1. DelOf(v) \in Commands
    BY CommandsOf
  <1>2. ASSUME NEW r \in Readers,
               (\E p \in Processes : StartRead(r, p)) \/ Aggregate(r) \/ Fill(r)
        PROVE  pc'[v] = "done" /\ at'[v] = q
    BY <1>2, ReadFrame DEF DelsByDones
  <1>3. ASSUME NEW w \in Writers,
               \/ \E p \in Processes : StartWrite(w, p)
               \/ Write(w) \/ ReadBack(w) \/ Grant(w) \/ Undo(w) \/ Invalidate(w)
        PROVE  pc'[v] = "done" /\ at'[v] = q
    <2>1. /\ \A x \in Writers \ {w} : pc'[x] = pc[x] /\ at'[x] = at[x]
          /\ pc[w] # "done"
          /\ Waiting(q, DelOf(v)) \/ (pc'[w] = "done" /\ q = at'[w] /\ DelOf(v) = DelOf(w))
      BY <1>1, <1>3, ChangeFrame
    <2> QED
      BY <2>1, CommandsOf DEF DelsByDones
  <1>4. ASSUME NEW p \in Processes,
               Execute(p) \/ Resend(p) \/ Refuse(p) \/ Crash(p)
        PROVE  pc'[v] = "done" /\ at'[v] = q
    <2>1. /\ at' = at /\ Waiting(q, DelOf(v))
          /\ pc'[v] = pc[v] \/ (pc'[v] = "crashed" /\ pc[v] # "done")
      BY <1>1, <1>4, ProcessFrame
    <2> QED
      BY <2>1 DEF DelsByDones
  <1>5. CASE Expire
    BY <1>5 DEF Expire, requests, history, DelsByDones, Waiting
  <1> QED
    BY <1>2, <1>3, <1>4, <1>5 DEF Next

\* A step ends an excuse only with the DEL, which leaves no entry, and changes
\* what is in effect only with an excuse.
ExcusesKept ==
    /\ deleted \subseteq deleted'
    /\ \A w \in Writers :
          /\ Excused(w) => Excused(w)' \/ (w \in deleted' /\ dict' = NoEntry)
          /\ Excused(w)' \/ (w \in users' <=> w \in users)

LEMMA ExcusesNext == IInv /\ Next => ExcusesKept
  <1> SUFFICES ASSUME IInv, Next PROVE ExcusesKept
    OBVIOUS
  <1> USE DEF IInv
  <1>0. /\ \A w \in Writers : at[w] \in Processes /\ DelOf(w) \in Commands
        /\ \A w \in Writers, q \in Processes :
              /\ at[w] = q => (Deleting(w) <=> Waiting(q, DelOf(w)))
              /\ at'[w] = q => (Deleting(w)' <=> Waiting(q, DelOf(w))')
    BY CommandsOf DEF TypeInv, TypeOK, Requests, Deleting, Waiting, DelOf
  <1>1. ASSUME NEW r \in Readers,
               (\E p \in Processes : StartRead(r, p)) \/ Aggregate(r) \/ Fill(r)
        PROVE  ExcusesKept
    <2>1. /\ UNCHANGED <<users, dict, deleted, dropped>>
          /\ \A w \in Writers : pc'[w] = pc[w] /\ at'[w] = at[w]
          /\ \A w \in Writers, q \in Processes :
                Waiting(q, DelOf(w))' <=> Waiting(q, DelOf(w))
      BY <1>1, ReadFrame
    <2> QED
      BY <1>0, <2>1 DEF ExcusesKept, Excused
  <1>2. ASSUME NEW w \in Writers,
               \/ \E p \in Processes : StartWrite(w, p)
               \/ Write(w) \/ ReadBack(w) \/ Grant(w) \/ Undo(w) \/ Invalidate(w)
        PROVE  ExcusesKept
    <2>1. /\ UNCHANGED <<deleted, dropped>>
          /\ \A v \in Writers \ {w} : /\ pc'[v] = pc[v] /\ at'[v] = at[v]
                                      /\ v \in users' <=> v \in users
          /\ pc'[w] = "done" => Deleting(w)'
          /\ \A q \in Processes, d \in Commands : Waiting(q, d) => Waiting(q, d)'
      BY <1>2, ChangeFrame
    <2>3. Excused(w)'
      BY <2>1 DEF Excused
    <2>4. \A v \in Writers \ {w} : Excused(v) => Excused(v)'
      BY <1>0, <2>1 DEF Excused
    <2> QED
      BY <2>1, <2>3, <2>4 DEF ExcusesKept
  <1>3. ASSUME NEW p \in Processes,
               Execute(p) \/ Resend(p) \/ Refuse(p) \/ Crash(p)
        PROVE  ExcusesKept
    <2>1. /\ users' = users /\ deleted \subseteq deleted' /\ dropped \subseteq dropped'
          /\ \A w \in Writers : pc'[w] = pc[w] \/ (pc'[w] = "crashed" /\ pc[w] # "done")
          /\ \A w \in Writers :
                Deleting(w) => \/ Deleting(w)' \/ w \in dropped'
                               \/ w \in deleted' /\ dict' = NoEntry
      BY <1>3, ProcessFrame
    <2> QED
      BY <2>1 DEF ExcusesKept, Excused
  <1>4. CASE Expire
    BY <1>4 DEF Expire, requests, history, ExcusesKept, Excused, Deleting
  <1> QED
    BY <1>1, <1>2, <1>3, <1>4 DEF Next

\* A fill that is coherent stays so.
LEMMA CoherentKept ==
    ASSUME IInv, Next, NEW e \in Entry, Coherent(e)
    PROVE  Coherent(e)'
  <1>1. ExcusesKept /\ DonesInEffect'
    BY ExcusesNext, DonesNext
  <1>2. e.of \in SUBSET Writers /\ users' \in SUBSET Writers
    BY TypeNext DEF IInv, TypeInv, TypeOK, Entry, States
  <1> SUFFICES ASSUME NEW w \in Differ(e.of, users'), ~Excused(w)'
               PROVE  w \in deleted' \ e.asOf
    BY DEF Coherent, Explained
  <1>3. w \in Writers /\ w \in Differ(e.of, users)
    BY <1>1, <1>2 DEF Differ, ExcusesKept
  <1>4. CASE w \in deleted \ e.asOf
    BY <1>1, <1>4 DEF ExcusesKept
  <1>5. CASE Excused(w)
    <2>1. w \in deleted'
      BY <1>1, <1>3, <1>5 DEF ExcusesKept
    <2>2. w \in users'
      BY <1>1, <1>3 DEF DonesInEffect, Excused
    <2>3. w \notin e.asOf
      BY <2>2 DEF Differ, Coherent
    <2> QED
      BY <2>1, <2>3
  <1> QED
    BY <1>3, <1>4, <1>5 DEF Coherent, Explained

LEMMA FillsNext == IInv /\ Next => FillsCoherent'
  <1> SUFFICES ASSUME IInv, Next PROVE FillsCoherent'
    OBVIOUS
  <1> USE DEF IInv
  <1>1. ASSUME NEW e \in Entry, Coherent(e) PROVE Coherent(e)'
    BY <1>1, CoherentKept
  <1>2. /\ \A r \in Readers : pc[r] = "fill" => got[r] \in Entry /\ Coherent(got[r])
        /\ \A q \in Processes, e \in Entry : Waiting(q, SetOf(e)) => Coherent(e)
        /\ \A e \in Entry : SetOf(e) \in Commands
    BY CommandsOf DEF FillsCoherent, TypeInv, FillHasEntry, SetOf
  <1>3. ASSUME /\ \A r \in Readers : pc'[r] = "fill" => pc[r] = "fill" /\ got'[r] = got[r]
               /\ \A q \in Processes, e \in Entry :
                     Waiting(q, SetOf(e))' => Waiting(q, SetOf(e))
        PROVE  FillsCoherent'
    <2>1. ASSUME NEW r \in Readers, pc'[r] = "fill" PROVE Coherent(got[r])'
      <3>1. PICK e \in Entry : e = got'[r] /\ Coherent(e)
        BY <1>2, <1>3, <2>1
      <3> QED
        BY <1>1, <3>1 DEF Coherent, Explained
    <2>2. \A q \in Processes, e \in Entry : Waiting(q, SetOf(e))' => Coherent(e)'
      BY <1>1, <1>2, <1>3
    <2> QED
      BY <2>1, <2>2 DEF FillsCoherent, SetOf
  <1>4. ASSUME NEW r \in Readers,
               (\E p \in Processes : StartRead(r, p)) \/ Aggregate(r) \/ Fill(r)
        PROVE  FillsCoherent'
    <2>1. /\ UNCHANGED users
          /\ \A q \in Processes, e \in Entry :
                Waiting(q, SetOf(e))' =>
                   Waiting(q, SetOf(e)) \/ (pc[r] = "fill" /\ e = got[r])
          /\ \A s \in Readers :
                pc'[s] = "fill" => \/ pc[s] = "fill" /\ got'[s] = got[s]
                                   \/ got'[s] = Computed
      BY <1>4, ReadFrame
    <2>2. \A q \in Processes, e \in Entry : Waiting(q, SetOf(e))' => Coherent(e)'
      BY <1>1, <1>2, <2>1
    <2>3. ASSUME NEW s \in Readers, pc'[s] = "fill" PROVE Coherent(got[s])'
      <3>1. CASE got'[s] = Computed
        <4>1. deleted \subseteq users
          BY DEF DonesInEffect, TypeInv, TypeOK
        <4> QED
          BY <2>1, <3>1, <4>1 DEF Computed, Coherent, Explained, Differ
      <3>2. CASE pc[s] = "fill" /\ got'[s] = got[s]
        <4>1. PICK e \in Entry : e = got'[s] /\ Coherent(e)
          BY <1>2, <3>2
        <4> QED
          BY <1>1, <4>1 DEF Coherent, Explained
      <3> QED
        BY <2>1, <2>3, <3>1, <3>2
    <2> QED
      BY <2>2, <2>3 DEF FillsCoherent, SetOf
  <1>5. ASSUME NEW w \in Writers,
               \/ \E p \in Processes : StartWrite(w, p)
               \/ Write(w) \/ ReadBack(w) \/ Grant(w) \/ Undo(w) \/ Invalidate(w)
        PROVE  FillsCoherent'
    <2>1. /\ UNCHANGED got
          /\ \A s \in Readers : pc'[s] = pc[s]
          /\ \A q \in Processes, d \in Commands :
                Waiting(q, d)' => Waiting(q, d) \/ d = DelOf(w)
      BY <1>5, ChangeFrame
    <2> QED
      BY <1>2, <1>3, <2>1, CommandsOf
  <1>6. ASSUME NEW p \in Processes,
               Execute(p) \/ Resend(p) \/ Refuse(p) \/ Crash(p)
        PROVE  FillsCoherent'
    <2>1. /\ \A r \in Readers : pc'[r] = "fill" => pc[r] = "fill" /\ got'[r] = got[r]
          /\ \A q \in Processes, d \in Commands : Waiting(q, d)' => Waiting(q, d)
      BY <1>6, ProcessFrame
    <2> QED
      BY <1>2, <1>3, <2>1
  <1>7. CASE Expire
    BY <1>3, <1>7 DEF Expire, requests, history, Waiting
  <1> QED
    BY <1>4, <1>5, <1>6, <1>7 DEF Next

LEMMA StaleNext == IInv /\ Next => StaleExplained'
  <1> SUFFICES ASSUME IInv, Next, dict' # NoEntry, NEW w \in Differ(dict'.of, users'),
                      ~Excused(w)'
               PROVE  w \in dict'.late
    BY DEF StaleExplained, Excused
  <1> USE DEF IInv
  <1>1. ExcusesKept
    BY ExcusesNext
  <1>2. w \in Writers
    <2>1. dict' \in Entry /\ users' \in SUBSET Writers
      BY TypeNext DEF TypeInv, TypeOK, States
    <2> QED
      BY <2>1 DEF Differ, Entry, States
  <1>3. ~Excused(w) /\ (w \in users' <=> w \in users)
    BY <1>1, <1>2 DEF ExcusesKept
  <1>4. CASE dict' = dict
    BY <1>3, <1>4 DEF StaleExplained, Excused, Differ
  <1>5. ASSUME NEW p \in Processes, NEW e \in Entry, Waiting(p, SetOf(e)),
               dict' = [e EXCEPT !.late = deleted \ e.asOf]
        PROVE  w \in dict'.late
    <2>1. Coherent(e)
      BY <1>5 DEF FillsCoherent, SetOf
    <2>2. dict'.of = e.of /\ dict'.late = deleted \ e.asOf
      BY <1>5 DEF Entry
    <2>3. w \in Differ(e.of, users)
      BY <1>3, <2>2 DEF Differ
    <2> QED
      BY <1>3, <2>1, <2>2, <2>3 DEF Coherent, Explained
  <1>6. \/ dict' = dict
        \/ \E p \in Processes, e \in Entry :
              Waiting(p, SetOf(e)) /\ dict' = [e EXCEPT !.late = deleted \ e.asOf]
    <2>1. CASE \E r \in Readers : \/ \E p \in Processes : StartRead(r, p)
                                  \/ Aggregate(r) \/ Fill(r)
      BY <2>1, ReadFrame
    <2>2. CASE \E v \in Writers : \/ \E p \in Processes : StartWrite(v, p)
                                  \/ Write(v) \/ ReadBack(v) \/ Grant(v)
                                  \/ Undo(v) \/ Invalidate(v)
      BY <2>2, ChangeFrame
    <2>3. CASE \E p \in Processes : Execute(p) \/ Resend(p) \/ Refuse(p) \/ Crash(p)
      BY <2>3, ProcessFrame
    <2>4. CASE Expire
      BY <2>4 DEF Expire
    <2> QED
      BY <2>1, <2>2, <2>3, <2>4 DEF Next
  <1> QED
    BY <1>4, <1>5, <1>6

LEMMA InvInit == Init => IInv
  <1> SUFFICES ASSUME Init PROVE IInv
    OBVIOUS
  <1>1. TypeInv
    BY TypeInit
  <1>2. \A p \in Processes, c \in Commands : ~Waiting(p, c)
    BY DEF Init, Waiting
  <1>3. DonesInEffect /\ DelsByDones /\ StaleExplained
    BY <1>2, NamesAssumption, CommandsOf
    DEF Init, DonesInEffect, DelsByDones, StaleExplained, Requests
  <1>4. FillsCoherent
    BY <1>2, CommandsOf DEF Init, FillsCoherent, Requests, SetOf
  <1> QED
    BY <1>1, <1>3, <1>4 DEF IInv

LEMMA InvNext == IInv /\ [Next]_vars => IInv'
  <1>1. IInv /\ Next => IInv'
    BY TypeNext, DonesNext, DelsNext, FillsNext, StaleNext DEF IInv
  <1>2. IInv /\ UNCHANGED vars => IInv'
    <2> SUFFICES ASSUME IInv, UNCHANGED vars PROVE IInv'
      OBVIOUS
    <2>1. TypeInv'
      BY TypeNext DEF IInv
    <2> QED
      BY <2>1 DEF IInv, vars, requests, history, DonesInEffect, DelsByDones, FillsCoherent,
                  StaleExplained, Coherent, Explained, Excused, Deleting, Waiting
  <1> QED
    BY <1>1, <1>2

\* For any readers, changes, processes and faults: an entry of the dictionary
\* is out of date only while the change is not answered or its DEL is on its
\* way, after a failed change or a dropped DEL, or if the DEL fell between
\* the aggregation and the SET of the entry.
THEOREM StaleAlwaysExplained == Spec => []StaleExplained
  <1>1. IInv => StaleExplained
    BY DEF IInv
  <1> QED
    BY InvInit, InvNext, <1>1, PTL DEF Spec
-----------------------------------------------------------------------------
(* A reader gets the changes that its own process has answered.            *)
(*                                                                         *)
(* The inductive invariant follows the GET through the queue: the DEL of   *)
(* every change answered before the read has been executed or dropped, or  *)
(* is in the same queue ahead of the GET, so that it is one of the first   *)
(* two once the GET is served.  What Redis then holds was computed after   *)
(* the DELs, or they are the late ones of that entry.                      *)

GetOf(r) == [cmd |-> "get", by |-> r]

BeforeDone == \A r \in Readers : \A w \in before[r] : pc[w] = "done"

DelsSent ==
    \A w \in Writers : pc[w] = "done" => w \in deleted \cup dropped \/ Deleting(w)

\* Of the changes answered by p before the read, the DEL comes before place i.
Ahead(r, p, i) ==
    \A w \in before[r] :
        at[w] = p => \/ w \in deleted \cup dropped
                     \/ \E j \in 1..i - 1 : queue[p][j] = DelOf(w)

\* A GET waits once, at the process that serves the read, behind the DELs.
Behind(r) ==
    \A p \in Processes : \A i \in 1..Len(queue[p]) :
        queue[p][i] = GetOf(r) =>
            /\ pc[r] = "get" /\ at[r] = p
            /\ \A j \in 1..Len(queue[p]) : queue[p][j] = GetOf(r) => j = i
            /\ Ahead(r, p, i)

EntryKnows == dict # NoEntry => deleted \subseteq dict.of \cup dict.late

FillsKnow == \A r \in Readers : pc[r] = "fill" => before[r] \subseteq got[r].of

OwnInv ==
    /\ IInv
    /\ BeforeDone
    /\ DelsSent
    /\ \A r \in Readers : Behind(r)
    /\ EntryKnows
    /\ FillsKnow
    /\ ReadsOwnWrites

\* What a step of another request leaves a read with.
Steady(r) ==
    /\ pc'[r] = pc[r] /\ at'[r] = at[r] /\ before'[r] = before[r]
    /\ deleted \cup dropped \subseteq deleted' \cup dropped'
    /\ \A w \in before[r] : at'[w] = at[w]

NoGet(r) == \A p \in Processes : ~Waiting(p, GetOf(r))

LEMMA GetCommand ==
    ASSUME NEW r \in Readers
    PROVE  /\ GetOf(r) \in Commands
           /\ \A s \in Readers : GetOf(s) = GetOf(r) => s = r
           /\ \A w \in Writers : DelOf(w) # GetOf(r)
           /\ \A e \in Entry : SetOf(e) # GetOf(r)
  BY DEF Commands, GetOf, DelOf, SetOf

\* No GET waits of a reader that is elsewhere, and if none waits all is well.
LEMMA GetsOnlyInGet ==
    ASSUME NEW r \in Readers
    PROVE  /\ Behind(r) /\ pc[r] # "get" => NoGet(r)
           /\ NoGet(r)' => Behind(r)'
  BY DEF Behind, NoGet, Waiting

\* The queue is as it was.
LEMMA SameBehind ==
    ASSUME NEW r \in Readers, Behind(r), Steady(r), queue' = queue
    PROVE  Behind(r)'
  BY DEF Behind, Ahead, Steady

\* Another command is sent.
LEMMA SendBehind ==
    ASSUME TypeOK, NEW r \in Readers, Behind(r), Steady(r),
           NEW p \in Processes, NEW c \in Commands, c # GetOf(r), Send(p, c)
    PROVE  Behind(r)'
  <1> SUFFICES ASSUME NEW q \in Processes, NEW i \in 1..Len(queue'[q]),
                      queue'[q][i] = GetOf(r)
               PROVE  /\ pc'[r] = "get" /\ at'[r] = q
                      /\ \A j \in 1..Len(queue'[q]) : queue'[q][j] = GetOf(r) => j = i
                      /\ Ahead(r, q, i)'
    BY DEF Behind
  <1>1. queue[q] \in Seq(Commands)
    BY WaitingTypes
  <1>2. CASE q # p
    <2>1. queue'[q] = queue[q]
      BY <1>2 DEF Send, TypeOK
    <2> QED
      BY <2>1 DEF Behind, Ahead, Steady
  <1>3. CASE q = p
    <2>1. queue'[q] = Append(queue[q], c)
      BY <1>3 DEF Send, TypeOK
    <2>2. /\ Len(queue'[q]) = Len(queue[q]) + 1 /\ Len(queue[q]) \in Nat
          /\ \A j \in 1..Len(queue[q]) : queue'[q][j] = queue[q][j]
          /\ queue'[q][Len(queue[q]) + 1] = c
      BY <1>1, <2>1
    <2>3. ASSUME NEW j \in 1..Len(queue'[q]), queue'[q][j] = GetOf(r)
          PROVE  j \in 1..Len(queue[q]) /\ queue[q][j] = GetOf(r)
      <3>1. j # Len(queue[q]) + 1
        BY <2>2, <2>3
      <3> QED
        BY <2>2, <2>3, <3>1
    <2>4. i \in 1..Len(queue[q]) /\ queue[q][i] = GetOf(r)
      BY <2>3
    <2>5. /\ pc[r] = "get" /\ at[r] = q
          /\ \A j \in 1..Len(queue[q]) : queue[q][j] = GetOf(r) => j = i
          /\ Ahead(r, q, i)
      BY <2>4 DEF Behind
    <2>6. \A j \in 1..i - 1 : queue'[q][j] = queue[q][j]
      BY <2>2, <2>4
    <2>7. Ahead(r, q, i)'
      BY <2>5, <2>6 DEF Ahead, Steady
    <2> QED
      BY <2>3, <2>5, <2>7 DEF Steady
  <1> QED
    BY <1>2, <1>3

\* Another command is taken: a DEL among the first was executed or dropped.
LEMMA PopBehind ==
    ASSUME TypeOK, NEW r \in Readers, Behind(r), Steady(r), before[r] \subseteq Writers,
           NEW p \in Processes, queue[p] # <<>>, Pop(p), Head(queue[p]) # GetOf(r),
           \A w \in Writers : Head(queue[p]) = DelOf(w) => w \in deleted' \cup dropped'
    PROVE  Behind(r)'
  <1> SUFFICES ASSUME NEW q \in Processes, NEW i \in 1..Len(queue'[q]),
                      queue'[q][i] = GetOf(r)
               PROVE  /\ pc'[r] = "get" /\ at'[r] = q
                      /\ \A j \in 1..Len(queue'[q]) : queue'[q][j] = GetOf(r) => j = i
                      /\ Ahead(r, q, i)'
    BY DEF Behind
  <1>1. queue[q] \in Seq(Commands)
    BY WaitingTypes
  <1>2. CASE q # p
    <2>1. queue'[q] = queue[q]
      BY <1>2 DEF Pop, TypeOK
    <2> QED
      BY <2>1 DEF Behind, Ahead, Steady
  <1>3. CASE q = p
    <2>1. queue'[q] = Tail(queue[q])
      BY <1>3 DEF Pop, TypeOK
    <2>2. /\ Len(queue'[q]) = Len(queue[q]) - 1 /\ Len(queue[q]) \in Nat
          /\ \A j \in 1..Len(queue[q]) - 1 : queue'[q][j] = queue[q][j + 1]
          /\ Head(queue[p]) = queue[q][1]
      BY <1>1, <1>3, <2>1
    <2>3. i + 1 \in 1..Len(queue[q]) /\ queue[q][i + 1] = GetOf(r)
      BY <2>2
    <2>4. /\ pc[r] = "get" /\ at[r] = q
          /\ \A j \in 1..Len(queue[q]) : queue[q][j] = GetOf(r) => j = i + 1
          /\ Ahead(r, q, i + 1)
      BY <2>3 DEF Behind
    <2>5. ASSUME NEW j \in 1..Len(queue'[q]), queue'[q][j] = GetOf(r) PROVE j = i
      <3>1. j + 1 \in 1..Len(queue[q]) /\ queue[q][j + 1] = GetOf(r)
        BY <2>2, <2>5
      <3> QED
        BY <2>4, <3>1
    <2>6. ASSUME NEW w \in before'[r], at'[w] = q
          PROVE  \/ w \in deleted' \cup dropped'
                 \/ \E j \in 1..i - 1 : queue'[q][j] = DelOf(w)
      <3>1. w \in before[r] /\ at[w] = q /\ w \in Writers
        BY <2>6 DEF Steady
      <3>2. CASE w \in deleted \cup dropped
        BY <3>2 DEF Steady
      <3>3. ASSUME NEW j \in 1..(i + 1) - 1, queue[q][j] = DelOf(w)
            PROVE  \/ w \in deleted' \cup dropped'
                   \/ \E k \in 1..i - 1 : queue'[q][k] = DelOf(w)
        <4>1. CASE j = 1
          BY <2>2, <3>1, <3>3, <4>1
        <4>2. CASE j # 1
          <5>1. j - 1 \in 1..i - 1 /\ queue'[q][j - 1] = queue[q][j]
            BY <2>2, <3>3, <4>2
          <5> QED
            BY <3>3, <5>1
        <4> QED
          BY <4>1, <4>2
      <3> QED
        BY <2>4, <3>1, <3>2, <3>3 DEF Ahead
    <2> QED
      BY <2>4, <2>5, <2>6 DEF Ahead, Steady
  <1> QED
    BY <1>2, <1>3

\* The GET itself is taken: no other one waits, and no DEL is ahead of it.
LEMMA PopGet ==
    ASSUME TypeOK, NEW r \in Readers, Behind(r), NEW p \in Processes,
           queue[p] # <<>>, Pop(p), Head(queue[p]) = GetOf(r)
    PROVE  /\ NoGet(r)' /\ pc[r] = "get" /\ at[r] = p
           /\ \A w \in before[r] : at[w] = at[r] => w \in deleted \cup dropped
  <1>1. 1 \in 1..Len(queue[p]) /\ queue[p][1] = GetOf(r)
    BY QueueTypes
  <1>2. /\ pc[r] = "get" /\ at[r] = p
        /\ \A j \in 1..Len(queue[p]) : queue[p][j] = GetOf(r) => j = 1
        /\ Ahead(r, p, 1)
    BY <1>1 DEF Behind
  <1>3. \A w \in before[r] : at[w] = at[r] => w \in deleted \cup dropped
    BY <1>2 DEF Ahead
  <1>4. ASSUME NEW q \in Processes, Waiting(q, GetOf(r))' PROVE FALSE
    <2>1. PICK i \in 1..Len(queue'[q]) : queue'[q][i] = GetOf(r)
      BY <1>4 DEF Waiting
    <2>2. queue[q] \in Seq(Commands)
      BY WaitingTypes
    <2>3. CASE q # p
      <3>1. queue'[q] = queue[q]
        BY <2>3 DEF Pop, TypeOK
      <3> QED
        BY <1>2, <2>1, <2>3, <3>1 DEF Behind
    <2>4. CASE q = p
      <3>1. queue'[q] = Tail(queue[q])
        BY <2>4 DEF Pop, TypeOK
      <3>2. i + 1 \in 1..Len(queue[q]) /\ queue[q][i + 1] = GetOf(r) /\ i + 1 # 1
        BY <2>1, <2>2, <2>4, <3>1
      <3> QED
        BY <1>2, <2>4, <3>2
    <2> QED
      BY <2>3, <2>4
  <1> QED
    BY <1>2, <1>3, <1>4 DEF NoGet
\* Whether a DEL waits depends on the queue of the writer's process.
LEMMA DeletingWaits ==
    ASSUME TypeOK, NEW w \in Writers
    PROVE  /\ at[w] \in Processes /\ DelOf(w) \in Commands
           /\ Deleting(w) <=> Waiting(at[w], DelOf(w))
  BY CommandsOf DEF TypeOK, Requests, Deleting, Waiting, DelOf

LEMMA BeforeTypes ==
    ASSUME OwnInv, NEW r \in Readers
    PROVE  /\ before[r] \subseteq Writers
           /\ \A w \in before[r] : pc[w] = "done" /\ w \in users
           /\ r \notin Writers /\ at[r] \in Processes
  <1>1. before[r] \subseteq Writers /\ at[r] \in Processes
    BY DEF OwnInv, IInv, TypeInv, TypeOK, Requests
  <1> QED
    BY <1>1, NamesAssumption DEF OwnInv, IInv, BeforeDone, DonesInEffect

\* What the steps of a read leave of the changes.
LEMMA ReadDones ==
    ASSUME OwnInv, NEW r \in Readers,
           (\E p \in Processes : StartRead(r, p)) \/ Aggregate(r) \/ Fill(r)
    PROVE  /\ DelsSent' /\ EntryKnows'
           /\ \A w \in Writers : pc'[w] = pc[w] /\ at'[w] = at[w]
           /\ UNCHANGED <<users, dict, deleted, dropped>>
  <1>1. /\ UNCHANGED <<users, dict, deleted, dropped>>
        /\ \A w \in Writers : pc'[w] = pc[w] /\ at'[w] = at[w]
        /\ \A q \in Processes, w \in Writers :
              Waiting(q, DelOf(w))' <=> Waiting(q, DelOf(w))
    BY ReadFrame DEF OwnInv, IInv
  <1>2. EntryKnows'
    BY <1>1 DEF OwnInv, EntryKnows
  <1>3. DelsSent'
    <2> SUFFICES ASSUME NEW w \in Writers, pc'[w] = "done"
                 PROVE  w \in deleted' \cup dropped' \/ Deleting(w)'
      BY DEF DelsSent
    <2>1. w \in deleted \cup dropped \/ Deleting(w)
      BY <1>1 DEF OwnInv, DelsSent
    <2>2. /\ at[w] \in Processes /\ DelOf(w) \in Commands
          /\ Deleting(w) <=> Waiting(at[w], DelOf(w))
      BY DeletingWaits DEF OwnInv, IInv, TypeInv
    <2>3. Waiting(at[w], DelOf(w))' => Deleting(w)'
      BY <1>1 DEF Deleting, Waiting, DelOf
    <2> QED
      BY <1>1, <2>1, <2>2, <2>3
  <1> QED
    BY <1>1, <1>2, <1>3

\* Another reader that is left as it is.
LEMMA OthersRead ==
    ASSUME OwnInv, NEW r \in Readers, NEW s \in Readers, s # r,
           (\E p \in Processes : StartRead(r, p)) \/ Aggregate(r) \/ Fill(r)
    PROVE  Steady(s) /\ got'[s] = got[s] /\ Behind(s)'
  <1>1. /\ \A w \in Writers : at'[w] = at[w]
        /\ UNCHANGED <<deleted, dropped>>
    BY ReadDones
  <1>2. /\ pc'[s] = pc[s] /\ at'[s] = at[s] /\ before'[s] = before[s] /\ got'[s] = got[s]
    BY DEF OwnInv, IInv, TypeInv, TypeOK, Requests, StartRead, Aggregate, Fill, Goto
  <1>3. Steady(s)
    BY <1>1, <1>2, BeforeTypes DEF Steady
  <1>4. Behind(s) /\ TypeOK
    BY DEF OwnInv, IInv, TypeInv
  <1>5. ASSUME NEW p \in Processes, StartRead(r, p) PROVE Behind(s)'
    BY <1>3, <1>4, <1>5, SendBehind, GetCommand DEF StartRead, GetOf
  <1>6. CASE Aggregate(r)
    BY <1>2, <1>3, <1>4, <1>6, SameBehind DEF Aggregate
  <1>7. CASE Fill(r)
    <2>1. SetOf(got[r]) \in Commands /\ SetOf(got[r]) # GetOf(s)
      BY <1>7, CommandsOf, GetCommand DEF Fill, OwnInv, IInv, TypeInv, FillHasEntry
    <2> QED
      BY <1>2, <1>3, <1>4, <1>7, <2>1, SendBehind, BeforeTypes DEF Fill, SetOf
  <1> QED
    BY <1>2, <1>3, <1>5, <1>6, <1>7

\* Each of the reads alone.
ReaderHolds(r) ==
    /\ \A w \in before[r] : pc[w] = "done"
    /\ Behind(r)
    /\ pc[r] = "fill" => before[r] \subseteq got[r].of
    /\ pc[r] = "answered" =>
          \A w \in before[r] :
              at[w] = at[r] => w \in got[r].of \/ w \in dropped \/ w \in got[r].late

LEMMA EachReader ==
    /\ OwnInv <=> IInv /\ DelsSent /\ EntryKnows /\ \A r \in Readers : ReaderHolds(r)
  BY DEF OwnInv, BeforeDone, FillsKnow, ReadsOwnWrites, ReaderHolds

LEMMA StartHolds ==
    ASSUME OwnInv, NEW r \in Readers, NEW p \in Processes, StartRead(r, p)
    PROVE  ReaderHolds(r)'
  <1>1. TypeOK /\ NoGet(r)
    BY GetsOnlyInGet DEF OwnInv, IInv, TypeInv, StartRead
  <1>2. /\ \A w \in Writers : pc'[w] = pc[w] /\ at'[w] = at[w]
        /\ UNCHANGED <<deleted, dropped>>
    BY ReadDones
  <1>3. /\ pc'[r] = "get" /\ at'[r] = p
        /\ before'[r] = {w \in Writers : pc[w] = "done"}
        /\ Send(p, GetOf(r))
    BY <1>1 DEF StartRead, Goto, TypeOK, Requests, GetOf
  <1>4. queue[p] \in Seq(Commands) /\ queue'[p] = Append(queue[p], GetOf(r))
    BY <1>1, <1>3, WaitingTypes DEF Send, TypeOK
  <1>5. /\ Len(queue'[p]) = Len(queue[p]) + 1 /\ Len(queue[p]) \in Nat
        /\ \A j \in 1..Len(queue[p]) : queue'[p][j] = queue[p][j]
        /\ queue'[p][Len(queue[p]) + 1] = GetOf(r)
    BY <1>4
  <1>6. \A q \in Processes : \A i \in 1..Len(queue[q]) : queue[q][i] # GetOf(r)
    BY <1>1 DEF NoGet, Waiting
  <1>7. ASSUME NEW q \in Processes, NEW i \in 1..Len(queue'[q]), queue'[q][i] = GetOf(r)
        PROVE  q = p /\ i = Len(queue[p]) + 1
    <2>1. CASE q # p
      <3>1. queue'[q] = queue[q]
        BY <1>1, <1>3, <2>1 DEF Send, TypeOK
      <3> QED
        BY <1>6, <1>7, <3>1
    <2>2. CASE q = p
      <3>1. i \notin 1..Len(queue[p])
        BY <1>5, <1>6, <1>7, <2>2
      <3> QED
        BY <1>5, <2>2, <3>1
    <2> QED
      BY <2>1, <2>2
  <1>8. ASSUME NEW w \in before'[r], at'[w] = p
        PROVE  \/ w \in deleted' \cup dropped'
               \/ \E j \in 1..(Len(queue[p]) + 1) - 1 : queue'[p][j] = DelOf(w)
    <2>1. w \in Writers /\ pc[w] = "done" /\ at[w] = p
      BY <1>2, <1>3, <1>8
    <2>2. w \in deleted \cup dropped \/ Deleting(w)
      BY <2>1 DEF OwnInv, DelsSent
    <2>3. ASSUME Deleting(w)
          PROVE  \E j \in 1..(Len(queue[p]) + 1) - 1 : queue'[p][j] = DelOf(w)
      <3>1. PICK j \in 1..Len(queue[p]) : queue[p][j] = DelOf(w)
        BY <2>1, <2>3 DEF Deleting, DelOf
      <3> QED
        BY <1>5, <3>1
    <2> QED
      BY <1>2, <2>2, <2>3
  <1>9. Behind(r)'
    <2> SUFFICES ASSUME NEW q \in Processes, NEW i \in 1..Len(queue'[q]),
                        queue'[q][i] = GetOf(r)
                 PROVE  /\ pc'[r] = "get" /\ at'[r] = q
                        /\ \A j \in 1..Len(queue'[q]) : queue'[q][j] = GetOf(r) => j = i
                        /\ Ahead(r, q, i)'
      BY DEF Behind
    <2>1. q = p /\ i = Len(queue[p]) + 1
      BY <1>7
    <2>2. \A j \in 1..Len(queue'[q]) : queue'[q][j] = GetOf(r) => j = i
      BY <1>7, <2>1
    <2>3. Ahead(r, q, i)'
      BY <1>8, <2>1 DEF Ahead
    <2> QED
      BY <1>3, <2>1, <2>2, <2>3
  <1>10. \A w \in before'[r] : pc'[w] = "done"
    BY <1>2, <1>3
  <1> QED
    BY <1>3, <1>9, <1>10 DEF ReaderHolds
LEMMA AggregateHolds ==
    ASSUME OwnInv, NEW r \in Readers, Aggregate(r)
    PROVE  ReaderHolds(r)'
  <1>1. TypeOK /\ NoGet(r)
    BY GetsOnlyInGet DEF OwnInv, IInv, TypeInv, Aggregate
  <1>2. NoGet(r)'
    BY <1>1 DEF Aggregate, NoGet, Waiting
  <1>3. Behind(r)'
    BY <1>2, GetsOnlyInGet
  <1>4. before'[r] = before[r] /\ \A w \in Writers : pc'[w] = pc[w]
    BY ReadDones DEF Aggregate
  <1>5. \A w \in before'[r] : pc'[w] = "done" /\ w \in users
    BY <1>4, BeforeTypes
  <1>6. \/ pc'[r] = "idle"
        \/ pc'[r] = "fill" /\ got'[r] = Computed
    BY <1>1 DEF Aggregate, Goto, TypeOK, Requests
  <1>7. pc'[r] = "fill" => before'[r] \subseteq got'[r].of
    BY <1>5, <1>6 DEF Computed
  <1> QED
    BY <1>3, <1>5, <1>6, <1>7 DEF ReaderHolds

LEMMA FillHolds ==
    ASSUME OwnInv, NEW r \in Readers, Fill(r)
    PROVE  ReaderHolds(r)'
  <1>1. TypeOK /\ NoGet(r) /\ got[r] \in Entry /\ at[r] \in Processes
    BY GetsOnlyInGet, BeforeTypes DEF OwnInv, IInv, TypeInv, Fill, FillHasEntry
  <1>2. NoGet(r)'
    <2>1. Send(at[r], SetOf(got[r])) /\ SetOf(got[r]) \in Commands
      BY <1>1, CommandsOf DEF Fill, SetOf
    <2>2. GetOf(r) \in Commands /\ SetOf(got[r]) # GetOf(r)
      BY <1>1, GetCommand
    <2> QED
      BY <1>1, <2>1, <2>2, SendWaiting DEF NoGet
  <1>3. Behind(r)'
    BY <1>2, GetsOnlyInGet
  <1>4. /\ before'[r] = before[r] /\ got'[r] = got[r]
        /\ \A w \in Writers : pc'[w] = pc[w]
        /\ pc'[r] = "answered"
    BY <1>1, ReadDones DEF Fill, Goto, TypeOK, Requests
  <1>5. before[r] \subseteq got[r].of
    BY DEF Fill, OwnInv, FillsKnow
  <1>6. \A w \in before'[r] : pc'[w] = "done"
    BY <1>4, BeforeTypes
  <1> QED
    BY <1>3, <1>4, <1>5, <1>6 DEF ReaderHolds

\* A read that a step leaves steady holds as it did.
LEMMA SteadyHolds ==
    ASSUME OwnInv, NEW r \in Readers, Steady(r), got'[r] = got[r], Behind(r)',
           dropped \subseteq dropped',
           \A w \in Writers : pc[w] = "done" => pc'[w] = "done"
    PROVE  ReaderHolds(r)'
  <1>1. ReaderHolds(r) /\ before[r] \subseteq Writers
    BY EachReader, BeforeTypes
  <1> QED
    BY <1>1 DEF ReaderHolds, Steady

LEMMA OwnRead ==
    ASSUME OwnInv, IInv', NEW r \in Readers,
           (\E p \in Processes : StartRead(r, p)) \/ Aggregate(r) \/ Fill(r)
    PROVE  OwnInv'
  <1>1. /\ DelsSent' /\ EntryKnows'
        /\ \A w \in Writers : pc'[w] = pc[w] /\ at'[w] = at[w]
        /\ dropped' = dropped
    BY ReadDones
  <1>2. ReaderHolds(r)'
    BY StartHolds, AggregateHolds, FillHolds
  <1>3. ASSUME NEW s \in Readers, s # r PROVE ReaderHolds(s)'
    BY <1>1, <1>3, OthersRead, SteadyHolds
  <1> QED
    BY <1>1, <1>2, <1>3 DEF OwnInv, BeforeDone, FillsKnow, ReadsOwnWrites, ReaderHolds
LEMMA OwnChange ==
    ASSUME OwnInv, IInv', NEW w \in Writers,
           \/ \E p \in Processes : StartWrite(w, p)
           \/ Write(w) \/ ReadBack(w) \/ Grant(w) \/ Undo(w) \/ Invalidate(w)
    PROVE  OwnInv'
  <1>1. /\ UNCHANGED <<dict, deleted, dropped, got>>
        /\ \A r \in Readers : pc'[r] = pc[r]
        /\ \A v \in Writers \ {w} : pc'[v] = pc[v] /\ at'[v] = at[v]
        /\ pc[w] # "done"
        /\ pc'[w] = "done" => Deleting(w)'
        /\ \A q \in Processes, d \in Commands : Waiting(q, d) => Waiting(q, d)'
    BY ChangeFrame DEF OwnInv, IInv
  <1>2. TypeOK
    BY DEF OwnInv, IInv, TypeInv
  <1>3. DelsSent'
    <2> SUFFICES ASSUME NEW v \in Writers, pc'[v] = "done"
                 PROVE  v \in deleted' \cup dropped' \/ Deleting(v)'
      BY DEF DelsSent
    <2>1. CASE v = w
      BY <1>1, <2>1
    <2>2. CASE v # w
      <3>1. v \in deleted \cup dropped \/ Waiting(at[v], DelOf(v))
        BY <1>1, <1>2, <2>2, DeletingWaits DEF OwnInv, DelsSent
      <3>2. at'[v] = at[v] /\ at[v] \in Processes /\ DelOf(v) \in Commands
        BY <1>1, <1>2, <2>2, DeletingWaits
      <3>3. Waiting(at[v], DelOf(v)) => Deleting(v)'
        <4> PICK q \in Processes : q = at[v]
          BY <3>2
        <4>1. Waiting(q, DelOf(v)) => Waiting(q, DelOf(v))'
          BY <1>1, <3>2
        <4>2. Waiting(q, DelOf(v))' => Deleting(v)'
          BY <3>2 DEF Deleting, Waiting, DelOf
        <4> QED
          BY <4>1, <4>2
      <3> QED
        BY <1>1, <3>1, <3>3
    <2> QED
      BY <2>1, <2>2
  <1>4. EntryKnows'
    BY <1>1 DEF OwnInv, EntryKnows
  <1>5. ASSUME NEW r \in Readers PROVE ReaderHolds(r)'
    <2>1. w \notin before[r] /\ before[r] \subseteq Writers /\ r # w
      BY <1>1, BeforeTypes
    <2>2. before'[r] = before[r] /\ at'[r] = at[r]
      BY <1>2, <2>1 DEF StartWrite, Write, ReadBack, Grant, Undo, Invalidate, TypeOK, Requests
    <2>3. Steady(r)
      BY <1>1, <2>1, <2>2 DEF Steady
    <2>4. Behind(r)
      BY DEF OwnInv
    <2>5. CASE Invalidate(w)
      <3>1. Send(at[w], DelOf(w)) /\ DelOf(w) \in Commands /\ at[w] \in Processes
        BY <1>2, <2>5, DeletingWaits DEF Invalidate, DelOf
      <3>2. Behind(r)'
        BY <1>2, <2>3, <2>4, <3>1, GetCommand, SendBehind
      <3> QED
        BY <1>1, <2>3, <3>2, SteadyHolds
    <2>6. CASE ~Invalidate(w)
      <3>1. queue' = queue
        BY <2>6 DEF StartWrite, Write, ReadBack, Grant, Undo
      <3>2. Behind(r)'
        BY <2>3, <2>4, <3>1, SameBehind
      <3> QED
        BY <1>1, <2>3, <3>2, SteadyHolds
    <2> QED
      BY <2>5, <2>6
  <1> QED
    BY <1>3, <1>4, <1>5 DEF OwnInv, BeforeDone, FillsKnow, ReadsOwnWrites, ReaderHolds

\* Redis forgets an entry with every DEL, and takes a fill that has what had
\* been deleted before its aggregation.
LEMMA EntryNext ==
    ASSUME OwnInv, IInv', NEW p \in Processes,
           Execute(p) \/ Resend(p) \/ Refuse(p) \/ Crash(p)
    PROVE  EntryKnows'
  <1>1. \/ dict' = dict /\ deleted' = deleted
        \/ dict' = NoEntry
        \/ deleted' = deleted /\ \E e \in Entry :
              Waiting(p, SetOf(e)) /\ dict' = [e EXCEPT !.late = deleted \ e.asOf]
    BY ProcessFrame DEF OwnInv, IInv
  <1>2. ASSUME NEW e \in Entry, Waiting(p, SetOf(e)), deleted' = deleted,
               dict' = [e EXCEPT !.late = deleted \ e.asOf]
        PROVE  EntryKnows'
    <2>1. e.asOf \subseteq e.of
      BY <1>2 DEF OwnInv, IInv, FillsCoherent, SetOf, Coherent
    <2>2. dict'.of = e.of /\ dict'.late = deleted \ e.asOf
      BY <1>2 DEF Entry
    <2> QED
      BY <1>2, <2>1, <2>2 DEF EntryKnows
  <1> QED
    BY <1>1, <1>2 DEF OwnInv, EntryKnows

\* A reader is served with what Redis has, or computes it.
LEMMA GetHolds ==
    ASSUME OwnInv, NEW p \in Processes, NEW r \in Readers,
           queue[p] # <<>>, Head(queue[p]) = GetOf(r), Pop(p),
           UNCHANGED <<at, before>>,
           \A w \in Writers : pc'[w] = pc[w],
           dropped \subseteq dropped',
           \/ pc'[r] = "aggregate"
           \/ pc'[r] = "answered" /\ dict # NoEntry /\ got'[r] = dict
    PROVE  ReaderHolds(r)'
  <1>1. TypeOK /\ Behind(r)
    BY DEF OwnInv, IInv, TypeInv
  <1>2. /\ NoGet(r)'
        /\ \A w \in before[r] : at[w] = at[r] => w \in deleted \cup dropped
    BY <1>1, PopGet
  <1>3. Behind(r)'
    BY <1>2, GetsOnlyInGet
  <1>4. dict # NoEntry => deleted \subseteq dict.of \cup dict.late
    BY DEF OwnInv, EntryKnows
  <1>5. \A w \in before'[r] : pc'[w] = "done"
    BY BeforeTypes
  <1> QED
    BY <1>2, <1>3, <1>4, <1>5 DEF ReaderHolds

\* A command of Redis that is taken, executed or refused.
LEMMA TakenHolds ==
    ASSUME OwnInv, NEW p \in Processes, NEW r \in Readers, Execute(p) \/ Refuse(p)
    PROVE  ReaderHolds(r)'
  <1>1. TypeOK /\ TypeInv /\ Behind(r)
    BY DEF OwnInv, IInv, TypeInv
  <1>2. /\ queue[p] # <<>> /\ Pop(p) /\ UNCHANGED <<at, before>>
        /\ Head(queue[p]) \in Commands
    BY <1>1, QueueTypes DEF Execute, Refuse
  <1>3. /\ deleted \subseteq deleted' /\ dropped \subseteq dropped'
        /\ \A w \in Writers : pc'[w] = pc[w] \/ (pc'[w] = "crashed" /\ pc[w] # "done")
    BY ProcessFrame DEF OwnInv, IInv
  <1>4. \A w \in before[r] : w \in Writers /\ pc[w] = "done"
    BY BeforeTypes
  <1>5. CASE Head(queue[p]) = GetOf(r)
    <2>1. \A w \in Writers : pc'[w] = pc[w]
      BY <1>1, <1>5, NamesAssumption
      DEF Execute, Refuse, Effect, Get, Goto, GetOf, TypeOK, Requests
    <2>2. \/ pc'[r] = "aggregate"
          \/ pc'[r] = "answered" /\ dict # NoEntry /\ got'[r] = dict
      BY <1>1, <1>5 DEF Execute, Refuse, Effect, Get, Goto, GetOf, TypeOK, Requests
    <2> QED
      BY <1>2, <1>3, <1>5, <2>1, <2>2, GetHolds
  <1>6. CASE Head(queue[p]) # GetOf(r)
    <2> DEFINE c == Head(queue[p])
    <2>1. c.cmd = "get" => c.by # r /\ c.by \in Readers
      <3>1. c.cmd = "get" => c = GetOf(c.by)
        BY <1>2 DEF Commands, GetOf
      <3> QED
        BY <1>2, <1>6, <3>1, CommandTypes
    <2>2. pc'[r] = pc[r] /\ got'[r] = got[r]
      BY <1>1, <2>1 DEF Execute, Refuse, Effect, Get, Set, Del, Goto, TypeOK, Requests
    <2>3. Steady(r)
      BY <1>2, <1>3, <2>2 DEF Steady
    <2>4. \A w \in Writers : c = DelOf(w) => w \in deleted' \cup dropped'
      BY DEF Execute, Refuse, Effect, Del, DelOf
    <2>5. Behind(r)'
      BY <1>1, <1>2, <1>4, <1>6, <2>3, <2>4, PopBehind
    <2>6. \A w \in Writers : pc[w] = "done" => pc'[w] = "done"
      BY <1>3
    <2> QED
      BY <1>3, <2>2, <2>3, <2>5, <2>6, SteadyHolds
  <1> QED
    BY <1>5, <1>6

LEMMA ResendHolds ==
    ASSUME OwnInv, NEW p \in Processes, NEW r \in Readers, Resend(p)
    PROVE  ReaderHolds(r)'
  <1>1. /\ deleted \subseteq deleted' /\ dropped \subseteq dropped'
        /\ \A w \in Writers : pc'[w] = pc[w] \/ (pc'[w] = "crashed" /\ pc[w] # "done")
    BY ProcessFrame DEF OwnInv, IInv
  <1>2. UNCHANGED <<queue, at, before, pc, got>>
    BY DEF Resend, Effect, Get, Set, Del
  <1>3. Steady(r)
    BY <1>1, <1>2 DEF Steady
  <1>4. Behind(r)'
    BY <1>2, <1>3, SameBehind DEF OwnInv
  <1> QED
    BY <1>1, <1>2, <1>3, <1>4, SteadyHolds

\* A crash takes the reads of its process and what they wait for.
LEMMA CrashHolds ==
    ASSUME OwnInv, NEW p \in Processes, NEW r \in Readers, Crash(p)
    PROVE  ReaderHolds(r)'
  <1>1. TypeOK /\ Behind(r) /\ ReaderHolds(r)
    BY EachReader DEF OwnInv, IInv, TypeInv
  <1>2. /\ dropped \subseteq dropped' /\ UNCHANGED <<at, before, got, deleted>>
        /\ \A w \in Writers : pc[w] = "done" => pc'[w] = "done"
        /\ queue'[p] = <<>>
        /\ \A q \in Processes \ {p} : queue'[q] = queue[q]
    BY <1>1 DEF Crash, TypeOK, Requests
  <1>3. \A w \in before[r] : w \in Writers /\ pc[w] = "done"
    BY BeforeTypes
  <1>4. IF at[r] # p THEN pc'[r] = pc[r] ELSE pc'[r] \in {"idle", "new", "done", "failed"}
    BY <1>1 DEF Crash, TypeOK, Requests
  <1>5. Behind(r)'
    <2> SUFFICES ASSUME NEW q \in Processes, NEW i \in 1..Len(queue'[q]),
                        queue'[q][i] = GetOf(r)
                 PROVE  /\ pc'[r] = "get" /\ at'[r] = q
                        /\ \A j \in 1..Len(queue'[q]) : queue'[q][j] = GetOf(r) => j = i
                        /\ Ahead(r, q, i)'
      BY DEF Behind
    <2>1. q # p /\ queue'[q] = queue[q]
      BY <1>2
    <2>2. /\ pc[r] = "get" /\ at[r] = q
          /\ \A j \in 1..Len(queue[q]) : queue[q][j] = GetOf(r) => j = i
          /\ Ahead(r, q, i)
      BY <1>1, <2>1 DEF Behind
    <2>3. Ahead(r, q, i)'
      BY <1>2, <2>1, <2>2 DEF Ahead
    <2> QED
      BY <1>2, <1>4, <2>1, <2>2, <2>3
  <1> QED
    BY <1>1, <1>2, <1>3, <1>4, <1>5 DEF ReaderHolds

LEMMA OwnProcess ==
    ASSUME OwnInv, IInv', NEW p \in Processes,
           Execute(p) \/ Resend(p) \/ Refuse(p) \/ Crash(p)
    PROVE  OwnInv'
  <1>1. /\ deleted \subseteq deleted' /\ dropped \subseteq dropped'
        /\ \A w \in Writers : pc'[w] = pc[w] \/ (pc'[w] = "crashed" /\ pc[w] # "done")
        /\ \A w \in Writers : Deleting(w) => Deleting(w)' \/ w \in dropped' \/ w \in deleted'
    BY ProcessFrame DEF OwnInv, IInv
  <1>2. DelsSent'
    BY <1>1 DEF OwnInv, DelsSent
  <1>3. \A r \in Readers : ReaderHolds(r)'
    BY TakenHolds, ResendHolds, CrashHolds
  <1> QED
    BY <1>2, <1>3, EntryNext DEF OwnInv, BeforeDone, FillsKnow, ReadsOwnWrites, ReaderHolds

LEMMA OwnInit == Init => OwnInv
  <1> SUFFICES ASSUME Init PROVE OwnInv
    OBVIOUS
  <1>1. \A r \in Readers : Behind(r)
    <2>1. \A p \in Processes : Len(queue[p]) = 0
      BY DEF Init
    <2> QED
      BY <2>1 DEF Behind
  <1>2. /\ \A r \in Readers : before[r] = {} /\ pc[r] = "idle"
        /\ \A w \in Writers : pc[w] = "new"
    BY NamesAssumption DEF Init, Requests
  <1>3. EntryKnows
    BY DEF Init, EntryKnows
  <1> QED
    BY <1>1, <1>2, <1>3, InvInit
    DEF OwnInv, BeforeDone, DelsSent, FillsKnow, ReadsOwnWrites

LEMMA OwnNext == OwnInv /\ [Next]_vars => OwnInv'
  <1> SUFFICES ASSUME OwnInv, [Next]_vars PROVE OwnInv'
    OBVIOUS
  <1>1. IInv'
    BY InvNext DEF OwnInv
  <1>2. CASE Expire
    <2>1. dict' = NoEntry
      BY <1>2 DEF Expire
    <2> QED
      BY <1>1, <1>2, <2>1
      DEF Expire, requests, history, OwnInv, BeforeDone, DelsSent, Behind, Ahead,
          EntryKnows, FillsKnow, ReadsOwnWrites, Deleting
  <1>3. CASE UNCHANGED vars
    BY <1>1, <1>3
    DEF vars, requests, history, OwnInv, BeforeDone, DelsSent, Behind, Ahead,
        EntryKnows, FillsKnow, ReadsOwnWrites, Deleting
  <1> QED
    BY <1>1, <1>2, <1>3, OwnRead, OwnChange, OwnProcess DEF Next

\* For any readers, changes, processes and faults: who reads through the
\* process that has answered a change gets it, although its DEL was not
\* awaited, unless the DEL was dropped or fell between the aggregation and
\* the SET of the entry that is served.
THEOREM OwnWritesRead == Spec => []ReadsOwnWrites
  <1>1. OwnInv => ReadsOwnWrites
    BY DEF OwnInv
  <1> QED
    BY OwnInit, OwnNext, <1>1, PTL DEF Spec
=============================================================================
