---------------------------- MODULE UsersDictionary ----------------------------
(***************************************************************************)
(* The users dictionary of shield-api: what every user may do in the data  *)
(* lake, computed from MongoDB by one long aggregation, kept in Redis for  *)
(* 15 minutes and read by the services outside.  A request that changes    *)
(* users or permission groups deletes the entry of Redis once it is done.  *)
(*                                                                         *)
(* Neither the SET of a read nor the DEL of a change is awaited: a process *)
(* hands them to its Redis connection, which sends its commands in order.  *)
(* The proxy around the client swallows what Redis refuses: a failed GET   *)
(* is a miss, a failed DEL is no error.  Calls to MongoDB and OpenFGA may  *)
(* be refused or lose their reply, and a process may crash.                *)
(*                                                                         *)
(* A state of the users is the set of the changes in effect: no change is  *)
(* made twice, so an entry is up to date iff it has the same ones.         *)
(***************************************************************************)
EXTENDS Naturals, Sequences

CONSTANTS
    Readers,      \* slots for getUsersDictionary, used again and again
    Writers,      \* the requests that change users, each once
    Processes,    \* processes of shield-api, each with a Redis connection
    Kind,         \* what a writer does besides its write
    EmptyStates,  \* the states of the users in which all are blocked
    NoEntry,      \* no such entry
    FaultKinds,   \* the faults that may happen
    MaxFaults     \* bound: how many of them

\* What follows the write: nothing, a query for the answer, or a change of
\* OpenFGA that undoes the write if it fails.
Kinds  == {"plain", "readBack", "compensated"}
States == SUBSET Writers

\* A computed dictionary.  asOf and late are history: the writers whose DEL
\* Redis had executed when the users were read, and those whose DEL it has
\* executed between then and the SET of this entry.
Entry    == [of : States, ex : BOOLEAN, asOf : SUBSET Writers, late : SUBSET Writers]
Commands == [cmd : {"get"}, by : Readers]
                \cup [cmd : {"set"}, entry : Entry]
                \cup [cmd : {"del"}, by : Writers]

ASSUME KindAssumption  == Kind \in [Writers -> Kinds]
ASSUME NamesAssumption == /\ Readers \cap Writers = {}
                          /\ NoEntry \notin Entry
ASSUME BoundAssumption == MaxFaults \in Nat

VARIABLES
    users,    \* MongoDB: the changes in effect
    dict,     \* Redis: the entry of the dictionary
    queue,    \* of each process, the commands Redis has not executed yet
    pc,       \* the call a request makes next
    at,       \* the process that serves it
    got,      \* the dictionary a reader has got
    before,   \* history: the writers that were done when a reader came
    deleted,  \* history: the writers whose DEL Redis has executed
    dropped,  \* history: the writers whose DEL was refused or crashed with
    faults

requests == <<pc, at, got, before>>
history  == <<deleted, dropped>>
vars     == <<users, dict, queue, requests, history, faults>>

Requests == Readers \cup Writers

TypeOK ==
    /\ users \in States
    /\ dict  \in Entry \cup {NoEntry}
    /\ queue \in [Processes -> Seq(Commands)]
    /\ pc \in [Requests -> {"idle", "get", "aggregate", "fill", "answered", "new",
                            "write", "readBack", "grant", "undo", "invalidate",
                            "done", "failed", "crashed"}]
    /\ at \in [Requests -> Processes]
    /\ got \in [Readers -> Entry \cup {NoEntry}]
    /\ before \in [Readers -> SUBSET Writers]
    /\ deleted \in SUBSET Writers
    /\ dropped \in SUBSET Writers
    /\ faults \in Nat

Init ==
    /\ users = {}
    /\ dict = NoEntry
    /\ queue = [p \in Processes |-> <<>>]
    /\ pc = [r \in Requests |-> IF r \in Readers THEN "idle" ELSE "new"]
    /\ at \in {[r \in Requests |-> p] : p \in Processes}
    /\ got = [r \in Readers |-> NoEntry]
    /\ before = [r \in Readers |-> {}]
    /\ deleted = {}
    /\ dropped = {}
    /\ faults = 0

-----------------------------------------------------------------------------
Fault(kind) ==
    /\ kind \in FaultKinds
    /\ faults < MaxFaults
    /\ faults' = faults + 1

Goto(r, l) == pc' = [pc EXCEPT ![r] = l]

\* Mutant: the command goes before those the connection has not sent.
SendFirst(p, c) == queue' = [queue EXCEPT ![p] = <<c>> \o @]

Send(p, c) == queue' = [queue EXCEPT ![p] = Append(@, c)]

-----------------------------------------------------------------------------
(* A read. *)

StartRead(r, p) ==
    /\ pc[r] \in {"idle", "answered"}
    /\ Goto(r, "get")
    /\ at' = [at EXCEPT ![r] = p]
    /\ got' = [got EXCEPT ![r] = NoEntry]
    /\ before' = [before EXCEPT ![r] = {w \in Writers : pc[w] = "done"}]
    /\ Send(p, [cmd |-> "get", by |-> r])
    /\ UNCHANGED <<users, dict, history, faults>>

\* Mutant: a list of dictionaries.
ComputedList == [of |-> {users}, ex |-> TRUE, asOf |-> deleted, late |-> {}]

\* Mutant: set without EX.
ComputedForGood == [of |-> users, ex |-> FALSE, asOf |-> deleted, late |-> {}]

Computed == [of |-> users, ex |-> TRUE, asOf |-> deleted, late |-> {}]

\* The aggregation: no user that is not blocked is an error, 204.
Aggregate(r) ==
    /\ pc[r] = "aggregate"
    /\ \/ /\ users \notin EmptyStates
          /\ got' = [got EXCEPT ![r] = Computed]
          /\ Goto(r, "fill")
          /\ UNCHANGED faults
       \/ /\ users \in EmptyStates
          /\ Goto(r, "idle")
          /\ UNCHANGED <<got, faults>>
       \/ /\ Fault("refused")
          /\ Goto(r, "idle")
          /\ UNCHANGED got
    /\ UNCHANGED <<users, dict, queue, at, before, history>>

Fill(r) ==
    /\ pc[r] = "fill"
    /\ Send(at[r], [cmd |-> "set", entry |-> got[r]])
    /\ Goto(r, "answered")
    /\ UNCHANGED <<users, dict, at, got, before, history, faults>>

-----------------------------------------------------------------------------
(* A change. *)

StartWrite(w, p) ==
    /\ pc[w] = "new"
    /\ Goto(w, "write")
    /\ at' = [at EXCEPT ![w] = p]
    /\ UNCHANGED <<users, dict, queue, got, before, history, faults>>

\* Mutant: an answer that is read back leaves the entry as it is.
NextCallNoDel(w) == CASE Kind[w] = "plain"       -> "invalidate"
                      [] Kind[w] = "readBack"    -> "done"
                      [] Kind[w] = "compensated" -> "grant"

NextCall(w) == CASE Kind[w] = "plain"       -> "invalidate"
                 [] Kind[w] = "readBack"    -> "readBack"
                 [] Kind[w] = "compensated" -> "grant"

Write(w) ==
    /\ pc[w] = "write"
    /\ \/ /\ users' = users \cup {w}
          /\ Goto(w, NextCall(w))
          /\ UNCHANGED faults
       \/ /\ Fault("refused")
          /\ Goto(w, "failed")
          /\ UNCHANGED users
       \/ /\ Fault("lost")
          /\ users' = users \cup {w}
          /\ Goto(w, "failed")
    /\ UNCHANGED <<dict, queue, at, got, before, history>>

\* createUser reads the user it answers with; a user it does not find, like
\* one deleted meanwhile, is an error.
ReadBack(w) ==
    /\ pc[w] = "readBack"
    /\ \E l \in {"invalidate", "failed"} : Goto(w, l)
    /\ UNCHANGED <<users, dict, queue, at, got, before, history, faults>>

\* The calls after the write of a change that is undone if they fail: they
\* fail with OpenFGA, or when the group has just been deleted.
Grant(w) ==
    /\ pc[w] = "grant"
    /\ \E l \in {"invalidate", "undo"} : Goto(w, l)
    /\ UNCHANGED <<users, dict, queue, at, got, before, history, faults>>

Undo(w) ==
    /\ pc[w] = "undo"
    /\ Goto(w, "failed")
    /\ \/ users' = users \ {w} /\ UNCHANGED faults
       \/ Fault("refused") /\ UNCHANGED users
    /\ UNCHANGED <<dict, queue, at, got, before, history>>

\* invalidateUsersDictCache, and the answer
Invalidate(w) ==
    /\ pc[w] = "invalidate"
    /\ Send(at[w], [cmd |-> "del", by |-> w])
    /\ Goto(w, "done")
    /\ UNCHANGED <<users, dict, at, got, before, history, faults>>

-----------------------------------------------------------------------------
(* Redis. *)

Pop(p) == queue' = [queue EXCEPT ![p] = Tail(@)]

Get(r) ==
    /\ Goto(r, IF dict = NoEntry THEN "aggregate" ELSE "answered")
    /\ got' = [got EXCEPT ![r] = dict]
    /\ UNCHANGED <<dict, deleted>>

Set(entry) ==
    /\ dict' = [entry EXCEPT !.late = deleted \ entry.asOf]
    /\ UNCHANGED <<pc, got, deleted>>

Del(w) ==
    /\ dict' = NoEntry
    /\ deleted' = deleted \cup {w}
    /\ UNCHANGED <<pc, got>>

Effect(c) == \/ c.cmd = "get" /\ Get(c.by)
             \/ c.cmd = "set" /\ Set(c.entry)
             \/ c.cmd = "del" /\ Del(c.by)

Execute(p) ==
    /\ queue[p] # <<>>
    /\ Effect(Head(queue[p]))
    /\ Pop(p)
    /\ UNCHANGED <<users, at, before, dropped, faults>>

\* The connection breaks before the reply: the client sends the command again.
Resend(p) ==
    /\ queue[p] # <<>>
    /\ Head(queue[p]).cmd # "get"
    /\ Fault("resent")
    /\ Effect(Head(queue[p]))
    /\ UNCHANGED <<users, queue, at, before, dropped>>

\* The error that the proxy swallows.
Refuse(p) ==
    /\ queue[p] # <<>>
    /\ Fault("refused")
    /\ LET c == Head(queue[p]) IN
          /\ IF c.cmd = "get" THEN Goto(c.by, "aggregate") ELSE UNCHANGED pc
          /\ dropped' = IF c.cmd = "del" THEN dropped \cup {c.by} ELSE dropped
    /\ Pop(p)
    /\ UNCHANGED <<users, dict, at, got, before, deleted>>

Expire ==
    /\ dict # NoEntry
    /\ dict.ex
    /\ dict' = NoEntry
    /\ UNCHANGED <<users, queue, requests, history, faults>>

-----------------------------------------------------------------------------
\* Whether the DEL of a writer is on its way.
Deleting(w) == \E i \in 1..Len(queue[at[w]]) :
                  queue[at[w]][i] = [cmd |-> "del", by |-> w]

\* The process goes with its requests and the commands it has not sent.
Crash(p) ==
    /\ Fault("crash")
    /\ queue' = [queue EXCEPT ![p] = <<>>]
    /\ pc' = [r \in Requests |->
                 IF at[r] # p \/ pc[r] \in {"new", "done", "failed"} THEN pc[r]
                 ELSE IF r \in Readers THEN "idle" ELSE "crashed"]
    /\ dropped' = dropped \cup {w \in Writers : at[w] = p /\ Deleting(w)}
    /\ UNCHANGED <<users, dict, at, got, before, deleted>>

Next ==
    \/ \E r \in Readers :
          \/ \E p \in Processes : StartRead(r, p)
          \/ Aggregate(r) \/ Fill(r)
    \/ \E w \in Writers :
          \/ \E p \in Processes : StartWrite(w, p)
          \/ Write(w) \/ ReadBack(w) \/ Grant(w) \/ Undo(w) \/ Invalidate(w)
    \/ \E p \in Processes : Execute(p) \/ Resend(p) \/ Refuse(p) \/ Crash(p)
    \/ Expire

\* Redis lets an entry with EX go, whatever shield-api does.
Spec == Init /\ [][Next]_vars /\ WF_vars(Expire)

-----------------------------------------------------------------------------
(* Properties. *)

\* Of two states of the users, the changes in one only.
Differ(S, T) == (S \ T) \cup (T \ S)

\* An entry of Redis misses or keeps a change only if the request that made
\* it has not answered or has failed, its DEL is still on its way or was
\* dropped, or the DEL was executed between the aggregation and the SET of
\* that entry: no other order of un-awaited commands and awaited calls
\* leaves a dictionary out of date.
StaleExplained ==
    dict # NoEntry =>
        \A w \in Differ(dict.of, users) :
            \/ pc[w] # "done"
            \/ Deleting(w) \/ w \in dropped
            \/ w \in dict.late

\* A read through the process that answered a change gets it, although the
\* DEL was not awaited: the GET goes out after it on the same connection.
\* Exempt are a dropped DEL and an entry computed from users read before.
ReadsOwnWrites ==
    \A r \in Readers :
        pc[r] = "answered" =>
            \A w \in before[r] :
                at[w] = at[r] =>
                    w \in got[r].of \/ w \in dropped \/ w \in got[r].late

\* Once the changes have stopped, the dictionary is out of date for good in
\* no case, failures, lost invalidations and late fills included: the EX of
\* every SET bounds what they do.
EventuallyFresh == <>[](dict = NoEntry \/ dict.of = users)
=============================================================================
