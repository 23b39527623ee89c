------------------------------ MODULE Domains ------------------------------
(***************************************************************************)
(* Domains and classifications (shield-api, domains.service.ts and         *)
(* classifications.service.ts): the documents of both collections, and the *)
(* tuples of OpenFGA that hang a domain under the platform and a           *)
(* classification under a domain.  Without its tuple a classification that *)
(* a domain lists can be assigned by nobody.                               *)
(*                                                                         *)
(* A request reads and checks, writes MongoDB, and then writes the tuples; *)
(* nothing is taken back when the last of these fails.  hurt remembers the *)
(* domains for which that happened, or for which a request wrote what it   *)
(* had computed before another one wrote.                                  *)
(***************************************************************************)
EXTENDS Naturals, FiniteSets

CONSTANTS
    Domains,      \* names of domains; a unique index makes them identities
    Classes,      \* identities of classifications
    Titles,       \* names of classifications, under a unique index too
    NoDomain,     \* a domain that does not exist
    NoTitle,      \* a classification that does not exist
    Reqs,         \* requests; each is served once
    Jobs,         \* what requests may ask for
    FirstDomains, \* the collections to start from: [listed, titles]
    MaxFaults     \* bound on the number of failing calls

DomainOps == {"createDomain", "editDomain", "createClass", "renameClass"}

\* cs are the classifications of a created or edited domain d; ds the domains
\* related to the classification that is created under title.
DomainJobs == [op : {"createDomain", "editDomain"}, d : Domains, cs : SUBSET Classes]
              \cup [op : {"createClass"}, title : Titles, ds : SUBSET Domains]
              \cup [op : {"renameClass"}, c : Classes, title : Titles]

Listings == [Domains -> {NoDomain} \cup SUBSET Classes]

VARIABLES
    listed,   \* Listings: the domains collection
    titles,   \* [Classes -> Titles \cup {NoTitle}]: the classifications collection
    links,    \* the tuples domain -> domain_classification, \subseteq Domains \X Classes
    rooted,   \* the tuples platform -> domain, \subseteq Domains
    pc,       \* [Reqs -> step]
    job,      \* [Reqs -> Jobs]
    seen,     \* [Reqs -> what the request has read or created of domains]
    hurt,     \* domains with a lost write or missing tuples
    faults    \* how many calls have failed

domainVars == <<listed, titles, links, rooted, seen, hurt>>

DomainSteps == {"new", "write", "insert", "find", "push", "link", "done", "failed", "gone"}

\* What a request carries: the domain as read, or the classification it created
\* and the domains it found for it.
NotSeen == [was |-> {}, made |-> {}, found |-> {}]
Seen    == [was : SUBSET Classes, made : SUBSET Classes, found : SUBSET Domains]

Exists(d) == listed[d] # NoDomain
Known(c) == titles[c] # NoTitle

DomainInit ==
    /\ \E f \in FirstDomains : listed = f.listed /\ titles = f.titles
    /\ links = {p \in Domains \X Classes : Exists(p[1]) /\ p[2] \in listed[p[1]]}
    /\ rooted = {d \in Domains : Exists(d)}
    /\ seen = [r \in Reqs |-> NotSeen]
    /\ hurt = {}

Goto(r, step) == pc' = [pc EXCEPT ![r] = step]

Fault == faults < MaxFaults /\ faults' = faults + 1

See(r, s) == seen' = [seen EXCEPT ![r] = s]
-----------------------------------------------------------------------------
\* createDomain: the name is looked up, and so are the classifications.
ReadCreateDomain(r) ==
    /\ pc[r] = "new" /\ job[r].op = "createDomain"
    /\ Goto(r, IF ~Exists(job[r].d) /\ \A c \in job[r].cs : Known(c)
               THEN "write" ELSE "failed")
    /\ UNCHANGED <<listed, titles, links, rooted, seen, hurt, job, faults>>

\* insertOne, which the unique index on the name may refuse.
WriteCreateDomain(r) ==
    /\ pc[r] = "write" /\ job[r].op = "createDomain"
    /\ IF Exists(job[r].d)
       THEN Goto(r, "failed") /\ UNCHANGED <<listed, seen>>
       ELSE /\ listed' = [listed EXCEPT ![job[r].d] = job[r].cs]
            /\ See(r, [NotSeen EXCEPT !.made = job[r].cs, !.found = {job[r].d}])
            /\ Goto(r, "link")
    /\ UNCHANGED <<titles, links, rooted, hurt, job, faults>>

\* Mutant: classifications that the request leaves out are taken away.
ReadEditDomainAny(r) ==
    /\ pc[r] = "new" /\ job[r].op = "editDomain"
    /\ IF Exists(job[r].d) /\ \A c \in job[r].cs : Known(c)
       THEN See(r, [NotSeen EXCEPT !.was = listed[job[r].d]]) /\ Goto(r, "write")
       ELSE Goto(r, "failed") /\ UNCHANGED seen
    /\ UNCHANGED <<listed, titles, links, rooted, hurt, job, faults>>

\* editDomainById: classifications can only be added, and must exist.
ReadEditDomain(r) ==
    /\ pc[r] = "new" /\ job[r].op = "editDomain"
    /\ LET d == job[r].d IN
       IF Exists(d) /\ listed[d] \subseteq job[r].cs /\ \A c \in job[r].cs \ listed[d] : Known(c)
       THEN See(r, [NotSeen EXCEPT !.was = listed[d]]) /\ Goto(r, "write")
       ELSE Goto(r, "failed") /\ UNCHANGED seen
    /\ UNCHANGED <<listed, titles, links, rooted, hurt, job, faults>>

\* updateOne sets the whole list, whatever it is by now.
WriteEditDomain(r) ==
    /\ pc[r] = "write" /\ job[r].op = "editDomain"
    /\ LET d == job[r].d
           added == job[r].cs \ seen[r].was
       IN /\ listed' = [listed EXCEPT ![d] = job[r].cs]
          /\ See(r, [seen[r] EXCEPT !.made = added, !.found = {d}])
          /\ hurt' = IF listed[d] = seen[r].was THEN hurt ELSE hurt \cup {d}
    /\ Goto(r, "link")
    /\ UNCHANGED <<titles, links, rooted, job, faults>>
-----------------------------------------------------------------------------
\* createClassification: the title is looked up first.  The request names domains
\* by the identities they were given, so they are there when it is sent.
ReadCreateClass(r) ==
    /\ pc[r] = "new" /\ job[r].op = "createClass"
    /\ \A d \in job[r].ds : Exists(d)
    /\ Goto(r, IF \E c \in Classes : titles[c] = job[r].title THEN "failed" ELSE "insert")
    /\ UNCHANGED <<domainVars, job, faults>>

\* insertOne, under the unique index on the title.
InsertClass(r) ==
    /\ pc[r] = "insert"
    /\ IF \E c \in Classes : titles[c] = job[r].title
       THEN Goto(r, "failed") /\ UNCHANGED <<titles, seen>>
       ELSE \E c \in Classes :
                /\ ~Known(c)
                /\ titles' = [titles EXCEPT ![c] = job[r].title]
                /\ See(r, [NotSeen EXCEPT !.made = {c}])
                /\ Goto(r, "find")
    /\ UNCHANGED <<listed, links, rooted, hurt, job, faults>>

Lacking(r) == {d \in job[r].ds : Exists(d) /\ seen[r].made \cap listed[d] = {}}

\* addClassificationToDomains: the domains without it are found, ...
FindDomains(r) ==
    /\ pc[r] = "find"
    /\ See(r, [seen[r] EXCEPT !.found = Lacking(r)])
    /\ Goto(r, "push")
    /\ UNCHANGED <<listed, titles, links, rooted, hurt, job, faults>>

\* ... updateMany looks for them again and pushes it, ...
PushClass(r) ==
    /\ pc[r] = "push"
    /\ listed' = [d \in Domains |-> IF d \in Lacking(r) THEN listed[d] \cup seen[r].made
                                    ELSE listed[d]]
    /\ Goto(r, "link")
    /\ UNCHANGED <<titles, links, rooted, seen, hurt, job, faults>>

\* findOneAndUpdate on the identity; the unique index guards the title.
RenameClass(r) ==
    /\ pc[r] = "new" /\ job[r].op = "renameClass"
    /\ IF Known(job[r].c) /\ \A c \in Classes \ {job[r].c} : titles[c] # job[r].title
       THEN titles' = [titles EXCEPT ![job[r].c] = job[r].title] /\ Goto(r, "done")
       ELSE Goto(r, "failed") /\ UNCHANGED titles
    /\ UNCHANGED <<listed, links, rooted, seen, hurt, job, faults>>
-----------------------------------------------------------------------------
NewLinks(r) == seen[r].found \X seen[r].made

NewRoots(r) == IF job[r].op = "createDomain" THEN seen[r].found ELSE {}

\* Mutant: a created domain without the tuples of its classifications.
WriteLinksOfEdits(r) ==
    /\ pc[r] = "link"
    /\ links' = IF job[r].op = "createDomain" THEN links ELSE links \cup NewLinks(r)
    /\ rooted' = rooted \cup NewRoots(r)
    /\ Goto(r, "done")
    /\ UNCHANGED <<listed, titles, seen, hurt, job, faults>>

\* One write of all new tuples; OpenFGA refuses it when one of them is there.
WriteLinks(r) ==
    /\ pc[r] = "link"
    /\ NewLinks(r) \cap links = {}
    /\ links' = links \cup NewLinks(r)
    /\ rooted' = rooted \cup NewRoots(r)
    /\ Goto(r, "done")
    /\ UNCHANGED <<listed, titles, seen, hurt, job, faults>>

\* It is refused or fails: the documents stay.  Of a new classification that is
\* only logged, and the request succeeds.
LinksFail(r) ==
    /\ pc[r] = "link"
    /\ \/ NewLinks(r) \cap links # {} /\ UNCHANGED faults
       \/ NewLinks(r) \cup NewRoots(r) # {} /\ Fault
    /\ hurt' = hurt \cup seen[r].found
    /\ Goto(r, IF job[r].op = "createClass" THEN "done" ELSE "failed")
    /\ UNCHANGED <<listed, titles, links, rooted, seen, job>>

DomainStep(r) ==
    \/ ReadCreateDomain(r) \/ WriteCreateDomain(r) \/ ReadEditDomain(r) \/ WriteEditDomain(r)
    \/ ReadCreateClass(r) \/ InsertClass(r) \/ FindDomains(r) \/ PushClass(r)
    \/ RenameClass(r) \/ WriteLinks(r) \/ LinksFail(r)
-----------------------------------------------------------------------------
DomainTypeOK ==
    /\ listed \in Listings
    /\ titles \in [Classes -> Titles \cup {NoTitle}]
    /\ links \subseteq Domains \X Classes
    /\ rooted \subseteq Domains
    /\ seen \in [Reqs -> Seen]
    /\ hurt \subseteq Domains

\* A request that has written d and not its tuples.
Linking(d) == \E r \in Reqs : pc[r] \in {"push", "link"} /\ d \in seen[r].found

\* The tuples say what the documents list (domains.service.ts, createDomain and
\* editDomainById; classifications.service.ts, addClassificationToDomains), for
\* every domain nobody is writing, once no write was lost and none has failed: a
\* classification is listed for a domain exactly if it can be assigned there.
LinksMirror ==
    \A d \in Domains : ~Linking(d) /\ d \notin hurt =>
        /\ {c \in Classes : <<d, c>> \in links} = IF Exists(d) THEN listed[d] ELSE {}
        /\ d \in rooted <=> Exists(d)

\* editDomainById says that classifications can only be added to a domain: a step
\* takes one away only by writing a list computed before another request wrote.
OnlyAdded ==
    [][\A d \in Domains : Exists(d) =>
            listed[d] \subseteq listed'[d] \/ d \in hurt']_<<listed, hurt>>

=============================================================================
