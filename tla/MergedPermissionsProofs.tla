------------------------ MODULE MergedPermissionsProofs ----------------------
(***************************************************************************)
(* What the merges and the diffs of permissions compute, for lists of any  *)
(* length: every merge of entries, one after the other, is a set of what   *)
(* they hold (ViewOf, DictOf, TablesOf, AttrsOf), and every diff of lists  *)
(* with distinct keys is a set of pairs.                                   *)
(***************************************************************************)
EXTENDS MergedPermissions, PermissionDiffs, NaturalsInduction, WellFoundedInduction, TLAPS

(* Induction over numbers, by sets of them. *)

LEMMA SmallestNat ==
    ASSUME NEW T, T \subseteq Nat, T # {}
    PROVE  \E n \in T : \A m \in T : n =< m
<1>1. \E n \in T : \A m \in T : ~(<<m, n>> \in OpToRel(<, Nat))
  BY NatLessThanWellFounded, WFMin
<1>2. \A m, n \in Nat : m < n => <<m, n>> \in OpToRel(<, Nat)
  BY DEF OpToRel
<1>3. PICK n \in T : \A m \in T : ~(<<m, n>> \in OpToRel(<, Nat))
  BY <1>1
<1>4. \A m \in T : ~(m < n)
  BY <1>2, <1>3
<1>5. QED
  BY <1>4

LEMMA SetInduction ==
    ASSUME NEW S, 0 \in S, \A n \in Nat : n \in S => n + 1 \in S
    PROVE  Nat \subseteq S
<1> SUFFICES ASSUME Nat \ S # {} PROVE FALSE
  OBVIOUS
<1>1. PICK n \in Nat \ S : \A m \in Nat \ S : n =< m
  BY SmallestNat
<1>2. n # 0 /\ n - 1 \in Nat /\ n - 1 \in S
  BY <1>1
<1>3. QED
  BY <1>1, <1>2

(* What a user may see: sequences of entries, merged one after the other. *)

\* What holds of 0, and of the next position with each, holds up to n.
LEMMA UpTo ==
    ASSUME NEW n \in Nat, NEW S, 0 \in S, \A i \in 1 .. n : i - 1 \in S => i \in S
    PROVE  0 .. n \subseteq S
<1> DEFINE N == {i \in Nat : i =< n => i \in S}
<1>1. 0 \in N
  OBVIOUS
<1>2. ASSUME NEW i \in Nat, i \in N PROVE i + 1 \in N
  <2>1. CASE i + 1 =< n
    <3>1. i + 1 \in 1 .. n /\ (i + 1) - 1 = i /\ i \in S
      BY <1>2, <2>1
    <3>2. QED
      BY <3>1
  <2>2. QED
    BY <2>1
<1>3. Nat \subseteq N
  <2> HIDE DEF N
  <2> QED BY <1>1, <1>2, SetInduction
<1>4. QED
  BY <1>3

\* The positions of the first n entries that are of domain d.
Of(s, n, d) == {j \in 1 .. n : s[j].id = d}

\* The merged view of the first n entries.
Sources(s, n, d) == {s[j].src : j \in Of(s, n, d)}
ClsIn(s, n, d)   == UNION {s[j].cls : j \in Of(s, n, d)}
Granting(s, n, d, c) == {s[j].src : j \in {i \in Of(s, n, d) : c \in s[i].cls}}
ClsView(s, n, d) == [c \in ClsIn(s, n, d) |-> Granting(s, n, d, c)]
EntryIds(s, n)        == {s[j].id : j \in 1 .. n}
ViewOf(s, n)     == [d \in EntryIds(s, n) |-> [sources |-> Sources(s, n, d), cls |-> ClsView(s, n, d)]]
DictOf(s, n)     == [d \in EntryIds(s, n) |-> ClsIn(s, n, d)]

LEMMA OneMore ==
    ASSUME NEW s, NEW n \in Nat, NEW i \in 1 .. n
    PROVE  /\ i - 1 \in Nat /\ i - 1 \in 0 .. n
           /\ 1 .. i = (1 .. i - 1) \cup {i}
           /\ \A d : Of(s, i, d) = Of(s, i - 1, d) \cup (IF s[i].id = d THEN {i} ELSE {})
           /\ \A d : d # s[i].id => Of(s, i, d) = Of(s, i - 1, d)
           /\ EntryIds(s, i) = EntryIds(s, i - 1) \cup {s[i].id}
           /\ \A d : d \notin EntryIds(s, i - 1) => Of(s, i - 1, d) = {}
<1>1. i - 1 \in Nat /\ i - 1 \in 0 .. n /\ 1 .. i = (1 .. i - 1) \cup {i}
  OBVIOUS
<1>2. QED
  BY <1>1 DEF Of, EntryIds

LEMMA FirstOf ==
    ASSUME NEW s
    PROVE  /\ ViewOf(s, 0) = NoDomains
           /\ DictOf(s, 0) = NoDomains
<1>1. EntryIds(s, 0) = {}
  BY DEF EntryIds
<1>2. QED
  BY <1>1 DEF ViewOf, DictOf, NoDomains

LEMMA ViewStep ==
    ASSUME NEW s, NEW n \in Nat, NEW i \in 1 .. n
    PROVE  ViewOf(s, i) = MergeDomain(ViewOf(s, i - 1), s[i])
<1> DEFINE v   == ViewOf(s, i - 1)
           e   == s[i]
           old == At(v, e.id, [sources |-> {}, cls |-> NoSources])
           new == [sources |-> old.sources \cup {e.src}, cls |-> MergeClasses(old.cls, e)]
<1>1. old.sources = Sources(s, i - 1, e.id)
  BY OneMore DEF At, ViewOf, Sources
<1>2. old.cls = ClsView(s, i - 1, e.id)
  <2>1. CASE e.id \in EntryIds(s, i - 1)
    BY <2>1 DEF At, ViewOf
  <2>2. CASE e.id \notin EntryIds(s, i - 1)
    <3>1. ClsIn(s, i - 1, e.id) = {}
      BY <2>2, OneMore DEF ClsIn
    <3>2. old.cls = NoSources
      BY <2>2 DEF At, ViewOf
    <3>3. QED
      BY <3>1, <3>2 DEF ClsView, NoSources
  <2>3. QED
    BY <2>1, <2>2
<1>3. Sources(s, i, e.id) = Sources(s, i - 1, e.id) \cup {e.src}
  BY OneMore DEF Sources
<1>4. ClsIn(s, i, e.id) = ClsIn(s, i - 1, e.id) \cup e.cls
  BY OneMore DEF ClsIn
<1>5. \A c : Granting(s, i, e.id, c) = Granting(s, i - 1, e.id, c) \cup (IF c \in e.cls THEN {e.src} ELSE {})
  BY OneMore DEF Granting
<1>6. \A c : c \notin ClsIn(s, i - 1, e.id) => Granting(s, i - 1, e.id, c) = {}
  BY DEF Granting, ClsIn
<1>7. MergeClasses(ClsView(s, i - 1, e.id), e) = ClsView(s, i, e.id)
  <2>1. DOMAIN ClsView(s, i - 1, e.id) = ClsIn(s, i - 1, e.id)
    BY DEF ClsView
  <2>2. \A c : At(ClsView(s, i - 1, e.id), c, {}) = Granting(s, i - 1, e.id, c)
    BY <1>6 DEF ClsView, At
  <2>3. QED
    BY <1>4, <1>5, <2>1, <2>2 DEF MergeClasses, ClsView
<1>8. new = [sources |-> Sources(s, i, e.id), cls |-> ClsView(s, i, e.id)]
  BY <1>1, <1>2, <1>3, <1>7
<1>9. ASSUME NEW d, d # e.id
      PROVE  Sources(s, i, d) = Sources(s, i - 1, d) /\ ClsView(s, i, d) = ClsView(s, i - 1, d)
  <2>1. Of(s, i, d) = Of(s, i - 1, d)
    BY <1>9, OneMore
  <2>2. QED
    BY <2>1 DEF Sources, ClsView, ClsIn, Granting
<1>10. MergeDomain(v, e) = [y \in DOMAIN v \cup {e.id} |-> IF y = e.id THEN new ELSE v[y]]
  BY DEF MergeDomain, With
<1>11. DOMAIN v = EntryIds(s, i - 1) /\ \A d \in EntryIds(s, i - 1) : v[d] = [sources |-> Sources(s, i - 1, d), cls |-> ClsView(s, i - 1, d)]
  BY DEF ViewOf
<1>12. EntryIds(s, i) = EntryIds(s, i - 1) \cup {e.id}
  BY OneMore
<1> HIDE DEF v, e, old, new
<1>13. ViewOf(s, i) = [d \in EntryIds(s, i) |-> [sources |-> Sources(s, i, d), cls |-> ClsView(s, i, d)]]
  BY DEF ViewOf
<1>14. \A y \in EntryIds(s, i) : (IF y = e.id THEN new ELSE v[y]) = [sources |-> Sources(s, i, y), cls |-> ClsView(s, i, y)]
  BY <1>8, <1>9, <1>11, <1>12
<1>15. MergeDomain(v, e) = ViewOf(s, i)
  BY <1>10, <1>11, <1>12, <1>13, <1>14
<1>16. QED
  BY <1>15 DEF v, e

LEMMA DictStep ==
    ASSUME NEW s, NEW n \in Nat, NEW i \in 1 .. n
    PROVE  DictOf(s, i) = DictDomain(DictOf(s, i - 1), s[i])
<1> DEFINE v == DictOf(s, i - 1)
           e == s[i]
           new == At(v, e.id, {}) \cup e.cls
<1>1. new = ClsIn(s, i, e.id)
  <2>1. ClsIn(s, i, e.id) = ClsIn(s, i - 1, e.id) \cup e.cls
    BY OneMore DEF ClsIn
  <2>2. At(v, e.id, {}) = ClsIn(s, i - 1, e.id)
    BY OneMore DEF At, DictOf, ClsIn
  <2>3. QED
    BY <2>1, <2>2
<1>2. ASSUME NEW d, d # e.id PROVE ClsIn(s, i, d) = ClsIn(s, i - 1, d)
  <2>1. Of(s, i, d) = Of(s, i - 1, d)
    BY <1>2, OneMore
  <2>2. QED
    BY <2>1 DEF ClsIn
<1>3. DictDomain(v, e) = [y \in DOMAIN v \cup {e.id} |-> IF y = e.id THEN new ELSE v[y]]
  BY DEF DictDomain, With
<1>4. DOMAIN v = EntryIds(s, i - 1) /\ \A d \in EntryIds(s, i - 1) : v[d] = ClsIn(s, i - 1, d)
  BY DEF DictOf
<1>5. EntryIds(s, i) = EntryIds(s, i - 1) \cup {e.id}
  BY OneMore
<1> HIDE DEF v, e, new
<1>6. DictOf(s, i) = [d \in EntryIds(s, i) |-> ClsIn(s, i, d)]
  BY DEF DictOf
<1>7. \A y \in EntryIds(s, i) : (IF y = e.id THEN new ELSE v[y]) = ClsIn(s, i, y)
  BY <1>1, <1>2, <1>4, <1>5
<1>8. DictDomain(v, e) = DictOf(s, i)
  BY <1>3, <1>4, <1>5, <1>6, <1>7
<1>9. QED
  BY <1>8 DEF v, e

Views(m, s, n) == m = [i \in 0 .. n |-> IF i = 0 THEN NoDomains ELSE MergeDomain(m[i - 1], s[i])]
Dicts(m, s, n) == m = [i \in 0 .. n |-> IF i = 0 THEN NoDomains ELSE DictDomain(m[i - 1], s[i])]

LEMMA ViewsAre ==
    ASSUME NEW s, NEW n \in Nat
    PROVE  (CHOOSE m : Views(m, s, n))[n] = ViewOf(s, n)
<1> DEFINE w == [i \in 0 .. n |-> ViewOf(s, i)]
<1>1. \A i \in 0 .. n : i # 0 => i \in 1 .. n /\ i - 1 \in 0 .. n /\ w[i - 1] = ViewOf(s, i - 1)
  OBVIOUS
<1>2. \A i \in 0 .. n : ViewOf(s, i) = IF i = 0 THEN NoDomains ELSE MergeDomain(w[i - 1], s[i])
  BY <1>1, FirstOf, ViewStep
<1>3. Views(w, s, n)
  BY <1>2 DEF Views
<1> DEFINE m == CHOOSE m : Views(m, s, n)
<1>4. Views(m, s, n)
  BY <1>3
<1> HIDE DEF m, w
<1>5. \A i \in 0 .. n : m[i] = IF i = 0 THEN NoDomains ELSE MergeDomain(m[i - 1], s[i])
  BY <1>4 DEF Views
<1> DEFINE S == {i \in 0 .. n : m[i] = ViewOf(s, i)}
<1>6. 0 \in S
  BY <1>5, FirstOf
<1>7. \A i \in 1 .. n : i - 1 \in S => i \in S
  <2> SUFFICES ASSUME NEW i \in 1 .. n, m[i - 1] = ViewOf(s, i - 1) PROVE m[i] = ViewOf(s, i)
    OBVIOUS
  <2>1. i \in 0 .. n /\ i # 0
    OBVIOUS
  <2>2. QED
    BY <1>5, <2>1, ViewStep
<1>8. 0 .. n \subseteq S
  <2> HIDE DEF S
  <2> QED BY <1>6, <1>7, UpTo
<1>9. QED
  BY <1>8 DEF m

LEMMA DictsAre ==
    ASSUME NEW s, NEW n \in Nat
    PROVE  (CHOOSE m : Dicts(m, s, n))[n] = DictOf(s, n)
<1> DEFINE w == [i \in 0 .. n |-> DictOf(s, i)]
<1>1. \A i \in 0 .. n : i # 0 => i \in 1 .. n /\ i - 1 \in 0 .. n /\ w[i - 1] = DictOf(s, i - 1)
  OBVIOUS
<1>2. \A i \in 0 .. n : DictOf(s, i) = IF i = 0 THEN NoDomains ELSE DictDomain(w[i - 1], s[i])
  BY <1>1, FirstOf, DictStep
<1>3. Dicts(w, s, n)
  BY <1>2 DEF Dicts
<1> DEFINE m == CHOOSE m : Dicts(m, s, n)
<1>4. Dicts(m, s, n)
  BY <1>3
<1> HIDE DEF m, w
<1>5. \A i \in 0 .. n : m[i] = IF i = 0 THEN NoDomains ELSE DictDomain(m[i - 1], s[i])
  BY <1>4 DEF Dicts
<1> DEFINE S == {i \in 0 .. n : m[i] = DictOf(s, i)}
<1>6. 0 \in S
  BY <1>5, FirstOf
<1>7. \A i \in 1 .. n : i - 1 \in S => i \in S
  <2> SUFFICES ASSUME NEW i \in 1 .. n, m[i - 1] = DictOf(s, i - 1) PROVE m[i] = DictOf(s, i)
    OBVIOUS
  <2>1. i \in 0 .. n /\ i # 0
    OBVIOUS
  <2>2. QED
    BY <1>5, <2>1, DictStep
<1>8. 0 .. n \subseteq S
  <2> HIDE DEF S
  <2> QED BY <1>6, <1>7, UpTo
<1>9. QED
  BY <1>8 DEF m

LEMMA DomainsMerged ==
    ASSUME NEW user, Len(SourcedDomains(user)) \in Nat, Len(AllDomains(user)) \in Nat
    PROVE  /\ MergeDomains(user) = ViewOf(SourcedDomains(user), Len(SourcedDomains(user)))
           /\ DomainsDict(user) = DictOf(AllDomains(user), Len(AllDomains(user)))
<1>1. MergeDomains(user) = (CHOOSE m : Views(m, SourcedDomains(user), Len(SourcedDomains(user))))[Len(SourcedDomains(user))]
  BY DEF MergeDomains, Views
<1>2. DomainsDict(user) = (CHOOSE m : Dicts(m, AllDomains(user), Len(AllDomains(user))))[Len(AllDomains(user))]
  BY DEF DomainsDict, Dicts
<1>3. QED
  BY <1>1, <1>2, ViewsAre, DictsAre
(* The entries of the groups, one group after the other. *)

FlatUp(m, ss, n) == m = [i \in 1 .. n |-> IF i = 1 THEN ss[i] ELSE m[i - 1] \o ss[i]]

LEMMA FlatExists ==
    ASSUME NEW ss, NEW n \in Nat
    PROVE  \E m : FlatUp(m, ss, n)
<1> DEFINE S == {i \in Nat : \E m : FlatUp(m, ss, i)}
<1>1. 0 \in S
  <2>1. FlatUp([k \in 1 .. 0 |-> 0], ss, 0)
    BY DEF FlatUp
  <2>2. QED
    BY <2>1
<1>2. ASSUME NEW i \in Nat, i \in S PROVE i + 1 \in S
  <2>1. PICK m : FlatUp(m, ss, i)
    BY <1>2
  <2> DEFINE b == [k \in 1 .. i + 1 |-> IF k = 1 THEN ss[k] ELSE m[k - 1] \o ss[k]]
  <2> HIDE DEF b
  <2>2. \A k \in 1 .. i : m[k] = IF k = 1 THEN ss[k] ELSE m[k - 1] \o ss[k]
    BY <2>1 DEF FlatUp
  <2>3. \A k \in 1 .. i + 1 : b[k] = IF k = 1 THEN ss[k] ELSE m[k - 1] \o ss[k]
    BY DEF b
  <2>4. \A k \in 1 .. i : b[k] = m[k]
    BY <2>2, <2>3
  <2>5. \A k \in 1 .. i + 1 : b[k] = IF k = 1 THEN ss[k] ELSE b[k - 1] \o ss[k]
    <3>1. \A k \in 1 .. i + 1 : k # 1 => k - 1 \in 1 .. i
      OBVIOUS
    <3>2. QED
      BY <2>4, <2>3, <3>1
  <2>6. b = [k \in 1 .. i + 1 |-> b[k]]
    BY DEF b
  <2>7. FlatUp(b, ss, i + 1)
    BY <2>5, <2>6 DEF FlatUp
  <2>8. QED
    BY <2>7
<1>3. Nat \subseteq S
  <2> HIDE DEF S
  <2> QED BY <1>1, <1>2, SetInduction
<1>4. QED
  BY <1>3

LEMMA JoinedRange ==
    ASSUME NEW X, NEW s \in Seq(X), NEW t \in Seq(X)
    PROVE  s \o t \in Seq(X) /\ Range(s \o t) = Range(s) \cup Range(t)
<1>1. s \o t \in Seq(X) /\ Len(s \o t) = Len(s) + Len(t)
  OBVIOUS
<1>2. ASSUME NEW i \in 1 .. Len(s) PROVE i \in DOMAIN (s \o t) /\ (s \o t)[i] = s[i]
  BY <1>1
<1>3. ASSUME NEW i \in 1 .. Len(t) PROVE i + Len(s) \in DOMAIN (s \o t) /\ (s \o t)[i + Len(s)] = t[i]
  BY <1>1
<1>4. ASSUME NEW i \in DOMAIN (s \o t)
      PROVE  (s \o t)[i] \in Range(s) \cup Range(t)
  <2>1. CASE i =< Len(s)
    BY <1>1, <2>1 DEF Range
  <2>2. CASE ~(i =< Len(s))
    <3>1. i - Len(s) \in 1 .. Len(t) /\ (s \o t)[i] = t[i - Len(s)]
      BY <1>1, <2>2
    <3>2. QED
      BY <3>1 DEF Range
  <2>3. QED
    BY <2>1, <2>2
<1>5. DOMAIN s = 1 .. Len(s) /\ DOMAIN t = 1 .. Len(t)
  OBVIOUS
<1>6. Range(s) \cup Range(t) \subseteq Range(s \o t)
  BY <1>2, <1>3, <1>5 DEF Range
<1>7. Range(s \o t) \subseteq Range(s) \cup Range(t)
  BY <1>4 DEF Range
<1>8. QED
  BY <1>1, <1>6, <1>7

LEMMA FlatRange ==
    ASSUME NEW X, NEW ss \in Seq(Seq(X))
    PROVE  /\ FlattenSeq(ss) \in Seq(X)
           /\ Range(FlattenSeq(ss)) = UNION {Range(ss[i]) : i \in 1 .. Len(ss)}
<1>1. CASE Len(ss) = 0
  <2>1. FlattenSeq(ss) = << >> /\ 1 .. Len(ss) = {}
    BY <1>1 DEF FlattenSeq
  <2>2. QED
    BY <2>1 DEF Range
<1>2. CASE Len(ss) # 0
  <2> DEFINE n == Len(ss)
             m == CHOOSE m : FlatUp(m, ss, n)
  <2>1. n \in Nat /\ n # 0
    BY <1>2
  <2>2. FlattenSeq(ss) = m[n]
    BY <1>2 DEF FlattenSeq, FlatUp
  <2>3. FlatUp(m, ss, n)
    BY <2>1, FlatExists
  <2> HIDE DEF m
  <2>4. \A i \in 1 .. n : m[i] = IF i = 1 THEN ss[i] ELSE m[i - 1] \o ss[i]
    BY <2>3 DEF FlatUp
  <2> DEFINE S == {i \in 0 .. n : i # 0 => /\ m[i] \in Seq(X)
                                           /\ Range(m[i]) = UNION {Range(ss[j]) : j \in 1 .. i}}
  <2>5. 0 \in S
    BY <2>1
  <2>6. ASSUME NEW i \in 1 .. n, i - 1 \in S PROVE i \in S
    <3>1. ss[i] \in Seq(X) /\ i \in 0 .. n
      OBVIOUS
    <3>2. CASE i = 1
      <4>1. 1 .. i = {1} /\ m[i] = ss[i]
        BY <2>4, <3>2
      <4>2. UNION {Range(ss[j]) : j \in 1 .. i} = Range(ss[i])
        BY <3>2, <4>1
      <4>3. QED
        BY <3>1, <4>1, <4>2
    <3>3. CASE i # 1
      <4>1. m[i - 1] \in Seq(X) /\ Range(m[i - 1]) = UNION {Range(ss[j]) : j \in 1 .. i - 1}
        BY <2>6, <3>3
      <4>2. m[i] = m[i - 1] \o ss[i]
        BY <2>4, <3>3
      <4>3. m[i] \in Seq(X) /\ Range(m[i]) = Range(m[i - 1]) \cup Range(ss[i])
        BY <3>1, <4>1, <4>2, JoinedRange
      <4>4. 1 .. i = (1 .. i - 1) \cup {i}
        OBVIOUS
      <4>5. UNION {Range(ss[j]) : j \in 1 .. i} = (UNION {Range(ss[j]) : j \in 1 .. i - 1}) \cup Range(ss[i])
        BY <4>4
      <4>6. QED
        BY <3>1, <4>1, <4>3, <4>5
    <3>4. QED
      BY <3>2, <3>3
  <2>7. 0 .. n \subseteq S
    <3> HIDE DEF S, n
    <3> QED BY <2>1, <2>5, <2>6, UpTo
  <2>8. n \in S
    <3> HIDE DEF S, n
    <3>1. n \in 0 .. n
      BY <2>1
    <3>2. QED
      BY <2>7, <3>1
  <2>9. QED
    BY <2>1, <2>2, <2>8
<1>3. QED
  BY <1>1, <1>2
(* Users, of domains, row filters and groups of any kind. *)

\* The entries of domains, with the source of each.
SourcedEntry(G) == [id : Domains, cls : SUBSET Classes, src : G \cup {Direct}]

Sourced(e, src) == [id |-> e.id, cls |-> e.cls, src |-> src]

LEMMA GroupParts ==
    ASSUME NEW D, NEW T, NEW G, NEW user \in Holders(D, T, G)
    PROVE  /\ user.domains \in Seq(D) /\ user.tables \in Seq(T)
           /\ Len(user.groups) \in Nat /\ DOMAIN user.groups = 1 .. Len(user.groups)
           /\ \A g \in 1 .. Len(user.groups) :
                 /\ user.groups[g].id \in G
                 /\ user.groups[g].domains \in Seq(D)
                 /\ user.groups[g].tables \in Seq(T)
                 /\ user.groups[g].attrs \in Attributes
           /\ user.attrs \in Attributes
<1> DEFINE R == [id : G, domains : Seq(D), tables : Seq(T),
                 attrs : Attributes]
<1>1. /\ user.domains \in Seq(D) /\ user.tables \in Seq(T)
      /\ user.groups \in Seq(R)
      /\ user.attrs \in Attributes
  BY DEF Holders
<1>2. \A r \in R : /\ r.id \in G /\ r.domains \in Seq(D) /\ r.tables \in Seq(T)
                   /\ r.attrs \in Attributes
  OBVIOUS
<1> HIDE DEF R
<1>3. Len(user.groups) \in Nat /\ DOMAIN user.groups = 1 .. Len(user.groups)
  BY <1>1
<1>4. \A g \in 1 .. Len(user.groups) : user.groups[g] \in R
  BY <1>1
<1>5. QED
  BY <1>1, <1>2, <1>3, <1>4

\* The entries of a list with a source.
From(list, src) == {Sourced(e, src) : e \in Range(list)}

LEMMA MappedRange ==
    ASSUME NEW s \in Seq(DomainEntry), NEW G, NEW src \in G \cup {Direct},
           NEW t, t = [i \in DOMAIN s |-> [id |-> s[i].id, cls |-> s[i].cls, src |-> src]]
    PROVE  t \in Seq(SourcedEntry(G)) /\ Range(t) = From(s, src)
<1>1. DOMAIN s = 1 .. Len(s) /\ Len(s) \in Nat
  OBVIOUS
<1>2. \A i \in 1 .. Len(s) : s[i].id \in Domains /\ s[i].cls \in SUBSET Classes
  <2>1. \A i \in 1 .. Len(s) : s[i] \in DomainEntry
    OBVIOUS
  <2>2. QED
    BY <2>1 DEF DomainEntry
<1>3. \A i \in 1 .. Len(s) : t[i] \in SourcedEntry(G)
  BY <1>1, <1>2 DEF SourcedEntry
<1>4. t \in Seq(SourcedEntry(G))
  BY <1>1, <1>3
<1>5. Range(t) = From(s, src)
  BY <1>1 DEF Range, Sourced, From
<1>6. QED
  BY <1>4, <1>5

SourcedList(list, src) ==
    [i \in DOMAIN list |-> [id |-> list[i].id, cls |-> list[i].cls, src |-> src]]

OwnEntries(user)      == From(user.domains, Direct)
GroupEntries(user, g) == From(user.groups[g].domains, user.groups[g].id)

LEMMA SourcedRange ==
    ASSUME NEW T, NEW G, NEW user \in Holders(DomainEntry, T, G)
    PROVE  /\ SourcedDomains(user) \in Seq(SourcedEntry(G))
           /\ Range(SourcedDomains(user))
                 = OwnEntries(user) \cup UNION {GroupEntries(user, g) : g \in 1 .. Len(user.groups)}
<1> DEFINE own == SourcedList(user.domains, Direct)
           ss  == [g \in 1 .. Len(user.groups) |-> SourcedList(user.groups[g].domains, user.groups[g].id)]
           R   == SourcedEntry(G)
<1>0. Len(user.groups) \in Nat /\ DOMAIN user.groups = 1 .. Len(user.groups)
  BY GroupParts
<1>1. SourcedDomains(user) = own \o FlattenSeq(ss)
  BY <1>0 DEF SourcedDomains, SourcedList
<1>2. own \in Seq(R) /\ Range(own) = OwnEntries(user)
  <2>1. user.domains \in Seq(DomainEntry) /\ Direct \in G \cup {Direct}
    BY GroupParts
  <2>2. own = [i \in DOMAIN user.domains |->
                  [id |-> user.domains[i].id, cls |-> user.domains[i].cls, src |-> Direct]]
    BY DEF SourcedList
  <2> HIDE DEF own
  <2>3. QED
    BY <2>1, <2>2, MappedRange DEF OwnEntries
<1>3. ASSUME NEW g \in 1 .. Len(user.groups)
      PROVE  ss[g] \in Seq(R) /\ Range(ss[g]) = GroupEntries(user, g)
  <2>1. user.groups[g].domains \in Seq(DomainEntry) /\ user.groups[g].id \in G \cup {Direct}
    BY GroupParts
  <2>2. PICK list, src : list = user.groups[g].domains /\ src = user.groups[g].id
    OBVIOUS
  <2>3. ss[g] = [i \in DOMAIN list |-> [id |-> list[i].id, cls |-> list[i].cls, src |-> src]]
    BY <2>2 DEF SourcedList
  <2>4. list \in Seq(DomainEntry) /\ src \in G \cup {Direct}
    BY <2>1, <2>2
  <2> HIDE DEF ss
  <2>5. ss[g] \in Seq(R) /\ Range(ss[g]) = From(list, src)
    BY <2>3, <2>4, MappedRange
  <2>6. QED
    BY <2>2, <2>5 DEF GroupEntries
<1>4. ss \in Seq(Seq(R)) /\ Len(ss) = Len(user.groups)
  <2>1. ss = [g \in 1 .. Len(user.groups) |-> ss[g]]
    OBVIOUS
  <2> HIDE DEF ss, R
  <2>2. ss \in [1 .. Len(user.groups) -> Seq(R)]
    BY <1>3, <2>1
  <2>3. QED
    BY <1>0, <2>2
<1> HIDE DEF own, ss, R
<1>5. /\ FlattenSeq(ss) \in Seq(R)
      /\ Range(FlattenSeq(ss)) = UNION {Range(ss[g]) : g \in 1 .. Len(user.groups)}
  BY <1>4, FlatRange
<1>6. UNION {Range(ss[g]) : g \in 1 .. Len(user.groups)}
         = UNION {GroupEntries(user, g) : g \in 1 .. Len(user.groups)}
  BY <1>3
<1>7. own \o FlattenSeq(ss) \in Seq(R) /\ Range(own \o FlattenSeq(ss)) = Range(own) \cup Range(FlattenSeq(ss))
  BY <1>2, <1>5, JoinedRange
<1>8. QED
  BY <1>1, <1>2, <1>5, <1>6, <1>7 DEF R

LEMMA AllRange ==
    ASSUME NEW D, NEW T, NEW G, NEW user \in Holders(D, T, G)
    PROVE  /\ AllDomains(user) \in Seq(D)
           /\ Range(AllDomains(user))
                 = Range(user.domains) \cup UNION {Range(user.groups[g].domains) : g \in 1 .. Len(user.groups)}
<1> DEFINE ss == [g \in DOMAIN user.groups |-> user.groups[g].domains]
<1>1. AllDomains(user) = user.domains \o FlattenSeq(ss)
  BY DEF AllDomains
<1>2. Len(user.groups) \in Nat /\ DOMAIN user.groups = 1 .. Len(user.groups)
  BY GroupParts
<1>3. \A g \in 1 .. Len(user.groups) : ss[g] = user.groups[g].domains /\ ss[g] \in Seq(D)
  BY <1>2, GroupParts
<1>4. ss \in Seq(Seq(D)) /\ Len(ss) = Len(user.groups)
  <2>1. ss = [g \in 1 .. Len(user.groups) |-> ss[g]]
    BY <1>2
  <2> HIDE DEF ss
  <2>2. ss \in [1 .. Len(user.groups) -> Seq(D)]
    BY <1>3, <2>1
  <2>3. QED
    BY <1>2, <2>2
<1> HIDE DEF ss
<1>5. /\ FlattenSeq(ss) \in Seq(D)
      /\ Range(FlattenSeq(ss)) = UNION {Range(ss[g]) : g \in 1 .. Len(user.groups)}
  BY <1>4, FlatRange
<1>6. UNION {Range(ss[g]) : g \in 1 .. Len(user.groups)}
         = UNION {Range(user.groups[g].domains) : g \in 1 .. Len(user.groups)}
  BY <1>3
<1>7. user.domains \in Seq(D)
  BY GroupParts
<1>8. /\ user.domains \o FlattenSeq(ss) \in Seq(D)
      /\ Range(user.domains \o FlattenSeq(ss)) = Range(user.domains) \cup Range(FlattenSeq(ss))
  BY <1>5, <1>7, JoinedRange
<1>9. QED
  BY <1>1, <1>5, <1>6, <1>8
\* What is said of the entries of a sequence does not depend on their order.
LEMMA ByRange ==
    ASSUME NEW X, NEW s \in Seq(X)
    PROVE  /\ Len(s) \in Nat
           /\ EntryIds(s, Len(s)) = {e.id : e \in Range(s)}
           /\ \A d, c : c \in ClsIn(s, Len(s), d) <=> \E e \in Range(s) : e.id = d /\ c \in e.cls
           /\ \A d, c, src : src \in Granting(s, Len(s), d, c)
                 <=> \E e \in Range(s) : e.src = src /\ e.id = d /\ c \in e.cls
<1>1. Len(s) \in Nat /\ DOMAIN s = 1 .. Len(s)
  OBVIOUS
<1>2. QED
  BY <1>1 DEF EntryIds, ClsIn, Granting, Of, Range

\* Every merged entry is one of the dictionary, and the other way round.
LEMMA SameEntries ==
    ASSUME NEW T, NEW G, NEW user \in Holders(DomainEntry, T, G)
    PROVE  /\ \A e \in Range(SourcedDomains(user)) :
                 \E f \in Range(AllDomains(user)) : f.id = e.id /\ f.cls = e.cls
           /\ \A f \in Range(AllDomains(user)) :
                 \E e \in Range(SourcedDomains(user)) : f.id = e.id /\ f.cls = e.cls
<1>1. \A list, src : /\ \A e \in From(list, src) : \E f \in Range(list) : f.id = e.id /\ f.cls = e.cls
                     /\ \A f \in Range(list) : \E e \in From(list, src) : f.id = e.id /\ f.cls = e.cls
  <2> TAKE list, src
  <2>1. \A e : Sourced(e, src).id = e.id /\ Sourced(e, src).cls = e.cls
    BY DEF Sourced
  <2>2. \A f \in Range(list) : Sourced(f, src) \in From(list, src)
    BY DEF From
  <2>3. \A e \in From(list, src) : \E f \in Range(list) : e = Sourced(f, src)
    BY DEF From
  <2>4. QED
    BY <2>1, <2>2, <2>3
<1>2. Range(SourcedDomains(user))
         = OwnEntries(user) \cup UNION {GroupEntries(user, g) : g \in 1 .. Len(user.groups)}
  BY SourcedRange
<1>3. Range(AllDomains(user))
         = Range(user.domains) \cup UNION {Range(user.groups[g].domains) : g \in 1 .. Len(user.groups)}
  BY AllRange
<1>4. ASSUME NEW e \in Range(SourcedDomains(user))
      PROVE  \E f \in Range(AllDomains(user)) : f.id = e.id /\ f.cls = e.cls
  <2>1. CASE e \in OwnEntries(user)
    BY <1>1, <1>3, <2>1 DEF OwnEntries
  <2>2. CASE \E g \in 1 .. Len(user.groups) : e \in GroupEntries(user, g)
    BY <1>1, <1>3, <2>2 DEF GroupEntries
  <2>3. QED
    BY <1>2, <2>1, <2>2
<1>5. ASSUME NEW f \in Range(AllDomains(user))
      PROVE  \E e \in Range(SourcedDomains(user)) : f.id = e.id /\ f.cls = e.cls
  <2>1. CASE f \in Range(user.domains)
    BY <1>1, <1>2, <2>1 DEF OwnEntries
  <2>2. CASE \E g \in 1 .. Len(user.groups) : f \in Range(user.groups[g].domains)
    BY <1>1, <1>2, <2>2 DEF GroupEntries
  <2>3. QED
    BY <1>3, <2>1, <2>2
<1>6. QED
  BY <1>4, <1>5

(* Attributes. *)

AllMasked(s, n)       == \A j \in 1 .. n : s[j].mask
SomeDeceased(s, n)     == \E j \in 1 .. n : s[j].deceased
AttrsOf(a, s, n)   == [mask |-> a.mask /\ AllMasked(s, n), deceased |-> a.deceased \/ SomeDeceased(s, n)]
Merges(m, a, s, n) == m = [i \in 0 .. n |-> IF i = 0 THEN a ELSE MergeAttribute(m[i - 1], s[i])]

LEMMA AttrsStep ==
    ASSUME NEW a \in Attributes, NEW s \in Seq(Attributes), NEW i \in 1 .. Len(s)
    PROVE  AttrsOf(a, s, i) = MergeAttribute(AttrsOf(a, s, i - 1), s[i])
<1>1. i - 1 \in Nat /\ 1 .. i = (1 .. i - 1) \cup {i}
  OBVIOUS
<1>2. s[i].mask \in BOOLEAN /\ s[i].deceased \in BOOLEAN
  <2>1. s[i] \in Attributes
    OBVIOUS
  <2>2. QED
    BY <2>1 DEF Attributes
<1>3. AllMasked(s, i) = (AllMasked(s, i - 1) /\ s[i].mask)
  BY <1>1 DEF AllMasked
<1>4. SomeDeceased(s, i) = (SomeDeceased(s, i - 1) \/ s[i].deceased)
  BY <1>1 DEF SomeDeceased
<1>5. (a.mask /\ AllMasked(s, i)) = (IF s[i].mask # TRUE THEN s[i].mask ELSE a.mask /\ AllMasked(s, i - 1))
  BY <1>2, <1>3
<1>6. (a.deceased \/ SomeDeceased(s, i))
         = (IF s[i].deceased # FALSE THEN s[i].deceased ELSE a.deceased \/ SomeDeceased(s, i - 1))
  BY <1>2, <1>4
<1>7. QED
  BY <1>5, <1>6 DEF AttrsOf, MergeAttribute, InitialMask, DefaultDeceased

LEMMA AttrsFirst ==
    ASSUME NEW a \in Attributes, NEW s
    PROVE  AttrsOf(a, s, 0) = a
<1>1. AllMasked(s, 0) = TRUE /\ SomeDeceased(s, 0) = FALSE
  BY DEF AllMasked, SomeDeceased
<1>2. a = [mask |-> a.mask, deceased |-> a.deceased] /\ a.mask \in BOOLEAN /\ a.deceased \in BOOLEAN
  BY DEF Attributes
<1>3. (a.mask /\ TRUE) = a.mask /\ (a.deceased \/ FALSE) = a.deceased
  BY <1>2
<1>4. QED
  BY <1>1, <1>2, <1>3 DEF AttrsOf

LEMMA AttrsAre ==
    ASSUME NEW a \in Attributes, NEW s \in Seq(Attributes)
    PROVE  (CHOOSE m : Merges(m, a, s, Len(s)))[Len(s)] = AttrsOf(a, s, Len(s))
<1> DEFINE n == Len(s)
           w == [i \in 0 .. n |-> AttrsOf(a, s, i)]
<1>0. n \in Nat
  OBVIOUS
<1>1. \A i \in 0 .. n : i # 0 => i \in 1 .. n /\ i - 1 \in 0 .. n /\ w[i - 1] = AttrsOf(a, s, i - 1)
  BY <1>0
<1>2. \A i \in 0 .. n : AttrsOf(a, s, i) = IF i = 0 THEN a ELSE MergeAttribute(w[i - 1], s[i])
  BY <1>1, AttrsFirst, AttrsStep
<1>3. Merges(w, a, s, n)
  BY <1>2 DEF Merges
<1> DEFINE m == CHOOSE m : Merges(m, a, s, n)
<1>4. Merges(m, a, s, n)
  BY <1>3
<1> HIDE DEF m, w
<1>5. \A i \in 0 .. n : m[i] = IF i = 0 THEN a ELSE MergeAttribute(m[i - 1], s[i])
  BY <1>4 DEF Merges
<1> DEFINE S == {i \in 0 .. n : m[i] = AttrsOf(a, s, i)}
<1>6. 0 \in S
  BY <1>0, <1>5, AttrsFirst
<1>7. \A i \in 1 .. n : i - 1 \in S => i \in S
  <2> SUFFICES ASSUME NEW i \in 1 .. n, m[i - 1] = AttrsOf(a, s, i - 1) PROVE m[i] = AttrsOf(a, s, i)
    BY <1>0
  <2>1. i \in 0 .. n /\ i # 0
    BY <1>0
  <2>2. QED
    BY <1>5, <2>1, AttrsStep
<1>8. n \in S
  <2> HIDE DEF S, n
  <2>1. 0 .. n \subseteq S
    BY <1>0, <1>6, <1>7, UpTo
  <2>2. QED
    BY <1>0, <2>1
<1>9. QED
  BY <1>8 DEF m

LEMMA AttrsMerged ==
    ASSUME NEW D, NEW T, NEW G, NEW user \in Holders(D, T, G)
    PROVE  /\ MergeAttributes(user).mask = \A i \in DOMAIN Attributed(user) : Attributed(user)[i].mask
           /\ MergeAttributes(user).deceased = \E i \in DOMAIN Attributed(user) : Attributed(user)[i].deceased
<1> DEFINE s == Attributed(user)
           gs == [g \in DOMAIN user.groups |-> user.groups[g].attrs]
           k == Len(user.groups)
<1>1. k \in Nat /\ DOMAIN user.groups = 1 .. k
  BY GroupParts
<1>2. gs \in Seq(Attributes) /\ Len(gs) = k
  <2>1. \A g \in 1 .. k : user.groups[g].attrs \in Attributes
    BY GroupParts DEF Attributes
  <2>2. gs \in [1 .. k -> Attributes]
    BY <1>1, <2>1
  <2>3. QED
    BY <1>1, <2>2
<1>3. user.attrs \in Attributes
  BY GroupParts DEF Attributes
<1>4. s = <<user.attrs>> \o gs
  BY DEF Attributed
<1> HIDE DEF gs, s
<1>5. s \in Seq(Attributes) /\ Len(s) \in Nat /\ Len(s) > 0 /\ DOMAIN s = 1 .. Len(s) /\ s[1] = user.attrs
  BY <1>2, <1>3, <1>4
<1>6. MergeAttributes(user) = AttrsOf(user.attrs, s, Len(s))
  <2>1. MergeAttributes(user) = (CHOOSE m : Merges(m, user.attrs, s, Len(s)))[Len(s)]
    BY DEF MergeAttributes, Merges, s
  <2>2. PICK a : a = user.attrs
    OBVIOUS
  <2>3. (CHOOSE m : Merges(m, a, s, Len(s)))[Len(s)] = AttrsOf(a, s, Len(s))
    BY <1>3, <1>5, <2>2, AttrsAre
  <2>4. QED
    BY <2>1, <2>2, <2>3
<1>7. (user.attrs.mask /\ AllMasked(s, Len(s))) = AllMasked(s, Len(s))
  <2>1. user.attrs.mask \in BOOLEAN
    BY <1>3 DEF Attributes
  <2>2. AllMasked(s, Len(s)) => user.attrs.mask
    BY <1>5 DEF AllMasked
  <2>3. AllMasked(s, Len(s)) \in BOOLEAN
    BY DEF AllMasked
  <2>4. QED
    BY <2>1, <2>2, <2>3
<1>8. (user.attrs.deceased \/ SomeDeceased(s, Len(s))) = SomeDeceased(s, Len(s))
  <2>1. user.attrs.deceased \in BOOLEAN
    BY <1>3 DEF Attributes
  <2>2. user.attrs.deceased => SomeDeceased(s, Len(s))
    BY <1>5 DEF SomeDeceased
  <2>3. SomeDeceased(s, Len(s)) \in BOOLEAN
    BY DEF SomeDeceased
  <2>4. QED
    BY <2>1, <2>2, <2>3
<1>9. MergeAttributes(user).mask = AllMasked(s, Len(s)) /\ MergeAttributes(user).deceased = SomeDeceased(s, Len(s))
  BY <1>6, <1>7, <1>8 DEF AttrsOf
<1>10. QED
  BY <1>5, <1>9 DEF AllMasked, SomeDeceased, s
\* The view of a user and its dictionary, by the entries of both.
LEMMA ViewParts ==
    ASSUME NEW T, NEW G, NEW user \in Holders(DomainEntry, T, G),
           NEW view, view = MergeDomains(user), NEW dict, dict = DomainsDict(user)
    PROVE  /\ DOMAIN view = DOMAIN dict
           /\ \A d \in DOMAIN view :
                 /\ DOMAIN view[d].cls = dict[d]
                 /\ \A src : \A c \in dict[d] :
                       src \in view[d].cls[c]
                       <=> \E e \in Range(SourcedDomains(user)) : e.src = src /\ e.id = d /\ c \in e.cls
<1> DEFINE s == SourcedDomains(user)
           t == AllDomains(user)
           n == Len(s)
           k == Len(t)
<1>1. s \in Seq(SourcedEntry(G)) /\ t \in Seq(DomainEntry)
  BY SourcedRange, AllRange
<1>2. n \in Nat /\ k \in Nat
  BY <1>1
<1>3. view = ViewOf(s, n) /\ dict = DictOf(t, k)
  BY <1>2, DomainsMerged
<1>4. EntryIds(s, n) = {e.id : e \in Range(s)} /\ EntryIds(t, k) = {e.id : e \in Range(t)}
  BY <1>1, ByRange
<1>5. /\ \A d, c : c \in ClsIn(s, n, d) <=> \E e \in Range(s) : e.id = d /\ c \in e.cls
      /\ \A d, c : c \in ClsIn(t, k, d) <=> \E e \in Range(t) : e.id = d /\ c \in e.cls
      /\ \A d, c, src : src \in Granting(s, n, d, c)
            <=> \E e \in Range(s) : e.src = src /\ e.id = d /\ c \in e.cls
  BY <1>1, ByRange
<1>6. /\ \A e \in Range(s) : \E f \in Range(t) : f.id = e.id /\ f.cls = e.cls
      /\ \A f \in Range(t) : \E e \in Range(s) : f.id = e.id /\ f.cls = e.cls
  BY SameEntries
<1> HIDE DEF s, t, n, k
<1>7. EntryIds(s, n) = EntryIds(t, k)
  BY <1>4, <1>6
<1>8. \A d : ClsIn(s, n, d) = ClsIn(t, k, d)
  <2> TAKE d
  <2>1. \A c : c \in ClsIn(s, n, d) => c \in ClsIn(t, k, d)
    BY <1>5, <1>6
  <2>2. \A c : c \in ClsIn(t, k, d) => c \in ClsIn(s, n, d)
    BY <1>5, <1>6
  <2>3. QED
    BY <2>1, <2>2
<1>9. DOMAIN view = EntryIds(s, n) /\ DOMAIN dict = EntryIds(t, k)
  BY <1>3 DEF ViewOf, DictOf
<1>10. \A d \in EntryIds(s, n) : view[d].cls = ClsView(s, n, d) /\ dict[d] = ClsIn(t, k, d)
  BY <1>3, <1>7 DEF ViewOf, DictOf
<1>11. \A d : /\ DOMAIN ClsView(s, n, d) = ClsIn(s, n, d)
              /\ \A c \in ClsIn(s, n, d) : ClsView(s, n, d)[c] = Granting(s, n, d, c)
  BY DEF ClsView
<1>12. ASSUME NEW d \in DOMAIN view
       PROVE  /\ DOMAIN view[d].cls = dict[d]
              /\ \A src : \A c \in dict[d] :
                    src \in view[d].cls[c] <=> \E e \in Range(s) : e.src = src /\ e.id = d /\ c \in e.cls
  <2>1. view[d].cls = ClsView(s, n, d) /\ dict[d] = ClsIn(s, n, d)
    BY <1>8, <1>9, <1>10
  <2>2. QED
    BY <1>5, <1>11, <2>1
<1>13. QED
  BY <1>7, <1>9, <1>12 DEF s

(* Permission tables. *)

ValuesIn(s, n, t, k) == UNION {s[j].filters[k] : j \in Of(s, n, t)}
Filter(s, n, t, k) == IF k \in BoolKods THEN {IF 1 \in ValuesIn(s, n, t, k) THEN 1 ELSE 0}
                      ELSE ValuesIn(s, n, t, k)
FiltersOf(s, n, t) == [k \in Kods |-> Filter(s, n, t, k)]
TablesOf(s, n)     == [t \in EntryIds(s, n) |-> FiltersOf(s, n, t)]
TablesTo(m, s, n)  == m = [i \in 0 .. n |-> IF i = 0 THEN NoTables ELSE MergeTable(m[i - 1], s[i])]

LEMMA TablesStep ==
    ASSUME NEW s, NEW n \in Nat, NEW i \in 1 .. n
    PROVE  TablesOf(s, i) = MergeTable(TablesOf(s, i - 1), s[i])
<1> DEFINE v   == TablesOf(s, i - 1)
           e   == s[i]
           old == At(v, e.id, NoValues)
           new == [k \in Kods |-> MergeFilter(k, old[k], e.filters[k])]
<1>1. ASSUME NEW k \in Kods
      PROVE  Filter(s, i, e.id, k) = MergeFilter(k, old[k], e.filters[k])
  <2>1. ValuesIn(s, i, e.id, k) = ValuesIn(s, i - 1, e.id, k) \cup e.filters[k]
    BY OneMore DEF ValuesIn
  <2>2. CASE e.id \in EntryIds(s, i - 1)
    <3>1. old[k] = Filter(s, i - 1, e.id, k)
      BY <2>2 DEF At, TablesOf, FiltersOf
    <3> HIDE DEF old, v, e
    <3>2. QED
      BY <2>1, <3>1 DEF MergeFilter, Filter
  <2>3. CASE e.id \notin EntryIds(s, i - 1)
    <3>1. old[k] = {} /\ ValuesIn(s, i - 1, e.id, k) = {}
      BY <2>3, OneMore DEF At, TablesOf, NoValues, ValuesIn
    <3> HIDE DEF old, v, e
    <3>2. QED
      BY <2>1, <3>1 DEF MergeFilter, Filter
  <2>4. QED
    BY <2>2, <2>3
<1>2. ASSUME NEW t, t # e.id PROVE FiltersOf(s, i, t) = FiltersOf(s, i - 1, t)
  <2>1. Of(s, i, t) = Of(s, i - 1, t)
    BY <1>2, OneMore
  <2>2. QED
    BY <2>1 DEF FiltersOf, Filter, ValuesIn
<1>3. MergeTable(v, e) = [y \in DOMAIN v \cup {e.id} |-> IF y = e.id THEN new ELSE v[y]]
  BY DEF MergeTable, With
<1>4. DOMAIN v = EntryIds(s, i - 1) /\ \A t \in EntryIds(s, i - 1) : v[t] = FiltersOf(s, i - 1, t)
  BY DEF TablesOf
<1>5. EntryIds(s, i) = EntryIds(s, i - 1) \cup {e.id}
  BY OneMore
<1>6. new = FiltersOf(s, i, e.id)
  BY <1>1 DEF FiltersOf
<1> HIDE DEF v, e, old, new
<1>7. TablesOf(s, i) = [t \in EntryIds(s, i) |-> FiltersOf(s, i, t)]
  BY DEF TablesOf
<1>8. \A y \in EntryIds(s, i) : (IF y = e.id THEN new ELSE v[y]) = FiltersOf(s, i, y)
  BY <1>2, <1>4, <1>5, <1>6
<1>9. MergeTable(v, e) = TablesOf(s, i)
  BY <1>3, <1>4, <1>5, <1>7, <1>8
<1>10. QED
  BY <1>9 DEF v, e

LEMMA TablesFirst == ASSUME NEW s PROVE TablesOf(s, 0) = NoTables
<1>1. EntryIds(s, 0) = {}
  BY DEF EntryIds
<1>2. QED
  BY <1>1 DEF TablesOf, NoTables

LEMMA TablesAre ==
    ASSUME NEW s, NEW n \in Nat
    PROVE  (CHOOSE m : TablesTo(m, s, n))[n] = TablesOf(s, n)
<1> DEFINE w == [i \in 0 .. n |-> TablesOf(s, i)]
<1>1. \A i \in 0 .. n : i # 0 => i \in 1 .. n /\ i - 1 \in 0 .. n /\ w[i - 1] = TablesOf(s, i - 1)
  OBVIOUS
<1>2. \A i \in 0 .. n : TablesOf(s, i) = IF i = 0 THEN NoTables ELSE MergeTable(w[i - 1], s[i])
  BY <1>1, TablesFirst, TablesStep
<1>3. TablesTo(w, s, n)
  BY <1>2 DEF TablesTo
<1> DEFINE m == CHOOSE m : TablesTo(m, s, n)
<1>4. TablesTo(m, s, n)
  BY <1>3
<1> HIDE DEF m, w
<1>5. \A i \in 0 .. n : m[i] = IF i = 0 THEN NoTables ELSE MergeTable(m[i - 1], s[i])
  BY <1>4 DEF TablesTo
<1> DEFINE S == {i \in 0 .. n : m[i] = TablesOf(s, i)}
<1>6. 0 \in S
  BY <1>5, TablesFirst
<1>7. \A i \in 1 .. n : i - 1 \in S => i \in S
  <2> SUFFICES ASSUME NEW i \in 1 .. n, m[i - 1] = TablesOf(s, i - 1) PROVE m[i] = TablesOf(s, i)
    OBVIOUS
  <2>1. i \in 0 .. n /\ i # 0
    OBVIOUS
  <2>2. QED
    BY <1>5, <2>1, TablesStep
<1>8. 0 .. n \subseteq S
  <2> HIDE DEF S
  <2> QED BY <1>6, <1>7, UpTo
<1>9. QED
  BY <1>8 DEF m

LEMMA TablesRange ==
    ASSUME NEW D, NEW T, NEW G, NEW user \in Holders(D, T, G)
    PROVE  /\ SourcedTables(user) \in Seq(T)
           /\ Range(SourcedTables(user))
                 = Range(user.tables) \cup UNION {Range(user.groups[g].tables) : g \in 1 .. Len(user.groups)}
<1> DEFINE ss == [g \in DOMAIN user.groups |-> user.groups[g].tables]
<1>1. SourcedTables(user) = user.tables \o FlattenSeq(ss)
  BY DEF SourcedTables
<1>2. Len(user.groups) \in Nat /\ DOMAIN user.groups = 1 .. Len(user.groups)
  BY GroupParts
<1>3. \A g \in 1 .. Len(user.groups) : ss[g] = user.groups[g].tables /\ ss[g] \in Seq(T)
  BY <1>2, GroupParts
<1>4. ss \in Seq(Seq(T)) /\ Len(ss) = Len(user.groups)
  <2>1. ss = [g \in 1 .. Len(user.groups) |-> ss[g]]
    BY <1>2
  <2> HIDE DEF ss
  <2>2. ss \in [1 .. Len(user.groups) -> Seq(T)]
    BY <1>3, <2>1
  <2>3. QED
    BY <1>2, <2>2
<1> HIDE DEF ss
<1>5. /\ FlattenSeq(ss) \in Seq(T)
      /\ Range(FlattenSeq(ss)) = UNION {Range(ss[g]) : g \in 1 .. Len(user.groups)}
  BY <1>4, FlatRange
<1>6. UNION {Range(ss[g]) : g \in 1 .. Len(user.groups)}
         = UNION {Range(user.groups[g].tables) : g \in 1 .. Len(user.groups)}
  BY <1>3
<1>7. user.tables \in Seq(T)
  BY GroupParts
<1>8. /\ user.tables \o FlattenSeq(ss) \in Seq(T)
      /\ Range(user.tables \o FlattenSeq(ss)) = Range(user.tables) \cup Range(FlattenSeq(ss))
  BY <1>5, <1>7, JoinedRange
<1>9. QED
  BY <1>1, <1>5, <1>6, <1>8

\* The row filter k of table t, of the values that the entries of s have for it.
MergedFrom(filter, s, t, k) ==
    \E held : /\ \A v : v \in held <=> \E e \in Range(s) : e.id = t /\ v \in e.filters[k]
              /\ filter = IF k \in BoolKods THEN {IF 1 \in held THEN 1 ELSE 0} ELSE held

LEMMA TablesMerged ==
    ASSUME NEW D, NEW T, NEW G, NEW user \in Holders(D, T, G), NEW all, all = MergeTables(user)
    PROVE  /\ DOMAIN all = {e.id : e \in Range(SourcedTables(user))}
           /\ \A t \in DOMAIN all, k \in Kods :
                 MergedFrom(all[t][k], SourcedTables(user), t, k)
<1> DEFINE s == SourcedTables(user)
           n == Len(s)
<1>1. s \in Seq(T) /\ n \in Nat /\ DOMAIN s = 1 .. n
  BY TablesRange
<1>2. all = TablesOf(s, n)
  <2>1. all = (CHOOSE m : TablesTo(m, s, n))[n]
    BY DEF MergeTables, TablesTo
  <2> HIDE DEF s, n
  <2>2. QED
    BY <1>1, <2>1, TablesAre
<1> HIDE DEF s
<1>3. EntryIds(s, n) = {e.id : e \in Range(s)}
  BY <1>1, ByRange
<1>4. ASSUME NEW t, NEW k
      PROVE  \A v : v \in ValuesIn(s, n, t, k) <=> \E e \in Range(s) : e.id = t /\ v \in e.filters[k]
  BY <1>1 DEF ValuesIn, Of, Range
<1> HIDE DEF n
<1>5. ASSUME NEW t \in DOMAIN all, NEW k \in Kods
      PROVE  MergedFrom(all[t][k], s, t, k)
  <2>1. all[t] = FiltersOf(s, n, t)
    BY <1>2 DEF TablesOf
  <2>2. all[t][k] = Filter(s, n, t, k)
    BY <2>1 DEF FiltersOf
  <2>3. PICK held : held = ValuesIn(s, n, t, k)
    OBVIOUS
  <2>4. \A v : v \in held <=> \E e \in Range(s) : e.id = t /\ v \in e.filters[k]
    BY <1>4, <2>3
  <2>5. all[t][k] = IF k \in BoolKods THEN {IF 1 \in held THEN 1 ELSE 0} ELSE held
    BY <2>2, <2>3 DEF Filter
  <2>6. QED
    BY <2>4, <2>5 DEF MergedFrom
<1>6. DOMAIN all = EntryIds(s, n)
  BY <1>2 DEF TablesOf
<1>7. QED
  BY <1>3, <1>5, <1>6 DEF s

\* What groups add to the own entries of a user.
LEMMA TablesGrow ==
    ASSUME NEW D, NEW T, NEW G, NEW user \in Holders(D, T, G),
           NEW own, own = MergeTables([user EXCEPT !.groups = << >>]),
           NEW all, all = MergeTables(user),
           NEW t \in DOMAIN own
    PROVE  /\ t \in DOMAIN all
           /\ \A k \in Kods :
                 \/ k \notin BoolKods /\ own[t][k] \subseteq all[t][k]
                 \/ k \in BoolKods /\ own[t][k] \in {{0}, {1}} /\ all[t][k] \in {own[t][k], {1}}
<1> DEFINE alone == [user EXCEPT !.groups = << >>]
<1>1. alone \in Holders(D, T, G) /\ alone.groups = << >> /\ alone.tables = user.tables
  <2> DEFINE Gs == Seq([id : G, domains : Seq(D), tables : Seq(T),
                        attrs : Attributes])
             As == Attributes
  <2>1. Holders(D, T, G)
           = [domains : Seq(D), tables : Seq(T), attrs : As, all : BOOLEAN, groups : Gs]
    BY DEF Holders
  <2>2. << >> \in Gs
    OBVIOUS
  <2> HIDE DEF Gs, As
  <2>3. QED
    BY <2>1, <2>2
<1> HIDE DEF alone
<1>2. Range(SourcedTables(alone)) = Range(user.tables)
  <2>1. 1 .. Len(alone.groups) = {}
    BY <1>1
  <2>2. Range(SourcedTables(alone))
           = Range(alone.tables) \cup UNION {Range(alone.groups[g].tables) : g \in 1 .. Len(alone.groups)}
    BY <1>1, TablesRange
  <2>3. UNION {Range(alone.groups[g].tables) : g \in 1 .. Len(alone.groups)} = {}
    BY <2>1
  <2>4. QED
    BY <1>1, <2>2, <2>3
<1>3. Range(SourcedTables(alone)) \subseteq Range(SourcedTables(user))
  BY <1>2, TablesRange
<1>4. own = MergeTables(alone)
  BY DEF alone
<1>5. /\ DOMAIN own = {e.id : e \in Range(SourcedTables(alone))}
      /\ \A k \in Kods :
            MergedFrom(own[t][k], SourcedTables(alone), t, k)
  BY <1>1, <1>4, TablesMerged
<1>6. DOMAIN all = {e.id : e \in Range(SourcedTables(user))}
  BY TablesMerged
<1>7. t \in DOMAIN all
  BY <1>3, <1>5, <1>6
<1>8. \A k \in Kods :
          MergedFrom(all[t][k], SourcedTables(user), t, k)
  BY <1>7, TablesMerged
<1>9. ASSUME NEW k \in Kods
      PROVE  \/ k \notin BoolKods /\ own[t][k] \subseteq all[t][k]
             \/ k \in BoolKods /\ own[t][k] \in {{0}, {1}} /\ all[t][k] \in {own[t][k], {1}}
  <2>1. PICK old : /\ \A v : v \in old <=> \E e \in Range(SourcedTables(alone)) : e.id = t /\ v \in e.filters[k]
                   /\ own[t][k] = IF k \in BoolKods THEN {IF 1 \in old THEN 1 ELSE 0} ELSE old
    BY <1>5 DEF MergedFrom
  <2>2. PICK new : /\ \A v : v \in new <=> \E e \in Range(SourcedTables(user)) : e.id = t /\ v \in e.filters[k]
                   /\ all[t][k] = IF k \in BoolKods THEN {IF 1 \in new THEN 1 ELSE 0} ELSE new
    BY <1>8 DEF MergedFrom
  <2>3. \A v : v \in old => v \in new
    BY <1>3, <2>1, <2>2
  <2>4. QED
    BY <2>1, <2>2, <2>3
<1>10. QED
  BY <1>7, <1>9
-----------------------------------------------------------------------------
(* The elements of a list that are kept. *)

KeptUp(m, s, I, n) ==
    m = [i \in 0 .. n |-> IF i = 0 THEN <<>> ELSE IF i \in I THEN Append(m[i - 1], s[i]) ELSE m[i - 1]]

LEMMA KeptExists ==
    ASSUME NEW s, NEW I, NEW n \in Nat
    PROVE  \E m : KeptUp(m, s, I, n)
<1> DEFINE S == {i \in Nat : \E m : KeptUp(m, s, I, i)}
<1>1. 0 \in S
  <2>1. KeptUp([k \in 0 .. 0 |-> <<>>], s, I, 0)
    BY DEF KeptUp
  <2>2. QED
    BY <2>1
<1>2. ASSUME NEW i \in Nat, i \in S PROVE i + 1 \in S
  <2>1. PICK m : KeptUp(m, s, I, i)
    BY <1>2
  <2> DEFINE b == [k \in 0 .. i + 1 |-> IF k = 0 THEN <<>>
                                         ELSE IF k \in I THEN Append(m[k - 1], s[k]) ELSE m[k - 1]]
  <2> HIDE DEF b
  <2>2. \A k \in 0 .. i : m[k] = IF k = 0 THEN <<>> ELSE IF k \in I THEN Append(m[k - 1], s[k]) ELSE m[k - 1]
    BY <2>1 DEF KeptUp
  <2>3. \A k \in 0 .. i + 1 : b[k] = IF k = 0 THEN <<>> ELSE IF k \in I THEN Append(m[k - 1], s[k]) ELSE m[k - 1]
    BY DEF b
  <2>4. \A k \in 0 .. i : b[k] = m[k]
    BY <2>2, <2>3
  <2>5. \A k \in 0 .. i + 1 : b[k] = IF k = 0 THEN <<>> ELSE IF k \in I THEN Append(b[k - 1], s[k]) ELSE b[k - 1]
    <3>1. \A k \in 0 .. i + 1 : k # 0 => k - 1 \in 0 .. i
      OBVIOUS
    <3>2. QED
      BY <2>4, <2>3, <3>1
  <2>6. b = [k \in 0 .. i + 1 |-> b[k]]
    BY DEF b
  <2>7. KeptUp(b, s, I, i + 1)
    BY <2>5, <2>6 DEF KeptUp
  <2>8. QED
    BY <2>7
<1>3. Nat \subseteq S
  <2> HIDE DEF S
  <2> QED BY <1>1, <1>2, SetInduction
<1>4. QED
  BY <1>3

LEMMA AppendedRange ==
    ASSUME NEW X, NEW s \in Seq(X), NEW x \in X
    PROVE  /\ Append(s, x) \in Seq(X)
           /\ Range(Append(s, x)) = Range(s) \cup {x}
           /\ IsInjective(s) /\ x \notin Range(s) => IsInjective(Append(s, x))
<1>1. /\ Append(s, x) \in Seq(X) /\ Len(Append(s, x)) = Len(s) + 1 /\ Len(s) \in Nat
      /\ DOMAIN s = 1 .. Len(s) /\ DOMAIN Append(s, x) = 1 .. Len(s) + 1
  OBVIOUS
<1>2. /\ \A i \in 1 .. Len(s) : Append(s, x)[i] = s[i]
      /\ Append(s, x)[Len(s) + 1] = x
  OBVIOUS
<1>3. \A i \in 1 .. Len(s) + 1 : i \in 1 .. Len(s) \/ i = Len(s) + 1
  BY <1>1
<1>4. 1 .. Len(s) \subseteq 1 .. Len(s) + 1 /\ Len(s) + 1 \in 1 .. Len(s) + 1
  BY <1>1
<1>5. PICK t, n : t = Append(s, x) /\ n = Len(s)
  OBVIOUS
<1>6. Range(t) = Range(s) \cup {x}
  <2>1. \A y : y \in Range(t) <=> \E i \in 1 .. n + 1 : y = t[i]
    BY <1>1, <1>5 DEF Range
  <2>2. \A y : y \in Range(s) <=> \E i \in 1 .. n : y = s[i]
    BY <1>1, <1>5 DEF Range
  <2>3. \A y : y \in Range(t) => y \in Range(s) \cup {x}
    BY <1>2, <1>3, <1>5, <2>1, <2>2
  <2>4. \A y \in Range(s) \cup {x} : y \in Range(t)
    BY <1>2, <1>4, <1>5, <2>1, <2>2
  <2>5. QED
    BY <2>3, <2>4
<1>7. ASSUME IsInjective(s), x \notin Range(s) PROVE IsInjective(t)
  <2>1. \A i, j \in 1 .. n : s[i] = s[j] => i = j
    BY <1>1, <1>5, <1>7 DEF IsInjective
  <2>2. \A i \in 1 .. n : s[i] # x
    BY <1>1, <1>5, <1>7 DEF Range
  <2>3. \A i, j \in 1 .. n + 1 : t[i] = t[j] => i = j
    BY <1>2, <1>3, <1>5, <2>1, <2>2
  <2>4. QED
    BY <1>1, <1>5, <2>3 DEF IsInjective
<1>8. QED
  BY <1>1, <1>5, <1>6, <1>7

\* The elements at the positions in I, up to n.
KeptOf(s, I, n) == {s[i] : i \in I \cap (1 .. n)}

LEMMA KeptIs ==
    ASSUME NEW X, NEW s \in Seq(X), NEW I
    PROVE  /\ KeptAt(s, I) \in Seq(X)
           /\ Range(KeptAt(s, I)) = KeptOf(s, I, Len(s))
           /\ IsInjective(s) => IsInjective(KeptAt(s, I))
<1> DEFINE n == Len(s)
           m == CHOOSE m : KeptUp(m, s, I, n)
<1>1. n \in Nat /\ DOMAIN s = 1 .. n
  OBVIOUS
<1>2. KeptAt(s, I) = m[n]
  BY DEF KeptAt, KeptUp
<1>3. KeptUp(m, s, I, n)
  BY <1>1, KeptExists
<1> HIDE DEF m
<1>4. \A i \in 0 .. n : m[i] = IF i = 0 THEN <<>> ELSE IF i \in I THEN Append(m[i - 1], s[i]) ELSE m[i - 1]
  BY <1>3 DEF KeptUp
<1> DEFINE Good(i) == /\ m[i] \in Seq(X)
                      /\ Range(m[i]) = KeptOf(s, I, i)
                      /\ IsInjective(s) => IsInjective(m[i])
           S == {i \in 0 .. n : Good(i)}
<1>5. 0 \in S
  <2>1. m[0] = <<>> /\ 0 \in 0 .. n /\ I \cap (1 .. 0) = {}
    BY <1>1, <1>4
  <2>2. <<>> \in Seq(X) /\ Range(<<>>) = {} /\ IsInjective(<<>>)
    BY DEF Range, IsInjective
  <2>3. KeptOf(s, I, 0) = {}
    BY <2>1 DEF KeptOf
  <2>4. QED
    BY <2>1, <2>2, <2>3
<1>6. ASSUME NEW i \in 1 .. n, i - 1 \in S PROVE i \in S
  <2>1. i \in 0 .. n /\ i # 0 /\ i - 1 \in 0 .. n /\ s[i] \in X /\ 1 .. i = (1 .. i - 1) \cup {i} /\ i \in Nat
    BY <1>1
  <2>2. Good(i - 1)
    BY <1>6
  <2>3. CASE i \in I
    <3>1. m[i] = Append(m[i - 1], s[i])
      BY <1>4, <2>1, <2>3
    <3>2. KeptOf(s, I, i) = KeptOf(s, I, i - 1) \cup {s[i]}
      BY <2>1, <2>3 DEF KeptOf
    <3>3. ASSUME IsInjective(s) PROVE s[i] \notin KeptOf(s, I, i - 1)
      <4>1. \A j \in 1 .. i - 1 : s[j] # s[i]
        BY <1>1, <2>1, <3>3 DEF IsInjective
      <4>2. QED
        BY <4>1 DEF KeptOf
    <3>4. PICK r, x : r = m[i - 1] /\ x = s[i]
      OBVIOUS
    <3>5. /\ Append(r, x) \in Seq(X)
          /\ Range(Append(r, x)) = Range(r) \cup {x}
          /\ IsInjective(r) /\ x \notin Range(r) => IsInjective(Append(r, x))
      BY <2>1, <2>2, <3>4, AppendedRange
    <3>6. Good(i)
      BY <2>2, <3>1, <3>2, <3>3, <3>4, <3>5
    <3>7. QED
      BY <2>1, <3>6
  <2>4. CASE i \notin I
    <3>1. m[i] = m[i - 1]
      BY <1>4, <2>1, <2>4
    <3>2. KeptOf(s, I, i) = KeptOf(s, I, i - 1)
      BY <2>1, <2>4 DEF KeptOf
    <3>3. QED
      BY <2>1, <2>2, <3>1, <3>2
  <2>5. QED
    BY <2>3, <2>4
<1>7. n \in S
  <2> HIDE DEF S, n
  <2>1. 0 .. n \subseteq S
    BY <1>1, <1>5, <1>6, UpTo
  <2>2. QED
    BY <1>1, <2>1
<1>8. QED
  BY <1>2, <1>7
(* Pairs of old and new items. *)

KeysDiffer(s, key) == \A i, j \in DOMAIN s : s[i][key] = s[j][key] => i = j

LEMMA RemovedAt ==
    ASSUME NEW X, NEW s \in Seq(X), NEW i \in 1 .. Len(s), NEW key, KeysDiffer(s, key)
    PROVE  /\ RemoveAt(s, i) \in Seq(X)
           /\ KeysDiffer(RemoveAt(s, i), key)
           /\ Range(RemoveAt(s, i)) = {x \in Range(s) : x[key] # s[i][key]}
<1> DEFINE t == RemoveAt(s, i)
           n == Len(s)
           a == SubSeq(s, 1, i - 1)
           b == SubSeq(s, i + 1, n)
<1>1. n \in Nat /\ i \in 1 .. n /\ DOMAIN s = 1 .. n
  OBVIOUS
<1>2. a \in Seq(X) /\ Len(a) = i - 1 /\ \A j \in 1 .. i - 1 : a[j] = s[j]
  BY <1>1
<1>3. b \in Seq(X) /\ Len(b) = n - i /\ \A j \in 1 .. n - i : b[j] = s[j + i]
  <2>1. b \in Seq(X)
    BY <1>1
  <2>2. Len(b) = n - i
    <3>1. i + 1 \in Int /\ n \in Int /\ i + 1 \in 1 .. n + 1
      BY <1>1
    <3> HIDE DEF n
    <3>2. CASE i + 1 =< n
      BY <3>1, <3>2
    <3>3. CASE ~(i + 1 =< n)
      BY <3>1, <3>3
    <3>4. QED
      BY <3>2, <3>3
  <2>3. ASSUME NEW j \in 1 .. n - i PROVE b[j] = s[j + i]
    BY <1>1
  <2>4. QED
    BY <2>1, <2>2, <2>3
<1>4. t = a \o b
  BY DEF RemoveAt
<1> HIDE DEF a, b, t, n
<1>5. t \in Seq(X) /\ Len(t) = n - 1 /\ DOMAIN t = 1 .. n - 1
  BY <1>1, <1>2, <1>3, <1>4
<1>6. \A j \in 1 .. n - 1 : t[j] = IF j < i THEN s[j] ELSE s[j + 1]
  <2> TAKE j \in 1 .. n - 1
  <2>1. CASE j < i
    <3>1. j \in 1 .. Len(a)
      BY <1>1, <1>2, <2>1
    <3>2. QED
      BY <1>1, <1>2, <1>3, <1>4, <2>1, <3>1
  <2>2. CASE ~(j < i)
    <3>1. j - (i - 1) \in 1 .. n - i /\ (j - (i - 1)) + i = j + 1 /\ ~(j =< Len(a)) /\ j \in 1 .. Len(a) + Len(b)
      BY <1>1, <1>2, <1>3, <2>2
    <3>2. t[j] = b[j - Len(a)]
      BY <1>1, <1>2, <1>3, <1>4, <3>1
    <3>3. QED
      BY <1>2, <1>3, <2>2, <3>1, <3>2
  <2>3. QED
    BY <2>1, <2>2
<1>7. \A j, k \in 1 .. n : s[j][key] = s[k][key] => j = k
  BY <1>1, <1>5 DEF KeysDiffer, n
<1>8. KeysDiffer(t, key)
  <2> SUFFICES ASSUME NEW j \in 1 .. n - 1, NEW k \in 1 .. n - 1, t[j][key] = t[k][key] PROVE j = k
    BY <1>5 DEF KeysDiffer
  <2>1. j \in 1 .. n /\ k \in 1 .. n /\ j + 1 \in 1 .. n /\ k + 1 \in 1 .. n
    BY <1>1
  <2>2. QED
    BY <1>1, <1>6, <1>7, <2>1
<1>9. Range(t) = {x \in Range(s) : x[key] # s[i][key]}
  <2>1. ASSUME NEW j \in 1 .. n - 1 PROVE t[j] \in Range(s) /\ t[j][key] # s[i][key]
    <3>1. \E k \in 1 .. n : k # i /\ t[j] = s[k]
      <4>1. CASE j < i
        BY <1>1, <1>6, <4>1
      <4>2. CASE ~(j < i)
        <5>1. j + 1 \in 1 .. n /\ j + 1 # i
          BY <1>1, <4>2
        <5>2. QED
          BY <1>6, <4>2, <5>1
      <4>3. QED
        BY <4>1, <4>2
    <3>2. QED
      BY <1>1, <1>7, <3>1 DEF Range
  <2>2. ASSUME NEW k \in 1 .. n, s[k][key] # s[i][key] PROVE s[k] \in Range(t)
    <3>1. k # i
      BY <2>2
    <3>2. CASE k < i
      <4>1. k \in 1 .. n - 1
        BY <1>1, <3>2
      <4>2. QED
        BY <1>5, <1>6, <3>2, <4>1 DEF Range
    <3>3. CASE k > i
      <4>1. k - 1 \in 1 .. n - 1 /\ ~(k - 1 < i) /\ (k - 1) + 1 = k
        BY <1>1, <3>3
      <4>2. t[k - 1] = s[k]
        BY <1>6, <4>1
      <4>3. QED
        BY <1>5, <4>1, <4>2 DEF Range
    <3>4. QED
      BY <1>1, <3>1, <3>2, <3>3
  <2>3. \A x : x \in Range(t) => x \in Range(s) /\ x[key] # s[i][key]
    BY <1>5, <2>1 DEF Range
  <2>4. \A x : x \in Range(s) /\ x[key] # s[i][key] => x \in Range(t)
    BY <1>1, <2>2 DEF Range
  <2>5. QED
    BY <2>3, <2>4
<1>10. QED
  BY <1>5, <1>8, <1>9 DEF t

NewPair(y)        == [type |-> "new", old |-> Nothing, new |-> y]
UpdatedPair(x, y) == [type |-> "updated", old |-> x, new |-> y]
DeletedPair(x)    == [type |-> "deleted", old |-> x, new |-> Nothing]

Fresh(curr, y, key) == \A x \in Range(curr) : x[key] # y[key]

NewPairs(curr, Y, key)     == {NewPair(y) : y \in {z \in Y : Fresh(curr, z, key)}}
UpdatedPairs(curr, Y, key) == {p \in {UpdatedPair(x, y) : x \in Range(curr), y \in Y} : p.old[key] = p.new[key]}
Unmatched(curr, Y, key)    == {x \in Range(curr) : \A y \in Y : x[key] # y[key]}
DeletedPairs(curr, Y, key) == {DeletedPair(x) : x \in Unmatched(curr, Y, key)}

\* The pairs of a list of X with one of Y.
Pairs(X, Y) == [type : {"new", "updated", "deleted"}, old : X \cup {Nothing}, new : Y \cup {Nothing}]

\* The first n items of new.
FirstOfNew(new, n) == {new[j] : j \in 1 .. n}
LEMMA OneKey ==
    ASSUME NEW s, NEW key, KeysDiffer(s, key), NEW x \in Range(s), NEW y \in Range(s), x[key] = y[key]
    PROVE  x = y
BY DEF KeysDiffer, Range

GrowsTo(curr, key, Y, y, W) ==
    /\ \A x : x \in Unmatched(curr, W, key) <=> x \in Unmatched(curr, Y, key) /\ x[key] # y[key]
    /\ Fresh(curr, y, key) =>
          /\ NewPairs(curr, W, key) = NewPairs(curr, Y, key) \cup {NewPair(y)}
          /\ UpdatedPairs(curr, W, key) = UpdatedPairs(curr, Y, key)
    /\ \A x \in Range(curr) : x[key] = y[key] =>
          /\ NewPairs(curr, W, key) = NewPairs(curr, Y, key)
          /\ UpdatedPairs(curr, W, key) = UpdatedPairs(curr, Y, key) \cup {UpdatedPair(x, y)}


LEMMA PairsGrow ==
    ASSUME NEW curr, NEW key, KeysDiffer(curr, key), NEW Y, NEW y, NEW W, W = Y \cup {y}
    PROVE  GrowsTo(curr, key, Y, y, W)
<1>1. \A x : x \in Unmatched(curr, W, key) <=> x \in Unmatched(curr, Y, key) /\ x[key] # y[key]
  BY DEF Unmatched
<1>2. \A x, z : UpdatedPair(x, z).old = x /\ UpdatedPair(x, z).new = z
  BY DEF UpdatedPair
<1>3. \A Z, p : p \in UpdatedPairs(curr, Z, key)
                <=> \E x \in Range(curr), z \in Z : p = UpdatedPair(x, z) /\ x[key] = z[key]
  BY <1>2 DEF UpdatedPairs
<1>4. \A Z, p : p \in NewPairs(curr, Z, key) <=> \E z \in Z : p = NewPair(z) /\ Fresh(curr, z, key)
  BY DEF NewPairs
<1>5. ASSUME Fresh(curr, y, key)
      PROVE  /\ NewPairs(curr, W, key) = NewPairs(curr, Y, key) \cup {NewPair(y)}
             /\ UpdatedPairs(curr, W, key) = UpdatedPairs(curr, Y, key)
  <2>1. \A p : p \in NewPairs(curr, W, key) <=> p \in NewPairs(curr, Y, key) \/ p = NewPair(y)
    BY <1>4, <1>5
  <2>2. \A p : p \in UpdatedPairs(curr, W, key) <=> p \in UpdatedPairs(curr, Y, key)
    BY <1>3, <1>5 DEF Fresh
  <2>3. QED
    BY <2>1, <2>2
<1>6. ASSUME NEW x \in Range(curr), x[key] = y[key]
      PROVE  /\ NewPairs(curr, W, key) = NewPairs(curr, Y, key)
             /\ UpdatedPairs(curr, W, key) = UpdatedPairs(curr, Y, key) \cup {UpdatedPair(x, y)}
  <2>1. ~Fresh(curr, y, key)
    BY <1>6 DEF Fresh
  <2>2. \A p : p \in NewPairs(curr, W, key) <=> p \in NewPairs(curr, Y, key)
    BY <1>4, <2>1
  <2>3. \A z \in Range(curr) : z[key] = y[key] => z = x
    BY <1>6, OneKey
  <2>4. \A p : p \in UpdatedPairs(curr, W, key) <=> p \in UpdatedPairs(curr, Y, key) \/ p = UpdatedPair(x, y)
    BY <1>3, <1>6, <2>3
  <2>5. QED
    BY <2>2, <2>4
<1>7. QED
  BY <1>1, <1>5, <1>6 DEF GrowsTo

\* How far the pairs have come after the items Z of new.
MatchedSoFar(acc, curr, Z, key, X, Y) ==
    /\ acc.rest \in Seq(X) /\ KeysDiffer(acc.rest, key)
    /\ Range(acc.rest) = Unmatched(curr, Z, key)
    /\ acc.out \in Seq(Pairs(X, Y))
    /\ Range(acc.out) = NewPairs(curr, Z, key) \cup UpdatedPairs(curr, Z, key)

LEMMA MatchesOne ==
    ASSUME NEW X, NEW Y, NEW key, NEW curr \in Seq(X), KeysDiffer(curr, key),
           NEW Z, NEW y \in Y, \A z \in Z : z[key] # y[key],
           NEW W, W = Z \cup {y},
           NEW acc, MatchedSoFar(acc, curr, Z, key, X, Y)
    PROVE  MatchedSoFar(MatchItem(acc, y, key), curr, W, key, X, Y)
<1> DEFINE found == Matching(acc.rest, y, key)
           i     == Min(found)
           rest  == acc.rest
           out   == acc.out
           next  == MatchItem(acc, y, key)
<1>1. /\ rest \in Seq(X) /\ KeysDiffer(rest, key) /\ Range(rest) = Unmatched(curr, Z, key)
      /\ out \in Seq(Pairs(X, Y))
      /\ Range(out) = NewPairs(curr, Z, key) \cup UpdatedPairs(curr, Z, key)
      /\ DOMAIN rest = 1 .. Len(rest)
  BY DEF MatchedSoFar
<1>0. GrowsTo(curr, key, Z, y, W)
  BY PairsGrow
<1>2. \A x \in Range(curr) : x[key] = y[key] => x \in Range(rest)
  BY <1>1 DEF Unmatched
<1>3. Range(rest) \subseteq Range(curr)
  BY <1>1 DEF Unmatched
<1>4. CASE found = {}
  <2>1. next.rest = rest /\ next.out = Append(out, NewPair(y))
    BY <1>4 DEF MatchItem, NewPair
  <2>2. \A x \in Range(rest) : x[key] # y[key]
    BY <1>4 DEF Matching, Range
  <2>3. Fresh(curr, y, key)
    BY <1>2, <2>2 DEF Fresh
  <2>4. Unmatched(curr, W, key) = Range(rest)
    <3>1. \A x : x \in Unmatched(curr, W, key) <=> x \in Unmatched(curr, Z, key) /\ x[key] # y[key]
      BY <1>0 DEF GrowsTo
    <3>2. \A x \in Unmatched(curr, Z, key) : x[key] # y[key]
      BY <1>1, <2>2
    <3>3. Unmatched(curr, W, key) = Unmatched(curr, Z, key)
      <4> HIDE DEF rest, out, next, found, i
      <4> QED BY <3>1, <3>2
    <3>4. QED
      BY <1>1, <3>3
  <2>5. NewPair(y) \in Pairs(X, Y)
    BY DEF NewPair, Pairs
  <2>6. PICK p : p = NewPair(y)
    OBVIOUS
  <2> HIDE DEF rest, out, next
  <2>7. Append(out, p) \in Seq(Pairs(X, Y)) /\ Range(Append(out, p)) = Range(out) \cup {p}
    BY <1>1, <2>5, <2>6, AppendedRange
  <2>8. /\ NewPairs(curr, W, key) = NewPairs(curr, Z, key) \cup {p}
        /\ UpdatedPairs(curr, W, key) = UpdatedPairs(curr, Z, key)
    BY <2>3, <2>6, <1>0 DEF GrowsTo
  <2>9. MatchedSoFar(next, curr, W, key, X, Y)
    BY <1>1, <2>1, <2>4, <2>6, <2>7, <2>8 DEF MatchedSoFar
  <2>10. QED
    BY <2>9 DEF next
<1>5. CASE found # {}
  <2>1. PICK k \in found : TRUE
    BY <1>5
  <2>2. k \in 1 .. Len(rest) /\ rest[k][key] = y[key]
    BY <1>1, <2>1 DEF Matching
  <2>3. found = {k}
    BY <1>1, <2>1 DEF Matching, KeysDiffer
  <2>4. i = k
    <3> HIDE DEF found
    <3>1. k \in Nat
      BY <1>1, <2>2
    <3>2. QED
      BY <2>3, <3>1 DEF Min
  <2>5. next.rest = RemoveAt(rest, k) /\ next.out = Append(out, UpdatedPair(rest[k], y))
    <3> HIDE DEF found
    <3>1. next = [rest |-> RemoveAt(acc.rest, i),
                  out  |-> Append(acc.out, [type |-> "updated", old |-> acc.rest[i], new |-> y])]
      BY <1>5 DEF MatchItem, found
    <3>2. QED
      BY <2>4, <3>1 DEF UpdatedPair
  <2>6. PICK x, p : x = rest[k] /\ p = UpdatedPair(x, y)
    OBVIOUS
  <2>7. x \in Range(rest) /\ x \in X /\ x[key] = y[key]
    BY <1>1, <2>2, <2>6 DEF Range
  <2> HIDE DEF rest, out, next, found, i
  <2>8. /\ RemoveAt(rest, k) \in Seq(X) /\ KeysDiffer(RemoveAt(rest, k), key)
        /\ Range(RemoveAt(rest, k)) = {z \in Range(rest) : z[key] # rest[k][key]}
    BY <1>1, <2>2, RemovedAt
  <2>9. Unmatched(curr, W, key) = {z \in Range(rest) : z[key] # y[key]}
    BY <1>1, <1>0 DEF GrowsTo
  <2>10. p \in Pairs(X, Y)
    BY <2>6, <2>7 DEF UpdatedPair, Pairs
  <2>11. Append(out, p) \in Seq(Pairs(X, Y)) /\ Range(Append(out, p)) = Range(out) \cup {p}
    BY <1>1, <2>10, AppendedRange
  <2>12. /\ NewPairs(curr, W, key) = NewPairs(curr, Z, key)
         /\ UpdatedPairs(curr, W, key) = UpdatedPairs(curr, Z, key) \cup {p}
    BY <1>3, <2>6, <2>7, <1>0 DEF GrowsTo
  <2>13. MatchedSoFar(next, curr, W, key, X, Y)
    BY <1>1, <2>2, <2>5, <2>6, <2>8, <2>9, <2>11, <2>12 DEF MatchedSoFar
  <2>14. QED
    BY <2>13 DEF next
<1>6. QED
  BY <1>4, <1>5
MatchesUp(m, curr, new, key, n) ==
    m = [i \in 0 .. n |-> IF i = 0 THEN [rest |-> curr, out |-> <<>>] ELSE MatchItem(m[i - 1], new[i], key)]

LEMMA MatchesExist ==
    ASSUME NEW curr, NEW new, NEW key, NEW n \in Nat
    PROVE  \E m : MatchesUp(m, curr, new, key, n)
<1> DEFINE S == {i \in Nat : \E m : MatchesUp(m, curr, new, key, i)}
           none == [rest |-> curr, out |-> <<>>]
<1> HIDE DEF none
<1>1. 0 \in S
  <2>1. MatchesUp([k \in 0 .. 0 |-> none], curr, new, key, 0)
    BY DEF MatchesUp, none
  <2>2. QED
    BY <2>1
<1>2. ASSUME NEW i \in Nat, i \in S PROVE i + 1 \in S
  <2>1. PICK m : MatchesUp(m, curr, new, key, i)
    BY <1>2
  <2> DEFINE b == [k \in 0 .. i + 1 |-> IF k = 0 THEN none ELSE MatchItem(m[k - 1], new[k], key)]
  <2> HIDE DEF b
  <2>2. \A k \in 0 .. i : m[k] = IF k = 0 THEN none ELSE MatchItem(m[k - 1], new[k], key)
    BY <2>1 DEF MatchesUp, none
  <2>3. \A k \in 0 .. i + 1 : b[k] = IF k = 0 THEN none ELSE MatchItem(m[k - 1], new[k], key)
    BY DEF b
  <2>4. \A k \in 0 .. i : b[k] = m[k]
    BY <2>2, <2>3
  <2>5. \A k \in 0 .. i + 1 : b[k] = IF k = 0 THEN none ELSE MatchItem(b[k - 1], new[k], key)
    <3>1. \A k \in 0 .. i + 1 : k # 0 => k - 1 \in 0 .. i
      OBVIOUS
    <3>2. QED
      BY <2>4, <2>3, <3>1
  <2>6. b = [k \in 0 .. i + 1 |-> b[k]]
    BY DEF b
  <2>7. MatchesUp(b, curr, new, key, i + 1)
    BY <2>5, <2>6 DEF MatchesUp, none
  <2>8. QED
    BY <2>7
<1>3. Nat \subseteq S
  <2> HIDE DEF S
  <2> QED BY <1>1, <1>2, SetInduction
<1>4. QED
  BY <1>3

LEMMA RestRange ==
    ASSUME NEW X, NEW Y, NEW rest \in Seq(X)
    PROVE  /\ Remaining(rest) \in Seq(Pairs(X, Y))
           /\ Range(Remaining(rest)) = {DeletedPair(x) : x \in Range(rest)}
<1> DEFINE t == Remaining(rest)
<1>1. DOMAIN rest = 1 .. Len(rest) /\ Len(rest) \in Nat
  OBVIOUS
<1>2. t = [i \in 1 .. Len(rest) |-> DeletedPair(rest[i])]
  BY <1>1 DEF Remaining, DeletedPair
<1>3. \A x \in X : DeletedPair(x) \in Pairs(X, Y)
  BY DEF DeletedPair, Pairs
<1>4. \A i \in 1 .. Len(rest) : rest[i] \in X
  OBVIOUS
<1> HIDE DEF t
<1>5. t \in Seq(Pairs(X, Y))
  BY <1>1, <1>2, <1>3, <1>4
<1>6. Range(t) = {DeletedPair(x) : x \in Range(rest)}
  BY <1>1, <1>2 DEF Range
<1>7. QED
  BY <1>5, <1>6 DEF t

PairSet(curr, Y, key) == NewPairs(curr, Y, key) \cup UpdatedPairs(curr, Y, key) \cup DeletedPairs(curr, Y, key)

\* calcDiff of lists with distinct keys: every item is in one pair.
LEMMA CalcDiffIs ==
    ASSUME NEW X, NEW Y, NEW key, NEW curr \in Seq(X), KeysDiffer(curr, key),
           NEW new \in Seq(Y), KeysDiffer(new, key),
           NEW pairs, pairs = CalcDiff(curr, new, key)
    PROVE  /\ pairs \in Seq(Pairs(X, Y))
           /\ Range(pairs) = PairSet(curr, Range(new), key)
<1> DEFINE n == Len(new)
           m == CHOOSE m : MatchesUp(m, curr, new, key, n)
<1>1. n \in Nat /\ DOMAIN new = 1 .. n
  OBVIOUS
<1>2. pairs = m[n].out \o Remaining(m[n].rest)
  BY DEF CalcDiff, MatchesUp
<1>3. MatchesUp(m, curr, new, key, n)
  BY <1>1, MatchesExist
<1> HIDE DEF m
<1>4. \A i \in 0 .. n : m[i] = IF i = 0 THEN [rest |-> curr, out |-> <<>>] ELSE MatchItem(m[i - 1], new[i], key)
  BY <1>3 DEF MatchesUp
<1> DEFINE S == {i \in 0 .. n : MatchedSoFar(m[i], curr, FirstOfNew(new, i), key, X, Y)}
<1>5. 0 \in S
  <2>1. m[0] = [rest |-> curr, out |-> <<>>] /\ 0 \in 0 .. n /\ FirstOfNew(new, 0) = {}
    BY <1>1, <1>4 DEF FirstOfNew
  <2>2. <<>> \in Seq(Pairs(X, Y)) /\ Range(<<>>) = {}
    BY DEF Range
  <2>3. /\ Unmatched(curr, {}, key) = Range(curr)
        /\ NewPairs(curr, {}, key) = {} /\ UpdatedPairs(curr, {}, key) = {}
    BY DEF Unmatched, NewPairs, UpdatedPairs
  <2>4. m[0].rest = curr /\ m[0].out = <<>>
    BY <2>1
  <2>5. MatchedSoFar(m[0], curr, FirstOfNew(new, 0), key, X, Y)
    BY <2>1, <2>2, <2>3, <2>4 DEF MatchedSoFar
  <2>6. QED
    BY <2>1, <2>5
<1>6. ASSUME NEW i \in 1 .. n, i - 1 \in S PROVE i \in S
  <2>1. i \in 0 .. n /\ i # 0 /\ i \in Nat /\ 1 .. i = (1 .. i - 1) \cup {i}
    BY <1>1
  <2>2. PICK acc, Z, W, y : acc = m[i - 1] /\ Z = FirstOfNew(new, i - 1) /\ W = FirstOfNew(new, i) /\ y = new[i]
    OBVIOUS
  <2>3. W = Z \cup {y}
    BY <2>1, <2>2 DEF FirstOfNew
  <2>4. y \in Y
    BY <1>1, <2>2
  <2>5. \A z \in Z : z[key] # y[key]
    <3>1. \A j \in 1 .. i - 1 : new[j][key] # new[i][key]
      BY <1>1, <2>1 DEF KeysDiffer
    <3>2. QED
      BY <2>2, <3>1 DEF FirstOfNew
  <2>6. MatchedSoFar(acc, curr, Z, key, X, Y)
    BY <1>6, <2>2
  <2>7. m[i] = MatchItem(acc, y, key)
    BY <1>4, <2>1, <2>2
  <2>8. MatchedSoFar(MatchItem(acc, y, key), curr, W, key, X, Y)
    BY <2>3, <2>4, <2>5, <2>6, MatchesOne
  <2>9. QED
    BY <2>1, <2>2, <2>7, <2>8
<1>7. n \in S
  <2> HIDE DEF S, n
  <2>1. 0 .. n \subseteq S
    BY <1>1, <1>5, <1>6, UpTo
  <2>2. QED
    BY <1>1, <2>1
<1>8. PICK acc, Z : acc = m[n] /\ Z = FirstOfNew(new, n)
  OBVIOUS
<1>9. Z = Range(new)
  BY <1>1, <1>8 DEF FirstOfNew, Range
<1>10. MatchedSoFar(acc, curr, Z, key, X, Y)
  BY <1>7, <1>8
<1>11. /\ acc.rest \in Seq(X) /\ Range(acc.rest) = Unmatched(curr, Z, key)
       /\ acc.out \in Seq(Pairs(X, Y))
       /\ Range(acc.out) = NewPairs(curr, Z, key) \cup UpdatedPairs(curr, Z, key)
  BY <1>10 DEF MatchedSoFar
<1>12. PICK out, rest, end : out = acc.out /\ rest = acc.rest /\ end = Remaining(rest)
  OBVIOUS
<1>13. end \in Seq(Pairs(X, Y)) /\ Range(end) = {DeletedPair(x) : x \in Range(rest)}
  BY <1>11, <1>12, RestRange
<1>14. Range(end) = DeletedPairs(curr, Z, key)
  BY <1>11, <1>12, <1>13 DEF DeletedPairs
<1>15. pairs = out \o end
  BY <1>2, <1>8, <1>12
<1>16. out \o end \in Seq(Pairs(X, Y)) /\ Range(out \o end) = Range(out) \cup Range(end)
  BY <1>11, <1>12, <1>13, JoinedRange
<1>17. QED
  BY <1>9, <1>11, <1>12, <1>14, <1>15, <1>16 DEF PairSet
(* What is reported of the pairs. *)

LEMMA EmptyRange ==
    ASSUME NEW X, NEW s \in Seq(X)
    PROVE  Range(s) = {} <=> s = <<>>
<1>1. Len(s) \in Nat /\ DOMAIN s = 1 .. Len(s)
  OBVIOUS
<1>2. ASSUME Range(s) = {} PROVE s = <<>>
  <2>1. 1 \notin 1 .. Len(s)
    BY <1>1, <1>2 DEF Range
  <2>2. Len(s) = 0
    BY <1>1, <2>1
  <2>3. QED
    BY <2>2
<1>3. ASSUME s = <<>> PROVE Range(s) = {}
  BY <1>3 DEF Range
<1>4. QED
  BY <1>2, <1>3

LEMMA ReportedIs ==
    ASSUME NEW P, NEW pairs \in Seq(P), NEW metas, NEW r, r = Reported(pairs, metas)
    PROVE  /\ \E X : r \in Seq(X)
           /\ r = <<>> <=> \A i \in DOMAIN pairs : metas[i] = Nothing
           /\ \A e : e \in Range(r)
                 <=> \E i \in DOMAIN pairs : metas[i] # Nothing /\ e = [type |-> pairs[i].type, meta |-> metas[i]]
<1> DEFINE s == [i \in DOMAIN pairs |-> [type |-> pairs[i].type, meta |-> metas[i]]]
           I == {i \in DOMAIN pairs : metas[i] # Nothing}
           X == {[type |-> pairs[i].type, meta |-> metas[i]] : i \in DOMAIN pairs}
<1>1. DOMAIN pairs = 1 .. Len(pairs) /\ Len(pairs) \in Nat
  OBVIOUS
<1>2. s \in Seq(X) /\ Len(s) = Len(pairs)
  BY <1>1
<1>3. r = KeptAt(s, I)
  BY DEF Reported
<1>4. \A i \in 1 .. Len(pairs) : s[i] = [type |-> pairs[i].type, meta |-> metas[i]]
  BY <1>1
<1>5. \A i : i \in I <=> i \in 1 .. Len(pairs) /\ metas[i] # Nothing
  BY <1>1
<1> HIDE DEF s, I, X
<1>6. KeptAt(s, I) \in Seq(X) /\ Range(KeptAt(s, I)) = KeptOf(s, I, Len(s))
  BY <1>2, KeptIs
<1>7. \A e : e \in Range(r) <=> \E i \in I : e = s[i]
  BY <1>2, <1>3, <1>5, <1>6 DEF KeptOf
<1>8. \A e : e \in Range(r)
          <=> \E i \in DOMAIN pairs : metas[i] # Nothing /\ e = [type |-> pairs[i].type, meta |-> metas[i]]
  <2> TAKE e
  <2>1. ASSUME e \in Range(r)
        PROVE  \E i \in DOMAIN pairs : metas[i] # Nothing /\ e = [type |-> pairs[i].type, meta |-> metas[i]]
    <3>1. PICK i \in I : e = s[i]
      BY <1>7, <2>1
    <3>2. i \in DOMAIN pairs /\ metas[i] # Nothing /\ s[i] = [type |-> pairs[i].type, meta |-> metas[i]]
      BY <1>1, <1>4, <1>5
    <3>3. QED
      BY <3>1, <3>2
  <2>2. ASSUME NEW i \in DOMAIN pairs, metas[i] # Nothing, e = [type |-> pairs[i].type, meta |-> metas[i]]
        PROVE  e \in Range(r)
    <3>1. i \in I /\ s[i] = [type |-> pairs[i].type, meta |-> metas[i]]
      BY <1>1, <1>4, <1>5, <2>2
    <3>2. QED
      BY <1>7, <2>2, <3>1
  <2>3. QED
    BY <2>1, <2>2
<1>9. r = <<>> <=> Range(r) = {}
  BY <1>3, <1>6, EmptyRange
<1>10. QED
  BY <1>1, <1>3, <1>5, <1>6, <1>7, <1>8, <1>9
\* A diff of which a getter reports nothing pairs every item with an old one.
LEMMA AllPaired ==
    ASSUME NEW X, NEW Y, NEW key, NEW curr \in Seq(X), KeysDiffer(curr, key),
           NEW new \in Seq(Y), KeysDiffer(new, key),
           NEW Told,
           \A y \in Y : NewPair(y) \in Told, \A x \in X : DeletedPair(x) \in Told,
           \A p \in Range(CalcDiff(curr, new, key)) : p \notin Told
    PROVE  /\ \A x \in Range(curr) : \E y \in Range(new) :
                 x[key] = y[key] /\ UpdatedPair(x, y) \in Range(CalcDiff(curr, new, key))
           /\ \A y \in Range(new) : \E x \in Range(curr) :
                 x[key] = y[key] /\ UpdatedPair(x, y) \in Range(CalcDiff(curr, new, key))
<1>1. PICK pairs : pairs = CalcDiff(curr, new, key)
  OBVIOUS
<1>2. Range(pairs) = NewPairs(curr, Range(new), key) \cup UpdatedPairs(curr, Range(new), key)
                     \cup DeletedPairs(curr, Range(new), key)
  <2>1. pairs \in Seq(Pairs(X, Y)) /\ Range(pairs) = PairSet(curr, Range(new), key)
    BY ONLY curr \in Seq(X), new \in Seq(Y), KeysDiffer(curr, key), KeysDiffer(new, key), <1>1, CalcDiffIs
  <2>2. QED
    BY <2>1 DEF PairSet
<1>3. Range(curr) \subseteq X /\ Range(new) \subseteq Y
  BY DEF Range
<1>4. \A p \in Range(pairs) : p \notin Told
  BY <1>1
<1>5. \A x \in Range(curr), y \in Range(new) : x[key] = y[key] => UpdatedPair(x, y) \in Range(pairs)
  BY <1>2 DEF UpdatedPairs, UpdatedPair
<1>6. ASSUME NEW y \in Range(new) PROVE \E x \in Range(curr) : x[key] = y[key]
  <2>1. Fresh(curr, y, key) => NewPair(y) \in Range(pairs)
    BY <1>2 DEF NewPairs
  <2>2. NewPair(y) \in Told
    BY <1>3
  <2>3. QED
    BY <1>4, <2>1, <2>2 DEF Fresh
<1>7. ASSUME NEW x \in Range(curr) PROVE \E y \in Range(new) : x[key] = y[key]
  <2>1. x \in Unmatched(curr, Range(new), key) => DeletedPair(x) \in Range(pairs)
    BY <1>2 DEF DeletedPairs
  <2>2. DeletedPair(x) \in Told
    BY <1>3
  <2>3. QED
    BY <1>4, <2>1, <2>2 DEF Unmatched
<1>8. QED
  BY <1>1, <1>5, <1>6, <1>7

\* Nothing is told apart from what is reported.
LEMMA SameDomains ==
    ASSUME Nothing \notin [id : Domains, new : SUBSET Classes, deleted : SUBSET Classes],
           NEW curr \in Seq(DomainEntry), KeysDiffer(curr, "id"),
           NEW new \in Seq(DomainEntry), KeysDiffer(new, "id"),
           DomainsDiff(curr, new, TRUE) = <<>>
    PROVE  Range(curr) = Range(new)
<1> DEFINE pairs == CalcDiff(curr, new, "id")
           metas == [i \in DOMAIN pairs |-> DomainMeta(pairs[i], TRUE)]
           Told  == {p \in Pairs(DomainEntry, DomainEntry) : DomainMeta(p, TRUE) # Nothing}
<1>1. pairs \in Seq(Pairs(DomainEntry, DomainEntry))
  <2>1. PICK ps : ps = pairs
    OBVIOUS
  <2> HIDE DEF pairs
  <2>2. ps \in Seq(Pairs(DomainEntry, DomainEntry))
    BY <2>1, CalcDiffIs DEF pairs
  <2>3. QED
    BY <2>1, <2>2
<1>2. Reported(pairs, metas) = <<>>
  BY DEF DomainsDiff
<1>3. \A i \in DOMAIN pairs : DomainMeta(pairs[i], TRUE) = Nothing
  <2>1. PICK ps, ms, r : ps = pairs /\ ms = metas /\ r = Reported(ps, ms)
    OBVIOUS
  <2>2. \A i \in DOMAIN ps : ms[i] = Nothing
    <3> HIDE DEF pairs, metas
    <3>1. ps \in Seq(Pairs(DomainEntry, DomainEntry)) /\ r = Reported(ps, ms) /\ r = <<>>
      BY <1>1, <1>2, <2>1
    <3>2. r = <<>> <=> \A i \in DOMAIN ps : ms[i] = Nothing
      BY ONLY <3>1, ReportedIs
    <3>3. QED
      BY <3>1, <3>2
  <2>3. QED
    BY <2>1, <2>2
<1>4. \A p \in Range(pairs) : DomainMeta(p, TRUE) = Nothing
  BY <1>3 DEF Range
<1>5. \A p \in Range(pairs) : p \notin Told
  BY <1>4
<1>6. \A e \in DomainEntry : e.id \in Domains /\ e.cls \in SUBSET Classes /\ e = [id |-> e.id, cls |-> e.cls]
                             /\ e["id"] = e.id
  BY DEF DomainEntry
<1>7. \A y \in DomainEntry : NewPair(y) \in Told
  <2> TAKE y \in DomainEntry
  <2>1. NewPair(y) \in Pairs(DomainEntry, DomainEntry)
    BY DEF NewPair, Pairs
  <2>2. DomainMeta(NewPair(y), TRUE) = [id |-> y.id, new |-> y.cls, deleted |-> {}]
    BY DEF DomainMeta, NewPair
  <2>3. [id |-> y.id, new |-> y.cls, deleted |-> {}] # Nothing
    BY <1>6
  <2>4. DomainMeta(NewPair(y), TRUE) # Nothing
    BY <2>2, <2>3
  <2>5. QED
    BY <2>1, <2>4
<1>8. \A x \in DomainEntry : DeletedPair(x) \in Told
  <2> TAKE x \in DomainEntry
  <2>1. DeletedPair(x) \in Pairs(DomainEntry, DomainEntry)
    BY DEF DeletedPair, Pairs
  <2>2. DomainMeta(DeletedPair(x), TRUE) = [id |-> x.id, new |-> {}, deleted |-> x.cls]
    BY DEF DomainMeta, DeletedPair
  <2>3. [id |-> x.id, new |-> {}, deleted |-> x.cls] # Nothing
    BY <1>6
  <2>4. DomainMeta(DeletedPair(x), TRUE) # Nothing
    BY <2>2, <2>3
  <2>5. QED
    BY <2>1, <2>4
<1>9. ASSUME NEW x \in DomainEntry, NEW y \in DomainEntry, x["id"] = y["id"],
             UpdatedPair(x, y) \in Range(pairs)
      PROVE  x = y
  <2>1. DomainMeta(UpdatedPair(x, y), TRUE) = UpdatedDomain(x, y)
    BY DEF DomainMeta, UpdatedPair
  <2>2. UpdatedDomain(x, y) = Nothing
    BY <1>4, <1>9, <2>1
  <2>3. PICK diff : diff = SymmetricDiff(y.cls, x.cls)
    OBVIOUS
  <2>4. diff[1] = y.cls \ x.cls /\ diff[2] = x.cls \ y.cls
    BY <2>3 DEF SymmetricDiff
  <2>5. diff[1] \in SUBSET Classes /\ diff[2] \in SUBSET Classes
    BY <1>6, <2>4
  <2>6. [id |-> x.id, new |-> diff[1], deleted |-> diff[2]] # Nothing
    BY <1>6, <2>5
  <2>7. diff = <<{}, {}>>
    BY <2>2, <2>3, <2>6 DEF UpdatedDomain
  <2>8. x.cls = y.cls
    BY <2>4, <2>7
  <2>9. QED
    BY <1>6, <1>9, <2>8
<1> HIDE DEF Told
<1>10. /\ \A x \in Range(curr) : \E y \in Range(new) : x["id"] = y["id"] /\ UpdatedPair(x, y) \in Range(pairs)
       /\ \A y \in Range(new) : \E x \in Range(curr) : x["id"] = y["id"] /\ UpdatedPair(x, y) \in Range(pairs)
  BY <1>5, <1>7, <1>8, AllPaired
<1>11. Range(curr) \subseteq DomainEntry /\ Range(new) \subseteq DomainEntry
  BY DEF Range
<1> HIDE DEF pairs
<1>12. \A x \in Range(curr) : x \in Range(new)
  BY <1>9, <1>10, <1>11
<1>13. \A y \in Range(new) : y \in Range(curr)
  BY <1>9, <1>10, <1>11
<1>14. QED
  BY <1>12, <1>13
\* Row filters, with values of any kind.
FilterEntry(V)  == [kod : Kods, values : SUBSET V]
FilterReport(V) == [kod : Kods, new : SUBSET V, deleted : SUBSET V]

LEMMA FilterParts ==
    ASSUME NEW V, NEW x \in FilterEntry(V)
    PROVE  /\ x.kod \in Kods /\ x.values \in SUBSET V /\ x = [kod |-> x.kod, values |-> x.values]
           /\ x["kod"] = x.kod
           /\ AddedFilter(x) \in FilterReport(V) /\ RemovedFilter(x) \in FilterReport(V)
<1>1. x.kod \in Kods /\ x.values \in SUBSET V /\ x = [kod |-> x.kod, values |-> x.values] /\ x["kod"] = x.kod
  BY DEF FilterEntry
<1>2. QED
  BY <1>1 DEF AddedFilter, RemovedFilter, FilterReport

LEMMA UpdatedFilterIs ==
    ASSUME NEW V, Nothing \notin FilterReport(V), NEW x \in FilterEntry(V), NEW y \in FilterEntry(V)
    PROVE  /\ UpdatedFilter(x, y) \in FilterReport(V) \cup {Nothing}
           /\ UpdatedFilter(x, y) = Nothing => x.values = y.values
<1>1. x.values \in SUBSET V /\ y.values \in SUBSET V /\ y.kod \in Kods
  BY FilterParts
<1>2. PICK diff : diff = SymmetricDiff(y.values, x.values)
  OBVIOUS
<1>3. diff[1] = y.values \ x.values /\ diff[2] = x.values \ y.values
  BY <1>2 DEF SymmetricDiff
<1>4. diff[1] \in SUBSET V /\ diff[2] \in SUBSET V
  BY <1>1, <1>3
<1>5. PICK r : r = [kod |-> y.kod, new |-> diff[1], deleted |-> diff[2]]
  OBVIOUS
<1>6. r \in FilterReport(V) /\ r # Nothing
  BY <1>1, <1>4, <1>5 DEF FilterReport
<1>7. UpdatedFilter(x, y) = IF diff = <<{}, {}>> THEN Nothing ELSE r
  BY <1>2, <1>5 DEF UpdatedFilter
<1>8. ASSUME diff = <<{}, {}>> PROVE x.values = y.values
  <2>1. y.values \ x.values = {} /\ x.values \ y.values = {}
    BY <1>3, <1>8
  <2>2. QED
    BY <2>1
<1>9. QED
  BY <1>6, <1>7, <1>8

SameKods(curr, new) ==
    /\ \A x \in Range(curr) : \E y \in Range(new) : x.kod = y.kod
    /\ \A y \in Range(new) : \E x \in Range(curr) : x.kod = y.kod

LEMMA FilterPairs ==
    ASSUME NEW V, Nothing \notin FilterReport(V),
           NEW curr \in Seq(FilterEntry(V)), KeysDiffer(curr, "kod"),
           NEW new \in Seq(FilterEntry(V)), KeysDiffer(new, "kod"), SameKods(curr, new),
           NEW r, r = FiltersDiff(curr, new)
    PROVE  /\ \A i \in DOMAIN r : r[i].meta \in FilterReport(V)
           /\ DOMAIN r = 1 .. Len(r) /\ Len(r) \in Nat
           /\ r = <<>> => Range(curr) = Range(new)
<1>1. PICK pairs, metas : pairs = CalcDiff(curr, new, "kod") /\ metas = [i \in DOMAIN pairs |-> FilterMeta(pairs[i])]
  OBVIOUS
<1>2. r = Reported(pairs, metas)
  BY <1>1 DEF FiltersDiff
<1>3. pairs \in Seq(Pairs(FilterEntry(V), FilterEntry(V))) /\ Range(pairs) = PairSet(curr, Range(new), "kod")
  BY <1>1, CalcDiffIs
<1>4. Range(curr) \subseteq FilterEntry(V) /\ Range(new) \subseteq FilterEntry(V)
  BY DEF Range
<1>5. \A x \in FilterEntry(V) : x["kod"] = x.kod
  BY FilterParts
<1>6. \A p \in Range(pairs) : p \in UpdatedPairs(curr, Range(new), "kod")
  <2>1. NewPairs(curr, Range(new), "kod") = {}
    BY <1>4, <1>5 DEF NewPairs, Fresh, SameKods
  <2>2. DeletedPairs(curr, Range(new), "kod") = {}
    BY <1>4, <1>5 DEF DeletedPairs, Unmatched, SameKods
  <2>3. QED
    BY <1>3, <2>1, <2>2 DEF PairSet
<1>7. \A x, y : UpdatedPair(x, y).old = x /\ UpdatedPair(x, y).new = y /\ UpdatedPair(x, y).type = "updated"
  BY DEF UpdatedPair
<1>8. \A p \in Range(pairs) : \E x \in Range(curr), y \in Range(new) :
          p = UpdatedPair(x, y) /\ FilterMeta(p) = UpdatedFilter(x, y)
  <2> TAKE p \in Range(pairs)
  <2>1. PICK x \in Range(curr), y \in Range(new) : p = UpdatedPair(x, y)
    BY <1>6 DEF UpdatedPairs
  <2>2. FilterMeta(p) = UpdatedFilter(x, y)
    BY <1>7, <2>1 DEF FilterMeta
  <2>3. QED
    BY <2>1, <2>2
<1>9. \A i \in DOMAIN pairs : metas[i] \in FilterReport(V) \cup {Nothing}
  <2> TAKE i \in DOMAIN pairs
  <2>1. pairs[i] \in Range(pairs) /\ metas[i] = FilterMeta(pairs[i])
    BY <1>1 DEF Range
  <2>2. PICK x \in Range(curr), y \in Range(new) : FilterMeta(pairs[i]) = UpdatedFilter(x, y)
    BY <1>8, <2>1
  <2>3. QED
    BY <1>4, <2>1, <2>2, UpdatedFilterIs
<1>10. /\ r = <<>> <=> \A i \in DOMAIN pairs : metas[i] = Nothing
       /\ \A e : e \in Range(r)
             <=> \E i \in DOMAIN pairs : metas[i] # Nothing /\ e = [type |-> pairs[i].type, meta |-> metas[i]]
  BY <1>2, <1>3, ReportedIs
<1>11. \A i \in DOMAIN r : r[i].meta \in FilterReport(V)
  <2> TAKE i \in DOMAIN r
  <2>1. r[i] \in Range(r)
    BY DEF Range
  <2>2. PICK j \in DOMAIN pairs : metas[j] # Nothing /\ r[i] = [type |-> pairs[j].type, meta |-> metas[j]]
    BY <1>10, <2>1
  <2>3. r[i].meta = metas[j]
    BY <2>2
  <2>4. QED
    BY <1>9, <2>2, <2>3
<1>12. ASSUME r = <<>> PROVE Range(curr) = Range(new)
  <2>1. ASSUME NEW x \in Range(curr), NEW y \in Range(new), x.kod = y.kod PROVE x = y
    <3>1. UpdatedPair(x, y) \in Range(pairs)
      <4>1. UpdatedPair(x, y) \in UpdatedPairs(curr, Range(new), "kod")
        BY <1>4, <1>5, <1>7, <2>1 DEF UpdatedPairs
      <4>2. QED
        BY <1>3, <4>1 DEF PairSet
    <3>2. PICK i \in DOMAIN pairs : pairs[i] = UpdatedPair(x, y)
      BY <3>1 DEF Range
    <3>3. FilterMeta(UpdatedPair(x, y)) = Nothing
      BY <1>1, <1>10, <1>12, <3>2
    <3>4. FilterMeta(UpdatedPair(x, y)) = UpdatedFilter(x, y)
      BY <1>7 DEF FilterMeta
    <3>5. x.values = y.values
      BY <1>4, <3>3, <3>4, UpdatedFilterIs
    <3>6. x = [kod |-> x.kod, values |-> x.values] /\ y = [kod |-> y.kod, values |-> y.values]
      BY <1>4, FilterParts
    <3>7. QED
      BY <2>1, <3>5, <3>6
  <2>2. \A x \in Range(curr) : x \in Range(new)
    BY <2>1 DEF SameKods
  <2>3. \A y \in Range(new) : y \in Range(curr)
    BY <2>1 DEF SameKods
  <2>4. QED
    BY <2>2, <2>3
<1>13. DOMAIN r = 1 .. Len(r) /\ Len(r) \in Nat
  <2>1. \E X : r \in Seq(X)
    BY <1>2, <1>3, ReportedIs
  <2>2. QED
    BY <2>1
<1>14. QED
  BY <1>11, <1>12, <1>13
\* Permission tables whose lists of row filters are in Fs.
TableItem(G, Fs)  == [id : G, filters : Fs]
TableReport(G, V) == [id : G, filters : Seq(FilterReport(V))]

FullLists(V, Fs) ==
    /\ Fs \subseteq Seq(FilterEntry(V))
    /\ \A fs \in Fs : KeysDiffer(fs, "kod")
    /\ \A fs, hs \in Fs : SameKods(fs, hs)

LEMMA ListTold ==
    ASSUME NEW V, NEW fs \in Seq(FilterEntry(V))
    PROVE  /\ [i \in DOMAIN fs |-> AddedFilter(fs[i])] \in Seq(FilterReport(V))
           /\ [i \in DOMAIN fs |-> RemovedFilter(fs[i])] \in Seq(FilterReport(V))
<1>1. DOMAIN fs = 1 .. Len(fs) /\ Len(fs) \in Nat
  OBVIOUS
<1>2. \A i \in 1 .. Len(fs) : fs[i] \in FilterEntry(V)
  OBVIOUS
<1>3. \A i \in 1 .. Len(fs) : AddedFilter(fs[i]) \in FilterReport(V) /\ RemovedFilter(fs[i]) \in FilterReport(V)
  BY <1>2, FilterParts
<1>4. QED
  BY <1>1, <1>3

LEMMA UpdatedTableIs ==
    ASSUME NEW G, NEW V, NEW Fs, FullLists(V, Fs), Nothing \notin FilterReport(V), Nothing \notin TableReport(G, V),
           NEW x \in TableItem(G, Fs), NEW y \in TableItem(G, Fs), UpdatedTable(x, y) = Nothing
    PROVE  Range(x.filters) = Range(y.filters)
<1>1. PICK fs, hs, diff : fs = x.filters /\ hs = y.filters /\ diff = FiltersDiff(fs, hs)
  OBVIOUS
<1>2. fs \in Seq(FilterEntry(V)) /\ KeysDiffer(fs, "kod") /\ hs \in Seq(FilterEntry(V)) /\ KeysDiffer(hs, "kod")
      /\ SameKods(fs, hs) /\ y.id \in G
  BY <1>1 DEF TableItem, FullLists
<1>3. /\ \A i \in DOMAIN diff : diff[i].meta \in FilterReport(V)
      /\ DOMAIN diff = 1 .. Len(diff) /\ Len(diff) \in Nat
      /\ diff = <<>> => Range(fs) = Range(hs)
  BY <1>1, <1>2, FilterPairs
<1>4. PICK ms : ms = [i \in DOMAIN diff |-> diff[i].meta]
  OBVIOUS
<1>5. ms \in Seq(FilterReport(V))
  BY <1>3, <1>4
<1>6. PICK r : r = [id |-> y.id, filters |-> ms]
  OBVIOUS
<1>7. r # Nothing
  BY <1>2, <1>5, <1>6 DEF TableReport
<1>8. UpdatedTable(x, y) = IF diff = <<>> THEN Nothing ELSE r
  BY <1>1, <1>4, <1>6 DEF UpdatedTable
<1>9. QED
  BY <1>1, <1>3, <1>7, <1>8

SameLists(curr, new) ==
    /\ \A x \in Range(curr) : \E y \in Range(new) : x.id = y.id /\ Range(x.filters) = Range(y.filters)
    /\ \A y \in Range(new) : \E x \in Range(curr) : x.id = y.id /\ Range(x.filters) = Range(y.filters)

LEMMA SameTables ==
    ASSUME NEW G, NEW V, NEW Fs, FullLists(V, Fs), Nothing \notin FilterReport(V), Nothing \notin TableReport(G, V),
           NEW curr \in Seq(TableItem(G, Fs)), KeysDiffer(curr, "id"),
           NEW new \in Seq(TableItem(G, Fs)), KeysDiffer(new, "id"),
           TablesDiff(curr, new) = <<>>
    PROVE  SameLists(curr, new)
<1> DEFINE T == TableItem(G, Fs)
<1>1. PICK pairs, metas, r : /\ pairs = CalcDiff(curr, new, "id")
                             /\ metas = [i \in DOMAIN pairs |-> TableMeta(pairs[i])]
                             /\ r = Reported(pairs, metas)
  OBVIOUS
<1>2. r = <<>>
  BY <1>1 DEF TablesDiff
<1> HIDE DEF T
<1>3. pairs \in Seq(Pairs(T, T))
  <2>1. curr \in Seq(T) /\ new \in Seq(T)
    BY DEF T
  <2>2. QED
    BY <1>1, <2>1, CalcDiffIs
<1>4. r = <<>> <=> \A i \in DOMAIN pairs : metas[i] = Nothing
  <2>1. r = Reported(pairs, metas)
    BY <1>1
  <2>2. QED
    BY ONLY <1>3, <2>1, ReportedIs
<1>5. \A p \in Range(pairs) : TableMeta(p) = Nothing
  BY <1>1, <1>2, <1>4 DEF Range
<1> DEFINE Told == {p \in Pairs(T, T) : TableMeta(p) # Nothing}
<1>6. \A x \in T : x.id \in G /\ x.filters \in Seq(FilterEntry(V)) /\ x["id"] = x.id
  BY DEF T, TableItem, FullLists
<1>7. \A y \in T : NewPair(y) \in Told
  <2> TAKE y \in T
  <2>1. NewPair(y) \in Pairs(T, T)
    BY DEF NewPair, Pairs
  <2>2. PICK fs, ms : fs = y.filters /\ ms = [i \in DOMAIN fs |-> AddedFilter(fs[i])]
    OBVIOUS
  <2>3. ms \in Seq(FilterReport(V))
    BY <1>6, <2>2, ListTold
  <2>4. TableMeta(NewPair(y)) = [id |-> y.id, filters |-> ms]
    BY <2>2 DEF TableMeta, NewPair
  <2>5. [id |-> y.id, filters |-> ms] # Nothing
    BY <1>6, <2>3 DEF TableReport
  <2>6. TableMeta(NewPair(y)) # Nothing
    BY <2>4, <2>5
  <2>7. QED
    BY <2>1, <2>6
<1>8. \A x \in T : DeletedPair(x) \in Told
  <2> TAKE x \in T
  <2>1. DeletedPair(x) \in Pairs(T, T)
    BY DEF DeletedPair, Pairs
  <2>2. PICK fs, ms : fs = x.filters /\ ms = [i \in DOMAIN fs |-> RemovedFilter(fs[i])]
    OBVIOUS
  <2>3. ms \in Seq(FilterReport(V))
    BY <1>6, <2>2, ListTold
  <2>4. TableMeta(DeletedPair(x)) = [id |-> x.id, filters |-> ms]
    BY <2>2 DEF TableMeta, DeletedPair
  <2>5. [id |-> x.id, filters |-> ms] # Nothing
    BY <1>6, <2>3 DEF TableReport
  <2>6. TableMeta(DeletedPair(x)) # Nothing
    BY <2>4, <2>5
  <2>7. QED
    BY <2>1, <2>6
<1>9. \A p \in Range(pairs) : p \notin Told
  BY <1>5
<1> HIDE DEF Told
<1>10. /\ \A x \in Range(curr) : \E y \in Range(new) : x["id"] = y["id"] /\ UpdatedPair(x, y) \in Range(pairs)
       /\ \A y \in Range(new) : \E x \in Range(curr) : x["id"] = y["id"] /\ UpdatedPair(x, y) \in Range(pairs)
  <2>1. curr \in Seq(T) /\ new \in Seq(T) /\ \A p \in Range(CalcDiff(curr, new, "id")) : p \notin Told
    BY <1>1, <1>9 DEF T
  <2>2. QED
    BY <1>1, <1>7, <1>8, <2>1, AllPaired
<1>11. Range(curr) \subseteq T /\ Range(new) \subseteq T
  BY DEF Range, T
<1>12. ASSUME NEW x \in T, NEW y \in T, x["id"] = y["id"], UpdatedPair(x, y) \in Range(pairs)
       PROVE  x.id = y.id /\ Range(x.filters) = Range(y.filters)
  <2>1. TableMeta(UpdatedPair(x, y)) = UpdatedTable(x, y)
    BY DEF TableMeta, UpdatedPair
  <2>2. UpdatedTable(x, y) = Nothing
    BY <1>5, <1>12, <2>1
  <2>3. x \in TableItem(G, Fs) /\ y \in TableItem(G, Fs)
    BY DEF T
  <2>4. Range(x.filters) = Range(y.filters)
    BY <2>2, <2>3, UpdatedTableIs
  <2>5. QED
    BY <1>6, <1>12, <2>4
<1>13. QED
  BY <1>10, <1>11, <1>12 DEF SameLists
(* What a user's own entries are in the merged view. *)

LEMMA DictTyped ==
    ASSUME NEW T, NEW G, NEW user \in Holders(DomainEntry, T, G), NEW dict, dict = DomainsDict(user)
    PROVE  /\ DOMAIN dict \subseteq Domains
           /\ dict \in [DOMAIN dict -> SUBSET Classes]
           /\ \A d : d \in DOMAIN dict <=> \E e \in Range(AllDomains(user)) : e.id = d
<1>1. PICK s : s = AllDomains(user)
  OBVIOUS
<1>2. s \in Seq(DomainEntry)
  BY <1>1, AllRange
<1>3. dict = DictOf(s, Len(s))
  <2>1. Len(SourcedDomains(user)) \in Nat
    BY SourcedRange
  <2>2. Len(AllDomains(user)) \in Nat
    BY <1>1, <1>2
  <2>3. QED
    BY <1>1, <2>1, <2>2, DomainsMerged
<1>4. EntryIds(s, Len(s)) = {e.id : e \in Range(s)}
      /\ \A d, c : c \in ClsIn(s, Len(s), d) <=> \E e \in Range(s) : e.id = d /\ c \in e.cls
  BY <1>2, ByRange
<1>5. Range(s) \subseteq DomainEntry
  BY <1>2 DEF Range
<1>6. \A e \in Range(s) : e.id \in Domains /\ e.cls \subseteq Classes
  BY <1>5 DEF DomainEntry
<1>7. dict = [d \in EntryIds(s, Len(s)) |-> ClsIn(s, Len(s), d)]
  BY <1>3 DEF DictOf
<1>8. \A d : ClsIn(s, Len(s), d) \in SUBSET Classes
  BY <1>4, <1>6
<1>9. QED
  BY <1>1, <1>4, <1>6, <1>7, <1>8

LEMMA OwnInView ==
    ASSUME NEW T, NEW G, NEW user \in Holders(DomainEntry, T, G), NEW view, view = MergeDomains(user)
    PROVE  /\ \A e \in Range(user.domains) :
                 /\ e.id \in DOMAIN view
                 /\ \A c \in e.cls : c \in DOMAIN view[e.id].cls /\ Direct \in view[e.id].cls[c]
           /\ Direct \notin G =>
                 \A d \in DOMAIN view : \A c \in DOMAIN view[d].cls :
                    Direct \in view[d].cls[c] => \E e \in Range(user.domains) : e.id = d /\ c \in e.cls
<1>1. PICK dict : dict = DomainsDict(user)
  OBVIOUS
<1>2. /\ DOMAIN view = DOMAIN dict
      /\ \A d \in DOMAIN view :
            /\ DOMAIN view[d].cls = dict[d]
            /\ \A src : \A c \in dict[d] :
                  src \in view[d].cls[c]
                  <=> \E e \in Range(SourcedDomains(user)) : e.src = src /\ e.id = d /\ c \in e.cls
  BY <1>1, ViewParts
<1>3. \A d : d \in DOMAIN dict <=> \E e \in Range(AllDomains(user)) : e.id = d
  BY <1>1, DictTyped
<1>4. Range(SourcedDomains(user))
         = OwnEntries(user) \cup UNION {GroupEntries(user, g) : g \in 1 .. Len(user.groups)}
  BY SourcedRange
<1>5. Range(user.domains) \subseteq Range(AllDomains(user))
  BY AllRange
<1>6. \A e, src : Sourced(e, src).src = src /\ Sourced(e, src).id = e.id /\ Sourced(e, src).cls = e.cls
  BY DEF Sourced
<1>7. \A e \in Range(user.domains) : Sourced(e, Direct) \in Range(SourcedDomains(user))
  BY <1>4 DEF OwnEntries, From
<1>8. ASSUME NEW e \in Range(user.domains)
      PROVE  /\ e.id \in DOMAIN view
             /\ \A c \in e.cls : c \in DOMAIN view[e.id].cls /\ Direct \in view[e.id].cls[c]
  <2>1. e.id \in DOMAIN view
    BY <1>2, <1>3, <1>5
  <2>2. ASSUME NEW c \in e.cls PROVE c \in dict[e.id]
    <3>1. PICK d, s, n : s = AllDomains(user) /\ n = Len(s) /\ d = e.id
      OBVIOUS
    <3>2. s \in Seq(DomainEntry) /\ Len(SourcedDomains(user)) \in Nat
      BY <3>1, AllRange, SourcedRange
    <3>3. n \in Nat
      BY <3>1, <3>2
    <3>4. dict = DictOf(s, n)
      BY <1>1, <3>1, <3>2, <3>3, DomainsMerged
    <3>5. c \in ClsIn(s, n, d)
      <4>1. \E f \in Range(s) : f.id = d /\ c \in f.cls
        BY <1>5, <2>2, <3>1
      <4>2. QED
        BY <3>1, <3>2, <4>1, ByRange
    <3>6. dict[d] = ClsIn(s, n, d)
      BY <1>2, <2>1, <3>1, <3>4 DEF DictOf
    <3>7. QED
      BY <3>1, <3>5, <3>6
  <2>3. QED
    BY <1>2, <1>6, <1>7, <2>1, <2>2
<1>9. ASSUME Direct \notin G, NEW d \in DOMAIN view, NEW c \in DOMAIN view[d].cls, Direct \in view[d].cls[c]
      PROVE  \E e \in Range(user.domains) : e.id = d /\ c \in e.cls
  <2>1. PICK f \in Range(SourcedDomains(user)) : f.src = Direct /\ f.id = d /\ c \in f.cls
    BY <1>2, <1>9
  <2>2. ASSUME NEW g \in 1 .. Len(user.groups), f \in GroupEntries(user, g) PROVE FALSE
    <3>1. f.src = user.groups[g].id
      BY <1>6, <2>2 DEF GroupEntries, From
    <3>2. user.groups[g].id \in G
      BY GroupParts
    <3>3. QED
      BY <1>9, <2>1, <3>1, <3>2
  <2>3. f \in OwnEntries(user)
    BY <1>4, <2>2
  <2>4. PICK e \in Range(user.domains) : f = Sourced(e, Direct)
    BY <2>3 DEF OwnEntries, From
  <2>5. QED
    BY <1>6, <2>1, <2>4
<1>10. QED
  BY <1>8, <1>9

LEMMA OwnInTables ==
    ASSUME NEW D, NEW I, NEW V, NEW G, {0, 1} \subseteq V,
           NEW user \in Holders(D, TableItem(I, [Kods -> SUBSET V]), G), NEW all, all = MergeTables(user)
    PROVE  /\ DOMAIN all \subseteq I
           /\ all \in [DOMAIN all -> [Kods -> SUBSET V]]
           /\ \A e \in Range(user.tables) :
                 /\ e.id \in DOMAIN all
                 /\ \A k \in Kods \ BoolKods : e.filters[k] \subseteq all[e.id][k]
<1> DEFINE T == TableItem(I, [Kods -> SUBSET V])
<1>1. PICK s, n : s = SourcedTables(user) /\ n = Len(s)
  OBVIOUS
<1>2. s \in Seq(T) /\ Range(user.tables) \subseteq Range(s) /\ n \in Nat
  <2>1. s \in Seq(T) /\ Range(user.tables) \subseteq Range(s)
    BY <1>1, TablesRange
  <2>2. QED
    BY <1>1, <2>1
<1>3. all = TablesOf(s, n)
  <2>1. all = (CHOOSE m : TablesTo(m, s, n))[n]
    BY <1>1 DEF MergeTables, TablesTo
  <2>2. QED
    BY <1>2, <2>1, TablesAre
<1>4. all = [t \in EntryIds(s, n) |-> FiltersOf(s, n, t)]
  BY <1>3 DEF TablesOf
<1>5. EntryIds(s, n) = {e.id : e \in Range(s)}
  <2> HIDE DEF T
  <2> QED BY <1>1, <1>2, ByRange
<1>6. \A e \in T : e.id \in I /\ e.filters \in [Kods -> SUBSET V]
  BY DEF TableItem
<1>7. \A i \in 1 .. n : s[i] \in T
  <2> HIDE DEF T
  <2> QED BY <1>1, <1>2
<1>8. Range(s) \subseteq T /\ DOMAIN s = 1 .. n
  <2> HIDE DEF T
  <2> QED BY <1>1, <1>2 DEF Range
<1> HIDE DEF T
<1>9. \A t, k : k \in Kods => ValuesIn(s, n, t, k) \subseteq V
  <2> TAKE t, k
  <2>1. \A j \in Of(s, n, t) : j \in 1 .. n
    BY DEF Of
  <2>2. k \in Kods => \A j \in Of(s, n, t) : s[j].filters[k] \subseteq V
    BY <1>6, <1>7, <2>1
  <2>3. QED
    BY <2>2 DEF ValuesIn
<1>10. \A t, k : k \in Kods => Filter(s, n, t, k) \in SUBSET V
  BY <1>9 DEF Filter
<1>11. \A t : FiltersOf(s, n, t) \in [Kods -> SUBSET V]
  BY <1>10 DEF FiltersOf
<1>12. ASSUME NEW e \in Range(user.tables)
       PROVE  e.id \in DOMAIN all /\ \A k \in Kods \ BoolKods : e.filters[k] \subseteq all[e.id][k]
  <2>1. PICK i \in 1 .. n : e = s[i]
    BY <1>2, <1>8 DEF Range
  <2>2. e.id \in EntryIds(s, n) /\ i \in Of(s, n, e.id)
    BY <2>1 DEF EntryIds, Of
  <2>3. ASSUME NEW k \in Kods \ BoolKods PROVE e.filters[k] \subseteq all[e.id][k]
    <3>1. all[e.id][k] = ValuesIn(s, n, e.id, k)
      BY <1>4, <2>2 DEF FiltersOf, Filter
    <3>2. e.filters[k] \subseteq ValuesIn(s, n, e.id, k)
      BY <2>1, <2>2 DEF ValuesIn
    <3>3. QED
      BY <3>1, <3>2
  <2>4. QED
    BY <1>4, <2>2, <2>3
<1>13. DOMAIN all \subseteq I
  BY <1>4, <1>5, <1>6, <1>8
<1>14. all \in [DOMAIN all -> [Kods -> SUBSET V]]
  BY <1>4, <1>11
<1>15. QED
  BY <1>12, <1>13, <1>14
=============================================================================
