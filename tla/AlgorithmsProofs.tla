---------------------------- MODULE AlgorithmsProofs ----------------------------
(***************************************************************************)
(* What is proved of the export, and of the inputs of the pure modules.    *)
(*                                                                         *)
(* The first part is the export of a listing, for any number of documents, *)
(* rows and changes and any size of a page: what it misses and repeats has *)
(* the causes that ExactlyOnce and OneWayOnly name.  A page is cut at      *)
(* positions of the sorted listing, and the rows of a key begin at the sum *)
(* of those before it (Sums).  A key whose rows no page has split lies     *)
(* before the position that is read next, and was read, or behind it, and  *)
(* was not: by how far it can move across that position the three parts of *)
(* the invariant differ (StableAt, NotTwiceAt, NotMissedAt).               *)
(*                                                                         *)
(* The second part says that any user is shown what it may see.            *)
(***************************************************************************)
EXTENDS UserViews, Export, UserPermissions, MergedPermissionsProofs, FiniteSetTheorems

(* Sums, by induction on sets of numbers. *)

\* What holds of the first key, and of the next one with each, holds of all.
LEMMA KeyInduction ==
    ASSUME NEW S, 1 \in S, \A k \in DocKeys : k \in S => k + 1 \in S
    PROVE  1 .. Endless \subseteq S
<1> DEFINE N == {n \in Nat : n + 1 \in 1 .. Endless => n + 1 \in S}
<1>0. MaxDocs \in Nat
  BY ExportAssumption
<1>1. 0 \in N
  OBVIOUS
<1>2. ASSUME NEW n \in Nat, n \in N PROVE n + 1 \in N
  <2>1. CASE n + 2 \in 1 .. Endless
    <3>1. n + 1 \in DocKeys /\ n + 1 \in S /\ (n + 1) + 1 = n + 2
      BY <1>0, <1>2, <2>1 DEF Endless, DocKeys
    <3>2. QED
      BY <3>1
  <2>2. QED
    BY <2>1
<1>3. Nat \subseteq N
  <2> HIDE DEF N
  <2> QED BY <1>1, <1>2, SetInduction
<1>4. \A k \in 1 .. Endless : k - 1 \in Nat /\ (k - 1) + 1 = k
  BY <1>0 DEF Endless
<1>5. QED
  BY <1>3, <1>4

Adds(at, f, n) == at = [k \in 1 .. n |-> IF k = 1 THEN 0 ELSE at[k - 1] + f[k - 1]]

LEMMA SumsExist ==
    ASSUME NEW f, NEW n \in Nat
    PROVE  \E at : Adds(at, f, n)
<1> DEFINE S == {m \in Nat : \E at : Adds(at, f, m)}
<1>1. 0 \in S
  <2>1. Adds([k \in 1 .. 0 |-> 0], f, 0)
     BY DEF Adds
  <2>2. QED
    BY <2>1
<1>2. ASSUME NEW m \in Nat, m \in S PROVE m + 1 \in S
  <2>1. PICK at : Adds(at, f, m)
    BY <1>2
  <2> DEFINE b == [k \in 1 .. m + 1 |-> IF k = 1 THEN 0 ELSE at[k - 1] + f[k - 1]]
  <2>2. \A k \in 1 .. m : b[k] = at[k]
    BY <2>1 DEF Adds
  <2>3. \A k \in 1 .. m + 1 : b[k] = IF k = 1 THEN 0 ELSE b[k - 1] + f[k - 1]
    <3>1. \A k \in 1 .. m + 1 : k # 1 => k - 1 \in 1 .. m
      OBVIOUS
    <3>2. QED
      BY <2>2, <3>1
  <2>4. b = [k \in 1 .. m + 1 |-> b[k]]
    OBVIOUS
  <2> HIDE DEF b
  <2>5. Adds(b, f, m + 1)
    BY <2>3, <2>4 DEF Adds
  <2>6. QED
    BY <2>5
<1>3. Nat \subseteq S
  <2> HIDE DEF S
  <2> QED BY <1>1, <1>2, SetInduction
<1>4. QED
  BY <1>3

LEMMA SumsAre == ASSUME NEW f PROVE Adds(Sums(f), f, Endless)
<1>1. \E at : Adds(at, f, Endless)
  BY SumsExist, ExportAssumption DEF Endless
<1>2. Sums(f) = CHOOSE at : Adds(at, f, Endless)
  BY DEF Sums, Adds
<1>3. QED
  BY <1>1, <1>2

LEMMA SumsStep ==
    ASSUME NEW f \in [DocKeys -> Nat]
    PROVE  /\ Sums(f)[1] = 0
           /\ \A k \in DocKeys : Sums(f)[k + 1] = Sums(f)[k] + f[k]
           /\ \A k \in 1 .. Endless : Sums(f)[k] \in Nat
<1> DEFINE s == Sums(f)
<1>0. MaxDocs \in Nat
  BY ExportAssumption
<1>1. \A k \in 1 .. Endless : s[k] = IF k = 1 THEN 0 ELSE s[k - 1] + f[k - 1]
  BY SumsAre DEF Adds
<1> HIDE DEF s
<1>2. s[1] = 0
  BY <1>0, <1>1 DEF Endless
<1>3. ASSUME NEW k \in DocKeys PROVE s[k + 1] = s[k] + f[k]
  <2>1. k + 1 \in 1 .. Endless /\ k + 1 # 1 /\ (k + 1) - 1 = k
    BY <1>0 DEF Endless, DocKeys
  <2>2. QED
    BY <1>1, <2>1
<1>4. \A k \in 1 .. Endless : s[k] \in Nat
  <2> DEFINE S == {k \in Nat : s[k] \in Nat}
  <2>1. 1 \in S
    BY <1>2
  <2>2. \A k \in DocKeys : k \in S => k + 1 \in S
    BY <1>0, <1>3 DEF DocKeys
  <2>3. 1 .. Endless \subseteq S
    <3> HIDE DEF S
    <3> QED BY <2>1, <2>2, KeyInduction
  <2>4. QED
    BY <2>3
<1>5. QED
  BY <1>2, <1>3, <1>4 DEF s

LEMMA SumsGrow ==
    ASSUME NEW f \in [DocKeys -> Nat], NEW j \in 1 .. Endless, NEW k \in 1 .. Endless, j =< k
    PROVE  Sums(f)[j] =< Sums(f)[k]
<1> DEFINE s == Sums(f)
<1> DEFINE S == {m \in Nat : j =< m => s[j] =< s[m]}
<1>0. MaxDocs \in Nat
  BY ExportAssumption
<1>1. \A m \in 1 .. Endless : s[m] \in Nat
  BY SumsStep
<1>2. \A m \in DocKeys : s[m + 1] = s[m] + f[m]
  BY SumsStep
<1> HIDE DEF s
<1>3. 1 \in S
  BY <1>0, <1>1
<1>4. ASSUME NEW m \in DocKeys, m \in S PROVE m + 1 \in S
  <2>1. m \in 1 .. Endless /\ m + 1 \in 1 .. Endless /\ f[m] \in Nat
    BY <1>0 DEF DocKeys, Endless
  <2>2. s[m] =< s[m + 1]
    BY <1>1, <1>2, <2>1
  <2>3. CASE j =< m
    BY <1>1, <1>4, <2>1, <2>2, <2>3
  <2>4. CASE ~(j =< m)
    <3>1. j =< m + 1 => j = m + 1
      BY <2>1, <2>4, <1>0
    <3>2. QED
      BY <1>1, <2>1, <3>1
  <2>5. QED
    BY <2>3, <2>4
<1>5. 1 .. Endless \subseteq S
  <2> HIDE DEF S
  <2> QED BY <1>3, <1>4, KeyInduction
<1>6. QED
  BY <1>5 DEF s

\* More rows below a key move it up.
LEMMA SumsOrdered ==
    ASSUME NEW f \in [DocKeys -> Nat], NEW h \in [DocKeys -> Nat], NEW m \in 1 .. Endless,
           \A k \in DocKeys : k < m => f[k] =< h[k]
    PROVE  Sums(f)[m] =< Sums(h)[m]
<1> DEFINE S == {k \in Nat : k =< m => Sums(f)[k] =< Sums(h)[k]}
<1>0. MaxDocs \in Nat
  BY ExportAssumption
<1>1. 1 \in S
  BY SumsStep
<1>2. ASSUME NEW k \in DocKeys, k \in S PROVE k + 1 \in S
  <2>1. CASE k + 1 =< m
    <3>1. k \in 1 .. Endless /\ k < m /\ k =< m
      BY <1>0, <2>1 DEF DocKeys, Endless
    <3>2. Sums(f)[k] =< Sums(h)[k] /\ f[k] =< h[k]
      BY <1>2, <3>1
    <3>3. f[k] \in Nat /\ h[k] \in Nat /\ Sums(f)[k] \in Nat /\ Sums(h)[k] \in Nat
      BY <3>1, SumsStep
    <3>4. Sums(f)[k + 1] = Sums(f)[k] + f[k] /\ Sums(h)[k + 1] = Sums(h)[k] + h[k]
      BY SumsStep
    <3>5. Sums(f)[k + 1] =< Sums(h)[k + 1]
      BY <3>2, <3>3, <3>4
    <3>6. k + 1 \in Nat
      BY <1>0 DEF DocKeys
    <3>7. QED
      BY <3>5, <3>6
  <2>2. CASE ~(k + 1 =< m)
    BY <2>2, <1>0 DEF DocKeys
  <2>3. QED
    BY <2>1, <2>2
<1>3. 1 .. Endless \subseteq S
  <2> HIDE DEF S
  <2> QED BY <1>1, <1>2, KeyInduction
<1>4. QED
  BY <1>3

LEMMA SumsSame ==
    ASSUME NEW f \in [DocKeys -> Nat], NEW h \in [DocKeys -> Nat], NEW m \in 1 .. Endless,
           \A k \in DocKeys : k < m => f[k] = h[k]
    PROVE  Sums(f)[m] = Sums(h)[m]
<1>1. \A k \in DocKeys : f[k] \in Nat /\ h[k] \in Nat
  OBVIOUS
<1>2. Sums(f)[m] =< Sums(h)[m] /\ Sums(h)[m] =< Sums(f)[m]
  BY <1>1, SumsOrdered
<1>3. Sums(f)[m] \in Nat /\ Sums(h)[m] \in Nat
  BY SumsStep
<1>4. QED
  BY <1>2, <1>3
-----------------------------------------------------------------------------
(* Positions. *)

Reaches(k) == RowsBefore[k + 1]

Unread(k) == \A i \in Parts : got[k][i] = 0

Whole(k) == \A i \in Parts : got[k][i] = IF i <= rows[k] THEN 1 ELSE 0

\* No document up to k changed.
Stable(k) == \A j \in touched : k < j

StableAt(p) ==
    \A k \in Old : Stable(k) => (Reaches(k) <= p /\ Whole(k)) \/ (p <= RowsBefore[k] /\ Unread(k))

NotTwiceAt(p) ==
    ~grown => \A k \in DocKeys \ split :
        Unread(k) \/ (Reaches(k) <= p /\ \A i \in Parts : got[k][i] <= 1)

NotMissedAt(p) ==
    ~shrunk => \A k \in Old \ touched :
        p <= RowsBefore[k] \/ \A i \in Parts : i <= rows[k] => got[k][i] >= 1

\* The rows f of a page that begins at p, for the keys that it did not split.
PageAt(f, p) ==
    \A k \in DocKeys \ split :
        /\ f[k] # {} => f[k] = 1 .. rows[k] /\ p <= RowsBefore[k] /\ Reaches(k) <= p + size
        /\ f[k] = {} /\ k < first => rows[k] = 0 \/ Reaches(k) <= p \/ p + size <= RowsBefore[k]

\* Documents that are not there yet have no rows, and none was read.
Unborn ==
    \A k \in DocKeys : k >= next => rows[k] = 0 /\ items[k] = {} /\ Unread(k)

ExportTyped ==
    /\ ExportTypeOK /\ page # 0 /\ first <= next
    /\ pc \in {"count", "items"} => legacy

\* The invariant while the consumer goes on reading.
Reading ==
    pc # "done" =>
        /\ StableAt(Skip) /\ NotTwiceAt(Skip) /\ NotMissedAt(Skip)
        /\ pc = "count" => PageAt(items, Skip)
        /\ pc = "items" => RowsBefore[first] <= counted

\* ... and when it has stopped.
Stopped == pc = "done" => ExactlyOnce /\ OneWayOnly

ExportInv == ExportTyped /\ Unborn /\ Reading /\ Stopped

LEMMA BeforeFacts ==
    ASSUME ExportTypeOK
    PROVE  /\ \A k \in DocKeys : k \in 1 .. Endless /\ k + 1 \in 1 .. Endless /\ k \in Nat /\ rows[k] \in Nat
           /\ \A k \in 1 .. Endless : RowsBefore[k] \in Nat
           /\ \A k \in DocKeys : Reaches(k) = RowsBefore[k] + rows[k]
           /\ \A k \in DocKeys : k < first => Reaches(k) <= RowsBefore[first]
           /\ \A j \in 1 .. Endless : RowsBefore[j] <= Count
           /\ Count \in Nat
<1>0. MaxDocs \in Nat /\ MaxRows \in Nat
  BY ExportAssumption
<1>1. rows \in [DocKeys -> Nat]
  BY <1>0 DEF ExportTypeOK
<1>2. \A k \in DocKeys : k \in 1 .. Endless /\ k + 1 \in 1 .. Endless /\ k \in Nat /\ rows[k] \in Nat
  BY <1>0, <1>1 DEF DocKeys, Endless
<1>3. \A k \in 1 .. Endless : RowsBefore[k] \in Nat
  BY <1>1, SumsStep DEF RowsBefore
<1>4. \A k \in DocKeys : Reaches(k) = RowsBefore[k] + rows[k]
  BY <1>1, SumsStep DEF RowsBefore, Reaches
<1>5. ASSUME NEW k \in DocKeys, k < first PROVE Reaches(k) <= RowsBefore[first]
  <2>1. first \in 1 .. Endless /\ k + 1 <= first
    BY <1>2, <1>5, <1>0 DEF ExportTypeOK, Endless
  <2>2. QED
    BY <1>1, <1>2, <2>1, SumsGrow DEF RowsBefore, Reaches
<1>6. Endless \in 1 .. Endless /\ \A j \in 1 .. Endless : j <= Endless
  BY <1>0 DEF Endless
<1>7. \A j \in 1 .. Endless : RowsBefore[j] <= Count
  BY <1>1, <1>6, SumsGrow DEF RowsBefore, Count
<1>8. QED
  BY <1>2, <1>3, <1>4, <1>5, <1>6, <1>7 DEF Count

LEMMA Positions ==
    ASSUME ExportTypeOK, page # 0
    PROVE  Skip \in Nat /\ page * size = Skip + size /\ size \in Nat \ {0}
<1>1. size \in Nat \ {0} /\ page \in Nat
  BY ExportAssumption DEF ExportTypeOK
<1>2. PICK q \in Nat : page = q + 1
  <2>1. page - 1 \in Nat /\ page = (page - 1) + 1
    BY <1>1
  <2>2. QED
    BY <2>1
<1>3. q * size \in Nat /\ (q + 1) * size = q * size + size
  BY <1>1
<1>4. Skip = q * size
  BY <1>1, <1>2 DEF Skip
<1>5. QED
  BY <1>1, <1>2, <1>3, <1>4
\* A page that has all rows of a key, or none of them.
LEMMA PageRows ==
    ASSUME ExportTypeOK, page # 0, NEW f \in PageItems
    PROVE  /\ f \in [DocKeys -> SUBSET Parts]
           /\ \A k \in DocKeys :
                /\ f[k] \subseteq 1 .. rows[k]
                /\ f[k] # {} /\ f[k] = 1 .. rows[k] => Skip <= RowsBefore[k] /\ Reaches(k) <= Skip + size
                /\ f[k] = {} => rows[k] = 0 \/ Reaches(k) <= Skip \/ Skip + size <= RowsBefore[k]
<1> DEFINE shown == {k \in DocKeys : OnPage[k] > 0}
<1>1. PICK g \in [shown -> SUBSET Parts] :
          /\ \A k \in shown : g[k] \subseteq 1 .. rows[k] /\ Cardinality(g[k]) = OnPage[k]
          /\ f = [k \in DocKeys |-> IF k \in shown THEN g[k] ELSE {}]
  BY DEF PageItems
<1>2. f \in [DocKeys -> SUBSET Parts]
  BY <1>1
<1>3. ASSUME NEW k \in DocKeys
      PROVE  /\ f[k] \subseteq 1 .. rows[k]
             /\ f[k] # {} /\ f[k] = 1 .. rows[k] => Skip <= RowsBefore[k] /\ Reaches(k) <= Skip + size
             /\ f[k] = {} => rows[k] = 0 \/ Reaches(k) <= Skip \/ Skip + size <= RowsBefore[k]
  <2> DEFINE from == Most(RowsBefore[k], Skip)
             n == Most(Least(Reaches(k), Skip + size), from) - from
  <2>1. OnPage[k] = n
    BY DEF OnPage, Reaches
  <2>2. /\ RowsBefore[k] \in Nat /\ Reaches(k) = RowsBefore[k] + rows[k] /\ rows[k] \in Nat
        /\ Skip \in Nat /\ size \in Nat \ {0}
    BY BeforeFacts, Positions
  <2>3. f[k] = IF k \in shown THEN g[k] ELSE {}
    BY <1>1
  <2>4. CASE k \in shown
    <3>0. f[k] = g[k] /\ f[k] \subseteq 1 .. rows[k] /\ Cardinality(f[k]) = n /\ n > 0
      <4>1. OnPage[k] > 0
        BY <2>4
      <4> HIDE DEF n, shown
      <4>2. QED
        BY <1>1, <2>1, <2>3, <2>4, <4>1
    <3>1. f[k] # {} /\ f[k] \subseteq 1 .. rows[k] /\ Cardinality(f[k]) = n
      <4> HIDE DEF n, shown
      <4>1. QED
        BY <3>0, FS_EmptySet
    <3>2. f[k] = 1 .. rows[k] => n = rows[k]
      <4>1. 1 \in Int /\ rows[k] \in Int /\ (IF 1 > rows[k] THEN 0 ELSE rows[k] - 1 + 1) = rows[k]
        BY <2>2
      <4>2. Cardinality(1 .. rows[k]) = IF 1 > rows[k] THEN 0 ELSE rows[k] - 1 + 1
        BY <4>1, FS_Interval, Zenon
      <4> HIDE DEF n, shown
      <4>3. QED
        BY <3>1, <4>1, <4>2
    <3>3. n = rows[k] => rows[k] = 0 \/ (Skip <= RowsBefore[k] /\ Reaches(k) <= Skip + size)
      BY <2>2 DEF Most, Least
    <3>4. f[k] = 1 .. rows[k] => rows[k] # 0
      BY <3>1
    <3> HIDE DEF n, shown
    <3>5. QED
      BY <3>1, <3>2, <3>3, <3>4
  <2>5. CASE k \notin shown
    <3>1. f[k] = {} /\ ~(n > 0)
      BY <2>1, <2>3, <2>5
    <3>2. ~(n > 0) => rows[k] = 0 \/ Reaches(k) <= Skip \/ Skip + size <= RowsBefore[k]
      BY <2>2 DEF Most, Least
    <3> HIDE DEF n, shown
    <3>3. QED
      BY <3>1, <3>2
  <2>6. QED
    BY <2>4, <2>5
<1>4. QED
  BY <1>2, <1>3

LEMMA PageRead ==
    ASSUME ExportTypeOK, page # 0, NEW f \in PageItems, Splits(f),
           UNCHANGED <<rows, size, first>>, NEW p, p = Skip
    PROVE  /\ split \subseteq split' /\ split' \subseteq DocKeys
           /\ PageAt(f, p)'
<1>1. split' = split \cup {k \in DocKeys : f[k] # {} /\ f[k] # 1 .. rows[k]}
  BY DEF Splits
<1>2. split \subseteq split' /\ split' \subseteq DocKeys
  BY <1>1 DEF ExportTypeOK
<1>3. \A k \in DocKeys \ split' : f[k] = {} \/ f[k] = 1 .. rows[k]
  BY <1>1
<1>4. rows' = rows /\ size' = size /\ first' = first
  OBVIOUS
<1>5. RowsBefore' = RowsBefore
  BY <1>4 DEF RowsBefore
<1>6. \A k : Reaches(k)' = Reaches(k)
  BY <1>5 DEF Reaches
<1>7. ASSUME NEW k \in DocKeys \ split'
      PROVE  /\ f[k] # {} => f[k] = 1 .. rows[k] /\ p <= RowsBefore[k] /\ Reaches(k) <= p + size
             /\ f[k] = {} => rows[k] = 0 \/ Reaches(k) <= p \/ p + size <= RowsBefore[k]
  BY <1>3, PageRows
<1>8. PageAt(f, p)'
  BY <1>4, <1>5, <1>6, <1>7 DEF PageAt
<1>9. QED
  BY <1>2, <1>8

\* A number of pages that a page is beyond.
LEMMA OutOfRange ==
    ASSUME ExportTypeOK, page # 0, NEW n \in Nat, TotalPages(n) < page
    PROVE  n <= Skip
<1>1. size \in Nat \ {0} /\ page \in Nat
  BY Positions DEF ExportTypeOK
<1>2. PICK q \in Nat : page = q + 1
  <2>1. page - 1 \in Nat /\ page = (page - 1) + 1
    BY <1>1
  <2>2. QED
    BY <2>1
<1> DEFINE d == (n + size - 1) \div size
<1>3. n + size - 1 \in Nat
  BY <1>1
<1>4. d \in Nat /\ n + size - 1 < (d + 1) * size
  BY <1>1, <1>3
<1>5. d <= q
  BY <1>1, <1>2, <1>4 DEF TotalPages
<1> HIDE DEF d
<1>6. (d + 1) * size <= (q + 1) * size
  BY <1>1, <1>4, <1>5
<1>7. (q + 1) * size = q * size + size /\ q * size \in Nat /\ (d + 1) * size \in Nat
  BY <1>1, <1>4
<1>8. n <= q * size
  BY <1>1, <1>4, <1>6, <1>7
<1>9. QED
  BY <1>1, <1>2, <1>8 DEF Skip
-----------------------------------------------------------------------------
(* What reading does to the invariant. *)

LEMMA RowsStay ==
    ASSUME UNCHANGED <<rows, first, touched, grown, shrunk, size>>, split \subseteq split'
    PROVE  /\ RowsBefore' = RowsBefore /\ \A k : Reaches(k)' = Reaches(k)
           /\ \A k \in Old' : k \in Old /\ k \notin split'
           /\ \A k : Stable(k)' <=> Stable(k)
<1>1. RowsBefore' = RowsBefore
  BY DEF RowsBefore
<1>2. \A k : Reaches(k)' = Reaches(k)
  BY <1>1 DEF Reaches
<1>3. \A k \in Old' : k \in Old /\ k \notin split'
  BY DEF Old
<1>4. \A k : Stable(k)' <=> Stable(k)
  BY DEF Stable
<1>5. QED
  BY <1>1, <1>2, <1>3, <1>4

\* More splits leave less to show.
LEMMA SplitsGrow ==
    ASSUME UNCHANGED <<rows, first, touched, grown, shrunk, size, got>>, split \subseteq split',
           NEW p, StableAt(p), NotTwiceAt(p), NotMissedAt(p)
    PROVE  StableAt(p)' /\ NotTwiceAt(p)' /\ NotMissedAt(p)'
<1>1. \A k : (Whole(k)' <=> Whole(k)) /\ (Unread(k)' <=> Unread(k))
  BY DEF Whole, Unread
<1>2. StableAt(p)'
  BY <1>1, RowsStay DEF StableAt
<1>3. NotTwiceAt(p)'
  BY <1>1, RowsStay DEF NotTwiceAt
<1>4. NotMissedAt(p)'
  BY RowsStay DEF NotMissedAt
<1>5. QED
  BY <1>2, <1>3, <1>4

LEMMA TakesPage ==
    ASSUME ExportTyped, UNCHANGED <<rows, first, touched, grown, shrunk, size>>, split \subseteq split',
           NEW p \in Nat, StableAt(p), NotTwiceAt(p), NotMissedAt(p),
           NEW f \in [DocKeys -> SUBSET Parts], PageAt(f, p)', Take(f),
           NEW q, q = p + size
    PROVE  StableAt(q)' /\ NotTwiceAt(q)' /\ NotMissedAt(q)'
<1>1. /\ \A k \in DocKeys : k \in 1 .. Endless /\ rows[k] \in Nat
      /\ \A k \in 1 .. Endless : RowsBefore[k] \in Nat
      /\ \A k \in DocKeys : Reaches(k) = RowsBefore[k] + rows[k]
  BY BeforeFacts DEF ExportTyped
<1>0. (\A i \in Parts : i \in Nat /\ 1 <= i) /\ got \in [DocKeys -> [Parts -> Nat]]
  BY ExportAssumption DEF ExportTyped, ExportTypeOK, Parts
<1>2. \A k \in DocKeys, i \in Parts :
         /\ i \in Nat /\ 1 <= i /\ got[k][i] \in Nat
         /\ got'[k][i] = got[k][i] + IF i \in f[k] THEN 1 ELSE 0
  BY <1>0 DEF Take
<1>3. size \in Nat
  BY ExportAssumption DEF ExportTyped, ExportTypeOK
<1>4. ASSUME NEW k \in DocKeys \ split'
      PROVE  /\ f[k] # {} => /\ \A i \in Parts : i \in f[k] <=> i <= rows[k]
                             /\ p <= RowsBefore[k] /\ Reaches(k) <= q /\ rows[k] # 0
             /\ f[k] = {} /\ k < first => rows[k] = 0 \/ Reaches(k) <= p \/ q <= RowsBefore[k]
  <2>1. /\ f[k] # {} => f[k] = 1 .. rows[k] /\ p <= RowsBefore[k] /\ Reaches(k) <= p + size
        /\ f[k] = {} /\ k < first => rows[k] = 0 \/ Reaches(k) <= p \/ p + size <= RowsBefore[k]
    BY <1>4, RowsStay DEF PageAt
  <2>2. f[k] # {} => rows[k] # 0 /\ \A i \in Parts : i \in f[k] <=> i <= rows[k]
    BY <1>1, <1>2, <2>1
  <2>3. QED
    BY <2>1, <2>2
<1>5. \A k \in DocKeys : f[k] = {} => (Unread(k)' <=> Unread(k)) /\ (Whole(k)' <=> Whole(k))
  BY <1>2 DEF Unread, Whole
<1>6. \A k \in DocKeys \ split' : f[k] # {} /\ Unread(k) => Whole(k)'
  BY <1>1, <1>2, <1>4 DEF Unread, Whole
<1>7. \A k \in DocKeys : rows[k] = 0 => (Unread(k) <=> Whole(k))
  BY <1>2 DEF Unread, Whole
<1>8. StableAt(q)'
  <2> SUFFICES ASSUME NEW k \in Old', Stable(k)'
               PROVE  (Reaches(k)' <= q /\ Whole(k)') \/ (q <= RowsBefore'[k] /\ Unread(k)')
    BY DEF StableAt
  <2>1. k \in Old /\ k \in DocKeys \ split' /\ k < first /\ Stable(k) /\ RowsBefore' = RowsBefore /\ Reaches(k)' = Reaches(k)
    BY RowsStay DEF Old
  <2>2. (Reaches(k) <= p /\ Whole(k)) \/ (p <= RowsBefore[k] /\ Unread(k))
    BY <2>1 DEF StableAt
  <2>3. RowsBefore[k] \in Nat /\ rows[k] \in Nat /\ Reaches(k) = RowsBefore[k] + rows[k]
    BY <1>1, <2>1
  <2>4. CASE f[k] # {}
    <3>1. p <= RowsBefore[k] /\ Reaches(k) <= q /\ rows[k] # 0
      BY <1>4, <2>1, <2>4
    <3>2. Unread(k)
      BY <2>2, <2>3, <3>1
    <3>3. QED
      BY <1>6, <2>1, <2>4, <3>1, <3>2
  <2>5. CASE f[k] = {}
    <3>1. rows[k] = 0 \/ Reaches(k) <= p \/ q <= RowsBefore[k]
      BY <1>4, <2>1, <2>5
    <3>2. (Unread(k)' <=> Unread(k)) /\ (Whole(k)' <=> Whole(k)) /\ (rows[k] = 0 => (Unread(k) <=> Whole(k)))
      BY <1>5, <1>7, <2>1, <2>5
    <3>3. QED
      BY <1>3, <2>1, <2>2, <2>3, <3>1, <3>2
  <2>6. QED
    BY <2>4, <2>5
<1>9. NotTwiceAt(q)'
  <2> SUFFICES ASSUME ~grown, NEW k \in DocKeys \ split'
               PROVE  Unread(k)' \/ (Reaches(k)' <= q /\ \A i \in Parts : got'[k][i] <= 1)
    BY DEF NotTwiceAt
  <2>1. k \in DocKeys \ split /\ Reaches(k)' = Reaches(k)
    BY RowsStay
  <2>2. Unread(k) \/ (Reaches(k) <= p /\ \A i \in Parts : got[k][i] <= 1)
    BY <2>1 DEF NotTwiceAt
  <2>3. RowsBefore[k] \in Nat /\ rows[k] \in Nat /\ Reaches(k) = RowsBefore[k] + rows[k]
    BY <1>1, <2>1
  <2>4. CASE f[k] # {}
    <3>1. p <= RowsBefore[k] /\ Reaches(k) <= q /\ rows[k] # 0
      BY <1>4, <2>4
    <3>2. Unread(k)
      BY <2>2, <2>3, <3>1
    <3>3. \A i \in Parts : got'[k][i] <= 1
      BY <1>2, <3>2 DEF Unread
    <3>4. QED
      BY <2>1, <3>1, <3>3
  <2>5. CASE f[k] = {}
    <3>1. Unread(k)' <=> Unread(k)
      BY <1>5, <2>5
    <3>2. \A i \in Parts : got'[k][i] = got[k][i]
      BY <1>2, <2>5
    <3>3. QED
      BY <1>3, <2>1, <2>2, <2>3, <3>1, <3>2
  <2>6. QED
    BY <2>4, <2>5
<1>10. NotMissedAt(q)'
  <2> SUFFICES ASSUME ~shrunk, NEW k \in Old' \ touched
               PROVE  q <= RowsBefore'[k] \/ \A i \in Parts : i <= rows[k] => got'[k][i] >= 1
    BY DEF NotMissedAt
  <2>1. k \in Old /\ k \in DocKeys \ split' /\ k < first /\ RowsBefore' = RowsBefore
    BY RowsStay DEF Old
  <2>2. p <= RowsBefore[k] \/ \A i \in Parts : i <= rows[k] => got[k][i] >= 1
    BY <2>1 DEF NotMissedAt
  <2>3. RowsBefore[k] \in Nat /\ rows[k] \in Nat /\ Reaches(k) = RowsBefore[k] + rows[k]
    BY <1>1, <2>1
  <2>4. CASE f[k] # {}
    <3>1. \A i \in Parts : i <= rows[k] => got'[k][i] >= 1
      BY <1>2, <1>4, <2>1, <2>4
    <3>2. QED
      BY <3>1
  <2>5. CASE f[k] = {}
    <3>1. rows[k] = 0 \/ Reaches(k) <= p \/ q <= RowsBefore[k]
      BY <1>4, <2>1, <2>5
    <3>2. \A i \in Parts : got'[k][i] = got[k][i]
      BY <1>2, <2>1, <2>5
    <3>3. rows[k] = 0 => \A i \in Parts : ~(i <= rows[k])
      BY <1>2, <2>1
    <3>4. QED
      BY <2>1, <2>2, <2>3, <3>1, <3>2, <3>3
  <2>6. QED
    BY <2>4, <2>5
<1>11. QED
  BY <1>8, <1>9, <1>10

\* When all that was there before lies before the position, the export is complete.
LEMMA AllRead ==
    ASSUME ExportTyped, UNCHANGED <<rows, first, touched>>, got' \in [DocKeys -> [Parts -> Nat]],
           NEW p \in Nat, StableAt(p)', NotTwiceAt(p)', NotMissedAt(p)', RowsBefore[first] <= p
    PROVE  (ExactlyOnce /\ OneWayOnly)'
<1>1. /\ \A k \in DocKeys : k \in 1 .. Endless /\ rows[k] \in Nat
      /\ \A k \in 1 .. Endless : RowsBefore[k] \in Nat
      /\ \A k \in DocKeys : Reaches(k) = RowsBefore[k] + rows[k]
      /\ \A k \in DocKeys : k < first => Reaches(k) <= RowsBefore[first]
  BY BeforeFacts DEF ExportTyped
<1>2. RowsBefore' = RowsBefore /\ first \in 1 .. Endless
  BY DEF RowsBefore, ExportTyped, ExportTypeOK
<1>3. RowsBefore[first] \in Nat /\ \A i \in Parts : i \in Nat /\ 1 <= i
  BY <1>1, <1>2 DEF Parts
<1>4. \A k \in Old' : k \in DocKeys /\ k < first /\ (p <= RowsBefore[k] => rows[k] = 0)
  <2> SUFFICES ASSUME NEW k \in Old' PROVE k \in DocKeys /\ k < first /\ (p <= RowsBefore[k] => rows[k] = 0)
    OBVIOUS
  <2>1. k \in DocKeys /\ k < first
    BY DEF Old
  <2>2. QED
    BY <1>1, <1>3, <2>1
<1>5. ExactlyOnce'
  <2> SUFFICES ASSUME NEW k \in Old', Stable(k)'
               PROVE  \A i \in Parts : got'[k][i] = IF i <= rows[k] THEN 1 ELSE 0
    BY DEF ExactlyOnce, Stable
  <2>1. Whole(k)' \/ (p <= RowsBefore[k] /\ Unread(k)')
    BY <1>2 DEF StableAt
  <2>2. CASE Whole(k)'
    BY <2>2 DEF Whole
  <2>3. CASE p <= RowsBefore[k] /\ Unread(k)'
    <3>1. rows[k] = 0
      BY <1>4, <2>3
    <3>2. \A i \in Parts : ~(i <= rows[k])
      BY <1>3, <3>1
    <3>3. QED
      BY <2>3, <3>2 DEF Unread
  <2>4. QED
    BY <2>1, <2>2, <2>3
<1>6. ~grown' => \A k \in DocKeys \ split', i \in Parts : got'[k][i] <= 1
  BY DEF NotTwiceAt, Unread
<1>7. ~shrunk' => \A k \in Old' \ touched', i \in Parts : i <= rows'[k] => got'[k][i] >= 1
  <2> SUFFICES ASSUME ~shrunk', NEW k \in Old' \ touched', NEW i \in Parts, i <= rows'[k] PROVE got'[k][i] >= 1
    OBVIOUS
  <2>1. p <= RowsBefore[k] \/ \A j \in Parts : j <= rows[k] => got'[k][j] >= 1
    BY <1>2 DEF NotMissedAt
  <2>2. rows[k] # 0
    BY <1>1, <1>3, <1>4
  <2>3. QED
    BY <1>4, <2>1, <2>2
<1>8. QED
  BY <1>5, <1>6, <1>7 DEF OneWayOnly
\* What an answer does, whose rows were read at the position p and whose count is one of
\* all that was there before.
LEMMA Answers ==
    ASSUME ExportTyped, Unborn, UNCHANGED <<StoredVars, legacy, size>>, split \subseteq split', split' \subseteq DocKeys,
           NEW p \in Nat, p = Skip, StableAt(p), NotTwiceAt(p), NotMissedAt(p),
           NEW f \in [DocKeys -> SUBSET Parts], PageAt(f, p)', \A k \in DocKeys : k >= next => f[k] = {},
           NEW n \in Nat, RowsBefore[first] <= n, Answer(f, n), items' = items, counted' \in Nat
    PROVE  ExportInv'
<1>1. UNCHANGED <<rows, next, changes, first, touched, grown, shrunk>>
  BY DEF StoredVars
<1>2. size \in Nat \ {0} /\ page \in Nat /\ page * size = p + size /\ page # 0
  BY Positions DEF ExportTyped, ExportTypeOK
<1>3. (\A i \in Parts : i \in Nat) /\ got \in [DocKeys -> [Parts -> Nat]]
  BY ExportAssumption DEF ExportTyped, ExportTypeOK, Parts
<1>4. RowsBefore' = RowsBefore /\ RowsBefore[first] \in Nat
  BY <1>1, BeforeFacts DEF RowsBefore, ExportTyped, ExportTypeOK
<1>5. CASE TotalPages(n) < page
  <2>1. pc' = "done" /\ page' = page /\ got' = got
    BY <1>5 DEF Answer
  <2>2. ExportTyped'
    BY <1>1, <1>2, <1>3, <2>1 DEF ExportTyped, ExportTypeOK
  <2>3. Unborn'
    BY <1>1, <2>1 DEF Unborn, Unread
  <2>4. StableAt(p)' /\ NotTwiceAt(p)' /\ NotMissedAt(p)'
    BY <1>1, <2>1, SplitsGrow
  <2>5. RowsBefore[first] <= p
    <3>1. n <= p
      BY <1>5, OutOfRange DEF ExportTyped
    <3>2. QED
      BY <1>4, <3>1
  <2>6. (ExactlyOnce /\ OneWayOnly)'
    BY <1>1, <1>3, <2>1, <2>4, <2>5, AllRead
  <2>7. QED
    BY <2>1, <2>2, <2>3, <2>6 DEF ExportInv, Reading, Stopped
<1>6. CASE ~(TotalPages(n) < page)
  <2>1. PICK q \in Nat : q = p + size
    BY <1>2
  <2>2. /\ Take(f)
        /\ \/ q < n /\ pc' = "ask" /\ page' = page + 1
           \/ ~(q < n) /\ pc' = "done" /\ page' = page
    BY <1>2, <1>6, <2>1 DEF Answer
  <2>3. StableAt(q)' /\ NotTwiceAt(q)' /\ NotMissedAt(q)'
    BY <1>1, <2>1, <2>2, TakesPage
  <2>4. got' \in [DocKeys -> [Parts -> Nat]]
    BY <1>3, <2>2 DEF Take
  <2>5. ExportTyped'
    BY <1>1, <1>2, <2>2, <2>4 DEF ExportTyped, ExportTypeOK
  <2>6. Unborn'
    <3> SUFFICES ASSUME NEW k \in DocKeys, k >= next
                 PROVE  rows'[k] = 0 /\ items'[k] = {} /\ \A i \in Parts : got'[k][i] = 0
      BY <1>1 DEF Unborn, Unread
    <3>1. rows[k] = 0 /\ items[k] = {} /\ (\A i \in Parts : got[k][i] = 0) /\ f[k] = {}
      BY DEF Unborn, Unread
    <3>2. QED
      BY <1>1, <2>2, <3>1 DEF Take
  <2>7. CASE q < n /\ pc' = "ask" /\ page' = page + 1
    <3>1. Skip' = q
      BY <1>1, <1>2, <2>1, <2>7 DEF Skip
    <3>2. StableAt(Skip)' /\ NotTwiceAt(Skip)' /\ NotMissedAt(Skip)'
      BY <2>3, <3>1 DEF StableAt, NotTwiceAt, NotMissedAt
    <3>3. QED
      BY <2>5, <2>6, <2>7, <3>2 DEF ExportInv, Reading, Stopped
  <2>8. CASE ~(q < n) /\ pc' = "done"
    <3>1. RowsBefore[first] <= q
      BY <1>4, <2>8
    <3>2. (ExactlyOnce /\ OneWayOnly)'
      BY <1>1, <2>3, <2>4, <3>1, AllRead
    <3>3. QED
      BY <2>5, <2>6, <2>8, <3>2 DEF ExportInv, Reading, Stopped
  <2>9. QED
    BY <2>2, <2>7, <2>8
<1>7. QED
  BY <1>5, <1>6

\* Rows of a page are those of documents that are there.
LEMMA PageOfBorn ==
    ASSUME ExportTyped, Unborn, NEW f \in PageItems
    PROVE  \A k \in DocKeys : k >= next => f[k] = {}
<1>1. \A k \in DocKeys : f[k] \subseteq 1 .. rows[k]
  BY PageRows DEF ExportTyped
<1>2. QED
  BY <1>1 DEF Unborn

\* The position as a number.
LEMMA SkipIs ==
    ASSUME ExportInv, pc # "done"
    PROVE  \E p \in Nat : p = Skip /\ StableAt(p) /\ NotTwiceAt(p) /\ NotMissedAt(p)
<1>1. Skip \in Nat
  BY Positions DEF ExportInv, ExportTyped
<1>2. QED
  BY <1>1 DEF ExportInv, Reading

LEMMA ReadsPage == ASSUME ExportInv, ReadPage PROVE ExportInv'
<1>1. PICK f \in PageItems : Answer(f, Count) /\ Splits(f)
  BY DEF ReadPage
<1>2. PICK p \in Nat : p = Skip /\ StableAt(p) /\ NotTwiceAt(p) /\ NotMissedAt(p)
  BY SkipIs DEF ReadPage
<1>3. ExportTyped /\ Unborn
  BY DEF ExportInv
<1>4. UNCHANGED <<StoredVars, legacy, size, items, counted>>
  BY DEF ReadPage
<1>5. split \subseteq split' /\ split' \subseteq DocKeys /\ PageAt(f, p)'
  BY <1>1, <1>2, <1>3, <1>4, PageRead DEF ExportTyped, StoredVars
<1>6. Count \in Nat /\ RowsBefore[first] <= Count /\ counted \in Nat
  BY <1>3, BeforeFacts DEF ExportTyped, ExportTypeOK
<1>7. f \in [DocKeys -> SUBSET Parts] /\ \A k \in DocKeys : k >= next => f[k] = {}
  BY <1>3, PageRows, PageOfBorn DEF ExportTyped
<1>8. QED
  BY <1>1, <1>2, <1>3, <1>4, <1>5, <1>6, <1>7, Answers

LEMMA ReadsItemsLast == ASSUME ExportInv, ReadItemsLast PROVE ExportInv'
<1>1. PICK f \in PageItems : Answer(f, counted) /\ Splits(f)
  BY DEF ReadItemsLast
<1>2. PICK p \in Nat : p = Skip /\ StableAt(p) /\ NotTwiceAt(p) /\ NotMissedAt(p)
  BY SkipIs DEF ReadItemsLast
<1>3. ExportTyped /\ Unborn
  BY DEF ExportInv
<1>4. UNCHANGED <<StoredVars, legacy, size, items, counted>>
  BY DEF ReadItemsLast
<1>5. split \subseteq split' /\ split' \subseteq DocKeys /\ PageAt(f, p)'
  BY <1>1, <1>2, <1>3, <1>4, PageRead DEF ExportTyped, StoredVars
<1>6. RowsBefore[first] <= counted /\ counted \in Nat
  BY DEF ReadItemsLast, ExportInv, Reading, ExportTyped, ExportTypeOK
<1>7. f \in [DocKeys -> SUBSET Parts] /\ \A k \in DocKeys : k >= next => f[k] = {}
  BY <1>3, PageRows, PageOfBorn DEF ExportTyped
<1>8. QED
  BY <1>1, <1>2, <1>3, <1>4, <1>5, <1>6, <1>7, Answers

LEMMA ReadsCountLast == ASSUME ExportInv, ReadCountLast PROVE ExportInv'
<1>1. Answer(items, Count) /\ UNCHANGED <<StoredVars, legacy, size, items, counted, split>> /\ pc = "count"
  BY DEF ReadCountLast
<1>2. PICK p \in Nat : p = Skip /\ StableAt(p) /\ NotTwiceAt(p) /\ NotMissedAt(p)
  BY <1>1, SkipIs
<1>3. ExportTyped /\ Unborn
  BY DEF ExportInv
<1>4. split' = split /\ split \subseteq DocKeys /\ items \in [DocKeys -> SUBSET Parts] /\ counted \in Nat
  BY <1>1, <1>3 DEF ExportTyped, ExportTypeOK
<1>5. PICK f \in [DocKeys -> SUBSET Parts] : f = items
  BY <1>4
<1>6. PageAt(f, p)
  BY <1>1, <1>2, <1>5 DEF ExportInv, Reading
<1>7. PageAt(f, p)'
  BY <1>1, <1>4, <1>6, RowsStay DEF PageAt, StoredVars
<1>8. Count \in Nat /\ RowsBefore[first] <= Count
  BY <1>3, BeforeFacts DEF ExportTyped, ExportTypeOK
<1>9. \A k \in DocKeys : k >= next => f[k] = {}
  BY <1>3, <1>5 DEF Unborn
<1>10. Answer(f, Count)
  BY <1>1, <1>5
<1>11. QED
  BY <1>1, <1>2, <1>3, <1>4, <1>7, <1>8, <1>9, <1>10, Answers

LEMMA ReadsItemsFirst == ASSUME ExportInv, ReadItemsFirst PROVE ExportInv'
<1>1. PICK f \in PageItems : items' = f /\ Splits(f)
  BY DEF ReadItemsFirst
<1>2. PICK p \in Nat : p = Skip /\ StableAt(p) /\ NotTwiceAt(p) /\ NotMissedAt(p)
  BY SkipIs DEF ReadItemsFirst
<1>3. ExportTyped /\ Unborn
  BY DEF ExportInv
<1>4. UNCHANGED <<rows, next, changes, first, touched, grown, shrunk, legacy, size, page, counted, got>> /\ pc' = "count" /\ legacy
  BY DEF ReadItemsFirst, StoredVars
<1>5. split \subseteq split' /\ split' \subseteq DocKeys /\ PageAt(f, p)'
  BY <1>1, <1>2, <1>3, <1>4, PageRead DEF ExportTyped
<1>6. f \in [DocKeys -> SUBSET Parts] /\ \A k \in DocKeys : k >= next => f[k] = {}
  BY <1>3, PageRows, PageOfBorn DEF ExportTyped
<1>7. ExportTyped'
  BY <1>1, <1>3, <1>4, <1>5, <1>6 DEF ExportTyped, ExportTypeOK
<1>8. Unborn'
  BY <1>1, <1>3, <1>4, <1>6 DEF Unborn, Unread
<1>9. StableAt(p)' /\ NotTwiceAt(p)' /\ NotMissedAt(p)'
  BY <1>2, <1>4, <1>5, SplitsGrow
<1>10. Skip' = p
  BY <1>2, <1>4 DEF Skip
<1>11. StableAt(Skip)' /\ NotTwiceAt(Skip)' /\ NotMissedAt(Skip)'
  BY <1>9, <1>10 DEF StableAt, NotTwiceAt, NotMissedAt
<1>12. PageAt(items, Skip)'
  BY <1>1, <1>5, <1>10 DEF PageAt
<1>13. QED
  BY <1>4, <1>7, <1>8, <1>11, <1>12 DEF ExportInv, Reading, Stopped

LEMMA ReadsCountFirst == ASSUME ExportInv, ReadCountFirst PROVE ExportInv'
<1>1. /\ UNCHANGED <<rows, next, changes, first, touched, grown, shrunk, legacy, size, page, items, got, split>>
      /\ counted' = Count /\ pc = "ask" /\ pc' = "items" /\ legacy
  BY DEF ReadCountFirst, StoredVars
<1>2. PICK p \in Nat : p = Skip /\ StableAt(p) /\ NotTwiceAt(p) /\ NotMissedAt(p)
  BY <1>1, SkipIs
<1>3. ExportTyped /\ Unborn
  BY DEF ExportInv
<1>4. Count \in Nat /\ RowsBefore[first] <= Count
  BY <1>3, BeforeFacts DEF ExportTyped, ExportTypeOK
<1>5. ExportTyped' /\ Unborn'
  BY <1>1, <1>3, <1>4 DEF ExportTyped, ExportTypeOK, Unborn, Unread
<1>6. StableAt(p)' /\ NotTwiceAt(p)' /\ NotMissedAt(p)'
  BY <1>1, <1>2, SplitsGrow
<1>7. Skip' = p /\ RowsBefore' = RowsBefore
  BY <1>1, <1>2 DEF Skip, RowsBefore
<1>8. StableAt(Skip)' /\ NotTwiceAt(Skip)' /\ NotMissedAt(Skip)'
  BY <1>6, <1>7 DEF StableAt, NotTwiceAt, NotMissedAt
<1>9. QED
  BY <1>1, <1>4, <1>5, <1>7, <1>8 DEF ExportInv, Reading, Stopped
-----------------------------------------------------------------------------
(* What others do meanwhile. *)

\* A new document comes after those that were there.
LEMMA Inserts == ASSUME ExportInv, Insert PROVE ExportInv'
<1>1. PICK m \in 0 .. MaxRows : rows' = [rows EXCEPT ![next] = m]
  BY DEF Insert
<1>2. /\ pc # "done" /\ next \in DocKeys /\ next' = next + 1
      /\ UNCHANGED <<changes, first, touched, grown, shrunk, legacy, size, page, pc, items, counted, got, split>>
  BY DEF Insert, readerVars
<1>3. ExportTyped /\ Unborn
  BY DEF ExportInv
<1>4. /\ MaxDocs \in Nat /\ MaxRows \in Nat
      /\ rows \in [DocKeys -> Nat] /\ rows' \in [DocKeys -> 0 .. MaxRows] /\ rows' \in [DocKeys -> Nat]
  <2>1. MaxDocs \in Nat /\ MaxRows \in Nat /\ MaxChanges \in Nat
    BY ExportAssumption
  <2>2. rows \in [DocKeys -> 0 .. MaxRows]
    BY <1>3 DEF ExportTyped, ExportTypeOK
  <2>3. rows' \in [DocKeys -> 0 .. MaxRows]
    BY <1>1, <2>2
  <2>4. \A f \in [DocKeys -> 0 .. MaxRows] : f \in [DocKeys -> Nat]
    BY <2>1
  <2>5. QED
    BY <2>1, <2>2, <2>3, <2>4
<1>5. ExportTyped'
  BY <1>2, <1>3, <1>4 DEF ExportTyped, ExportTypeOK, DocKeys, Endless
<1>6. next \in 1 .. Endless /\ first \in 1 .. Endless /\ first <= next
  BY <1>3 DEF ExportTyped, ExportTypeOK
<1>7. Unborn'
  <2> SUFFICES ASSUME NEW k \in DocKeys, k >= next + 1
               PROVE  rows'[k] = 0 /\ items[k] = {} /\ Unread(k)
    BY <1>2 DEF Unborn, Unread
  <2>1. k >= next /\ k # next
    BY <1>6 DEF DocKeys, Endless
  <2>2. QED
    BY <1>1, <1>3, <1>4, <2>1 DEF Unborn
<1>8. \A k \in DocKeys : k # next => rows'[k] = rows[k]
  BY <1>1, <1>4
<1>9. \A k \in 1 .. Endless : k <= next => RowsBefore'[k] = RowsBefore[k]
  <2> SUFFICES ASSUME NEW k \in 1 .. Endless, k <= next PROVE Sums(rows')[k] = Sums(rows)[k]
    BY DEF RowsBefore
  <2>1. \A j \in DocKeys : j < k => rows'[j] = rows[j]
    BY <1>6, <1>8 DEF DocKeys, Endless
  <2>2. QED
    BY <1>4, <2>1, SumsSame
<1>10. \A k \in DocKeys : k < next => Reaches(k)' = Reaches(k) /\ RowsBefore'[k] = RowsBefore[k] /\ rows'[k] = rows[k]
  <2> SUFFICES ASSUME NEW k \in DocKeys, k < next
               PROVE  Reaches(k)' = Reaches(k) /\ RowsBefore'[k] = RowsBefore[k] /\ rows'[k] = rows[k]
    OBVIOUS
  <2>1. k \in 1 .. Endless /\ k + 1 \in 1 .. Endless /\ k <= next /\ k + 1 <= next /\ k # next
    BY <1>4, <1>6 DEF DocKeys, Endless
  <2>2. QED
    BY <1>8, <1>9, <2>1 DEF Reaches
<1>11. \A k \in DocKeys : k < first => k < next
  BY <1>6 DEF DocKeys, Endless
<1>12. PICK p \in Nat : p = Skip /\ StableAt(p) /\ NotTwiceAt(p) /\ NotMissedAt(p)
  BY <1>2, SkipIs
<1>13. Skip' = p
  BY <1>2, <1>12 DEF Skip
<1>14. StableAt(p)'
  <2> SUFFICES ASSUME NEW k \in Old, Stable(k)
               PROVE  (Reaches(k)' <= p /\ Whole(k)') \/ (p <= RowsBefore'[k] /\ Unread(k)')
    BY <1>2 DEF StableAt, Old, Stable
  <2>1. k \in DocKeys /\ k < next
    BY <1>11 DEF Old
  <2>2. (Whole(k)' <=> Whole(k)) /\ (Unread(k)' <=> Unread(k))
    BY <1>2, <1>10, <2>1 DEF Whole, Unread
  <2>3. QED
    BY <1>10, <1>12, <2>1, <2>2 DEF StableAt
<1>15. NotTwiceAt(p)'
  <2> SUFFICES ASSUME ~grown, NEW k \in DocKeys \ split
               PROVE  Unread(k) \/ (Reaches(k)' <= p /\ \A i \in Parts : got[k][i] <= 1)
    BY <1>2 DEF NotTwiceAt, Unread
  <2>1. CASE k < next
    BY <1>10, <1>12, <2>1 DEF NotTwiceAt
  <2>2. CASE ~(k < next)
    <3>1. k >= next
      BY <1>6, <2>2 DEF DocKeys, Endless
    <3>2. QED
      BY <1>3, <3>1 DEF Unborn
  <2>3. QED
    BY <2>1, <2>2
<1>16. NotMissedAt(p)'
  <2> SUFFICES ASSUME ~shrunk, NEW k \in Old \ touched
               PROVE  p <= RowsBefore'[k] \/ \A i \in Parts : i <= rows'[k] => got[k][i] >= 1
    BY <1>2 DEF NotMissedAt, Old
  <2>1. k \in DocKeys /\ k < next
    BY <1>11 DEF Old
  <2>2. QED
    BY <1>10, <1>12, <2>1 DEF NotMissedAt
<1>17. ASSUME pc = "count" PROVE PageAt(items, Skip)'
  <2>1. PageAt(items, p)
    BY <1>2, <1>12, <1>17 DEF ExportInv, Reading
  <2> SUFFICES ASSUME NEW k \in DocKeys \ split
               PROVE  /\ items[k] # {} => items[k] = 1 .. rows'[k] /\ p <= RowsBefore'[k] /\ Reaches(k)' <= p + size
                      /\ items[k] = {} /\ k < first => rows'[k] = 0 \/ Reaches(k)' <= p \/ p + size <= RowsBefore'[k]
    BY <1>2, <1>13 DEF PageAt
  <2>2. CASE k < next
    BY <1>10, <2>1, <2>2 DEF PageAt
  <2>3. CASE ~(k < next)
    <3>1. k >= next /\ ~(k < first)
      BY <1>6, <1>11, <2>3 DEF DocKeys, Endless
    <3>2. QED
      BY <1>3, <3>1 DEF Unborn
  <2>4. QED
    BY <2>2, <2>3
<1>18. pc = "items" => RowsBefore'[first] <= counted
  BY <1>2, <1>6, <1>9 DEF ExportInv, Reading
<1>19. StableAt(Skip)' /\ NotTwiceAt(Skip)' /\ NotMissedAt(Skip)'
  BY <1>13, <1>14, <1>15, <1>16 DEF StableAt, NotTwiceAt, NotMissedAt
<1>20. QED
  BY <1>2, <1>5, <1>7, <1>17, <1>18, <1>19 DEF ExportInv, Reading, Stopped

\* A document that changes moves those behind it only.
LEMMA Changes == ASSUME ExportInv, ChangeRows PROVE ExportInv'
<1>1. PICK k \in 1 .. next - 1, n \in 0 .. MaxRows :
         /\ n # rows[k]
         /\ rows' = [rows EXCEPT ![k] = n]
         /\ touched' = touched \cup {k}
         /\ grown' = (grown \/ n > rows[k])
         /\ shrunk' = (shrunk \/ n < rows[k])
  BY DEF ChangeRows
<1>2. /\ pc # "done" /\ ~legacy /\ changes < MaxChanges /\ changes' = changes + 1
      /\ UNCHANGED <<next, first, legacy, size, page, pc, items, counted, got, split>>
  BY DEF ChangeRows, readerVars
<1>3. ExportTyped /\ Unborn
  BY DEF ExportInv
<1>4. /\ MaxDocs \in Nat /\ MaxRows \in Nat /\ MaxChanges \in Nat
      /\ rows \in [DocKeys -> Nat] /\ rows' \in [DocKeys -> 0 .. MaxRows] /\ rows' \in [DocKeys -> Nat]
  <2>1. MaxDocs \in Nat /\ MaxRows \in Nat /\ MaxChanges \in Nat
    BY ExportAssumption
  <2>2. rows \in [DocKeys -> 0 .. MaxRows]
    BY <1>3 DEF ExportTyped, ExportTypeOK
  <2>3. rows' \in [DocKeys -> 0 .. MaxRows]
    BY <1>1, <2>2
  <2>4. \A f \in [DocKeys -> 0 .. MaxRows] : f \in [DocKeys -> Nat]
    BY <2>1
  <2>5. QED
    BY <2>1, <2>2, <2>3, <2>4
<1>5. next \in 1 .. Endless /\ first \in 1 .. Endless /\ k \in DocKeys /\ k \in Nat /\ k < next
  BY <1>1, <1>3, <1>4 DEF ExportTyped, ExportTypeOK, DocKeys, Endless
<1>6. pc = "ask"
  BY <1>2, <1>3 DEF ExportTyped, ExportTypeOK
<1>7. ExportTyped'
  <2>1. touched' \subseteq DocKeys /\ grown' \in BOOLEAN /\ shrunk' \in BOOLEAN /\ changes' \in 0 .. MaxChanges
    BY <1>1, <1>2, <1>3, <1>4, <1>5 DEF ExportTyped, ExportTypeOK
  <2>2. QED
    BY <1>2, <1>3, <1>4, <2>1 DEF ExportTyped, ExportTypeOK
<1>8. rows'[k] = n /\ \A j \in DocKeys : j # k => rows'[j] = rows[j]
  BY <1>1, <1>4, <1>5
<1>9. Unborn'
  <2> SUFFICES ASSUME NEW j \in DocKeys, j >= next PROVE rows'[j] = 0 /\ items[j] = {} /\ Unread(j)
    BY <1>2 DEF Unborn, Unread
  <2>1. j # k
    BY <1>5
  <2>2. QED
    BY <1>3, <1>8, <2>1 DEF Unborn
<1>10. PICK p \in Nat : p = Skip /\ StableAt(p) /\ NotTwiceAt(p) /\ NotMissedAt(p)
  BY <1>2, SkipIs
<1>11. Skip' = p
  BY <1>2, <1>10 DEF Skip
<1>12. \A j \in DocKeys : j \in 1 .. Endless /\ j + 1 \in 1 .. Endless /\ j \in Nat
  BY <1>4 DEF DocKeys, Endless
<1>13. StableAt(p)'
  <2> SUFFICES ASSUME NEW j \in Old, Stable(j), j < k
               PROVE  (Reaches(j)' <= p /\ Whole(j)') \/ (p <= RowsBefore'[j] /\ Unread(j)')
    BY <1>1, <1>2 DEF StableAt, Old, Stable
  <2>1. j \in DocKeys
    BY DEF Old
  <2>2. \A i \in DocKeys : i < j + 1 => rows'[i] = rows[i]
    BY <1>5, <1>8, <1>12, <2>1
  <2>3. \A i \in DocKeys : i < j => rows'[i] = rows[i]
    BY <1>12, <2>1, <2>2
  <2>4. Reaches(j)' = Reaches(j) /\ RowsBefore'[j] = RowsBefore[j]
    BY <1>4, <1>12, <2>1, <2>2, <2>3, SumsSame DEF Reaches, RowsBefore
  <2>5. (Whole(j)' <=> Whole(j)) /\ (Unread(j)' <=> Unread(j))
    BY <1>2, <1>5, <1>8, <1>12, <2>1 DEF Whole, Unread
  <2>6. QED
    BY <1>10, <2>4, <2>5 DEF StableAt
<1>14. NotTwiceAt(p)'
  <2> SUFFICES ASSUME ~grown, ~(n > rows[k]), NEW j \in DocKeys \ split
               PROVE  Unread(j) \/ (Reaches(j)' <= p /\ \A i \in Parts : got[j][i] <= 1)
    BY <1>1, <1>2 DEF NotTwiceAt, Unread
  <2>1. \A i \in DocKeys : rows'[i] <= rows[i]
    BY <1>4, <1>5, <1>8
  <2>2. Reaches(j)' <= Reaches(j)
    BY <1>4, <1>12, <2>1, SumsOrdered DEF Reaches, RowsBefore
  <2>3. Reaches(j)' \in Nat /\ Reaches(j) \in Nat
    BY <1>4, <1>12, SumsStep DEF Reaches, RowsBefore
  <2>4. Unread(j) \/ (Reaches(j) <= p /\ \A i \in Parts : got[j][i] <= 1)
    BY <1>10 DEF NotTwiceAt
  <2>5. QED
    BY <2>2, <2>3, <2>4
<1>15. NotMissedAt(p)'
  <2> SUFFICES ASSUME ~shrunk, ~(n < rows[k]), NEW j \in Old \ touched, j # k
               PROVE  p <= RowsBefore'[j] \/ \A i \in Parts : i <= rows'[j] => got[j][i] >= 1
    BY <1>1, <1>2 DEF NotMissedAt, Old
  <2>1. j \in DocKeys
    BY DEF Old
  <2>2. \A i \in DocKeys : rows[i] <= rows'[i]
    BY <1>4, <1>5, <1>8
  <2>3. RowsBefore[j] <= RowsBefore'[j]
    BY <1>4, <1>12, <2>1, <2>2, SumsOrdered DEF RowsBefore
  <2>4. RowsBefore[j] \in Nat /\ RowsBefore'[j] \in Nat
    BY <1>4, <1>12, <2>1, SumsStep DEF RowsBefore
  <2>5. p <= RowsBefore[j] \/ \A i \in Parts : i <= rows[j] => got[j][i] >= 1
    BY <1>10 DEF NotMissedAt
  <2>6. QED
    BY <1>8, <2>1, <2>3, <2>4, <2>5
<1>16. StableAt(Skip)' /\ NotTwiceAt(Skip)' /\ NotMissedAt(Skip)'
  BY <1>11, <1>13, <1>14, <1>15 DEF StableAt, NotTwiceAt, NotMissedAt
<1>17. QED
  BY <1>2, <1>6, <1>7, <1>9, <1>16 DEF ExportInv, Reading, Stopped
-----------------------------------------------------------------------------
LEMMA ExportStarts == ASSUME ExportInit PROVE ExportInv
<1>1. MaxDocs \in Nat /\ MaxRows \in Nat /\ MaxChanges \in Nat
  BY ExportAssumption
<1>2. ExportTyped
  <2>1. next \in 1 .. Endless /\ next \in Nat /\ first = next
    BY <1>1 DEF ExportInit, Endless
  <2>2. rows \in [DocKeys -> 0 .. MaxRows] /\ changes \in 0 .. MaxChanges
    BY <1>1 DEF ExportInit
  <2>3. items \in [DocKeys -> SUBSET Parts] /\ got \in [DocKeys -> [Parts -> Nat]]
    BY DEF ExportInit
  <2>4. /\ legacy \in BOOLEAN /\ size \in Sizes /\ page = 1 /\ pc = "ask" /\ counted = 0
        /\ touched = {} /\ grown \in BOOLEAN /\ shrunk \in BOOLEAN /\ split = {}
    BY DEF ExportInit
  <2>5. first =< next /\ first \in 1 .. Endless
    BY <2>1
  <2>6. ExportTypeOK
    BY <2>1, <2>2, <2>3, <2>4, <2>5 DEF ExportTypeOK
  <2>7. QED
    BY <2>4, <2>5, <2>6 DEF ExportTyped
<1>3. Unborn
  BY DEF ExportInit, Unborn, Unread
<1>4. Skip = 0
  <2>1. size \in Nat /\ page = 1
    BY ExportAssumption DEF ExportInit
  <2>2. QED
    BY <2>1 DEF Skip
<1>5. \A k \in DocKeys : RowsBefore[k] \in Nat /\ Unread(k)
  BY <1>2, BeforeFacts DEF ExportInit, ExportTyped, Unread
<1>6. StableAt(Skip) /\ NotTwiceAt(Skip) /\ NotMissedAt(Skip)
  BY <1>4, <1>5 DEF StableAt, NotTwiceAt, NotMissedAt, Old
<1>7. QED
  BY <1>2, <1>3, <1>6 DEF ExportInv, Reading, Stopped, ExportInit

LEMMA ExportSteps == ExportInv /\ [ExportNext]_exportVars => ExportInv'
<1> SUFFICES ASSUME ExportInv, [ExportNext]_exportVars PROVE ExportInv'
  OBVIOUS
<1>1. CASE UNCHANGED exportVars
  <2>1. RowsBefore' = RowsBefore /\ Skip' = Skip
    BY <1>1 DEF exportVars, RowsBefore, Skip
  <2>2. ExportTyped' /\ Unborn'
    BY <1>1 DEF exportVars, ExportInv, ExportTyped, ExportTypeOK, Unborn, Unread
  <2>3. Stopped'
    BY <1>1 DEF exportVars, ExportInv, Stopped, ExactlyOnce, OneWayOnly, Old
  <2>4. Reading'
    BY <1>1, <2>1 DEF exportVars, ExportInv, Reading, StableAt, NotTwiceAt, NotMissedAt, PageAt, Old, Stable,
                      Reaches, Whole, Unread
  <2>5. QED
    BY <2>2, <2>3, <2>4 DEF ExportInv
<1>2. CASE ExportNext
  BY <1>2, ReadsPage, ReadsItemsFirst, ReadsCountLast, ReadsCountFirst, ReadsItemsLast, Inserts, Changes
     DEF ExportNext
<1>3. QED
  BY <1>1, <1>2

\* While an export goes on nothing that it has read is there twice, unless documents got
\* more rows.
LEMMA PagesKept == ASSUME ExportInv PROVE PagesExported
<1>1. CASE pc = "done"
  BY <1>1 DEF ExportInv, Stopped, ExportTyped, PagesExported
<1>2. CASE pc # "done"
  <2>1. PICK p \in Nat : p = Skip /\ NotTwiceAt(p)
    BY <1>2, SkipIs
  <2>2. ~grown => \A k \in DocKeys \ split, i \in Parts : got[k][i] <= 1
    BY <2>1 DEF NotTwiceAt, Unread
  <2>3. QED
    BY <1>2, <2>2 DEF ExportInv, ExportTyped, PagesExported, ExactlyOnce, OneWayOnly
<1>3. QED
  BY <1>1, <1>2

\* An export that others overtake has each row it ought to have once, and errs in one
\* direction only, however many documents, rows and changes there are and whatever the
\* size of a page (data.service.ts).
THEOREM PagesAlwaysExported == ExportSpec => []PagesExported
<1>1. ExportInit => ExportInv
  BY ExportStarts
<1>2. ExportInv => PagesExported
  BY PagesKept
<1>3. QED
  BY <1>1, <1>2, ExportSteps, PTL DEF ExportSpec
-----------------------------------------------------------------------------
(* A user's permissions and those of its groups. *)

\* ViewIsEnforced, for every user: its merged view shows the domains and the
\* classifications that the dictionary enforces, each with the sources that grant it,
\* and no attribute is lost, however many entries and groups it has.
THEOREM ViewAlwaysEnforced ==
    ASSUME NEW T, NEW G, NEW user \in Holders(DomainEntry, T, G)
    PROVE  ViewIsEnforced(user)
<1>1. PICK view, dict : view = MergeDomains(user) /\ dict = DomainsDict(user)
  OBVIOUS
<1>2. /\ DOMAIN view = DOMAIN dict
      /\ \A d \in DOMAIN view :
            /\ DOMAIN view[d].cls = dict[d]
            /\ \A src : \A c \in dict[d] :
                  src \in view[d].cls[c]
                  <=> \E e \in Range(SourcedDomains(user)) : e.src = src /\ e.id = d /\ c \in e.cls
  BY <1>1, ViewParts
<1>3. ExcelRows(<<user>>) = {[user |-> 1, domain |-> d, cls |-> dict[d]] : d \in DOMAIN dict}
  <2>1. DOMAIN <<user>> = {1} /\ <<user>>[1] = user
    OBVIOUS
  <2>2. ExcelRows(<<user>>) = {[user |-> 1, domain |-> d, cls |-> DOMAIN view[d].cls] : d \in DOMAIN view}
    BY <1>1, <2>1 DEF ExcelRows
  <2>3. QED
    BY <1>2, <2>2
<1>4. /\ MergeAttributes(user).mask = \A i \in DOMAIN Attributed(user) : Attributed(user)[i].mask
      /\ MergeAttributes(user).deceased = \E i \in DOMAIN Attributed(user) : Attributed(user)[i].deceased
  BY AttrsMerged
<1>5. QED
  BY <1>1, <1>2, <1>3, <1>4 DEF ViewIsEnforced

\* GroupsAddRows, for every user and every row: groups take no row of a permission
\* table away, unless they restrict a row filter that the user's own entry leaves
\* open, or switch on a boolean among alternatives of which some remain.
THEOREM GroupsAlwaysAddRows ==
    ASSUME NEW D, NEW T, NEW G, NEW user \in Holders(D, T, G), NEW row
    PROVE  GroupsAddRows(user, row)
<1>1. PICK own, all : own = MergeTables([user EXCEPT !.groups = << >>]) /\ all = MergeTables(user)
  OBVIOUS
<1>2. ASSUME NEW t \in DOMAIN own,
             Restricted(all[t]) \subseteq Restricted(own[t]),
             Restricted(all[t]) \ AndKods = Restricted(own[t]) \ AndKods \/ Restricted(all[t]) \subseteq AndKods,
             Satisfies(row, own[t])
      PROVE  Satisfies(row, all[t])
  <2>1. \A k \in Kods :
            \/ k \notin BoolKods /\ own[t][k] \subseteq all[t][k]
            \/ k \in BoolKods /\ own[t][k] \in {{0}, {1}} /\ all[t][k] \in {own[t][k], {1}}
    BY <1>1, TablesGrow
  <2>2. \A k \in Restricted(all[t]) : k \in Kods /\ Condition(k, all[t][k]) # {}
    BY DEF Restricted
  <2>3. ASSUME NEW k \in Restricted(all[t])
        PROVE  Condition(k, own[t][k]) \subseteq Condition(k, all[t][k])
    <3>1. CASE k \notin BoolKods
      BY <2>1, <2>2, <3>1 DEF Condition
    <3>2. CASE k \in BoolKods
      <4>1. Condition(k, {1}) = {}
        BY <3>2 DEF Condition
      <4>2. all[t][k] = own[t][k]
        BY <2>1, <2>2, <3>2, <4>1
      <4>3. QED
        BY <4>2
    <3>3. QED
      BY <3>1, <3>2
  <2>4. \A k \in Restricted(all[t]) \cap AndKods : row[k] \in Condition(k, all[t][k])
    BY <1>2, <2>3 DEF Satisfies
  <2>5. ASSUME Restricted(all[t]) \ AndKods # {}
        PROVE  \E k \in Restricted(all[t]) \ AndKods : row[k] \in Condition(k, all[t][k])
    <3>1. Restricted(all[t]) \ AndKods = Restricted(own[t]) \ AndKods
      BY <1>2, <2>5
    <3>2. PICK k \in Restricted(own[t]) \ AndKods : row[k] \in Condition(k, own[t][k])
      BY <1>2, <2>5, <3>1 DEF Satisfies
    <3>3. QED
      BY <2>3, <3>1, <3>2
  <2>6. QED
    BY <2>4, <2>5 DEF Satisfies
<1>3. QED
  BY <1>1, <1>2 DEF GroupsAddRows

(* Previews. *)

LEMMA NoEntries == LivePermissions(Payload(Nobody)) = [t \in {} |-> {}]
<1>1. Nobody.domains = << >> /\ Nobody.groups = << >> /\ Nobody.all = FALSE
  BY DEF Nobody
<1>2. AllDomains(Nobody) = << >>
  <2>1. [g \in DOMAIN Nobody.groups |-> Nobody.groups[g].domains] = << >>
    BY <1>1
  <2>2. FlattenSeq(<< >>) = << >>
    BY DEF FlattenSeq
  <2>3. QED
    BY <1>1, <2>1, <2>2 DEF AllDomains
<1>3. DomainsDict(Nobody) = NoDomains
  <2>1. DomainsDict(Nobody) = (CHOOSE m : Dicts(m, << >>, 0))[0]
    BY <1>2 DEF DomainsDict, Dicts
  <2>2. DomainsDict(Nobody) = DictOf(<< >>, 0)
    BY <2>1, DictsAre
  <2>3. QED
    BY <2>2, FirstOf
<1>4. \A t \in Tables : Visible(Payload(Nobody), t) = {}
  BY <1>1, <1>3 DEF Visible, Payload, NoDomains, At
<1>5. QED
  BY <1>4 DEF LivePermissions

\* PreviewsAgree, for every edit: the list of tables, their columns, the current
\* permissions and the preview of a new user mark the same things.
THEOREM PreviewsAlwaysAgree ==
    ASSUME NEW old, NEW user
    PROVE  PreviewsAgree(old, user)
<1> DEFINE new    == LivePermissions(Payload(user))
           curr   == LivePermissions(Payload(old))
           tables == EditedTables(old, user)
           now(t) == Visible(Payload(user), t)
           was(t) == Visible(Payload(old), t)
<1>1. /\ DOMAIN new = {t \in Tables : now(t) # {}}
      /\ DOMAIN curr = {t \in Tables : was(t) # {}}
      /\ \A t \in DOMAIN new : new[t] = now(t)
      /\ \A t \in DOMAIN curr : curr[t] = was(t)
  BY DEF LivePermissions
<1>2. \A t \in Tables : At(new, t, {}) = now(t) /\ At(curr, t, {}) = was(t)
  BY <1>1 DEF At
<1>3. ASSUME NEW t, NEW cols, cols = EditedColumns(old, user, t)
      PROVE  /\ DOMAIN cols = now(t) \cup was(t)
             /\ \A c \in DOMAIN cols : cols[c] = IF c \in now(t) THEN (IF c \in was(t) THEN "kept" ELSE "new")
                                                 ELSE "deleted"
  BY <1>3 DEF EditedColumns
<1>4. DOMAIN tables = DOMAIN new \cup DOMAIN curr
  BY DEF EditedTables
<1>5. ASSUME NEW t \in DOMAIN tables
      PROVE  /\ t \in Tables
             /\ tables[t].new <=> \E c \in now(t) : c \notin was(t)
             /\ tables[t].deleted <=> \E c \in was(t) : c \notin now(t)
             /\ tables[t].new \in BOOLEAN /\ tables[t].deleted \in BOOLEAN
             /\ tables[t].count = Cardinality(Counted(t, now(t)))
  <2>1. t \in Tables
    BY <1>1, <1>4
  <2> DEFINE added   == t \notin DOMAIN curr \/ \E c \in At(new, t, {}) : c \notin curr[t]
             removed == t \notin DOMAIN new \/ \E c \in At(curr, t, {}) : c \notin new[t]
  <2>2. tables[t] = [count |-> Cardinality(Counted(t, At(new, t, {}))), new |-> added, deleted |-> removed]
    BY DEF EditedTables
  <2>3. added \in BOOLEAN /\ removed \in BOOLEAN
    OBVIOUS
  <2> HIDE DEF tables, new, curr, now, was
  <2>4. tables[t].new <=> t \notin DOMAIN curr \/ \E c \in now(t) : c \notin curr[t]
    <3>1. tables[t].new = added
      <4> HIDE DEF added, removed
      <4> QED BY <2>2
    <3>2. QED
      BY <1>2, <2>1, <3>1
  <2>5. tables[t].deleted <=> t \notin DOMAIN new \/ \E c \in was(t) : c \notin new[t]
    <3>1. tables[t].deleted = removed
      <4> HIDE DEF added, removed
      <4> QED BY <2>2
    <3>2. QED
      BY <1>2, <2>1, <3>1
  <2>6. tables[t].new <=> \E c \in now(t) : c \notin was(t)
    BY <1>1, <1>4, <2>1, <2>4
  <2>7. tables[t].deleted <=> \E c \in was(t) : c \notin now(t)
    BY <1>1, <1>4, <2>1, <2>5
  <2>8. /\ tables[t].new \in BOOLEAN /\ tables[t].deleted \in BOOLEAN
        /\ tables[t].count = Cardinality(Counted(t, now(t)))
    <3> HIDE DEF added, removed
    <3> QED BY <1>2, <2>1, <2>2, <2>3
  <2>9. QED
    BY <2>1, <2>6, <2>7, <2>8
<1>6. \A t \in DOMAIN CurrentTables(user) :
          t \in Tables /\ CurrentTables(user)[t].count = Cardinality(Counted(t, now(t)))
  BY <1>1 DEF CurrentTables
<1>7. NewTables(user) = EditedTables(Nobody, user)
  <2>1. LivePermissions(Payload(Nobody)) = [t \in {} |-> {}]
    BY NoEntries
  <2> DEFINE edited == EditedTables(Nobody, user)
  <2>2. edited = [t \in DOMAIN new \cup {} |->
                     [count   |-> Cardinality(Counted(t, At(new, t, {}))),
                      new     |-> t \notin {} \/ \E c \in At(new, t, {}) : c \notin [s \in {} |-> {}][t],
                      deleted |-> t \notin DOMAIN new \/ \E c \in At([s \in {} |-> {}], t, {}) : c \notin new[t]]]
    BY <2>1 DEF EditedTables
  <2>3. \A t : At([s \in {} |-> {}], t, {}) = {}
    BY DEF At
  <2>4. \A t \in DOMAIN new : At(new, t, {}) = new[t]
    BY DEF At
  <2>5. NewTables(user) = [t \in DOMAIN new |-> [count |-> Cardinality(Counted(t, new[t])),
                                                 new |-> TRUE, deleted |-> FALSE]]
    BY DEF NewTables
  <2> HIDE DEF new, edited
  <2>6. edited = NewTables(user)
    BY <2>2, <2>3, <2>4, <2>5
  <2>7. QED
    BY <2>6 DEF edited
<1> HIDE DEF tables, new, curr, now, was
<1>8. ASSUME NEW t \in DOMAIN tables, NEW cols, cols = EditedColumns(old, user, t)
      PROVE  /\ tables[t].new = \E c \in DOMAIN cols : cols[c] = "new"
             /\ tables[t].deleted = \E c \in DOMAIN cols : cols[c] = "deleted"
             /\ tables[t].count = Cardinality(Counted(t, {c \in DOMAIN cols : cols[c] # "deleted"}))
             /\ t \in DOMAIN CurrentTables(user) => CurrentTables(user)[t].count = tables[t].count
  <2>1. /\ DOMAIN cols = now(t) \cup was(t)
        /\ \A c \in DOMAIN cols : cols[c] = IF c \in now(t) THEN (IF c \in was(t) THEN "kept" ELSE "new")
                                            ELSE "deleted"
    BY <1>3, <1>8
  <2>2. (\E c \in DOMAIN cols : cols[c] = "new") <=> \E c \in now(t) : c \notin was(t)
    BY <2>1
  <2>3. (\E c \in DOMAIN cols : cols[c] = "deleted") <=> \E c \in was(t) : c \notin now(t)
    BY <2>1
  <2>4. {c \in DOMAIN cols : cols[c] # "deleted"} = now(t)
    BY <2>1
  <2>5. QED
    BY <1>5, <1>6, <2>2, <2>3, <2>4
<1>9. QED
  BY <1>7, <1>8 DEF PreviewsAgree, tables
-----------------------------------------------------------------------------
(* The users that are shown. *)

LEMMA PartsOfUsers ==
    ASSUME NEW D, NEW T, NEW G
    PROVE  \A i \in [kind : {"view", "rows"}, user : Holders(D, T, G)]
                    \cup [kind : {"preview"}, old : Holders(D, T, G), user : Holders(D, T, G)] :
               i.user \in Holders(D, T, G)
<1> DEFINE H == Holders(D, T, G)
<1> HIDE DEF H
<1>1. \A i \in [kind : {"view", "rows"}, user : H] \cup [kind : {"preview"}, old : H, user : H] : i.user \in H
  OBVIOUS
<1>2. QED
  BY <1>1 DEF H

\* UsersViewed, for every user, with any number of entries and groups, any row and any
\* edit.
THEOREM UsersAlwaysViewed == ViewsSpec => []UsersViewed
<1>1. input \in UserInputs => UsersViewed
  <2> SUFFICES ASSUME input \in UserInputs PROVE UsersViewed
    OBVIOUS
  <2>1. input.user \in UserRecords
    BY PartsOfUsers DEF UserInputs, UserRecords
  <2>2. PICK user : user = input.user
    OBVIOUS
  <2>3. user \in Holders(DomainEntry, TableEntry, GroupIds)
    BY <2>1, <2>2 DEF UserRecords
  <2>4. ViewIsEnforced(user) /\ \A row : GroupsAddRows(user, row)
    BY <2>3, ViewAlwaysEnforced, GroupsAlwaysAddRows
  <2>5. \A old : PreviewsAgree(old, user)
    BY PreviewsAlwaysAgree
  <2>6. QED
    BY <2>2, <2>4, <2>5
       DEF UsersViewed, InputsAreUsers, MergedViewEnforced, RowsKept, PreviewsConsistent
<1>2. input \in UserInputs /\ UNCHANGED input => (input \in UserInputs)'
  BY DEF UserInputs, UserRecords
<1>3. QED
  BY <1>1, <1>2, PTL DEF ViewsSpec

=============================================================================
