--------------------------- MODULE ScreeningProofs ---------------------------
(***************************************************************************)
(* What a screening answers, for any list, any query, any filters, limit   *)
(* and order of the candidates.                                            *)
(***************************************************************************)
EXTENDS Screening, FilterProofs, SequenceTheorems

LEMMA MinOfTwo ==
  ASSUME NEW a \in Int, NEW b \in Int
  PROVE  Min({a, b}) = IF a <= b THEN a ELSE b
<1> DEFINE m == IF a <= b THEN a ELSE b
<1>1. \A x \in {a, b} : (\A y \in {a, b} : x <= y) <=> x = m
  OBVIOUS
<1>2. m \in {a, b}
  OBVIOUS
<1> HIDE DEF m
<1>3. (CHOOSE x \in {a, b} : \A y \in {a, b} : x <= y) = m
  BY <1>1, <1>2
<1> QED BY <1>3 DEF Min, m

(* A page is the beginning of what there is to show. *)
LEMMA CutIs ==
  ASSUME NEW S, NEW s \in Seq(S), NEW n \in Nat
  PROVE  /\ Cut(s, n) \in Seq(S)
         /\ Len(Cut(s, n)) = IF n <= Len(s) THEN n ELSE Len(s)
         /\ \A i \in 1..Len(Cut(s, n)) : Cut(s, n)[i] = s[i]
<1> DEFINE m == Min({n, Len(s)})
<1>1. m = IF n <= Len(s) THEN n ELSE Len(s)
  BY MinOfTwo
<1>2. Cut(s, n) = SubSeq(s, 1, m)
  BY DEF Cut
<1> HIDE DEF m
<1>3. m \in 0..Len(s)
  BY <1>1
<1> QED BY <1>1, <1>2, <1>3

(* What is behind a place is not in front of it: of two places one is in front
   of the other, and has fewer in front of it. *)
LEMMA BeforeLess ==
  ASSUME NEW S, NEW s \in Seq(S), \A i \in DOMAIN s : Blended(s[i]) \in Int,
         NEW i \in DOMAIN s, NEW j \in DOMAIN s, i # j
  PROVE  /\ IsFiniteSet(Before(s, i)) /\ Cardinality(Before(s, i)) \in 0..(Len(s) - 1)
         /\ Cardinality(Before(s, i)) # Cardinality(Before(s, j))
<1>1. ASSUME NEW k \in DOMAIN s
      PROVE  IsFiniteSet(Before(s, k)) /\ Cardinality(Before(s, k)) \in 0..(Len(s) - 1)
  <2>1. Before(s, k) \subseteq (1..Len(s)) \ {k} /\ k \in 1..Len(s) /\ Len(s) \in Nat
    BY DEF Before
  <2>2. IsFiniteSet(1..Len(s)) /\ Cardinality(1..Len(s)) = Len(s)
    <3>1. Len(s) \in Int /\ 1 \in Int /\ ~ (1 > Len(s)) /\ Len(s) - 1 + 1 = Len(s)
      BY <2>1
    <3> QED BY <3>1, FS_Interval
  <2> DEFINE others == (1..Len(s)) \ {k}
  <2>3. IsFiniteSet(others) /\ Cardinality(others) = Len(s) - 1
    BY <2>1, <2>2, FS_RemoveElement
  <2> HIDE DEF others
  <2>4. /\ IsFiniteSet(Before(s, k)) /\ Cardinality(Before(s, k)) <= Cardinality(others)
    BY <2>1, <2>3, FS_Subset DEF others
  <2>5. Cardinality(Before(s, k)) \in Nat
    BY <2>4, FS_CardinalityType
  <2> QED BY <2>1, <2>3, <2>4, <2>5
<1>2. ASSUME NEW k \in DOMAIN s, NEW l \in DOMAIN s, k \in Before(s, l)
      PROVE  Cardinality(Before(s, k)) < Cardinality(Before(s, l))
  <2>1. Before(s, k) \subseteq Before(s, l)
    BY <1>2 DEF Before
  <2>2. k \notin Before(s, k)
    BY DEF Before
  <2>3. IsFiniteSet(Before(s, l))
    BY <1>1
  <2>4. Before(s, k) # Before(s, l)
    BY <1>2, <2>2
  <2>5. /\ Cardinality(Before(s, k)) <= Cardinality(Before(s, l))
        /\ Cardinality(Before(s, k)) # Cardinality(Before(s, l))
    BY <2>1, <2>3, <2>4, FS_Subset
  <2>6. Cardinality(Before(s, k)) \in Int /\ Cardinality(Before(s, l)) \in Int
    BY <1>1
  <2> QED BY <2>5, <2>6
<1>3. i \in Before(s, j) \/ j \in Before(s, i)
  BY DEF Before
<1>4. Cardinality(Before(s, i)) \in Int /\ Cardinality(Before(s, j)) \in Int
  BY <1>1
<1> QED BY <1>1, <1>2, <1>3, <1>4

(* Sorting moves the hits about: none is lost and none is added. *)
Sorted(s, t) ==
  /\ Len(t) = Len(s)
  /\ \A k \in DOMAIN t : \E i \in DOMAIN s : t[k] = s[i]
  /\ \A i \in DOMAIN s : \E k \in DOMAIN t : t[k] = s[i]

LEMMA ByScoreSorts ==
  ASSUME NEW S, NEW s \in Seq(S), \A i \in DOMAIN s : Blended(s[i]) \in Int
  PROVE  ByScore(s) \in Seq(S) /\ Sorted(s, ByScore(s))
<1> DEFINE n == Len(s)
           front(i) == Cardinality(Before(s, i))
           place == [i \in 1..n |-> front(i) + 1]
           came(k) == CHOOSE i \in DOMAIN s : front(i) = k - 1
<1>1. n \in Nat /\ n = Len(s) /\ DOMAIN s = 1..n
  OBVIOUS
<1>2. \A i \in 1..n : front(i) \in 0..(n - 1)
  <2> SUFFICES ASSUME NEW i \in 1..n PROVE front(i) \in 0..(n - 1)
    OBVIOUS
  <2>1. CASE n = 1
    <3>1. Before(s, i) = {}
      BY <2>1 DEF Before
    <3> QED BY <2>1, <3>1, FS_EmptySet
  <2>2. CASE n # 1
    <3>1. PICK j \in 1..n : i # j
      BY <1>1, <2>2
    <3> QED BY <3>1, BeforeLess
  <2> QED BY <2>1, <2>2
<1>3. \A i, j \in 1..n : front(i) = front(j) => i = j
  BY BeforeLess
<1> HIDE DEF front
<1>4. place \in Injection(1..n, 1..n)
  <2>1. place \in [1..n -> 1..n]
    BY <1>1, <1>2
  <2>2. \A i, j \in 1..n : place[i] = place[j] => i = j
    BY <1>2, <1>3
  <2> QED BY <2>1, <2>2 DEF Injection, IsInjective
<1>5. \A k \in 1..n : \E i \in 1..n : place[i] = k
  <2>1. IsFiniteSet(1..n)
    BY <1>1, FS_Interval
  <2> HIDE DEF place, n
  <2>2. place \in Surjection(1..n, 1..n)
    BY <1>4, <2>1, FS_Injection
  <2> QED BY <2>2 DEF Surjection
<1>6. \A k \in 1..n : came(k) \in 1..n /\ front(came(k)) = k - 1
  <2> SUFFICES ASSUME NEW k \in 1..n PROVE came(k) \in 1..n /\ front(came(k)) = k - 1
    OBVIOUS
  <2>1. PICK i \in 1..n : place[i] = k
    BY <1>5
  <2>2. i \in DOMAIN s /\ front(i) = k - 1
    BY <1>1, <1>2, <2>1
  <2> QED BY <1>1, <2>2
<1>7. ByScore(s) = [k \in 1..n |-> s[came(k)]]
  BY <1>1 DEF ByScore, front
<1> HIDE DEF came, place
<1>8. ByScore(s) \in Seq(S) /\ Len(ByScore(s)) = n
  BY <1>1, <1>6, <1>7
<1>9. ASSUME NEW k \in 1..n PROVE \E i \in 1..n : ByScore(s)[k] = s[i]
  BY <1>6, <1>7
<1>10. ASSUME NEW i \in 1..n PROVE \E k \in 1..n : ByScore(s)[k] = s[i]
  <2>1. front(i) + 1 \in 1..n
    BY <1>1, <1>2
  <2>2. front(came(front(i) + 1)) = front(i) /\ came(front(i) + 1) \in 1..n
    BY <1>2, <1>6, <2>1
  <2>3. came(front(i) + 1) = i
    BY <1>3, <2>2
  <2> QED BY <1>7, <2>1, <2>3
<1>11. DOMAIN ByScore(s) = 1..n
  BY <1>8
<1> HIDE DEF n
<1> QED BY <1>1, <1>8, <1>9, <1>10, <1>11, Zenon DEF Sorted
-----------------------------------------------------------------------------
(* The rows of the same id in front of row i. *)
Earlier(feed, i) == {j \in Named(feed) : j < i /\ RawId(feed, j) = RawId(feed, i)}

LEMMA EarlierCount ==
  ASSUME NEW n \in Nat, NEW feed \in [1..n -> Record],
         NEW i \in Named(feed), NEW j \in Named(feed), i < j, RawId(feed, i) = RawId(feed, j)
  PROVE  /\ Cardinality(Earlier(feed, i)) \in Nat /\ Cardinality(Earlier(feed, j)) \in Nat
         /\ Cardinality(Earlier(feed, i)) < Cardinality(Earlier(feed, j))
<1>1. Named(feed) \subseteq 1..n /\ IsFiniteSet(1..n)
  BY FS_Interval DEF Named
<1>2. /\ Earlier(feed, i) \in SUBSET Earlier(feed, j) /\ Earlier(feed, j) \in SUBSET 1..n
      /\ i \in Earlier(feed, j) /\ i \notin Earlier(feed, i)
  BY <1>1 DEF Earlier
<1>3. IsFiniteSet(Earlier(feed, j))
  BY <1>1, <1>2, FS_Subset, Zenon
<1>4. /\ IsFiniteSet(Earlier(feed, i))
      /\ Cardinality(Earlier(feed, i)) <= Cardinality(Earlier(feed, j))
      /\ Cardinality(Earlier(feed, i)) # Cardinality(Earlier(feed, j))
  BY <1>2, <1>3, FS_Subset
<1>5. Cardinality(Earlier(feed, i)) \in Nat /\ Cardinality(Earlier(feed, j)) \in Nat
  BY <1>3, <1>4, FS_CardinalityType
<1> QED BY <1>4, <1>5

LEMMA EarlierFinite ==
  ASSUME NEW n \in Nat, NEW feed \in [1..n -> Record], NEW i \in Named(feed)
  PROVE  Cardinality(Earlier(feed, i)) \in Nat
<1>1. Earlier(feed, i) \in SUBSET (1..n) /\ IsFiniteSet(1..n)
  BY FS_Interval DEF Named, Earlier
<1>2. IsFiniteSet(Earlier(feed, i))
  BY <1>1, FS_Subset
<1> QED BY <1>2, FS_CardinalityType

(* An id is its stem and its numbers. *)
IsId(e) == e.nos \in Seq(Nat) /\ e = Id(e.stem, e.nos)

LEMMA RawIdIs ==
  ASSUME NEW n \in Nat, NEW feed \in [1..n -> Record], NEW i \in Named(feed)
  PROVE  IsId(RawId(feed, i))
<1> DEFINE id == feed[i].id
           source == feed[i].source
<1>1. RawId(feed, i) = IF id = Missing THEN Id(<<source, i - 1>>, <<>>) ELSE id
  BY DEF RawId
<1>2. id # Missing => id \in [stem : Stem, nos : Seq(Nat)]
  BY ScreeningAssumption DEF Named
<1> HIDE DEF id, source
<1>3. CASE id = Missing
  <2> DEFINE stem == <<source, i - 1>>
  <2> HIDE DEF stem
  <2>1. RawId(feed, i) = Id(stem, <<>>)
    BY <1>1, <1>3 DEF stem
  <2> QED BY <2>1 DEF IsId, Id
<1>4. CASE id # Missing
  BY <1>1, <1>2, <1>4 DEF IsId, Id
<1> QED BY <1>3, <1>4

(* What a row's id is, with the rows of its raw id before it. *)
LEMMA EntryIdIs ==
  ASSUME NEW feed, NEW i
  PROVE  LET raw == RawId(feed, i)
             b == Cardinality(Earlier(feed, i))
         IN EntryId(feed, i) = IF b = 0 THEN raw ELSE Id(raw.stem, Append(raw.nos, b + 1))
BY DEF EntryId, Earlier

LEMMA Appended ==
  ASSUME NEW v \in Seq(Nat), NEW w \in Seq(Nat), NEW k \in Nat, NEW l \in Nat
  PROVE  Append(v, k) # v /\ (Append(v, k) = Append(w, l) => v = w /\ k = l)
BY AppendProperties, AppendInjective

(* Two rows have the same id only if it was made for one and brought by the other. *)
LEMMA EntryIdsDiffer ==
  ASSUME NEW n \in Nat, NEW feed \in [1..n -> Record],
         NEW i \in Named(feed), NEW j \in Named(feed), i < j,
         EntryId(feed, i) = EntryId(feed, j)
  PROVE  Clashes(feed, EntryId(feed, i))
<1> DEFINE b == Cardinality(Earlier(feed, i))
           c == Cardinality(Earlier(feed, j))
           r == RawId(feed, i)
           s == RawId(feed, j)
           e == EntryId(feed, i)
<1>1. b \in Nat /\ c \in Nat
  BY EarlierFinite
<1>2. r = s => b < c
  BY EarlierCount
<1>3. IsId(r) /\ IsId(s)
  BY RawIdIs
<1>4. /\ e = IF b = 0 THEN r ELSE Id(r.stem, Append(r.nos, b + 1))
      /\ e = IF c = 0 THEN s ELSE Id(s.stem, Append(s.nos, c + 1))
  BY EntryIdIs
<1>5. e = EntryId(feed, j)
  OBVIOUS
<1> HIDE DEF b, c, r, s, e
(* A number makes another id of the one it is put behind. *)
<1>6. ASSUME NEW x, IsId(x), NEW m \in Nat
      PROVE  Id(x.stem, Append(x.nos, m + 1)) # x
  <2>1. x.nos \in Seq(Nat) /\ m + 1 \in Nat /\ x = Id(x.stem, x.nos)
    BY <1>6 DEF IsId
  <2>2. Append(x.nos, m + 1) # x.nos
    BY <2>1, Appended
  <2> QED BY <2>1, <2>2 DEF Id
<1>7. CASE b = 0 /\ c = 0
  BY <1>1, <1>2, <1>4, <1>7
<1>8. CASE b = 0 /\ c # 0
  <2>1. r = e /\ s # e
    BY <1>1, <1>3, <1>4, <1>6, <1>8
  <2> QED BY <1>5, <2>1 DEF Clashes, r, s, e
<1>9. CASE b # 0 /\ c = 0
  <2>1. r # e /\ s = e
    BY <1>1, <1>3, <1>4, <1>6, <1>9
  <2> QED BY <2>1 DEF Clashes, r, s, e
<1>10. CASE b # 0 /\ c # 0
  <2>1. Id(r.stem, Append(r.nos, b + 1)) = Id(s.stem, Append(s.nos, c + 1))
    BY <1>4, <1>10
  <2>2. r.stem = s.stem /\ Append(r.nos, b + 1) = Append(s.nos, c + 1)
    BY <2>1 DEF Id
  <2>3. r.nos \in Seq(Nat) /\ s.nos \in Seq(Nat) /\ b + 1 \in Nat /\ c + 1 \in Nat
    BY <1>1, <1>3 DEF IsId
  <2>4. r.nos = s.nos /\ b + 1 = c + 1
    BY <2>2, <2>3, Appended
  <2>5. r = s
    BY <1>3, <2>2, <2>4 DEF IsId
  <2> QED BY <1>1, <1>2, <2>4, <2>5
<1> QED BY <1>7, <1>8, <1>9, <1>10

(* A list as the engine needs it: ids tell its entries apart, but for ids that
   were made for one row of the feed and brought by another. *)
Apart(e, feed) ==
  /\ \E m \in Nat : DOMAIN e = 1..m
  /\ \A d, f \in DOMAIN e : e[d].id = e[f].id => d = f \/ Clashes(feed, e[d].id)

LEMMA IngestedApart ==
  ASSUME NEW n \in Nat, NEW feed \in [1..n -> Record]
  PROVE  Apart(Ingested(feed), feed)
<1> DEFINE all == [i \in 1..n |-> i]
           named == Named(feed)
           rows == Keep(all, named)
<1>1. all \in Seq(1..n) /\ Len(all) = n /\ \A i \in 1..n : all[i] = i
  OBVIOUS
<1>2. DOMAIN feed = 1..n /\ named \subseteq 1..n
  BY DEF Named
<1> HIDE DEF all, named
<1>3. rows \in Seq((1..n) \cap named)
  BY <1>1, KeepPlaces
<1>4. PICK p : Places(p, all, named)
  BY <1>1, KeepPlaces
<1>5. /\ p \in [1..Len(rows) -> 1..n]
      /\ \A k \in 1..Len(rows) : rows[k] = all[p[k]]
      /\ \A j, k \in 1..Len(rows) : j < k => p[j] < p[k]
  BY <1>1, <1>4 DEF Places
<1>6. Ingested(feed) = [k \in DOMAIN rows |->
                          [id |-> EntryId(feed, rows[k]), source |-> feed[rows[k]].source,
                           type |-> EntityType(feed[rows[k]].type)]]
  BY <1>2 DEF Ingested, all, named
<1> HIDE DEF rows
<1>7. Len(rows) \in Nat /\ DOMAIN rows = 1..Len(rows)
      /\ \A k \in 1..Len(rows) : rows[k] \in named
  BY <1>3
<1>8. \A j, k \in 1..Len(rows) : j < k => rows[j] < rows[k]
  BY <1>1, <1>5
<1>9. ASSUME NEW j \in 1..Len(rows), NEW k \in 1..Len(rows), j < k,
             EntryId(feed, rows[j]) = EntryId(feed, rows[k])
      PROVE  Clashes(feed, EntryId(feed, rows[j]))
  BY <1>7, <1>8, <1>9, EntryIdsDiffer DEF named
<1>10. ASSUME NEW j \in 1..Len(rows), NEW k \in 1..Len(rows),
              EntryId(feed, rows[j]) = EntryId(feed, rows[k])
       PROVE  j = k \/ Clashes(feed, EntryId(feed, rows[j]))
  <2>1. CASE j < k
    BY <1>9, <1>10, <2>1
  <2>2. CASE k < j
    <3>1. Clashes(feed, EntryId(feed, rows[k]))
      BY <1>9, <1>10, <2>2
    <3> QED BY <1>10, <3>1
  <2> QED BY <2>1, <2>2
<1> DEFINE e == Ingested(feed)
<1>11. DOMAIN e = 1..Len(rows) /\ \A k \in 1..Len(rows) : e[k].id = EntryId(feed, rows[k])
  BY <1>6, <1>7
<1> HIDE DEF e
<1>12. \A j, k \in DOMAIN e : e[j].id = e[k].id => j = k \/ Clashes(feed, e[j].id)
  BY <1>10, <1>11
<1>13. Apart(e, feed)
  BY <1>7, <1>11, <1>12 DEF Apart
<1> QED BY <1>13 DEF e
-----------------------------------------------------------------------------
(* The requests that reach the engine. *)
Routes == {"search", "ofac", "pep"}

Asks == [sources : {Merged(route, s) : route \in Routes, s \in Sources}, types : Types,
         fuzzy : BOOLEAN, limit : Limits]

(* What a screening is answered from: the entries of the feed, told apart as far as
   their ids tell them, and the candidates of the query, each once. *)
SInv ==
  /\ stage \in {"feed", "indexed", "answered"}
  /\ Apart(entries, published)
  /\ Answered => /\ fit \in [DOMAIN entries -> Fit] /\ ask \in Asks
                 /\ order \in Orders(fit, Candidates(fit, ask))

LEMMA SInitInv == Init => SInv
<1> SUFFICES ASSUME Init PROVE SInv
  OBVIOUS
<1>1. Apart(entries, published)
  <2>1. entries = <<>> /\ DOMAIN entries = 1..0 /\ DOMAIN entries = {}
    BY DEF Init
  <2> QED BY <2>1 DEF Apart
<1> QED BY <1>1 DEF Init, SInv, Answered

LEMMA SNextInv == SInv /\ [Next]_vars => SInv'
<1> SUFFICES ASSUME SInv, [Next]_vars PROVE SInv'
  OBVIOUS
<1>1. CASE Ingest
  <2>1. PICK n \in 0..FeedSize : published' \in [1..n -> Record]
    BY <1>1 DEF Ingest
  <2>2. entries' = Ingested(published') /\ n \in Nat
    BY <1>1, <2>1, ScreeningAssumption DEF Ingest
  <2>3. Apart(entries', published')
    BY <2>1, <2>2, IngestedApart
  <2> QED BY <1>1, <2>3 DEF Ingest, SInv, Answered
<1>2. CASE Search
  <2>1. Apart(entries', published') /\ stage' = "answered" /\ entries' = entries
    BY <1>2 DEF Search, SInv
  <2>2. fit' \in [DOMAIN entries' -> Fit] /\ order' \in Orders(fit', Candidates(fit', ask'))
    BY <1>2, <2>1 DEF Search
  <2>3. ask' \in Asks
    BY <1>2 DEF Search, Asks, Routes
  <2> QED BY <2>1, <2>2, <2>3 DEF SInv
<1>3. CASE UNCHANGED vars
  BY <1>3 DEF SInv, vars, Answered
<1> QED BY <1>1, <1>2, <1>3 DEF Next

LEMMA SInvHolds == Spec => []SInv
BY SInitInv, SNextInv, PTL DEF Spec

(* The hits before the page is cut. *)
Passing(a) == {d \in DOMAIN entries : Passes(d, a)}
Kept(a) == Keep(Reranked, Passing(a))
Shown(a) == ByScore(Kept(a))

(* The candidates in their order, all of them, each once. *)
LEMMA OrderIs ==
  ASSUME SInv, Answered
  PROVE  /\ order \in Seq(DOMAIN entries)
         /\ \A d \in Candidates(fit, ask) : \E i \in DOMAIN order : order[i] = d
<1> DEFINE docs == Candidates(fit, ask)
           n == Cardinality(docs)
<1>1. PICK m \in Nat : DOMAIN entries = 1..m
  BY DEF SInv, Apart
<1>2. DOMAIN fit = DOMAIN entries
  BY DEF SInv
<1>3. docs \in SUBSET (1..m) /\ IsFiniteSet(1..m)
  BY <1>1, <1>2, FS_Interval DEF Candidates
<1>4. IsFiniteSet(docs) /\ n \in Nat
  BY <1>3, FS_Subset, FS_CardinalityType
<1>5. order \in [1..n -> docs] /\ IsInjective(order)
  BY DEF SInv, Orders
<1> HIDE DEF docs
<1>6. IsFiniteSet(1..n) /\ Cardinality(1..n) = n
  <2> HIDE DEF n
  <2> QED BY <1>4, FS_Interval
<1>7. order \in Surjection(1..n, docs)
  <2>1. order \in Injection(1..n, docs)
    BY <1>5 DEF Injection
  <2> QED BY <1>4, <1>6, <2>1, FS_Injection
<1>8. \A d \in docs : \E i \in 1..n : order[i] = d
  BY <1>7 DEF Surjection
<1> HIDE DEF n
<1>9. order \in Seq(DOMAIN entries) /\ DOMAIN order = 1..n
  <2>1. DOMAIN order = 1..n /\ n \in Nat
    BY <1>4, <1>5
  <2>2. docs \subseteq DOMAIN entries
    BY <1>1, <1>3
  <2>3. order \in [1..n -> DOMAIN entries]
    BY <1>5, <2>2
  <2> HIDE DEF n
  <2> QED BY <2>1, <2>3
<1> QED BY <1>8, <1>9 DEF docs

LEMMA RerankedIs ==
  ASSUME SInv, Answered
  PROVE  /\ Reranked \in Seq(DOMAIN entries)
         /\ Len(order) <= TopK =>
              \A d \in Candidates(fit, ask) : \E i \in DOMAIN Reranked : Reranked[i] = d
<1>1. order \in Seq(DOMAIN entries) /\ TopK \in Nat
  BY OrderIs, ScreeningAssumption
<1>2. /\ Reranked \in Seq(DOMAIN entries)
      /\ Len(order) <= TopK => Len(Reranked) = Len(order)
      /\ \A i \in 1..Len(Reranked) : Reranked[i] = order[i]
  BY <1>1, CutIs DEF Reranked
<1>3. ASSUME Len(order) <= TopK, NEW d \in Candidates(fit, ask)
      PROVE  \E i \in DOMAIN Reranked : Reranked[i] = d
  <2>1. PICK i \in DOMAIN order : order[i] = d
    BY OrderIs
  <2>2. i \in 1..Len(Reranked) /\ DOMAIN Reranked = 1..Len(Reranked)
    BY <1>1, <1>2, <1>3
  <2> QED BY <1>2, <2>1, <2>2
<1> QED BY <1>2, <1>3

LEMMA BlendedTyped ==
  ASSUME SInv, Answered, NEW d \in DOMAIN entries
  PROVE  fit[d] \in Fit /\ fit[d].jw \in 0..100 /\ Blended(d) \in Int
<1>1. fit[d] \in Fit
  BY DEF SInv
<1>2. fit[d].jw \in 0..100 /\ fit[d].bm \in 0..100
  BY <1>1, ScreeningAssumption
<1> DEFINE jw == fit[d].jw
           bm == fit[d].bm
<1>3. jw \in Int /\ bm \in Int
  BY <1>2
<1>4. Blended(d) = 7 * jw + 3 * bm
  BY DEF Blended
<1>5. Blended(d) \in Int
  <2> HIDE DEF jw, bm
  <2> QED BY <1>3, <1>4
<1> QED BY <1>1, <1>2, <1>5

LEMMA ShownIs ==
  ASSUME SInv, Answered, NEW a
  PROVE  /\ Kept(a) \in Seq(Passing(a)) /\ Shown(a) \in Seq(Passing(a))
         /\ Sorted(Kept(a), Shown(a))
<1>1. Reranked \in Seq(DOMAIN entries)
  BY RerankedIs
<1>2. Kept(a) \in Seq(DOMAIN entries \cap Passing(a))
  BY <1>1, KeepPlaces DEF Kept
<1>3. Kept(a) \in Seq(Passing(a))
  BY <1>2
<1>4. \A i \in DOMAIN Kept(a) : Kept(a)[i] \in DOMAIN entries
  BY <1>3 DEF Passing
<1>5. \A i \in DOMAIN Kept(a) : Blended(Kept(a)[i]) \in Int
  BY <1>4, BlendedTyped
<1> QED BY <1>3, <1>5, ByScoreSorts DEF Shown

(* How many hits the request asks for, at least one. *)
Page(a) == AtLeastOne(a.limit)

LEMMA HitsIs ==
  ASSUME SInv, Answered, NEW a, a.limit \in Limits
  PROVE  /\ Page(a) \in Nat \ {0}
         /\ Hits(a) = Cut(Shown(a), Page(a)) /\ Hits(a) \in Seq(Passing(a))
         /\ Len(Hits(a)) = IF Page(a) <= Len(Shown(a)) THEN Page(a) ELSE Len(Shown(a))
         /\ \A i \in 1..Len(Hits(a)) : Hits(a)[i] = Shown(a)[i]
<1>1. Page(a) \in Nat \ {0}
  <2> DEFINE l == a.limit
  <2>1. l \in Nat /\ Page(a) = IF l = 0 THEN 1 ELSE l
    BY ScreeningAssumption DEF Page, AtLeastOne
  <2> HIDE DEF l
  <2> QED BY <2>1
<1>2. Hits(a) = Cut(Shown(a), Page(a))
  BY DEF Hits, Shown, Kept, Passing, Page
<1>3. Shown(a) \in Seq(Passing(a))
  BY ShownIs
<1> QED BY <1>1, <1>2, <1>3, CutIs

(* Each hit's tags, citation and page are those of the record that was scored,
   whatever feed the list was made of: repeated ids, missing ones, ids that look
   like those the code makes.  Only hits whose id was made for one row and brought
   along by another are excepted. *)
THEOREM HitIsItselfHolds == Spec => []HitIsItself
<1>1. SInv => HitIsItself
  <2>1. SUFFICES ASSUME SInv, Answered, NEW d \in ToSet(Hits(ask)), ~ Clashes(published, entries[d].id)
                 PROVE  Snapshot(d) = d /\ EntryPage(d) = d
    BY DEF HitIsItself
  <2>2. ask.limit \in Limits
    BY <2>1 DEF SInv, Asks
  <2>3. Hits(ask) \in Seq(Passing(ask))
    BY <2>1, <2>2, HitsIs
  <2>4. d \in DOMAIN entries
    BY <2>1, <2>3 DEF ToSet, Passing
  <2>5. {x \in DOMAIN entries : entries[x].id = entries[d].id} = {d}
    BY <2>1, <2>4 DEF SInv, Apart
  <2>6. d \in Int
    BY <2>1, <2>4 DEF SInv, Apart
  <2>7. (CHOOSE x \in {d} : \A y \in {d} : x >= y) = d /\ (CHOOSE x \in {d} : \A y \in {d} : x <= y) = d
    BY <2>6
  <2> QED BY <2>5, <2>7 DEF Snapshot, EntryPage, ById, CslGet, Max, Min
<1> QED BY <1>1, SInvHolds, PTL

(* Nobody is blocked at once but for an exact match among the hits shown, of
   the lists and types asked for. *)
THEOREM BlockShowsExactHolds == Spec => []BlockShowsExact
<1>1. SInv => BlockShowsExact
  <2>1. SUFFICES ASSUME SInv, Answered, Decision(ask) = "auto-block"
                 PROVE  \E d \in ToSet(Hits(ask)) : Exact(d) /\ Passes(d, ask)
    BY DEF BlockShowsExact
  <2> DEFINE X == {d \in DOMAIN entries : Exact(d)}
             exact == Keep(Reranked, X)
  <2>2. ExactAliasMatch(ask)
    BY <2>1 DEF Decision
  <2>3. exact # <<>> /\ exact[1] \in ToSet(Hits(ask))
    BY <2>2 DEF ExactAliasMatch
  <2>4. exact \in Seq(X)
    <3>1. Reranked \in Seq(DOMAIN entries)
      BY <2>1, RerankedIs
    <3>2. exact \in Seq(DOMAIN entries \cap X)
      BY <3>1, KeepPlaces
    <3> QED BY <3>2
  <2> HIDE DEF exact
  <2>5. exact[1] \in X
    BY <2>3, <2>4
  <2>6. Hits(ask) \in Seq(Passing(ask))
    BY <2>1, HitsIs DEF SInv, Asks
  <2>7. exact[1] \in Passing(ask)
    BY <2>3, <2>6 DEF ToSet
  <2> QED BY <2>3, <2>5, <2>7 DEF Passing
<1> QED BY <1>1, SInvHolds, PTL

(* Whoever is on the list under the very name asked for is blocked at once,
   when nothing is filtered, cut or left to the words alone. *)
THEOREM ExactBlocksHolds == Spec => []ExactBlocks
<1>1. SInv => ExactBlocks
  <2>1. SUFFICES ASSUME SInv, Answered, ask.fuzzy, ask.sources = All, ask.types = All,
                        Len(order) <= TopK, Len(order) <= ask.limit,
                        NEW d \in DOMAIN entries, Exact(d)
                 PROVE  Decision(ask) = "auto-block"
    BY DEF ExactBlocks
  <2> DEFINE X == {x \in DOMAIN entries : Exact(x)}
             exact == Keep(Reranked, X)
  (* The record is a candidate, and stays one. *)
  <2>2. d \in Candidates(fit, ask)
    <3>1. fit[d] \in Fit /\ d \in DOMAIN fit /\ fit[d].jw = 100
      BY <2>1 DEF SInv, Exact
    <3>2. fit[d].bm > 0 \/ fit[d].near
      BY <3>1, ScreeningAssumption
    <3> QED BY <2>1, <3>1, <3>2 DEF Candidates
  <2>3. Reranked \in Seq(DOMAIN entries)
    BY <2>1, RerankedIs
  <2>4. PICK r \in DOMAIN Reranked : Reranked[r] = d
    BY <2>1, <2>2, RerankedIs
  <2>5. exact \in Seq(X) /\ exact # <<>>
    <3>1. exact \in Seq(DOMAIN entries \cap X)
      BY <2>3, KeepPlaces
    <3>2. d \in X
      BY <2>1
    <3>3. \E k \in DOMAIN exact : exact[k] = d
      <4> HIDE DEF X
      <4>1. Reranked[r] \in X /\ r \in DOMAIN Reranked
        BY <2>4, <3>2
      <4>2. \E k \in DOMAIN exact : exact[k] = Reranked[r]
        BY <2>3, <4>1, KeepAll, SMTT(30)
      <4> QED BY <2>4, <4>2
    <3> HIDE DEF exact
    <3> QED BY <3>1, <3>3
  <2>6. PICK i \in DOMAIN Reranked : exact[1] = Reranked[i]
    <3>1. \A k \in DOMAIN exact : \E j \in DOMAIN Reranked : exact[k] = Reranked[j]
      <4> HIDE DEF X
      <4> QED BY <2>3, KeepAll
    <3> HIDE DEF exact
    <3>2. 1 \in DOMAIN exact
      BY <2>5
    <3> QED BY <3>1, <3>2
  <2> HIDE DEF exact
  (* No filter and no cut takes it off the page. *)
  <2>7. Passing(ask) = DOMAIN entries
    BY <2>1 DEF Passing, Passes
  <2>8. Shown(ask) \in Seq(DOMAIN entries) /\ Kept(ask) \in Seq(DOMAIN entries)
        /\ Sorted(Kept(ask), Shown(ask))
    BY <2>1, <2>7, ShownIs
  <2>9. \E k \in DOMAIN Kept(ask) : Kept(ask)[k] = Reranked[i]
    <3>1. Reranked[i] \in Passing(ask)
      BY <2>3, <2>6, <2>7
    <3> QED BY <2>3, <3>1, KeepAll DEF Kept
  <2>10. PICK k \in DOMAIN Shown(ask) : Shown(ask)[k] = exact[1]
    BY <2>6, <2>8, <2>9 DEF Sorted
  <2>11. Len(Shown(ask)) <= Len(order)
    <3>1. Len(Kept(ask)) <= Len(Reranked)
      BY <2>3, KeepAll DEF Kept
    <3>2. Len(Reranked) <= Len(order)
      <4>1. order \in Seq(DOMAIN entries) /\ TopK \in Nat
        BY <2>1, OrderIs, ScreeningAssumption
      <4>2. Len(Reranked) = IF TopK <= Len(order) THEN TopK ELSE Len(order)
        BY <4>1, CutIs DEF Reranked
      <4> QED BY <4>1, <4>2
    <3>3. Len(Shown(ask)) = Len(Kept(ask))
      BY <2>8 DEF Sorted
    <3>4. Len(Kept(ask)) \in Int /\ Len(Reranked) \in Int /\ Len(order) \in Int
      <4>1. order \in Seq(DOMAIN entries)
        BY <2>1, OrderIs
      <4> QED BY <2>3, <2>8, <4>1
    <3> QED BY <3>1, <3>2, <3>3, <3>4
  <2>12. Hits(ask)[k] = Shown(ask)[k] /\ k \in DOMAIN Hits(ask)
    <3>1. ask.limit \in Limits
      BY <2>1 DEF SInv, Asks
    <3>2. /\ Hits(ask) \in Seq(Passing(ask)) /\ Page(ask) \in Nat
          /\ Len(Hits(ask)) = IF Page(ask) <= Len(Shown(ask)) THEN Page(ask) ELSE Len(Shown(ask))
          /\ \A j \in 1..Len(Hits(ask)) : Hits(ask)[j] = Shown(ask)[j]
      BY <2>1, <3>1, HitsIs
    <3>3. Len(Shown(ask)) <= Page(ask)
      <4> DEFINE l == ask.limit
      <4>1. l \in Nat /\ Page(ask) = (IF l = 0 THEN 1 ELSE l) /\ Len(order) <= l
        BY <2>1, <3>1, ScreeningAssumption DEF Page, AtLeastOne
      <4>2. Len(order) \in Nat /\ Len(Shown(ask)) \in Nat
        BY <2>1, <2>8, OrderIs
      <4> HIDE DEF l
      <4> QED BY <2>11, <4>1, <4>2
    <3>4. Len(Hits(ask)) = Len(Shown(ask)) /\ k \in 1..Len(Shown(ask))
      BY <2>8, <2>10, <3>2, <3>3
    <3> QED BY <3>2, <3>4
  <2>13. ExactAliasMatch(ask)
    <3>1. exact[1] \in ToSet(Hits(ask))
      BY <2>10, <2>12 DEF ToSet
    <3> QED BY <2>5, <3>1 DEF ExactAliasMatch, exact
  <2> QED BY <2>13 DEF Decision, Light
<1> QED BY <1>1, SInvHolds, PTL

(* A larger page of the same answer begins with the smaller one. *)
LEMMA WiderHits ==
  ASSUME SInv, Answered, NEW n \in Limits, n >= ask.limit
  PROVE  LET wider == [ask EXCEPT !.limit = n]
         IN /\ IsPrefix(Hits(ask), Hits(wider))
            /\ ToSet(Hits(ask)) \subseteq ToSet(Hits(wider))
            /\ Hits(ask) = <<>> => Hits(wider) = <<>>
            /\ Hits(ask) # <<>> => Hits(wider) # <<>> /\ Hits(wider)[1] = Hits(ask)[1]
<1> DEFINE wider == [ask EXCEPT !.limit = n]
           small == Hits(ask)
           large == Hits(wider)
           l == ask.limit
<1>1. ask \in Asks /\ l \in Limits
  BY DEF SInv, Asks
<1>2. wider.limit = n /\ wider.sources = ask.sources /\ wider.types = ask.types
  BY <1>1 DEF Asks
<1>3. n \in Nat /\ l \in Nat /\ l <= n
  BY <1>1, ScreeningAssumption
<1>4. Page(ask) = (IF l = 0 THEN 1 ELSE l) /\ Page(wider) = (IF n = 0 THEN 1 ELSE n)
  BY <1>2 DEF Page, AtLeastOne
<1>5. Passing(wider) = Passing(ask)
  BY <1>2 DEF Passing, Passes
<1>6. Shown(wider) = Shown(ask)
  BY <1>5 DEF Shown, Kept
<1>7. wider.limit \in Limits
  BY <1>2
<1> HIDE DEF wider
<1>8. /\ small \in Seq(Passing(ask))
      /\ Len(small) = IF Page(ask) <= Len(Shown(ask)) THEN Page(ask) ELSE Len(Shown(ask))
      /\ \A i \in 1..Len(small) : small[i] = Shown(ask)[i]
  BY <1>1, HitsIs
<1>9. /\ large \in Seq(Passing(ask))
      /\ Len(large) = IF Page(wider) <= Len(Shown(ask)) THEN Page(wider) ELSE Len(Shown(ask))
      /\ \A i \in 1..Len(large) : large[i] = Shown(ask)[i]
  BY <1>5, <1>6, <1>7, HitsIs
<1>10. Len(Shown(ask)) \in Nat
  BY ShownIs
<1> HIDE DEF small, large, l
<1>11. Page(ask) \in Nat \ {0} /\ Page(wider) \in Nat \ {0} /\ Page(ask) <= Page(wider)
  BY <1>3, <1>4
<1>12. /\ Len(small) \in Nat /\ Len(large) \in Nat /\ Len(small) <= Len(large)
       /\ Len(small) = 0 => Len(large) = 0
  BY <1>8, <1>9, <1>10, <1>11
<1>13. \A i \in 1..Len(small) : i \in 1..Len(large) /\ small[i] = large[i]
  BY <1>8, <1>9, <1>12
<1>14. IsPrefix(small, large)
  <2>1. SubSeq(small, 1, Len(small)) = SubSeq(large, 1, Len(small))
    BY <1>8, <1>9, <1>12, <1>13
  <2> QED BY <1>12, <2>1 DEF IsPrefix
<1>15. ToSet(small) \subseteq ToSet(large)
  BY <1>8, <1>9, <1>13 DEF ToSet
<1>16. small = <<>> => large = <<>>
  BY <1>8, <1>9, <1>12
<1>17. small # <<>> => large # <<>> /\ large[1] = small[1]
  BY <1>8, <1>9, <1>12, <1>13
<1> QED BY <1>14, <1>15, <1>16, <1>17 DEF small, large, wider

(* A larger page of the same search never looks cleaner, and shows what the
   smaller one shows. *)
THEOREM LargerPageNotCleanerHolds == Spec => []LargerPageNotCleaner
<1>1. SInv => LargerPageNotCleaner
  <2>1. SUFFICES ASSUME SInv, Answered, NEW n \in Limits, n >= ask.limit
                 PROVE  LET wider == [ask EXCEPT !.limit = n]
                        IN /\ IsPrefix(Hits(ask), Hits(wider))
                           /\ ExactAliasMatch(ask) => ExactAliasMatch(wider)
                           /\ Light(ask) = "red" => Light(wider) = "red"
    BY DEF LargerPageNotCleaner
  <2> DEFINE wider == [ask EXCEPT !.limit = n]
  <2>2. /\ IsPrefix(Hits(ask), Hits(wider))
        /\ ToSet(Hits(ask)) \subseteq ToSet(Hits(wider))
        /\ Hits(ask) = <<>> => Hits(wider) = <<>>
        /\ Hits(ask) # <<>> => Hits(wider) # <<>> /\ Hits(wider)[1] = Hits(ask)[1]
    BY <2>1, WiderHits
  <2> HIDE DEF wider
  <2>3. ExactAliasMatch(ask) => ExactAliasMatch(wider)
    BY <2>2 DEF ExactAliasMatch
  <2>4. Light(ask) = "red" => Light(wider) = "red"
    BY <2>2, <2>3 DEF Light
  <2> QED BY <2>2, <2>3, <2>4 DEF wider
<1> QED BY <1>1, SInvHolds, PTL
=============================================================================
