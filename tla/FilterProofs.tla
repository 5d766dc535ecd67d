---------------------------- MODULE FilterProofs ----------------------------
(***************************************************************************)
(* Lemmas about Keep, by induction on the length of a sequence.  Induction *)
(* is on sets of numbers and of sequences, from the least number principle *)
(* of WellFoundedInduction.                                                *)
(***************************************************************************)
EXTENDS Filter, Integers, WellFoundedInduction, FiniteSetTheorems, TLAPS

(* A set of natural numbers has a least member. *)
LEMMA LeastNumber ==
  ASSUME NEW T, T \subseteq Nat, T # {}
  PROVE  \E n \in T : \A m \in T : n <= m
<1> DEFINE R == OpToRel(<, Nat)
<1>1. IsWellFoundedOn(R, Nat)
  BY NatLessThanWellFounded
<1>2. \A x, y \in Nat : y < x => <<y, x>> \in R
  BY DEF OpToRel
<1> HIDE DEF R
<1>3. PICK n \in T : \A m \in T : ~ (<<m, n>> \in R)
  BY <1>1, WFMin
<1>4. ASSUME NEW m \in T PROVE n <= m
  <2>1. m \in Nat /\ n \in Nat
    OBVIOUS
  <2>2. ~ (m < n)
    BY <1>2, <1>3, <2>1
  <2> QED BY <2>1, <2>2
<1> QED BY <1>4

(* A set that holds 0, and with a number the next, holds all numbers. *)
LEMMA NumberInduction ==
  ASSUME NEW T, 0 \in T, \A n \in Nat : n \in T => n + 1 \in T
  PROVE  Nat \subseteq T
<1>1. SUFFICES ASSUME Nat \ T # {} PROVE FALSE
  OBVIOUS
<1>2. PICK n \in Nat \ T : \A m \in Nat \ T : n <= m
  BY <1>1, LeastNumber
<1>3. n # 0 /\ n - 1 \in Nat /\ n - 1 \in T
  BY <1>2
<1> QED BY <1>3

(* The same for sequences: what holds the empty one, and with a sequence every
   longer one, holds all of them. *)
LEMMA SequenceInduction ==
  ASSUME NEW S, NEW Q, <<>> \in Q,
         \A s \in Seq(S) : \A x \in S : s \in Q => Append(s, x) \in Q
  PROVE  Seq(S) \subseteq Q
<1> DEFINE T == {n \in Nat : \A s \in Seq(S) : Len(s) = n => s \in Q}
<1>1. 0 \in T
  OBVIOUS
<1>2. ASSUME NEW n \in Nat, n \in T PROVE n + 1 \in T
  <2>1. SUFFICES ASSUME NEW s \in Seq(S), Len(s) = n + 1 PROVE s \in Q
    OBVIOUS
  <2> DEFINE t == SubSeq(s, 1, n)
  <2>2. t \in Seq(S) /\ Len(t) = n /\ s[n + 1] \in S
    BY <2>1
  <2>3. s = Append(t, s[n + 1])
    BY <2>1
  <2>4. t \in Q
    BY <1>2, <2>2
  <2> QED BY <2>2, <2>3, <2>4
<1> HIDE DEF T
<1>3. Nat \subseteq T
  BY <1>1, <1>2, NumberInduction
<1> QED BY <1>3 DEF T
-----------------------------------------------------------------------------
(* f is the function that Keep is defined by, up to n. *)
Keeps(f, s, T, n) ==
  f = [i \in 0..n |->
         IF i = 0 THEN <<>>
         ELSE IF s[i] \in T THEN Append(f[i - 1], s[i]) ELSE f[i - 1]]

LEMMA KeepChosen ==
  ASSUME NEW s, NEW T
  PROVE  Keep(s, T) = (CHOOSE f : Keeps(f, s, T, Len(s)))[Len(s)]
BY DEF Keep, Keeps

LEMMA KeepsExists ==
  ASSUME NEW s, NEW T, NEW n \in Nat
  PROVE  \E f : Keeps(f, s, T, n)
<1> DEFINE N == {m \in Nat : \E f : Keeps(f, s, T, m)}
<1>1. 0 \in N
  <2>1. Keeps([i \in 0..0 |-> <<>>], s, T, 0)
    BY DEF Keeps
  <2> QED BY <2>1
<1>2. ASSUME NEW m \in Nat, m \in N PROVE m + 1 \in N
  <2>1. PICK f : Keeps(f, s, T, m)
    BY <1>2
  <2> DEFINE last == IF s[m + 1] \in T THEN Append(f[m], s[m + 1]) ELSE f[m]
             g == [i \in 0..(m + 1) |-> IF i = m + 1 THEN last ELSE f[i]]
  <2>2. \A i \in 0..(m + 1) : g[i] =
           IF i = 0 THEN <<>>
           ELSE IF s[i] \in T THEN Append(g[i - 1], s[i]) ELSE g[i - 1]
    <3> SUFFICES ASSUME NEW i \in 0..(m + 1)
                 PROVE  g[i] = IF i = 0 THEN <<>>
                               ELSE IF s[i] \in T THEN Append(g[i - 1], s[i]) ELSE g[i - 1]
      OBVIOUS
    <3>1. CASE i = m + 1
      <4>1. i # 0 /\ g[i] = last /\ g[i - 1] = f[m]
        BY <3>1
      <4> QED BY <3>1, <4>1
    <3>2. CASE i # m + 1 /\ i # 0
      <4>1. g[i] = f[i] /\ g[i - 1] = f[i - 1] /\ i \in 0..m
        BY <3>2
      <4>2. f[i] = IF s[i] \in T THEN Append(f[i - 1], s[i]) ELSE f[i - 1]
        BY <2>1, <3>2, <4>1 DEF Keeps
      <4> HIDE DEF g
      <4> QED BY <3>2, <4>1, <4>2
    <3>3. CASE i = 0
      <4>1. g[0] = f[0] /\ f[0] = <<>>
        BY <2>1 DEF Keeps
      <4> HIDE DEF g
      <4> QED BY <3>3, <4>1
    <3> QED BY <3>1, <3>2, <3>3
  <2>3. Keeps(g, s, T, m + 1)
    BY <2>2 DEF Keeps
  <2> QED BY <2>3
<1> HIDE DEF N
<1>3. Nat \subseteq N
  BY <1>1, <1>2, NumberInduction
<1> QED BY <1>3 DEF N

(* What it gives for i from what it gives for the number before. *)
Step(f, s, T, i) == f[i] = IF s[i] \in T THEN Append(f[i - 1], s[i]) ELSE f[i - 1]

LEMMA KeepsValue ==
  ASSUME NEW s, NEW T, NEW n \in Nat, NEW f, Keeps(f, s, T, n)
  PROVE  f[0] = <<>> /\ \A i \in 1..n : Step(f, s, T, i)
<1> DEFINE g == [i \in 0..n |->
                   IF i = 0 THEN <<>>
                   ELSE IF s[i] \in T THEN Append(f[i - 1], s[i]) ELSE f[i - 1]]
<1>1. f = g
  BY DEF Keeps
<1>2. g[0] = <<>>
  OBVIOUS
<1>3. \A i \in 1..n : g[i] = IF s[i] \in T THEN Append(f[i - 1], s[i]) ELSE f[i - 1]
  OBVIOUS
<1> HIDE DEF g
<1> QED BY <1>1, <1>2, <1>3 DEF Step

(* The two are the same at these places. *)
Agree(f, g, places) == \A i \in places : f[i] = g[i]

(* Two such functions agree as far as both their sequences do. *)
LEMMA KeepsAgree ==
  ASSUME NEW s, NEW t, NEW T, NEW m \in Nat, NEW n \in Nat, m <= n,
         Agree(s, t, 1..m),
         NEW f, Keeps(f, s, T, m), NEW g, Keeps(g, t, T, n)
  PROVE  Agree(f, g, 0..m)
<1> DEFINE N == {i \in Nat : i <= m => f[i] = g[i]}
<1>a. f[0] = <<>> /\ \A i \in 1..m : Step(f, s, T, i)
  BY KeepsValue, Zenon
<1>b. g[0] = <<>> /\ \A i \in 1..n : Step(g, t, T, i)
  BY KeepsValue, Zenon
<1>1. 0 \in N
  BY <1>a, <1>b
<1>2. ASSUME NEW i \in Nat, i \in N PROVE i + 1 \in N
  <2>1. SUFFICES ASSUME i + 1 <= m PROVE f[i + 1] = g[i + 1]
    OBVIOUS
  <2>0. i + 1 \in 1..m /\ i + 1 \in 1..n /\ (i + 1) - 1 = i
    BY <2>1
  <2>2. f[i] = g[i] /\ s[i + 1] = t[i + 1]
    BY <1>2, <2>1 DEF Agree
  <2>3. f[i + 1] = IF s[i + 1] \in T THEN Append(f[i], s[i + 1]) ELSE f[i]
    BY <2>0, <1>a DEF Step
  <2>4. g[i + 1] = IF t[i + 1] \in T THEN Append(g[i], t[i + 1]) ELSE g[i]
    BY <2>0, <1>b DEF Step
  <2> QED BY <2>2, <2>3, <2>4
<1> HIDE DEF N
<1>3. Nat \subseteq N
  BY <1>1, <1>2, NumberInduction
<1> QED BY <1>3 DEF N, Agree

(* Nothing is kept of the empty sequence ... *)
LEMMA KeepEmpty == \A T : Keep(<<>>, T) = <<>>
<1> SUFFICES ASSUME NEW T PROVE Keep(<<>>, T) = <<>>
  OBVIOUS
<1> DEFINE f == CHOOSE f : Keeps(f, <<>>, T, 0)
<1>1. Keeps(f, <<>>, T, 0)
  <2>1. \E h : Keeps(h, <<>>, T, 0)
    BY KeepsExists
  <2> QED BY <2>1
<1> HIDE DEF f
<1>2. f[0] = <<>>
  BY <1>1, KeepsValue, Zenon
<1>3. Keep(<<>>, T) = (CHOOSE h : Keeps(h, <<>>, T, Len(<<>>)))[Len(<<>>)]
  BY KeepChosen, Zenon
<1> QED BY <1>2, <1>3 DEF f

(* ... and of a longer one what is kept of the shorter, with the last if it is
   a member. *)
LEMMA KeepAppend ==
  ASSUME NEW S, NEW s \in Seq(S), NEW x \in S, NEW T
  PROVE  Keep(Append(s, x), T) = IF x \in T THEN Append(Keep(s, T), x) ELSE Keep(s, T)
<1> DEFINE t == Append(s, x)
           n == Len(s)
           f == CHOOSE f : Keeps(f, s, T, n)
           g == CHOOSE g : Keeps(g, t, T, n + 1)
<1>1. n \in Nat /\ Len(t) = n + 1 /\ t[n + 1] = x /\ \A i \in 1..n : s[i] = t[i]
  OBVIOUS
<1>2. Keep(s, T) = f[n] /\ Keep(t, T) = g[n + 1]
  BY <1>1, KeepChosen
<1> HIDE DEF t, n
<1>3. Keeps(f, s, T, n) /\ Keeps(g, t, T, n + 1)
  <2>1. n + 1 \in Nat
    BY <1>1
  <2>2. (\E h : Keeps(h, s, T, n)) /\ \E h : Keeps(h, t, T, n + 1)
    BY <1>1, <2>1, KeepsExists, Zenon
  <2> QED BY <2>1, <2>2
<1> HIDE DEF f, g
<1>4. f[n] = g[n]
  <2> DEFINE m == n + 1
  <2>1. m \in Nat /\ n \in Nat /\ n <= m /\ n \in 0..n
    BY <1>1
  <2>2. Agree(s, t, 1..n)
    BY <1>1 DEF Agree
  <2>3. Keeps(f, s, T, n) /\ Keeps(g, t, T, m)
    BY <1>3
  <2> HIDE DEF m
  <2>4. Agree(f, g, 0..n)
    BY <2>1, <2>2, <2>3, KeepsAgree, Zenon
  <2> QED BY <2>1, <2>4 DEF Agree
<1>5. g[n + 1] = IF x \in T THEN Append(g[n], x) ELSE g[n]
  <2>1. n + 1 \in Nat /\ n + 1 \in 1..(n + 1) /\ (n + 1) - 1 = n
    BY <1>1
  <2>2. Step(g, t, T, n + 1)
    BY <1>3, <2>1, KeepsValue, Zenon
  <2> QED BY <1>1, <2>1, <2>2 DEF Step
<1> USE DEF t
<1> QED BY <1>2, <1>4, <1>5
-----------------------------------------------------------------------------
(* p names the places of s that hold members of T, in their order. *)
Places(p, s, T) ==
  /\ p \in [1..Len(Keep(s, T)) -> 1..Len(s)]
  /\ \A k \in 1..Len(Keep(s, T)) : Keep(s, T)[k] = s[p[k]] /\ s[p[k]] \in T
  /\ \A j, k \in 1..Len(Keep(s, T)) : j < k => p[j] < p[k]
  /\ \A i \in 1..Len(s) : s[i] \in T => \E k \in 1..Len(Keep(s, T)) : p[k] = i

(* What is kept: the members, each from its place, in the order of the places. *)
LEMMA KeepPlaces ==
  ASSUME NEW S, NEW s \in Seq(S), NEW T
  PROVE  Keep(s, T) \in Seq(S \cap T) /\ \E p : Places(p, s, T)
<1> DEFINE Q == {q \in Seq(S) : Keep(q, T) \in Seq(S \cap T) /\ \E p : Places(p, q, T)}
<1>1. <<>> \in Q
  <2>1. Keep(<<>>, T) = <<>>
    BY KeepEmpty
  <2>2. Places(<<>>, <<>>, T)
    BY <2>1 DEF Places
  <2>3. <<>> \in Seq(S) /\ <<>> \in Seq(S \cap T)
    OBVIOUS
  <2> QED BY <2>1, <2>2, <2>3
<1>2. ASSUME NEW q \in Seq(S), NEW x \in S, q \in Q PROVE Append(q, x) \in Q
  <2> DEFINE r == Append(q, x)
             n == Len(q)
             k0 == Keep(q, T)
             k1 == Keep(r, T)
             h == Len(k0)
  <2>1. PICK p : Places(p, q, T)
    BY <1>2
  <2>2. /\ r \in Seq(S) /\ Len(r) = n + 1 /\ n \in Nat /\ r[n + 1] = x
        /\ \A i \in 1..n : r[i] = q[i]
    OBVIOUS
  <2>3. k1 = IF x \in T THEN Append(k0, x) ELSE k0
    BY KeepAppend
  <2>4. k0 \in Seq(S \cap T) /\ h \in Nat
    BY <1>2
  <2>5. /\ p \in [1..h -> 1..n]
        /\ \A k \in 1..h : k0[k] = q[p[k]] /\ q[p[k]] \in T
        /\ \A j, k \in 1..h : j < k => p[j] < p[k]
        /\ \A i \in 1..n : q[i] \in T => \E k \in 1..h : p[k] = i
    BY <2>1 DEF Places
  <2> HIDE DEF r, n, k0, k1, h
  <2>6. CASE x \in T
    <3> DEFINE o == [k \in 1..(h + 1) |-> IF k = h + 1 THEN n + 1 ELSE p[k]]
    <3>1. k1 \in Seq(S \cap T) /\ Len(k1) = h + 1 /\ k1[h + 1] = x
          /\ \A k \in 1..h : k1[k] = k0[k]
      BY <2>3, <2>4, <2>6 DEF h
    <3>2. o \in [1..(h + 1) -> 1..(n + 1)]
      BY <2>2, <2>4, <2>5
    <3>3. ASSUME NEW k \in 1..(h + 1) PROVE k1[k] = r[o[k]] /\ r[o[k]] \in T
      <4>1. CASE k = h + 1
        BY <2>2, <2>4, <2>6, <3>1, <4>1
      <4>2. CASE k # h + 1
        <5>1. k \in 1..h /\ o[k] = p[k] /\ p[k] \in 1..n
          BY <2>4, <2>5, <4>2
        <5> HIDE DEF o
        <5> QED BY <2>2, <2>5, <3>1, <5>1
      <4> QED BY <4>1, <4>2
    <3>4. \A j, k \in 1..(h + 1) : j < k => o[j] < o[k]
      BY <2>2, <2>4, <2>5
    <3>5. ASSUME NEW i \in 1..(n + 1), r[i] \in T PROVE \E k \in 1..(h + 1) : o[k] = i
      <4>1. CASE i = n + 1
        BY <2>4, <4>1
      <4>2. CASE i # n + 1
        <5>1. i \in 1..n /\ q[i] \in T
          BY <2>2, <3>5, <4>2
        <5>2. PICK k \in 1..h : p[k] = i
          BY <2>5, <5>1
        <5>3. k \in 1..(h + 1) /\ o[k] = i
          BY <2>4, <5>2
        <5> QED BY <5>3
      <4> QED BY <4>1, <4>2
    <3>6. Places(o, r, T)
      BY <2>2, <3>1, <3>2, <3>3, <3>4, <3>5 DEF Places, k1
    <3> QED BY <2>2, <3>1, <3>6 DEF k1, r
  <2>7. CASE x \notin T
    <3>1. k1 = k0
      BY <2>3, <2>7
    <3>2. \A i \in 1..(n + 1) : r[i] \in T => \E k \in 1..h : p[k] = i
      BY <2>2, <2>5, <2>7
    <3>3. p \in [1..h -> 1..(n + 1)]
      BY <2>2, <2>5
    <3>4. \A k \in 1..h : k1[k] = r[p[k]] /\ r[p[k]] \in T
      BY <2>2, <2>5, <3>1
    <3>5. Keep(r, T) = k1 /\ Len(k1) = h
      BY <3>1 DEF k1, h
    <3>6. Places(p, r, T)
      BY <2>2, <2>5, <3>2, <3>3, <3>4, <3>5 DEF Places
    <3> QED BY <2>2, <2>4, <3>1, <3>5, <3>6 DEF r
  <2> QED BY <2>6, <2>7
<1> HIDE DEF Q
<1>3. Seq(S) \subseteq Q
  BY <1>1, <1>2, SequenceInduction
<1> QED BY <1>3 DEF Q
-----------------------------------------------------------------------------
(* What is kept of what was kept is what is in both. *)
LEMMA KeepKeep ==
  ASSUME NEW S, NEW s \in Seq(S), NEW T, NEW U
  PROVE  Keep(Keep(s, T), U) = Keep(s, T \cap U)
<1> DEFINE Q == {q \in Seq(S) : Keep(Keep(q, T), U) = Keep(q, T \cap U)}
<1>1. <<>> \in Q
  <2>1. <<>> \in Seq(S)
    OBVIOUS
  <2> QED BY <2>1, KeepEmpty
<1>2. ASSUME NEW q \in Seq(S), NEW x \in S, q \in Q PROVE Append(q, x) \in Q
  <2>1. Keep(q, T) \in Seq(S)
    <3>1. Keep(q, T) \in Seq(S \cap T)
      BY KeepPlaces
    <3> QED BY <3>1
  <2>2. Keep(Append(q, x), T) = IF x \in T THEN Append(Keep(q, T), x) ELSE Keep(q, T)
    BY KeepAppend
  <2>3. Keep(Append(q, x), T \cap U)
          = IF x \in T \cap U THEN Append(Keep(q, T \cap U), x) ELSE Keep(q, T \cap U)
    BY KeepAppend
  <2>4. Keep(Append(Keep(q, T), x), U)
          = IF x \in U THEN Append(Keep(Keep(q, T), U), x) ELSE Keep(Keep(q, T), U)
    BY <2>1, KeepAppend
  <2>5. Keep(Keep(q, T), U) = Keep(q, T \cap U) /\ Append(q, x) \in Seq(S)
    BY <1>2
  <2> HIDE DEF Q
  <2>6. Keep(Keep(Append(q, x), T), U) = Keep(Append(q, x), T \cap U)
    <3>1. CASE x \notin T
      BY <2>2, <2>3, <2>5, <3>1, Zenon
    <3>2. CASE x \in T
      <4>1. Keep(Append(q, x), T) = Append(Keep(q, T), x) /\ (x \in T \cap U <=> x \in U)
        BY <2>2, <3>2
      <4> QED BY <2>3, <2>4, <2>5, <4>1, Zenon
    <3> QED BY <3>1, <3>2
  <2> QED BY <2>5, <2>6 DEF Q
<1> HIDE DEF Q
<1>3. Seq(S) \subseteq Q
  BY <1>1, <1>2, SequenceInduction
<1> QED BY <1>3 DEF Q

(* Nothing is kept of a sequence without members ... *)
LEMMA KeepNone ==
  ASSUME NEW S, NEW s \in Seq(S), NEW T, \A i \in DOMAIN s : s[i] \notin T
  PROVE  Keep(s, T) = <<>>
<1>1. PICK p : Places(p, s, T)
  BY KeepPlaces
<1>2. Keep(s, T) \in Seq(S \cap T)
  BY KeepPlaces
<1> DEFINE k == Keep(s, T)
<1>3. k \in Seq(S \cap T) /\ Len(k) \in Nat /\ p \in [1..Len(k) -> 1..Len(s)]
      /\ \A j \in 1..Len(k) : s[p[j]] \in T
  BY <1>1, <1>2 DEF Places
<1> HIDE DEF k
<1>4. Len(k) = 0
  BY <1>3
<1> QED BY <1>3, <1>4 DEF k

(* ... and of a sequence with one, the last that is kept is it or a later one. *)
LEMMA KeepLast ==
  ASSUME NEW S, NEW s \in Seq(S), NEW T, NEW i \in DOMAIN s, s[i] \in T
  PROVE  /\ Keep(s, T) # <<>> /\ Len(Keep(s, T)) \in DOMAIN Keep(s, T)
         /\ \E j \in i..Len(s) : s[j] \in T /\ Keep(s, T)[Len(Keep(s, T))] = s[j]
<1> DEFINE k == Keep(s, T)
           n == Len(k)
<1>1. PICK p : Places(p, s, T)
  BY KeepPlaces
<1>2. k \in Seq(S \cap T)
  BY KeepPlaces
<1>3. /\ p \in [1..n -> 1..Len(s)]
      /\ \A j \in 1..n : k[j] = s[p[j]] /\ s[p[j]] \in T
      /\ \A j, l \in 1..n : j < l => p[j] < p[l]
      /\ \A j \in 1..Len(s) : s[j] \in T => \E l \in 1..n : p[l] = j
  BY <1>1 DEF Places
<1> HIDE DEF k
<1>4. PICK m \in 1..n : p[m] = i
  BY <1>3
<1>5. n \in Nat /\ n \in 1..n
  BY <1>2, <1>4
<1>6. p[n] \in 1..Len(s) /\ i <= p[n]
  <2>1. CASE m = n
    BY <1>3, <1>4, <1>5, <2>1
  <2>2. CASE m < n
    BY <1>3, <1>4, <1>5, <2>2
  <2> QED BY <1>5, <2>1, <2>2
<1>7. k[n] = s[p[n]] /\ s[p[n]] \in T /\ k # <<>> /\ n \in DOMAIN k
  BY <1>2, <1>3, <1>5
<1> QED BY <1>6, <1>7 DEF k

(* Behind a kept member are at most as many as there are members after it. *)
LEMMA KeepRest ==
  ASSUME NEW S, NEW s \in Seq(S), NEW T, NEW i \in DOMAIN s, s[i] \in T
  PROVE  \E k \in 1..Len(Keep(s, T)) :
           /\ Keep(s, T)[k] = s[i]
           /\ Len(Keep(s, T)) - k <= Cardinality({j \in (i + 1)..Len(s) : s[j] \in T})
<1> DEFINE n == Len(Keep(s, T))
           L == {j \in (i + 1)..Len(s) : s[j] \in T}
<1>1. PICK p : Places(p, s, T)
  BY KeepPlaces
<1>2. Keep(s, T) \in Seq(S \cap T)
  BY KeepPlaces
<1>3. /\ p \in [1..n -> 1..Len(s)] /\ n \in Nat /\ Len(s) \in Nat /\ i \in 1..Len(s)
      /\ \A j \in 1..n : Keep(s, T)[j] = s[p[j]] /\ s[p[j]] \in T
      /\ \A j, l \in 1..n : j < l => p[j] < p[l]
      /\ \A j \in 1..Len(s) : s[j] \in T => \E l \in 1..n : p[l] = j
  BY <1>1, <1>2 DEF Places
<1>4. PICK k \in 1..n : p[k] = i
  BY <1>3
<1> HIDE DEF n
<1> DEFINE q == [l \in (k + 1)..n |-> p[l]]
<1>5. q \in Injection((k + 1)..n, L)
  <2>1. \A l \in (k + 1)..n : l \in 1..n /\ k < l /\ p[k] < p[l]
    BY <1>3, <1>4
  <2>2. q \in [(k + 1)..n -> L]
    BY <1>3, <1>4, <2>1
  <2>3. ASSUME NEW a \in (k + 1)..n, NEW b \in (k + 1)..n, q[a] = q[b] PROVE a = b
    <3>1. a \in 1..n /\ b \in 1..n /\ p[a] = p[b] /\ p[a] \in Int /\ ~(p[a] < p[a])
      BY <1>3, <2>1, <2>3
    <3>2. ~(a < b) /\ ~(b < a)
      BY <1>3, <3>1
    <3> QED BY <3>1, <3>2
  <2>4. DOMAIN q = (k + 1)..n
    OBVIOUS
  <2> HIDE DEF q, L
  <2> QED BY <2>2, <2>3, <2>4 DEF Injection, IsInjective
<1>6. IsFiniteSet(L)
  <2>1. i + 1 \in Int /\ Len(s) \in Int /\ L \subseteq (i + 1)..Len(s)
    BY <1>3
  <2>2. IsFiniteSet((i + 1)..Len(s))
    BY <2>1, FS_Interval
  <2> HIDE DEF L
  <2> QED BY <2>1, <2>2, FS_Subset
<1>7. Cardinality((k + 1)..n) <= Cardinality(L)
  BY <1>5, <1>6, FS_Injection
<1>8. Cardinality((k + 1)..n) = n - k
  <2>1. k + 1 \in Int /\ n \in Int /\ (k + 1 > n => n = k) /\ n - (k + 1) + 1 = n - k
    BY <1>3, <1>4
  <2>2. Cardinality((k + 1)..n) = IF k + 1 > n THEN 0 ELSE n - (k + 1) + 1
    BY <2>1, FS_Interval
  <2> QED BY <2>1, <2>2, <1>3, <1>4
<1>9. Keep(s, T)[k] = s[i]
  BY <1>3, <1>4
<1> QED BY <1>4, <1>7, <1>8, <1>9 DEF n

(* What is kept is no longer, and everything wanted is in it. *)
LEMMA KeepAll ==
  ASSUME NEW S, NEW s \in Seq(S), NEW T
  PROVE  /\ Len(Keep(s, T)) <= Len(s)
         /\ \A i \in DOMAIN s : s[i] \in T => \E k \in DOMAIN Keep(s, T) : Keep(s, T)[k] = s[i]
         /\ \A k \in DOMAIN Keep(s, T) : \E i \in DOMAIN s : Keep(s, T)[k] = s[i]
<1> DEFINE k == Keep(s, T)
           n == Len(k)
           m == Len(s)
<1>1. PICK p : Places(p, s, T)
  BY KeepPlaces
<1>2. k \in Seq(S \cap T)
  BY KeepPlaces
<1>3. n \in Nat /\ m \in Nat /\ DOMAIN k = 1..n /\ DOMAIN s = 1..m
  BY <1>2
<1>4. /\ p \in [1..n -> 1..m]
      /\ \A j \in 1..n : k[j] = s[p[j]]
      /\ \A j, l \in 1..n : j < l => p[j] < p[l]
      /\ \A i \in 1..m : s[i] \in T => \E j \in 1..n : p[j] = i
  BY <1>1 DEF Places
<1> HIDE DEF k, n, m
<1>5. n <= m
  <2>1. p \in Injection(1..n, 1..m)
    <3>1. ASSUME NEW j \in 1..n, NEW l \in 1..n, p[j] = p[l] PROVE j = l
      <4>1. p[j] \in Int /\ ~ (p[j] < p[l]) /\ ~ (p[l] < p[j])
        BY <1>3, <1>4, <3>1
      <4>2. ~ (j < l) /\ ~ (l < j)
        BY <1>4, <4>1
      <4> QED BY <1>3, <4>2
    <3> QED BY <1>4, <3>1 DEF Injection, IsInjective
  <2>2. /\ IsFiniteSet(1..n) /\ Cardinality(1..n) = n
        /\ IsFiniteSet(1..m) /\ Cardinality(1..m) = m
    BY <1>3, FS_Interval
  <2> QED BY <2>1, <2>2, FS_Injection
<1>6. \A i \in 1..m : s[i] \in T => \E j \in 1..n : k[j] = s[i]
  BY <1>4
<1>7. \A j \in 1..n : \E i \in 1..m : k[j] = s[i]
  BY <1>4
<1> QED BY <1>3, <1>5, <1>6, <1>7 DEF k, n, m
=============================================================================
