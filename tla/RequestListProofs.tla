-------------------------- MODULE RequestListProofs --------------------------
(* What the operators on the request list compute, for any list and any number *)
(* of floors: the lemmas the proofs about the modules that use it rest on.    *)
EXTENDS RequestList, SequenceTheorems, FiniteSetTheorems, WellFoundedInduction,
        TLAPS

LEMMA SmallestNat ==
  ASSUME NEW T, T \subseteq Nat, T # {}
  PROVE  \E x \in T : \A y \in T : x <= y
<1>1. \E x \in T : \A y \in T : ~(<<y, x>> \in OpToRel(<, Nat))
  BY WFMin, NatLessThanWellFounded, Zenon
<1>2. PICK x \in T : \A y \in T : ~(<<y, x>> \in OpToRel(<, Nat))
  BY <1>1
<1>3. \A y \in T : ~(y < x)
  BY <1>2 DEF OpToRel
<1> QED  BY <1>3

------------------------------------------------------------------------------
(* Two lists without an element twice have none in common, or their           *)
(* concatenation would have.                                                  *)
LEMMA DistinctParts ==
  ASSUME NEW S, NEW s \in Seq(S), NEW t \in Seq(S)
  PROVE  Distinct(s \o t) <=> /\ Distinct(s)
                              /\ Distinct(t)
                              /\ Elements(s) \cap Elements(t) = {}
<1> DEFINE m == Len(s)
           n == Len(t)
<1>1. m \in Nat /\ n \in Nat /\ DOMAIN s = 1 .. m /\ DOMAIN t = 1 .. n
  BY LenProperties
<1>2. /\ DOMAIN (s \o t) = 1 .. m + n
      /\ \A i \in 1 .. m + n : (s \o t)[i] = IF i <= m THEN s[i] ELSE t[i - m]
  BY ConcatProperties, LenProperties
<1>3. /\ \A i \in 1 .. m : i \in 1 .. m + n /\ (s \o t)[i] = s[i]
      /\ \A i \in 1 .. n : m + i \in 1 .. m + n /\ (s \o t)[m + i] = t[i]
  BY <1>1, <1>2
<1> HIDE DEF m, n
<1>4. ASSUME Distinct(s \o t)
      PROVE  /\ Distinct(s) /\ Distinct(t)
             /\ Elements(s) \cap Elements(t) = {}
  <2>1. \A i, j \in 1 .. m + n : (s \o t)[i] = (s \o t)[j] => i = j
    BY <1>2, <1>4 DEF Distinct
  <2>2. Distinct(s)
    BY <1>1, <1>3, <2>1 DEF Distinct
  <2>3. Distinct(t)
    <3>1. ASSUME NEW i \in 1 .. n, NEW j \in 1 .. n, t[i] = t[j] PROVE i = j
      <4>1. m + i = m + j
        BY <1>3, <2>1, <3>1
      <4> QED  BY <1>1, <4>1
    <3> QED  BY <1>1, <3>1 DEF Distinct
  <2>4. ASSUME NEW i \in 1 .. m, NEW j \in 1 .. n, s[i] = t[j] PROVE FALSE
    <3>1. i = m + j
      BY <1>3, <2>1, <2>4
    <3> QED  BY <1>1, <3>1
  <2> QED  BY <1>1, <2>2, <2>3, <2>4 DEF Elements
<1>5. ASSUME Distinct(s), Distinct(t), Elements(s) \cap Elements(t) = {}
      PROVE  Distinct(s \o t)
  <2>1. /\ \A i, j \in 1 .. m : s[i] = s[j] => i = j
        /\ \A i, j \in 1 .. n : t[i] = t[j] => i = j
        /\ \A i \in 1 .. m, j \in 1 .. n : s[i] # t[j]
    BY <1>1, <1>5 DEF Distinct, Elements
  <2>2. ASSUME NEW i \in 1 .. m + n, NEW j \in 1 .. m + n,
               (s \o t)[i] = (s \o t)[j]
        PROVE  i = j
    <3>1. CASE i <= m /\ j <= m
      BY <1>1, <1>2, <2>1, <2>2, <3>1
    <3>2. CASE i > m /\ j > m
      <4>1. i - m \in 1 .. n /\ j - m \in 1 .. n /\ t[i - m] = t[j - m]
        BY <1>1, <1>2, <2>2, <3>2
      <4>2. i - m = j - m
        BY <2>1, <4>1
      <4> QED  BY <1>1, <4>2
    <3>3. CASE i <= m /\ j > m
      <4>1. i \in 1 .. m /\ j - m \in 1 .. n /\ s[i] = t[j - m]
        BY <1>1, <1>2, <2>2, <3>3
      <4> QED  BY <2>1, <4>1
    <3>4. CASE i > m /\ j <= m
      <4>1. j \in 1 .. m /\ i - m \in 1 .. n /\ s[j] = t[i - m]
        BY <1>1, <1>2, <2>2, <3>4
      <4> QED  BY <2>1, <4>1
    <3> QED  BY <1>1, <3>1, <3>2, <3>3, <3>4
  <2> QED  BY <1>2, <2>2 DEF Distinct
<1> QED  BY <1>4, <1>5

(* SetInsert: an element that is not there is added at the end, one that is   *)
(* there changes nothing.                                                     *)
LEMMA SetInsertResult ==
  ASSUME NEW list \in Seq(Request), NEW r \in Request, Distinct(list)
  PROVE  /\ SetInsert(list, r) \in Seq(Request)
         /\ Distinct(SetInsert(list, r))
         /\ Elements(SetInsert(list, r)) = Elements(list) \cup {r}
         /\ SetInsert(list, r) # <<>>
         /\ list # <<>> => Head(SetInsert(list, r)) = Head(list)
         /\ list = <<>> => Head(SetInsert(list, r)) = r
         /\ r \notin Elements(list) => SetInsert(list, r) = Append(list, r)
<1> DEFINE n == Len(list)
<1>1. n \in Nat /\ DOMAIN list = 1 .. n
  BY LenProperties
<1>2. CASE r \in Elements(list)
  <2>1. SetInsert(list, r) = list
    BY <1>2 DEF SetInsert, Elements
  <2>2. list # <<>>
    BY <1>2 DEF Elements
  <2> QED  BY <1>2, <2>1, <2>2
<1>3. CASE r \notin Elements(list)
  <2>1. SetInsert(list, r) = Append(list, r)
    BY <1>3 DEF SetInsert, Elements
  <2>2. /\ Append(list, r) \in Seq(Request)
        /\ Len(Append(list, r)) = n + 1
        /\ DOMAIN Append(list, r) = 1 .. n + 1
        /\ \A i \in 1 .. n : Append(list, r)[i] = list[i]
        /\ Append(list, r)[n + 1] = r
    BY <1>1, AppendProperties, LenProperties
  <2> DEFINE longer == Append(list, r)
  <2> HIDE DEF longer, n
  <2>3. Elements(longer) = Elements(list) \cup {r}
    <3>1. Elements(longer) = {longer[i] : i \in 1 .. n} \cup {longer[n + 1]}
      BY <1>1, <2>2 DEF Elements, longer
    <3>2. {longer[i] : i \in 1 .. n} = Elements(list)
      BY <1>1, <2>2 DEF Elements, longer
    <3> QED  BY <2>2, <3>1, <3>2 DEF longer
  <2>4. Distinct(longer)
    <3>1. \A i, j \in 1 .. n : list[i] = list[j] => i = j
      BY <1>1 DEF Distinct
    <3>2. \A i \in 1 .. n : list[i] # r
      BY <1>1, <1>3 DEF Elements
    <3>3. ASSUME NEW i \in 1 .. n + 1, NEW j \in 1 .. n + 1, longer[i] = longer[j]
          PROVE  i = j
      <4>1. i \in 1 .. n \/ i = n + 1
        BY <1>1
      <4>2. j \in 1 .. n \/ j = n + 1
        BY <1>1
      <4> QED  BY <2>2, <3>1, <3>2, <3>3, <4>1, <4>2 DEF longer
    <3> QED  BY <2>2, <3>3 DEF Distinct, longer
  <2>5. longer # <<>>
    <3>1. Len(longer) # 0
      BY <1>1, <2>2 DEF longer
    <3> QED  BY <3>1, EmptySeq
  <2>6. Head(longer) = IF list = <<>> THEN r ELSE Head(list)
    <3>1. list = <<>> <=> n = 0
      BY EmptySeq DEF n
    <3>2. Head(longer) = longer[1] /\ Head(list) = list[1]
      BY <2>2 DEF longer
    <3> QED  BY <1>1, <2>2, <3>1, <3>2 DEF longer
  <2> QED  BY <2>1, <2>2, <2>3, <2>4, <2>5, <2>6 DEF longer
<1> QED  BY <1>2, <1>3

(* SetRemove: the element leaves its one place, the others close up.          *)
LEMMA SetRemoveResult ==
  ASSUME NEW list \in Seq(Request), Distinct(list), NEW k \in DOMAIN list
  PROVE  /\ SetRemove(list, list[k]) \in Seq(Request)
         /\ Distinct(SetRemove(list, list[k]))
         /\ Elements(SetRemove(list, list[k])) = Elements(list) \ {list[k]}
         /\ Len(SetRemove(list, list[k])) = Len(list) - 1
         /\ \A i \in 1 .. Len(list) - 1 :
              SetRemove(list, list[k])[i] = IF i < k THEN list[i] ELSE list[i + 1]
<1> DEFINE n     == Len(list)
           front == SubSeq(list, 1, k - 1)
           back  == SubSeq(list, k + 1, n)
<1>1. /\ n \in Nat /\ DOMAIN list = 1 .. n /\ k \in 1 .. n
      /\ \A i \in 1 .. n : list[i] \in Request
  BY LenProperties
<1>2. \A i, j \in 1 .. n : list[i] = list[j] => i = j
  BY <1>1 DEF Distinct
<1>3. SetRemove(list, list[k]) = front \o back
  <2>1. {i \in 1 .. n : list[i] = list[k]} = {k}
    BY <1>1, <1>2
  <2>2. Min({k}) = k
    BY <1>1 DEF Min
  <2>3. SelectInSeq(list, LAMBDA v : v = list[k]) = k
    BY <2>1, <2>2 DEF SelectInSeq
  <2>4. RemoveFirst(list, list[k]) = RemoveAt(list, k)
    BY <1>1, <2>3 DEF RemoveFirst
  <2> QED  BY <2>4 DEF SetRemove, RemoveAt
<1>4. /\ front \in Seq(Request)
      /\ Len(front) = k - 1
      /\ \A i \in 1 .. k - 1 : front[i] = list[i]
  <2>1. \A i \in 1 .. k - 1 : list[i] \in Request
    BY <1>1
  <2> HIDE DEF front
  <2>2. /\ front \in Seq(Request)
        /\ Len(front) = IF 1 <= k - 1 THEN (k - 1) - 1 + 1 ELSE 0
        /\ \A i \in 1 .. (k - 1) - 1 + 1 : front[i] = list[1 + i - 1]
    BY <2>1, <1>1, SubSeqProperties DEF front
  <2> HIDE DEF n
  <2>3. k - 1 = (k - 1) - 1 + 1 /\ Len(front) = k - 1
    BY <2>2, <1>1
  <2>4. ASSUME NEW i \in 1 .. k - 1 PROVE front[i] = list[i]
    <3>1. 1 + i - 1 = i
      OBVIOUS
    <3> QED  BY <2>2, <2>3, <3>1
  <2> QED  BY <2>2, <2>3, <2>4
<1>5. /\ back \in Seq(Request)
      /\ Len(back) = n - k
      /\ \A i \in 1 .. n - k : back[i] = list[k + i]
  <2>1. \A i \in k + 1 .. n : list[i] \in Request
    BY <1>1
  <2> HIDE DEF back
  <2>2. /\ back \in Seq(Request)
        /\ Len(back) = IF k + 1 <= n THEN n - (k + 1) + 1 ELSE 0
        /\ \A i \in 1 .. n - (k + 1) + 1 : back[i] = list[k + 1 + i - 1]
    BY <2>1, <1>1, SubSeqProperties DEF back
  <2> HIDE DEF n
  <2>3. Len(back) = n - k
    BY <2>2, <1>1
  <2>4. ASSUME NEW i \in 1 .. n - k PROVE back[i] = list[k + i]
    <3>1. i \in 1 .. n - (k + 1) + 1 /\ k + 1 + i - 1 = k + i
      BY <1>1
    <3> QED  BY <2>2, <3>1
  <2> QED  BY <2>2, <2>3, <2>4
<1> DEFINE rest == front \o back
<1>6. /\ rest \in Seq(Request)
      /\ Len(rest) = n - 1
      /\ DOMAIN rest = 1 .. n - 1
      /\ \A i \in 1 .. n - 1 : rest[i] = IF i < k THEN list[i] ELSE list[i + 1]
  <2> HIDE DEF front, back
  <2>1. /\ front \o back \in Seq(Request)
        /\ Len(front \o back) = Len(front) + Len(back)
        /\ \A i \in 1 .. Len(front) + Len(back) :
             (front \o back)[i] = IF i <= Len(front) THEN front[i]
                                  ELSE back[i - Len(front)]
    BY <1>4, <1>5, ConcatProperties
  <2>2. Len(front) + Len(back) = n - 1
    BY <1>1, <1>4, <1>5
  <2>3. DOMAIN (front \o back) = 1 .. n - 1
    BY <2>1, <2>2, LenProperties
  <2>4. ASSUME NEW i \in 1 .. n - 1
        PROVE  (front \o back)[i] = IF i < k THEN list[i] ELSE list[i + 1]
    <3>1. CASE i < k
      BY <1>1, <1>4, <2>1, <2>2, <3>1
    <3>2. CASE i >= k
      <4>1. i - Len(front) \in 1 .. n - k /\ k + (i - Len(front)) = i + 1
        BY <1>1, <1>4, <3>2
      <4>2. (front \o back)[i] = back[i - Len(front)]
        BY <1>1, <1>4, <2>1, <2>2, <3>2
      <4> QED  BY <1>1, <1>5, <3>2, <4>1, <4>2
    <3>3. i < k \/ i >= k
      BY <1>1
    <3> QED  BY <3>1, <3>2, <3>3, Zenon
  <2> QED  BY <2>1, <2>3, <2>4
<1> HIDE DEF rest, front, back, n
<1>7. Distinct(rest)
  <2>1. ASSUME NEW i \in 1 .. n - 1, NEW j \in 1 .. n - 1, rest[i] = rest[j]
        PROVE  i = j
    <3> DEFINE p == IF i < k THEN i ELSE i + 1
               q == IF j < k THEN j ELSE j + 1
    <3>1. p \in 1 .. n /\ q \in 1 .. n /\ rest[i] = list[p] /\ rest[j] = list[q]
      BY <1>1, <1>6
    <3>2. p = q
      BY <1>2, <2>1, <3>1
    <3> QED  BY <1>1, <3>2
  <2> QED  BY <1>6, <2>1 DEF Distinct
<1>8. Elements(rest) = Elements(list) \ {list[k]}
  <2>1. ASSUME NEW i \in 1 .. n - 1
        PROVE  \E j \in 1 .. n : j # k /\ rest[i] = list[j]
    <3>1. CASE i < k
      BY <1>1, <1>6, <3>1
    <3>2. CASE i >= k
      <4>1. i + 1 \in 1 .. n /\ i + 1 # k /\ rest[i] = list[i + 1]
        BY <1>1, <1>6, <3>2
      <4> QED  BY <4>1
    <3> QED  BY <1>1, <3>1, <3>2
  <2>2. ASSUME NEW j \in 1 .. n, j # k
        PROVE  \E i \in 1 .. n - 1 : rest[i] = list[j]
    <3>1. CASE j < k
      BY <1>1, <1>6, <3>1
    <3>2. CASE j > k
      <4>1. j - 1 \in 1 .. n - 1 /\ rest[j - 1] = list[j]
        BY <1>1, <1>6, <3>2
      <4> QED  BY <4>1
    <3> QED  BY <1>1, <2>2, <3>1, <3>2
  <2>3. /\ Elements(rest) = {rest[i] : i \in 1 .. n - 1}
        /\ Elements(list) = {list[j] : j \in 1 .. n}
    BY <1>1, <1>6 DEF Elements
  <2>4. \A j \in 1 .. n : j # k <=> list[j] # list[k]
    BY <1>1, <1>2
  <2>5. \A x \in Elements(rest) : x \in Elements(list) /\ x # list[k]
    BY <2>1, <2>3, <2>4, Zenon
  <2>6. \A x \in Elements(list) : x # list[k] => x \in Elements(rest)
    BY <2>2, <2>3, <2>4, Zenon
  <2> QED  BY <2>5, <2>6, Zenon
<1> QED  BY <1>3, <1>6, <1>7, <1>8 DEF rest, n

------------------------------------------------------------------------------
LEMMA DistType ==
  ASSUME NEW r \in Request, NEW f \in Floors, NEW d \in Directions
  PROVE  Dist(r, f, d) \in Nat
BY FloorsAssumption DEF Dist, OnPath, Request, Floors, Directions, D_UP, D_DOWN, D_STOJI

(* The inner loop of SetSort finds an element of the list; none is nearer, and *)
(* those as near come after it.                                               *)
LEMMA BestIsNearest ==
  ASSUME NEW list \in Seq(Request), list # <<>>,
         NEW f \in Floors, NEW d \in Directions
  PROVE  \E k \in DOMAIN list :
           /\ Best(list, f, d) = list[k]
           /\ IsBest(list, k, f, d)
           /\ \A j \in DOMAIN list : Dist(list[k], f, d) <= Dist(list[j], f, d)
<1> DEFINE D(i) == Dist(list[i], f, d)
           dists == {D(i) : i \in DOMAIN list}
<1>1. /\ DOMAIN list \subseteq Nat /\ DOMAIN list # {}
      /\ \A i \in DOMAIN list : list[i] \in Request
  <2>1. DOMAIN list = 1 .. Len(list) /\ Len(list) \in Nat \ {0}
    BY LenProperties, EmptySeq
  <2>2. \A i \in 1 .. Len(list) : list[i] \in Request
    BY ElementOfSeq
  <2>3. 1 \in 1 .. Len(list)
    BY <2>1
  <2> QED  BY <2>1, <2>2, <2>3
<1>2. \A i \in DOMAIN list : D(i) \in Nat
  BY <1>1, DistType
<1> HIDE DEF D
<1>3. PICK least \in dists : \A x \in dists : least <= x
  <2>1. dists \subseteq Nat /\ dists # {}
    BY <1>1, <1>2
  <2> HIDE DEF dists
  <2> QED  BY <2>1, SmallestNat
<1> DEFINE nearest == {i \in DOMAIN list : D(i) = least}
<1>4. PICK k \in nearest : \A i \in nearest : k <= i
  <2>1. nearest \subseteq Nat /\ nearest # {}
    BY <1>1
  <2> HIDE DEF nearest
  <2> QED  BY <2>1, SmallestNat
<1>5. ASSUME NEW j \in DOMAIN list
      PROVE  D(k) < D(j) \/ (D(k) = D(j) /\ k <= j)
  <2>1. D(k) = least /\ least <= D(j)
    BY <1>3
  <2>2. CASE D(j) = least
    BY <1>4, <2>1, <2>2
  <2>3. CASE D(j) # least
    BY <1>2, <2>1, <2>3
  <2> QED  BY <2>2, <2>3
<1>6. IsBest(list, k, f, d)
  BY <1>5 DEF IsBest, D
<1> DEFINE b == CHOOSE i \in DOMAIN list : IsBest(list, i, f, d)
<1>7. b \in DOMAIN list /\ IsBest(list, b, f, d)
  BY <1>6
<1> HIDE DEF b
<1>8. \A j \in DOMAIN list : D(b) < D(j) \/ D(b) = D(j)
  BY <1>7 DEF IsBest, D
<1>9. \A j \in DOMAIN list : D(b) <= D(j)
  BY <1>2, <1>7, <1>8
<1> QED  BY <1>7, <1>9 DEF Best, b, D

------------------------------------------------------------------------------
(* Of two requests of a list, one is served sooner.                           *)
LEMMA SoonerIsOrder ==
  ASSUME NEW list \in Seq(Request), NEW f \in Floors, NEW d \in Directions
  PROVE  /\ \A i \in DOMAIN list : ~Sooner(list, i, i, f, d)
         /\ \A i, j \in DOMAIN list :
              i = j \/ Sooner(list, i, j, f, d) \/ Sooner(list, j, i, f, d)
         /\ \A i, j, k \in DOMAIN list :
              Sooner(list, i, j, f, d) /\ Sooner(list, j, k, f, d)
                => Sooner(list, i, k, f, d)
<1> DEFINE D(i) == Dist(list[i], f, d)
<1>1. DOMAIN list = 1 .. Len(list) /\ Len(list) \in Nat
  BY LenProperties
<1>2. \A i \in DOMAIN list : D(i) \in Nat
  BY <1>1, ElementOfSeq, DistType
<1>3. \A i, j \in DOMAIN list :
        Sooner(list, i, j, f, d) <=> D(i) < D(j) \/ (D(i) = D(j) /\ i < j)
  BY DEF Sooner
<1> HIDE DEF D
<1>4. \A i \in DOMAIN list : ~Sooner(list, i, i, f, d)
  BY <1>1, <1>2, <1>3
<1>5. \A i, j \in DOMAIN list :
        i = j \/ Sooner(list, i, j, f, d) \/ Sooner(list, j, i, f, d)
  BY <1>1, <1>2, <1>3
<1>6. \A i, j, k \in DOMAIN list :
        Sooner(list, i, j, f, d) /\ Sooner(list, j, k, f, d)
          => Sooner(list, i, k, f, d)
  BY <1>1, <1>2, <1>3
<1> QED  BY <1>4, <1>5, <1>6

(* No two requests have the same place in the sorted list, and every place    *)
(* has its request: who is served sooner has fewer before it.                 *)
LEMMA PlaceIsBijection ==
  ASSUME NEW list \in Seq(Request), NEW f \in Floors, NEW d \in Directions
  PROVE  /\ \A i \in DOMAIN list : Place(list, i, f, d) \in DOMAIN list
         /\ \A i, j \in DOMAIN list :
              Sooner(list, i, j, f, d) <=> Place(list, i, f, d) < Place(list, j, f, d)
         /\ \A i, j \in DOMAIN list :
              Place(list, i, f, d) = Place(list, j, f, d) => i = j
         /\ \A k \in DOMAIN list : \E i \in DOMAIN list : Place(list, i, f, d) = k
<1> DEFINE n        == Len(list)
           P(i)     == Place(list, i, f, d)
           before(i) == {j \in DOMAIN list : Sooner(list, j, i, f, d)}
<1>1. n \in Nat /\ DOMAIN list = 1 .. n
  BY LenProperties
<1>2. IsFiniteSet(DOMAIN list) /\ Cardinality(DOMAIN list) = n
  BY <1>1, FS_Interval
<1>3. \A i \in DOMAIN list :
        /\ IsFiniteSet(before(i)) /\ Cardinality(before(i)) \in Nat
        /\ P(i) = 1 + Cardinality(before(i))
  <2>1. \A i \in DOMAIN list : before(i) \in SUBSET DOMAIN list
    OBVIOUS
  <2> HIDE DEF before
  <2>2. \A i \in DOMAIN list :
          IsFiniteSet(before(i)) /\ Cardinality(before(i)) \in Nat
    BY <1>2, <2>1, FS_Subset, FS_CardinalityType
  <2> QED  BY <2>2 DEF Place, before
<1>4. ASSUME NEW i \in DOMAIN list, NEW j \in DOMAIN list,
             Sooner(list, i, j, f, d)
      PROVE  P(i) < P(j)
  <2>1. before(i) \subseteq before(j) /\ i \in before(j) /\ i \notin before(i)
    BY <1>4, SoonerIsOrder
  <2> HIDE DEF before, P
  <2>2. /\ Cardinality(before(i)) <= Cardinality(before(j))
        /\ Cardinality(before(i)) # Cardinality(before(j))
    BY <1>3, <2>1, FS_Subset
  <2> QED  BY <1>3, <2>2
<1>5. \A i \in DOMAIN list : P(i) \in 1 .. n
  <2>1. ASSUME NEW i \in DOMAIN list
        PROVE  Cardinality(before(i)) < n
    <3>1. before(i) \in SUBSET DOMAIN list /\ i \notin before(i)
      BY SoonerIsOrder
    <3> HIDE DEF before
    <3>2. /\ Cardinality(before(i)) <= n
          /\ Cardinality(before(i)) # n
      BY <1>2, <3>1, FS_Subset
    <3> QED  BY <1>1, <1>3, <3>2
  <2> HIDE DEF before, P, n
  <2> QED  BY <1>1, <1>3, <2>1
<1> HIDE DEF before, P, n
<1>6. ASSUME NEW i \in DOMAIN list, NEW j \in DOMAIN list
      PROVE  /\ P(i) = P(j) => i = j
             /\ P(i) < P(j) => Sooner(list, i, j, f, d)
  <2>1. i = j \/ Sooner(list, i, j, f, d) \/ Sooner(list, j, i, f, d)
    BY SoonerIsOrder
  <2>2. P(i) \in Nat /\ P(j) \in Nat
    BY <1>1, <1>5
  <2> QED  BY <1>4, <2>1, <2>2
<1>7. \A k \in 1 .. n : \E i \in 1 .. n : P(i) = k
  <2> DEFINE place == [i \in 1 .. n |-> P(i)]
  <2>1. place \in [1 .. n -> 1 .. n]
    BY <1>1, <1>5
  <2>2. \A i \in 1 .. n : place[i] = P(i)
    OBVIOUS
  <2> HIDE DEF place
  <2>3. place \in Injection(1 .. n, 1 .. n)
    BY <1>1, <1>6, <2>1, <2>2 DEF Injection, IsInjective
  <2>4. place \in Surjection(1 .. n, 1 .. n)
    BY <1>1, <1>2, <2>3, FS_Injection
  <2> QED  BY <2>2, <2>4 DEF Surjection
<1> QED  BY <1>1, <1>4, <1>5, <1>6, <1>7 DEF P

(* SetSort puts every request in its place.                                   *)
LEMMA SetSortPlaces ==
  ASSUME NEW list \in Seq(Request), NEW f \in Floors,
         NEW d \in Directions, d # D_STOJI
  PROVE  /\ SetSort(list, f, d) \in Seq(Request)
         /\ Len(SetSort(list, f, d)) = Len(list)
         /\ \A i \in DOMAIN list :
              SetSort(list, f, d)[Place(list, i, f, d)] = list[i]
<1> DEFINE n      == Len(list)
           at(k)  == CHOOSE i \in DOMAIN list : Place(list, i, f, d) = k
           sorted == [k \in DOMAIN list |-> list[at(k)]]
<1>1. n \in Nat /\ DOMAIN list = 1 .. n /\ \A i \in DOMAIN list : list[i] \in Request
  BY LenProperties, ElementOfSeq
<1>2. SetSort(list, f, d) = sorted
  BY DEF SetSort
<1>3. \A k \in DOMAIN list :
        at(k) \in DOMAIN list /\ Place(list, at(k), f, d) = k
  BY PlaceIsBijection
<1>4. \A i \in DOMAIN list :
        Place(list, i, f, d) \in DOMAIN list /\ at(Place(list, i, f, d)) = i
  BY <1>3, PlaceIsBijection
<1> HIDE DEF at
<1>5. sorted \in [1 .. n -> Request]
  BY <1>1, <1>3
<1>6. sorted \in Seq(Request) /\ Len(sorted) = n
  <2> HIDE DEF sorted, n
  <2> QED  BY <1>1, <1>5, IsASeq, LenProperties
<1>7. \A i \in DOMAIN list : sorted[Place(list, i, f, d)] = list[i]
  BY <1>4
<1> QED  BY <1>2, <1>6, <1>7

(* SetSort keeps the requests and puts the nearest first.                     *)
LEMMA SetSortResult ==
  ASSUME NEW list \in Seq(Request), NEW f \in Floors, NEW d \in Directions
  PROVE  /\ SetSort(list, f, d) \in Seq(Request)
         /\ Len(SetSort(list, f, d)) = Len(list)
         /\ Elements(SetSort(list, f, d)) = Elements(list)
         /\ Distinct(list) => Distinct(SetSort(list, f, d))
         /\ d # D_STOJI =>
              \A k, l \in DOMAIN list :
                k < l => Dist(SetSort(list, f, d)[k], f, d)
                           <= Dist(SetSort(list, f, d)[l], f, d)
<1> DEFINE sorted == SetSort(list, f, d)
           P(i)   == Place(list, i, f, d)
<1>1. CASE d = D_STOJI
  BY <1>1 DEF SetSort
<1>2. CASE d # D_STOJI
  <2>1. /\ sorted \in Seq(Request) /\ Len(sorted) = Len(list)
        /\ \A i \in DOMAIN list : sorted[P(i)] = list[i]
    BY <1>2, SetSortPlaces
  <2>2. /\ DOMAIN sorted = DOMAIN list /\ DOMAIN list = 1 .. Len(list)
        /\ Len(list) \in Nat
    BY <2>1, LenProperties
  <2>3. /\ \A i \in DOMAIN list : P(i) \in DOMAIN list
        /\ \A k \in DOMAIN list : \E i \in DOMAIN list : P(i) = k
        /\ \A i, j \in DOMAIN list : Sooner(list, i, j, f, d) <=> P(i) < P(j)
    BY PlaceIsBijection
  <2> HIDE DEF sorted, P
  <2>4. Elements(sorted) = Elements(list)
    <3>1. \A x \in Elements(list) : x \in Elements(sorted)
      BY <2>1, <2>2, <2>3 DEF Elements
    <3>2. \A x \in Elements(sorted) : x \in Elements(list)
      BY <2>1, <2>2, <2>3 DEF Elements
    <3> QED  BY <3>1, <3>2
  <2>5. ASSUME Distinct(list) PROVE Distinct(sorted)
    <3>1. ASSUME NEW k \in DOMAIN list, NEW l \in DOMAIN list,
                 sorted[k] = sorted[l]
          PROVE  k = l
      <4>1. PICK i \in DOMAIN list : P(i) = k
        BY <2>3
      <4>2. PICK j \in DOMAIN list : P(j) = l
        BY <2>3
      <4>3. list[i] = list[j]
        BY <2>1, <3>1, <4>1, <4>2
      <4> QED  BY <2>5, <4>1, <4>2, <4>3 DEF Distinct
    <3> QED  BY <2>2, <3>1 DEF Distinct
  <2>6. ASSUME NEW k \in DOMAIN list, NEW l \in DOMAIN list, k < l
        PROVE  Dist(sorted[k], f, d) <= Dist(sorted[l], f, d)
    <3>1. PICK i \in DOMAIN list : P(i) = k
      BY <2>3
    <3>2. PICK j \in DOMAIN list : P(j) = l
      BY <2>3
    <3>3. Sooner(list, i, j, f, d)
      BY <2>3, <2>6, <3>1, <3>2
    <3>4. list[i] \in Request /\ list[j] \in Request
      BY <2>2, ElementOfSeq
    <3>5. Dist(list[i], f, d) \in Nat /\ Dist(list[j], f, d) \in Nat
      BY <3>4, DistType
    <3>6. Dist(list[i], f, d) <= Dist(list[j], f, d)
      BY <3>3, <3>5 DEF Sooner
    <3> QED  BY <2>1, <3>1, <3>2, <3>6
  <2> QED  BY <2>1, <2>4, <2>5, <2>6 DEF sorted
<1> QED  BY <1>1, <1>2

(* A list that is in order already stays as it is.                            *)
LEMMA SortedIsKept ==
  ASSUME NEW list \in Seq(Request), NEW f \in Floors,
         NEW d \in Directions, d # D_STOJI,
         \A k, l \in DOMAIN list :
           k < l => Dist(list[k], f, d) <= Dist(list[l], f, d)
  PROVE  SetSort(list, f, d) = list
<1> DEFINE n == Len(list)
           P(i) == Place(list, i, f, d)
           D(i) == Dist(list[i], f, d)
<1>1. n \in Nat /\ DOMAIN list = 1 .. n
  BY LenProperties
<1>2. \A i \in DOMAIN list : D(i) \in Nat
  BY <1>1, ElementOfSeq, DistType
<1>3. ASSUME NEW i \in DOMAIN list PROVE P(i) = i
  <2>1. {j \in DOMAIN list : Sooner(list, j, i, f, d)} = 1 .. i - 1
    <3>1. ASSUME NEW j \in DOMAIN list
          PROVE  Sooner(list, j, i, f, d) <=> j < i
      <4>1. Sooner(list, j, i, f, d) <=> D(j) < D(i) \/ (D(j) = D(i) /\ j < i)
        BY DEF Sooner
      <4>2. (j < i => D(j) <= D(i)) /\ (i < j => D(i) <= D(j))
        OBVIOUS
      <4> HIDE DEF D
      <4> QED  BY <1>1, <1>2, <4>1, <4>2
    <3> QED  BY <1>1, <3>1
  <2>2. Cardinality(1 .. i - 1) = i - 1
    BY <1>1, FS_Interval
  <2>3. P(i) = 1 + Cardinality(1 .. i - 1)
    BY <2>1, Zenon DEF Place
  <2> QED  BY <1>1, <2>2, <2>3
<1>4. /\ SetSort(list, f, d) \in Seq(Request)
      /\ Len(SetSort(list, f, d)) = n
      /\ \A i \in DOMAIN list : SetSort(list, f, d)[i] = list[i]
  BY <1>3, SetSortPlaces
<1> HIDE DEF n
<1> QED  BY <1>1, <1>4, SeqEqual, LenProperties

------------------------------------------------------------------------------
(* On the way to the nearest request all distances change by the same amount: *)
(* the order of any two others stays.                                         *)
LEMMA TravelKeepsOrder ==
  ASSUME NEW f \in Floors, NEW g \in Floors, NEW d \in {D_UP, D_DOWN},
         NEW h \in Request, NEW r \in Request, NEW s \in Request,
         IF d = D_UP THEN f <= g /\ g <= h.floor ELSE h.floor <= g /\ g <= f,
         Dist(h, f, d) <= Dist(r, f, d), Dist(r, f, d) <= Dist(s, f, d)
  PROVE  Dist(r, g, d) <= Dist(s, g, d)
<1>1. /\ FLOORS \in Nat /\ f \in 0 .. FLOORS - 1 /\ g \in 0 .. FLOORS - 1
      /\ h.floor \in 0 .. FLOORS - 1 /\ r.floor \in 0 .. FLOORS - 1
      /\ s.floor \in 0 .. FLOORS - 1
  BY FloorsAssumption DEF Floors, Request
<1>2. CASE d = D_UP
  <2>1. ASSUME NEW x \in Request, Dist(h, f, d) <= Dist(x, f, d)
        PROVE  Dist(x, g, d) = Dist(x, f, d) - (g - f)
    <3>1. x.floor \in 0 .. FLOORS - 1
      BY DEF Floors, Request
    <3>2. Dist(x, f, d) = IF OnPath(x, f, d) THEN x.floor - f
                          ELSE 2 * FLOORS - f - x.floor
      BY <1>2 DEF Dist, OnPath, D_UP, D_DOWN
    <3>3. Dist(x, g, d) = IF OnPath(x, g, d) THEN x.floor - g
                          ELSE 2 * FLOORS - g - x.floor
      BY <1>2 DEF Dist, OnPath, D_UP, D_DOWN
    <3>4. Dist(h, f, d) = IF OnPath(h, f, d) THEN h.floor - f
                          ELSE 2 * FLOORS - f - h.floor
      BY <1>2 DEF Dist, OnPath, D_UP, D_DOWN
    <3>5. /\ OnPath(x, f, d) <=> x.direction = D_UP /\ f <= x.floor
          /\ OnPath(x, g, d) <=> x.direction = D_UP /\ g <= x.floor
          /\ OnPath(h, f, d) <=> h.direction = D_UP /\ f <= h.floor
      BY <1>2 DEF OnPath, D_UP, D_DOWN
    <3> QED  BY <1>1, <1>2, <2>1, <3>1, <3>2, <3>3, <3>4, <3>5 DEF D_UP, D_DOWN
  <2>2. Dist(r, f, d) \in Nat /\ Dist(s, f, d) \in Nat
    BY <1>2, DistType DEF Directions
  <2>3. Dist(h, f, d) <= Dist(s, f, d)
    BY <2>2, DistType DEF Directions
  <2> QED  BY <1>1, <2>1, <2>2, <2>3
<1>3. CASE d = D_DOWN
  <2>1. ASSUME NEW x \in Request, Dist(h, f, d) <= Dist(x, f, d)
        PROVE  Dist(x, g, d) = Dist(x, f, d) - (f - g)
    <3>1. x.floor \in 0 .. FLOORS - 1
      BY DEF Floors, Request
    <3>2. Dist(x, f, d) = IF OnPath(x, f, d) THEN f - x.floor ELSE f + x.floor
      BY <1>3 DEF Dist, OnPath, D_UP, D_DOWN
    <3>3. Dist(x, g, d) = IF OnPath(x, g, d) THEN g - x.floor ELSE g + x.floor
      BY <1>3 DEF Dist, OnPath, D_UP, D_DOWN
    <3>4. Dist(h, f, d) = IF OnPath(h, f, d) THEN f - h.floor ELSE f + h.floor
      BY <1>3 DEF Dist, OnPath, D_UP, D_DOWN
    <3>5. /\ OnPath(x, f, d) <=> x.direction = D_DOWN /\ f >= x.floor
          /\ OnPath(x, g, d) <=> x.direction = D_DOWN /\ g >= x.floor
      BY <1>3 DEF OnPath, D_UP, D_DOWN
    <3> QED  BY <1>1, <1>3, <2>1, <3>1, <3>2, <3>3, <3>4, <3>5 DEF D_UP, D_DOWN
  <2>2. Dist(r, f, d) \in Nat /\ Dist(s, f, d) \in Nat
    BY <1>3, DistType DEF Directions
  <2>3. Dist(h, f, d) \in Nat /\ Dist(h, f, d) <= Dist(s, f, d)
    BY <2>2, DistType DEF Directions
  <2> QED  BY <1>1, <2>1, <2>2, <2>3
<1> QED  BY <1>2, <1>3
==============================================================================
