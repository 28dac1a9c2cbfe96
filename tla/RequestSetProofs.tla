-------------------------- MODULE RequestSetProofs ---------------------------
(* Theorems about the set of requests and its selection sort, for any number  *)
(* of floors and requests.                                                    *)
EXTENDS RequestSet, RequestListProofs, SequenceTheorems, TLAPS

------------------------------------------------------------------------------
(* The invariant.  NothingLost is about both lists of SetSort, outside which  *)
(* there is but one; the first element of the new list is what the first      *)
(* iteration found, nearer than all those before the sort.                    *)
OneListOutside == ~sorting => ret = <<>>

HeadIsNearest ==
  sorting /\ ret # <<>> =>
    \A r \in Elements(before) :
      Dist(Head(ret), floor, direction) <= Dist(r, floor, direction)

IInv == TypeOK /\ NothingLost /\ OneListOutside /\ HeadIsNearest

LEMMA InitialValues ==
  0 \in Floors /\ D_STOJI \in Directions /\ <<>> \in Seq(Request)
<1>1. 0 \in Floors /\ D_STOJI \in Directions
  BY FloorsAssumption DEF Floors, Directions
<1>2. <<>> \in Seq(Request)
  BY EmptySeq
<1> QED  BY <1>1, <1>2

LEMMA EmptyElements == Elements(<<>>) = {} /\ Distinct(<<>>)
BY DEF Elements, Distinct

(* NothingLost, in terms of the two lists. *)
LEMMA Lists ==
  ASSUME request_list \in Seq(Request), ret \in Seq(Request)
  PROVE  Distinct(request_list \o ret) <=>
           /\ Distinct(request_list)
           /\ Distinct(ret)
           /\ Elements(request_list) \cap Elements(ret) = {}
BY DistinctParts

LEMMA InitInvariant == Init => IInv
<1> SUFFICES ASSUME Init PROVE IInv
  OBVIOUS
<1>1. TypeOK
  BY InitialValues DEF Init, TypeOK
<1>2. Distinct(request_list \o ret)
  BY <1>1, Lists, EmptyElements DEF Init, TypeOK
<1> QED  BY <1>1, <1>2 DEF Init, IInv, NothingLost, OneListOutside, HeadIsNearest

LEMMA InsertInvariant ==
  ASSUME IInv, NEW r \in Request, Insert(r)
  PROVE  IInv'
<1>1. /\ request_list \in Seq(Request) /\ ret = <<>> /\ ret \in Seq(Request)
      /\ Distinct(request_list)
  BY Lists DEF IInv, TypeOK, NothingLost, OneListOutside, Insert
<1>2. request_list' \in Seq(Request) /\ Distinct(request_list')
  BY <1>1, SetInsertResult DEF Insert
<1>3. Distinct(request_list' \o ret')
  BY <1>1, <1>2, DistinctParts, EmptyElements DEF Insert
<1> QED  BY <1>2, <1>3 DEF IInv, TypeOK, NothingLost, OneListOutside, HeadIsNearest, Insert

LEMMA RemoveServedInvariant ==
  ASSUME IInv, RemoveServed
  PROVE  IInv'
<1>1. /\ request_list \in Seq(Request) /\ ret = <<>> /\ ret \in Seq(Request)
      /\ Distinct(request_list)
  BY Lists DEF IInv, TypeOK, NothingLost, OneListOutside, RemoveServed
<1>2. 1 \in DOMAIN request_list /\ Head(request_list) = request_list[1]
  BY <1>1, EmptySeq, LenProperties DEF RemoveServed
<1>3. request_list' \in Seq(Request) /\ Distinct(request_list')
  BY <1>1, <1>2, SetRemoveResult DEF RemoveServed
<1>4. Distinct(request_list' \o ret')
  BY <1>1, <1>3, DistinctParts, EmptyElements DEF RemoveServed
<1> QED  BY <1>3, <1>4 DEF IInv, TypeOK, NothingLost, OneListOutside, HeadIsNearest, RemoveServed

LEMMA SortStartInvariant ==
  ASSUME IInv, NEW f \in Floors, NEW d \in Directions, SortStart(f, d)
  PROVE  IInv'
BY EmptyElements
   DEF IInv, TypeOK, NothingLost, OneListOutside, HeadIsNearest, SortStart

(* The nearest of what is left moves to the end of what is sorted.            *)
LEMMA SortStepInvariant ==
  ASSUME IInv, SortStep
  PROVE  IInv'
<1> DEFINE best == Best(request_list, floor, direction)
<1>1. /\ sorting /\ request_list # <<>>
      /\ request_list \in Seq(Request) /\ ret \in Seq(Request)
      /\ floor \in Floors /\ direction \in Directions
      /\ Distinct(request_list) /\ Distinct(ret)
      /\ Elements(request_list) \cap Elements(ret) = {}
      /\ Elements(before) = Elements(request_list) \cup Elements(ret)
  BY Lists DEF IInv, TypeOK, NothingLost, SortStep
<1>2. PICK k \in DOMAIN request_list :
        /\ best = request_list[k]
        /\ \A j \in DOMAIN request_list :
             Dist(request_list[k], floor, direction)
               <= Dist(request_list[j], floor, direction)
  BY <1>1, BestIsNearest
<1>3. best \in Request
  BY <1>1, <1>2, ElementOfSeq, LenProperties
<1>4. ret' = SetInsert(ret, best) /\ request_list' = SetRemove(request_list, best)
  BY DEF SortStep
<1>5. \A r \in Elements(request_list) :
        Dist(best, floor, direction) <= Dist(r, floor, direction)
  BY <1>2 DEF Elements
<1>6. best \in Elements(request_list)
  BY <1>2 DEF Elements
<1> HIDE DEF best
<1>7. /\ ret' \in Seq(Request) /\ Distinct(ret')
      /\ Elements(ret') = Elements(ret) \cup {best}
      /\ ret # <<>> => Head(ret') = Head(ret)
      /\ ret = <<>> => Head(ret') = best
  BY <1>1, <1>3, <1>4, SetInsertResult
<1>8. /\ request_list' \in Seq(Request) /\ Distinct(request_list')
      /\ Elements(request_list') = Elements(request_list) \ {best}
  BY <1>1, <1>2, <1>4, SetRemoveResult
<1>9. TypeOK'
  BY <1>7, <1>8 DEF IInv, TypeOK, SortStep
<1>10. NothingLost'
  <2>1. Elements(request_list') \cap Elements(ret') = {}
    BY <1>1, <1>7, <1>8
  <2>2. Distinct(request_list' \o ret')
    BY <1>7, <1>8, <2>1, DistinctParts
  <2>3. Elements(before) = Elements(request_list') \cup Elements(ret')
    BY <1>1, <1>6, <1>7, <1>8
  <2>4. before' = before
    BY DEF SortStep
  <2> QED  BY <2>2, <2>3, <2>4 DEF NothingLost
<1>11. HeadIsNearest'
  <2>1. \A r \in Elements(before) :
          Dist(Head(ret'), floor, direction) <= Dist(r, floor, direction)
    <3>1. CASE ret = <<>>
      BY <1>1, <1>5, <1>7, <3>1, EmptyElements
    <3>2. CASE ret # <<>>
      BY <1>1, <1>7, <3>2 DEF IInv, HeadIsNearest
    <3> QED  BY <3>1, <3>2
  <2> QED  BY <2>1 DEF HeadIsNearest, SortStep
<1>12. OneListOutside'
  BY <1>1 DEF OneListOutside, SortStep
<1> QED  BY <1>9, <1>10, <1>11, <1>12 DEF IInv

LEMMA SortDoneInvariant ==
  ASSUME IInv, SortDone
  PROVE  IInv'
<1>1. /\ ret \in Seq(Request) /\ Distinct(ret)
      /\ request_list' = ret /\ ret' = <<>> /\ before' = <<>>
  BY Lists DEF IInv, TypeOK, NothingLost, SortDone
<1>2. Distinct(request_list' \o ret')
  BY <1>1, InitialValues, DistinctParts, EmptyElements
<1>3. TypeOK'
  BY <1>1, InitialValues DEF TypeOK, SortDone
<1> QED  BY <1>1, <1>2, <1>3
         DEF IInv, NothingLost, OneListOutside, HeadIsNearest, SortDone

LEMMA NextInvariant == IInv /\ [Next]_vars => IInv'
<1> SUFFICES ASSUME IInv, [Next]_vars PROVE IInv'
  OBVIOUS
<1>1. CASE UNCHANGED vars
  BY <1>1 DEF vars, IInv, TypeOK, NothingLost, OneListOutside, HeadIsNearest
<1> QED  BY <1>1, InsertInvariant, RemoveServedInvariant, SortStartInvariant,
            SortStepInvariant, SortDoneInvariant DEF Next

LEMMA Invariant == Spec => []IInv
BY InitInvariant, NextInvariant, PTL DEF Spec

------------------------------------------------------------------------------
(* The lists hold requests, also while one is taken apart.                    *)
THEOREM TypeCorrect == Spec => []TypeOK
<1>1. IInv => TypeOK
  BY DEF IInv
<1> QED  BY <1>1, Invariant, PTL

(* No request waits twice, and the sort neither loses one nor makes one up.   *)
THEOREM SortKeepsRequests == Spec => []NothingLost
<1>1. IInv => NothingLost
  BY DEF IInv
<1> QED  BY <1>1, Invariant, PTL

(* A request on the path is nearer than any that is not, by way of the top or *)
(* the bottom of the shaft; going down from floor 0 they may tie, at floor 0. *)
LEMMA PathFirst ==
  ASSUME NEW f \in Floors, NEW d \in Directions,
         NEW r \in Request, OnPath(r, f, d),
         NEW s \in Request, Dist(s, f, d) <= Dist(r, f, d)
  PROVE  IF d = D_UP THEN f <= s.floor /\ s.floor <= r.floor
         ELSE f >= s.floor /\ s.floor >= r.floor
<1>1. /\ FLOORS \in Nat /\ f \in 0 .. FLOORS - 1
      /\ r.floor \in 0 .. FLOORS - 1 /\ s.floor \in 0 .. FLOORS - 1
  BY FloorsAssumption DEF Floors, Request
<1>2. CASE d = D_UP
  BY <1>1, <1>2 DEF OnPath, Dist, D_UP
<1>3. CASE d # D_UP
  <2>1. Dist(r, f, d) = f - r.floor /\ f >= r.floor
    BY <1>3 DEF OnPath, Dist
  <2>2. CASE OnPath(s, f, d)
    <3>1. Dist(s, f, d) = f - s.floor /\ f >= s.floor
      BY <1>3, <2>2 DEF OnPath, Dist
    <3> QED  BY <1>1, <1>3, <2>1, <3>1
  <2>3. CASE ~OnPath(s, f, d)
    <3>1. Dist(s, f, d) = f + s.floor
      BY <1>3, <2>3 DEF Dist
    <3> QED  BY <1>1, <1>3, <2>1, <3>1
  <2> QED  BY <2>2, <2>3
<1> QED  BY <1>2, <1>3

(* What is served next is the nearest request on the lift's path.             *)
THEOREM PathIsServedFirst == Spec => NextStopOnPath
<1>1. ASSUME IInv, SortDone,
             NEW i \in DOMAIN before, OnPath(before[i], floor, direction)
      PROVE  LET next == Head(request_list').floor
             IN  IF direction = D_UP
                 THEN floor <= next /\ next <= before[i].floor
                 ELSE floor >= next /\ next >= before[i].floor
  <2>1. /\ sorting /\ floor \in Floors /\ direction \in Directions
        /\ ret \in Seq(Request) /\ before \in Seq(Request)
        /\ request_list' = ret
        /\ before[i] \in Elements(before)
        /\ Elements(before) = Elements(ret)
    BY <1>1, EmptyElements DEF IInv, TypeOK, NothingLost, SortDone, Elements
  <2>2. ret # <<>>
    BY <2>1, EmptyElements
  <2>3. Dist(Head(ret), floor, direction) <= Dist(before[i], floor, direction)
    BY <1>1, <2>1, <2>2 DEF IInv, HeadIsNearest
  <2>4. Head(ret) \in Request /\ before[i] \in Request
    BY <2>1, <2>2, HeadTailProperties, LenProperties, ElementOfSeq
  <2> QED  BY <1>1, <2>1, <2>3, <2>4, PathFirst
<1>2. IInv /\ [Next]_vars =>
        [SortDone =>
           \A i \in DOMAIN before :
             OnPath(before[i], floor, direction) =>
               LET next == Head(request_list').floor
               IN  IF direction = D_UP
                   THEN floor <= next /\ next <= before[i].floor
                   ELSE floor >= next /\ next >= before[i].floor]_vars
  BY <1>1
<1> QED  BY <1>2, Invariant, PTL DEF Spec, NextStopOnPath

(* A sorted list is sorted for any floor the lift passes on its way to the    *)
(* head of it, so sorting it again changes nothing.                           *)
LEMMA SortedAgainOnTheWay ==
  ASSUME NEW list \in Seq(Request), list # <<>>,
         NEW f \in Floors, NEW g \in Floors, NEW d \in {D_UP, D_DOWN},
         LET h == Head(SetSort(list, f, d)).floor
         IN  IF d = D_UP THEN f <= g /\ g <= h ELSE h <= g /\ g <= f
  PROVE  SetSort(SetSort(list, f, d), g, d) = SetSort(list, f, d)
<1> DEFINE sorted == SetSort(list, f, d)
<1>1. d \in Directions /\ d # D_STOJI
  BY DEF Directions, D_UP, D_DOWN, D_STOJI
<1>2. /\ sorted \in Seq(Request) /\ Len(sorted) = Len(list)
      /\ \A k, l \in DOMAIN list :
           k < l => Dist(sorted[k], f, d) <= Dist(sorted[l], f, d)
  BY <1>1, SetSortResult
<1> HIDE DEF sorted
<1>3. /\ DOMAIN sorted = DOMAIN list /\ DOMAIN list = 1 .. Len(list)
      /\ Len(list) \in Nat \ {0}
  BY <1>2, LenProperties, EmptySeq
<1>4. \A k \in DOMAIN list :
        sorted[k] \in Request /\ Dist(sorted[k], f, d) \in Nat
  BY <1>1, <1>2, <1>3, ElementOfSeq, DistType
<1>5. 1 \in DOMAIN list /\ Head(sorted) = sorted[1]
  BY <1>2, <1>3
<1>6. \A k \in DOMAIN list : Dist(sorted[1], f, d) <= Dist(sorted[k], f, d)
  BY <1>2, <1>3, <1>4, <1>5
<1>7. ASSUME NEW k \in DOMAIN list, NEW l \in DOMAIN list, k < l
      PROVE  Dist(sorted[k], g, d) <= Dist(sorted[l], g, d)
  <2>1. Dist(sorted[k], f, d) <= Dist(sorted[l], f, d)
    BY <1>2, <1>7
  <2>2. IF d = D_UP THEN f <= g /\ g <= sorted[1].floor
        ELSE sorted[1].floor <= g /\ g <= f
    BY <1>5 DEF sorted
  <2> QED  BY <1>4, <1>5, <1>6, <2>1, <2>2, TravelKeepsOrder
<1>8. SetSort(sorted, g, d) = sorted
  BY <1>1, <1>2, <1>3, <1>7, SortedIsKept
<1> QED  BY <1>8 DEF sorted

(* The lift does not change its mind on the way: reports from floors between  *)
(* the one the list was sorted at and the first request leave it as it is.    *)
THEOREM TravelKeepsTheList == Spec => []OrderSurvivesTravel
<1>1. TypeOK => OrderSurvivesTravel
  <2>1. ASSUME TypeOK, request_list # <<>>, NEW f \in Floors, NEW g \in Floors
        PROVE  LET up   == SetSort(request_list, f, D_UP)
                   down == SetSort(request_list, f, D_DOWN)
               IN  /\ f <= g /\ g <= Head(up).floor => SetSort(up, g, D_UP) = up
                   /\ Head(down).floor <= g /\ g <= f =>
                        SetSort(down, g, D_DOWN) = down
    <3>1. request_list \in Seq(Request) /\ D_UP # D_DOWN
      BY <2>1 DEF TypeOK, D_UP, D_DOWN
    <3> QED  BY <2>1, <3>1, SortedAgainOnTheWay
  <2> QED  BY <2>1 DEF OrderSurvivesTravel
<1> QED  BY <1>1, TypeCorrect, PTL

------------------------------------------------------------------------------
(* What the loop of SetSort has done so far: the new list holds the requests  *)
(* of the first places, and those left over are in the order they came in,    *)
(* which is what makes the choice of the first of the nearest stable.         *)
FirstPlacesTaken ==
  \A k \in DOMAIN ret :
    \E i \in DOMAIN before :
      before[i] = ret[k] /\ Place(before, i, floor, direction) = k

RestInOrder ==
  \A k, l \in DOMAIN request_list :
    k < l => \E i, j \in DOMAIN before :
               request_list[k] = before[i] /\ request_list[l] = before[j] /\ i < j

SortedSoFar ==
  sorting => /\ direction # D_STOJI
             /\ Distinct(before)
             /\ Len(request_list) + Len(ret) = Len(before)
             /\ FirstPlacesTaken
             /\ RestInOrder

(* The request that the next iteration picks is the one of the next place: of *)
(* those left over, none is served sooner, and all that are were taken.       *)
LEMMA BestHasNextPlace ==
  ASSUME IInv, SortedSoFar, sorting,
         NEW b \in DOMAIN request_list, IsBest(request_list, b, floor, direction),
         NEW p \in DOMAIN before, before[p] = request_list[b]
  PROVE  Place(before, p, floor, direction) = Len(ret) + 1
<1> DEFINE P(i) == Place(before, i, floor, direction)
           m    == Len(ret)
           n    == Len(before)
<1>1. /\ request_list \in Seq(Request) /\ ret \in Seq(Request)
      /\ before \in Seq(Request)
      /\ floor \in Floors /\ direction \in Directions
      /\ Elements(request_list) \cap Elements(ret) = {}
      /\ Elements(before) = Elements(request_list) \cup Elements(ret)
  BY Lists DEF IInv, TypeOK, NothingLost
<1>2. /\ DOMAIN ret = 1 .. m /\ m \in Nat
      /\ DOMAIN before = 1 .. n /\ n \in Nat
      /\ DOMAIN request_list = 1 .. Len(request_list) /\ Len(request_list) \in Nat
  BY <1>1, LenProperties
<1>3. /\ Len(request_list) + m = n
      /\ \A i, j \in DOMAIN before : before[i] = before[j] => i = j
      /\ \A k \in DOMAIN ret :
           \E i \in DOMAIN before : before[i] = ret[k] /\ P(i) = k
      /\ RestInOrder
  BY DEF SortedSoFar, FirstPlacesTaken, Distinct
<1>4. /\ \A i \in DOMAIN before : P(i) \in DOMAIN before
      /\ \A i, j \in DOMAIN before : P(i) = P(j) => i = j
      /\ \A i, j \in DOMAIN before :
           Sooner(before, i, j, floor, direction) <=> P(i) < P(j)
      /\ \A k \in DOMAIN before : \E i \in DOMAIN before : P(i) = k
  BY <1>1, PlaceIsBijection
<1> HIDE DEF P, m, n
<1>5. m + 1 \in DOMAIN before
  BY <1>2, <1>3
<1>6. PICK q \in DOMAIN before : P(q) = m + 1
  BY <1>4, <1>5
<1>7. ASSUME NEW k \in DOMAIN ret PROVE before[q] # ret[k]
  <2>1. PICK i \in DOMAIN before : before[i] = ret[k] /\ P(i) = k
    BY <1>3
  <2>2. k # m + 1
    BY <1>2
  <2> QED  BY <1>3, <1>6, <2>1, <2>2
<1>8. PICK c \in DOMAIN request_list : before[q] = request_list[c]
  BY <1>1, <1>7 DEF Elements
<1>9. CASE c = b
  BY <1>3, <1>6, <1>8, <1>9 DEF P, m
<1>10. CASE c # b
  <2>1. /\ \/ Dist(before[p], floor, direction) < Dist(before[q], floor, direction)
           \/ /\ Dist(before[p], floor, direction) = Dist(before[q], floor, direction)
              /\ b <= c
    BY <1>8 DEF IsBest
  <2>2. b < c => p < q
    BY <1>3, <1>8 DEF RestInOrder
  <2>3. Sooner(before, p, q, floor, direction)
    <3>1. b <= c => b < c
      BY <1>2, <1>10
    <3> QED  BY <2>1, <2>2, <3>1 DEF Sooner
  <2>4. P(p) < m + 1 /\ P(p) \in 1 .. n
    BY <1>2, <1>4, <1>6, <2>3
  <2>5. P(p) \in DOMAIN ret
    BY <1>2, <2>4
  <2>6. before[p] = ret[P(p)]
    BY <1>3, <1>4, <2>5
  <2>7. before[p] \in Elements(ret) /\ before[p] \in Elements(request_list)
    BY <2>5, <2>6 DEF Elements
  <2> QED  BY <1>1, <2>7
<1> QED  BY <1>9, <1>10

LEMMA SortStepSoFar ==
  ASSUME IInv, SortedSoFar, SortStep
  PROVE  SortedSoFar'
<1> DEFINE best == Best(request_list, floor, direction)
<1>1. /\ sorting /\ request_list # <<>>
      /\ request_list \in Seq(Request) /\ ret \in Seq(Request)
      /\ before \in Seq(Request)
      /\ floor \in Floors /\ direction \in Directions
      /\ Distinct(request_list) /\ Distinct(ret)
      /\ Elements(request_list) \cap Elements(ret) = {}
      /\ Elements(before) = Elements(request_list) \cup Elements(ret)
  BY Lists DEF IInv, TypeOK, NothingLost, SortStep
<1>2. PICK b \in DOMAIN request_list :
        best = request_list[b] /\ IsBest(request_list, b, floor, direction)
  BY <1>1, BestIsNearest
<1>3. /\ ret' = SetInsert(ret, best) /\ request_list' = SetRemove(request_list, best)
      /\ UNCHANGED <<sorting, floor, direction, before>>
  BY DEF SortStep
<1>4. best \in Elements(request_list) /\ best \notin Elements(ret)
  BY <1>1, <1>2 DEF Elements
<1>5. best \in Request
  BY <1>1, <1>2, ElementOfSeq, LenProperties
<1> HIDE DEF best
<1>6. PICK p \in DOMAIN before : before[p] = best
  BY <1>1, <1>4 DEF Elements
<1>7. Place(before, p, floor, direction) = Len(ret) + 1
  BY <1>1, <1>2, <1>6, BestHasNextPlace
<1>8. /\ Len(ret) \in Nat /\ DOMAIN ret = 1 .. Len(ret)
      /\ ret' = Append(ret, best)
      /\ Len(ret') = Len(ret) + 1
      /\ DOMAIN ret' = 1 .. Len(ret) + 1
      /\ \A i \in 1 .. Len(ret) : ret'[i] = ret[i]
      /\ ret'[Len(ret) + 1] = best
  <2>1. ret' = Append(ret, best)
    BY <1>1, <1>3, <1>4, <1>5, SetInsertResult
  <2> QED  BY <1>1, <1>5, <2>1, AppendProperties, LenProperties
<1> DEFINE w == Len(request_list)
<1>9. /\ w \in Nat /\ DOMAIN request_list = 1 .. w
      /\ Len(request_list') = w - 1
      /\ DOMAIN request_list' = 1 .. w - 1
      /\ \A i \in 1 .. w - 1 :
           request_list'[i] = IF i < b THEN request_list[i] ELSE request_list[i + 1]
  <2>1. /\ request_list' \in Seq(Request)
        /\ Len(request_list') = Len(request_list) - 1
        /\ \A i \in 1 .. Len(request_list) - 1 :
             request_list'[i] = IF i < b THEN request_list[i] ELSE request_list[i + 1]
    BY <1>1, <1>2, <1>3, SetRemoveResult
  <2> QED  BY <1>1, <2>1, LenProperties
<1> HIDE DEF w
<1>10. FirstPlacesTaken'
  <2>1. ASSUME NEW k \in 1 .. Len(ret) + 1
        PROVE  \E i \in DOMAIN before :
                 before[i] = ret'[k] /\ Place(before, i, floor, direction) = k
    <3>1. CASE k = Len(ret) + 1
      BY <1>6, <1>7, <1>8, <3>1
    <3>2. CASE k # Len(ret) + 1
      <4>1. k \in DOMAIN ret /\ ret'[k] = ret[k]
        BY <1>8, <3>2
      <4> QED  BY <1>1, <4>1 DEF SortedSoFar, FirstPlacesTaken
    <3> QED  BY <3>1, <3>2
  <2> QED  BY <1>3, <1>8, <2>1 DEF FirstPlacesTaken
<1>11. RestInOrder'
  <2>1. ASSUME NEW k \in 1 .. w - 1, NEW l \in 1 .. w - 1, k < l
        PROVE  \E i, j \in DOMAIN before :
                 request_list'[k] = before[i] /\ request_list'[l] = before[j] /\ i < j
    <3> DEFINE x == IF k < b THEN k ELSE k + 1
               y == IF l < b THEN l ELSE l + 1
    <3>1. /\ x \in DOMAIN request_list /\ y \in DOMAIN request_list /\ x < y
          /\ request_list'[k] = request_list[x] /\ request_list'[l] = request_list[y]
      BY <1>9, <2>1
    <3> HIDE DEF x, y
    <3> QED  BY <1>1, <3>1 DEF SortedSoFar, RestInOrder
  <2> QED  BY <1>3, <1>9, <2>1 DEF RestInOrder
<1>12. Len(request_list') + Len(ret') = Len(before')
  <2>1. w + Len(ret) = Len(before)
    BY <1>1 DEF SortedSoFar, w
  <2>2. Len(before') = Len(before)
    BY <1>3
  <2> QED  BY <1>8, <1>9, <2>1, <2>2
<1> QED  BY <1>1, <1>3, <1>10, <1>11, <1>12 DEF SortedSoFar

LEMMA SortedSoFarInvariant == Spec => []SortedSoFar
<1>1. Init => SortedSoFar
  BY DEF Init, SortedSoFar
<1>2. ASSUME IInv, SortedSoFar, [Next]_vars
      PROVE  SortedSoFar'
  <2>1. CASE \E f \in Floors, d \in Directions : SortStart(f, d)
    <3>1. /\ ret = <<>> /\ UNCHANGED <<request_list, ret>>
          /\ before' = request_list /\ direction' # D_STOJI
      BY <1>2, <2>1 DEF IInv, OneListOutside, SortStart
    <3>2. request_list \in Seq(Request) /\ Distinct(request_list)
      BY <1>2, Lists DEF IInv, TypeOK, NothingLost
    <3>3. Len(request_list) \in Nat /\ DOMAIN request_list = 1 .. Len(request_list)
      BY <3>2, LenProperties
    <3>4. DOMAIN <<>> = {} /\ Len(<<>>) = 0
      BY EmptySeq
    <3>5. FirstPlacesTaken'
      BY <3>1, <3>4 DEF FirstPlacesTaken
    <3>6. RestInOrder'
      BY <3>1 DEF RestInOrder
    <3>7. Len(request_list') + Len(ret') = Len(before')
      BY <3>1, <3>3, <3>4
    <3> QED  BY <3>1, <3>2, <3>5, <3>6, <3>7 DEF SortedSoFar
  <2>2. CASE SortStep
    BY <1>2, <2>2, SortStepSoFar
  <2>3. CASE (\E r \in Request : Insert(r)) \/ RemoveServed \/ SortDone
    BY <2>3 DEF SortedSoFar, Insert, RemoveServed, SortDone
  <2>4. CASE UNCHANGED vars
    BY <1>2, <2>4 DEF SortedSoFar, FirstPlacesTaken, RestInOrder, vars
  <2> QED  BY <1>2, <2>1, <2>2, <2>3, <2>4 DEF Next
<1> QED  BY <1>1, <1>2, Invariant, PTL DEF Spec

(* The selection sort of set.c, which moves one request at a time through     *)
(* SetInsert and SetRemove, computes the stable sort by distance.             *)
THEOREM LoopIsStableSort == Spec => SortIsStable
<1>1. ASSUME IInv, SortedSoFar, SortDone
      PROVE  request_list' = SetSort(before, floor, direction)
  <2> DEFINE sorted == SetSort(before, floor, direction)
             P(i)   == Place(before, i, floor, direction)
  <2>1. /\ sorting /\ request_list = <<>> /\ request_list' = ret
        /\ floor \in Floors /\ direction \in Directions /\ direction # D_STOJI
        /\ ret \in Seq(Request) /\ before \in Seq(Request)
    BY <1>1 DEF IInv, TypeOK, SortDone, SortedSoFar
  <2>2. Len(ret) = Len(before)
    <3>1. Len(<<>>) = 0 /\ Len(ret) \in Nat
      BY <2>1, LenProperties
    <3> QED  BY <1>1, <2>1, <3>1 DEF SortedSoFar
  <2>3. /\ sorted \in Seq(Request) /\ Len(sorted) = Len(before)
        /\ \A i \in DOMAIN before : sorted[P(i)] = before[i]
    BY <2>1, SetSortPlaces
  <2>4. \A k \in DOMAIN ret :
          \E i \in DOMAIN before : before[i] = ret[k] /\ P(i) = k
    BY <1>1, <2>1 DEF SortedSoFar, FirstPlacesTaken
  <2> HIDE DEF sorted, P
  <2>5. \A k \in 1 .. Len(ret) : ret[k] = sorted[k]
    <3>1. DOMAIN ret = 1 .. Len(ret)
      BY <2>1, LenProperties
    <3> QED  BY <2>3, <2>4, <3>1
  <2>6. ret = sorted
    BY <2>1, <2>2, <2>3, <2>5, SeqEqual
  <2> QED  BY <2>1, <2>6 DEF sorted
<1>2. IInv /\ SortedSoFar /\ [Next]_vars =>
        [SortDone => request_list' = SetSort(before, floor, direction)]_vars
  BY <1>1
<1> QED  BY <1>2, Invariant, SortedSoFarInvariant, PTL DEF Spec, SortIsStable
==============================================================================
