----------------------------- MODULE RequestList -----------------------------
(* The set of requests of src/01-lift/set.c as pure operators: a linked list  *)
(* is a sequence, an element a record.                                        *)
EXTENDS LiftTypes, SequencesExt

Request == [floor : Floors, direction : {D_UP, D_DOWN}]

Req(f, d) == [floor |-> f, direction |-> d]

(* A request that is already waiting is not inserted again. *)
SetInsert(list, r) ==
  IF \E i \in DOMAIN list : list[i] = r THEN list ELSE Append(list, r)

(* Mutant of SetRemove: the direction is not compared. *)
SetRemoveByFloor(list, r) ==
  RemoveFirstMatch(list, LAMBDA x : x.floor = r.floor)

SetRemove(list, r) == RemoveFirst(list, r)

(* The request lies ahead of a lift travelling in the given direction, and    *)
(* asks for that direction.                                                   *)
OnPath(r, floor, direction) ==
  /\ r.direction = direction
  /\ IF direction = D_UP THEN floor <= r.floor ELSE floor >= r.floor

(* Mutant of Dist: a request off the path is as far as its floor is. *)
DistDirect(r, floor, direction) ==
  CASE floor <= r.floor -> r.floor - floor
    [] OTHER            -> floor - r.floor

(* Mutant of Dist: the way to the top is counted once, not twice. *)
DistOneWay(r, floor, direction) ==
  CASE OnPath(r, floor, direction) /\ direction = D_UP -> r.floor - floor
    [] OnPath(r, floor, direction) /\ direction # D_UP -> floor - r.floor
    [] ~OnPath(r, floor, direction) /\ direction = D_UP ->
         FLOORS - floor - r.floor
    [] OTHER -> floor + r.floor

(* curr_dist: how far the lift travels before it can serve r, by way of the   *)
(* top or the bottom of the shaft when r is not on its path.                  *)
Dist(r, floor, direction) ==
  CASE OnPath(r, floor, direction) /\ direction = D_UP -> r.floor - floor
    [] OnPath(r, floor, direction) /\ direction # D_UP -> floor - r.floor
    [] ~OnPath(r, floor, direction) /\ direction = D_UP ->
         2 * FLOORS - floor - r.floor
    [] OTHER -> floor + r.floor

(* Mutant of IsBest: a later request replaces an equally near one. *)
IsBestLast(list, i, floor, direction) ==
  \A j \in DOMAIN list :
    LET di == Dist(list[i], floor, direction)
        dj == Dist(list[j], floor, direction)
    IN  di < dj \/ (di = dj /\ i >= j)

(* list[i] is what the inner loop of SetSort picks: the first of the nearest. *)
IsBest(list, i, floor, direction) ==
  \A j \in DOMAIN list :
    LET di == Dist(list[i], floor, direction)
        dj == Dist(list[j], floor, direction)
    IN  di < dj \/ (di = dj /\ i <= j)

Best(list, floor, direction) ==
  list[CHOOSE i \in DOMAIN list : IsBest(list, i, floor, direction)]

(* list[i] is served before list[j]: it is nearer, or as near and there first. *)
Sooner(list, i, j, floor, direction) ==
  LET di == Dist(list[i], floor, direction)
      dj == Dist(list[j], floor, direction)
  IN  di < dj \/ (di = dj /\ i < j)

(* The place of list[i] in the sorted list: all that is served sooner goes    *)
(* before it.                                                                 *)
Place(list, i, floor, direction) ==
  1 + Cardinality({j \in DOMAIN list : Sooner(list, j, i, floor, direction)})

(* What SetSort makes of a list: the stable sort by distance, the list itself *)
(* when the lift never moved.  RequestSet checks that the loop computes it.   *)
SetSort(list, floor, direction) ==
  IF direction = D_STOJI THEN list
  ELSE [k \in DOMAIN list |->
          list[CHOOSE i \in DOMAIN list : Place(list, i, floor, direction) = k]]
------------------------------------------------------------------------------
(* The vocabulary of the properties: what is in a list, and that nothing is   *)
(* there twice.                                                               *)
Elements(list) == {list[i] : i \in DOMAIN list}

Distinct(list) == \A i, j \in DOMAIN list : list[i] = list[j] => i = j
==============================================================================
