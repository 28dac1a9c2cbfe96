----------------------------- MODULE RequestSet ------------------------------
(* The request list of src/01-lift/upr.c as the control computer uses it, with *)
(* the selection sort of set.c one iteration at a time.  Every operation runs  *)
(* under m_request_list; nothing but the loop runs while the list is sorted.   *)
EXTENDS RequestList

CONSTANT MaxRequests     \* bound: requests waiting at once

VARIABLES
  request_list,        \* *head
  ret,                 \* the result SetSort builds, <<>> outside SetSort
  sorting,             \* inside the loop of SetSort
  floor, direction,    \* its arguments
  before               \* history: the list SetSort was called with

vars == <<request_list, ret, sorting, floor, direction, before>>

Init == /\ request_list = <<>>
        /\ ret = <<>>
        /\ sorting = FALSE
        /\ floor = 0
        /\ direction = D_STOJI
        /\ before = <<>>

(* Mutant of Insert: the floors of the keys are counted from one. *)
InsertFromOne(r) ==
  /\ ~sorting
  /\ Len(request_list) < MaxRequests
  /\ request_list' = SetInsert(request_list, Req(r.floor + 1, r.direction))
  /\ UNCHANGED <<ret, sorting, floor, direction, before>>

(* udp_listener: a key was pressed. *)
Insert(r) == /\ ~sorting
             /\ Len(request_list) < MaxRequests
             /\ request_list' = SetInsert(request_list, r)
             /\ UNCHANGED <<ret, sorting, floor, direction, before>>

(* upr: the request at the head was served. *)
RemoveServed == /\ ~sorting
                /\ request_list # <<>>
                /\ request_list' = SetRemove(request_list, Head(request_list))
                /\ UNCHANGED <<ret, sorting, floor, direction, before>>

(* upr: SetSort is entered with the reported floor and direction; D_STOJI     *)
(* returns at once.                                                           *)
SortStart(f, d) == /\ ~sorting
                   /\ request_list # <<>>
                   /\ d # D_STOJI
                   /\ sorting' = TRUE
                   /\ floor' = f
                   /\ direction' = d
                   /\ before' = request_list
                   /\ UNCHANGED <<request_list, ret>>

(* One iteration of the outer loop. *)
SortStep ==
  /\ sorting
  /\ request_list # <<>>
  /\ LET best == Best(request_list, floor, direction)
     IN  /\ ret' = SetInsert(ret, best)
         /\ request_list' = SetRemove(request_list, best)
  /\ UNCHANGED <<sorting, floor, direction, before>>

SortDone == /\ sorting
            /\ request_list = <<>>
            /\ request_list' = ret
            /\ ret' = <<>>
            /\ sorting' = FALSE
            /\ before' = <<>>
            /\ floor' = 0
            /\ direction' = D_STOJI

Next == \/ \E r \in Request : Insert(r)
        \/ RemoveServed
        \/ \E f \in Floors, d \in Directions : SortStart(f, d)
        \/ SortStep
        \/ SortDone

Spec == Init /\ [][Next]_vars

------------------------------------------------------------------------------
TypeOK == /\ request_list \in Seq(Request)
          /\ ret \in Seq(Request)
          /\ sorting \in BOOLEAN
          /\ floor \in Floors
          /\ direction \in Directions
          /\ before \in Seq(Request)

(* The list is a set, also while it is split between the list that SetSort    *)
(* empties and the one it builds: no request waits twice, and none is lost or *)
(* made up by SetInsert, which silently refuses an element, and SetRemove,    *)
(* which silently finds none.                                                 *)
NothingLost ==
  /\ Distinct(request_list \o ret)
  /\ sorting => Elements(before) = Elements(request_list) \cup Elements(ret)

(* The loop computes the stable sort: of two equally near requests the older  *)
(* one goes first.                                                            *)
SortIsStable ==
  [][SortDone => request_list' = SetSort(before, floor, direction)]_vars

(* After the sort the lift's next stop is the nearest request on its path, if *)
(* there is one: nothing that asks for the other direction or lies behind is  *)
(* served before it.                                                          *)
NextStopOnPath ==
  [][SortDone =>
       \A i \in DOMAIN before :
         OnPath(before[i], floor, direction) =>
           LET next == Head(request_list').floor
           IN  IF direction = D_UP
               THEN floor <= next /\ next <= before[i].floor
               ELSE floor >= next /\ next >= before[i].floor]_vars

(* Sorting again on the way to the head of a sorted list changes nothing: the *)
(* lift never changes its mind about where it goes unless a key is pressed.   *)
OrderSurvivesTravel ==
  ~sorting /\ request_list # <<>> =>
    \A f, g \in Floors :
      LET up   == SetSort(request_list, f, D_UP)
          down == SetSort(request_list, f, D_DOWN)
      IN  /\ f <= g /\ g <= Head(up).floor => SetSort(up, g, D_UP) = up
          /\ Head(down).floor <= g /\ g <= f => SetSort(down, g, D_DOWN) = down
==============================================================================
