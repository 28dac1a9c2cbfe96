----------------------------- MODULE LiftSystem ------------------------------
(* The program of src/01-lift: the control computer upr, the lift, and the    *)
(* keys in the hall (tipke), which exchange datagrams.                        *)
(*                                                                            *)
(* upr has three threads that matter here: upr(), which asks for the status   *)
(* and decides once per UPR_FREQUENCY; udp_listener(), which takes reports    *)
(* and keys; and check_list(), which only forgets unacknowledged datagrams    *)
(* (module Datagrams).  upr() holds m_action from its decision to the end of  *)
(* the round, but m_request_list only around each access of the list.         *)
EXTENDS RequestList

CONSTANTS
  MaxWaiting,          \* bound: requests waiting or on their way at once
  MaxLosses,           \* bound: datagrams the network loses
  MinTicks, MaxTicks,  \* rounds of upr() per round of lift(): 4 and 5 in the code
  Overlap,             \* TRUE: keys and rounds of lift() fall among datagrams
                       \* in flight, FALSE: only between two rounds of upr()
  StopKey              \* TRUE: somebody may type STOP in the cabin

ASSUME BoundsAssumption ==
  /\ {MaxWaiting, MaxLosses, MinTicks, MaxTicks} \subseteq Nat
  /\ MaxTicks > 0 /\ MinTicks <= MaxTicks
  /\ {Overlap, StopKey} \subseteq BOOLEAN

VARIABLES
  \* the lift (module LiftCar)
  current_floor, current_im_floor, current_state, current_direction,
  current_action, current_stop, status, RUNNING,
  \* upr
  request_list,
  report,              \* current_floor, ..., current_direction of upr.c
  upr_pc,              \* "served" between the sends and SetRemove
  to_send,             \* what the listener still has to send: <<>> or one
  \* tipke
  hall_status,         \* its status[][]
  \* the network, and bounds
  net, losses, ticks

Car == INSTANCE LiftCar

liftVars == <<current_floor, current_im_floor, current_state,
              current_direction, current_action, current_stop, status, RUNNING>>
uprVars == <<request_list, report, upr_pc, to_send>>
vars    == <<liftVars, uprVars, hall_status, net, losses, ticks>>

(* One direction between two processes is a sequence: UDP between processes   *)
(* of one machine keeps the order.                                            *)
Channels == {"upr_lift", "lift_upr", "upr_tipke", "tipke_upr"}

Msg(type, data) == [type |-> type, data |-> data]
Action(a)       == Msg("LIFT_ACTION_START", a)

(* upr.c starts with current_state = -1. *)
UNKNOWN == "unknown"

HallKeys == {r \in Request : r # Req(FLOORS - 1, D_UP) /\ r # Req(0, D_DOWN)}

Init == /\ Car!Init
        /\ request_list = <<>>
        /\ report = [floor |-> 0, im_floor |-> 0, state |-> UNKNOWN,
                     direction |-> D_UP]
        /\ upr_pc = "sleep"
        /\ to_send = <<>>
        /\ hall_status \in [Request -> {FALSE}]
        /\ net = [c \in Channels |-> <<>>]
        /\ losses = 0
        /\ ticks = 0

------------------------------------------------------------------------------
(* The network. *)

Send(c, msgs) == net' = [net EXCEPT ![c] = @ \o msgs]

(* Take the oldest datagram of c, and put msgs on channel d. *)
Forward(c, d, msgs) ==
  net' = [[net EXCEPT ![c] = Tail(@)] EXCEPT ![d] = @ \o msgs]

Receive(c, type) == /\ net[c] # <<>>
                    /\ Head(net[c]).type = type
                    /\ net' = [net EXCEPT ![c] = Tail(@)]

Lose(c) == /\ losses < MaxLosses
           /\ net[c] # <<>>
           /\ losses' = losses + 1
           /\ net' = [net EXCEPT ![c] = Tail(@)]
           /\ UNCHANGED <<liftVars, uprVars, hall_status, ticks>>

Quiet == net = [c \in Channels |-> <<>>] /\ to_send = <<>>

Settled == Overlap \/ (Quiet /\ upr_pc = "sleep")

------------------------------------------------------------------------------
(* upr(): one round.  It decides on the report it has; the answer to its own  *)
(* status request is for the next round.                                      *)

(* Mutant of Trip: the door is opened whenever the request is not above.      *)
TripOpensBelow(next) ==
  IF next.floor <= report.floor THEN A_LIFT_OTVORI ELSE A_LIFT_GORE

(* What a lift that stands with its door closed is told. *)
Trip(next) == CASE next.floor = report.floor -> A_LIFT_OTVORI
                [] next.floor < report.floor -> A_LIFT_DOLE
                [] next.floor > report.floor -> A_LIFT_GORE

(* Mutant of StopDue: the stop of a way down is asked for at the floor, which *)
(* is too late.                                                               *)
StopDueLateDown(next) ==
  \/ /\ report.state = S_IDE_GORE
     /\ next.floor = report.floor + 1 /\ report.im_floor > 0
  \/ /\ report.state = S_IDE_DOLE
     /\ next.floor = report.floor /\ report.im_floor = 0

(* A travelling lift is less than a floor from the first request. *)
StopDue(next) ==
  \/ /\ report.state = S_IDE_GORE
     /\ next.floor = report.floor + 1 /\ report.im_floor > 0
  \/ /\ report.state = S_IDE_DOLE
     /\ next.floor = report.floor /\ report.im_floor > 0

(* The datagrams a round sends to the lift after the status request, when     *)
(* next is the first request.                                                 *)
ToLift(next) ==
  CASE report.state = S_STOJI_OTVOREN ->
         <<Action(A_LIFT_ZATVORI), Msg("LIFT_GASI_LAMPICU", report.floor)>>
    [] report.state = S_STOJI_ZATVOREN -> <<Action(Trip(next))>>
    [] StopDue(next) -> <<Action(A_LIFT_STANI_NA_KATU)>>
    [] OTHER -> <<>>

(* The datagram to the keys. *)
ToTipke(next) ==
  IF report.state = S_STOJI_OTVOREN
  THEN <<Msg("TIPKE_GASI_LAMPICU", Req(report.floor, next.direction))>>
  ELSE <<>>

(* Mutant of EndsServed: a request counts as served once the stop is asked    *)
(* for.                                                                       *)
EndsServedEarly == report.state \in {S_STOJI_OTVOREN, S_IDE_DOLE}

(* The round ends with the removal of a request. *)
EndsServed == report.state = S_STOJI_OTVOREN

Decide ==
  LET sorted == SetSort(request_list, report.floor, report.direction)
      next   == Head(sorted)
  IN  /\ request_list' = sorted
      /\ net' = [net EXCEPT
                   !["upr_lift"]  = @ \o <<Action("A_LIFT_STATUS")>>
                                      \o ToLift(next),
                   !["upr_tipke"] = @ \o ToTipke(next)]
      /\ upr_pc' = IF EndsServed THEN "served" ELSE "sleep"

(* Datagrams are answered well within UPR_FREQUENCY: a round finds those of   *)
(* the last one dealt with.                                                   *)
Tick ==
  /\ upr_pc = "sleep"
  /\ Quiet
  /\ ticks < MaxTicks \/ ~RUNNING
  /\ ticks' = IF RUNNING THEN ticks + 1 ELSE 0
  /\ \/ /\ request_list # <<>> /\ report.state # UNKNOWN
        /\ Decide
     \/ /\ request_list = <<>> \/ report.state = UNKNOWN
        /\ Send("upr_lift", <<Action("A_LIFT_STATUS")>>)
        /\ UNCHANGED <<request_list, upr_pc>>
  /\ UNCHANGED <<liftVars, report, to_send, hall_status, losses>>

(* Mutant of Served: the first request is removed wherever the lift stands. *)
ServedAnywhere ==
  /\ upr_pc = "served"
  /\ upr_pc' = "sleep"
  /\ request_list' = SetRemove(request_list, Head(request_list))
  /\ UNCHANGED <<liftVars, report, to_send, hall_status, net, losses, ticks>>

(* Mutant of Served: the round does not end.                                  *)
ServedAgain ==
  /\ upr_pc = "served"
  /\ request_list' = SetRemove(request_list, Head(request_list))
  /\ UNCHANGED <<liftVars, report, upr_pc, to_send, hall_status, net, losses,
                 ticks>>

(* The end of a round with the door open: the request is served. *)
Served ==
  /\ upr_pc = "served"
  /\ upr_pc' = "sleep"
  /\ request_list' =
       LET next == Head(request_list)
       IN  IF next.floor = report.floor
           THEN SetRemove(request_list, next) ELSE request_list
  /\ UNCHANGED <<liftVars, report, to_send, hall_status, net, losses, ticks>>

------------------------------------------------------------------------------
(* udp_listener() of upr. *)

ListenerIdle == to_send = <<>>

UprHallKey ==
  /\ ListenerIdle
  /\ Receive("tipke_upr", "TIPKE_KEY_PRESSED")
  /\ LET r == Head(net["tipke_upr"]).data
     IN  /\ request_list' = SetInsert(request_list, r)
         /\ to_send' = <<Msg("TIPKE_PALI_LAMPICU", r)>>
  /\ UNCHANGED <<liftVars, report, upr_pc, hall_status, losses, ticks>>

(* A key of the cabin becomes a request for the direction the lift has to     *)
(* travel to that floor.                                                      *)
UprCabinKey ==
  /\ ListenerIdle
  /\ upr_pc = "sleep"                        \* m_action
  /\ Receive("lift_upr", "LIFT_KEY_PRESSED")
  /\ LET f == Head(net["lift_upr"]).data
     IN  /\ request_list' =
              SetInsert(request_list,
                        Req(f, IF report.floor < f THEN D_UP ELSE D_DOWN))
         /\ to_send' = <<Msg("LIFT_PALI_LAMPICU", f)>>
  /\ UNCHANGED <<liftVars, report, upr_pc, hall_status, losses, ticks>>

(* The second half of the two handlers above. *)
UprSendLamp ==
  /\ ~ListenerIdle
  /\ Send(IF to_send[1].type = "LIFT_PALI_LAMPICU"
          THEN "upr_lift" ELSE "upr_tipke", to_send)
  /\ to_send' = <<>>
  /\ UNCHANGED <<liftVars, request_list, report, upr_pc, hall_status, losses,
                 ticks>>

UprReport ==
  /\ ListenerIdle
  /\ upr_pc = "sleep"                        \* m_action
  /\ Receive("lift_upr", "LIFT_STATUS_REPORT")
  /\ report' = Head(net["lift_upr"]).data
  /\ UNCHANGED <<liftVars, request_list, upr_pc, to_send, hall_status, losses,
                 ticks>>

UprStopKey ==
  /\ ListenerIdle
  /\ net["lift_upr"] # <<>> /\ Head(net["lift_upr"]).type = "LIFT_STOP"
  /\ Forward("lift_upr", "upr_lift", <<Action(A_LIFT_STANI)>>)
  /\ UNCHANGED <<liftVars, uprVars, hall_status, losses, ticks>>

UprListener == \/ UprHallKey \/ UprCabinKey \/ UprSendLamp
               \/ UprReport \/ UprStopKey

------------------------------------------------------------------------------
(* The lift. *)

(* One round of lift(): LIFT_FREQUENCY is five times UPR_FREQUENCY. *)
LiftRound == /\ Settled
             /\ ticks >= MinTicks
             /\ ticks' = 0
             /\ Car!LiftThread
             /\ UNCHANGED <<uprVars, hall_status, net, losses>>

(* udp_listener() of the lift. *)
LiftAction == /\ Receive("upr_lift", "LIFT_ACTION_START")
              /\ LET a == Head(net["upr_lift"]).data
                 IN  \/ a \in QueuedActions /\ Car!ReceiveAction(a)
                     \/ a = A_LIFT_STANI_NA_KATU /\ Car!ReceiveStopAtFloor
              /\ UNCHANGED <<uprVars, hall_status, losses, ticks>>

LiftLamp == /\ \/ /\ Receive("upr_lift", "LIFT_PALI_LAMPICU")
                  /\ Car!ReceiveLamp(Head(net["upr_lift"]).data, TRUE)
               \/ /\ Receive("upr_lift", "LIFT_GASI_LAMPICU")
                  /\ Car!ReceiveLamp(Head(net["upr_lift"]).data, FALSE)
            /\ UNCHANGED <<uprVars, hall_status, losses, ticks>>

(* A_LIFT_STATUS *)
LiftReport ==
  /\ RUNNING
  /\ net["upr_lift"] # <<>> /\ Head(net["upr_lift"]) = Action("A_LIFT_STATUS")
  /\ Forward("upr_lift", "lift_upr",
       <<Msg("LIFT_STATUS_REPORT",
             [floor |-> current_floor, im_floor |-> current_im_floor,
              state |-> current_state, direction |-> current_direction])>>)
  /\ UNCHANGED <<liftVars, uprVars, hall_status, losses, ticks>>

(* Nobody receives what is sent to a lift that has exited. *)
LiftGone == /\ ~RUNNING
            /\ net["upr_lift"] # <<>>
            /\ net' = [net EXCEPT !["upr_lift"] = Tail(@)]
            /\ UNCHANGED <<liftVars, uprVars, hall_status, losses, ticks>>

LiftListener == LiftAction \/ LiftLamp \/ LiftReport \/ LiftGone

------------------------------------------------------------------------------
(* The keys. *)

(* udp_listener() of tipke. *)
TipkeLamp ==
  /\ \E on \in BOOLEAN :
       /\ Receive("upr_tipke",
                  IF on THEN "TIPKE_PALI_LAMPICU" ELSE "TIPKE_GASI_LAMPICU")
       /\ hall_status' =
            [hall_status EXCEPT ![Head(net["upr_tipke"]).data] = on]
  /\ UNCHANGED <<liftVars, uprVars, losses, ticks>>

(* Requests waiting, or on their way to upr. *)
Waiting == Len(request_list) + Len(net["tipke_upr"])
           + Len(SelectSeq(net["lift_upr"],
                           LAMBDA m : m.type # "LIFT_STATUS_REPORT"))

PressHallKey(r) == /\ Waiting < MaxWaiting
                   /\ Send("tipke_upr", <<Msg("TIPKE_KEY_PRESSED", r)>>)
                   /\ UNCHANGED <<liftVars, uprVars, hall_status, losses, ticks>>

PressCabinKey(f) == /\ RUNNING
                    /\ Waiting < MaxWaiting
                    /\ Send("lift_upr", <<Msg("LIFT_KEY_PRESSED", f)>>)
                    /\ UNCHANGED <<liftVars, uprVars, hall_status, losses, ticks>>

TypeSTOP == /\ StopKey /\ RUNNING
            /\ Waiting < MaxWaiting
            /\ Send("lift_upr", <<Msg("LIFT_STOP", 0)>>)
            /\ UNCHANGED <<liftVars, uprVars, hall_status, losses, ticks>>

Press == /\ Settled
         /\ \/ \E r \in HallKeys : PressHallKey(r)
            \/ \E f \in Floors : PressCabinKey(f)
            \/ TypeSTOP

------------------------------------------------------------------------------
Next == \/ Tick \/ Served \/ UprListener
        \/ LiftRound \/ LiftListener \/ TipkeLamp
        \/ Press
        \/ \E c \in Channels : Lose(c)

(* The threads wait in usleep() or recvfrom() and for locks held briefly, and *)
(* none of them stops taking steps.  Quiet and Settled, in the guards of the  *)
(* two periodic threads, stand for time passing and not for waiting: hence    *)
(* strong fairness.  Nobody has to press a key and no datagram has to be lost. *)
Fairness == /\ SF_vars(Tick) /\ WF_vars(Served) /\ WF_vars(UprListener)
            /\ SF_vars(LiftRound) /\ WF_vars(LiftListener) /\ WF_vars(TipkeLamp)

Spec == Init /\ [][Next]_vars /\ Fairness

------------------------------------------------------------------------------
(* The state without the lamps, on which nothing else depends: the VIEW of     *)
(* the runs whose properties are not about them.                              *)
Control == <<current_floor, current_im_floor, current_state, current_direction,
             current_action, current_stop, RUNNING, uprVars, net, losses, ticks>>

(* What each channel carries. *)
LiftMessages ==
  [type : {"LIFT_ACTION_START"},
   data : QueuedActions \cup {A_LIFT_STANI_NA_KATU, "A_LIFT_STATUS"}]
  \cup [type : {"LIFT_PALI_LAMPICU", "LIFT_GASI_LAMPICU"}, data : Floors]

TipkeMessages ==
  [type : {"TIPKE_PALI_LAMPICU", "TIPKE_GASI_LAMPICU"}, data : Request]

LampsToLight == [type : {"LIFT_PALI_LAMPICU"}, data : Floors]
                  \cup [type : {"TIPKE_PALI_LAMPICU"}, data : Request]

Reports == [floor : Floors, im_floor : Quarters, state : LiftStates,
            direction : Directions]

Carried == [upr_lift  |-> LiftMessages,
            lift_upr  |-> [type : {"LIFT_KEY_PRESSED", "LIFT_STOP"}, data : Floors]
                            \cup [type : {"LIFT_STATUS_REPORT"}, data : Reports],
            upr_tipke |-> TipkeMessages,
            tipke_upr |-> [type : {"TIPKE_KEY_PRESSED"}, data : Request]]

IsWaiting(r) == \E i \in DOMAIN request_list : request_list[i] = r

TypeOK ==
  /\ Car!TypeOK
  /\ request_list \in Seq(Request)
  /\ report \in [floor : Floors, im_floor : Quarters,
                 state : LiftStates \cup {UNKNOWN}, direction : Directions]
  /\ upr_pc \in {"sleep", "served"}
  /\ upr_pc = "served" => request_list # <<>>
  /\ to_send \in {<<>>} \cup {<<m>> : m \in LampsToLight}
  /\ DOMAIN net = Channels
  /\ \A c \in Channels : net[c] \in Seq(Carried[c])
  /\ hall_status \in [Request -> BOOLEAN]
  /\ losses \in 0 .. MaxLosses
  /\ ticks \in 0 .. MaxTicks

(* upr decides on a report that may be a round old, yet a request leaves the  *)
(* list only while the car stands level with its floor.                       *)
ServedAtFloor ==
  [][\A r \in Request :
       IsWaiting(r) /\ ~IsWaiting(r)' =>
         /\ current_floor = r.floor
         /\ current_im_floor = 0
         /\ current_state \notin MovingStates]_vars

(* The car does not travel when nobody waits: no request is removed between   *)
(* the command to leave and the arrival.                                      *)
TravelsForSomeone == current_state \in MovingStates => request_list # <<>>

(* A car on its way down has a request below it: a stop is never missed, not  *)
(* even when keys are pressed while it travels.                               *)
DescendsToRequest ==
  current_state = S_IDE_DOLE =>
    \E i \in DOMAIN request_list :
      LET f == request_list[i].floor
      IN  f < current_floor \/ (f = current_floor /\ current_im_floor > 0)

(* The door opens only for a request at that floor. *)
OpensForRequest ==
  [][current_state' = S_OTVARA_VRATA /\ current_state # S_OTVARA_VRATA =>
       \E i \in DOMAIN request_list :
         request_list[i].floor = current_floor]_vars

(* Every request is served in the end, although datagrams are lost. *)
EveryRequestServed == \A r \in Request : IsWaiting(r) ~> ~IsWaiting(r)

------------------------------------------------------------------------------
(* What comments, warnings and messages of the code say and the code does not *)
(* do.                                                                        *)

(* lift.c warns "Can't go higher!" for a car that travels up at the top floor *)
(* as for something that does not happen.  It does: once a key is pressed at  *)
(* the floor a rising car has just left, SetSort puts that request first (its *)
(* distance is 0), and no stop is asked for at the floor above.               *)
NeverPastTop == ~(current_state = S_IDE_GORE /\ current_floor = FLOORS - 1)
==============================================================================
