--------------------------- MODULE LiftSystemProofs --------------------------
(* Theorems about the control computer, the lift and the keys together, for   *)
(* any number of floors and requests.  What comes before Course holds for any *)
(* pace of the threads and whatever the network loses; from there on the      *)
(* network loses fewer datagrams than upr() has rounds to one of lift().      *)
EXTENDS LiftSystem, RequestListProofs, SequenceTheorems, TLAPS

CarProofs == INSTANCE LiftCarProofs

------------------------------------------------------------------------------
(* What the invariant is about: the commands of a round that are on their way *)
(* to the lift, those it has not carried out, and the reports upr has or will *)
(* get.                                                                       *)
Orders == {A_LIFT_GORE, A_LIFT_DOLE, A_LIFT_OTVORI, A_LIFT_ZATVORI}
Leave  == {A_LIFT_GORE, A_LIFT_DOLE}

IsOrder(m) == m.type = "LIFT_ACTION_START" /\ m.data \in Orders
IsReport(m) == m.type = "LIFT_STATUS_REPORT"

Ordered(q)  == {q[n].data : n \in {k \in DOMAIN q : IsOrder(q[k])}}
OneOrder(q) == \A k, n \in DOMAIN q : IsOrder(q[k]) /\ IsOrder(q[n]) => k = n
Reported(q) == {q[n].data : n \in {k \in DOMAIN q : IsReport(q[k])}}

OnTheWay == Ordered(net["upr_lift"])
Pending  == {current_action} \cup OnTheWay
Told     == {report} \cup Reported(net["lift_upr"])

(* A report stays true in this sense until upr has acted on it: a car that    *)
(* had its door open has not left and will not, and one that had it closed    *)
(* is not told to close it.                                                   *)
OpenStaysTrue(r) ==
  r.state = S_STOJI_OTVOREN =>
    /\ current_floor = r.floor /\ current_im_floor = 0
    /\ current_state \notin MovingStates \cup {S_OTVARA_VRATA}
    /\ current_state \in {S_ZATVARA_VRATA, S_STOJI_ZATVOREN} =>
         Pending \cap (Leave \cup {A_LIFT_OTVORI}) = {}

ClosedStaysTrue(r) ==
  r.state = S_STOJI_ZATVOREN =>
    (current_state \in MovingStates \cup {S_OTVARA_VRATA, S_STOJI_OTVOREN}
       => A_LIFT_ZATVORI \notin Pending)

ReportsStayTrue == \A r \in Told : OpenStaysTrue(r) /\ ClosedStaysTrue(r)

(* The command that waits and the one on its way: a door about to close is    *)
(* not followed by another command, a closed one is told to close only when   *)
(* nothing else waits.                                                        *)
OrdersFit ==
  /\ OneOrder(net["upr_lift"])
  /\ current_state = S_STOJI_OTVOREN /\ current_action = A_LIFT_ZATVORI =>
       OnTheWay \subseteq {A_LIFT_ZATVORI}
  /\ current_state = S_STOJI_ZATVOREN /\ A_LIFT_ZATVORI \in OnTheWay =>
       current_action \notin Leave \cup {A_LIFT_OTVORI}

(* Neither a travelling car nor one that is about to leave lacks a request.   *)
AboutToLeave == /\ current_state \in {S_ZATVARA_VRATA, S_STOJI_ZATVOREN}
                /\ Pending \cap Leave # {}

LeavesForSomeone ==
  current_state \in MovingStates \/ AboutToLeave => request_list # <<>>

Serving == upr_pc = "served" => report.state = S_STOJI_OTVOREN

ControlOK == ReportsStayTrue /\ OrdersFit /\ LeavesForSomeone /\ Serving

(* The inductive invariant. *)
CarOK == CarProofs!IInv

IInv == TypeOK /\ CarOK /\ Distinct(request_list) /\ ControlOK

------------------------------------------------------------------------------
(* The car of LiftSystem is the one LiftCarProofs is about. *)
LEMMA SameCarInit == Car!Init => CarProofs!Init
BY Zenon
DEF Car!Init, Car!Floors, Car!D_STOJI, Car!S_STOJI_ZATVOREN,
       Car!A_UNDEF, CarProofs!Init, CarProofs!Floors,
       CarProofs!D_STOJI, CarProofs!S_STOJI_ZATVOREN,
       CarProofs!A_UNDEF

LEMMA SameCarStep == [Car!Next]_(Car!vars) => [CarProofs!Next]_(CarProofs!vars)
BY ZenonT(30)
DEF Car!Floors, Car!Quarters, Car!D_UP, Car!D_DOWN, Car!D_STOJI,
       Car!Directions, Car!S_STOJI_OTVOREN, Car!S_STOJI_ZATVOREN,
       Car!S_OTVARA_VRATA, Car!S_ZATVARA_VRATA, Car!S_IDE_DOLE,
       Car!S_IDE_GORE, Car!S_STOJI, Car!DoorStates,
       Car!MovingStates, Car!LiftStates, Car!A_UNDEF,
       Car!A_OBRADENO, Car!A_LIFT_GORE, Car!A_LIFT_DOLE,
       Car!A_LIFT_STANI, Car!A_LIFT_OTVORI, Car!A_LIFT_ZATVORI,
       Car!QueuedActions, Car!position, Car!carVars, Car!vars,
       Car!Arrive, Car!DoorMoves, Car!MoveUp, Car!MoveDown,
       Car!Rest, Car!Advance, Car!StartUp, Car!StartDown,
       Car!OpenDoor, Car!CloseDoor, Car!EmergencyStop, Car!Execute,
       Car!Idle, Car!LiftThread, Car!ReceiveAction,
       Car!ReceiveStopAtFloor, Car!ReceiveLamp, Car!Listener,
       Car!Next, CarProofs!Floors, CarProofs!Quarters,
       CarProofs!D_UP, CarProofs!D_DOWN, CarProofs!D_STOJI,
       CarProofs!Directions, CarProofs!S_STOJI_OTVOREN,
       CarProofs!S_STOJI_ZATVOREN, CarProofs!S_OTVARA_VRATA,
       CarProofs!S_ZATVARA_VRATA, CarProofs!S_IDE_DOLE,
       CarProofs!S_IDE_GORE, CarProofs!S_STOJI,
       CarProofs!DoorStates, CarProofs!MovingStates,
       CarProofs!LiftStates, CarProofs!A_UNDEF,
       CarProofs!A_OBRADENO, CarProofs!A_LIFT_GORE,
       CarProofs!A_LIFT_DOLE, CarProofs!A_LIFT_STANI,
       CarProofs!A_LIFT_OTVORI, CarProofs!A_LIFT_ZATVORI,
       CarProofs!QueuedActions, CarProofs!position,
       CarProofs!carVars, CarProofs!vars, CarProofs!Arrive,
       CarProofs!DoorMoves, CarProofs!MoveUp, CarProofs!MoveDown,
       CarProofs!Rest, CarProofs!Advance, CarProofs!StartUp,
       CarProofs!StartDown, CarProofs!OpenDoor, CarProofs!CloseDoor,
       CarProofs!EmergencyStop, CarProofs!Execute, CarProofs!Idle,
       CarProofs!LiftThread, CarProofs!ReceiveAction,
       CarProofs!ReceiveStopAtFloor, CarProofs!ReceiveLamp,
       CarProofs!Listener, CarProofs!Next

LEMMA SameCarTypes == CarProofs!TypeOK => Car!TypeOK
BY Zenon
DEF Car!TypeOK, Car!Floors, Car!Quarters, Car!D_UP, Car!D_DOWN,
       Car!D_STOJI, Car!Directions, Car!S_STOJI_OTVOREN,
       Car!S_STOJI_ZATVOREN, Car!S_OTVARA_VRATA,
       Car!S_ZATVARA_VRATA, Car!S_IDE_DOLE, Car!S_IDE_GORE,
       Car!S_STOJI, Car!DoorStates, Car!MovingStates,
       Car!LiftStates, Car!A_UNDEF, Car!A_OBRADENO, Car!A_LIFT_GORE,
       Car!A_LIFT_DOLE, Car!A_LIFT_STANI, Car!A_LIFT_OTVORI,
       Car!A_LIFT_ZATVORI, Car!QueuedActions, CarProofs!TypeOK,
       CarProofs!Floors, CarProofs!Quarters, CarProofs!D_UP,
       CarProofs!D_DOWN, CarProofs!D_STOJI, CarProofs!Directions,
       CarProofs!S_STOJI_OTVOREN, CarProofs!S_STOJI_ZATVOREN,
       CarProofs!S_OTVARA_VRATA, CarProofs!S_ZATVARA_VRATA,
       CarProofs!S_IDE_DOLE, CarProofs!S_IDE_GORE,
       CarProofs!S_STOJI, CarProofs!DoorStates,
       CarProofs!MovingStates, CarProofs!LiftStates,
       CarProofs!A_UNDEF, CarProofs!A_OBRADENO,
       CarProofs!A_LIFT_GORE, CarProofs!A_LIFT_DOLE,
       CarProofs!A_LIFT_STANI, CarProofs!A_LIFT_OTVORI,
       CarProofs!A_LIFT_ZATVORI, CarProofs!QueuedActions

(* The car starts as LiftCarProofs asks. *)
LEMMA InitCar == Car!Init => CarOK /\ Car!TypeOK
<1>1. FLOORS \in Nat /\ FLOORS >= 2
  BY FloorsAssumption
<1>2. CarProofs!FloorsAssumption
  BY <1>1 DEF CarProofs!FloorsAssumption
<1>3. Car!Init => CarOK
  BY <1>2, SameCarInit, CarProofs!InitIInv DEF CarOK
<1> QED  BY <1>3, SameCarTypes DEF CarOK, CarProofs!IInv

(* A step of the car keeps its invariant. *)
LEMMA StepCar == CarOK /\ [Car!Next]_(Car!vars) => CarOK' /\ Car!TypeOK'
<1>1. FLOORS \in Nat /\ FLOORS >= 2
  BY FloorsAssumption
<1>2. CarProofs!FloorsAssumption
  BY <1>1 DEF CarProofs!FloorsAssumption
<1>3. CarOK /\ [Car!Next]_(Car!vars) => CarOK'
  BY <1>2, SameCarStep, CarProofs!NextIInv DEF CarOK
<1>4. CarOK' => Car!TypeOK'
  BY SameCarTypes, PTL DEF CarOK, CarProofs!IInv
<1> QED  BY <1>3, <1>4
------------------------------------------------------------------------------
(* The channels. *)
NetOK == /\ DOMAIN net = Channels
         /\ \A c \in Channels : net[c] \in Seq(Carried[c])

(* What is sent on one channel leaves the others alone. *)
LEMMA Sent ==
  ASSUME NetOK, NEW c \in Channels, NEW msgs \in Seq(Carried[c]), Send(c, msgs)
  PROVE  /\ NetOK'
         /\ net'[c] = net[c] \o msgs
         /\ \A d \in Channels \ {c} : net'[d] = net[d]
<1>1. net[c] \o msgs \in Seq(Carried[c])
  BY ConcatProperties, Zenon DEF NetOK
<1> QED  BY <1>1 DEF NetOK, Send

(* So does what is taken from one channel. *)
LEMMA Taken ==
  ASSUME NetOK, NEW c \in Channels, net[c] # <<>>,
         net' = [net EXCEPT ![c] = Tail(@)]
  PROVE  /\ NetOK'
         /\ Head(net[c]) \in Carried[c]
         /\ net'[c] = Tail(net[c])
         /\ \A d \in Channels \ {c} : net'[d] = net[d]
<1>1. Tail(net[c]) \in Seq(Carried[c]) /\ Head(net[c]) \in Carried[c]
  BY HeadTailProperties, Zenon DEF NetOK
<1> QED  BY <1>1 DEF NetOK

(* A datagram is taken from one channel and an answer sent on another. *)
LEMMA Forwarded ==
  ASSUME NetOK, NEW c \in Channels, NEW d \in Channels, c # d,
         NEW msgs \in Seq(Carried[d]), net[c] # <<>>, Forward(c, d, msgs)
  PROVE  /\ NetOK'
         /\ Head(net[c]) \in Carried[c]
         /\ net'[c] = Tail(net[c])
         /\ net'[d] = net[d] \o msgs
         /\ \A e \in Channels \ {c, d} : net'[e] = net[e]
<1>1. Tail(net[c]) \in Seq(Carried[c]) /\ Head(net[c]) \in Carried[c]
  BY HeadTailProperties, Zenon DEF NetOK
<1>2. net[d] \o msgs \in Seq(Carried[d])
  BY ConcatProperties, Zenon DEF NetOK
<1> QED  BY <1>1, <1>2 DEF NetOK, Forward

(* What is in a queue whose head is taken was there before; a queue holds one *)
(* order at most, so nothing of it is left when the head is one.              *)
LEMMA TailOfQueue ==
  ASSUME NEW S, NEW q \in Seq(S), q # <<>>
  PROVE  /\ Ordered(Tail(q)) \subseteq Ordered(q)
         /\ Reported(Tail(q)) \subseteq Reported(q)
         /\ OneOrder(q) => OneOrder(Tail(q))
         /\ IsReport(Head(q)) => Head(q).data \in Reported(q)
         /\ IsOrder(Head(q)) => Head(q).data \in Ordered(q)
         /\ OneOrder(q) /\ IsOrder(Head(q)) => Ordered(Tail(q)) = {}
<1>1. /\ Tail(q) \in Seq(S)
      /\ Len(q) \in Nat \ {0}
      /\ Len(Tail(q)) = Len(q) - 1
      /\ \A k \in 1 .. Len(q) - 1 : Tail(q)[k] = q[k + 1]
      /\ Head(q) = q[1]
  BY HeadTailProperties, EmptySeq
<1>2. DOMAIN q = 1 .. Len(q) /\ DOMAIN Tail(q) = 1 .. Len(q) - 1
  BY <1>1, LenProperties
<1>3. \A k \in DOMAIN Tail(q) : k + 1 \in DOMAIN q /\ Tail(q)[k] = q[k + 1]
  BY <1>1, <1>2
<1>4. 1 \in DOMAIN q
  BY <1>1, <1>2
<1>5. OneOrder(q) => OneOrder(Tail(q))
  <2> SUFFICES ASSUME OneOrder(q), NEW k \in DOMAIN Tail(q), NEW n \in DOMAIN Tail(q),
                      IsOrder(Tail(q)[k]), IsOrder(Tail(q)[n])
               PROVE  k = n
    BY DEF OneOrder
  <2>1. k + 1 = n + 1
    BY <1>3, Zenon DEF OneOrder
  <2> QED  BY <2>1, <1>1, <1>2
<1>6. OneOrder(q) /\ IsOrder(Head(q)) => Ordered(Tail(q)) = {}
  <2> SUFFICES ASSUME OneOrder(q), IsOrder(Head(q)),
                      NEW k \in DOMAIN Tail(q), IsOrder(Tail(q)[k])
               PROVE  FALSE
    BY Zenon DEF Ordered
  <2>1. k + 1 = 1
    BY <1>1, <1>3, <1>4, Zenon DEF OneOrder
  <2> QED  BY <2>1, <1>1, <1>2
<1>7. Ordered(Tail(q)) \subseteq Ordered(q) /\ Reported(Tail(q)) \subseteq Reported(q)
  BY <1>3, Zenon DEF Ordered, Reported
<1>8. /\ IsReport(Head(q)) => Head(q).data \in Reported(q)
      /\ IsOrder(Head(q)) => Head(q).data \in Ordered(q)
  BY <1>1, <1>4, Zenon DEF Ordered, Reported
<1> QED  BY <1>5, <1>6, <1>7, <1>8

LEMMA OneMessage == ASSUME NEW S, NEW m \in S PROVE <<m>> \in Seq(S)
OBVIOUS

(* What is in a queue at whose end something is put. *)
LEMMA AppendedToQueue ==
  ASSUME NEW S, NEW q \in Seq(S), NEW m \in S
  PROVE  /\ Ordered(q \o <<m>>) = Ordered(q) \cup IF IsOrder(m) THEN {m.data} ELSE {}
         /\ Reported(q \o <<m>>) = Reported(q) \cup IF IsReport(m) THEN {m.data} ELSE {}
         /\ OneOrder(q) /\ (IsOrder(m) => Ordered(q) = {}) => OneOrder(q \o <<m>>)
<1> DEFINE t == q \o <<m>>
<1>1. /\ Len(q) \in Nat
      /\ DOMAIN q = 1 .. Len(q)
      /\ DOMAIN t = 1 .. Len(q) + 1
      /\ \A k \in 1 .. Len(q) : t[k] = q[k]
      /\ t[Len(q) + 1] = m
  <2>1. /\ <<m>> \in Seq(S) /\ Len(<<m>>) = 1 /\ <<m>>[1] = m
    BY OneMessage
  <2>2. /\ t \in Seq(S) /\ Len(t) = Len(q) + 1
        /\ \A k \in 1 .. Len(q) + 1 : t[k] = IF k <= Len(q) THEN q[k] ELSE <<m>>[k - Len(q)]
    BY <2>1, ConcatProperties
  <2>3. Len(q) \in Nat /\ DOMAIN q = 1 .. Len(q) /\ DOMAIN t = 1 .. Len(t)
    BY <2>2, LenProperties
  <2>4. Len(q) + 1 - Len(q) = 1 /\ ~(Len(q) + 1 <= Len(q)) /\ Len(q) + 1 \in 1 .. Len(q) + 1
    BY <2>3
  <2>5. \A k \in 1 .. Len(q) : k \in 1 .. Len(q) + 1 /\ k <= Len(q)
    BY <2>3
  <2> HIDE DEF t
  <2>6. \A k \in 1 .. Len(q) : t[k] = q[k]
    BY <2>2, <2>5, Zenon
  <2>7. t[Len(q) + 1] = m
    <3>1. t[Len(q) + 1] = <<m>>[Len(q) + 1 - Len(q)]
      BY <2>2, <2>3
    <3> QED  BY <2>1, <2>4, <3>1, Zenon
  <2> QED  BY <2>2, <2>3, <2>6, <2>7, Zenon
<1>2. /\ \A k \in DOMAIN q : k \in DOMAIN t /\ t[k] = q[k] /\ k # Len(q) + 1
      /\ Len(q) + 1 \in DOMAIN t
      /\ \A k \in DOMAIN t : k \in DOMAIN q \/ k = Len(q) + 1
  <2> HIDE DEF t
  <2> QED  BY <1>1
<1> HIDE DEF t
<1>3. Ordered(t) = Ordered(q) \cup IF IsOrder(m) THEN {m.data} ELSE {}
  BY <1>1, <1>2, Zenon DEF Ordered
<1>4. Reported(t) = Reported(q) \cup IF IsReport(m) THEN {m.data} ELSE {}
  BY <1>1, <1>2, Zenon DEF Reported
<1>5. ASSUME OneOrder(q), IsOrder(m) => Ordered(q) = {} PROVE OneOrder(t)
  <2> SUFFICES ASSUME NEW k \in DOMAIN t, NEW n \in DOMAIN t,
                      IsOrder(t[k]), IsOrder(t[n])
               PROVE  k = n
    BY DEF OneOrder
  <2>1. \A i \in DOMAIN q : IsOrder(t[i]) => ~IsOrder(m)
    BY <1>2, <1>5, Zenon DEF Ordered
  <2> QED  BY <2>1, <1>1, <1>2, <1>5, Zenon DEF OneOrder
<1> QED  BY <1>3, <1>4, <1>5 DEF t
------------------------------------------------------------------------------
(* The types of everything but the car, and that nothing is twice in the list. *)
ReportOK == report \in [floor : Floors, im_floor : Quarters,
                        state : LiftStates \cup {UNKNOWN}, direction : Directions]

ListOK == /\ request_list \in Seq(Request)
          /\ Distinct(request_list)
          /\ upr_pc \in {"sleep", "served"}
          /\ upr_pc = "served" => request_list # <<>>

LampsOK == /\ to_send \in {<<>>} \cup {<<m>> : m \in LampsToLight}
           /\ hall_status \in [Request -> BOOLEAN]

CountersOK == losses \in 0 .. MaxLosses /\ ticks \in 0 .. MaxTicks

OthersOK == ReportOK /\ ListOK /\ LampsOK /\ CountersOK /\ NetOK

LEMMA TypesInParts ==
  TypeOK /\ Distinct(request_list) <=> Car!TypeOK /\ OthersOK
BY Zenon DEF TypeOK, OthersOK, ReportOK, ListOK, LampsOK, CountersOK, NetOK

(* The four channels and what they carry. *)
LEMMA ChannelsAre ==
  /\ Channels = {"upr_lift", "lift_upr", "upr_tipke", "tipke_upr"}
  /\ Carried["upr_lift"] = LiftMessages
  /\ Carried["lift_upr"] = [type : {"LIFT_KEY_PRESSED", "LIFT_STOP"}, data : Floors]
                             \cup [type : {"LIFT_STATUS_REPORT"}, data : Reports]
  /\ Carried["upr_tipke"] = TipkeMessages
  /\ Carried["tipke_upr"] = [type : {"TIPKE_KEY_PRESSED"}, data : Request]
BY DEF Channels, Carried

(* A datagram that is neither leaves what a queue holds as it was. *)
LEMMA NeitherAppended ==
  ASSUME NEW S, NEW q \in Seq(S), NEW m \in S, ~IsOrder(m), ~IsReport(m)
  PROVE  /\ Ordered(q \o <<m>>) = Ordered(q)
         /\ Reported(q \o <<m>>) = Reported(q)
         /\ OneOrder(q) => OneOrder(q \o <<m>>)
<1>1. /\ Ordered(q \o <<m>>) = Ordered(q) \cup IF IsOrder(m) THEN {m.data} ELSE {}
      /\ Reported(q \o <<m>>) = Reported(q) \cup IF IsReport(m) THEN {m.data} ELSE {}
      /\ OneOrder(q) /\ (IsOrder(m) => Ordered(q) = {}) => OneOrder(q \o <<m>>)
  BY AppendedToQueue, Zenon
<1>2. Ordered(q \o <<m>>) = Ordered(q)
  BY <1>1
<1>3. Reported(q \o <<m>>) = Reported(q)
  BY <1>1
<1> QED  BY <1>1, <1>2, <1>3

(* A step that adds neither a command nor a report, removes no request and    *)
(* leaves the car alone keeps the invariant.                                  *)
LEMMA ControlKept ==
  ASSUME ControlOK,
         UNCHANGED <<current_floor, current_im_floor, current_state, current_action>>,
         Told' \subseteq Told, OnTheWay' \subseteq OnTheWay,
         OneOrder(net["upr_lift"])',
         request_list # <<>> => request_list' # <<>>,
         Serving'
  PROVE  ControlOK'
<1> USE DEF ControlOK, ReportsStayTrue, OrdersFit, LeavesForSomeone
<1>1. Pending' \subseteq Pending
  BY DEF Pending
<1>2. \A r \in Told' : OpenStaysTrue(r)' /\ ClosedStaysTrue(r)'
  <2> TAKE r \in Told'
  <2>1. OpenStaysTrue(r) /\ ClosedStaysTrue(r)
    OBVIOUS
  <2> HIDE DEF ControlOK, ReportsStayTrue, OrdersFit, LeavesForSomeone, Pending, Told
  <2>2. OpenStaysTrue(r)'
    BY <1>1, <2>1 DEF OpenStaysTrue
  <2>3. ClosedStaysTrue(r)'
    BY <1>1, <2>1 DEF ClosedStaysTrue
  <2> QED  BY <2>2, <2>3
<1>3. OrdersFit'
  OBVIOUS
<1>4. LeavesForSomeone'
  BY <1>1 DEF AboutToLeave
<1> QED  BY <1>2, <1>3, <1>4
------------------------------------------------------------------------------
(* udp_listener() of upr. *)
LEMMA UprHallKeyStep ==
  ASSUME OthersOK, ControlOK, UprHallKey PROVE OthersOK' /\ ControlOK'
<1> DEFINE r == Head(net["tipke_upr"]).data
<1> USE DEF OthersOK
<1>1. /\ net["tipke_upr"] # <<>>
      /\ net' = [net EXCEPT !["tipke_upr"] = Tail(@)]
      /\ request_list' = SetInsert(request_list, r)
      /\ to_send' = <<Msg("TIPKE_PALI_LAMPICU", r)>>
      /\ UNCHANGED <<liftVars, report, upr_pc, hall_status, losses, ticks>>
  BY Zenon DEF UprHallKey, Receive
<1>2. /\ NetOK' /\ Head(net["tipke_upr"]) \in Carried["tipke_upr"]
      /\ net'["upr_lift"] = net["upr_lift"] /\ net'["lift_upr"] = net["lift_upr"]
  BY <1>1, Taken, ChannelsAre
<1>3. r \in Request
  BY <1>2, ChannelsAre
<1> HIDE DEF r
<1>4. ListOK'
  <2>1. /\ request_list' \in Seq(Request) /\ Distinct(request_list')
        /\ request_list' # <<>>
    BY <1>1, <1>3, SetInsertResult DEF ListOK
  <2> QED  BY <1>1, <2>1 DEF ListOK
<1>5. LampsOK'
  <2>1. Msg("TIPKE_PALI_LAMPICU", r) \in LampsToLight
    BY <1>3 DEF Msg, LampsToLight
  <2> QED  BY <1>1, <2>1, Zenon DEF LampsOK
<1>6. ReportOK' /\ CountersOK'
  BY <1>1 DEF ReportOK, CountersOK
<1>7. ControlOK'
  <2>1. Told' \subseteq Told /\ OnTheWay' \subseteq OnTheWay /\ OneOrder(net["upr_lift"])'
    BY <1>1, <1>2 DEF Told, OnTheWay, Reported, ControlOK, OrdersFit, OneOrder
  <2>2. Serving' /\ request_list' # <<>>
    BY <1>1, <1>3, SetInsertResult DEF ListOK, ControlOK, Serving
  <2>3. UNCHANGED <<current_floor, current_im_floor, current_state, current_action>>
    BY <1>1 DEF liftVars
  <2> QED  BY <2>1, <2>2, <2>3, ControlKept
<1> QED  BY <1>2, <1>4, <1>5, <1>6, <1>7

LEMMA UprCabinKeyStep ==
  ASSUME OthersOK, ControlOK, UprCabinKey PROVE OthersOK' /\ ControlOK'
<1> DEFINE m == Head(net["lift_upr"])
           r == Req(m.data, IF report.floor < m.data THEN D_UP ELSE D_DOWN)
<1> USE DEF OthersOK
<1>1. /\ net["lift_upr"] # <<>> /\ m.type = "LIFT_KEY_PRESSED"
      /\ net' = [net EXCEPT !["lift_upr"] = Tail(@)]
      /\ request_list' = SetInsert(request_list, r)
      /\ to_send' = <<Msg("LIFT_PALI_LAMPICU", m.data)>>
      /\ UNCHANGED <<liftVars, report, upr_pc, hall_status, losses, ticks>>
  BY Zenon DEF UprCabinKey, Receive
<1>2. /\ NetOK' /\ m \in Carried["lift_upr"]
      /\ net'["lift_upr"] = Tail(net["lift_upr"])
      /\ net'["upr_lift"] = net["upr_lift"]
  BY <1>1, Taken, ChannelsAre
<1>3. m.data \in Floors
  <2>1. m \notin [type : {"LIFT_STATUS_REPORT"}, data : Reports]
    BY <1>1
  <2> QED  BY <1>2, <2>1, ChannelsAre
<1>4. r \in Request
  BY <1>3 DEF Req, Request
<1> HIDE DEF r
<1>5. /\ request_list' \in Seq(Request) /\ Distinct(request_list')
      /\ request_list' # <<>>
  BY <1>1, <1>4, SetInsertResult DEF ListOK
<1>6. ListOK'
  BY <1>1, <1>5 DEF ListOK
<1>7. LampsOK'
  <2>1. Msg("LIFT_PALI_LAMPICU", m.data) \in LampsToLight
    BY <1>3 DEF Msg, LampsToLight
  <2> QED  BY <1>1, <2>1, Zenon DEF LampsOK
<1>8. ReportOK' /\ CountersOK'
  BY <1>1 DEF ReportOK, CountersOK
<1>9. ControlOK'
  <2>1. Reported(net'["lift_upr"]) \subseteq Reported(net["lift_upr"])
    BY <1>1, <1>2, TailOfQueue, ChannelsAre DEF NetOK
  <2>2. Told' \subseteq Told /\ OnTheWay' \subseteq OnTheWay /\ OneOrder(net["upr_lift"])'
    BY <1>1, <1>2, <2>1 DEF Told, OnTheWay, Reported, ControlOK, OrdersFit, OneOrder
  <2>3. Serving'
    BY <1>1 DEF ControlOK, Serving
  <2>4. UNCHANGED <<current_floor, current_im_floor, current_state, current_action>>
    BY <1>1 DEF liftVars
  <2> QED  BY <1>5, <2>2, <2>3, <2>4, ControlKept
<1> QED  BY <1>2, <1>6, <1>7, <1>8, <1>9

LEMMA UprSendLampStep ==
  ASSUME OthersOK, ControlOK, UprSendLamp PROVE OthersOK' /\ ControlOK'
<1> USE DEF OthersOK
<1>1. /\ to_send # <<>> /\ to_send' = <<>>
      /\ UNCHANGED <<liftVars, request_list, report, upr_pc, hall_status, losses, ticks>>
  BY Zenon DEF UprSendLamp, ListenerIdle
<1>2. PICK m \in LampsToLight : to_send = <<m>>
  BY <1>1 DEF LampsOK
<1> DEFINE c == IF m.type = "LIFT_PALI_LAMPICU" THEN "upr_lift" ELSE "upr_tipke"
<1>3. Send(c, <<m>>)
  BY <1>2 DEF UprSendLamp
<1>4. /\ c \in Channels \ {"lift_upr"} /\ m \in Carried[c]
      /\ ~IsOrder(m) /\ ~IsReport(m)
  BY ChannelsAre DEF LampsToLight, LiftMessages, TipkeMessages, IsOrder, IsReport
<1> HIDE DEF c
<1>5. <<m>> \in Seq(Carried[c])
  BY <1>4, OneMessage
<1>6. /\ NetOK' /\ net'[c] = net[c] \o <<m>>
      /\ \A d \in Channels \ {c} : net'[d] = net[d]
  BY <1>3, <1>4, <1>5, Sent
<1>7. ListOK' /\ LampsOK' /\ ReportOK' /\ CountersOK'
  BY <1>1 DEF ListOK, LampsOK, ReportOK, CountersOK
<1>8. ControlOK'
  <2>1. /\ Ordered(net'["upr_lift"]) = Ordered(net["upr_lift"])
        /\ OneOrder(net["upr_lift"]) => OneOrder(net'["upr_lift"])
    <3>1. CASE c = "upr_lift"
      <4>1. net["upr_lift"] \in Seq(LiftMessages) /\ m \in LiftMessages
        BY <1>4, <3>1, ChannelsAre DEF NetOK
      <4>2. net'["upr_lift"] = net["upr_lift"] \o <<m>>
        BY <1>6, <3>1
      <4>3. /\ Ordered(net["upr_lift"] \o <<m>>) = Ordered(net["upr_lift"])
            /\ OneOrder(net["upr_lift"]) => OneOrder(net["upr_lift"] \o <<m>>)
        BY <1>4, <4>1, NeitherAppended
      <4> QED  BY <4>2, <4>3
    <3>2. CASE c # "upr_lift"
      BY <1>6, <3>2, ChannelsAre
    <3> QED  BY <3>1, <3>2
  <2>2. net'["lift_upr"] = net["lift_upr"]
    BY <1>4, <1>6, ChannelsAre
  <2>3. Told' \subseteq Told /\ OnTheWay' \subseteq OnTheWay /\ OneOrder(net["upr_lift"])'
    BY <1>1, <2>1, <2>2 DEF Told, OnTheWay, Reported, ControlOK, OrdersFit, OneOrder
  <2>4. Serving' /\ request_list' = request_list
    BY <1>1 DEF ControlOK, Serving
  <2>5. UNCHANGED <<current_floor, current_im_floor, current_state, current_action>>
    BY <1>1 DEF liftVars
  <2> QED  BY <2>3, <2>4, <2>5, ControlKept
<1> QED  BY <1>6, <1>7, <1>8
LEMMA UprReportStep ==
  ASSUME OthersOK, ControlOK, UprReport PROVE OthersOK' /\ ControlOK'
<1> DEFINE m == Head(net["lift_upr"])
<1> USE DEF OthersOK
<1>1. /\ net["lift_upr"] # <<>> /\ m.type = "LIFT_STATUS_REPORT"
      /\ net' = [net EXCEPT !["lift_upr"] = Tail(@)]
      /\ report' = m.data /\ upr_pc = "sleep"
      /\ UNCHANGED <<liftVars, request_list, upr_pc, to_send, hall_status,
                     losses, ticks>>
  BY Zenon DEF UprReport, Receive
<1>2. /\ NetOK' /\ m \in Carried["lift_upr"]
      /\ net'["lift_upr"] = Tail(net["lift_upr"])
      /\ net'["upr_lift"] = net["upr_lift"]
  BY <1>1, Taken, ChannelsAre
<1>3. m.data \in Reports
  <2>1. m \notin [type : {"LIFT_KEY_PRESSED", "LIFT_STOP"}, data : Floors]
    BY <1>1
  <2> QED  BY <1>2, <2>1, ChannelsAre
<1>4. ReportOK'
  BY <1>1, <1>3 DEF ReportOK, Reports
<1>5. ListOK' /\ LampsOK' /\ CountersOK'
  BY <1>1 DEF ListOK, LampsOK, CountersOK
<1>6. ControlOK'
  <2>1. /\ Reported(net'["lift_upr"]) \subseteq Reported(net["lift_upr"])
        /\ m.data \in Reported(net["lift_upr"])
    BY <1>1, <1>2, TailOfQueue, ChannelsAre DEF NetOK, IsReport
  <2>2. Told' \subseteq Told /\ OnTheWay' \subseteq OnTheWay /\ OneOrder(net["upr_lift"])'
    BY <1>1, <1>2, <2>1 DEF Told, OnTheWay, ControlOK, OrdersFit
  <2>3. Serving' /\ request_list' = request_list
    BY <1>1 DEF Serving
  <2>4. UNCHANGED <<current_floor, current_im_floor, current_state, current_action>>
    BY <1>1 DEF liftVars
  <2> QED  BY <2>2, <2>3, <2>4, ControlKept
<1> QED  BY <1>2, <1>4, <1>5, <1>6

(* A step that leaves upr and the lamps alone. *)
LEMMA OthersKept ==
  ASSUME OthersOK, NetOK', UNCHANGED <<uprVars, hall_status, losses, ticks>>
  PROVE  OthersOK'
BY Zenon DEF OthersOK, ReportOK, ListOK, LampsOK, CountersOK, uprVars

(* So does one that leaves the car alone as well, as far as the commands and  *)
(* the reports in the channels go.                                            *)
LEMMA QueuesShrink ==
  ASSUME ControlOK, UNCHANGED uprVars,
         UNCHANGED <<current_floor, current_im_floor, current_state, current_action>>,
         Ordered(net'["upr_lift"]) \subseteq Ordered(net["upr_lift"]),
         Reported(net'["lift_upr"]) \subseteq Reported(net["lift_upr"]),
         OneOrder(net["upr_lift"]) => OneOrder(net'["upr_lift"])
  PROVE  ControlOK'
<1>1. Told' \subseteq Told /\ OnTheWay' \subseteq OnTheWay /\ OneOrder(net["upr_lift"])'
  BY DEF Told, OnTheWay, ControlOK, OrdersFit, uprVars
<1>2. Serving' /\ request_list' = request_list
  BY DEF ControlOK, Serving, uprVars
<1> QED  BY <1>1, <1>2, ControlKept

LEMMA UprStopKeyStep ==
  ASSUME OthersOK, ControlOK, UprStopKey PROVE OthersOK' /\ ControlOK'
<1> DEFINE m == Action(A_LIFT_STANI)
<1>1. /\ net["lift_upr"] # <<>>
      /\ Forward("lift_upr", "upr_lift", <<m>>)
      /\ UNCHANGED <<liftVars, uprVars, hall_status, losses, ticks>>
  BY Zenon DEF UprStopKey
<1>2. /\ m \in LiftMessages /\ ~IsOrder(m) /\ ~IsReport(m)
  BY DEF Action, Msg, LiftMessages, QueuedActions, IsOrder, IsReport, Orders,
         A_LIFT_STANI, A_LIFT_GORE, A_LIFT_DOLE, A_LIFT_OTVORI, A_LIFT_ZATVORI
<1> HIDE DEF m
<1>3. <<m>> \in Seq(LiftMessages)
  BY <1>2, OneMessage
<1>4. /\ NetOK' /\ net'["upr_lift"] = net["upr_lift"] \o <<m>>
      /\ net'["lift_upr"] = Tail(net["lift_upr"])
  BY <1>1, <1>3, Forwarded, ChannelsAre DEF OthersOK
<1>5. net["upr_lift"] \in Seq(LiftMessages)
  BY ChannelsAre DEF OthersOK, NetOK
<1>6. /\ Ordered(net["upr_lift"] \o <<m>>) = Ordered(net["upr_lift"])
      /\ OneOrder(net["upr_lift"]) => OneOrder(net["upr_lift"] \o <<m>>)
  BY <1>2, <1>5, NeitherAppended
<1>7. Reported(Tail(net["lift_upr"])) \subseteq Reported(net["lift_upr"])
  BY <1>1, TailOfQueue, ChannelsAre DEF OthersOK, NetOK
<1>8. ControlOK'
  BY <1>1, <1>4, <1>6, <1>7, QueuesShrink DEF liftVars
<1> QED  BY <1>1, <1>4, <1>8, OthersKept

------------------------------------------------------------------------------
(* udp_listener() of the lift. *)
LEMMA LiftActionStep ==
  ASSUME OthersOK, ControlOK, LiftAction
  PROVE  OthersOK' /\ ControlOK' /\ Car!Listener
<1> DEFINE q == net["upr_lift"]
           m == Head(q)
           a == m.data
<1>1. /\ q # <<>> /\ m.type = "LIFT_ACTION_START"
      /\ net' = [net EXCEPT !["upr_lift"] = Tail(@)]
      /\ UNCHANGED <<uprVars, hall_status, losses, ticks>>
      /\ \/ a \in QueuedActions /\ Car!ReceiveAction(a)
         \/ a = A_LIFT_STANI_NA_KATU /\ Car!ReceiveStopAtFloor
  BY Zenon DEF LiftAction, Receive
<1>2. /\ NetOK' /\ net'["upr_lift"] = Tail(q)
      /\ net'["lift_upr"] = net["lift_upr"]
  BY <1>1, Taken, ChannelsAre DEF OthersOK
<1>3. Car!Listener
  BY <1>1, Zenon
  DEF Car!Listener, QueuedActions, Car!QueuedActions, A_LIFT_GORE, A_LIFT_DOLE,
      A_LIFT_STANI, A_LIFT_OTVORI, A_LIFT_ZATVORI, Car!A_LIFT_GORE,
      Car!A_LIFT_DOLE, Car!A_LIFT_STANI, Car!A_LIFT_OTVORI, Car!A_LIFT_ZATVORI
<1>4. /\ Ordered(Tail(q)) \subseteq Ordered(q)
      /\ OneOrder(q) => OneOrder(Tail(q))
      /\ IsOrder(m) => a \in Ordered(q)
      /\ OneOrder(q) /\ IsOrder(m) => Ordered(Tail(q)) = {}
  BY <1>1, TailOfQueue, ChannelsAre DEF OthersOK, NetOK
<1>5. OneOrder(q) /\ OneOrder(Tail(q))
  BY <1>4 DEF ControlOK, OrdersFit
<1>6. CASE Car!ReceiveStopAtFloor \/ current_action' = current_action
  <2>1. UNCHANGED <<current_floor, current_im_floor, current_state, current_action>>
    BY <1>1, <1>6 DEF Car!ReceiveStopAtFloor, Car!ReceiveAction, Car!position
  <2>2. ControlOK'
    BY <1>1, <1>2, <1>4, <2>1, QueuesShrink
  <2> QED  BY <1>1, <1>2, <1>3, <2>2, OthersKept
<1>7. CASE /\ a \in QueuedActions /\ Car!ReceiveAction(a)
           /\ current_action' # current_action
  <2>1. /\ UNCHANGED <<current_floor, current_im_floor, current_state>>
        /\ current_action' = a
    BY <1>7 DEF Car!ReceiveAction, Car!position
  <2>2. OnTheWay' = Ordered(Tail(q)) /\ Told' = Told /\ OnTheWay = Ordered(q)
    BY <1>1, <1>2 DEF OnTheWay, Told, uprVars
  <2>3. a \in Orders \/ a = A_LIFT_STANI
    BY <1>7 DEF QueuedActions, Orders
  <2>4. a \in Orders => IsOrder(m)
    BY <1>1 DEF IsOrder
  <2>5. Pending' \subseteq Pending \cup {A_LIFT_STANI}
    BY <1>4, <2>1, <2>2, <2>3, <2>4 DEF Pending
  <2>6. a \in Orders => OnTheWay' = {}
    BY <1>4, <1>5, <2>2, <2>4
  <2>7. ReportsStayTrue'
    <3>1. ASSUME NEW r \in Told PROVE OpenStaysTrue(r)' /\ ClosedStaysTrue(r)'
      <4>1. OpenStaysTrue(r) /\ ClosedStaysTrue(r)
        BY DEF ControlOK, ReportsStayTrue
      <4> HIDE DEF q, m, a, Pending, Told
      <4>2. OpenStaysTrue(r)'
        BY <2>1, <2>5, <4>1 DEF OpenStaysTrue, Leave, A_LIFT_STANI, A_LIFT_GORE,
           A_LIFT_DOLE, A_LIFT_OTVORI
      <4>3. ClosedStaysTrue(r)'
        BY <2>1, <2>5, <4>1 DEF ClosedStaysTrue, A_LIFT_STANI, A_LIFT_ZATVORI
      <4> QED  BY <4>2, <4>3
    <3> QED  BY <2>2, <3>1 DEF ReportsStayTrue
  <2>8. OneOrder(net["upr_lift"])'
    BY <1>2, <1>5
  <2>9. OrdersFit'
    BY <2>1, <2>3, <2>6, <2>8
       DEF OrdersFit, Orders, Leave, A_LIFT_STANI, A_LIFT_GORE, A_LIFT_DOLE,
           A_LIFT_OTVORI, A_LIFT_ZATVORI
  <2>10. LeavesForSomeone'
    BY <1>1, <2>1, <2>5 DEF ControlOK, LeavesForSomeone, AboutToLeave, uprVars, Leave,
           A_LIFT_STANI, A_LIFT_GORE, A_LIFT_DOLE
  <2>11. Serving'
    BY <1>1 DEF ControlOK, Serving, uprVars
  <2> QED  BY <1>1, <1>2, <1>3, <2>7, <2>9, <2>10, <2>11, OthersKept DEF ControlOK
<1> QED  BY <1>1, <1>6, <1>7
LEMMA LiftLampStep ==
  ASSUME OthersOK, ControlOK, LiftLamp
  PROVE  OthersOK' /\ ControlOK' /\ Car!Listener
<1> DEFINE q == net["upr_lift"]
           m == Head(q)
<1>1. /\ q # <<>> /\ m.type \in {"LIFT_PALI_LAMPICU", "LIFT_GASI_LAMPICU"}
      /\ net' = [net EXCEPT !["upr_lift"] = Tail(@)]
      /\ UNCHANGED <<uprVars, hall_status, losses, ticks>>
      /\ \E on \in BOOLEAN : Car!ReceiveLamp(m.data, on)
  BY Zenon DEF LiftLamp, Receive
<1>2. /\ NetOK' /\ net'["upr_lift"] = Tail(q) /\ m \in LiftMessages
      /\ net'["lift_upr"] = net["lift_upr"]
  BY <1>1, Taken, ChannelsAre DEF OthersOK
<1>3. m.data \in Floors
  <2>1. m \notin [type : {"LIFT_ACTION_START"},
                  data : QueuedActions \cup {A_LIFT_STANI_NA_KATU, "A_LIFT_STATUS"}]
    BY <1>1
  <2> QED  BY <1>2, <2>1 DEF LiftMessages
<1>4. Car!Listener
  BY <1>1, <1>3, Zenon DEF Car!Listener, Floors, Car!Floors
<1>5. /\ Ordered(Tail(q)) \subseteq Ordered(q)
      /\ OneOrder(q) => OneOrder(Tail(q))
  BY <1>1, TailOfQueue, ChannelsAre DEF OthersOK, NetOK
<1>6. UNCHANGED <<current_floor, current_im_floor, current_state, current_action>>
  BY <1>1 DEF Car!ReceiveLamp, Car!carVars
<1>7. ControlOK'
  BY <1>1, <1>2, <1>5, <1>6, QueuesShrink
<1> QED  BY <1>1, <1>2, <1>4, <1>7, OthersKept

LEMMA LiftReportStep ==
  ASSUME OthersOK, ControlOK, CarOK, Car!TypeOK, LiftReport
  PROVE  OthersOK' /\ ControlOK'
<1> DEFINE q == net["upr_lift"]
           new == [floor |-> current_floor, im_floor |-> current_im_floor,
                   state |-> current_state, direction |-> current_direction]
           m == Msg("LIFT_STATUS_REPORT", new)
<1>1. /\ q # <<>>
      /\ Forward("upr_lift", "lift_upr", <<m>>)
      /\ UNCHANGED <<liftVars, uprVars, hall_status, losses, ticks>>
  BY Zenon DEF LiftReport
<1>2. new \in Reports
  BY DEF Reports, Car!TypeOK, Floors, Car!Floors, Quarters, Car!Quarters,
         LiftStates, Car!LiftStates, DoorStates, Car!DoorStates, MovingStates,
         Car!MovingStates, S_STOJI_OTVOREN, Car!S_STOJI_OTVOREN, S_STOJI_ZATVOREN,
         Car!S_STOJI_ZATVOREN, S_OTVARA_VRATA, Car!S_OTVARA_VRATA, S_ZATVARA_VRATA,
         Car!S_ZATVARA_VRATA, S_IDE_DOLE, Car!S_IDE_DOLE, S_IDE_GORE, Car!S_IDE_GORE,
         S_STOJI, Car!S_STOJI, Directions, Car!Directions, D_UP, Car!D_UP,
         D_DOWN, Car!D_DOWN, D_STOJI, Car!D_STOJI
<1>3. /\ new.floor = current_floor /\ new.im_floor = current_im_floor
      /\ new.state = current_state
  OBVIOUS
<1> HIDE DEF new
<1>4. m \in Carried["lift_upr"] /\ ~IsOrder(m) /\ IsReport(m) /\ m.data = new
  BY <1>2, ChannelsAre DEF Msg, IsOrder, IsReport
<1> HIDE DEF m
<1>5. <<m>> \in Seq(Carried["lift_upr"])
  BY <1>4, OneMessage
<1>6. /\ NetOK' /\ net'["upr_lift"] = Tail(q)
      /\ net'["lift_upr"] = net["lift_upr"] \o <<m>>
  BY <1>1, <1>5, Forwarded, ChannelsAre DEF OthersOK
<1>7. net["lift_upr"] \in Seq(Carried["lift_upr"])
  BY ChannelsAre DEF OthersOK, NetOK
<1>8. Reported(net["lift_upr"] \o <<m>>) = Reported(net["lift_upr"]) \cup {new}
  BY <1>4, <1>7, AppendedToQueue
<1>9. /\ Ordered(Tail(q)) \subseteq Ordered(q)
      /\ OneOrder(q) => OneOrder(Tail(q))
  BY <1>1, TailOfQueue, ChannelsAre DEF OthersOK, NetOK
<1> HIDE DEF q
<1>10. /\ UNCHANGED <<current_floor, current_im_floor, current_state, current_action>>
       /\ UNCHANGED <<request_list, report, upr_pc>>
  BY <1>1 DEF liftVars, uprVars
<1>11. /\ Pending' \subseteq Pending /\ OnTheWay' \subseteq OnTheWay
       /\ OneOrder(net["upr_lift"])' /\ Told' = Told \cup {new}
  BY <1>6, <1>8, <1>9, <1>10 DEF Pending, OnTheWay, Told, ControlOK, OrdersFit, q
<1>12. current_state = S_STOJI_OTVOREN => current_im_floor = 0
  BY DEF CarOK, CarProofs!IInv, CarProofs!RestsLevel, CarProofs!MovingStates,
         CarProofs!S_IDE_GORE, CarProofs!S_IDE_DOLE, CarProofs!S_STOJI, S_STOJI_OTVOREN
<1>13. ASSUME NEW r \in Told \cup {new}
       PROVE  OpenStaysTrue(r)' /\ ClosedStaysTrue(r)'
  <2>1. OpenStaysTrue(r) /\ ClosedStaysTrue(r)
    <3>1. CASE r \in Told
      BY <3>1 DEF ControlOK, ReportsStayTrue
    <3>2. CASE r = new
      BY <1>3, <1>12, <3>2
      DEF OpenStaysTrue, ClosedStaysTrue, MovingStates, S_STOJI_OTVOREN,
          S_STOJI_ZATVOREN, S_OTVARA_VRATA, S_ZATVARA_VRATA, S_IDE_DOLE, S_IDE_GORE
    <3> QED  BY <3>1, <3>2
  <2> HIDE DEF Pending
  <2> QED  BY <1>10, <1>11, <2>1 DEF OpenStaysTrue, ClosedStaysTrue
<1>14. ReportsStayTrue'
  BY <1>11, <1>13 DEF ReportsStayTrue
<1>15. OrdersFit' /\ LeavesForSomeone' /\ Serving'
  BY <1>10, <1>11 DEF ControlOK, OrdersFit, LeavesForSomeone, AboutToLeave, Serving
<1> QED  BY <1>1, <1>6, <1>14, <1>15, OthersKept DEF ControlOK

LEMMA LiftGoneStep ==
  ASSUME OthersOK, ControlOK, LiftGone PROVE OthersOK' /\ ControlOK'
<1> DEFINE q == net["upr_lift"]
<1>1. /\ q # <<>> /\ net' = [net EXCEPT !["upr_lift"] = Tail(@)]
      /\ UNCHANGED <<liftVars, uprVars, hall_status, losses, ticks>>
  BY Zenon DEF LiftGone
<1>2. /\ NetOK' /\ net'["upr_lift"] = Tail(q)
      /\ net'["lift_upr"] = net["lift_upr"]
  BY <1>1, Taken, ChannelsAre DEF OthersOK
<1>3. /\ Ordered(Tail(q)) \subseteq Ordered(q)
      /\ OneOrder(q) => OneOrder(Tail(q))
  BY <1>1, TailOfQueue, ChannelsAre DEF OthersOK, NetOK
<1>4. ControlOK'
  BY <1>1, <1>2, <1>3, QueuesShrink DEF liftVars
<1> QED  BY <1>1, <1>2, <1>4, OthersKept

------------------------------------------------------------------------------
(* The keys, the people and the network. *)
LEMMA TipkeLampStep ==
  ASSUME OthersOK, ControlOK, TipkeLamp PROVE OthersOK' /\ ControlOK'
<1> DEFINE q == net["upr_tipke"]
<1>1. /\ q # <<>> /\ net' = [net EXCEPT !["upr_tipke"] = Tail(@)]
      /\ \E on \in BOOLEAN : hall_status' = [hall_status EXCEPT ![Head(q).data] = on]
      /\ UNCHANGED <<liftVars, uprVars, losses, ticks>>
  BY Zenon DEF TipkeLamp, Receive
<1>2. /\ NetOK' /\ net'["upr_lift"] = net["upr_lift"]
      /\ net'["lift_upr"] = net["lift_upr"]
  BY <1>1, Taken, ChannelsAre DEF OthersOK
<1>3. LampsOK'
  BY <1>1 DEF OthersOK, LampsOK, uprVars
<1>4. OthersOK'
  BY <1>1, <1>2, <1>3 DEF OthersOK, ReportOK, ListOK, CountersOK, uprVars
<1>5. ControlOK'
  BY <1>1, <1>2, QueuesShrink DEF liftVars
<1> QED  BY <1>4, <1>5

(* A key or a STOP that somebody types. *)
LEMMA TypedStep ==
  ASSUME OthersOK, ControlOK, NEW c \in {"tipke_upr", "lift_upr"},
         NEW m \in Carried[c], m.type # "LIFT_STATUS_REPORT", Send(c, <<m>>),
         UNCHANGED <<liftVars, uprVars, hall_status, losses, ticks>>
  PROVE  OthersOK' /\ ControlOK'
<1>1. c \in Channels /\ <<m>> \in Seq(Carried[c])
  BY OneMessage, ChannelsAre
<1>2. /\ NetOK' /\ net'[c] = net[c] \o <<m>>
      /\ \A d \in Channels \ {c} : net'[d] = net[d]
  BY <1>1, Sent DEF OthersOK
<1>3. net'["upr_lift"] = net["upr_lift"]
  BY <1>2, ChannelsAre
<1>4. Reported(net'["lift_upr"]) = Reported(net["lift_upr"])
  <2>1. CASE c = "lift_upr"
    <3>1. net["lift_upr"] \in Seq(Carried["lift_upr"]) /\ m \in Carried["lift_upr"]
      BY <2>1, ChannelsAre DEF OthersOK, NetOK
    <3>2. ~IsReport(m) /\ ~IsOrder(m)
      BY <3>1, ChannelsAre DEF IsReport, IsOrder
    <3>3. Reported(net["lift_upr"] \o <<m>>) = Reported(net["lift_upr"])
      BY <3>1, <3>2, NeitherAppended
    <3>4. net'["lift_upr"] = net["lift_upr"] \o <<m>>
      BY <1>2, <2>1
    <3> QED  BY <3>3, <3>4
  <2>2. CASE c # "lift_upr"
    <3>1. net'["lift_upr"] = net["lift_upr"]
      BY <1>2, <2>2, ChannelsAre
    <3> QED  BY <3>1
  <2> QED  BY <2>1, <2>2
<1>5. ControlOK'
  BY <1>3, <1>4, QueuesShrink DEF liftVars
<1> QED  BY <1>2, <1>5, OthersKept

LEMMA PressStep ==
  ASSUME OthersOK, ControlOK, Press PROVE OthersOK' /\ ControlOK'
<1>1. ASSUME NEW r \in HallKeys, PressHallKey(r) PROVE OthersOK' /\ ControlOK'
  <2>1. /\ Msg("TIPKE_KEY_PRESSED", r) \in Carried["tipke_upr"]
        /\ Msg("TIPKE_KEY_PRESSED", r).type # "LIFT_STATUS_REPORT"
    BY ChannelsAre DEF Msg, HallKeys
  <2> QED  BY <1>1, <2>1, TypedStep DEF PressHallKey
<1>2. ASSUME NEW f \in Floors, PressCabinKey(f) PROVE OthersOK' /\ ControlOK'
  <2>1. /\ Msg("LIFT_KEY_PRESSED", f) \in Carried["lift_upr"]
        /\ Msg("LIFT_KEY_PRESSED", f).type # "LIFT_STATUS_REPORT"
    BY ChannelsAre DEF Msg
  <2> QED  BY <1>2, <2>1, TypedStep DEF PressCabinKey
<1>3. ASSUME TypeSTOP PROVE OthersOK' /\ ControlOK'
  <2>1. 0 \in Floors
    BY FloorsAssumption DEF Floors
  <2>2. /\ Msg("LIFT_STOP", 0) \in Carried["lift_upr"]
        /\ Msg("LIFT_STOP", 0).type # "LIFT_STATUS_REPORT"
    BY <2>1, ChannelsAre DEF Msg
  <2> QED  BY <1>3, <2>2, TypedStep DEF TypeSTOP
<1> QED  BY <1>1, <1>2, <1>3 DEF Press

LEMMA LoseStep ==
  ASSUME OthersOK, ControlOK, NEW c \in Channels, Lose(c)
  PROVE  OthersOK' /\ ControlOK'
<1>1. /\ losses < MaxLosses /\ losses' = losses + 1
      /\ net[c] # <<>> /\ net' = [net EXCEPT ![c] = Tail(@)]
      /\ UNCHANGED <<liftVars, uprVars, hall_status, ticks>>
  BY Zenon DEF Lose
<1>2. /\ NetOK' /\ net'[c] = Tail(net[c])
      /\ \A d \in Channels \ {c} : net'[d] = net[d]
  BY <1>1, Taken DEF OthersOK
<1>3. /\ Ordered(Tail(net[c])) \subseteq Ordered(net[c])
      /\ Reported(Tail(net[c])) \subseteq Reported(net[c])
      /\ OneOrder(net[c]) => OneOrder(Tail(net[c]))
  BY <1>1, TailOfQueue DEF OthersOK, NetOK
<1>4. \A d \in Channels : /\ Ordered(net'[d]) \subseteq Ordered(net[d])
                          /\ Reported(net'[d]) \subseteq Reported(net[d])
                          /\ OneOrder(net[d]) => OneOrder(net'[d])
  <2> TAKE d \in Channels
  <2>1. CASE d = c
    BY <1>2, <1>3, <2>1, Zenon
  <2>2. CASE d # c
    <3>1. net'[d] = net[d]
      BY <1>2, <2>2
    <3> QED  BY <3>1, Zenon
  <2> QED  BY <2>1, <2>2
<1>5. ControlOK'
  BY <1>1, <1>4, QueuesShrink, ChannelsAre DEF liftVars
<1>6. CountersOK'
  BY <1>1, BoundsAssumption DEF OthersOK, CountersOK
<1>7. OthersOK'
  BY <1>1, <1>2, <1>6 DEF OthersOK, ReportOK, ListOK, LampsOK, uprVars
<1> QED  BY <1>5, <1>7
------------------------------------------------------------------------------
(* lift(). *)

(* What a round of lift() does to the state of the car and to the command,    *)
(* as far as the invariant speaks of them.                                    *)
LEMMA CarRound ==
  ASSUME Car!LiftThread
  PROVE  \/ UNCHANGED <<current_floor, current_im_floor, current_state, current_action>>
         \/ /\ current_action = A_OBRADENO /\ current_action' = A_OBRADENO
            /\ \/ /\ current_state = S_OTVARA_VRATA /\ current_state' = S_STOJI_OTVOREN
                  /\ UNCHANGED <<current_floor, current_im_floor>>
               \/ /\ current_state = S_ZATVARA_VRATA /\ current_state' = S_STOJI_ZATVOREN
                  /\ UNCHANGED <<current_floor, current_im_floor>>
               \/ /\ current_state \in MovingStates
                  /\ current_state' \in {current_state, S_STOJI_ZATVOREN}
         \/ /\ UNCHANGED <<current_floor, current_im_floor>>
            /\ current_action' = A_OBRADENO
            /\ \/ UNCHANGED current_state
               \/ /\ current_action \in Leave
                  /\ current_state = S_STOJI_ZATVOREN /\ current_state' \in MovingStates
               \/ /\ current_action = A_LIFT_OTVORI
                  /\ current_state = S_STOJI_ZATVOREN /\ current_state' = S_OTVARA_VRATA
               \/ /\ current_action = A_LIFT_ZATVORI
                  /\ current_state = S_STOJI_OTVOREN /\ current_state' = S_ZATVARA_VRATA
               \/ current_state' = S_STOJI
<1> USE DEF Car!S_STOJI_OTVOREN, Car!S_STOJI_ZATVOREN, Car!S_OTVARA_VRATA,
            Car!S_ZATVARA_VRATA, Car!S_IDE_DOLE, Car!S_IDE_GORE, Car!S_STOJI,
            Car!A_UNDEF, Car!A_OBRADENO, Car!A_LIFT_GORE, Car!A_LIFT_DOLE,
            Car!A_LIFT_STANI, Car!A_LIFT_OTVORI, Car!A_LIFT_ZATVORI, Car!position,
            S_STOJI_OTVOREN, S_STOJI_ZATVOREN, S_OTVARA_VRATA, S_ZATVARA_VRATA,
            S_IDE_DOLE, S_IDE_GORE, S_STOJI, A_OBRADENO, A_LIFT_GORE, A_LIFT_DOLE,
            A_LIFT_OTVORI, A_LIFT_ZATVORI, MovingStates, Leave
<1>1. CASE Car!Advance
  BY <1>1 DEF Car!Advance, Car!DoorMoves, Car!MoveUp, Car!MoveDown, Car!Rest, Car!Arrive
<1>2. CASE Car!Execute
  BY <1>2 DEF Car!Execute, Car!StartUp, Car!StartDown, Car!OpenDoor, Car!CloseDoor,
              Car!EmergencyStop
<1>3. CASE Car!Idle
  BY <1>3 DEF Car!Idle, Car!carVars
<1> QED  BY <1>1, <1>2, <1>3 DEF Car!LiftThread

LEMMA LiftRoundStep ==
  ASSUME OthersOK, ControlOK, LiftRound
  PROVE  OthersOK' /\ ControlOK' /\ Car!LiftThread
<1>1. /\ Car!LiftThread /\ ticks' = 0
      /\ UNCHANGED <<uprVars, hall_status, net, losses>>
  BY Zenon DEF LiftRound
<1>2. OthersOK'
  <2>1. NetOK' /\ ReportOK' /\ ListOK' /\ LampsOK'
    BY <1>1 DEF OthersOK, NetOK, ReportOK, ListOK, LampsOK, uprVars
  <2>2. CountersOK'
    BY <1>1, BoundsAssumption DEF OthersOK, CountersOK
  <2> QED  BY <2>1, <2>2 DEF OthersOK
<1>3. /\ OnTheWay' = OnTheWay /\ Told' = Told
      /\ OneOrder(net["upr_lift"]) /\ OneOrder(net["upr_lift"])'
      /\ UNCHANGED <<request_list, report, upr_pc>>
  BY <1>1 DEF OnTheWay, Told, uprVars, ControlOK, OrdersFit
<1>4. Serving'
  BY <1>3 DEF ControlOK, Serving
<1>5. /\ \A r \in Told : OpenStaysTrue(r) /\ ClosedStaysTrue(r)
      /\ OrdersFit /\ LeavesForSomeone
  BY DEF ControlOK, ReportsStayTrue
<1> USE DEF Pending, Leave, MovingStates, S_STOJI_OTVOREN, S_STOJI_ZATVOREN,
            S_OTVARA_VRATA, S_ZATVARA_VRATA, S_IDE_DOLE, S_IDE_GORE, S_STOJI, A_OBRADENO,
            A_LIFT_GORE, A_LIFT_DOLE, A_LIFT_OTVORI, A_LIFT_ZATVORI
<1> HIDE DEF OnTheWay, Told
<1>6. ASSUME NEW r \in Told PROVE OpenStaysTrue(r)' /\ ClosedStaysTrue(r)'
  <2>1. OpenStaysTrue(r) /\ ClosedStaysTrue(r) /\ OrdersFit
    BY <1>5
  <2>2. OpenStaysTrue(r)'
    BY <1>1, <1>3, <2>1, CarRound DEF OpenStaysTrue, OrdersFit
  <2>3. ClosedStaysTrue(r)'
    BY <1>1, <1>3, <2>1, CarRound DEF ClosedStaysTrue, OrdersFit
  <2> QED  BY <2>2, <2>3
<1>7. OrdersFit'
  BY <1>1, <1>3, <1>5, CarRound DEF OrdersFit
<1>8. LeavesForSomeone'
  BY <1>1, <1>3, <1>5, CarRound DEF LeavesForSomeone, AboutToLeave, OrdersFit
<1> QED  BY <1>1, <1>2, <1>3, <1>4, <1>6, <1>7, <1>8 DEF ControlOK, ReportsStayTrue

------------------------------------------------------------------------------
(* upr(). *)

(* When the channels are quiet there are no commands and only the report upr  *)
(* has.                                                                       *)
LEMMA QuietChannels ==
  Quiet => /\ \A c \in Channels : net[c] = <<>>
           /\ OnTheWay = {} /\ Told = {report}
<1> SUFFICES ASSUME Quiet
             PROVE  /\ \A c \in Channels : net[c] = <<>>
                    /\ OnTheWay = {} /\ Told = {report}
  OBVIOUS
<1>1. \A c \in Channels : net[c] = <<>>
  BY DEF Quiet
<1>2. Ordered(<<>>) = {} /\ Reported(<<>>) = {}
  BY DEF Ordered, Reported
<1> QED  BY <1>1, <1>2, ChannelsAre DEF OnTheWay, Told

(* The orders among the datagrams of a round. *)
LEMMA RoundOrders ==
  ASSUME OthersOK, NEW next \in Request
  PROVE  /\ ToLift(next) \in Seq(LiftMessages)
         /\ <<Action("A_LIFT_STATUS")>> \o ToLift(next) \in Seq(LiftMessages)
         /\ OneOrder(<<Action("A_LIFT_STATUS")>> \o ToLift(next))
         /\ LET orders == Ordered(<<Action("A_LIFT_STATUS")>> \o ToLift(next))
            IN  /\ report.state = S_STOJI_OTVOREN => orders = {A_LIFT_ZATVORI}
                /\ report.state = S_STOJI_ZATVOREN => orders = {Trip(next)}
                /\ report.state \notin {S_STOJI_OTVOREN, S_STOJI_ZATVOREN} => orders = {}
         /\ Trip(next) \in Leave \cup {A_LIFT_OTVORI}
<1> DEFINE ask == Action("A_LIFT_STATUS")
           sent == <<ask>> \o ToLift(next)
<1>1. /\ report.floor \in Floors /\ report.state \in LiftStates \cup {UNKNOWN}
      /\ next.floor \in Floors
  BY DEF OthersOK, ReportOK, Request
<1>2. Trip(next) \in Leave \cup {A_LIFT_OTVORI}
  BY <1>1, FloorsAssumption DEF Trip, Leave, Floors
<1>3. /\ ask \in LiftMessages /\ ~IsOrder(ask) /\ ~IsReport(ask)
  BY DEF Action, Msg, LiftMessages, IsOrder, IsReport, Orders,
         A_LIFT_GORE, A_LIFT_DOLE, A_LIFT_OTVORI, A_LIFT_ZATVORI
<1> HIDE DEF ask
<1>4. /\ <<ask>> \in Seq(LiftMessages) /\ <<>> \in Seq(LiftMessages)
      /\ <<>> \o <<ask>> = <<ask>>
  BY <1>3, OneMessage, EmptySeq, ConcatEmptySeq
<1>5. Ordered(<<>>) = {} /\ OneOrder(<<>>)
  BY DEF Ordered, OneOrder
<1>6. Ordered(<<ask>>) = {} /\ OneOrder(<<ask>>)
  BY <1>3, <1>4, <1>5, NeitherAppended
<1>7. ASSUME NEW s \in Seq(LiftMessages)
      PROVE  <<ask>> \o s \in Seq(LiftMessages)
  BY <1>4, ConcatProperties
<1>8. ASSUME NEW m \in LiftMessages
      PROVE  /\ <<m>> \in Seq(LiftMessages)
             /\ <<ask>> \o <<m>> \in Seq(LiftMessages)
             /\ OneOrder(<<ask>> \o <<m>>)
             /\ Ordered(<<ask>> \o <<m>>) = IF IsOrder(m) THEN {m.data} ELSE {}
  <2>1. <<m>> \in Seq(LiftMessages)
    BY OneMessage
  <2>2. <<ask>> \o <<m>> \in Seq(LiftMessages)
    BY <2>1, <1>7
  <2>3. /\ Ordered(<<ask>> \o <<m>>) = Ordered(<<ask>>) \cup IF IsOrder(m) THEN {m.data} ELSE {}
        /\ OneOrder(<<ask>> \o <<m>>)
    BY <1>4, <1>6, AppendedToQueue
  <2> QED  BY <1>6, <2>1, <2>2, <2>3
<1>9. CASE report.state = S_STOJI_OTVOREN
  <2> DEFINE a == Action(A_LIFT_ZATVORI)
             g == Msg("LIFT_GASI_LAMPICU", report.floor)
  <2>1. /\ a \in LiftMessages /\ IsOrder(a) /\ a.data = A_LIFT_ZATVORI
        /\ g \in LiftMessages /\ ~IsOrder(g) /\ ~IsReport(g)
    BY <1>1 DEF Action, Msg, LiftMessages, IsOrder, IsReport, Orders, QueuedActions
  <2>2. ToLift(next) = <<a, g>>
    BY <1>9 DEF ToLift, StopDue, S_STOJI_OTVOREN, S_STOJI_ZATVOREN, S_IDE_GORE, S_IDE_DOLE
  <2> HIDE DEF a, g
  <2>3. <<a, g>> \in Seq(LiftMessages) /\ <<a, g>> = <<a>> \o <<g>>
    <3>1. /\ <<a, g>> \in Seq(LiftMessages) /\ Len(<<a, g>>) = 2
          /\ <<a, g>>[1] = a /\ <<a, g>>[2] = g
      BY <2>1
    <3>2. /\ <<a>> \in Seq(LiftMessages) /\ Len(<<a>>) = 1 /\ <<a>>[1] = a
          /\ <<g>> \in Seq(LiftMessages) /\ Len(<<g>>) = 1 /\ <<g>>[1] = g
      BY <2>1, OneMessage
    <3>3. /\ <<a>> \o <<g>> \in Seq(LiftMessages) /\ Len(<<a>> \o <<g>>) = 2
          /\ (<<a>> \o <<g>>)[1] = a /\ (<<a>> \o <<g>>)[2] = g
      BY <3>2, ConcatProperties
    <3>4. \A i \in 1 .. 2 : i = 1 \/ i = 2
      OBVIOUS
    <3>5. <<a, g>> = <<a>> \o <<g>>
      BY <3>1, <3>3, <3>4, SeqEqual
    <3> QED  BY <3>1, <3>5
  <2>4. <<ask>> \o <<a, g>> = (<<ask>> \o <<a>>) \o <<g>>
    <3>1. <<a>> \in Seq(LiftMessages) /\ <<g>> \in Seq(LiftMessages)
      BY <2>1, OneMessage
    <3> QED  BY <2>3, <3>1, <1>4, ConcatAssociative
  <2>5. /\ <<ask>> \o <<a>> \in Seq(LiftMessages)
        /\ OneOrder(<<ask>> \o <<a>>)
        /\ Ordered(<<ask>> \o <<a>>) = {A_LIFT_ZATVORI}
    BY <1>8, <2>1
  <2>6. /\ OneOrder((<<ask>> \o <<a>>) \o <<g>>)
        /\ Ordered((<<ask>> \o <<a>>) \o <<g>>) = {A_LIFT_ZATVORI}
    BY <2>1, <2>5, NeitherAppended
  <2>7. OneOrder(sent) /\ Ordered(sent) = {A_LIFT_ZATVORI}
    BY <1>7, <2>2, <2>3, <2>4, <2>6
  <2>8. ToLift(next) \in Seq(LiftMessages)
    BY <2>2, <2>3
  <2> HIDE DEF sent
  <2> QED  BY <1>2, <1>7, <1>9, <2>7, <2>8
           DEF ask, sent, S_STOJI_OTVOREN, S_STOJI_ZATVOREN
<1>10. CASE report.state = S_STOJI_ZATVOREN
  <2> DEFINE a == Action(Trip(next))
  <2>1. a \in LiftMessages /\ IsOrder(a) /\ a.data = Trip(next)
    BY <1>2 DEF Action, Msg, LiftMessages, IsOrder, Orders, QueuedActions, Leave
  <2>2. ToLift(next) = <<a>>
    BY <1>10 DEF ToLift, StopDue, S_STOJI_OTVOREN, S_STOJI_ZATVOREN, S_IDE_GORE, S_IDE_DOLE
  <2> HIDE DEF a
  <2>3. /\ ToLift(next) \in Seq(LiftMessages)
        /\ OneOrder(sent) /\ Ordered(sent) = {Trip(next)}
    BY <1>7, <1>8, <2>1, <2>2
  <2> HIDE DEF sent
  <2> QED  BY <1>2, <1>7, <1>10, <2>3 DEF ask, sent, S_STOJI_OTVOREN, S_STOJI_ZATVOREN
<1>11. CASE report.state \notin {S_STOJI_OTVOREN, S_STOJI_ZATVOREN}
  <2>1. CASE StopDue(next)
    <3> DEFINE a == Action(A_LIFT_STANI_NA_KATU)
    <3>1. a \in LiftMessages /\ ~IsOrder(a)
      BY DEF Action, Msg, LiftMessages, IsOrder, Orders, A_LIFT_STANI_NA_KATU,
             A_LIFT_GORE, A_LIFT_DOLE, A_LIFT_OTVORI, A_LIFT_ZATVORI
    <3>2. ToLift(next) = <<a>>
      BY <1>11, <2>1 DEF ToLift
    <3> HIDE DEF a
    <3>3. /\ ToLift(next) \in Seq(LiftMessages)
          /\ OneOrder(sent) /\ Ordered(sent) = {}
      BY <1>7, <1>8, <3>1, <3>2
    <3> HIDE DEF sent
    <3> QED  BY <1>2, <1>7, <1>11, <3>3 DEF ask, sent
  <2>2. CASE ~StopDue(next)
    <3>1. ToLift(next) = <<>>
      BY <1>11, <2>2 DEF ToLift
    <3>2. <<ask>> \o <<>> = <<ask>>
      BY <1>4, ConcatEmptySeq
    <3>3. /\ ToLift(next) \in Seq(LiftMessages)
          /\ OneOrder(sent) /\ Ordered(sent) = {}
      BY <1>4, <1>6, <1>7, <3>1, <3>2
    <3> HIDE DEF sent
    <3> QED  BY <1>2, <1>7, <1>11, <3>3 DEF ask, sent
  <2> QED  BY <2>1, <2>2
<1> QED  BY <1>9, <1>10, <1>11
LEMMA TickStep ==
  ASSUME OthersOK, ControlOK, Tick PROVE OthersOK' /\ ControlOK'
<1> DEFINE ask == Action("A_LIFT_STATUS")
<1>1. /\ Quiet /\ upr_pc = "sleep"
      /\ ticks < MaxTicks \/ ~RUNNING
      /\ ticks' = IF RUNNING THEN ticks + 1 ELSE 0
      /\ UNCHANGED <<liftVars, report, to_send, hall_status, losses>>
  BY DEF Tick
<1>2. UNCHANGED <<current_floor, current_im_floor, current_state, current_action>>
  BY <1>1 DEF liftVars
<1>3. /\ \A c \in Channels : net[c] = <<>>
      /\ OnTheWay = {} /\ Told = {report}
  BY <1>1, QuietChannels, Zenon
<1>4. ReportOK' /\ LampsOK' /\ CountersOK'
  BY <1>1, BoundsAssumption DEF OthersOK, ReportOK, LampsOK, CountersOK
<1>5. /\ ask \in LiftMessages /\ ~IsOrder(ask) /\ ~IsReport(ask)
  BY DEF Action, Msg, LiftMessages, IsOrder, IsReport, Orders,
         A_LIFT_GORE, A_LIFT_DOLE, A_LIFT_OTVORI, A_LIFT_ZATVORI
<1> HIDE DEF ask
<1>6. <<ask>> \in Seq(LiftMessages)
  BY <1>5, OneMessage
<1>7. CASE /\ Send("upr_lift", <<ask>>)
           /\ UNCHANGED <<request_list, upr_pc>>
  <2>1. /\ NetOK' /\ net'["upr_lift"] = net["upr_lift"] \o <<ask>>
        /\ net'["lift_upr"] = net["lift_upr"]
    BY <1>6, <1>7, Sent, ChannelsAre DEF OthersOK
  <2>2. net["upr_lift"] \in Seq(LiftMessages)
    BY ChannelsAre DEF OthersOK, NetOK
  <2>3. /\ Ordered(net["upr_lift"] \o <<ask>>) = Ordered(net["upr_lift"])
        /\ OneOrder(net["upr_lift"]) => OneOrder(net["upr_lift"] \o <<ask>>)
    BY <1>5, <2>2, NeitherAppended
  <2>4. ListOK'
    BY <1>7 DEF OthersOK, ListOK
  <2>5. ControlOK'
    BY <1>1, <1>2, <1>7, <2>1, <2>3, QueuesShrink DEF uprVars
  <2> QED  BY <1>4, <2>1, <2>4, <2>5 DEF OthersOK
<1>8. CASE request_list # <<>> /\ report.state # UNKNOWN /\ Decide
  <2> DEFINE sorted == SetSort(request_list, report.floor, report.direction)
             next   == Head(sorted)
             toLift == <<ask>> \o ToLift(next)
  <2>1. /\ request_list' = sorted
        /\ net' = [net EXCEPT !["upr_lift"]  = @ \o <<ask>> \o ToLift(next),
                              !["upr_tipke"] = @ \o ToTipke(next)]
        /\ upr_pc' = IF EndsServed THEN "served" ELSE "sleep"
    BY <1>8, Zenon DEF Decide, ask
  <2>2. /\ report.floor \in Floors /\ report.direction \in Directions
        /\ request_list \in Seq(Request) /\ Distinct(request_list)
    BY DEF OthersOK, ReportOK, ListOK
  <2>3. sorted \in Seq(Request) /\ Len(sorted) = Len(request_list) /\ Distinct(sorted)
    BY <2>2, SetSortResult
  <2> HIDE DEF sorted
  <2>4. sorted # <<>>
    BY <1>8, <2>2, <2>3, EmptySeq
  <2>5. next \in Request
    BY <2>3, <2>4, HeadTailProperties
  <2> HIDE DEF next
  <2>6. ListOK'
    BY <2>1, <2>3, <2>4 DEF ListOK
  <2>7. ToTipke(next) \in Seq(TipkeMessages)
    <3>1. Msg("TIPKE_GASI_LAMPICU", Req(report.floor, next.direction)) \in TipkeMessages
      BY <2>2, <2>5 DEF Msg, Req, Request, TipkeMessages
    <3>2. /\ <<Msg("TIPKE_GASI_LAMPICU", Req(report.floor, next.direction))>>
               \in Seq(TipkeMessages)
          /\ <<>> \in Seq(TipkeMessages)
      BY <3>1, OneMessage, EmptySeq
    <3> QED  BY <3>2, Zenon DEF ToTipke
  <2>8. /\ ToLift(next) \in Seq(LiftMessages)
        /\ toLift \in Seq(LiftMessages) /\ OneOrder(toLift)
        /\ report.state = S_STOJI_OTVOREN => Ordered(toLift) = {A_LIFT_ZATVORI}
        /\ report.state = S_STOJI_ZATVOREN => Ordered(toLift) = {Trip(next)}
        /\ report.state \notin {S_STOJI_OTVOREN, S_STOJI_ZATVOREN} => Ordered(toLift) = {}
        /\ Trip(next) \in Leave \cup {A_LIFT_OTVORI}
    BY <2>5, RoundOrders DEF ask
  <2>9. (<<>> \o <<ask>>) \o ToLift(next) = toLift /\ <<>> \o ToTipke(next) = ToTipke(next)
    BY <1>6, <2>7, ConcatEmptySeq
  <2> HIDE DEF toLift
  <2>10. /\ net'["upr_lift"] = toLift /\ net'["upr_tipke"] = ToTipke(next)
         /\ net'["lift_upr"] = <<>> /\ net'["tipke_upr"] = <<>>
         /\ DOMAIN net' = Channels
    BY <1>3, <2>1, <2>9, ChannelsAre DEF OthersOK, NetOK
  <2>11. NetOK'
    <3>1. /\ net'["upr_lift"] \in Seq(Carried["upr_lift"])
          /\ net'["upr_tipke"] \in Seq(Carried["upr_tipke"])
      BY <2>7, <2>8, <2>10, ChannelsAre
    <3>2. /\ net'["lift_upr"] \in Seq(Carried["lift_upr"])
          /\ net'["tipke_upr"] \in Seq(Carried["tipke_upr"])
      BY <2>10, EmptySeq, Zenon
    <3>3. \A c \in Channels : net'[c] \in Seq(Carried[c])
      BY <3>1, <3>2, ChannelsAre, Zenon
    <3> QED  BY <2>10, <3>3 DEF NetOK
  <2>12. /\ Told' = {report} /\ OnTheWay' = Ordered(toLift) /\ report' = report
         /\ OneOrder(net["upr_lift"])'
    <3>1. Reported(<<>>) = {}
      BY DEF Reported
    <3> QED  BY <1>1, <2>8, <2>10, <3>1 DEF Told, OnTheWay
  <2>13. OpenStaysTrue(report) /\ ClosedStaysTrue(report)
    BY <1>3 DEF ControlOK, ReportsStayTrue
  <2> DEFINE sent == Ordered(toLift)
  <2>14. /\ Pending = {current_action} /\ Pending' = {current_action} \cup sent
    BY <1>2, <1>3, <2>12 DEF Pending
  <2> HIDE DEF sent, OnTheWay, Told, Pending
  <2> USE DEF Leave, MovingStates, S_STOJI_OTVOREN, S_STOJI_ZATVOREN, S_OTVARA_VRATA,
              S_ZATVARA_VRATA, S_IDE_DOLE, S_IDE_GORE, A_LIFT_GORE, A_LIFT_DOLE,
              A_LIFT_OTVORI, A_LIFT_ZATVORI
  <2>15. /\ report.state = S_STOJI_OTVOREN => sent = {A_LIFT_ZATVORI}
         /\ report.state # S_STOJI_OTVOREN => A_LIFT_ZATVORI \notin sent
         /\ report.state \notin {S_STOJI_OTVOREN, S_STOJI_ZATVOREN} => sent = {}
    BY <2>8 DEF sent
  <2>16. OpenStaysTrue(report)' /\ ClosedStaysTrue(report)'
    BY <1>2, <2>12, <2>13, <2>14, <2>15 DEF OpenStaysTrue, ClosedStaysTrue
  <2>17. OrdersFit'
    BY <1>2, <2>12, <2>13, <2>14, <2>15
       DEF OrdersFit, OpenStaysTrue, ClosedStaysTrue, sent
  <2>18. LeavesForSomeone' /\ Serving'
    BY <2>1, <2>4, <2>12 DEF LeavesForSomeone, Serving, EndsServed
  <2> QED  BY <1>4, <2>6, <2>11, <2>12, <2>16, <2>17, <2>18
           DEF OthersOK, ControlOK, ReportsStayTrue
<1> QED  BY <1>7, <1>8 DEF Tick, ask

(* The request that is served leaves the list, and the car is there. *)
LEMMA ServedStep ==
  ASSUME OthersOK, ControlOK, Served
  PROVE  /\ OthersOK' /\ ControlOK'
         /\ \A r \in Elements(request_list) \ Elements(request_list') :
              /\ current_floor = r.floor /\ current_im_floor = 0
              /\ current_state \notin MovingStates
<1> DEFINE next == Head(request_list)
<1>1. /\ upr_pc = "served" /\ upr_pc' = "sleep"
      /\ request_list' = IF next.floor = report.floor
                         THEN SetRemove(request_list, next) ELSE request_list
      /\ UNCHANGED <<liftVars, report, to_send, hall_status, net, losses, ticks>>
  BY Zenon DEF Served
<1>2. /\ request_list \in Seq(Request) /\ Distinct(request_list) /\ request_list # <<>>
  BY <1>1 DEF OthersOK, ListOK
<1>3. 1 \in DOMAIN request_list /\ next = request_list[1]
  BY <1>2, EmptySeq, LenProperties
<1>4. /\ SetRemove(request_list, next) \in Seq(Request)
      /\ Distinct(SetRemove(request_list, next))
      /\ Elements(SetRemove(request_list, next)) = Elements(request_list) \ {next}
  BY <1>2, <1>3, SetRemoveResult
<1> HIDE DEF next
<1>5. OpenStaysTrue(report) /\ report.state = S_STOJI_OTVOREN
  BY <1>1 DEF ControlOK, ReportsStayTrue, Serving, Told
<1>6. /\ current_floor = report.floor /\ current_im_floor = 0
      /\ current_state \notin MovingStates /\ ~AboutToLeave
  BY <1>5 DEF OpenStaysTrue, AboutToLeave
<1>7. OthersOK'
  <2>1. ListOK'
    BY <1>1, <1>2, <1>4 DEF ListOK
  <2> QED  BY <1>1, <2>1 DEF OthersOK, ReportOK, LampsOK, CountersOK, NetOK
<1>8. ControlOK'
  <2>1. /\ Told' = Told /\ OnTheWay' = OnTheWay /\ Pending' = Pending
        /\ UNCHANGED <<current_floor, current_im_floor, current_state, current_action>>
        /\ OneOrder(net["upr_lift"])' = OneOrder(net["upr_lift"])
    BY <1>1 DEF Told, OnTheWay, Pending, liftVars
  <2> HIDE DEF Told, OnTheWay, Pending
  <2>2. ReportsStayTrue'
    BY <2>1 DEF ControlOK, ReportsStayTrue, OpenStaysTrue, ClosedStaysTrue
  <2>3. OrdersFit'
    BY <2>1 DEF ControlOK, OrdersFit
  <2>4. LeavesForSomeone'
    BY <1>6, <2>1 DEF LeavesForSomeone, AboutToLeave
  <2>5. Serving'
    BY <1>1 DEF Serving
  <2> QED  BY <2>2, <2>3, <2>4, <2>5 DEF ControlOK
<1>9. ASSUME NEW r \in Elements(request_list) \ Elements(request_list')
      PROVE  r.floor = report.floor
  <2>1. next.floor = report.floor
    BY <1>1, <1>9
  <2>2. r = next
    BY <1>1, <1>4, <1>9, <2>1
  <2> QED  BY <2>1, <2>2
<1> QED  BY <1>6, <1>7, <1>8, <1>9
------------------------------------------------------------------------------
(* The initial state satisfies the invariant. *)
LEMMA InitIInv == Init => IInv /\ Car!Init
<1> SUFFICES ASSUME Init PROVE IInv /\ Car!Init
  OBVIOUS
<1>1. CarOK /\ Car!TypeOK /\ Car!Init
  BY InitCar DEF Init
<1>2. ReportOK /\ CountersOK
  BY FloorsAssumption, BoundsAssumption
  DEF Init, ReportOK, CountersOK, Floors, Quarters, Directions
<1>3. <<>> \in Seq(Request) /\ Distinct(<<>>)
  BY EmptySeq DEF Distinct
<1>4. ListOK /\ LampsOK
  BY <1>3 DEF Init, ListOK, LampsOK
<1>5. net = [c \in Channels |-> <<>>] /\ to_send = <<>>
  BY DEF Init
<1>6. NetOK
  BY <1>5, EmptySeq DEF NetOK
<1>7. /\ OnTheWay = {} /\ Told = {report}
      /\ OneOrder(net["upr_lift"])
  <2>1. Quiet
    BY <1>5 DEF Quiet
  <2>2. OneOrder(<<>>)
    BY DEF OneOrder
  <2> QED  BY <2>1, <2>2, QuietChannels, ChannelsAre
<1>8. ControlOK
  <2>1. /\ current_state = S_STOJI_ZATVOREN /\ current_action = A_UNDEF
        /\ report.state = UNKNOWN /\ upr_pc = "sleep"
    BY DEF Init, Car!Init, Car!S_STOJI_ZATVOREN, Car!A_UNDEF, S_STOJI_ZATVOREN, A_UNDEF
  <2> QED
    BY <1>7, <2>1
    DEF ControlOK, ReportsStayTrue, OpenStaysTrue, ClosedStaysTrue, OrdersFit, Pending,
        LeavesForSomeone, AboutToLeave, Serving, UNKNOWN, MovingStates, Leave,
        S_STOJI_OTVOREN, S_STOJI_ZATVOREN, S_IDE_DOLE, S_IDE_GORE, S_OTVARA_VRATA,
        S_ZATVARA_VRATA, A_UNDEF, A_LIFT_GORE, A_LIFT_DOLE, A_LIFT_ZATVORI, A_LIFT_OTVORI
<1> QED  BY <1>1, <1>2, <1>4, <1>6, <1>8, TypesInParts DEF IInv, OthersOK

(* Every step keeps the invariant, and is one of the car or leaves it alone.  *)
LEMMA NextIInv == IInv /\ [Next]_vars => IInv' /\ [Car!Next]_(Car!vars)
<1> SUFFICES ASSUME IInv, [Next]_vars PROVE IInv' /\ [Car!Next]_(Car!vars)
  OBVIOUS
<1>1. OthersOK /\ ControlOK /\ CarOK /\ Car!TypeOK
  BY TypesInParts DEF IInv
<1>2. /\ OthersOK' /\ ControlOK'
      /\ Car!Listener \/ Car!LiftThread \/ UNCHANGED liftVars
  <2>1. CASE Tick
    BY <1>1, <2>1, TickStep DEF Tick
  <2>2. CASE Served
    BY <1>1, <2>2, ServedStep DEF Served
  <2>3. CASE UprListener
    <3>1. UNCHANGED liftVars
      BY <2>3, Zenon DEF UprListener, UprHallKey, UprCabinKey, UprSendLamp, UprReport,
                         UprStopKey
    <3> QED  BY <1>1, <2>3, <3>1, UprHallKeyStep, UprCabinKeyStep, UprSendLampStep,
                UprReportStep, UprStopKeyStep, Zenon DEF UprListener
  <2>4. CASE LiftRound
    BY <1>1, <2>4, LiftRoundStep
  <2>5. CASE LiftListener
    <3>1. CASE LiftAction
      BY <1>1, <3>1, LiftActionStep
    <3>2. CASE LiftLamp
      BY <1>1, <3>2, LiftLampStep
    <3>3. CASE LiftReport
      BY <1>1, <3>3, LiftReportStep DEF LiftReport
    <3>4. CASE LiftGone
      BY <1>1, <3>4, LiftGoneStep DEF LiftGone
    <3> QED  BY <2>5, <3>1, <3>2, <3>3, <3>4 DEF LiftListener
  <2>6. CASE TipkeLamp
    BY <1>1, <2>6, TipkeLampStep DEF TipkeLamp
  <2>7. CASE Press
    BY <1>1, <2>7, PressStep DEF Press, PressHallKey, PressCabinKey, TypeSTOP
  <2>8. CASE \E c \in Channels : Lose(c)
    BY <1>1, <2>8, LoseStep DEF Lose
  <2>9. CASE UNCHANGED vars
    <3>1. UNCHANGED <<liftVars, uprVars, hall_status, net, losses, ticks>>
      BY <2>9 DEF vars
    <3>2. OthersOK'
      BY <1>1, <3>1, OthersKept DEF OthersOK, NetOK
    <3>3. ControlOK'
      BY <1>1, <3>1, QueuesShrink DEF liftVars
    <3> QED  BY <3>1, <3>2, <3>3
  <2> QED  BY <2>1, <2>2, <2>3, <2>4, <2>5, <2>6, <2>7, <2>8, <2>9 DEF Next
<1>3. [Car!Next]_(Car!vars)
  BY <1>2 DEF Car!Next, Car!vars, Car!carVars, liftVars
<1>4. CarOK' /\ Car!TypeOK'
  BY <1>1, <1>3, StepCar
<1>5. TypeOK' /\ Distinct(request_list)'
  BY <1>2, <1>4, TypesInParts, PTL
<1> QED  BY <1>2, <1>3, <1>4, <1>5 DEF IInv

LEMMA Invariant == Spec => []IInv
<1>1. Init => IInv
  BY InitIInv
<1>2. IInv /\ [Next]_vars => IInv'
  BY NextIInv
<1> QED  BY <1>1, <1>2, PTL DEF Spec

(* The variables of the three processes and the datagrams between them keep   *)
(* their types: a lamp of an existing floor, a request of an existing key, at *)
(* most one lamp datagram the listener has still to send, and a request list  *)
(* that is not empty while its head is being served.                          *)
THEOREM SystemTypeCorrect == Spec => []TypeOK
<1>1. IInv => TypeOK
  BY DEF IInv
<1> QED  BY <1>1, Invariant, PTL

(* The car never travels without a request on the list: whatever is lost and  *)
(* whenever keys are pressed, no request is removed between the command to    *)
(* leave and the arrival.                                                     *)
THEOREM NeverTravelsForNobody == Spec => []TravelsForSomeone
<1>1. IInv => TravelsForSomeone
  BY DEF IInv, ControlOK, LeavesForSomeone, TravelsForSomeone
<1> QED  BY <1>1, Invariant, PTL

(* upr removes a request on the strength of a report that may be rounds old,  *)
(* and yet only while the car stands level with the floor of the request.     *)
THEOREM RequestsServedAtFloor == Spec => ServedAtFloor
<1> DEFINE Leaves == \A r \in Request :
                       IsWaiting(r) /\ ~IsWaiting(r)' =>
                         /\ current_floor = r.floor
                         /\ current_im_floor = 0
                         /\ current_state \notin MovingStates
<1>1. ASSUME IInv, [Next]_vars PROVE [Leaves]_vars
  <2>1. OthersOK /\ ControlOK
    BY <1>1, TypesInParts DEF IInv
  <2>2. ASSUME NEW r \in Request, IsWaiting(r), ~IsWaiting(r)'
        PROVE  r \in Elements(request_list) \ Elements(request_list')
    BY <2>2 DEF IsWaiting, Elements
  <2>3. CASE Served
    BY <2>1, <2>2, <2>3, ServedStep
  <2>4. CASE Elements(request_list) \subseteq Elements(request_list')
    BY <2>2, <2>4
  <2>5. Served \/ Elements(request_list) \subseteq Elements(request_list')
    <3>1. ASSUME UNCHANGED request_list
          PROVE  Elements(request_list) \subseteq Elements(request_list')
      BY <3>1
    <3>2. ASSUME NEW r \in Request, request_list' = SetInsert(request_list, r)
          PROVE  Elements(request_list) \subseteq Elements(request_list')
      BY <2>1, <3>2, SetInsertResult DEF OthersOK, ListOK
    <3>3. CASE Tick
      <4>1. CASE UNCHANGED request_list
        BY <3>1, <4>1
      <4>2. CASE request_list' = SetSort(request_list, report.floor, report.direction)
        BY <2>1, <4>2, SetSortResult DEF OthersOK, ListOK, ReportOK
      <4> QED  BY <3>3, <4>1, <4>2 DEF Tick, Decide
    <3>4. CASE UprHallKey
      <4>1. /\ net["tipke_upr"] # <<>>
            /\ request_list' = SetInsert(request_list, Head(net["tipke_upr"]).data)
        BY <3>4, Zenon DEF UprHallKey, Receive
      <4>2. Head(net["tipke_upr"]).data \in Request
        <5>1. Head(net["tipke_upr"]) \in Carried["tipke_upr"]
          BY <2>1, <4>1, HeadTailProperties, ChannelsAre DEF OthersOK, NetOK
        <5> QED  BY <5>1, ChannelsAre
      <4> QED  BY <3>2, <4>1, <4>2
    <3>5. CASE UprCabinKey
      <4> DEFINE m == Head(net["lift_upr"])
      <4>1. /\ net["lift_upr"] # <<>> /\ m.type = "LIFT_KEY_PRESSED"
            /\ request_list' = SetInsert(request_list,
                 Req(m.data, IF report.floor < m.data THEN D_UP ELSE D_DOWN))
        BY <3>5, Zenon DEF UprCabinKey, Receive
      <4>2. m \in Carried["lift_upr"]
        BY <2>1, <4>1, HeadTailProperties, ChannelsAre DEF OthersOK, NetOK
      <4>3. m \notin [type : {"LIFT_STATUS_REPORT"}, data : Reports]
        BY <4>1
      <4>4. m.data \in Floors
        BY <4>2, <4>3, ChannelsAre
      <4>5. Req(m.data, IF report.floor < m.data THEN D_UP ELSE D_DOWN) \in Request
        BY <4>4 DEF Req, Request
      <4> QED  BY <3>2, <4>1, <4>5
    <3>6. CASE UprSendLamp \/ UprReport \/ UprStopKey
      BY <3>1, <3>6, Zenon DEF UprSendLamp, UprReport, UprStopKey, uprVars
    <3>7. CASE LiftRound \/ LiftListener \/ TipkeLamp
      BY <3>1, <3>7, Zenon DEF LiftRound, LiftListener, LiftAction, LiftLamp, LiftReport,
                               LiftGone, TipkeLamp, uprVars
    <3>8. CASE Press \/ \E c \in Channels : Lose(c)
      BY <3>1, <3>8, Zenon DEF Press, PressHallKey, PressCabinKey, TypeSTOP, Lose, uprVars
    <3>9. CASE UNCHANGED vars
      BY <3>1, <3>9, Zenon DEF vars, uprVars
    <3> QED  BY <1>1, <3>3, <3>4, <3>5, <3>6, <3>7, <3>8, <3>9 DEF Next, UprListener
  <2> QED  BY <2>3, <2>4, <2>5
<1>2. IInv /\ [Next]_vars => [Leaves]_vars
  BY <1>1
<1> QED  BY <1>2, Invariant, PTL DEF Spec, ServedAtFloor

(* The car of the three processes is the car of module LiftCar, driven by     *)
(* what the control computer sends.                                           *)
THEOREM CarIsLiftCar == Spec => Car!Spec
<1>1. Init => Car!Init
  BY InitIInv
<1>2. IInv /\ [Next]_vars => [Car!Next]_(Car!vars)
  BY NextIInv
<1> QED  BY <1>1, <1>2, Invariant, PTL DEF Spec, Car!Spec

(* Hence it keeps the promises of Shaft, by the theorem about LiftCar.        *)
THEOREM SystemKeepsShaft == Spec => CarProofs!KeepsShaft
<1>1. FLOORS \in Nat /\ FLOORS >= 2
  BY FloorsAssumption
<1>2. CarProofs!FloorsAssumption
  BY <1>1 DEF CarProofs!FloorsAssumption
<1>3. CarProofs!Spec => CarProofs!KeepsShaft
  BY <1>2, CarProofs!ImplementsShaft
<1>4. Car!Init => CarProofs!Init
  BY SameCarInit
<1>5. [Car!Next]_(Car!vars) => [CarProofs!Next]_(CarProofs!vars)
  BY SameCarStep
<1> QED  BY <1>3, <1>4, <1>5, CarIsLiftCar, PTL DEF Car!Spec, CarProofs!Spec

------------------------------------------------------------------------------
(* What brings the car to a request, as long as fewer datagrams are lost than *)
(* upr() has rounds to one of lift().                                         *)

(* A command that is on its way without being one of Orders. *)
Carries(q, a) == \E n \in DOMAIN q : q[n] = Action(a)

News      == Reported(net["lift_upr"])
AnswerDue == Carries(net["upr_lift"], "A_LIFT_STATUS") \/ News # {}
StopOnWay == Carries(net["upr_lift"], A_LIFT_STANI_NA_KATU)

Shows(r) == /\ r.floor = current_floor /\ r.im_floor = current_im_floor
            /\ r.state = current_state /\ r.direction = current_direction

(* r shows the car as it was before its last round, as far as it matters.     *)
Behind(r) ==
  \/ /\ r.state = S_STOJI_ZATVOREN /\ current_im_floor = 0
     /\ current_state \in MovingStates \cup {S_OTVARA_VRATA}
  \/ /\ r.state \in DoorStates
     /\ current_state \in DoorStates \cup {S_STOJI_ZATVOREN}
  \/ /\ r.state \in MovingStates
     /\ current_state \in {r.state, S_STOJI_ZATVOREN}
     /\ current_state = S_IDE_DOLE =>
          /\ 4 * r.floor + r.im_floor = 4 * current_floor + current_im_floor + 1
          /\ r.direction = D_DOWN

(* A report in a channel is true, or was until the round of lift() that has   *)
(* just ended.                                                                *)
NewsTrue == \A r \in News : Shows(r) \/ (Behind(r) /\ ticks = 0)

(* Every round of upr() since the last one of lift() has brought upr a true   *)
(* report, unless a datagram of it was lost or is still on its way.           *)
InTime == Shows(report) \/ (AnswerDue /\ ticks <= losses + 1) \/ ticks <= losses

(* upr never knows less than what was true a round of lift() ago, but before  *)
(* its first report or while one comes that cannot be lost any more.          *)
Recent == \/ report.state = UNKNOWN
          \/ Shows(report) \/ Behind(report)
          \/ AnswerDue /\ losses >= MaxLosses

Unmoved == report.state = UNKNOWN => /\ current_state = S_STOJI_ZATVOREN
                                     /\ Pending \cap Orders = {}

IsBelow == \E r \in Elements(request_list) : r.floor < current_floor
IsHere  == \E r \in Elements(request_list) : r.floor = current_floor

Aimed   == {A_LIFT_DOLE, A_LIFT_OTVORI}
Fits(a) == (a = A_LIFT_DOLE => IsBelow) /\ (a = A_LIFT_OTVORI => IsHere)

(* A car that may leave or open its door is told to for a request that is     *)
(* there, and what comes too late for it does not wait until it stands again. *)
AimsFit ==
  /\ current_state = S_STOJI_ZATVOREN => \A a \in Pending : Fits(a)
  /\ OnTheWay \cap Aimed # {} =>
       /\ current_state # S_ZATVARA_VRATA
       /\ current_state = S_STOJI_OTVOREN \/ current_im_floor # 0 => ticks = 0

(* The car descends to the last request there is. *)
LastOne == /\ current_state = S_IDE_DOLE
           /\ \A r \in Elements(request_list) : r.floor >= current_floor

(* It is told to stop while it is half a floor above it. *)
StopsForLast ==
  LastOne =>
    /\ current_im_floor = 2 => \/ current_stop
                               \/ StopOnWay /\ ticks <= losses + 1
                               \/ ticks <= losses
    /\ current_im_floor = 1 => \/ current_stop
                               \/ StopOnWay /\ ticks = 0 /\ losses >= MaxLosses

Descends ==
  current_state = S_IDE_DOLE =>
    \E r \in Elements(request_list) :
      r.floor < current_floor \/ (r.floor = current_floor /\ current_im_floor > 0)

OnCourse == /\ NewsTrue /\ InTime /\ Recent /\ Unmoved
            /\ AimsFit /\ StopsForLast /\ Descends

Course == (RUNNING => OnCourse) /\ (~RUNNING => current_state = S_STOJI)

carView  == <<current_floor, current_im_floor, current_state, current_direction>>
carState == <<carView, current_action, current_stop, RUNNING>>

(* A command is carried until it is taken, and what is put at the end is      *)
(* carried then.                                                              *)
LEMMA CarriedInTail ==
  ASSUME NEW S, NEW q \in Seq(S), q # <<>>, NEW a, Carries(q, a), Head(q) # Action(a)
  PROVE  Carries(Tail(q), a)
<1>1. /\ Len(q) \in Nat \ {0}
      /\ Len(Tail(q)) = Len(q) - 1
      /\ \A k \in 1 .. Len(q) - 1 : Tail(q)[k] = q[k + 1]
      /\ Head(q) = q[1] /\ Tail(q) \in Seq(S)
  BY HeadTailProperties, EmptySeq
<1>2. DOMAIN q = 1 .. Len(q) /\ DOMAIN Tail(q) = 1 .. Len(q) - 1
  BY <1>1, LenProperties
<1>3. PICK n \in DOMAIN q : q[n] = Action(a)
  BY DEF Carries
<1>4. n # 1
  BY <1>1, <1>3
<1>5. n - 1 \in DOMAIN Tail(q) /\ (n - 1) + 1 = n
  BY <1>1, <1>2, <1>3, <1>4
<1>6. Tail(q)[n - 1] = Action(a)
  BY <1>1, <1>2, <1>3, <1>5
<1> QED  BY <1>5, <1>6 DEF Carries

LEMMA CarriedInLonger ==
  ASSUME NEW S, NEW q \in Seq(S), NEW s \in Seq(S), NEW a
  PROVE  Carries(q, a) \/ Carries(s, a) => Carries(q \o s, a)
<1> DEFINE t == q \o s
<1>1. /\ t \in Seq(S) /\ Len(q) \in Nat /\ Len(s) \in Nat
      /\ Len(t) = Len(q) + Len(s)
      /\ \A k \in 1 .. Len(q) + Len(s) :
           t[k] = IF k <= Len(q) THEN q[k] ELSE s[k - Len(q)]
  BY ConcatProperties, LenProperties
<1>2. /\ DOMAIN q = 1 .. Len(q) /\ DOMAIN s = 1 .. Len(s)
      /\ DOMAIN t = 1 .. Len(q) + Len(s)
  BY <1>1, LenProperties
<1> HIDE DEF t
<1>3. ASSUME NEW n \in DOMAIN q, q[n] = Action(a) PROVE Carries(t, a)
  <2>1. n \in DOMAIN t /\ n <= Len(q)
    BY <1>1, <1>2
  <2>2. t[n] = Action(a)
    BY <1>1, <1>2, <1>3, <2>1
  <2> QED  BY <2>1, <2>2 DEF Carries
<1>4. ASSUME NEW n \in DOMAIN s, s[n] = Action(a) PROVE Carries(t, a)
  <2> DEFINE k == Len(q) + n
  <2>1. k \in DOMAIN t /\ ~(k <= Len(q)) /\ k - Len(q) = n
    BY <1>1, <1>2
  <2>2. t[k] = s[k - Len(q)]
    BY <1>1, <1>2, <2>1
  <2> HIDE DEF k
  <2>3. t[k] = Action(a)
    BY <1>4, <2>1, <2>2
  <2> QED  BY <2>1, <2>3 DEF Carries
<1> QED  BY <1>3, <1>4 DEF Carries, t

(* A report in a queue is there until it is taken. *)
LEMMA ReportedInTail ==
  ASSUME NEW S, NEW q \in Seq(S), q # <<>>, ~IsReport(Head(q))
  PROVE  Reported(Tail(q)) = Reported(q)
<1>1. /\ Len(q) \in Nat \ {0}
      /\ Len(Tail(q)) = Len(q) - 1
      /\ \A k \in 1 .. Len(q) - 1 : Tail(q)[k] = q[k + 1]
      /\ Head(q) = q[1] /\ Tail(q) \in Seq(S)
  BY HeadTailProperties, EmptySeq
<1>2. DOMAIN q = 1 .. Len(q) /\ DOMAIN Tail(q) = 1 .. Len(q) - 1
  BY <1>1, LenProperties
<1>3. Reported(Tail(q)) \subseteq Reported(q)
  BY TailOfQueue
<1>4. ASSUME NEW n \in DOMAIN q, IsReport(q[n])
      PROVE  q[n].data \in Reported(Tail(q))
  <2>1. n # 1
    BY <1>1, <1>4
  <2>2. n - 1 \in DOMAIN Tail(q) /\ (n - 1) + 1 = n
    BY <1>1, <1>2, <2>1
  <2>3. Tail(q)[n - 1] = q[n]
    BY <1>1, <1>2, <2>2
  <2> QED  BY <1>4, <2>2, <2>3, Zenon DEF Reported
<1> QED  BY <1>3, <1>4 DEF Reported

(* On the way down the first request is not above the car when some request   *)
(* is not.                                                                    *)
LEMMA HeadNotAbove ==
  ASSUME NEW list \in Seq(Request), NEW f \in Floors,
         NEW r \in Elements(list), r.floor <= f
  PROVE  /\ Head(SetSort(list, f, D_DOWN)) \in Elements(list)
         /\ Head(SetSort(list, f, D_DOWN)).floor <= f
<1> DEFINE sorted == SetSort(list, f, D_DOWN)
<1>1. /\ sorted \in Seq(Request) /\ Len(sorted) = Len(list)
      /\ Elements(sorted) = Elements(list)
      /\ \A k, l \in DOMAIN list :
           k < l => Dist(sorted[k], f, D_DOWN) <= Dist(sorted[l], f, D_DOWN)
  BY SetSortResult DEF Directions, D_DOWN, D_STOJI
<1> HIDE DEF sorted
<1>2. PICK l \in DOMAIN sorted : sorted[l] = r
  BY <1>1, Zenon DEF Elements
<1>3. /\ DOMAIN sorted = 1 .. Len(list) /\ DOMAIN list = 1 .. Len(list)
      /\ Len(list) \in Nat
  BY <1>1, LenProperties
<1>4. 1 \in DOMAIN sorted /\ sorted # <<>>
  BY <1>1, <1>2, <1>3, EmptySeq
<1>5. Head(sorted) = sorted[1]
  BY <1>1, <1>4, HeadTailProperties
<1>6. sorted[1] \in Elements(list) /\ sorted[1] \in Request /\ r \in Request
  BY <1>1, <1>2, <1>4, ElementOfSeq DEF Elements
<1>7. sorted[1] = r \/ Dist(sorted[1], f, D_DOWN) <= Dist(r, f, D_DOWN)
  BY <1>1, <1>2, <1>3, <1>4
<1>8. sorted[1].floor <= f
  <2> DEFINE h == sorted[1]
  <2>1. h \in Request /\ r \in Request /\ (h = r \/ Dist(h, f, D_DOWN) <= Dist(r, f, D_DOWN))
    BY <1>6, <1>7
  <2> HIDE DEF h
  <2>2. h.floor <= f
    BY <2>1, FloorsAssumption DEF Dist, OnPath, Request, Floors, D_UP, D_DOWN
  <2> QED  BY <2>2 DEF h
<1> QED  BY <1>5, <1>6, <1>8 DEF sorted

(* The commands a step must not lose. *)
Kept == {"A_LIFT_STATUS", A_LIFT_STANI_NA_KATU}

(* What a report says of a car stays true of one that has not changed. *)
LEMMA SameView ==
  ASSUME UNCHANGED carView, NEW r
  PROVE  (Shows(r)' <=> Shows(r)) /\ (Behind(r)' <=> Behind(r))
BY Zenon DEF carView, Shows, Behind

(* More requests do no harm. *)
LEMMA MoreRequests ==
  ASSUME UNCHANGED carView, Elements(request_list) \subseteq Elements(request_list')
  PROVE  /\ \A a : Fits(a) => Fits(a)'
         /\ LastOne' => LastOne
         /\ Descends => Descends'
<1>1. UNCHANGED <<current_floor, current_im_floor, current_state>>
  BY DEF carView
<1>2. (IsBelow => IsBelow') /\ (IsHere => IsHere')
  BY <1>1, Zenon DEF IsBelow, IsHere
<1>3. \A a : Fits(a) => Fits(a)'
  BY <1>2, Zenon DEF Fits
<1>4. LastOne' => LastOne
  BY <1>1, Zenon DEF LastOne
<1>5. Descends => Descends'
  BY <1>1, Zenon DEF Descends
<1> QED  BY <1>3, <1>4, <1>5

(* A step that leaves the car and the reports alone, loses nothing and sends  *)
(* no order keeps the car on its course.                                      *)
LEMMA CourseKept ==
  ASSUME Course, UNCHANGED <<carState, report, losses, ticks>>,
         \A a \in Kept : Carries(net["upr_lift"], a) => Carries(net'["upr_lift"], a),
         OnTheWay' \subseteq OnTheWay,
         Reported(net'["lift_upr"]) = Reported(net["lift_upr"]),
         Elements(request_list) \subseteq Elements(request_list')
  PROVE  Course'
<1>1. /\ UNCHANGED <<current_floor, current_im_floor, current_state, current_action,
                     current_stop, RUNNING, report, losses, ticks>>
      /\ UNCHANGED carView
  BY DEF carState, carView
<1>2. /\ News' = News /\ (AnswerDue => AnswerDue') /\ (StopOnWay => StopOnWay')
      /\ Pending' \subseteq Pending
  BY <1>1 DEF News, AnswerDue, StopOnWay, Kept, Pending
<1>3. CASE ~RUNNING
  BY <1>1, <1>3 DEF Course
<1>4. CASE RUNNING
  <2>1. OnCourse
    BY <1>4 DEF Course
  <2>2. NewsTrue'
    BY <1>1, <1>2, <2>1, SameView, Zenon DEF OnCourse, NewsTrue
  <2>3. InTime' /\ Recent'
    <3>1. (Shows(report)' <=> Shows(report)) /\ (Behind(report)' <=> Behind(report))
      BY <1>1, SameView
    <3> QED  BY <1>1, <1>2, <2>1, <3>1, Zenon DEF OnCourse, InTime, Recent
  <2>4. Unmoved'
    BY <1>1, <1>2, <2>1, Zenon DEF OnCourse, Unmoved
  <2>5. AimsFit'
    BY <1>1, <1>2, <2>1, MoreRequests, Zenon DEF OnCourse, AimsFit
  <2>6. StopsForLast'
    BY <1>1, <1>2, <2>1, MoreRequests, Zenon DEF OnCourse, StopsForLast
  <2>7. Descends'
    BY <1>1, <2>1, MoreRequests DEF OnCourse
  <2>8. OnCourse'
    BY <2>2, <2>3, <2>4, <2>5, <2>6, <2>7 DEF OnCourse
  <2> QED  BY <1>1, <1>4, <2>8 DEF Course
<1> QED  BY <1>3, <1>4

(* A lift that has exited stays where it is. *)
LEMMA ExitedStays ==
  ASSUME Course, ~RUNNING, UNCHANGED <<current_state, RUNNING>>
  PROVE  Course'
BY DEF Course

(* What carState takes from the variables of the lift. *)
LEMMA CarStateKept ==
  /\ UNCHANGED liftVars => UNCHANGED carState
  /\ \A f, on : Car!ReceiveLamp(f, on) => UNCHANGED carState
BY Zenon DEF liftVars, carState, carView, Car!ReceiveLamp, Car!carVars

(* A datagram of no interest is taken from a channel. *)
LEMMA TakenKeeps ==
  ASSUME NetOK, NEW c \in Channels, net[c] # <<>>, ~IsReport(Head(net[c])),
         \A a \in Kept : Head(net[c]) # Action(a),
         net' = [net EXCEPT ![c] = Tail(@)]
  PROVE  /\ \A a \in Kept : Carries(net["upr_lift"], a) => Carries(net'["upr_lift"], a)
         /\ OnTheWay' \subseteq OnTheWay
         /\ Reported(net'["lift_upr"]) = Reported(net["lift_upr"])
<1>1. /\ net'[c] = Tail(net[c])
      /\ \A d \in Channels \ {c} : net'[d] = net[d]
      /\ net[c] \in Seq(Carried[c])
  BY Taken DEF NetOK
<1>2. /\ \A a \in Kept : Carries(net[c], a) => Carries(net'[c], a)
      /\ Ordered(net'[c]) \subseteq Ordered(net[c])
      /\ Reported(net'[c]) = Reported(net[c])
  BY <1>1, CarriedInTail, ReportedInTail, TailOfQueue
<1>3. "upr_lift" \in Channels /\ "lift_upr" \in Channels
  BY ChannelsAre
<1>4. \A d \in Channels : d = c \/ net'[d] = net[d]
  BY <1>1
<1>5. /\ \A a \in Kept : Carries(net["upr_lift"], a) => Carries(net'["upr_lift"], a)
      /\ Ordered(net'["upr_lift"]) \subseteq Ordered(net["upr_lift"])
  <2>1. CASE c = "upr_lift"
    BY <1>2, <2>1
  <2>2. CASE net'["upr_lift"] = net["upr_lift"]
    BY <2>2
  <2> QED  BY <1>3, <1>4, <2>1, <2>2
<1>6. Reported(net'["lift_upr"]) = Reported(net["lift_upr"])
  <2>1. CASE c = "lift_upr"
    BY <1>2, <2>1
  <2>2. CASE net'["lift_upr"] = net["lift_upr"]
    BY <2>2
  <2> QED  BY <1>3, <1>4, <2>1, <2>2
<1> QED  BY <1>5, <1>6 DEF OnTheWay

(* A datagram of no interest is sent. *)
LEMMA SentKeeps ==
  ASSUME NetOK, NEW c \in Channels, NEW m \in Carried[c], ~IsReport(m), ~IsOrder(m),
         Send(c, <<m>>)
  PROVE  /\ \A a \in Kept : Carries(net["upr_lift"], a) => Carries(net'["upr_lift"], a)
         /\ OnTheWay' \subseteq OnTheWay
         /\ Reported(net'["lift_upr"]) = Reported(net["lift_upr"])
<1>1. <<m>> \in Seq(Carried[c])
  BY OneMessage
<1>2. /\ net'[c] = net[c] \o <<m>>
      /\ \A d \in Channels \ {c} : net'[d] = net[d]
      /\ net[c] \in Seq(Carried[c])
  BY <1>1, Sent DEF NetOK
<1>3. /\ \A a \in Kept : Carries(net[c], a) => Carries(net'[c], a)
      /\ Ordered(net'[c]) \subseteq Ordered(net[c])
      /\ Reported(net'[c]) = Reported(net[c])
  BY <1>1, <1>2, CarriedInLonger, NeitherAppended
<1>4. "upr_lift" \in Channels /\ "lift_upr" \in Channels
  BY ChannelsAre
<1>5. \A d \in Channels : d = c \/ net'[d] = net[d]
  BY <1>2
<1>6. /\ \A a \in Kept : Carries(net["upr_lift"], a) => Carries(net'["upr_lift"], a)
      /\ Ordered(net'["upr_lift"]) \subseteq Ordered(net["upr_lift"])
  <2>1. CASE c = "upr_lift"
    BY <1>3, <2>1
  <2>2. CASE net'["upr_lift"] = net["upr_lift"]
    BY <2>2
  <2> QED  BY <1>4, <1>5, <2>1, <2>2
<1>7. Reported(net'["lift_upr"]) = Reported(net["lift_upr"])
  <2>1. CASE c = "lift_upr"
    BY <1>3, <2>1
  <2>2. CASE net'["lift_upr"] = net["lift_upr"]
    BY <2>2
  <2> QED  BY <1>4, <1>5, <2>1, <2>2
<1> QED  BY <1>6, <1>7 DEF OnTheWay

(* udp_listener() of upr takes keys and sends lamps. *)
LEMMA HallKeyCourse == ASSUME OthersOK, Course, UprHallKey PROVE Course'
<1> DEFINE m == Head(net["tipke_upr"])
<1>1. /\ net["tipke_upr"] # <<>> /\ m.type = "TIPKE_KEY_PRESSED"
      /\ net' = [net EXCEPT !["tipke_upr"] = Tail(@)]
      /\ request_list' = SetInsert(request_list, m.data)
      /\ UNCHANGED <<liftVars, report, losses, ticks>>
  BY Zenon DEF UprHallKey, Receive
<1>2. m \in [type : {"TIPKE_KEY_PRESSED"}, data : Request]
  BY <1>1, Taken, ChannelsAre DEF OthersOK
<1>3. ~IsReport(m) /\ \A a \in Kept : m # Action(a)
  BY <1>1 DEF IsReport, Action, Msg
<1>4. Elements(request_list) \subseteq Elements(request_list')
  BY <1>1, <1>2, SetInsertResult DEF OthersOK, ListOK
<1> HIDE DEF m
<1>5. UNCHANGED <<carState, report, losses, ticks>>
  BY <1>1, CarStateKept, Zenon
<1>6. NetOK /\ "tipke_upr" \in Channels
  BY ChannelsAre DEF OthersOK
<1> QED  BY <1>1, <1>3, <1>4, <1>5, <1>6, TakenKeeps, CourseKept DEF m

(* The request for a key of the cabin joins the list. *)
LEMMA CabinKeyCourse == ASSUME OthersOK, Course, UprCabinKey PROVE Course'
<1> DEFINE m == Head(net["lift_upr"])
           r == Req(m.data, IF report.floor < m.data THEN D_UP ELSE D_DOWN)
<1>1. /\ net["lift_upr"] # <<>> /\ m.type = "LIFT_KEY_PRESSED"
      /\ net' = [net EXCEPT !["lift_upr"] = Tail(@)]
      /\ request_list' = SetInsert(request_list, r)
      /\ UNCHANGED <<liftVars, report, losses, ticks>>
  BY Zenon DEF UprCabinKey, Receive
<1>2. m.data \in Floors
  <2>1. m \in Carried["lift_upr"]
    BY <1>1, Taken, ChannelsAre DEF OthersOK
  <2>2. m \notin [type : {"LIFT_STATUS_REPORT"}, data : Reports]
    BY <1>1
  <2> QED  BY <2>1, <2>2, ChannelsAre
<1>3. r \in Request
  BY <1>2 DEF Req, Request
<1>4. ~IsReport(m) /\ \A a \in Kept : m # Action(a)
  BY <1>1 DEF IsReport, Action, Msg
<1> HIDE DEF r
<1>5. Elements(request_list) \subseteq Elements(request_list')
  BY <1>1, <1>3, SetInsertResult DEF OthersOK, ListOK
<1> HIDE DEF m
<1>6. UNCHANGED <<carState, report, losses, ticks>>
  BY <1>1, CarStateKept, Zenon
<1>7. NetOK /\ "lift_upr" \in Channels
  BY ChannelsAre DEF OthersOK
<1> QED  BY <1>1, <1>4, <1>5, <1>6, <1>7, TakenKeeps, CourseKept DEF m

(* The lamp datagram is of no interest here. *)
LEMMA SendLampCourse == ASSUME OthersOK, Course, UprSendLamp PROVE Course'
<1>1. /\ to_send # <<>>
      /\ UNCHANGED <<liftVars, request_list, report, upr_pc, hall_status, losses, ticks>>
  BY Zenon DEF UprSendLamp, ListenerIdle
<1>2. PICK m \in LampsToLight : to_send = <<m>>
  BY <1>1 DEF OthersOK, LampsOK
<1> DEFINE c == IF m.type = "LIFT_PALI_LAMPICU" THEN "upr_lift" ELSE "upr_tipke"
<1>3. Send(c, <<m>>)
  BY <1>2 DEF UprSendLamp
<1>4. /\ c \in Channels /\ m \in Carried[c]
      /\ ~IsOrder(m) /\ ~IsReport(m)
  BY ChannelsAre DEF LampsToLight, LiftMessages, TipkeMessages, IsOrder, IsReport
<1> HIDE DEF c
<1>5. UNCHANGED <<carState, report, losses, ticks>>
  BY <1>1, CarStateKept, Zenon
<1>6. NetOK /\ Elements(request_list) \subseteq Elements(request_list')
  BY <1>1 DEF OthersOK
<1> QED  BY <1>3, <1>4, <1>5, <1>6, SentKeeps, CourseKept

(* Neither is the emergency stop, as long as it is on its way. *)
LEMMA StopKeyCourse == ASSUME OthersOK, Course, UprStopKey PROVE Course'
<1> DEFINE q == net["lift_upr"]
           s == net["upr_lift"]
           m == Action(A_LIFT_STANI)
<1>1. /\ q # <<>> /\ ~IsReport(Head(q))
      /\ Forward("lift_upr", "upr_lift", <<m>>)
      /\ UNCHANGED <<liftVars, uprVars, hall_status, losses, ticks>>
  BY Zenon DEF UprStopKey, IsReport
<1>2. /\ m \in LiftMessages /\ ~IsOrder(m) /\ ~IsReport(m)
  BY DEF Action, Msg, LiftMessages, QueuedActions, IsOrder, IsReport, Orders,
         A_LIFT_STANI, A_LIFT_GORE, A_LIFT_DOLE, A_LIFT_OTVORI, A_LIFT_ZATVORI
<1> HIDE DEF m
<1>3. <<m>> \in Seq(LiftMessages)
  BY <1>2, OneMessage
<1>4. net'["upr_lift"] = s \o <<m>> /\ net'["lift_upr"] = Tail(q)
  BY <1>1, <1>3, Forwarded, ChannelsAre DEF OthersOK
<1>5. s \in Seq(LiftMessages) /\ q \in Seq(Carried["lift_upr"])
  BY ChannelsAre DEF OthersOK, NetOK
<1> HIDE DEF q, s
<1>6. /\ Ordered(s \o <<m>>) = Ordered(s)
      /\ \A a \in Kept : Carries(s, a) => Carries(s \o <<m>>, a)
      /\ Reported(Tail(q)) = Reported(q)
  BY <1>1, <1>2, <1>3, <1>5, NeitherAppended, CarriedInLonger, ReportedInTail
<1>7. /\ \A a \in Kept : Carries(net["upr_lift"], a) => Carries(net'["upr_lift"], a)
      /\ OnTheWay' \subseteq OnTheWay
      /\ Reported(net'["lift_upr"]) = Reported(net["lift_upr"])
  BY <1>4, <1>6, Zenon DEF OnTheWay, q, s
<1>8. /\ UNCHANGED <<carState, report, losses, ticks>>
      /\ Elements(request_list) \subseteq Elements(request_list')
  BY <1>1, CarStateKept, Zenon DEF uprVars
<1> QED  BY <1>7, <1>8, CourseKept

(* The lamps of the cabin and of the hall. *)
LEMMA LampCourse == ASSUME OthersOK, Course, LiftLamp PROVE Course'
<1> DEFINE m == Head(net["upr_lift"])
<1>1. /\ net["upr_lift"] # <<>> /\ m.type \in {"LIFT_PALI_LAMPICU", "LIFT_GASI_LAMPICU"}
      /\ net' = [net EXCEPT !["upr_lift"] = Tail(@)]
      /\ UNCHANGED <<uprVars, hall_status, losses, ticks>>
      /\ \E on \in BOOLEAN : Car!ReceiveLamp(m.data, on)
  BY Zenon DEF LiftLamp, Receive
<1>2. ~IsReport(m) /\ \A a \in Kept : m # Action(a)
  BY <1>1 DEF IsReport, Action, Msg
<1> HIDE DEF m
<1>3. /\ UNCHANGED <<carState, report, losses, ticks>>
      /\ Elements(request_list) \subseteq Elements(request_list')
  BY <1>1, CarStateKept, Zenon DEF uprVars
<1>4. NetOK /\ "upr_lift" \in Channels
  BY ChannelsAre DEF OthersOK
<1> QED  BY <1>1, <1>2, <1>3, <1>4, TakenKeeps, CourseKept DEF m

(* The same for the process of the keys. *)
LEMMA TipkeLampCourse == ASSUME OthersOK, Course, TipkeLamp PROVE Course'
<1> DEFINE m == Head(net["upr_tipke"])
<1>1. /\ net["upr_tipke"] # <<>> /\ m.type \in {"TIPKE_PALI_LAMPICU", "TIPKE_GASI_LAMPICU"}
      /\ net' = [net EXCEPT !["upr_tipke"] = Tail(@)]
      /\ UNCHANGED <<liftVars, uprVars, losses, ticks>>
  BY Zenon DEF TipkeLamp, Receive
<1>2. ~IsReport(m) /\ \A a \in Kept : m # Action(a)
  BY <1>1 DEF IsReport, Action, Msg
<1> HIDE DEF m
<1>3. /\ UNCHANGED <<carState, report, losses, ticks>>
      /\ Elements(request_list) \subseteq Elements(request_list')
  BY <1>1, CarStateKept, Zenon DEF uprVars
<1>4. NetOK /\ "upr_tipke" \in Channels
  BY ChannelsAre DEF OthersOK
<1> QED  BY <1>1, <1>2, <1>3, <1>4, TakenKeeps, CourseKept DEF m

(* A key or a STOP that somebody types. *)
LEMMA TypedCourse ==
  ASSUME OthersOK, Course, NEW c \in {"tipke_upr", "lift_upr"},
         NEW m \in Carried[c], m.type # "LIFT_STATUS_REPORT", Send(c, <<m>>),
         UNCHANGED <<liftVars, uprVars, hall_status, losses, ticks>>
  PROVE  Course'
<1>1. c \in Channels /\ NetOK
  BY ChannelsAre DEF OthersOK
<1>2. ~IsReport(m) /\ ~IsOrder(m)
  <2>1. m \in Carried["tipke_upr"] \cup Carried["lift_upr"]
    OBVIOUS
  <2> QED  BY <2>1, ChannelsAre DEF IsReport, IsOrder
<1>3. /\ UNCHANGED <<carState, report, losses, ticks>>
      /\ Elements(request_list) \subseteq Elements(request_list')
  BY CarStateKept, Zenon DEF uprVars
<1> QED  BY <1>1, <1>2, <1>3, SentKeeps, CourseKept

(* It is of no interest until upr takes it. *)
LEMMA PressCourse == ASSUME OthersOK, Course, Press PROVE Course'
<1>1. ASSUME NEW r \in HallKeys, PressHallKey(r) PROVE Course'
  <2>1. /\ Msg("TIPKE_KEY_PRESSED", r) \in Carried["tipke_upr"]
        /\ Msg("TIPKE_KEY_PRESSED", r).type # "LIFT_STATUS_REPORT"
    BY ChannelsAre DEF Msg, HallKeys
  <2> QED  BY <1>1, <2>1, TypedCourse DEF PressHallKey
<1>2. ASSUME NEW f \in Floors, PressCabinKey(f) PROVE Course'
  <2>1. /\ Msg("LIFT_KEY_PRESSED", f) \in Carried["lift_upr"]
        /\ Msg("LIFT_KEY_PRESSED", f).type # "LIFT_STATUS_REPORT"
    BY ChannelsAre DEF Msg
  <2> QED  BY <1>2, <2>1, TypedCourse DEF PressCabinKey
<1>3. ASSUME TypeSTOP PROVE Course'
  <2>1. 0 \in Floors
    BY FloorsAssumption DEF Floors
  <2>2. /\ Msg("LIFT_STOP", 0) \in Carried["lift_upr"]
        /\ Msg("LIFT_STOP", 0).type # "LIFT_STATUS_REPORT"
    BY <2>1, ChannelsAre DEF Msg
  <2> QED  BY <1>3, <2>2, TypedCourse DEF TypeSTOP
<1> QED  BY <1>1, <1>2, <1>3 DEF Press

(* A lost datagram: one round of upr() less is needed to be in time. *)
LEMMA LoseCourse ==
  ASSUME OthersOK, Course, NEW c \in Channels, Lose(c) PROVE Course'
<1>1. /\ losses < MaxLosses /\ losses' = losses + 1
      /\ net[c] # <<>> /\ net' = [net EXCEPT ![c] = Tail(@)]
      /\ UNCHANGED <<liftVars, uprVars, hall_status, ticks>>
  BY Zenon DEF Lose
<1>2. /\ net'[c] = Tail(net[c])
      /\ \A d \in Channels \ {c} : net'[d] = net[d]
      /\ net[c] \in Seq(Carried[c])
  BY <1>1, Taken DEF OthersOK, NetOK
<1>3. \A d \in Channels : /\ Ordered(net'[d]) \subseteq Ordered(net[d])
                          /\ Reported(net'[d]) \subseteq Reported(net[d])
  <2> TAKE d \in Channels
  <2>1. CASE d = c
    BY <1>1, <1>2, <2>1, TailOfQueue
  <2>2. CASE d # c
    <3>1. net'[d] = net[d]
      BY <1>2, <2>2
    <3> QED  BY <3>1, Zenon
  <2> QED  BY <2>1, <2>2
<1>4. /\ UNCHANGED <<carState, report, request_list, ticks>>
      /\ UNCHANGED <<current_floor, current_im_floor, current_state, current_action,
                     current_stop, RUNNING, carView>>
  BY <1>1, CarStateKept, Zenon DEF uprVars, carState, carView
<1>5. News' \subseteq News /\ OnTheWay' \subseteq OnTheWay /\ Pending' \subseteq Pending
  BY <1>3, <1>4, ChannelsAre DEF News, OnTheWay, Pending
<1>6. /\ losses \in Nat /\ ticks \in Nat /\ MaxLosses \in Nat
      /\ ~(losses >= MaxLosses)
      /\ (ticks <= losses + 1 => ticks <= losses') /\ (ticks <= losses => ticks <= losses')
  BY <1>1, BoundsAssumption DEF OthersOK, CountersOK
<1>7. CASE ~RUNNING
  BY <1>4, <1>7, ExitedStays
<1>8. CASE RUNNING
  <2>1. OnCourse
    BY <1>8 DEF Course
  <2>2. NewsTrue'
    BY <1>4, <1>5, <2>1, SameView, Zenon DEF OnCourse, NewsTrue
  <2>3. (Shows(report)' <=> Shows(report)) /\ (Behind(report)' <=> Behind(report))
    BY <1>4, SameView
  <2>4. InTime'
    <3>1. Shows(report)' \/ ticks' <= losses'
      BY <1>4, <1>6, <2>1, <2>3, Zenon DEF OnCourse, InTime
    <3> QED  BY <3>1, Zenon DEF InTime
  <2>5. Recent'
    BY <1>4, <1>6, <2>1, <2>3, Zenon DEF OnCourse, Recent
  <2>6. Unmoved'
    BY <1>4, <1>5, <2>1, Zenon DEF OnCourse, Unmoved
  <2>7. (\A a : Fits(a) => Fits(a)') /\ (LastOne' => LastOne) /\ (Descends => Descends')
    BY <1>4, MoreRequests, Zenon
  <2>8. AimsFit'
    BY <1>4, <1>5, <2>1, <2>7, Zenon DEF OnCourse, AimsFit
  <2>9. StopsForLast'
    <3>1. LastOne' => /\ current_im_floor' = 2 => current_stop' \/ ticks' <= losses'
                      /\ current_im_floor' = 1 => current_stop'
      BY <1>4, <1>6, <2>1, <2>7, Zenon DEF OnCourse, StopsForLast
    <3> QED  BY <3>1, Zenon DEF StopsForLast
  <2>10. Descends'
    BY <2>1, <2>7 DEF OnCourse
  <2>11. OnCourse'
    BY <2>2, <2>4, <2>5, <2>6, <2>8, <2>9, <2>10, Zenon DEF OnCourse
  <2> QED  BY <1>4, <1>8, <2>11, Zenon DEF Course
<1> QED  BY <1>7, <1>8

------------------------------------------------------------------------------
(* upr takes a report. *)
LEMMA ReportCourse == ASSUME OthersOK, Course, UprReport PROVE Course'
<1> DEFINE q == net["lift_upr"]
           m == Head(q)
<1>1. /\ q # <<>> /\ m.type = "LIFT_STATUS_REPORT"
      /\ net' = [net EXCEPT !["lift_upr"] = Tail(@)]
      /\ report' = m.data
      /\ UNCHANGED <<liftVars, request_list, upr_pc, to_send, hall_status,
                     losses, ticks>>
  BY Zenon DEF UprReport, Receive
<1>2. /\ net'["lift_upr"] = Tail(q) /\ net'["upr_lift"] = net["upr_lift"]
      /\ m \in Carried["lift_upr"]
  BY <1>1, Taken, ChannelsAre DEF OthersOK
<1>3. Reported(Tail(q)) \subseteq Reported(q) /\ m.data \in Reported(q)
  BY <1>1, TailOfQueue, ChannelsAre DEF OthersOK, NetOK, IsReport
<1>4. m.data.state \in LiftStates
  <2>1. m \notin [type : {"LIFT_KEY_PRESSED", "LIFT_STOP"}, data : Floors]
    BY <1>1
  <2>2. m.data \in Reports
    BY <1>2, <2>1, ChannelsAre
  <2> QED  BY <2>2 DEF Reports
<1>5. report'.state # UNKNOWN
  BY <1>1, <1>4 DEF UNKNOWN, LiftStates, DoorStates, MovingStates, S_STOJI_OTVOREN,
     S_STOJI_ZATVOREN, S_OTVARA_VRATA, S_ZATVARA_VRATA, S_IDE_DOLE, S_IDE_GORE, S_STOJI
<1> HIDE DEF m, q
<1>6. /\ UNCHANGED <<carState, request_list, losses, ticks>>
      /\ UNCHANGED <<current_floor, current_im_floor, current_state, current_action,
                     current_stop, RUNNING, carView>>
  BY <1>1, CarStateKept, Zenon DEF carState, carView
<1>7. /\ News' \subseteq News /\ report' \in News
      /\ OnTheWay' = OnTheWay /\ Pending' = Pending /\ StopOnWay' = StopOnWay
  BY <1>1, <1>2, <1>3, <1>6 DEF News, OnTheWay, Pending, StopOnWay, q
<1>8. CASE ~RUNNING
  BY <1>6, <1>8, ExitedStays
<1>9. CASE RUNNING
  <2>1. OnCourse
    BY <1>9 DEF Course
  <2>2. NewsTrue'
    BY <1>6, <1>7, <2>1, SameView, Zenon DEF OnCourse, NewsTrue
  <2>3. Shows(report') \/ (Behind(report') /\ ticks = 0)
    BY <1>7, <2>1, Zenon DEF OnCourse, NewsTrue
  <2>4. (Shows(report') => Shows(report)') /\ (Behind(report') => Behind(report)')
    BY <1>6, Zenon DEF Shows, Behind, carState, carView
  <2>5. losses \in Nat
    BY DEF OthersOK, CountersOK
  <2>6. InTime'
    <3>1. ticks = 0 => ticks' <= losses'
      BY <1>6, <2>5
    <3> QED  BY <2>3, <2>4, <3>1, Zenon DEF InTime
  <2>7. Recent'
    BY <2>3, <2>4, Zenon DEF Recent
  <2>8. Unmoved'
    BY <1>5, Zenon DEF Unmoved
  <2>9. (\A a : Fits(a) => Fits(a)') /\ (LastOne' => LastOne) /\ (Descends => Descends')
    BY <1>6, MoreRequests, Zenon
  <2>10. AimsFit'
    BY <1>6, <1>7, <2>1, <2>9, Zenon DEF OnCourse, AimsFit
  <2>11. StopsForLast'
    BY <1>6, <1>7, <2>1, <2>9, Zenon DEF OnCourse, StopsForLast
  <2>12. OnCourse'
    BY <2>1, <2>2, <2>6, <2>7, <2>8, <2>9, <2>10, <2>11, Zenon DEF OnCourse
  <2> QED  BY <1>6, <1>9, <2>12, Zenon DEF Course
<1> QED  BY <1>8, <1>9

(* The lift answers: what it reports is true. *)
LEMMA AnswerCourse == ASSUME OthersOK, Course, LiftReport PROVE Course'
<1> DEFINE q == net["upr_lift"]
           p == net["lift_upr"]
           new == [floor |-> current_floor, im_floor |-> current_im_floor,
                   state |-> current_state, direction |-> current_direction]
           m == Msg("LIFT_STATUS_REPORT", new)
<1>1. /\ q # <<>> /\ Head(q) = Action("A_LIFT_STATUS") /\ RUNNING
      /\ Forward("upr_lift", "lift_upr", <<m>>)
      /\ UNCHANGED <<liftVars, uprVars, hall_status, losses, ticks>>
  BY Zenon DEF LiftReport
<1>2. new.floor = current_floor /\ new.im_floor = current_im_floor
      /\ new.state = current_state /\ new.direction = current_direction
  OBVIOUS
<1>3. IsReport(m) /\ m.data = new
  BY DEF Msg, IsReport
<1> HIDE DEF new
<1>4. PICK s : /\ net'["upr_lift"] = Tail(q) /\ net'["lift_upr"] = s
               /\ Reported(s) = Reported(p) \cup {new}
  <2>1. p \in Seq(Carried["lift_upr"]) /\ q \in Seq(Carried["upr_lift"])
    BY ChannelsAre DEF OthersOK, NetOK
  <2>2. net'["upr_lift"] = Tail(q) /\ net'["lift_upr"] = p \o <<m>>
    BY <1>1, ChannelsAre DEF OthersOK, NetOK, Forward
  <2>3. p \in Seq(Carried["lift_upr"] \cup {m}) /\ m \in Carried["lift_upr"] \cup {m}
    BY <2>1
  <2> HIDE DEF m
  <2>4. Reported(p \o <<m>>) = Reported(p) \cup {new}
    BY <1>3, <2>3, AppendedToQueue
  <2> QED  BY <2>2, <2>4
<1> HIDE DEF m
<1>5. /\ Ordered(Tail(q)) \subseteq Ordered(q)
      /\ Carries(q, A_LIFT_STANI_NA_KATU) => Carries(Tail(q), A_LIFT_STANI_NA_KATU)
  <2>1. q \in Seq(Carried["upr_lift"])
    BY ChannelsAre DEF OthersOK, NetOK
  <2>2. Head(q) # Action(A_LIFT_STANI_NA_KATU)
    BY <1>1 DEF Action, Msg, A_LIFT_STANI_NA_KATU
  <2> QED  BY <1>1, <2>1, <2>2, TailOfQueue, CarriedInTail
<1> HIDE DEF q, p
<1>6. /\ UNCHANGED <<carState, request_list, report, losses, ticks>>
      /\ UNCHANGED <<current_floor, current_im_floor, current_state, current_action,
                     current_stop, RUNNING, carView>>
  BY <1>1, CarStateKept, Zenon DEF carState, carView, uprVars
<1>7. /\ News' = News \cup {new} /\ AnswerDue'
      /\ OnTheWay' \subseteq OnTheWay /\ Pending' \subseteq Pending
      /\ StopOnWay => StopOnWay'
  BY <1>4, <1>5, <1>6 DEF News, AnswerDue, OnTheWay, Pending, StopOnWay, p, q
<1>8. OnCourse /\ Shows(new)
  BY <1>1, <1>2 DEF Course, Shows
<1>9. NewsTrue'
  BY <1>6, <1>7, <1>8, SameView, Zenon DEF OnCourse, NewsTrue
<1>10. (Shows(report)' <=> Shows(report)) /\ (Behind(report)' <=> Behind(report))
  BY <1>6, SameView
<1>11. InTime' /\ Recent'
  BY <1>6, <1>7, <1>8, <1>10, Zenon DEF OnCourse, InTime, Recent
<1>12. Unmoved'
  BY <1>6, <1>7, <1>8, Zenon DEF OnCourse, Unmoved
<1>13. (\A a : Fits(a) => Fits(a)') /\ (LastOne' => LastOne) /\ (Descends => Descends')
  BY <1>6, MoreRequests, Zenon
<1>14. AimsFit'
  BY <1>6, <1>7, <1>8, <1>13, Zenon DEF OnCourse, AimsFit
<1>15. StopsForLast'
  BY <1>6, <1>7, <1>8, <1>13, Zenon DEF OnCourse, StopsForLast
<1>16. OnCourse'
  BY <1>8, <1>9, <1>11, <1>12, <1>13, <1>14, <1>15, Zenon DEF OnCourse
<1> QED  BY <1>1, <1>6, <1>16, Zenon DEF Course

(* The lift takes a command. *)
LEMMA ActionCourse ==
  ASSUME OthersOK, ControlOK, Course, LiftAction PROVE Course'
<1> DEFINE q == net["upr_lift"]
           m == Head(q)
           a == m.data
<1>1. /\ q # <<>> /\ m.type = "LIFT_ACTION_START"
      /\ net' = [net EXCEPT !["upr_lift"] = Tail(@)]
      /\ UNCHANGED <<uprVars, hall_status, losses, ticks>>
      /\ \/ a \in QueuedActions /\ Car!ReceiveAction(a)
         \/ a = A_LIFT_STANI_NA_KATU /\ Car!ReceiveStopAtFloor
  BY Zenon DEF LiftAction, Receive
<1>2. /\ net'["upr_lift"] = Tail(q) /\ net'["lift_upr"] = net["lift_upr"]
      /\ q \in Seq(Carried["upr_lift"])
  BY <1>1, Taken, ChannelsAre DEF OthersOK, NetOK
<1>3. /\ Ordered(Tail(q)) \subseteq Ordered(q)
      /\ IsOrder(m) => a \in Ordered(q)
      /\ \A k \in Kept : Carries(q, k) /\ a # k => Carries(Tail(q), k)
  <2>1. \A k : a # k => m # Action(k)
    BY DEF Action, Msg
  <2> QED  BY <1>1, <1>2, <2>1, TailOfQueue, CarriedInTail
<1>4. /\ UNCHANGED <<report, request_list, losses, ticks>>
      /\ UNCHANGED <<current_floor, current_im_floor, current_state, RUNNING, carView>>
      /\ RUNNING
  BY <1>1, Zenon
     DEF uprVars, carView, Car!ReceiveAction, Car!ReceiveStopAtFloor, Car!position
<1>5. News' = News /\ OnTheWay' \subseteq OnTheWay
  BY <1>2, <1>3 DEF News, OnTheWay
<1>6. Pending' \subseteq Pending \cup {A_LIFT_STANI}
  <2>1. \/ current_action' = current_action
        \/ a \in QueuedActions /\ current_action' = a
    BY <1>1 DEF Car!ReceiveAction, Car!ReceiveStopAtFloor
  <2>2. a \in QueuedActions => a = A_LIFT_STANI \/ a \in OnTheWay
    BY <1>1, <1>3 DEF QueuedActions, Orders, IsOrder, OnTheWay
  <2> HIDE DEF a
  <2> QED  BY <1>5, <2>1, <2>2 DEF Pending
<1>7. a # "A_LIFT_STATUS"
  BY <1>1 DEF QueuedActions, A_LIFT_STANI_NA_KATU, A_LIFT_GORE, A_LIFT_DOLE,
     A_LIFT_STANI, A_LIFT_OTVORI, A_LIFT_ZATVORI
<1>8. AnswerDue => AnswerDue'
  BY <1>2, <1>3, <1>5, <1>7 DEF AnswerDue, Kept
<1>9. /\ current_stop => current_stop'
      /\ StopOnWay => StopOnWay' \/ current_stop'
  <2>1. CASE a = A_LIFT_STANI_NA_KATU
    <3>1. Car!ReceiveStopAtFloor
      BY <1>1, <2>1 DEF QueuedActions, A_LIFT_STANI_NA_KATU, A_LIFT_GORE, A_LIFT_DOLE,
         A_LIFT_STANI, A_LIFT_OTVORI, A_LIFT_ZATVORI
    <3> QED  BY <3>1 DEF Car!ReceiveStopAtFloor
  <2>2. CASE a # A_LIFT_STANI_NA_KATU
    <3>1. current_stop' = current_stop
      BY <1>1, <2>2 DEF Car!ReceiveAction
    <3> QED  BY <1>2, <1>3, <2>2, <3>1 DEF StopOnWay, Kept
  <2> QED  BY <2>1, <2>2
<1> HIDE DEF q, m, a
<1>10. OnCourse
  BY <1>4 DEF Course
<1>11. NewsTrue'
  BY <1>4, <1>5, <1>10, SameView, Zenon DEF OnCourse, NewsTrue
<1>12. (Shows(report)' <=> Shows(report)) /\ (Behind(report)' <=> Behind(report))
  BY <1>4, SameView
<1>13. InTime' /\ Recent'
  BY <1>4, <1>8, <1>10, <1>12, Zenon DEF OnCourse, InTime, Recent
<1>14. Unmoved'
  <2>1. A_LIFT_STANI \notin Orders
    BY DEF Orders, A_LIFT_STANI, A_LIFT_GORE, A_LIFT_DOLE, A_LIFT_OTVORI, A_LIFT_ZATVORI
  <2>2. Pending \cap Orders = {} => Pending' \cap Orders = {}
    BY <1>6, <2>1
  <2> QED  BY <1>4, <1>10, <2>2, Zenon DEF OnCourse, Unmoved
<1>15. (\A k : Fits(k) => Fits(k)') /\ (LastOne' => LastOne) /\ (Descends => Descends')
  BY <1>4, MoreRequests, Zenon
<1>16. AimsFit'
  <2>1. Fits(A_LIFT_STANI)
    BY DEF Fits, A_LIFT_STANI, A_LIFT_DOLE, A_LIFT_OTVORI
  <2>2. (\A k \in Pending : Fits(k)) => \A k \in Pending' : Fits(k)'
    BY <1>6, <1>15, <2>1, Zenon
  <2> QED  BY <1>4, <1>5, <1>10, <2>2, Zenon DEF OnCourse, AimsFit
<1>17. StopsForLast'
  BY <1>4, <1>9, <1>10, <1>15, Zenon DEF OnCourse, StopsForLast
<1>18. OnCourse'
  BY <1>10, <1>11, <1>13, <1>14, <1>15, <1>16, <1>17, Zenon DEF OnCourse
<1> QED  BY <1>4, <1>18, Zenon DEF Course

(* The request that leaves the list is not one the car is after. *)
LEMMA ServedCourse == ASSUME OthersOK, ControlOK, Course, Served PROVE Course'
<1>1. /\ upr_pc = "served"
      /\ UNCHANGED <<liftVars, report, net, losses, ticks>>
  BY Zenon DEF Served
<1>2. /\ UNCHANGED <<current_floor, current_im_floor, current_state, current_action,
                     current_stop, RUNNING, carView>>
      /\ News' = News /\ AnswerDue' = AnswerDue
      /\ OnTheWay' = OnTheWay /\ Pending' = Pending
  BY <1>1 DEF liftVars, carView, News, AnswerDue, OnTheWay, Pending
<1>3. OpenStaysTrue(report) /\ report.state = S_STOJI_OTVOREN
  BY <1>1 DEF ControlOK, ReportsStayTrue, Serving, Told
<1>4. /\ current_state # S_IDE_DOLE
      /\ current_state = S_STOJI_ZATVOREN => Pending \cap Aimed = {}
  BY <1>3 DEF OpenStaysTrue, MovingStates, Aimed, Leave
<1>5. CASE ~RUNNING
  BY <1>2, <1>5, ExitedStays
<1>6. CASE RUNNING
  <2>1. OnCourse
    BY <1>6 DEF Course
  <2>2. NewsTrue'
    BY <1>1, <1>2, <2>1, SameView, Zenon DEF OnCourse, NewsTrue
  <2>3. (Shows(report)' <=> Shows(report)) /\ (Behind(report)' <=> Behind(report))
    BY <1>1, <1>2, SameView
  <2>4. InTime' /\ Recent' /\ Unmoved'
    BY <1>1, <1>2, <2>1, <2>3, Zenon DEF OnCourse, InTime, Recent, Unmoved
  <2>5. AimsFit'
    <3>1. current_state = S_STOJI_ZATVOREN => \A a \in Pending' : Fits(a)'
      BY <1>2, <1>4 DEF Fits, Aimed
    <3> QED  BY <1>1, <1>2, <2>1, <3>1, Zenon DEF OnCourse, AimsFit
  <2>6. StopsForLast' /\ Descends'
    BY <1>2, <1>4, Zenon DEF StopsForLast, LastOne, Descends
  <2>7. OnCourse'
    BY <2>2, <2>4, <2>5, <2>6, Zenon DEF OnCourse
  <2> QED  BY <1>2, <1>6, <2>7, Zenon DEF Course
<1> QED  BY <1>5, <1>6

------------------------------------------------------------------------------
(* What the proofs take from the invariant of the car. *)
LEMMA CarFacts ==
  ASSUME CarOK
  PROVE  /\ current_floor \in Floors /\ current_im_floor \in Quarters
         /\ current_stop \in BOOLEAN
         /\ current_state = S_STOJI_ZATVOREN => current_im_floor = 0
         /\ current_state = S_IDE_DOLE => current_direction = D_DOWN
BY DEF CarOK, CarProofs!IInv, CarProofs!TypeOK, CarProofs!RestsLevel,
       CarProofs!ReportsTravel, CarProofs!MovingStates, CarProofs!S_IDE_GORE,
       CarProofs!S_IDE_DOLE, CarProofs!S_STOJI, CarProofs!Floors, CarProofs!Quarters,
       CarProofs!D_DOWN, D_DOWN, S_STOJI_ZATVOREN, S_IDE_DOLE, Floors, Quarters

(* A round of upr(): it decides on a true report, or on one that is a round   *)
(* of lift() old, and sends an order only for a request that is there.        *)
LEMMA TickCourse ==
  ASSUME OthersOK, CarOK, Course, Tick PROVE Course'
<1> DEFINE ask == Action("A_LIFT_STATUS")
<1>1. /\ Quiet /\ ticks' = (IF RUNNING THEN ticks + 1 ELSE 0)
      /\ UNCHANGED <<liftVars, report, losses>>
  BY DEF Tick
<1>2. /\ UNCHANGED <<report, losses>>
      /\ UNCHANGED <<current_floor, current_im_floor, current_state, current_action,
                     current_stop, RUNNING, carView>>
  BY <1>1 DEF liftVars, carView
<1>3. /\ \A c \in Channels : net[c] = <<>>
      /\ OnTheWay = {} /\ Told = {report}
  BY <1>1, QuietChannels, Zenon
<1>4. ~AnswerDue /\ ~StopOnWay /\ Pending = {current_action}
  BY <1>3, ChannelsAre DEF AnswerDue, StopOnWay, News, Carries, Reported, Pending
<1>5. CASE ~RUNNING
  BY <1>2, <1>5, ExitedStays
<1>6. ASSUME RUNNING
      PROVE  /\ OnCourse /\ ticks' = ticks + 1
             /\ ticks \in Nat /\ losses \in Nat
             /\ report.state = UNKNOWN \/ Shows(report) \/ Behind(report)
             /\ Shows(report) \/ ticks <= losses
             /\ (Shows(report)' <=> Shows(report)) /\ (Behind(report)' <=> Behind(report))
  <2>1. OnCourse
    BY <1>6 DEF Course
  <2>2. /\ report.state = UNKNOWN \/ Shows(report) \/ Behind(report)
        /\ Shows(report) \/ ticks <= losses
    BY <1>4, <2>1, Zenon DEF OnCourse, Recent, InTime
  <2>3. (Shows(report)' <=> Shows(report)) /\ (Behind(report)' <=> Behind(report))
    BY <1>2, SameView
  <2> QED  BY <1>1, <1>6, <2>1, <2>2, <2>3 DEF OthersOK, CountersOK
<1>7. ASSUME RUNNING, net'["lift_upr"] = <<>>,
             Carries(net'["upr_lift"], "A_LIFT_STATUS")
      PROVE  NewsTrue' /\ InTime' /\ Recent'
  <2>1. News' = {} /\ AnswerDue'
    BY <1>7 DEF News, Reported, AnswerDue
  <2>2. NewsTrue'
    BY <2>1 DEF NewsTrue
  <2>3. InTime'
    <3>1. ticks <= losses => ticks' <= losses' + 1
      BY <1>2, <1>6, <1>7
    <3> QED  BY <1>6, <1>7, <2>1, <3>1, Zenon DEF InTime
  <2>4. Recent'
    BY <1>2, <1>6, <1>7, Zenon DEF Recent
  <2> QED  BY <2>2, <2>3, <2>4
<1>8. CASE /\ RUNNING
           /\ request_list = <<>> \/ report.state = UNKNOWN
           /\ Send("upr_lift", <<ask>>)
           /\ UNCHANGED <<request_list, upr_pc>>
  <2>1. ask \in LiftMessages /\ ~IsOrder(ask) /\ ~IsReport(ask)
    BY DEF Action, Msg, LiftMessages, IsOrder, IsReport, Orders,
           A_LIFT_GORE, A_LIFT_DOLE, A_LIFT_OTVORI, A_LIFT_ZATVORI
  <2>2. NetOK /\ "upr_lift" \in Channels /\ ask \in Carried["upr_lift"]
    BY <2>1, ChannelsAre DEF OthersOK
  <2>3. /\ OnTheWay' \subseteq OnTheWay
        /\ net'["upr_lift"] = net["upr_lift"] \o <<ask>>
        /\ net'["lift_upr"] = net["lift_upr"]
        /\ <<ask>> \in Seq(LiftMessages) /\ net["upr_lift"] \in Seq(LiftMessages)
    BY <1>8, <2>1, <2>2, SentKeeps, Sent, OneMessage, ChannelsAre DEF NetOK
  <2>4. Carries(<<ask>>, "A_LIFT_STATUS")
    BY DEF Carries
  <2> HIDE DEF ask
  <2>5. Carries(net'["upr_lift"], "A_LIFT_STATUS")
    <3>1. Carries(net["upr_lift"] \o <<ask>>, "A_LIFT_STATUS")
      BY <2>3, <2>4, CarriedInLonger
    <3> QED  BY <2>3, <3>1, Zenon
  <2>6. NewsTrue' /\ InTime' /\ Recent'
    BY <1>3, <1>7, <1>8, <2>3, <2>5, ChannelsAre
  <2>7. OnCourse
    BY <1>6, <1>8
  <2>8. current_state # S_IDE_DOLE
    <3>1. CASE report.state = UNKNOWN
      BY <2>7, <3>1 DEF OnCourse, Unmoved, S_STOJI_ZATVOREN, S_IDE_DOLE
    <3>2. CASE request_list = <<>>
      BY <2>7, <3>2 DEF OnCourse, Descends, Elements
    <3> QED  BY <1>8, <3>1, <3>2
  <2>9. StopsForLast' /\ Descends'
    BY <1>2, <2>8, Zenon DEF StopsForLast, LastOne, Descends
  <2>10. OnTheWay' = {} /\ Pending' = Pending
    BY <1>2, <1>3, <2>3 DEF Pending
  <2>11. Unmoved'
    BY <1>2, <2>7, <2>10, Zenon DEF OnCourse, Unmoved
  <2>12. \A a : Fits(a) => Fits(a)'
    BY <1>2, <1>8, MoreRequests, Zenon
  <2>13. AimsFit'
    BY <1>2, <2>7, <2>10, <2>12, Zenon DEF OnCourse, AimsFit
  <2>14. OnCourse'
    BY <2>6, <2>9, <2>11, <2>13, Zenon DEF OnCourse
  <2> QED  BY <1>2, <1>8, <2>14, Zenon DEF Course
<1>9. CASE RUNNING /\ request_list # <<>> /\ report.state # UNKNOWN /\ Decide
  <2> DEFINE sorted == SetSort(request_list, report.floor, report.direction)
             next   == Head(sorted)
             toLift == <<ask>> \o ToLift(next)
  <2>1. /\ request_list' = sorted
        /\ net' = [net EXCEPT !["upr_lift"]  = @ \o <<ask>> \o ToLift(next),
                              !["upr_tipke"] = @ \o ToTipke(next)]
    BY <1>9, Zenon DEF Decide, ask
  <2>2. /\ report.floor \in Floors /\ report.direction \in Directions
        /\ report.im_floor \in Quarters
        /\ request_list \in Seq(Request)
    BY DEF OthersOK, ReportOK, ListOK
  <2>3. /\ sorted \in Seq(Request) /\ Len(sorted) = Len(request_list)
        /\ Elements(sorted) = Elements(request_list)
    BY <2>2, SetSortResult
  <2> HIDE DEF sorted
  <2>4. sorted # <<>>
    BY <1>9, <2>2, <2>3, EmptySeq
  <2>5. next \in Request /\ next \in Elements(request_list)
    <3>1. next = sorted[1] /\ 1 \in DOMAIN sorted
      BY <2>3, <2>4, HeadTailProperties, LenProperties, EmptySeq
    <3> QED  BY <2>3, <2>4, <3>1, HeadTailProperties DEF Elements
  <2> HIDE DEF next
  <2>6. /\ toLift \in Seq(LiftMessages) /\ ToLift(next) \in Seq(LiftMessages)
        /\ report.state = S_STOJI_OTVOREN => Ordered(toLift) = {A_LIFT_ZATVORI}
        /\ report.state = S_STOJI_ZATVOREN => Ordered(toLift) = {Trip(next)}
        /\ report.state \notin {S_STOJI_OTVOREN, S_STOJI_ZATVOREN} => Ordered(toLift) = {}
    BY <2>5, RoundOrders DEF ask
  <2>7. /\ <<ask>> \in Seq(LiftMessages) /\ <<>> \o <<ask>> = <<ask>>
        /\ Carries(<<ask>>, "A_LIFT_STATUS")
    <3>1. ask \in LiftMessages
      BY DEF Action, Msg, LiftMessages
    <3> HIDE DEF ask
    <3>2. <<ask>> \in Seq(LiftMessages) /\ <<>> \o <<ask>> = <<ask>>
      BY <3>1, OneMessage, ConcatEmptySeq
    <3> QED  BY <3>2 DEF Carries, ask
  <2>8. /\ \A a : Carries(<<ask>>, a) \/ Carries(ToLift(next), a) => Carries(toLift, a)
    BY <2>6, <2>7, CarriedInLonger
  <2>9. net'["upr_lift"] = toLift /\ net'["lift_upr"] = <<>>
    <3> HIDE DEF ask
    <3>1. (<<>> \o <<ask>>) \o ToLift(next) = toLift
      BY <2>7
    <3> HIDE DEF toLift
    <3> QED  BY <1>3, <2>1, <3>1, ChannelsAre DEF OthersOK, NetOK
  <2> HIDE DEF toLift, ask
  <2>10. NewsTrue' /\ InTime' /\ Recent'
    BY <1>7, <1>9, <2>7, <2>8, <2>9
  <2>11. /\ OnCourse /\ ticks' = ticks + 1
         /\ OnTheWay' = Ordered(toLift) /\ Pending' = Pending \cup Ordered(toLift)
         /\ Elements(request_list') = Elements(request_list)
    BY <1>2, <1>4, <1>6, <1>9, <2>1, <2>3, <2>9 DEF OnTheWay, Pending
  <2>12. (\A a : Fits(a) => Fits(a)') /\ (LastOne' => LastOne) /\ (Descends => Descends')
    BY <1>2, <2>11, MoreRequests, Zenon
  <2>13. Unmoved' /\ Descends'
    BY <1>2, <1>9, <2>11, <2>12, Zenon DEF Unmoved, OnCourse
  <2>14. ASSUME NEW a \in Ordered(toLift) \cap Aimed
         PROVE  /\ report.state = S_STOJI_ZATVOREN /\ a = Trip(next)
                /\ current_im_floor = 0
                /\ current_state \notin {S_ZATVARA_VRATA, S_STOJI_OTVOREN}
                /\ current_state = S_STOJI_ZATVOREN => Fits(a)
    <3>1. report.state = S_STOJI_ZATVOREN /\ a = Trip(next)
      BY <2>6 DEF Aimed, A_LIFT_ZATVORI, A_LIFT_DOLE, A_LIFT_OTVORI
    <3>2. Shows(report) \/ Behind(report)
      BY <1>6, <1>9
    <3> USE DEF S_STOJI_ZATVOREN, S_STOJI_OTVOREN, S_ZATVARA_VRATA, S_OTVARA_VRATA,
                S_IDE_DOLE, S_IDE_GORE, MovingStates, DoorStates
    <3>3. CASE Behind(report)
      BY <3>1, <3>3 DEF Behind
    <3>4. CASE Shows(report)
      <4>1. current_state = S_STOJI_ZATVOREN /\ current_floor = report.floor
        BY <3>1, <3>4 DEF Shows
      <4>2. current_im_floor = 0
        BY <4>1, CarFacts
      <4>3. Fits(a)
        <5>1. next.floor \in Int /\ report.floor \in Int
          BY <2>2, <2>5, FloorsAssumption DEF Floors, Request
        <5>2. /\ Trip(next) = A_LIFT_DOLE => next.floor < report.floor
              /\ Trip(next) = A_LIFT_OTVORI => next.floor = report.floor
          BY <5>1 DEF Trip, A_LIFT_DOLE, A_LIFT_OTVORI, A_LIFT_GORE
        <5> QED  BY <2>5, <3>1, <4>1, <5>2 DEF Fits, IsBelow, IsHere
      <4> QED  BY <3>1, <4>1, <4>2, <4>3
    <3> QED  BY <3>2, <3>3, <3>4
  <2>15. AimsFit'
    <3>1. ASSUME current_state = S_STOJI_ZATVOREN, NEW a \in Pending' PROVE Fits(a)'
      <4>1. CASE a \in Pending
        BY <2>11, <2>12, <3>1, <4>1, Zenon DEF OnCourse, AimsFit
      <4>2. CASE a \in Ordered(toLift)
        <5>1. CASE a \in Aimed
          BY <2>12, <2>14, <3>1, <4>2, <5>1
        <5>2. CASE a \notin Aimed
          BY <5>2 DEF Fits, Aimed
        <5> QED  BY <5>1, <5>2
      <4> QED  BY <2>11, <3>1, <4>1, <4>2
    <3>2. OnTheWay' \cap Aimed # {} =>
            /\ current_state # S_ZATVARA_VRATA
            /\ ~(current_state = S_STOJI_OTVOREN \/ current_im_floor # 0)
      <4>1. ASSUME NEW a \in OnTheWay' \cap Aimed
            PROVE  /\ current_state # S_ZATVARA_VRATA
                   /\ ~(current_state = S_STOJI_OTVOREN \/ current_im_floor # 0)
        BY <2>11, <2>14, <4>1
      <4> QED  BY <4>1
    <3> QED  BY <1>2, <3>1, <3>2, Zenon DEF AimsFit
  <2>16. ASSUME LastOne, current_im_floor = 2 PROVE StopOnWay'
    <3>1. /\ current_state = S_IDE_DOLE
          /\ current_floor \in Floors /\ current_direction = D_DOWN
      BY <2>16, CarFacts DEF LastOne
    <3>2. /\ report.state = S_IDE_DOLE /\ report.direction = D_DOWN
          /\ report.floor = current_floor /\ report.im_floor > 0
      <4>1. CASE Shows(report)
        BY <2>16, <3>1, <4>1 DEF Shows
      <4>2. CASE Behind(report)
        <5> USE DEF S_STOJI_ZATVOREN, S_STOJI_OTVOREN, S_ZATVARA_VRATA, S_OTVARA_VRATA,
                    S_IDE_DOLE, S_IDE_GORE, MovingStates, DoorStates
        <5>1. /\ report.state = S_IDE_DOLE /\ report.direction = D_DOWN
              /\ 4 * report.floor + report.im_floor
                   = 4 * current_floor + current_im_floor + 1
          <6>1. /\ current_im_floor # 0
                /\ current_state \notin DoorStates \cup {S_STOJI_ZATVOREN}
            BY <2>16, <3>1
          <6> QED  BY <3>1, <4>2, <6>1 DEF Behind
        <5>2. report.floor = current_floor /\ report.im_floor = 3
          BY <2>2, <2>16, <3>1, <5>1, FloorsAssumption DEF Floors, Quarters
        <5> QED  BY <5>1, <5>2
      <4> QED  BY <1>6, <1>9, <4>1, <4>2
    <3>3. PICK r \in Elements(request_list) : r.floor <= current_floor
      <4>1. PICK r \in Elements(request_list) :
              r.floor < current_floor \/ (r.floor = current_floor /\ current_im_floor > 0)
        BY <2>11, <3>1, Zenon DEF OnCourse, Descends
      <4>2. r \in Request
        BY <2>2, ElementOfSeq DEF Elements
      <4> QED  BY <3>1, <4>1, <4>2, FloorsAssumption DEF Floors, Request
    <3>4. next.floor <= current_floor
      BY <2>2, <3>2, <3>3, HeadNotAbove DEF next, sorted
    <3>5. next.floor = report.floor
      <4>1. next.floor >= current_floor
        BY <2>5, <2>16 DEF LastOne
      <4> QED  BY <2>2, <2>5, <3>2, <3>4, <4>1, FloorsAssumption DEF Floors, Request
    <3>6. ToLift(next) = <<Action(A_LIFT_STANI_NA_KATU)>>
      BY <3>2, <3>5 DEF ToLift, StopDue, S_STOJI_OTVOREN, S_STOJI_ZATVOREN, S_IDE_DOLE
    <3>7. Carries(ToLift(next), A_LIFT_STANI_NA_KATU)
      BY <3>6 DEF Carries
    <3> QED  BY <2>8, <2>9, <3>7 DEF StopOnWay
  <2>17. StopsForLast'
    <3>1. ticks <= losses => ticks' <= losses' + 1
      BY <1>2, <1>6, <1>9, <2>11
    <3> QED  BY <1>2, <1>4, <2>11, <2>12, <2>16, <3>1, Zenon DEF OnCourse, StopsForLast
  <2>18. OnCourse'
    BY <2>10, <2>13, <2>15, <2>17, Zenon DEF OnCourse
  <2> QED  BY <1>2, <1>9, <2>18, Zenon DEF Course
<1> QED  BY <1>5, <1>8, <1>9 DEF Tick, ask

------------------------------------------------------------------------------
(* What a round of lift() does, in full. *)
NoChange == UNCHANGED <<carView, current_stop, RUNNING>>

DoorRound == /\ \/ current_state = S_OTVARA_VRATA /\ current_state' = S_STOJI_OTVOREN
                \/ current_state = S_ZATVARA_VRATA /\ current_state' = S_STOJI_ZATVOREN
                \/ current_state = S_STOJI_OTVOREN /\ current_state' = S_ZATVARA_VRATA
             /\ UNCHANGED <<current_floor, current_im_floor, current_direction, current_stop>>

OrderRound == /\ current_state = S_STOJI_ZATVOREN
              /\ \/ current_action = A_LIFT_GORE /\ current_state' = S_IDE_GORE
                 \/ /\ current_action = A_LIFT_DOLE /\ current_state' = S_IDE_DOLE
                    /\ current_direction' = D_DOWN
                 \/ current_action = A_LIFT_OTVORI /\ current_state' = S_OTVARA_VRATA
              /\ UNCHANGED <<current_floor, current_im_floor, current_stop>>

UpRound == /\ current_state = S_IDE_GORE
           /\ current_state' \in {S_IDE_GORE, S_STOJI_ZATVOREN}
           /\ current_state' = S_STOJI_ZATVOREN => current_im_floor # 0

DownRound ==
  /\ current_state = S_IDE_DOLE
  /\ \/ /\ current_im_floor = 0 /\ current_im_floor' = 3
        /\ current_floor' = current_floor - 1
        /\ UNCHANGED <<current_state, current_stop>>
     \/ /\ current_im_floor > 0 /\ current_im_floor' = current_im_floor - 1
        /\ UNCHANGED current_floor
        /\ \/ current_im_floor' = 0 /\ current_stop /\ current_state' = S_STOJI_ZATVOREN
           \/ current_im_floor' = 0 /\ ~current_stop /\ UNCHANGED current_state
           \/ current_im_floor' > 0 /\ UNCHANGED <<current_state, current_stop>>

(* They are all there is. *)
LEMMA RoundInFull ==
  ASSUME CarOK, Car!LiftThread
  PROVE  /\ RUNNING /\ current_action' \in {A_UNDEF, A_OBRADENO}
         /\ \/ ~RUNNING' /\ current_state' = S_STOJI
            \/ RUNNING' /\ (NoChange \/ DoorRound \/ OrderRound \/ UpRound \/ DownRound)
<1> USE DEF Car!S_STOJI_OTVOREN, Car!S_STOJI_ZATVOREN, Car!S_OTVARA_VRATA,
            Car!S_ZATVARA_VRATA, Car!S_IDE_DOLE, Car!S_IDE_GORE, Car!S_STOJI,
            Car!A_UNDEF, Car!A_OBRADENO, Car!A_LIFT_GORE, Car!A_LIFT_DOLE, Car!D_DOWN,
            Car!A_LIFT_STANI, Car!A_LIFT_OTVORI, Car!A_LIFT_ZATVORI, Car!position,
            S_STOJI_OTVOREN, S_STOJI_ZATVOREN, S_OTVARA_VRATA, S_ZATVARA_VRATA,
            S_IDE_DOLE, S_IDE_GORE, S_STOJI, A_UNDEF, A_OBRADENO, A_LIFT_GORE,
            A_LIFT_DOLE, A_LIFT_OTVORI, A_LIFT_ZATVORI, D_DOWN, carView
<1>1. RUNNING
  BY DEF Car!LiftThread
<1>2. current_im_floor \in 0 .. 3 /\ current_floor \in Int /\ current_stop \in BOOLEAN
  BY CarFacts, FloorsAssumption DEF Quarters, Floors
<1>3. CASE Car!Advance
  <2>1. current_action' = A_OBRADENO /\ UNCHANGED <<RUNNING, current_direction>>
    BY <1>3 DEF Car!Advance
  <2>2. CASE Car!DoorMoves
    BY <1>1, <2>1, <2>2 DEF Car!DoorMoves, DoorRound
  <2>3. CASE Car!Rest
    BY <1>1, <2>1, <2>3 DEF Car!Rest, NoChange
  <2>4. CASE Car!MoveUp
    BY <1>1, <1>2, <2>1, <2>4 DEF Car!MoveUp, Car!Arrive, UpRound
  <2>5. CASE Car!MoveDown
    <3>1. NoChange \/ DownRound
      BY <1>2, <2>1, <2>5 DEF Car!MoveDown, Car!Arrive, NoChange, DownRound
    <3> QED  BY <1>1, <2>1, <3>1
  <2> QED  BY <1>3, <2>2, <2>3, <2>4, <2>5 DEF Car!Advance
<1>4. CASE Car!Execute
  <2>1. current_action' = A_OBRADENO
        /\ UNCHANGED <<current_floor, current_im_floor, current_stop>>
    BY <1>4 DEF Car!Execute
  <2>2. CASE Car!StartUp
    BY <1>1, <2>1, <2>2 DEF Car!StartUp, OrderRound, NoChange
  <2>3. CASE Car!StartDown
    BY <1>1, <2>1, <2>3 DEF Car!StartDown, OrderRound, NoChange
  <2>4. CASE Car!OpenDoor
    BY <1>1, <2>1, <2>4 DEF Car!OpenDoor, OrderRound, NoChange
  <2>5. CASE Car!CloseDoor
    BY <1>1, <2>1, <2>5 DEF Car!CloseDoor, DoorRound, NoChange
  <2>6. CASE Car!EmergencyStop
    BY <1>1, <2>1, <2>6 DEF Car!EmergencyStop
  <2> QED  BY <1>4, <2>2, <2>3, <2>4, <2>5, <2>6 DEF Car!Execute
<1>5. CASE Car!Idle
  BY <1>1, <1>5 DEF Car!Idle, Car!carVars, NoChange
<1> QED  BY <1>3, <1>4, <1>5 DEF Car!LiftThread

(* A round of lift() keeps the car on its course: upr() has had more rounds   *)
(* since the last one than datagrams were lost.                               *)
LEMMA RoundCourse ==
  ASSUME MaxLosses < MinTicks, OthersOK, CarOK, Course, LiftRound PROVE Course'
<1>1. /\ Car!LiftThread /\ ticks >= MinTicks /\ ticks' = 0
      /\ UNCHANGED <<uprVars, net, losses>>
  BY Zenon DEF LiftRound
<1>2. /\ RUNNING /\ current_action' \in {A_UNDEF, A_OBRADENO}
      /\ \/ ~RUNNING' /\ current_state' = S_STOJI
         \/ RUNNING' /\ (NoChange \/ DoorRound \/ OrderRound \/ UpRound \/ DownRound)
  BY <1>1, RoundInFull
<1>3. /\ UNCHANGED <<report, request_list, losses>>
      /\ News' = News /\ AnswerDue' = AnswerDue /\ StopOnWay' = StopOnWay
      /\ OnTheWay' = OnTheWay
  BY <1>1 DEF uprVars, News, AnswerDue, StopOnWay, OnTheWay
<1>4. /\ ticks # 0 /\ ~(ticks <= losses) /\ ticks' <= losses'
      /\ ticks <= losses + 1 => losses >= MaxLosses
  <2>1. /\ ticks \in Nat /\ losses \in Nat /\ losses <= MaxLosses
        /\ MaxLosses \in Nat /\ MinTicks \in Nat
    BY BoundsAssumption DEF OthersOK, CountersOK
  <2> QED  BY <1>1, <1>3, <2>1
<1>5. OnCourse
  BY <1>2 DEF Course
<1>6. /\ \A r \in News : Shows(r)
      /\ Shows(report) \/ (AnswerDue /\ losses >= MaxLosses)
  BY <1>4, <1>5, Zenon DEF OnCourse, NewsTrue, InTime
<1>7. /\ current_floor \in Floors /\ current_im_floor \in Quarters
      /\ current_stop \in BOOLEAN
      /\ current_state = S_STOJI_ZATVOREN => current_im_floor = 0
      /\ current_state = S_IDE_DOLE => current_direction = D_DOWN
  BY CarFacts
<1>8. CASE ~RUNNING'
  BY <1>2, <1>8 DEF Course
<1>9. CASE RUNNING'
  <2> USE DEF S_STOJI_OTVOREN, S_STOJI_ZATVOREN, S_OTVARA_VRATA, S_ZATVARA_VRATA,
              S_IDE_DOLE, S_IDE_GORE, S_STOJI, MovingStates, DoorStates
  <2>1. NoChange \/ DoorRound \/ OrderRound \/ UpRound \/ DownRound
    BY <1>2, <1>9
  <2>2. ASSUME NEW r, Shows(r)
        PROVE  \/ /\ r.floor = current_floor' /\ r.im_floor = current_im_floor'
                  /\ r.state = current_state' /\ r.direction = current_direction'
               \/ Behind(r)'
    <3>1. CASE NoChange
      BY <2>2, <3>1 DEF NoChange, carView, Shows
    <3>2. CASE DoorRound
      BY <2>2, <3>2 DEF DoorRound, Shows, Behind
    <3>3. CASE OrderRound
      BY <1>7, <2>2, <3>3 DEF OrderRound, Shows, Behind
    <3>4. CASE UpRound
      BY <2>2, <3>4 DEF UpRound, Shows, Behind
    <3>5. CASE DownRound
      <4>1. /\ 4 * current_floor + current_im_floor
                 = 4 * current_floor' + current_im_floor' + 1
            /\ current_state' \in {S_IDE_DOLE, S_STOJI_ZATVOREN}
        BY <1>7, <3>5, FloorsAssumption DEF DownRound, Floors, Quarters
      <4>2. r.state = S_IDE_DOLE /\ r.direction = D_DOWN
        BY <1>7, <2>2, <3>5 DEF DownRound, Shows
      <4>3. 4 * r.floor + r.im_floor = 4 * current_floor' + current_im_floor' + 1
        BY <2>2, <4>1 DEF Shows
      <4> QED  BY <4>1, <4>2, <4>3 DEF Behind
    <3> QED  BY <2>1, <3>1, <3>2, <3>3, <3>4, <3>5
  <2>3. \A r : Shows(r) => Shows(r)' \/ Behind(r)'
    BY <2>2 DEF Shows
  <2>4. NewsTrue'
    BY <1>1, <1>3, <1>6, <2>3, Zenon DEF NewsTrue
  <2>5. InTime'
    BY <1>4, Zenon DEF InTime
  <2>6. Recent'
    <3>1. Shows(report) => Shows(report)' \/ Behind(report)'
      BY <1>3, <2>3 DEF Shows, Behind
    <3> QED  BY <1>3, <1>6, <3>1, Zenon DEF Recent
  <2>7. Unmoved'
    <3>1. ASSUME report.state = UNKNOWN
          PROVE  current_state' = S_STOJI_ZATVOREN /\ Pending' \cap Orders = {}
      <4>1. /\ current_state = S_STOJI_ZATVOREN /\ current_action \notin Orders
            /\ OnTheWay \cap Orders = {}
        BY <1>5, <3>1 DEF OnCourse, Unmoved, Pending
      <4>2. NoChange
        BY <2>1, <4>1 DEF DoorRound, OrderRound, UpRound, DownRound, Orders
      <4> QED  BY <1>2, <1>3, <4>1, <4>2
               DEF NoChange, carView, Pending, Orders, A_UNDEF, A_OBRADENO, A_LIFT_GORE,
                   A_LIFT_DOLE, A_LIFT_OTVORI, A_LIFT_ZATVORI
    <3> QED  BY <1>3, <3>1 DEF Unmoved
  <2>8. AimsFit'
    <3>1. OnTheWay \cap Aimed # {} =>
            /\ current_state \notin {S_ZATVARA_VRATA, S_STOJI_OTVOREN}
            /\ current_im_floor = 0
      BY <1>4, <1>5, Zenon DEF OnCourse, AimsFit
    <3>2. OnTheWay \cap Aimed # {} =>
            /\ current_state' # S_ZATVARA_VRATA
            /\ current_state' = S_STOJI_ZATVOREN =>
                 current_state = S_STOJI_ZATVOREN /\ UNCHANGED current_floor
      BY <1>7, <2>1, <3>1
         DEF NoChange, carView, DoorRound, OrderRound, UpRound, DownRound
    <3>3. ASSUME current_state' = S_STOJI_ZATVOREN, NEW a \in Pending' PROVE Fits(a)'
      <4>1. CASE a \in {A_UNDEF, A_OBRADENO}
        BY <4>1 DEF Fits, A_UNDEF, A_OBRADENO, A_LIFT_DOLE, A_LIFT_OTVORI
      <4>2. CASE a \in OnTheWay /\ a \notin Aimed
        BY <4>2 DEF Fits, Aimed
      <4>3. CASE a \in OnTheWay /\ a \in Aimed
        <5>1. current_state = S_STOJI_ZATVOREN /\ UNCHANGED current_floor
          BY <3>2, <3>3, <4>3
        <5>2. Fits(a)
          BY <1>5, <4>3, <5>1 DEF OnCourse, AimsFit, Pending
        <5> QED  BY <1>3, <5>1, <5>2, Zenon DEF Fits, IsBelow, IsHere
      <4> QED  BY <1>2, <1>3, <3>3, <4>1, <4>2, <4>3 DEF Pending
    <3> QED  BY <1>1, <1>3, <3>2, <3>3 DEF AimsFit
  <2>9. StopsForLast'
    <3>1. ASSUME LastOne', current_im_floor' = 1
          PROVE  current_stop' \/ (StopOnWay' /\ losses' >= MaxLosses)
      <4>1. /\ current_state' = S_IDE_DOLE
            /\ \A r \in Elements(request_list) : r.floor >= current_floor'
        BY <1>3, <3>1 DEF LastOne
      <4>2. CASE NoChange
        <5>1. LastOne /\ current_im_floor = 1 /\ UNCHANGED current_stop
          BY <3>1, <4>1, <4>2 DEF NoChange, carView, LastOne
        <5> QED  BY <1>4, <1>5, <5>1, Zenon DEF OnCourse, StopsForLast
      <4>3. CASE OrderRound
        BY <1>7, <3>1, <4>3 DEF OrderRound
      <4>4. CASE DownRound
        <5>1. LastOne /\ current_im_floor = 2 /\ UNCHANGED current_stop
          BY <1>7, <3>1, <4>1, <4>4 DEF DownRound, LastOne, Quarters
        <5> QED  BY <1>3, <1>4, <1>5, <5>1, Zenon DEF OnCourse, StopsForLast
      <4> QED  BY <2>1, <4>1, <4>2, <4>3, <4>4 DEF DoorRound, UpRound
    <3> QED  BY <1>1, <1>4, <3>1, Zenon DEF StopsForLast
  <2>10. Descends'
    <3> SUFFICES ASSUME current_state' = S_IDE_DOLE
                 PROVE  \E r \in Elements(request_list) :
                          \/ r.floor < current_floor'
                          \/ r.floor = current_floor' /\ current_im_floor' > 0
      BY <1>3 DEF Descends
    <3>0. ASSUME NEW r \in Elements(request_list) PROVE r.floor \in Int
      <4>1. r \in Request
        BY <3>0, ElementOfSeq DEF OthersOK, ListOK, Elements
      <4> QED  BY <4>1, FloorsAssumption DEF Request, Floors
    <3>1. CASE NoChange
      BY <1>5, <3>1 DEF OnCourse, Descends, NoChange, carView
    <3>2. CASE OrderRound
      <4>1. current_action = A_LIFT_DOLE /\ UNCHANGED current_floor
        BY <3>2 DEF OrderRound
      <4>2. Fits(A_LIFT_DOLE)
        BY <1>5, <3>2, <4>1 DEF OnCourse, AimsFit, OrderRound, Pending
      <4> QED  BY <4>1, <4>2 DEF Fits, IsBelow
    <3>3. CASE DownRound
      <4>1. PICK r \in Elements(request_list) :
              r.floor < current_floor \/ (r.floor = current_floor /\ current_im_floor > 0)
        BY <1>5, <3>3, Zenon DEF OnCourse, Descends, DownRound
      <4>2. CASE current_im_floor # 1
        <5>1. \/ r.floor < current_floor'
              \/ r.floor = current_floor' /\ current_im_floor' > 0
          BY <1>7, <3>0, <3>3, <4>1, <4>2, FloorsAssumption DEF DownRound, Floors, Quarters
        <5> QED  BY <5>1
      <4>3. CASE current_im_floor = 1
        <5>1. ~current_stop /\ current_state = S_IDE_DOLE /\ UNCHANGED current_floor
          BY <3>3, <4>3 DEF DownRound
        <5>2. ~LastOne
          BY <1>4, <1>5, <4>3, <5>1, Zenon DEF OnCourse, StopsForLast
        <5>3. PICK s \in Elements(request_list) : ~(s.floor >= current_floor)
          BY <5>1, <5>2 DEF LastOne
        <5>4. s.floor < current_floor'
          BY <1>7, <3>0, <5>1, <5>3, FloorsAssumption DEF Floors
        <5> QED  BY <5>4
      <4> QED  BY <4>2, <4>3
    <3> QED  BY <2>1, <3>1, <3>2, <3>3 DEF DoorRound, UpRound
  <2>11. OnCourse'
    BY <2>4, <2>5, <2>6, <2>7, <2>8, <2>9, <2>10, Zenon DEF OnCourse
  <2> QED  BY <1>9, <2>11, Zenon DEF Course
<1> QED  BY <1>8, <1>9

------------------------------------------------------------------------------
(* Before the first report the car stands where it was started. *)
LEMMA InitCourse == Init => Course
<1> SUFFICES ASSUME Init PROVE Course
  OBVIOUS
<1>1. /\ RUNNING /\ current_state = S_STOJI_ZATVOREN /\ current_action = A_UNDEF
      /\ report.state = UNKNOWN /\ ticks = 0 /\ losses = 0 /\ Quiet
  BY DEF Init, Car!Init, Car!S_STOJI_ZATVOREN, Car!A_UNDEF, S_STOJI_ZATVOREN, A_UNDEF,
         Quiet
<1>2. News = {} /\ OnTheWay = {} /\ Pending = {A_UNDEF}
  BY <1>1, QuietChannels, ChannelsAre DEF News, Reported, Pending
<1>3. NewsTrue /\ InTime /\ Recent
  BY <1>1, <1>2 DEF NewsTrue, InTime, Recent
<1>4. Unmoved /\ AimsFit
  BY <1>1, <1>2
     DEF Unmoved, AimsFit, Fits, Orders, A_UNDEF, A_LIFT_GORE, A_LIFT_DOLE, A_LIFT_OTVORI,
         A_LIFT_ZATVORI
<1>5. StopsForLast /\ Descends
  BY <1>1 DEF StopsForLast, LastOne, Descends, S_IDE_DOLE, S_STOJI_ZATVOREN
<1> QED  BY <1>1, <1>3, <1>4, <1>5 DEF Course, OnCourse

(* Every step keeps the car on its course. *)
LEMMA NextCourse ==
  ASSUME MaxLosses < MinTicks PROVE IInv /\ Course /\ [Next]_vars => Course'
<1> SUFFICES ASSUME IInv, Course, [Next]_vars PROVE Course'
  OBVIOUS
<1>1. OthersOK /\ ControlOK /\ CarOK
  BY TypesInParts DEF IInv
<1>2. CASE Tick
  BY <1>1, <1>2, TickCourse
<1>3. CASE Served
  BY <1>1, <1>3, ServedCourse
<1>4. CASE UprListener
  BY <1>1, <1>4, HallKeyCourse, CabinKeyCourse, SendLampCourse, ReportCourse,
     StopKeyCourse, Zenon DEF UprListener
<1>5. CASE LiftRound
  BY <1>1, <1>5, RoundCourse
<1>6. CASE LiftListener
  <2>1. CASE LiftGone
    BY <2>1, ExitedStays DEF LiftGone, liftVars
  <2> QED  BY <1>1, <1>6, <2>1, ActionCourse, LampCourse, AnswerCourse, Zenon
           DEF LiftListener
<1>7. CASE TipkeLamp
  BY <1>1, <1>7, TipkeLampCourse
<1>8. CASE Press
  BY <1>1, <1>8, PressCourse
<1>9. CASE \E c \in Channels : Lose(c)
  BY <1>1, <1>9, LoseCourse
<1>10. CASE UNCHANGED vars
  <2>1. /\ UNCHANGED <<carState, report, losses, ticks>>
        /\ UNCHANGED <<net, request_list>>
    BY <1>10, CarStateKept, Zenon DEF vars, uprVars
  <2>2. OnTheWay' = OnTheWay
    BY <2>1 DEF OnTheWay
  <2> QED  BY <2>1, <2>2, CourseKept
<1> QED  BY <1>2, <1>3, <1>4, <1>5, <1>6, <1>7, <1>8, <1>9, <1>10 DEF Next

(* So it never leaves it. *)
LEMMA StaysOnCourse == ASSUME MaxLosses < MinTicks PROVE Spec => []Course
<1>1. Init => Course
  BY InitCourse
<1>2. IInv /\ Course /\ [Next]_vars => Course'
  BY NextCourse
<1> QED  BY <1>1, <1>2, Invariant, PTL DEF Spec

(* A car on its way down always has a request below it: although upr decides  *)
(* on reports that may be old, and its command to stop may be lost, a request *)
(* is never passed on the way down.  The network may lose fewer datagrams     *)
(* than upr() has rounds to one of lift(), three in the code.                 *)
THEOREM AlwaysDescendsToRequest ==
  ASSUME MaxLosses < MinTicks PROVE Spec => []DescendsToRequest
<1>1. Course => DescendsToRequest
  <2> SUFFICES ASSUME Course, current_state = S_IDE_DOLE
               PROVE  \E i \in DOMAIN request_list :
                        \/ request_list[i].floor < current_floor
                        \/ /\ request_list[i].floor = current_floor
                           /\ current_im_floor > 0
    BY Zenon DEF DescendsToRequest
  <2>1. Descends
    BY DEF Course, OnCourse, S_STOJI, S_IDE_DOLE
  <2>2. PICK r \in Elements(request_list) :
          r.floor < current_floor \/ (r.floor = current_floor /\ current_im_floor > 0)
    BY <2>1, Zenon DEF Descends
  <2>3. PICK i \in DOMAIN request_list : request_list[i] = r
    BY <2>2, Zenon DEF Elements
  <2> QED  BY <2>2, <2>3, Zenon
<1> QED  BY <1>1, StaysOnCourse, PTL

(* The door opens only at a floor somebody waits for, under the same          *)
(* condition: no order that comes late opens it anywhere else.                *)
THEOREM AlwaysOpensForRequest ==
  ASSUME MaxLosses < MinTicks PROVE Spec => OpensForRequest
<1> DEFINE Opens ==
      current_state' = S_OTVARA_VRATA /\ current_state # S_OTVARA_VRATA =>
        \E i \in DOMAIN request_list : request_list[i].floor = current_floor
<1>1. ASSUME IInv, Course, [Next]_vars PROVE [Opens]_vars
  <2> SUFFICES ASSUME current_state' = S_OTVARA_VRATA, current_state # S_OTVARA_VRATA
               PROVE  \E i \in DOMAIN request_list :
                        request_list[i].floor = current_floor
    OBVIOUS
  <2>1. LiftRound
    <3>1. current_state' # current_state
      OBVIOUS
    <3>2. ~(UNCHANGED vars) /\ ~Tick /\ ~Served /\ ~UprListener /\ ~TipkeLamp
          /\ ~Press /\ ~(\E c \in Channels : Lose(c))
      BY <3>1, Zenon
         DEF vars, liftVars, Tick, Served, UprListener, UprHallKey, UprCabinKey, UprSendLamp,
             UprReport, UprStopKey, TipkeLamp, Press, PressHallKey, PressCabinKey,
             TypeSTOP, Lose
    <3>3. ~LiftListener
      BY <3>1, Zenon
         DEF LiftListener, LiftAction, LiftLamp, LiftReport, LiftGone, liftVars,
             Car!ReceiveAction, Car!ReceiveStopAtFloor, Car!ReceiveLamp, Car!carVars
    <3> QED  BY <1>1, <3>2, <3>3 DEF Next
  <2>2. CarOK
    BY <1>1 DEF IInv
  <2>3. OrderRound /\ current_action = A_LIFT_OTVORI /\ RUNNING
    BY <2>1, <2>2, RoundInFull
       DEF LiftRound, NoChange, carView, DoorRound, OrderRound, UpRound, DownRound,
           S_STOJI_OTVOREN, S_STOJI_ZATVOREN, S_OTVARA_VRATA, S_ZATVARA_VRATA,
           S_IDE_DOLE, S_IDE_GORE, S_STOJI
  <2>4. Fits(A_LIFT_OTVORI)
    BY <1>1, <2>3 DEF Course, OnCourse, AimsFit, OrderRound, Pending
  <2>5. PICK r \in Elements(request_list) : r.floor = current_floor
    BY <2>4 DEF Fits, IsHere
  <2>6. PICK i \in DOMAIN request_list : request_list[i] = r
    BY <2>5, Zenon DEF Elements
  <2> QED  BY <2>5, <2>6, Zenon
<1>2. IInv /\ Course /\ [Next]_vars => [Opens]_vars
  BY <1>1
<1> QED  BY <1>2, Invariant, StaysOnCourse, PTL DEF Spec, OpensForRequest
==============================================================================
