--------------------------- MODULE AdaLiftsProofs ----------------------------
(* What the two lifts of src/04-ada guarantee for every number of floors and  *)
(* every number of passengers.                                                *)
EXTENDS AdaLifts, TLAPS

(* The flags never point out of the building, and a lift that is about to     *)
(* move has a floor before it.                                                *)
WayFree ==
  \A l \in Lifts :
    /\ Above(l) => kat[l] < FLOORS
    /\ Below(l) => kat[l] > 1
    /\ pc[l] = "delay" => flags[l] = {}
    /\ pc[l] \in {"publish", "delay"} /\ ~vrata[l] =>
         /\ smjer[l] = 1 => kat[l] < FLOORS
         /\ smjer[l] = -1 => kat[l] > 1

(* During the delay the published door is the door, and only then is there    *)
(* anybody who has not looked at it yet.                                      *)
DoorInDelay ==
  \A l \in Lifts :
    /\ pc[l] = "delay" => lift_vrata[l] = IF vrata[l] THEN {kat[l]} ELSE {}
    /\ pc[l] # "delay" => unpolled[l] = {}

(* Who waits for a lift to accept the key has entered that lift, once.        *)
QueueOK ==
  \A l \in Lifts : \A i \in 1 .. Len(queue[l]) :
    /\ covjek[queue[l][i]].state = "calling"
    /\ covjek[queue[l][i]].lift = l
    /\ \A j \in 1 .. Len(queue[l]) : queue[l][i] = queue[l][j] => i = j

(* The inductive invariant.  That a lift stays inside the building depends on *)
(* the flags (WayFree), that nobody is forgotten on the published door        *)
(* (DoorInDelay), and that no key is lost on the queue (QueueOK).             *)
IInv == /\ TypeOK
        /\ InsideBuilding
        /\ WayFree
        /\ PublishedDoorIsThere
        /\ DoorInDelay
        /\ QueueOK
        /\ NobodyForgotten
        /\ KeyRemembered

(* The initial state satisfies the inductive invariant. *)
LEMMA InitIInv == Init => IInv
<1> SUFFICES ASSUME Init PROVE IInv
  OBVIOUS
<1> USE FloorsAssumption DEF Init, Lifts
<1>1. TypeOK
  BY DEF TypeOK, Floors, Absent, Passenger
<1>2. InsideBuilding /\ PublishedDoorIsThere
  BY DEF InsideBuilding, PublishedDoorIsThere, Floors
<1>3. WayFree
  BY DEF WayFree, Above, Below
<1>4. DoorInDelay /\ QueueOK
  BY DEF DoorInDelay, QueueOK
<1>5. NobodyForgotten /\ KeyRemembered
  BY DEF NobodyForgotten, KeyRemembered, Absent, Passenger
<1>6. QED
  BY <1>1, <1>2, <1>3, <1>4, <1>5 DEF IInv

(* Publishing the door preserves the inductive invariant. *)
LEMMA PublishIInv == ASSUME IInv, NEW l \in Lifts, Publish(l) PROVE IInv'
<1> USE DEF IInv
<1>1. TypeOK'
  BY DEF Publish, TypeOK, InsideBuilding, Polling
<1>2. InsideBuilding'
  BY DEF Publish, InsideBuilding
<1>3. PublishedDoorIsThere'
  BY DEF Publish, PublishedDoorIsThere, TypeOK
<1>4. WayFree'
  BY DEF Publish, WayFree, TypeOK, Above, Below
<1>5. DoorInDelay'
  BY DEF Publish, DoorInDelay, PublishedDoorIsThere, TypeOK
<1>6. QueueOK'
  BY DEF Publish, QueueOK
<1>7. NobodyForgotten'
  BY DEF Publish, NobodyForgotten, Called, OpensFor, Polling, TypeOK
<1>8. KeyRemembered'
  BY DEF Publish, KeyRemembered, KeyLit, OpensFor, Polling, TypeOK
<1>9. QED
  BY <1>1, <1>2, <1>3, <1>4, <1>5, <1>6, <1>7, <1>8

(* The end of the delay preserves the inductive invariant: the lift moves     *)
(* inside the building, nobody waits any more for the door it closes, and the *)
(* passenger it accepts the key of has its key lit.                           *)
LEMMA WakeIInv == ASSUME IInv, NEW l \in Lifts, Wake(l) PROVE IInv'
<1> USE DEF IInv
<1>1. /\ kat' \in [Lifts -> Floors]
      /\ vrata' = [vrata EXCEPT ![l] = FALSE]
      /\ \A m \in Lifts : m # l => kat'[m] = kat[m]
      /\ vrata[l] => kat' = kat
  BY FloorsAssumption
     DEF Wake, Move, WayFree, TypeOK, InsideBuilding, Floors
<1>2. WayFree' /\ PublishedDoorIsThere' /\ DoorInDelay' /\ InsideBuilding'
  BY <1>1 DEF Wake, WayFree, PublishedDoorIsThere, DoorInDelay, TypeOK,
              Above, Below, InsideBuilding
<1>3. /\ pc' \in [Lifts -> {"publish", "delay", "look", "decide"}]
      /\ kat' \in [Lifts -> Int]
      /\ vrata' \in [Lifts -> BOOLEAN]
      /\ looking' \in [Lifts -> 1 .. FLOORS + 1]
  BY <1>1, FloorsAssumption DEF Wake, TypeOK, Floors
<1>6. \A m \in Lifts : \A f, q : OpensFor(m, f, q) => OpensFor(m, f, q)'
  BY <1>1 DEF OpensFor, Wake, TypeOK
<1>4. CASE queue[l] = <<>>
  <2>1. UNCHANGED <<tipke, queue, covjek>>
    BY <1>4 DEF Wake, AcceptKey
  <2>2. TypeOK'
    BY <1>3, <2>1 DEF Wake, TypeOK
  <2>3. QueueOK'
    BY <2>1 DEF QueueOK
  <2>4. NobodyForgotten' /\ KeyRemembered'
    BY <1>6, <2>1
       DEF NobodyForgotten, Called, KeyRemembered, KeyLit, TypeOK, Wake
  <2>5. QED
    BY <1>2, <2>2, <2>3, <2>4
<1>5. CASE queue[l] # <<>>
  <2> DEFINE p == Head(queue[l])
             c == Passenger("riding", covjek[p].dest, covjek[p].dest,
                            covjek[p].lift)
  <2>1. /\ queue[l] \in Seq(Passengers)
        /\ 1 \in 1 .. Len(queue[l])
        /\ p = queue[l][1]
    BY <1>5 DEF TypeOK
  <2>2. /\ p \in Passengers
        /\ covjek[p].state = "calling"
        /\ covjek[p].lift = l
        /\ covjek[p].dest \in Floors
    BY <2>1 DEF QueueOK, TypeOK
  <2>3. /\ tipke' = [tipke EXCEPT ![l] = tipke[l] \cup {covjek[p].dest}]
        /\ queue' = [queue EXCEPT ![l] = Tail(queue[l])]
        /\ covjek' = [covjek EXCEPT ![p] = c]
    BY <1>5 DEF Wake, AcceptKey
  <2>4. /\ covjek'[p] = c
        /\ \A q \in Passengers : q # p => covjek'[q] = covjek[q]
        /\ covjek[p].dest \in tipke'[l]
        /\ \A m \in Lifts : tipke[m] \subseteq tipke'[m]
    BY <2>2, <2>3 DEF TypeOK
  <2>5. c.state = "riding" /\ c.dest = covjek[p].dest /\ c.lift = l
    BY <2>2 DEF Passenger
  <2>6. TypeOK'
    <3>1. Tail(queue[l]) \in Seq(Passengers)
      BY <1>5, <2>1
    <3>2. c \in [state : {"gone", "unborn", "waiting", "calling", "riding"},
                 curr : Floors, dest : Floors, lift : Lifts]
      BY <2>2 DEF Passenger
    <3> HIDE DEF c, p
    <3>3. tipke' \in [Lifts -> SUBSET Floors]
      BY <2>2, <2>3 DEF TypeOK
    <3>4. queue' \in [Lifts -> Seq(Passengers)]
      BY <2>3, <3>1 DEF TypeOK
    <3>5. covjek' \in [Passengers ->
            [state : {"gone", "unborn", "waiting", "calling", "riding"},
             curr : Floors, dest : Floors, lift : Lifts]]
      BY <2>3, <3>2 DEF TypeOK
    <3>6. QED
      BY <1>3, <3>3, <3>4, <3>5 DEF Wake, TypeOK
  <2>7. QueueOK'
    <3>1. \A i \in 1 .. Len(queue'[l]) :
            /\ i + 1 \in 1 .. Len(queue[l])
            /\ queue'[l][i] = queue[l][i + 1]
            /\ queue'[l][i] # p
      BY <1>5, <2>1, <2>3 DEF TypeOK, QueueOK
    <3>2. ASSUME NEW m \in Lifts, m # l, NEW i \in 1 .. Len(queue[m])
          PROVE  queue[m][i] # p
      BY <2>2, <3>2 DEF QueueOK
    <3> HIDE DEF p, c
    <3>3. ASSUME NEW m \in Lifts, m # l
          PROVE  queue'[m] = queue[m]
      BY <2>3, <3>3 DEF TypeOK
    <3>4. \A m \in Lifts : \A i \in 1 .. Len(queue[m]) :
            queue[m][i] \in Passengers
      BY DEF TypeOK
    <3>5. QED
      BY <2>2, <2>4, <3>1, <3>2, <3>3, <3>4, SMTT(30) DEF QueueOK
  <2> HIDE DEF p, c
  <2>8. NobodyForgotten'
    <3> SUFFICES ASSUME NEW q \in Passengers, covjek'[q].state = "waiting"
                 PROVE  Called(q)'
      BY DEF NobodyForgotten
    <3>1. q # p /\ covjek'[q] = covjek[q]
      BY <2>4, <2>5
    <3>2. QED
      BY <1>6, <3>1 DEF NobodyForgotten, Called, Wake
  <2>9. KeyRemembered'
    <3> SUFFICES ASSUME NEW q \in Passengers, covjek'[q].state = "riding"
                 PROVE  KeyLit(q)'
      BY DEF KeyRemembered
    <3>1. CASE q = p
      BY <2>4, <2>5, <3>1 DEF KeyLit
    <3>2. CASE q # p
      BY <1>6, <2>4, <3>2 DEF KeyRemembered, KeyLit, TypeOK
    <3>3. QED
      BY <3>1, <3>2
  <2>10. QED
    BY <1>2, <2>6, <2>7, <2>8, <2>9
<1>7. QED
  BY <1>4, <1>5

(* Looking at a floor preserves the inductive invariant: a flag of a floor    *)
(* above or below means that there is one.                                    *)
LEMMA LookIInv == ASSUME IInv, NEW l \in Lifts, Look(l) PROVE IInv'
<1> USE DEF IInv
<1> DEFINE f == IF looking[l] <= FLOORS THEN looking[l] ELSE kat[l]
<1>1. f \in Floors /\ kat[l] \in Floors /\ looking[l] \in 1 .. FLOORS + 1
  BY FloorsAssumption DEF TypeOK, InsideBuilding, Floors
<1>2. /\ flags' \in [Lifts -> SUBSET Flags]
      /\ \A m \in Lifts : m # l => flags'[m] = flags[m]
      /\ flags'[l] \subseteq flags[l] \cup FlagsOf(f, kat[l], katovi, tipke[l])
  BY DEF Look, TypeOK, FlagsOf
<1>3. TypeOK' /\ InsideBuilding'
  <2>1. looking' \in [Lifts -> 1 .. FLOORS + 1]
    <3>1. CASE looking[l] <= FLOORS
      <4>1. looking[l] + 1 \in 1 .. FLOORS + 1
        BY <1>1, <3>1, FloorsAssumption
      <4>2. looking' = [looking EXCEPT ![l] = looking[l] + 1]
        BY <3>1 DEF Look
      <4>3. QED
        BY <4>1, <4>2 DEF TypeOK
    <3>2. CASE ~(looking[l] <= FLOORS)
      BY <3>2 DEF Look, TypeOK
    <3>3. QED
      BY <3>1, <3>2
  <2>2. pc' \in [Lifts -> {"publish", "delay", "look", "decide"}]
    BY DEF Look, TypeOK
  <2>3. QED
    BY <1>2, <2>1, <2>2 DEF Look, TypeOK, InsideBuilding
<1>4. pc'[l] \in {"look", "decide"} /\ \A m \in Lifts : m # l => pc'[m] = pc[m]
  BY DEF Look, TypeOK
<1>5. WayFree'
  <2>1. \A x \in FlagsOf(f, kat[l], katovi, tipke[l]) :
          /\ x \in {"gore_gore", "gore_dole"} => kat[l] < f
          /\ x \in {"dole_gore", "dole_dole"} => kat[l] > f
    BY DEF FlagsOf
  <2>2. (kat[l] < f => kat[l] < FLOORS) /\ (kat[l] > f => kat[l] > 1)
    BY <1>1, FloorsAssumption DEF Floors
  <2> HIDE DEF f
  <2>3. Above(l)' => kat[l] < FLOORS
    BY <1>2, <2>1, <2>2 DEF Above, WayFree
  <2>4. Below(l)' => kat[l] > 1
    BY <1>2, <2>1, <2>2 DEF Below, WayFree
  <2>5. QED
    BY <1>2, <1>4, <2>3, <2>4 DEF Look, WayFree, Above, Below
<1>6. PublishedDoorIsThere' /\ DoorInDelay'
  BY <1>4 DEF Look, PublishedDoorIsThere, DoorInDelay
<1>7. QueueOK'
  BY DEF Look, QueueOK
<1>8. \A m \in Lifts : \A g, p : OpensFor(m, g, p) => OpensFor(m, g, p)'
  BY <1>4 DEF OpensFor, Look, DoorInDelay
<1>9. NobodyForgotten' /\ KeyRemembered'
  BY <1>8 DEF NobodyForgotten, Called, KeyRemembered, KeyLit, TypeOK, Look
<1>10. QED
  BY <1>3, <1>5, <1>6, <1>7, <1>9

(* The decision preserves the inductive invariant: a lift goes on, starts or  *)
(* turns only where the flags say there is a floor, and what it clears it     *)
(* opens its door for.                                                        *)
LEMMA DecideIInv == ASSUME IInv, NEW l \in Lifts, Decide(l) PROVE IInv'
<1> USE DEF IInv
<1>1. /\ pc[l] = "decide" /\ pc' = [pc EXCEPT ![l] = "publish"]
      /\ UNCHANGED <<kat, flags, looking, lift_vrata, queue, covjek, unpolled>>
  BY DEF Decide
<1>2. /\ smjer' \in [Lifts -> {-1, 0, 1}]
      /\ vrata' \in [Lifts -> BOOLEAN]
      /\ katovi' \in SUBSET Calls
      /\ tipke' \in [Lifts -> SUBSET Floors]
      /\ \A m \in Lifts : m # l =>
           smjer'[m] = smjer[m] /\ vrata'[m] = vrata[m] /\ tipke'[m] = tipke[m]
  <2>1. \/ UNCHANGED <<smjer, vrata, katovi, tipke>>
        \/ \E d \in {-1, 0, 1} : Turn(l, d) \/ Stop(l, d)
    BY DEF Decide, Start, StopOnward, StopAndReverse, Reverse, GoOn, Rest
  <2>2. CASE UNCHANGED <<smjer, vrata, katovi, tipke>>
    BY <2>2 DEF TypeOK
  <2>3. ASSUME NEW d \in {-1, 0, 1}, Turn(l, d)
        PROVE  <1>2!:
    BY <2>3 DEF Turn, TypeOK
  <2>4. ASSUME NEW d \in {-1, 0, 1}, Stop(l, d)
        PROVE  <1>2!:
    BY <2>4 DEF Stop, TypeOK
  <2>5. QED
    BY <2>1, <2>2, <2>3, <2>4
<1>3. ~vrata'[l] => /\ smjer'[l] = 1 => Above(l)
                    /\ smjer'[l] = -1 => Below(l)
  BY DEF Decide, Start, StopOnward, StopAndReverse, Reverse, GoOn, Rest, Stop,
         Turn, TypeOK, Ahead, Below
<1>4. \/ katovi' = katovi /\ tipke' = tipke /\ vrata' = vrata
      \/ /\ \E c \in {"gore", "dole"} : katovi' = katovi \ {Call(kat[l], c)}
         /\ tipke' = [tipke EXCEPT ![l] = @ \ {kat[l]}]
         /\ vrata' = [vrata EXCEPT ![l] = TRUE]
  BY DEF Decide, Start, StopOnward, StopAndReverse, Reverse, GoOn, Rest, Stop,
         Turn
<1>5. TypeOK' /\ InsideBuilding'
  BY <1>1, <1>2 DEF TypeOK, InsideBuilding
<1>6. WayFree'
  BY <1>1, <1>2, <1>3 DEF WayFree, Above, Below, TypeOK
<1>7. PublishedDoorIsThere' /\ DoorInDelay' /\ QueueOK'
  BY <1>1, <1>2, SMTT(30)
  DEF PublishedDoorIsThere, DoorInDelay, QueueOK, TypeOK
<1>8. \A m \in Lifts : \A f, p : OpensFor(m, f, p) => OpensFor(m, f, p)'
  BY <1>1, <1>4 DEF OpensFor, DoorInDelay, TypeOK
<1>9. vrata'[l] => \A p : OpensFor(l, kat[l], p)'
  BY <1>1 DEF OpensFor, TypeOK
<1>10. NobodyForgotten'
  <2> SUFFICES ASSUME NEW p \in Passengers, covjek[p].state = "waiting"
               PROVE  Called(p)'
    BY <1>1 DEF NobodyForgotten
  <2>1. CASE kat[l] = covjek[p].curr /\ vrata'[l]
    BY <1>1, <1>9, <2>1 DEF Called
  <2>2. CASE kat[l] # covjek[p].curr \/ ~vrata'[l]
    BY <1>1, <1>4, <1>8, <2>2 DEF NobodyForgotten, Called, Call, TypeOK
  <2>3. QED
    BY <2>1, <2>2
<1>11. KeyRemembered'
  <2> SUFFICES ASSUME NEW p \in Passengers, covjek[p].state = "riding"
               PROVE  KeyLit(p)'
    BY <1>1 DEF KeyRemembered
  <2>1. CASE covjek[p].lift = l /\ kat[l] = covjek[p].dest /\ vrata'[l]
    BY <1>1, <1>9, <2>1 DEF KeyLit
  <2>2. CASE ~(covjek[p].lift = l /\ kat[l] = covjek[p].dest /\ vrata'[l])
    <3>1. covjek[p].lift \in Lifts /\ KeyLit(p)
      BY DEF KeyRemembered, TypeOK
    <3>2. covjek[p].dest \in tipke[covjek[p].lift] =>
            covjek[p].dest \in tipke'[covjek[p].lift]
      BY <1>2, <1>4, <2>2, <3>1 DEF TypeOK
    <3>3. QED
      BY <1>1, <1>8, <3>1, <3>2 DEF KeyLit
  <2>3. QED
    BY <2>1, <2>2
<1>12. QED
  BY <1>5, <1>6, <1>7, <1>10, <1>11

(* A new passenger preserves the inductive invariant: it waits for a call     *)
(* that is pending.                                                           *)
LEMMA ArriveIInv == ASSUME IInv, NEW p \in Passengers, Arrive(p) PROVE IInv'
<1> USE DEF IInv
<1>1. PICK f \in Floors, g \in Floors :
        /\ f # g
        /\ covjek' = [covjek EXCEPT ![p] = Passenger("waiting", f, g, 1)]
        /\ katovi' = katovi \cup {Call(f, IF f < g THEN "gore" ELSE "dole")}
  BY DEF Arrive
<1>2. covjek[p].state = "unborn" /\ UNCHANGED <<liftVars, lift_vrata, queue, unpolled>>
  BY DEF Arrive
<1>3. /\ covjek'[p].state = "waiting"
      /\ covjek'[p].curr = f
      /\ covjek'[p].dest = g
      /\ \A q \in Passengers : q # p => covjek'[q] = covjek[q]
  BY <1>1 DEF TypeOK, Passenger
<1>4. TypeOK'
  <2>1. Passenger("waiting", f, g, 1) \in
          [state : {"gone", "unborn", "waiting", "calling", "riding"},
           curr : Floors, dest : Floors, lift : Lifts]
    BY DEF Passenger, Lifts
  <2>2. Call(f, IF f < g THEN "gore" ELSE "dole") \in Calls
    BY <1>1, FloorsAssumption DEF Calls, Call, Floors
  <2>3. QED
    BY <1>1, <1>2, <2>1, <2>2 DEF TypeOK, liftVars
<1>5. InsideBuilding' /\ WayFree' /\ PublishedDoorIsThere' /\ DoorInDelay'
  BY <1>2 DEF InsideBuilding, WayFree, PublishedDoorIsThere, DoorInDelay,
              liftVars, Above, Below
<1>6. QueueOK'
  <2>1. \A m \in Lifts : \A i \in 1 .. Len(queue[m]) :
          queue[m][i] \in Passengers /\ queue[m][i] # p
    BY <1>2 DEF TypeOK, QueueOK
  <2>2. QED
    BY <1>2, <1>3, <2>1 DEF QueueOK
<1>7. \A m \in Lifts : \A h, q : OpensFor(m, h, q) => OpensFor(m, h, q)'
  BY <1>2 DEF OpensFor, liftVars
<1>8. NobodyForgotten'
  <2> SUFFICES ASSUME NEW q \in Passengers, covjek'[q].state = "waiting"
               PROVE  Called(q)'
    BY DEF NobodyForgotten
  <2>1. CASE q = p
    BY <1>1, <1>3, <2>1 DEF Called
  <2>2. CASE q # p
    BY <1>1, <1>3, <1>7, <2>2 DEF NobodyForgotten, Called
  <2>3. QED
    BY <2>1, <2>2
<1>9. KeyRemembered'
  BY <1>2, <1>3, <1>7 DEF KeyRemembered, KeyLit, TypeOK, liftVars
<1>10. QED
  BY <1>4, <1>5, <1>6, <1>8, <1>9

(* A look at the doors preserves the inductive invariant: a passenger who     *)
(* stays has seen no door open for it.                                        *)
LEMMA PollIInv == ASSUME IInv, NEW p \in Passengers, Poll(p) PROVE IInv'
<1> USE DEF IInv
<1>1. /\ UNCHANGED <<liftVars, katovi, lift_vrata>>
      /\ unpolled' = [l \in Lifts |-> unpolled[l] \ {p}]
      /\ covjek[p].state \in {"waiting", "riding"}
  BY DEF Poll, Polling
<1>2. \A m \in Lifts : \A f, q : q # p /\ OpensFor(m, f, q) => OpensFor(m, f, q)'
  BY <1>1 DEF OpensFor, liftVars
<1>3. InsideBuilding' /\ WayFree' /\ PublishedDoorIsThere' /\ DoorInDelay'
  BY <1>1 DEF InsideBuilding, WayFree, PublishedDoorIsThere, DoorInDelay,
              liftVars, Above, Below
<1>4. ASSUME NEW l \in Lifts, Enter(p, l)
      PROVE  IInv'
  <2> DEFINE c == Passenger("calling", covjek[p].dest, covjek[p].dest, l)
  <2>1. /\ covjek' = [covjek EXCEPT ![p] = c]
        /\ queue' = [queue EXCEPT ![l] = Append(queue[l], p)]
    BY <1>4 DEF Enter
  <2>2. /\ c \in [state : {"gone", "unborn", "waiting", "calling", "riding"},
                  curr : Floors, dest : Floors, lift : Lifts]
        /\ c.state = "calling" /\ c.lift = l
    BY DEF Passenger, TypeOK
  <2> HIDE DEF c
  <2>3. covjek'[p] = c /\ \A q \in Passengers : q # p => covjek'[q] = covjek[q]
    BY <2>1 DEF TypeOK
  <2>4. TypeOK'
    <3>1. covjek' \in [Passengers ->
            [state : {"gone", "unborn", "waiting", "calling", "riding"},
             curr : Floors, dest : Floors, lift : Lifts]]
      BY <2>1, <2>2 DEF TypeOK
    <3>2. queue' \in [Lifts -> Seq(Passengers)]
      BY <2>1 DEF TypeOK
    <3>3. unpolled' \in [Lifts -> SUBSET Passengers]
      BY <1>1 DEF TypeOK
    <3>4. QED
      BY <1>1, <3>1, <3>2, <3>3 DEF TypeOK, liftVars
  <2>5. QueueOK'
    <3>1. \A m \in Lifts : \A i \in 1 .. Len(queue[m]) :
            queue[m][i] \in Passengers /\ queue[m][i] # p
      BY <1>1 DEF TypeOK, QueueOK
    <3>2. /\ Len(queue'[l]) = Len(queue[l]) + 1
          /\ \A i \in 1 .. Len(queue[l]) : queue'[l][i] = queue[l][i]
          /\ queue'[l][Len(queue[l]) + 1] = p
          /\ Len(queue[l]) \in Nat
      BY <2>1 DEF TypeOK
    <3>3. \A m \in Lifts : m # l => queue'[m] = queue[m]
      BY <2>1 DEF TypeOK
    <3>4. ASSUME NEW i \in 1 .. Len(queue[l]) + 1
          PROVE  \/ i = Len(queue[l]) + 1 /\ queue'[l][i] = p
                 \/ /\ i \in 1 .. Len(queue[l])
                    /\ queue'[l][i] = queue[l][i]
                    /\ queue'[l][i] # p
      BY <3>1, <3>2
    <3>5. \A i \in 1 .. Len(queue'[l]) :
            /\ covjek'[queue'[l][i]].state = "calling"
            /\ covjek'[queue'[l][i]].lift = l
      BY <2>2, <2>3, <3>1, <3>2, <3>4 DEF QueueOK
    <3>6. \A i, j \in 1 .. Len(queue'[l]) :
            queue'[l][i] = queue'[l][j] => i = j
      <4>1. SUFFICES ASSUME NEW i \in 1 .. Len(queue[l]) + 1,
                            NEW j \in 1 .. Len(queue[l]) + 1,
                            queue'[l][i] = queue'[l][j]
                     PROVE  i = j
        BY <3>2
      <4>2. \A k, n \in 1 .. Len(queue[l]) : queue[l][k] = queue[l][n] => k = n
        BY DEF QueueOK
      <4>3. CASE i \in 1 .. Len(queue[l]) /\ j \in 1 .. Len(queue[l])
        BY <3>2, <4>1, <4>2, <4>3
      <4>4. CASE i = Len(queue[l]) + 1 \/ j = Len(queue[l]) + 1
        BY <3>2, <3>4, <4>1, <4>4
      <4>5. QED
        BY <3>4, <4>3, <4>4
    <3>7. QED
      BY <2>3, <3>1, <3>3, <3>5, <3>6 DEF QueueOK
  <2>6. NobodyForgotten' /\ KeyRemembered'
    BY <1>1, <1>2, <2>2, <2>3
       DEF NobodyForgotten, Called, KeyRemembered, KeyLit, TypeOK, liftVars
  <2>7. QED
    BY <1>3, <2>4, <2>5, <2>6
<1>5. ASSUME Exit(p) \/ Stay(p)
      PROVE  IInv'
  <2>1. UNCHANGED queue
    BY <1>5 DEF Exit, Stay
  <2>2. covjek'[p] = covjek[p] \/ covjek'[p].state = "gone"
    BY <1>5 DEF Exit, Stay, TypeOK, Absent, Passenger
  <2>3. \A q \in Passengers : q # p => covjek'[q] = covjek[q]
    BY <1>5 DEF Exit, Stay, TypeOK
  <2>4. TypeOK'
    <3>1. covjek' \in [Passengers ->
            [state : {"gone", "unborn", "waiting", "calling", "riding"},
             curr : Floors, dest : Floors, lift : Lifts]]
      <4>1. Absent("gone") \in
              [state : {"gone", "unborn", "waiting", "calling", "riding"},
               curr : Floors, dest : Floors, lift : Lifts]
        BY FloorsAssumption DEF Absent, Passenger, Floors, Lifts
      <4>2. QED
        BY <1>5, <4>1 DEF Exit, Stay, TypeOK
    <3>2. unpolled' \in [Lifts -> SUBSET Passengers]
      BY <1>1 DEF TypeOK
    <3>3. QED
      BY <1>1, <2>1, <3>1, <3>2 DEF TypeOK, liftVars
  <2>5. QueueOK'
    <3>1. \A m \in Lifts : \A i \in 1 .. Len(queue[m]) :
            queue[m][i] \in Passengers /\ queue[m][i] # p
      BY <1>1 DEF TypeOK, QueueOK
    <3>2. QED
      BY <2>1, <2>3, <3>1 DEF QueueOK
  <2>6. ASSUME NEW l \in Lifts, NEW f \in Floors, OpensFor(l, f, p),
               f \notin lift_vrata[l]
        PROVE  OpensFor(l, f, p)'
    <3>1. pc[l] = "publish"
      BY <2>6 DEF OpensFor, DoorInDelay
    <3>2. QED
      BY <1>1, <2>6, <3>1 DEF OpensFor, liftVars
  <2>7. ASSUME covjek'[p].state \in {"waiting", "riding"}
        PROVE  Stay(p) /\ covjek'[p] = covjek[p]
    BY <1>5, <2>7 DEF Exit, Stay, TypeOK, Absent, Passenger
  <2>8. NobodyForgotten'
    <3> SUFFICES ASSUME NEW q \in Passengers, covjek'[q].state = "waiting"
                 PROVE  Called(q)'
      BY DEF NobodyForgotten
    <3>1. CASE q = p
      BY <1>1, <2>6, <2>7, <3>1 DEF NobodyForgotten, Called, Stay, TypeOK
    <3>2. CASE q # p
      BY <1>1, <1>2, <2>3, <3>2 DEF NobodyForgotten, Called
    <3>3. QED
      BY <3>1, <3>2
  <2>9. KeyRemembered'
    <3> SUFFICES ASSUME NEW q \in Passengers, covjek'[q].state = "riding"
                 PROVE  KeyLit(q)'
      BY DEF KeyRemembered
    <3>1. CASE q = p
      BY <1>1, <2>6, <2>7, <3>1
         DEF KeyRemembered, KeyLit, Stay, TypeOK, liftVars
    <3>2. CASE q # p
      BY <1>1, <1>2, <2>3, <3>2 DEF KeyRemembered, KeyLit, TypeOK, liftVars
    <3>3. QED
      BY <3>1, <3>2
  <2>10. QED
    BY <1>3, <2>4, <2>5, <2>8, <2>9
<1>6. QED
  BY <1>4, <1>5 DEF Poll

(* Every step preserves the inductive invariant. *)
LEMMA NextIInv == IInv /\ [Next]_vars => IInv'
<1> SUFFICES ASSUME IInv, [Next]_vars PROVE IInv'
  OBVIOUS
<1>1. CASE UNCHANGED vars
  BY <1>1 DEF vars, liftVars, IInv, TypeOK, InsideBuilding, WayFree, Above, Below,
              PublishedDoorIsThere, DoorInDelay, QueueOK, NobodyForgotten,
              Called, KeyRemembered, KeyLit, OpensFor
<1>2. ASSUME NEW l \in Lifts, Lift(l) PROVE IInv'
  BY <1>2, PublishIInv, WakeIInv, LookIInv, DecideIInv DEF Lift
<1>3. ASSUME NEW p \in Passengers, Arrive(p) \/ Poll(p) PROVE IInv'
  BY <1>3, ArriveIInv, PollIInv
<1>4. QED
  BY <1>1, <1>2, <1>3 DEF Next

(* The inductive invariant holds in every reachable state. *)
LEMMA Invariance == Spec => []IInv
  BY InitIInv, NextIInv, PTL DEF Spec

(* The variables of the Ada program keep their types. *)
THEOREM TypeCorrect == Spec => []TypeOK
<1>1. IInv => TypeOK
  BY DEF IInv
<1>2. QED
  BY <1>1, Invariance, PTL

(* No lift leaves the building, although the guards of its move would let it: *)
(* katovi(kat) is always in range.                                            *)
THEOREM StaysInBuilding == Spec => []InsideBuilding
<1>1. IInv => InsideBuilding
  BY DEF IInv
<1>2. QED
  BY <1>1, Invariance, PTL

(* Nobody walks through a door with no lift behind it. *)
THEOREM DoorIsReal == Spec => []PublishedDoorIsThere
<1>1. IInv => PublishedDoorIsThere
  BY DEF IInv
<1>2. QED
  BY <1>1, Invariance, PTL

(* A hall call is never lost between two lifts and the passengers, whatever   *)
(* their interleaving and however old the flags a lift decides on.            *)
THEOREM CallsAreKept == Spec => []NobodyForgotten
<1>1. IInv => NobodyForgotten
  BY DEF IInv
<1>2. QED
  BY <1>1, Invariance, PTL

(* The key of a passenger in a lift is never lost. *)
THEOREM KeysAreKept == Spec => []KeyRemembered
<1>1. IInv => KeyRemembered
  BY DEF IInv
<1>2. QED
  BY <1>1, Invariance, PTL
==============================================================================
