------------------------------ MODULE AdaLifts ------------------------------
(* The program of src/04-ada: two lift tasks, passenger tasks created without *)
(* end, and the hall calls katovi they share.  A lift decides under sem, on   *)
(* flags it read from katovi before, outside sem, one floor after the other.  *)
EXTENDS Integers, Sequences, FiniteSets

CONSTANTS FLOORS,        \* 4 in the code
          Passengers,    \* bound: the passengers created
          Overlap        \* TRUE: the lifts' rounds overlap, FALSE: one works
                         \* while the other one is in its delay

ASSUME FloorsAssumption == FLOORS \in Nat /\ FLOORS >= 2
ASSUME OverlapAssumption == Overlap \in BOOLEAN

Lifts  == {1, 2}
Floors == 1 .. FLOORS
Call(f, c) == [floor |-> f, call |-> c]
Calls == {Call(f, c) : f \in Floors, c \in {"gore", "dole"}}
           \ {Call(1, "dole"), Call(FLOORS, "gore")}
Flags  == {"gore_gore", "gore_dole", "dole_gore", "dole_dole",
           "nastavi_gore", "nastavi_dole"}

VARIABLES
  pc,                    \* of each lift: publish, delay, look or decide
  kat, smjer, vrata,     \* lift_stanje, for each lift
  tipke,                 \* its keys, as the set of pressed ones
  flags,                 \* the flags of this round that are True
  looking,               \* the floor the round looks at next
  katovi,                \* the hall calls, as the set of pending ones
  lift_vrata,            \* lift1_vrata and lift2_vrata, as sets of floors
  queue,                 \* passengers waiting to be accepted by key_pressed
  covjek,                \* the passengers
  unpolled               \* passengers that did not look at the doors since
                         \* the lift last published its own

liftVars == <<pc, kat, smjer, vrata, tipke, flags, looking>>
vars     == <<liftVars, katovi, lift_vrata, queue, covjek, unpolled>>

Passenger(state, curr, dest, lift) ==
  [state |-> state, curr |-> curr, dest |-> dest, lift |-> lift]

(* A passenger that exists not yet, or no more. *)
Absent(state) == Passenger(state, 1, 1, 1)

Init == /\ pc = [l \in Lifts |-> "publish"]
        /\ kat = [l \in Lifts |-> 1]
        /\ smjer = [l \in Lifts |-> 0]
        /\ vrata = [l \in Lifts |-> FALSE]
        /\ tipke = [l \in Lifts |-> {}]
        /\ flags = [l \in Lifts |-> {}]
        /\ looking = [l \in Lifts |-> 1]
        /\ katovi = {}
        /\ lift_vrata = [l \in Lifts |-> {}]
        /\ queue = [l \in Lifts |-> <<>>]
        /\ covjek = [p \in Passengers |-> Absent("unborn")]
        /\ unpolled = [l \in Lifts |-> {}]

------------------------------------------------------------------------------
(* One round of a lift. *)

(* The passengers that look at the doors every second. *)
Polling == {p \in Passengers : covjek[p].state \in {"waiting", "riding"}}

(* Mutant of Publish: a closed door is not published. *)
PublishOpen(l) ==
  /\ pc[l] = "publish"
  /\ pc' = [pc EXCEPT ![l] = "delay"]
  /\ flags' = [flags EXCEPT ![l] = {}]
  /\ lift_vrata' = [lift_vrata EXCEPT ![l] =
                      IF vrata[l] THEN @ \cup {kat[l]} ELSE @]
  /\ unpolled' = [unpolled EXCEPT ![l] = Polling]
  /\ UNCHANGED <<kat, smjer, vrata, tipke, looking, katovi, queue, covjek>>

(* The flags are reset, and the door is published before the delay of 5 s. *)
Publish(l) ==
  /\ pc[l] = "publish"
  /\ pc' = [pc EXCEPT ![l] = "delay"]
  /\ flags' = [flags EXCEPT ![l] = {}]
  /\ lift_vrata' = [lift_vrata EXCEPT ![l] =
                      IF vrata[l] THEN @ \cup {kat[l]} ELSE @ \ {kat[l]}]
  /\ unpolled' = [unpolled EXCEPT ![l] = Polling]
  /\ UNCHANGED <<kat, smjer, vrata, tipke, looking, katovi, queue, covjek>>

(* Mutant of Move: the lift moves while it closes its door. *)
MoveClosing(l) ==
  /\ vrata' = [vrata EXCEPT ![l] = FALSE]
  /\ kat' = [kat EXCEPT ![l] = @ + smjer[l]]

(* A closed lift moves one floor, an open one closes its door. *)
Move(l) ==
  LET free == \/ smjer[l] = 1 /\ kat[l] <= FLOORS
              \/ smjer[l] = -1 /\ kat[l] >= 1
  IN  IF vrata[l]
      THEN vrata' = [vrata EXCEPT ![l] = FALSE] /\ UNCHANGED kat
      ELSE /\ kat' = [kat EXCEPT ![l] = IF free THEN @ + smjer[l] ELSE @]
           /\ UNCHANGED vrata

(* select: at most one passenger has its key accepted in a round. *)
AcceptKey(l) ==
  IF queue[l] = <<>>
  THEN UNCHANGED <<tipke, queue, covjek>>
  ELSE LET p == Head(queue[l])
       IN  /\ tipke' = [tipke EXCEPT ![l] = @ \cup {covjek[p].dest}]
           /\ queue' = [queue EXCEPT ![l] = Tail(@)]
           /\ covjek' = [covjek EXCEPT ![p] =
                            Passenger("riding", @.dest, @.dest, @.lift)]

(* The end of the delay.  It is five times the delay of a passenger, so every *)
(* passenger that was there when the door was published has looked at it.     *)
Wake(l) ==
  /\ pc[l] = "delay"
  /\ unpolled[l] = {}
  /\ Overlap \/ \A m \in Lifts : pc[m] = "delay"
  /\ pc' = [pc EXCEPT ![l] = "look"]
  /\ looking' = [looking EXCEPT ![l] = 1]
  /\ Move(l)
  /\ AcceptKey(l)
  /\ UNCHANGED <<smjer, flags, katovi, lift_vrata, unpolled>>

(* Mutant of FlagsOf: the keys inside the lift are not looked at. *)
FlagsOfCalls(f, k, calls, keys) ==
  LET up   == Call(f, "gore") \in calls
      down == Call(f, "dole") \in calls
  IN  {x \in Flags : \/ f > k /\ x = "gore_gore" /\ up
                     \/ f > k /\ x = "gore_dole" /\ down
                     \/ f < k /\ x = "dole_gore" /\ up
                     \/ f < k /\ x = "dole_dole" /\ down
                     \/ f = k /\ x = "nastavi_gore" /\ up
                     \/ f = k /\ x = "nastavi_dole" /\ down}

(* What the calls and keys of floor f mean to a lift at floor k. *)
FlagsOf(f, k, calls, keys) ==
  LET up   == Call(f, "gore") \in calls \/ f \in keys
      down == Call(f, "dole") \in calls \/ f \in keys
  IN  {x \in Flags : \/ f > k /\ x = "gore_gore" /\ up
                     \/ f > k /\ x = "gore_dole" /\ down
                     \/ f < k /\ x = "dole_gore" /\ up
                     \/ f < k /\ x = "dole_dole" /\ down
                     \/ f = k /\ x = "nastavi_gore" /\ up
                     \/ f = k /\ x = "nastavi_dole" /\ down}

(* Mutant of Look: the loop runs one floor too far. *)
LookTooFar(l) ==
  /\ pc[l] = "look"
  /\ IF looking[l] <= FLOORS + 1
     THEN looking' = [looking EXCEPT ![l] = @ + 1] /\ UNCHANGED pc
     ELSE pc' = [pc EXCEPT ![l] = "decide"] /\ UNCHANGED looking
  /\ UNCHANGED <<flags, kat, smjer, vrata, tipke, katovi, lift_vrata, queue,
                 covjek, unpolled>>

(* The floors are looked at from the bottom to the top, the floor of the lift *)
(* after them; the two calls of a floor, which the code reads one after the   *)
(* other, in one step.                                                        *)
Look(l) ==
  /\ pc[l] = "look"
  /\ LET f == IF looking[l] <= FLOORS THEN looking[l] ELSE kat[l]
     IN  flags' = [flags EXCEPT ![l] =
                     IF looking[l] = kat[l] THEN @
                     ELSE @ \cup FlagsOf(f, kat[l], katovi, tipke[l])]
  /\ IF looking[l] <= FLOORS
     THEN looking' = [looking EXCEPT ![l] = @ + 1] /\ UNCHANGED pc
     ELSE pc' = [pc EXCEPT ![l] = "decide"] /\ UNCHANGED looking
  /\ UNCHANGED <<kat, smjer, vrata, tipke, katovi, lift_vrata, queue, covjek,
                 unpolled>>

(* The decision.  A direction d is 1 (up) or -1 (down).                       *)
Above(l) == flags[l] \cap {"gore_gore", "gore_dole"} # {}
Below(l) == flags[l] \cap {"dole_gore", "dole_dole"} # {}

Ahead(l, d)     == IF d = 1 THEN Above(l) ELSE Below(l)
CalledFor(l, d) == (IF d = 1 THEN "nastavi_gore" ELSE "nastavi_dole") \in flags[l]

(* Mutant of Stop: all keys inside the lift are cleared. *)
StopClearsKeys(l, d) ==
  /\ vrata' = [vrata EXCEPT ![l] = TRUE]
  /\ smjer' = [smjer EXCEPT ![l] = d]
  /\ katovi' = katovi \ {Call(kat[l], IF d = 1 THEN "gore" ELSE "dole")}
  /\ tipke' = [tipke EXCEPT ![l] = {}]

(* The door will open; the call for direction d and the key are cleared.      *)
Stop(l, d) ==
  /\ vrata' = [vrata EXCEPT ![l] = TRUE]
  /\ smjer' = [smjer EXCEPT ![l] = d]
  /\ katovi' = katovi \ {Call(kat[l], IF d = 1 THEN "gore" ELSE "dole")}
  /\ tipke' = [tipke EXCEPT ![l] = @ \ {kat[l]}]

Turn(l, d) == /\ smjer' = [smjer EXCEPT ![l] = d]
              /\ UNCHANGED <<vrata, katovi, tipke>>

StopOnward(l, d) == /\ smjer[l] = d
                    /\ CalledFor(l, d)
                    /\ Stop(l, d)

(* Mutant of StopAndReverse: the door stays closed. *)
StopAndReverseClosed(l, d) ==
  /\ smjer[l] = d
  /\ ~CalledFor(l, d)
  /\ CalledFor(l, -d)
  /\ ~Ahead(l, d)
  /\ smjer' = [smjer EXCEPT ![l] = -d]
  /\ katovi' = katovi \ {Call(kat[l], IF d = -1 THEN "gore" ELSE "dole")}
  /\ tipke' = [tipke EXCEPT ![l] = @ \ {kat[l]}]
  /\ UNCHANGED vrata

StopAndReverse(l, d) == /\ smjer[l] = d
                        /\ ~CalledFor(l, d)
                        /\ CalledFor(l, -d)
                        /\ ~Ahead(l, d)
                        /\ Stop(l, -d)

Reverse(l, d) == /\ smjer[l] = d
                 /\ ~CalledFor(l, d) /\ ~CalledFor(l, -d)
                 /\ ~Ahead(l, d) /\ Ahead(l, -d)
                 /\ Turn(l, -d)

GoOn(l, d) == /\ smjer[l] = d
              /\ ~CalledFor(l, d)
              /\ Ahead(l, d)
              /\ UNCHANGED <<smjer, vrata, katovi, tipke>>

Rest(l, d) == /\ smjer[l] = d
              /\ ~CalledFor(l, d) /\ ~CalledFor(l, -d)
              /\ ~Ahead(l, d) /\ ~Ahead(l, -d)
              /\ Turn(l, 0)

(* Mutant of Start: it goes up only when both kinds of flags above are set. *)
StartBoth(l) ==
  LET up   == {"gore_gore", "gore_dole"} \subseteq flags[l]
      down == {"dole_gore", "dole_dole"} \subseteq flags[l]
  IN  /\ smjer[l] = 0
      /\ \/ up /\ Turn(l, 1)
         \/ ~up /\ down /\ Turn(l, -1)
         \/ ~up /\ ~down /\ Turn(l, 0)

(* A lift at rest goes down only when both kinds of flags below are set. *)
Start(l) ==
  LET up   == Above(l)
      down == {"dole_gore", "dole_dole"} \subseteq flags[l]
  IN  /\ smjer[l] = 0
      /\ \/ up /\ Turn(l, 1)
         \/ ~up /\ down /\ Turn(l, -1)
         \/ ~up /\ ~down /\ Turn(l, 0)

(* The section under sem. *)
Decide(l) ==
  /\ pc[l] = "decide"
  /\ pc' = [pc EXCEPT ![l] = "publish"]
  /\ \/ Start(l)
     \/ \E d \in {1, -1} : \/ StopOnward(l, d) \/ StopAndReverse(l, d)
                           \/ Reverse(l, d) \/ GoOn(l, d) \/ Rest(l, d)
  /\ UNCHANGED <<kat, flags, looking, lift_vrata, queue, covjek, unpolled>>

Lift(l) == Publish(l) \/ Wake(l) \/ Look(l) \/ Decide(l)

------------------------------------------------------------------------------
(* The passengers. *)

(* A passenger is created and calls a lift under sem.  It draws its floors    *)
(* anew, a second apart, until they differ, so any time may pass between two  *)
(* calls.                                                                     *)
Arrive(p) ==
  /\ covjek[p].state = "unborn"
  /\ \E f, g \in Floors :
       /\ f # g
       /\ covjek' = [covjek EXCEPT ![p] = Passenger("waiting", f, g, 1)]
       /\ katovi' = katovi \cup {Call(f, IF f < g THEN "gore" ELSE "dole")}
  /\ UNCHANGED <<liftVars, lift_vrata, queue, unpolled>>

(* It enters the first lift whose door is open on its floor, whatever way the *)
(* lift is going, and waits until the lift accepts its key.  curr is of no    *)
(* use any more, the model forgets it.                                        *)
Enter(p, l) ==
  /\ covjek[p].state = "waiting"
  /\ covjek[p].curr \in lift_vrata[l]
  /\ l = 2 => covjek[p].curr \notin lift_vrata[1]
  /\ covjek' = [covjek EXCEPT ![p] =
                             Passenger("calling", @.dest, @.dest, l)]
  /\ queue' = [queue EXCEPT ![l] = Append(@, p)]

(* It leaves its lift when the door is open where it wants to go. *)
Exit(p) ==
  /\ covjek[p].state = "riding"
  /\ covjek[p].dest \in lift_vrata[covjek[p].lift]
  /\ covjek' = [covjek EXCEPT ![p] = Absent("gone")]
  /\ UNCHANGED queue

Stay(p) ==
  /\ \/ /\ covjek[p].state = "waiting"
        /\ \A l \in Lifts : covjek[p].curr \notin lift_vrata[l]
     \/ /\ covjek[p].state = "riding"
        /\ covjek[p].dest \notin lift_vrata[covjek[p].lift]
  /\ UNCHANGED <<covjek, queue>>

(* Once a second. *)
Poll(p) == /\ p \in Polling
           /\ (\E l \in Lifts : Enter(p, l)) \/ Exit(p) \/ Stay(p)
           /\ unpolled' = [l \in Lifts |-> unpolled[l] \ {p}]
           /\ UNCHANGED <<liftVars, katovi, lift_vrata>>

------------------------------------------------------------------------------
Next == \/ \E l \in Lifts : Lift(l)
        \/ \E p \in Passengers : Arrive(p) \/ Poll(p)

(* Delays end and sem is held for a moment only.  Without Overlap a lift that *)
(* may wake has to wait for the other one now and then: hence SF.             *)
Fairness == /\ \A l \in Lifts : SF_vars(Lift(l))
            /\ \A p \in Passengers : WF_vars(Poll(p))

Spec == Init /\ [][Next]_vars /\ Fairness

------------------------------------------------------------------------------
TypeOK ==
  /\ pc \in [Lifts -> {"publish", "delay", "look", "decide"}]
  /\ kat \in [Lifts -> Int]
  /\ smjer \in [Lifts -> {-1, 0, 1}]
  /\ vrata \in [Lifts -> BOOLEAN]
  /\ tipke \in [Lifts -> SUBSET Floors]
  /\ flags \in [Lifts -> SUBSET Flags]
  /\ looking \in [Lifts -> 1 .. FLOORS + 1]
  /\ katovi \in SUBSET Calls
  /\ lift_vrata \in [Lifts -> SUBSET Floors]
  /\ queue \in [Lifts -> Seq(Passengers)]
  /\ covjek \in [Passengers -> [state : {"gone","unborn", "waiting", "calling", "riding"},
                                curr : Floors, dest : Floors, lift : Lifts]]
  /\ unpolled \in [Lifts -> SUBSET Passengers]

(* The guards of the move (kat <= 4, kat >= 1) let a lift leave the building; *)
(* that it never does rests on what it decided in the round before, on calls  *)
(* that another lift may have answered since.                                 *)
InsideBuilding == \A l \in Lifts : kat[l] \in Floors

(* A door that passengers see open is the door of a lift that stands there.   *)
PublishedDoorIsThere == \A l \in Lifts : lift_vrata[l] \subseteq {kat[l]}

(* The lift stands at floor f with its door open, or about to open, and will  *)
(* not leave before passenger p has looked.                                   *)
OpensFor(l, f, p) == /\ kat[l] = f
                     /\ vrata[l]
                     /\ pc[l] = "publish" \/ p \in unpolled[l]

(* The call is still pending, or a lift opens for the passenger. *)
Called(p) ==
  LET f == covjek[p].curr
      c == IF f < covjek[p].dest THEN "gore" ELSE "dole"
  IN  Call(f, c) \in katovi \/ \E l \in Lifts : OpensFor(l, f, p)

(* The key is lit in the lift, or the lift opens for the passenger. *)
KeyLit(p) ==
  LET l == covjek[p].lift
      f == covjek[p].dest
  IN  f \in tipke[l] \/ OpensFor(l, f, p)

(* Nobody who waits is forgotten: a call is cleared only by a lift that then  *)
(* opens for everybody who waits there.                                       *)
NobodyForgotten ==
  \A p \in Passengers : covjek[p].state = "waiting" => Called(p)

(* A key that was pressed is not lost before the lift opens at that floor.    *)
KeyRemembered ==
  \A p \in Passengers : covjek[p].state = "riding" => KeyLit(p)

(* Whoever has entered a lift gets where he wants. *)
EveryRideEnds ==
  \A p \in Passengers : covjek[p].state = "calling" ~> covjek[p].state = "gone"

(* A call above one of the lifts is answered. *)
CallsAboveAnswered ==
  \A c \in {x \in Calls : x.floor > 1} :
    c \in katovi /\ (\E l \in Lifts : kat[l] < c.floor) ~> c \notin katovi
==============================================================================
