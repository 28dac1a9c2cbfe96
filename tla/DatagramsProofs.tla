--------------------------- MODULE DatagramsProofs ---------------------------
(* Theorems about the ids and the list of datagrams, for any number of        *)
(* threads, any number of datagrams and any deadline of less than a second.   *)
EXTENDS Datagrams, SequenceTheorems, TLAPS

(* The clock: its parts are in range and together are the time.               *)
LEMMA ClockParts ==
  ASSUME NEW n \in Nat
  PROVE  /\ n \div SECOND \in Nat
         /\ n % SECOND \in 0 .. SECOND - 1
         /\ n = SECOND * (n \div SECOND) + (n % SECOND)
<1>1. SECOND \in Nat /\ SECOND > 0
  BY TimesAssumption
<1>2. n \div SECOND \in Nat
  BY <1>1
<1>3. n % SECOND \in 0 .. SECOND - 1
  BY <1>1
<1>4. n % SECOND = n - SECOND * (n \div SECOND)
  BY <1>1, SMTT(30)
<1>5. SECOND * (n \div SECOND) \in Nat
  BY <1>1, <1>2
<1>6. n = SECOND * (n \div SECOND) + (n % SECOND)
  <2> DEFINE a == SECOND * (n \div SECOND)
             b == n % SECOND
  <2>1. a \in Nat /\ b \in Nat /\ b = n - a
    BY <1>3, <1>4, <1>5, <1>1
  <2> HIDE DEF a, b
  <2>2. n = a + b
    BY <2>1
  <2> QED  BY <2>2 DEF a, b
<1> QED  BY <1>2, <1>3, <1>6

LEMMA ClockIsTime ==
  ASSUME TypeOK
  PROVE  ClockGetTime \in Times
BY ClockParts DEF TypeOK, ClockGetTime, Time, Times

(* A sum of a time and less than a second is a time. *)
LEMMA DeadlineIsTime ==
  ASSUME NEW ts \in Times
  PROVE  ClockAddTimeout(ts, TIMEOUT) \in Times
BY TimesAssumption DEF Times, Time, ClockAddTimeout

(* The moment a struct timespec stands for. *)
Moment(ts) == SECOND * ts.sec + ts.nsec

LEMMA DeadlineMoment ==
  ASSUME NEW ts \in Times
  PROVE  Moment(ClockAddTimeout(ts, TIMEOUT)) = Moment(ts) + TIMEOUT
BY TimesAssumption DEF Times, Time, ClockAddTimeout, Moment

LEMMA BeforeIsLess ==
  ASSUME NEW ts \in Times, NEW t \in Times
  PROVE  Before(ts, t) <=> Moment(ts) < Moment(t)
BY TimesAssumption DEF Times, Time, Before, Moment

LEMMA ClockMoment ==
  ASSUME TypeOK
  PROVE  Moment(ClockGetTime) = now
<1>1. now = SECOND * (now \div SECOND) + (now % SECOND)
  BY ClockParts DEF TypeOK
<1>2. /\ ClockGetTime.sec = now \div SECOND
      /\ ClockGetTime.nsec = now % SECOND
  BY DEF ClockGetTime, Time
<1> QED  BY <1>1, <1>2 DEF Moment

------------------------------------------------------------------------------
(* What stays in the list when the datagram at place n is unlinked: the       *)
(* others, in their order.                                                    *)
LEMMA UnlinkOne ==
  ASSUME datagram_list \in Seq(Messages), NEW n \in DOMAIN datagram_list
  PROVE  /\ Unlink(n - 1, n) \in Seq(Messages)
         /\ n \in 1 .. Len(datagram_list)
         /\ DOMAIN Unlink(n - 1, n) = 1 .. Len(datagram_list) - 1
         /\ Len(Unlink(n - 1, n)) = Len(datagram_list) - 1
         /\ \A k \in 1 .. Len(datagram_list) - 1 :
              Unlink(n - 1, n)[k] =
                IF k < n THEN datagram_list[k] ELSE datagram_list[k + 1]
<1> DEFINE front == SubSeq(datagram_list, 1, n - 1)
           back  == SubSeq(datagram_list, n + 1, Len(datagram_list))
<1>1. /\ Len(datagram_list) \in Nat /\ n \in 1 .. Len(datagram_list)
      /\ \A i \in 1 .. Len(datagram_list) : datagram_list[i] \in Messages
  BY LenProperties
<1>2. /\ front \in Seq(Messages)
      /\ Len(front) = n - 1
      /\ \A i \in 1 .. n - 1 : front[i] = datagram_list[i]
  <2>1. \A i \in 1 .. n - 1 : datagram_list[i] \in Messages
    BY <1>1
  <2> HIDE DEF front
  <2>2. /\ front \in Seq(Messages)
        /\ Len(front) = IF 1 <= n - 1 THEN (n - 1) - 1 + 1 ELSE 0
        /\ \A i \in 1 .. (n - 1) - 1 + 1 : front[i] = datagram_list[1 + i - 1]
    BY <2>1, <1>1, SubSeqProperties DEF front
  <2> QED  BY <2>2, <1>1
<1>3. /\ back \in Seq(Messages)
      /\ Len(back) = Len(datagram_list) - n
      /\ \A i \in 1 .. Len(datagram_list) - n : back[i] = datagram_list[n + i]
  <2>1. \A i \in n + 1 .. Len(datagram_list) : datagram_list[i] \in Messages
    BY <1>1
  <2> HIDE DEF back
  <2>2. /\ back \in Seq(Messages)
        /\ Len(back) = IF n + 1 <= Len(datagram_list)
                       THEN Len(datagram_list) - (n + 1) + 1 ELSE 0
        /\ \A i \in 1 .. Len(datagram_list) - (n + 1) + 1 :
             back[i] = datagram_list[n + 1 + i - 1]
    BY <2>1, <1>1, SubSeqProperties DEF back
  <2> QED  BY <2>2, <1>1
<1>4. Unlink(n - 1, n) = front \o back
  BY DEF Unlink
<1> HIDE DEF front, back
<1>5. /\ front \o back \in Seq(Messages)
      /\ Len(front \o back) = Len(front) + Len(back)
      /\ \A i \in 1 .. Len(front) + Len(back) :
           (front \o back)[i] = IF i <= Len(front) THEN front[i]
                                ELSE back[i - Len(front)]
  BY <1>2, <1>3, ConcatProperties
<1>6. DOMAIN (front \o back) = 1 .. Len(front \o back)
  BY <1>5, LenProperties
<1>7. Len(front \o back) = Len(datagram_list) - 1
  BY <1>1, <1>2, <1>3, <1>5
<1>8. ASSUME NEW k \in 1 .. Len(datagram_list) - 1
      PROVE  (front \o back)[k] =
               IF k < n THEN datagram_list[k] ELSE datagram_list[k + 1]
  <2> DEFINE len == Len(datagram_list)
  <2>1. /\ len \in Nat /\ n \in 1 .. len /\ k \in 1 .. len - 1
        /\ Len(front) = n - 1 /\ Len(back) = len - n
    BY <1>1, <1>2, <1>3
  <2> HIDE DEF len
  <2>2. (front \o back)[k] = IF k <= n - 1 THEN front[k] ELSE back[k - (n - 1)]
    <3>1. k \in 1 .. Len(front) + Len(back)
      BY <2>1
    <3> QED  BY <1>5, <2>1, <3>1
  <2>3. CASE k < n
    <3>1. k <= n - 1 /\ k \in 1 .. n - 1
      BY <2>1, <2>3
    <3> QED  BY <1>2, <2>2, <2>3, <3>1
  <2>4. CASE ~(k < n)
    <3>1. ~(k <= n - 1) /\ k - (n - 1) \in 1 .. len - n /\ n + (k - (n - 1)) = k + 1
      BY <2>1, <2>4
    <3>2. \A i \in 1 .. len - n : back[i] = datagram_list[n + i]
      BY <1>3 DEF len
    <3>3. back[k - (n - 1)] = datagram_list[k + 1]
      BY <3>1, <3>2
    <3> QED  BY <2>2, <2>4, <3>1, <3>3
  <2> QED  BY <2>3, <2>4
<1> QED  BY <1>1, <1>4, <1>5, <1>6, <1>7, <1>8

(* Nothing is added to the list and nothing else is lost from it; no datagram *)
(* gets into it twice.                                                        *)
DistinctIds(list) == \A k, l \in DOMAIN list : list[k].id = list[l].id => k = l

LEMMA UnlinkMembers ==
  ASSUME datagram_list \in Seq(Messages), NEW n \in DOMAIN datagram_list
  PROVE  /\ Range(Unlink(n - 1, n)) \subseteq Range(datagram_list)
         /\ Range(datagram_list) \ {datagram_list[n]}
              \subseteq Range(Unlink(n - 1, n))
         /\ DistinctIds(datagram_list) =>
              /\ DistinctIds(Unlink(n - 1, n))
              /\ \A m \in Range(Unlink(n - 1, n)) : m.id # datagram_list[n].id
<1> DEFINE new == Unlink(n - 1, n)
           len == Len(datagram_list)
<1>1. /\ n \in 1 .. len /\ DOMAIN new = 1 .. len - 1
      /\ \A k \in 1 .. len - 1 :
           new[k] = IF k < n THEN datagram_list[k] ELSE datagram_list[k + 1]
  BY UnlinkOne
<1>2. len \in Nat /\ DOMAIN datagram_list = 1 .. len
  BY LenProperties
<1> HIDE DEF new, len
<1>3. ASSUME NEW k \in DOMAIN new
      PROVE  \E l \in DOMAIN datagram_list :
               l # n /\ l = (IF k < n THEN k ELSE k + 1) /\ new[k] = datagram_list[l]
  BY <1>1, <1>2
<1>4. Range(new) \subseteq Range(datagram_list)
  BY <1>3 DEF Range
<1>5. ASSUME NEW m \in Range(datagram_list), m # datagram_list[n]
      PROVE  m \in Range(new)
  <2>1. PICK l \in 1 .. len : m = datagram_list[l]
    BY <1>2 DEF Range
  <2>2. l # n
    BY <1>5, <2>1
  <2>3. CASE l < n
    <3>1. l \in 1 .. len - 1 /\ new[l] = m
      BY <1>1, <1>2, <2>1, <2>3
    <3> QED  BY <1>1, <3>1 DEF Range
  <2>4. CASE l > n
    <3>1. l - 1 \in 1 .. len - 1 /\ new[l - 1] = m
      BY <1>1, <1>2, <2>1, <2>4
    <3> QED  BY <1>1, <3>1 DEF Range
  <2> QED  BY <1>1, <2>2, <2>3, <2>4
<1>6. ASSUME DistinctIds(datagram_list), NEW k \in DOMAIN new, NEW l \in DOMAIN new,
             new[k].id = new[l].id
      PROVE  k = l
  <2>1. PICK i \in DOMAIN datagram_list :
          i # n /\ i = (IF k < n THEN k ELSE k + 1) /\ new[k] = datagram_list[i]
    BY <1>3
  <2>2. PICK j \in DOMAIN datagram_list :
          j # n /\ j = (IF l < n THEN l ELSE l + 1) /\ new[l] = datagram_list[j]
    BY <1>3
  <2>3. i = j
    BY <1>6, <2>1, <2>2 DEF DistinctIds
  <2> QED  BY <1>1, <1>2, <2>1, <2>2, <2>3
<1>7. ASSUME DistinctIds(datagram_list), NEW m \in Range(new)
      PROVE  m.id # datagram_list[n].id
  <2>1. PICK k \in DOMAIN new : m = new[k]
    BY DEF Range
  <2>2. PICK l \in DOMAIN datagram_list : l # n /\ m = datagram_list[l]
    BY <1>3, <2>1
  <2> QED  BY <1>1, <1>2, <1>7, <2>2 DEF DistinctIds
<1> QED  BY <1>4, <1>5, <1>6, <1>7 DEF DistinctIds, new

(* A datagram at the head comes in addition to the others. *)
LEMMA InsertMembers ==
  ASSUME datagram_list \in Seq(Messages), NEW m \in Messages
  PROVE  /\ <<m>> \o datagram_list \in Seq(Messages)
         /\ Range(<<m>> \o datagram_list) = Range(datagram_list) \cup {m}
         /\ DistinctIds(datagram_list)
              /\ (\A d \in Range(datagram_list) : d.id # m.id) =>
              DistinctIds(<<m>> \o datagram_list)
<1> DEFINE new == <<m>> \o datagram_list
           len == Len(datagram_list)
<1>1. len \in Nat /\ DOMAIN datagram_list = 1 .. len
  BY LenProperties
<1>2. <<m>> \in Seq(Messages) /\ Len(<<m>>) = 1 /\ <<m>>[1] = m
  OBVIOUS
<1>3. /\ new \in Seq(Messages) /\ Len(new) = 1 + len
      /\ \A i \in 1 .. 1 + len :
           new[i] = IF i <= 1 THEN <<m>>[i] ELSE datagram_list[i - 1]
  BY <1>2, ConcatProperties
<1>4. DOMAIN new = 1 .. len + 1
  BY <1>1, <1>3, LenProperties
<1> HIDE DEF new, len
<1>5. new[1] = m /\ \A i \in 2 .. len + 1 : new[i] = datagram_list[i - 1]
  BY <1>1, <1>2, <1>3
<1>6. \A d \in Range(new) : d = m \/ d \in Range(datagram_list)
  <2> SUFFICES ASSUME NEW i \in 1 .. len + 1, i # 1
               PROVE  new[i] \in Range(datagram_list)
    BY <1>4, <1>5 DEF Range
  <2>1. i - 1 \in 1 .. len /\ new[i] = datagram_list[i - 1]
    BY <1>1, <1>5
  <2> QED  BY <1>1, <2>1 DEF Range
<1>7. \A d \in Range(datagram_list) : d \in Range(new)
  <2> SUFFICES ASSUME NEW i \in 1 .. len PROVE datagram_list[i] \in Range(new)
    BY <1>1 DEF Range
  <2>1. i + 1 \in 1 .. len + 1 /\ new[i + 1] = datagram_list[i]
    BY <1>1, <1>5
  <2> QED  BY <1>4, <2>1 DEF Range
<1>8. m \in Range(new)
  <2>1. 1 \in DOMAIN new
    BY <1>1, <1>4
  <2> QED  BY <1>5, <2>1 DEF Range
<1>9. ASSUME DistinctIds(datagram_list), \A d \in Range(datagram_list) : d.id # m.id
      PROVE  DistinctIds(new)
  <2>1. \A k, l \in 1 .. len : datagram_list[k].id = datagram_list[l].id => k = l
    BY <1>1, <1>9 DEF DistinctIds
  <2>2. \A k \in 1 .. len : datagram_list[k].id # m.id
    BY <1>1, <1>9 DEF Range
  <2>3. \A k \in 2 .. len + 1 : new[k].id # m.id
    BY <1>1, <1>5, <2>2
  <2>4. \A k, l \in 2 .. len + 1 : new[k].id = new[l].id => k = l
    BY <1>1, <1>5, <2>1
  <2>5. \A k \in 1 .. len + 1 : k = 1 \/ k \in 2 .. len + 1
    BY <1>1
  <2> QED  BY <1>4, <1>5, <2>3, <2>4, <2>5 DEF DistinctIds
<1> QED  BY <1>3, <1>6, <1>7, <1>8, <1>9 DEF new

------------------------------------------------------------------------------
(* The owner of a mutex is the thread between its lock and its unlock.        *)
Owners == /\ \A t \in Threads : /\ pc[t] = "increment" => m_get_id = t
                                /\ pc[t] = "insert" => m_datagram_list = t
          /\ walk.curr # 0 => m_datagram_list = CHECK_LIST

(* On its walk check_list is right behind last, in the list or at its end. *)
WalkInList ==
  walk.curr # 0 => /\ walk.curr \in 1 .. Len(datagram_list) + 1
                   /\ walk.last = walk.curr - 1

(* Every id in use was given out, and that of a datagram not sent yet has not *)
(* been seen by anybody.                                                      *)
IdsGivenOut ==
  /\ \A t \in Threads :
       /\ pc[t] = "increment" => msg[t].id = ID
       /\ pc[t] \in {"stamp", "send", "insert"} => msg[t].id < ID
       /\ pc[t] \in {"stamp", "send"} => msg[t].id \notin sent
  /\ \A m \in Range(datagram_list) : m.id < ID
  /\ \A id \in sent \cup acked : id < ID
  /\ sent \cap acked = {}

(* The invariant.  UniqueIds rests on m_get_id: only one thread is between    *)
(* reading and incrementing ID.  AckedNotTracked rests on m_datagram_list,    *)
(* which keeps the listener out between sendto and ListInsert.                *)
IInv ==
  TypeOK /\ Owners /\ WalkInList /\ IdsGivenOut /\ UniqueIds /\ AckedNotTracked

LEMMA InitInvariant == Init => IInv
<1> SUFFICES ASSUME Init PROVE IInv
  OBVIOUS
<1>1. datagram_list = << >> /\ DOMAIN datagram_list = {} /\ Range(datagram_list) = {}
  BY DEF Init, Range
<1>2. TypeOK
  BY TimesAssumption
     DEF Init, TypeOK, Message, Messages, NoWalk, Walk, Walks, Time, Times
<1>3. Owners /\ WalkInList
  BY DEF Init, NoWalk, Walk, Owners, WalkInList
<1>4. IdsGivenOut /\ UniqueIds /\ AckedNotTracked
  BY <1>1 DEF Init, IdsGivenOut, UniqueIds, AckedNotTracked
<1> QED  BY <1>2, <1>3, <1>4 DEF IInv

(* What the types say of the list. *)
LEMMA ListTypes ==
  ASSUME TypeOK
  PROVE  /\ Len(datagram_list) \in Nat /\ DOMAIN datagram_list = 1 .. Len(datagram_list)
         /\ \A n \in DOMAIN datagram_list : datagram_list[n] \in Messages
         /\ \A m \in Range(datagram_list) :
              /\ m \in Messages /\ m.id \in Nat /\ m.timeout \in Times
              /\ m.at \in Nat /\ m.at + TIMEOUT \in Nat
<1>1. /\ Len(datagram_list) \in Nat /\ DOMAIN datagram_list = 1 .. Len(datagram_list)
      /\ \A n \in DOMAIN datagram_list : datagram_list[n] \in Messages
  BY LenProperties, ElementOfSeq DEF TypeOK
<1>2. \A m \in Range(datagram_list) : m \in Messages
  BY <1>1 DEF Range
<1>3. \A m \in Messages : /\ m.id \in Nat /\ m.timeout \in Times
                         /\ m.at \in Nat /\ m.at + TIMEOUT \in Nat
  BY TimesAssumption DEF Messages
<1> QED  BY <1>1, <1>2, <1>3

(* What they say of the ids. *)
LEMMA IdTypes ==
  ASSUME TypeOK
  PROVE  /\ ID \in Nat /\ sent \subseteq Nat /\ acked \subseteq Nat
         /\ \A t \in Threads : /\ msg[t].id \in Nat
                               /\ pc[t] \in {"idle", "increment", "stamp", "send", "insert"}
         /\ datagram_list \in Seq(Messages)
         /\ \A m \in Range(datagram_list) : m.id \in Nat
<1>1. \A m \in Range(datagram_list) : m.id \in Nat
  BY ListTypes
<1>2. \A m \in Messages : m.id \in Nat
  BY DEF Messages
<1> QED  BY <1>1, <1>2 DEF TypeOK

LEMMA ReadIDInvariant ==
  ASSUME IInv, NEW t \in Threads, ReadID(t)
  PROVE  IInv'
<1>1. TypeOK'
  BY DEF IInv, TypeOK, ReadID, Message, Messages
<1>2. /\ pc[t] = "idle" /\ pc'[t] = "increment" /\ msg'[t].id = ID
      /\ \A u \in Threads \ {t} : pc'[u] = pc[u] /\ msg'[u] = msg[u]
      /\ m_get_id = NOBODY /\ m_get_id' = t
      /\ UNCHANGED <<ID, m_datagram_list, datagram_list, walk, sent, acked>>
  BY DEF IInv, TypeOK, ReadID, Message, Messages
<1>3. \A u \in Threads : pc[u] # "increment"
  BY <1>2, ThreadsAssumption DEF IInv, Owners
<1>4. \A u \in Threads : pc[u] # "idle" => msg[u].id < ID
  BY <1>3, IdTypes DEF IInv, IdsGivenOut
<1>5. Owners' /\ WalkInList'
  BY <1>2, <1>3 DEF IInv, Owners, WalkInList
<1>6. IdsGivenOut'
  BY <1>2 DEF IInv, IdsGivenOut
<1>7. UniqueIds'
  <2>1. \A u \in Threads : pc[u] # "idle" => msg[u].id # ID
    BY <1>4, IdTypes DEF IInv
  <2>2. \A m \in Range(datagram_list) : m.id # ID
    BY IdTypes DEF IInv, IdsGivenOut
  <2> QED  BY <1>2, <2>1, <2>2 DEF IInv, UniqueIds
<1>8. AckedNotTracked'
  BY <1>2 DEF IInv, AckedNotTracked
<1> QED  BY <1>1, <1>5, <1>6, <1>7, <1>8 DEF IInv

LEMMA IncrementIDInvariant ==
  ASSUME IInv, NEW t \in Threads, IncrementID(t)
  PROVE  IInv'
<1>1. TypeOK'
  <2>1. msg[t].id + 1 \in Nat
    BY IdTypes DEF IInv
  <2> QED  BY <2>1 DEF IInv, TypeOK, IncrementID
<1>2. /\ pc[t] = "increment" /\ pc'[t] \in {"idle", "stamp"}
      /\ \A u \in Threads \ {t} : pc'[u] = pc[u]
      /\ m_get_id' = NOBODY
      /\ ID' = msg[t].id + 1
      /\ UNCHANGED <<msg, m_datagram_list, datagram_list, walk, sent, acked>>
  BY DEF IInv, TypeOK, IncrementID
<1>3. /\ msg[t].id = ID /\ m_get_id = t
      /\ \A u \in Threads \ {t} : pc[u] # "increment"
  BY <1>2 DEF IInv, Owners, IdsGivenOut
<1>4. ID \in Nat /\ ID' = ID + 1
  BY <1>2, <1>3, IdTypes DEF IInv
<1>5. ID \notin sent /\ ID \notin acked
  BY <1>4 DEF IInv, IdsGivenOut
<1>6. Owners' /\ WalkInList'
  BY <1>2, <1>3 DEF IInv, Owners, WalkInList
<1>7. IdsGivenOut'
  <2>1. \A u \in Threads : pc'[u] \in {"stamp", "send", "insert"} =>
          msg[u].id < ID + 1
    BY <1>2, <1>3, <1>4, IdTypes DEF IInv, IdsGivenOut
  <2>2. \A u \in Threads : pc'[u] \in {"stamp", "send"} => msg[u].id \notin sent
    BY <1>2, <1>3, <1>5 DEF IInv, IdsGivenOut
  <2>3. \A u \in Threads : pc'[u] # "increment"
    BY <1>2, <1>3
  <2>4. \A m \in Range(datagram_list) : m.id < ID + 1
    BY <1>4, IdTypes DEF IInv, IdsGivenOut
  <2>5. \A id \in sent \cup acked : id < ID + 1
    BY <1>4, IdTypes DEF IInv, IdsGivenOut
  <2>6. sent \cap acked = {}
    BY DEF IInv, IdsGivenOut
  <2> QED  BY <1>2, <1>4, <2>1, <2>2, <2>3, <2>4, <2>5, <2>6 DEF IdsGivenOut
<1>8. UniqueIds'
  BY <1>2 DEF IInv, UniqueIds
<1>9. AckedNotTracked'
  BY <1>2, <1>3, <1>5 DEF IInv, AckedNotTracked
<1> QED  BY <1>1, <1>6, <1>7, <1>8, <1>9 DEF IInv

LEMMA StampInvariant ==
  ASSUME IInv, NEW t \in Threads, Stamp(t)
  PROVE  IInv'
<1>1. ClockAddTimeout(ClockGetTime, TIMEOUT) \in Times
  BY ClockIsTime, DeadlineIsTime DEF IInv
<1>2. TypeOK'
  BY <1>1 DEF IInv, TypeOK, Stamp, Message, Messages
<1>3. /\ pc[t] = "stamp" /\ pc'[t] = "send"
      /\ \A u \in Threads \ {t} : pc'[u] = pc[u]
      /\ \A u \in Threads : msg'[u].id = msg[u].id
      /\ UNCHANGED <<ID, m_get_id, m_datagram_list, datagram_list, walk, sent, acked>>
  BY DEF IInv, TypeOK, Stamp, Message, Messages
<1>4. Owners' /\ WalkInList'
  BY <1>3 DEF IInv, Owners, WalkInList
<1>5. IdsGivenOut'
  BY <1>3 DEF IInv, IdsGivenOut
<1>6. UniqueIds'
  BY <1>3 DEF IInv, UniqueIds
<1>7. AckedNotTracked'
  BY <1>3 DEF IInv, AckedNotTracked
<1> QED  BY <1>2, <1>4, <1>5, <1>6, <1>7 DEF IInv

(* While anybody else has the list, check_list is not on its way through it. *)
LEMMA NoWalkMeanwhile ==
  ASSUME IInv, NEW t \in Threads \cup {NOBODY}, m_datagram_list = t
  PROVE  walk.curr = 0
BY ThreadsAssumption DEF IInv, Owners, NOBODY, CHECK_LIST

LEMMA SendToInvariant ==
  ASSUME IInv, NEW t \in Threads, SendTo(t)
  PROVE  IInv'
<1>1. TypeOK'
  <2>1. msg[t].id \in Nat
    BY IdTypes DEF IInv
  <2> QED  BY <2>1 DEF IInv, TypeOK, SendTo
<1>2. /\ pc[t] = "send" /\ pc'[t] = "insert"
      /\ \A u \in Threads \ {t} : pc'[u] = pc[u]
      /\ m_datagram_list = NOBODY /\ m_datagram_list' = t
      /\ sent' = sent \cup {msg[t].id}
      /\ UNCHANGED <<ID, m_get_id, msg, datagram_list, walk, acked>>
  BY DEF IInv, TypeOK, SendTo
<1>3. Owners' /\ WalkInList'
  <2>1. walk.curr = 0
    BY <1>2, NoWalkMeanwhile
  <2> QED  BY <1>2, <2>1, ThreadsAssumption DEF IInv, Owners, WalkInList
<1>4. IdsGivenOut'
  <2>1. \A u \in Threads : pc'[u] \in {"stamp", "send"} => msg[u].id \notin sent'
    BY <1>2 DEF IInv, IdsGivenOut, UniqueIds
  <2>2. \A id \in sent' \cup acked : id < ID
    BY <1>2 DEF IInv, IdsGivenOut
  <2>3. sent' \cap acked = {}
    BY <1>2 DEF IInv, IdsGivenOut, AckedNotTracked
  <2>4. \A u \in Threads :
          /\ pc'[u] = "increment" => msg[u].id = ID
          /\ pc'[u] \in {"stamp", "send", "insert"} => msg[u].id < ID
    BY <1>2 DEF IInv, IdsGivenOut
  <2> QED  BY <1>2, <2>1, <2>2, <2>3, <2>4 DEF IInv, IdsGivenOut
<1>5. UniqueIds'
  BY <1>2 DEF IInv, UniqueIds
<1>6. AckedNotTracked'
  BY <1>2 DEF IInv, AckedNotTracked
<1> QED  BY <1>1, <1>3, <1>4, <1>5, <1>6 DEF IInv

LEMMA ListInsertInvariant ==
  ASSUME IInv, NEW t \in Threads, ListInsert(t)
  PROVE  IInv'
<1>1. /\ pc[t] = "insert" /\ pc'[t] = "idle"
      /\ \A u \in Threads \ {t} : pc'[u] = pc[u]
      /\ pc' = [pc EXCEPT ![t] = "idle"]
      /\ m_datagram_list' = NOBODY
      /\ datagram_list' = <<msg[t]>> \o datagram_list
      /\ UNCHANGED <<ID, m_get_id, msg, walk, sent, acked, now>>
  BY DEF IInv, TypeOK, ListInsert
<1>2. /\ m_datagram_list = t /\ walk.curr = 0
      /\ \A u \in Threads \ {t} : pc[u] # "insert"
  BY <1>1, NoWalkMeanwhile DEF IInv, Owners
<1>3. /\ msg[t] \in Messages
      /\ \A d \in Range(datagram_list) : d.id # msg[t].id
  BY <1>1 DEF IInv, TypeOK, UniqueIds
<1>4. /\ datagram_list' \in Seq(Messages)
      /\ Range(datagram_list') = Range(datagram_list) \cup {msg[t]}
      /\ DistinctIds(datagram_list')
  BY <1>1, <1>3, InsertMembers DEF IInv, TypeOK, UniqueIds, DistinctIds
<1>5. TypeOK'
  BY <1>1, <1>4 DEF IInv, TypeOK
<1>6. Owners' /\ WalkInList'
  BY <1>1, <1>2 DEF IInv, Owners, WalkInList
<1>7. IdsGivenOut'
  <2>1. \A m \in Range(datagram_list') : m.id < ID
    BY <1>1, <1>4 DEF IInv, IdsGivenOut
  <2> QED  BY <1>1, <2>1 DEF IInv, IdsGivenOut
<1>8. UniqueIds'
  <2>1. \A u \in Threads, m \in Range(datagram_list') : pc'[u] # "idle" => msg[u].id # m.id
    BY <1>1, <1>4 DEF IInv, UniqueIds
  <2>2. \A u, v \in Threads :
          pc'[u] # "idle" /\ pc'[v] # "idle" /\ msg[u].id = msg[v].id => u = v
    BY <1>1 DEF IInv, UniqueIds
  <2> QED  BY <1>1, <1>4, <2>1, <2>2 DEF UniqueIds, DistinctIds
<1>9. AckedNotTracked'
  <2>1. \A m \in Range(datagram_list') : m.id \notin acked
    BY <1>1, <1>4 DEF IInv, AckedNotTracked
  <2> QED  BY <1>1, <2>1 DEF IInv, AckedNotTracked
<1> QED  BY <1>5, <1>6, <1>7, <1>8, <1>9 DEF IInv

(* ids are unique, so the first datagram with an id is the only one. *)
LEMMA RemovedById ==
  ASSUME IInv, NEW id, ListRemoveById(id)
  PROVE  /\ datagram_list' \in Seq(Messages)
         /\ DistinctIds(datagram_list')
         /\ Range(datagram_list') \subseteq Range(datagram_list)
         /\ \A m \in Range(datagram_list') : m.id # id
         /\ \A m \in Range(datagram_list) : m.id = id \/ m \in Range(datagram_list')
<1>1. datagram_list \in Seq(Messages) /\ DistinctIds(datagram_list)
  BY DEF IInv, TypeOK, UniqueIds, DistinctIds
<1>2. CASE /\ \A n \in DOMAIN datagram_list : datagram_list[n].id # id
           /\ UNCHANGED datagram_list
  BY <1>1, <1>2 DEF Range
<1>3. CASE \E n \in DOMAIN datagram_list : /\ datagram_list[n].id = id
                                           /\ datagram_list' = Unlink(n - 1, n)
  <2>1. PICK n \in DOMAIN datagram_list :
          datagram_list[n].id = id /\ datagram_list' = Unlink(n - 1, n)
    BY <1>3
  <2>2. Unlink(n - 1, n) \in Seq(Messages)
    BY <1>1, UnlinkOne
  <2> QED  BY <1>1, <2>1, <2>2, UnlinkMembers
<1> QED  BY <1>2, <1>3 DEF ListRemoveById

LEMMA ReceiveAckInvariant ==
  ASSUME IInv, NEW id \in sent, ReceiveAck(id)
  PROVE  IInv'
<1>1. /\ m_datagram_list = NOBODY
      /\ ListRemoveById(id)
      /\ sent' = sent \ {id}
      /\ acked' = acked \cup {id}
      /\ UNCHANGED <<ID, m_get_id, m_datagram_list, pc, msg, walk, now>>
  BY DEF ReceiveAck
<1>2. /\ datagram_list' \in Seq(Messages)
      /\ DistinctIds(datagram_list')
      /\ Range(datagram_list') \subseteq Range(datagram_list)
      /\ \A m \in Range(datagram_list') : m.id # id
  BY <1>1, RemovedById
<1>3. /\ walk.curr = 0
      /\ \A t \in Threads : pc[t] # "insert"
  BY <1>1, NoWalkMeanwhile, ThreadsAssumption DEF IInv, Owners
<1>4. TypeOK'
  BY <1>1, <1>2 DEF IInv, TypeOK
<1>5. Owners' /\ WalkInList'
  BY <1>1, <1>3 DEF IInv, Owners, WalkInList
<1>6. IdsGivenOut'
  BY <1>1, <1>2 DEF IInv, IdsGivenOut
<1>7. UniqueIds'
  BY <1>1, <1>2 DEF IInv, UniqueIds, DistinctIds
<1>8. AckedNotTracked'
  <2>1. \A t \in Threads : pc[t] \in {"stamp", "send"} => msg[t].id # id
    BY DEF IInv, IdsGivenOut
  <2>2. \A m \in Range(datagram_list') : m.id \notin acked'
    BY <1>1, <1>2 DEF IInv, AckedNotTracked
  <2>3. \A t \in Threads : pc[t] \in {"stamp", "send", "insert"} => msg[t].id \notin acked'
    BY <1>1, <1>3, <2>1 DEF IInv, AckedNotTracked
  <2> QED  BY <1>1, <2>2, <2>3 DEF AckedNotTracked
<1> QED  BY <1>4, <1>5, <1>6, <1>7, <1>8 DEF IInv

LEMMA BeginWalkInvariant ==
  ASSUME IInv, BeginWalk
  PROVE  IInv'
<1>1. /\ m_datagram_list = NOBODY /\ m_datagram_list' = CHECK_LIST
      /\ walk' = Walk(0, 1, ClockGetTime, now)
      /\ UNCHANGED <<ID, m_get_id, pc, msg, datagram_list, sent, acked, now>>
  BY DEF BeginWalk
<1>2. TypeOK'
  BY <1>1, ClockIsTime DEF IInv, TypeOK, Walk, Walks
<1>3. Owners'
  BY <1>1, ThreadsAssumption DEF IInv, Owners
<1>4. WalkInList'
  BY <1>1, LenProperties DEF IInv, TypeOK, WalkInList, Walk
<1> QED  BY <1>1, <1>2, <1>3, <1>4
         DEF IInv, IdsGivenOut, UniqueIds, AckedNotTracked

LEMMA RemoveExpiredInvariant ==
  ASSUME IInv, RemoveExpired
  PROVE  IInv'
<1> DEFINE n == walk.curr
<1>1. /\ n \in DOMAIN datagram_list
      /\ datagram_list' = Unlink(walk.last, n)
      /\ walk' = [walk EXCEPT !.curr = walk.last + 1]
      /\ UNCHANGED <<ID, m_get_id, m_datagram_list, pc, msg, sent, acked, now>>
  BY DEF RemoveExpired
<1>2. datagram_list \in Seq(Messages) /\ DistinctIds(datagram_list)
  BY DEF IInv, TypeOK, UniqueIds, DistinctIds
<1>3. n \in 1 .. Len(datagram_list) /\ Len(datagram_list) \in Nat
  BY <1>1, <1>2, LenProperties
<1>4. walk.last = n - 1 /\ walk' = walk
  BY <1>1, <1>3 DEF IInv, TypeOK, WalkInList, Walks
<1>5. /\ datagram_list' \in Seq(Messages)
      /\ Len(datagram_list') = Len(datagram_list) - 1
      /\ DistinctIds(datagram_list')
      /\ Range(datagram_list') \subseteq Range(datagram_list)
  BY <1>1, <1>2, <1>4, UnlinkOne, UnlinkMembers
<1>6. TypeOK'
  BY <1>1, <1>4, <1>5 DEF IInv, TypeOK
<1>7. Owners'
  BY <1>1, <1>4 DEF IInv, Owners
<1>8. WalkInList'
  BY <1>3, <1>4, <1>5 DEF WalkInList
<1>9. IdsGivenOut'
  BY <1>1, <1>5 DEF IInv, IdsGivenOut
<1>10. UniqueIds'
  BY <1>1, <1>5 DEF IInv, UniqueIds, DistinctIds
<1>11. AckedNotTracked'
  BY <1>1, <1>5 DEF IInv, AckedNotTracked
<1> QED  BY <1>6, <1>7, <1>8, <1>9, <1>10, <1>11 DEF IInv

LEMMA StepOverInvariant ==
  ASSUME IInv, StepOver
  PROVE  IInv'
<1>1. /\ walk.curr \in DOMAIN datagram_list
      /\ walk' = [walk EXCEPT !.last = walk.curr, !.curr = walk.curr + 1]
      /\ UNCHANGED <<ID, m_get_id, m_datagram_list, pc, msg, datagram_list, sent,
                     acked, now>>
  BY DEF StepOver
<1>2. walk.curr \in 1 .. Len(datagram_list) /\ Len(datagram_list) \in Nat
  BY <1>1, LenProperties DEF IInv, TypeOK
<1>3. TypeOK'
  <2>1. walk \in Walks
    BY DEF IInv, TypeOK
  <2>2. walk' = [last |-> walk.curr, curr |-> walk.curr + 1,
                 timeout |-> walk.timeout, at |-> walk.at]
    BY <1>1, <2>1 DEF Walks
  <2>3. walk' \in Walks
    BY <1>2, <2>1, <2>2 DEF Walks
  <2> QED  BY <1>1, <2>3 DEF IInv, TypeOK
<1>4. walk'.curr = walk.curr + 1 /\ walk'.last = walk.curr
  BY <1>1 DEF IInv, TypeOK, Walks
<1>5. Owners'
  BY <1>1, <1>2 DEF IInv, Owners
<1>6. WalkInList'
  BY <1>1, <1>2, <1>4 DEF WalkInList
<1> QED  BY <1>1, <1>3, <1>5, <1>6 DEF IInv, IdsGivenOut, UniqueIds, AckedNotTracked

LEMMA EndWalkInvariant ==
  ASSUME IInv, EndWalk
  PROVE  IInv'
<1>1. /\ walk.curr = Len(datagram_list) + 1
      /\ m_datagram_list' = NOBODY /\ walk' = NoWalk
      /\ UNCHANGED <<ID, m_get_id, pc, msg, datagram_list, sent, acked, now>>
  BY DEF EndWalk
<1>2. walk.curr # 0
  BY <1>1, LenProperties DEF IInv, TypeOK
<1>3. TypeOK'
  BY <1>1, TimesAssumption DEF IInv, TypeOK, NoWalk, Walk, Walks, Time, Times
<1>4. m_datagram_list = CHECK_LIST /\ \A t \in Threads : pc[t] # "insert"
  BY <1>2, ThreadsAssumption DEF IInv, Owners
<1>5. Owners' /\ WalkInList'
  BY <1>1, <1>4 DEF IInv, Owners, WalkInList, NoWalk, Walk
<1> QED  BY <1>1, <1>3, <1>5 DEF IInv, IdsGivenOut, UniqueIds, AckedNotTracked

LEMMA NextInvariant == IInv /\ [Next]_vars => IInv'
<1> SUFFICES ASSUME IInv, [Next]_vars PROVE IInv'
  OBVIOUS
<1>1. ASSUME NEW t \in Threads,
             \/ ReadID(t) \/ IncrementID(t) \/ Stamp(t) \/ SendTo(t) \/ ListInsert(t)
      PROVE  IInv'
  BY <1>1, ReadIDInvariant, IncrementIDInvariant, StampInvariant,
     SendToInvariant, ListInsertInvariant
<1>2. ASSUME NEW id \in sent, ReceiveAck(id) PROVE IInv'
  BY <1>2, ReceiveAckInvariant
<1>3. CASE BeginWalk \/ RemoveExpired \/ StepOver \/ EndWalk
  BY <1>3, BeginWalkInvariant, RemoveExpiredInvariant, StepOverInvariant,
     EndWalkInvariant
<1>4. CASE Tick
  BY <1>4 DEF Tick, IInv, TypeOK, Owners, WalkInList, IdsGivenOut, UniqueIds,
              AckedNotTracked
<1>5. CASE UNCHANGED vars
  BY <1>5 DEF vars, IInv, TypeOK, Owners, WalkInList, IdsGivenOut, UniqueIds,
              AckedNotTracked
<1> QED  BY <1>1, <1>2, <1>3, <1>4, <1>5 DEF Next

LEMMA Invariant == Spec => []IInv
BY InitInvariant, NextInvariant, PTL DEF Spec

------------------------------------------------------------------------------
(* Deadlines stay within their seconds.                                       *)
THEOREM TypeCorrect == Spec => []TypeOK
<1>1. IInv => TypeOK
  BY DEF IInv
<1> QED  BY <1>1, Invariant, PTL

(* However many threads send, no id is given out twice.                       *)
THEOREM IdsAreUnique == Spec => []UniqueIds
<1>1. IInv => UniqueIds
  BY DEF IInv
<1> QED  BY <1>1, Invariant, PTL

(* No acknowledgement overtakes the insertion of its datagram.                *)
THEOREM AnswersAreFinal == Spec => []AckedNotTracked
<1>1. IInv => AckedNotTracked
  BY DEF IInv
<1> QED  BY <1>1, Invariant, PTL

------------------------------------------------------------------------------
(* The deadline of a tracked datagram, a struct timespec, is the moment it    *)
(* was stamped and TIMEOUT, carry included; so is that of one about to be     *)
(* tracked.                                                                   *)
OnTime(m) == Moment(m.timeout) = m.at + TIMEOUT

Deadlines == /\ \A m \in Range(datagram_list) : OnTime(m)
             /\ \A t \in Threads : pc[t] \in {"send", "insert"} => OnTime(msg[t])

(* The time that check_list compares with is that of the beginning of its     *)
(* walk, and it has left no expired datagram behind it.                       *)
Walked ==
  walk.curr # 0 =>
    /\ Moment(walk.timeout) = walk.at /\ walk.at <= now
    /\ \A k \in 1 .. walk.last : ~Before(datagram_list[k].timeout, walk.timeout)

LEMMA InitDeadlines == Init => Deadlines /\ Walked
<1> SUFFICES ASSUME Init PROVE Deadlines /\ Walked
  OBVIOUS
<1>1. Range(datagram_list) = {}
  BY DEF Init, Range
<1> QED  BY <1>1 DEF Init, Deadlines, Walked, NoWalk, Walk

LEMMA StampDeadline ==
  ASSUME TypeOK, Deadlines, NEW t \in Threads, Stamp(t)
  PROVE  Deadlines'
<1> DEFINE ts == ClockAddTimeout(ClockGetTime, TIMEOUT)
           m == Message(msg[t].id, ts, now)
<1>1. Moment(ts) = now + TIMEOUT
  BY ClockIsTime, DeadlineMoment, ClockMoment
<1>2. m.timeout = ts /\ m.at = now
  BY DEF Message
<1>3. OnTime(m)
  BY <1>1, <1>2 DEF OnTime
<1> HIDE DEF m
<1>4. /\ msg'[t] = m
      /\ \A u \in Threads \ {t} : pc'[u] = pc[u] /\ msg'[u] = msg[u]
      /\ datagram_list' = datagram_list
  BY DEF TypeOK, Stamp, m
<1>5. \A u \in Threads : pc'[u] \in {"send", "insert"} => OnTime(msg'[u])
  BY <1>3, <1>4 DEF Deadlines
<1>6. \A d \in Range(datagram_list') : OnTime(d)
  BY <1>4 DEF Deadlines
<1> QED  BY <1>5, <1>6 DEF Deadlines, OnTime

(* What unlinks and what inserts. *)
LEMMA WalkUnlinks ==
  ASSUME IInv, RemoveExpired
  PROVE  /\ walk.curr \in DOMAIN datagram_list
         /\ walk.curr \in 1 .. Len(datagram_list) /\ Len(datagram_list) \in Nat
         /\ walk.last = walk.curr - 1
         /\ datagram_list' = Unlink(walk.curr - 1, walk.curr)
         /\ UNCHANGED <<walk, pc, msg, now>>
<1>1. /\ walk.curr \in DOMAIN datagram_list
      /\ walk.curr \in 1 .. Len(datagram_list) /\ Len(datagram_list) \in Nat
  BY LenProperties DEF RemoveExpired, IInv, TypeOK
<1>2. walk.last = walk.curr - 1
  BY <1>1 DEF IInv, WalkInList
<1>3. walk' = walk
  BY <1>1, <1>2 DEF RemoveExpired, IInv, TypeOK, Walks
<1> QED  BY <1>1, <1>2, <1>3 DEF RemoveExpired

LEMMA NextDeadlines == IInv /\ Deadlines /\ [Next]_vars => Deadlines'
<1> SUFFICES ASSUME IInv, Deadlines, [Next]_vars PROVE Deadlines'
  OBVIOUS
<1>1. TypeOK
  BY DEF IInv
<1>2. ASSUME NEW t \in Threads, ReadID(t) \/ IncrementID(t) \/ SendTo(t) PROVE Deadlines'
  BY <1>1, <1>2 DEF ReadID, IncrementID, SendTo, TypeOK, Deadlines, OnTime
<1>3. ASSUME NEW t \in Threads, Stamp(t) PROVE Deadlines'
  BY <1>1, <1>3, StampDeadline
<1>4. ASSUME NEW t \in Threads, ListInsert(t) PROVE Deadlines'
  <2>1. /\ Range(datagram_list') = Range(datagram_list) \cup {msg[t]}
        /\ OnTime(msg[t])
    BY <1>1, <1>4, InsertMembers DEF ListInsert, TypeOK, Deadlines
  <2> QED  BY <1>1, <1>4, <2>1 DEF ListInsert, TypeOK, Deadlines, OnTime
<1>5. ASSUME NEW id \in sent, ReceiveAck(id) PROVE Deadlines'
  <2>1. Range(datagram_list') \subseteq Range(datagram_list)
    BY <1>5, RemovedById DEF ReceiveAck
  <2> QED  BY <1>5, <2>1 DEF ReceiveAck, Deadlines, OnTime
<1>6. CASE RemoveExpired
  <2>1. Range(datagram_list') \subseteq Range(datagram_list)
    BY <1>1, <1>6, WalkUnlinks, UnlinkMembers DEF TypeOK
  <2> QED  BY <1>6, <2>1 DEF RemoveExpired, Deadlines, OnTime
<1>7. CASE BeginWalk \/ StepOver \/ EndWalk \/ Tick \/ UNCHANGED vars
  BY <1>7 DEF BeginWalk, StepOver, EndWalk, Tick, vars, Deadlines, OnTime
<1> QED  BY <1>2, <1>3, <1>4, <1>5, <1>6, <1>7 DEF Next

(* Only check_list moves in the list while it walks. *)
LEMMA NextWalked == IInv /\ Walked /\ [Next]_vars => Walked'
<1> SUFFICES ASSUME IInv, Walked, [Next]_vars PROVE Walked'
  OBVIOUS
<1>1. TypeOK /\ now \in Nat
  BY DEF IInv, TypeOK
<1>2. ASSUME NEW t \in Threads, ReadID(t) \/ IncrementID(t) \/ Stamp(t) \/ SendTo(t)
      PROVE  Walked'
  BY <1>2 DEF ReadID, IncrementID, Stamp, SendTo, Walked, Before, Moment
<1>3. ASSUME NEW t \in Threads, ListInsert(t) PROVE Walked'
  <2>1. walk.curr = 0
    BY <1>3, NoWalkMeanwhile DEF ListInsert, IInv, Owners
  <2> QED  BY <1>3, <2>1 DEF ListInsert, Walked
<1>4. ASSUME NEW id \in sent, ReceiveAck(id) PROVE Walked'
  <2>1. walk.curr = 0
    BY <1>4, NoWalkMeanwhile DEF ReceiveAck
  <2> QED  BY <1>4, <2>1 DEF ReceiveAck, Walked
<1>5. CASE BeginWalk
  <2>1. walk' = Walk(0, 1, ClockGetTime, now) /\ now' = now
    BY <1>5 DEF BeginWalk
  <2>2. Moment(ClockGetTime) = now
    BY <1>1, ClockMoment
  <2> QED  BY <1>1, <2>1, <2>2 DEF Walked, Walk, Moment
<1>6. CASE RemoveExpired
  <2>1. /\ walk.curr \in 1 .. Len(datagram_list) /\ Len(datagram_list) \in Nat
        /\ walk.last = walk.curr - 1
        /\ UNCHANGED <<walk, now>>
    BY <1>6, WalkUnlinks
  <2>2. \A k \in 1 .. walk.last : datagram_list'[k] = datagram_list[k]
    <3> DEFINE n == walk.curr
               new == Unlink(n - 1, n)
    <3>1. /\ n \in DOMAIN datagram_list
          /\ \A k \in 1 .. Len(datagram_list) - 1 :
               new[k] = IF k < n THEN datagram_list[k] ELSE datagram_list[k + 1]
      BY <1>1, <1>6, WalkUnlinks, UnlinkOne DEF TypeOK
    <3>2. datagram_list' = new
      BY <1>6, WalkUnlinks
    <3> HIDE DEF new, n
    <3>3. n = walk.curr
      BY DEF n
    <3> QED  BY <2>1, <3>1, <3>2, <3>3
  <2> QED  BY <2>1, <2>2 DEF Walked, Before, Moment
<1>7. CASE StepOver
  <2>1. /\ walk.curr \in 1 .. Len(datagram_list) /\ Len(datagram_list) \in Nat
        /\ ~Before(datagram_list[walk.curr].timeout, walk.timeout)
        /\ walk' = [walk EXCEPT !.last = walk.curr, !.curr = walk.curr + 1]
        /\ UNCHANGED <<datagram_list, now>>
    BY <1>1, <1>7, LenProperties DEF StepOver, TypeOK
  <2>2. walk.last = walk.curr - 1
    BY <2>1 DEF IInv, WalkInList
  <2>3. /\ walk'.last = walk.curr /\ walk'.timeout = walk.timeout
        /\ walk'.at = walk.at
    BY <1>1, <2>1 DEF TypeOK, Walks
  <2>4. \A k \in 1 .. walk.curr : k \in 1 .. walk.last \/ k = walk.curr
    BY <2>1, <2>2
  <2>5. walk.curr # 0
    BY <2>1
  <2> QED  BY <2>1, <2>3, <2>4, <2>5 DEF Walked, Before, Moment
<1>8. CASE EndWalk
  BY <1>8 DEF EndWalk, NoWalk, Walk, Walked
<1>9. CASE Tick
  BY <1>1, <1>9 DEF Tick, TypeOK, Walks, Walked, Before, Moment
<1>10. CASE UNCHANGED vars
  BY <1>10 DEF vars, Walked, Before, Moment
<1> QED  BY <1>2, <1>3, <1>4, <1>5, <1>6, <1>7, <1>8, <1>9, <1>10 DEF Next

(* What check_list compares is the moment its walk began with the moment of   *)
(* the stamp.                                                                 *)
LEMMA ExpiredIsLate ==
  ASSUME TypeOK, Deadlines, Walked, walk.curr # 0, NEW m \in Range(datagram_list)
  PROVE  Before(m.timeout, walk.timeout) <=> walk.at > m.at + TIMEOUT
<1>1. walk.timeout \in Times /\ walk.at \in Nat
  BY DEF TypeOK, Walks
<1>2. m.timeout \in Times /\ m.at \in Nat /\ m.at + TIMEOUT \in Nat
  BY ListTypes
<1>3. Before(m.timeout, walk.timeout) <=> Moment(m.timeout) < Moment(walk.timeout)
  BY <1>1, <1>2, BeforeIsLess
<1>4. Moment(walk.timeout) = walk.at /\ Moment(m.timeout) = m.at + TIMEOUT
  BY DEF Walked, Deadlines, OnTime
<1> QED  BY <1>1, <1>2, <1>3, <1>4

LEMMA DropIsLate ==
  ASSUME IInv, Deadlines, Walked, [Next]_vars, NEW m \in Range(datagram_list)
  PROVE  m \in Range(datagram_list') \/ m.id \in acked' \/ now > m.at + TIMEOUT
<1>1. TypeOK /\ now \in Nat
  BY DEF IInv, TypeOK
<1>2. ASSUME NEW t \in Threads, ReadID(t) \/ IncrementID(t) \/ Stamp(t) \/ SendTo(t)
      PROVE  m \in Range(datagram_list')
  BY <1>2 DEF ReadID, IncrementID, Stamp, SendTo
<1>3. ASSUME NEW t \in Threads, ListInsert(t) PROVE m \in Range(datagram_list')
  <2>1. Range(datagram_list') = Range(datagram_list) \cup {msg[t]}
    BY <1>1, <1>3, InsertMembers DEF ListInsert, TypeOK
  <2> QED  BY <2>1
<1>4. ASSUME NEW id \in sent, ReceiveAck(id)
      PROVE  m \in Range(datagram_list') \/ m.id \in acked'
  <2>1. m.id = id \/ m \in Range(datagram_list')
    BY <1>4, RemovedById DEF ReceiveAck
  <2> QED  BY <1>4, <2>1 DEF ReceiveAck
<1>5. CASE RemoveExpired
  <2>1. m = datagram_list[walk.curr] \/ m \in Range(datagram_list')
    BY <1>1, <1>5, WalkUnlinks, UnlinkMembers DEF TypeOK
  <2>2. walk.curr # 0
    BY <1>5, WalkUnlinks
  <2>3. ASSUME m = datagram_list[walk.curr] PROVE now > m.at + TIMEOUT
    <3>1. Before(m.timeout, walk.timeout)
      BY <1>5, <2>3 DEF RemoveExpired
    <3>2. walk.at > m.at + TIMEOUT
      BY <1>1, <2>2, <3>1, ExpiredIsLate
    <3>3. walk.at <= now /\ walk.at \in Nat
      BY <1>1, <2>2 DEF Walked, TypeOK, Walks
    <3>4. m.at + TIMEOUT \in Nat
      BY <1>1, ListTypes
    <3> QED  BY <1>1, <3>2, <3>3, <3>4
  <2> QED  BY <2>1, <2>3
<1>6. CASE BeginWalk \/ StepOver \/ EndWalk \/ Tick \/ UNCHANGED vars
  BY <1>6 DEF BeginWalk, StepOver, EndWalk, Tick, vars
<1> QED  BY <1>2, <1>3, <1>4, <1>5, <1>6 DEF Next

LEMMA DeadlinesInvariant == Spec => [](Deadlines /\ Walked)
<1>1. Init => Deadlines /\ Walked
  BY InitDeadlines
<1>2. IInv /\ Deadlines /\ Walked /\ [Next]_vars => Deadlines' /\ Walked'
  BY NextDeadlines, NextWalked
<1> QED  BY <1>1, <1>2, Invariant, PTL DEF Spec

(* No datagram is given up before its half second, whenever the deadline's    *)
(* second is the next one, and none because another one is.                   *)
THEOREM NothingDroppedEarly == Spec => NoEarlyDrop
<1>1. IInv /\ Deadlines /\ Walked /\ [Next]_vars =>
        [\A m \in Range(datagram_list) : \/ m \in Range(datagram_list')
                                         \/ m.id \in acked'
                                         \/ now > m.at + TIMEOUT]_vars
  BY DropIsLate
<1> QED  BY <1>1, Invariant, DeadlinesInvariant, PTL DEF Spec, NoEarlyDrop

(* In whatever order the datagrams are listed, one walk of check_list leaves  *)
(* none behind that had expired when it began.                                *)
THEOREM ExpiredIsDropped == Spec => NoneExpiredKept
<1>1. ASSUME IInv, Deadlines, Walked, EndWalk, NEW m \in Range(datagram_list)
      PROVE  walk.at <= m.at + TIMEOUT
  <2>1. TypeOK /\ Len(datagram_list) \in Nat
    BY <1>1, ListTypes DEF IInv
  <2>2. walk.curr # 0 /\ walk.last = Len(datagram_list)
    BY <1>1, <2>1 DEF EndWalk, IInv, WalkInList
  <2>3. PICK n \in 1 .. Len(datagram_list) : m = datagram_list[n]
    BY <1>1, <2>1, ListTypes DEF Range
  <2>4. ~Before(m.timeout, walk.timeout)
    BY <1>1, <2>2, <2>3 DEF Walked
  <2>5. ~(walk.at > m.at + TIMEOUT)
    BY <1>1, <2>1, <2>2, <2>4, ExpiredIsLate
  <2>6. walk.at \in Nat /\ m.at + TIMEOUT \in Nat
    BY <2>1, ListTypes DEF TypeOK, Walks
  <2> QED  BY <2>5, <2>6
<1>2. IInv /\ Deadlines /\ Walked /\ [Next]_vars =>
        [EndWalk => \A m \in Range(datagram_list) : walk.at <= m.at + TIMEOUT]_vars
  BY <1>1
<1> QED  BY <1>2, Invariant, DeadlinesInvariant, PTL DEF Spec, NoneExpiredKept
==============================================================================
