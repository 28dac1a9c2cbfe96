------------------------------ MODULE Datagrams ------------------------------
(* How each process of src/01-lift keeps track of the datagrams it sent: the  *)
(* ids of GetNewMessageID, the list of list.c, the acknowledgements taken out *)
(* of it by the listener and the expired ones by check_list.  Nothing is ever *)
(* sent again: the list only says which datagrams were answered in time.      *)
EXTENDS Integers, Sequences, Functions

CONSTANTS
  Senders,             \* the threads that send besides udp_listener
  SECOND,              \* units of tv_nsec in a second; 10^9 in the code
  TIMEOUT,             \* half a second
  MaxID, MaxTime       \* bounds: ids given out, length of a run

LISTENER   == "udp_listener"
CHECK_LIST == "check_list"
NOBODY     == "nobody"
Threads    == Senders \cup {LISTENER}

ASSUME ThreadsAssumption == {NOBODY, CHECK_LIST} \cap Threads = {}
ASSUME TimesAssumption ==
  /\ SECOND \in Nat /\ TIMEOUT \in Nat /\ TIMEOUT < SECOND
  /\ MaxID \in Nat /\ MaxTime \in Nat

VARIABLES
  ID,
  m_get_id, m_datagram_list,   \* the thread inside the mutex
  pc, msg,                     \* of each thread
  datagram_list,               \* a sequence, its head first
  walk,                        \* check_list on its way through the list
  sent,                        \* ids whose acknowledgement may still come
  acked,                       \* history: ids whose acknowledgement came
  now                          \* the clock, in units of tv_nsec

vars == <<ID, m_get_id, m_datagram_list, pc, msg, datagram_list, walk, sent,
          acked, now>>

------------------------------------------------------------------------------
(* struct timespec *)
Time(sec, nsec) == [sec |-> sec, nsec |-> nsec]

ClockGetTime == Time(now \div SECOND, now % SECOND)

(* Mutant of ClockAddTimeout: the second is not carried. *)
ClockAddTimeoutNoCarry(ts, timeout) ==
  Time(ts.sec, (ts.nsec + timeout) % SECOND)

(* Mutant of ClockAddTimeout: the carried second stays in the nanoseconds. *)
ClockAddTimeoutKeepNsec(ts, timeout) ==
  LET nsec == ts.nsec + timeout
  IN  Time(ts.sec + IF nsec >= SECOND THEN 1 ELSE 0, nsec)

ClockAddTimeout(ts, timeout) ==
  LET nsec == ts.nsec + timeout
  IN  IF nsec >= SECOND THEN Time(ts.sec + 1, nsec - SECOND)
      ELSE Time(ts.sec, nsec)

Before(ts, t) == \/ ts.sec < t.sec
                 \/ ts.sec = t.sec /\ ts.nsec < t.nsec

(* at: history, the moment timeout was computed. *)
Message(id, timeout, at) == [id |-> id, timeout |-> timeout, at |-> at]

(* check_list, last and curr positions in the list: curr is 0 outside of      *)
(* ListRemoveByTimeout and one more than its length when curr is NULL.  at:   *)
(* history, the moment the walk began.                                        *)
Walk(last, curr, timeout, at) ==
  [last |-> last, curr |-> curr, timeout |-> timeout, at |-> at]

NoWalk == Walk(0, 0, Time(0, 0), 0)

Init == /\ ID = 1
        /\ m_get_id = NOBODY
        /\ m_datagram_list = NOBODY
        /\ pc = [t \in Threads |-> "idle"]
        /\ msg = [t \in Threads |-> Message(0, Time(0, 0), 0)]
        /\ datagram_list = << >>
        /\ walk = NoWalk
        /\ sent = {}
        /\ acked = {}
        /\ now = 0

------------------------------------------------------------------------------
(* GetNewMessageID: ret = ID++ under m_get_id. *)

(* Mutant of ReadID: the mutex is not taken. *)
ReadIDUnlocked(t) ==
  /\ pc[t] = "idle"
  /\ ID <= MaxID
  /\ pc' = [pc EXCEPT ![t] = "increment"]
  /\ msg' = [msg EXCEPT ![t] = Message(ID, @.timeout, @.at)]
  /\ UNCHANGED <<ID, m_get_id, m_datagram_list, datagram_list, walk, sent, acked, now>>

ReadID(t) ==
  /\ pc[t] = "idle"
  /\ ID <= MaxID
  /\ m_get_id = NOBODY
  /\ m_get_id' = t
  /\ pc' = [pc EXCEPT ![t] = "increment"]
  /\ msg' = [msg EXCEPT ![t] = Message(ID, @.timeout, @.at)]
  /\ UNCHANGED <<ID, m_datagram_list, datagram_list, walk, sent, acked, now>>

(* The id of an acknowledgement (send_ack) is not tracked, the others go on.  *)
IncrementID(t) ==
  /\ pc[t] = "increment"
  /\ ID' = msg[t].id + 1
  /\ m_get_id' = NOBODY
  /\ \/ pc' = [pc EXCEPT ![t] = "stamp"]
     \/ t = LISTENER /\ pc' = [pc EXCEPT ![t] = "idle"]
  /\ UNCHANGED <<msg, m_datagram_list, datagram_list, walk, sent, acked, now>>

(* The deadline, before the list is locked. *)
Stamp(t) ==
  /\ pc[t] = "stamp"
  /\ pc' = [pc EXCEPT ![t] = "send"]
  /\ msg' = [msg EXCEPT ![t] =
               Message(@.id, ClockAddTimeout(ClockGetTime, TIMEOUT), now)]
  /\ UNCHANGED <<ID, m_get_id, m_datagram_list, datagram_list, walk, sent, acked, now>>

(* sendto under m_datagram_list: from now on the acknowledgement may come. *)
SendTo(t) ==
  /\ pc[t] = "send"
  /\ m_datagram_list = NOBODY
  /\ m_datagram_list' = t
  /\ sent' = sent \cup {msg[t].id}
  /\ pc' = [pc EXCEPT ![t] = "insert"]
  /\ UNCHANGED <<ID, m_get_id, msg, datagram_list, walk, acked, now>>

(* At the head. *)
ListInsert(t) ==
  /\ pc[t] = "insert"
  /\ datagram_list' = <<msg[t]>> \o datagram_list
  /\ m_datagram_list' = NOBODY
  /\ pc' = [pc EXCEPT ![t] = "idle"]
  /\ UNCHANGED <<ID, m_get_id, msg, walk, sent, acked, now>>

------------------------------------------------------------------------------
(* The next of last, or the head, becomes the next of curr. *)
Unlink(last, curr) ==
  SubSeq(datagram_list, 1, last)
    \o SubSeq(datagram_list, curr + 1, Len(datagram_list))

(* The first datagram with this id is taken out, if there is one. *)
ListRemoveById(id) ==
  \/ /\ \A n \in DOMAIN datagram_list : datagram_list[n].id # id
     /\ UNCHANGED datagram_list
  \/ \E n \in DOMAIN datagram_list :
       /\ datagram_list[n].id = id
       /\ \A l \in 1 .. n - 1 : datagram_list[l].id # id
       /\ datagram_list' = Unlink(n - 1, n)

(* Mutant of ReceiveAck: the list is not locked. *)
ReceiveAckUnlocked(id) ==
  /\ pc[LISTENER] = "idle"
  /\ id \in sent
  /\ ListRemoveById(id)
  /\ sent' = sent \ {id}
  /\ acked' = acked \cup {id}
  /\ UNCHANGED <<ID, m_get_id, m_datagram_list, pc, msg, walk, now>>

(* POTVRDA, in one step since it keeps the list locked. *)
ReceiveAck(id) ==
  /\ pc[LISTENER] = "idle"
  /\ m_datagram_list = NOBODY
  /\ id \in sent
  /\ ListRemoveById(id)
  /\ sent' = sent \ {id}
  /\ acked' = acked \cup {id}
  /\ UNCHANGED <<ID, m_get_id, m_datagram_list, pc, msg, walk, now>>

------------------------------------------------------------------------------
(* check_list: ListRemoveByTimeout, one datagram per step.  The deadlines are *)
(* stamped before the list is locked, so it is not in their order and must be *)
(* walked to its end.                                                         *)
BeginWalk ==
  /\ walk.curr = 0
  /\ m_datagram_list = NOBODY
  /\ m_datagram_list' = CHECK_LIST
  /\ walk' = Walk(0, 1, ClockGetTime, now)
  /\ UNCHANGED <<ID, m_get_id, pc, msg, datagram_list, sent, acked, now>>

(* if (last), else: what is in front of curr stays in the list. *)
RemoveExpired ==
  /\ walk.curr \in DOMAIN datagram_list
  /\ Before(datagram_list[walk.curr].timeout, walk.timeout)
  /\ datagram_list' = Unlink(walk.last, walk.curr)
  /\ walk' = [walk EXCEPT !.curr = walk.last + 1]
  /\ UNCHANGED <<ID, m_get_id, m_datagram_list, pc, msg, sent, acked, now>>

(* Mutant of StepOver: the walk ends at the first datagram not expired. *)
StepOverToEnd ==
  /\ walk.curr \in DOMAIN datagram_list
  /\ ~Before(datagram_list[walk.curr].timeout, walk.timeout)
  /\ walk' = [walk EXCEPT !.curr = Len(datagram_list) + 1]
  /\ UNCHANGED <<ID, m_get_id, m_datagram_list, pc, msg, datagram_list, sent,
                 acked, now>>

StepOver ==
  /\ walk.curr \in DOMAIN datagram_list
  /\ ~Before(datagram_list[walk.curr].timeout, walk.timeout)
  /\ walk' = [walk EXCEPT !.last = walk.curr, !.curr = walk.curr + 1]
  /\ UNCHANGED <<ID, m_get_id, m_datagram_list, pc, msg, datagram_list, sent,
                 acked, now>>

EndWalk ==
  /\ walk.curr = Len(datagram_list) + 1
  /\ m_datagram_list' = NOBODY
  /\ walk' = NoWalk
  /\ UNCHANGED <<ID, m_get_id, pc, msg, datagram_list, sent, acked, now>>

Tick == /\ now < MaxTime
        /\ now' = now + 1
        /\ UNCHANGED <<ID, m_get_id, m_datagram_list, pc, msg, datagram_list,
                       walk, sent, acked>>

Next == \/ \E t \in Threads : \/ ReadID(t) \/ IncrementID(t) \/ Stamp(t)
                              \/ SendTo(t) \/ ListInsert(t)
        \/ \E id \in sent : ReceiveAck(id)
        \/ BeginWalk \/ RemoveExpired \/ StepOver \/ EndWalk
        \/ Tick

Spec == Init /\ [][Next]_vars

------------------------------------------------------------------------------
Times    == [sec : Nat, nsec : 0 .. SECOND - 1]
Messages == [id : Nat, timeout : Times, at : Nat]
Walks    == [last : Nat, curr : Nat, timeout : Times, at : Nat]

TypeOK ==
  /\ ID \in Nat /\ now \in Nat
  /\ m_get_id \in Threads \cup {NOBODY}
  /\ m_datagram_list \in Threads \cup {NOBODY, CHECK_LIST}
  /\ pc \in [Threads -> {"idle", "increment", "stamp", "send", "insert"}]
  /\ msg \in [Threads -> Messages]
  /\ datagram_list \in Seq(Messages)
  /\ walk \in Walks
  /\ sent \subseteq Nat /\ acked \subseteq Nat

(* No two datagrams have the same id, neither those waiting for an answer nor *)
(* those about to be sent, so that an acknowledgement can only be taken for   *)
(* that of the datagram it answers.                                           *)
UniqueIds ==
  /\ \A k, l \in DOMAIN datagram_list :
       datagram_list[k].id = datagram_list[l].id => k = l
  /\ \A t, u \in Threads :
       pc[t] # "idle" /\ pc[u] # "idle" /\ msg[t].id = msg[u].id => t = u
  /\ \A t \in Threads, m \in Range(datagram_list) :
       pc[t] # "idle" => msg[t].id # m.id

(* An acknowledged datagram is not tracked any more, nor will it be: although *)
(* it is sent before it is inserted, the answer cannot overtake the insertion.*)
AckedNotTracked ==
  /\ \A m \in Range(datagram_list) : m.id \notin acked
  /\ \A t \in Threads : pc[t] \in {"stamp", "send", "insert"} => msg[t].id \notin acked

(* A datagram is given up only when it was acknowledged or TIMEOUT has passed,*)
(* also when the deadline lies in the next second, and whatever is unlinked   *)
(* around it.                                                                 *)
NoEarlyDrop ==
  [][\A m \in Range(datagram_list) :
       \/ m \in Range(datagram_list')
       \/ m.id \in acked'
       \/ now > m.at + TIMEOUT]_vars

(* Whatever the order of the list, when check_list unlocks it no datagram is  *)
(* left that had expired when the walk began.                                 *)
NoneExpiredKept ==
  [][EndWalk => \A m \in Range(datagram_list) : walk.at <= m.at + TIMEOUT]_vars
==============================================================================
