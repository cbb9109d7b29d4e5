-------------------------- MODULE SendingServiceProofs --------------------------
(* Theorems about SendingService, for every bag, message size and limit.   *)
EXTENDS SendingService, BoundedNumbers, SequenceTheorems

\* Adding a message of a known kind to a packet gives a packet.
LEMMA AddToType ==
  ASSUME NEW p \in Packet, NEW m \in Message
  PROVE  AddTo(p, m) \in Packet
<1>1. m.kind \in Kinds
  BY DEF Message
<1>2. Measured[m.kind] \in Nat /\ Written[m.kind] \in Nat
  BY <1>1, ParametersAssumption
<1>3. Append(p.messages, m) \in Seq(Message)
  BY DEF Packet
<1> QED
  BY <1>2, <1>3 DEF AddTo, Packet

LEMMA EmptyPacketType == EmptyPacket \in Packet
  BY DEF EmptyPacket, Packet

LEMMA RanksType ==
  ASSUME NEW s \in Seq(Message)
  PROVE  Ranks(s) \in SUBSET Nat
<1>1. ASSUME NEW i \in DOMAIN s PROVE s[i].rank \in Nat
  <2>1. s[i] \in Message
    BY ElementOfSeq
  <2> QED
    BY <2>1 DEF Message
<1> QED
  BY <1>1 DEF Ranks

\* The lane the flush works on is a lane of the system.
LEMMA LaneType ==
  ASSUME TypeOK, cursor < Capacity, NEW ch \in Channels
  PROVE  Lane(ch) \in Lanes
  BY ParametersAssumption DEF TypeOK, Lane, Lanes, Ids

\* The cursor stays on a slot of the bag from the moment the flush enters a
\* connection until it leaves it.
InSlot == pc \notin {"idle", "slot", "aborted"} => cursor < Capacity

TypeInv == TypeOK /\ InSlot

LEMMA TypeInit == Init => TypeInv
  BY ParametersAssumption, EmptyPacketType
  DEF Init, TypeInv, TypeOK, InSlot, Steps, Lanes, Ids, Channels

LEMMA TypeStep == TypeInv /\ [Next]_vars => TypeInv'
<1> SUFFICES ASSUME TypeInv, [Next]_vars PROVE TypeInv'
  OBVIOUS
<1> USE ParametersAssumption DEF TypeInv
<1>a. TypeOK /\ InSlot
  OBVIOUS
<1>1. ASSUME NEW c \in Ids, NewConnection(c) PROVE TypeInv'
  BY <1>1 DEF NewConnection, TypeOK, InSlot, flushVars, wireVars, Lanes
<1>2. ASSUME NEW l \in Lanes, NEW k \in Kinds, EnqueueMessage(l, k) PROVE TypeInv'
  <2>1. [rank |-> enqueued[l] + 1, kind |-> k] \in Message
    BY DEF TypeOK, Message
  <2>2. queue' \in [Lanes -> Seq(Message)]
    BY <1>2, <2>1 DEF EnqueueMessage, TypeOK
  <2> QED
    BY <1>2, <2>2 DEF EnqueueMessage, TypeOK, InSlot, flushVars, wireVars
<1>3. CASE BeginFlush
  BY <1>3 DEF BeginFlush, TypeOK, InSlot, queueVars, wireVars, Steps
<1>4. CASE EndFlush
  BY <1>4 DEF EndFlush, TypeOK, InSlot, queueVars, wireVars, Steps
<1>5. CASE SkipSlot
  BY <1>5 DEF SkipSlot, TypeOK, InSlot, queueVars, wireVars, Steps
<1>6. CASE EnterSlot
  <2>1. packet' \in [Channels -> Packet]
    BY <1>6, EmptyPacketType DEF EnterSlot
  <2>2. cursor < Capacity
    BY <1>6 DEF EnterSlot, TypeOK, Ids
  <2> QED
    BY <1>6, <2>1, <2>2 DEF EnterSlot, TypeOK, InSlot, queueVars, wireVars, Steps
<1>7. ASSUME NEW ch \in Channels, AddMessage(ch) PROVE TypeInv'
  <2>1. cursor < Capacity
    BY <1>7 DEF AddMessage, Building, InSlot
  <2>2. Lane(ch) \in Lanes
    BY <2>1, LaneType
  <2>3. queue[Lane(ch)] \in Seq(Message) /\ queue[Lane(ch)] # <<>>
    BY <1>7, <2>2 DEF AddMessage, TypeOK
  <2>4. Head(queue[Lane(ch)]) \in Message /\ Tail(queue[Lane(ch)]) \in Seq(Message)
    BY <2>3
  <2>5. packet' \in [Channels -> Packet]
    BY <1>7, <2>4, AddToType DEF AddMessage, TypeOK
  <2>6. queue' \in [Lanes -> Seq(Message)]
    BY <1>7, <2>4 DEF AddMessage, TypeOK
  <2> QED
    BY <1>7, <2>5, <2>6 DEF AddMessage, TypeOK, InSlot, wireVars
<1>8. ASSUME NEW ch \in Channels, DropOverflow(ch) PROVE TypeInv'
  <2>1. cursor < Capacity
    BY <1>8 DEF DropOverflow, Building, InSlot
  <2>2. Lane(ch) \in Lanes
    BY <2>1, LaneType
  <2>3. queue[Lane(ch)] \in Seq(Message) /\ queue[Lane(ch)] # <<>>
    BY <1>8, <2>2 DEF DropOverflow, TypeOK
  <2>4. Head(queue[Lane(ch)]) \in Message /\ Tail(queue[Lane(ch)]) \in Seq(Message)
    BY <2>3
  <2>5. lost' \in [Lanes -> SUBSET Nat]
    BY <1>8, <2>4 DEF DropOverflow, TypeOK, Message
  <2>6. queue' \in [Lanes -> Seq(Message)]
    BY <1>8, <2>4 DEF DropOverflow, TypeOK
  <2> QED
    BY <1>8, <2>1, <2>5, <2>6 DEF DropOverflow, TypeOK, InSlot, AfterBuilding, Steps
<1>9. ASSUME NEW ch \in Channels, FinishBuilding(ch) PROVE TypeInv'
  BY <1>9 DEF FinishBuilding, Building, AfterBuilding, TypeOK, InSlot, queueVars, wireVars, Steps
<1>10. ASSUME NEW ch \in Channels, AbortOnRange(ch) PROVE TypeInv'
  BY <1>10 DEF AbortOnRange, TypeOK, InSlot, queueVars, wireVars, Steps
<1>11. ASSUME NEW ch \in Channels, NothingToSend(ch) PROVE TypeInv'
  <2>1. cursor < Capacity
    BY <1>11 DEF NothingToSend, Sending, InSlot
  <2> QED
    BY <1>11, <2>1 DEF NothingToSend, Sending, AfterSending, NextSlot, TypeOK, InSlot,
                    queueVars, wireVars, Steps, Channels, Reliable, Unreliable
<1>12. ASSUME NEW ch \in Channels, SendPacket(ch) PROVE TypeInv'
  <2>1. cursor < Capacity
    BY <1>12 DEF SendPacket, Sending, InSlot
  <2>2. packet[ch].messages \in Seq(Message)
    BY DEF TypeOK, Packet
  <2>3. wire' \in [Lanes -> Seq(Seq(Message))]
    BY <1>12, <2>1, <2>2, LaneType DEF SendPacket, TypeOK
  <2>4. packet' \in [Channels -> Packet]
    BY <1>12, EmptyPacketType DEF SendPacket, TypeOK
  <2> QED
    BY <1>12, <2>1, <2>3, <2>4 DEF SendPacket, Sending, AfterSending, NextSlot, TypeOK,
                    InSlot, queueVars, Steps, Channels, Reliable, Unreliable
<1>13. ASSUME NEW ch \in Channels, SealFails(ch) PROVE TypeInv'
  <2>1. \A l \in Lanes : Ranks(packet[l[2]].messages) \in SUBSET Nat
    <3>1. ASSUME NEW l \in Lanes PROVE packet[l[2]].messages \in Seq(Message)
      BY DEF TypeOK, Packet, Lanes
    <3> QED
      BY <3>1, RanksType
  <2>2. lost' \in [Lanes -> SUBSET Nat]
    BY <1>13, <2>1 DEF SealFails, TypeOK
  <2>3. packet' \in [Channels -> Packet]
    BY <1>13, EmptyPacketType DEF SealFails
  <2> QED
    BY <1>13, <2>2, <2>3 DEF SealFails, TypeOK, InSlot, queueVars, Steps
<1>14. ASSUME NEW l \in Lanes, Deliver(l) PROVE TypeInv'
  <2>1. wire[l] \in Seq(Seq(Message)) /\ wire[l] # <<>>
    BY <1>14 DEF Deliver, TypeOK
  <2>2. Head(wire[l]) \in Seq(Message) /\ Tail(wire[l]) \in Seq(Seq(Message))
    BY <2>1
  <2>3. received' \in [Lanes -> Seq(Message)]
    BY <1>14, <2>2 DEF Deliver, TypeOK
  <2>4. wire' \in [Lanes -> Seq(Seq(Message))]
    BY <1>14, <2>2 DEF Deliver, TypeOK
  <2> QED
    BY <1>14, <2>3, <2>4 DEF Deliver, TypeOK, InSlot, queueVars, flushVars
<1>15. ASSUME NEW l \in Lanes, LosePacket(l) PROVE TypeInv'
  <2>1. wire[l] \in Seq(Seq(Message)) /\ wire[l] # <<>>
    BY <1>15 DEF LosePacket, TypeOK
  <2>2. Head(wire[l]) \in Seq(Message) /\ Tail(wire[l]) \in Seq(Seq(Message))
    BY <2>1
  <2>3. Ranks(Head(wire[l])) \in SUBSET Nat
    BY <2>2, RanksType
  <2>4. wire' \in [Lanes -> Seq(Seq(Message))] /\ lost' \in [Lanes -> SUBSET Nat]
    BY <1>15, <2>2, <2>3 DEF LosePacket, TypeOK
  <2> QED
    BY <1>15, <2>4 DEF LosePacket, TypeOK, InSlot, queueVars, flushVars
<1>16. CASE UNCHANGED vars
  BY <1>16 DEF vars, queueVars, flushVars, wireVars, TypeOK, InSlot
<1> QED
  BY <1>1, <1>2, <1>3, <1>4, <1>5, <1>6, <1>7, <1>8, <1>9, <1>10, <1>11, <1>12,
     <1>13, <1>14, <1>15, <1>16 DEF Next, FlushStep

\* Type correctness: the flush never leaves the bag and never mixes up the two
\* channels, for every capacity and every message size.
THEOREM TypeCorrect == Spec => []TypeOK
<1>1. Init => TypeInv
  BY TypeInit
<1>2. TypeInv /\ [Next]_vars => TypeInv'
  BY TypeStep
<1>3. TypeInv => TypeOK
  BY DEF TypeInv
<1> QED
  BY <1>1, <1>2, <1>3, PTL DEF Spec

-----------------------------------------------------------------------------
(* Order and accounting on one lane.  The five places a message can be in  *)
(* are looked at as sets of ranks; a flush, a delivery or a loss moves the *)
(* lowest ranks of one place to the next one.                              *)

Sorted(s) == \A i, j \in DOMAIN s : i < j => s[i].rank < s[j].rank
Before(S, T) == \A a \in S : \A b \in T : a < b
WireSorted(w) ==
  /\ \A p \in DOMAIN w : Sorted(w[p])
  /\ \A p, q \in DOMAIN w : p < q => Before(Ranks(w[p]), Ranks(w[q]))

LEMMA AppendRanks ==
  ASSUME NEW s \in Seq(Message), NEW m \in Message
  PROVE  /\ Ranks(Append(s, m)) = Ranks(s) \cup {m.rank}
         /\ Sorted(s) /\ Before(Ranks(s), {m.rank}) => Sorted(Append(s, m))
<1>1. Append(s, m) \in Seq(Message) /\ DOMAIN Append(s, m) = 1 .. Len(s) + 1
  BY AppendProperties
<1>2. /\ \A i \in DOMAIN s : Append(s, m)[i] = s[i]
      /\ Append(s, m)[Len(s) + 1] = m
      /\ DOMAIN s = 1 .. Len(s) /\ Len(s) \in Nat
  BY AppendProperties, LenProperties
<1>3. \A i \in DOMAIN Append(s, m) : i \in DOMAIN s \/ i = Len(s) + 1
  BY <1>1, <1>2
<1>4. Ranks(Append(s, m)) = Ranks(s) \cup {m.rank}
  BY <1>1, <1>2, <1>3 DEF Ranks
<1>5. ASSUME Sorted(s), Before(Ranks(s), {m.rank}) PROVE Sorted(Append(s, m))
  <2> SUFFICES ASSUME NEW i \in DOMAIN Append(s, m), NEW j \in DOMAIN Append(s, m), i < j
               PROVE  Append(s, m)[i].rank < Append(s, m)[j].rank
    BY DEF Sorted
  <2>1. i \in DOMAIN s
    BY <1>1, <1>2
  <2>2. CASE j \in DOMAIN s
    BY <1>2, <1>5, <2>1, <2>2 DEF Sorted
  <2>3. CASE j = Len(s) + 1
    <3>1. s[i].rank \in Ranks(s)
      BY <2>1 DEF Ranks
    <3> QED
      BY <1>2, <1>5, <2>1, <2>3, <3>1 DEF Before
  <2> QED
    BY <1>3, <2>2, <2>3
<1> QED
  BY <1>4, <1>5

LEMMA TailRanks ==
  ASSUME NEW s \in Seq(Message), s # <<>>
  PROVE  /\ Ranks(s) = {Head(s).rank} \cup Ranks(Tail(s))
         /\ Sorted(s) => Sorted(Tail(s)) /\ Before({Head(s).rank}, Ranks(Tail(s)))
<1>1. /\ Tail(s) \in Seq(Message) /\ Len(s) \in Nat \ {0}
      /\ DOMAIN s = 1 .. Len(s) /\ DOMAIN Tail(s) = 1 .. Len(s) - 1
      /\ \A i \in DOMAIN Tail(s) : Tail(s)[i] = s[i + 1] /\ i + 1 \in DOMAIN s
      /\ Head(s) = s[1] /\ 1 \in DOMAIN s
  BY HeadTailProperties, LenProperties, EmptySeq
<1>2. \A i \in DOMAIN s : i = 1 \/ (i - 1 \in DOMAIN Tail(s) /\ s[i] = Tail(s)[i - 1])
  BY <1>1
<1>3. Ranks(s) = {Head(s).rank} \cup Ranks(Tail(s))
  <2>1. Ranks(s) \subseteq {Head(s).rank} \cup Ranks(Tail(s))
    BY <1>1, <1>2 DEF Ranks
  <2>2. {Head(s).rank} \cup Ranks(Tail(s)) \subseteq Ranks(s)
    BY <1>1 DEF Ranks
  <2> QED
    BY <2>1, <2>2
<1>4. ASSUME Sorted(s) PROVE Sorted(Tail(s)) /\ Before({Head(s).rank}, Ranks(Tail(s)))
  <2>1. Sorted(Tail(s))
    BY <1>1, <1>4 DEF Sorted
  <2>2. \A i \in DOMAIN Tail(s) : s[1].rank < s[i + 1].rank
    BY <1>1, <1>4 DEF Sorted
  <2> QED
    BY <1>1, <2>1, <2>2 DEF Before, Ranks
<1> QED
  BY <1>3, <1>4

LEMMA ConcatRanks ==
  ASSUME NEW s \in Seq(Message), NEW t \in Seq(Message)
  PROVE  /\ Ranks(s \o t) = Ranks(s) \cup Ranks(t)
         /\ Sorted(s) /\ Sorted(t) /\ Before(Ranks(s), Ranks(t)) => Sorted(s \o t)
<1>1. /\ Len(s) \in Nat /\ Len(t) \in Nat
      /\ DOMAIN s = 1 .. Len(s) /\ DOMAIN t = 1 .. Len(t)
      /\ DOMAIN (s \o t) = 1 .. Len(s) + Len(t)
      /\ \A i \in DOMAIN s : (s \o t)[i] = s[i]
      /\ \A i \in DOMAIN t : (s \o t)[Len(s) + i] = t[i]
  BY ConcatProperties, LenProperties
<1>2. \A i \in DOMAIN (s \o t) :
        i \in DOMAIN s \/ (i > Len(s) /\ i - Len(s) \in DOMAIN t /\ (s \o t)[i] = t[i - Len(s)])
  BY <1>1
<1>3. Ranks(s \o t) = Ranks(s) \cup Ranks(t)
  <2>1. Ranks(s \o t) \subseteq Ranks(s) \cup Ranks(t)
    BY <1>1, <1>2 DEF Ranks
  <2>2. \A i \in DOMAIN t : Len(s) + i \in DOMAIN (s \o t)
    BY <1>1
  <2>3. \A i \in DOMAIN s : i \in DOMAIN (s \o t)
    BY <1>1
  <2> QED
    BY <1>1, <2>1, <2>2, <2>3 DEF Ranks
<1>4. ASSUME Sorted(s), Sorted(t), Before(Ranks(s), Ranks(t)) PROVE Sorted(s \o t)
  <2> SUFFICES ASSUME NEW i \in DOMAIN (s \o t), NEW j \in DOMAIN (s \o t), i < j
               PROVE  (s \o t)[i].rank < (s \o t)[j].rank
    BY DEF Sorted
  <2>1. CASE j \in DOMAIN s
    <3>1. i \in DOMAIN s
      BY <1>1, <2>1
    <3> QED
      BY <1>1, <1>4, <2>1, <3>1 DEF Sorted
  <2>2. CASE j \notin DOMAIN s /\ i \in DOMAIN s
    <3>1. s[i].rank \in Ranks(s) /\ t[j - Len(s)].rank \in Ranks(t)
      BY <1>2, <2>2 DEF Ranks
    <3> QED
      BY <1>1, <1>2, <1>4, <2>2, <3>1 DEF Before
  <2>3. CASE i \notin DOMAIN s
    <3>1. j \notin DOMAIN s
      BY <1>1, <2>3
    <3>2. i - Len(s) < j - Len(s)
      BY <1>1
    <3> QED
      BY <1>2, <1>4, <2>3, <3>1, <3>2 DEF Sorted
  <2> QED
    BY <2>1, <2>2, <2>3
<1> QED
  BY <1>3, <1>4

LEMMA AppendOnWire ==
  ASSUME NEW w \in Seq(Seq(Message)), NEW s \in Seq(Message)
  PROVE  /\ RanksOnWire(Append(w, s)) = RanksOnWire(w) \cup Ranks(s)
         /\ WireSorted(w) /\ Sorted(s) /\ Before(RanksOnWire(w), Ranks(s))
              => WireSorted(Append(w, s))
<1>1. /\ Len(w) \in Nat /\ DOMAIN w = 1 .. Len(w)
      /\ DOMAIN Append(w, s) = 1 .. Len(w) + 1
      /\ \A p \in DOMAIN w : Append(w, s)[p] = w[p]
      /\ Append(w, s)[Len(w) + 1] = s
  BY AppendProperties, LenProperties
<1>2. \A p \in DOMAIN Append(w, s) : p \in DOMAIN w \/ p = Len(w) + 1
  BY <1>1
<1>3. RanksOnWire(Append(w, s)) = RanksOnWire(w) \cup Ranks(s)
  <2>1. RanksOnWire(Append(w, s)) \subseteq RanksOnWire(w) \cup Ranks(s)
    BY <1>1, <1>2 DEF RanksOnWire
  <2>2. /\ \A p \in DOMAIN w : p \in DOMAIN Append(w, s)
        /\ Len(w) + 1 \in DOMAIN Append(w, s)
    BY <1>1
  <2> QED
    BY <1>1, <2>1, <2>2 DEF RanksOnWire
<1>4. ASSUME WireSorted(w), Sorted(s), Before(RanksOnWire(w), Ranks(s))
      PROVE  WireSorted(Append(w, s))
  <2>1. \A p \in DOMAIN Append(w, s) : Sorted(Append(w, s)[p])
    BY <1>1, <1>2, <1>4 DEF WireSorted
  <2>2. ASSUME NEW p \in DOMAIN Append(w, s), NEW q \in DOMAIN Append(w, s), p < q
        PROVE  Before(Ranks(Append(w, s)[p]), Ranks(Append(w, s)[q]))
    <3>1. p \in DOMAIN w
      BY <1>1, <2>2
    <3>2. CASE q \in DOMAIN w
      BY <1>1, <1>4, <2>2, <3>1, <3>2 DEF WireSorted
    <3>3. CASE q = Len(w) + 1
      <4>1. Ranks(w[p]) \subseteq RanksOnWire(w)
        BY <3>1 DEF RanksOnWire
      <4> QED
        BY <1>1, <1>4, <3>1, <3>3, <4>1 DEF Before
    <3> QED
      BY <1>2, <3>2, <3>3
  <2> QED
    BY <2>1, <2>2 DEF WireSorted
<1> QED
  BY <1>3, <1>4

LEMMA TailOfWire ==
  ASSUME NEW w \in Seq(Seq(Message)), w # <<>>
  PROVE  /\ RanksOnWire(w) = Ranks(Head(w)) \cup RanksOnWire(Tail(w))
         /\ WireSorted(w) => /\ WireSorted(Tail(w))
                             /\ Sorted(Head(w))
                             /\ Before(Ranks(Head(w)), RanksOnWire(Tail(w)))
<1>1. /\ Len(w) \in Nat \ {0} /\ DOMAIN w = 1 .. Len(w)
      /\ DOMAIN Tail(w) = 1 .. Len(w) - 1
      /\ \A p \in DOMAIN Tail(w) : Tail(w)[p] = w[p + 1] /\ p + 1 \in DOMAIN w
      /\ Head(w) = w[1] /\ 1 \in DOMAIN w
  BY HeadTailProperties, LenProperties, EmptySeq
<1>2. \A p \in DOMAIN w : p = 1 \/ (p - 1 \in DOMAIN Tail(w) /\ w[p] = Tail(w)[p - 1])
  BY <1>1
<1>3. RanksOnWire(w) = Ranks(Head(w)) \cup RanksOnWire(Tail(w))
  BY <1>1, <1>2 DEF RanksOnWire
<1>4. ASSUME WireSorted(w)
      PROVE  WireSorted(Tail(w)) /\ Sorted(Head(w))
             /\ Before(Ranks(Head(w)), RanksOnWire(Tail(w)))
  <2>1. Sorted(Head(w)) /\ \A p \in DOMAIN Tail(w) : Sorted(Tail(w)[p])
    BY <1>1, <1>4 DEF WireSorted
  <2>2. ASSUME NEW p \in DOMAIN Tail(w), NEW q \in DOMAIN Tail(w), p < q
        PROVE  Before(Ranks(Tail(w)[p]), Ranks(Tail(w)[q]))
    BY <1>1, <1>4, <2>2 DEF WireSorted
  <2>3. ASSUME NEW p \in DOMAIN Tail(w) PROVE Before(Ranks(Head(w)), Ranks(Tail(w)[p]))
    <3>1. 1 < p + 1
      BY <1>1
    <3> QED
      BY <1>1, <1>4, <3>1 DEF WireSorted
  <2> QED
    BY <2>1, <2>2, <2>3 DEF WireSorted, Before, RanksOnWire
<1> QED
  BY <1>3, <1>4

-----------------------------------------------------------------------------
\* What holds of one lane: rec has been read, x is lost, w is on the wire, p in
\* the packet under construction, q in the queue, and n were enqueued.
LaneInv(rec, x, w, p, q, n) ==
  /\ Sorted(rec) /\ WireSorted(w) /\ Sorted(p) /\ Sorted(q)
  /\ Before(Ranks(rec), RanksOnWire(w) \cup Ranks(p) \cup Ranks(q))
  /\ Before(RanksOnWire(w), Ranks(p) \cup Ranks(q))
  /\ Before(Ranks(p), Ranks(q))
  /\ Ranks(rec) \cup x \cup RanksOnWire(w) \cup Ranks(p) \cup Ranks(q) = 1 .. n
  /\ x \cap (Ranks(rec) \cup RanksOnWire(w) \cup Ranks(p) \cup Ranks(q)) = {}

LEMMA NoMessage ==
  /\ Ranks(<<>>) = {} /\ Sorted(<<>>)
  /\ RanksOnWire(<<>>) = {} /\ WireSorted(<<>>)
  BY DEF Ranks, Sorted, RanksOnWire, WireSorted

LEMMA LaneInit == LaneInv(<<>>, {}, <<>>, <<>>, <<>>, 0)
  BY NoMessage DEF LaneInv, Before

LEMMA LaneEnqueue ==
  ASSUME NEW rec, NEW x, NEW w, NEW p, NEW q \in Seq(Message), NEW n \in Nat,
         NEW m \in Message, m.rank = n + 1, LaneInv(rec, x, w, p, q, n)
  PROVE  LaneInv(rec, x, w, p, Append(q, m), n + 1)
<1>1. 1 .. n + 1 = (1 .. n) \cup {n + 1} /\ \A r \in 1 .. n : r < n + 1
  OBVIOUS
<1>2. Ranks(Append(q, m)) = Ranks(q) \cup {n + 1}
  BY AppendRanks
<1>3. Sorted(Append(q, m))
  BY <1>1, AppendRanks DEF LaneInv, Before
<1>4. Before(Ranks(rec) \cup RanksOnWire(w) \cup Ranks(p), {n + 1})
  BY <1>1 DEF LaneInv, Before
<1>5. (n + 1) \notin 1 .. n
  OBVIOUS
<1> QED
  BY <1>1, <1>2, <1>3, <1>4, <1>5 DEF LaneInv, Before

LEMMA LaneAdd ==
  ASSUME NEW rec, NEW x, NEW w, NEW p \in Seq(Message), NEW q \in Seq(Message), NEW n,
         q # <<>>, LaneInv(rec, x, w, p, q, n)
  PROVE  LaneInv(rec, x, w, Append(p, Head(q)), Tail(q), n)
<1>1. Head(q) \in Message
  OBVIOUS
<1>2. /\ Ranks(q) = {Head(q).rank} \cup Ranks(Tail(q))
      /\ Sorted(Tail(q)) /\ Before({Head(q).rank}, Ranks(Tail(q)))
  BY TailRanks DEF LaneInv
<1>3. Before(Ranks(p), {Head(q).rank})
  BY <1>2 DEF LaneInv, Before
<1>4. /\ Ranks(Append(p, Head(q))) = Ranks(p) \cup {Head(q).rank}
      /\ Sorted(Append(p, Head(q)))
  BY <1>1, <1>3, AppendRanks DEF LaneInv
<1>5. Before(Ranks(Append(p, Head(q))), Ranks(Tail(q)))
  BY <1>2, <1>4 DEF LaneInv, Before
<1>6. Ranks(p) \cup Ranks(q) = Ranks(Append(p, Head(q))) \cup Ranks(Tail(q))
  BY <1>2, <1>4
<1> QED
  BY <1>2, <1>4, <1>5, <1>6 DEF LaneInv, Before

LEMMA LaneDrop ==
  ASSUME NEW rec, NEW x, NEW w, NEW p, NEW q \in Seq(Message), NEW n,
         q # <<>>, LaneInv(rec, x, w, p, q, n)
  PROVE  LaneInv(rec, x \cup {Head(q).rank}, w, p, Tail(q), n)
<1>0. Head(q) \in Message
  OBVIOUS
<1>1. Head(q).rank \in Nat
  BY <1>0 DEF Message
<1>2. /\ Ranks(q) = {Head(q).rank} \cup Ranks(Tail(q))
      /\ Sorted(Tail(q)) /\ Before({Head(q).rank}, Ranks(Tail(q)))
  BY TailRanks DEF LaneInv
<1>3. Before(Ranks(rec) \cup RanksOnWire(w) \cup Ranks(p), {Head(q).rank})
  BY <1>2 DEF LaneInv, Before
<1>4. Head(q).rank \notin Ranks(rec) \cup RanksOnWire(w) \cup Ranks(p) \cup Ranks(Tail(q))
  BY <1>1, <1>2, <1>3 DEF Before
<1> QED
  BY <1>2, <1>4 DEF LaneInv, Before

LEMMA LaneSend ==
  ASSUME NEW rec, NEW x, NEW w \in Seq(Seq(Message)), NEW p \in Seq(Message), NEW q, NEW n,
         LaneInv(rec, x, w, p, q, n)
  PROVE  LaneInv(rec, x, Append(w, p), <<>>, q, n)
<1>1. /\ RanksOnWire(Append(w, p)) = RanksOnWire(w) \cup Ranks(p)
      /\ WireSorted(Append(w, p))
  BY AppendOnWire DEF LaneInv, Before
<1> QED
  BY <1>1, NoMessage DEF LaneInv, Before

LEMMA LaneDiscard ==
  ASSUME NEW rec, NEW x, NEW w, NEW p \in Seq(Message), NEW q, NEW n \in Nat,
         LaneInv(rec, x, w, p, q, n)
  PROVE  LaneInv(rec, x \cup Ranks(p), w, <<>>, q, n)
<1>1. \A r \in 1 .. n : ~(r < r)
  OBVIOUS
<1>2. Ranks(p) \cap (Ranks(rec) \cup RanksOnWire(w) \cup Ranks(q)) = {}
  BY <1>1 DEF LaneInv, Before
<1> QED
  BY <1>2, NoMessage DEF LaneInv, Before

LEMMA LaneDeliver ==
  ASSUME NEW rec \in Seq(Message), NEW x, NEW w \in Seq(Seq(Message)), NEW p, NEW q, NEW n,
         w # <<>>, LaneInv(rec, x, w, p, q, n)
  PROVE  LaneInv(rec \o Head(w), x, Tail(w), p, q, n)
<1>1. /\ RanksOnWire(w) = Ranks(Head(w)) \cup RanksOnWire(Tail(w))
      /\ WireSorted(Tail(w)) /\ Sorted(Head(w))
      /\ Before(Ranks(Head(w)), RanksOnWire(Tail(w)))
  BY TailOfWire DEF LaneInv
<1>2. Head(w) \in Seq(Message)
  OBVIOUS
<1>3. Before(Ranks(rec), Ranks(Head(w)))
  BY <1>1 DEF LaneInv, Before
<1>4. /\ Ranks(rec \o Head(w)) = Ranks(rec) \cup Ranks(Head(w))
      /\ Sorted(rec \o Head(w))
  BY <1>1, <1>2, <1>3, ConcatRanks DEF LaneInv
<1>5. Before(Ranks(rec \o Head(w)), RanksOnWire(Tail(w)) \cup Ranks(p) \cup Ranks(q))
  BY <1>1, <1>4 DEF LaneInv, Before
<1>6. Before(RanksOnWire(Tail(w)), Ranks(p) \cup Ranks(q))
  BY <1>1 DEF LaneInv, Before
<1>7. Ranks(rec \o Head(w)) \cup RanksOnWire(Tail(w)) = Ranks(rec) \cup RanksOnWire(w)
  BY <1>1, <1>4
<1> QED
  BY <1>1, <1>4, <1>5, <1>6, <1>7 DEF LaneInv

LEMMA LaneLose ==
  ASSUME NEW rec, NEW x, NEW w \in Seq(Seq(Message)), NEW p, NEW q, NEW n \in Nat,
         w # <<>>, LaneInv(rec, x, w, p, q, n)
  PROVE  LaneInv(rec, x \cup Ranks(Head(w)), Tail(w), p, q, n)
<1>1. /\ RanksOnWire(w) = Ranks(Head(w)) \cup RanksOnWire(Tail(w))
      /\ WireSorted(Tail(w)) /\ Sorted(Head(w))
      /\ Before(Ranks(Head(w)), RanksOnWire(Tail(w)))
  BY TailOfWire DEF LaneInv
<1>2. \A r \in 1 .. n : ~(r < r)
  OBVIOUS
<1>3. Ranks(Head(w)) \subseteq 1 .. n
  BY <1>1 DEF LaneInv
<1>4. Ranks(Head(w)) \cap (Ranks(rec) \cup RanksOnWire(Tail(w)) \cup Ranks(p) \cup Ranks(q)) = {}
  BY <1>1, <1>2, <1>3 DEF LaneInv, Before
<1> QED
  BY <1>1, <1>4 DEF LaneInv, Before

-----------------------------------------------------------------------------
\* Outside the building of a connection no message is left in a packet, and a
\* packet is created before the first message is taken from its queue.
PacketsEmpty ==
  /\ pc \in {"idle", "slot"} => \A ch \in Channels : packet[ch].messages = <<>>
  /\ pc = "send_reliable" => packet[Unreliable].messages = <<>>
  /\ \A ch \in Channels : ch \notin created => packet[ch].messages = <<>>
  /\ pc = "build_unreliable" =>
       \A ch \in Channels : ch \notin created => queue[Lane(ch)] = <<>>
  /\ pc = "build_reliable" => (Reliable \notin created => queue[Lane(Reliable)] = <<>>)

LaneOrder(l) ==
  LaneInv(received[l], lost[l], wire[l], InPacket(l), queue[l], enqueued[l])

IInv == TypeInv /\ PacketsEmpty /\ \A l \in Lanes : LaneOrder(l)

LEMMA OrderInit == Init => IInv
<1> SUFFICES ASSUME Init PROVE IInv
  OBVIOUS
<1>1. TypeInv
  BY TypeInit
<1>2. PacketsEmpty
  BY DEF Init, PacketsEmpty, EmptyPacket, Lanes, Ids, Lane
<1>3. ASSUME NEW l \in Lanes PROVE LaneOrder(l)
  <2>1. InPacket(l) = <<>>
    BY DEF Init, InPacket, EmptyPacket, Lanes, Channels
  <2> QED
    BY <2>1, LaneInit DEF Init, LaneOrder
<1> QED
  BY <1>1, <1>2, <1>3 DEF IInv

LEMMA PacketsEmptyStep == TypeInv /\ PacketsEmpty /\ [Next]_vars => PacketsEmpty'
<1> SUFFICES ASSUME TypeInv, PacketsEmpty, [Next]_vars PROVE PacketsEmpty'
  OBVIOUS
<1> USE DEF Channels, Reliable, Unreliable
<1>a. EmptyPacket.messages = <<>>
  BY DEF EmptyPacket
<1>b. packet \in [Channels -> Packet] /\ queue \in [Lanes -> Seq(Message)]
  BY DEF TypeInv, TypeOK
<1>1. ASSUME NEW c \in Ids, NewConnection(c) PROVE PacketsEmpty'
  BY <1>1 DEF NewConnection, PacketsEmpty, flushVars
<1>2. ASSUME NEW l \in Lanes, NEW k \in Kinds, EnqueueMessage(l, k) PROVE PacketsEmpty'
  BY <1>2 DEF EnqueueMessage, PacketsEmpty, flushVars
<1>3. CASE BeginFlush
  BY <1>3 DEF BeginFlush, PacketsEmpty
<1>4. CASE EndFlush
  BY <1>4 DEF EndFlush, PacketsEmpty
<1>5. CASE SkipSlot
  BY <1>5 DEF SkipSlot, PacketsEmpty
<1>6. CASE EnterSlot
  BY <1>6, <1>a DEF EnterSlot, PacketsEmpty, Lane, queueVars
<1>7. ASSUME NEW ch \in Channels, AddMessage(ch) PROVE PacketsEmpty'
  <2>1. ch \in created
    BY <1>7 DEF AddMessage, Building, PacketsEmpty
  <2>2. \A c \in Channels \ {ch} : packet'[c] = packet[c] /\ queue'[Lane(c)] = queue[Lane(c)]
    BY <1>7, <1>b DEF AddMessage, Lane
  <2>3. pc' = pc /\ created' = created /\ pc \in {"build_unreliable", "build_reliable"}
        /\ \A c \in Channels : Lane(c)' = Lane(c)
    BY <1>7 DEF AddMessage, Building, Lane
  <2> QED
    BY <2>1, <2>2, <2>3 DEF PacketsEmpty
<1>8. ASSUME NEW ch \in Channels, DropOverflow(ch) PROVE PacketsEmpty'
  <2>1. \A c \in Channels \ {ch} : queue'[Lane(c)] = queue[Lane(c)]
    BY <1>8, <1>b DEF DropOverflow, Lane
  <2>2. \A c \in Channels : Lane(c)' = Lane(c)
    BY <1>8 DEF DropOverflow, Lane
  <2> QED
    BY <1>8, <2>1, <2>2 DEF DropOverflow, Building, AfterBuilding, PacketsEmpty
<1>9. ASSUME NEW ch \in Channels, FinishBuilding(ch) PROVE PacketsEmpty'
  BY <1>9 DEF FinishBuilding, Building, AfterBuilding, PacketsEmpty, queueVars, Lane
<1>10. ASSUME NEW ch \in Channels, AbortOnRange(ch) PROVE PacketsEmpty'
  BY <1>10 DEF AbortOnRange, PacketsEmpty
<1>11. ASSUME NEW ch \in Channels, NothingToSend(ch) PROVE PacketsEmpty'
  BY <1>11 DEF NothingToSend, Sending, AfterSending, PacketsEmpty
<1>12. ASSUME NEW ch \in Channels, SendPacket(ch) PROVE PacketsEmpty'
  BY <1>12, <1>a, <1>b DEF SendPacket, Sending, AfterSending, PacketsEmpty
<1>13. ASSUME NEW ch \in Channels, SealFails(ch) PROVE PacketsEmpty'
  BY <1>13, <1>a DEF SealFails, PacketsEmpty
<1>14. ASSUME NEW l \in Lanes, Deliver(l) PROVE PacketsEmpty'
  BY <1>14 DEF Deliver, PacketsEmpty, queueVars, flushVars, Lane
<1>15. ASSUME NEW l \in Lanes, LosePacket(l) PROVE PacketsEmpty'
  BY <1>15 DEF LosePacket, PacketsEmpty, queueVars, flushVars, Lane
<1>16. CASE UNCHANGED vars
  BY <1>16 DEF vars, queueVars, flushVars, wireVars, PacketsEmpty, Lane
<1> QED
  BY <1>1, <1>2, <1>3, <1>4, <1>5, <1>6, <1>7, <1>8, <1>9, <1>10, <1>11, <1>12,
     <1>13, <1>14, <1>15, <1>16 DEF Next, FlushStep

\* The lane of the cursor is the lane whose packet is under construction.
LEMMA CursorLane ==
  ASSUME NEW l \in Lanes, NEW ch \in Channels
  PROVE  /\ l = Lane(ch) <=> l[1] = cursor /\ l[2] = ch
         /\ InPacket(Lane(ch)) = packet[ch].messages
  BY DEF Lane, Lanes, InPacket

\* What a step may do to one lane.
Untouched(l) ==
  /\ queue'[l] = queue[l] /\ enqueued'[l] = enqueued[l] /\ wire'[l] = wire[l]
  /\ received'[l] = received[l] /\ lost'[l] = lost[l] /\ InPacket(l)' = InPacket(l)

Enqueued(l) ==
  /\ \E m \in Message : m.rank = enqueued[l] + 1 /\ queue'[l] = Append(queue[l], m)
  /\ enqueued'[l] = enqueued[l] + 1
  /\ wire'[l] = wire[l] /\ received'[l] = received[l] /\ lost'[l] = lost[l]
  /\ InPacket(l)' = InPacket(l)

Added(l) ==
  /\ queue[l] # <<>> /\ queue'[l] = Tail(queue[l])
  /\ InPacket(l)' = Append(InPacket(l), Head(queue[l]))
  /\ enqueued'[l] = enqueued[l] /\ wire'[l] = wire[l]
  /\ received'[l] = received[l] /\ lost'[l] = lost[l]

Dropped(l) ==
  /\ queue[l] # <<>> /\ queue'[l] = Tail(queue[l])
  /\ lost'[l] = lost[l] \cup {Head(queue[l]).rank}
  /\ enqueued'[l] = enqueued[l] /\ wire'[l] = wire[l]
  /\ received'[l] = received[l] /\ InPacket(l)' = InPacket(l)
  /\ \E ch \in Channels : DropOverflow(ch)

Sent(l) ==
  /\ wire'[l] = Append(wire[l], InPacket(l)) /\ InPacket(l)' = <<>>
  /\ queue'[l] = queue[l] /\ enqueued'[l] = enqueued[l]
  /\ received'[l] = received[l] /\ lost'[l] = lost[l]

Discarded(l) ==
  /\ InPacket(l)' = <<>> /\ lost'[l] = lost[l] \cup Ranks(InPacket(l))
  /\ queue'[l] = queue[l] /\ enqueued'[l] = enqueued[l]
  /\ wire'[l] = wire[l] /\ received'[l] = received[l]
  /\ \E ch \in Channels : SealFails(ch)

Delivered(l) ==
  /\ wire[l] # <<>> /\ wire'[l] = Tail(wire[l])
  /\ received'[l] = received[l] \o Head(wire[l])
  /\ queue'[l] = queue[l] /\ enqueued'[l] = enqueued[l]
  /\ lost'[l] = lost[l] /\ InPacket(l)' = InPacket(l)

Vanished(l) ==
  /\ wire[l] # <<>> /\ wire'[l] = Tail(wire[l])
  /\ lost'[l] = lost[l] \cup Ranks(Head(wire[l]))
  /\ queue'[l] = queue[l] /\ enqueued'[l] = enqueued[l]
  /\ received'[l] = received[l] /\ InPacket(l)' = InPacket(l)
  /\ l[2] = Unreliable

LaneEffect(l) ==
  \/ Untouched(l) \/ Enqueued(l) \/ Added(l) \/ Dropped(l)
  \/ Sent(l) \/ Discarded(l) \/ Delivered(l) \/ Vanished(l)

\* The parts of a lane are sequences of messages.
LEMMA LaneParts ==
  ASSUME TypeInv, NEW l \in Lanes
  PROVE  /\ l[1] \in Ids /\ l[2] \in Channels
         /\ queue[l] \in Seq(Message) /\ enqueued[l] \in Nat /\ received[l] \in Seq(Message)
         /\ wire[l] \in Seq(Seq(Message)) /\ InPacket(l) \in Seq(Message)
<1>1. l[1] \in Ids /\ l[2] \in Channels
  BY DEF Lanes
<1> QED
  BY <1>1 DEF TypeInv, TypeOK, Packet, InPacket

\* Every step has one of these effects on each lane.
LEMMA LaneEffects ==
  ASSUME TypeInv, PacketsEmpty, [Next]_vars, NEW l \in Lanes
  PROVE  LaneEffect(l)
<1>a. TypeInv /\ TypeOK /\ PacketsEmpty
  BY DEF TypeInv
<1>b. l[1] \in Ids /\ l[2] \in Channels
  BY DEF Lanes
<1>c. /\ queue[l] \in Seq(Message) /\ enqueued[l] \in Nat /\ received[l] \in Seq(Message)
      /\ wire[l] \in Seq(Seq(Message)) /\ packet[l[2]].messages \in Seq(Message)
      /\ InPacket(l) \in Seq(Message)
  BY <1>a, <1>b DEF TypeOK, Packet, InPacket
<1>d. EmptyPacket.messages = <<>>
  BY DEF EmptyPacket
<1>e. CASE UNCHANGED wireVars /\ UNCHANGED queueVars /\ InPacket(l)' = InPacket(l)
  BY <1>a, <1>e DEF LaneEffect, Untouched, wireVars, queueVars
<1>1. ASSUME NEW c \in Ids, NewConnection(c) PROVE LaneEffect(l)
  BY <1>1, <1>a DEF LaneEffect, Untouched, NewConnection, flushVars, wireVars, InPacket
<1>2. ASSUME NEW m \in Lanes, NEW k \in Kinds, EnqueueMessage(m, k) PROVE LaneEffect(l)
  <2>1. InPacket(l)' = InPacket(l) /\ UNCHANGED wireVars
    BY <1>2 DEF EnqueueMessage, flushVars, InPacket
  <2>2. CASE l # m
    <3>1. queue'[l] = queue[l] /\ enqueued'[l] = enqueued[l]
      BY <1>2, <1>a, <2>2 DEF EnqueueMessage, TypeOK
    <3> QED
      BY <1>a, <2>1, <3>1 DEF LaneEffect, Untouched, wireVars
  <2>3. CASE l = m
    <3> DEFINE new == [rank |-> enqueued[l] + 1, kind |-> k]
    <3>1. new \in Message /\ new.rank = enqueued[l] + 1
      BY <1>c DEF Message
    <3>2. queue'[l] = Append(queue[l], new) /\ enqueued'[l] = enqueued[l] + 1
      BY <1>2, <1>a, <2>3 DEF EnqueueMessage, TypeOK
    <3> HIDE DEF new
    <3>3. Enqueued(l)
      BY <2>1, <3>1, <3>2 DEF Enqueued, wireVars
    <3> QED
      BY <3>3 DEF LaneEffect
  <2> QED
    BY <2>2, <2>3
<1>3. CASE BeginFlush
  <2>1. InPacket(l) = <<>> /\ InPacket(l)' = <<>>
    BY <1>3, <1>a, <1>b DEF BeginFlush, PacketsEmpty, InPacket
  <2> QED
    BY <1>3, <1>e, <2>1 DEF BeginFlush
<1>4. CASE EndFlush
  BY <1>4, <1>e DEF EndFlush, InPacket
<1>5. CASE SkipSlot
  <2>1. InPacket(l) = <<>> /\ InPacket(l)' = <<>>
    BY <1>5, <1>a, <1>b DEF SkipSlot, PacketsEmpty, InPacket
  <2> QED
    BY <1>5, <1>e, <2>1 DEF SkipSlot
<1>6. CASE EnterSlot
  <2>1. InPacket(l) = <<>> /\ InPacket(l)' = <<>>
    BY <1>6, <1>a, <1>b, <1>d DEF EnterSlot, PacketsEmpty, InPacket
  <2> QED
    BY <1>6, <1>e, <2>1 DEF EnterSlot
<1>7. ASSUME NEW ch \in Channels, AddMessage(ch) PROVE LaneEffect(l)
  <2>0. cursor < Capacity
    BY <1>7, <1>a DEF AddMessage, Building, InSlot, TypeInv
  <2>1. Lane(ch) \in Lanes /\ UNCHANGED <<cursor, enqueued, wireVars>>
    BY <1>7, <1>a, <2>0, LaneType DEF AddMessage
  <2>2. CASE l # Lane(ch)
    <3>1. queue'[l] = queue[l] /\ InPacket(l)' = InPacket(l)
      BY <1>7, <1>a, <1>b, <2>1, <2>2, CursorLane DEF AddMessage, TypeOK, InPacket
    <3> QED
      BY <1>a, <2>1, <3>1 DEF LaneEffect, Untouched, wireVars
  <2>3. CASE l = Lane(ch)
    <3>1. l[1] = cursor /\ l[2] = ch /\ InPacket(l) = packet[ch].messages
      BY <2>3, CursorLane
    <3>2. queue[l] # <<>> /\ queue'[l] = Tail(queue[l])
      BY <1>7, <1>a, <2>1, <2>3 DEF AddMessage, TypeOK
    <3>3. packet'[ch] = AddTo(packet[ch], Head(queue[l]))
      BY <1>7, <1>a, <2>3 DEF AddMessage, TypeOK
    <3>4. InPacket(l)' = Append(InPacket(l), Head(queue[l]))
      BY <2>1, <3>1, <3>3 DEF InPacket, AddTo
    <3>5. Added(l)
      BY <2>1, <3>2, <3>4 DEF Added, wireVars
    <3> QED
      BY <3>5 DEF LaneEffect
  <2> QED
    BY <2>2, <2>3
<1>8. ASSUME NEW ch \in Channels, DropOverflow(ch) PROVE LaneEffect(l)
  <2>0. cursor < Capacity
    BY <1>8, <1>a DEF DropOverflow, Building, InSlot, TypeInv
  <2>1. Lane(ch) \in Lanes /\ UNCHANGED <<enqueued, wire, received>>
        /\ InPacket(l)' = InPacket(l)
    BY <1>8, <1>a, <2>0, LaneType DEF DropOverflow, InPacket
  <2>2. CASE l # Lane(ch)
    <3>1. queue'[l] = queue[l] /\ lost'[l] = lost[l]
      BY <1>8, <1>a, <2>2 DEF DropOverflow, TypeOK
    <3> QED
      BY <1>a, <2>1, <3>1 DEF LaneEffect, Untouched
  <2>3. CASE l = Lane(ch)
    <3>1. queue[l] # <<>> /\ queue'[l] = Tail(queue[l])
          /\ lost'[l] = lost[l] \cup {Head(queue[l]).rank}
      BY <1>8, <1>a, <2>1, <2>3 DEF DropOverflow, TypeOK
    <3>2. Dropped(l)
      BY <1>8, <2>1, <3>1 DEF Dropped
    <3> QED
      BY <3>2 DEF LaneEffect
  <2> QED
    BY <2>2, <2>3
<1>9. ASSUME NEW ch \in Channels, FinishBuilding(ch) PROVE LaneEffect(l)
  BY <1>9, <1>e DEF FinishBuilding, InPacket
<1>10. ASSUME NEW ch \in Channels, AbortOnRange(ch) PROVE LaneEffect(l)
  BY <1>10, <1>e DEF AbortOnRange, InPacket
<1>11. ASSUME NEW ch \in Channels, NothingToSend(ch) PROVE LaneEffect(l)
  <2>1. CASE ch = Unreliable
    BY <1>11, <1>e, <2>1 DEF NothingToSend, NextSlot, InPacket
  <2>2. CASE ch = Reliable
    <3>1. InPacket(l) = <<>> /\ InPacket(l)' = <<>>
      BY <1>11, <1>a, <1>b, <2>2
      DEF NothingToSend, Sending, PacketsEmpty, InPacket, Channels, Reliable, Unreliable
    <3> QED
      BY <1>11, <1>e, <3>1 DEF NothingToSend
  <2> QED
    BY <2>1, <2>2 DEF Channels
<1>12. ASSUME NEW ch \in Channels, SendPacket(ch) PROVE LaneEffect(l)
  <2>0. cursor < Capacity /\ cursor \in Nat
    BY <1>12, <1>a, ParametersAssumption DEF SendPacket, Sending, InSlot, TypeInv, TypeOK
  <2>1. Lane(ch) \in Lanes /\ UNCHANGED <<queueVars, received, lost>>
    BY <1>12, <1>a, <2>0, LaneType DEF SendPacket
  <2>2. packet'[ch].messages = <<>> /\ \A c \in Channels \ {ch} : packet'[c] = packet[c]
    BY <1>12, <1>a, <1>d DEF SendPacket, TypeOK
  <2>3. ch = Reliable => packet[Unreliable].messages = <<>>
    BY <1>12, <1>a DEF SendPacket, Sending, PacketsEmpty, Reliable, Unreliable
  <2>4. ch = Unreliable => cursor' = cursor
    BY <1>12 DEF SendPacket, NextSlot
  <2>5. CASE l # Lane(ch)
    <3>1. wire'[l] = wire[l]
      BY <1>12, <1>a, <2>5 DEF SendPacket, TypeOK
    <3>2. InPacket(l)' = InPacket(l)
      <4>1. CASE ch = Unreliable
        BY <1>b, <2>1, <2>2, <2>4, <2>5, <4>1, CursorLane DEF InPacket
      <4>2. CASE ch = Reliable
        <5>1. \A c \in Channels : packet'[c].messages = <<>>
          BY <2>2, <2>3, <4>2 DEF Channels
        <5>2. InPacket(l)' = <<>>
          BY <1>b, <5>1 DEF InPacket
        <5>3. InPacket(l) = <<>>
          BY <1>b, <2>3, <2>5, <4>2, CursorLane DEF InPacket, Channels
        <5> QED
          BY <5>2, <5>3
      <4> QED
        BY <4>1, <4>2 DEF Channels
    <3> QED
      BY <1>a, <2>1, <3>1, <3>2 DEF LaneEffect, Untouched, queueVars
  <2>6. CASE l = Lane(ch)
    <3>1. l[1] = cursor /\ l[2] = ch /\ InPacket(l) = packet[ch].messages
      BY <2>6, CursorLane
    <3>2. wire'[l] = Append(wire[l], InPacket(l))
      BY <1>12, <1>a, <2>6, <3>1 DEF SendPacket, TypeOK
    <3>3. InPacket(l)' = <<>>
      BY <2>2, <3>1 DEF InPacket
    <3>4. Sent(l)
      BY <2>1, <3>2, <3>3 DEF Sent, queueVars
    <3> QED
      BY <3>4 DEF LaneEffect
  <2> QED
    BY <2>5, <2>6
<1>13. ASSUME NEW ch \in Channels, SealFails(ch) PROVE LaneEffect(l)
  <2>1. InPacket(l)' = <<>>
    BY <1>13, <1>b, <1>d DEF SealFails, InPacket
  <2>2. lost'[l] = lost[l] \cup Ranks(InPacket(l))
    <3>1. CASE l[1] = cursor
      BY <1>13, <3>1 DEF SealFails, InPacket
    <3>2. CASE l[1] # cursor
      BY <1>13, <3>2, NoMessage DEF SealFails, InPacket
    <3> QED
      BY <3>1, <3>2
  <2>3. UNCHANGED <<queue, enqueued, wire, received>>
    BY <1>13 DEF SealFails, queueVars
  <2>4. Discarded(l)
    BY <1>13, <2>1, <2>2, <2>3 DEF Discarded
  <2> QED
    BY <2>4 DEF LaneEffect
<1>14. ASSUME NEW m \in Lanes, Deliver(m) PROVE LaneEffect(l)
  <2>1. UNCHANGED <<queueVars, lost>> /\ InPacket(l)' = InPacket(l)
    BY <1>14 DEF Deliver, flushVars, InPacket
  <2>2. CASE l # m
    <3>1. wire'[l] = wire[l] /\ received'[l] = received[l]
      BY <1>14, <1>a, <2>2 DEF Deliver, TypeOK
    <3> QED
      BY <1>a, <2>1, <3>1 DEF LaneEffect, Untouched, queueVars
  <2>3. CASE l = m
    <3>1. wire[l] # <<>> /\ wire'[l] = Tail(wire[l])
          /\ received'[l] = received[l] \o Head(wire[l])
      BY <1>14, <1>a, <2>3 DEF Deliver, TypeOK
    <3>2. Delivered(l)
      BY <2>1, <3>1 DEF Delivered, queueVars
    <3> QED
      BY <3>2 DEF LaneEffect
  <2> QED
    BY <2>2, <2>3
<1>15. ASSUME NEW m \in Lanes, LosePacket(m) PROVE LaneEffect(l)
  <2>1. UNCHANGED <<queueVars, received>> /\ InPacket(l)' = InPacket(l)
    BY <1>15 DEF LosePacket, flushVars, InPacket
  <2>2. CASE l # m
    <3>1. wire'[l] = wire[l] /\ lost'[l] = lost[l]
      BY <1>15, <1>a, <2>2 DEF LosePacket, TypeOK
    <3> QED
      BY <1>a, <2>1, <3>1 DEF LaneEffect, Untouched, queueVars
  <2>3. CASE l = m
    <3>1. wire[l] # <<>> /\ wire'[l] = Tail(wire[l])
          /\ lost'[l] = lost[l] \cup Ranks(Head(wire[l]))
      BY <1>15, <1>a, <2>3 DEF LosePacket, TypeOK
    <3>2. Vanished(l)
      BY <1>15, <2>1, <2>3, <3>1 DEF Vanished, LosePacket, queueVars
    <3> QED
      BY <3>2 DEF LaneEffect
  <2> QED
    BY <2>2, <2>3
<1>16. CASE UNCHANGED vars
  BY <1>16, <1>e DEF vars, flushVars, InPacket
<1> QED
  BY <1>1, <1>2, <1>3, <1>4, <1>5, <1>6, <1>7, <1>8, <1>9, <1>10, <1>11, <1>12,
     <1>13, <1>14, <1>15, <1>16 DEF Next, FlushStep

\* A lane keeps its order whatever happens to it.
LEMMA OrderStep == IInv /\ [Next]_vars => (\A l \in Lanes : LaneOrder(l))'
<1> SUFFICES ASSUME IInv, [Next]_vars, NEW l \in Lanes PROVE LaneOrder(l)'
  BY DEF Lanes, Ids
<1>a. TypeInv /\ PacketsEmpty /\ LaneOrder(l)
  BY DEF IInv
<1>b. /\ queue[l] \in Seq(Message) /\ enqueued[l] \in Nat /\ received[l] \in Seq(Message)
      /\ wire[l] \in Seq(Seq(Message)) /\ InPacket(l) \in Seq(Message)
  BY <1>a, LaneParts
<1> USE DEF LaneOrder
<1>1. CASE Untouched(l)
  BY <1>a, <1>1 DEF Untouched
<1>2. CASE Enqueued(l)
  <2>1. PICK m \in Message : m.rank = enqueued[l] + 1 /\ queue'[l] = Append(queue[l], m)
    BY <1>2 DEF Enqueued
  <2>2. LaneInv(received[l], lost[l], wire[l], InPacket(l), Append(queue[l], m), enqueued[l] + 1)
    BY <1>a, <1>b, <2>1, LaneEnqueue
  <2> QED
    BY <1>2, <2>1, <2>2 DEF Enqueued
<1>3. CASE Added(l)
  <2>1. LaneInv(received[l], lost[l], wire[l], Append(InPacket(l), Head(queue[l])),
                Tail(queue[l]), enqueued[l])
    BY <1>a, <1>b, <1>3, LaneAdd DEF Added
  <2> QED
    BY <1>3, <2>1 DEF Added
<1>4. CASE Dropped(l)
  <2>1. LaneInv(received[l], lost[l] \cup {Head(queue[l]).rank}, wire[l], InPacket(l),
                Tail(queue[l]), enqueued[l])
    BY <1>a, <1>b, <1>4, LaneDrop DEF Dropped
  <2> QED
    BY <1>4, <2>1 DEF Dropped
<1>5. CASE Sent(l)
  <2>1. LaneInv(received[l], lost[l], Append(wire[l], InPacket(l)), <<>>, queue[l], enqueued[l])
    BY <1>a, <1>b, LaneSend
  <2> QED
    BY <1>5, <2>1 DEF Sent
<1>6. CASE Discarded(l)
  <2>1. LaneInv(received[l], lost[l] \cup Ranks(InPacket(l)), wire[l], <<>>, queue[l],
                enqueued[l])
    BY <1>a, <1>b, LaneDiscard
  <2> QED
    BY <1>6, <2>1 DEF Discarded
<1>7. CASE Delivered(l)
  <2>1. LaneInv(received[l] \o Head(wire[l]), lost[l], Tail(wire[l]), InPacket(l), queue[l],
                enqueued[l])
    BY <1>a, <1>b, <1>7, LaneDeliver DEF Delivered
  <2> QED
    BY <1>7, <2>1 DEF Delivered
<1>8. CASE Vanished(l)
  <2>1. LaneInv(received[l], lost[l] \cup Ranks(Head(wire[l])), Tail(wire[l]), InPacket(l),
                queue[l], enqueued[l])
    BY <1>a, <1>b, <1>8, LaneLose DEF Vanished
  <2> QED
    BY <1>8, <2>1 DEF Vanished
<1>9. LaneEffect(l)
  BY <1>a, LaneEffects
<1> QED
  BY <1>1, <1>2, <1>3, <1>4, <1>5, <1>6, <1>7, <1>8, <1>9 DEF LaneEffect

LEMMA IInvStep == IInv /\ [Next]_vars => IInv'
  BY TypeStep, PacketsEmptyStep, OrderStep DEF IInv

\* The messages of a lane are read in the order in which they were enqueued and
\* at most once, for any number of connections, any message sizes, any packet
\* losses and however the flushes end.
THEOREM InOrder == Spec => []ReceivedInOrder
<1>1. IInv => ReceivedInOrder
  BY DEF IInv, LaneOrder, LaneInv, Sorted, ReceivedInOrder
<1> QED
  BY <1>1, OrderInit, IInvStep, PTL DEF Spec

\* Every message enqueued is in exactly one place: read, lost, on the wire, in
\* the packet under construction or in the queue.
THEOREM Accounted == Spec => []EveryMessageAccounted
<1>1. ASSUME IInv PROVE EveryMessageAccounted
  <2> SUFFICES ASSUME NEW l \in Lanes
               PROVE  LET read    == Ranks(received[l])
                          flying  == InFlight(l)
                          packed  == Ranks(InPacket(l))
                          waiting == Ranks(queue[l])
                      IN /\ read \cup lost[l] \cup flying \cup packed \cup waiting
                              = 1 .. enqueued[l]
                         /\ lost[l] \cap (read \cup flying \cup packed \cup waiting) = {}
                         /\ read \cap (flying \cup packed \cup waiting) = {}
                         /\ flying \cap (packed \cup waiting) = {}
                         /\ packed \cap waiting = {}
    BY DEF EveryMessageAccounted
  <2>1. LaneInv(received[l], lost[l], wire[l], InPacket(l), queue[l], enqueued[l])
    BY <1>1 DEF IInv, LaneOrder
  <2>2. \A r \in 1 .. enqueued[l] : ~(r < r)
    BY <1>1 DEF IInv, TypeInv, TypeOK
  <2> QED
    BY <2>1, <2>2 DEF LaneInv, Before, InFlight
<1> QED
  BY <1>1, OrderInit, IInvStep, PTL DEF Spec

-----------------------------------------------------------------------------
(* A load under which a reliable lane loses nothing.                       *)

\* What n messages of at most L bits take.
Bits(n, L) == n * L

LEMMA BitsOf ==
  ASSUME NEW n \in Nat, NEW L \in Nat
  PROVE  Bits(n, L) \in Nat /\ Bits(n + 1, L) = Bits(n, L) + L /\ Bits(0, L) = 0
  BY DEF Bits

LEMMA Monotone ==
  ASSUME NEW n \in Nat, NEW m \in Nat, NEW L \in Nat, n <= m
  PROVE  Bits(n, L) <= Bits(m, L)
<1>1. m - n \in Nat /\ (m - n) * L \in Nat
  OBVIOUS
<1>2. m * L = n * L + (m - n) * L
  OBVIOUS
<1> QED
  BY <1>1, <1>2 DEF Bits

\* What may wait at one flush fits one packet even at its largest, in number and in
\* bits, header included.
LightLoad(Largest) ==
  /\ \A k \in Kinds : Measured[k] <= Largest /\ Written[k] <= Largest
  /\ MaxPending <= MaxMessagesPerPacket
  /\ Bits(MaxPending, Largest) + HeaderBits <= PacketBits

\* No queue, and no queue together with its packet, holds more messages than may
\* be pending, and a packet is no larger than its messages at their largest.
Load(Largest) ==
  /\ \A l \in Lanes : Len(queue[l]) <= MaxPending
  /\ \A ch \in Channels :
       LET p == packet[ch]
       IN /\ p.measured <= Bits(Len(p.messages), Largest)
          /\ p.written <= Bits(Len(p.messages), Largest)
          /\ Len(p.messages) <= MaxPending
  /\ \A ch \in Channels :
       \/ Building(ch)
       \/ ch = Reliable /\ pc = "build_unreliable"
       => Len(packet[ch].messages) + Len(queue[Lane(ch)]) <= MaxPending
  /\ ReliableNeverLost

LEMMA LoadInit ==
  ASSUME NEW Largest \in Nat, Init
  PROVE  Load(Largest)
<1>1. \A l \in Lanes : Len(queue[l]) <= MaxPending
  BY ParametersAssumption DEF Init
<1>2. \A ch \in Channels : packet[ch] = EmptyPacket
  BY DEF Init
<1>3. Len(EmptyPacket.messages) = 0 /\ EmptyPacket.measured = 0 /\ EmptyPacket.written = 0
  BY DEF EmptyPacket
<1>4. Bits(0, Largest) = 0
  BY BitsOf
<1>5. \A ch \in Channels : ~Building(ch) /\ pc = "idle"
  BY DEF Init, Building
<1>6. ReliableNeverLost
  BY DEF Init, ReliableNeverLost, Lanes, Channels
<1>7. \A ch \in Channels :
        /\ packet[ch].measured <= Bits(Len(packet[ch].messages), Largest)
        /\ packet[ch].written <= Bits(Len(packet[ch].messages), Largest)
        /\ Len(packet[ch].messages) <= MaxPending
  BY <1>2, <1>3, <1>4, ParametersAssumption
<1>8. \A ch \in Channels : ~(Building(ch) \/ (ch = Reliable /\ pc = "build_unreliable"))
  BY <1>5
<1> QED
  BY <1>1, <1>6, <1>7, <1>8 DEF Load

\* Under such a load build_packet throws nothing away and packet_seal succeeds.
LEMMA NothingThrownAway ==
  ASSUME NEW Largest \in Nat, LightLoad(Largest), TypeInv, Load(Largest), NEW ch \in Channels
  PROVE  ~DropOverflow(ch) /\ ~SealFails(ch)
<1> USE ParametersAssumption DEF LightLoad
<1>a. packet \in [Channels -> Packet] /\ queue \in [Lanes -> Seq(Message)]
  BY DEF TypeInv, TypeOK
<1>d. /\ packet[ch].messages \in Seq(Message) /\ Len(packet[ch].messages) \in Nat
      /\ packet[ch].measured \in Nat /\ packet[ch].written \in Nat
  BY <1>a DEF Packet
<1>1. ASSUME DropOverflow(ch) PROVE FALSE
  <2> DEFINE q == queue[Lane(ch)]
             p == packet[ch]
  <2>0. cursor < Capacity
    BY <1>1 DEF DropOverflow, Building, InSlot, TypeInv
  <2>1. Lane(ch) \in Lanes /\ Building(ch)
    BY <1>1, <2>0, LaneType DEF DropOverflow, TypeInv
  <2>2. q \in Seq(Message) /\ q # <<>> /\ Head(q) \in Message /\ Len(q) \in Nat \ {0}
    BY <1>1, <1>a, <2>1, EmptySeq DEF DropOverflow
  <2>3. Len(p.messages) + Len(q) <= MaxPending
    BY <2>1 DEF Load
  <2>4. Len(p.messages) + 1 <= MaxPending
    <3>1. Len(p.messages) \in Nat
      BY <1>d
    <3> HIDE DEF q, p
    <3> QED
      BY <2>2, <2>3, <3>1
  <2>5. Bits(Len(p.messages) + 1, Largest) <= Bits(MaxPending, Largest)
    BY <1>d, <2>4, Monotone
  <2>6. /\ Bits(Len(p.messages) + 1, Largest) = Bits(Len(p.messages), Largest) + Largest
        /\ Bits(Len(p.messages), Largest) \in Nat
    BY <1>d, BitsOf
  <2>7. Bits(MaxPending, Largest) \in Nat
    BY BitsOf
  <2>8. Measured[Head(q).kind] \in Nat /\ Measured[Head(q).kind] <= Largest
    BY <2>2 DEF Message
  <2>9. p.measured <= Bits(Len(p.messages), Largest)
    BY DEF Load
  <2>10. CanAdd(p, Head(q).kind)
    <3>1. Len(p.messages) + 1 <= MaxMessagesPerPacket
      BY <1>d, <2>4
    <3>2. p.measured + Measured[Head(q).kind] <= PacketBits
      <4> HIDE DEF q, p
      <4> QED
        BY <1>d, <2>5, <2>6, <2>7, <2>8, <2>9 DEF p
    <3> QED
      BY <3>1, <3>2 DEF CanAdd
  <2> QED
    BY <1>1, <2>10 DEF DropOverflow
<1>2. ASSUME SealFails(ch) PROVE FALSE
  <2> DEFINE p == packet[ch]
  <2>1. p.written <= Bits(Len(p.messages), Largest) /\ Len(p.messages) <= MaxPending
    BY DEF Load
  <2>2. Bits(Len(p.messages), Largest) <= Bits(MaxPending, Largest)
    BY <1>d, <2>1, Monotone
  <2>3. Bits(Len(p.messages), Largest) \in Nat /\ Bits(MaxPending, Largest) \in Nat /\ p.written \in Nat
    BY <1>d, BitsOf
  <2> HIDE DEF p
  <2>4. HeaderBits + p.written <= PacketBits
    BY <2>1, <2>2, <2>3
  <2> QED
    BY <1>2, <2>4 DEF SealFails, Sealable, p
<1> QED
  BY <1>1, <1>2

LEMMA LoadStep ==
  ASSUME NEW Largest \in Nat, LightLoad(Largest),
         TypeInv, PacketsEmpty, Load(Largest), [Next]_vars
  PROVE  Load(Largest)'
<1> USE ParametersAssumption DEF LightLoad
<1>a. /\ packet \in [Channels -> Packet] /\ queue \in [Lanes -> Seq(Message)]
      /\ lost \in [Lanes -> SUBSET Nat]
  BY DEF TypeInv, TypeOK
<1>b. /\ EmptyPacket.messages = <<>> /\ Len(EmptyPacket.messages) = 0
      /\ EmptyPacket.measured = 0 /\ EmptyPacket.written = 0 /\ Bits(0, Largest) = 0
  BY BitsOf DEF EmptyPacket
<1>c. Reliable \in Channels /\ Unreliable \in Channels /\ Reliable # Unreliable
  BY DEF Channels, Reliable, Unreliable
<1>d. \A ch \in Channels : /\ packet[ch].messages \in Seq(Message)
                           /\ Len(packet[ch].messages) \in Nat
                           /\ packet[ch].measured \in Nat /\ packet[ch].written \in Nat
  BY <1>a DEF Packet
<1>e. connected \subseteq Ids
  BY DEF TypeInv, TypeOK
<1>1. ASSUME NEW c \in Ids, NewConnection(c) PROVE Load(Largest)'
  BY <1>1 DEF NewConnection, flushVars, wireVars, Load, Building, Lane, ReliableNeverLost
<1>2. ASSUME NEW l \in Lanes, NEW k \in Kinds, EnqueueMessage(l, k) PROVE Load(Largest)'
  <2>1. pc = "idle" /\ UNCHANGED <<pc, packet, lost>>
    BY <1>2 DEF EnqueueMessage, flushVars, wireVars
  <2>2. Len(queue'[l]) <= MaxPending
    BY <1>2, <1>a DEF EnqueueMessage
  <2>3. \A m \in Lanes \ {l} : queue'[m] = queue[m]
    BY <1>2, <1>a DEF EnqueueMessage
  <2>4. \A m \in Lanes : Len(queue'[m]) <= MaxPending
    BY <2>2, <2>3 DEF Load
  <2> QED
    BY <2>1, <2>4 DEF Load, Building, ReliableNeverLost
<1>3. CASE BeginFlush
  BY <1>3 DEF BeginFlush, queueVars, wireVars, Load, Building, ReliableNeverLost
<1>4. CASE EndFlush
  BY <1>4 DEF EndFlush, queueVars, wireVars, Load, Building, ReliableNeverLost
<1>5. CASE SkipSlot
  BY <1>5 DEF SkipSlot, queueVars, wireVars, Load, Building, ReliableNeverLost
<1>6. CASE EnterSlot
  <2>1. \A ch \in Channels : packet'[ch] = EmptyPacket
    BY <1>6 DEF EnterSlot
  <2>2. \A ch \in Channels : Lane(ch)' \in Lanes /\ queue' = queue
    BY <1>6, <1>e DEF EnterSlot, queueVars, Lane, Lanes
  <2>3. \A ch \in Channels : Len(queue'[Lane(ch)']) <= MaxPending /\ Len(queue'[Lane(ch)']) \in Nat
    BY <1>a, <2>2 DEF Load
  <2>4. lost' = lost
    BY <1>6 DEF EnterSlot, wireVars
  <2>5. \A ch \in Channels :
          /\ packet'[ch].measured <= Bits(Len(packet'[ch].messages), Largest)
          /\ packet'[ch].written <= Bits(Len(packet'[ch].messages), Largest)
          /\ Len(packet'[ch].messages) <= MaxPending
          /\ Len(packet'[ch].messages) + Len(queue'[Lane(ch)']) <= MaxPending
    <3> TAKE ch \in Channels
    <3>1. packet'[ch].messages = <<>> /\ Len(packet'[ch].messages) = 0
      BY <1>b, <2>1
    <3>2. packet'[ch].measured = 0 /\ packet'[ch].written = 0
      BY <1>b, <2>1
    <3>3. Bits(Len(packet'[ch].messages), Largest) = 0
      BY <1>b, <3>1
    <3>4. Len(queue'[Lane(ch)']) <= MaxPending /\ Len(queue'[Lane(ch)']) \in Nat
      BY <2>3
    <3> QED
      BY <3>1, <3>2, <3>3, <3>4
  <2>6. \A l \in Lanes : Len(queue'[l]) <= MaxPending
    BY <1>6 DEF EnterSlot, queueVars, Load
  <2>7. ReliableNeverLost'
    BY <2>4 DEF Load, ReliableNeverLost
  <2> QED
    BY <2>5, <2>6, <2>7 DEF Load
<1>7. ASSUME NEW ch \in Channels, AddMessage(ch) PROVE Load(Largest)'
  <2> DEFINE q == queue[Lane(ch)]
             p == packet[ch]
  <2>0. cursor < Capacity
    BY <1>7 DEF AddMessage, Building, InSlot, TypeInv
  <2>1. Lane(ch) \in Lanes /\ UNCHANGED <<pc, cursor, lost>> /\ Building(ch)
        /\ \A c \in Channels : Lane(c)' = Lane(c)
    BY <1>7, <2>0, LaneType DEF AddMessage, wireVars, TypeInv, Lane
  <2>2. q \in Seq(Message) /\ q # <<>> /\ Head(q) \in Message /\ Len(q) \in Nat \ {0}
    BY <1>7, <1>a, <2>1, EmptySeq DEF AddMessage
  <2>3. Len(Tail(q)) = Len(q) - 1
    BY <2>2
  <2>4. queue'[Lane(ch)] = Tail(q) /\ \A l \in Lanes \ {Lane(ch)} : queue'[l] = queue[l]
    BY <1>7, <1>a, <2>1 DEF AddMessage
  <2>5. packet'[ch] = AddTo(p, Head(q)) /\ \A c \in Channels \ {ch} : packet'[c] = packet[c]
    BY <1>7, <1>a DEF AddMessage
  <2>6. Head(q).kind \in Kinds
    BY <2>2 DEF Message
  <2>7. /\ Measured[Head(q).kind] \in Nat /\ Measured[Head(q).kind] <= Largest
        /\ Written[Head(q).kind] \in Nat /\ Written[Head(q).kind] <= Largest
    BY <2>6
  <2>8. /\ packet'[ch].messages = Append(p.messages, Head(q))
        /\ packet'[ch].measured = p.measured + Measured[Head(q).kind]
        /\ packet'[ch].written = p.written + Written[Head(q).kind]
    BY <2>5 DEF AddTo
  <2>9. Len(packet'[ch].messages) = Len(p.messages) + 1
    BY <1>d, <2>2, <2>8
  <2>10. Len(p.messages) + Len(q) <= MaxPending
    BY <2>1 DEF Load
  <2>11. /\ Bits(Len(p.messages) + 1, Largest) = Bits(Len(p.messages), Largest) + Largest
         /\ Bits(Len(p.messages), Largest) \in Nat
    BY <1>d, BitsOf
  <2>12. p.measured <= Bits(Len(p.messages), Largest) /\ p.written <= Bits(Len(p.messages), Largest)
    BY DEF Load
  <2>13. /\ packet'[ch].measured <= Bits(Len(packet'[ch].messages), Largest)
         /\ packet'[ch].written <= Bits(Len(packet'[ch].messages), Largest)
         /\ Len(packet'[ch].messages) <= MaxPending
         /\ Len(packet'[ch].messages) + Len(queue'[Lane(ch)]) <= MaxPending
    <3>1. p.measured \in Nat /\ p.written \in Nat /\ Len(p.messages) \in Nat
      BY <1>d
    <3>2. Len(queue'[Lane(ch)]) = Len(q) - 1
      BY <2>3, <2>4
    <3> HIDE DEF q, p
    <3>3. Bits(Len(packet'[ch].messages), Largest) = Bits(Len(p.messages), Largest) + Largest
      BY <2>9, <2>11
    <3>4. /\ packet'[ch].measured <= Bits(Len(p.messages), Largest) + Largest
          /\ packet'[ch].written <= Bits(Len(p.messages), Largest) + Largest
      BY <3>1, <2>7, <2>8, <2>11, <2>12
    <3>5. /\ Len(packet'[ch].messages) <= MaxPending
          /\ Len(packet'[ch].messages) + Len(queue'[Lane(ch)]) <= MaxPending
      BY <3>1, <3>2, <2>2, <2>9, <2>10
    <3> QED
      BY <3>3, <3>4, <3>5
  <2>14. \A l \in Lanes : Len(queue'[l]) <= MaxPending
    <3>1. Len(queue'[Lane(ch)]) <= MaxPending
      <4>1. Len(p.messages) \in Nat
        BY <1>d
      <4>2. Len(queue'[Lane(ch)]) = Len(q) - 1
        BY <2>3, <2>4
      <4> HIDE DEF q, p
      <4> QED
        BY <2>2, <2>10, <4>1, <4>2
    <3> QED
      BY <2>4, <3>1 DEF Load
  <2>15. \A c \in Channels \ {ch} : queue'[Lane(c)] = queue[Lane(c)]
    BY <1>7, <1>a DEF AddMessage, Lane
  <2>16. (\A c \in Channels : Building(c)' <=> Building(c)) /\ ReliableNeverLost'
    BY <2>1 DEF Building, Load, ReliableNeverLost
  <2> HIDE DEF q, p
  <2>17. \A c \in Channels :
           /\ packet'[c].measured <= Bits(Len(packet'[c].messages), Largest)
           /\ packet'[c].written <= Bits(Len(packet'[c].messages), Largest)
           /\ Len(packet'[c].messages) <= MaxPending
    BY <2>5, <2>13 DEF Load
  <2>18. ASSUME NEW c \in Channels, Building(c) \/ (c = Reliable /\ pc = "build_unreliable")
         PROVE Len(packet'[c].messages) + Len(queue'[Lane(c)]) <= MaxPending
    BY <2>5, <2>13, <2>15, <2>18 DEF Load
  <2> QED
    BY <2>1, <2>14, <2>16, <2>17, <2>18 DEF Load
<1>8. ASSUME NEW ch \in Channels, DropOverflow(ch) PROVE FALSE
  BY <1>8, NothingThrownAway
<1>9. ASSUME NEW ch \in Channels, FinishBuilding(ch) PROVE Load(Largest)'
  <2>1. UNCHANGED <<queue, cursor, packet, lost>> /\ Building(ch)
        /\ pc' = AfterBuilding(ch)
    BY <1>9 DEF FinishBuilding, queueVars, wireVars
  <2>2. \A c \in Channels : Building(c)' => c = Reliable /\ pc = "build_unreliable"
    BY <2>1, <1>c DEF Building, AfterBuilding, Reliable, Unreliable
  <2>3. pc' # "build_unreliable"
    BY <2>1 DEF AfterBuilding
  <2>4. \A c \in Channels : Lane(c)' = Lane(c)
    BY <2>1 DEF Lane
  <2> QED
    BY <2>1, <2>2, <2>3, <2>4 DEF Load, ReliableNeverLost
<1>10. ASSUME NEW ch \in Channels, AbortOnRange(ch) PROVE Load(Largest)'
  BY <1>10 DEF AbortOnRange, queueVars, wireVars, Load, Building, ReliableNeverLost
<1>11. ASSUME NEW ch \in Channels, NothingToSend(ch) PROVE Load(Largest)'
  BY <1>11 DEF NothingToSend, AfterSending, queueVars, wireVars, Load, Building,
               ReliableNeverLost
<1>12. ASSUME NEW ch \in Channels, SendPacket(ch) PROVE Load(Largest)'
  <2>1. \A c \in Channels : packet'[c] = packet[c] \/ packet'[c] = EmptyPacket
    BY <1>12, <1>a DEF SendPacket
  <2>2. pc' \in {"send_reliable", "slot"} /\ UNCHANGED <<queue, lost>>
    BY <1>12 DEF SendPacket, AfterSending, queueVars
  <2>3. \A c \in Channels : ~Building(c)'
    BY <2>2 DEF Building
  <2> QED
    <3>1. \A c \in Channels :
            /\ packet'[c].measured <= Bits(Len(packet'[c].messages), Largest)
            /\ packet'[c].written <= Bits(Len(packet'[c].messages), Largest)
            /\ Len(packet'[c].messages) <= MaxPending
      BY <1>b, <2>1 DEF Load
    <3>2. \A c \in Channels : ~(Building(c)' \/ (c = Reliable /\ pc' = "build_unreliable"))
      BY <2>2, <2>3
    <3>3. ReliableNeverLost' /\ \A l \in Lanes : Len(queue'[l]) <= MaxPending
      BY <2>2 DEF Load, ReliableNeverLost
    <3> QED
      BY <3>1, <3>2, <3>3 DEF Load
<1>13. ASSUME NEW ch \in Channels, SealFails(ch) PROVE FALSE
  BY <1>13, NothingThrownAway
<1>14. ASSUME NEW l \in Lanes, Deliver(l) PROVE Load(Largest)'
  BY <1>14 DEF Deliver, queueVars, flushVars, Load, Building, Lane, ReliableNeverLost
<1>15. ASSUME NEW l \in Lanes, LosePacket(l) PROVE Load(Largest)'
  <2>1. UNCHANGED <<queue, pc, cursor, packet>>
    BY <1>15 DEF LosePacket, queueVars, flushVars
  <2>2. \A c \in Ids : lost'[<<c, Reliable>>] = lost[<<c, Reliable>>]
    <3>1. \A c \in Ids : <<c, Reliable>> # l /\ <<c, Reliable>> \in Lanes
      BY <1>15, <1>c DEF LosePacket, Lanes
    <3> QED
      BY <1>15, <1>a, <3>1 DEF LosePacket
  <2>3. ReliableNeverLost'
    BY <2>2 DEF Load, ReliableNeverLost
  <2> QED
    BY <2>1, <2>3 DEF Load, Building, Lane
<1>16. CASE UNCHANGED vars
  BY <1>16 DEF vars, queueVars, flushVars, wireVars, Load, Building, Lane, ReliableNeverLost
<1> QED
  BY <1>1, <1>2, <1>3, <1>4, <1>5, <1>6, <1>7, <1>8, <1>9, <1>10, <1>11, <1>12,
     <1>13, <1>14, <1>15, <1>16 DEF Next, FlushStep

\* Under such a load build_packet never throws away a message and packet_seal never
\* fails: nothing reliable is lost.
THEOREM LightLoadLosesNothing ==
  ASSUME NEW Largest \in Nat, LightLoad(Largest)
  PROVE  Spec => []ReliableNeverLost
<1>1. Init => TypeInv /\ PacketsEmpty /\ Load(Largest)
  BY OrderInit, LoadInit DEF IInv
<1>2. TypeInv /\ PacketsEmpty /\ Load(Largest) /\ [Next]_vars
        => (TypeInv /\ PacketsEmpty /\ Load(Largest))'
  BY TypeStep, PacketsEmptyStep, LoadStep
<1>3. Load(Largest) => ReliableNeverLost
  BY DEF Load
<1> QED
  BY <1>1, <1>2, <1>3, PTL DEF Spec

-----------------------------------------------------------------------------
(* The ranks on a wire, which WireRanks computes by recursion.             *)

LEMMA RankSeqType ==
  ASSUME NEW s \in Seq(Message)
  PROVE  RankSeq(s) \in Seq(Nat) /\ Len(RankSeq(s)) = Len(s)
<1>1. DOMAIN s = 1 .. Len(s) /\ Len(s) \in Nat /\ \A i \in 1 .. Len(s) : s[i] \in Message
  BY LenProperties, ElementOfSeq
<1>2. \A i \in 1 .. Len(s) : s[i].rank \in Nat
  BY <1>1 DEF Message
<1>3. RankSeq(s) = [i \in 1 .. Len(s) |-> s[i].rank]
  BY <1>1 DEF RankSeq
<1> QED
  BY <1>1, <1>2, <1>3

\* The partial results of the recursion that flattens a wire of n packets.
Flattens(f, w, n) ==
  /\ f \in [0 .. n -> Seq(Nat)]
  /\ WireRanks(w) = f[n]
  /\ f[0] = <<>>
  /\ \A p \in 1 .. n : f[p] = f[p - 1] \o RankSeq(w[p])

LEMMA WireRanksUnfold ==
  ASSUME NEW w \in Seq(Seq(Message)), NEW n, n = Len(w)
  PROVE  \E f : Flattens(f, w, n)
<1>1. Len(w) \in Nat /\ \A p \in 1 .. Len(w) : RankSeq(w[p]) \in Seq(Nat)
  <2>1. Len(w) \in Nat /\ \A p \in 1 .. Len(w) : w[p] \in Seq(Message)
    BY LenProperties, ElementOfSeq
  <2> QED BY <2>1, RankSeqType
<1> DEFINE g == [p \in 1 .. Len(w) |-> [x \in Seq(Nat) |-> x \o RankSeq(w[p])]]
<1>2. g \in [1 .. Len(w) -> [Seq(Nat) -> Seq(Nat)]]
  BY <1>1
<1>3. <<>> \in Seq(Nat)
  OBVIOUS
<1>4. PICK f \in [0 .. Len(w) -> Seq(Nat)] : f[0] = <<>> /\ \A p \in 1 .. Len(w) : f[p] = g[p][f[p - 1]]
  <2> HIDE DEF g
  <2>1. PICK N, A, a, G : N = Len(w) /\ A = Seq(Nat) /\ a = <<>> /\ G = g
    OBVIOUS
  <2>2. Stepwise(N, A, a, G)
    BY <1>1, <1>2, <1>3, <2>1 DEF Stepwise
  <2>3. PICK f : Iteration(f, N, A, a, G)
    BY ONLY <2>2, IterationExists
  <2> QED BY <2>1, <2>3 DEF Iteration
<1>5. \A p \in 1 .. Len(w) : f[p] = f[p - 1] \o RankSeq(w[p])
  <2> TAKE p \in 1 .. Len(w)
  <2>1. p - 1 \in 0 .. Len(w) BY <1>1
  <2>2. f[p - 1] \in Seq(Nat) BY <1>4, <2>1
  <2> QED BY <1>4, <2>2
<1> DEFINE F(h) == [p \in 0 .. Len(w) |-> IF p = 0 THEN <<>> ELSE h[p - 1] \o RankSeq(w[p])]
           flat == CHOOSE h : h = F(h)
<1>6. f = F(f)
  <2>1. \A p \in 0 .. Len(w) : f[p] = F(f)[p]
    <3> TAKE p \in 0 .. Len(w)
    <3>1. CASE p = 0 BY <1>4, <3>1
    <3>2. CASE p # 0
      <4>1. p \in 1 .. Len(w) BY <1>1, <3>2
      <4> QED BY <1>5, <3>2, <4>1
    <3> QED BY <3>1, <3>2
  <2> QED BY <1>4, <2>1
<1>7. flat = F(flat)
  <2> HIDE DEF F
  <2> QED BY <1>6
<1>8. WireRanks(w) = flat[Len(w)]
  BY DEF WireRanks
<1>9. \A p \in 0 .. Len(w) : flat[p] = IF p = 0 THEN <<>> ELSE flat[p - 1] \o RankSeq(w[p])
  <2> HIDE DEF flat
  <2> QED BY <1>7
<1> HIDE DEF flat
<1>10. \A p \in 0 .. Len(w) : flat[p] = f[p]
  <2> DEFINE S == {k \in 0 .. Len(w) : flat[k] = f[k]}
  <2>1. 0 \in S BY <1>1, <1>4, <1>9
  <2>2. ASSUME NEW k \in 0 .. Len(w) - 1, k \in S PROVE k + 1 \in S
    <3>1. k + 1 \in 1 .. Len(w) /\ k + 1 \in 0 .. Len(w) /\ k + 1 - 1 = k /\ k + 1 # 0
      BY <1>1
    <3>2. PICK i : i = k + 1
      OBVIOUS
    <3>3. i \in 1 .. Len(w) /\ i \in 0 .. Len(w) /\ i - 1 = k /\ i # 0
      BY <3>1, <3>2
    <3>4. flat[i] = flat[i - 1] \o RankSeq(w[i])
      BY ONLY <1>9, <3>3
    <3>5. f[i] = f[i - 1] \o RankSeq(w[i])
      BY ONLY <1>5, <3>3
    <3>6. flat[i] = f[i]
      BY <2>2, <3>3, <3>4, <3>5
    <3> QED BY <3>2, <3>3, <3>6
  <2>3. \A k \in 0 .. Len(w) : k \in S
    <3> HIDE DEF S
    <3> QED BY <1>1, <2>1, <2>2, SetInduction
  <2> QED BY <2>3
<1> QED
  <2>1. WireRanks(w) = f[Len(w)]
    BY <1>1, <1>8, <1>10
  <2>2. Flattens(f, w, Len(w))
    BY <1>4, <1>5, <2>1 DEF Flattens
  <2> QED BY <2>2

\* A packet put on the wire comes last.
LEMMA AppendWireRanks ==
  ASSUME NEW w \in Seq(Seq(Message)), NEW p \in Seq(Message)
  PROVE  WireRanks(Append(w, p)) = WireRanks(w) \o RankSeq(p)
<1>1. PICK n : n = Len(w)
  OBVIOUS
<1>2. PICK v : v = Append(w, p)
  OBVIOUS
<1>3. /\ n \in Nat /\ v \in Seq(Seq(Message)) /\ Len(v) = n + 1
      /\ v[n + 1] = p /\ \A i \in 1 .. n : v[i] = w[i]
  BY <1>1, <1>2, AppendProperties, LenProperties
<1>4. PICK f : Flattens(f, w, n)
  BY <1>1, WireRanksUnfold
<1>5. PICK g : Flattens(g, v, n + 1)
  BY <1>3, WireRanksUnfold
<1> USE DEF Flattens
<1>6. \A k \in 0 .. n : g[k] = f[k]
  <2> DEFINE S == {k \in 0 .. n : g[k] = f[k]}
  <2>1. 0 \in S BY <1>3, <1>4, <1>5
  <2>2. ASSUME NEW k \in 0 .. n - 1, k \in S PROVE k + 1 \in S
    <3>1. PICK i : i = k + 1
      OBVIOUS
    <3>2. i \in 1 .. n /\ i \in 0 .. n /\ i \in 1 .. n + 1 /\ i - 1 = k
      BY <1>3, <3>1
    <3>3. g[i] = g[i - 1] \o RankSeq(v[i])
      BY ONLY <1>5, <3>2
    <3>4. f[i] = f[i - 1] \o RankSeq(w[i])
      BY ONLY <1>4, <3>2
    <3>5. g[i] = f[i]
      BY <1>3, <2>2, <3>2, <3>3, <3>4
    <3> QED BY <3>1, <3>2, <3>5
  <2>3. \A k \in 0 .. n : k \in S
    <3> HIDE DEF S
    <3> QED BY <1>3, <2>1, <2>2, SetInduction
  <2> QED BY <2>3
<1>7. PICK i : i = n + 1
  OBVIOUS
<1>8. i \in 1 .. n + 1 /\ i - 1 = n /\ n \in 0 .. n
  BY <1>3, <1>7
<1>9. g[i] = g[i - 1] \o RankSeq(v[i])
  BY ONLY <1>5, <1>8
<1> QED
  BY <1>2, <1>3, <1>4, <1>5, <1>6, <1>7, <1>8, <1>9

\* Concatenation is associative.
LEMMA Associative ==
  ASSUME NEW a \in Seq(Nat), NEW b \in Seq(Nat), NEW c \in Seq(Nat)
  PROVE  (a \o b) \o c = a \o (b \o c)
  OBVIOUS

\* The packet that arrives or is lost came first.
LEMMA HeadWireRanks ==
  ASSUME NEW w \in Seq(Seq(Message)), w # <<>>
  PROVE  WireRanks(w) = RankSeq(Head(w)) \o WireRanks(Tail(w))
<1>1. PICK n : n = Len(w) - 1
  OBVIOUS
<1>2. PICK t : t = Tail(w)
  OBVIOUS
<1>3. PICK h : h = RankSeq(w[1])
  OBVIOUS
<1>4. /\ n \in Nat /\ t \in Seq(Seq(Message)) /\ Len(t) = n /\ Len(w) = n + 1
      /\ Head(w) = w[1] /\ \A i \in 1 .. n : t[i] = w[i + 1]
      /\ 1 \in 1 .. n + 1 /\ w[1] \in Seq(Message)
      /\ \A i \in 1 .. n + 1 : w[i] \in Seq(Message)
  <2>1. Len(w) \in Nat \ {0} BY EmptySeq, LenProperties
  <2>2. \A i \in 1 .. Len(w) : w[i] \in Seq(Message) BY ElementOfSeq
  <2>3. t \in Seq(Seq(Message)) /\ Len(t) = Len(w) - 1 /\ \A i \in 1 .. Len(t) : t[i] = w[i + 1]
    BY <1>2, <2>1, HeadTailProperties
  <2> QED BY <1>1, <2>1, <2>2, <2>3
<1>5. h \in Seq(Nat) /\ \A i \in 1 .. n + 1 : RankSeq(w[i]) \in Seq(Nat)
  BY <1>3, <1>4, RankSeqType
<1>6. PICK g : Flattens(g, w, n + 1)
  BY <1>4, WireRanksUnfold
<1>7. PICK f : Flattens(f, t, n)
  BY <1>4, WireRanksUnfold
<1> USE DEF Flattens
<1>8. \A k \in 0 .. n : g[k + 1] = h \o f[k]
  <2> DEFINE S == {k \in 0 .. n : g[k + 1] = h \o f[k]}
  <2>1. 0 \in S
    <3>0. PICK i : i = 1
      OBVIOUS
    <3>a. i \in 1 .. n + 1 /\ i - 1 = 0
      BY <1>4, <3>0
    <3>b. g[i] = g[i - 1] \o RankSeq(w[i])
      BY ONLY <1>6, <3>a
    <3>1. g[1] = g[0] \o RankSeq(w[1])
      BY <3>0, <3>a, <3>b
    <3>2. g[1] = h \o f[0]
      BY <1>3, <1>5, <1>6, <1>7, <3>1
    <3> QED BY <1>4, <3>2
  <2>2. ASSUME NEW k \in 0 .. n - 1, k \in S PROVE k + 1 \in S
    <3>1. PICK i, j : i = k + 1 /\ j = k + 2
      OBVIOUS
    <3>2. /\ i \in 1 .. n /\ i \in 0 .. n /\ i - 1 = k
          /\ j \in 1 .. n + 1 /\ j - 1 = i /\ j = i + 1 /\ k \in 0 .. n
      BY <1>4, <3>1
    <3>3. g[j] = g[j - 1] \o RankSeq(w[j])
      BY ONLY <1>6, <3>2
    <3>4. f[i] = f[i - 1] \o RankSeq(t[i])
      BY ONLY <1>7, <3>2
    <3>5. g[i] = h \o f[k] /\ t[i] = w[j]
      BY <1>4, <2>2, <3>1, <3>2
    <3>6. g[j] = (h \o f[k]) \o RankSeq(w[j])
      BY <3>2, <3>3, <3>5
    <3>7. f[i] = f[k] \o RankSeq(w[j])
      BY <3>2, <3>4, <3>5
    <3>8. f[k] \in Seq(Nat) /\ RankSeq(w[j]) \in Seq(Nat)
      BY <1>5, <1>7, <3>2
    <3>9. PICK a, b : a = f[k] /\ b = RankSeq(w[j])
      OBVIOUS
    <3>10. a \in Seq(Nat) /\ b \in Seq(Nat) /\ h \in Seq(Nat)
      BY <1>5, <3>8, <3>9
    <3>11. (h \o a) \o b = h \o (a \o b)
      BY ONLY <3>10, Associative
    <3>12. g[j] = h \o f[i]
      BY <3>6, <3>7, <3>9, <3>11
    <3> QED BY <3>1, <3>2, <3>12
  <2>3. \A k \in 0 .. n : k \in S
    <3> HIDE DEF S
    <3> QED BY <1>4, <2>1, <2>2, SetInduction
  <2> QED BY <2>3
<1>9. n \in 0 .. n
  BY <1>4
<1>10. g[n + 1] = h \o f[n]
  BY <1>8, <1>9
<1>11. WireRanks(w) = h \o WireRanks(t)
  BY <1>6, <1>7, <1>10
<1> QED
  BY <1>2, <1>3, <1>4, <1>11

LEMMA WireRanksType ==
  ASSUME NEW w \in Seq(Seq(Message))
  PROVE  WireRanks(w) \in Seq(Nat)
<1>1. Len(w) \in Nat /\ Len(w) \in 0 .. Len(w)
  BY LenProperties
<1>2. PICK f : Flattens(f, w, Len(w))
  BY WireRanksUnfold
<1> QED
  BY <1>1, <1>2 DEF Flattens

LEMMA AppendRankSeq ==
  ASSUME NEW s \in Seq(Message), NEW m \in Message
  PROVE  RankSeq(Append(s, m)) = Append(RankSeq(s), m.rank)
<1>1. /\ Append(s, m) \in Seq(Message) /\ Len(Append(s, m)) = Len(s) + 1 /\ Len(s) \in Nat
      /\ Append(s, m)[Len(s) + 1] = m /\ \A i \in 1 .. Len(s) : Append(s, m)[i] = s[i]
  BY AppendProperties, LenProperties
<1>2. \A t \in Seq(Message) : RankSeq(t) = [i \in 1 .. Len(t) |-> t[i].rank]
  BY LenProperties DEF RankSeq
<1>3. m.rank \in Nat
  BY DEF Message
<1>4. RankSeq(s) \in Seq(Nat) /\ Len(RankSeq(s)) = Len(s)
  BY RankSeqType
<1>5. \A i \in 1 .. Len(s) + 1 : Append(RankSeq(s), m.rank)[i] = Append(s, m)[i].rank
  BY <1>1, <1>2, <1>3, <1>4
<1>6. /\ Append(RankSeq(s), m.rank) \in Seq(Nat)
      /\ Len(Append(RankSeq(s), m.rank)) = Len(s) + 1
  BY <1>3, <1>4
<1>7. RankSeq(Append(s, m)) = [i \in 1 .. Len(s) + 1 |-> Append(s, m)[i].rank]
  BY <1>1, <1>2
<1> QED
  BY <1>5, <1>6, <1>7

LEMMA ConcatRankSeq ==
  ASSUME NEW s \in Seq(Message), NEW t \in Seq(Message)
  PROVE  RankSeq(s \o t) = RankSeq(s) \o RankSeq(t)
<1>1. PICK c, a, b, ab : c = s \o t /\ a = RankSeq(s) /\ b = RankSeq(t) /\ ab = a \o b
  OBVIOUS
<1>2. /\ c \in Seq(Message) /\ Len(c) = Len(s) + Len(t)
      /\ Len(s) \in Nat /\ Len(t) \in Nat
      /\ \A i \in 1 .. Len(s) + Len(t) : c[i] = IF i <= Len(s) THEN s[i] ELSE t[i - Len(s)]
  BY <1>1, ConcatProperties, LenProperties
<1>3. \A u \in Seq(Message) : RankSeq(u) = [i \in 1 .. Len(u) |-> u[i].rank]
  BY LenProperties DEF RankSeq
<1>4. a \in Seq(Nat) /\ Len(a) = Len(s) /\ b \in Seq(Nat) /\ Len(b) = Len(t)
  BY <1>1, RankSeqType
<1>5. /\ ab \in Seq(Nat) /\ Len(ab) = Len(a) + Len(b)
      /\ \A i \in 1 .. Len(a) + Len(b) : ab[i] = IF i <= Len(a) THEN a[i] ELSE b[i - Len(a)]
  <2>1. a \o b \in Seq(Nat) /\ Len(a \o b) = Len(a) + Len(b)
    BY <1>4, ConcatProperties
  <2>2. \A i \in 1 .. Len(a) + Len(b) : (a \o b)[i] = IF i <= Len(a) THEN a[i] ELSE b[i - Len(a)]
    BY <1>4, ConcatProperties
  <2> QED BY <1>1, <2>1, <2>2
<1>6. ASSUME NEW i \in 1 .. Len(s) + Len(t)
      PROVE  ab[i] = c[i].rank
  <2>1. CASE i <= Len(s)
    <3>1. i \in 1 .. Len(s) BY <1>2, <2>1
    <3>2. ab[i] = a[i] /\ c[i] = s[i] BY <1>2, <1>4, <1>5, <2>1
    <3> QED BY <1>1, <1>3, <3>1, <3>2
  <2>2. CASE ~ (i <= Len(s))
    <3>1. i - Len(s) \in 1 .. Len(t) BY <1>2, <2>2
    <3>2. ab[i] = b[i - Len(s)] /\ c[i] = t[i - Len(s)] BY <1>2, <1>4, <1>5, <2>2
    <3> QED BY <1>1, <1>3, <3>1, <3>2
  <2> QED BY <2>1, <2>2
<1>7. RankSeq(c) = [i \in 1 .. Len(s) + Len(t) |-> c[i].rank]
  BY <1>2, <1>3
<1>8. ab = [i \in 1 .. Len(s) + Len(t) |-> ab[i]]
  BY <1>4, <1>5
<1>9. RankSeq(c) = ab
  BY <1>6, <1>7, <1>8
<1> QED
  BY <1>1, <1>9

LEMMA HeadRankSeq ==
  ASSUME NEW s \in Seq(Message), s # <<>>
  PROVE  RankSeq(s) = <<Head(s).rank>> \o RankSeq(Tail(s))
<1>1. /\ Tail(s) \in Seq(Message) /\ Len(Tail(s)) = Len(s) - 1 /\ Len(s) \in Nat \ {0}
      /\ \A i \in 1 .. Len(s) - 1 : Tail(s)[i] = s[i + 1]
      /\ Head(s) = s[1] /\ Head(s) \in Message
  BY HeadTailProperties, LenProperties, EmptySeq
<1>2. PICK r : r = Head(s).rank /\ r \in Nat
  BY <1>1 DEF Message
<1>3. \A u \in Seq(Message) : RankSeq(u) = [i \in 1 .. Len(u) |-> u[i].rank]
  BY LenProperties DEF RankSeq
<1>4. PICK b, u : b = RankSeq(Tail(s)) /\ u = <<r>> \o b
  OBVIOUS
<1>5. b \in Seq(Nat) /\ Len(b) = Len(s) - 1 /\ \A i \in 1 .. Len(s) - 1 : b[i] = s[i + 1].rank
  <2>1. b \in Seq(Nat) /\ Len(b) = Len(s) - 1
    BY <1>1, <1>4, RankSeqType
  <2>2. b = [i \in 1 .. Len(s) - 1 |-> Tail(s)[i].rank]
    BY <1>1, <1>3, <1>4
  <2> QED BY <1>1, <2>1, <2>2
<1>6. <<r>> \in Seq(Nat) /\ Len(<<r>>) = 1 /\ <<r>>[1] = r
  BY <1>2
<1>7. /\ u \in Seq(Nat) /\ Len(u) = Len(<<r>>) + Len(b)
      /\ \A i \in 1 .. Len(<<r>>) + Len(b) : u[i] = IF i <= Len(<<r>>) THEN <<r>>[i] ELSE b[i - Len(<<r>>)]
  BY <1>4, <1>5, <1>6, ConcatProperties
<1>8. /\ Len(u) = Len(s)
      /\ \A i \in 1 .. Len(s) : u[i] = IF i <= 1 THEN <<r>>[i] ELSE b[i - 1]
  BY <1>1, <1>5, <1>6, <1>7
<1>9. \A i \in 1 .. Len(s) : u[i] = s[i].rank
  <2> TAKE i \in 1 .. Len(s)
  <2>1. CASE i = 1 BY <1>1, <1>2, <1>6, <1>8, <2>1
  <2>2. CASE i # 1
    <3>1. i - 1 \in 1 .. Len(s) - 1 /\ ~ (i <= 1) /\ i - 1 + 1 = i BY <1>1, <2>2
    <3>2. u[i] = b[i - 1] BY <1>8, <3>1
    <3>3. b[i - 1] = s[i - 1 + 1].rank BY <1>5, <3>1
    <3> QED BY <3>1, <3>2, <3>3
  <2> QED BY <2>1, <2>2
<1>10. u = [i \in 1 .. Len(s) |-> u[i]]
  BY <1>7, <1>8
<1>11. RankSeq(s) = [i \in 1 .. Len(s) |-> s[i].rank]
  BY <1>3
<1> QED
  BY <1>2, <1>4, <1>9, <1>10, <1>11

-----------------------------------------------------------------------------
\* The ranks a lane holds: w on the wire, p in the packet under construction
\* and q in the queue, oldest first.
Held(w, p, q) == WireRanks(w) \o RankSeq(p) \o RankSeq(q)

LEMMA HeldType ==
  ASSUME NEW w \in Seq(Seq(Message)), NEW p \in Seq(Message), NEW q \in Seq(Message)
  PROVE  /\ WireRanks(w) \in Seq(Nat) /\ RankSeq(p) \in Seq(Nat) /\ RankSeq(q) \in Seq(Nat)
         /\ Held(w, p, q) \in Seq(Nat)
<1>1. WireRanks(w) \in Seq(Nat) /\ RankSeq(p) \in Seq(Nat) /\ RankSeq(q) \in Seq(Nat)
  BY WireRanksType, RankSeqType
<1> QED
  BY <1>1 DEF Held

LEMMA NoRanks == RankSeq(<<>>) = <<>>
<1>1. <<>> \in Seq(Message)
  OBVIOUS
<1> QED
  BY <1>1, RankSeqType, EmptySeq

LEMMA AppendToConcat ==
  ASSUME NEW a \in Seq(Nat), NEW b \in Seq(Nat), NEW r \in Nat
  PROVE  a \o Append(b, r) = Append(a \o b, r)
  OBVIOUS

LEMMA AddOne ==
  ASSUME NEW a \in Seq(Nat), NEW b \in Seq(Nat), NEW r \in Nat
  PROVE  Append(a, r) \o b = a \o (<<r>> \o b)
<1>1. Append(a, r) = a \o <<r>> /\ <<r>> \in Seq(Nat)
  OBVIOUS
<1> QED
  BY <1>1, Associative

\* A message enqueued is the last of its lane.
LEMMA HeldEnqueue ==
  ASSUME NEW w \in Seq(Seq(Message)), NEW p \in Seq(Message), NEW q \in Seq(Message),
         NEW m \in Message
  PROVE  Held(w, p, Append(q, m)) = Append(Held(w, p, q), m.rank)
<1>1. PICK a, b : a = WireRanks(w) \o RankSeq(p) /\ b = RankSeq(q)
  OBVIOUS
<1>2. a \in Seq(Nat) /\ b \in Seq(Nat) /\ m.rank \in Nat
  <2>1. m.rank \in Nat BY DEF Message
  <2> QED BY <1>1, <2>1, HeldType
<1>3. RankSeq(Append(q, m)) = Append(b, m.rank)
  BY <1>1, AppendRankSeq
<1>4. a \o Append(b, m.rank) = Append(a \o b, m.rank)
  BY <1>2, AppendToConcat
<1> QED
  BY <1>1, <1>3, <1>4 DEF Held

\* A message moves from the queue to the packet: the lane holds the same.
LEMMA HeldAdd ==
  ASSUME NEW w \in Seq(Seq(Message)), NEW p \in Seq(Message), NEW q \in Seq(Message), q # <<>>
  PROVE  Held(w, Append(p, Head(q)), Tail(q)) = Held(w, p, q)
<1>1. PICK a, b, c, r : a = WireRanks(w) /\ b = RankSeq(p) /\ c = RankSeq(Tail(q)) /\ r = Head(q).rank
  OBVIOUS
<1>2. Head(q) \in Message /\ Tail(q) \in Seq(Message)
  OBVIOUS
<1>3. a \in Seq(Nat) /\ b \in Seq(Nat) /\ c \in Seq(Nat) /\ r \in Nat
  <2>1. Head(q).rank \in Nat BY <1>2 DEF Message
  <2> QED BY <1>1, <1>2, <2>1, HeldType
<1>4. RankSeq(Append(p, Head(q))) = Append(b, r)
  BY <1>1, <1>2, AppendRankSeq
<1>5. RankSeq(q) = <<r>> \o c
  BY <1>1, HeadRankSeq
<1>6. (a \o Append(b, r)) \o c = (a \o b) \o (<<r>> \o c)
  <2>1. a \o Append(b, r) = Append(a \o b, r) /\ a \o b \in Seq(Nat)
    BY <1>3, AppendToConcat
  <2>2. PICK ab : ab = a \o b
    OBVIOUS
  <2>3. Append(ab, r) \o c = ab \o (<<r>> \o c)
    BY <1>3, <2>1, <2>2, AddOne
  <2> QED BY <2>1, <2>2, <2>3
<1> QED
  BY <1>1, <1>4, <1>5, <1>6 DEF Held

\* A packet is sent: the lane holds the same.
LEMMA HeldSend ==
  ASSUME NEW w \in Seq(Seq(Message)), NEW p \in Seq(Message), NEW q \in Seq(Message)
  PROVE  Held(Append(w, p), <<>>, q) = Held(w, p, q)
<1>1. WireRanks(Append(w, p)) = WireRanks(w) \o RankSeq(p)
  BY AppendWireRanks
<1>2. WireRanks(w) \o RankSeq(p) \in Seq(Nat)
  BY HeldType
<1>3. (WireRanks(w) \o RankSeq(p)) \o <<>> = WireRanks(w) \o RankSeq(p)
  BY <1>2
<1> QED
  BY <1>1, <1>3, NoRanks DEF Held

\* The oldest packet on the wire holds the oldest messages of the lane.
LEMMA HeldHead ==
  ASSUME NEW w \in Seq(Seq(Message)), NEW p \in Seq(Message), NEW q \in Seq(Message), w # <<>>
  PROVE  Held(w, p, q) = RankSeq(Head(w)) \o Held(Tail(w), p, q)
<1>1. PICK a, b, c, d : a = RankSeq(Head(w)) /\ b = WireRanks(Tail(w)) /\ c = RankSeq(p) /\ d = RankSeq(q)
  OBVIOUS
<1>2. a \in Seq(Nat) /\ b \in Seq(Nat) /\ c \in Seq(Nat) /\ d \in Seq(Nat)
  <2>1. Head(w) \in Seq(Message) /\ Tail(w) \in Seq(Seq(Message))
    OBVIOUS
  <2> QED BY <1>1, <2>1, HeldType, RankSeqType
<1>3. WireRanks(w) = a \o b
  BY <1>1, HeadWireRanks
<1>4. ((a \o b) \o c) \o d = a \o ((b \o c) \o d)
  <2>1. PICK bc : bc = b \o c
    OBVIOUS
  <2>2. bc \in Seq(Nat)
    BY <1>2, <2>1
  <2>3. (a \o b) \o c = a \o bc
    BY <1>2, <2>1, Associative
  <2>4. (a \o bc) \o d = a \o (bc \o d)
    BY <1>2, <2>2, Associative
  <2> QED BY <2>1, <2>3, <2>4
<1> QED
  BY <1>1, <1>3, <1>4 DEF Held

\* What a lane holds, split in three.
Parts(s, a, b, c) == a \in Seq(Nat) /\ b \in Seq(Nat) /\ c \in Seq(Nat) /\ s = a \o b \o c

\* The message dropped by an overflow leaves the middle of its lane.
LEMMA HeldDrop ==
  ASSUME NEW w \in Seq(Seq(Message)), NEW p \in Seq(Message), NEW q \in Seq(Message), q # <<>>
  PROVE  \E a, b, c : Parts(Held(w, p, q), a, b, c) /\ Held(w, p, Tail(q)) = a \o c
<1>1. PICK a, c, r : a = WireRanks(w) \o RankSeq(p) /\ c = RankSeq(Tail(q)) /\ r = Head(q).rank
  OBVIOUS
<1>2. a \in Seq(Nat) /\ c \in Seq(Nat) /\ <<r>> \in Seq(Nat)
  <2>1. Head(q) \in Message /\ Tail(q) \in Seq(Message)
    OBVIOUS
  <2>2. r \in Nat BY <1>1, <2>1 DEF Message
  <2>3. a \in Seq(Nat) BY <1>1, HeldType
  <2>4. c \in Seq(Nat) BY <1>1, <2>1, RankSeqType
  <2> QED BY <2>2, <2>3, <2>4
<1>3. RankSeq(q) = <<r>> \o c
  BY <1>1, HeadRankSeq
<1>4. PICK b : b = <<r>> /\ b \in Seq(Nat)
  BY <1>2
<1>5. a \o (b \o c) = (a \o b) \o c
  BY <1>2, <1>4, Associative
<1>6. Parts(Held(w, p, q), a, b, c) /\ Held(w, p, Tail(q)) = a \o c
  BY <1>1, <1>2, <1>3, <1>4, <1>5 DEF Held, Parts
<1> QED
  BY <1>6

\* The packet thrown away when a seal fails leaves the middle of its lane.
LEMMA HeldDiscard ==
  ASSUME NEW w \in Seq(Seq(Message)), NEW p \in Seq(Message), NEW q \in Seq(Message)
  PROVE  \E a, b, c : Parts(Held(w, p, q), a, b, c) /\ Held(w, <<>>, q) = a \o c
<1>1. PICK a, b, c : a = WireRanks(w) /\ b = RankSeq(p) /\ c = RankSeq(q)
  OBVIOUS
<1>2. a \in Seq(Nat) /\ b \in Seq(Nat) /\ c \in Seq(Nat)
  BY <1>1, HeldType
<1>3. a \o <<>> = a
  BY <1>2
<1>4. Parts(Held(w, p, q), a, b, c) /\ Held(w, <<>>, q) = a \o c
  BY <1>1, <1>2, <1>3, NoRanks DEF Held, Parts
<1> QED
  BY <1>4

\* The oldest packet, lost on the wire, leaves the front of its lane.
LEMMA HeldLose ==
  ASSUME NEW w \in Seq(Seq(Message)), NEW p \in Seq(Message), NEW q \in Seq(Message), w # <<>>
  PROVE  \E a, b, c : Parts(Held(w, p, q), a, b, c) /\ Held(Tail(w), p, q) = a \o c
<1>1. PICK b, c : b = RankSeq(Head(w)) /\ c = Held(Tail(w), p, q)
  OBVIOUS
<1>2. b \in Seq(Nat) /\ c \in Seq(Nat)
  <2>1. Head(w) \in Seq(Message) /\ Tail(w) \in Seq(Seq(Message))
    OBVIOUS
  <2> QED BY <1>1, <2>1, HeldType, RankSeqType
<1>3. <<>> \o b = b /\ <<>> \o c = c /\ <<>> \in Seq(Nat)
  BY <1>2
<1>4. Parts(Held(w, p, q), <<>>, b, c) /\ Held(Tail(w), p, q) = <<>> \o c
  BY <1>1, <1>2, <1>3, HeldHead DEF Parts
<1> QED
  BY <1>4

-----------------------------------------------------------------------------
\* The first and the last messages of a concatenation.
LEMMA FrontOfConcat ==
  ASSUME NEW a \in Seq(Nat), NEW c \in Seq(Nat)
  PROVE  SubSeq(a \o c, 1, Len(a)) = a
<1>1. PICK s : s = a \o c
  OBVIOUS
<1>2. /\ s \in Seq(Nat) /\ Len(s) = Len(a) + Len(c) /\ Len(a) \in Nat /\ Len(c) \in Nat
      /\ \A i \in 1 .. Len(a) : s[i] = a[i]
  BY <1>1
<1>3. SubSeq(s, 1, Len(a)) = [i \in 1 .. Len(a) |-> s[i]]
  BY <1>2
<1>4. a = [i \in 1 .. Len(a) |-> a[i]]
  OBVIOUS
<1> QED
  BY <1>1, <1>2, <1>3, <1>4

LEMMA BackOfConcat ==
  ASSUME NEW a \in Seq(Nat), NEW c \in Seq(Nat)
  PROVE  SubSeq(a \o c, Len(a) + 1, Len(a \o c)) = c
<1>1. PICK s : s = a \o c
  OBVIOUS
<1>2. /\ s \in Seq(Nat) /\ Len(s) = Len(a) + Len(c) /\ Len(a) \in Nat /\ Len(c) \in Nat
      /\ \A i \in 1 .. Len(c) : s[Len(a) + i] = c[i]
  BY <1>1
<1>3. SubSeq(s, Len(a) + 1, Len(s)) = [i \in 1 .. Len(c) |-> s[Len(a) + i]]
  BY <1>2
<1>4. c = [i \in 1 .. Len(c) |-> c[i]]
  OBVIOUS
<1> QED
  BY <1>1, <1>2, <1>3, <1>4

-----------------------------------------------------------------------------
(* The lanes implement MessageLanes.                                       *)

Holds(l) == Held(wire[l], InPacket(l), queue[l])
Got(l) == RankSeq(received[l])

\* What a step may do to a lane as the game sees it.
Accepts(l) ==
  /\ enqueued'[l] = enqueued[l] + 1
  /\ Holds(l)' = Append(Holds(l), enqueued[l] + 1)
  /\ Got(l)' = Got(l)

Hands(l) ==
  /\ enqueued'[l] = enqueued[l]
  /\ \E b \in Seq(Nat) : Holds(l) = b \o Holds(l)' /\ Got(l)' = Got(l) \o b

\* A lane forgets messages if its channel may lose packets, or at an overflow or the
\* failure of a seal.
MayForget(l) == l[2] = Unreliable \/ \E ch \in Channels : DropOverflow(ch) \/ SealFails(ch)

Forgets(l) ==
  /\ enqueued'[l] = enqueued[l]
  /\ Got(l)' = Got(l)
  /\ \E a, b, c : Parts(Holds(l), a, b, c) /\ Holds(l)' = a \o c
  /\ MayForget(l)

\* What the flush does inside of a lane is not seen; what enters or leaves it is.
LEMMA LaneMoves ==
  ASSUME TypeInv, PacketsEmpty, [Next]_vars, NEW l \in Lanes
  PROVE  Accepts(l) \/ Hands(l) \/ Forgets(l)
<1>a. /\ queue[l] \in Seq(Message) /\ enqueued[l] \in Nat /\ received[l] \in Seq(Message)
      /\ wire[l] \in Seq(Seq(Message)) /\ InPacket(l) \in Seq(Message)
  BY LaneParts
<1>b. Holds(l) \in Seq(Nat) /\ Got(l) \in Seq(Nat)
  BY <1>a, HeldType, RankSeqType DEF Holds, Got
<1>c. ASSUME Holds(l)' = Holds(l), Got(l)' = Got(l), enqueued'[l] = enqueued[l] PROVE Hands(l)
  <2>1. <<>> \in Seq(Nat) /\ Holds(l) = <<>> \o Holds(l) /\ Got(l) = Got(l) \o <<>>
    BY <1>b
  <2> QED
    BY <1>c, <2>1 DEF Hands
<1>1. CASE Untouched(l)
  BY <1>c, <1>1 DEF Untouched, Holds, Got
<1>2. CASE Enqueued(l)
  <2>1. PICK m \in Message : m.rank = enqueued[l] + 1 /\ queue'[l] = Append(queue[l], m)
    BY <1>2 DEF Enqueued
  <2>2. Held(wire[l], InPacket(l), Append(queue[l], m)) = Append(Holds(l), m.rank)
    BY <1>a, HeldEnqueue DEF Holds
  <2>3. Accepts(l)
    BY <1>2, <2>1, <2>2 DEF Enqueued, Accepts, Holds, Got
  <2> QED
    BY <2>3
<1>3. CASE Added(l)
  <2>1. Held(wire[l], Append(InPacket(l), Head(queue[l])), Tail(queue[l])) = Holds(l)
    BY <1>a, <1>3, HeldAdd DEF Added, Holds
  <2>2. Holds(l)' = Holds(l) /\ Got(l)' = Got(l) /\ enqueued'[l] = enqueued[l]
    BY <1>3, <2>1 DEF Added, Holds, Got
  <2> QED
    BY <1>c, <2>2
<1>4. CASE Dropped(l)
  <2>1. \E a, b, c : /\ Parts(Holds(l), a, b, c)
                     /\ Held(wire[l], InPacket(l), Tail(queue[l])) = a \o c
    BY <1>a, <1>4, HeldDrop DEF Dropped, Holds
  <2>2. /\ Holds(l)' = Held(wire[l], InPacket(l), Tail(queue[l]))
        /\ Got(l)' = Got(l) /\ enqueued'[l] = enqueued[l]
    BY <1>4 DEF Dropped, Holds, Got
  <2>3. Forgets(l)
    BY <1>4, <2>1, <2>2 DEF Forgets, MayForget, Dropped
  <2> QED
    BY <2>3
<1>5. CASE Sent(l)
  <2>1. Held(Append(wire[l], InPacket(l)), <<>>, queue[l]) = Holds(l)
    BY <1>a, HeldSend DEF Holds
  <2>2. Holds(l)' = Holds(l) /\ Got(l)' = Got(l) /\ enqueued'[l] = enqueued[l]
    BY <1>5, <2>1 DEF Sent, Holds, Got
  <2> QED
    BY <1>c, <2>2
<1>6. CASE Discarded(l)
  <2>1. \E a, b, c : Parts(Holds(l), a, b, c) /\ Held(wire[l], <<>>, queue[l]) = a \o c
    BY <1>a, HeldDiscard DEF Holds
  <2>2. /\ Holds(l)' = Held(wire[l], <<>>, queue[l])
        /\ Got(l)' = Got(l) /\ enqueued'[l] = enqueued[l]
    BY <1>6 DEF Discarded, Holds, Got
  <2>3. Forgets(l)
    BY <1>6, <2>1, <2>2 DEF Forgets, MayForget, Discarded
  <2> QED
    BY <2>3
<1>7. CASE Delivered(l)
  <2>1. PICK b : b = RankSeq(Head(wire[l]))
    OBVIOUS
  <2>2. Head(wire[l]) \in Seq(Message) /\ b \in Seq(Nat)
    <3>1. Head(wire[l]) \in Seq(Message)
      BY <1>a, <1>7 DEF Delivered
    <3> QED
      BY <2>1, <3>1, RankSeqType
  <2>3. Holds(l) = b \o Held(Tail(wire[l]), InPacket(l), queue[l])
    BY <1>a, <1>7, <2>1, HeldHead DEF Delivered, Holds
  <2>4. RankSeq(received[l] \o Head(wire[l])) = Got(l) \o b
    BY <1>a, <2>1, <2>2, ConcatRankSeq DEF Got
  <2>5. /\ Holds(l)' = Held(Tail(wire[l]), InPacket(l), queue[l])
        /\ Got(l)' = RankSeq(received[l] \o Head(wire[l])) /\ enqueued'[l] = enqueued[l]
    BY <1>7 DEF Delivered, Holds, Got
  <2>6. Hands(l)
    BY <2>2, <2>3, <2>4, <2>5 DEF Hands
  <2> QED
    BY <2>6
<1>8. CASE Vanished(l)
  <2>1. \E a, b, c : /\ Parts(Holds(l), a, b, c)
                     /\ Held(Tail(wire[l]), InPacket(l), queue[l]) = a \o c
    BY <1>a, <1>8, HeldLose DEF Vanished, Holds
  <2>2. /\ Holds(l)' = Held(Tail(wire[l]), InPacket(l), queue[l])
        /\ Got(l)' = Got(l) /\ enqueued'[l] = enqueued[l]
    BY <1>8 DEF Vanished, Holds, Got
  <2>3. Forgets(l)
    BY <1>8, <2>1, <2>2 DEF Forgets, MayForget, Vanished
  <2> QED
    BY <2>3
<1>9. LaneEffect(l)
  BY LaneEffects
<1> QED
  BY <1>1, <1>2, <1>3, <1>4, <1>5, <1>6, <1>7, <1>8, <1>9 DEF LaneEffect

\* The same in the words of the abstract specification: h is what the lane holds,
\* g what was got, h2 and g2 the same after the step.
LEMMA HandsOver ==
  ASSUME NEW h2 \in Seq(Nat), NEW b \in Seq(Nat), NEW h, h = b \o h2
  PROVE  /\ Len(b) \in 0 .. Len(h)
         /\ SubSeq(h, 1, Len(b)) = b
         /\ SubSeq(h, Len(b) + 1, Len(h)) = h2
<1>1. SubSeq(h, 1, Len(b)) = b
  BY FrontOfConcat
<1>2. SubSeq(h, Len(b) + 1, Len(h)) = h2
  BY BackOfConcat
<1>3. Len(b) \in 0 .. Len(h)
  <2>1. Len(h) = Len(b) + Len(h2) /\ Len(b) \in Nat /\ Len(h2) \in Nat
    OBVIOUS
  <2> QED
    BY <2>1
<1> QED
  BY <1>1, <1>2, <1>3

LEMMA ForgetsRow ==
  ASSUME NEW h, NEW h2, NEW a, NEW b, NEW c, Parts(h, a, b, c), h2 = a \o c
  PROVE  \E i \in 0 .. Len(h) : \E j \in i .. Len(h) :
           h2 = SubSeq(h, 1, i) \o SubSeq(h, j + 1, Len(h))
<1>1. a \in Seq(Nat) /\ b \in Seq(Nat) /\ c \in Seq(Nat) /\ h = (a \o b) \o c
  BY DEF Parts
<1>2. PICK ab : ab = a \o b
  OBVIOUS
<1>3. ab \in Seq(Nat) /\ Len(ab) = Len(a) + Len(b) /\ Len(a) \in Nat /\ Len(b) \in Nat
  BY <1>1, <1>2
<1>4. PICK bc : bc = b \o c
  OBVIOUS
<1>5. bc \in Seq(Nat) /\ h = a \o bc
  <2>1. (a \o b) \o c = a \o (b \o c)
    BY <1>1, Associative
  <2> QED
    BY <1>1, <1>4, <2>1
<1>6. SubSeq(h, 1, Len(a)) = a
  BY <1>1, <1>5, FrontOfConcat
<1>7. SubSeq(h, Len(ab) + 1, Len(h)) = c
  BY <1>1, <1>2, <1>3, BackOfConcat
<1>8. Len(h) = Len(ab) + Len(c) /\ Len(c) \in Nat
  BY <1>1, <1>2, <1>3
<1>9. Len(a) \in 0 .. Len(h) /\ Len(ab) \in Len(a) .. Len(h)
  BY <1>3, <1>8
<1> QED
  BY <1>6, <1>7, <1>9

LEMMA NothingOnWire == WireRanks(<<>>) = <<>>
<1>1. <<>> \in Seq(Seq(Message)) /\ Len(<<>>) = 0
  OBVIOUS
<1>2. PICK f : Flattens(f, <<>>, 0)
  BY <1>1, WireRanksUnfold
<1> QED
  BY <1>2 DEF Flattens

LEMMA LanesInit == Init => AnyLane!Init
<1> SUFFICES ASSUME Init PROVE AnyLane!Init
  OBVIOUS
<1>1. ASSUME NEW l \in Lanes PROVE Holds(l) = <<>>
  <2>1. wire[l] = <<>> /\ queue[l] = <<>> /\ InPacket(l) = <<>>
    BY <1>1 DEF Init, InPacket, EmptyPacket, Lanes
  <2> QED
    BY <2>1, NothingOnWire, NoRanks DEF Holds, Held
<1>2. Pending = [l \in Lanes |-> <<>>]
  BY <1>1 DEF Pending, Holds, Held
<1>3. [l \in Lanes |-> RankSeq(received[l])] = [l \in Lanes |-> <<>>]
  BY NoRanks DEF Init
<1> QED
  BY <1>2, <1>3 DEF Init, AnyLane!Init

\* Every step is one of a lane of MessageLanes, or is not seen.
LEMMA LanesStep ==
  ASSUME IInv, IInv', [Next]_vars, NEW l \in Lanes
  PROVE  AnyLane!Accept(l) \/ AnyLane!HandOver(l) \/ (AnyLane!Forget(l) /\ MayForget(l))
<1>1. Accepts(l) \/ Hands(l) \/ Forgets(l)
  BY LaneMoves DEF IInv
<1>2. Pending[l] = Holds(l) /\ Pending'[l] = Holds(l)'
  BY DEF Pending, Holds, Held
<1>3. Holds(l)' \in Seq(Nat)
  <2>1. wire'[l] \in Seq(Seq(Message)) /\ InPacket(l)' \in Seq(Message) /\ queue'[l] \in Seq(Message)
    BY DEF IInv, TypeInv, TypeOK, InPacket, Packet, Lanes
  <2> QED
    BY <2>1, HeldType DEF Holds
<1>4. CASE Accepts(l)
  BY <1>2, <1>4 DEF Accepts, Got, AnyLane!Accept
<1>5. CASE Hands(l)
  <2>1. PICK h, g, h2, g2 : h = Holds(l) /\ g = Got(l) /\ h2 = Holds(l)' /\ g2 = Got(l)'
    OBVIOUS
  <2>2. PICK b \in Seq(Nat) : h = b \o h2 /\ g2 = g \o b
    BY <1>5, <2>1 DEF Hands
  <2>3. \E n \in 0 .. Len(h) : g2 = g \o SubSeq(h, 1, n) /\ h2 = SubSeq(h, n + 1, Len(h))
    <3>1. h2 \in Seq(Nat)
      BY <1>3, <2>1
    <3>2. /\ Len(b) \in 0 .. Len(h)
          /\ SubSeq(h, 1, Len(b)) = b
          /\ SubSeq(h, Len(b) + 1, Len(h)) = h2
      BY <3>1, <2>2, HandsOver
    <3> QED
      BY <2>2, <3>2
  <2> QED
    BY <1>2, <1>5, <2>1, <2>3 DEF Hands, Got, AnyLane!HandOver
<1>6. CASE Forgets(l)
  <2>1. PICK h, h2 : h = Holds(l) /\ h2 = Holds(l)'
    OBVIOUS
  <2>2. PICK a, b, c : Parts(h, a, b, c) /\ h2 = a \o c
    BY <1>6, <2>1 DEF Forgets
  <2>3. \E i \in 0 .. Len(h) : \E j \in i .. Len(h) :
          h2 = SubSeq(h, 1, i) \o SubSeq(h, j + 1, Len(h))
    BY <2>2, ForgetsRow
  <2> QED
    BY <1>2, <1>6, <2>1, <2>3 DEF Forgets, Got, AnyLane!Forget
<1> QED
  BY <1>1, <1>4, <1>5, <1>6

\* The queues, packets and channels together are first-in first-out lanes that may
\* lose messages, for any number of connections, any sizes and any faults.
THEOREM LossyLanesImplemented == Spec => ImplementsLossyLanes
<1>1. IInv /\ IInv' /\ [Next]_vars => [AnyLane!Next]_(AnyLane!vars)
  BY LanesStep DEF AnyLane!Next
<1> QED
  BY <1>1, LanesInit, OrderInit, IInvStep, PTL DEF Spec, ImplementsLossyLanes, AnyLane!Spec

\* Under a load that fits the packets a reliable lane is a perfect first-in first-out
\* channel, for any number of connections and any losses of unreliable packets.
THEOREM ReliableLanesImplemented ==
  ASSUME NEW Largest \in Nat, LightLoad(Largest)
  PROVE  Spec => ImplementsReliableLanes
<1>1. Init => UnreliableLane!Init
  <2> SUFFICES ASSUME Init PROVE UnreliableLane!Init
    OBVIOUS
  <2>1. AnyLane!Init
    BY LanesInit
  <2> QED
    BY <2>1 DEF AnyLane!Init, UnreliableLane!Init
<1>2. IInv /\ IInv' /\ Load(Largest) /\ [Next]_vars
        => [UnreliableLane!Next]_(UnreliableLane!vars)
  <2> SUFFICES ASSUME IInv, IInv', Load(Largest), [Next]_vars, NEW l \in Lanes
               PROVE  UnreliableLane!Accept(l) \/ UnreliableLane!HandOver(l) \/ UnreliableLane!Forget(l)
    BY DEF UnreliableLane!Next
  <2>1. AnyLane!Accept(l) \/ AnyLane!HandOver(l) \/ (AnyLane!Forget(l) /\ MayForget(l))
    BY LanesStep
  <2>2. MayForget(l) => l[2] = Unreliable
    BY NothingThrownAway DEF MayForget, IInv
  <2> QED
    BY <2>1, <2>2 DEF AnyLane!Accept, AnyLane!HandOver, AnyLane!Forget,
                      UnreliableLane!Accept, UnreliableLane!HandOver, UnreliableLane!Forget
<1>3. Init => IInv /\ Load(Largest)
  BY OrderInit, LoadInit
<1>4. IInv /\ Load(Largest) /\ [Next]_vars => (IInv /\ Load(Largest))'
  BY IInvStep, LoadStep DEF IInv
<1> QED
  BY <1>1, <1>2, <1>3, <1>4, PTL DEF Spec, ImplementsReliableLanes, UnreliableLane!Spec

-----------------------------------------------------------------------------
(* The size of packets.                                                    *)

\* The partial sums of the recursion that adds up the bits of n messages.
SumsUp(f, s, n) ==
  /\ f \in [0 .. n -> Nat]
  /\ SealedBits(s) = f[n]
  /\ f[0] = HeaderBits
  /\ \A i \in 1 .. n : f[i] = f[i - 1] + Written[s[i].kind]

LEMMA SealedBitsUnfold ==
  ASSUME NEW s \in Seq(Message), NEW n, n = Len(s)
  PROVE  \E f : SumsUp(f, s, n)
<1> USE ParametersAssumption
<1>1. n \in Nat /\ \A i \in 1 .. n : Written[s[i].kind] \in Nat
  <2>1. n \in Nat /\ \A i \in 1 .. n : s[i] \in Message
    BY LenProperties, ElementOfSeq
  <2>2. \A i \in 1 .. n : s[i].kind \in Kinds
    BY <2>1 DEF Message
  <2> QED BY <2>1, <2>2
<1>2. PICK f : /\ f \in [0 .. n -> Nat] /\ f[0] = HeaderBits
               /\ \A i \in 1 .. n : f[i] = f[i - 1] + Written[s[i].kind]
  <2> DEFINE g == [i \in 1 .. n |-> [x \in Nat |-> x + Written[s[i].kind]]]
  <2>1. g \in [1 .. n -> [Nat -> Nat]]
    BY <1>1
  <2>2. PICK G, A, a : G = g /\ A = Nat /\ a = HeaderBits
    OBVIOUS
  <2>3. Stepwise(n, A, a, G)
    BY <1>1, <2>1, <2>2 DEF Stepwise
  <2>4. PICK f : Iteration(f, n, A, a, G)
    BY ONLY <2>3, IterationExists
  <2>5. ASSUME NEW i \in 1 .. n PROVE f[i] = f[i - 1] + Written[s[i].kind]
    <3>1. f[i] = G[i][f[i - 1]]
      BY <2>4 DEF Iteration
    <3>2. i - 1 \in 0 .. n
      BY <1>1
    <3>3. f[i - 1] \in Nat
      BY <2>2, <2>4, <3>2 DEF Iteration
    <3> QED
      BY <2>2, <3>1, <3>3
  <2>6. f \in [0 .. n -> Nat] /\ f[0] = HeaderBits
    BY <2>2, <2>4 DEF Iteration
  <2> QED
    BY <2>5, <2>6
<1> DEFINE F(h) == [i \in 0 .. Len(s) |-> IF i = 0 THEN HeaderBits ELSE h[i - 1] + Written[s[i].kind]]
           sizes == CHOOSE h : h = F(h)
<1>3. f = F(f)
  <2>1. ASSUME NEW i \in 0 .. n PROVE f[i] = F(f)[i]
    <3>1. CASE i = 0
      BY <1>2, <3>1
    <3>2. CASE i # 0
      <4>1. i \in 1 .. n BY <1>1, <3>2
      <4> QED BY <1>2, <3>2, <4>1
    <3> QED BY <3>1, <3>2
  <2> QED BY <1>2, <2>1
<1>4. sizes = F(sizes)
  <2> HIDE DEF F
  <2> QED BY <1>3
<1>5. SealedBits(s) = sizes[Len(s)]
  BY DEF SealedBits
<1>6. \A i \in 0 .. n : sizes[i] = IF i = 0 THEN HeaderBits ELSE sizes[i - 1] + Written[s[i].kind]
  <2> HIDE DEF sizes
  <2> QED BY <1>4
<1> HIDE DEF sizes
<1>7. \A k \in 0 .. n : sizes[k] = f[k]
  <2> DEFINE S == {k \in 0 .. n : sizes[k] = f[k]}
  <2>1. 0 \in S
    BY <1>1, <1>2, <1>6
  <2>2. ASSUME NEW k \in 0 .. n - 1, k \in S PROVE k + 1 \in S
    <3>1. PICK i : i = k + 1
      OBVIOUS
    <3>2. i \in 1 .. n /\ i \in 0 .. n /\ i - 1 = k /\ i # 0
      BY <1>1, <3>1
    <3>3. sizes[i] = sizes[i - 1] + Written[s[i].kind]
      BY ONLY <1>6, <3>2
    <3>4. f[i] = f[i - 1] + Written[s[i].kind]
      BY ONLY <1>2, <3>2
    <3>5. sizes[i] = f[i]
      BY <2>2, <3>2, <3>3, <3>4
    <3> QED BY <3>1, <3>2, <3>5
  <2>3. \A k \in 0 .. n : k \in S
    <3> HIDE DEF S
    <3> QED BY <1>1, <2>1, <2>2, SetInduction
  <2> QED BY <2>3
<1>8. SealedBits(s) = f[n]
  BY <1>1, <1>5, <1>7
<1>9. SumsUp(f, s, n)
  BY <1>2, <1>8 DEF SumsUp
<1> QED BY <1>9

LEMMA NoBits == SealedBits(<<>>) = HeaderBits
<1>1. <<>> \in Seq(Message) /\ Len(<<>>) = 0
  OBVIOUS
<1>2. PICK f : SumsUp(f, <<>>, 0)
  BY <1>1, SealedBitsUnfold
<1> QED
  BY <1>2 DEF SumsUp

\* A message adds the bits that are written for it.
LEMMA AppendBits ==
  ASSUME NEW s \in Seq(Message), NEW m \in Message
  PROVE  SealedBits(Append(s, m)) = SealedBits(s) + Written[m.kind]
<1>1. PICK n, v : n = Len(s) /\ v = Append(s, m)
  OBVIOUS
<1>2. /\ n \in Nat /\ v \in Seq(Message) /\ Len(v) = n + 1
      /\ v[n + 1] = m /\ \A i \in 1 .. n : v[i] = s[i]
  BY <1>1, AppendProperties, LenProperties
<1>3. PICK f : SumsUp(f, s, n)
  BY <1>1, SealedBitsUnfold
<1>4. PICK g : SumsUp(g, v, n + 1)
  BY <1>2, SealedBitsUnfold
<1> USE DEF SumsUp
<1>5. \A k \in 0 .. n : g[k] = f[k]
  <2> DEFINE S == {k \in 0 .. n : g[k] = f[k]}
  <2>1. 0 \in S
    BY <1>2, <1>3, <1>4
  <2>2. ASSUME NEW k \in 0 .. n - 1, k \in S PROVE k + 1 \in S
    <3>1. PICK i : i = k + 1
      OBVIOUS
    <3>2. i \in 1 .. n /\ i \in 0 .. n /\ i \in 1 .. n + 1 /\ i - 1 = k
      BY <1>2, <3>1
    <3>3. g[i] = g[i - 1] + Written[v[i].kind]
      BY ONLY <1>4, <3>2
    <3>4. f[i] = f[i - 1] + Written[s[i].kind]
      BY ONLY <1>3, <3>2
    <3>5. g[i] = f[i]
      BY <1>2, <2>2, <3>2, <3>3, <3>4
    <3> QED BY <3>1, <3>2, <3>5
  <2>3. \A k \in 0 .. n : k \in S
    <3> HIDE DEF S
    <3> QED BY <1>2, <2>1, <2>2, SetInduction
  <2> QED BY <2>3
<1>6. PICK i : i = n + 1
  OBVIOUS
<1>7. i \in 1 .. n + 1 /\ i - 1 = n /\ n \in 0 .. n
  BY <1>2, <1>6
<1>8. g[i] = g[i - 1] + Written[v[i].kind]
  BY ONLY <1>4, <1>7
<1> QED
  BY <1>1, <1>2, <1>3, <1>4, <1>5, <1>6, <1>7, <1>8

\* packet.written is what the seal will write for the messages of the packet.
Weighed ==
  \A ch \in Channels :
    /\ Len(packet[ch].messages) <= MaxMessagesPerPacket
    /\ SealedBits(packet[ch].messages) = HeaderBits + packet[ch].written

LimitInv == TypeInv /\ Weighed /\ PacketsWithinLimits

LEMMA LimitInit == Init => LimitInv
<1> SUFFICES ASSUME Init PROVE LimitInv
  OBVIOUS
<1>1. TypeInv
  BY TypeInit
<1>2. \A ch \in Channels : packet[ch] = EmptyPacket
  BY DEF Init
<1>3. EmptyPacket.messages = <<>> /\ EmptyPacket.written = 0 /\ Len(<<>>) = 0
  BY DEF EmptyPacket
<1>4. Weighed
  BY <1>2, <1>3, NoBits, ParametersAssumption DEF Weighed
<1>5. PacketsWithinLimits
  BY DEF Init, PacketsWithinLimits
<1> QED
  BY <1>1, <1>4, <1>5 DEF LimitInv

LEMMA WeighedEmpty ==
  /\ Len(EmptyPacket.messages) <= MaxMessagesPerPacket
  /\ SealedBits(EmptyPacket.messages) = HeaderBits + EmptyPacket.written
<1>1. EmptyPacket.messages = <<>> /\ EmptyPacket.written = 0 /\ Len(<<>>) = 0
  BY DEF EmptyPacket
<1> QED
  BY <1>1, NoBits, ParametersAssumption

\* The message at the front of the queue that a packet is built from.
LEMMA HeadIsMessage ==
  ASSUME TypeInv, NEW ch \in Channels, AddMessage(ch)
  PROVE  Head(queue[Lane(ch)]) \in Message
<1>1. cursor < Capacity
  BY DEF AddMessage, Building, InSlot, TypeInv
<1>2. queue[Lane(ch)] \in Seq(Message) /\ queue[Lane(ch)] # <<>>
  BY <1>1, LaneType DEF AddMessage, TypeInv, TypeOK
<1> QED
  BY <1>2

\* A packet changes by a message that is added, or is begun anew.
LEMMA PacketChanges ==
  ASSUME TypeInv, [Next]_vars
  PROVE  \/ \E ch \in Channels : AddMessage(ch)
         \/ \A ch \in Channels : packet'[ch] = packet[ch] \/ packet'[ch] = EmptyPacket
<1>1. packet \in [Channels -> Packet]
  BY DEF TypeInv, TypeOK
<1>2. \/ packet' = packet \/ EnterSlot
      \/ \E ch \in Channels : AddMessage(ch) \/ SendPacket(ch) \/ SealFails(ch)
  BY DEF Next, FlushStep, NewConnection, EnqueueMessage, BeginFlush, EndFlush, SkipSlot,
         DropOverflow, FinishBuilding, AbortOnRange, NothingToSend, Deliver, LosePacket,
         vars, flushVars
<1> QED
  BY <1>1, <1>2 DEF EnterSlot, SendPacket, SealFails

LEMMA WeighedStep ==
  ASSUME TypeInv, Weighed, [Next]_vars
  PROVE  Weighed'
<1>a. packet \in [Channels -> Packet]
  BY DEF TypeInv, TypeOK
<1>1. ASSUME \A ch \in Channels : packet'[ch] = packet[ch] \/ packet'[ch] = EmptyPacket
      PROVE  Weighed'
  BY <1>1, WeighedEmpty DEF Weighed
<1>2. ASSUME NEW ch \in Channels, AddMessage(ch) PROVE Weighed'
  <2>1. PICK p, m : p = packet[ch] /\ m = Head(queue[Lane(ch)])
    OBVIOUS
  <2>2. p \in Packet /\ m \in Message
    BY <1>2, <1>a, <2>1, HeadIsMessage
  <2>3. packet'[ch] = AddTo(p, m) /\ \A c \in Channels \ {ch} : packet'[c] = packet[c]
    BY <1>2, <1>a, <2>1 DEF AddMessage
  <2>4. CanAdd(p, m.kind)
    BY <1>2, <2>1 DEF AddMessage
  <2>5. p.messages \in Seq(Message) /\ p.written \in Nat /\ Written[m.kind] \in Nat
    BY <2>2, ParametersAssumption DEF Packet, Message
  <2>6. /\ packet'[ch].messages = Append(p.messages, m)
        /\ packet'[ch].written = p.written + Written[m.kind]
    BY <2>3 DEF AddTo
  <2>7. SealedBits(Append(p.messages, m)) = HeaderBits + p.written + Written[m.kind]
    BY <2>1, <2>2, <2>5, AppendBits DEF Weighed
  <2>8. SealedBits(packet'[ch].messages) = HeaderBits + packet'[ch].written
    BY <2>5, <2>6, <2>7, ParametersAssumption
  <2>9. Len(packet'[ch].messages) <= MaxMessagesPerPacket
    <3>1. Len(Append(p.messages, m)) = Len(p.messages) + 1
      BY <2>2, <2>5
    <3> QED
      BY <2>4, <2>6, <3>1 DEF CanAdd
  <2> QED
    BY <2>3, <2>8, <2>9 DEF Weighed
<1> QED
  BY <1>1, <1>2, PacketChanges

\* Only a packet that the write stream could seal reaches a wire.
LEMMA LimitStep == LimitInv /\ [Next]_vars => LimitInv'
<1> SUFFICES ASSUME LimitInv, [Next]_vars PROVE LimitInv'
  OBVIOUS
<1>1. TypeInv' /\ Weighed'
  BY TypeStep, WeighedStep DEF LimitInv
<1> DEFINE Within(w) == \A p \in DOMAIN w :
                          Len(w[p]) <= MaxMessagesPerPacket /\ SealedBits(w[p]) <= PacketBits
<1>2. ASSUME NEW l \in Lanes PROVE Within(wire'[l])
  <2>a. Within(wire[l]) /\ wire[l] \in Seq(Seq(Message)) /\ wire \in [Lanes -> Seq(Seq(Message))]
    BY DEF LimitInv, PacketsWithinLimits, TypeInv, TypeOK
  <2>1. ASSUME NEW ch \in Channels, SendPacket(ch) PROVE Within(wire'[l])
    <3>1. CASE l # Lane(ch)
      BY <2>a, <2>1, <3>1 DEF SendPacket
    <3>2. CASE l = Lane(ch)
      <4>1. PICK p : p = packet[ch].messages
        OBVIOUS
      <4>2. p \in Seq(Message) /\ Len(p) <= MaxMessagesPerPacket /\ SealedBits(p) <= PacketBits
        BY <2>1, <4>1 DEF SendPacket, Sealable, LimitInv, Weighed, TypeInv, TypeOK, Packet
      <4>3. wire'[l] = Append(wire[l], p)
        BY <2>a, <2>1, <3>2, <4>1 DEF SendPacket
      <4>4. \A i \in DOMAIN Append(wire[l], p) :
              (i \in DOMAIN wire[l] /\ Append(wire[l], p)[i] = wire[l][i]) \/ Append(wire[l], p)[i] = p
        BY <2>a, <4>2, AppendProperties, LenProperties
      <4> QED
        BY <2>a, <4>2, <4>3, <4>4
    <3> QED
      BY <3>1, <3>2
  <2>2. CASE \E m \in Lanes : Deliver(m) \/ LosePacket(m)
    <3>1. wire'[l] = wire[l] \/ (wire[l] # <<>> /\ wire'[l] = Tail(wire[l]))
      BY <2>a, <2>2 DEF Deliver, LosePacket
    <3>2. wire[l] # <<>> => \A i \in DOMAIN Tail(wire[l]) :
                              i + 1 \in DOMAIN wire[l] /\ Tail(wire[l])[i] = wire[l][i + 1]
      BY <2>a, HeadTailProperties, LenProperties, EmptySeq
    <3> QED
      BY <2>a, <3>1, <3>2
  <2>3. CASE wire' = wire
    BY <2>a, <2>3
  <2>4. \/ wire' = wire
        \/ \E ch \in Channels : SendPacket(ch)
        \/ \E m \in Lanes : Deliver(m) \/ LosePacket(m)
    BY DEF Next, FlushStep, NewConnection, EnqueueMessage, BeginFlush, EndFlush, SkipSlot,
           EnterSlot, AddMessage, DropOverflow, FinishBuilding, AbortOnRange, NothingToSend,
           SealFails, vars, wireVars
  <2> HIDE DEF Within
  <2> QED
    BY <2>1, <2>2, <2>3, <2>4
<1>3. PacketsWithinLimits'
  BY <1>2 DEF PacketsWithinLimits
<1> QED
  BY <1>1, <1>3 DEF LimitInv

\* A packet handed to a channel holds at most MaxMessagesPerPacket messages and, its
\* header included, fits the packet size, whatever the messages measure: build_packet
\* does not see to it, but packet_seal fails in time.
THEOREM PacketsFit == Spec => []PacketsWithinLimits
<1>1. LimitInv => PacketsWithinLimits
  BY DEF LimitInv
<1> QED
  BY <1>1, LimitInit, LimitStep, PTL DEF Spec

-----------------------------------------------------------------------------
(* Losses by overflow.                                                     *)

\* packet_seal succeeds on the packets that are about to be sent.
PacketsSeal == \A ch \in Channels : Sending(ch) /\ ch \in created => Sealable(packet[ch])

\* No message is larger than a packet.
MessagesFit ==
  /\ MaxMessagesPerPacket >= 1
  /\ \A k \in Kinds \ OutOfRange : Measured[k] <= PacketBits

\* What is lost on a reliable lane is older than what waits there.
LostBefore(l) == Before(lost[l], Ranks(queue[l]))

\* The message after a lost one, once it is the first of its queue, finds an empty
\* packet.
NextFindsRoom(l) ==
  l[1] = cursor /\ pc \in {"build_unreliable", "build_reliable"} /\ queue[l] # <<>>
    => \A r \in lost[l] : r + 1 = Head(queue[l]).rank => packet[l[2]] = EmptyPacket

Isolated(l) ==
  /\ LostBefore(l)
  /\ NextFindsRoom(l)
  /\ \A r \in lost[l] : r + 1 \notin lost[l]

IsolationInv == IInv /\ \A c \in Ids : Isolated(<<c, Reliable>>)

LEMMA IsolationInit == Init => IsolationInv
  BY OrderInit DEF Init, IsolationInv, Isolated, LostBefore, Before, NextFindsRoom, Lanes, Channels

\* What a lane has lost stays behind what waits.
LEMMA LostBeforeStep ==
  ASSUME IInv, [Next]_vars, NEW l \in Lanes, LostBefore(l)
  PROVE  LostBefore(l)'
<1>a. LaneInv(received[l], lost[l], wire[l], InPacket(l), queue[l], enqueued[l])
  BY DEF IInv, LaneOrder
<1>b. /\ queue[l] \in Seq(Message) /\ enqueued[l] \in Nat /\ wire[l] \in Seq(Seq(Message))
      /\ InPacket(l) \in Seq(Message)
  BY LaneParts DEF IInv
<1>c. queue[l] # <<>> => /\ Ranks(queue[l]) = {Head(queue[l]).rank} \cup Ranks(Tail(queue[l]))
                         /\ Before({Head(queue[l]).rank}, Ranks(Tail(queue[l])))
  BY <1>a, <1>b, TailRanks DEF LaneInv
<1> USE DEF LostBefore
<1>1. CASE Untouched(l)
  BY <1>1 DEF Untouched
<1>2. CASE Enqueued(l)
  <2>1. PICK m \in Message : m.rank = enqueued[l] + 1 /\ queue'[l] = Append(queue[l], m)
    BY <1>2 DEF Enqueued
  <2>2. Ranks(queue'[l]) = Ranks(queue[l]) \cup {enqueued[l] + 1} /\ lost'[l] = lost[l]
    BY <1>2, <1>b, <2>1, AppendRanks DEF Enqueued
  <2>3. \A r \in lost[l] : r < enqueued[l] + 1
    BY <1>a, <1>b DEF LaneInv
  <2> QED
    BY <2>2, <2>3 DEF Before
<1>3. CASE Added(l)
  BY <1>3, <1>c DEF Added, Before
<1>4. CASE Dropped(l)
  BY <1>4, <1>c DEF Dropped, Before
<1>5. CASE Sent(l)
  BY <1>5 DEF Sent
<1>6. CASE Discarded(l)
  BY <1>6, <1>a DEF Discarded, LaneInv, Before
<1>7. CASE Delivered(l)
  BY <1>7 DEF Delivered
<1>8. CASE Vanished(l)
  <2>1. Ranks(Head(wire[l])) \subseteq RanksOnWire(wire[l])
    BY <1>8, <1>b, TailOfWire DEF Vanished
  <2> QED
    BY <1>8, <1>a, <2>1 DEF Vanished, LaneInv, Before
<1>9. LaneEffect(l)
  BY LaneEffects DEF IInv
<1> QED
  BY <1>1, <1>2, <1>3, <1>4, <1>5, <1>6, <1>7, <1>8, <1>9 DEF LaneEffect

\* While a connection is being built nothing changes at the front of its queue but by
\* the two ways a message leaves it.
LEMMA NextFindsRoomStep ==
  ASSUME IInv, [Next]_vars, NEW c \in Ids, Isolated(<<c, Reliable>>)
  PROVE  NextFindsRoom(<<c, Reliable>>)'
<1> DEFINE l == <<c, Reliable>>
<1>a. l \in Lanes /\ l[1] = c /\ l[2] = Reliable /\ TypeInv
  BY DEF IInv, Lanes, Channels
<1>b. /\ queue[l] \in Seq(Message) /\ packet \in [Channels -> Packet] /\ lost[l] \in SUBSET Nat
      /\ queue \in [Lanes -> Seq(Message)] /\ lost \in [Lanes -> SUBSET Nat]
  BY <1>a DEF TypeInv, TypeOK
<1> SUFFICES ASSUME c = cursor', pc' \in {"build_unreliable", "build_reliable"}, queue'[l] # <<>>,
                    NEW r \in lost'[l], r + 1 = Head(queue'[l]).rank
             PROVE  packet'[Reliable] = EmptyPacket
  BY <1>a DEF NextFindsRoom
<1> HIDE DEF l
<1> DEFINE Same == /\ cursor' = cursor /\ pc \in {"build_unreliable", "build_reliable"}
                   /\ queue'[l] = queue[l] /\ lost'[l] = lost[l]
                   /\ packet'[Reliable] = packet[Reliable]
<1>1. CASE Same
  BY <1>1, <1>a DEF Isolated, NextFindsRoom, l
<1>2. CASE EnterSlot
  BY <1>2 DEF EnterSlot, Channels
<1>3. CASE AddMessage(Reliable)
  <2>1. cursor' = cursor /\ l = Lane(Reliable) /\ lost' = lost
    BY <1>3, <1>a DEF AddMessage, Lane, wireVars, l
  <2>2. queue[l] # <<>> /\ queue'[l] = Tail(queue[l])
    BY <1>3, <1>a, <1>b, <2>1 DEF AddMessage
  <2>3. PICK q : q = queue[l]
    OBVIOUS
  <2>4. q \in Seq(Message) /\ q # <<>> /\ Tail(q) # <<>> /\ Tail(q) \in Seq(Message)
        /\ Head(q) \in Message /\ Head(Tail(q)) \in Message
    BY <1>b, <2>2, <2>3
  <2>5. Head(q).rank \in Ranks(q) /\ Head(Tail(q)).rank \in Ranks(Tail(q))
    BY <2>4, TailRanks
  <2>6. Sorted(q)
    BY <1>a, <2>3 DEF IInv, LaneOrder, LaneInv
  <2>7. Head(q).rank < Head(Tail(q)).rank
    BY <2>4, <2>5, <2>6, TailRanks DEF Before
  <2>8. r < Head(q).rank
    BY <1>a, <2>1, <2>3, <2>5 DEF Isolated, LostBefore, Before, l
  <2>9. Head(q).rank \in Nat /\ Head(Tail(q)).rank \in Nat /\ r \in Nat
    BY <1>b, <2>1, <2>4 DEF Message
  <2> QED
    BY <2>2, <2>3, <2>7, <2>8, <2>9
<1>4. ASSUME NEW ch \in Channels, ch # Reliable, AddMessage(ch) \/ DropOverflow(ch) PROVE Same
  <2>1. l # Lane(ch)
    BY <1>a, <1>4 DEF Lane
  <2>2. CASE AddMessage(ch)
    BY <1>4, <1>b, <2>1, <2>2 DEF AddMessage, Building, wireVars, Channels
  <2>3. CASE DropOverflow(ch)
    BY <1>4, <1>b, <2>1, <2>3 DEF DropOverflow, Building, Channels
  <2> QED
    BY <1>4, <2>2, <2>3
<1>5. CASE DropOverflow(Reliable)
  BY <1>5 DEF DropOverflow, AfterBuilding, Reliable, Unreliable
<1>6. ASSUME NEW ch \in Channels, FinishBuilding(ch) PROVE Same
  BY <1>6 DEF FinishBuilding, Building, queueVars, wireVars
<1>7. ASSUME NEW x \in Lanes, Deliver(x) \/ LosePacket(x) PROVE Same
  <2>1. lost'[l] = lost[l]
    BY <1>7, <1>a DEF Deliver, LosePacket, Reliable, Unreliable, TypeInv, TypeOK
  <2> QED
    BY <1>7, <2>1 DEF Deliver, LosePacket, queueVars, flushVars
<1>8. ASSUME UNCHANGED vars PROVE Same
  BY <1>8 DEF vars, queueVars, flushVars, wireVars
<1>9. ASSUME NEW x \in Ids, NewConnection(x) PROVE FALSE
  BY <1>9 DEF NewConnection, flushVars
<1>10. ASSUME NEW x \in Lanes, NEW k \in Kinds, EnqueueMessage(x, k) PROVE FALSE
  BY <1>10 DEF EnqueueMessage, flushVars
<1>11. CASE BeginFlush \/ EndFlush \/ SkipSlot
  BY <1>11 DEF BeginFlush, EndFlush, SkipSlot
<1>12. ASSUME NEW ch \in Channels,
              AbortOnRange(ch) \/ NothingToSend(ch) \/ SendPacket(ch) \/ SealFails(ch)
       PROVE  FALSE
  BY <1>12 DEF AbortOnRange, NothingToSend, SendPacket, SealFails, AfterSending
<1> HIDE DEF Same
<1> QED
  BY <1>1, <1>2, <1>3, <1>4, <1>5, <1>6, <1>7, <1>8, <1>9, <1>10, <1>11, <1>12
     DEF Next, FlushStep

\* The message dropped by an overflow did not find the packet empty, so the one before
\* it is not lost; the ones after it wait.
LEMMA IsolatedStep ==
  ASSUME MessagesFit, PacketsSeal, IInv, [Next]_vars, NEW c \in Ids, Isolated(<<c, Reliable>>)
  PROVE  Isolated(<<c, Reliable>>)'
<1> DEFINE l == <<c, Reliable>>
<1>a. l \in Lanes /\ l[1] = c /\ l[2] = Reliable /\ TypeInv /\ Reliable # Unreliable
  BY DEF IInv, Lanes, Channels, Reliable, Unreliable
<1>b. queue[l] \in Seq(Message) /\ lost[l] \in SUBSET Nat /\ packet \in [Channels -> Packet]
  BY <1>a DEF TypeInv, TypeOK
<1>c. LostBefore(l)'
  BY <1>a, LostBeforeStep DEF Isolated
<1>d. NextFindsRoom(l)'
  BY NextFindsRoomStep
<1>e. ASSUME NEW ch \in Channels, SealFails(ch) PROVE FALSE
  BY <1>e DEF SealFails, PacketsSeal
<1> HIDE DEF l
<1>1. ASSUME lost'[l] = lost[l] PROVE \A r \in lost'[l] : r + 1 \notin lost'[l]
  BY <1>1 DEF Isolated, l
<1>2. ASSUME Dropped(l) PROVE \A r \in lost'[l] : r + 1 \notin lost'[l]
  <2>1. PICK h : h = Head(queue[l])
    OBVIOUS
  <2>2. queue[l] # <<>> /\ lost'[l] = lost[l] \cup {h.rank} /\ h \in Message
    BY <1>2, <1>b, <2>1 DEF Dropped
  <2>3. h.rank \in Nat
    BY <2>2 DEF Message
  <2>4. h.rank \in Ranks(queue[l])
    BY <1>b, <2>1, <2>2, TailRanks
  <2>5. \A r \in lost[l] : r < h.rank
    BY <2>4 DEF Isolated, LostBefore, Before, l
  <2>6. ASSUME NEW r \in lost[l], r + 1 = h.rank PROVE FALSE
    <3>1. PICK ch \in Channels : DropOverflow(ch)
      BY <1>2 DEF Dropped
    <3>2. l = Lane(ch)
      <4>1. CASE l # Lane(ch)
        <5>1. lost'[l] = lost[l]
          BY <1>a, <3>1, <4>1 DEF DropOverflow, TypeInv, TypeOK
        <5>2. h.rank \in lost[l]
          BY <2>2, <5>1
        <5> QED
          BY <2>3, <2>5, <5>2
      <4> QED
        BY <4>1
    <3>3. c = cursor /\ ch = Reliable /\ pc = "build_reliable"
      BY <1>a, <3>1, <3>2 DEF Lane, DropOverflow, Building
    <3>4. packet[Reliable] = EmptyPacket
      BY <1>a, <2>1, <2>2, <2>6, <3>3 DEF Isolated, NextFindsRoom, l
    <3>5. h.kind \in Kinds \ OutOfRange /\ ~CanAdd(EmptyPacket, h.kind)
      BY <2>1, <2>2, <3>1, <3>2, <3>3, <3>4 DEF DropOverflow, Message
    <3>6. Measured[h.kind] \in Nat /\ Measured[h.kind] <= PacketBits
      BY <3>5, ParametersAssumption DEF MessagesFit
    <3>7. EmptyPacket.measured = 0 /\ Len(EmptyPacket.messages) = 0
      BY DEF EmptyPacket
    <3> QED
      BY <3>5, <3>6, <3>7, ParametersAssumption DEF CanAdd, MessagesFit
  <2>7. \A r \in lost[l] : r + 1 \notin lost[l]
    BY DEF Isolated, l
  <2>8. \A r \in lost[l] : r \in Nat
    BY <1>b
  <2> QED
    BY <2>2, <2>3, <2>5, <2>6, <2>7, <2>8
<1>3. lost'[l] = lost[l] \/ Dropped(l)
  <2>1. LaneEffect(l)
    BY <1>a, LaneEffects DEF IInv
  <2> QED
    BY <1>a, <1>e, <2>1 DEF LaneEffect, Untouched, Enqueued, Added, Sent, Discarded, Delivered, Vanished
<1> QED
  BY <1>1, <1>2, <1>3, <1>c, <1>d DEF Isolated, l

\* When every message fits a packet alone and no seal fails, an overflow loses isolated
\* messages of a reliable lane only, for any number of connections and any load.
THEOREM OverflowLosesIsolated ==
  ASSUME MessagesFit
  PROVE  Spec /\ []PacketsSeal => []LossesAreIsolated
<1>1. IsolationInv /\ PacketsSeal /\ [Next]_vars => IsolationInv'
  <2> SUFFICES ASSUME IsolationInv, PacketsSeal, [Next]_vars PROVE IsolationInv'
    OBVIOUS
  <2>1. IInv /\ \A c \in Ids : Isolated(<<c, Reliable>>)
    BY DEF IsolationInv
  <2>2. IInv'
    BY <2>1, IInvStep
  <2>3. \A c \in Ids : Isolated(<<c, Reliable>>)'
    BY <2>1, IsolatedStep
  <2> QED
    BY <2>2, <2>3 DEF IsolationInv
<1>2. IsolationInv => LossesAreIsolated
  BY DEF IsolationInv, Isolated, LossesAreIsolated
<1> QED
  BY <1>1, <1>2, IsolationInit, PTL DEF Spec

\* Messages so small that a packet full of them has room for its header.
SmallMessages(Largest) ==
  /\ \A k \in Kinds : Written[k] <= Largest
  /\ Bits(MaxMessagesPerPacket, Largest) + HeaderBits <= PacketBits

LightPackets(Largest) ==
  \A ch \in Channels : packet[ch].written <= Bits(Len(packet[ch].messages), Largest)

LEMMA LightPacketsStep ==
  ASSUME NEW Largest \in Nat, SmallMessages(Largest), TypeInv, LightPackets(Largest), [Next]_vars
  PROVE  LightPackets(Largest)'
<1>a. packet \in [Channels -> Packet]
  BY DEF TypeInv, TypeOK
<1>b. EmptyPacket.written <= Bits(Len(EmptyPacket.messages), Largest)
  <2>1. EmptyPacket.written = 0 /\ Len(EmptyPacket.messages) = 0
    BY DEF EmptyPacket
  <2> QED
    BY <2>1, BitsOf
<1>1. ASSUME \A ch \in Channels : packet'[ch] = packet[ch] \/ packet'[ch] = EmptyPacket
      PROVE  LightPackets(Largest)'
  BY <1>1, <1>b DEF LightPackets
<1>2. ASSUME NEW ch \in Channels, AddMessage(ch) PROVE LightPackets(Largest)'
  <2>1. PICK p, m, n : p = packet[ch] /\ m = Head(queue[Lane(ch)]) /\ n = Len(p.messages)
    OBVIOUS
  <2>2. m \in Message /\ p \in Packet
    BY <1>2, <1>a, <2>1, HeadIsMessage
  <2>3. p.messages \in Seq(Message) /\ p.written \in Nat /\ n \in Nat
        /\ Written[m.kind] \in Nat /\ Written[m.kind] <= Largest
    BY <2>1, <2>2, ParametersAssumption DEF Packet, Message, SmallMessages
  <2>4. packet'[ch] = AddTo(p, m) /\ \A c \in Channels \ {ch} : packet'[c] = packet[c]
    BY <1>2, <1>a, <2>1 DEF AddMessage
  <2>5. packet'[ch].messages = Append(p.messages, m) /\ packet'[ch].written = p.written + Written[m.kind]
    BY <2>4 DEF AddTo
  <2>6. Len(packet'[ch].messages) = n + 1
    BY <2>1, <2>2, <2>3, <2>5
  <2>7. Bits(n + 1, Largest) = Bits(n, Largest) + Largest /\ Bits(n, Largest) \in Nat
    BY <2>3, BitsOf
  <2>8. p.written <= Bits(n, Largest)
    BY <2>1 DEF LightPackets
  <2>9. packet'[ch].written <= Bits(n + 1, Largest)
    BY <2>3, <2>5, <2>7, <2>8
  <2> QED
    BY <2>4, <2>6, <2>9 DEF LightPackets
<1> QED
  BY <1>1, <1>2, PacketChanges

\* Packets of small messages seal.
THEOREM SmallMessagesSeal ==
  ASSUME NEW Largest \in Nat, SmallMessages(Largest)
  PROVE  Spec => []PacketsSeal
<1> DEFINE Inv == LimitInv /\ LightPackets(Largest)
<1>1. Init => Inv
  <2>1. EmptyPacket.written = 0 /\ Len(EmptyPacket.messages) = 0
    BY DEF EmptyPacket
  <2>2. Bits(0, Largest) = 0
    BY BitsOf
  <2>3. Init => \A ch \in Channels : packet[ch] = EmptyPacket
    BY DEF Init
  <2>4. Init => LightPackets(Largest)
    BY <2>1, <2>2, <2>3 DEF LightPackets
  <2> QED
    BY <2>4, LimitInit
<1>2. Inv /\ [Next]_vars => Inv'
  BY LimitStep, LightPacketsStep DEF LimitInv
<1>3. Inv => PacketsSeal
  <2> SUFFICES ASSUME Inv, NEW ch \in Channels PROVE Sealable(packet[ch])
    BY DEF PacketsSeal
  <2>1. PICK n, w : n = Len(packet[ch].messages) /\ w = packet[ch].written
    OBVIOUS
  <2>2. n \in Nat /\ w \in Nat /\ n <= MaxMessagesPerPacket
    BY <2>1 DEF LimitInv, Weighed, TypeInv, TypeOK, Packet
  <2>3. w <= Bits(n, Largest)
    BY <2>1 DEF LightPackets
  <2>4. Bits(n, Largest) <= Bits(MaxMessagesPerPacket, Largest)
    BY <2>2, Monotone, ParametersAssumption
  <2>5. Bits(n, Largest) \in Nat /\ Bits(MaxMessagesPerPacket, Largest) \in Nat
    BY <2>2, BitsOf, ParametersAssumption
  <2>6. HeaderBits + w <= PacketBits
    BY <2>2, <2>3, <2>4, <2>5, ParametersAssumption DEF SmallMessages
  <2> QED
    BY <2>1, <2>6 DEF Sealable
<1> HIDE DEF Inv
<1> QED
  BY <1>1, <1>2, <1>3, PTL DEF Spec

\* Under any load of messages that are all small, as most of the game's are, no two
\* consecutive messages of a reliable lane are lost.
THEOREM SmallLossesIsolated ==
  ASSUME NEW Largest \in Nat, SmallMessages(Largest), MessagesFit
  PROVE  Spec => []LossesAreIsolated
  BY SmallMessagesSeal, OverflowLosesIsolated, PTL
=============================================================================
