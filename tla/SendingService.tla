---------------------------- MODULE SendingService ----------------------------
(***************************************************************************)
(* The sending side of tdd_network and the two data channels below it.     *)
(*                                                                         *)
(* Every connection owns two queues of net messages, one per channel.  The *)
(* game enqueues; a timer hook calls sending_service_flush, which walks    *)
(* the slots of the connection bag and, for each connection, builds at     *)
(* most one packet per channel, seals both and hands them to the channel.  *)
(* A flush runs to completion inside one tick of a single thread, so the   *)
(* game enqueues only between flushes, but the channels deliver (and the   *)
(* unreliable one loses) packets at any time.                              *)
(*                                                                         *)
(* A lane is one direction of one channel of one connection.  A message is *)
(* its rank on its lane and its kind; the kind stands for the fields and   *)
(* only its size matters here.                                             *)
(***************************************************************************)
EXTENDS Integers, Sequences, FiniteSets

CONSTANTS
  Capacity,             \* slots of the connection bag, scanned 0 .. Capacity-1
  Kinds,                \* kinds of net messages
  Measured,             \* bits the measure stream counts for a kind
  Written,              \* bits the write stream produces for a kind
  OutOfRange,           \* kinds with a field outside its serialization range
  HeaderBits,           \* bits of the message count in front of a packet
  PacketBits,           \* 8 * packet_size
  MaxMessagesPerPacket,
  MaxPending,           \* bound: messages waiting in one queue
  MaxEnqueued,          \* bound: messages ever enqueued on one lane
  MaxInFlight           \* bound: packets on one wire

ASSUME ParametersAssumption ==
  /\ Capacity \in Nat
  /\ Measured \in [Kinds -> Nat]
  /\ Written \in [Kinds -> Nat]
  /\ OutOfRange \subseteq Kinds
  /\ HeaderBits \in Nat
  /\ PacketBits \in Nat
  /\ MaxMessagesPerPacket \in Nat
  /\ MaxPending \in Nat
  /\ MaxEnqueued \in Nat
  /\ MaxInFlight \in Nat

Ids == 0 .. Capacity - 1
Reliable == "reliable"
Unreliable == "unreliable"
Channels == {Reliable, Unreliable}
Lanes == Ids \X Channels

Message == [rank : Nat, kind : Kinds]

\* packet_t in send mode: the messages added so far, the bits measured for them
\* (number_of_bits) and the bits packet_seal will write for them.
Packet == [messages : Seq(Message), measured : Nat, written : Nat]
EmptyPacket == [messages |-> <<>>, measured |-> 0, written |-> 0]

VARIABLES
  connected,  \* ids of the connections in the bag
  queue,      \* reliable_messages_queue and unreliable_messages_queue
  enqueued,   \* number of messages enqueued so far on a lane
  pc,         \* where sending_service_flush stands
  cursor,     \* slot of the bag the flush looks at
  created,    \* channels whose packet pointer is not NULL
  packet,     \* the packet under construction for each channel
  wire,       \* sealed packets accepted by a channel and not yet delivered
  received,   \* history: messages the other end has read, in order
  lost        \* history: ranks of the messages that will never be read

queueVars == <<connected, queue, enqueued>>
flushVars == <<pc, cursor, created, packet>>
wireVars  == <<wire, received, lost>>
vars == <<queueVars, flushVars, wireVars>>

Steps == {"idle", "slot", "build_unreliable", "build_reliable",
          "send_unreliable", "send_reliable", "aborted"}

Lane(ch) == <<cursor, ch>>
Ranks(s) == {s[i].rank : i \in DOMAIN s}

Init ==
  /\ connected = {}
  /\ queue = [l \in Lanes |-> <<>>]
  /\ enqueued = [l \in Lanes |-> 0]
  /\ pc = "idle"
  /\ cursor = 0
  /\ created = {}
  /\ packet = [ch \in Channels |-> EmptyPacket]
  /\ wire = [l \in Lanes |-> <<>>]
  /\ received = [l \in Lanes |-> <<>>]
  /\ lost = [l \in Lanes |-> {}]

-----------------------------------------------------------------------------
(* The callers, between two flushes.                                       *)

\* connection_manager_new_connection: the connection goes to the slot of its id.
NewConnection(c) ==
  /\ pc = "idle"
  /\ c \notin connected
  /\ connected' = connected \cup {c}
  /\ UNCHANGED <<queue, enqueued, flushVars, wireVars>>

\* sending_service_enqueue_message, at the back of the queue of the lane.
EnqueueMessage(l, k) ==
  /\ pc = "idle"
  /\ l[1] \in connected
  /\ enqueued[l] < MaxEnqueued
  /\ Len(queue[l]) < MaxPending
  /\ enqueued' = [enqueued EXCEPT ![l] = @ + 1]
  /\ queue' = [queue EXCEPT ![l] = Append(@, [rank |-> enqueued[l] + 1, kind |-> k])]
  /\ UNCHANGED <<connected, flushVars, wireVars>>

-----------------------------------------------------------------------------
(* sending_service_flush.                                                  *)

\* Fault: the walk over the bag resumes where the last one ended.
BeginFlushWithoutReset ==
  /\ pc = "idle"
  /\ pc' = "slot"
  /\ UNCHANGED <<queueVars, cursor, created, packet, wireVars>>

BeginFlush ==
  /\ pc = "idle"
  /\ \A l \in Lanes : Len(wire[l]) < MaxInFlight
  /\ pc' = "slot"
  /\ cursor' = 0
  /\ UNCHANGED <<queueVars, created, packet, wireVars>>

\* An empty slot is passed over; past the last slot the flush returns 0.
EndFlush ==
  /\ pc = "slot"
  /\ cursor >= Capacity
  /\ pc' = "idle"
  /\ UNCHANGED <<queueVars, cursor, created, packet, wireVars>>

SkipSlot ==
  /\ pc = "slot"
  /\ cursor < Capacity
  /\ cursor \notin connected
  /\ cursor' = cursor + 1
  /\ UNCHANGED <<queueVars, pc, created, packet, wireVars>>

\* A packet is created for a channel only if its queue holds something.
EnterSlot ==
  /\ pc = "slot"
  /\ cursor \in connected
  /\ created' = {ch \in Channels : queue[Lane(ch)] # <<>>}
  /\ packet' = [ch \in Channels |-> EmptyPacket]
  /\ pc' = "build_unreliable"
  /\ UNCHANGED <<queueVars, cursor, wireVars>>

Building(ch) ==
  \/ ch = Unreliable /\ pc = "build_unreliable"
  \/ ch = Reliable /\ pc = "build_reliable"

AfterBuilding(ch) == IF ch = Unreliable THEN "build_reliable" ELSE "send_unreliable"

\* Fault: the last message a packet may hold is refused.
CanAddStrict(p, k) ==
  /\ Len(p.messages) + 1 < MaxMessagesPerPacket
  /\ p.measured + Measured[k] <= PacketBits

\* packet_can_add_message: neither the header nor the padding is counted.
CanAdd(p, k) ==
  /\ Len(p.messages) + 1 <= MaxMessagesPerPacket
  /\ p.measured + Measured[k] <= PacketBits

\* Fault: the message is pushed to the front of the packet's list.
AddToFront(p, m) ==
  [messages |-> <<m>> \o p.messages,
   measured |-> p.measured + Measured[m.kind],
   written  |-> p.written + Written[m.kind]]

AddTo(p, m) ==
  [messages |-> Append(p.messages, m),
   measured |-> p.measured + Measured[m.kind],
   written  |-> p.written + Written[m.kind]]

\* Fault: the message is added without being removed from the queue.
AddMessageKeepsHead(ch) ==
  /\ Building(ch)
  /\ queue[Lane(ch)] # <<>>
  /\ CanAdd(packet[ch], Head(queue[Lane(ch)]).kind)
  /\ packet' = [packet EXCEPT ![ch] = AddTo(@, Head(queue[Lane(ch)]))]
  /\ UNCHANGED <<queueVars, pc, cursor, created, wireVars>>

\* One turn of the loop of build_packet whose message fits.
AddMessage(ch) ==
  /\ Building(ch)
  /\ queue[Lane(ch)] # <<>>
  /\ LET m == Head(queue[Lane(ch)])
     IN /\ m.kind \notin OutOfRange
        /\ CanAdd(packet[ch], m.kind)
        /\ packet' = [packet EXCEPT ![ch] = AddTo(@, m)]
  /\ queue' = [queue EXCEPT ![Lane(ch)] = Tail(@)]
  /\ UNCHANGED <<connected, enqueued, pc, cursor, created, wireVars>>

\* Fault: the queue is cleared when a message does not fit.
DropOverflowClearsQueue(ch) ==
  /\ Building(ch)
  /\ queue[Lane(ch)] # <<>>
  /\ ~CanAdd(packet[ch], Head(queue[Lane(ch)]).kind)
  /\ lost' = [lost EXCEPT ![Lane(ch)] = @ \cup Ranks(queue[Lane(ch)])]
  /\ queue' = [queue EXCEPT ![Lane(ch)] = <<>>]
  /\ pc' = AfterBuilding(ch)
  /\ UNCHANGED <<connected, enqueued, cursor, created, packet, wire, received>>

\* The message that does not fit ends the loop, but it has already left the
\* queue: nobody holds it any more.
DropOverflow(ch) ==
  /\ Building(ch)
  /\ queue[Lane(ch)] # <<>>
  /\ LET m == Head(queue[Lane(ch)])
     IN /\ m.kind \notin OutOfRange
        /\ ~CanAdd(packet[ch], m.kind)
        /\ lost' = [lost EXCEPT ![Lane(ch)] = @ \cup {m.rank}]
  /\ queue' = [queue EXCEPT ![Lane(ch)] = Tail(@)]
  /\ pc' = AfterBuilding(ch)
  /\ UNCHANGED <<connected, enqueued, cursor, created, packet, wire, received>>

\* The queue is empty (or was, and no packet was created).
FinishBuilding(ch) ==
  /\ Building(ch)
  /\ queue[Lane(ch)] = <<>>
  /\ pc' = AfterBuilding(ch)
  /\ UNCHANGED <<queueVars, cursor, created, packet, wireVars>>

\* Measuring a value outside its range fails the assertion of the measure
\* stream and ends the process, with every queue and packet it held.
AbortOnRange(ch) ==
  /\ Building(ch)
  /\ queue[Lane(ch)] # <<>>
  /\ Head(queue[Lane(ch)]).kind \in OutOfRange
  /\ pc' = "aborted"
  /\ UNCHANGED <<queueVars, cursor, created, packet, wireVars>>

\* The unreliable packet goes first.
Sending(ch) ==
  \/ ch = Unreliable /\ pc = "send_unreliable"
  \/ ch = Reliable /\ pc = "send_reliable"

\* Fault: the reliable packet is forgotten once the unreliable one is sent.
AfterSendingEither(ch) == "slot"
AfterSending(ch) == IF ch = Unreliable THEN "send_reliable" ELSE "slot"
\* Fault: the walk moves on after each packet.
NextSlotAlways(ch) == cursor + 1
NextSlot(ch) == IF ch = Unreliable THEN cursor ELSE cursor + 1

\* Fault: the seal trusts the bits that were measured.
SealableAsMeasured(p) == HeaderBits + p.measured <= PacketBits

\* packet_seal fails when the write stream runs out of words.
Sealable(p) == HeaderBits + p.written <= PacketBits

NothingToSend(ch) ==
  /\ Sending(ch)
  /\ ch \notin created
  /\ pc' = AfterSending(ch)
  /\ cursor' = NextSlot(ch)
  /\ UNCHANGED <<queueVars, created, packet, wireVars>>

SendPacket(ch) ==
  /\ Sending(ch)
  /\ ch \in created
  /\ Sealable(packet[ch])
  /\ wire' = [wire EXCEPT ![Lane(ch)] = Append(@, packet[ch].messages)]
  /\ packet' = [packet EXCEPT ![ch] = EmptyPacket]
  /\ created' = created \ {ch}
  /\ pc' = AfterSending(ch)
  /\ cursor' = NextSlot(ch)
  /\ UNCHANGED <<queueVars, received, lost>>

\* A packet that cannot be sealed makes the flush return -1: every packet built
\* for this connection and not yet sent is gone, later connections wait for
\* the next flush.
SealFails(ch) ==
  /\ Sending(ch)
  /\ ch \in created
  /\ ~Sealable(packet[ch])
  /\ lost' = [l \in Lanes |->
                IF l[1] = cursor THEN lost[l] \cup Ranks(packet[l[2]].messages)
                                 ELSE lost[l]]
  /\ packet' = [c \in Channels |-> EmptyPacket]
  /\ created' = {}
  /\ pc' = "idle"
  /\ UNCHANGED <<queueVars, cursor, wire, received>>

-----------------------------------------------------------------------------
(* The data channels.                                                      *)

\* Fault: the newest packet is handled first.
DeliverNewest(l) ==
  /\ wire[l] # <<>>
  /\ received' = [received EXCEPT ![l] = @ \o wire[l][Len(wire[l])]]
  /\ wire' = [wire EXCEPT ![l] = SubSeq(@, 1, Len(@) - 1)]
  /\ UNCHANGED <<queueVars, flushVars, lost>>

\* The oldest packet arrives and its messages are handled in order.
Deliver(l) ==
  /\ wire[l] # <<>>
  /\ received' = [received EXCEPT ![l] = @ \o Head(wire[l])]
  /\ wire' = [wire EXCEPT ![l] = Tail(@)]
  /\ UNCHANGED <<queueVars, flushVars, lost>>

\* Fault: the reliable channel is opened with the options of the unreliable one.
LosePacketAnyLane(l) ==
  /\ wire[l] # <<>>
  /\ lost' = [lost EXCEPT ![l] = @ \cup Ranks(Head(wire[l]))]
  /\ wire' = [wire EXCEPT ![l] = Tail(@)]
  /\ UNCHANGED <<queueVars, flushVars, received>>

\* maxRetransmits: 0, ordered: true.  A packet that is late is dropped, so what
\* the other end sees is that some packets never come.
LosePacket(l) ==
  /\ l[2] = Unreliable
  /\ wire[l] # <<>>
  /\ lost' = [lost EXCEPT ![l] = @ \cup Ranks(Head(wire[l]))]
  /\ wire' = [wire EXCEPT ![l] = Tail(@)]
  /\ UNCHANGED <<queueVars, flushVars, received>>

-----------------------------------------------------------------------------
FlushStep ==
  \/ EndFlush
  \/ SkipSlot
  \/ EnterSlot
  \/ \E ch \in Channels :
       \/ AddMessage(ch)
       \/ DropOverflow(ch)
       \/ FinishBuilding(ch)
       \/ AbortOnRange(ch)
       \/ NothingToSend(ch)
       \/ SendPacket(ch)
       \/ SealFails(ch)

Next ==
  \/ \E c \in Ids : NewConnection(c)
  \/ \E l \in Lanes, k \in Kinds : EnqueueMessage(l, k)
  \/ BeginFlush
  \/ FlushStep
  \/ \E l \in Lanes : Deliver(l)
  \/ \E l \in Lanes : LosePacket(l)

Spec == Init /\ [][Next]_vars

\* The flush is called again and again by a repeating timer hook and, once
\* started, runs to its end; the reliable channel delivers what it accepted and
\* the unreliable one delivers or loses it.  New connections and messages may
\* come for ever or not at all.
Fairness ==
  /\ WF_vars(BeginFlush)
  /\ WF_vars(FlushStep)
  /\ \A l \in Lanes : WF_vars(Deliver(l) \/ LosePacket(l))

FairSpec == Spec /\ Fairness

-----------------------------------------------------------------------------
(* Properties.                                                             *)

\* Every variable has its type: queues, packets and wires hold messages with a
\* rank of their lane, the program counter is one of the steps of the flush.
TypeOK ==
  /\ connected \subseteq Ids
  /\ queue \in [Lanes -> Seq(Message)]
  /\ enqueued \in [Lanes -> Nat]
  /\ pc \in Steps
  /\ cursor \in 0 .. Capacity
  /\ created \subseteq Channels
  /\ packet \in [Channels -> Packet]
  /\ wire \in [Lanes -> Seq(Seq(Message))]
  /\ received \in [Lanes -> Seq(Message)]
  /\ lost \in [Lanes -> SUBSET Nat]

\* What a lane holds between the queue and the receiver, oldest first.
InPacket(l) == IF l[1] = cursor THEN packet[l[2]].messages ELSE <<>>
RanksOnWire(w) == UNION {Ranks(w[p]) : p \in DOMAIN w}
InFlight(l) == RanksOnWire(wire[l])

\* The other end reads the messages of a lane in the order in which they were
\* enqueued and none of them twice, whatever was lost on the way: what the
\* first-in first-out queues, the packet lists and the ordered channels are for.
ReceivedInOrder ==
  \A l \in Lanes : \A i, j \in DOMAIN received[l] :
    i < j => received[l][i].rank < received[l][j].rank

\* No message is invented, duplicated or forgotten: each one enqueued is in
\* exactly one place (read, lost, on the wire, in the packet under construction
\* or in the queue), however a flush ends.
EveryMessageAccounted ==
  \A l \in Lanes :
    LET read    == Ranks(received[l])
        flying  == InFlight(l)
        packed  == Ranks(InPacket(l))
        waiting == Ranks(queue[l])
    IN /\ read \cup lost[l] \cup flying \cup packed \cup waiting = 1 .. enqueued[l]
       /\ lost[l] \cap (read \cup flying \cup packed \cup waiting) = {}
       /\ read \cap (flying \cup packed \cup waiting) = {}
       /\ flying \cap (packed \cup waiting) = {}
       /\ packed \cap waiting = {}

\* The bits of a sealed packet, its header included.
SealedBits(messages) ==
  LET sizes[n \in 0 .. Len(messages)] ==
        IF n = 0 THEN HeaderBits ELSE sizes[n-1] + Written[messages[n].kind]
  IN sizes[Len(messages)]

\* A packet handed to a channel holds at most MAX_MESSAGES_PER_PACKET messages
\* and, its header included, fits the fixed packet size, although the loop that
\* fills it does not count the header or the padding.
PacketsWithinLimits ==
  \A l \in Lanes : \A p \in DOMAIN wire[l] :
    /\ Len(wire[l][p]) <= MaxMessagesPerPacket
    /\ SealedBits(wire[l][p]) <= PacketBits

\* Nothing enqueued as reliable is ever lost.
ReliableNeverLost == \A c \in Ids : lost[<<c, Reliable>>] = {}

\* When every message fits a packet alone, an overflowing queue loses isolated
\* messages only: the message after a lost one heads the next packet.
LossesAreIsolated ==
  \A c \in Ids : \A r \in lost[<<c, Reliable>>] : r + 1 \notin lost[<<c, Reliable>>]

\* From some time on no packet fails to seal.
FailuresEnd == <>[][\A ch \in Channels : ~ SealFails(ch)]_vars

\* If packets fail to seal only finitely often, a message enqueued on the
\* reliable lane of any connection is eventually read or lost for good: a flush
\* that fails delays the connections of later slots and no longer.  Without the
\* condition it is false: sending_service_flush returns at the first failure and
\* the next one starts over at slot 0, so a connection that failed at every flush
\* would keep those of later slots waiting for ever.
EveryMessageSettles ==
  FailuresEnd =>
    \A c \in Ids : \A r \in 1 .. MaxEnqueued :
      LET l == <<c, Reliable>>
      IN (r <= enqueued[l]) ~> (r \in Ranks(received[l]) \cup lost[l])

\* Under a load that fits the packets, a reliable message is eventually read.
EveryReliableMessageArrives ==
  \A c \in Ids : \A r \in 1 .. MaxEnqueued :
    LET l == <<c, Reliable>>
    IN (r <= enqueued[l]) ~> (r \in Ranks(received[l]))

-----------------------------------------------------------------------------
(* What a lane promises to the game.                                       *)

RankSeq(s) == [i \in DOMAIN s |-> s[i].rank]

\* The ranks on a wire, packet after packet.
WireRanks(w) ==
  LET flat[p \in 0 .. Len(w)] == IF p = 0 THEN <<>> ELSE flat[p-1] \o RankSeq(w[p])
  IN flat[Len(w)]

Pending ==
  [l \in Lanes |-> WireRanks(wire[l]) \o RankSeq(InPacket(l)) \o RankSeq(queue[l])]

AnyLane == INSTANCE MessageLanes WITH
  Lossy <- Lanes, accepted <- enqueued, pending <- Pending,
  got <- [l \in Lanes |-> RankSeq(received[l])]

UnreliableLane == INSTANCE MessageLanes WITH
  Lossy <- {l \in Lanes : l[2] = Unreliable}, accepted <- enqueued, pending <- Pending,
  got <- [l \in Lanes |-> RankSeq(received[l])]

\* The queues, packets and channels together are first-in first-out lanes that
\* may lose messages.
ImplementsLossyLanes == AnyLane!Spec

\* Under a load that fits the packets, only the unreliable lanes lose messages:
\* a reliable lane is a perfect first-in first-out channel.
ImplementsReliableLanes == UnreliableLane!Spec
=============================================================================
