------------------------------- MODULE NetMessages -------------------------------
(***************************************************************************)
(* The messages of tdd_game1 and the packets that carry them: a packet     *)
(* takes messages while their measured size fits, is sealed, which writes  *)
(* them, and is read from the buffer by the peer.                          *)
(***************************************************************************)
EXTENDS BitStreams

CONSTANTS
  SampleMessages,   \* the messages that are packed
  FillMessages,     \* bound: those of them that come last in a packet of MaxMessages
  MaxMessages,      \* bound: messages of a packet
  BufferSize        \* size in bytes of the buffer of a packet

ASSUME NetMessagesAssumption == BufferSize \in Nat /\ MaxMessages \in Nat

MAX_MESSAGES_PER_PACKET == 5
MAX_MESSAGE_TYPES == 32
MAX_PLAYERS == 4
MAP_WIDTH == 15
MAP_HEIGHT == 11
TILE_SIZE == 32
BONUS_TYPES_COUNT == 7
MAX_REQUIRED_ROUNDS == 5
PLAYER_NICKNAME_MAX_LENGTH == 12
INT_MAX == 2147483647

-----------------------------------------------------------------------------
(* The members of each message, in the order they are serialized.          *)

PlayerId == Uint(0, MAX_PLAYERS)
Tile == <<Uint(0, MAP_WIDTH), Uint(0, MAP_HEIGHT)>>

Ping == <<Sint(0, MAX_PLAYERS), Uint(0, INT_MAX)>>
Pong == <<Uint(0, INT_MAX)>>
GameSettings == <<Uint(0, MAX_PLAYERS), Uint(0, 350), Uint(0, MAX_REQUIRED_ROUNDS)>>
PlayerConnected ==
  <<Sint(0, MAX_PLAYERS), Uint(0, 15), Bool>> \o GameSettings \o <<Uint(0, MAX_PLAYERS)>>
PlayerReady == <<Sint(0, MAX_PLAYERS)>>
GameReady == <<>>
RoundStart == <<>>
RoundOver == <<Sint(-1, MAX_PLAYERS)>> \o [i \in 1 .. MAX_PLAYERS |-> Uint(0, 5)]
PlayerPosition ==
  <<PlayerId, Uint(0, MAP_WIDTH * TILE_SIZE), Uint(0, MAP_HEIGHT * TILE_SIZE)>>
PlayerDropBomb == <<PlayerId>> \o Tile
PlayerExploded == <<PlayerId>>
GameOver == <<Sint(-1, MAX_PLAYERS)>>
BonusMap == [y \in 1 .. MAP_HEIGHT |-> Row(MAP_WIDTH, Uint(0, BONUS_TYPES_COUNT))]
PlayerPickupBonus == <<PlayerId>> \o Tile
PlayerApplyBonus == <<PlayerId, Uint(0, BONUS_TYPES_COUNT)>>
PlayerKickBomb == <<PlayerId>> \o Tile \o <<Sint(-1, 1), Sint(-1, 1)>>

\* The types of messages, numbered from 0, and net_messages_factory, which makes
\* no message of another type.
Factory ==
  <<Ping, Pong, PlayerConnected, PlayerReady, GameReady, RoundStart, RoundOver,
    PlayerPosition, PlayerDropBomb, PlayerExploded, GameOver, BonusMap,
    PlayerPickupBonus, PlayerApplyBonus, PlayerKickBomb>>
PLAYER_CONNECTED == 2

\* The nicknames follow the members of PLAYER_CONNECTED, as many as the last of
\* these says.
Nicknames(type, fs, vs) ==
  IF type # PLAYER_CONNECTED THEN <<>>
  ELSE [i \in 1 .. vs[Len(fs)] |-> ByteArray(PLAYER_NICKNAME_MAX_LENGTH)]

Members(m) ==
  LET fs == Factory[m.type + 1] IN fs \o Nicknames(m.type, fs, m.values)

\* A message of a type that the factory makes, whose members have values they can
\* take; on another one an assertion of the streams ends the process.
WellFormed(m) ==
  LET fs == Factory[m.type + 1]
      names == Nicknames(m.type, fs, m.values)
  IN /\ m = [type |-> m.type, values |-> m.values] /\ m.type \in 0 .. Len(Factory) - 1
     /\ m.values = [i \in 1 .. Len(fs) + Len(names) |-> m.values[i]]
     /\ \A i \in DOMAIN fs : m.values[i] \in Values(fs[i])
     /\ \A i \in DOMAIN names : m.values[Len(fs) + i] \in Values(names[i])

ASSUME SampleMessagesAssumption == \A m \in SampleMessages : WellFormed(m)

Type == Uint(0, MAX_MESSAGE_TYPES)
Count == Uint(0, MAX_MESSAGES_PER_PACKET)

\* net_message_serialize: the type is written and measured with the members;
\* the receiver has read it before.
WriteMessage(w, m) == Written(w, <<Type>> \o Members(m), <<m.type>> \o m.values)
MessageSize(m) == Measured(0, <<Type>> \o Members(m))

\* read_next_net_message; the value of a reader is the last member read.
ReadMessage(r) ==
  LET typed == ReadUint(r, Type)
      type == typed.value
      fs == Factory[type + 1]
      head == ReadMembers(typed, fs)
      tail == ReadMembers(head.reader, Nicknames(type, fs, head.values))
  IN IF typed.failed \/ type + 1 \notin DOMAIN Factory
     THEN [reader |-> [typed EXCEPT !.failed = TRUE], message |-> "NULL"]
     ELSE [reader |-> tail.reader,
           message |-> [type |-> type, values |-> head.values \o tail.values]]

-----------------------------------------------------------------------------
(* A packet on its way.                                                    *)

VARIABLES
  packet,    \* the packet to send: its messages, their measured size, its state
  buffer,    \* the words of its buffer once it is sealed
  received   \* what the peer reads from the buffer

packetVars == <<packet, buffer, received>>

Nothing == [reader |-> "none", messages |-> <<>>]

PacketInit ==
  /\ packet = [state |-> "open", messages |-> <<>>, number_of_bits |-> 0]
  /\ buffer = <<>>
  /\ received = Nothing

\* packet_can_add_message and packet_add_message.
AddMessage(m) ==
  /\ packet.state = "open"
  /\ Len(packet.messages) + 1 <= Lesser(MaxMessages, MAX_MESSAGES_PER_PACKET)
  /\ Len(packet.messages) + 1 = MaxMessages => m \in FillMessages
  /\ packet.number_of_bits + MessageSize(m) <= BufferSize * 8
  /\ packet' = [packet EXCEPT !.messages = Append(@, m), !.number_of_bits = @ + MessageSize(m)]
  /\ UNCHANGED <<buffer, received>>

\* packet_seal: the number of messages, the messages, and what is left in the
\* bit writer.
Seal ==
  /\ packet.state = "open" /\ packet.messages # <<>>
  /\ LET n == Len(packet.messages)
         header == WriteUint(Writer(BufferSize \div (WORD_SIZE \div 8)), Count, n)
         w[i \in 0 .. n] == IF i = 0 THEN header ELSE WriteMessage(w[i - 1], packet.messages[i])
         done == FlushWriter(w[n])
     IN /\ packet' = [packet EXCEPT !.state = IF done.failed THEN "failed" ELSE "sealed"]
        /\ buffer' = done.words
  /\ UNCHANGED received

\* packet_create_from_buffer, on a buffer as long as the one that was sealed.
Receive ==
  /\ packet.state = "sealed" /\ received = Nothing
  /\ LET size == BufferSize \div (WORD_SIZE \div 8)
         counted == ReadUint(Reader(buffer \o [i \in 1 .. size - Len(buffer) |-> Zeros(WORD_SIZE)]),
                             Count)
         n == counted.value
         read[i \in 0 .. n] ==
           IF i = 0 THEN [reader |-> counted, message |-> "NULL"] ELSE ReadMessage(read[i - 1].reader)
     IN received' = [reader |-> IF read[n].reader.failed THEN "NULL" ELSE "read",
                     messages |-> [i \in 1 .. n |-> read[i].message]]
  /\ UNCHANGED <<packet, buffer>>

PacketNext == (\E m \in SampleMessages : AddMessage(m)) \/ Seal \/ Receive

-----------------------------------------------------------------------------
\* The peer reads the messages that were packed, each with its members, whatever
\* came before it in the packet: the reader finds every boundary and padding
\* where the writer put it (write_stream.c, read_stream.c).
ReadsBackWhatWasPacked ==
  received # Nothing =>
    received.reader = "read" /\ received.messages = packet.messages

Connections == {i \in DOMAIN packet.messages : packet.messages[i].type = PLAYER_CONNECTED}

\* The measure leaves out the header and counts the words of strings too low and
\* their padding twice.  A packet with at most one PLAYER_CONNECTED is sealed all
\* the same, and within its buffer, when its measured size leaves room for the
\* header; with two it may not be (measure_stream.c, packet_can_add_message).
MeasureCoversWriting ==
  /\ packet.number_of_bits + BitsRequired(Count.min, Count.max) <= BufferSize * 8
  /\ \A i, j \in Connections : i = j
  => packet.state # "failed" /\ Len(buffer) <= BufferSize \div (WORD_SIZE \div 8)
=============================================================================
