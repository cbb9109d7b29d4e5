---------------------------- MODULE MCSendingService ----------------------------
(* Instances of SendingService for TLC.                                    *)
EXTENDS SendingService

\* One kind of message of the size of most of the game's messages.
SmallKinds == {"small"}
SmallSize == [k \in SmallKinds |-> 9]

\* Scaled sizes under a 10-bit packet with a one-bit header: two messages are
\* measured to fit, but the padding makes them too long for the write stream.
PaddedKinds == {"padded"}
PaddedMeasured == [k \in PaddedKinds |-> 4]
PaddedWritten == [k \in PaddedKinds |-> 6]

\* A message in range and one that is not, such as a ROUND_OVER with a score
\* of 6.
RangeKinds == {"plain", "score"}
RangeSize == [k \in RangeKinds |-> 4]
RangeBad == {"score"}
NoKinds == {}

\* The game never stops sending: when nothing of a lane is on its way its count
\* starts again, as the ranks are numbers only the model gives.
Recount(l) ==
  /\ enqueued[l] > 0
  /\ queue[l] = <<>> /\ InPacket(l) = <<>> /\ wire[l] = <<>>
  /\ enqueued' = [enqueued EXCEPT ![l] = 0]
  /\ received' = [received EXCEPT ![l] = <<>>]
  /\ lost' = [lost EXCEPT ![l] = {}]
  /\ UNCHANGED <<connected, queue, flushVars, wire>>

\* SendingService under traffic that may go on for ever.
EndlessSpec == Init /\ [][Next \/ \E l \in Lanes : Recount(l)]_vars /\ Fairness
=============================================================================
