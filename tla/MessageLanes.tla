------------------------------ MODULE MessageLanes ------------------------------
(***************************************************************************)
(* What the game may expect of tdd_network: a set of lanes, each of which  *)
(* hands over the messages it accepted in the order in which it accepted   *)
(* them, each at most once.  Only the lanes in Lossy may forget a message. *)
(* Messages are numbered 1, 2, ... per lane.                               *)
(***************************************************************************)
EXTENDS Integers, Sequences

CONSTANTS Lanes, Lossy

VARIABLES
  accepted,  \* number of messages accepted by each lane
  pending,   \* accepted, not yet handed over and not forgotten, oldest first
  got        \* handed over, in order

vars == <<accepted, pending, got>>

Init ==
  /\ accepted = [l \in Lanes |-> 0]
  /\ pending = [l \in Lanes |-> <<>>]
  /\ got = [l \in Lanes |-> <<>>]

Accept(l) ==
  /\ accepted'[l] = accepted[l] + 1
  /\ pending'[l] = Append(pending[l], accepted[l] + 1)
  /\ got'[l] = got[l]

\* The oldest messages are handed over together.
HandOver(l) ==
  \E n \in 0 .. Len(pending[l]) :
    /\ got'[l] = got[l] \o SubSeq(pending[l], 1, n)
    /\ pending'[l] = SubSeq(pending[l], n + 1, Len(pending[l]))
    /\ accepted'[l] = accepted[l]

\* Messages in a row are forgotten together.
Forget(l) ==
  /\ l \in Lossy
  /\ \E i \in 0 .. Len(pending[l]) : \E j \in i .. Len(pending[l]) :
       pending'[l] = SubSeq(pending[l], 1, i) \o SubSeq(pending[l], j + 1, Len(pending[l]))
  /\ accepted'[l] = accepted[l]
  /\ got'[l] = got[l]

\* One call may act on several lanes at once.
Next == \A l \in Lanes : Accept(l) \/ HandOver(l) \/ Forget(l)

Spec == Init /\ [][Next]_vars
=============================================================================
